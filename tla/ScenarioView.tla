---------------------------- MODULE ScenarioView ----------------------------
(***************************************************************************)
(* The scenario that the dashboard shows (DashboardClient.tsx), and the    *)
(* panel that injects events into it (LiveEventInjectionPanel.tsx): the    *)
(* selected variant, the variant in the URL, which follows by a navigation *)
(* whose server-rendered props come back later, and what two kinds of      *)
(* requests put on the screen: the effect that fetches the selected        *)
(* variant, and the refresh after an event.                                *)
(*                                                                         *)
(* Two variants, of one run and asset.  What is shown of a variant is the  *)
(* variant and its version, the number of events recalculated so far.  The *)
(* effects of a render are one step with it; every response is a step.     *)
(***************************************************************************)
EXTENDS Naturals

CONSTANTS Variants, None,
          MaxSelects, MaxSubmits, MaxBacks, MaxFailures \* bounds

ASSUME VariantAssumption == \E v, w \in Variants : v # w /\ Variants = {v, w} /\ None \notin Variants
ASSUME ViewBoundAssumption ==
    MaxSelects \in Nat /\ MaxSubmits \in Nat /\ MaxBacks \in Nat /\ MaxFailures \in Nat

Versions == 0 .. MaxSubmits
Unserved == MaxSubmits + 1
Shown    == [v : Variants, version : Versions]

VARIABLES active, url, pending,   \* activeVariantId, ?runVariantId, pendingUrlAlignRef
          navigation,             \* router.replace under way, the last one only
          crowd, personas, comparison, loading, \* on the screen
          request,                \* the effect's fetch and the panel's refresh
          panel,                  \* the event request of the panel
          version,                \* on the server
          used, failed, overtaken \* bounds, and history: see FreshAfterSubmit

screen == <<crowd, personas, comparison, loading>>
page   == <<active, url, pending, navigation>>
vars   == <<page, screen, request, panel, version, used, failed, overtaken>>

Kinds    == {"effect", "refresh"}
NoFetch  == [pc |-> "idle", v |-> CHOOSE v \in Variants : TRUE, crowd |-> Unserved, personas |-> Unserved]
NoNavigation == [to |-> None, version |-> Unserved]

TypeOK ==
    /\ active \in Variants /\ url \in Variants /\ pending \in Variants \cup {None}
    /\ navigation \in [to : Variants \cup {None}, version : Versions \cup {Unserved}]
    /\ crowd \in Shown /\ personas \in Shown \cup {None} /\ comparison \in Variants \cup {None}
    /\ loading \in BOOLEAN
    /\ request \in [Kinds -> [pc : {"idle", "sent", "crowd", "personas", "comparison"}, v : Variants,
                              crowd : Versions \cup {Unserved}, personas : Versions \cup {Unserved}]]
    /\ panel \in [pc : {"idle", "posting", "answered", "refresh"}, v : Variants]
    /\ version \in [Variants -> Versions]
    /\ used \in [selects : 0 .. MaxSelects, submits : Versions, backs : 0 .. MaxBacks, failures : 0 .. MaxFailures]
    /\ failed \in BOOLEAN /\ overtaken \in BOOLEAN

Fetch(v) == [NoFetch EXCEPT !.pc = "sent", !.v = v]
Other(v) == CHOOSE w \in Variants : w # v

\* Opened with a variant in the URL: rendered by the server, and mounted.
Init ==
    /\ active \in Variants /\ url = active /\ pending = None /\ navigation = NoNavigation
    /\ crowd = [v |-> active, version |-> 0] /\ personas = None /\ comparison = None /\ loading = FALSE
    /\ request = [k \in Kinds |-> IF k = "effect" THEN Fetch(active) ELSE NoFetch]
    /\ panel = [pc |-> "idle", v |-> active]
    /\ version = [v \in Variants |-> 0]
    /\ used = [selects |-> 0, submits |-> 0, backs |-> 0, failures |-> 0]
    /\ failed = FALSE /\ overtaken = FALSE

-----------------------------------------------------------------------------
\* Mutation: a fetch under way is waited for.
RefetchWhenIdle(v) ==
    request' = IF request["effect"].pc = "idle" THEN [request EXCEPT !["effect"] = Fetch(v)] ELSE request

\* The effect runs again: the fetch before is "cancelled" and goes unheard.
Refetch(v) == request' = [request EXCEPT !["effect"] = Fetch(v)]

\* What was missed before does not matter to the fetch that starts now.
Forget ==
    /\ failed' = FALSE
    /\ overtaken' = (overtaken /\ panel.pc # "idle")

\* Mutation: pendingUrlAlignRef is not set.
AligningNever(v) == None
Aligning(v) == v

\* selectScenarioById and switchScenario: not while loading, nor under the
\* overlay of the panel.  The URL effect navigates, unless the URL is right.
Select(v) ==
    /\ ~loading /\ panel.pc = "idle" /\ v # active
    /\ used.selects < MaxSelects /\ used' = [used EXCEPT !.selects = @ + 1]
    /\ active' = v /\ pending' = Aligning(v) /\ loading' = TRUE
    /\ navigation' = IF v = url THEN navigation ELSE [NoNavigation EXCEPT !.to = v]
    /\ Refetch(v) /\ Forget
    /\ UNCHANGED <<url, crowd, personas, comparison, panel, version>>

\* The URL in the props is v, the crowd state of v was rendered with them: the
\* URL effect navigates back when v is not the active variant; the sync effect
\* takes v over, unless another navigation is awaited; the fetch effect runs.
Commit(v, rendered) ==
    LET awaited == pending # None /\ pending # v
        next    == IF awaited THEN active ELSE v
    IN  /\ url' = v
        /\ navigation' = IF active = v THEN NoNavigation ELSE [NoNavigation EXCEPT !.to = active]
        /\ active' = next
        /\ pending' = IF awaited THEN pending ELSE None
        /\ crowd' = [v |-> v, version |-> rendered] /\ comparison' = None
        /\ loading' = (loading \/ next # active)
        /\ Refetch(next) /\ Forget
        /\ UNCHANGED <<personas, panel, version>>

Render ==
    /\ navigation.to # None /\ navigation.version = Unserved
    /\ navigation' = [navigation EXCEPT !.version = version[navigation.to]]
    /\ UNCHANGED <<active, url, pending, screen, request, panel, version, used, failed, overtaken>>

Navigate ==
    /\ navigation.version # Unserved
    /\ Commit(navigation.to, navigation.version)
    /\ UNCHANGED used

\* The browser's Back or Forward, to an entry of another variant (filters push
\* entries, the selection replaces them).
Back(v) ==
    /\ v # url /\ used.backs < MaxBacks /\ used' = [used EXCEPT !.backs = @ + 1]
    /\ Commit(v, version[v])

-----------------------------------------------------------------------------
(* A fetch: crowd state and personas of a variant, and the crowd state of  *)
(* the other, all awaited before any is taken.                             *)

ServeCrowd(k) ==
    /\ request[k].pc = "sent" /\ request[k].crowd = Unserved
    /\ request' = [request EXCEPT ![k].crowd = version[request[k].v]]
    /\ UNCHANGED <<page, screen, panel, version, used, failed, overtaken>>

ServePersonas(k) ==
    /\ request[k].pc = "sent" /\ request[k].personas = Unserved
    /\ request' = [request EXCEPT ![k].personas = version[request[k].v]]
    /\ UNCHANGED <<page, screen, panel, version, used, failed, overtaken>>

Receive(k) ==
    /\ request[k].pc = "sent" /\ request[k].crowd # Unserved /\ request[k].personas # Unserved
    /\ request' = [request EXCEPT ![k].pc = "crowd"]
    /\ UNCHANGED <<page, screen, panel, version, used, failed, overtaken>>

TakeCrowd(k) ==
    /\ request[k].pc = "crowd"
    /\ crowd' = [v |-> request[k].v, version |-> request[k].crowd]
    /\ request' = [request EXCEPT ![k].pc = "personas"]
    /\ UNCHANGED <<page, personas, comparison, loading, panel, version, used, failed, overtaken>>

TakePersonas(k) ==
    /\ request[k].pc = "personas"
    /\ personas' = [v |-> request[k].v, version |-> request[k].personas]
    /\ request' = [request EXCEPT ![k].pc = "comparison"]
    /\ UNCHANGED <<page, crowd, comparison, loading, panel, version, used, failed, overtaken>>

Finished(k) ==
    /\ request' = [request EXCEPT ![k] = NoFetch]
    /\ panel' = IF k = "refresh" THEN [panel EXCEPT !.pc = "idle"] ELSE panel

\* Mutation: no finally.
FinishLoading(k) ==
    /\ request[k].pc = "comparison"
    /\ comparison' = Other(request[k].v) /\ UNCHANGED loading
    /\ Finished(k)
    /\ UNCHANGED <<page, crowd, personas, version, used, failed, overtaken>>

Finish(k) ==
    /\ request[k].pc = "comparison"
    /\ comparison' = Other(request[k].v) /\ loading' = FALSE
    /\ Finished(k)
    /\ UNCHANGED <<page, crowd, personas, version, used, failed, overtaken>>

Failing == used.failures < MaxFailures /\ used' = [used EXCEPT !.failures = @ + 1] /\ failed' = TRUE

\* No response, or a body that is no JSON when its turn comes: the effect clears
\* personas and comparison, and leaves the crowd state; the refresh leaves all.
Lose(k) ==
    /\ request[k].pc # "idle" /\ Failing
    /\ IF k = "effect" THEN personas' = None /\ comparison' = None ELSE UNCHANGED <<personas, comparison>>
    /\ loading' = FALSE
    /\ Finished(k)
    /\ UNCHANGED <<page, crowd, version, overtaken>>

\* A crowd state that is refused (not ok) or does not parse is not taken.
RefuseCrowd(k) ==
    /\ request[k].pc = "crowd" /\ Failing
    /\ request' = [request EXCEPT ![k].pc = "personas"]
    /\ UNCHANGED <<page, screen, panel, version, overtaken>>

\* Personas that are refused or no list: those before stay.
RefusePersonas(k) ==
    /\ request[k].pc = "personas" /\ Failing
    /\ request' = [request EXCEPT ![k].pc = "comparison"]
    /\ UNCHANGED <<page, screen, panel, version, overtaken>>

\* A comparison that is refused is none; one that does not parse leaves the one
\* before in the effect, and is none in the refresh.
RefuseComparison(k) ==
    /\ request[k].pc = "comparison" /\ Failing
    /\ comparison' = None \/ (k = "effect" /\ comparison' = comparison)
    /\ loading' = FALSE
    /\ Finished(k)
    /\ UNCHANGED <<page, crowd, personas, version, overtaken>>

Miss(k) == Lose(k) \/ RefuseCrowd(k) \/ RefusePersonas(k) \/ RefuseComparison(k)

-----------------------------------------------------------------------------
(* The panel: inject, reset or undo for the active variant, disabled while *)
(* one is under way.                                                       *)

Submit ==
    /\ panel.pc = "idle"
    /\ used.submits < MaxSubmits /\ used' = [used EXCEPT !.submits = @ + 1]
    /\ panel' = [pc |-> "posting", v |-> active]
    /\ overtaken' = (overtaken \/ request["effect"].pc # "idle" \/ navigation # NoNavigation)
    /\ UNCHANGED <<page, screen, request, version, failed>>

Recalculate ==
    /\ panel.pc = "posting"
    /\ version' = [version EXCEPT ![panel.v] = @ + 1]
    /\ panel' = [panel EXCEPT !.pc = "answered"]
    /\ UNCHANGED <<page, screen, request, used, failed, overtaken>>

\* Mutation: the refresh is forgotten.
RefreshNever ==
    /\ panel.pc = "answered" /\ panel' = [panel EXCEPT !.pc = "idle"]
    /\ UNCHANGED <<page, screen, request, version, used, failed, overtaken>>

\* refreshSimulationDashboardState, of the variant that is active by now.
Refresh ==
    /\ panel.pc = "answered" /\ panel' = [panel EXCEPT !.pc = "refresh"]
    /\ request' = [request EXCEPT !["refresh"] = Fetch(active)]
    /\ loading' = TRUE
    /\ UNCHANGED <<page, crowd, personas, comparison, version, used, failed, overtaken>>

\* An error, before the recalculation or after it: no refresh.
SubmitFails ==
    /\ panel.pc \in {"posting", "answered"} /\ Failing
    /\ panel' = [panel EXCEPT !.pc = "idle"]
    /\ UNCHANGED <<page, screen, request, version, overtaken>>

Proceed(k) ==
    \/ ServeCrowd(k) \/ ServePersonas(k) \/ Receive(k)
    \/ TakeCrowd(k) \/ TakePersonas(k) \/ Finish(k)

Next ==
    \/ Render \/ Navigate \/ Recalculate \/ Refresh
    \/ Submit \/ SubmitFails
    \/ \E v \in Variants : Select(v) \/ Back(v)
    \/ \E k \in Kinds : Proceed(k) \/ Miss(k)

\* Every request is answered, every answer is taken.
Fairness ==
    /\ WF_vars(Render) /\ WF_vars(Navigate) /\ WF_vars(Recalculate) /\ WF_vars(Refresh)
    /\ \A k \in Kinds : WF_vars(Proceed(k))

Spec == Init /\ [][Next]_vars /\ Fairness

-----------------------------------------------------------------------------
Quiet == navigation = NoNavigation /\ panel.pc = "idle" /\ \A k \in Kinds : request[k].pc = "idle"

\* Once all responses are in, whatever their order, the screen shows the
\* selected variant, in all its parts, and the URL names it; "LOADING
\* SCENARIO..." is gone, even when requests failed.
ShownIsSelected ==
    Quiet =>
      /\ url = active /\ ~loading
      /\ ~failed => crowd.v = active /\ personas.v = active /\ comparison = Other(active)

\* "Crowd panels refresh after submit": ... and as it is on the server, unless
\* an event was submitted while the variant was still being fetched.
FreshAfterSubmit ==
    Quiet /\ ~failed /\ ~overtaken =>
      crowd.version = version[active] /\ personas.version = version[active]

\* The page comes to rest, unless the URL was changed from outside: variants
\* selected in quick succession, late renders and refreshes do not make
\* selection and URL chase each other.
SettlesAlone == [](used.backs = 0) => <>[]Quiet
=============================================================================
