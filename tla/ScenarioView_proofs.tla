------------------------- MODULE ScenarioView_proofs -------------------------
(***************************************************************************)
(* Theorems about ScenarioView for any number of selections, submissions,  *)
(* uses of Back and failed requests: the two safety properties, which say  *)
(* what is on the screen once all responses are in, follow from what holds *)
(* while they are under way.                                               *)
(***************************************************************************)
EXTENDS ScenarioView, TLAPS

-----------------------------------------------------------------------------
(* The inductive invariant.                                                *)

\* An event that is posted is not counted by the server yet.
Posted  == IF panel.pc = "posting" THEN 1 ELSE 0
Counted == \A v \in Variants : version[v] + Posted <= used.submits

\* Selection and URL chase each other: each navigation, taken over, makes the
\* URL effect navigate back.  Only a selection, not under the panel's overlay,
\* ends it.
Chasing == pending = None /\ navigation.to # None

\* Where a navigation goes, and what selection it is awaited for.
Aligned ==
    /\ pending \in {None, active}
    /\ pending = None => url = active
    /\ navigation.to = None => navigation = NoNavigation /\ pending = None
    /\ navigation.to # None => navigation.to # url

\* A response is taken when both of its parts are in.
Received ==
    \A k \in Kinds :
      /\ request[k].pc \in {"crowd", "personas"} => request[k].personas # Unserved
      /\ request[k].pc = "crowd" => request[k].crowd # Unserved

\* The effect fetches what is selected; so does the refresh, or the variant it
\* was sent for was left, and then the chase is on.
OfActive ==
    /\ request["effect"].pc # "idle" => request["effect"].v = active
    /\ request["refresh"].pc # "idle" /\ ~Chasing => request["refresh"].v = active
    /\ request["refresh"].pc # "idle" <=> panel.pc = "refresh"
    /\ loading => \E k \in Kinds : request[k].pc # "idle"

\* What is not of the selected variant, the effect is still to replace.
Replaced ==
    ~failed /\ ~Chasing =>
      /\ request["effect"].pc \in {"sent", "crowd"} \/ crowd.v = active
      /\ request["effect"].pc \in {"sent", "crowd", "personas"} \/ personas.v = active
      /\ request["effect"].pc # "idle" \/ comparison = Other(active)

\* Requests of the panel do not overlap with a fetch of the effect, else they
\* are "overtaken", or selection and URL chase each other.
Apart ==
    ~overtaken /\ ~Chasing /\ panel.pc # "idle" =>
      navigation = NoNavigation /\ request["effect"].pc = "idle" /\ panel.v = active

\* The fetch k gets, and puts on the screen, what is on the server.
UpToDate(k) ==
    /\ request[k].pc \in {"sent", "crowd"} => request[k].crowd \in {Unserved, version[active]}
    /\ request[k].pc \in {"sent", "crowd", "personas"} => request[k].personas \in {Unserved, version[active]}
    /\ request[k].pc \notin {"sent", "crowd"} => crowd.version = version[active]
    /\ request[k].pc \notin {"sent", "crowd", "personas"} => personas.version = version[active]

\* Before the recalculation the effect's fetch is up to date, after it the
\* refresh is.
Current ==
    ~failed /\ ~overtaken /\ ~Chasing =>
      /\ panel.pc \in {"idle", "posting"} => UpToDate("effect")
      /\ panel.pc = "refresh" => UpToDate("refresh")

Inv == /\ TypeOK /\ Counted /\ Aligned /\ Received
       /\ OfActive /\ Replaced /\ Apart /\ Current

-----------------------------------------------------------------------------
(* The values the variables range over.                                    *)

Stages    == {"idle", "sent", "crowd", "personas", "comparison"}
Responses == Versions \cup {Unserved}
Requests  == [pc : Stages, v : Variants, crowd : Responses, personas : Responses]

LEMMA TwoVariants ==
  /\ None \notin Variants
  /\ \E v \in Variants : TRUE
  /\ \A u, v, w \in Variants : u # w /\ v # w => u = v
  /\ \A v \in Variants : Other(v) \in Variants
<1>1. PICK v \in Variants, w \in Variants :
        v # w /\ Variants = {v, w} /\ None \notin Variants
  BY VariantAssumption
<1>2. \A u \in Variants : \E x \in Variants : x # u
  BY <1>1
<1>3. \A u \in Variants : Other(u) \in Variants
  BY <1>2 DEF Other
<1>. QED
  BY <1>1, <1>3

LEMMA VersionNumbers ==
  /\ Versions \subseteq Nat /\ 0 \in Versions /\ Unserved \in Nat /\ Unserved \notin Versions
  /\ \A n \in Nat : n \in Versions <=> n <= MaxSubmits
BY ViewBoundAssumption DEF Versions, Unserved

LEMMA NoFetchIs ==
  /\ NoFetch \in Requests /\ NoFetch.pc = "idle"
  /\ NoFetch.crowd = Unserved /\ NoFetch.personas = Unserved
<1>1. (CHOOSE v \in Variants : TRUE) \in Variants
  BY TwoVariants
<1>. QED
  BY <1>1 DEF NoFetch, Requests, Stages, Responses

LEMMA FetchIs ==
  ASSUME NEW v \in Variants
  PROVE  Fetch(v) = [pc |-> "sent", v |-> v, crowd |-> Unserved, personas |-> Unserved]
<1> DEFINE w == CHOOSE u \in Variants : TRUE
<1>1. NoFetch = [pc |-> "idle", v |-> w, crowd |-> Unserved, personas |-> Unserved]
  BY DEF NoFetch
<1>2. Fetch(v) = [[pc |-> "idle", v |-> w, crowd |-> Unserved, personas |-> Unserved]
                    EXCEPT !.pc = "sent", !.v = v]
  BY <1>1, Zenon DEF Fetch
<1> HIDE DEF w
<1>. QED
  BY <1>2

LEMMA RequestTypes ==
  ASSUME TypeOK
  PROVE  /\ request \in [Kinds -> Requests]
         /\ request["effect"] \in Requests /\ request["refresh"] \in Requests
BY DEF TypeOK, Requests, Stages, Responses, Kinds

\* What is put in place of a request k.
LEMMA Requested ==
  ASSUME TypeOK, NEW k \in Kinds, NEW r \in Requests,
         request' = [request EXCEPT ![k] = r]
  PROVE  /\ request' \in [Kinds -> Requests]
         /\ request'[k] = r
         /\ \A j \in Kinds \ {k} : request'[j] = request[j]
BY RequestTypes

-----------------------------------------------------------------------------
(* The initial states.                                                     *)

LEMMA InitInv == Init => Inv
<1> SUFFICES ASSUME Init PROVE Inv
  OBVIOUS
<1> USE VersionNumbers, TwoVariants
<1>1. active \in Variants
  BY DEF Init
<1>2. /\ request \in [Kinds -> Requests]
      /\ request["effect"] = [pc |-> "sent", v |-> active, crowd |-> Unserved, personas |-> Unserved]
      /\ request["refresh"] = NoFetch
  BY <1>1, FetchIs, NoFetchIs DEF Init, Kinds, Requests, Stages, Responses
<1>3. TypeOK
  <2>1. request \in [Kinds -> [pc : Stages, v : Variants, crowd : Responses, personas : Responses]]
    BY <1>2 DEF Requests
  <2>2. used \in [selects : 0 .. MaxSelects, submits : Versions, backs : 0 .. MaxBacks,
                  failures : 0 .. MaxFailures]
    BY ViewBoundAssumption DEF Init
  <2>. QED
    BY <1>1, <2>1, <2>2 DEF Init, TypeOK, NoNavigation, Shown, Stages, Responses
<1>4. Counted
  <2>1. used.submits = 0 /\ Posted = 0 /\ \A v \in Variants : version[v] = 0
    BY DEF Init, Posted
  <2>2. \A v \in Variants : version[v] + Posted <= used.submits
    BY <2>1, 0 + 0 <= 0, Zenon
  <2>. QED
    BY <2>2 DEF Counted
<1>5. Aligned
  BY DEF Init, Aligned, NoNavigation
<1>6. Received
  BY <1>2, NoFetchIs DEF Received, Kinds
<1>7. OfActive
  BY <1>2, NoFetchIs DEF OfActive, Init
<1>8. Replaced
  BY <1>2 DEF Replaced
<1>9. Apart
  BY DEF Apart, Init
<1>10. Current
  BY <1>2 DEF Current, UpToDate, Init
<1>. QED
  BY <1>3, <1>4, <1>5, <1>6, <1>7, <1>8, <1>9, <1>10 DEF Inv

-----------------------------------------------------------------------------
(* Navigation.                                                             *)

\* The route of another variant commits.
LEMMA CommitKeeps ==
  ASSUME Inv, NEW v \in Variants, v # url, NEW rendered \in Versions, Commit(v, rendered),
         used' \in [selects : 0 .. MaxSelects, submits : Versions, backs : 0 .. MaxBacks,
                    failures : 0 .. MaxFailures],
         used'.submits = used.submits
  PROVE  Inv'
<1> USE VersionNumbers, TwoVariants
<1> DEFINE next == IF pending # None /\ pending # v THEN active ELSE v
<1>0. /\ next \in Variants /\ active' = next /\ request' = [request EXCEPT !["effect"] = Fetch(next)]
  BY DEF Commit, Refetch, Inv, TypeOK
<1> HIDE DEF next
<1>1. Fetch(next) = [pc |-> "sent", v |-> next, crowd |-> Unserved, personas |-> Unserved]
  BY <1>0, FetchIs
<1>2. Fetch(next) \in Requests
  BY <1>0, <1>1 DEF Requests, Stages, Responses
<1>3. /\ request' \in [Kinds -> Requests]
      /\ request'["effect"] = [pc |-> "sent", v |-> active', crowd |-> Unserved, personas |-> Unserved]
      /\ request'["refresh"] = request["refresh"]
  BY <1>0, <1>1, <1>2, Requested DEF Kinds, Inv
<1>4. Aligned'
  BY <1>0 DEF Commit, Aligned, Inv, TypeOK, NoNavigation, next
\* Without a selection that is waited for, the chase begins, or goes on.
<1>5. pending = None => Chasing'
  BY <1>0 DEF Commit, Aligned, Inv, TypeOK, NoNavigation, Chasing, next
<1>6. ~Chasing' => pending # None /\ navigation # NoNavigation /\ active' = active
  <2>1. SUFFICES ASSUME ~Chasing' PROVE navigation # NoNavigation /\ active' = active
    BY <1>5
  <2>2. pending # None
    BY <2>1, <1>5
  <2>3. navigation.to # None
    BY <2>2 DEF Inv, Aligned
  <2>4. active' = active
    BY <2>2, <1>0 DEF next, Inv, Aligned
  <2>. QED
    BY <2>3, <2>4 DEF NoNavigation
<1>7. TypeOK'
  <2>1. request' \in [Kinds -> [pc : Stages, v : Variants, crowd : Responses, personas : Responses]]
    BY <1>3 DEF Requests
  <2>2. navigation' \in [to : Variants \cup {None}, version : Versions \cup {Unserved}]
    BY DEF Commit, Inv, TypeOK, NoNavigation
  <2>3. crowd' \in Shown
    BY DEF Commit, Shown
  <2>4. active' \in Variants /\ url' \in Variants /\ pending' \in Variants \cup {None}
    BY <1>0 DEF Commit, Inv, TypeOK
  <2>5. loading' \in BOOLEAN /\ failed' \in BOOLEAN /\ overtaken' \in BOOLEAN
    BY DEF Commit, Forget, Inv, TypeOK
  <2>. QED
    BY <2>1, <2>2, <2>3, <2>4, <2>5 DEF Commit, Inv, TypeOK, Stages, Responses
<1>8. Counted'
  BY DEF Commit, Counted, Posted, Inv
<1>9. Received'
  BY <1>3 DEF Received, Inv, Kinds
<1>10. OfActive'
  <2>1. request'["refresh"].pc # "idle" /\ ~Chasing' => request'["refresh"].v = active'
    <3>1. ~Chasing' => ~Chasing
      BY <1>6 DEF Chasing
    <3>. QED
      BY <3>1, <1>3, <1>6 DEF Inv, OfActive
  <2>2. request'["refresh"].pc # "idle" <=> panel'.pc = "refresh"
    BY <1>3 DEF Inv, OfActive, Commit
  <2>3. \E k \in Kinds : request'[k].pc # "idle"
    BY <1>3 DEF Kinds
  <2>. QED
    BY <2>1, <2>2, <2>3, <1>3 DEF OfActive
<1>11. Replaced'
  BY <1>3 DEF Replaced
\* An event under way was overtaken by the navigation that was awaited.
<1>12. ~overtaken' /\ ~Chasing' => panel.pc = "idle"
  <2>1. SUFFICES ASSUME ~overtaken', ~Chasing', panel.pc # "idle" PROVE FALSE
    OBVIOUS
  <2>2. ~overtaken
    BY <2>1 DEF Commit, Forget, Inv, TypeOK
  <2>3. ~Chasing
    BY <2>1, <1>6 DEF Chasing
  <2>. QED
    BY <2>1, <2>2, <2>3, <1>6 DEF Inv, Apart
<1>13. Apart'
  BY <1>12 DEF Apart, Commit
<1>14. Current'
  <2>1. UpToDate("effect")'
    BY <1>3 DEF UpToDate
  <2>. QED
    BY <2>1, <1>12 DEF Current, Commit
<1>. QED
  BY <1>4, <1>7, <1>8, <1>9, <1>10, <1>11, <1>13, <1>14 DEF Inv

LEMMA NavigateKeeps ==
  ASSUME Inv, Navigate
  PROVE  Inv'
<1> USE VersionNumbers, TwoVariants
<1>1. /\ navigation.version # Unserved /\ Commit(navigation.to, navigation.version) /\ UNCHANGED used
      /\ navigation \in [to : Variants \cup {None}, version : Versions \cup {Unserved}]
  BY DEF Navigate, Inv, TypeOK
<1>2. navigation.to # None
  BY <1>1 DEF Inv, Aligned, NoNavigation
<1>3. navigation.to \in Variants /\ navigation.to # url /\ navigation.version \in Versions
  BY <1>1, <1>2 DEF Inv, Aligned
<1>4. used' \in [selects : 0 .. MaxSelects, submits : Versions, backs : 0 .. MaxBacks,
                 failures : 0 .. MaxFailures]
  BY <1>1 DEF Inv, TypeOK
<1>. QED
  BY <1>1, <1>3, <1>4, CommitKeeps

LEMMA BackKeeps ==
  ASSUME Inv, NEW v \in Variants, Back(v)
  PROVE  Inv'
<1>1. /\ v # url /\ used.backs < MaxBacks /\ used' = [used EXCEPT !.backs = @ + 1]
      /\ Commit(v, version[v]) /\ version[v] \in Versions
      /\ used \in [selects : 0 .. MaxSelects, submits : Versions, backs : 0 .. MaxBacks,
                   failures : 0 .. MaxFailures]
  BY DEF Back, Inv, TypeOK
<1>2. used.backs + 1 \in 0 .. MaxBacks
  BY <1>1, ViewBoundAssumption
<1>3. /\ used' \in [selects : 0 .. MaxSelects, submits : Versions, backs : 0 .. MaxBacks,
                    failures : 0 .. MaxFailures]
      /\ used'.submits = used.submits
  BY <1>1, <1>2
<1>. QED
  BY <1>1, <1>3, CommitKeeps

LEMMA RenderKeeps ==
  ASSUME Inv, Render
  PROVE  Inv'
<1> USE VersionNumbers, TwoVariants
<1>1. /\ navigation' = [navigation EXCEPT !.version = version[navigation.to]]
      /\ navigation.to # None /\ UNCHANGED <<active, url, pending, crowd, personas, comparison, loading>>
      /\ UNCHANGED <<request, panel, version, used, failed, overtaken>>
  BY DEF Render, screen
<1>2. /\ navigation \in [to : Variants \cup {None}, version : Versions \cup {Unserved}]
      /\ version[navigation.to] \in Versions
  BY <1>1 DEF Inv, TypeOK
<1>3. /\ navigation' \in [to : Variants \cup {None}, version : Versions \cup {Unserved}]
      /\ navigation'.to = navigation.to /\ navigation # NoNavigation
  BY <1>1, <1>2 DEF NoNavigation
<1>4. Chasing' <=> Chasing
  BY <1>1, <1>3 DEF Chasing
<1>5. TypeOK'
  BY <1>1, <1>3 DEF Inv, TypeOK
<1>6. Counted'
  BY <1>1 DEF Inv, Counted, Posted
<1>7. Aligned'
  BY <1>1, <1>3 DEF Inv, Aligned
<1>8. Received'
  BY <1>1 DEF Inv, Received
<1>9. OfActive'
  BY <1>1, <1>4 DEF Inv, OfActive
<1>10. Replaced'
  BY <1>1, <1>4 DEF Inv, Replaced
<1>11. Apart'
  BY <1>1, <1>3, <1>4 DEF Inv, Apart
<1>12. Current'
  BY <1>1, <1>4 DEF Inv, Current, UpToDate
<1>. QED
  BY <1>5, <1>6, <1>7, <1>8, <1>9, <1>10, <1>11, <1>12 DEF Inv

\* The selection is awaited from now on: whatever was chasing, no longer does.
LEMMA SelectKeeps ==
  ASSUME Inv, NEW v \in Variants, Select(v)
  PROVE  Inv'
<1> USE VersionNumbers, TwoVariants
<1>1. /\ ~loading /\ panel.pc = "idle" /\ v # active
      /\ used.selects < MaxSelects /\ used' = [used EXCEPT !.selects = @ + 1]
      /\ active' = v /\ pending' = v /\ loading' = TRUE
      /\ navigation' = IF v = url THEN navigation ELSE [NoNavigation EXCEPT !.to = v]
      /\ request' = [request EXCEPT !["effect"] = Fetch(v)]
      /\ failed' = FALSE /\ overtaken' = (overtaken /\ panel.pc # "idle")
      /\ UNCHANGED <<url, crowd, personas, comparison, panel, version>>
  BY DEF Select, Aligning, Refetch, Forget
<1>2. Fetch(v) = [pc |-> "sent", v |-> v, crowd |-> Unserved, personas |-> Unserved]
  BY FetchIs
<1>3. Fetch(v) \in Requests
  BY <1>2 DEF Requests, Stages, Responses
<1>4. /\ request' \in [Kinds -> Requests]
      /\ request'["effect"] = [pc |-> "sent", v |-> v, crowd |-> Unserved, personas |-> Unserved]
      /\ request'["refresh"] = request["refresh"]
  BY <1>1, <1>2, <1>3, Requested DEF Kinds, Inv
<1>5. /\ used' \in [selects : 0 .. MaxSelects, submits : Versions, backs : 0 .. MaxBacks,
                    failures : 0 .. MaxFailures]
      /\ used'.submits = used.submits
  BY <1>1, ViewBoundAssumption DEF Inv, TypeOK
<1>6. TypeOK'
  <2>1. request' \in [Kinds -> [pc : Stages, v : Variants, crowd : Responses, personas : Responses]]
    BY <1>4 DEF Requests
  <2>2. navigation' \in [to : Variants \cup {None}, version : Versions \cup {Unserved}]
    BY <1>1 DEF Inv, TypeOK, NoNavigation
  <2>. QED
    BY <1>1, <1>5, <2>1, <2>2 DEF Inv, TypeOK, Stages, Responses
<1>7. Counted'
  BY <1>1, <1>5 DEF Inv, Counted, Posted
<1>8. Aligned'
  <2>1. CASE v = url
    <3>1. navigation.to # None
      BY <1>1, <2>1 DEF Inv, Aligned
    <3>. QED
      BY <1>1, <2>1, <3>1 DEF Inv, Aligned
  <2>2. CASE v # url
    BY <1>1, <2>2 DEF Aligned, NoNavigation
  <2>. QED
    BY <2>1, <2>2
<1>9. Received'
  BY <1>4 DEF Inv, Received, Kinds
<1>10. OfActive'
  <2>1. request'["refresh"].pc = "idle"
    BY <1>1, <1>4 DEF Inv, OfActive
  <2>2. \E k \in Kinds : request'[k].pc # "idle"
    BY <1>4 DEF Kinds
  <2>. QED
    BY <1>1, <1>4, <2>1, <2>2 DEF OfActive
<1>11. Replaced'
  BY <1>4 DEF Replaced
<1>12. Apart'
  BY <1>1 DEF Apart
<1>13. Current'
  BY <1>1, <1>4 DEF Current, UpToDate
<1>. QED
  BY <1>6, <1>7, <1>8, <1>9, <1>10, <1>11, <1>12, <1>13 DEF Inv

-----------------------------------------------------------------------------
(* The fetches.                                                            *)

\* A step of a fetch that puts nothing on the screen: parts of the response
\* that come in are as the server has them now.
LEMMA FetchKeeps ==
  ASSUME Inv, NEW k \in Kinds, NEW r \in Requests,
         request' = [request EXCEPT ![k] = r],
         UNCHANGED <<page, screen, panel, version, used, failed, overtaken>>,
         request[k].pc = "sent", r.v = request[k].v,
         r.crowd \in {request[k].crowd, version[r.v]},
         r.personas \in {request[k].personas, version[r.v]},
         \/ r.pc = "sent"
         \/ r.pc = "crowd" /\ r.crowd # Unserved /\ r.personas # Unserved
  PROVE  Inv'
<1> USE VersionNumbers, TwoVariants
<1>1. /\ request' \in [Kinds -> Requests] /\ request'[k] = r
      /\ \A j \in Kinds \ {k} : request'[j] = request[j]
  BY Requested DEF Inv
<1>2. /\ UNCHANGED <<active, url, pending, navigation, crowd, personas, comparison, loading>>
      /\ UNCHANGED <<panel, version, used, failed, overtaken>>
  BY DEF page, screen
<1>3. Chasing' <=> Chasing
  BY <1>2 DEF Chasing
<1>4. TypeOK'
  <2>1. request' \in [Kinds -> [pc : Stages, v : Variants, crowd : Responses, personas : Responses]]
    BY <1>1 DEF Requests
  <2>. QED
    BY <1>2, <2>1 DEF Inv, TypeOK, Stages, Responses
<1>5. Counted'
  BY <1>2 DEF Inv, Counted, Posted
<1>6. Aligned'
  BY <1>2 DEF Inv, Aligned
<1>7. Received'
  BY <1>1 DEF Inv, Received
<1>8. OfActive'
  <2>1. \E j \in Kinds : request'[j].pc # "idle"
    BY <1>1
  <2>2. \A j \in Kinds : /\ request'[j].pc = "idle" <=> request[j].pc = "idle"
                         /\ request'[j].v = request[j].v
    BY <1>1
  <2>. QED
    BY <1>2, <1>3, <2>1, <2>2 DEF Inv, OfActive, Kinds
<1>9. Replaced'
  <2>1. \/ k = "effect" /\ request'["effect"].pc \in {"sent", "crowd"}
        \/ request'["effect"] = request["effect"]
    BY <1>1 DEF Kinds
  <2>. QED
    BY <1>2, <1>3, <2>1 DEF Inv, Replaced
<1>10. Apart'
  <2>1. request'["effect"].pc = "idle" <=> request["effect"].pc = "idle"
    BY <1>1 DEF Kinds
  <2>. QED
    BY <1>2, <1>3, <2>1 DEF Inv, Apart
<1>11. Current'
  <2>1. ASSUME ~Chasing, UpToDate(k) PROVE UpToDate(k)'
    <3>1. r.v = active
      BY <2>1 DEF Inv, OfActive, Kinds
    <3>. QED
      BY <2>1, <3>1, <1>1, <1>2 DEF UpToDate
  <2>2. ASSUME NEW j \in Kinds \ {k}, UpToDate(j) PROVE UpToDate(j)'
    BY <2>2, <1>1, <1>2 DEF UpToDate
  <2>3. ~Chasing => \A j \in Kinds : UpToDate(j) => UpToDate(j)'
    BY <2>1, <2>2
  <2>. QED
    BY <1>2, <1>3, <2>3 DEF Inv, Current, Kinds
<1>. QED
  BY <1>4, <1>5, <1>6, <1>7, <1>8, <1>9, <1>10, <1>11 DEF Inv

LEMMA ServesKeep ==
  ASSUME Inv, NEW k \in Kinds, ServeCrowd(k) \/ ServePersonas(k) \/ Receive(k)
  PROVE  Inv'
<1>0. /\ request \in [Kinds -> Requests] /\ request[k] \in Requests
      /\ request[k].pc = "sent" /\ version[request[k].v] \in Responses
  BY RequestTypes
  DEF Inv, TypeOK, Requests, Responses, ServeCrowd, ServePersonas, Receive
<1>1. PICK q \in Requests : q = request[k]
  BY <1>0
<1>2. PICK n \in Responses : n = version[q.v]
  BY <1>0, <1>1
<1>a. CASE ServeCrowd(k)
  <2>1. request' = [request EXCEPT ![k] = [request[k] EXCEPT !.crowd = n]]
    BY <1>a, <1>0, <1>1, <1>2 DEF ServeCrowd
  <2>2. PICK r : r = [q EXCEPT !.crowd = n]
    OBVIOUS
  <2>3. r \in Requests /\ r.pc = "sent" /\ r.v = q.v /\ r.crowd = n /\ r.personas = q.personas
    BY <2>2, <1>0, <1>1 DEF Requests
  <2>5. request' = [request EXCEPT ![k] = r]
    BY <2>1, <2>2, <1>1
  <2>6. UNCHANGED <<page, screen, panel, version, used, failed, overtaken>>
    BY <1>a DEF ServeCrowd
  <2>7. /\ r \in Requests /\ r.v = request[k].v
        /\ r.crowd \in {request[k].crowd, version[r.v]}
        /\ r.personas \in {request[k].personas, version[r.v]}
    BY <2>3, <1>1, <1>2
  <2>8. \/ r.pc = "sent"
        \/ r.pc = "crowd" /\ r.crowd # Unserved /\ r.personas # Unserved
    BY <2>3
  <2>. QED
    BY <2>5, <2>6, <2>7, <2>8, <1>0, <1>1, FetchKeeps
<1>b. CASE ServePersonas(k)
  <2>1. request' = [request EXCEPT ![k] = [request[k] EXCEPT !.personas = n]]
    BY <1>b, <1>0, <1>1, <1>2 DEF ServePersonas
  <2>2. PICK r : r = [q EXCEPT !.personas = n]
    OBVIOUS
  <2>3. r \in Requests /\ r.pc = "sent" /\ r.v = q.v /\ r.crowd = q.crowd /\ r.personas = n
    BY <2>2, <1>0, <1>1 DEF Requests
  <2>5. request' = [request EXCEPT ![k] = r]
    BY <2>1, <2>2, <1>1
  <2>6. UNCHANGED <<page, screen, panel, version, used, failed, overtaken>>
    BY <1>b DEF ServePersonas
  <2>7. /\ r \in Requests /\ r.v = request[k].v
        /\ r.crowd \in {request[k].crowd, version[r.v]}
        /\ r.personas \in {request[k].personas, version[r.v]}
    BY <2>3, <1>1, <1>2
  <2>8. \/ r.pc = "sent"
        \/ r.pc = "crowd" /\ r.crowd # Unserved /\ r.personas # Unserved
    BY <2>3
  <2>. QED
    BY <2>5, <2>6, <2>7, <2>8, <1>0, <1>1, FetchKeeps
<1>c. CASE Receive(k)
  <2>1. request' = [request EXCEPT ![k] = [request[k] EXCEPT !.pc = "crowd"]]
    BY <1>c, <1>0 DEF Receive
  <2>2. PICK r : r = [q EXCEPT !.pc = "crowd"]
    OBVIOUS
  <2>3. /\ r \in Requests /\ r.pc = "crowd" /\ r.v = q.v
        /\ r.crowd = q.crowd /\ r.personas = q.personas
    BY <2>2, <1>0, <1>1 DEF Requests, Stages
  <2>4. r.crowd # Unserved /\ r.personas # Unserved
    BY <2>3, <1>1, <1>c DEF Receive
  <2>5. request' = [request EXCEPT ![k] = r]
    BY <2>1, <2>2, <1>1
  <2>6. UNCHANGED <<page, screen, panel, version, used, failed, overtaken>>
    BY <1>c DEF Receive
  <2>7. /\ r \in Requests /\ r.v = request[k].v
        /\ r.crowd \in {request[k].crowd, version[r.v]}
        /\ r.personas \in {request[k].personas, version[r.v]}
    BY <2>3, <1>1, <1>2
  <2>8. \/ r.pc = "sent"
        \/ r.pc = "crowd" /\ r.crowd # Unserved /\ r.personas # Unserved
    BY <2>3, <2>4
  <2>. QED
    BY <2>5, <2>6, <2>7, <2>8, <1>0, <1>1, FetchKeeps
<1>. QED
  BY <1>a, <1>b, <1>c

UsedRange == [selects : 0 .. MaxSelects, submits : Versions, backs : 0 .. MaxBacks,
              failures : 0 .. MaxFailures]

\* A step of a fetch that ends it, or leaves it under way, whatever it puts on
\* the screen: it ends with the panel's overlay, and with loading.
LEMMA FetchFrame ==
  ASSUME Inv, NEW k \in Kinds, NEW r \in Requests,
         request' = [request EXCEPT ![k] = r], request[k].pc # "idle",
         UNCHANGED <<page, version, overtaken>>,
         used' \in UsedRange, used'.submits = used.submits, failed' \in BOOLEAN,
         crowd' \in Shown, personas' \in Shown \cup {None}, comparison' \in Variants \cup {None},
         r.pc # "idle" => r.v = request[k].v /\ UNCHANGED loading,
         r.pc = "idle" => loading' = FALSE,
         panel' = IF r.pc = "idle" /\ k = "refresh" THEN [panel EXCEPT !.pc = "idle"] ELSE panel,
         r.pc \in {"crowd", "personas"} => r.personas # Unserved,
         r.pc = "crowd" => r.crowd # Unserved
  PROVE  /\ TypeOK' /\ Counted' /\ Aligned' /\ Received' /\ OfActive' /\ Apart'
         /\ request'[k] = r /\ \A j \in Kinds \ {k} : request'[j] = request[j]
         /\ Chasing' <=> Chasing
<1> USE VersionNumbers, TwoVariants
<1>1. /\ request' \in [Kinds -> Requests] /\ request'[k] = r
      /\ \A j \in Kinds \ {k} : request'[j] = request[j]
  BY Requested DEF Inv
<1>2. UNCHANGED <<active, url, pending, navigation, version, overtaken>>
  BY DEF page
<1>3. Chasing' <=> Chasing
  BY <1>2 DEF Chasing
<1>4. panel \in [pc : {"idle", "posting", "answered", "refresh"}, v : Variants]
  BY DEF Inv, TypeOK
<1>5. /\ panel' \in [pc : {"idle", "posting", "answered", "refresh"}, v : Variants]
      /\ panel' = panel \/ (k = "refresh" /\ r.pc = "idle" /\ panel'.pc = "idle")
  BY <1>4
<1>6. TypeOK'
  <2>1. request' \in [Kinds -> [pc : Stages, v : Variants, crowd : Responses, personas : Responses]]
    BY <1>1 DEF Requests
  <2>2. loading' \in BOOLEAN
    BY <1>1 DEF Inv, TypeOK
  <2>. QED
    BY <1>2, <1>5, <2>1, <2>2 DEF Inv, TypeOK, Stages, Responses, UsedRange
<1>7. Counted'
  <2>1. Posted' = Posted
    <3>1. CASE k = "refresh"
      <4>1. panel.pc = "refresh"
        BY <3>1 DEF Inv, OfActive
      <4>. QED
        BY <4>1, <1>5 DEF Posted
    <3>2. CASE k # "refresh"
      BY <3>2, <1>5 DEF Posted
    <3>. QED
      BY <3>1, <3>2
  <2>. QED
    BY <2>1, <1>2 DEF Inv, Counted
<1>8. Aligned'
  BY <1>2 DEF Inv, Aligned
<1>9. Received'
  BY <1>1 DEF Inv, Received
<1>10. OfActive'
  <2>1. loading' => \E j \in Kinds : request'[j].pc # "idle"
    BY <1>1
  <2>2. \A j \in Kinds : request'[j].pc # "idle" =>
          request[j].pc # "idle" /\ request'[j].v = request[j].v
    BY <1>1
  <2>3. request'["refresh"].pc # "idle" <=> panel'.pc = "refresh"
    <3>1. CASE k = "refresh"
      <4>1. panel.pc = "refresh"
        BY <3>1 DEF Inv, OfActive
      <4>2. request'["refresh"].pc = r.pc
        BY <3>1, <1>1
      <4>3. CASE r.pc = "idle"
        BY <3>1, <4>2, <4>3, <1>4
      <4>4. CASE r.pc # "idle"
        BY <4>1, <4>2, <4>4
      <4>. QED
        BY <4>3, <4>4
    <3>2. CASE k # "refresh"
      BY <3>2, <1>1, <1>5 DEF Inv, OfActive, Kinds
    <3>. QED
      BY <3>1, <3>2
  <2>. QED
    BY <1>2, <1>3, <2>1, <2>2, <2>3 DEF Inv, OfActive, Kinds
<1>11. Apart'
  <2>1. k # "effect" => request'["effect"] = request["effect"]
    BY <1>1 DEF Kinds
  <2>. QED
    BY <1>2, <1>3, <1>5, <2>1 DEF Inv, Apart
<1>. QED
  BY <1>1, <1>3, <1>6, <1>7, <1>8, <1>9, <1>10, <1>11

\* Which of the two fetches is under way, when they do not overlap.
LEMMA OneFetch ==
  ASSUME Inv, NEW k \in Kinds, request[k].pc # "idle", ~overtaken, ~Chasing
  PROVE  /\ request[k].v = active
         /\ k = "effect" => panel.pc = "idle"
         /\ k = "refresh" => panel.pc = "refresh" /\ request["effect"].pc = "idle"
BY DEF Inv, OfActive, Apart, Kinds

LEMMA TakeCrowdKeeps ==
  ASSUME Inv, NEW k \in Kinds, TakeCrowd(k)
  PROVE  Inv'
<1>1. PICK q \in Requests : q = request[k]
  BY RequestTypes DEF Inv
<1>2. PICK r : r = [q EXCEPT !.pc = "personas"]
  OBVIOUS
<1>3. /\ r \in Requests /\ r.pc = "personas" /\ r.v = q.v
      /\ r.crowd = q.crowd /\ r.personas = q.personas
  BY <1>2 DEF Requests, Stages
<1>4. /\ q.pc = "crowd" /\ q.v \in Variants /\ q.crowd \in Versions /\ q.personas # Unserved
  BY <1>1 DEF TakeCrowd, Requests, Responses, Inv, Received
<1>5. /\ crowd' = [v |-> q.v, version |-> q.crowd]
      /\ request' = [request EXCEPT ![k] = r]
  BY <1>1, <1>2 DEF TakeCrowd
<1>6. UNCHANGED <<page, personas, comparison, loading, panel, version, used, failed, overtaken>>
  BY DEF TakeCrowd
<1>7. /\ TypeOK' /\ Counted' /\ Aligned' /\ Received' /\ OfActive' /\ Apart'
      /\ request'[k] = r /\ \A j \in Kinds \ {k} : request'[j] = request[j]
      /\ Chasing' <=> Chasing
  <2>1. crowd' \in Shown
    BY <1>4, <1>5 DEF Shown
  <2>2. /\ used' \in UsedRange /\ used'.submits = used.submits /\ failed' \in BOOLEAN
        /\ personas' \in Shown \cup {None} /\ comparison' \in Variants \cup {None}
        /\ UNCHANGED <<page, version, overtaken>> /\ UNCHANGED loading /\ UNCHANGED panel
    BY <1>6 DEF Inv, TypeOK, UsedRange
  <2>3. r.pc # "idle" /\ r.v = request[k].v /\ request[k].pc # "idle" /\ r.personas # Unserved
    BY <1>1, <1>3, <1>4
  <2>4. panel' = IF r.pc = "idle" /\ k = "refresh" THEN [panel EXCEPT !.pc = "idle"] ELSE panel
    BY <2>2, <2>3
  <2>5. r.pc # "crowd"
    BY <1>3
  <2>. QED
    BY <1>3, <1>5, <2>1, <2>2, <2>3, <2>4, <2>5, FetchFrame
<1>8. UNCHANGED <<active, personas, comparison, panel, version, failed, overtaken>>
  BY <1>6 DEF page
<1>9. ~Chasing => q.v = active
  BY <1>1, <1>4 DEF Inv, OfActive, Kinds
<1>10. Replaced'
  <2>1. SUFFICES ASSUME ~failed, ~Chasing
                 PROVE  /\ crowd'.v = active
                        /\ \/ request'["effect"].pc \in {"sent", "crowd", "personas"}
                           \/ personas.v = active
                        /\ request'["effect"].pc # "idle" \/ comparison = Other(active)
    BY <1>7, <1>8 DEF Replaced
  <2>2. crowd'.v = active
    BY <2>1, <1>5, <1>9
  <2>3. request'["effect"].pc = "personas" \/ request'["effect"] = request["effect"]
    BY <1>3, <1>7 DEF Kinds
  <2>. QED
    BY <2>1, <2>2, <2>3 DEF Inv, Replaced
<1>11. Current'
  <2>1. SUFFICES ASSUME ~failed, ~overtaken, ~Chasing
                 PROVE  /\ panel.pc \in {"idle", "posting"} => UpToDate("effect")'
                        /\ panel.pc = "refresh" => UpToDate("refresh")'
    BY <1>7, <1>8 DEF Current
  <2>2. UpToDate(k)
    BY <2>1, <1>1, <1>4, OneFetch DEF Inv, Current, Kinds
  <2>3. UpToDate(k)'
    <3>1. q.crowd = version[active] /\ q.personas \in {Unserved, version[active]}
      BY <2>2, <1>1, <1>4, VersionNumbers DEF UpToDate
    <3>2. crowd'.version = version'[active']
      BY <3>1, <1>5, <1>8
    <3>. QED
      BY <3>1, <3>2, <1>3, <1>7, <1>8 DEF UpToDate
  <2>. QED
    BY <2>1, <2>3, <1>1, <1>4, OneFetch DEF Kinds
<1>. QED
  BY <1>7, <1>10, <1>11 DEF Inv

LEMMA TakePersonasKeeps ==
  ASSUME Inv, NEW k \in Kinds, TakePersonas(k)
  PROVE  Inv'
<1>1. PICK q \in Requests : q = request[k]
  BY RequestTypes DEF Inv
<1>2. PICK r : r = [q EXCEPT !.pc = "comparison"]
  OBVIOUS
<1>3. /\ r \in Requests /\ r.pc = "comparison" /\ r.v = q.v
      /\ r.crowd = q.crowd /\ r.personas = q.personas
  BY <1>2 DEF Requests, Stages
<1>4. /\ q.pc = "personas" /\ q.v \in Variants /\ q.personas \in Versions
  BY <1>1 DEF TakePersonas, Requests, Responses, Inv, Received
<1>5. /\ personas' = [v |-> q.v, version |-> q.personas]
      /\ request' = [request EXCEPT ![k] = r]
  BY <1>1, <1>2 DEF TakePersonas
<1>6. UNCHANGED <<page, crowd, comparison, loading, panel, version, used, failed, overtaken>>
  BY DEF TakePersonas
<1>7. /\ TypeOK' /\ Counted' /\ Aligned' /\ Received' /\ OfActive' /\ Apart'
      /\ request'[k] = r /\ \A j \in Kinds \ {k} : request'[j] = request[j]
      /\ Chasing' <=> Chasing
  <2>1. personas' \in Shown \cup {None}
    BY <1>4, <1>5 DEF Shown
  <2>2. /\ used' \in UsedRange /\ used'.submits = used.submits /\ failed' \in BOOLEAN
        /\ crowd' \in Shown /\ comparison' \in Variants \cup {None}
        /\ UNCHANGED <<page, version, overtaken>> /\ UNCHANGED loading /\ UNCHANGED panel
    BY <1>6 DEF Inv, TypeOK, UsedRange
  <2>3. r.pc # "idle" /\ r.v = request[k].v /\ request[k].pc # "idle"
    BY <1>1, <1>3, <1>4
  <2>4. panel' = IF r.pc = "idle" /\ k = "refresh" THEN [panel EXCEPT !.pc = "idle"] ELSE panel
    BY <2>2, <2>3
  <2>5. r.pc # "crowd" /\ r.pc # "personas"
    BY <1>3
  <2>. QED
    BY <1>3, <1>5, <2>1, <2>2, <2>3, <2>4, <2>5, FetchFrame
<1>8. UNCHANGED <<active, crowd, comparison, panel, version, failed, overtaken>>
  BY <1>6 DEF page
<1>9. ~Chasing => q.v = active
  BY <1>1, <1>4 DEF Inv, OfActive, Kinds
<1>10. Replaced'
  <2>1. SUFFICES ASSUME ~failed, ~Chasing
                 PROVE  /\ request'["effect"].pc \in {"sent", "crowd"} \/ crowd.v = active
                        /\ personas'.v = active
                        /\ request'["effect"].pc # "idle" \/ comparison = Other(active)
    BY <1>7, <1>8 DEF Replaced
  <2>2. personas'.v = active
    BY <2>1, <1>5, <1>9
  <2>3. \/ request["effect"].pc = "personas" /\ request'["effect"].pc = "comparison"
        \/ request'["effect"] = request["effect"]
    BY <1>1, <1>3, <1>4, <1>7 DEF Kinds
  <2>. QED
    BY <2>1, <2>2, <2>3 DEF Inv, Replaced
<1>11. Current'
  <2>1. SUFFICES ASSUME ~failed, ~overtaken, ~Chasing
                 PROVE  /\ panel.pc \in {"idle", "posting"} => UpToDate("effect")'
                        /\ panel.pc = "refresh" => UpToDate("refresh")'
    BY <1>7, <1>8 DEF Current
  <2>2. UpToDate(k)
    BY <2>1, <1>1, <1>4, OneFetch DEF Inv, Current, Kinds
  <2>3. UpToDate(k)'
    <3>1. q.personas = version[active] /\ crowd.version = version[active]
      BY <2>2, <1>1, <1>4, VersionNumbers DEF UpToDate
    <3>2. personas'.version = version'[active']
      BY <3>1, <1>5, <1>8
    <3>. QED
      BY <3>1, <3>2, <1>3, <1>7, <1>8 DEF UpToDate
  <2>. QED
    BY <2>1, <2>3, <1>1, <1>4, OneFetch DEF Kinds
<1>. QED
  BY <1>7, <1>10, <1>11 DEF Inv

LEMMA FinishKeeps ==
  ASSUME Inv, NEW k \in Kinds, Finish(k)
  PROVE  Inv'
<1>1. PICK q \in Requests : q = request[k]
  BY RequestTypes DEF Inv
<1>2. q.pc = "comparison" /\ q.v \in Variants
  BY <1>1 DEF Finish, Requests
<1>3. /\ comparison' = Other(q.v) /\ loading' = FALSE
      /\ request' = [request EXCEPT ![k] = NoFetch]
      /\ panel' = IF k = "refresh" THEN [panel EXCEPT !.pc = "idle"] ELSE panel
      /\ UNCHANGED <<page, crowd, personas, version, used, failed, overtaken>>
  BY <1>1 DEF Finish, Finished
<1>4. /\ TypeOK' /\ Counted' /\ Aligned' /\ Received' /\ OfActive' /\ Apart'
      /\ request'[k] = NoFetch /\ \A j \in Kinds \ {k} : request'[j] = request[j]
      /\ Chasing' <=> Chasing
  <2>1. /\ used' \in UsedRange /\ used'.submits = used.submits /\ failed' \in BOOLEAN
        /\ crowd' \in Shown /\ personas' \in Shown \cup {None}
        /\ UNCHANGED <<page, version, overtaken>>
    BY <1>3 DEF Inv, TypeOK, UsedRange
  <2>2. comparison' \in Variants \cup {None}
    BY <1>2, <1>3, TwoVariants
  <2>3. NoFetch.pc = "idle" /\ NoFetch \in Requests /\ request[k].pc # "idle"
    BY <1>1, <1>2, NoFetchIs
  <2>4. panel' = IF NoFetch.pc = "idle" /\ k = "refresh" THEN [panel EXCEPT !.pc = "idle"] ELSE panel
    BY <1>3, <2>3
  <2>5. NoFetch.pc # "crowd" /\ NoFetch.pc # "personas"
    BY <2>3
  <2>. QED
    BY <1>3, <2>1, <2>2, <2>3, <2>4, <2>5, FetchFrame
<1>5. UNCHANGED <<active, crowd, personas, version, failed, overtaken>>
  BY <1>3 DEF page
<1>6. ~Chasing => q.v = active
  BY <1>1, <1>2 DEF Inv, OfActive, Kinds
<1>7. Replaced'
  <2>1. SUFFICES ASSUME ~failed, ~Chasing
                 PROVE  /\ request'["effect"].pc \in {"sent", "crowd"} \/ crowd.v = active
                        /\ \/ request'["effect"].pc \in {"sent", "crowd", "personas"}
                           \/ personas.v = active
                        /\ comparison' = Other(active)
    BY <1>4, <1>5 DEF Replaced
  <2>2. comparison' = Other(active)
    BY <2>1, <1>3, <1>6
  <2>3. request["effect"].pc = "comparison" \/ request'["effect"] = request["effect"]
    BY <1>1, <1>2, <1>4 DEF Kinds
  <2>. QED
    BY <2>1, <2>2, <2>3 DEF Inv, Replaced
<1>8. Current'
  <2>1. SUFFICES ASSUME ~failed, ~overtaken, ~Chasing
                 PROVE  /\ panel'.pc \in {"idle", "posting"} => UpToDate("effect")'
                        /\ panel'.pc = "refresh" => UpToDate("refresh")'
    BY <1>4, <1>5 DEF Current
  <2>2. UpToDate(k)
    BY <2>1, <1>1, <1>2, OneFetch DEF Inv, Current, Kinds
  <2>3. crowd.version = version[active] /\ personas.version = version[active]
    BY <2>2, <1>1, <1>2 DEF UpToDate
  <2>4. request'["effect"].pc = "idle" /\ request'["refresh"].pc = "idle"
    <3>1. k = "effect" => request["refresh"].pc = "idle"
      BY <2>1, <1>1, <1>2, OneFetch DEF Inv, OfActive
    <3>2. k = "refresh" => request["effect"].pc = "idle"
      BY <2>1, <1>1, <1>2, OneFetch
    <3>. QED
      BY <3>1, <3>2, <1>4, NoFetchIs DEF Kinds
  <2>. QED
    BY <2>3, <2>4, <1>5 DEF UpToDate
<1>. QED
  BY <1>4, <1>7, <1>8 DEF Inv

LEMMA FailingIs ==
  ASSUME Inv, Failing
  PROVE  used' \in UsedRange /\ used'.submits = used.submits /\ failed' = TRUE
<1>1. used \in UsedRange /\ used.failures < MaxFailures /\ used' = [used EXCEPT !.failures = @ + 1]
  BY DEF Failing, Inv, TypeOK, UsedRange
<1>2. used.failures + 1 \in 0 .. MaxFailures
  BY <1>1, ViewBoundAssumption DEF UsedRange
<1>. QED
  BY <1>1, <1>2 DEF UsedRange, Failing

LEMMA LoseKeeps ==
  ASSUME Inv, NEW k \in Kinds, Lose(k)
  PROVE  Inv'
<1>1. /\ request[k].pc # "idle" /\ loading' = FALSE
      /\ request' = [request EXCEPT ![k] = NoFetch]
      /\ panel' = IF k = "refresh" THEN [panel EXCEPT !.pc = "idle"] ELSE panel
      /\ UNCHANGED <<page, crowd, version, overtaken>>
  BY DEF Lose, Finished
<1>2. used' \in UsedRange /\ used'.submits = used.submits /\ failed' = TRUE
  BY FailingIs DEF Lose
<1>3. personas' \in Shown \cup {None} /\ comparison' \in Variants \cup {None} /\ crowd' \in Shown
  BY DEF Lose, Inv, TypeOK
<1>4. TypeOK' /\ Counted' /\ Aligned' /\ Received' /\ OfActive' /\ Apart'
  <2>1. NoFetch.pc = "idle" /\ NoFetch \in Requests /\ request[k].pc # "idle"
    BY <1>1, NoFetchIs
  <2>2. panel' = IF NoFetch.pc = "idle" /\ k = "refresh" THEN [panel EXCEPT !.pc = "idle"] ELSE panel
    BY <1>1, <2>1
  <2>3. NoFetch.pc # "crowd" /\ NoFetch.pc # "personas" /\ failed' \in BOOLEAN
    BY <2>1, <1>2
  <2>4. UNCHANGED <<page, version, overtaken>>
    BY <1>1
  <2>. QED
    BY <1>1, <1>2, <1>3, <2>1, <2>2, <2>3, <2>4, FetchFrame
<1>. QED
  BY <1>2, <1>4 DEF Inv, Replaced, Current

LEMMA RefuseCrowdKeeps ==
  ASSUME Inv, NEW k \in Kinds, RefuseCrowd(k)
  PROVE  Inv'
<1>1. PICK q \in Requests : q = request[k]
  BY RequestTypes DEF Inv
<1>2. PICK r : r = [q EXCEPT !.pc = "personas"]
  OBVIOUS
<1>3. r \in Requests /\ r.pc = "personas" /\ r.v = q.v /\ r.personas = q.personas
  BY <1>2 DEF Requests, Stages
<1>4. q.pc = "crowd" /\ q.personas # Unserved
  BY <1>1 DEF RefuseCrowd, Inv, Received
<1>5. request' = [request EXCEPT ![k] = r]
  BY <1>1, <1>2 DEF RefuseCrowd
<1>6. UNCHANGED <<page, crowd, personas, comparison, loading, panel, version, overtaken>>
  BY DEF RefuseCrowd, screen
<1>7. used' \in UsedRange /\ used'.submits = used.submits /\ failed' = TRUE
  BY FailingIs DEF RefuseCrowd
<1>8. TypeOK' /\ Counted' /\ Aligned' /\ Received' /\ OfActive' /\ Apart'
  <2>1. /\ crowd' \in Shown /\ personas' \in Shown \cup {None}
        /\ comparison' \in Variants \cup {None} /\ failed' \in BOOLEAN
        /\ UNCHANGED <<page, version, overtaken>> /\ UNCHANGED loading /\ UNCHANGED panel
    BY <1>6, <1>7 DEF Inv, TypeOK
  <2>2. r.pc # "idle" /\ r.v = request[k].v /\ request[k].pc # "idle" /\ r.personas # Unserved
    BY <1>1, <1>3, <1>4
  <2>3. panel' = IF r.pc = "idle" /\ k = "refresh" THEN [panel EXCEPT !.pc = "idle"] ELSE panel
    BY <2>1, <2>2
  <2>4. r.pc # "crowd"
    BY <1>3
  <2>. QED
    BY <1>3, <1>5, <1>7, <2>1, <2>2, <2>3, <2>4, FetchFrame
<1>. QED
  BY <1>7, <1>8 DEF Inv, Replaced, Current

LEMMA RefusePersonasKeeps ==
  ASSUME Inv, NEW k \in Kinds, RefusePersonas(k)
  PROVE  Inv'
<1>1. PICK q \in Requests : q = request[k]
  BY RequestTypes DEF Inv
<1>2. PICK r : r = [q EXCEPT !.pc = "comparison"]
  OBVIOUS
<1>3. r \in Requests /\ r.pc = "comparison" /\ r.v = q.v /\ r.personas = q.personas
  BY <1>2 DEF Requests, Stages
<1>4. q.pc = "personas" /\ q.personas # Unserved
  BY <1>1 DEF RefusePersonas, Inv, Received
<1>5. request' = [request EXCEPT ![k] = r]
  BY <1>1, <1>2 DEF RefusePersonas
<1>6. UNCHANGED <<page, crowd, personas, comparison, loading, panel, version, overtaken>>
  BY DEF RefusePersonas, screen
<1>7. used' \in UsedRange /\ used'.submits = used.submits /\ failed' = TRUE
  BY FailingIs DEF RefusePersonas
<1>8. TypeOK' /\ Counted' /\ Aligned' /\ Received' /\ OfActive' /\ Apart'
  <2>1. /\ crowd' \in Shown /\ personas' \in Shown \cup {None}
        /\ comparison' \in Variants \cup {None} /\ failed' \in BOOLEAN
        /\ UNCHANGED <<page, version, overtaken>> /\ UNCHANGED loading /\ UNCHANGED panel
    BY <1>6, <1>7 DEF Inv, TypeOK
  <2>2. r.pc # "idle" /\ r.v = request[k].v /\ request[k].pc # "idle" /\ r.personas # Unserved
    BY <1>1, <1>3, <1>4
  <2>3. panel' = IF r.pc = "idle" /\ k = "refresh" THEN [panel EXCEPT !.pc = "idle"] ELSE panel
    BY <2>1, <2>2
  <2>4. r.pc # "crowd"
    BY <1>3
  <2>. QED
    BY <1>3, <1>5, <1>7, <2>1, <2>2, <2>3, <2>4, FetchFrame
<1>. QED
  BY <1>7, <1>8 DEF Inv, Replaced, Current

LEMMA RefuseComparisonKeeps ==
  ASSUME Inv, NEW k \in Kinds, RefuseComparison(k)
  PROVE  Inv'
<1>1. /\ request[k].pc = "comparison" /\ loading' = FALSE
      /\ request' = [request EXCEPT ![k] = NoFetch]
      /\ panel' = IF k = "refresh" THEN [panel EXCEPT !.pc = "idle"] ELSE panel
      /\ UNCHANGED <<page, crowd, version, overtaken>>
  BY DEF RefuseComparison, Finished
<1>2. used' \in UsedRange /\ used'.submits = used.submits /\ failed' = TRUE
  BY FailingIs DEF RefuseComparison
<1>3. personas' \in Shown \cup {None} /\ comparison' \in Variants \cup {None} /\ crowd' \in Shown
  BY DEF RefuseComparison, Inv, TypeOK
<1>4. TypeOK' /\ Counted' /\ Aligned' /\ Received' /\ OfActive' /\ Apart'
  <2>1. NoFetch.pc = "idle" /\ NoFetch \in Requests /\ request[k].pc # "idle"
    BY <1>1, NoFetchIs
  <2>2. panel' = IF NoFetch.pc = "idle" /\ k = "refresh" THEN [panel EXCEPT !.pc = "idle"] ELSE panel
    BY <1>1, <2>1
  <2>3. NoFetch.pc # "crowd" /\ NoFetch.pc # "personas" /\ failed' \in BOOLEAN
    BY <2>1, <1>2
  <2>4. UNCHANGED <<page, version, overtaken>>
    BY <1>1
  <2>. QED
    BY <1>1, <1>2, <1>3, <2>1, <2>2, <2>3, <2>4, FetchFrame
<1>. QED
  BY <1>2, <1>4 DEF Inv, Replaced, Current

-----------------------------------------------------------------------------
(* The panel.                                                              *)

LEMMA SubmitKeeps ==
  ASSUME Inv, Submit
  PROVE  Inv'
<1> USE VersionNumbers, TwoVariants
<1>1. /\ panel.pc = "idle" /\ used.submits < MaxSubmits
      /\ used' = [used EXCEPT !.submits = @ + 1] /\ panel' = [pc |-> "posting", v |-> active]
      /\ overtaken' = (overtaken \/ request["effect"].pc # "idle" \/ navigation # NoNavigation)
      /\ UNCHANGED <<active, url, pending, navigation, crowd, personas, comparison, loading>>
      /\ UNCHANGED <<request, version, failed>>
  BY DEF Submit, page, screen
<1>2. Chasing' <=> Chasing
  BY <1>1 DEF Chasing
<1>3. used \in UsedRange /\ used.submits \in Nat
  BY DEF Inv, TypeOK, UsedRange
<1>4. used.submits + 1 \in Versions
  BY <1>1, <1>3, ViewBoundAssumption
<1>5. used' \in UsedRange /\ used'.submits = used.submits + 1
  BY <1>1, <1>3, <1>4 DEF UsedRange
<1>6. TypeOK'
  <2>1. panel' \in [pc : {"idle", "posting", "answered", "refresh"}, v : Variants]
    BY <1>1 DEF Inv, TypeOK
  <2>2. overtaken' \in BOOLEAN
    BY <1>1 DEF Inv, TypeOK
  <2>. QED
    BY <1>1, <1>5, <2>1, <2>2 DEF Inv, TypeOK, UsedRange
<1>7. Counted'
  <2>1. ASSUME NEW v \in Variants PROVE version'[v] + Posted' <= used'.submits
    <3>1. Posted = 0 /\ Posted' = 1
      BY <1>1 DEF Posted
    <3>2. version[v] \in Nat /\ version[v] + 0 <= used.submits
      BY <3>1 DEF Inv, TypeOK, Counted
    <3>3. version[v] + 1 <= used.submits + 1
      BY <3>2, <1>3
    <3>. QED
      BY <3>1, <3>3, <1>1, <1>5
  <2>. QED
    BY <2>1 DEF Counted
<1>8. Aligned'
  BY <1>1 DEF Inv, Aligned
<1>9. Received'
  BY <1>1 DEF Inv, Received
<1>10. OfActive'
  BY <1>1, <1>2 DEF Inv, OfActive
<1>11. Replaced'
  BY <1>1, <1>2 DEF Inv, Replaced
<1>12. Apart'
  BY <1>1, <1>2 DEF Apart
<1>13. Current'
  BY <1>1, <1>2 DEF Inv, TypeOK, Current, UpToDate
<1>. QED
  BY <1>6, <1>7, <1>8, <1>9, <1>10, <1>11, <1>12, <1>13 DEF Inv

LEMMA RecalculateKeeps ==
  ASSUME Inv, Recalculate
  PROVE  Inv'
<1> USE VersionNumbers, TwoVariants
<1>1. /\ panel.pc = "posting" /\ panel' = [panel EXCEPT !.pc = "answered"]
      /\ version' = [version EXCEPT ![panel.v] = @ + 1]
      /\ UNCHANGED <<active, url, pending, navigation, crowd, personas, comparison, loading>>
      /\ UNCHANGED <<request, used, failed, overtaken>>
  BY DEF Recalculate, page, screen
<1>2. Chasing' <=> Chasing
  BY <1>1 DEF Chasing
<1>3. panel \in [pc : {"idle", "posting", "answered", "refresh"}, v : Variants]
  BY DEF Inv, TypeOK
<1>4. /\ panel' \in [pc : {"idle", "posting", "answered", "refresh"}, v : Variants]
      /\ panel'.pc = "answered" /\ panel'.v = panel.v
  BY <1>1, <1>3
<1>5. Posted = 1 /\ Posted' = 0
  BY <1>1, <1>4 DEF Posted
<1>6. used.submits \in Nat /\ used.submits <= MaxSubmits /\ version \in [Variants -> Versions]
  BY ViewBoundAssumption DEF Inv, TypeOK, Versions
<1>7. ASSUME NEW v \in Variants
      PROVE  version'[v] \in Nat /\ version'[v] <= used.submits
  <2>1. version[v] \in Nat /\ version[v] + 1 <= used.submits
    BY <1>5, <1>6 DEF Inv, Counted
  <2>2. version'[v] = version[v] \/ version'[v] = version[v] + 1
    BY <1>1, <1>6
  <2>. QED
    BY <2>1, <2>2, <1>6
<1>8. version' \in [Variants -> Versions]
  <2>1. \A v \in Variants : version'[v] \in Versions
    BY <1>6, <1>7, ViewBoundAssumption
  <2>. QED
    BY <2>1, <1>1, <1>6
<1>9. TypeOK'
  BY <1>1, <1>4, <1>8 DEF Inv, TypeOK
<1>10. Counted'
  <2>1. \A v \in Variants : version'[v] + Posted' <= used'.submits
    BY <1>1, <1>5, <1>6, <1>7
  <2>. QED
    BY <2>1 DEF Counted
<1>11. Aligned'
  BY <1>1 DEF Inv, Aligned
<1>12. Received'
  BY <1>1 DEF Inv, Received
<1>13. OfActive'
  BY <1>1, <1>2, <1>4 DEF Inv, OfActive
<1>14. Replaced'
  BY <1>1, <1>2 DEF Inv, Replaced
<1>15. Apart'
  BY <1>1, <1>2, <1>4 DEF Inv, Apart
<1>16. Current'
  BY <1>4 DEF Current
<1>. QED
  BY <1>9, <1>10, <1>11, <1>12, <1>13, <1>14, <1>15, <1>16 DEF Inv

LEMMA RefreshKeeps ==
  ASSUME Inv, Refresh
  PROVE  Inv'
<1> USE VersionNumbers, TwoVariants
<1>1. /\ panel.pc = "answered" /\ panel' = [panel EXCEPT !.pc = "refresh"]
      /\ request' = [request EXCEPT !["refresh"] = Fetch(active)] /\ loading' = TRUE
      /\ UNCHANGED <<active, url, pending, navigation, crowd, personas, comparison>>
      /\ UNCHANGED <<version, used, failed, overtaken>>
  BY DEF Refresh, page
<1>2. Chasing' <=> Chasing
  BY <1>1 DEF Chasing
<1>3. active \in Variants /\ panel \in [pc : {"idle", "posting", "answered", "refresh"}, v : Variants]
  BY DEF Inv, TypeOK
<1>4. /\ panel' \in [pc : {"idle", "posting", "answered", "refresh"}, v : Variants]
      /\ panel'.pc = "refresh" /\ panel'.v = panel.v
  BY <1>1, <1>3
<1>5. Fetch(active) = [pc |-> "sent", v |-> active, crowd |-> Unserved, personas |-> Unserved]
  BY <1>3, FetchIs
<1>6. Fetch(active) \in Requests
  BY <1>3, <1>5 DEF Requests, Stages, Responses
<1>7. /\ request' \in [Kinds -> Requests] /\ request'["effect"] = request["effect"]
      /\ request'["refresh"] = [pc |-> "sent", v |-> active, crowd |-> Unserved, personas |-> Unserved]
  BY <1>1, <1>5, <1>6, Requested DEF Kinds, Inv
<1>8. TypeOK'
  <2>1. request' \in [Kinds -> [pc : Stages, v : Variants, crowd : Responses, personas : Responses]]
    BY <1>7 DEF Requests
  <2>. QED
    BY <1>1, <1>4, <2>1 DEF Inv, TypeOK, Stages, Responses
<1>9. Counted'
  <2>1. Posted' = Posted
    BY <1>1, <1>4 DEF Posted
  <2>. QED
    BY <2>1, <1>1 DEF Inv, Counted
<1>10. Aligned'
  BY <1>1 DEF Inv, Aligned
<1>11. Received'
  BY <1>7 DEF Inv, Received, Kinds
<1>12. OfActive'
  <2>1. \E k \in Kinds : request'[k].pc # "idle"
    BY <1>7 DEF Kinds
  <2>. QED
    BY <1>1, <1>4, <1>7, <2>1 DEF Inv, OfActive
<1>13. Replaced'
  BY <1>1, <1>2, <1>7 DEF Inv, Replaced
<1>14. Apart'
  BY <1>1, <1>2, <1>4, <1>7 DEF Inv, Apart
<1>15. Current'
  BY <1>4, <1>7 DEF Current, UpToDate
<1>. QED
  BY <1>8, <1>9, <1>10, <1>11, <1>12, <1>13, <1>14, <1>15 DEF Inv

LEMMA SubmitFailsKeeps ==
  ASSUME Inv, SubmitFails
  PROVE  Inv'
<1>1. /\ panel.pc \in {"posting", "answered"} /\ panel' = [panel EXCEPT !.pc = "idle"]
      /\ UNCHANGED <<active, url, pending, navigation, crowd, personas, comparison, loading>>
      /\ UNCHANGED <<request, version, overtaken>>
  BY DEF SubmitFails, page, screen
<1>2. used' \in UsedRange /\ used'.submits = used.submits /\ failed' = TRUE
  BY FailingIs DEF SubmitFails
<1>3. Chasing' <=> Chasing
  BY <1>1 DEF Chasing
<1>4. panel \in [pc : {"idle", "posting", "answered", "refresh"}, v : Variants]
  BY DEF Inv, TypeOK
<1>5. /\ panel' \in [pc : {"idle", "posting", "answered", "refresh"}, v : Variants]
      /\ panel'.pc = "idle"
  BY <1>1, <1>4
<1>6. TypeOK'
  BY <1>1, <1>2, <1>5 DEF Inv, TypeOK, UsedRange
<1>7. Counted'
  <2>1. ASSUME NEW v \in Variants PROVE version'[v] + Posted' <= used'.submits
    <3>1. Posted' = 0 /\ Posted \in {0, 1}
      BY <1>5 DEF Posted
    <3>2. version[v] \in Nat /\ used.submits \in Nat /\ version[v] + Posted <= used.submits
      BY VersionNumbers DEF Inv, TypeOK, Counted
    <3>3. version[v] + 0 <= used.submits
      BY <3>1, <3>2
    <3>. QED
      BY <3>1, <3>3, <1>1, <1>2
  <2>. QED
    BY <2>1 DEF Counted
<1>8. Aligned'
  BY <1>1 DEF Inv, Aligned
<1>9. Received'
  BY <1>1 DEF Inv, Received
<1>10. OfActive'
  BY <1>1, <1>3, <1>5 DEF Inv, OfActive
<1>. QED
  BY <1>2, <1>5, <1>6, <1>7, <1>8, <1>9, <1>10 DEF Inv, Replaced, Apart, Current

-----------------------------------------------------------------------------
(* The theorems.                                                           *)

LEMMA NextInv == Inv /\ [Next]_vars => Inv'
<1> SUFFICES ASSUME Inv, [Next]_vars PROVE Inv'
  OBVIOUS
<1>1. CASE UNCHANGED vars
  BY <1>1
  DEF vars, page, screen, Inv, TypeOK, Counted, Posted, Aligned, Received, OfActive,
      Replaced, Apart, Current, UpToDate, Chasing
<1>2. ASSUME NEW v \in Variants, Select(v) \/ Back(v) PROVE Inv'
  BY <1>2, SelectKeeps, BackKeeps
<1>3. ASSUME NEW k \in Kinds, Proceed(k) \/ Miss(k) PROVE Inv'
  BY <1>3, ServesKeep, TakeCrowdKeeps, TakePersonasKeeps, FinishKeeps, LoseKeeps,
     RefuseCrowdKeeps, RefusePersonasKeeps, RefuseComparisonKeeps
  DEF Proceed, Miss
<1>. QED
  BY <1>1, <1>2, <1>3, RenderKeeps, NavigateKeeps, RecalculateKeeps, RefreshKeeps,
     SubmitKeeps, SubmitFailsKeeps
  DEF Next

LEMMA InvAlways == Spec => []Inv
BY InitInv, NextInv, PTL DEF Spec

\* The page, its requests and the panel stay well typed; no version runs past
\* the events that were submitted.
THEOREM TypeCorrect == Spec => []TypeOK
<1>1. Inv => TypeOK
  BY DEF Inv
<1>. QED
  BY InvAlways, <1>1, PTL

\* Whatever the order in which renders, fetches, refreshes and failures come
\* in, a page at rest shows the selected variant in all its parts, the URL
\* names it, and "LOADING SCENARIO..." is gone.
THEOREM RestShowsSelection == Spec => []ShownIsSelected
<1>1. Inv => ShownIsSelected
  <2>1. SUFFICES ASSUME Inv, Quiet
                 PROVE  /\ url = active /\ ~loading
                        /\ ~failed => /\ crowd.v = active /\ personas.v = active
                                      /\ comparison = Other(active)
    BY DEF ShownIsSelected
  <2>2. navigation.to = None /\ request["effect"].pc = "idle" /\ \A k \in Kinds : request[k].pc = "idle"
    BY <2>1 DEF Quiet, NoNavigation, Kinds
  <2>3. url = active /\ ~Chasing
    BY <2>1, <2>2 DEF Inv, Aligned, Chasing
  <2>4. ~loading
    BY <2>1, <2>2 DEF Inv, TypeOK, OfActive
  <2>. QED
    BY <2>1, <2>2, <2>3, <2>4 DEF Inv, Replaced
<1>. QED
  BY InvAlways, <1>1, PTL

\* ... and, unless a request failed or an event was submitted while the
\* variant was still being fetched, what it shows is as new as the server's.
THEOREM RestIsFresh == Spec => []FreshAfterSubmit
<1>1. Inv => FreshAfterSubmit
  <2>1. SUFFICES ASSUME Inv, Quiet, ~failed, ~overtaken
                 PROVE  crowd.version = version[active] /\ personas.version = version[active]
    BY DEF FreshAfterSubmit
  <2>2. navigation.to = None /\ request["effect"].pc = "idle" /\ panel.pc = "idle"
    BY <2>1 DEF Quiet, NoNavigation, Kinds
  <2>3. UpToDate("effect")
    BY <2>1, <2>2 DEF Inv, Current, Chasing
  <2>. QED
    BY <2>2, <2>3 DEF UpToDate
<1>. QED
  BY InvAlways, <1>1, PTL
-----------------------------------------------------------------------------
(* The chase.                                                              *)

\* Navigations and selections that meet while one of them is awaited do not
\* set selection and URL against each other: only the URL changed from outside
\* does; and the chase, once on, goes on until the user selects a variant.
LEMMA ChaseStep ==
  ASSUME Inv, [Next]_vars, ~(Chasing' <=> Chasing)
  PROVE  \E v \in Variants : (Chasing /\ Select(v)) \/ (~Chasing /\ Back(v))
<1>1. CASE Navigate
  <2>1. /\ navigation.version # Unserved /\ Commit(navigation.to, navigation.version)
        /\ navigation.to # None
    BY <1>1 DEF Navigate, Inv, Aligned, NoNavigation
  <2>2. pending = None <=> pending' = None /\ navigation'.to # None
    BY <2>1, TwoVariants DEF Commit, Inv, TypeOK, Aligned, NoNavigation
  <2>. QED
    BY <2>1, <2>2 DEF Chasing
<1>2. ASSUME NEW v \in Variants, Select(v)
      PROVE  Chasing /\ Select(v)
  <2>1. pending' # None
    BY <1>2, TwoVariants DEF Select, Aligning
  <2>. QED
    BY <1>2, <2>1 DEF Chasing
<1>3. ASSUME NEW v \in Variants, Back(v)
      PROVE  ~Chasing /\ Back(v)
  <2>1. Commit(v, version[v]) /\ v # url
    BY <1>3 DEF Back
  <2>2. pending = None => pending' = None /\ navigation'.to # None
    BY <2>1, TwoVariants DEF Commit, Inv, TypeOK, Aligned, NoNavigation
  <2>. QED
    BY <1>3, <2>2 DEF Chasing
<1>4. CASE Render
  BY <1>4 DEF Render, Chasing, Inv, TypeOK
<1>5. CASE Recalculate \/ Refresh \/ Submit \/ SubmitFails \/ UNCHANGED vars
  BY <1>5 DEF Recalculate, Refresh, Submit, SubmitFails, vars, page, Chasing
<1>6. ASSUME NEW k \in Kinds, Proceed(k) \/ Miss(k)
      PROVE  FALSE
  BY <1>6
  DEF Proceed, ServeCrowd, ServePersonas, Receive, TakeCrowd, TakePersonas, Finish, Miss,
      Lose, RefuseCrowd, RefusePersonas, RefuseComparison, page, Chasing
<1>. QED
  BY <1>1, <1>2, <1>3, <1>4, <1>5, <1>6 DEF Next

\* Nothing but the browser's Back sets off a chase.
THEOREM ChasesBeginWithBack ==
  Spec => [][~Chasing /\ Chasing' => \E v \in Variants : Back(v)]_vars
<1>1. Inv /\ [Next]_vars => [~Chasing /\ Chasing' => \E v \in Variants : Back(v)]_vars
  BY ChaseStep
<1>. QED
  BY InvAlways, <1>1, PTL DEF Spec

\* No navigation, response or refresh of the page's own ends a chase: a
\* selection does, and nothing else.
THEOREM ChasesEndWithSelection ==
  Spec => [][Chasing /\ ~Chasing' => \E v \in Variants : Select(v)]_vars
<1>1. Inv /\ [Next]_vars => [Chasing /\ ~Chasing' => \E v \in Variants : Select(v)]_vars
  BY ChaseStep
<1>. QED
  BY InvAlways, <1>1, PTL DEF Spec

\* The safety half of SettlesAlone: a page whose URL nobody changes from outside
\* never gets into a chase.
THEOREM NoChaseAlone == Spec => [](used.backs = 0 => ~Chasing)
<1> DEFINE Alone == used.backs = 0 => ~Chasing
<1>1. Init => Alone
  BY DEF Init, Chasing, NoNavigation
<1>2. Inv /\ Alone /\ [Next]_vars => Alone'
  <2> SUFFICES ASSUME Inv, Alone, [Next]_vars, used'.backs = 0, Chasing'
               PROVE  FALSE
    OBVIOUS
  <2>1. /\ used \in [selects : 0 .. MaxSelects, submits : Versions, backs : 0 .. MaxBacks,
                     failures : 0 .. MaxFailures]
        /\ used.backs \in Nat
    BY ViewBoundAssumption DEF Inv, TypeOK
  <2>2. used'.backs >= used.backs
    BY <2>1
    DEF Next, Render, Navigate, Recalculate, Refresh, Submit, SubmitFails, Select, Back,
        Proceed, ServeCrowd, ServePersonas, Receive, TakeCrowd, TakePersonas, Finish, Miss,
        Lose, RefuseCrowd, RefusePersonas, RefuseComparison, Failing, vars
  <2>3. ~Chasing
    BY <2>1, <2>2
  <2>4. PICK v \in Variants : Back(v)
    BY <2>3, ChaseStep
  <2>. QED
    BY <2>1, <2>4 DEF Back
<1>. QED
  BY InvAlways, <1>1, <1>2, PTL DEF Spec
=============================================================================
