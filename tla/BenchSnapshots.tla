--------------------------- MODULE BenchSnapshots ---------------------------
(***************************************************************************)
(* The benchmark snapshots of apps/api/src/bench/bench.service.ts: how     *)
(* they are kept, found again, compared, tagged and promoted.              *)
(*                                                                         *)
(* A snapshot's payload is its mean deltaVsAlwaysBuy per symbol, one       *)
(* window each, in hundredths; its domain stands for the key (symbols,     *)
(* windows, n, versions) that a snapshot is looked up by.  Only the tag of *)
(* a snapshot ever changes.  A request reads it in several statements and  *)
(* writes in one transaction at READ COMMITTED, which is one step from its *)
(* first write on.                                                         *)
(***************************************************************************)
EXTENDS Integers, Sequences, FiniteSetsExt, Functions

CONSTANTS Modes, Payloads,
          BaselineTags,  \* tags that POST /:id/tag and promote-candidate give
          ProductionTag, \* "production-aggregation-mode"
          NoTag, NoMode,
          MatchWindow,   \* take: 50
          Clients,
          MaxSnapshots, MaxRequests  \* bounds

ASSUME TagAssumption == NoTag \notin BaselineTags \cup {ProductionTag}
                        /\ ProductionTag \notin BaselineTags
ASSUME BenchBoundAssumption ==
    MatchWindow \in Nat \ {0} /\ MaxSnapshots \in Nat \ {0} /\ MaxRequests \in Nat

VARIABLES snapshots,  \* BenchWindowSnapshot rows, oldest first
          call,       \* per client: the request in progress
          requests

vars == <<snapshots, call, requests>>

Tags == BaselineTags \cup {ProductionTag}
Ids  == 1 .. MaxSnapshots
None == 0

Snapshots == [mode : Modes, payload : Payloads, tag : Tags \cup {NoTag}, isBaseline : BOOLEAN]

\* raced is history: whether another request has moved a tag since this came.
Idle == [pc |-> "idle", why |-> "tag", id |-> None, tag |-> NoTag, overwrite |-> FALSE,
         baselineTag |-> NoTag, mode |-> NoMode,
         key |-> {}, base |-> None, owner |-> None, raced |-> FALSE]

Calls == [pc : {"idle", "target", "owner", "move", "candidate", "find", "reuse", "bench", "compare"},
          why : {"tag", "promote", "mode", "compare"},
          id : Ids \cup {None}, tag : Tags \cup {NoTag}, overwrite : BOOLEAN,
          baselineTag : BaselineTags \cup {NoTag}, mode : Modes \cup {NoMode},
          key : {DOMAIN p : p \in Payloads} \cup {{}},
          base : Ids \cup {None}, owner : Ids \cup {None},
          raced : BOOLEAN]

TypeOK ==
    /\ snapshots \in Seq(Snapshots) /\ Len(snapshots) <= MaxSnapshots
    /\ call \in [Clients -> Calls]
    /\ requests \in 0 .. MaxRequests

\* Somebody has tagged a first baseline.
Init ==
    /\ \E m \in Modes, p \in Payloads, t \in BaselineTags :
         snapshots = <<[mode |-> m, payload |-> p, tag |-> t, isBaseline |-> TRUE]>>
    /\ call = [c \in Clients |-> Idle]
    /\ requests = 0

-----------------------------------------------------------------------------
(* Lookup and comparison.                                                  *)

\* The row a tag is found at; tag is unique.
Tagged(t) == LET S == {i \in DOMAIN snapshots : snapshots[i].tag = t}
             IN  IF S = {} THEN None ELSE Max(S)

\* findMatchingBenchWindowSnapshot: of the newest 50 with this key, whatever
\* their mode, the newest of the mode.
FindMatching(key, mode) ==
    LET rows   == {i \in DOMAIN snapshots : DOMAIN snapshots[i].payload = key}
        recent == {i \in rows : Cardinality({j \in rows : j > i}) < MatchWindow}
        hits   == {i \in recent : snapshots[i].mode = mode}
    IN  IF hits = {} THEN None ELSE Max(hits)

Total(p) == MapThenSumSet(LAMBDA s : p[s], DOMAIN p)

\* computeSnapshotRawScore: mean >= bound, of the one snapshot.
RawScoreExceeds(p, q, bound) ==
    Total(p) * Cardinality(DOMAIN q) - Total(q) * Cardinality(DOMAIN p)
        >= bound * Cardinality(DOMAIN p) * Cardinality(DOMAIN q)

\* compareBenchWindowsSnapshots: the differences where both have a value, a
\* score of 0 where none has, and a bySymbol for those only.
Differences(cur, base) == [s \in DOMAIN cur \cap DOMAIN base |-> cur[s] - base[s]]

\* Mutation: the symbols are not looked at.
ShouldPromoteOnScore(diff) ==
    DOMAIN diff # {} /\ Total(diff) >= 3 * Cardinality(DOMAIN diff)

\* shouldPromote: PROMOTE_MIN_SCORE 0.03, PROMOTE_MAX_SYMBOL_REGRESSION -0.1.
ShouldPromote(diff) ==
    /\ DOMAIN diff # {} /\ Total(diff) >= 3 * Cardinality(DOMAIN diff)
    /\ \A s \in DOMAIN diff : diff[s] > -10

\* Mutation: hasNegativeSymbol is left out.
ModeWinsOnDelta(cand, base) == RawScoreExceeds(cand, base, 2)

\* promoteAggregationMode: PROMOTE_MIN_DELTA 0.02 and no negative symbol.
ModeWins(cand, base) ==
    /\ RawScoreExceeds(cand, base, 2)
    /\ \A s \in DOMAIN cand : cand[s] >= 0

-----------------------------------------------------------------------------
Continue(c, k) == call' = [call EXCEPT ![c] = k]

\* Answered without a write: done, 400 or 409.
Answer(c) == Continue(c, Idle) /\ UNCHANGED <<snapshots, requests>>

Arrive(c, k) ==
    /\ call[c] = Idle /\ requests < MaxRequests
    /\ requests' = requests + 1
    /\ Continue(c, k)
    /\ UNCHANGED snapshots

\* POST /bench/windows/snapshots/:id/tag.
RequestTag(c, i, t, overwrite) ==
    Arrive(c, [Idle EXCEPT !.pc = "target", !.id = i, !.tag = t, !.overwrite = overwrite])

\* POST /bench/windows/promote-candidate.
RequestPromote(c, i, base, t, overwrite) ==
    Arrive(c, [Idle EXCEPT !.pc = "compare", !.why = "promote", !.id = i, !.baselineTag = base,
                           !.tag = t, !.overwrite = overwrite])

\* POST /bench/windows/promote-aggregation-mode, which tags with overwrite.
RequestMode(c, key, mode) ==
    Arrive(c, [Idle EXCEPT !.pc = "candidate", !.why = "mode", !.key = key, !.mode = mode,
                           !.tag = ProductionTag, !.overwrite = TRUE])

\* GET /bench/windows/gate ("find") and POST run-and-compare ("reuse"); with
\* forceRun both go straight to the benchmark ("bench").
RequestCompare(c, pc, key, mode, base) ==
    Arrive(c, [Idle EXCEPT !.pc = pc, !.why = "compare", !.key = key, !.mode = mode,
                           !.baselineTag = base])

\* runGateCheck: 400 "No matching snapshot".
GateFind(c) ==
    LET k == call[c]
    IN  /\ k.pc = "find"
        /\ Continue(c, IF FindMatching(k.key, k.mode) = None THEN Idle
                       ELSE [k EXCEPT !.pc = "reuse"])
        /\ UNCHANGED <<snapshots, requests>>

\* runAndCompareBenchWindows looks again: the snapshot found, or a benchmark.
Reuse(c) ==
    LET k == call[c]
        i == FindMatching(k.key, k.mode)
    IN  /\ k.pc = "reuse"
        /\ Continue(c, [k EXCEPT !.pc = IF i = None THEN "bench" ELSE "compare", !.id = i])
        /\ UNCHANGED <<snapshots, requests>>

NewSnapshot(m, p) == [mode |-> m, payload |-> p, tag |-> NoTag, isBaseline |-> FALSE]

\* runWindowsBench with persist: a row without a tag, once every run of the
\* benchmark has COMPLETED (else 400: Abort); then the comparison.
Persist(c, p) ==
    LET k == call[c]
    IN  /\ k.pc = "bench" /\ DOMAIN p = k.key
        /\ Len(snapshots) < MaxSnapshots
        /\ snapshots' = Append(snapshots, NewSnapshot(k.mode, p))
        /\ Continue(c, [k EXCEPT !.pc = "compare", !.id = Len(snapshots) + 1])
        /\ UNCHANGED requests

\* POST /bench/windows with persist=true, by anybody.
Bench(m, p) ==
    /\ Len(snapshots) < MaxSnapshots
    /\ snapshots' = Append(snapshots, NewSnapshot(m, p))
    /\ UNCHANGED <<call, requests>>

\* compareBenchWindowsSnapshots: 400 without a baseline or across modes.  A
\* gate then has its verdict; a promotion goes on to tag.
Compare(c) ==
    LET k == call[c]
        b == Tagged(k.baselineTag)
    IN  /\ k.pc = "compare"
        /\ IF /\ k.why = "promote" /\ b # None
              /\ snapshots[b].mode = snapshots[k.id].mode
              /\ ShouldPromote(Differences(snapshots[k.id].payload, snapshots[b].payload))
           THEN Continue(c, [k EXCEPT !.pc = "target", !.base = b])
           ELSE Continue(c, Idle)
        /\ UNCHANGED <<snapshots, requests>>

\* promoteAggregationMode: the newest of the candidate mode against the
\* newest of the other.
CompareModes(c, other) ==
    LET k == call[c]
        i == FindMatching(k.key, k.mode)
        b == FindMatching(k.key, other)
    IN  /\ k.pc = "candidate"
        /\ IF i # None /\ b # None /\ ModeWins(snapshots[i].payload, snapshots[b].payload)
           THEN Continue(c, [k EXCEPT !.pc = "target", !.id = i, !.base = b])
           ELSE Continue(c, Idle)
        /\ UNCHANGED <<snapshots, requests>>

-----------------------------------------------------------------------------
(* tagBenchWindowSnapshot.                                                 *)

\* Mutation: a tag the target already has is replaced unasked.
ReadTargetUnchecked(c) ==
    LET k == call[c]
    IN  /\ k.pc = "target"
        /\ IF snapshots[k.id].tag = k.tag
           THEN Continue(c, Idle) ELSE Continue(c, [k EXCEPT !.pc = "owner"])
        /\ UNCHANGED <<snapshots, requests>>

\* Tagged so already: nothing to do; otherwise tagged: 409 without overwrite.
ReadTarget(c) ==
    LET k == call[c]
    IN  /\ k.pc = "target"
        /\ IF snapshots[k.id].tag = k.tag \/ (snapshots[k.id].tag # NoTag /\ ~k.overwrite)
           THEN Continue(c, Idle) ELSE Continue(c, [k EXCEPT !.pc = "owner"])
        /\ UNCHANGED <<snapshots, requests>>

\* The tag has an owner: 409 without overwrite.
ReadOwner(c) ==
    LET k == call[c]
        o == Tagged(k.tag)
    IN  /\ k.pc = "owner"
        /\ IF o \notin {None, k.id} /\ ~k.overwrite
           THEN Continue(c, Idle) ELSE Continue(c, [k EXCEPT !.pc = "move", !.owner = o])
        /\ UNCHANGED <<snapshots, requests>>

\* Mutation: the owner gets an empty tag for null.
MovedBlank(k) ==
    [i \in DOMAIN snapshots |->
        IF i = k.id THEN [snapshots[i] EXCEPT !.tag = k.tag, !.isBaseline = TRUE]
        ELSE IF i = k.owner THEN [snapshots[i] EXCEPT !.tag = "", !.isBaseline = FALSE]
        ELSE snapshots[i]]

\* The rows after the updates: the owner that was read loses whatever tag it
\* has by now, the target gets the tag.
Moved(k) ==
    [i \in DOMAIN snapshots |->
        IF i = k.id THEN [snapshots[i] EXCEPT !.tag = k.tag, !.isBaseline = TRUE]
        ELSE IF i = k.owner THEN [snapshots[i] EXCEPT !.tag = NoTag, !.isBaseline = FALSE]
        ELSE snapshots[i]]

\* Mutation: no unique index.
NeverConflicting(k) == FALSE

\* tag is @unique: a third row that has got the tag meanwhile aborts the
\* transaction (P2002).
Conflicting(k) ==
    \E i \in DOMAIN snapshots \ {k.id, k.owner} : snapshots[i].tag = k.tag

Move(c) ==
    LET k == call[c]
    IN  /\ k.pc = "move"
        /\ snapshots' = IF Conflicting(k) THEN snapshots ELSE Moved(k)
        /\ call' = [d \in Clients |->
                      IF d = c THEN Idle
                      ELSE IF call[d] = Idle THEN Idle
                      ELSE [call[d] EXCEPT !.raced = @ \/ ~Conflicting(k)]]
        /\ UNCHANGED requests

\* A run of the benchmark did not complete, or the API died.
Abort(c) == call[c] # Idle /\ Answer(c)

Step(c) ==
    \/ GateFind(c) \/ Reuse(c) \/ Compare(c)
    \/ \E p \in Payloads : Persist(c, p)
    \/ \E m \in Modes : CompareModes(c, m)
    \/ ReadTarget(c) \/ ReadOwner(c) \/ Move(c) \/ Abort(c)

Request(c) ==
    \/ \E i \in DOMAIN snapshots, t \in BaselineTags, o \in BOOLEAN :
         RequestTag(c, i, t, o) \/ \E b \in BaselineTags : RequestPromote(c, i, b, t, o)
    \/ \E p \in Payloads, m \in Modes :
         \/ RequestMode(c, DOMAIN p, m)
         \/ \E pc \in {"find", "reuse", "bench"}, b \in BaselineTags :
              RequestCompare(c, pc, DOMAIN p, m, b)

Next ==
    \/ \E m \in Modes, p \in Payloads : Bench(m, p)
    \/ \E c \in Clients : Step(c) \/ Request(c)

Spec == Init /\ [][Next]_vars

-----------------------------------------------------------------------------
\* However tagging requests overlap, a tag has at most one row, and exactly
\* the tagged rows are baselines.
TagsHaveOneOwner ==
    /\ \A i, j \in DOMAIN snapshots :
         snapshots[i].tag = snapshots[j].tag /\ i # j => snapshots[i].tag = NoTag
    /\ \A i \in DOMAIN snapshots : snapshots[i].isBaseline <=> snapshots[i].tag # NoTag

\* "Use overwrite=true to replace it", "... to move it": a row loses its tag
\* only to a request that said overwrite, and then as the former owner of the
\* tag that is moved or as the row it is moved to.  (One that was overtaken
\* by another move goes by what it read: NothingTakenUnasked speaks of the
\* others.)
Loses(i) == snapshots[i].tag \notin {NoTag, snapshots'[i].tag}
NothingTakenUnasked ==
    [][\A i \in DOMAIN snapshots : Loses(i) =>
         \E c \in Clients :
            /\ call[c].pc = "move"
            /\ \/ call[c].raced
               \/ /\ call[c].overwrite
                  /\ i = call[c].id \/ snapshots[i].tag = call[c].tag]_snapshots

\* A baseline that promotions alone move is never replaced by a worse one:
\* its score rises by 0.03 on average and no symbol falls by 0.1.  (Again for
\* promotions that no other move has overtaken.)
PromotionsImprove ==
    [][\A t \in BaselineTags, i, j \in DOMAIN snapshots, c \in Clients :
         /\ snapshots[i].tag = t /\ snapshots'[j].tag = t /\ i # j
         /\ call[c].pc = "move" /\ call'[c] = Idle /\ ~call[c].raced
         /\ call[c].why = "promote" /\ call[c].baselineTag = t
         => LET d == Differences(snapshots[j].payload, snapshots[i].payload)
            IN  /\ Total(d) >= 3 * Cardinality(DOMAIN d)
                /\ \A s \in DOMAIN d : d[s] > -10]_snapshots

\* Production is what promote-aggregation-mode made it: a snapshot without a
\* negative symbol that beats another of its key by 0.02, whatever was tagged
\* or added between the comparison and the move.  (POST /:id/tag would give any
\* snapshot that tag; here it is used for baselines only.)
ProductionIsEarned ==
    LET i == Tagged(ProductionTag)
    IN  i # None =>
          /\ \A s \in DOMAIN snapshots[i].payload : snapshots[i].payload[s] >= 0
          /\ \E b \in DOMAIN snapshots :
               /\ DOMAIN snapshots[b].payload = DOMAIN snapshots[i].payload
               /\ RawScoreExceeds(snapshots[i].payload, snapshots[b].payload, 2)

=============================================================================
