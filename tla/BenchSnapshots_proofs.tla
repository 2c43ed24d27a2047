----------------------- MODULE BenchSnapshots_proofs -----------------------
(***************************************************************************)
(* Theorems about BenchSnapshots for any payloads, modes, window of the    *)
(* lookup and number of clients.                                           *)
(***************************************************************************)
EXTENDS BenchSnapshots, WellFoundedInduction, TLAPS

\* A set of positions up to n has a largest.
LEMMA MaxOfPositions ==
  ASSUME NEW n \in Nat, NEW S \in SUBSET (1 .. n), S # {}
  PROVE  Max(S) \in S /\ \A i \in S : i <= Max(S)
<1> DEFINE T == {k \in Nat : n - k \in S}
           R == OpToRel(<, Nat)
<1>1. PICK i \in S : TRUE
  OBVIOUS
<1>2. n - i \in T
  <2>1. n - i \in Nat /\ n - (n - i) = i
    OBVIOUS
  <2>. QED
    BY <2>1
<1>3. PICK m \in T : \A k \in T : <<k, m>> \notin R
  <2>1. T \subseteq Nat /\ T # {}
    BY <1>2
  <2>2. IsWellFoundedOn(R, Nat)
    BY NatLessThanWellFounded
  <2> HIDE DEF T, R
  <2>. QED
    BY <2>1, <2>2, WFMin
<1>4. \A k \in T : ~(k < m)
  BY <1>3 DEF OpToRel
<1>5. ASSUME NEW j \in S PROVE n - m >= j
  <2>1. n - j \in Nat /\ n - (n - j) = j
    OBVIOUS
  <2>2. n - j \in T
    BY <2>1
  <2>. QED
    BY <1>4, <2>2
<1>. QED
  BY <1>3, <1>5 DEF Max

-----------------------------------------------------------------------------
USE TagAssumption, BenchBoundAssumption

\* What a request k that is in progress may rely on: the rows it goes by
\* exist, a tag it is about to give is one, and, unless another move came in
\* between, the target and the owner it has read are still what they were.
Fits(rows, k) ==
    /\ k.pc \in {"target", "owner", "move", "compare"} => k.id \in DOMAIN rows
    /\ k.owner \in DOMAIN rows \cup {None}
    /\ k.pc \in {"find", "reuse", "bench"} => k.mode \in Modes
    /\ k.pc \in {"target", "owner", "move", "candidate"} \/ k.why = "promote" => k.tag \in Tags
    /\ ~k.raced =>
         /\ k.pc \in {"owner", "move"} => k.overwrite \/ rows[k.id].tag \in {NoTag, k.tag}
         /\ k.pc = "move" /\ k.owner \notin {None, k.id} =>
              k.overwrite /\ rows[k.owner].tag = k.tag

Inv ==
    /\ TypeOK
    /\ TagsHaveOneOwner
    /\ \A c \in Clients : Fits(snapshots, call[c])

\* Snapshots are numbered from 1.
LEMMA Positions ==
  ASSUME TypeOK
  PROVE  /\ Len(snapshots) \in Nat
         /\ DOMAIN snapshots = 1 .. Len(snapshots)
         /\ DOMAIN snapshots \subseteq Ids
         /\ \A i \in DOMAIN snapshots : snapshots[i] \in Snapshots
BY DEF TypeOK, Ids

\* A lookup by tag answers with a row or with none.
LEMMA TaggedIsRow ==
  ASSUME TypeOK, NEW t
  PROVE  /\ Tagged(t) \in DOMAIN snapshots \cup {None}
         /\ Tagged(t) # None => snapshots[Tagged(t)].tag = t
<1> DEFINE S == {i \in DOMAIN snapshots : snapshots[i].tag = t}
<1>1. CASE S = {}
  <2>1. Tagged(t) = None
    BY <1>1 DEF Tagged
  <2>. QED
    BY <2>1
<1>2. CASE S # {}
  <2>1. S \in SUBSET (1 .. Len(snapshots)) /\ Len(snapshots) \in Nat
    BY Positions
  <2>2. Max(S) \in S
    <3> HIDE DEF S
    <3>. QED
      BY <1>2, <2>1, MaxOfPositions
  <2>3. Tagged(t) = Max(S)
    BY <1>2 DEF Tagged
  <2>. QED
    BY <2>2, <2>3
<1>. QED
  BY <1>1, <1>2

\* So does the lookup of the newest of a key and mode.
LEMMA FoundIsRow ==
  ASSUME TypeOK, NEW key, NEW mode
  PROVE  LET i == FindMatching(key, mode)
         IN  /\ i \in DOMAIN snapshots \cup {None}
             /\ i # None => DOMAIN snapshots[i].payload = key
<1> DEFINE rows   == {i \in DOMAIN snapshots : DOMAIN snapshots[i].payload = key}
           recent == {i \in rows : Cardinality({j \in rows : j > i}) < MatchWindow}
           hits   == {i \in recent : snapshots[i].mode = mode}
<1>1. hits \in SUBSET (1 .. Len(snapshots)) /\ Len(snapshots) \in Nat
  BY Positions
<1>2. FindMatching(key, mode) = IF hits = {} THEN None ELSE Max(hits)
  BY DEF FindMatching
<1>3. \A i \in hits : i \in DOMAIN snapshots /\ DOMAIN snapshots[i].payload = key
  OBVIOUS
<1> HIDE DEF hits
<1>4. hits # {} => Max(hits) \in hits
  BY <1>1, MaxOfPositions
<1>. QED
  BY <1>2, <1>3, <1>4

-----------------------------------------------------------------------------
LEMMA InitInv == Init => Inv
<1> SUFFICES ASSUME Init PROVE Inv
  OBVIOUS
<1>1. PICK m \in Modes, p \in Payloads, t \in BaselineTags :
        snapshots = <<[mode |-> m, payload |-> p, tag |-> t, isBaseline |-> TRUE]>>
  BY DEF Init
<1>2. snapshots \in Seq(Snapshots) /\ Len(snapshots) = 1 /\ DOMAIN snapshots = {1}
  BY <1>1 DEF Snapshots, Tags
<1>3. Idle \in Calls
  BY DEF Idle, Calls
<1>4. TypeOK
  BY <1>2, <1>3 DEF Init, TypeOK
<1>5. TagsHaveOneOwner
  BY <1>1, <1>2 DEF TagsHaveOneOwner
<1>6. Fits(snapshots, Idle)
  BY DEF Fits, Idle
<1>. QED
  BY <1>4, <1>5, <1>6 DEF Inv, Init

\* A step that changes no snapshot keeps the invariant if the new state of
\* its request fits.
LEMMA RequestMoves ==
  ASSUME Inv, NEW c \in Clients, NEW k, k \in Calls, Fits(snapshots, k),
         Continue(c, k), UNCHANGED snapshots, requests' \in 0 .. MaxRequests
  PROVE  Inv'
<1>1. call' \in [Clients -> Calls]
  BY DEF Inv, TypeOK, Continue
<1>2. \A d \in Clients : call'[d] = IF d = c THEN k ELSE call[d]
  BY DEF Inv, TypeOK, Continue
<1>3. \A d \in Clients : Fits(snapshots, call'[d])
  BY <1>2 DEF Inv
<1>. QED
  BY <1>1, <1>3 DEF Inv, TypeOK, TagsHaveOneOwner

\* Requests and answers.
LEMMA IdleFits == Idle \in Calls /\ \A rows : Fits(rows, Idle)
BY DEF Idle, Calls, Fits

LEMMA AnswerKeeps ==
  ASSUME Inv, NEW c \in Clients, Answer(c)
  PROVE  Inv'
BY RequestMoves, IdleFits DEF Answer, Inv, TypeOK

LEMMA RequestKeeps ==
  ASSUME Inv, NEW c \in Clients, Request(c)
  PROVE  Inv'
<1>1. ASSUME NEW k, k \in Calls, Fits(snapshots, k), Arrive(c, k)
      PROVE  Inv'
  <2>1. requests' \in 0 .. MaxRequests
    BY <1>1 DEF Arrive, Inv, TypeOK
  <2>. QED
    BY <1>1, <2>1, RequestMoves DEF Arrive
<1>2. DOMAIN snapshots \subseteq Ids
  BY Positions DEF Inv
<1>3. ASSUME NEW i \in DOMAIN snapshots, NEW t \in BaselineTags, NEW o \in BOOLEAN,
             RequestTag(c, i, t, o)
      PROVE  Inv'
  <2> DEFINE k == [Idle EXCEPT !.pc = "target", !.id = i, !.tag = t, !.overwrite = o]
  <2>1. k \in Calls
    BY <1>2 DEF Idle, Calls, Tags
  <2>2. Fits(snapshots, k)
    BY DEF Idle, Fits, Tags
  <2>. QED
    BY <1>1, <1>3, <2>1, <2>2 DEF RequestTag
<1>4. ASSUME NEW i \in DOMAIN snapshots, NEW t \in BaselineTags, NEW o \in BOOLEAN,
             NEW b \in BaselineTags, RequestPromote(c, i, b, t, o)
      PROVE  Inv'
  <2> DEFINE k == [Idle EXCEPT !.pc = "compare", !.why = "promote", !.id = i, !.baselineTag = b,
                               !.tag = t, !.overwrite = o]
  <2>1. k \in Calls
    BY <1>2 DEF Idle, Calls, Tags
  <2>2. Fits(snapshots, k)
    BY DEF Idle, Fits, Tags
  <2>. QED
    BY <1>1, <1>4, <2>1, <2>2 DEF RequestPromote
<1>5. ASSUME NEW p \in Payloads, NEW m \in Modes, RequestMode(c, DOMAIN p, m)
      PROVE  Inv'
  <2> DEFINE k == [Idle EXCEPT !.pc = "candidate", !.why = "mode", !.key = DOMAIN p, !.mode = m,
                               !.tag = ProductionTag, !.overwrite = TRUE]
  <2>1. k \in Calls
    BY DEF Idle, Calls, Tags
  <2>2. Fits(snapshots, k)
    BY DEF Idle, Fits, Tags
  <2>. QED
    BY <1>1, <1>5, <2>1, <2>2 DEF RequestMode
<1>6. ASSUME NEW p \in Payloads, NEW m \in Modes, NEW pc \in {"find", "reuse", "bench"},
             NEW b \in BaselineTags, RequestCompare(c, pc, DOMAIN p, m, b)
      PROVE  Inv'
  <2> DEFINE k == [Idle EXCEPT !.pc = pc, !.why = "compare", !.key = DOMAIN p, !.mode = m,
                               !.baselineTag = b]
  <2>1. k \in Calls
    BY DEF Idle, Calls
  <2>2. Fits(snapshots, k)
    BY DEF Idle, Fits
  <2>. QED
    BY <1>1, <1>6, <2>1, <2>2 DEF RequestCompare
<1>. QED
  BY <1>3, <1>4, <1>5, <1>6 DEF Request

\* Lookups and comparisons: they only choose rows that exist.
LEMMA LookupKeeps ==
  ASSUME Inv, NEW c \in Clients,
         \/ GateFind(c) \/ Reuse(c) \/ Compare(c) \/ \E m \in Modes : CompareModes(c, m)
  PROVE  Inv'
<1> DEFINE k == call[c]
<1>1. k \in Calls /\ Fits(snapshots, k) /\ TypeOK /\ requests \in 0 .. MaxRequests
  BY DEF Inv, TypeOK
<1>2. DOMAIN snapshots \subseteq Ids
  BY <1>1, Positions
<1>3. ASSUME NEW n, n \in Calls, Fits(snapshots, n), Continue(c, n),
             UNCHANGED <<snapshots, requests>>
      PROVE  Inv'
  BY <1>1, <1>3, RequestMoves
<1>4. CASE GateFind(c)
  <2> DEFINE n == [k EXCEPT !.pc = "reuse"]
  <2>1. n \in Calls /\ Fits(snapshots, n)
    BY <1>1, <1>4 DEF GateFind, Calls, Fits
  <2>. QED
    BY <1>3, <1>4, <2>1, IdleFits DEF GateFind
<1>5. CASE Reuse(c)
  <2> DEFINE i == FindMatching(k.key, k.mode)
             n == [k EXCEPT !.pc = IF i = None THEN "bench" ELSE "compare", !.id = i]
  <2>1. i \in DOMAIN snapshots \cup {None}
    BY <1>1, FoundIsRow
  <2> HIDE DEF i
  <2>2. n \in Calls
    BY <1>1, <1>2, <2>1 DEF Calls
  <2>3. Fits(snapshots, n)
    BY <1>1, <1>2, <2>1, <1>5 DEF Calls, Fits, Reuse
  <2>4. Continue(c, n) /\ UNCHANGED <<snapshots, requests>>
    BY <1>5 DEF Reuse, i
  <2>. QED
    BY <1>3, <2>2, <2>3, <2>4
<1>6. CASE Compare(c)
  <2> DEFINE b == Tagged(k.baselineTag)
             n == [k EXCEPT !.pc = "target", !.base = b]
  <2>1. b \in DOMAIN snapshots \cup {None}
    BY <1>1, TaggedIsRow
  <2>2. /\ UNCHANGED <<snapshots, requests>>
        /\ Continue(c, Idle) \/ (k.why = "promote" /\ Continue(c, n))
    BY <1>6 DEF Compare
  <2> HIDE DEF b
  <2>3. n \in Calls
    BY <1>1, <1>2, <2>1 DEF Calls
  <2>4. k.why = "promote" => Fits(snapshots, n)
    BY <1>1, <1>6 DEF Calls, Fits, Compare
  <2>. QED
    BY <1>3, <2>2, <2>3, <2>4, IdleFits
<1>7. ASSUME NEW m \in Modes, CompareModes(c, m)
      PROVE  Inv'
  <2> DEFINE i == FindMatching(k.key, k.mode)
             b == FindMatching(k.key, m)
             n == [k EXCEPT !.pc = "target", !.id = i, !.base = b]
  <2>1. i \in DOMAIN snapshots \cup {None} /\ b \in DOMAIN snapshots \cup {None}
    BY <1>1, FoundIsRow
  <2>2. /\ UNCHANGED <<snapshots, requests>>
        /\ Continue(c, Idle) \/ (i # None /\ Continue(c, n))
    BY <1>7 DEF CompareModes
  <2> HIDE DEF i, b
  <2>3. n \in Calls
    BY <1>1, <1>2, <2>1 DEF Calls
  <2>4. i # None => Fits(snapshots, n)
    BY <1>1, <1>7, <2>1 DEF Calls, Fits, CompareModes
  <2>. QED
    BY <1>3, <2>2, <2>3, <2>4, IdleFits
<1>. QED
  BY <1>4, <1>5, <1>6, <1>7

\* The two reads of a tagging request.
LEMMA ReadKeeps ==
  ASSUME Inv, NEW c \in Clients, ReadTarget(c) \/ ReadOwner(c)
  PROVE  Inv'
<1> DEFINE k == call[c]
<1>1. k \in Calls /\ Fits(snapshots, k) /\ TypeOK /\ requests \in 0 .. MaxRequests
  BY DEF Inv, TypeOK
<1>2. DOMAIN snapshots \subseteq Ids
  BY <1>1, Positions
<1>3. ASSUME NEW n, n \in Calls, Fits(snapshots, n), Continue(c, n),
             UNCHANGED <<snapshots, requests>>
      PROVE  Inv'
  BY <1>1, <1>3, RequestMoves
<1>4. CASE ReadTarget(c)
  <2> DEFINE n == [k EXCEPT !.pc = "owner"]
  <2>1. n \in Calls
    BY <1>1 DEF Calls
  <2>2. snapshots[k.id].tag = NoTag \/ k.overwrite => Fits(snapshots, n)
    BY <1>1, <1>4 DEF Calls, Fits, ReadTarget
  <2>. QED
    BY <1>3, <1>4, <2>1, <2>2, IdleFits DEF ReadTarget
<1>5. CASE ReadOwner(c)
  <2> DEFINE o == Tagged(k.tag)
             n == [k EXCEPT !.pc = "move", !.owner = o]
  <2>1. /\ o \in DOMAIN snapshots \cup {None}
        /\ o # None => snapshots[o].tag = k.tag
    BY <1>1, TaggedIsRow
  <2>2. /\ UNCHANGED <<snapshots, requests>>
        /\ Continue(c, Idle) \/ ((o \notin {None, k.id} => k.overwrite) /\ Continue(c, n))
    BY <1>1, <1>5 DEF ReadOwner, Calls
  <2> HIDE DEF o
  <2>3. n \in Calls
    BY <1>1, <1>2, <2>1 DEF Calls
  <2>4. (o \notin {None, k.id} => k.overwrite) => Fits(snapshots, n)
    BY <1>1, <1>5, <2>1 DEF Calls, Fits, ReadOwner
  <2>. QED
    BY <1>3, <2>2, <2>3, <2>4, IdleFits
<1>. QED
  BY <1>4, <1>5

\* A new row at the end disturbs no request and no tag.
LEMMA Grown ==
  ASSUME Inv, NEW m \in Modes, NEW p \in Payloads,
         Len(snapshots) < MaxSnapshots, snapshots' = Append(snapshots, NewSnapshot(m, p))
  PROVE  /\ snapshots' \in Seq(Snapshots) /\ Len(snapshots') <= MaxSnapshots
         /\ Len(snapshots) + 1 \in DOMAIN snapshots'
         /\ TagsHaveOneOwner'
         /\ \A k \in Calls : Fits(snapshots, k) => Fits(snapshots', k)
<1> DEFINE n == Len(snapshots) + 1
<1>1. /\ snapshots \in Seq(Snapshots) /\ n \in Nat
      /\ DOMAIN snapshots = 1 .. Len(snapshots)
  BY Positions DEF Inv, TypeOK
<1>2. NewSnapshot(m, p) \in Snapshots
  BY DEF NewSnapshot, Snapshots
<1>3. /\ snapshots' \in Seq(Snapshots) /\ Len(snapshots') = n
      /\ DOMAIN snapshots' = DOMAIN snapshots \cup {n} /\ n \notin DOMAIN snapshots
      /\ \A i \in DOMAIN snapshots : snapshots'[i] = snapshots[i]
      /\ snapshots'[n] = NewSnapshot(m, p)
  BY <1>1, <1>2
<1>4. TagsHaveOneOwner'
  BY <1>3 DEF TagsHaveOneOwner, NewSnapshot, Inv
<1>5. ASSUME NEW k \in Calls, Fits(snapshots, k)
      PROVE  Fits(snapshots', k)
  BY <1>3, <1>5 DEF Fits
<1>. QED
  BY <1>1, <1>3, <1>4, <1>5

LEMMA BenchKeeps ==
  ASSUME Inv, NEW m \in Modes, NEW p \in Payloads, Bench(m, p)
  PROVE  Inv'
BY Grown DEF Bench, Inv, TypeOK

LEMMA PersistKeeps ==
  ASSUME Inv, NEW c \in Clients, NEW p \in Payloads, Persist(c, p)
  PROVE  Inv'
<1> DEFINE k == call[c]
           n == [k EXCEPT !.pc = "compare", !.id = Len(snapshots) + 1]
<1>1. k \in Calls /\ Fits(snapshots, k) /\ Len(snapshots) \in Nat
  BY Positions DEF Inv, TypeOK
<1>2. k.pc = "bench" /\ k.mode \in Modes /\ Len(snapshots) + 1 \in Ids
  BY <1>1 DEF Persist, Fits, Ids
<1>3. /\ snapshots' \in Seq(Snapshots) /\ Len(snapshots') <= MaxSnapshots
      /\ Len(snapshots) + 1 \in DOMAIN snapshots'
      /\ TagsHaveOneOwner'
      /\ \A q \in Calls : Fits(snapshots, q) => Fits(snapshots', q)
  BY <1>2, Grown DEF Persist
<1>4. n \in Calls
  BY <1>1, <1>2 DEF Calls
<1>5. Fits(snapshots', n)
  <2>1. Fits(snapshots', k)
    BY <1>1, <1>3
  <2>. QED
    BY <1>1, <1>2, <1>3, <2>1 DEF Fits, Calls
<1>6. call' = [call EXCEPT ![c] = n] /\ UNCHANGED requests
  BY DEF Persist, Continue
<1> HIDE DEF n
<1>7. call' \in [Clients -> Calls]
  BY <1>4, <1>6 DEF Inv, TypeOK
<1>8. \A d \in Clients : Fits(snapshots', call'[d])
  BY <1>3, <1>5, <1>6 DEF Inv, TypeOK
<1>. QED
  BY <1>3, <1>6, <1>7, <1>8 DEF Inv, TypeOK

-----------------------------------------------------------------------------
\* What a move does to each row, when it is not aborted.
LEMMA MovedRows ==
  ASSUME Inv, NEW c \in Clients, call[c].pc = "move", ~Conflicting(call[c])
  PROVE  LET k == call[c]
             rows == Moved(k)
         IN  /\ rows \in Seq(Snapshots) /\ Len(rows) = Len(snapshots)
             /\ DOMAIN rows = DOMAIN snapshots
             /\ k.tag \in Tags /\ k.id \in DOMAIN snapshots
             /\ rows[k.id].tag = k.tag /\ rows[k.id].isBaseline
             /\ \A i \in DOMAIN snapshots \ {k.id} :
                  /\ i = k.owner => rows[i].tag = NoTag /\ ~rows[i].isBaseline
                  /\ i # k.owner => rows[i] = snapshots[i] /\ snapshots[i].tag # k.tag
<1> DEFINE k == call[c]
           rows == Moved(k)
<1>1. k \in Calls /\ Fits(snapshots, k) /\ TypeOK
  BY DEF Inv, TypeOK
<1>2. /\ Len(snapshots) \in Nat /\ DOMAIN snapshots = 1 .. Len(snapshots)
      /\ \A i \in DOMAIN snapshots : snapshots[i] \in Snapshots
  BY <1>1, Positions
<1>3. k.tag \in Tags /\ k.id \in DOMAIN snapshots
  BY <1>1 DEF Fits
<1>4. \A i \in DOMAIN snapshots : rows[i] \in Snapshots
  BY <1>2, <1>3 DEF Moved, Snapshots
<1>5. DOMAIN rows = DOMAIN snapshots
  BY DEF Moved
<1>6. rows \in Seq(Snapshots) /\ Len(rows) = Len(snapshots)
  <2>1. rows \in [1 .. Len(snapshots) -> Snapshots]
    BY <1>2, <1>4, <1>5 DEF Moved
  <2> HIDE DEF rows
  <2>. QED
    BY <1>2, <2>1
<1>7. rows[k.id].tag = k.tag /\ rows[k.id].isBaseline
  BY <1>2, <1>3 DEF Moved, Snapshots
<1>8. ASSUME NEW i \in DOMAIN snapshots \ {k.id}
      PROVE  /\ i = k.owner => rows[i].tag = NoTag /\ ~rows[i].isBaseline
             /\ i # k.owner => rows[i] = snapshots[i] /\ snapshots[i].tag # k.tag
  BY <1>2, <1>8 DEF Moved, Snapshots, Conflicting
<1>. QED
  BY <1>3, <1>5, <1>6, <1>7, <1>8

LEMMA MoveKeeps ==
  ASSUME Inv, NEW c \in Clients, Move(c)
  PROVE  Inv'
<1> DEFINE k == call[c]
<1>1. k.pc = "move" /\ UNCHANGED requests
  BY DEF Move
<1>2. \A d \in Clients :
        call'[d] = IF d = c \/ call[d] = Idle THEN Idle
                   ELSE [call[d] EXCEPT !.raced = @ \/ ~Conflicting(k)]
  BY DEF Move
<1>3. call' \in [Clients -> Calls]
  <2>1. ASSUME NEW d \in Clients PROVE call'[d] \in Calls
    <3>1. call[d] \in Calls
      BY DEF Inv, TypeOK
    <3>2. (call[d].raced \/ ~Conflicting(k)) \in BOOLEAN
      OBVIOUS
    <3> HIDE DEF k
    <3>3. [call[d] EXCEPT !.raced = @ \/ ~Conflicting(k)] \in Calls
      BY <3>1, <3>2 DEF Calls
    <3>. QED
      BY <1>2, <3>3, IdleFits
  <2>. QED
    BY <2>1 DEF Move
<1>4. CASE Conflicting(k)
  <2>1. snapshots' = snapshots
    BY <1>4 DEF Move
  <2>2. ASSUME NEW d \in Clients PROVE Fits(snapshots, call'[d])
    <3>1. call[d] \in Calls /\ Fits(snapshots, call[d])
      BY DEF Inv, TypeOK
    <3>. QED
      BY <1>2, <1>4, <3>1, IdleFits DEF Fits, Calls
  <2>. QED
    BY <1>1, <1>3, <2>1, <2>2 DEF Inv, TypeOK, TagsHaveOneOwner
<1>5. CASE ~Conflicting(k)
  <2>1. snapshots' = Moved(k)
    BY <1>5 DEF Move
  <2>2. /\ snapshots' \in Seq(Snapshots) /\ Len(snapshots') = Len(snapshots)
        /\ DOMAIN snapshots' = DOMAIN snapshots
        /\ k.tag \in Tags /\ k.id \in DOMAIN snapshots
        /\ snapshots'[k.id].tag = k.tag /\ snapshots'[k.id].isBaseline
        /\ \A i \in DOMAIN snapshots \ {k.id} :
             /\ i = k.owner => snapshots'[i].tag = NoTag /\ ~snapshots'[i].isBaseline
             /\ i # k.owner => snapshots'[i] = snapshots[i] /\ snapshots[i].tag # k.tag
    BY <1>1, <1>5, <2>1, MovedRows
  <2>3. k.tag # NoTag
    BY <2>2 DEF Tags
  <2>4. TagsHaveOneOwner'
    BY <2>2, <2>3 DEF TagsHaveOneOwner, Inv
  <2>5. ASSUME NEW d \in Clients PROVE Fits(snapshots', call'[d])
    <3>1. call[d] \in Calls /\ Fits(snapshots, call[d])
      BY DEF Inv, TypeOK
    <3>2. CASE d = c \/ call[d] = Idle
      BY <1>2, <3>2, IdleFits
    <3>3. CASE ~(d = c \/ call[d] = Idle)
      <4>1. call'[d] = [call[d] EXCEPT !.raced = TRUE]
        BY <1>2, <1>5, <3>1, <3>3 DEF Calls
      <4>. QED
        BY <2>2, <3>1, <4>1 DEF Fits, Calls
    <3>. QED
      BY <3>2, <3>3
  <2>. QED
    BY <1>1, <1>3, <2>2, <2>4, <2>5 DEF Inv, TypeOK
<1>. QED
  BY <1>4, <1>5

LEMMA NextInv == Inv /\ [Next]_vars => Inv'
<1> SUFFICES ASSUME Inv, [Next]_vars PROVE Inv'
  OBVIOUS
<1>1. ASSUME NEW m \in Modes, NEW p \in Payloads, Bench(m, p)
      PROVE  Inv'
  BY <1>1, BenchKeeps
<1>2. ASSUME NEW c \in Clients, Step(c)
      PROVE  Inv'
  <2>1. ASSUME NEW p \in Payloads, Persist(c, p)
        PROVE  Inv'
    BY <2>1, PersistKeeps
  <2>2. CASE Abort(c)
    BY <2>2, AnswerKeeps DEF Abort
  <2>. QED
    BY <1>2, <2>1, <2>2, LookupKeeps, ReadKeeps, MoveKeeps DEF Step
<1>3. ASSUME NEW c \in Clients, Request(c)
      PROVE  Inv'
  BY <1>3, RequestKeeps
<1>4. CASE UNCHANGED vars
  BY <1>4 DEF vars, Inv, TypeOK, TagsHaveOneOwner
<1>. QED
  BY <1>1, <1>2, <1>3, <1>4 DEF Next

\* Snapshots and requests stay well typed.
THEOREM TypeCorrect == Spec => []TypeOK
<1>1. Inv => TypeOK
  BY DEF Inv
<1>. QED
  BY InitInv, NextInv, <1>1, PTL DEF Spec

\* However the statements of tagging and promoting requests interleave, no two
\* snapshots have the same tag, and exactly the tagged ones are baselines.
THEOREM OneOwnerPerTag == Spec => []TagsHaveOneOwner
<1>1. Inv => TagsHaveOneOwner
  BY DEF Inv
<1>. QED
  BY InitInv, NextInv, <1>1, PTL DEF Spec

-----------------------------------------------------------------------------
\* Only a move changes rows that are there.
LEMMA OnlyMovesChangeRows ==
  ASSUME Inv, [Next]_vars, NEW i \in DOMAIN snapshots, snapshots'[i] # snapshots[i]
  PROVE  \E c \in Clients : Move(c)
<1>1. ASSUME NEW m \in Modes, NEW p \in Payloads, snapshots' = Append(snapshots, NewSnapshot(m, p))
      PROVE  FALSE
  <2>1. /\ snapshots \in Seq(Snapshots) /\ i \in 1 .. Len(snapshots)
        /\ NewSnapshot(m, p) \in Snapshots
    BY Positions DEF Inv, TypeOK, NewSnapshot, Snapshots
  <2>. QED
    BY <1>1, <2>1
<1>2. \A m \in Modes, p \in Payloads : ~Bench(m, p)
  BY <1>1 DEF Bench
<1>3. ASSUME NEW c \in Clients, NEW p \in Payloads, Persist(c, p)
      PROVE  FALSE
  <2>1. call[c].mode \in Modes
    BY <1>3 DEF Inv, Fits, Persist
  <2>. QED
    BY <1>1, <1>3, <2>1 DEF Persist
<1>4. ASSUME NEW c \in Clients, Request(c)
      PROVE  UNCHANGED snapshots
  BY <1>4 DEF Request, RequestTag, RequestPromote, RequestMode, RequestCompare, Arrive
<1>5. ASSUME NEW c \in Clients,
             \/ GateFind(c) \/ Reuse(c) \/ Compare(c) \/ \E m \in Modes : CompareModes(c, m)
             \/ ReadTarget(c) \/ ReadOwner(c) \/ Abort(c)
      PROVE  UNCHANGED snapshots
  BY <1>5 DEF GateFind, Reuse, Compare, CompareModes, ReadTarget, ReadOwner, Abort, Answer
<1>. QED
  BY <1>2, <1>3, <1>4, <1>5 DEF Next, Step, vars

LEMMA StepTakesNothingUnasked ==
  ASSUME Inv, [Next]_vars, NEW i \in DOMAIN snapshots, Loses(i)
  PROVE  \E c \in Clients :
            /\ call[c].pc = "move"
            /\ \/ call[c].raced
               \/ /\ call[c].overwrite
                  /\ i = call[c].id \/ snapshots[i].tag = call[c].tag
<1>1. PICK c \in Clients : Move(c)
  BY OnlyMovesChangeRows DEF Loses
<1> DEFINE k == call[c]
<1>2. k.pc = "move" /\ k \in Calls /\ Fits(snapshots, k)
  BY <1>1 DEF Move, Inv, TypeOK
<1>3. ~Conflicting(k) /\ snapshots' = Moved(k)
  BY <1>1 DEF Move, Loses
<1>4. /\ k.tag \in Tags /\ k.id \in DOMAIN snapshots
      /\ snapshots'[k.id].tag = k.tag
      /\ \A j \in DOMAIN snapshots \ {k.id} : j # k.owner => snapshots'[j] = snapshots[j]
  BY <1>2, <1>3, MovedRows
<1>5. CASE i = k.id
  BY <1>2, <1>4, <1>5 DEF Loses, Fits
<1>6. CASE i # k.id
  <2>1. i = k.owner /\ i # None
    BY <1>4, <1>6, Positions DEF Loses, Inv, None
  <2>. QED
    BY <1>2, <1>6, <2>1 DEF Fits
<1>. QED
  BY <1>5, <1>6

\* A row that loses its tag loses it to a request that said overwrite, as the
\* former owner of the tag that is moved or as its target, unless that request
\* was overtaken by another move.
THEOREM NoTagTakenUnasked == Spec => NothingTakenUnasked
<1>1. Inv /\ [Next]_vars =>
        [\A i \in DOMAIN snapshots : Loses(i) =>
           \E c \in Clients :
              /\ call[c].pc = "move"
              /\ \/ call[c].raced
                 \/ /\ call[c].overwrite
                    /\ i = call[c].id \/ snapshots[i].tag = call[c].tag]_snapshots
  BY StepTakesNothingUnasked
<1>. QED
  BY InitInv, NextInv, <1>1, PTL DEF Spec, NothingTakenUnasked

-----------------------------------------------------------------------------
(* Production is earned.  A request that has won its comparison goes on to *)
(* tag a row whose payload, like that of the row it beat, never changes.   *)

Earned(rows, i) ==
    /\ \A s \in DOMAIN rows[i].payload : rows[i].payload[s] >= 0
    /\ \E b \in DOMAIN rows :
         /\ DOMAIN rows[b].payload = DOMAIN rows[i].payload
         /\ RawScoreExceeds(rows[i].payload, rows[b].payload, 2)

\* A request about to give the production tag has won the comparison.
Claims(rows, k) ==
    /\ k.pc \in {"target", "owner", "move"} /\ k.tag = ProductionTag => Earned(rows, k.id)
    /\ k.why = "promote" => k.tag \in BaselineTags

EarnedInv ==
    /\ \A i \in DOMAIN snapshots : snapshots[i].tag = ProductionTag => Earned(snapshots, i)
    /\ \A c \in Clients : Claims(snapshots, call[c])

LEMMA InitEarned == Init => EarnedInv
<1> SUFFICES ASSUME Init PROVE EarnedInv
  OBVIOUS
<1>1. PICK m \in Modes, p \in Payloads, t \in BaselineTags :
        snapshots = <<[mode |-> m, payload |-> p, tag |-> t, isBaseline |-> TRUE]>>
  BY DEF Init
<1>2. DOMAIN snapshots = {1} /\ snapshots[1].tag \in BaselineTags
  BY <1>1
<1>. QED
  BY <1>2 DEF Init, EarnedInv, Claims, Idle

\* What was earned stays so while rows keep their payloads.
LEMMA EarnedStays ==
  ASSUME NEW rows, NEW more, NEW i \in DOMAIN rows, Earned(rows, i),
         DOMAIN rows \subseteq DOMAIN more,
         \A j \in DOMAIN rows : more[j].payload = rows[j].payload
  PROVE  Earned(more, i)
BY DEF Earned

\* No step changes a payload, and a row is given the production tag by a move
\* of a request that asks for it.
LEMMA RowsChange ==
  ASSUME Inv, [Next]_vars
  PROVE  /\ DOMAIN snapshots \subseteq DOMAIN snapshots'
         /\ \A i \in DOMAIN snapshots : snapshots'[i].payload = snapshots[i].payload
         /\ \A i \in DOMAIN snapshots' :
              snapshots'[i].tag = ProductionTag =>
                \/ i \in DOMAIN snapshots /\ snapshots[i].tag = ProductionTag
                \/ \E c \in Clients : /\ call[c].pc = "move" /\ call[c].tag = ProductionTag
                                      /\ i = call[c].id /\ i \in DOMAIN snapshots
<1>1. CASE \E c \in Clients : Move(c)
  <2>1. PICK c \in Clients : Move(c)
    BY <1>1
  <2>2. CASE Conflicting(call[c])
    BY <2>1, <2>2 DEF Move
  <2>3. CASE ~Conflicting(call[c])
    <3>1. snapshots' = Moved(call[c]) /\ call[c].pc = "move"
      BY <2>1, <2>3 DEF Move
    <3>2. \A i \in DOMAIN snapshots : snapshots[i] \in Snapshots
      BY Positions DEF Inv
    <3>3. \A i \in DOMAIN snapshots : snapshots'[i].payload = snapshots[i].payload
      BY <3>1, <3>2 DEF Moved, Snapshots
    <3>4. /\ DOMAIN snapshots' = DOMAIN snapshots
          /\ call[c].id \in DOMAIN snapshots
          /\ snapshots'[call[c].id].tag = call[c].tag
          /\ \A i \in DOMAIN snapshots \ {call[c].id} :
               /\ i = call[c].owner => snapshots'[i].tag = NoTag
               /\ i # call[c].owner => snapshots'[i] = snapshots[i]
      BY <2>3, <3>1, MovedRows
    <3>. QED
      BY <3>1, <3>3, <3>4
  <2>. QED
    BY <2>2, <2>3
<1>2. CASE \A c \in Clients : ~Move(c)
  <2>1. \A i \in DOMAIN snapshots : snapshots'[i] = snapshots[i]
    BY <1>2, OnlyMovesChangeRows
  <2>2. \/ snapshots' = snapshots
        \/ \E m \in Modes, p \in Payloads : snapshots' = Append(snapshots, NewSnapshot(m, p))
    <3>1. ASSUME NEW c \in Clients, NEW p \in Payloads, Persist(c, p)
          PROVE  \E m \in Modes : snapshots' = Append(snapshots, NewSnapshot(m, p))
      <4>1. call[c].mode \in Modes
        BY <3>1 DEF Inv, Fits, Persist
      <4>. QED
        BY <3>1, <4>1 DEF Persist
    <3>2. ASSUME NEW c \in Clients, Request(c)
          PROVE  UNCHANGED snapshots
      BY <3>2 DEF Request, RequestTag, RequestPromote, RequestMode, RequestCompare, Arrive
    <3>3. ASSUME NEW c \in Clients,
                 \/ GateFind(c) \/ Reuse(c) \/ Compare(c) \/ \E m \in Modes : CompareModes(c, m)
                 \/ ReadTarget(c) \/ ReadOwner(c) \/ Abort(c)
          PROVE  UNCHANGED snapshots
      BY <3>3 DEF GateFind, Reuse, Compare, CompareModes, ReadTarget, ReadOwner, Abort, Answer
    <3>. QED
      BY <1>2, <3>1, <3>2, <3>3 DEF Next, Step, Bench, vars
  <2>3. ASSUME NEW m \in Modes, NEW p \in Payloads, snapshots' = Append(snapshots, NewSnapshot(m, p))
        PROVE  /\ DOMAIN snapshots \subseteq DOMAIN snapshots'
               /\ \A i \in DOMAIN snapshots' : i \notin DOMAIN snapshots => snapshots'[i].tag = NoTag
    <3>1. snapshots \in Seq(Snapshots) /\ NewSnapshot(m, p) \in Snapshots
      BY DEF Inv, TypeOK, NewSnapshot, Snapshots
    <3>2. NewSnapshot(m, p).tag = NoTag
      BY DEF NewSnapshot
    <3>. QED
      BY <2>3, <3>1, <3>2
  <2>. QED
    BY <2>1, <2>2, <2>3
<1>. QED
  BY <1>1, <1>2

\* What a request claims after a step of its own.
Holds(rows, k) ==
    Claims(rows, k) /\ (k.pc \in {"target", "owner", "move"} => k.id \in DOMAIN rows)

LEMMA RequestClaims ==
  ASSUME Inv, EarnedInv, NEW c \in Clients, Request(c)
  PROVE  Holds(snapshots, call'[c])
<1>1. ASSUME NEW k, Arrive(c, k) PROVE call'[c] = k
  BY <1>1 DEF Arrive, Continue, Inv, TypeOK
<1>2. ASSUME NEW i \in DOMAIN snapshots, NEW t \in BaselineTags, NEW o \in BOOLEAN,
             \/ RequestTag(c, i, t, o)
             \/ \E b \in BaselineTags : RequestPromote(c, i, b, t, o)
      PROVE  Holds(snapshots, call'[c])
  BY <1>1, <1>2 DEF RequestTag, RequestPromote, Holds, Claims, Idle
<1>3. ASSUME NEW p \in Payloads, NEW m \in Modes,
             \/ RequestMode(c, DOMAIN p, m)
             \/ \E pc \in {"find", "reuse", "bench"}, b \in BaselineTags :
                  RequestCompare(c, pc, DOMAIN p, m, b)
      PROVE  Holds(snapshots, call'[c])
  BY <1>1, <1>3 DEF RequestMode, RequestCompare, Holds, Claims, Idle
<1>. QED
  BY <1>2, <1>3 DEF Request

LEMMA StepClaims ==
  ASSUME Inv, EarnedInv, NEW c \in Clients, Step(c)
  PROVE  Holds(snapshots, call'[c])
<1> DEFINE k == call[c]
<1>1. /\ k \in Calls /\ Fits(snapshots, k) /\ Claims(snapshots, k) /\ TypeOK
      /\ \A n : Continue(c, n) => call'[c] = n
  BY DEF Inv, TypeOK, EarnedInv, Continue
<1>2. Holds(snapshots, Idle)
  BY DEF Holds, Claims, Idle
<1>3. CASE GateFind(c) \/ Abort(c) \/ Move(c)
  <2>1. CASE GateFind(c)
    BY <1>1, <1>2, <2>1 DEF GateFind, Holds, Claims, Calls
  <2>2. CASE Abort(c)
    BY <1>1, <1>2, <2>2 DEF Abort, Answer
  <2>3. CASE Move(c)
    BY <1>2, <2>3 DEF Move
  <2>. QED
    BY <1>3, <2>1, <2>2, <2>3
<1>4. CASE Reuse(c)
  <2> DEFINE i == FindMatching(k.key, k.mode)
             n == [k EXCEPT !.pc = IF i = None THEN "bench" ELSE "compare", !.id = i]
  <2>1. call'[c] = n
    BY <1>1, <1>4 DEF Reuse
  <2> HIDE DEF i
  <2>. QED
    BY <1>1, <2>1 DEF Holds, Claims, Calls
<1>5. ASSUME NEW p \in Payloads, Persist(c, p)
      PROVE  Holds(snapshots, call'[c])
  <2>1. call'[c] = [k EXCEPT !.pc = "compare", !.id = Len(snapshots) + 1]
    BY <1>1, <1>5 DEF Persist
  <2>. QED
    BY <1>1, <2>1 DEF Holds, Claims, Calls
<1>6. CASE Compare(c)
  <2> DEFINE b == Tagged(k.baselineTag)
             n == [k EXCEPT !.pc = "target", !.base = b]
  <2>1. k.pc = "compare" /\ (call'[c] = Idle \/ (k.why = "promote" /\ call'[c] = n))
    BY <1>1, <1>6 DEF Compare
  <2>2. k.why = "promote" => k.tag # ProductionTag
    BY <1>1 DEF Claims
  <2> HIDE DEF b
  <2>3. k.why = "promote" => Holds(snapshots, n)
    BY <1>1, <2>1, <2>2 DEF Holds, Claims, Calls, Fits
  <2>. QED
    BY <1>2, <2>1, <2>3
<1>7. ASSUME NEW m \in Modes, CompareModes(c, m)
      PROVE  Holds(snapshots, call'[c])
  <2> DEFINE i == FindMatching(k.key, k.mode)
             b == FindMatching(k.key, m)
             n == [k EXCEPT !.pc = "target", !.id = i, !.base = b]
  <2>1. /\ i \in DOMAIN snapshots \cup {None} /\ (i # None => DOMAIN snapshots[i].payload = k.key)
        /\ b \in DOMAIN snapshots \cup {None} /\ (b # None => DOMAIN snapshots[b].payload = k.key)
    BY <1>1, FoundIsRow
  <2>2. \/ call'[c] = Idle
        \/ /\ i # None /\ b # None /\ ModeWins(snapshots[i].payload, snapshots[b].payload)
           /\ call'[c] = n
    BY <1>1, <1>7 DEF CompareModes
  <2> HIDE DEF i, b
  <2>3. ASSUME i # None, b # None, ModeWins(snapshots[i].payload, snapshots[b].payload)
        PROVE  Holds(snapshots, n)
    <3>1. Earned(snapshots, i)
      BY <2>1, <2>3 DEF Earned, ModeWins
    <3>. QED
      BY <1>1, <2>1, <2>3, <3>1 DEF Holds, Claims, Calls
  <2>. QED
    BY <1>2, <2>2, <2>3
<1>8. CASE ReadTarget(c)
  <2>1. k.pc = "target" /\ (call'[c] = Idle \/ call'[c] = [k EXCEPT !.pc = "owner"])
    BY <1>1, <1>8 DEF ReadTarget
  <2>. QED
    BY <1>1, <1>2, <2>1 DEF Holds, Claims, Calls, Fits
<1>9. CASE ReadOwner(c)
  <2> DEFINE o == Tagged(k.tag)
  <2>1. k.pc = "owner" /\ (call'[c] = Idle \/ call'[c] = [k EXCEPT !.pc = "move", !.owner = o])
    BY <1>1, <1>9 DEF ReadOwner
  <2> HIDE DEF o
  <2>. QED
    BY <1>1, <1>2, <2>1 DEF Holds, Claims, Calls, Fits
<1>. QED
  BY <1>3, <1>4, <1>5, <1>6, <1>7, <1>8, <1>9 DEF Step

\* The other requests keep their claims; a move only marks them.
LEMMA OthersClaim ==
  ASSUME Inv, EarnedInv, NEW c \in Clients, NEW d \in Clients, d # c, Step(c) \/ Request(c)
  PROVE  Holds(snapshots, call'[d])
<1>1. call[d] \in Calls /\ Holds(snapshots, call[d])
  BY DEF Inv, TypeOK, EarnedInv, Holds, Fits
<1>2. CASE Move(c)
  <2>1. call'[d] = Idle \/ call'[d] = [call[d] EXCEPT !.raced = @ \/ ~Conflicting(call[c])]
    BY <1>2 DEF Move
  <2>. QED
    BY <1>1, <2>1 DEF Holds, Claims, Idle, Calls
<1>3. CASE ~Move(c)
  <2>1. \E k : Continue(c, k)
    BY <1>3 DEF Step, Request, GateFind, Reuse, Persist, Compare, CompareModes, ReadTarget,
                ReadOwner, Abort, Answer, RequestTag, RequestPromote, RequestMode,
                RequestCompare, Arrive
  <2>2. call'[d] = call[d]
    BY <2>1 DEF Continue, Inv, TypeOK
  <2>. QED
    BY <1>1, <2>2
<1>. QED
  BY <1>2, <1>3

LEMMA NextEarned == Inv /\ EarnedInv /\ [Next]_vars => EarnedInv'
<1> SUFFICES ASSUME Inv, EarnedInv, [Next]_vars PROVE EarnedInv'
  OBVIOUS
<1>1. ASSUME NEW d \in Clients PROVE Holds(snapshots, call'[d])
  <2>1. Holds(snapshots, call[d])
    BY DEF Inv, EarnedInv, Holds, Fits
  <2>2. CASE \E c \in Clients : Step(c) \/ Request(c)
    BY <2>2, StepClaims, RequestClaims, OthersClaim
  <2>3. CASE UNCHANGED call
    BY <2>1, <2>3
  <2>. QED
    BY <2>2, <2>3 DEF Next, Bench, vars
<1>2. ASSUME NEW i \in DOMAIN snapshots, Earned(snapshots, i)
      PROVE  Earned(snapshots', i)
  BY <1>2, RowsChange, EarnedStays
<1>3. ASSUME NEW d \in Clients PROVE Claims(snapshots', call'[d])
  BY <1>1, <1>2 DEF Holds, Claims
<1>4. ASSUME NEW i \in DOMAIN snapshots', snapshots'[i].tag = ProductionTag
      PROVE  Earned(snapshots', i)
  <2>1. i \in DOMAIN snapshots /\ Earned(snapshots, i)
    BY <1>4, RowsChange DEF EarnedInv, Claims
  <2>. QED
    BY <1>2, <2>1
<1>. QED
  BY <1>3, <1>4 DEF EarnedInv

\* Whatever is tagged or added between the comparison and the move, the
\* production snapshot has no negative symbol and beats one of its key.
THEOREM ProductionAlwaysEarned == Spec => []ProductionIsEarned
<1>1. ASSUME Inv, EarnedInv PROVE ProductionIsEarned
  <2> DEFINE i == Tagged(ProductionTag)
  <2>1. i \in DOMAIN snapshots \cup {None} /\ (i # None => snapshots[i].tag = ProductionTag)
    BY <1>1, TaggedIsRow DEF Inv
  <2> HIDE DEF i
  <2>2. i # None => Earned(snapshots, i)
    BY <1>1, <2>1 DEF EarnedInv
  <2>. QED
    BY <2>2 DEF ProductionIsEarned, Earned, i
<1>. QED
  BY InitInv, NextInv, InitEarned, NextEarned, <1>1, PTL DEF Spec

-----------------------------------------------------------------------------
(* Promotions improve.  Unless another move came in between, the row that  *)
(* a candidate was compared with still has the baseline's tag.             *)

Compared(rows, k) ==
    /\ k.pc = "candidate" => k.why = "mode"
    /\ k.pc \in {"target", "owner", "move"} /\ k.why = "promote" =>
         /\ k.id \in DOMAIN rows /\ k.base \in DOMAIN rows
         /\ ShouldPromote(Differences(rows[k.id].payload, rows[k.base].payload))
         /\ ~k.raced => rows[k.base].tag = k.baselineTag

ComparedInv == \A c \in Clients : Compared(snapshots, call[c])

LEMMA RequestCompared ==
  ASSUME Inv, NEW c \in Clients, Request(c)
  PROVE  Compared(snapshots, call'[c])
<1>1. ASSUME NEW k, Arrive(c, k) PROVE call'[c] = k
  BY <1>1 DEF Arrive, Continue, Inv, TypeOK
<1>2. ASSUME NEW i \in DOMAIN snapshots, NEW t \in BaselineTags, NEW o \in BOOLEAN,
             \/ RequestTag(c, i, t, o)
             \/ \E b \in BaselineTags : RequestPromote(c, i, b, t, o)
      PROVE  Compared(snapshots, call'[c])
  <2>1. CASE RequestTag(c, i, t, o)
    <3>1. call'[c].pc = "target" /\ call'[c].why = "tag"
      BY <1>1, <2>1 DEF RequestTag, Idle
    <3>. QED
      BY <3>1 DEF Compared
  <2>2. ASSUME NEW b \in BaselineTags, RequestPromote(c, i, b, t, o)
        PROVE  Compared(snapshots, call'[c])
    <3>1. call'[c].pc = "compare"
      BY <1>1, <2>2 DEF RequestPromote, Idle
    <3>. QED
      BY <3>1 DEF Compared
  <2>. QED
    BY <1>2, <2>1, <2>2
<1>3. ASSUME NEW p \in Payloads, NEW m \in Modes,
             \/ RequestMode(c, DOMAIN p, m)
             \/ \E pc \in {"find", "reuse", "bench"}, b \in BaselineTags :
                  RequestCompare(c, pc, DOMAIN p, m, b)
      PROVE  Compared(snapshots, call'[c])
  <2>1. call'[c].why \in {"mode", "compare"} /\ (call'[c].pc = "candidate" => call'[c].why = "mode")
    BY <1>1, <1>3 DEF RequestMode, RequestCompare, Idle
  <2>. QED
    BY <2>1 DEF Compared
<1>. QED
  BY <1>2, <1>3 DEF Request

LEMMA StepCompared ==
  ASSUME Inv, ComparedInv, NEW c \in Clients, Step(c)
  PROVE  Compared(snapshots, call'[c])
<1> DEFINE k == call[c]
<1>1. /\ k \in Calls /\ Fits(snapshots, k) /\ Compared(snapshots, k) /\ TypeOK
      /\ \A n : Continue(c, n) => call'[c] = n
  BY DEF Inv, TypeOK, ComparedInv, Continue
<1>2. Compared(snapshots, Idle)
  BY DEF Compared, Idle
<1>3. CASE GateFind(c)
  BY <1>1, <1>2, <1>3 DEF GateFind, Compared, Calls
<1>4. CASE Abort(c) \/ Move(c)
  BY <1>1, <1>2, <1>4 DEF Abort, Answer, Move
<1>5. CASE Reuse(c)
  <2> DEFINE i == FindMatching(k.key, k.mode)
             n == [k EXCEPT !.pc = IF i = None THEN "bench" ELSE "compare", !.id = i]
  <2>1. call'[c] = n
    BY <1>1, <1>5 DEF Reuse
  <2> HIDE DEF i
  <2>. QED
    BY <1>1, <2>1 DEF Compared, Calls
<1>6. ASSUME NEW p \in Payloads, Persist(c, p)
      PROVE  Compared(snapshots, call'[c])
  <2>1. call'[c] = [k EXCEPT !.pc = "compare", !.id = Len(snapshots) + 1]
    BY <1>1, <1>6 DEF Persist
  <2>. QED
    BY <1>1, <2>1 DEF Compared, Calls
<1>7. CASE Compare(c)
  <2> DEFINE b == Tagged(k.baselineTag)
             n == [k EXCEPT !.pc = "target", !.base = b]
  <2>1. /\ k.pc = "compare"
        /\ \/ call'[c] = Idle
           \/ /\ call'[c] = n /\ b # None
              /\ ShouldPromote(Differences(snapshots[k.id].payload, snapshots[b].payload))
    BY <1>1, <1>7 DEF Compare
  <2>2. b \in DOMAIN snapshots \cup {None} /\ (b # None => snapshots[b].tag = k.baselineTag)
    BY <1>1, TaggedIsRow
  <2>3. k.id \in DOMAIN snapshots
    BY <1>1, <2>1 DEF Fits
  <2> HIDE DEF b
  <2>4. /\ n.pc = "target" /\ n.id = k.id /\ n.base = b /\ n.baselineTag = k.baselineTag
    BY <1>1 DEF Calls
  <2> HIDE DEF n
  <2>. QED
    BY <1>2, <2>1, <2>2, <2>3, <2>4 DEF Compared
<1>8. ASSUME NEW m \in Modes, CompareModes(c, m)
      PROVE  Compared(snapshots, call'[c])
  <2> DEFINE i == FindMatching(k.key, k.mode)
             b == FindMatching(k.key, m)
             n == [k EXCEPT !.pc = "target", !.id = i, !.base = b]
  <2>1. k.pc = "candidate" /\ (call'[c] = Idle \/ call'[c] = n)
    BY <1>1, <1>8 DEF CompareModes
  <2> HIDE DEF i, b
  <2>. QED
    BY <1>1, <1>2, <2>1 DEF Compared, Calls
<1>9. CASE ReadTarget(c)
  <2>1. k.pc = "target" /\ (call'[c] = Idle \/ call'[c] = [k EXCEPT !.pc = "owner"])
    BY <1>1, <1>9 DEF ReadTarget
  <2>. QED
    BY <1>1, <1>2, <2>1 DEF Compared, Calls
<1>10. CASE ReadOwner(c)
  <2> DEFINE o == Tagged(k.tag)
  <2>1. k.pc = "owner" /\ (call'[c] = Idle \/ call'[c] = [k EXCEPT !.pc = "move", !.owner = o])
    BY <1>1, <1>10 DEF ReadOwner
  <2> HIDE DEF o
  <2>. QED
    BY <1>1, <1>2, <2>1 DEF Compared, Calls
<1>. QED
  BY <1>3, <1>4, <1>5, <1>6, <1>7, <1>8, <1>9, <1>10 DEF Step

LEMMA OthersCompared ==
  ASSUME Inv, ComparedInv, NEW c \in Clients, NEW d \in Clients, d # c, Step(c) \/ Request(c)
  PROVE  Compared(snapshots, call'[d])
<1>1. call[d] \in Calls /\ Compared(snapshots, call[d])
  BY DEF Inv, TypeOK, ComparedInv
<1>2. CASE Move(c)
  <2>1. call'[d] = Idle \/ call'[d] = [call[d] EXCEPT !.raced = @ \/ ~Conflicting(call[c])]
    BY <1>2 DEF Move
  <2>. QED
    BY <1>1, <2>1 DEF Compared, Idle, Calls
<1>3. CASE ~Move(c)
  <2>1. \E k : Continue(c, k)
    BY <1>3 DEF Step, Request, GateFind, Reuse, Persist, Compare, CompareModes, ReadTarget,
                ReadOwner, Abort, Answer, RequestTag, RequestPromote, RequestMode,
                RequestCompare, Arrive
  <2>2. call'[d] = call[d]
    BY <2>1 DEF Continue, Inv, TypeOK
  <2>. QED
    BY <1>1, <2>2
<1>. QED
  BY <1>2, <1>3

\* A row changes its tag only in a move, which marks the others.
LEMMA ChangesAreMarked ==
  ASSUME Inv, [Next]_vars, NEW i \in DOMAIN snapshots, snapshots'[i].tag # snapshots[i].tag,
         NEW d \in Clients
  PROVE  call'[d] = Idle \/ call'[d].raced
<1>1. PICK c \in Clients : Move(c)
  BY OnlyMovesChangeRows
<1>2. ~Conflicting(call[c])
  BY <1>1 DEF Move
<1>3. call[d] \in Calls
  BY DEF Inv, TypeOK
<1>4. call'[d] = Idle \/ call'[d] = [call[d] EXCEPT !.raced = TRUE]
  BY <1>1, <1>2, <1>3 DEF Move, Calls
<1>. QED
  BY <1>3, <1>4 DEF Calls

LEMMA NextCompared == Inv /\ ComparedInv /\ [Next]_vars => ComparedInv'
<1> SUFFICES ASSUME Inv, ComparedInv, [Next]_vars, NEW d \in Clients
             PROVE  Compared(snapshots', call'[d])
  BY DEF ComparedInv
<1>1. Compared(snapshots, call'[d])
  <2>1. CASE \E c \in Clients : Step(c) \/ Request(c)
    BY <2>1, StepCompared, RequestCompared, OthersCompared
  <2>2. CASE UNCHANGED call
    BY <2>2 DEF ComparedInv
  <2>. QED
    BY <2>1, <2>2 DEF Next, Bench, vars
<1>2. /\ DOMAIN snapshots \subseteq DOMAIN snapshots'
      /\ \A i \in DOMAIN snapshots : snapshots'[i].payload = snapshots[i].payload
  BY RowsChange
<1>3. call'[d] = Idle \/ call'[d].raced
      \/ \A i \in DOMAIN snapshots : snapshots'[i].tag = snapshots[i].tag
  BY ChangesAreMarked
<1>4. CASE call'[d] = Idle
  BY <1>4 DEF Compared, Idle
<1>5. CASE call'[d] # Idle
  BY <1>1, <1>2, <1>3, <1>5 DEF Compared
<1>. QED
  BY <1>4, <1>5

LEMMA StepImproves ==
  ASSUME Inv, ComparedInv, [Next]_vars,
         NEW t \in BaselineTags, NEW i \in DOMAIN snapshots, NEW j \in DOMAIN snapshots,
         NEW c \in Clients, snapshots[i].tag = t, snapshots'[j].tag = t, i # j,
         call[c].pc = "move", call'[c] = Idle, ~call[c].raced,
         call[c].why = "promote", call[c].baselineTag = t
  PROVE  ShouldPromote(Differences(snapshots[j].payload, snapshots[i].payload))
<1> DEFINE k == call[c]
<1>1. t # NoTag
  BY DEF Tags
<1>2. snapshots[j].tag # t
  BY <1>1 DEF Inv, TagsHaveOneOwner
<1>3. PICK d \in Clients : Move(d)
  BY <1>2, OnlyMovesChangeRows
<1>4. d = c
  <2>1. ASSUME d # c PROVE FALSE
    <3>1. call[c] \in Calls /\ call[c] # Idle
      BY DEF Inv, TypeOK, Idle
    <3>2. call'[c] = [call[c] EXCEPT !.raced = @ \/ ~Conflicting(call[d])]
      BY <1>3, <2>1, <3>1 DEF Move
    <3>3. call'[c].pc = "move"
      BY <3>1, <3>2 DEF Calls
    <3>. QED
      BY <3>3 DEF Idle
  <2>. QED
    BY <2>1
<1>5. ~Conflicting(k) /\ snapshots' = Moved(k)
  BY <1>2, <1>3, <1>4 DEF Move
<1>6. /\ k.id \in DOMAIN snapshots
      /\ \A n \in DOMAIN snapshots \ {k.id} :
           /\ n = k.owner => snapshots'[n].tag = NoTag
           /\ n # k.owner => snapshots'[n] = snapshots[n]
  BY <1>5, MovedRows
<1>7. j = k.id
  BY <1>1, <1>2, <1>6
<1>8. /\ k.base \in DOMAIN snapshots /\ snapshots[k.base].tag = t
      /\ ShouldPromote(Differences(snapshots[k.id].payload, snapshots[k.base].payload))
  BY DEF ComparedInv, Compared
<1>9. k.base = i
  BY <1>1, <1>8 DEF Inv, TagsHaveOneOwner
<1>. QED
  BY <1>7, <1>8, <1>9

\* A promotion that no other move has overtaken replaces a baseline only by a
\* snapshot that scores 0.03 more on average and loses 0.1 nowhere.
THEOREM PromotionsAlwaysImprove == Spec => PromotionsImprove
<1> DEFINE Improves ==
      \A t \in BaselineTags, i, j \in DOMAIN snapshots, c \in Clients :
         /\ snapshots[i].tag = t /\ snapshots'[j].tag = t /\ i # j
         /\ call[c].pc = "move" /\ call'[c] = Idle /\ ~call[c].raced
         /\ call[c].why = "promote" /\ call[c].baselineTag = t
         => LET e == Differences(snapshots[j].payload, snapshots[i].payload)
            IN  /\ Total(e) >= 3 * Cardinality(DOMAIN e)
                /\ \A s \in DOMAIN e : e[s] > -10
<1>1. Init => ComparedInv
  BY DEF Init, ComparedInv, Compared, Idle
<1>2. Inv /\ ComparedInv /\ [Next]_vars => Improves
  BY StepImproves DEF ShouldPromote
<1>3. Inv /\ ComparedInv /\ [Next]_vars => [Improves]_snapshots
  BY <1>2
<1>. QED
  BY InitInv, NextInv, NextCompared, <1>1, <1>3, PTL DEF Spec, PromotionsImprove
=============================================================================
