---------------------------- MODULE SimRun_proofs ----------------------------
(***************************************************************************)
(* Theorems about SimRun for any agents, number of steps, holding limit,   *)
(* seeds, clients and requests.                                            *)
(***************************************************************************)
EXTENDS SimRun, FiniteSetTheorems, WellFoundedInduction, TLAPS

USE StepAssumption, PoolAssumption, AgentAssumption

\* What agent a has traded in the experiences X, and TradesTakeTurns of one agent.
TradesIn(X, a) == {s \in DOMAIN X : X[s][a] # "hold"}
Turns(X, a) ==
    \A s \in TradesIn(X, a) :
      LET before == {t \in TradesIn(X, a) : t < s}
      IN  /\ X[s][a] = "buy" <=> (before = {} \/ X[Max(before)][a] = "sell")
          /\ X[s][a] = "sell" => s - Max(before) <= MaxHoldSteps
          /\ X[s][a] = "buy" /\ s + MaxHoldSteps \in DOMAIN X
             => \E t \in TradesIn(X, a) : t > s /\ t <= s + MaxHoldSteps

\* Before step n, the position p of an agent tells its last trade: open since a
\* buy not MaxHoldSteps ago or just that, or closed by a sell, or never opened.
Held(X, a, p, n) ==
    /\ p.hasBought /\ ~p.hasSoldAfterBuy => p.positionOpen
    /\ p.positionOpen =>
         /\ p.entryStep \in TradesIn(X, a) /\ X[p.entryStep][a] = "buy"
         /\ \A t \in TradesIn(X, a) : t <= p.entryStep
         /\ n - p.entryStep <= MaxHoldSteps
    /\ ~p.positionOpen =>
         \/ TradesIn(X, a) = {}
         \/ \E m \in TradesIn(X, a) : X[m][a] = "sell" /\ \A t \in TradesIn(X, a) : t <= m

\* The experiences and the curve are tables.
Tables ==
    /\ experiences = [s \in DOMAIN experiences |-> experiences[s]]
    /\ curve = [s \in DOMAIN curve |-> curve[s]]

\* A run that is deleted has nothing, and without its agents nothing they did.
Gone ==
    /\ ~exists => agents = {} /\ snapshots = {} /\ curve = Nothing
    /\ ScriptPool \notin agents => experiences = Nothing

\* How far the script is.
StepsDone ==
    exists =>
      /\ sim.pc = "agents" => snapshots = {} /\ ScriptPool \notin agents /\ sim.step = 0
                            /\ sim.positions = [a \in SimAgents |-> Fresh]
      /\ sim.pc \in {"experiences", "snapshot"} => snapshots = 0 .. sim.step - 1
      /\ sim.pc \in {"complete", "debug", "sum", "curve", "done"} => snapshots = Steps
      /\ ScriptPool \in agents =>
           /\ sim.pc = "experiences" => DOMAIN experiences = 0 .. sim.step - 1
           /\ sim.pc = "snapshot" => DOMAIN experiences = 0 .. sim.step
           /\ snapshots = Steps => DOMAIN experiences = Steps
      /\ status = "COMPLETED" /\ ~amended =>
           snapshots = Steps /\ sim.pc \in {"debug", "sum", "curve", "done", "dead"}

\* The agents' positions are those of what they did.
Positioned ==
    /\ \A a \in SimAgents : Turns(experiences, a)
    /\ ScriptPool \in agents /\ sim.pc = "experiences" =>
         \A a \in SimAgents : Held(experiences, a, sim.positions[a], sim.step)
    /\ ScriptPool \in agents /\ sim.pc = "snapshot" =>
         \A a \in SimAgents : Held(experiences, a, sim.positions[a], sim.step + 1)

\* Whoever is about to write the curve counted every step and sums up all.
Whole(ex, ea, sn, ag, k) ==
    k.pc \in {"sum", "write"} =>
      /\ k.of # 0
      /\ ex => sn # {}
      /\ ex /\ ~ea => k.of = NumSteps /\ sn = Steps
      /\ ex /\ ~ea /\ ScriptPool \in ag /\ k.pc = "write" => k.total = Steps
Drawn ==
    /\ exists /\ curve # Nothing => snapshots # {}
    /\ exists /\ ~early /\ ScriptPool \in agents =>
         /\ curve \in {Nothing, Truth}
         /\ sim.pc = "curve" => sim.total = Steps
    /\ \A c \in Clients : Whole(exists, early, snapshots, agents, call[c])

\* A generation's pool is new, and unless another overlaps, what it deletes is
\* all there is.
Replacing ==
    /\ \A p \in agents : p.id <= requests
    /\ \A c \in Clients : Generating(c) =>
         /\ call[c].pool.seed \in Seeds /\ call[c].pool.id <= requests
         /\ ~call[c].overlapped =>
              /\ call[c].pool \notin agents
              /\ call[c].pc = "create" => agents \subseteq call[c].doomed
              /\ \A d \in Clients \ {c} : ~Generating(d)

Inv == TypeOK /\ Tables /\ Gone /\ StepsDone /\ Positioned /\ Drawn /\ Replacing

-----------------------------------------------------------------------------
LEMMA MaxIs ==
  ASSUME NEW S \in SUBSET Nat, NEW m \in S, \A t \in S : t <= m
  PROVE  Max(S) = m
<1>1. Max(S) \in S /\ \A t \in S : Max(S) >= t
  BY DEF Max
<1>2. Max(S) >= m /\ Max(S) <= m /\ Max(S) \in Nat /\ m \in Nat
  BY <1>1
<1>. QED
  BY <1>2

\* A set of steps before n has a latest.
LEMMA LatestExists ==
  ASSUME NEW n \in Nat, NEW S \in SUBSET (0 .. n), S # {}
  PROVE  Max(S) \in S /\ \A i \in S : i <= Max(S)
<1> DEFINE T == {k \in Nat : n - k \in S}
           R == OpToRel(<, Nat)
<1>1. PICK i \in S : TRUE
  OBVIOUS
<1>2. n - i \in T
  <2>1. n - i \in Nat /\ n - (n - i) = i
    OBVIOUS
  <2>. QED
    BY <2>1
<1>3. PICK m \in T : \A k \in T : <<k, m>> \notin R
  <2>1. T \subseteq Nat /\ T # {}
    BY <1>2
  <2>2. IsWellFoundedOn(R, Nat)
    BY NatLessThanWellFounded
  <2> HIDE DEF T, R
  <2>. QED
    BY <2>1, <2>2, WFMin
<1>4. \A k \in T : ~(k < m)
  BY <1>3 DEF OpToRel
<1>5. ASSUME NEW j \in S PROVE n - m >= j
  <2>1. n - j \in Nat /\ n - (n - j) = j
    OBVIOUS
  <2>2. n - j \in T
    BY <2>1
  <2>. QED
    BY <1>4, <2>2
<1>. QED
  BY <1>3, <1>5 DEF Max

\* One runStep of an agent: its trades still take turns, and its position goes
\* on to tell them.
LEMMA AgentSteps ==
  ASSUME NEW n \in Nat, NEW X, NEW Y, NEW a, NEW p \in Positions, NEW hit \in BOOLEAN,
         DOMAIN X = 0 .. n - 1, DOMAIN Y = 0 .. n,
         \A s \in 0 .. n - 1 : X[s][a] \in Actions /\ Y[s][a] = X[s][a],
         Y[n][a] = decideAction(a, p, n, hit),
         Turns(X, a), Held(X, a, p, n), n \in Steps
  PROVE  Turns(Y, a) /\ Held(Y, a, After(p, Y[n][a], n), n + 1)
<1> DEFINE T == TradesIn(X, a)
           U == TradesIn(Y, a)
           d == Y[n][a]
           q == After(p, d, n)
<1>1. p.positionOpen \in BOOLEAN /\ p.hasBought \in BOOLEAN /\ p.hasSoldAfterBuy \in BOOLEAN
      /\ p.entryStep \in Nat
  BY DEF Positions, Steps
<1>2. T \in SUBSET (0 .. n - 1) /\ T \in SUBSET Nat
  BY DEF TradesIn
<1>3. U = IF d = "hold" THEN T ELSE T \cup {n}
  BY DEF TradesIn
<1>4. \A s \in T : X[s][a] \in {"buy", "sell"} /\ Y[s][a] = X[s][a]
  BY <1>2 DEF TradesIn, Actions
<1>5. \A s \in T : {t \in U : t < s} = {t \in T : t < s}
  BY <1>2, <1>3
<1>6. /\ p.hasBought /\ ~p.hasSoldAfterBuy => p.positionOpen
      /\ p.positionOpen => /\ p.entryStep \in T /\ X[p.entryStep][a] = "buy"
                           /\ \A t \in T : t <= p.entryStep
                           /\ n - p.entryStep <= MaxHoldSteps
      /\ ~p.positionOpen => T = {} \/ \E m \in T : X[m][a] = "sell" /\ \A t \in T : t <= m
  BY DEF Held
<1>7. \A s \in T :
        LET before == {t \in T : t < s}
        IN  /\ X[s][a] = "buy" <=> (before = {} \/ X[Max(before)][a] = "sell")
            /\ X[s][a] = "sell" => s - Max(before) <= MaxHoldSteps
            /\ X[s][a] = "buy" /\ s + MaxHoldSteps \in DOMAIN X
               => \E t \in T : t > s /\ t <= s + MaxHoldSteps
  BY DEF Turns
<1>8. d \in Actions
  BY DEF decideAction, Actions
<1> HIDE DEF T, U
\* The bound on holding, one step on.
<1>9. ASSUME NEW s \in T, Y[s][a] = "buy", s + MaxHoldSteps \in DOMAIN Y
      PROVE  \E t \in U : t > s /\ t <= s + MaxHoldSteps
  <2>1. CASE \E t \in T : t > s
    <3>1. PICK t \in T : t > s
      BY <2>1
    <3>2. CASE s + MaxHoldSteps = n
      BY <1>2, <1>3, <3>1, <3>2
    <3>3. CASE s + MaxHoldSteps # n
      <4>1. s + MaxHoldSteps \in DOMAIN X
        BY <1>2, <1>9, <3>3
      <4>2. \E u \in T : u > s /\ u <= s + MaxHoldSteps
        BY <1>4, <1>7, <1>9, <4>1
      <4>. QED
        BY <1>3, <4>2
    <3>. QED
      BY <3>2, <3>3
  <2>2. CASE \A t \in T : ~(t > s)
    <3>1. X[s][a] = "buy"
      BY <1>4, <1>9
    <3>2. p.positionOpen /\ p.entryStep = s
      <4>1. s \in Nat /\ \A t \in T : t \in Nat /\ t <= s
        BY <1>2, <2>2
      <4>2. CASE ~p.positionOpen
        <5>1. PICK m \in T : X[m][a] = "sell" /\ \A t \in T : t <= m
          BY <1>6, <4>2
        <5>2. m = s
          BY <4>1, <5>1
        <5>. QED
          BY <3>1, <5>1, <5>2
      <4>3. CASE p.positionOpen
        BY <1>1, <1>6, <4>1, <4>3
      <4>. QED
        BY <4>2, <4>3
    <3>3. s + MaxHoldSteps = n
      <4>1. ~(s + MaxHoldSteps \in DOMAIN X)
        BY <1>7, <2>2, <3>1
      <4>. QED
        BY <1>2, <1>9, <4>1
    <3>4. d = "sell"
      BY <1>2, <3>2, <3>3 DEF decideAction
    <3>. QED
      BY <1>2, <1>3, <3>3, <3>4
  <2>. QED
    BY <2>1, <2>2
\* The trades there were keep their turns.
<1>10. ASSUME NEW s \in T
       PROVE  LET before == {t \in U : t < s}
              IN  /\ Y[s][a] = "buy" <=> (before = {} \/ Y[Max(before)][a] = "sell")
                  /\ Y[s][a] = "sell" => s - Max(before) <= MaxHoldSteps
  <2> DEFINE before == {t \in T : t < s}
  <2>1. before \in SUBSET (0 .. n)
    BY <1>2
  <2>2. before # {} => Max(before) \in before
    <3> HIDE DEF before
    <3>. QED
      BY <2>1, LatestExists
  <2>. QED
    BY <1>4, <1>5, <1>7, <2>2
<1>11. CASE d = "hold"
  <2>1. U = T /\ q = p
    BY <1>3, <1>11 DEF After
  <2>2. p.positionOpen => n - p.entryStep < MaxHoldSteps
    BY <1>1, <1>11 DEF decideAction
  <2>3. Turns(Y, a)
    BY <1>9, <1>10, <2>1 DEF Turns, U
  <2>4. Held(Y, a, q, n + 1)
    <3>1. p.positionOpen => (n + 1) - p.entryStep <= MaxHoldSteps
      BY <1>1, <2>2
    <3>2. p.positionOpen => Y[p.entryStep][a] = "buy"
      BY <1>4, <1>6
    <3>3. ~p.positionOpen => T = {} \/ \E m \in T : Y[m][a] = "sell" /\ \A t \in T : t <= m
      BY <1>4, <1>6
    <3>. QED
      BY <1>6, <2>1, <3>1, <3>2, <3>3 DEF Held, U
  <2>. QED
    BY <2>3, <2>4
<1>12. CASE d = "buy"
  <2>1. U = T \cup {n} /\ ~p.positionOpen
    BY <1>3, <1>6, <1>12 DEF decideAction
  <2>2. q.positionOpen /\ q.entryStep = n /\ q.hasBought
    BY <1>12, <2>1 DEF After, Positions
  <2>3. {t \in U : t < n} = T
    <3>1. (\A t \in T : t < n) /\ ~(n < n)
      BY <1>2
    <3>. QED
      BY <2>1, <3>1
  <2>4. T = {} \/ Y[Max(T)][a] = "sell"
    <3>1. ASSUME NEW m \in T, X[m][a] = "sell", \A t \in T : t <= m PROVE Y[Max(T)][a] = "sell"
      BY <1>2, <1>4, <3>1, MaxIs
    <3>. QED
      BY <1>6, <2>1, <3>1
  <2>5. n + MaxHoldSteps \notin DOMAIN Y
    OBVIOUS
  <2>6. Turns(Y, a)
    <3>1. ASSUME NEW s \in U
          PROVE  LET before == {t \in U : t < s}
                 IN  /\ Y[s][a] = "buy" <=> (before = {} \/ Y[Max(before)][a] = "sell")
                     /\ Y[s][a] = "sell" => s - Max(before) <= MaxHoldSteps
                     /\ Y[s][a] = "buy" /\ s + MaxHoldSteps \in DOMAIN Y
                        => \E t \in U : t > s /\ t <= s + MaxHoldSteps
      <4>1. CASE s = n
        BY <1>12, <2>3, <2>4, <2>5, <4>1
      <4>2. CASE s # n
        BY <1>9, <1>10, <2>1, <4>2
      <4>. QED
        BY <4>1, <4>2
    <3>. QED
      BY <3>1 DEF Turns, U
  <2>7. Held(Y, a, q, n + 1)
    <3>1. n \in U /\ \A t \in U : t <= n
      BY <1>2, <2>1
    <3>. QED
      BY <1>12, <2>2, <3>1 DEF Held, U
  <2>. QED
    BY <2>6, <2>7
<1>13. CASE d = "sell"
  <2>1. U = T \cup {n} /\ p.positionOpen
    BY <1>3, <1>6, <1>13 DEF decideAction
  <2>2. ~q.positionOpen /\ (q.hasBought /\ ~q.hasSoldAfterBuy => FALSE)
    BY <1>1, <1>13 DEF After, Positions
  <2>3. {t \in U : t < n} = T
    <3>1. (\A t \in T : t < n) /\ ~(n < n)
      BY <1>2
    <3>. QED
      BY <2>1, <3>1
  <2>4. T # {} /\ Max(T) = p.entryStep /\ Y[Max(T)][a] = "buy" /\ n - Max(T) <= MaxHoldSteps
    <3>1. Max(T) = p.entryStep
      BY <1>2, <1>6, <2>1, MaxIs
    <3>. QED
      BY <1>4, <1>6, <2>1, <3>1
  <2>5. Turns(Y, a)
    <3>1. ASSUME NEW s \in U
          PROVE  LET before == {t \in U : t < s}
                 IN  /\ Y[s][a] = "buy" <=> (before = {} \/ Y[Max(before)][a] = "sell")
                     /\ Y[s][a] = "sell" => s - Max(before) <= MaxHoldSteps
                     /\ Y[s][a] = "buy" /\ s + MaxHoldSteps \in DOMAIN Y
                        => \E t \in U : t > s /\ t <= s + MaxHoldSteps
      <4>1. CASE s = n
        BY <1>13, <2>3, <2>4, <4>1
      <4>2. CASE s # n
        BY <1>9, <1>10, <2>1, <4>2
      <4>. QED
        BY <4>1, <4>2
    <3>. QED
      BY <3>1 DEF Turns, U
  <2>6. Held(Y, a, q, n + 1)
    <3>1. n \in U /\ \A t \in U : t <= n
      BY <1>2, <2>1
    <3>. QED
      BY <1>13, <2>2, <3>1 DEF Held, U
  <2>. QED
    BY <2>5, <2>6
<1>. QED
  BY <1>8, <1>11, <1>12, <1>13 DEF Actions

-----------------------------------------------------------------------------
\* Steps can be counted.
LEMMA StepsCount ==
  /\ 0 \in Steps /\ NumSteps - 1 \in Steps /\ Steps = 0 .. NumSteps - 1
  /\ Cardinality(Steps) = NumSteps
  /\ \A S \in SUBSET Steps : Cardinality(S) \in 0 .. NumSteps /\ (S # {} => Cardinality(S) # 0)
<1>1. Steps = 0 .. NumSteps - 1 /\ 0 \in Steps /\ NumSteps - 1 \in Steps
  BY DEF Steps
<1>2. IsFiniteSet(Steps) /\ Cardinality(Steps) = NumSteps
  <2>1. 0 \in Int /\ NumSteps - 1 \in Int /\ ~(0 > NumSteps - 1) /\ (NumSteps - 1) - 0 + 1 = NumSteps
    OBVIOUS
  <2>. QED
    BY <1>1, <2>1, FS_Interval
<1>3. ASSUME NEW S \in SUBSET Steps
      PROVE  Cardinality(S) \in 0 .. NumSteps /\ (S # {} => Cardinality(S) # 0)
  <2>1. IsFiniteSet(S) /\ Cardinality(S) <= Cardinality(Steps)
    BY <1>2, FS_Subset
  <2>2. Cardinality(S) \in Nat
    BY <2>1, FS_CardinalityType
  <2>3. Cardinality(S) = 0 <=> S = {}
    BY <2>1, FS_EmptySet
  <2>. QED
    BY <1>2, <2>1, <2>2, <2>3
<1>. QED
  BY <1>1, <1>2, <1>3

LEMMA NothingIsEmpty ==
  /\ DOMAIN Nothing = {} /\ Nothing = [s \in DOMAIN Nothing |-> Nothing[s]]
  /\ \A a : TradesIn(Nothing, a) = {} /\ Turns(Nothing, a)
<1>1. DOMAIN Nothing = {} /\ Nothing = [s \in DOMAIN Nothing |-> Nothing[s]]
  BY DEF Nothing
<1>2. \A a : TradesIn(Nothing, a) = {}
  BY <1>1 DEF TradesIn
<1>. QED
  BY <1>1, <1>2 DEF Turns

LEMMA IdleIsCall == Idle \in Calls
BY DEF Idle, Calls, ScriptPool, Pools

LEMMA InitInv == Init => Inv
<1> SUFFICES ASSUME Init PROVE Inv
  OBVIOUS
<1>1. Fresh \in Positions
  BY StepsCount DEF Fresh, Positions
<1>2. sim \in Sims
  BY <1>1, StepsCount DEF Init, Sims
<1>3. TypeOK
  <2>1. DOMAIN experiences = {} /\ DOMAIN curve = {}
    BY NothingIsEmpty DEF Init
  <2>2. call \in [Clients -> Calls]
    BY IdleIsCall DEF Init
  <2>3. exists \in BOOLEAN /\ early \in BOOLEAN /\ status \in Statuses /\ amended \in BOOLEAN
    BY DEF Init, Statuses
  <2>4. agents \subseteq Pools /\ snapshots \subseteq Steps /\ requests \in 0 .. MaxRequests
    BY DEF Init
  <2>. QED
    BY <1>2, <2>1, <2>2, <2>3, <2>4 DEF TypeOK
<1>4. Tables
  BY NothingIsEmpty DEF Init, Tables
<1>5. Gone
  BY DEF Init, Gone
<1>6. StepsDone
  BY StepsCount DEF Init, StepsDone
<1>7. Positioned
  BY NothingIsEmpty DEF Init, Positioned
<1>8. Drawn
  BY DEF Init, Drawn, Whole, Idle
<1>9. Replacing
  BY DEF Init, Replacing, Generating, Idle
<1>. QED
  BY <1>3, <1>4, <1>5, <1>6, <1>7, <1>8, <1>9 DEF Inv

-----------------------------------------------------------------------------
\* The script moves on to pc.
LEMMA SimGoes ==
  ASSUME TypeOK, NEW pc \in {"experiences", "debug", "sum", "curve", "done", "dead"}, SimGo(pc)
  PROVE  /\ sim' \in Sims /\ sim'.pc = pc /\ sim'.step = sim.step
         /\ sim'.positions = sim.positions /\ sim'.total = sim.total
BY DEF TypeOK, SimGo, Sims

\* What the script does leaves the requests what they rely on, if it leaves
\* the agents and does not take snapshots away.
LEMMA ScriptFrame ==
  ASSUME Inv, UNCHANGED <<exists, agents, Requests>>, snapshots \subseteq snapshots',
         snapshots' \subseteq Steps
  PROVE  /\ Replacing'
         /\ \A c \in Clients : Whole(exists, early, snapshots, agents, call[c])'
<1>1. Replacing'
  BY DEF Inv, Replacing, Generating, Requests
<1>2. ASSUME NEW c \in Clients PROVE Whole(exists, early, snapshots, agents, call[c])'
  BY DEF Inv, Drawn, Whole, Requests
<1>. QED
  BY <1>1, <1>2

\* The script stops, or goes on where it has nothing more to insert.
LEMMA ScriptMoves ==
  ASSUME Inv, NEW pc \in {"sum", "done", "dead"}, SimGo(pc), UNCHANGED <<run, curve, Requests, amended>>,
         pc # "dead" /\ exists => sim.pc \in {"complete", "debug", "sum", "curve"}
  PROVE  Inv'
<1> USE DEF run
<1>1. /\ sim' \in Sims /\ sim'.pc = pc /\ sim'.step = sim.step
      /\ sim'.positions = sim.positions /\ sim'.total = sim.total
  BY SimGoes DEF Inv
<1>2. TypeOK'
  BY <1>1 DEF Inv, TypeOK, Requests
<1>3. Replacing' /\ \A c \in Clients : Whole(exists, early, snapshots, agents, call[c])'
  <2>1. snapshots' = snapshots /\ snapshots \subseteq Steps
    BY DEF Inv, TypeOK
  <2>. QED
    BY <2>1, ScriptFrame
<1>4. Tables'
  BY DEF Inv, Tables
<1>5. Gone'
  BY DEF Inv, Gone
<1>6. StepsDone'
  BY <1>1 DEF Inv, StepsDone
<1>7. Positioned'
  BY <1>1 DEF Inv, Positioned
<1>8. Drawn'
  BY <1>1, <1>3 DEF Inv, Drawn, Requests, Truth
<1>. QED
  BY <1>2, <1>3, <1>4, <1>5, <1>6, <1>7, <1>8 DEF Inv

LEMMA CreateAgentsKeeps ==
  ASSUME Inv, CreateAgents
  PROVE  Inv'
<1>1. /\ sim.pc = "agents" /\ UNCHANGED <<exists, status, experiences, snapshots, curve, requests, early, amended>>
      /\ call' = [c \in Clients |->
            [call[c] EXCEPT !.overlapped = @ \/ call[c].pc \in {"delete", "create"}]]
      /\ IF exists THEN agents' = agents \cup {ScriptPool} /\ SimGo("experiences")
                   ELSE UNCHANGED agents /\ SimGo("dead")
  BY DEF CreateAgents
<1>2. /\ sim' \in Sims /\ sim'.pc = (IF exists THEN "experiences" ELSE "dead")
      /\ sim'.step = sim.step /\ sim'.positions = sim.positions /\ sim'.total = sim.total
  BY <1>1, SimGoes DEF Inv
<1>3. \A c \in Clients :
        /\ call'[c] \in Calls /\ call'[c].pc = call[c].pc /\ call'[c].of = call[c].of
        /\ call'[c].total = call[c].total /\ call'[c].pool = call[c].pool
        /\ call[c].pc \in {"delete", "create"} => call'[c].overlapped = TRUE
  <2> SUFFICES ASSUME NEW c \in Clients
               PROVE  /\ call'[c] \in Calls /\ call'[c].pc = call[c].pc /\ call'[c].of = call[c].of
                      /\ call'[c].total = call[c].total /\ call'[c].pool = call[c].pool
                      /\ call[c].pc \in {"delete", "create"} => call'[c].overlapped = TRUE
    OBVIOUS
  <2> DEFINE b == call[c].overlapped \/ call[c].pc \in {"delete", "create"}
  <2>1. call[c] \in Calls
    BY DEF Inv, TypeOK
  <2>2. b \in BOOLEAN /\ (call[c].pc \in {"delete", "create"} => b = TRUE)
    BY <2>1 DEF Calls
  <2>3. call'[c] = [call[c] EXCEPT !.overlapped = b]
    BY <1>1
  <2> HIDE DEF b
  <2>. QED
    BY <2>1, <2>2, <2>3 DEF Calls
<1>4. TypeOK'
  <2>1. call' \in [Clients -> Calls]
    BY <1>1, <1>3
  <2>2. ScriptPool \in Pools
    BY DEF ScriptPool, Pools
  <2>. QED
    BY <1>1, <1>2, <2>1, <2>2 DEF Inv, TypeOK
<1>5. exists => /\ snapshots = {} /\ ScriptPool \notin agents /\ sim.step = 0
                /\ sim.positions = [a \in SimAgents |-> Fresh] /\ experiences = Nothing
                /\ curve = Nothing /\ ~(status = "COMPLETED" /\ ~amended)
  BY <1>1 DEF Inv, StepsDone, Gone, Drawn
<1>6. Tables'
  BY <1>1 DEF Inv, Tables
<1>7. Gone'
  BY <1>1 DEF Inv, Gone
<1>8. StepsDone'
  <2>1. 0 .. 0 - 1 = {} /\ Steps # {}
    BY StepsCount
  <2>. QED
    BY <1>1, <1>2, <1>5, <2>1, NothingIsEmpty DEF StepsDone
<1>9. Positioned'
  <2>1. \A a \in SimAgents : Held(Nothing, a, Fresh, 0)
    BY NothingIsEmpty DEF Held, Fresh
  <2>2. sim'.pc # "snapshot"
    BY <1>2
  <2>3. CASE exists
    BY <1>1, <1>2, <1>5, <2>1, <2>2, <2>3 DEF Inv, Positioned
  <2>4. CASE ~exists
    BY <1>1, <1>2, <2>4 DEF Inv, Positioned
  <2>. QED
    BY <2>3, <2>4
<1>10. Drawn'
  BY <1>1, <1>2, <1>3, <1>5 DEF Inv, Drawn, Whole
<1>11. Replacing'
  <2>1. \A p \in agents' : p.id <= requests'
    BY <1>1 DEF Inv, Replacing, ScriptPool, TypeOK
  <2>. QED
    BY <1>1, <1>3, <2>1 DEF Inv, Replacing, Generating
<1>. QED
  BY <1>4, <1>6, <1>7, <1>8, <1>9, <1>10, <1>11 DEF Inv

LEMMA InsertExperiencesKeeps ==
  ASSUME Inv, NEW hit \in SUBSET Keen, InsertExperiences(hit)
  PROVE  Inv'
<1> DEFINE action == [a \in SimAgents |-> decideAction(a, sim.positions[a], sim.step, a \in hit)]
           n == sim.step
<1>1. /\ sim.pc = "experiences" /\ UNCHANGED <<exists, status, agents, snapshots, curve, Requests, amended>>
      /\ IF exists /\ ScriptPool \in agents
         THEN /\ experiences' = [s \in DOMAIN experiences \cup {n} |->
                                   IF s = n THEN action ELSE experiences[s]]
              /\ sim' = [sim EXCEPT !.pc = "snapshot",
                            !.positions = [a \in SimAgents |-> After(@[a], action[a], n)]]
         ELSE SimGo("dead") /\ UNCHANGED experiences
  BY DEF InsertExperiences
<1>2. CASE ~(exists /\ ScriptPool \in agents)
  <2>1. SimGo("dead") /\ UNCHANGED <<run, curve, Requests, amended>>
    BY <1>1, <1>2 DEF run
  <2>. QED
    BY <2>1, ScriptMoves
<1>3. CASE exists /\ ScriptPool \in agents
  <2> DEFINE ps == [a \in SimAgents |-> After(sim.positions[a], action[a], n)]
  <2>1. /\ n \in Steps /\ n \in Nat /\ sim \in Sims /\ sim.positions \in [SimAgents -> Positions]
        /\ DOMAIN experiences = 0 .. n - 1 /\ snapshots = 0 .. n - 1 /\ ~(status = "COMPLETED" /\ ~amended)
    BY <1>1, <1>3 DEF Inv, TypeOK, Sims, StepsDone, Steps
  <2>2. action \in [SimAgents -> Actions]
    BY DEF decideAction, Actions
  <2>3. ps \in [SimAgents -> Positions]
    <3>1. ASSUME NEW p \in Positions, NEW d \in Actions PROVE After(p, d, n) \in Positions
      BY <2>1, <3>1 DEF After, Positions, Actions
    <3> HIDE DEF action
    <3>. QED
      BY <2>1, <2>2, <3>1
  <2>4. sim' = [sim EXCEPT !.pc = "snapshot", !.positions = ps]
    BY <1>1, <1>3
  <2>5. /\ DOMAIN experiences' = 0 .. n /\ experiences'[n] = action
        /\ \A s \in 0 .. n - 1 : experiences'[s] = experiences[s]
        /\ experiences' = [s \in DOMAIN experiences' |-> experiences'[s]]
    <3> HIDE DEF action
    <3>1. experiences' = [s \in DOMAIN experiences \cup {n} |->
                            IF s = n THEN action ELSE experiences[s]]
      BY <1>1, <1>3
    <3>2. DOMAIN experiences \cup {n} = 0 .. n
      BY <2>1
    <3>. QED
      BY <2>1, <3>1, <3>2
  <2> HIDE DEF ps
  <2>6. /\ sim' \in Sims /\ sim'.pc = "snapshot" /\ sim'.step = n /\ sim'.positions = ps
        /\ sim'.total = sim.total
    BY <2>1, <2>3, <2>4 DEF Sims
  <2>7. \A a \in SimAgents : Turns(experiences', a) /\ Held(experiences', a, ps[a], n + 1)
    <3> SUFFICES ASSUME NEW a \in SimAgents
                 PROVE  Turns(experiences', a) /\ Held(experiences', a, ps[a], n + 1)
      OBVIOUS
    <3> DEFINE X == experiences
               Y == experiences'
               p == sim.positions[a]
    <3>1. p \in Positions /\ (a \in hit) \in BOOLEAN
      BY <2>1
    <3>2. \A s \in 0 .. n - 1 : X[s][a] \in Actions /\ Y[s][a] = X[s][a]
      BY <2>1, <2>5 DEF Inv, TypeOK
    <3>3. Y[n][a] = decideAction(a, p, n, a \in hit)
      BY <2>5
    <3>4. Turns(X, a) /\ Held(X, a, p, n)
      BY <1>1, <1>3 DEF Inv, Positioned
    <3>5. ps[a] = After(p, Y[n][a], n)
      BY <2>5 DEF ps
    <3>6. DOMAIN X = 0 .. n - 1 /\ DOMAIN Y = 0 .. n
      BY <2>1, <2>5
    <3> HIDE DEF X, Y, p, n
    <3>7. Turns(Y, a) /\ Held(Y, a, After(p, Y[n][a], n), n + 1)
      BY <2>1, <3>1, <3>2, <3>3, <3>4, <3>6, AgentSteps
    <3>. QED
      BY <3>5, <3>7 DEF X, Y, p, n
  <2> HIDE DEF action
  <2>8. TypeOK'
    <3>1. DOMAIN experiences' \subseteq Steps
      BY <2>1, <2>5 DEF Steps
    <3>2. \A s \in DOMAIN experiences' : experiences'[s] \in [SimAgents -> Actions]
      <4>1. ASSUME NEW s \in 0 .. n PROVE experiences'[s] \in [SimAgents -> Actions]
        <5>1. CASE s = n
          BY <2>2, <2>5, <5>1
        <5>2. CASE s # n
          <6>1. s \in 0 .. n - 1
            BY <2>1, <5>2
          <6>. QED
            BY <2>1, <2>5, <6>1 DEF Inv, TypeOK
        <5>. QED
          BY <5>1, <5>2
      <4>. QED
        BY <2>5, <4>1
    <3>. QED
      BY <1>1, <2>6, <3>1, <3>2 DEF Inv, TypeOK, Requests
  <2>9. Replacing' /\ \A c \in Clients : Whole(exists, early, snapshots, agents, call[c])'
    <3>1. UNCHANGED <<exists, agents, Requests, amended>> /\ snapshots' = snapshots /\ snapshots \subseteq Steps
      BY <1>1 DEF Inv, TypeOK
    <3>. QED
      BY <3>1, ScriptFrame
  <2>10. Tables'
    BY <1>1, <2>5 DEF Inv, Tables
  <2>11. Gone'
    BY <1>1, <1>3 DEF Gone
  <2>12. StepsDone'
    <3>1. snapshots # Steps
      <4>1. NumSteps - 1 \in Steps /\ NumSteps - 1 \notin 0 .. n - 1
        BY <2>1, StepsCount
      <4>. QED
        BY <2>1, <4>1
    <3>. QED
      BY <1>1, <2>1, <2>5, <2>6, <3>1 DEF StepsDone
  <2>13. Positioned'
    BY <1>1, <2>6, <2>7 DEF Positioned
  <2>14. Drawn'
    BY <1>1, <2>6, <2>9 DEF Inv, Drawn, Requests, Truth
  <2>. QED
    BY <2>8, <2>9, <2>10, <2>11, <2>12, <2>13, <2>14 DEF Inv
<1>. QED
  BY <1>2, <1>3

LEMMA InsertSnapshotKeeps ==
  ASSUME Inv, InsertSnapshot
  PROVE  Inv'
<1> DEFINE n == sim.step
<1>1. /\ sim.pc = "snapshot" /\ UNCHANGED <<exists, status, agents, experiences, curve, Requests, amended>>
      /\ IF exists THEN snapshots' = snapshots \cup {n} /\ sim' = NextStep
                   ELSE SimGo("dead") /\ UNCHANGED snapshots
  BY DEF InsertSnapshot
<1>2. CASE ~exists
  <2>1. SimGo("dead") /\ UNCHANGED <<run, curve, Requests, amended>>
    BY <1>1, <1>2 DEF run
  <2>. QED
    BY <2>1, ScriptMoves
<1>3. CASE exists
  <2>1. /\ n \in Steps /\ n \in Nat /\ sim \in Sims /\ snapshots = 0 .. n - 1
        /\ ~(status = "COMPLETED" /\ ~amended) /\ (ScriptPool \in agents => DOMAIN experiences = 0 .. n)
    BY <1>1, <1>3 DEF Inv, TypeOK, Sims, StepsDone, Steps
  <2>2. snapshots' = 0 .. n
    <3>1. (0 .. n - 1) \cup {n} = 0 .. n
      BY <2>1
    <3>. QED
      BY <1>1, <1>3, <2>1, <3>1
  <2>3. /\ sim' \in Sims /\ sim'.positions = sim.positions /\ sim'.total = sim.total
        /\ \/ n + 1 = NumSteps /\ sim'.pc = "complete"
           \/ n + 1 # NumSteps /\ sim'.pc = "experiences" /\ sim'.step = n + 1
    <3>1. CASE n + 1 = NumSteps
      BY <1>1, <1>3, <2>1, <3>1 DEF NextStep, Sims
    <3>2. CASE n + 1 # NumSteps
      <4>1. n + 1 \in Steps
        BY <2>1, <3>2 DEF Steps
      <4>. QED
        BY <1>1, <1>3, <2>1, <3>2, <4>1 DEF NextStep, Sims
    <3>. QED
      BY <3>1, <3>2
  <2>4. snapshots \subseteq snapshots' /\ snapshots' \subseteq Steps
    BY <2>1, <2>2 DEF Steps
  <2>5. Replacing' /\ \A c \in Clients : Whole(exists, early, snapshots, agents, call[c])'
    BY <1>1, <2>4, ScriptFrame
  <2>6. TypeOK'
    BY <1>1, <2>3, <2>4 DEF Inv, TypeOK, Requests
  <2>7. Tables'
    BY <1>1 DEF Inv, Tables
  <2>8. Gone'
    BY <1>1, <1>3 DEF Inv, Gone
  <2>9. StepsDone'
    <3>1. CASE n + 1 = NumSteps
      <4>1. snapshots' = Steps /\ 0 .. n = Steps
        BY <2>1, <2>2, <3>1 DEF Steps
      <4>. QED
        BY <1>1, <2>1, <2>3, <3>1, <4>1 DEF StepsDone
    <3>2. CASE n + 1 # NumSteps
      <4>1. snapshots' # Steps
        <5>1. NumSteps - 1 \in Steps /\ NumSteps - 1 \notin 0 .. n
          BY <2>1, <3>2, StepsCount
        <5>. QED
          BY <2>2, <5>1
      <4>2. 0 .. (n + 1) - 1 = 0 .. n
        BY <2>1
      <4>. QED
        BY <1>1, <2>1, <2>2, <2>3, <3>2, <4>1, <4>2 DEF StepsDone
    <3>. QED
      BY <3>1, <3>2
  <2>10. Positioned'
    BY <1>1, <2>3 DEF Inv, Positioned
  <2>11. Drawn'
    <3>1. snapshots' # {}
      BY <2>1, <2>2
    <3>. QED
      BY <1>1, <2>3, <2>5, <3>1 DEF Inv, Drawn, Requests, Truth
  <2>. QED
    BY <2>5, <2>6, <2>7, <2>8, <2>9, <2>10, <2>11 DEF Inv
<1>. QED
  BY <1>2, <1>3

LEMMA CompleteKeeps ==
  ASSUME Inv, Complete
  PROVE  Inv'
<1>1. /\ sim.pc = "complete" /\ status' = (IF exists THEN AfterCompleted(status) ELSE status)
      /\ SimGo("debug") /\ amended' = (amended /\ status \notin InFlight)
      /\ UNCHANGED <<exists, agents, experiences, snapshots, curve, Requests>>
  BY DEF Complete
<1>2. /\ sim' \in Sims /\ sim'.pc = "debug" /\ sim'.step = sim.step
      /\ sim'.positions = sim.positions /\ sim'.total = sim.total
  BY <1>1, SimGoes DEF Inv
<1>3. TypeOK'
  BY <1>1, <1>2 DEF Inv, TypeOK, Requests, AfterCompleted, Statuses
<1>4. Replacing' /\ \A c \in Clients : Whole(exists, early, snapshots, agents, call[c])'
  <2>1. snapshots' = snapshots /\ snapshots \subseteq Steps
    BY <1>1 DEF Inv, TypeOK
  <2>. QED
    BY <1>1, <2>1, ScriptFrame
<1>5. Tables'
  BY <1>1 DEF Inv, Tables
<1>6. Gone'
  BY <1>1 DEF Inv, Gone
<1>7. StepsDone'
  BY <1>1, <1>2 DEF Inv, StepsDone
<1>8. Positioned'
  BY <1>1, <1>2 DEF Inv, Positioned
<1>9. Drawn'
  BY <1>1, <1>2, <1>4 DEF Inv, Drawn, Requests, Truth
<1>. QED
  BY <1>3, <1>4, <1>5, <1>6, <1>7, <1>8, <1>9 DEF Inv

\* What is summed up for the curve is every step, if the agents are there.
LEMMA SumPnlKeeps ==
  ASSUME Inv, SumPnl
  PROVE  Inv'
<1> USE DEF run
<1>1. /\ sim.pc = "sum" /\ UNCHANGED <<run, curve, Requests, amended>>
      /\ sim' = [sim EXCEPT !.pc = "curve", !.total = DOMAIN experiences]
  BY DEF SumPnl
<1>2. /\ sim' \in Sims /\ sim'.pc = "curve" /\ sim'.positions = sim.positions
      /\ sim'.total = DOMAIN experiences
  <2>1. DOMAIN experiences \in SUBSET Steps /\ sim \in Sims
    BY DEF Inv, TypeOK
  <2>. QED
    BY <1>1, <2>1 DEF Sims
<1>3. TypeOK'
  BY <1>1, <1>2 DEF Inv, TypeOK, Requests
<1>4. Replacing' /\ \A c \in Clients : Whole(exists, early, snapshots, agents, call[c])'
  <2>1. snapshots' = snapshots /\ snapshots \subseteq Steps
    BY <1>1 DEF Inv, TypeOK
  <2>. QED
    BY <1>1, <2>1, ScriptFrame
<1>5. Tables'
  BY <1>1 DEF Inv, Tables
<1>6. Gone'
  BY <1>1 DEF Inv, Gone
<1>7. StepsDone'
  BY <1>1, <1>2 DEF Inv, StepsDone
<1>8. Positioned'
  BY <1>1, <1>2 DEF Inv, Positioned
<1>9. exists /\ ScriptPool \in agents => DOMAIN experiences = Steps
  BY <1>1 DEF Inv, StepsDone
<1>10. Drawn'
  BY <1>1, <1>2, <1>4, <1>9 DEF Inv, Drawn, Requests, Truth
<1>. QED
  BY <1>3, <1>4, <1>5, <1>6, <1>7, <1>8, <1>10 DEF Inv

\* A curve over n steps that sums up total has values, all 0 at the start.
LEMMA LineIsCurve ==
  ASSUME NEW n \in 1 .. NumSteps, NEW total \in SUBSET Steps
  PROVE  /\ DOMAIN Line(n, total) \subseteq 0 .. NumSteps
         /\ \A s \in DOMAIN Line(n, total) : Line(n, total)[s] \in Values
<1>1. \A s \in 0 .. n : Value(s, n, total) \in Values
  BY DEF Value, Values
<1>. QED
  BY <1>1 DEF Line

\* Filling a curve in keeps it one.
LEMMA FilledIsCurve ==
  ASSUME TypeOK, NEW n \in 1 .. NumSteps, NEW total \in SUBSET Steps,
         curve' = Filled(Line(n, total))
  PROVE  /\ DOMAIN curve' \subseteq 0 .. NumSteps
         /\ \A s \in DOMAIN curve' : curve'[s] \in Values
         /\ curve' = [s \in DOMAIN curve' |-> curve'[s]]
<1> DEFINE L == Line(n, total)
<1>1. DOMAIN L \subseteq 0 .. NumSteps /\ \A s \in DOMAIN L : L[s] \in Values
  BY LineIsCurve
<1> HIDE DEF L
<1>2. curve' = [s \in DOMAIN curve \cup DOMAIN L |-> IF s \in DOMAIN curve THEN curve[s] ELSE L[s]]
  BY DEF Filled, L
<1>. QED
  BY <1>1, <1>2 DEF TypeOK

\* Filled in over every step, nothing becomes the whole truth, which stays it.
LEMMA FilledIsTruth ==
  ASSUME curve \in {Nothing, Truth}, curve' = Filled(Line(NumSteps, Steps))
  PROVE  curve' = Truth
<1>1. Truth = Line(NumSteps, Steps)
  BY DEF Truth, Line
<1>2. DOMAIN Truth = 0 .. NumSteps /\ Truth = [s \in 0 .. NumSteps |-> Truth[s]]
  BY DEF Truth
<1> HIDE DEF Truth
<1>3. curve' = [s \in DOMAIN curve \cup DOMAIN Truth |->
                 IF s \in DOMAIN curve THEN curve[s] ELSE Truth[s]]
  BY <1>1 DEF Filled
<1>4. CASE curve = Nothing
  <2>1. curve' = [s \in 0 .. NumSteps |-> Truth[s]]
    BY <1>2, <1>3, <1>4, NothingIsEmpty
  <2>. QED
    BY <1>2, <2>1
<1>5. CASE curve = Truth
  <2>1. curve' = [s \in 0 .. NumSteps |-> Truth[s]]
    BY <1>2, <1>3, <1>5
  <2>. QED
    BY <1>2, <2>1
<1>. QED
  BY <1>4, <1>5

LEMMA WriteCurveKeeps ==
  ASSUME Inv, WriteCurve
  PROVE  Inv'
<1> USE DEF run
<1>1. /\ sim.pc = "curve" /\ UNCHANGED <<run, Requests, amended>>
      /\ curve' = (IF exists THEN Filled(Line(NumSteps, sim.total)) ELSE curve)
      /\ SimGo(IF exists THEN "done" ELSE "dead")
  BY DEF WriteCurve
<1>2. CASE ~exists
  <2>1. SimGo("dead") /\ UNCHANGED <<run, curve, Requests, amended>>
    BY <1>1, <1>2
  <2>. QED
    BY <2>1, ScriptMoves
<1>3. CASE exists
  <2>1. /\ sim' \in Sims /\ sim'.pc = "done" /\ sim'.step = sim.step
        /\ sim'.positions = sim.positions /\ sim'.total = sim.total
    BY <1>1, <1>3, SimGoes DEF Inv
  <2>2. /\ DOMAIN curve' \subseteq 0 .. NumSteps
        /\ \A s \in DOMAIN curve' : curve'[s] \in Values
        /\ curve' = [s \in DOMAIN curve' |-> curve'[s]]
    <3>1. sim.total \in SUBSET Steps /\ NumSteps \in 1 .. NumSteps
      BY DEF Inv, TypeOK, Sims
    <3>. QED
      BY <1>1, <1>3, <3>1, FilledIsCurve DEF Inv
  <2>3. TypeOK'
    BY <1>1, <2>1, <2>2 DEF Inv, TypeOK, Requests
  <2>4. Replacing' /\ \A c \in Clients : Whole(exists, early, snapshots, agents, call[c])'
    <3>1. snapshots' = snapshots /\ snapshots \subseteq Steps
      BY <1>1 DEF Inv, TypeOK
    <3>. QED
      BY <1>1, <3>1, ScriptFrame
  <2>5. Tables'
    BY <1>1, <2>2 DEF Inv, Tables
  <2>6. Gone'
    BY <1>1, <1>3 DEF Inv, Gone
  <2>7. StepsDone'
    BY <1>1, <2>1 DEF Inv, StepsDone
  <2>8. Positioned'
    BY <1>1, <2>1 DEF Inv, Positioned
  <2>9. ~early /\ ScriptPool \in agents => curve' = Truth
    <3>1. ~early /\ ScriptPool \in agents => curve \in {Nothing, Truth} /\ sim.total = Steps
      BY <1>1, <1>3 DEF Inv, Drawn
    <3>. QED
      BY <1>1, <1>3, <3>1, FilledIsTruth
  <2>10. snapshots # {}
    BY <1>1, <1>3, StepsCount DEF Inv, StepsDone
  <2>11. Truth' = Truth
    BY DEF Truth
  <2>12. Drawn'
    BY <1>1, <2>1, <2>4, <2>9, <2>10, <2>11 DEF Drawn, Requests
  <2>. QED
    BY <2>3, <2>4, <2>5, <2>6, <2>7, <2>8, <2>12 DEF Inv
<1>. QED
  BY <1>2, <1>3

LEMMA SimulateKeeps ==
  ASSUME Inv, Simulate
  PROVE  Inv'
<1>1. CASE CreateAgents
  BY <1>1, CreateAgentsKeeps
<1>2. ASSUME NEW hit \in SUBSET Keen, InsertExperiences(hit) PROVE Inv'
  BY <1>2, InsertExperiencesKeeps
<1>3. CASE InsertSnapshot
  BY <1>3, InsertSnapshotKeeps
<1>4. CASE Complete
  BY <1>4, CompleteKeeps
<1>5. CASE WriteDebug
  BY <1>5, ScriptMoves DEF WriteDebug
<1>6. CASE SumPnl
  BY <1>6, SumPnlKeeps
<1>7. CASE WriteCurve
  BY <1>7, WriteCurveKeeps
<1>8. CASE Kill
  BY <1>8, ScriptMoves DEF Kill
<1>. QED
  BY <1>1, <1>2, <1>3, <1>4, <1>5, <1>6, <1>7, <1>8 DEF Simulate

-----------------------------------------------------------------------------
\* A request that only changes itself keeps the invariant, if what it is about
\* to write is whole and what it is about to delete is all there is.
LEMMA RequestMoves ==
  ASSUME Inv, NEW c \in Clients, NEW k \in Calls, call' = [call EXCEPT ![c] = k],
         UNCHANGED <<run, curve, sim, amended>>,
         requests' \in requests .. MaxRequests, early' \in BOOLEAN, early => early',
         Whole(exists, early', snapshots, agents, k),
         \/ k.pc \notin {"delete", "create"}
         \/ /\ Generating(c) /\ k.pool = call[c].pool /\ k.overlapped = call[c].overlapped
            /\ k.pc = "create" /\ ~k.overlapped => agents \subseteq k.doomed
  PROVE  Inv'
<1> USE DEF run
<1>1. \A d \in Clients : call'[d] = IF d = c THEN k ELSE call[d]
  BY DEF Inv, TypeOK
<1>0. requests' \in 0 .. MaxRequests /\ requests <= requests'
  BY DEF Inv, TypeOK
<1>2. TypeOK'
  BY <1>0 DEF Inv, TypeOK
<1>3. Tables'
  BY DEF Inv, Tables
<1>4. Gone'
  BY DEF Inv, Gone
<1>5. StepsDone'
  BY DEF Inv, StepsDone
<1>6. Positioned'
  BY DEF Inv, Positioned
<1>7. Drawn'
  <2>1. ASSUME NEW d \in Clients PROVE Whole(exists, early, snapshots, agents, call[d])'
    <3>1. CASE d = c
      BY <1>1, <3>1
    <3>2. CASE d # c
      BY <1>1, <3>2 DEF Inv, Drawn, Whole
    <3>. QED
      BY <3>1, <3>2
  <2>2. Truth' = Truth
    BY DEF Truth
  <2>. QED
    BY <2>1, <2>2 DEF Inv, Drawn
<1>8. Replacing'
  <2>1. \A p \in agents' : p.id <= requests'
    <3>1. \A p \in agents : p.id \in Nat /\ p.id <= requests
      BY DEF Inv, TypeOK, Replacing, Pools
    <3>. QED
      BY <1>0, <3>1 DEF Inv, TypeOK
  <2>2. ASSUME NEW d \in Clients, Generating(d)' PROVE Generating(d) /\ call'[d].pool = call[d].pool
                 /\ call'[d].overlapped = call[d].overlapped
    BY <1>1, <2>2 DEF Generating
  <2>3. ASSUME NEW d \in Clients, Generating(d)'
        PROVE  /\ call'[d].pool.seed \in Seeds /\ call'[d].pool.id <= requests'
               /\ ~call'[d].overlapped =>
                    /\ call'[d].pool \notin agents'
                    /\ call'[d].pc = "create" => agents' \subseteq call'[d].doomed
                    /\ \A e \in Clients \ {d} : ~Generating(e)'
    <3>1. /\ Generating(d) /\ call'[d].pool = call[d].pool /\ call'[d].overlapped = call[d].overlapped
      BY <2>2, <2>3
    <3>2. call[d].pool.id \in Nat
      BY DEF Inv, TypeOK, Calls, Pools
    <3>3. call'[d].pool.seed \in Seeds /\ call'[d].pool.id <= requests'
      BY <1>0, <3>1, <3>2 DEF Inv, Replacing, TypeOK
    <3>4. ~call'[d].overlapped => \A e \in Clients \ {d} : ~Generating(e)'
      BY <2>2, <3>1 DEF Inv, Replacing
    <3>5. ~call'[d].overlapped =>
            call'[d].pool \notin agents' /\ (call'[d].pc = "create" => agents' \subseteq call'[d].doomed)
      BY <1>1, <3>1 DEF Inv, Replacing, Generating
    <3>. QED
      BY <3>3, <3>4, <3>5
  <2>. QED
    BY <2>1, <2>3 DEF Replacing
<1>. QED
  BY <1>2, <1>3, <1>4, <1>5, <1>6, <1>7, <1>8 DEF Inv

LEMMA SameRequests ==
  ASSUME Inv, UNCHANGED <<requests, early>>
  PROVE  requests' \in requests .. MaxRequests /\ early' \in BOOLEAN /\ (early => early')
<1>1. requests \in 0 .. MaxRequests /\ early \in BOOLEAN
  BY DEF Inv, TypeOK
<1>. QED
  BY <1>1

LEMMA CurveRequestKeeps ==
  ASSUME Inv, NEW c \in Clients, RequestCurve(c) \/ CountSnapshots(c) \/ SumExperiences(c)
  PROVE  Inv'
<1>1. call[c] \in Calls /\ requests \in 0 .. MaxRequests /\ early \in BOOLEAN
      /\ snapshots \subseteq Steps /\ DOMAIN experiences \subseteq Steps
  BY DEF Inv, TypeOK
<1>2. CASE RequestCurve(c)
  <2> DEFINE k == [call[c] EXCEPT !.pc = "count"]
  <2>1. k \in Calls /\ k.pc = "count"
    BY <1>1 DEF Calls
  <2>2. call' = [call EXCEPT ![c] = k] /\ requests' = requests + 1 /\ requests < MaxRequests
        /\ UNCHANGED <<run, curve, sim, early, amended>>
    BY <1>2 DEF RequestCurve
  <2> HIDE DEF k
  <2>3. Whole(exists, early', snapshots, agents, k)
    BY <2>1 DEF Whole
  <2>4. requests' \in requests .. MaxRequests
    BY <1>1, <2>2
  <2>. QED
    BY <1>1, <2>1, <2>2, <2>3, <2>4, RequestMoves
<1>3. CASE CountSnapshots(c) /\ ~(exists /\ snapshots # {})
  <2>1. call' = [call EXCEPT ![c] = Idle] /\ UNCHANGED <<run, curve, sim, early, requests, amended>>
    BY <1>3 DEF CountSnapshots, Answer
  <2>2. Idle.pc = "idle" /\ Whole(exists, early', snapshots, agents, Idle)
    BY DEF Whole, Idle
  <2>. QED
    BY <2>1, <2>2, IdleIsCall, SameRequests, RequestMoves
<1>4. CASE CountSnapshots(c) /\ exists /\ snapshots # {}
  <2> DEFINE n == Cardinality(snapshots)
             k == [call[c] EXCEPT !.pc = "sum", !.of = n]
  <2>1. n \in 0 .. NumSteps /\ n # 0 /\ (snapshots = Steps => n = NumSteps)
    BY <1>1, <1>4, StepsCount
  <2>2. call' = [call EXCEPT ![c] = k] /\ UNCHANGED <<run, curve, sim, requests, amended>>
        /\ early' = (early \/ snapshots # Steps)
    BY <1>4 DEF CountSnapshots
  <2> HIDE DEF n
  <2>3. k \in Calls /\ k.pc = "sum" /\ k.of = n
    BY <1>1, <2>1 DEF Calls
  <2> HIDE DEF k
  <2>4. Whole(exists, early', snapshots, agents, k)
    BY <1>4, <2>1, <2>2, <2>3 DEF Whole
  <2>5. early' \in BOOLEAN /\ (early => early') /\ requests' \in requests .. MaxRequests
    BY <1>1, <2>2
  <2>. QED
    BY <1>1, <2>2, <2>3, <2>4, <2>5, RequestMoves
<1>5. CASE SumExperiences(c)
  <2> DEFINE k == [call[c] EXCEPT !.pc = "write", !.total = DOMAIN experiences]
  <2>1. k \in Calls /\ k.pc = "write" /\ k.of = call[c].of /\ k.total = DOMAIN experiences
    BY <1>1 DEF Calls
  <2>2. call' = [call EXCEPT ![c] = k] /\ UNCHANGED <<run, curve, sim, early, requests, amended>>
        /\ call[c].pc = "sum"
    BY <1>5 DEF SumExperiences, At
  <2> HIDE DEF k
  <2>3. Whole(exists, early', snapshots, agents, k)
    BY <2>1, <2>2 DEF Inv, Drawn, Whole, StepsDone
  <2>. QED
    BY <2>1, <2>2, <2>3, SameRequests, RequestMoves
<1>. QED
  BY <1>2, <1>3, <1>4, <1>5

LEMMA CreateCurveKeeps ==
  ASSUME Inv, NEW c \in Clients, CreateCurve(c)
  PROVE  Inv'
<1> USE DEF run
<1>1. /\ call[c].pc = "write" /\ call' = [call EXCEPT ![c] = Idle]
      /\ curve' = (IF exists THEN Filled(Line(call[c].of, call[c].total)) ELSE curve)
      /\ UNCHANGED <<run, sim, requests, early, amended>>
  BY DEF CreateCurve, At, Answer
<1>2. call[c] \in Calls /\ Whole(exists, early, snapshots, agents, call[c])
  BY DEF Inv, TypeOK, Drawn
<1>3. call[c].of \in 1 .. NumSteps /\ call[c].total \in SUBSET Steps
  BY <1>1, <1>2 DEF Calls, Whole
<1>4. /\ DOMAIN curve' \subseteq 0 .. NumSteps
      /\ \A s \in DOMAIN curve' : curve'[s] \in Values
      /\ curve' = [s \in DOMAIN curve' |-> curve'[s]]
  <2>1. CASE exists
    BY <1>1, <1>3, <2>1, FilledIsCurve DEF Inv
  <2>2. CASE ~exists
    <3>1. curve' = curve
      BY <1>1, <2>2
    <3>. QED
      BY <3>1 DEF Inv, TypeOK, Tables
  <2>. QED
    BY <2>1, <2>2
<1>5. \A d \in Clients : call'[d] = IF d = c THEN Idle ELSE call[d]
  BY <1>1 DEF Inv, TypeOK
<1>6. TypeOK'
  <2>1. call' \in [Clients -> Calls]
    BY <1>1, IdleIsCall DEF Inv, TypeOK
  <2>. QED
    BY <1>1, <1>4, <2>1 DEF Inv, TypeOK
<1>7. Tables'
  BY <1>1, <1>4 DEF Inv, Tables
<1>8. Gone'
  BY <1>1 DEF Inv, Gone
<1>9. StepsDone'
  BY <1>1 DEF Inv, StepsDone
<1>10. Positioned'
  BY <1>1 DEF Inv, Positioned
<1>11. Drawn'
  <2>1. exists => snapshots # {}
    BY <1>1, <1>2 DEF Whole
  <2>2. exists /\ ~early /\ ScriptPool \in agents => curve' = Truth
    <3>1. exists /\ ~early /\ ScriptPool \in agents =>
            curve \in {Nothing, Truth} /\ call[c].of = NumSteps /\ call[c].total = Steps
      BY <1>1, <1>2 DEF Inv, Drawn, Whole
    <3>. QED
      BY <1>1, <3>1, FilledIsTruth
  <2>3. \A d \in Clients : Whole(exists, early, snapshots, agents, call[d])'
    BY <1>1, <1>5 DEF Inv, Drawn, Whole, Idle
  <2>4. Truth' = Truth
    BY DEF Truth
  <2>. QED
    BY <1>1, <2>1, <2>2, <2>3, <2>4 DEF Inv, Drawn
<1>12. Replacing'
  BY <1>1, <1>5 DEF Inv, Replacing, Generating, Idle
<1>. QED
  BY <1>6, <1>7, <1>8, <1>9, <1>10, <1>11, <1>12 DEF Inv

\* Without an insert, a request that ends changes only itself.
LEMMA AnswerKeeps ==
  ASSUME Inv, NEW c \in Clients, Answer(c), UNCHANGED <<run, curve, sim, requests, early, amended>>
  PROVE  Inv'
<1>1. Idle.pc = "idle" /\ Whole(exists, early', snapshots, agents, Idle)
  BY DEF Whole, Idle
<1>. QED
  BY <1>1, IdleIsCall, SameRequests, RequestMoves DEF Answer

LEMMA DeleteAgentsKeeps ==
  ASSUME Inv, NEW c \in Clients, DeleteAgents(c)
  PROVE  Inv'
<1> DEFINE k == [call[c] EXCEPT !.pc = "create", !.doomed = agents]
<1>1. call[c] \in Calls /\ agents \in SUBSET Pools
  BY DEF Inv, TypeOK
<1>2. /\ k \in Calls /\ k.pc = "create" /\ k.doomed = agents /\ k.pool = call[c].pool
      /\ k.overlapped = call[c].overlapped
  BY <1>1 DEF Calls
<1>3. call[c].pc = "delete" /\ call' = [call EXCEPT ![c] = k]
      /\ UNCHANGED <<run, curve, sim, requests, early, amended>>
  BY DEF DeleteAgents, At
<1> HIDE DEF k
<1>4. Whole(exists, early', snapshots, agents, k) /\ Generating(c)
  BY <1>2, <1>3 DEF Whole, Generating
<1>. QED
  BY <1>2, <1>3, <1>4, SameRequests, RequestMoves

\* A generation that comes is alone, or it and the others overlap.
LEMMA RequestGenerateKeeps ==
  ASSUME Inv, NEW c \in Clients, NEW seed \in Seeds, NEW w \in BOOLEAN, RequestGenerate(c, seed, w)
  PROVE  Inv'
<1> USE DEF run
<1> DEFINE others == {d \in Clients : Generating(d)}
           pc == IF agents # {} THEN "delete" ELSE "create"
           pool == [seed |-> seed, id |-> requests + 1]
           new == [Idle EXCEPT !.pc = pc, !.pool = pool, !.overlapped = others # {}]
           kept(d) == [call[d] EXCEPT !.overlapped = @ \/ d \in others]
<1>1. /\ call[c].pc = "idle" /\ requests < MaxRequests /\ requests' = requests + 1
      /\ call' = [d \in Clients |-> IF d = c THEN new ELSE kept(d)]
      /\ UNCHANGED <<run, curve, sim, early, amended>>
  BY DEF RequestGenerate, At
<1>2. requests \in Nat /\ requests' \in 0 .. MaxRequests /\ requests <= requests'
  <2>1. requests \in 0 .. MaxRequests
    BY DEF Inv, TypeOK
  <2>2. requests < MaxRequests /\ requests' = requests + 1
    BY <1>1
  <2>. QED
    BY <2>1, <2>2
<1>3. pool \in Pools /\ pool.seed = seed /\ pool.id = requests'
  BY <1>1, <1>2 DEF Pools
<1>4. /\ new \in Calls /\ new.pc = pc /\ new.pool = pool /\ new.doomed = {}
      /\ new.overlapped = (others # {})
  <2>1. (others # {}) \in BOOLEAN /\ pc \in {"delete", "create"}
    OBVIOUS
  <2>2. Idle.doomed = {}
    BY DEF Idle
  <2> HIDE DEF pool, others, pc
  <2>. QED
    BY <1>3, <2>1, <2>2, IdleIsCall DEF Calls
<1>5. ASSUME NEW d \in Clients
      PROVE  /\ kept(d) \in Calls /\ kept(d).pc = call[d].pc /\ kept(d).of = call[d].of
             /\ kept(d).total = call[d].total /\ kept(d).pool = call[d].pool
             /\ kept(d).doomed = call[d].doomed
             /\ Generating(d) => kept(d).overlapped = TRUE
  <2> DEFINE b == call[d].overlapped \/ d \in others
  <2>1. call[d] \in Calls
    BY DEF Inv, TypeOK
  <2>2. b \in BOOLEAN /\ (Generating(d) => b = TRUE)
    BY <2>1 DEF Calls
  <2>3. kept(d) = [call[d] EXCEPT !.overlapped = b]
    OBVIOUS
  <2> HIDE DEF b, kept
  <2>. QED
    BY <2>1, <2>2, <2>3 DEF Calls
<1> HIDE DEF new, kept
<1>6. \A d \in Clients : call'[d] = IF d = c THEN new ELSE kept(d)
  BY <1>1
<1>7. TypeOK'
  <2>1. call' \in [Clients -> Calls]
    BY <1>1, <1>4, <1>5
  <2>. QED
    BY <1>1, <1>2, <2>1 DEF Inv, TypeOK
<1>8. Tables'
  BY <1>1 DEF Inv, Tables
<1>9. Gone'
  BY <1>1 DEF Inv, Gone
<1>10. StepsDone'
  BY <1>1 DEF Inv, StepsDone
<1>11. Positioned'
  BY <1>1 DEF Inv, Positioned
<1>12. Drawn'
  <2>1. ASSUME NEW d \in Clients PROVE Whole(exists, early, snapshots, agents, call[d])'
    <3>1. CASE d = c
      BY <1>4, <1>6, <3>1 DEF Whole
    <3>2. CASE d # c
      <4>1. call'[d] = kept(d)
        BY <1>6, <3>2
      <4>. QED
        BY <1>1, <1>5, <4>1 DEF Inv, Drawn, Whole
    <3>. QED
      BY <3>1, <3>2
  <2>2. Truth' = Truth
    BY DEF Truth
  <2>. QED
    BY <1>1, <2>1, <2>2 DEF Inv, Drawn
<1>13. Replacing'
  <2>1. \A p \in agents : p.id \in Nat /\ p.id <= requests
    BY DEF Inv, TypeOK, Replacing, Pools
  <2>2. pool \notin agents /\ \A p \in agents' : p.id <= requests'
    BY <1>1, <1>2, <1>3, <2>1
  <2>3. Generating(c)' /\ call'[c] = new
    BY <1>4, <1>6 DEF Generating
  <2>4. \A d \in Clients \ {c} : Generating(d)' <=> Generating(d)
    BY <1>5, <1>6 DEF Generating
  <2>5. ~Generating(c)
    BY <1>1 DEF Generating
  <2>6. ~new.overlapped => \A d \in Clients \ {c} : ~Generating(d)'
    BY <1>4, <2>4
  <2>7. /\ call'[c].pool.seed \in Seeds /\ call'[c].pool.id <= requests'
        /\ ~call'[c].overlapped =>
             /\ call'[c].pool \notin agents'
             /\ call'[c].pc = "create" => agents' \subseteq call'[c].doomed
             /\ \A d \in Clients \ {c} : ~Generating(d)'
    BY <1>1, <1>2, <1>3, <1>4, <2>2, <2>3, <2>6
  <2>8. ASSUME NEW d \in Clients \ {c}, Generating(d)'
        PROVE  /\ call'[d].pool.seed \in Seeds /\ call'[d].pool.id <= requests'
               /\ call'[d].overlapped
    <3>1. Generating(d) /\ call'[d] = kept(d)
      BY <1>6, <2>4, <2>8
    <3>2. call[d].pool.id \in Nat
      BY DEF Inv, TypeOK, Calls, Pools
    <3>3. call[d].pool.seed \in Seeds /\ call[d].pool.id <= requests
      BY <3>1 DEF Inv, Replacing
    <3>4. kept(d).pool = call[d].pool /\ kept(d).overlapped = TRUE
      BY <1>5, <3>1
    <3>. QED
      BY <1>2, <3>1, <3>2, <3>3, <3>4
  <2> HIDE DEF pool, others
  <2>. QED
    BY <2>2, <2>7, <2>8 DEF Replacing
<1>. QED
  BY <1>7, <1>8, <1>9, <1>10, <1>11, <1>12, <1>13 DEF Inv

\* Agents that are replaced take what they did with them; the script's own are
\* never put back.
LEMMA CommitAgentsKeeps ==
  ASSUME Inv, NEW c \in Clients, CommitAgents(c)
  PROVE  Inv'
<1> DEFINE pool == call[c].pool
           doomed == call[c].doomed
<1>1. /\ call[c].pc = "create" /\ Answer(c)
      /\ UNCHANGED <<exists, status, snapshots, curve, sim, requests, early, amended>>
      /\ IF Clashes(c) \/ ~exists
         THEN UNCHANGED <<agents, experiences>>
         ELSE /\ agents' = (agents \ doomed) \cup {pool}
              /\ experiences' = IF ScriptPool \in doomed THEN Nothing ELSE experiences
  BY DEF CommitAgents, At
<1>2. CASE Clashes(c) \/ ~exists
  BY <1>1, <1>2, AnswerKeeps DEF run
<1>3. CASE ~Clashes(c) /\ exists
  <2>1. /\ call[c] \in Calls /\ Generating(c) /\ pool \in Pools /\ pool.seed \in Seeds
        /\ pool.id <= requests
    BY <1>1 DEF Inv, TypeOK, Calls, Replacing, Generating
  <2>2. pool # ScriptPool
    BY <2>1 DEF ScriptPool
  <2>3. agents' = (agents \ doomed) \cup {pool}
        /\ experiences' = IF ScriptPool \in doomed THEN Nothing ELSE experiences
    BY <1>1, <1>3
  <2>4. \A d \in Clients : call'[d] = IF d = c THEN Idle ELSE call[d]
    BY <1>1 DEF Inv, TypeOK, Answer
  <2> HIDE DEF pool, doomed
  <2>5. ScriptPool \in agents' => ScriptPool \in agents /\ experiences' = experiences
    BY <2>2, <2>3
  <2>6. experiences' \in {Nothing, experiences}
    BY <2>3
  <2>7. TypeOK'
    <3>1. call' \in [Clients -> Calls]
      BY <1>1, IdleIsCall DEF Inv, TypeOK, Answer
    <3>2. agents' \subseteq Pools
      BY <2>1, <2>3 DEF Inv, TypeOK
    <3>3. /\ DOMAIN experiences' \subseteq Steps
          /\ \A s \in DOMAIN experiences' : experiences'[s] \in [SimAgents -> Actions]
      BY <2>6, NothingIsEmpty DEF Inv, TypeOK
    <3>. QED
      BY <1>1, <3>1, <3>2, <3>3 DEF Inv, TypeOK
  <2>8. Tables'
    BY <1>1, <2>6, NothingIsEmpty DEF Inv, Tables
  <2>9. Gone'
    <3>1. ScriptPool \notin agents' => experiences' = Nothing
      BY <2>3 DEF Inv, Gone
    <3>. QED
      BY <1>1, <1>3, <3>1 DEF Gone
  <2>10. StepsDone'
    BY <1>1, <2>5 DEF Inv, StepsDone
  <2>11. Positioned'
    <3>1. \A a \in SimAgents : Turns(experiences', a)
      BY <2>6, NothingIsEmpty DEF Inv, Positioned
    <3>. QED
      BY <1>1, <2>5, <3>1 DEF Inv, Positioned
  <2>12. Drawn'
    <3>1. ASSUME NEW d \in Clients PROVE Whole(exists, early, snapshots, agents, call[d])'
      BY <1>1, <2>4, <2>5 DEF Inv, Drawn, Whole, Idle
    <3>2. Truth' = Truth
      BY DEF Truth
    <3>. QED
      BY <1>1, <2>5, <3>1, <3>2 DEF Inv, Drawn
  <2>13. Replacing'
    <3>1. \A p \in agents' : p.id <= requests'
      BY <1>1, <2>1, <2>3 DEF Inv, Replacing
    <3>2. ASSUME NEW d \in Clients, Generating(d)'
          PROVE  d # c /\ call'[d] = call[d] /\ Generating(d) /\ call[d].overlapped
      <4>1. d # c /\ call'[d] = call[d] /\ Generating(d)
        BY <2>4, <3>2 DEF Generating, Idle
      <4>. QED
        BY <2>1, <4>1 DEF Inv, Replacing
    <3>. QED
      BY <1>1, <3>1, <3>2 DEF Inv, Replacing
  <2>. QED
    BY <2>7, <2>8, <2>9, <2>10, <2>11, <2>12, <2>13 DEF Inv
<1>. QED
  BY <1>2, <1>3

LEMMA DeleteRunKeeps ==
  ASSUME Inv, DeleteRun
  PROVE  Inv'
<1>1. /\ requests < MaxRequests /\ requests' = requests + 1 /\ exists' = FALSE
      /\ agents' = {} /\ experiences' = Nothing /\ snapshots' = {} /\ curve' = Nothing
      /\ UNCHANGED <<status, sim, call, early, amended>>
  BY DEF DeleteRun
<1>2. TypeOK'
  <2>1. requests' \in 0 .. MaxRequests
    BY <1>1 DEF Inv, TypeOK
  <2>2. /\ DOMAIN experiences' = {} /\ DOMAIN curve' = {}
    BY <1>1, NothingIsEmpty
  <2>. QED
    BY <1>1, <2>1, <2>2 DEF Inv, TypeOK
<1>3. Tables'
  BY <1>1, NothingIsEmpty DEF Tables
<1>4. Gone'
  BY <1>1 DEF Gone
<1>5. StepsDone'
  BY <1>1 DEF StepsDone
<1>6. Positioned'
  BY <1>1, NothingIsEmpty DEF Positioned
<1>7. Drawn'
  BY <1>1 DEF Inv, Drawn, Whole
<1>8. Replacing'
  <2>1. \A c \in Clients : call[c].pool.id \in Nat
    BY DEF Inv, TypeOK, Calls, Pools
  <2>2. requests \in Nat
    BY DEF Inv, TypeOK
  <2>. QED
    BY <1>1, <2>1, <2>2 DEF Inv, Replacing, Generating
<1>. QED
  BY <1>2, <1>3, <1>4, <1>5, <1>6, <1>7, <1>8 DEF Inv

\* Whoever else writes the status does not pass for the script.
LEMMA StatusKeeps ==
  ASSUME Inv, status' \in Statuses, amended' \in BOOLEAN,
         status' = "COMPLETED" /\ ~amended' => status = "COMPLETED" /\ ~amended,
         UNCHANGED <<exists, agents, experiences, snapshots, curve, sim, Requests>>
  PROVE  Inv'
<1> USE DEF Requests
<1>1. TypeOK'
  BY DEF Inv, TypeOK
<1>2. Tables' /\ Gone' /\ Positioned'
  BY DEF Inv, Tables, Gone, Positioned
<1>3. StepsDone'
  BY DEF Inv, StepsDone
<1>4. Truth' = Truth
  BY DEF Truth
<1>5. Drawn' /\ Replacing'
  BY <1>4 DEF Inv, Drawn, Whole, Replacing, Generating
<1>. QED
  BY <1>1, <1>2, <1>3, <1>5 DEF Inv

LEMMA OthersKeep ==
  ASSUME Inv, PatchCompleted \/ PatchFailed \/ Retry \/ Backtest
  PROVE  Inv'
<1>0. status \in Statuses /\ amended \in BOOLEAN
  BY DEF Inv, TypeOK
<1> USE <1>0, StatusKeeps DEF Statuses, InFlight
<1>1. CASE PatchCompleted
  BY <1>1 DEF PatchCompleted
<1>2. CASE PatchFailed
  BY <1>2 DEF PatchFailed, AfterFailed
<1>3. CASE Retry
  BY <1>3 DEF Retry, AfterRetry
<1>4. CASE Backtest
  <2>1. UNCHANGED <<exists, agents, experiences, snapshots, curve, sim, Requests>>
    BY <1>4 DEF Backtest
  <2>2. status' \in Statuses /\ amended' \in BOOLEAN
    BY <1>4 DEF Backtest, AfterRunning, AfterFailed, AfterCompleted
  <2>3. status' = "COMPLETED" /\ ~amended' => status = "COMPLETED" /\ ~amended
    <3>1. CASE status' \in {AfterRunning(status), AfterFailed(status)} /\ UNCHANGED amended
      BY <3>1 DEF AfterRunning, AfterFailed
    <3>2. CASE status' = AfterCompleted(status) /\ amended' = (amended \/ status \in InFlight)
      <4>1. CASE status \in InFlight
        BY <3>2, <4>1
      <4>2. CASE status \notin InFlight
        BY <3>2, <4>2 DEF AfterCompleted
      <4>. QED
        BY <4>1, <4>2
    <3>. QED
      BY <1>4, <3>1, <3>2 DEF Backtest
  <2>. QED
    BY <2>1, <2>2, <2>3, StatusKeeps
<1>. QED
  BY <1>1, <1>2, <1>3, <1>4

-----------------------------------------------------------------------------
LEMMA NextInv == Inv /\ [Next]_vars => Inv'
<1> SUFFICES ASSUME Inv, [Next]_vars PROVE Inv'
  OBVIOUS
<1>1. CASE UNCHANGED vars
  <2> USE <1>1 DEF vars, run
  <2>1. TypeOK' /\ Tables' /\ Gone' /\ StepsDone'
    BY DEF Inv, TypeOK, Tables, Gone, StepsDone
  <2>2. Positioned'
    BY DEF Inv, Positioned
  <2>3. Truth' = Truth
    BY DEF Truth
  <2>4. Drawn' /\ Replacing'
    BY <2>3 DEF Inv, Drawn, Whole, Replacing, Generating
  <2>. QED
    BY <2>1, <2>2, <2>4 DEF Inv
<1>2. CASE Simulate
  BY <1>2, SimulateKeeps
<1>3. CASE DeleteRun
  BY <1>3, DeleteRunKeeps
<1>4. ASSUME NEW c \in Clients, RequestCurve(c) \/ CountSnapshots(c) \/ SumExperiences(c)
      PROVE  Inv'
  BY <1>4, CurveRequestKeeps
<1>5. ASSUME NEW c \in Clients, CreateCurve(c) PROVE Inv'
  BY <1>5, CreateCurveKeeps
<1>6. ASSUME NEW c \in Clients, NEW seed \in Seeds, NEW w \in BOOLEAN, RequestGenerate(c, seed, w)
      PROVE  Inv'
  BY <1>6, RequestGenerateKeeps
<1>7. ASSUME NEW c \in Clients, DeleteAgents(c) PROVE Inv'
  BY <1>7, DeleteAgentsKeeps
<1>8. ASSUME NEW c \in Clients, CommitAgents(c) PROVE Inv'
  BY <1>8, CommitAgentsKeeps
<1>9. ASSUME NEW c \in Clients, Abort(c) PROVE Inv'
  BY <1>9, AnswerKeeps DEF Abort
<1>10. CASE PatchCompleted \/ PatchFailed \/ Retry \/ Backtest
  BY <1>10, OthersKeep
<1>. QED
  BY <1>1, <1>2, <1>3, <1>4, <1>5, <1>6, <1>7, <1>8, <1>9, <1>10 DEF Next

LEMMA InvAlways == Spec => []Inv
BY InitInv, NextInv, PTL DEF Spec

\* Run, script and requests keep their types; in particular no curve is begun
\* over no steps.
THEOREM TypeCorrect == Spec => []TypeOK
<1>1. Inv => TypeOK
  BY DEF Inv
<1>. QED
  BY <1>1, InvAlways, PTL

\* A simulation that the script, and not a PATCH or a backtest, has made
\* COMPLETED, or whose script has ended well whatever others wrote, has a
\* snapshot of every step and, while its agents are there, what they did in
\* every step (sim-run.ts).
THEOREM SimulatedIsWhole == Spec => []SimulatedHasEveryStep
<1>1. Inv => SimulatedHasEveryStep
  BY DEF Inv, StepsDone, SimulatedHasEveryStep
<1>. QED
  BY <1>1, InvAlways, PTL

\* Whatever the thresholds say, agents buy and sell by turns and hold at most
\* MaxHoldSteps.
THEOREM TradesAlternate == Spec => []TradesTakeTurns
<1>1. Inv => TradesTakeTurns
  BY DEF Inv, Positioned, TradesTakeTurns, Turns, Trades, TradesIn
<1>. QED
  BY <1>1, InvAlways, PTL

\* A curve that nobody began before the last snapshot is all or nothing, and
\* sums up every step, whoever writes it and however writers overlap.
THEOREM CurveAllOrNothing == Spec => []CurveIsWhole
<1>1. Inv => CurveIsWhole
  BY DEF Inv, Drawn, Gone, CurveIsWhole
<1>. QED
  BY <1>1, InvAlways, PTL

\* A generation of agents leaves its own pool and nothing else, unless two
\* overlap or the script creates its own meanwhile.
THEOREM PoolReplacesEverything == Spec => PoolReplacesAll
<1>1. ASSUME Inv, [Next]_vars, agents' # agents, NEW c \in Clients, At(c, "create"),
             call[c].pool \in agents', ~call[c].overlapped
      PROVE  agents' = {call[c].pool}
  <2>1. /\ Generating(c) /\ call[c].pool.seed \in Seeds /\ call[c].pool \notin agents
        /\ agents \subseteq call[c].doomed /\ \A d \in Clients \ {c} : ~Generating(d)
    BY <1>1 DEF At, Generating, Inv, Replacing
  <2>2. CASE Simulate
    <3>1. agents' \in {agents, agents \cup {ScriptPool}}
      BY <2>2 DEF Simulate, CreateAgents, InsertExperiences, InsertSnapshot, Complete, WriteDebug,
         SumPnl, WriteCurve, Kill, run
    <3>2. call[c].pool # ScriptPool
      BY <2>1 DEF ScriptPool
    <3>. QED
      BY <1>1, <2>1, <3>1, <3>2
  <2>3. CASE DeleteRun
    BY <1>1, <2>3 DEF DeleteRun
  <2>4. ASSUME NEW d \in Clients, CommitAgents(d) PROVE agents' = {call[c].pool}
    <3>1. d = c
      BY <2>1, <2>4 DEF CommitAgents, At, Generating
    <3>2. agents' = (agents \ call[c].doomed) \cup {call[c].pool}
      BY <1>1, <2>4, <3>1 DEF CommitAgents
    <3>. QED
      BY <2>1, <3>2
  <2>5. ~Simulate /\ ~DeleteRun => \E d \in Clients : CommitAgents(d)
    BY <1>1 DEF Next, vars, run, RequestCurve, CountSnapshots, SumExperiences, CreateCurve,
       RequestGenerate, DeleteAgents, Abort, PatchCompleted, PatchFailed, Retry, Backtest
  <2>. QED
    BY <2>2, <2>3, <2>4, <2>5
<1>2. Inv /\ [Next]_vars => [\A c \in Clients :
         At(c, "create") /\ call[c].pool \in agents' /\ ~call[c].overlapped
         => agents' = {call[c].pool}]_agents
  BY <1>1
<1>. QED
  BY <1>2, InvAlways, PTL DEF Spec, PoolReplacesAll
=============================================================================
