------------------------- MODULE BetLedger_proofs -------------------------
(***************************************************************************)
(* Proofs about BetLedger, for any number of clients, requests, runs and   *)
(* amounts.  Exposures and the money moved are folds; they are reasoned    *)
(* about as sums over finite sets.                                         *)
(***************************************************************************)
EXTENDS BetLedger, FiniteSetTheorems, WellFoundedInduction, TLAPS

-----------------------------------------------------------------------------
(* The invariant.                                                          *)

Placing == {"limits", "funds", "open", "openFirst"}

\* Every bet, and every one still being placed, has taken a request.
Counted == Len(bets) + Cardinality({c \in Clients : call[c].pc \in Placing}) <= requests

\* Nothing is written for a user without a wallet; only a reset opens one
\* without a ledger row.
Walleted ==
    /\ balance = NoWallet => ledger = <<>> /\ bets = <<>>
    /\ balance # NoWallet /\ ~wasReset => ledger # <<>>

\* The rows of bets: each bet has one debit, of its amount, ...
Staked == \A b \in DOMAIN bets : \E n \in DOMAIN ledger :
    /\ ledger[n] = Entry("BET_DEBIT", - bets[b].amount, b)
    /\ \A m \in DOMAIN ledger : ledger[m].type = "BET_DEBIT" /\ ledger[m].bet = b => m = n
\* ... debits are of bets, and credits of bets that are settled.
Listed == \A n \in DOMAIN ledger :
    /\ ledger[n].type \in {"BET_DEBIT", "BET_CREDIT"} => ledger[n].bet \in DOMAIN bets
    /\ ledger[n].type = "BET_CREDIT" => bets[ledger[n].bet].status = "SETTLED"

\* What a request has read and nothing can undo.
Stands(k) ==
    /\ k.pc \in {"open", "seed"} => balance # NoWallet
    /\ k.pc = "settle" => k.open \cup k.settled # {} /\ k.open \cup k.settled \subseteq DOMAIN bets

\* What it has read and only others could undo.
Current(k) ==
    /\ k.pc \in {"funds", "open", "openFirst"} =>
         /\ Cardinality(OpenBets(k.run)) < MaxOpenBets
         /\ Exposure(k.run) + k.amount <= MaxOpenExposure
    /\ k.pc = "open" => balance >= k.amount
    /\ k.pc = "openFirst" => balance = NoWallet /\ InitialBalance >= k.amount
    /\ k.pc \in {"readWallet", "seed"} => Seeds = {}
    /\ k.pc = "settle" => \A b \in k.open : bets[b].status = "OPEN"

\* Each bet is credited once, and there is one SEED.
Single == \A m, n \in DOMAIN ledger :
    (/\ ledger[m].type = ledger[n].type
     /\ ledger[m].type = "SEED" \/ (ledger[m].type = "BET_CREDIT" /\ ledger[m].bet = ledger[n].bet))
    => m = n

Alone(c) == \A d \in Clients : d # c => call[d] = Idle

Undisturbed ==
    /\ Single
    /\ \A c \in Clients : call[c] # Idle => Alone(c) /\ Current(call[c])

Inv ==
    /\ TypeOK /\ Counted /\ Walleted /\ MoneyConserved /\ Staked /\ Listed
    /\ \A c \in Clients : Stands(call[c])
    /\ ~overlapped => Undisturbed

-----------------------------------------------------------------------------
(* Sums over finite sets.                                                  *)

\* Of finite sets, one has the fewest elements.
LEMMA FewestExists ==
  ASSUME NEW C, C # {}, \A T \in C : IsFiniteSet(T)
  PROVE  \E T \in C : \A U \in C : Cardinality(T) <= Cardinality(U)
<1> DEFINE N == {Cardinality(T) : T \in C}
           R == OpToRel(<, Nat)
<1>1. N \subseteq Nat /\ N # {}
  BY FS_CardinalityType
<1>2. PICK m \in N : \A k \in N : <<k, m>> \notin R
  <2>1. IsWellFoundedOn(R, Nat)
    BY NatLessThanWellFounded
  <2> HIDE DEF N, R
  <2>. QED
    BY <1>1, <2>1, WFMin
<1>3. \A k \in N : ~(k < m)
  BY <1>1, <1>2 DEF OpToRel
<1>4. PICK T \in C : Cardinality(T) = m
  OBVIOUS
<1>5. \A U \in C : Cardinality(U) \in Nat /\ m \in Nat /\ ~(Cardinality(U) < m)
  BY <1>1, <1>3
<1>. QED
  BY <1>4, <1>5

\* g adds up f over every subset of S, in whichever order.
Adds(f, S, g) ==
    /\ g = [s \in SUBSET S |-> g[s]]
    /\ \A s \in SUBSET S : g[s] \in Int
    /\ g[{}] = 0
    /\ \A s \in SUBSET S : \A x \in s : g[s] = g[s \ {x}] + f[x]

LEMMA AddsExists ==
  ASSUME NEW S, IsFiniteSet(S), NEW f, \A x \in S : f[x] \in Int
  PROVE  \E g : Adds(f, S, g)
<1> DEFINE C == {T \in SUBSET S : ~\E g : Adds(f, T, g)}
<1> SUFFICES ASSUME C # {} PROVE FALSE
  OBVIOUS
<1>1. \A T \in C : IsFiniteSet(T)
  BY FS_Subset
<1>2. PICK T \in C : \A U \in C : Cardinality(T) <= Cardinality(U)
  <2> HIDE DEF C
  <2>. QED
    BY <1>1, FewestExists
<1>3. T # {}
  <2> SUFFICES ASSUME T = {} PROVE FALSE
    OBVIOUS
  <2> DEFINE g == [s \in SUBSET T |-> 0]
  <2>1. Adds(f, T, g)
    BY DEF Adds
  <2>. QED
    BY <2>1
<1>4. PICK x \in T : TRUE
  BY <1>3
<1>5. IsFiniteSet(T) /\ Cardinality(T) \in Nat /\ Cardinality(T \ {x}) = Cardinality(T) - 1
  BY <1>1, FS_RemoveElement, FS_CardinalityType
<1>6. T \ {x} \notin C
  <2>1. Cardinality(T \ {x}) < Cardinality(T)
    BY <1>5
  <2>2. Cardinality(T \ {x}) \in Int
    BY <1>5
  <2> HIDE DEF C
  <2>. QED
    BY <1>2, <1>5, <2>1, <2>2
<1>7. PICK h : Adds(f, T \ {x}, h)
  BY <1>6
<1> DEFINE g == [s \in SUBSET T |-> IF x \in s THEN h[s \ {x}] + f[x] ELSE h[s]]
<1>8. \A s \in SUBSET T : s \ {x} \in SUBSET (T \ {x}) /\ (x \notin s => s \in SUBSET (T \ {x}))
  OBVIOUS
<1>9. \A s \in SUBSET (T \ {x}) : h[s] \in Int
  BY <1>7 DEF Adds
<1>10. f[x] \in Int
  OBVIOUS
<1>11. \A s \in SUBSET T : g[s] \in Int
  BY <1>8, <1>9, <1>10
<1>12. ASSUME NEW s \in SUBSET T, NEW y \in s
       PROVE  g[s] = g[s \ {y}] + f[y]
  <2>1. g[s \ {y}] = IF x \in s \ {y} THEN h[(s \ {y}) \ {x}] + f[x] ELSE h[s \ {y}]
    OBVIOUS
  <2>2. g[s] = IF x \in s THEN h[s \ {x}] + f[x] ELSE h[s]
    OBVIOUS
  <2> HIDE DEF g
  <2>3. CASE y = x
    BY <2>1, <2>2, <2>3
  <2>4. CASE y # x /\ x \in s
    <3>1. h[s \ {x}] = h[(s \ {x}) \ {y}] + f[y]
      BY <1>7, <1>8, <2>4 DEF Adds
    <3>2. (s \ {x}) \ {y} = (s \ {y}) \ {x}
      OBVIOUS
    <3>3. h[(s \ {y}) \ {x}] \in Int /\ f[y] \in Int
      BY <1>8, <1>9
    <3>4. g[s] = (h[(s \ {y}) \ {x}] + f[y]) + f[x] /\ g[s \ {y}] = h[(s \ {y}) \ {x}] + f[x]
      BY <2>1, <2>2, <2>4, <3>1, <3>2
    <3>. QED
      BY <3>3, <3>4, <1>10
  <2>5. CASE x \notin s
    <3>1. h[s] = h[s \ {y}] + f[y]
      BY <1>7, <1>8, <2>5 DEF Adds
    <3>. QED
      BY <2>1, <2>2, <2>5, <3>1
  <2>. QED
    BY <2>3, <2>4, <2>5
<1>13. g[{}] = 0
  BY <1>7 DEF Adds
<1>14. Adds(f, T, g)
  <2>1. g = [s \in SUBSET T |-> g[s]]
    OBVIOUS
  <2> HIDE DEF g
  <2>. QED
    BY <2>1, <1>11, <1>12, <1>13 DEF Adds
<1>. QED
  BY <1>2, <1>14

\* Adding up in some order is enough.
AddsInTurn(f, S, h) ==
    h[{}] = 0 /\ \A s \in SUBSET S : s # {} => \E x \in s : h[s] = h[s \ {x}] + f[x]
LEMMA AddsIs ==
  ASSUME NEW S, IsFiniteSet(S), NEW f, NEW g, Adds(f, S, g), NEW T \in SUBSET S,
         NEW h, AddsInTurn(f, T, h)
  PROVE  h[T] = g[T]
<1> DEFINE C == {s \in SUBSET T : h[s] # g[s]}
<1> SUFFICES ASSUME C # {} PROVE FALSE
  OBVIOUS
<1>1. \A s \in C : IsFiniteSet(s)
  BY FS_Subset
<1>2. PICK s \in C : \A u \in C : Cardinality(s) <= Cardinality(u)
  <2> HIDE DEF C
  <2>. QED
    BY <1>1, FewestExists
<1>3. s # {} /\ s \in SUBSET T
  BY DEF Adds, AddsInTurn
<1>4. PICK x \in s : h[s] = h[s \ {x}] + f[x]
  BY <1>3 DEF AddsInTurn
<1>5. IsFiniteSet(s) /\ Cardinality(s) \in Nat /\ Cardinality(s \ {x}) = Cardinality(s) - 1
  BY <1>1, FS_RemoveElement, FS_CardinalityType
<1>6. s \ {x} \notin C
  <2>1. ~(Cardinality(s) <= Cardinality(s \ {x}))
    BY <1>5
  <2> HIDE DEF C
  <2>. QED
    BY <1>2, <2>1
<1>7. h[s \ {x}] = g[s \ {x}]
  BY <1>3, <1>6
<1>8. g[s] = g[s \ {x}] + f[x]
  BY <1>3 DEF Adds
<1>. QED
  BY <1>4, <1>7, <1>8

SumOf(f, S) == (CHOOSE g : Adds(f, S, g))[S]

LEMMA SumIs ==
  ASSUME NEW S, IsFiniteSet(S), NEW f, NEW g, Adds(f, S, g), NEW T \in SUBSET S
  PROVE  SumOf(f, T) = g[T]
<1> DEFINE h == CHOOSE k : Adds(f, T, k)
<1>1. Adds(f, T, [s \in SUBSET T |-> g[s]])
  BY DEF Adds
<1>2. Adds(f, T, h)
  <2> DEFINE P(k) == Adds(f, T, k)
  <2>1. \E k : P(k)
    BY <1>1
  <2> HIDE DEF P
  <2>2. P(CHOOSE k : P(k))
    BY <2>1
  <2>. QED
    BY <2>2 DEF P
<1> HIDE DEF h
<1>3. AddsInTurn(f, T, h)
  BY <1>2 DEF Adds, AddsInTurn
<1>4. h[T] = g[T]
  BY <1>3, AddsIs
<1>. QED
  BY <1>4 DEF SumOf, h

\* The sum over a finite set of integers, one by one.
LEMMA SumAdds ==
  ASSUME NEW S, IsFiniteSet(S), NEW f, \A x \in S : f[x] \in Int
  PROVE  /\ SumOf(f, S) \in Int /\ SumOf(f, {}) = 0
         /\ \A x \in S : SumOf(f, S) = SumOf(f, S \ {x}) + f[x]
<1>1. PICK g : Adds(f, S, g)
  BY AddsExists
<1>2. \A T \in SUBSET S : SumOf(f, T) = g[T]
  BY <1>1, SumIs
<1>3. S \in SUBSET S /\ {} \in SUBSET S /\ \A x \in S : S \ {x} \in SUBSET S
  OBVIOUS
<1>. QED
  BY <1>1, <1>2, <1>3 DEF Adds

LEMMA SumInsert ==
  ASSUME NEW S, IsFiniteSet(S), NEW x, x \notin S, NEW f, \A y \in S \cup {x} : f[y] \in Int
  PROVE  SumOf(f, S \cup {x}) = SumOf(f, S) + f[x] /\ SumOf(f, S) \in Int
<1>1. IsFiniteSet(S \cup {x}) /\ (S \cup {x}) \ {x} = S /\ x \in S \cup {x}
  BY FS_AddElement
<1>. QED
  BY <1>1, SumAdds

LEMMA SumSame ==
  ASSUME NEW S, IsFiniteSet(S), NEW f, NEW g, \A x \in S : f[x] \in Int /\ g[x] = f[x]
  PROVE  SumOf(g, S) = SumOf(f, S)
<1>1. PICK k : Adds(f, S, k)
  BY AddsExists
<1>2. Adds(g, S, k)
  BY <1>1 DEF Adds
<1>. QED
  BY <1>1, <1>2, SumIs

\* A sum is that of its two parts ...
LEMMA SumUnion ==
  ASSUME NEW S, NEW T, IsFiniteSet(S), IsFiniteSet(T), S \cap T = {},
         NEW f, \A x \in S \cup T : f[x] \in Int
  PROVE  SumOf(f, S \cup T) = SumOf(f, S) + SumOf(f, T)
<1> DEFINE U == S \cup T
<1>1. IsFiniteSet(U)
  BY FS_Union
<1>2. PICK k : Adds(f, U, k)
  BY <1>1, AddsExists
<1> DEFINE h == [s \in SUBSET T |-> k[S \cup s] - k[S]]
<1>3. \A s \in SUBSET T : k[S \cup s] \in Int /\ k[S] \in Int
  BY <1>2 DEF Adds
<1>4. ASSUME NEW s \in SUBSET T, NEW x \in s
      PROVE  h[s] = h[s \ {x}] + f[x]
  <2>1. k[S \cup s] = k[(S \cup s) \ {x}] + f[x]
    BY <1>2 DEF Adds
  <2>2. (S \cup s) \ {x} = S \cup (s \ {x})
    OBVIOUS
  <2>3. k[S \cup s] = k[S \cup (s \ {x})] + f[x]
    BY <2>1, <2>2
  <2>4. h[s] = k[S \cup s] - k[S] /\ h[s \ {x}] = k[S \cup (s \ {x})] - k[S]
    OBVIOUS
  <2>5. k[S \cup (s \ {x})] \in Int /\ k[S] \in Int /\ f[x] \in Int
    BY <1>3
  <2> HIDE DEF h
  <2>. QED
    BY <2>3, <2>4, <2>5
<1>5. Adds(f, T, h)
  <2>1. h = [s \in SUBSET T |-> h[s]]
    OBVIOUS
  <2>2. ASSUME NEW s \in SUBSET T PROVE h[s] \in Int
    <3>1. h[s] = k[S \cup s] - k[S]
      OBVIOUS
    <3> HIDE DEF h
    <3>2. k[S \cup s] \in Int /\ k[S] \in Int
      BY <1>3
    <3>. QED
      BY <3>1, <3>2
  <2>3. h[{}] = 0
    <3>1. h[{}] = k[S] - k[S] /\ k[S] \in Int
      BY <1>3
    <3>. QED
      BY <3>1
  <2> HIDE DEF h
  <2>. QED
    BY <2>1, <2>2, <2>3, <1>4 DEF Adds
<1>6. SumOf(f, T) = k[S \cup T] - k[S]
  BY <1>5, SumIs
<1>7. SumOf(f, S) = k[S] /\ SumOf(f, U) = k[U]
  BY <1>1, <1>2, SumIs
<1>8. k[S \cup T] \in Int /\ k[S] \in Int
  BY <1>3
<1> HIDE DEF h
<1>. QED
  BY <1>6, <1>7, <1>8

\* ... and does not depend on how its elements are named.
LEMMA SumRenamed ==
  ASSUME NEW S, IsFiniteSet(S), NEW h, \A x, y \in S : h[x] = h[y] => x = y,
         NEW f, NEW g, \A x \in S : f[h[x]] \in Int /\ g[x] = f[h[x]]
  PROVE  SumOf(g, S) = SumOf(f, {h[x] : x \in S})
<1> DEFINE Image(s) == {h[x] : x \in s}
           T == Image(S)
<1>1. IsFiniteSet(T)
  <2>1. [x \in S |-> h[x]] \in Surjection(S, T)
    BY DEF Surjection
  <2>. QED
    BY <2>1, FS_Surjection
<1>2. PICK k : Adds(f, T, k)
  <2>1. \A y \in T : f[y] \in Int
    OBVIOUS
  <2> HIDE DEF T
  <2>. QED
    BY <1>1, <2>1, AddsExists
<1> DEFINE l == [s \in SUBSET S |-> k[Image(s)]]
<1>3. \A s \in SUBSET S : Image(s) \in SUBSET T
  OBVIOUS
<1>4. ASSUME NEW s \in SUBSET S, NEW x \in s
      PROVE  l[s] = l[s \ {x}] + g[x]
  <2>1. Image(s \ {x}) = Image(s) \ {h[x]}
    OBVIOUS
  <2>2. h[x] \in Image(s) /\ Image(s) \in SUBSET T
    OBVIOUS
  <2>3. l[s] = k[Image(s)] /\ l[s \ {x}] = k[Image(s \ {x})]
    OBVIOUS
  <2> HIDE DEF l, Image, T
  <2>4. k[Image(s)] = k[Image(s) \ {h[x]}] + f[h[x]]
    BY <1>2, <2>2 DEF Adds
  <2>. QED
    BY <2>1, <2>3, <2>4
<1>5. Adds(g, S, l)
  <2>1. l = [s \in SUBSET S |-> l[s]]
    OBVIOUS
  <2>2. \A s \in SUBSET S : l[s] \in Int
    <3> HIDE DEF Image, T
    <3>. QED
      BY <1>2, <1>3 DEF Adds
  <2>3. l[{}] = 0
    <3>1. Image({}) = {}
      OBVIOUS
    <3>2. l[{}] = k[Image({})]
      OBVIOUS
    <3>. QED
      BY <1>2, <3>1, <3>2 DEF Adds
  <2> HIDE DEF l
  <2>. QED
    BY <2>1, <2>2, <2>3, <1>4 DEF Adds
<1>6. SumOf(g, S) = l[S]
  <2> HIDE DEF l
  <2>. QED
    BY <1>5, SumIs
<1>7. SumOf(f, T) = k[T]
  <2> HIDE DEF T
  <2>. QED
    BY <1>1, <1>2, SumIs
<1>. QED
  BY <1>6, <1>7

-----------------------------------------------------------------------------
(* The folds of the model are such sums.                                   *)

LEMMA TotalIs ==
  ASSUME NEW B, IsFiniteSet(B), NEW f, \A b \in B : f[b] \in Int
  PROVE  Total(f, B) = SumOf(f, B)
<1> DEFINE P(it) == it = [s \in SUBSET B |-> IF s = {} THEN 0
                       ELSE it[s \ {CHOOSE x \in s : TRUE}] + f[CHOOSE x \in s : TRUE]]
           it == CHOOSE h : P(h)
<1>2. PICK k : Adds(f, B, k)
  BY AddsExists
<1>3. \A s \in SUBSET B : s # {} => (CHOOSE x \in s : TRUE) \in s
  OBVIOUS
<1>4. P(k)
  <2>1. ASSUME NEW s \in SUBSET B
        PROVE  k[s] = IF s = {} THEN 0
                      ELSE k[s \ {CHOOSE x \in s : TRUE}] + f[CHOOSE x \in s : TRUE]
    <3>1. CASE s = {}
      BY <3>1, <1>2 DEF Adds
    <3>2. CASE s # {}
      <4>1. PICK x \in s : x = CHOOSE y \in s : TRUE
        BY <1>3, <3>2
      <4>2. k[s] = k[s \ {x}] + f[x]
        BY <1>2 DEF Adds
      <4>. QED
        BY <3>2, <4>1, <4>2
    <3>. QED
      BY <3>1, <3>2
  <2>2. k = [s \in SUBSET B |-> k[s]]
    BY <1>2 DEF Adds
  <2>. QED
    BY <2>1, <2>2
<1>5. P(it)
  <2> HIDE DEF P
  <2>. QED
    BY <1>4
<1>6. Total(f, B) = it[B]
  BY DEF Total, FoldSet, MapThenFoldSet
<1> HIDE DEF it
<1>7. AddsInTurn(f, B, it)
  <2>1. it[{}] = 0
    BY <1>5
  <2>2. ASSUME NEW s \in SUBSET B, s # {}
        PROVE  \E x \in s : it[s] = it[s \ {x}] + f[x]
    <3>1. PICK x \in s : x = CHOOSE y \in s : TRUE
      BY <1>3, <2>2
    <3>2. it[s] = it[s \ {x}] + f[x]
      BY <1>5, <2>2, <3>1
    <3>. QED
      BY <3>2
  <2>. QED
    BY <2>1, <2>2 DEF AddsInTurn
<1>8. it[B] = k[B] /\ SumOf(f, B) = k[B]
  BY <1>2, <1>7, AddsIs, SumIs
<1>. QED
  BY <1>6, <1>8

LEMMA LatestExists ==
  ASSUME NEW n \in Nat, NEW S \in SUBSET (0 .. n), S # {}
  PROVE  Max(S) \in S /\ \A i \in S : i <= Max(S)
<1> DEFINE T == {k \in Nat : n - k \in S}
           R == OpToRel(<, Nat)
<1>1. PICK i \in S : TRUE
  OBVIOUS
<1>2. n - i \in T
  <2>1. n - i \in Nat /\ n - (n - i) = i
    OBVIOUS
  <2>. QED
    BY <2>1
<1>3. PICK m \in T : \A k \in T : <<k, m>> \notin R
  <2>1. T \subseteq Nat /\ T # {}
    BY <1>2
  <2>2. IsWellFoundedOn(R, Nat)
    BY NatLessThanWellFounded
  <2> HIDE DEF T, R
  <2>. QED
    BY <2>1, <2>2, WFMin
<1>4. \A k \in T : ~(k < m)
  BY <1>3 DEF OpToRel
<1>5. ASSUME NEW j \in S PROVE n - m >= j
  <2>1. n - j \in Nat /\ n - (n - j) = j
    OBVIOUS
  <2>2. n - j \in T
    BY <2>1
  <2>3. ~(n - j < m) /\ m \in Nat /\ j \in Nat
    BY <1>4, <2>2
  <2>. QED
    BY <2>3
<1>. QED
  BY <1>3, <1>5 DEF Max

LEMMA MovedIs ==
  ASSUME NEW n \in Nat, NEW l, DOMAIN l = 1 .. n, \A i \in 1 .. n : Movement(l[i]) \in Int
  PROVE  Moved(l) = SumOf([i \in 1 .. n |-> Movement(l[i])], 1 .. n)
<1> DEFINE B == 1 .. n
           f == [i \in B |-> Movement(l[i])]
           P(it) == it = [s \in SUBSET B |-> IF s = {} THEN 0
                              ELSE it[s \ {Max(s)}] + Movement(l[Max(s)])]
           it == CHOOSE h : P(h)
<1>0. IsFiniteSet(B)
  BY FS_Interval
<1>1. \A x \in B : f[x] \in Int /\ f[x] = Movement(l[x])
  OBVIOUS
<1> HIDE DEF f
<1>2. PICK k : Adds(f, B, k)
  BY <1>0, <1>1, AddsExists
<1>3. ASSUME NEW s \in SUBSET B, s # {} PROVE Max(s) \in s
  <2>1. s \in SUBSET (0 .. n)
    OBVIOUS
  <2>. QED
    BY <1>3, <2>1, LatestExists
<1> HIDE DEF B
<1>4. P(k)
  <2>1. ASSUME NEW s \in SUBSET B
        PROVE  k[s] = IF s = {} THEN 0 ELSE k[s \ {Max(s)}] + Movement(l[Max(s)])
    <3>1. CASE s = {}
      BY <3>1, <1>2 DEF Adds
    <3>2. CASE s # {}
      <4>1. PICK x \in s : x = Max(s)
        BY <1>3, <3>2
      <4>2. k[s] = k[s \ {x}] + Movement(l[x])
        BY <1>1, <1>2 DEF Adds
      <4>. QED
        BY <3>2, <4>1, <4>2
    <3>. QED
      BY <3>1, <3>2
  <2>2. k = [s \in SUBSET B |-> k[s]]
    BY <1>2 DEF Adds
  <2>. QED
    BY <2>1, <2>2
<1>5. P(it)
  <2> HIDE DEF P
  <2>. QED
    BY <1>4
<1>6. Moved(l) = it[B]
  BY DEF Moved, FoldLeft, MapThenFoldSet, B
<1> HIDE DEF it
<1>7. AddsInTurn(f, B, it)
  <2>1. it[{}] = 0
    BY <1>5
  <2>2. ASSUME NEW s \in SUBSET B, s # {}
        PROVE  \E x \in s : it[s] = it[s \ {x}] + f[x]
    <3>1. PICK x \in s : x = Max(s)
      BY <1>3, <2>2
    <3>2. it[s] = it[s \ {x}] + Movement(l[x])
      BY <1>5, <2>2, <3>1
    <3>. QED
      BY <3>2, <1>1
  <2>. QED
    BY <2>1, <2>2 DEF AddsInTurn
<1>8. it[B] = k[B] /\ SumOf(f, B) = k[B]
  BY <1>0, <1>2, <1>7, AddsIs, SumIs
<1>. QED
  BY <1>6, <1>8 DEF f, B

LEMMA TotalSame ==
  ASSUME NEW B, IsFiniteSet(B), NEW f, NEW g, \A b \in B : f[b] \in Int /\ g[b] = f[b]
  PROVE  Total(g, B) = Total(f, B) /\ Total(f, B) \in Int
BY TotalIs, SumSame, SumAdds

LEMMA TotalAdds ==
  ASSUME NEW B, IsFiniteSet(B), NEW x, x \notin B, NEW f, \A b \in B \cup {x} : f[b] \in Int
  PROVE  Total(f, B \cup {x}) = Total(f, B) + f[x]
<1>1. IsFiniteSet(B \cup {x})
  BY FS_AddElement
<1>. QED
  BY <1>1, TotalIs, SumInsert

LEMMA EntryMoves == \A e \in Entries : Movement(e) \in Int
BY DEF Entries, Movement

LEMMA NothingMoved == Moved(<<>>) = 0
<1>1. DOMAIN <<>> = 1 .. 0
  OBVIOUS
<1>2. Moved(<<>>) = SumOf([i \in 1 .. 0 |-> Movement(<<>>[i])], 1 .. 0)
  <2>1. PICK l : l = <<>>
    OBVIOUS
  <2>2. DOMAIN l = 1 .. 0 /\ \A i \in 1 .. 0 : Movement(l[i]) \in Int
    BY <2>1
  <2>3. 0 \in Nat
    OBVIOUS
  <2>4. Moved(l) = SumOf([i \in 1 .. 0 |-> Movement(l[i])], 1 .. 0)
    BY <2>2, <2>3, MovedIs
  <2>. QED
    BY <2>1, <2>4
<1>3. 1 .. 0 = {} /\ IsFiniteSet({})
  BY FS_EmptySet
<1>. QED
  BY <1>2, <1>3, SumAdds

LEMMA OneMoved ==
  ASSUME NEW e \in Entries
  PROVE  Moved(<<e>>) = Movement(e)
<1> DEFINE f == [i \in 1 .. 1 |-> Movement(<<e>>[i])]
<1>1. DOMAIN <<e>> = 1 .. 1 /\ 1 .. 1 = {1} /\ <<e>>[1] = e
  OBVIOUS
<1>2. Movement(e) \in Int
  BY EntryMoves
<1>3. Moved(<<e>>) = SumOf(f, 1 .. 1)
  <2>1. \A i \in 1 .. 1 : Movement(<<e>>[i]) \in Int
    BY <1>1, <1>2
  <2>. QED
    BY <1>1, <2>1, MovedIs
<1>4. f[1] = Movement(e)
  BY <1>1
<1> HIDE DEF f
<1>5. IsFiniteSet({}) /\ IsFiniteSet({1}) /\ {1} \ {1} = {}
  BY FS_EmptySet, FS_Singleton
<1>6. SumOf(f, {1}) = SumOf(f, {}) + f[1] /\ SumOf(f, {}) = 0
  <2>1. \A y \in {1} : f[y] \in Int
    BY <1>2, <1>4
  <2>. QED
    BY <1>5, <2>1, SumAdds
<1>. QED
  BY <1>1, <1>2, <1>3, <1>4, <1>6

LEMMA MovedOn ==
  ASSUME NEW l \in Seq(Entries), NEW q \in Seq(Entries)
  PROVE  Moved(l \o q) = Moved(l) + Moved(q) /\ Moved(l) \in Int
<1> DEFINE m == Len(l)
           n == Len(q)
           s == l \o q
           f == [i \in 1 .. m + n |-> Movement(s[i])]
           fl == [i \in 1 .. m |-> Movement(l[i])]
           fq == [i \in 1 .. n |-> Movement(q[i])]
           h == [i \in 1 .. n |-> m + i]
           Late == {h[i] : i \in 1 .. n}
<1>1. /\ m \in Nat /\ n \in Nat
      /\ DOMAIN l = 1 .. m /\ DOMAIN q = 1 .. n /\ DOMAIN s = 1 .. m + n
      /\ \A i \in 1 .. m + n : s[i] \in Entries
      /\ \A i \in 1 .. m : s[i] = l[i] /\ l[i] \in Entries
      /\ \A i \in 1 .. n : s[m + i] = q[i] /\ q[i] \in Entries
  OBVIOUS
<1> HIDE DEF m, n, s
<1>2. /\ \A i \in 1 .. m + n : Movement(s[i]) \in Int
      /\ \A i \in 1 .. m : Movement(l[i]) \in Int
      /\ \A i \in 1 .. n : Movement(q[i]) \in Int
  BY <1>1, EntryMoves
<1>3. Moved(s) = SumOf(f, 1 .. m + n) /\ Moved(l) = SumOf(fl, 1 .. m) /\ Moved(q) = SumOf(fq, 1 .. n)
  <2>1. m + n \in Nat
    BY <1>1
  <2>. QED
    BY <1>1, <1>2, <2>1, MovedIs
<1>4. /\ \A i \in 1 .. n : h[i] = m + i /\ h[i] \in 1 .. m + n /\ h[i] \notin 1 .. m
      /\ \A i, j \in 1 .. n : h[i] = h[j] => i = j
  BY <1>1
<1>5. 1 .. m + n = (1 .. m) \cup Late /\ (1 .. m) \cap Late = {}
  <2>1. \A j \in 1 .. m + n : j \in 1 .. m \/ (j - m \in 1 .. n /\ h[j - m] = j)
    BY <1>1
  <2>2. 1 .. m \subseteq 1 .. m + n
    BY <1>1
  <2>3. \A i \in 1 .. n : h[i] \in 1 .. m + n /\ h[i] \notin 1 .. m
    BY <1>4
  <2> HIDE DEF h
  <2>4. \A j \in 1 .. m + n : j \in 1 .. m \/ j \in Late
    BY <2>1
  <2>. QED
    BY <2>2, <2>3, <2>4
<1>6. IsFiniteSet(1 .. m) /\ IsFiniteSet(1 .. n) /\ IsFiniteSet(Late)
  <2>0. m \in Int /\ n \in Int /\ m + n \in Int /\ 1 \in Int
    BY <1>1
  <2>1. IsFiniteSet(1 .. m) /\ IsFiniteSet(1 .. n) /\ IsFiniteSet(1 .. m + n)
    BY <2>0, FS_Interval
  <2>2. Late \in SUBSET (1 .. m + n)
    BY <1>5
  <2>. QED
    BY <2>1, <2>2, FS_Subset
<1>7. /\ \A i \in 1 .. m + n : f[i] \in Int
      /\ \A i \in 1 .. m : fl[i] = Movement(l[i]) /\ f[i] = fl[i] /\ f[i] \in Int
      /\ \A i \in 1 .. n : f[h[i]] \in Int /\ fq[i] = f[h[i]]
  <2>1. \A i \in 1 .. m + n : f[i] = Movement(s[i])
    OBVIOUS
  <2>2. \A i \in 1 .. m : fl[i] = Movement(l[i]) /\ i \in 1 .. m + n
    BY <1>1
  <2>3. \A i \in 1 .. n : fq[i] = Movement(q[i])
    OBVIOUS
  <2> HIDE DEF f, fl, fq, h
  <2>4. \A i \in 1 .. m + n : f[i] \in Int
    BY <1>2, <2>1
  <2>5. \A i \in 1 .. m : fl[i] = Movement(l[i]) /\ f[i] = fl[i] /\ f[i] \in Int
    BY <1>1, <2>1, <2>2, <2>4
  <2>6. \A i \in 1 .. n : f[h[i]] \in Int /\ fq[i] = f[h[i]]
    BY <1>1, <1>4, <2>1, <2>3, <2>4
  <2>. QED
    BY <2>4, <2>5, <2>6
<1> HIDE DEF f, fl, fq, h, Late
<1>8. SumOf(f, 1 .. m + n) = SumOf(f, 1 .. m) + SumOf(f, Late)
  BY <1>5, <1>6, <1>7, SumUnion
<1>9. SumOf(f, 1 .. m) = SumOf(fl, 1 .. m)
  BY <1>6, <1>7, SumSame
<1>10. SumOf(fq, 1 .. n) = SumOf(f, Late)
  <2> DEFINE S == 1 .. n
  <2>1. IsFiniteSet(S) /\ \A x, y \in S : h[x] = h[y] => x = y
    BY <1>4, <1>6
  <2>2. \A x \in S : f[h[x]] \in Int /\ fq[x] = f[h[x]]
    BY <1>7
  <2>3. Late = {h[x] : x \in S}
    BY DEF Late
  <2> HIDE DEF S
  <2>4. SumOf(fq, S) = SumOf(f, {h[x] : x \in S})
    BY <2>1, <2>2, SumRenamed
  <2>. QED
    BY <2>3, <2>4 DEF S
<1>11. SumOf(fl, 1 .. m) \in Int
  <2>1. \A i \in 1 .. m : fl[i] \in Int
    BY <1>7
  <2>. QED
    BY <1>6, <2>1, SumAdds
<1>. QED
  BY <1>3, <1>8, <1>9, <1>10, <1>11 DEF s

\* A set of entries, in any order.
LEMMA Listing ==
  ASSUME NEW T, IsFiniteSet(T)
  PROVE  /\ SetToSeq(T) \in Seq(T) /\ \A x \in T : \E i \in DOMAIN SetToSeq(T) : SetToSeq(T)[i] = x
         /\ \A i, j \in DOMAIN SetToSeq(T) : SetToSeq(T)[i] = SetToSeq(T)[j] => i = j
<1> DEFINE n == Cardinality(T)
<1>1. n \in Nat /\ ExistsBijection(1 .. n, T)
  BY FS_CardinalityType
<1>2. \E f \in [1 .. n -> T] : IsInjective(f)
  BY <1>1 DEF ExistsBijection, Bijection, Injection
<1>3. PICK q : q = SetToSeq(T)
  OBVIOUS
<1>4. q \in [1 .. n -> T] /\ IsInjective(q)
  BY <1>2, <1>3 DEF SetToSeq
<1>5. q \in Surjection(1 .. n, T)
  <2>1. q \in Injection(1 .. n, T)
    BY <1>4 DEF Injection
  <2>2. Cardinality(1 .. n) = n
    BY <1>1, FS_Interval
  <2>. QED
    BY <2>1, <2>2, FS_Injection
<1>6. q \in Seq(T)
  BY <1>1, <1>4
<1>. QED
  BY <1>3, <1>4, <1>5, <1>6 DEF Surjection, IsInjective

\* Credits, listed in any order, move their total.
LEMMA CreditsMoved ==
  ASSUME NEW P \in SUBSET BetIds, NEW f, \A b \in P : f[b] \in Int, NEW T,
         T = {Entry("BET_CREDIT", f[b], b) : b \in P}
  PROVE  /\ IsFiniteSet(P) /\ IsFiniteSet(T) /\ T \subseteq Entries
         /\ Moved(SetToSeq(T)) = Total(f, P) /\ Total(f, P) \in Int
<1>1. IsFiniteSet(P)
  <2>1. IsFiniteSet(BetIds)
    BY LimitAssumption, FS_Interval DEF BetIds
  <2>. QED
    BY <2>1, FS_Subset
<1>2. T \subseteq Entries
  BY DEF Entry, Entries
<1>3. IsFiniteSet(T)
  <2> DEFINE g == [b \in P |-> Entry("BET_CREDIT", f[b], b)]
  <2>1. g \in Surjection(P, T)
    BY DEF Surjection
  <2> HIDE DEF g
  <2>. QED
    BY <1>1, <2>1, FS_Surjection
<1>4. PICK q : q = SetToSeq(T)
  OBVIOUS
<1>5. /\ q \in Seq(T) /\ \A x \in T : \E i \in DOMAIN q : q[i] = x
      /\ \A i, j \in DOMAIN q : q[i] = q[j] => i = j
  BY <1>3, <1>4, Listing
<1> DEFINE n == Len(q)
           g == [i \in 1 .. n |-> Movement(q[i])]
           h == [i \in 1 .. n |-> q[i].bet]
           I == 1 .. n
<1>6. n \in Nat /\ DOMAIN q = 1 .. n /\ \A i \in 1 .. n : q[i] \in T
  BY <1>5
<1>7. \A i \in I : \E b \in P : q[i] = Entry("BET_CREDIT", f[b], b)
  BY <1>6
<1>8. \A i \in I : /\ h[i] = q[i].bet /\ q[i].bet \in P
                   /\ g[i] = Movement(q[i]) /\ Movement(q[i]) = f[q[i].bet] /\ f[q[i].bet] \in Int
                   /\ q[i] = Entry("BET_CREDIT", f[q[i].bet], q[i].bet)
  <2> SUFFICES ASSUME NEW i \in I
               PROVE  /\ h[i] = q[i].bet /\ q[i].bet \in P
                      /\ g[i] = Movement(q[i]) /\ Movement(q[i]) = f[q[i].bet] /\ f[q[i].bet] \in Int
                      /\ q[i] = Entry("BET_CREDIT", f[q[i].bet], q[i].bet)
    OBVIOUS
  <2>1. PICK b \in P : q[i] = Entry("BET_CREDIT", f[b], b)
    BY <1>7
  <2>2. q[i].bet = b /\ Movement(q[i]) = f[b]
    BY <2>1 DEF Entry, Movement
  <2>3. h[i] = q[i].bet /\ g[i] = Movement(q[i])
    OBVIOUS
  <2>. QED
    BY <2>1, <2>2, <2>3
<1> HIDE DEF g, h, n
<1>9. Moved(q) = SumOf(g, I)
  <2>1. \A i \in 1 .. n : Movement(q[i]) \in Int
    BY <1>8
  <2>. QED
    BY <1>6, <2>1, MovedIs DEF g
<1>10. \A i, j \in I : h[i] = h[j] => i = j
  BY <1>5, <1>6, <1>8
<1>11. {h[i] : i \in I} = P
  <2>1. ASSUME NEW b \in P PROVE b \in {h[i] : i \in I}
    <3>1. Entry("BET_CREDIT", f[b], b) \in T
      OBVIOUS
    <3>2. PICK i \in I : q[i] = Entry("BET_CREDIT", f[b], b)
      BY <1>5, <1>6, <3>1
    <3>3. h[i] = b
      BY <1>8, <3>2 DEF Entry
    <3>. QED
      BY <3>3
  <2>. QED
    BY <1>8, <2>1
<1>12. SumOf(g, I) = SumOf(f, {h[i] : i \in I})
  <2>1. IsFiniteSet(I)
    <3>1. 1 \in Int /\ n \in Int
      BY <1>6
    <3>. QED
      BY <3>1, FS_Interval
  <2>2. \A x \in I : f[h[x]] \in Int /\ g[x] = f[h[x]]
    BY <1>8
  <2> HIDE DEF I
  <2>. QED
    BY <1>10, <2>1, <2>2, SumRenamed
<1>13. Total(f, P) = SumOf(f, P) /\ SumOf(f, P) \in Int
  BY <1>1, TotalIs, SumAdds
<1>. QED
  BY <1>1, <1>2, <1>3, <1>4, <1>9, <1>11, <1>12, <1>13

-----------------------------------------------------------------------------
(* Rows are added to the ledger.                                           *)

LEMMA Posted ==
  ASSUME ledger \in Seq(Entries), NEW q \in Seq(Entries), ledger' = ledger \o q
  PROVE  /\ ledger' \in Seq(Entries)
         /\ Moved(ledger') = Moved(ledger) + Moved(q) /\ Moved(ledger) \in Int
         /\ ledger # <<>> => ledger' # <<>> /\ Opening' = Opening
         /\ \A n \in DOMAIN ledger : n \in DOMAIN ledger' /\ ledger'[n] = ledger[n]
         /\ \A n \in DOMAIN ledger' \ DOMAIN ledger :
              n - Len(ledger) \in DOMAIN q /\ ledger'[n] = q[n - Len(ledger)]
         /\ \A i \in DOMAIN q : Len(ledger) + i \in DOMAIN ledger' /\ ledger'[Len(ledger) + i] = q[i]
<1>1. ledger' \in Seq(Entries)
  OBVIOUS
<1>2. Moved(ledger') = Moved(ledger) + Moved(q) /\ Moved(ledger) \in Int
  BY MovedOn
<1>3. \A n \in DOMAIN ledger : n \in DOMAIN ledger' /\ ledger'[n] = ledger[n]
  OBVIOUS
<1>4. \A n \in DOMAIN ledger' \ DOMAIN ledger :
              n - Len(ledger) \in DOMAIN q /\ ledger'[n] = q[n - Len(ledger)]
  OBVIOUS
<1>5. \A i \in DOMAIN q : Len(ledger) + i \in DOMAIN ledger' /\ ledger'[Len(ledger) + i] = q[i]
  OBVIOUS
<1>6. ledger # <<>> => 1 \in DOMAIN ledger
  OBVIOUS
<1>7. ledger # <<>> => ledger' # <<>> /\ Opening' = Opening
  BY <1>3, <1>6 DEF Opening
<1>. QED
  BY <1>1, <1>2, <1>3, <1>4, <1>5, <1>7

\* Rows that are neither debit nor credit, and leave the bets alone.
LEMMA PostedAside ==
  ASSUME ledger \in Seq(Entries), NEW q \in Seq(Entries), ledger' = ledger \o q, bets' = bets,
         \A i \in DOMAIN q : q[i].type \notin {"BET_DEBIT", "BET_CREDIT"},
         Staked, Listed
  PROVE  Staked' /\ Listed'
<1>1. /\ \A n \in DOMAIN ledger : n \in DOMAIN ledger' /\ ledger'[n] = ledger[n]
      /\ \A n \in DOMAIN ledger' \ DOMAIN ledger : ledger'[n].type \notin {"BET_DEBIT", "BET_CREDIT"}
  BY Posted
<1>2. ASSUME NEW b \in DOMAIN bets
      PROVE  \E n \in DOMAIN ledger' :
               /\ ledger'[n] = Entry("BET_DEBIT", - bets[b].amount, b)
               /\ \A m \in DOMAIN ledger' : ledger'[m].type = "BET_DEBIT" /\ ledger'[m].bet = b => m = n
  <2>1. PICK n \in DOMAIN ledger :
               /\ ledger[n] = Entry("BET_DEBIT", - bets[b].amount, b)
               /\ \A m \in DOMAIN ledger : ledger[m].type = "BET_DEBIT" /\ ledger[m].bet = b => m = n
    BY DEF Staked
  <2>2. \A m \in DOMAIN ledger' : ledger'[m].type = "BET_DEBIT" => m \in DOMAIN ledger
    BY <1>1
  <2>3. n \in DOMAIN ledger' /\ ledger'[n] = ledger[n]
    BY <1>1
  <2>4. \A m \in DOMAIN ledger' : ledger'[m].type = "BET_DEBIT" /\ ledger'[m].bet = b => m = n
    BY <1>1, <2>1, <2>2
  <2>. QED
    BY <2>1, <2>3, <2>4
<1>3. Listed'
  BY <1>1 DEF Listed
<1>. QED
  BY <1>2, <1>3 DEF Staked

\* A bet is placed, its debit the last row.
LEMMA PostedDebit ==
  ASSUME ledger \in Seq(Entries), bets \in Seq(Bets),
         NEW q \in Seq(Entries), ledger' = ledger \o q,
         NEW k, bets' = Append(bets, NewBet(k)), k.amount \in Int,
         NEW j \in DOMAIN q, q[j] = NewDebit(k),
         \A i \in DOMAIN q : i # j => q[i].type \notin {"BET_DEBIT", "BET_CREDIT"},
         Staked, Listed
  PROVE  Staked' /\ Listed'
<1> DEFINE x == Len(bets) + 1
           y == Len(ledger) + j
<1>1. /\ \A n \in DOMAIN ledger : n \in DOMAIN ledger' /\ ledger'[n] = ledger[n]
      /\ \A n \in DOMAIN ledger' \ DOMAIN ledger :
           n - Len(ledger) \in DOMAIN q /\ ledger'[n] = q[n - Len(ledger)]
      /\ y \in DOMAIN ledger' /\ ledger'[y] = q[j]
  BY Posted
<1>2. /\ DOMAIN bets' = DOMAIN bets \cup {x} /\ x \notin DOMAIN bets
      /\ \A b \in DOMAIN bets : bets'[b] = bets[b]
      /\ bets'[x] = NewBet(k)
  OBVIOUS
<1>3. \A n \in DOMAIN ledger' \ DOMAIN ledger : n # y => ledger'[n].type \notin {"BET_DEBIT", "BET_CREDIT"}
  <2>1. \A n \in DOMAIN ledger' \ DOMAIN ledger : n # y => n - Len(ledger) # j
    OBVIOUS
  <2>. QED
    BY <1>1, <2>1
<1>4. y \notin DOMAIN ledger
  OBVIOUS
<1>5. NewDebit(k) = Entry("BET_DEBIT", - k.amount, x) /\ NewBet(k).amount = k.amount
  BY DEF NewDebit, NewBet
<1> HIDE DEF x, y
<1>6. \A n \in DOMAIN ledger : ~(ledger[n].type \in {"BET_DEBIT", "BET_CREDIT"} /\ ledger[n].bet = x)
  BY <1>2 DEF Listed
<1>7. ASSUME NEW b \in DOMAIN bets'
      PROVE  \E n \in DOMAIN ledger' :
               /\ ledger'[n] = Entry("BET_DEBIT", - bets'[b].amount, b)
               /\ \A m \in DOMAIN ledger' : ledger'[m].type = "BET_DEBIT" /\ ledger'[m].bet = b => m = n
  <2>1. CASE b = x
    <3>1. ledger'[y] = Entry("BET_DEBIT", - bets'[b].amount, b)
      BY <1>1, <1>2, <1>5, <2>1
    <3>2. \A m \in DOMAIN ledger' : ledger'[m].type = "BET_DEBIT" /\ ledger'[m].bet = b => m = y
      BY <1>1, <1>3, <1>6, <2>1
    <3>. QED
      BY <1>1, <3>1, <3>2
  <2>2. CASE b \in DOMAIN bets
    <3>1. PICK n \in DOMAIN ledger :
               /\ ledger[n] = Entry("BET_DEBIT", - bets[b].amount, b)
               /\ \A m \in DOMAIN ledger : ledger[m].type = "BET_DEBIT" /\ ledger[m].bet = b => m = n
      BY <2>2 DEF Staked
    <3>2. ledger'[y].bet = x /\ b # x
      BY <1>1, <1>2, <1>5, <2>2 DEF Entry
    <3>3. n \in DOMAIN ledger' /\ ledger'[n] = Entry("BET_DEBIT", - bets'[b].amount, b)
      BY <1>1, <1>2, <2>2, <3>1
    <3>4. \A m \in DOMAIN ledger' : ledger'[m].type = "BET_DEBIT" /\ ledger'[m].bet = b => m \in DOMAIN ledger
      BY <1>3, <3>2
    <3>5. \A m \in DOMAIN ledger' : ledger'[m].type = "BET_DEBIT" /\ ledger'[m].bet = b => m = n
      BY <1>1, <3>1, <3>4
    <3>. QED
      BY <3>3, <3>5
  <2>. QED
    BY <1>2, <2>1, <2>2
<1>8. Listed'
  <2>1. ASSUME NEW n \in DOMAIN ledger', ledger'[n].type \in {"BET_DEBIT", "BET_CREDIT"}
        PROVE  /\ ledger'[n].bet \in DOMAIN bets'
               /\ ledger'[n].type = "BET_CREDIT" => bets'[ledger'[n].bet].status = "SETTLED"
    <3>1. CASE n \in DOMAIN ledger
      BY <1>1, <1>2, <2>1, <3>1 DEF Listed
    <3>2. CASE n = y
      BY <1>1, <1>2, <1>5, <3>2 DEF Entry
    <3>. QED
      BY <1>3, <2>1, <3>1, <3>2
  <2>. QED
    BY <2>1 DEF Listed
<1>. QED
  BY <1>7, <1>8 DEF Staked

LEMMA Numbers ==
  /\ \A a \in Amounts : a \in Int /\ - a \in Int /\ a > 0
  /\ \A a \in Returns : a \in Int
  /\ InitialBalance \in Int
BY AmountAssumption, LimitAssumption

\* Settling leaves run and amount of a bet, and never reopens one.
LEMMA SettledRows ==
  ASSUME bets \in Seq(Bets), NEW B \in SUBSET DOMAIN bets, NEW return \in [B -> Returns]
  PROVE  /\ Settled(B, return) \in Seq(Bets) /\ DOMAIN Settled(B, return) = DOMAIN bets
         /\ Len(Settled(B, return)) = Len(bets)
         /\ \A b \in DOMAIN bets : /\ Settled(B, return)[b].run = bets[b].run
                                   /\ Settled(B, return)[b].amount = bets[b].amount
                                   /\ bets[b].status = "SETTLED" => Settled(B, return)[b].status = "SETTLED"
         /\ \A b \in B : Settled(B, return)[b].status = "SETTLED"
         /\ \A b \in B : Credit(b, return) \in Int
<1> DEFINE S == Settled(B, return)
<1>1. \A b \in DOMAIN bets : bets[b] \in Bets
  OBVIOUS
<1>2. \A b \in B : bets[b].amount \in Int /\ bets[b].amount * return[b] \in Int
  <2>1. \A b \in B : return[b] \in Returns /\ bets[b].amount \in Amounts
    BY <1>1 DEF Bets
  <2>2. \A x, y \in Int : x * y \in Int
    OBVIOUS
  <2>. QED
    BY <2>1, <2>2, Numbers
<1>3. \A b \in B : S[b] = [bets[b] EXCEPT !.status = "SETTLED", !.pnl = bets[b].amount * return[b]]
  BY DEF Settled
<1>4. \A b \in DOMAIN bets \ B : S[b] = bets[b]
  BY DEF Settled
<1>5. DOMAIN S = DOMAIN bets /\ S = [b \in DOMAIN bets |-> S[b]]
  BY DEF Settled
<1> HIDE DEF S
<1>6. \A b \in B : /\ S[b] \in Bets /\ S[b].status = "SETTLED"
                   /\ S[b].run = bets[b].run /\ S[b].amount = bets[b].amount
  <2> SUFFICES ASSUME NEW b \in B
               PROVE  /\ S[b] \in Bets /\ S[b].status = "SETTLED"
                      /\ S[b].run = bets[b].run /\ S[b].amount = bets[b].amount
    OBVIOUS
  <2>1. PICK p \in Int : p = bets[b].amount * return[b]
    BY <1>2
  <2>2. S[b] = [bets[b] EXCEPT !.status = "SETTLED", !.pnl = p] /\ bets[b] \in Bets
    BY <1>1, <1>3, <2>1
  <2>. QED
    BY <2>2 DEF Bets
<1>7. \A b \in DOMAIN bets : S[b] \in Bets
  BY <1>1, <1>4, <1>6
<1>8. S \in Seq(Bets) /\ Len(S) = Len(bets)
  <2>1. DOMAIN bets = 1 .. Len(bets) /\ Len(bets) \in Nat
    OBVIOUS
  <2>. QED
    BY <1>5, <1>7, <2>1
<1>9. \A b \in B : Credit(b, return) \in Int
  BY <1>2 DEF Credit
<1>. QED
  BY <1>4, <1>5, <1>6, <1>8, <1>9 DEF S

\* Bets are settled, and some of them credited.
LEMMA PostedCredits ==
  ASSUME ledger \in Seq(Entries), bets \in Seq(Bets),
         NEW q \in Seq(Entries), ledger' = ledger \o q,
         NEW B \in SUBSET DOMAIN bets, NEW return \in [B -> Returns], bets' = Settled(B, return),
         \A i \in DOMAIN q : q[i].type = "BET_CREDIT" /\ q[i].bet \in B,
         Staked, Listed
  PROVE  Staked' /\ Listed'
<1>1. /\ \A n \in DOMAIN ledger : n \in DOMAIN ledger' /\ ledger'[n] = ledger[n]
      /\ \A n \in DOMAIN ledger' \ DOMAIN ledger : ledger'[n].type = "BET_CREDIT" /\ ledger'[n].bet \in B
  BY Posted
<1>2. /\ DOMAIN bets' = DOMAIN bets
      /\ \A b \in DOMAIN bets : bets'[b].amount = bets[b].amount
      /\ \A b \in DOMAIN bets : bets[b].status = "SETTLED" => bets'[b].status = "SETTLED"
      /\ \A b \in B : bets'[b].status = "SETTLED"
  BY SettledRows
<1>3. ASSUME NEW b \in DOMAIN bets'
      PROVE  \E n \in DOMAIN ledger' :
               /\ ledger'[n] = Entry("BET_DEBIT", - bets'[b].amount, b)
               /\ \A m \in DOMAIN ledger' : ledger'[m].type = "BET_DEBIT" /\ ledger'[m].bet = b => m = n
  <2>1. PICK n \in DOMAIN ledger :
               /\ ledger[n] = Entry("BET_DEBIT", - bets[b].amount, b)
               /\ \A m \in DOMAIN ledger : ledger[m].type = "BET_DEBIT" /\ ledger[m].bet = b => m = n
    BY <1>2 DEF Staked
  <2>2. \A m \in DOMAIN ledger' : ledger'[m].type = "BET_DEBIT" => m \in DOMAIN ledger
    BY <1>1
  <2>3. n \in DOMAIN ledger' /\ ledger'[n] = Entry("BET_DEBIT", - bets'[b].amount, b)
    BY <1>1, <1>2, <2>1
  <2>4. \A m \in DOMAIN ledger' : ledger'[m].type = "BET_DEBIT" /\ ledger'[m].bet = b => m = n
    BY <1>1, <2>1, <2>2
  <2>. QED
    BY <2>3, <2>4
<1>4. Staked'
  BY <1>3 DEF Staked
<1>5. Listed'
  <2>1. ASSUME NEW n \in DOMAIN ledger', ledger'[n].type \in {"BET_DEBIT", "BET_CREDIT"}
        PROVE  /\ ledger'[n].bet \in DOMAIN bets'
               /\ ledger'[n].type = "BET_CREDIT" => bets'[ledger'[n].bet].status = "SETTLED"
    <3>1. CASE n \in DOMAIN ledger
      BY <1>1, <1>2, <2>1, <3>1 DEF Listed
    <3>2. CASE n \notin DOMAIN ledger
      BY <1>1, <1>2, <3>2
    <3>. QED
      BY <3>1, <3>2
  <2>. QED
    BY <2>1 DEF Listed
<1>. QED
  BY <1>4, <1>5

-----------------------------------------------------------------------------
(* What each action does to the books.                                     *)

Books == Walleted /\ MoneyConserved /\ Staked /\ Listed

LEMMA OpeningType == Opening \in Int
BY LimitAssumption DEF Opening

\* A row of a wallet that exists already, and is not opened by it.
LEMMA RowMoves ==
  ASSUME ledger \in Seq(Entries), balance \in Int, Walleted, MoneyConserved,
         NEW q \in Seq(Entries), ledger' = ledger \o q,
         NEW d \in Int, balance' = balance + d, Moved(q) = d, wasReset' = wasReset
  PROVE  Walleted' /\ MoneyConserved'
<1>1. balance # NoWallet /\ balance' \in Int /\ balance' # NoWallet
  BY WalletAssumption
<1>2. /\ Moved(ledger') = Moved(ledger) + d /\ Moved(ledger) \in Int
      /\ ledger # <<>> => ledger' # <<>> /\ Opening' = Opening
  BY Posted
<1>3. Walleted'
  BY <1>1, <1>2 DEF Walleted
<1>4. ASSUME ~wasReset PROVE balance' = Opening' + Moved(ledger')
  <2>1. ledger # <<>> /\ balance = Opening + Moved(ledger)
    BY <1>1, <1>4 DEF Walleted, MoneyConserved
  <2>. QED
    BY <1>2, <2>1, OpeningType
<1>. QED
  BY <1>3, <1>4 DEF MoneyConserved

LEMMA EntryTypes ==
  ASSUME NEW a \in Int
  PROVE  /\ Entry("SEED", a, NoBet) \in Entries /\ Movement(Entry("SEED", a, NoBet)) = 0
         /\ Entry("ADJUSTMENT", a, NoBet) \in Entries /\ Movement(Entry("ADJUSTMENT", a, NoBet)) = a
         /\ \A b \in BetIds : /\ Entry("BET_DEBIT", a, b) \in Entries
                              /\ Movement(Entry("BET_DEBIT", a, b)) = a
BY DEF Entry, Entries, Movement

LEMMA OpenBooks ==
  ASSUME TypeOK, Books, NEW c \in Clients, Open(c), wasReset' = wasReset,
         balance # NoWallet, Len(bets) < MaxRequests
  PROVE  Books' /\ balance' \in Int /\ bets' \in Seq(Bets) /\ ledger' \in Seq(Entries)
         /\ Len(bets') = Len(bets) + 1
<1> DEFINE k == call[c]
           q == <<NewDebit(k)>>
<1>1. k \in Calls /\ k.pc = "open"
  BY DEF TypeOK, Open
<1>2. k.run \in Runs /\ k.amount \in Amounts
  BY <1>1 DEF Calls, Idle
<1>3. k.amount \in Int /\ - k.amount \in Int /\ balance \in Int
  BY <1>2, Numbers DEF TypeOK
<1>4. balance' = balance + (- k.amount) /\ bets' = Append(bets, NewBet(k)) /\ ledger' = ledger \o q
  BY <1>3 DEF Open, TypeOK
<1> HIDE DEF k
<1>5. Len(bets) + 1 \in BetIds
  BY LimitAssumption DEF TypeOK, BetIds
<1>6. q \in Seq(Entries) /\ Moved(q) = - k.amount
  <2>1. NewDebit(k) \in Entries /\ Movement(NewDebit(k)) = - k.amount
    BY <1>3, <1>5, EntryTypes DEF NewDebit
  <2>. QED
    BY <2>1, OneMoved
<1>7. Walleted' /\ MoneyConserved'
  BY <1>3, <1>4, <1>6, RowMoves DEF TypeOK, Books
<1>8. Staked' /\ Listed'
  <2>1. 1 \in DOMAIN q /\ q[1] = NewDebit(k) /\ \A i \in DOMAIN q : i = 1
    OBVIOUS
  <2> HIDE DEF q
  <2>. QED
    BY <1>3, <1>4, <1>6, <2>1, PostedDebit DEF TypeOK, Books
<1>9. NewBet(k) \in Bets
  BY <1>2 DEF NewBet, Bets
<1>. QED
  BY <1>3, <1>4, <1>6, <1>7, <1>8, <1>9 DEF TypeOK, Books

\* The first rows of a ledger: a SEED, and what follows.
LEMMA FirstRows ==
  ASSUME ledger = <<>>, NEW q \in Seq(Entries), q # <<>>, ledger' = ledger \o q,
         balance' \in Int, balance' = (IF q[1].type = "SEED" THEN InitialBalance ELSE 0) + Moved(q)
  PROVE  Walleted' /\ MoneyConserved' /\ ledger' = q
<1>1. ledger' = q
  OBVIOUS
<1>. QED
  BY <1>1, WalletAssumption DEF Walleted, MoneyConserved, Opening

LEMMA OpenFirstBooks ==
  ASSUME TypeOK, Books, NEW c \in Clients, OpenFirst(c), wasReset' = wasReset,
         balance = NoWallet, Len(bets) < MaxRequests
  PROVE  Books' /\ balance' \in Int /\ bets' \in Seq(Bets) /\ ledger' \in Seq(Entries)
         /\ Len(bets') = Len(bets) + 1
<1> DEFINE k == call[c]
           s == Entry("SEED", InitialBalance, NoBet)
           q == <<s, NewDebit(k)>>
<1>1. k \in Calls /\ k.pc = "openFirst"
  BY DEF TypeOK, OpenFirst
<1>2. k.run \in Runs /\ k.amount \in Amounts
  BY <1>1 DEF Calls, Idle
<1>3. k.amount \in Int /\ - k.amount \in Int /\ InitialBalance \in Int
  BY <1>2, Numbers
<1>4. balance' = InitialBalance - k.amount /\ bets' = Append(bets, NewBet(k)) /\ ledger' = ledger \o q
  BY DEF OpenFirst
<1> HIDE DEF k
<1>5. Len(bets) + 1 \in BetIds
  BY LimitAssumption DEF TypeOK, BetIds
<1>6. NewDebit(k) \in Entries /\ Movement(NewDebit(k)) = - k.amount /\ s \in Entries /\ Movement(s) = 0
  BY <1>3, <1>5, EntryTypes DEF NewDebit
<1>7. q \in Seq(Entries) /\ q # <<>> /\ q[1].type = "SEED" /\ Moved(q) = - k.amount
  <2>1. q = <<s>> \o <<NewDebit(k)>> /\ <<s>> \in Seq(Entries) /\ <<NewDebit(k)>> \in Seq(Entries)
    BY <1>6
  <2>2. Moved(q) = Moved(<<s>>) + Moved(<<NewDebit(k)>>)
    BY <2>1, MovedOn
  <2>3. Moved(<<s>>) = 0 /\ Moved(<<NewDebit(k)>>) = - k.amount
    BY <1>6, OneMoved
  <2>4. q[1] = s /\ s.type = "SEED"
    BY DEF Entry
  <2>. QED
    BY <1>3, <2>1, <2>2, <2>3, <2>4
<1>8. \A i \in DOMAIN q : i # 2 => q[i].type \notin {"BET_DEBIT", "BET_CREDIT"}
  BY DEF Entry
<1>9. 2 \in DOMAIN q /\ q[2] = NewDebit(k)
  OBVIOUS
<1> HIDE DEF q
<1>10. Walleted' /\ MoneyConserved' /\ ledger' = q
  <2>1. ledger = <<>>
    BY DEF Books, Walleted
  <2>. QED
    BY <1>3, <1>4, <1>7, <2>1, FirstRows
<1>11. Staked' /\ Listed'
  BY <1>3, <1>4, <1>7, <1>8, <1>9, PostedDebit DEF TypeOK, Books
<1>12. NewBet(k) \in Bets
  BY <1>2 DEF NewBet, Bets
<1>. QED
  BY <1>3, <1>4, <1>7, <1>10, <1>11, <1>12 DEF TypeOK, Books

LEMMA SettleBooks ==
  ASSUME TypeOK, Books, NEW c \in Clients, Stands(call[c]), wasReset' = wasReset,
         call[c].pc = "settle",
         NEW return \in [call[c].open \cup call[c].settled -> Returns], Settle(c, return)
  PROVE  Books' /\ balance' \in Int /\ bets' \in Seq(Bets) /\ ledger' \in Seq(Entries)
         /\ Len(bets') = Len(bets)
<1> DEFINE k == call[c]
           B == k.open \cup k.settled
           P == {b \in k.open : Credit(b, return) # 0}
           f == [b \in P |-> Credit(b, return)]
           T == {CreditEntry(b, return) : b \in P}
           q == SetToSeq(T)
<1>1. B \in SUBSET DOMAIN bets /\ B # {} /\ P \subseteq B
  BY DEF Stands
<1>2. balance # NoWallet /\ balance \in Int
  <2>1. bets # <<>>
    BY <1>1
  <2>. QED
    BY <2>1 DEF Books, Walleted, TypeOK
<1>3. bets' = Settled(B, return) /\ balance' = balance + Total(f, P) /\ ledger' = ledger \o q
  BY DEF Settle, TotalCredit
<1>4. /\ bets' \in Seq(Bets) /\ Len(bets') = Len(bets)
      /\ \A b \in B : Credit(b, return) \in Int
  <2>1. return \in [B -> Returns]
    OBVIOUS
  <2> HIDE DEF B
  <2>. QED
    BY <1>1, <1>3, <2>1, SettledRows DEF TypeOK
<1>5. \A b \in P : f[b] \in Int /\ f[b] = Credit(b, return)
  BY <1>1, <1>4
<1> HIDE DEF f
<1>6. T = {Entry("BET_CREDIT", f[b], b) : b \in P}
  BY <1>5 DEF CreditEntry
<1>7. P \in SUBSET BetIds
  <2>1. DOMAIN bets \subseteq BetIds
    BY LimitAssumption DEF TypeOK, BetIds
  <2>. QED
    BY <1>1, <2>1
<1> HIDE DEF T, P, B
<1>8. /\ IsFiniteSet(T) /\ T \subseteq Entries
      /\ Moved(q) = Total(f, P) /\ Total(f, P) \in Int
  <2>1. \A b \in P : f[b] \in Int
    BY <1>5
  <2>. QED
    BY <1>6, <1>7, <2>1, CreditsMoved
<1>9. q \in Seq(T) /\ q \in Seq(Entries)
  <2>1. q \in Seq(T)
    BY <1>8, Listing
  <2>2. PICK l : l = q
    OBVIOUS
  <2>3. l \in Seq(Entries)
    BY <1>8, <2>1, <2>2
  <2>. QED
    BY <2>1, <2>2, <2>3
<1> HIDE DEF q
<1>10. \A i \in DOMAIN q : q[i].type = "BET_CREDIT" /\ q[i].bet \in B
  <2>1. \A e \in T : e.type = "BET_CREDIT" /\ e.bet \in B
    BY <1>1, <1>6 DEF Entry
  <2>2. \A i \in DOMAIN q : q[i] \in T
    BY <1>9
  <2>. QED
    BY <2>1, <2>2
<1>11. Walleted' /\ MoneyConserved'
  BY <1>2, <1>3, <1>8, <1>9, RowMoves DEF TypeOK, Books
<1>12. Staked' /\ Listed'
  <2>1. return \in [B -> Returns]
    BY DEF B
  <2>. QED
    BY <1>1, <1>3, <1>9, <1>10, <2>1, PostedCredits DEF TypeOK, Books
<1>13. balance' \in Int
  BY <1>2, <1>3, <1>8
<1>. QED
  BY <1>3, <1>4, <1>9, <1>11, <1>12, <1>13 DEF TypeOK, Books

LEMMA CreateWalletBooks ==
  ASSUME TypeOK, Books, NEW c \in Clients, CreateWallet(c), wasReset' = wasReset, balance = NoWallet
  PROVE  Books' /\ balance' \in Int /\ bets' = bets /\ ledger' \in Seq(Entries)
<1> DEFINE e == Entry("SEED", InitialBalance, NoBet)
           q == <<e>>
<1>1. balance' = InitialBalance /\ ledger' = ledger \o q /\ bets' = bets /\ InitialBalance \in Int
  BY Numbers DEF CreateWallet, TypeOK
<1>2. e \in Entries /\ Movement(e) = 0 /\ e.type = "SEED"
  BY <1>1, EntryTypes DEF Entry
<1>3. q \in Seq(Entries) /\ q # <<>> /\ q[1] = e /\ Moved(q) = 0 /\ \A i \in DOMAIN q : q[i] = e
  BY <1>2, OneMoved
<1> HIDE DEF q, e
<1>4. ledger = <<>>
  BY DEF Books, Walleted
<1>5. Walleted' /\ MoneyConserved'
  <2>1. balance' = (IF q[1].type = "SEED" THEN InitialBalance ELSE 0) + Moved(q)
    BY <1>1, <1>2, <1>3
  <2>. QED
    BY <1>1, <1>3, <1>4, <2>1, FirstRows
<1>6. Staked' /\ Listed'
  BY <1>1, <1>2, <1>3, PostedAside DEF TypeOK, Books
<1>. QED
  BY <1>1, <1>3, <1>5, <1>6 DEF TypeOK, Books

LEMMA InsertSeedBooks ==
  ASSUME TypeOK, Books, NEW c \in Clients, InsertSeed(c), wasReset' = wasReset, balance # NoWallet
  PROVE  Books' /\ balance' = balance /\ bets' = bets /\ ledger' \in Seq(Entries)
<1> DEFINE e == Entry("SEED", call[c].amount, NoBet)
           q == <<e>>
<1>1. balance' = balance + 0 /\ ledger' = ledger \o q /\ bets' = bets /\ balance \in Int
  BY DEF InsertSeed, TypeOK
<1>2. e \in Entries /\ Movement(e) = 0 /\ e.type = "SEED"
  <2>1. call[c] \in Calls /\ call[c].pc = "seed"
    BY DEF TypeOK, InsertSeed
  <2>2. call[c].amount \in Int
    BY <2>1 DEF Calls, Idle
  <2>. QED
    BY <2>2, EntryTypes DEF Entry
<1>3. q \in Seq(Entries) /\ Moved(q) = 0 /\ \A i \in DOMAIN q : q[i] = e
  BY <1>2, OneMoved
<1> HIDE DEF q, e
<1>4. Walleted' /\ MoneyConserved'
  <2>1. PICK d \in Int : d = 0
    OBVIOUS
  <2>2. balance' = balance + d /\ Moved(q) = d
    BY <1>1, <1>3, <2>1
  <2>. QED
    BY <1>1, <1>3, <2>2, RowMoves DEF TypeOK, Books
<1>5. Staked' /\ Listed'
  BY <1>1, <1>2, <1>3, PostedAside DEF TypeOK, Books
<1>. QED
  BY <1>1, <1>3, <1>4, <1>5 DEF TypeOK, Books

LEMMA AdjustBooks ==
  ASSUME TypeOK, Books, NEW c \in Clients, NEW a \in Adjustments, Adjust(c, a), wasReset' = wasReset
  PROVE  Books' /\ balance' \in Int /\ bets' = bets /\ ledger' \in Seq(Entries)
<1> DEFINE e == Entry("ADJUSTMENT", a, NoBet)
           q == <<e>>
<1>1. a \in Int
  BY AmountAssumption
<1>2. /\ ledger' = ledger \o q /\ bets' = bets
      /\ balance = NoWallet => balance' = a
      /\ balance # NoWallet => balance' = balance + a
  BY DEF Adjust, TypeOK
<1>3. e \in Entries /\ Movement(e) = a /\ e.type = "ADJUSTMENT"
  BY <1>1, EntryTypes DEF Entry
<1>4. q \in Seq(Entries) /\ q # <<>> /\ q[1] = e /\ Moved(q) = a /\ \A i \in DOMAIN q : q[i] = e
  BY <1>3, OneMoved
<1> HIDE DEF q, e
<1>5. Walleted' /\ MoneyConserved' /\ balance' \in Int
  <2>1. CASE balance = NoWallet
    <3>1. ledger = <<>>
      BY <2>1 DEF Books, Walleted
    <3>2. balance' = (IF q[1].type = "SEED" THEN InitialBalance ELSE 0) + Moved(q)
      BY <1>1, <1>2, <1>3, <1>4, <2>1
    <3>3. balance' \in Int
      BY <1>1, <1>2, <2>1
    <3>. QED
      BY <1>2, <1>4, <3>1, <3>2, <3>3, FirstRows
  <2>2. CASE balance # NoWallet
    <3>1. balance \in Int
      BY <2>2 DEF TypeOK
    <3>2. balance' = balance + a
      BY <1>2, <2>2
    <3>3. balance' \in Int
      BY <1>1, <3>1, <3>2
    <3>4. Walleted' /\ MoneyConserved'
      BY <1>1, <1>2, <1>4, <3>1, <3>2, RowMoves DEF TypeOK, Books
    <3>. QED
      BY <3>3, <3>4
  <2>. QED
    BY <2>1, <2>2
<1>6. Staked' /\ Listed'
  BY <1>2, <1>3, <1>4, PostedAside DEF TypeOK, Books
<1>. QED
  BY <1>2, <1>4, <1>5, <1>6 DEF TypeOK, Books

LEMMA ResetBooks ==
  ASSUME TypeOK, Books, NEW c \in Clients, NEW a \in Resets, Reset(c, a)
  PROVE  Books' /\ balance' \in Int /\ bets' = bets /\ ledger' = ledger
<1>1. balance' = a /\ a \in Int /\ wasReset' = TRUE /\ bets' = bets /\ ledger' = ledger
  BY AmountAssumption DEF Reset
<1>2. balance' # NoWallet
  BY <1>1, WalletAssumption
<1>. QED
  BY <1>1, <1>2 DEF Books, Walleted, MoneyConserved, Staked, Listed

LEMMA RowsBooks ==
  ASSUME Books, UNCHANGED <<Rows, wasReset>>
  PROVE  Books'
BY DEF Books, Walleted, MoneyConserved, Opening, Staked, Listed, Rows

-----------------------------------------------------------------------------
(* What each action does to the requests.                                  *)

\* The requests that will place a bet.
Placers == {c \in Clients : call[c].pc \in Placing}
Places(k) == IF k.pc \in Placing THEN 1 ELSE 0

LEMMA PlacersFinite == IsFiniteSet(Placers) /\ Cardinality(Placers) \in Nat
<1>1. IsFiniteSet(Placers)
  BY ClientAssumption, FS_Subset DEF Placers
<1>. QED
  BY <1>1, FS_CardinalityType

\* There is room for the bet a request is to place.
LEMMA Room ==
  ASSUME TypeOK, Counted, NEW c \in Clients, call[c].pc \in Placing
  PROVE  Len(bets) < MaxRequests
<1>1. Placers # {}
  BY DEF Placers
<1>2. Cardinality(Placers) \in Nat /\ Cardinality(Placers) # 0
  BY <1>1, PlacersFinite, FS_EmptySet
<1>3. Len(bets) + Cardinality(Placers) <= requests
  BY DEF Counted, Placers
<1>4. Len(bets) \in Nat /\ requests \in Nat /\ requests <= MaxRequests /\ MaxRequests \in Nat
  BY LimitAssumption DEF TypeOK
<1>. QED
  BY <1>2, <1>3, <1>4

LEMMA CountedKeeps ==
  ASSUME TypeOK, Counted, NEW c \in Clients, NEW k \in Calls, call' = [call EXCEPT ![c] = k],
         bets' \in Seq(Bets), requests' \in Nat,
         Len(bets') + Places(k) - requests' <= Len(bets) + Places(call[c]) - requests
  PROVE  Counted'
<1> DEFINE P == Placers
           R == P \ {c}
           Q == {d \in Clients : call'[d].pc \in Placing}
<1>1. /\ call \in [Clients -> Calls] /\ call'[c] = k
      /\ \A d \in Clients : d # c => call'[d] = call[d]
  BY DEF TypeOK
<1>2. /\ call[c].pc \in Placing => P = R \cup {c}
      /\ call[c].pc \notin Placing => P = R
  BY DEF Placers
<1>3. /\ k.pc \in Placing => Q = R \cup {c}
      /\ k.pc \notin Placing => Q = R
  BY <1>1 DEF Placers
<1>4. IsFiniteSet(R) /\ Cardinality(R) \in Nat /\ c \notin R
  <2>1. IsFiniteSet(P)
    BY PlacersFinite
  <2>2. IsFiniteSet(R)
    BY <2>1, FS_Subset
  <2>. QED
    BY <2>2, FS_CardinalityType
<1> HIDE DEF P, Q, R
<1>5. Cardinality(R \cup {c}) = Cardinality(R) + 1
  BY <1>4, FS_AddElement
<1>6. Cardinality(P) = Cardinality(R) + Places(call[c])
  <2>1. CASE call[c].pc \in Placing
    BY <1>2, <1>5, <2>1 DEF Places
  <2>2. CASE call[c].pc \notin Placing
    <3>1. Places(call[c]) = 0 /\ P = R
      BY <1>2, <2>2 DEF Places
    <3>. QED
      BY <1>4, <3>1
  <2>. QED
    BY <2>1, <2>2
<1>7. Cardinality(Q) = Cardinality(R) + Places(k)
  <2>1. CASE k.pc \in Placing
    BY <1>3, <1>5, <2>1 DEF Places
  <2>2. CASE k.pc \notin Placing
    <3>1. Places(k) = 0 /\ Q = R
      BY <1>3, <2>2 DEF Places
    <3>. QED
      BY <1>4, <3>1
  <2>. QED
    BY <2>1, <2>2
<1>8. Len(bets) + Cardinality(P) <= requests
  BY DEF Counted, P, Placers
<1>9. /\ Len(bets) \in Nat /\ requests \in Nat /\ Len(bets') \in Nat
      /\ Places(k) \in Int /\ Places(call[c]) \in Int
  BY DEF TypeOK, Places
<1>10. Len(bets') + Cardinality(Q) <= requests'
  BY <1>4, <1>6, <1>7, <1>8, <1>9
<1>. QED
  BY <1>10 DEF Counted, Q

\* Unless requests overlap, c's is the only one.
Lonely(c) == ~overlapped' => ~overlapped /\ Alone(c)

\* An action of c's leads to record k: what to check.
LEMMA Going ==
  ASSUME Inv, NEW c \in Clients, NEW k \in Calls, call' = [call EXCEPT ![c] = k], Lonely(c),
         balance' \in Int \cup {NoWallet}, bets' \in Seq(Bets), ledger' \in Seq(Entries),
         requests' \in 0 .. MaxRequests, overlapped' \in BOOLEAN, wasReset' \in BOOLEAN,
         Len(bets') + Places(k) - requests' <= Len(bets) + Places(call[c]) - requests,
         Books', DOMAIN bets \subseteq DOMAIN bets', balance # NoWallet => balance' # NoWallet,
         Stands(k)', ~overlapped' => Single' /\ Current(k)'
  PROVE  Inv'
<1>1. Counted'
  <2>1. requests' \in Nat
    BY LimitAssumption
  <2>. QED
    BY <2>1, CountedKeeps DEF Inv
<1>2. /\ call \in [Clients -> Calls] /\ call'[c] = k
      /\ call' \in [Clients -> Calls]
      /\ \A d \in Clients : d # c => call'[d] = call[d]
  BY DEF Inv, TypeOK
<1>3. TypeOK'
  <2>1. Len(bets') <= MaxRequests
    <3> DEFINE n == Cardinality({d \in Clients : call'[d].pc \in Placing})
    <3>1. IsFiniteSet({d \in Clients : call'[d].pc \in Placing})
      BY ClientAssumption, FS_Subset
    <3>2. n \in Nat
      BY <3>1, FS_CardinalityType
    <3>3. Len(bets') + n <= requests'
      BY <1>1 DEF Counted
    <3> HIDE DEF n
    <3>4. Len(bets') \in Nat /\ requests' \in Int /\ MaxRequests \in Int /\ requests' <= MaxRequests
      BY LimitAssumption
    <3>. QED
      BY <3>2, <3>3, <3>4
  <2>. QED
    BY <1>2, <2>1 DEF TypeOK
<1>4. ASSUME NEW d \in Clients PROVE Stands(call[d])'
  <2>1. CASE d = c
    BY <1>2, <2>1 DEF Stands
  <2>2. CASE d # c
    <3>1. Stands(call[d]) /\ call'[d] = call[d]
      BY <1>2, <2>2 DEF Inv
    <3>. QED
      BY <3>1 DEF Stands
  <2>. QED
    BY <2>1, <2>2
<1>5. ASSUME ~overlapped' PROVE Undisturbed'
  <2>1. \A d \in Clients : d # c => call'[d] = Idle
    BY <1>2, <1>5 DEF Lonely, Alone
  <2>2. Single' /\ Current(k)'
    BY <1>5
  <2>3. ASSUME NEW d \in Clients, call'[d] # Idle PROVE Alone(d)' /\ Current(call[d])'
    <3>1. d = c
      BY <2>1, <2>3
    <3>2. Alone(d)'
      BY <2>1, <3>1 DEF Alone
    <3>3. Current(call[d])'
      BY <1>2, <2>2, <3>1 DEF Current, OpenBets, Exposure, Seeds
    <3>. QED
      BY <3>2, <3>3
  <2>. QED
    BY <2>2, <2>3 DEF Undisturbed
<1>. QED
  BY <1>1, <1>3, <1>4, <1>5 DEF Inv, Books

LEMMA IdleIs ==
  /\ Idle \in Calls /\ Idle.pc = "idle" /\ Places(Idle) = 0
  /\ Stands(Idle) /\ Current(Idle) /\ Stands(Idle)' /\ Current(Idle)'
BY DEF Idle, Calls, Places, Placing, Stands, Current

\* A step of c's that changes no row.
LEMMA GoingAside ==
  ASSUME Inv, NEW c \in Clients, NEW k \in Calls, call' = [call EXCEPT ![c] = k], Lonely(c),
         UNCHANGED <<Rows, wasReset>>, overlapped' \in BOOLEAN,
         \/ requests' = requests /\ Places(k) <= Places(call[c])
         \/ requests' = requests + 1 /\ requests < MaxRequests,
         Stands(k), ~overlapped' => Current(k)
  PROVE  Inv'
<1>1. balance' = balance /\ bets' = bets /\ ledger' = ledger /\ wasReset' = wasReset
  BY DEF Rows
<1>2. /\ TypeOK /\ Books
      /\ ~overlapped => Single
  BY DEF Inv, Books, Undisturbed
<1>3. Books'
  BY <1>2, RowsBooks
<1>4. requests' \in 0 .. MaxRequests
  BY <1>2, LimitAssumption DEF TypeOK
<1>5. Len(bets') + Places(k) - requests' <= Len(bets) + Places(call[c]) - requests
  <2>1. Places(k) \in 0 .. 1 /\ Places(call[c]) \in 0 .. 1 /\ requests \in Int /\ Len(bets) \in Int
    BY <1>2 DEF TypeOK, Places
  <2>. QED
    BY <1>1, <2>1
<1>6. Stands(k)'
  BY <1>1 DEF Stands
<1>7. ASSUME ~overlapped' PROVE Single' /\ Current(k)'
  <2>1. Single /\ Current(k)
    BY <1>2, <1>7 DEF Lonely
  <2>2. Single'
    BY <1>1, <2>1 DEF Single
  <2>3. Current(k)'
    BY <1>1, <2>1 DEF Current, OpenBets, Exposure, Seeds
  <2>. QED
    BY <2>2, <2>3
<1>8. balance' \in Int \cup {NoWallet} /\ bets' \in Seq(Bets) /\ ledger' \in Seq(Entries) /\ wasReset' \in BOOLEAN
  BY <1>1, <1>2 DEF TypeOK
<1>. QED
  BY <1>1, <1>3, <1>4, <1>5, <1>6, <1>7, <1>8, Going

\* The open bets of a run are counted and added up in numbers.
LEMMA Tallied ==
  ASSUME TypeOK, NEW r
  PROVE  /\ IsFiniteSet(OpenBets(r)) /\ Cardinality(OpenBets(r)) \in Nat
         /\ Exposure(r) \in Int
         /\ \A b \in DOMAIN bets : bets[b].amount \in Int
<1>1. IsFiniteSet(OpenBets(r))
  <2>1. IsFiniteSet(DOMAIN bets)
    <3>1. DOMAIN bets = 1 .. Len(bets) /\ Len(bets) \in Int /\ 1 \in Int
      BY DEF TypeOK
    <3>. QED
      BY <3>1, FS_Interval
  <2>. QED
    BY <2>1, FS_Subset DEF OpenBets
<1>2. \A b \in DOMAIN bets : bets[b].amount \in Int
  <2>1. \A b \in DOMAIN bets : bets[b] \in Bets
    BY DEF TypeOK
  <2>2. \A b \in DOMAIN bets : bets[b].amount \in Amounts
    BY <2>1 DEF Bets
  <2>. QED
    BY <2>2, Numbers
<1>3. \A b \in OpenBets(r) : [d \in DOMAIN bets |-> bets[d].amount][b] \in Int
  BY <1>2 DEF OpenBets
<1>4. Exposure(r) \in Int
  BY <1>1, <1>3, TotalSame DEF Exposure
<1>. QED
  BY <1>1, <1>2, <1>4, FS_CardinalityType

-----------------------------------------------------------------------------
(* Action by action.                                                       *)

LEMMA StepLonely ==
  ASSUME Inv, NEW c \in Clients, call[c] # Idle, overlapped' = overlapped
  PROVE  /\ Lonely(c) /\ overlapped' \in BOOLEAN
         /\ ~overlapped' => ~overlapped /\ Single /\ Current(call[c])
<1>1. overlapped' \in BOOLEAN
  BY DEF Inv, TypeOK
<1>2. ~overlapped' => ~overlapped /\ Single /\ Alone(c) /\ Current(call[c])
  BY DEF Inv, Undisturbed
<1>. QED
  BY <1>1, <1>2 DEF Lonely

LEMMA ArriveLonely ==
  ASSUME Inv, NEW c \in Clients, Arrive(c)
  PROVE  /\ Lonely(c) /\ overlapped' \in BOOLEAN /\ call[c] = Idle
         /\ requests' = requests + 1 /\ requests < MaxRequests
         /\ ~overlapped' => ~overlapped /\ Single
<1>1. /\ call[c] = Idle /\ requests' = requests + 1 /\ requests < MaxRequests
      /\ overlapped' = (overlapped \/ \E d \in Clients : call[d] # Idle)
  BY DEF Arrive
<1>2. overlapped' \in BOOLEAN
  BY <1>1
<1>3. ~overlapped' => ~overlapped /\ \A d \in Clients : call[d] = Idle
  BY <1>1
<1>4. ~overlapped => Single
  BY DEF Inv, Undisturbed
<1>. QED
  BY <1>1, <1>2, <1>3, <1>4 DEF Lonely, Alone

LEMMA CallIs ==
  ASSUME TypeOK, NEW c \in Clients
  PROVE  /\ call[c] \in Calls
         /\ call[c].pc \in Placing => call[c].run \in Runs /\ call[c].amount \in Amounts
         /\ call[c].pc = "seed" => call[c].amount \in Int
<1>1. call[c] \in Calls
  BY DEF TypeOK
<1>. QED
  BY <1>1 DEF Calls, Idle, Placing

LEMMA NotIdle == \A k : k.pc # "idle" => k # Idle
BY DEF Idle

LEMMA RequestOpenKeeps ==
  ASSUME Inv, NEW c \in Clients, NEW r \in Runs, NEW a \in Amounts, RequestOpen(c, r, a),
         wasReset' = wasReset
  PROVE  Inv'
<1>1. PICK k : k = [pc |-> "limits", run |-> r, amount |-> a]
  OBVIOUS
<1>2. k \in Calls /\ Stands(k) /\ Current(k)
  BY <1>1 DEF Calls, Stands, Current
<1>3. Arrive(c) /\ call' = [call EXCEPT ![c] = k] /\ UNCHANGED <<Rows, wasReset>>
  BY <1>1 DEF RequestOpen, Continue
<1>. QED
  BY <1>2, <1>3, ArriveLonely, GoingAside

LEMMA SettleLaterKeeps ==
  ASSUME Inv, NEW c \in Clients, NEW open, NEW settled, SettleLater(c, open, settled),
         open \cup settled # {}, open \cup settled \subseteq DOMAIN bets,
         \A b \in open : bets[b].status = "OPEN", wasReset' = wasReset
  PROVE  Inv'
<1>1. PICK k : k = [pc |-> "settle", open |-> open, settled |-> settled]
  OBVIOUS
<1>2. DOMAIN bets \subseteq BetIds
  BY LimitAssumption DEF Inv, TypeOK, BetIds
<1>3. k \in Calls /\ Stands(k) /\ Current(k)
  BY <1>1, <1>2 DEF Calls, Stands, Current
<1>4. Arrive(c) /\ call' = [call EXCEPT ![c] = k] /\ UNCHANGED <<Rows, wasReset>>
  BY <1>1 DEF SettleLater, Continue
<1>. QED
  BY <1>3, <1>4, ArriveLonely, GoingAside

LEMMA SettlesKeep ==
  ASSUME Inv, NEW c \in Clients, wasReset' = wasReset,
         \/ \E b \in DOMAIN bets : SettleBet(c, b)
         \/ \E r \in Runs : SettleRun(c, r)
         \/ \E r \in Runs, open, settled \in SUBSET DOMAIN bets : SettleScript(c, r, open, settled)
  PROVE  Inv'
<1>1. CASE \E b \in DOMAIN bets : SettleBet(c, b)
  <2>1. PICK b \in DOMAIN bets : SettleBet(c, b)
    BY <1>1
  <2>2. SettleLater(c, {b}, {}) /\ bets[b].status = "OPEN"
    BY <2>1 DEF SettleBet
  <2>3. {b} \cup {} # {} /\ {b} \cup {} \subseteq DOMAIN bets /\ \A d \in {b} : bets[d].status = "OPEN"
    BY <2>2
  <2>. QED
    BY <2>2, <2>3, SettleLaterKeeps
<1>2. CASE \E r \in Runs : SettleRun(c, r)
  <2>1. PICK r \in Runs : SettleRun(c, r)
    BY <1>2
  <2>2. PICK open : open = OpenBets(r)
    OBVIOUS
  <2>3. SettleLater(c, open, {}) /\ open # {}
    BY <2>1, <2>2 DEF SettleRun
  <2>4. open \cup {} # {} /\ open \cup {} \subseteq DOMAIN bets /\ \A d \in open : bets[d].status = "OPEN"
    BY <2>2, <2>3 DEF OpenBets
  <2>. QED
    BY <2>3, <2>4, SettleLaterKeeps
<1>3. CASE \E r \in Runs, open, settled \in SUBSET DOMAIN bets : SettleScript(c, r, open, settled)
  <2>1. PICK r \in Runs, open \in SUBSET DOMAIN bets, settled \in SUBSET DOMAIN bets :
             SettleScript(c, r, open, settled)
    BY <1>3
  <2>2. SettleLater(c, open, settled) /\ open \cup settled # {} /\ open \subseteq OpenBets(r)
    BY <2>1 DEF SettleScript
  <2>3. open \cup settled \subseteq DOMAIN bets /\ \A d \in open : bets[d].status = "OPEN"
    BY <2>2 DEF OpenBets
  <2>. QED
    BY <2>2, <2>3, SettleLaterKeeps
<1>. QED
  BY <1>1, <1>2, <1>3

LEMMA RequestWalletKeeps ==
  ASSUME Inv, NEW c \in Clients, RequestWallet(c), wasReset' = wasReset
  PROVE  Inv'
<1>1. PICK k : k = [pc |-> "createWallet"]
  OBVIOUS
<1>2. k \in Calls /\ Stands(k) /\ Current(k)
  BY <1>1 DEF Calls, Stands, Current
<1>3. Arrive(c) /\ call' = [call EXCEPT ![c] = k] /\ UNCHANGED <<Rows, wasReset>>
  BY <1>1 DEF RequestWallet, Continue
<1>. QED
  BY <1>2, <1>3, ArriveLonely, GoingAside

LEMMA RequestListKeeps ==
  ASSUME Inv, NEW c \in Clients, RequestList(c), wasReset' = wasReset
  PROVE  Inv'
<1>1. PICK k : k = [pc |-> "readWallet"]
  OBVIOUS
<1>2. k \in Calls /\ Stands(k) /\ Current(k)
  BY <1>1 DEF Calls, Stands, Current, RequestList
<1>3. Arrive(c) /\ call' = [call EXCEPT ![c] = k] /\ UNCHANGED <<Rows, wasReset>>
  BY <1>1 DEF RequestList, Continue
<1>. QED
  BY <1>2, <1>3, ArriveLonely, GoingAside

\* A request ends, its rows unchanged.
LEMMA DoneKeeps ==
  ASSUME Inv, NEW c \in Clients, call[c] # Idle, Done(c), UNCHANGED <<Rows, wasReset, requests, overlapped>>
  PROVE  Inv'
<1>1. call' = [call EXCEPT ![c] = Idle]
  BY DEF Done, Continue
<1>2. Places(Idle) <= Places(call[c])
  BY IdleIs DEF Places
<1>. QED
  BY <1>1, <1>2, IdleIs, StepLonely, GoingAside

LEMMA CheckLimitsKeeps ==
  ASSUME Inv, NEW c \in Clients, CheckLimits(c), UNCHANGED <<overlapped, wasReset>>
  PROVE  Inv'
<1>1. PICK k \in Calls : k = call[c]
  BY CallIs DEF Inv
<1>2. k.pc = "limits" /\ UNCHANGED <<Rows, requests>>
  BY <1>1 DEF CheckLimits
<1>3. k.run \in Runs /\ k.amount \in Amounts /\ call[c] # Idle
  BY <1>1, <1>2, CallIs, NotIdle DEF Inv, Placing
<1>4. CASE Cardinality(OpenBets(k.run)) >= MaxOpenBets \/ Exposure(k.run) + k.amount > MaxOpenExposure
  <2>1. Done(c)
    BY <1>1, <1>4 DEF CheckLimits
  <2>. QED
    BY <1>2, <1>3, <2>1, DoneKeeps
<1>5. CASE ~(Cardinality(OpenBets(k.run)) >= MaxOpenBets \/ Exposure(k.run) + k.amount > MaxOpenExposure)
  <2>1. PICK l : l = [k EXCEPT !.pc = "funds"]
    OBVIOUS
  <2>2. l \in Calls /\ l.pc = "funds" /\ l.run = k.run /\ l.amount = k.amount
    BY <1>1, <1>2, <2>1 DEF Calls, Idle
  <2>3. call' = [call EXCEPT ![c] = l]
    BY <1>1, <1>5, <2>1 DEF CheckLimits, Continue
  <2>4. Cardinality(OpenBets(k.run)) < MaxOpenBets /\ Exposure(k.run) + k.amount <= MaxOpenExposure
    <3>1. Cardinality(OpenBets(k.run)) \in Int /\ Exposure(k.run) \in Int
      BY Tallied DEF Inv
    <3>2. k.amount \in Int /\ MaxOpenBets \in Int /\ MaxOpenExposure \in Int
      BY <1>3, Numbers, LimitAssumption
    <3>. QED
      BY <1>5, <3>1, <3>2
  <2>5. Stands(l) /\ Current(l) /\ Places(l) <= Places(call[c])
    BY <1>1, <1>2, <2>2, <2>4 DEF Stands, Current, Places, Placing
  <2>. QED
    BY <1>2, <1>3, <2>2, <2>3, <2>5, StepLonely, GoingAside
<1>. QED
  BY <1>4, <1>5

LEMMA CheckFundsKeeps ==
  ASSUME Inv, NEW c \in Clients, CheckFunds(c), UNCHANGED <<overlapped, wasReset>>
  PROVE  Inv'
<1> DEFINE funds == IF balance = NoWallet THEN InitialBalance ELSE balance
           pc == IF balance = NoWallet THEN "openFirst" ELSE "open"
<1>1. PICK k \in Calls : k = call[c]
  BY CallIs DEF Inv
<1>2. k.pc = "funds" /\ UNCHANGED <<Rows, requests>>
  BY <1>1 DEF CheckFunds
<1>3. k.run \in Runs /\ k.amount \in Amounts /\ call[c] # Idle
  BY <1>1, <1>2, CallIs, NotIdle DEF Inv, Placing
<1>4. CASE funds < k.amount
  <2>1. Done(c)
    BY <1>1, <1>4 DEF CheckFunds
  <2>. QED
    BY <1>2, <1>3, <2>1, DoneKeeps
<1>5. CASE ~(funds < k.amount)
  <2>1. PICK l : l = [k EXCEPT !.pc = pc]
    OBVIOUS
  <2>2. pc \in {"open", "openFirst"} /\ (pc = "openFirst" <=> balance = NoWallet)
    OBVIOUS
  <2>3. call' = [call EXCEPT ![c] = l]
    BY <1>1, <1>5, <2>1 DEF CheckFunds, Continue
  <2>4. funds >= k.amount
    BY <1>3, <1>5, Numbers DEF Inv, TypeOK
  <2>5. funds = (IF pc = "openFirst" THEN InitialBalance ELSE balance)
    OBVIOUS
  <2> HIDE DEF pc, funds
  <2>6. l \in Calls /\ l.pc = pc /\ l.run = k.run /\ l.amount = k.amount
    BY <1>1, <1>2, <2>1, <2>2 DEF Calls, Idle
  <2>7. ~overlapped' => Current(k)
    BY <1>1, <1>3, StepLonely
  <2>8. ~overlapped' => Current(l)
    BY <1>2, <2>2, <2>4, <2>5, <2>6, <2>7 DEF Current
  <2>9. Stands(l) /\ Places(l) <= Places(call[c])
    BY <1>1, <1>2, <2>2, <2>6 DEF Stands, Places, Placing
  <2>. QED
    BY <1>2, <1>3, <2>3, <2>6, <2>8, <2>9, StepLonely, GoingAside
<1>. QED
  BY <1>4, <1>5

LEMMA ReadWalletKeeps ==
  ASSUME Inv, NEW c \in Clients, ReadWallet(c), UNCHANGED <<overlapped, wasReset>>
  PROVE  Inv'
<1>1. call[c].pc = "readWallet" /\ UNCHANGED <<Rows, requests>> /\ call[c] # Idle
  BY NotIdle DEF ReadWallet
<1>2. CASE balance \in {NoWallet, 0}
  BY <1>1, <1>2, DoneKeeps DEF ReadWallet
<1>3. CASE balance \notin {NoWallet, 0}
  <2>1. PICK l : l = [pc |-> "seed", amount |-> balance]
    OBVIOUS
  <2>2. call' = [call EXCEPT ![c] = l]
    BY <1>3, <2>1 DEF ReadWallet, Continue
  <2>3. balance \in Int
    BY <1>3 DEF Inv, TypeOK
  <2>4. l \in Calls /\ l.pc = "seed"
    BY <2>1, <2>3 DEF Calls
  <2>5. ~overlapped' => Seeds = {}
    BY <1>1, StepLonely DEF Current
  <2>6. Stands(l) /\ (~overlapped' => Current(l)) /\ Places(l) <= Places(call[c])
    BY <1>1, <1>3, <2>4, <2>5 DEF Stands, Current, Places, Placing
  <2>. QED
    BY <1>1, <2>2, <2>4, <2>6, StepLonely, GoingAside
<1>. QED
  BY <1>2, <1>3

LEMMA AbortKeeps ==
  ASSUME Inv, NEW c \in Clients, Abort(c), UNCHANGED <<overlapped, wasReset>>
  PROVE  Inv'
BY DoneKeeps DEF Abort

\* A bet is the next row of bets.
LEMMA OpenKeeps ==
  ASSUME Inv, NEW c \in Clients, Open(c), UNCHANGED <<overlapped, wasReset>>
  PROVE  Inv'
<1>1. /\ call[c].pc = "open" /\ call[c] # Idle /\ requests' = requests
      /\ call' = [call EXCEPT ![c] = Idle]
  BY NotIdle DEF Open, Done, Continue
<1>2. balance # NoWallet /\ Len(bets) < MaxRequests /\ TypeOK /\ Books
  <2>1. balance # NoWallet
    BY <1>1 DEF Inv, Stands
  <2>2. Len(bets) < MaxRequests
    BY <1>1, Room DEF Inv, Placing
  <2>. QED
    BY <2>1, <2>2 DEF Inv, Books
<1>3. /\ Books' /\ balance' \in Int /\ bets' \in Seq(Bets) /\ ledger' \in Seq(Entries)
      /\ Len(bets') = Len(bets) + 1
  BY <1>2, OpenBooks
<1>4. Len(bets') + Places(Idle) - requests' <= Len(bets) + Places(call[c]) - requests
  <2>1. Places(call[c]) = 1 /\ Len(bets) \in Int /\ requests \in Int
    BY <1>1, <1>2 DEF Places, Placing, TypeOK
  <2>. QED
    BY <1>1, <1>3, <2>1, IdleIs
<1>5. DOMAIN bets \subseteq DOMAIN bets' /\ balance' # NoWallet
  BY <1>2, <1>3, WalletAssumption DEF TypeOK
<1>6. ASSUME ~overlapped' PROVE Single'
  <2>1. Single
    BY <1>1, <1>6, StepLonely
  <2>2. PICK e : e = NewDebit(call[c]) /\ ledger' = Append(ledger, e)
    BY DEF Open
  <2>3. e.type = "BET_DEBIT"
    BY <2>2 DEF NewDebit, Entry
  <2>4. \A n \in DOMAIN ledger' : (n \in DOMAIN ledger /\ ledger'[n] = ledger[n]) \/ ledger'[n] = e
    BY <1>2, <2>2 DEF TypeOK
  <2>. QED
    BY <2>1, <2>3, <2>4 DEF Single
<1>7. requests' \in 0 .. MaxRequests /\ wasReset' \in BOOLEAN
  BY <1>1, <1>2 DEF TypeOK
<1>. QED
  BY <1>1, <1>3, <1>4, <1>5, <1>6, <1>7, IdleIs, StepLonely, Going

LEMMA OpenFirstKeeps ==
  ASSUME Inv, NEW c \in Clients, OpenFirst(c), UNCHANGED <<overlapped, wasReset>>
  PROVE  Inv'
<1>1. /\ call[c].pc = "openFirst" /\ call[c] # Idle /\ requests' = requests /\ Done(c)
      /\ call' = [call EXCEPT ![c] = Idle]
  BY NotIdle DEF OpenFirst, Done, Continue
<1>2. CASE balance # NoWallet
  <2>1. UNCHANGED Rows
    BY <1>2 DEF OpenFirst
  <2>. QED
    BY <1>1, <2>1, DoneKeeps
<1>3. CASE balance = NoWallet
  <2>1. Len(bets) < MaxRequests /\ TypeOK /\ Books
    <3>1. Len(bets) < MaxRequests
      BY <1>1, Room DEF Inv, Placing
    <3>. QED
      BY <3>1 DEF Inv, Books
  <2>2. /\ Books' /\ balance' \in Int /\ bets' \in Seq(Bets) /\ ledger' \in Seq(Entries)
        /\ Len(bets') = Len(bets) + 1
    BY <1>3, <2>1, OpenFirstBooks
  <2>3. Len(bets') + Places(Idle) - requests' <= Len(bets) + Places(call[c]) - requests
    <3>1. Places(call[c]) = 1 /\ Len(bets) \in Int /\ requests \in Int
      BY <1>1, <2>1 DEF Places, Placing, TypeOK
    <3>. QED
      BY <1>1, <2>2, <3>1, IdleIs
  <2>4. DOMAIN bets \subseteq DOMAIN bets'
    BY <2>1, <2>2 DEF TypeOK
  <2>5. Single'
    <3>1. ledger = <<>>
      BY <1>3, <2>1 DEF Books, Walleted
    <3>2. PICK s, e : s = Entry("SEED", InitialBalance, NoBet) /\ e = NewDebit(call[c])
                      /\ ledger' = <<s, e>>
      BY <1>3, <3>1 DEF OpenFirst
    <3>3. s.type = "SEED" /\ e.type = "BET_DEBIT"
      BY <3>2 DEF NewDebit, Entry
    <3>4. DOMAIN ledger' = {1, 2} /\ ledger'[1] = s /\ ledger'[2] = e
      BY <3>2
    <3>. QED
      BY <3>3, <3>4 DEF Single
  <2>6. requests' \in 0 .. MaxRequests /\ wasReset' \in BOOLEAN
    BY <1>1, <2>1 DEF TypeOK
  <2>. QED
    BY <1>1, <1>3, <2>2, <2>3, <2>4, <2>5, <2>6, IdleIs, StepLonely, Going
<1>. QED
  BY <1>2, <1>3

\* A step of c's that leaves the bets alone, and ends its request (if any).
LEMMA GoingOn ==
  ASSUME Inv, NEW c \in Clients, call' = [call EXCEPT ![c] = Idle], Lonely(c),
         balance' \in Int \cup {NoWallet}, balance # NoWallet => balance' # NoWallet,
         bets' \in Seq(Bets), Len(bets') = Len(bets),
         ledger' \in Seq(Entries), Books',
         overlapped' \in BOOLEAN, wasReset' \in BOOLEAN,
         requests' = requests \/ (requests' = requests + 1 /\ requests < MaxRequests),
         ~overlapped' => Single'
  PROVE  Inv'
<1>1. requests' \in 0 .. MaxRequests /\ requests' >= requests
  BY LimitAssumption DEF Inv, TypeOK
<1>2. Len(bets') + Places(Idle) - requests' <= Len(bets) + Places(call[c]) - requests
  <2>1. Places(call[c]) \in 0 .. 1 /\ requests \in Int /\ Len(bets) \in Int
    BY DEF Inv, TypeOK, Places
  <2>. QED
    BY <1>1, <2>1, IdleIs
<1>3. DOMAIN bets \subseteq DOMAIN bets'
  BY DEF Inv, TypeOK
<1>. QED
  BY <1>1, <1>2, <1>3, IdleIs, Going

LEMMA SettleKeeps ==
  ASSUME Inv, NEW c \in Clients, call[c].pc = "settle",
         NEW return \in [call[c].open \cup call[c].settled -> Returns], Settle(c, return),
         UNCHANGED <<overlapped, wasReset>>
  PROVE  Inv'
<1> DEFINE P == {b \in call[c].open : Credit(b, return) # 0}
           T == {CreditEntry(b, return) : b \in P}
<1>1. /\ call[c] # Idle /\ requests' = requests /\ call' = [call EXCEPT ![c] = Idle]
      /\ ledger' = ledger \o SetToSeq(T)
  BY NotIdle DEF Settle, Done, Continue
<1>2. TypeOK /\ Books /\ Stands(call[c])
  BY DEF Inv, Books
<1>3. /\ Books' /\ balance' \in Int /\ bets' \in Seq(Bets) /\ ledger' \in Seq(Entries)
      /\ Len(bets') = Len(bets)
  BY <1>2, SettleBooks
<1>4. balance' # NoWallet /\ wasReset' \in BOOLEAN
  BY <1>2, <1>3, WalletAssumption DEF TypeOK
<1>5. \A e \in T : e.type = "BET_CREDIT" /\ e.bet \in P /\ e = CreditEntry(e.bet, return)
  BY DEF CreditEntry, Entry
<1>6. IsFiniteSet(T)
  <2>1. IsFiniteSet(DOMAIN bets)
    <3>1. DOMAIN bets = 1 .. Len(bets) /\ Len(bets) \in Int /\ 1 \in Int
      BY <1>2 DEF TypeOK
    <3>. QED
      BY <3>1, FS_Interval
  <2>2. P \subseteq DOMAIN bets
    BY <1>2 DEF Stands
  <2>3. IsFiniteSet(P)
    BY <2>1, <2>2, FS_Subset
  <2>4. [b \in P |-> CreditEntry(b, return)] \in Surjection(P, T)
    BY DEF Surjection
  <2>. QED
    BY <2>3, <2>4, FS_Surjection
<1>7. P \subseteq call[c].open
  OBVIOUS
<1> HIDE DEF P, T
<1>8. ASSUME ~overlapped' PROVE Single'
  <2>1. Single /\ \A b \in call[c].open : bets[b].status = "OPEN"
    BY <1>1, <1>8, StepLonely DEF Current
  <2>2. PICK q : q = SetToSeq(T)
    OBVIOUS
  <2>3. q \in Seq(T) /\ \A i, j \in DOMAIN q : q[i] = q[j] => i = j
    BY <1>6, <2>2, Listing
  <2>4. \A i \in DOMAIN q : q[i].type = "BET_CREDIT" /\ q[i].bet \in P /\ q[i] = CreditEntry(q[i].bet, return)
    <3>1. \A i \in DOMAIN q : q[i] \in T
      BY <2>3
    <3>. QED
      BY <1>5, <3>1
  <2>5. \A n \in DOMAIN ledger : ledger[n].type = "BET_CREDIT" => ledger[n].bet \notin P
    <3>1. \A n \in DOMAIN ledger : ledger[n].type = "BET_CREDIT" => bets[ledger[n].bet].status = "SETTLED"
      BY <1>2 DEF Books, Listed
    <3>. QED
      BY <1>7, <2>1, <3>1
  <2>6. /\ \A n \in DOMAIN ledger : ledger'[n] = ledger[n]
        /\ \A n \in DOMAIN ledger' \ DOMAIN ledger :
             n - Len(ledger) \in DOMAIN q /\ ledger'[n] = q[n - Len(ledger)]
    BY <1>1, <1>2, <2>2, <2>3, <1>3 DEF TypeOK
  <2>7. ASSUME NEW m \in DOMAIN ledger', NEW n \in DOMAIN ledger', ledger'[m].type = ledger'[n].type,
               \/ ledger'[m].type = "SEED"
               \/ ledger'[m].type = "BET_CREDIT" /\ ledger'[m].bet = ledger'[n].bet
        PROVE  m = n
    <3>1. CASE m \in DOMAIN ledger /\ n \in DOMAIN ledger
      BY <2>1, <2>6, <2>7, <3>1 DEF Single
    <3>2. CASE m \in DOMAIN ledger /\ n \notin DOMAIN ledger
      BY <2>4, <2>5, <2>6, <2>7, <3>2
    <3>3. CASE m \notin DOMAIN ledger /\ n \in DOMAIN ledger
      BY <2>4, <2>5, <2>6, <2>7, <3>3
    <3>4. CASE m \notin DOMAIN ledger /\ n \notin DOMAIN ledger
      <4>1. q[m - Len(ledger)] = q[n - Len(ledger)]
        BY <2>4, <2>6, <2>7, <3>4
      <4>2. m - Len(ledger) = n - Len(ledger)
        BY <2>3, <2>6, <3>4, <4>1
      <4>3. m \in Int /\ n \in Int /\ Len(ledger) \in Int
        BY <1>2, <1>3 DEF TypeOK
      <4>. QED
        BY <4>2, <4>3
    <3>. QED
      BY <3>1, <3>2, <3>3, <3>4
  <2>. QED
    BY <2>7 DEF Single
<1>. QED
  BY <1>1, <1>3, <1>4, <1>8, StepLonely, GoingOn

LEMMA CreateWalletKeeps ==
  ASSUME Inv, NEW c \in Clients, CreateWallet(c), UNCHANGED <<overlapped, wasReset>>
  PROVE  Inv'
<1>1. /\ call[c].pc = "createWallet" /\ call[c] # Idle /\ requests' = requests /\ Done(c)
      /\ call' = [call EXCEPT ![c] = Idle]
  BY NotIdle DEF CreateWallet, Done, Continue
<1>2. TypeOK /\ Books
  BY DEF Inv, Books
<1>3. CASE balance # NoWallet
  <2>1. UNCHANGED Rows
    BY <1>3 DEF CreateWallet
  <2>. QED
    BY <1>1, <2>1, DoneKeeps
<1>4. CASE balance = NoWallet
  <2>1. Books' /\ balance' \in Int /\ bets' = bets /\ ledger' \in Seq(Entries)
    BY <1>2, <1>4, CreateWalletBooks
  <2>2. Single'
    <3>1. ledger = <<>>
      BY <1>2, <1>4 DEF Books, Walleted
    <3>2. \E s : ledger' = <<s>>
      BY <1>4, <3>1 DEF CreateWallet
    <3>3. \A m, n \in DOMAIN ledger' : m = n
      BY <3>2
    <3>. QED
      BY <3>3 DEF Single
  <2>3. bets' \in Seq(Bets) /\ wasReset' \in BOOLEAN
    BY <1>2, <2>1 DEF TypeOK
  <2>. QED
    BY <1>1, <1>4, <2>1, <2>2, <2>3, StepLonely, GoingOn
<1>. QED
  BY <1>3, <1>4

LEMMA InsertSeedKeeps ==
  ASSUME Inv, NEW c \in Clients, InsertSeed(c), UNCHANGED <<overlapped, wasReset>>
  PROVE  Inv'
<1>1. /\ call[c].pc = "seed" /\ call[c] # Idle /\ requests' = requests
      /\ call' = [call EXCEPT ![c] = Idle]
  BY NotIdle DEF InsertSeed, Done, Continue
<1>2. TypeOK /\ Books /\ balance # NoWallet
  BY <1>1 DEF Inv, Books, Stands
<1>3. Books' /\ balance' = balance /\ bets' = bets /\ ledger' \in Seq(Entries)
  BY <1>2, InsertSeedBooks
<1>4. ASSUME ~overlapped' PROVE Single'
  <2>1. Single /\ Seeds = {}
    BY <1>1, <1>4, StepLonely DEF Current
  <2>2. PICK e : e = Entry("SEED", call[c].amount, NoBet) /\ ledger' = Append(ledger, e)
    BY DEF InsertSeed
  <2>3. e.type = "SEED"
    BY <2>2 DEF Entry
  <2>4. \A n \in DOMAIN ledger' : (n \in DOMAIN ledger /\ ledger'[n] = ledger[n]) \/ (n = Len(ledger) + 1 /\ ledger'[n] = e)
    BY <1>2, <2>2 DEF TypeOK
  <2>5. \A n \in DOMAIN ledger : ledger[n].type # "SEED"
    BY <2>1 DEF Seeds
  <2>. QED
    BY <2>1, <2>3, <2>4, <2>5 DEF Single
<1>5. bets' \in Seq(Bets) /\ wasReset' \in BOOLEAN /\ balance' \in Int \cup {NoWallet}
  BY <1>2, <1>3 DEF TypeOK
<1>. QED
  BY <1>1, <1>2, <1>3, <1>4, <1>5, StepLonely, GoingOn

LEMMA SelfIdle ==
  ASSUME TypeOK, NEW c \in Clients, call[c] = Idle, call' = call
  PROVE  call' = [call EXCEPT ![c] = Idle]
BY DEF TypeOK

LEMMA AdjustKeeps ==
  ASSUME Inv, NEW c \in Clients, NEW a \in Adjustments, Adjust(c, a), wasReset' = wasReset
  PROVE  Inv'
<1>1. TypeOK /\ Books /\ Arrive(c) /\ call' = call
  BY DEF Inv, Books, Adjust
<1>2. call' = [call EXCEPT ![c] = Idle]
  BY <1>1, ArriveLonely, SelfIdle
<1>3. Books' /\ balance' \in Int /\ bets' = bets /\ ledger' \in Seq(Entries)
  BY <1>1, AdjustBooks
<1>4. ASSUME ~overlapped' PROVE Single'
  <2>1. Single
    BY <1>1, <1>4, ArriveLonely
  <2>2. PICK e : e = Entry("ADJUSTMENT", a, NoBet) /\ ledger' = Append(ledger, e)
    BY DEF Adjust
  <2>3. e.type = "ADJUSTMENT"
    BY <2>2 DEF Entry
  <2>4. \A n \in DOMAIN ledger' : (n \in DOMAIN ledger /\ ledger'[n] = ledger[n]) \/ ledger'[n] = e
    BY <1>1, <2>2 DEF TypeOK
  <2>. QED
    BY <2>1, <2>3, <2>4 DEF Single
<1>5. bets' \in Seq(Bets) /\ wasReset' \in BOOLEAN /\ balance' # NoWallet
  BY <1>1, <1>3, WalletAssumption DEF TypeOK
<1>. QED
  BY <1>1, <1>2, <1>3, <1>4, <1>5, ArriveLonely, GoingOn

LEMMA ResetKeeps ==
  ASSUME Inv, NEW c \in Clients, NEW a \in Resets, Reset(c, a)
  PROVE  Inv'
<1>1. TypeOK /\ Books /\ Arrive(c) /\ call' = call /\ wasReset' \in BOOLEAN
  BY DEF Inv, Books, Reset
<1>2. call' = [call EXCEPT ![c] = Idle]
  BY <1>1, ArriveLonely, SelfIdle
<1>3. Books' /\ balance' \in Int /\ bets' = bets /\ ledger' = ledger
  BY <1>1, ResetBooks
<1>4. ASSUME ~overlapped' PROVE Single'
  <2>1. Single
    BY <1>1, <1>4, ArriveLonely
  <2>. QED
    BY <1>3, <2>1 DEF Single
<1>5. bets' \in Seq(Bets) /\ ledger' \in Seq(Entries) /\ balance' # NoWallet
  BY <1>1, <1>3, WalletAssumption DEF TypeOK
<1>. QED
  BY <1>1, <1>2, <1>3, <1>4, <1>5, ArriveLonely, GoingOn

-----------------------------------------------------------------------------
LEMMA InitInv == Init => Inv
<1> SUFFICES ASSUME Init PROVE Inv
  OBVIOUS
<1>1. /\ balance = NoWallet /\ bets = <<>> /\ ledger = <<>>
      /\ call = [c \in Clients |-> Idle] /\ requests = 0 /\ overlapped = FALSE /\ wasReset = FALSE
  BY DEF Init
<1>2. TypeOK
  <2>1. call \in [Clients -> Calls]
    BY <1>1, IdleIs
  <2>2. Len(bets) = 0 /\ 0 <= MaxRequests /\ requests \in 0 .. MaxRequests
    BY <1>1, LimitAssumption
  <2>3. bets \in Seq(Bets) /\ ledger \in Seq(Entries)
    BY <1>1
  <2>4. overlapped \in BOOLEAN /\ wasReset \in BOOLEAN
    BY <1>1
  <2>. QED
    BY <1>1, <2>1, <2>2, <2>3, <2>4 DEF TypeOK
<1>3. Counted
  <2>1. {c \in Clients : call[c].pc \in Placing} = {}
    BY <1>1, IdleIs DEF Placing
  <2>2. Cardinality({}) = 0 /\ Len(bets) = 0
    BY <1>1, FS_EmptySet
  <2>3. Cardinality({c \in Clients : call[c].pc \in Placing}) = 0
    BY <2>1, <2>2
  <2>. QED
    BY <1>1, <2>2, <2>3 DEF Counted
<1>4. Walleted /\ MoneyConserved /\ Staked /\ Listed /\ Single
  BY <1>1 DEF Walleted, MoneyConserved, Staked, Listed, Single
<1>5. \A c \in Clients : call[c] = Idle /\ Stands(call[c])
  BY <1>1, IdleIs
<1>. QED
  BY <1>2, <1>3, <1>4, <1>5 DEF Inv, Undisturbed

LEMMA StepKeeps ==
  ASSUME Inv, NEW c \in Clients, Step(c), UNCHANGED <<overlapped, wasReset>>
  PROVE  Inv'
<1>1. CASE CheckLimits(c)
  BY <1>1, CheckLimitsKeeps
<1>2. CASE CheckFunds(c)
  BY <1>2, CheckFundsKeeps
<1>3. CASE Open(c)
  BY <1>3, OpenKeeps
<1>4. CASE OpenFirst(c)
  BY <1>4, OpenFirstKeeps
<1>5. CASE call[c].pc = "settle"
           /\ \E return \in [call[c].open \cup call[c].settled -> Returns] : Settle(c, return)
  BY <1>5, SettleKeeps
<1>6. CASE CreateWallet(c)
  BY <1>6, CreateWalletKeeps
<1>7. CASE ReadWallet(c)
  BY <1>7, ReadWalletKeeps
<1>8. CASE InsertSeed(c)
  BY <1>8, InsertSeedKeeps
<1>9. CASE Abort(c)
  BY <1>9, AbortKeeps
<1>. QED
  BY <1>1, <1>2, <1>3, <1>4, <1>5, <1>6, <1>7, <1>8, <1>9 DEF Step

LEMMA RequestKeeps ==
  ASSUME Inv, NEW c \in Clients, Request(c), wasReset' = wasReset
  PROVE  Inv'
<1>1. CASE \E r \in Runs, a \in Amounts : RequestOpen(c, r, a)
  BY <1>1, RequestOpenKeeps
<1>2. CASE \/ \E b \in DOMAIN bets : SettleBet(c, b)
           \/ \E r \in Runs : SettleRun(c, r)
           \/ \E r \in Runs, open, settled \in SUBSET DOMAIN bets : SettleScript(c, r, open, settled)
  BY <1>2, SettlesKeep
<1>3. CASE RequestWallet(c)
  BY <1>3, RequestWalletKeeps
<1>4. CASE RequestList(c)
  BY <1>4, RequestListKeeps
<1>5. CASE \E a \in Adjustments : Adjust(c, a)
  BY <1>5, AdjustKeeps
<1>. QED
  BY <1>1, <1>2, <1>3, <1>4, <1>5 DEF Request

LEMMA NextInv == Inv /\ [Next]_vars => Inv'
<1> SUFFICES ASSUME Inv, [Next]_vars PROVE Inv'
  OBVIOUS
<1>1. CASE UNCHANGED vars
  <2>1. /\ balance' = balance /\ bets' = bets /\ ledger' = ledger /\ call' = call
        /\ requests' = requests /\ overlapped' = overlapped /\ wasReset' = wasReset
    BY <1>1 DEF vars
  <2>2. Books'
    BY <2>1, RowsBooks DEF Inv, Books, Rows
  <2>3. TypeOK' /\ Counted'
    BY <2>1 DEF Inv, TypeOK, Counted
  <2>4. \A c \in Clients : Stands(call[c])'
    BY <2>1 DEF Inv, Stands
  <2>5. ASSUME ~overlapped' PROVE Undisturbed'
    <3>1. Single'
      BY <2>1, <2>5 DEF Inv, Undisturbed, Single
    <3>2. ASSUME NEW c \in Clients, call'[c] # Idle PROVE Alone(c)' /\ Current(call[c])'
      <4>1. Alone(c) /\ Current(call[c])
        BY <2>1, <2>5, <3>2 DEF Inv, Undisturbed
      <4>2. Alone(c)'
        BY <2>1, <4>1 DEF Alone
      <4>3. Current(call[c])'
        BY <2>1, <4>1 DEF Current, OpenBets, Exposure, Seeds
      <4>. QED
        BY <4>2, <4>3
    <3>. QED
      BY <3>1, <3>2 DEF Undisturbed
  <2>. QED
    BY <2>2, <2>3, <2>4, <2>5 DEF Inv, Books
<1>2. ASSUME NEW c \in Clients, Step(c), UNCHANGED <<overlapped, wasReset>> PROVE Inv'
  BY <1>2, StepKeeps
<1>3. ASSUME NEW c \in Clients, Request(c), UNCHANGED wasReset PROVE Inv'
  BY <1>3, RequestKeeps
<1>4. ASSUME NEW c \in Clients, NEW a \in Resets, Reset(c, a) PROVE Inv'
  BY <1>4, ResetKeeps
<1>. QED
  BY <1>1, <1>2, <1>3, <1>4 DEF Next

LEMMA InvAlways == Spec => []Inv
BY InitInv, NextInv, PTL DEF Spec

-----------------------------------------------------------------------------
\* Every variable of the model, and so every column of a row, every field of a
\* request in progress and the bound on bets, keeps its type.
THEOREM TypeCorrect == Spec => []TypeOK
<1>1. Inv => TypeOK
  BY DEF Inv
<1>. QED
  BY <1>1, InvAlways, PTL

\* The balance is the opening balance and all movements of the ledger, for any
\* number of clients, requests, bets and amounts: of the fold over the ledger,
\* not of a bounded sum.
THEOREM MoneyIsConserved == Spec => []MoneyConserved
<1>1. Inv => MoneyConserved
  BY DEF Inv
<1>. QED
  BY <1>1, InvAlways, PTL

\* Whatever overlaps, each bet has the one BET_DEBIT of its stake, and a bet
\* that has been paid out is SETTLED.
THEOREM StakesAndDebits == Spec => []StakesAreDebited
<1>1. ASSUME Inv PROVE StakesAreDebited
  <2>1. Staked /\ Listed
    BY <1>1 DEF Inv
  <2>2. ASSUME NEW b \in DOMAIN bets
        PROVE  /\ \E n \in EntriesOf("BET_DEBIT", b) : ledger[n].amount = - bets[b].amount
               /\ Cardinality(EntriesOf("BET_DEBIT", b)) = 1
    <3>1. PICK n \in DOMAIN ledger :
               /\ ledger[n] = Entry("BET_DEBIT", - bets[b].amount, b)
               /\ \A m \in DOMAIN ledger : ledger[m].type = "BET_DEBIT" /\ ledger[m].bet = b => m = n
      BY <2>1 DEF Staked
    <3>2. EntriesOf("BET_DEBIT", b) = {n} /\ ledger[n].amount = - bets[b].amount
      BY <3>1 DEF EntriesOf, Entry
    <3>. QED
      BY <3>2, FS_Singleton
  <2>3. \A n \in DOMAIN ledger :
          ledger[n].type = "BET_CREDIT" => bets[ledger[n].bet].status = "SETTLED"
    BY <2>1 DEF Listed
  <2>. QED
    BY <2>2, <2>3 DEF StakesAreDebited
<1>. QED
  BY <1>1, InvAlways, PTL

\* A set of which any two members are the same has at most one.
LEMMA AtMostOne ==
  ASSUME NEW S, \A m, n \in S : m = n
  PROVE  Cardinality(S) <= 1
<1>1. CASE S = {}
  BY <1>1, FS_EmptySet
<1>2. CASE S # {}
  <2>1. PICK x : S = {x}
    BY <1>2
  <2>. QED
    BY <2>1, FS_Singleton
<1>. QED
  BY <1>1, <1>2

\* Requests that never overlap, resettlements by --force among them, credit no
\* bet twice and give the ledger no second SEED.
THEOREM OnceWhenAlone == Spec => []OnceAlone
<1>1. ASSUME Inv, ~overlapped PROVE CreditedOnce /\ Cardinality(Seeds) <= 1
  <2>1. Single
    BY <1>1 DEF Inv, Undisturbed
  <2>2. ASSUME NEW b \in DOMAIN bets PROVE Cardinality(EntriesOf("BET_CREDIT", b)) <= 1
    <3>1. \A m, n \in EntriesOf("BET_CREDIT", b) : m = n
      BY <2>1 DEF Single, EntriesOf
    <3>. QED
      BY <3>1, AtMostOne
  <2>3. \A m, n \in Seeds : m = n
    BY <2>1 DEF Single, Seeds
  <2>. QED
    BY <2>2, <2>3, AtMostOne DEF CreditedOnce
<1>2. Inv => OnceAlone
  BY <1>1 DEF OnceAlone
<1>. QED
  BY <1>2, InvAlways, PTL

-----------------------------------------------------------------------------
(* Bets within the limits.                                                 *)

\* A new bet counts among the open ones of its run, with its stake.
LEMMA Counts ==
  ASSUME TypeOK, NEW k, k.run \in Runs, k.amount \in Amounts, bets' = Append(bets, NewBet(k))
  PROVE  /\ Cardinality(OpenBets(k.run)') = Cardinality(OpenBets(k.run)) + 1
         /\ Exposure(k.run)' = Exposure(k.run) + k.amount
<1> DEFINE x == Len(bets) + 1
           r == k.run
           O == OpenBets(r)
           f == [b \in DOMAIN bets |-> bets[b].amount]
           g == [b \in DOMAIN bets' |-> bets'[b].amount]
<1>1. /\ DOMAIN bets' = DOMAIN bets \cup {x} /\ x \notin DOMAIN bets
      /\ \A b \in DOMAIN bets : bets'[b] = bets[b]
      /\ bets'[x] = NewBet(k)
  BY DEF TypeOK
<1>2. OpenBets(r)' = O \cup {x} /\ x \notin O
  <2>1. NewBet(k).run = r /\ NewBet(k).status = "OPEN"
    BY DEF NewBet
  <2> HIDE DEF x
  <2>. QED
    BY <1>1, <2>1 DEF OpenBets
<1>3. IsFiniteSet(O) /\ Cardinality(O) \in Nat /\ \A b \in DOMAIN bets : bets[b].amount \in Int
  BY Tallied
<1>4. /\ \A b \in O : f[b] \in Int /\ g[b] = f[b]
      /\ \A b \in O \cup {x} : g[b] \in Int
      /\ g[x] = k.amount
  <2>1. O \subseteq DOMAIN bets
    BY DEF OpenBets
  <2>2. k.amount \in Int /\ NewBet(k).amount = k.amount
    BY Numbers DEF NewBet
  <2> HIDE DEF x, O
  <2>3. \A b \in O : f[b] = bets[b].amount /\ g[b] = bets[b].amount
    BY <1>1, <2>1
  <2>4. g[x] = k.amount
    BY <1>1, <2>2
  <2>. QED
    BY <1>3, <2>1, <2>2, <2>3, <2>4
<1>5. Exposure(r) = Total(f, O) /\ Exposure(r)' = Total(g, O \cup {x})
  BY <1>2 DEF Exposure
<1> HIDE DEF f, g, x, O
<1>6. Total(g, O \cup {x}) = Total(g, O) + g[x]
  BY <1>2, <1>3, <1>4, TotalAdds
<1>7. Total(g, O) = Total(f, O)
  BY <1>3, <1>4, TotalSame
<1>8. Cardinality(O \cup {x}) = Cardinality(O) + 1
  BY <1>2, <1>3, FS_AddElement
<1>. QED
  BY <1>2, <1>4, <1>5, <1>6, <1>7, <1>8 DEF O

Allowed ==
    ~overlapped /\ Len(bets') > Len(bets) =>
         /\ balance' >= 0
         /\ \A r \in Runs : r = bets'[Len(bets')].run =>
              Cardinality(OpenBets(r)') <= MaxOpenBets /\ Exposure(r)' <= MaxOpenExposure

\* Only Open and OpenFirst place a bet.
LEMMA OpenAllowed ==
  ASSUME Inv, NEW c \in Clients, Open(c) \/ OpenFirst(c)
  PROVE  Allowed
<1> SUFFICES ASSUME ~overlapped, Len(bets') > Len(bets)
             PROVE  /\ balance' >= 0
                    /\ \A r \in Runs : r = bets'[Len(bets')].run =>
                         Cardinality(OpenBets(r)') <= MaxOpenBets /\ Exposure(r)' <= MaxOpenExposure
  BY DEF Allowed
<1>1. PICK k : k = call[c]
  OBVIOUS
<1>2. k.pc \in {"open", "openFirst"} /\ call[c] # Idle
  BY <1>1, NotIdle DEF Open, OpenFirst
<1>3. k.run \in Runs /\ k.amount \in Amounts /\ k.amount \in Int /\ TypeOK
  BY <1>1, <1>2, CallIs, Numbers DEF Inv, Placing
<1>4. Current(k)
  BY <1>1, <1>2 DEF Inv, Undisturbed
<1>5. bets' = Append(bets, NewBet(k))
  <2>1. Len(bets) \in Int
    BY <1>3 DEF TypeOK
  <2>. QED
    BY <1>1, <2>1 DEF Open, OpenFirst, Rows
<1>6. bets'[Len(bets')].run = k.run
  <2>1. bets'[Len(bets')] = NewBet(k)
    BY <1>3, <1>5 DEF TypeOK
  <2>. QED
    BY <2>1 DEF NewBet
<1>7. balance' >= 0
  <2>1. CASE Open(c)
    <3>1. k.pc = "open" /\ balance' = balance - k.amount
      BY <1>1, <2>1 DEF Open
    <3>2. balance >= k.amount /\ balance # NoWallet
      BY <1>1, <1>4, <3>1 DEF Current, Inv, Stands
    <3>3. balance \in Int
      BY <1>3, <3>2 DEF TypeOK
    <3>. QED
      BY <1>3, <3>1, <3>2, <3>3
  <2>2. CASE OpenFirst(c)
    <3>1. balance = NoWallet /\ InitialBalance >= k.amount
      BY <1>1, <1>4, <2>2 DEF Current, OpenFirst
    <3>2. balance' = InitialBalance - k.amount
      BY <1>1, <2>2, <3>1 DEF OpenFirst
    <3>. QED
      BY <1>3, <3>1, <3>2, Numbers
  <2>. QED
    BY <2>1, <2>2
<1>8. Cardinality(OpenBets(k.run)') <= MaxOpenBets /\ Exposure(k.run)' <= MaxOpenExposure
  <2>1. Cardinality(OpenBets(k.run)) < MaxOpenBets /\ Exposure(k.run) + k.amount <= MaxOpenExposure
    BY <1>2, <1>4 DEF Current
  <2>2. /\ Cardinality(OpenBets(k.run)') = Cardinality(OpenBets(k.run)) + 1
        /\ Exposure(k.run)' = Exposure(k.run) + k.amount
    BY <1>3, <1>5, Counts
  <2>3. Cardinality(OpenBets(k.run)) \in Int /\ MaxOpenBets \in Int
    BY <1>3, Tallied, LimitAssumption
  <2>. QED
    BY <2>1, <2>2, <2>3
<1>9. ASSUME NEW r \in Runs, r = bets'[Len(bets')].run
      PROVE  Cardinality(OpenBets(r)') <= MaxOpenBets /\ Exposure(r)' <= MaxOpenExposure
  <2>1. r = k.run
    BY <1>6, <1>9
  <2>. QED
    BY <1>8, <2>1 DEF OpenBets, Exposure
<1>. QED
  BY <1>7, <1>9

LEMMA OthersAllowed ==
  ASSUME Inv, Len(bets') = Len(bets)
  PROVE  Allowed
<1>1. Len(bets) \in Int
  BY DEF Inv, TypeOK
<1>. QED
  BY <1>1 DEF Allowed

LEMMA SettleCounts ==
  ASSUME Inv, NEW c \in Clients, call[c].pc = "settle",
         NEW return \in [call[c].open \cup call[c].settled -> Returns], Settle(c, return)
  PROVE  Len(bets') = Len(bets)
<1> DEFINE B == call[c].open \cup call[c].settled
<1>1. B \in SUBSET DOMAIN bets /\ return \in [B -> Returns]
  BY DEF Inv, Stands
<1>2. bets' = Settled(B, return)
  BY DEF Settle
<1> HIDE DEF B
<1>. QED
  BY <1>1, <1>2, SettledRows DEF Inv, TypeOK

\* A request that meets no other never exceeds the number of open bets, the
\* exposure or the balance: what it checked still holds when it writes.
THEOREM OpensWithinLimits == Spec => OpensAreAllowed
<1>1. ASSUME Inv, [Next]_vars PROVE [Allowed]_bets
  <2>1. CASE UNCHANGED vars
    BY <2>1 DEF vars
  <2>2. ASSUME NEW c \in Clients, Step(c) PROVE Allowed \/ bets' = bets
    <3>1. CASE Open(c) \/ OpenFirst(c)
      BY <1>1, <3>1, OpenAllowed
    <3>2. CASE call[c].pc = "settle"
               /\ \E return \in [call[c].open \cup call[c].settled -> Returns] : Settle(c, return)
      BY <1>1, <3>2, SettleCounts, OthersAllowed
    <3>3. CASE CheckLimits(c) \/ CheckFunds(c) \/ CreateWallet(c) \/ ReadWallet(c) \/ InsertSeed(c) \/ Abort(c)
      BY <3>3 DEF CheckLimits, CheckFunds, CreateWallet, ReadWallet, InsertSeed, Abort, Rows
    <3>. QED
      BY <2>2, <3>1, <3>2, <3>3 DEF Step
  <2>3. ASSUME NEW c \in Clients, Request(c) PROVE bets' = bets
    BY <2>3 DEF Request, RequestOpen, SettleBet, SettleRun, SettleScript, SettleLater, RequestWallet,
                RequestList, Adjust, Rows
  <2>4. ASSUME NEW c \in Clients, NEW a \in Resets, Reset(c, a) PROVE bets' = bets
    BY <2>4 DEF Reset
  <2>. QED
    BY <1>1, <2>1, <2>2, <2>3, <2>4 DEF Next
<1>2. Inv /\ [Next]_vars => [Allowed]_bets
  BY <1>1
<1>. QED
  BY <1>2, InvAlways, PTL DEF Spec, OpensAreAllowed, Allowed
=============================================================================
