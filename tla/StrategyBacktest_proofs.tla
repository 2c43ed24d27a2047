---------------------- MODULE StrategyBacktest_proofs ----------------------
(***************************************************************************)
(* Theorems about StrategyBacktest for any symbols, prices, horizon,       *)
(* thresholds and caps.                                                    *)
(*                                                                         *)
(* The invariant says only that a symbol's bars are rows of the table in   *)
(* the order of their days; that trades are entered before they are closed *)
(* follows.  The rest is about what the model computes of a history: its   *)
(* recursive functions are shown to exist and to stay in a set (Computed,  *)
(* Stays), the sort to be a bijection between events and places, and the   *)
(* sweep to open, at each event, what its selected trades are between      *)
(* their enter and their exit (Swept).                                     *)
(***************************************************************************)
EXTENDS StrategyBacktest, FiniteSetTheorems, WellFoundedInduction, TLAPS

\* A row of MarketPrice with what the agents made of it.
Rows == [close : Nat \ {0}, score : Int, conviction : Nat, day : Nat]

TypeOK ==
    /\ history \in [Names -> Seq(Rows)]
    /\ day \in Nat

\* The bars of a symbol are of different days, in order, and none is of a day to come.
InOrder ==
    \A s \in Names : \A i \in 1 .. Len(history[s]) :
      /\ history[s][i].day <= day
      /\ \A j \in 1 .. i - 1 : history[s][j].day < history[s][i].day

Inv == TypeOK /\ InOrder

LEMMA InitInv == Init => Inv
<1> SUFFICES ASSUME Init PROVE Inv
  OBVIOUS
<1>1. \A s \in Names : history[s] = <<>> /\ Len(history[s]) = 0
  BY DEF Init
<1>2. history \in [Names -> Seq(Rows)]
  BY DEF Init
<1>. QED
  BY <1>1, <1>2 DEF Init, Inv, TypeOK, InOrder

\* A day leaves the bars of a symbol, or appends one of that day to them or, in a
\* new dataset, to the last of them.
LEMMA Grows ==
  ASSUME Inv, NEW S \in SUBSET Names, NEW bars \in [S -> Bars],
         NEW lacks \in [S -> 0 .. MaxDays], \A s \in S : lacks[s] <= Len(history[s]),
         Close(bars, lacks), NEW s \in Names
  PROVE  /\ history'[s] \in Seq(Rows)
         /\ \/ history'[s] = history[s]
            \/ \E d \in 0 .. Len(history[s]) :
                 /\ Len(history'[s]) = Len(history[s]) - d + 1
                 /\ \A i \in 1 .. Len(history[s]) - d : history'[s][i] = history[s][i + d]
                 /\ history'[s][Len(history[s]) - d + 1].day = day + 1
<1>1. history[s] \in Seq(Rows) /\ day \in Nat
  BY DEF Inv, TypeOK
<1>2. history'[s] = IF s \in S
                    THEN Append(SubSeq(history[s], lacks[s] + 1, Len(history[s])),
                                Dated(bars[s], day + 1))
                    ELSE history[s]
  BY DEF Close
<1>3. CASE s \in S
  <2> DEFINE d == lacks[s]
             kept == SubSeq(history[s], d + 1, Len(history[s]))
             row == Dated(bars[s], day + 1)
  <2>1. row \in Rows
    <3>1. bars[s] \in Bars
      BY <1>3
    <3>. QED
      BY <3>1, <1>1, BarAssumption DEF Dated, Rows
  <2>2. row.day = day + 1
    BY DEF Dated
  <2>3. d \in 0 .. Len(history[s])
    BY <1>1, <1>3
  <2>4. history'[s] = Append(kept, row)
    BY <1>2, <1>3
  <2> HIDE DEF d, row
  <2>5. /\ kept \in Seq(Rows) /\ Len(kept) = Len(history[s]) - d
        /\ \A i \in 1 .. Len(history[s]) - d : kept[i] = history[s][i + d]
    BY <1>1, <2>3
  <2> HIDE DEF kept
  <2>6. /\ history'[s] \in Seq(Rows) /\ Len(history'[s]) = Len(history[s]) - d + 1
        /\ \A i \in 1 .. Len(kept) : history'[s][i] = kept[i]
        /\ history'[s][Len(kept) + 1] = row
    BY <2>1, <2>4, <2>5
  <2>. QED
    BY <2>2, <2>3, <2>5, <2>6
<1>4. CASE s \notin S
  BY <1>1, <1>2, <1>4
<1>. QED
  BY <1>3, <1>4

LEMMA NextInv == Inv /\ [Next]_vars => Inv'
<1> SUFFICES ASSUME Inv, [Next]_vars PROVE Inv'
  OBVIOUS
<1>1. CASE UNCHANGED vars
  BY <1>1 DEF vars, Inv, TypeOK, InOrder
<1>2. ASSUME NEW S \in SUBSET Names, NEW bars \in [S -> Bars],
             NEW lacks \in [S -> 0 .. MaxDays], \A s \in S : lacks[s] <= Len(history[s]),
             Close(bars, lacks)
      PROVE  Inv'
  <2>1. day' = day + 1 /\ day \in Nat
    BY <1>2 DEF Close, Inv, TypeOK
  <2>2. history' \in [Names -> Seq(Rows)]
    <3>1. DOMAIN history' = Names /\ history' = [s \in Names |-> history'[s]]
      BY <1>2 DEF Close
    <3>. QED
      BY <3>1, <1>2, Grows
  <2>3. ASSUME NEW s \in Names, NEW i \in 1 .. Len(history'[s])
        PROVE  /\ history'[s][i].day <= day + 1
               /\ \A j \in 1 .. i - 1 : history'[s][j].day < history'[s][i].day
    <3>1. history[s] \in Seq(Rows) /\ Len(history[s]) \in Nat
      BY DEF Inv, TypeOK
    <3>2. ASSUME NEW k \in 1 .. Len(history[s])
          PROVE  /\ history[s][k].day \in Nat /\ history[s][k].day <= day
                 /\ \A l \in 1 .. k - 1 : history[s][l].day < history[s][k].day
      <4>1. history[s][k] \in Rows
        BY <3>1
      <4>. QED
        BY <4>1 DEF Rows, Inv, InOrder
    <3> HIDE DEF Close
    <3>3. CASE history'[s] = history[s]
      BY <2>1, <3>2, <3>3
    <3>4. ASSUME NEW d \in 0 .. Len(history[s]),
                 Len(history'[s]) = Len(history[s]) - d + 1,
                 \A k \in 1 .. Len(history[s]) - d : history'[s][k] = history[s][k + d],
                 history'[s][Len(history[s]) - d + 1].day = day + 1
          PROVE  /\ history'[s][i].day <= day + 1
                 /\ \A j \in 1 .. i - 1 : history'[s][j].day < history'[s][i].day
      <4>1. ASSUME NEW k \in 1 .. Len(history[s]) - d
            PROVE  history'[s][k] = history[s][k + d] /\ k + d \in 1 .. Len(history[s])
        BY <3>1, <3>4
      <4>2. CASE i \in 1 .. Len(history[s]) - d
        <5>1. history'[s][i].day <= day
          BY <3>2, <4>1, <4>2
        <5>2. ASSUME NEW j \in 1 .. i - 1 PROVE history'[s][j].day < history'[s][i].day
          <6>1. j \in 1 .. Len(history[s]) - d /\ j + d \in 1 .. (i + d) - 1
            BY <3>1, <4>2
          <6>2. history[s][j + d].day < history[s][i + d].day
            BY <3>2, <4>1, <4>2, <6>1
          <6>. QED
            BY <4>1, <4>2, <6>1, <6>2
        <5>3. history'[s][i].day \in Nat
          BY <3>2, <4>1, <4>2
        <5>. QED
          BY <2>1, <5>1, <5>2, <5>3
      <4>3. CASE i \notin 1 .. Len(history[s]) - d
        <5>1. i = Len(history[s]) - d + 1
          BY <3>1, <3>4, <4>3
        <5>2. history'[s][i].day = day + 1
          BY <3>4, <5>1
        <5>3. ASSUME NEW j \in 1 .. i - 1 PROVE history'[s][j].day < history'[s][i].day
          <6>1. j \in 1 .. Len(history[s]) - d
            BY <3>1, <5>1
          <6>2. history'[s][j].day \in Nat /\ history'[s][j].day <= day
            BY <3>2, <4>1, <6>1
          <6>. QED
            BY <2>1, <5>2, <6>2
        <5>. QED
          BY <2>1, <5>2, <5>3
      <4>. QED
        BY <4>2, <4>3
    <3>. QED
      BY <1>2, <3>3, <3>4, Grows
  <2>. QED
    BY <2>1, <2>2, <2>3 DEF Inv, TypeOK, InOrder
<1>. QED
  BY <1>1, <1>2 DEF Next

-----------------------------------------------------------------------------
(* Least and largest, and what a recursive function computes.              *)

\* A set of numbers that is not empty has a least element.
LEMMA MinIs ==
  ASSUME NEW T \in SUBSET Nat, T # {}
  PROVE  Min(T) \in T /\ \A x \in T : Min(T) <= x
<1> DEFINE R == OpToRel(<, Nat)
<1>1. PICK m \in T : \A k \in T : <<k, m>> \notin R
  <2>1. IsWellFoundedOn(R, Nat)
    BY NatLessThanWellFounded
  <2> HIDE DEF R
  <2>. QED
    BY <2>1, WFMin
<1>2. \A k \in T : ~(k < m)
  BY <1>1 DEF OpToRel
<1>3. \A k \in T : m <= k
  BY <1>2
<1>. QED
  BY <1>3 DEF Min

\* A set of numbers up to c that is not empty has a largest element.
LEMMA MaxIs ==
  ASSUME NEW c \in Nat, NEW T \in SUBSET (0 .. c), T # {}
  PROVE  Max(T) \in T /\ \A x \in T : x <= Max(T)
<1> DEFINE R == {y \in 0 .. c : c - y \in T}
<1>0. \A x \in T : x \in Int /\ c - x \in R
  <2>1. ASSUME NEW x \in T PROVE x \in Int /\ c - x \in R
    <3>1. x \in 0 .. c
      OBVIOUS
    <3>2. c - x \in 0 .. c /\ c - (c - x) = x
      BY <3>1
    <3>. QED
      BY <3>1, <3>2
  <2>. QED
    BY <2>1
<1>1. R \in SUBSET Nat /\ R # {}
  <2>1. R \subseteq Nat
    OBVIOUS
  <2>2. PICK x \in T : TRUE
    OBVIOUS
  <2>. QED
    BY <1>0, <2>1, <2>2
<1>2. Min(R) \in R /\ \A y \in R : Min(R) <= y
  <2> HIDE DEF R
  <2>. QED
    BY <1>1, MinIs
<1>3. PICK n \in R : \A y \in R : n <= y
  BY <1>2
<1>4. c - n \in T /\ \A x \in T : c - n >= x
  <2>1. n \in 0 .. c /\ c - n \in T
    BY <1>3
  <2>2. ASSUME NEW x \in T PROVE c - n >= x
    <3>1. n <= c - x /\ x \in Int
      BY <1>0, <1>3
    <3>. QED
      BY <2>1, <3>1
  <2>. QED
    BY <2>1, <2>2
<1>5. Max(T) \in T /\ \A x \in T : Max(T) >= x
  BY <1>4 DEF Max
<1>6. \A x \in T : x \in Int
  BY <1>0
<1>. QED
  BY <1>5, <1>6

\* Induction up to L, of a property given by the set of those who have it.
LEMMA Induct ==
  ASSUME NEW L \in Nat, NEW P, 0 \in P, \A n \in 1 .. L : n - 1 \in P => n \in P
  PROVE  \A n \in 0 .. L : n \in P
<1> DEFINE T == {n \in 0 .. L : n \notin P}
<1> SUFFICES ASSUME T # {} PROVE FALSE
  OBVIOUS
<1>1. T \subseteq Nat
  OBVIOUS
<1>2. Min(T) \in T /\ \A n \in T : Min(T) <= n
  <2> HIDE DEF T
  <2>. QED
    BY <1>1, MinIs
<1>3. PICK m \in T : \A n \in T : m <= n
  BY <1>2
<1>4. m \in 1 .. L /\ m - 1 \in 0 .. L /\ ~(m <= m - 1)
  OBVIOUS
<1>5. m - 1 \notin T
  BY <1>3, <1>4
<1>. QED
  BY <1>4, <1>5

\* From b, step by step, a function f is computed up to L.
Computes(f, b, step, L) == f[0] = b /\ \A n \in 1 .. L : f[n] = step[<<n, f[n - 1]>>]

\* While the steps stay in V there is such a function.
LEMMA Computed ==
  ASSUME NEW L \in Nat, NEW V, NEW b \in V, NEW step,
         \A n \in 1 .. L : \A v \in V : step[<<n, v>>] \in V
  PROVE  \E f \in [0 .. L -> V] : Computes(f, b, step, L)
<1> DEFINE P == {l \in 0 .. L : \E f \in [0 .. l -> V] : Computes(f, b, step, l)}
<1>1. 0 \in P
  <2>1. [n \in 0 .. 0 |-> b] \in [0 .. 0 -> V] /\ Computes([n \in 0 .. 0 |-> b], b, step, 0)
    BY DEF Computes
  <2>. QED
    BY <2>1
<1>2. ASSUME NEW l \in 1 .. L, l - 1 \in P PROVE l \in P
  <2>1. PICK f \in [0 .. l - 1 -> V] : Computes(f, b, step, l - 1)
    BY <1>2
  <2> DEFINE g == [n \in 0 .. l |-> IF n = l THEN step[<<l, f[l - 1]>>] ELSE f[n]]
  <2>2. f[l - 1] \in V
    OBVIOUS
  <2>3. g \in [0 .. l -> V]
    BY <2>2
  <2>4. \A n \in 0 .. l - 1 : g[n] = f[n]
    OBVIOUS
  <2>5. g[l] = step[<<l, f[l - 1]>>]
    OBVIOUS
  <2> HIDE DEF g
  <2>6. Computes(g, b, step, l)
    <3>1. g[0] = b
      BY <2>1, <2>4 DEF Computes
    <3>2. ASSUME NEW n \in 1 .. l PROVE g[n] = step[<<n, g[n - 1]>>]
      <4>1. CASE n = l
        BY <2>4, <2>5, <4>1
      <4>2. CASE n # l
        <5>1. n \in 1 .. l - 1 /\ n - 1 \in 0 .. l - 1 /\ n \in 0 .. l - 1
          BY <4>2
        <5>. QED
          BY <5>1, <2>1, <2>4 DEF Computes
      <4>. QED
        BY <4>1, <4>2
    <3>. QED
      BY <3>1, <3>2 DEF Computes
  <2>. QED
    BY <2>3, <2>6
<1>3. L \in P
  <2> HIDE DEF P
  <2>. QED
    BY <1>1, <1>2, Induct
<1>. QED
  BY <1>3

\* Whatever goes from b by those steps, while it is in V, stays in V.
LEMMA Stays ==
  ASSUME NEW L \in Nat, NEW V, NEW b \in V, NEW step,
         \A n \in 1 .. L : \A v \in V : step[<<n, v>>] \in V,
         NEW f, f[0] = b, \A n \in 1 .. L : f[n - 1] \in V => f[n] = step[<<n, f[n - 1]>>]
  PROVE  Computes(f, b, step, L) /\ \A n \in 0 .. L : f[n] \in V
<1> DEFINE P == {n \in 0 .. L : f[n] \in V}
<1>1. 0 \in P
  OBVIOUS
<1>2. ASSUME NEW n \in 1 .. L, n - 1 \in P PROVE n \in P
  <2>1. f[n] = step[<<n, f[n - 1]>>] /\ f[n - 1] \in V
    BY <1>2
  <2>. QED
    BY <2>1
<1>3. \A n \in 0 .. L : n \in P
  <2> HIDE DEF P
  <2>. QED
    BY <1>1, <1>2, Induct
<1>4. \A n \in 1 .. L : n - 1 \in 0 .. L
  OBVIOUS
<1>. QED
  BY <1>3, <1>4 DEF Computes

-----------------------------------------------------------------------------
(* No look-ahead.                                                          *)

\* Bars that extend a dataset leave those there are where they are.
LEMMA BarsStay ==
  ASSUME Inv, Inv', NEW s \in Names, Extended(s)
  PROVE  /\ Len(history[s]) \in Nat /\ Len(history'[s]) \in Nat
         /\ Len(history'[s]) >= Len(history[s])
         /\ \A k \in 1 .. Len(history[s]) : history'[s][k] = history[s][k]
<1> DEFINE h == history[s]
           g == history'[s]
<1>1. h \in Seq(Rows) /\ g \in Seq(Rows)
  BY DEF Inv, TypeOK
<1>2. Len(g) >= Len(h) /\ SubSeq(g, 1, Len(h)) = h
  BY DEF Extended
<1> HIDE DEF h, g
<1>3. \A k \in 1 .. Len(h) : SubSeq(g, 1, Len(h))[k] = g[k]
  BY <1>1, <1>2
<1>4. Len(h) \in Nat /\ Len(g) \in Nat /\ Len(g) >= Len(h) /\ \A k \in 1 .. Len(h) : g[k] = h[k]
  BY <1>1, <1>2, <1>3
<1>. QED
  BY <1>4 DEF h, g

\* What is decided on a day, and how a trade ends, follows from the bars up to
\* then: the operators of the model in any two histories that share them.
LEMMA SameDecision ==
  ASSUME Inv, Inv', NEW s \in Names, Extended(s), NEW i \in 1 .. Len(history[s])
  PROVE  Enters(s, i)' <=> Enters(s, i)
<1>1. /\ Len(history[s]) \in Nat
      /\ \A k \in 1 .. Len(history[s]) : history'[s][k] = history[s][k]
  BY BarsStay
<1>2. \A k \in 1 .. Len(history[s]) : AbsScore(s, k)' = AbsScore(s, k)
  BY <1>1 DEF AbsScore
<1>3. Window(s, i)' = Window(s, i)
  BY DEF Window
<1>4. Window(s, i) \subseteq 1 .. Len(history[s])
  BY <1>1, StrategyAssumption DEF Window
<1>5. {k \in Window(s, i) : AbsScore(s, k) < Threshold}'
      = {k \in Window(s, i) : AbsScore(s, k) < Threshold}
  BY <1>2, <1>3, <1>4
<1>6. ProbabilityNeutral(s, i)' = ProbabilityNeutral(s, i)
  BY <1>3, <1>5 DEF ProbabilityNeutral
<1>. QED
  BY <1>1, <1>2, <1>6 DEF Enters

\* How a trade that was closed ends is the same, too.
LEMMA SameResult ==
  ASSUME Inv, Inv', NEW s \in Names, Extended(s),
         NEW i \in 1 .. Len(history[s]), i + Horizon <= Len(history[s])
  PROVE  Result(Trade(s, i))' = Result(Trade(s, i))
<1>1. \A k \in 1 .. Len(history[s]) : history'[s][k] = history[s][k]
  BY BarsStay
<1>2. Len(history[s]) \in Nat /\ Horizon \in Nat \ {0}
  BY StrategyAssumption DEF Inv, TypeOK
<1>3. Trade(s, i)' = Trade(s, i)
  <2>1. i + Horizon \in 1 .. Len(history[s])
    BY <1>2
  <2>. QED
    BY <1>1, <2>1 DEF Trade, AbsScore
<1> DEFINE t == Trade(s, i)
<1>4. t.symbol = s /\ t.entry = i
  BY DEF Trade
<1>5. ASSUME NEW d \in 0 .. Horizon PROVE Bar(t, d)' = Bar(t, d)
  <2>1. i + d \in 1 .. Len(history[s])
    BY <1>2
  <2>. QED
    BY <1>1, <1>3, <1>4, <2>1 DEF Bar
<1>6. \A d \in 0 .. Horizon : RawReturn(t, d)' = RawReturn(t, d)
  BY <1>2, <1>5 DEF RawReturn
<1>7. Stops(t)' = Stops(t)
  BY <1>2, <1>3, <1>5, <1>6 DEF Stops
<1>8. Stops(t) \subseteq 1 .. Horizon
  BY DEF Stops
<1> DEFINE last == IF Stops(t) = {} THEN Horizon ELSE Min(Stops(t))
<1>9. last \in 0 .. Horizon
  <2>1. Stops(t) # {} => Min(Stops(t)) \in 1 .. Horizon
    BY <1>2, <1>8, MinIs
  <2>. QED
    BY <1>2, <2>1
<1>10. last' = last
  BY <1>7
<1> HIDE DEF t, last
<1>11. RawReturn(t, last)' = RawReturn(t, last) /\ Bar(t, 0)' = Bar(t, 0)
  <2>1. \A d \in 0 .. Horizon : RawReturn(t, d)' = RawReturn(t, d)
    BY <1>6
  <2>. QED
    BY <1>2, <1>5, <1>9, <1>10, <2>1
<1>12. Result(t) = [trade |-> IF Stops(t) # {} THEN -3 * Bar(t, 0).close
                              ELSE IF t.isLong THEN RawReturn(t, last) ELSE - RawReturn(t, last),
                    benchmark |-> RawReturn(t, last)]
  BY DEF Result, last
<1>13. t' = t
  BY <1>3 DEF t
<1>14. Result(t)' = [trade |-> IF Stops(t)' # {} THEN -3 * Bar(t, 0)'.close
                               ELSE IF t'.isLong THEN RawReturn(t, last)' ELSE - RawReturn(t, last)',
                     benchmark |-> RawReturn(t, last)']
  BY DEF Result, last
<1>. QED
  BY <1>7, <1>11, <1>12, <1>13, <1>14 DEF t

\* "No look-ahead": no later bar of the same dataset changes that a symbol is
\* traded, whether a day was one to enter on or what a trade that was closed
\* returned.
THEOREM NoLookAheadEver == Spec => NoLookAhead
<1> DEFINE Same(s) ==
             /\ Tradable(s)'
             /\ \A i \in 1 .. Len(history[s]) :
                  /\ Enters(s, i)' <=> Enters(s, i)
                  /\ i + Horizon <= Len(history[s]) /\ Enters(s, i)
                     => Result(Trade(s, i))' = Result(Trade(s, i))
<1>1. ASSUME Inv, Inv', NEW s \in Names, Tradable(s), Extended(s) PROVE Same(s)
  <2>1. Tradable(s)'
    BY <1>1, BarsStay, StrategyAssumption DEF Tradable
  <2>2. ASSUME NEW i \in 1 .. Len(history[s]) PROVE Enters(s, i)' <=> Enters(s, i)
    BY <1>1, SameDecision
  <2>3. ASSUME NEW i \in 1 .. Len(history[s]), i + Horizon <= Len(history[s])
        PROVE  Result(Trade(s, i))' = Result(Trade(s, i))
    BY <1>1, <2>3, SameResult
  <2>. QED
    BY <2>1, <2>2, <2>3
<1> HIDE DEF Same
<1>2. Inv /\ Inv' /\ [Next]_vars => [\A s \in Names : Tradable(s) /\ Extended(s) => Same(s)]_vars
  BY <1>1
<1>3. NoLookAhead <=> [][\A s \in Names : Tradable(s) /\ Extended(s) => Same(s)]_vars
  BY DEF NoLookAhead, Same
<1>. QED
  BY <1>2, <1>3, InitInv, NextInv, PTL DEF Spec

-----------------------------------------------------------------------------
(* The trades.                                                             *)

\* The trades of a history: of a symbol and an entry at least Horizon bars ago.
IsTrade(t) ==
    \E s \in Names : \E i \in 1 .. Len(history[s]) :
      i + Horizon <= Len(history[s]) /\ t = Trade(s, i)
Made == {t \in {Trade(s, i) : s \in Names, i \in Nat} : IsTrade(t)}

\* The trades of a symbol, and of all of them, are such trades.
LEMMA MadeOf ==
  ASSUME Inv, NEW s \in Names
  PROVE  TradesOf(s) \in Seq(Made)
<1> DEFINE L == Len(history[s])
           V == Seq(Made)
           Goes(i) == i + Horizon <= Len(history[s]) /\ Enters(s, i)
           P(made) == made = [i \in 0 .. L |-> IF i = 0 THEN <<>>
                                               ELSE IF Goes(i) THEN Append(made[i - 1], Trade(s, i))
                                               ELSE made[i - 1]]
           step == [p \in (1 .. L) \X V |->
                      IF Goes(p[1]) THEN Append(p[2], Trade(s, p[1])) ELSE p[2]]
           made == CHOOSE f : P(f)
<1>1. L \in Nat
  BY DEF Inv, TypeOK
<1>2. \A i \in 1 .. L : Goes(i) => Trade(s, i) \in Made
  BY <1>1 DEF Made, IsTrade
<1>3. TradesOf(s) = made[L]
  BY DEF TradesOf
<1> HIDE DEF L, Goes
<1>4. \A i \in 1 .. L : \A v \in V : step[<<i, v>>] \in V
  BY <1>2
<1>5. <<>> \in V
  OBVIOUS
<1>6. \A i \in 1 .. L : \A v \in V : step[<<i, v>>] = IF Goes(i) THEN Append(v, Trade(s, i)) ELSE v
  OBVIOUS
<1> HIDE DEF V, step
<1>7. PICK f \in [0 .. L -> V] : Computes(f, <<>>, step, L)
  BY <1>1, <1>4, <1>5, Computed
<1>8. P(f)
  <2>1. \A i \in 1 .. L : i - 1 \in 0 .. L /\ f[i - 1] \in V
    BY <1>1
  <2>2. f[0] = <<>>
    BY <1>7 DEF Computes
  <2>3. \A i \in 1 .. L : f[i] = IF Goes(i) THEN Append(f[i - 1], Trade(s, i)) ELSE f[i - 1]
    BY <1>6, <1>7, <2>1 DEF Computes
  <2>4. \A i \in 0 .. L : i # 0 => i \in 1 .. L
    BY <1>1
  <2>. QED
    BY <2>2, <2>3, <2>4
<1>9. P(made)
  <2> HIDE DEF P
  <2>. QED
    BY <1>8
<1> HIDE DEF made
<1>10. Computes(made, <<>>, step, L) /\ \A i \in 0 .. L : made[i] \in V
  <2>1. made[0] = <<>>
    BY <1>1, <1>9
  <2>2. \A i \in 1 .. L : i \in 0 .. L /\ i # 0
    BY <1>1
  <2>3. \A i \in 1 .. L :
          made[i] = IF Goes(i) THEN Append(made[i - 1], Trade(s, i)) ELSE made[i - 1]
    BY <1>9, <2>2
  <2> HIDE DEF P
  <2>4. ASSUME NEW i \in 1 .. L, made[i - 1] \in V PROVE made[i] = step[<<i, made[i - 1]>>]
    BY <1>6, <2>3, <2>4
  <2>. QED
    BY <1>1, <1>4, <1>5, <2>1, <2>4, Stays
<1>. QED
  BY <1>1, <1>3, <1>10 DEF V

LEMMA MadeAll == Inv => Trades \in Seq(Made)
<1> SUFFICES ASSUME Inv PROVE Trades \in Seq(Made)
  OBVIOUS
<1> DEFINE L == Len(Symbols)
           V == Seq(Made)
           Of(n) == IF Tradable(Symbols[n]) THEN TradesOf(Symbols[n]) ELSE <<>>
           P(made) == made = [n \in 0 .. L |-> IF n = 0 THEN <<>>
                                               ELSE made[n - 1] \o Of(n)]
           step == [p \in (1 .. L) \X V |-> p[2] \o Of(p[1])]
           made == CHOOSE f : P(f)
<1>1. L \in Nat
  BY SymbolAssumption
<1>2. \A n \in 1 .. L : Of(n) \in V
  <2>1. \A n \in 1 .. L : Symbols[n] \in Names
    BY SymbolAssumption DEF Names
  <2>. QED
    BY <2>1, MadeOf
<1>3. Trades = made[L]
  BY DEF Trades
<1> HIDE DEF L, Of
<1>4. \A n \in 1 .. L : \A v \in V : step[<<n, v>>] \in V
  BY <1>2
<1>5. <<>> \in V
  OBVIOUS
<1>6. \A n \in 1 .. L : \A v \in V : step[<<n, v>>] = v \o Of(n)
  OBVIOUS
<1> HIDE DEF V, step
<1>7. PICK f \in [0 .. L -> V] : Computes(f, <<>>, step, L)
  BY <1>1, <1>4, <1>5, Computed
<1>8. P(f)
  <2>1. \A n \in 1 .. L : n - 1 \in 0 .. L /\ f[n - 1] \in V
    BY <1>1
  <2>2. f[0] = <<>>
    BY <1>7 DEF Computes
  <2>3. \A n \in 1 .. L : f[n] = f[n - 1] \o Of(n)
    BY <1>6, <1>7, <2>1 DEF Computes
  <2>4. \A n \in 0 .. L : n # 0 => n \in 1 .. L
    BY <1>1
  <2>. QED
    BY <2>2, <2>3, <2>4
<1>9. P(made)
  <2> HIDE DEF P
  <2>. QED
    BY <1>8
<1> HIDE DEF made
<1>10. made[0] = <<>> /\ \A n \in 1 .. L : made[n] = made[n - 1] \o Of(n)
  <2>1. made[0] = <<>>
    BY <1>1, <1>9
  <2>2. ASSUME NEW n \in 1 .. L PROVE made[n] = made[n - 1] \o Of(n)
    <3>1. n \in 0 .. L /\ n # 0
      BY <1>1
    <3>. QED
      BY <1>9, <3>1
  <2>. QED
    BY <2>1, <2>2
<1> HIDE DEF P
<1>11. L \in {n \in 0 .. L : made[n] \in V}
  <2> DEFINE Q == {n \in 0 .. L : made[n] \in V}
  <2>1. 0 \in Q
    BY <1>1, <1>5, <1>10
  <2>2. ASSUME NEW n \in 1 .. L, n - 1 \in Q PROVE n \in Q
    <3>1. made[n] = step[<<n, made[n - 1]>>]
      BY <1>6, <1>10, <2>2
    <3>2. made[n] \in V
      BY <1>4, <2>2, <3>1
    <3>. QED
      BY <1>1, <3>2
  <2>3. \A n \in 0 .. L : n \in Q
    <3> HIDE DEF Q
    <3>. QED
      BY <1>1, <2>1, <2>2, Induct
  <2>. QED
    BY <1>1, <2>3
<1>. QED
  BY <1>1, <1>3, <1>11 DEF V

-----------------------------------------------------------------------------
(* The stop-loss.                                                          *)

\* A trade closed in the history has the bars it is about.
LEMMA BarsOf ==
  ASSUME Inv, NEW t \in Made
  PROVE  \A d \in 0 .. Horizon : Bar(t, d).close \in Nat \ {0}
<1>0. PICK s \in Names : \E i \in 1 .. Len(history[s]) :
        i + Horizon <= Len(history[s]) /\ t = Trade(s, i)
  BY DEF Made, IsTrade
<1>1. PICK i \in 1 .. Len(history[s]) : i + Horizon <= Len(history[s]) /\ t = Trade(s, i)
  BY <1>0
<1>2. t.symbol = s /\ t.entry = i
  BY <1>1 DEF Trade
<1>3. history[s] \in Seq(Rows) /\ Horizon \in Nat
  BY StrategyAssumption DEF Inv, TypeOK
<1>4. ASSUME NEW d \in 0 .. Horizon PROVE history[s][i + d] \in Rows
  <2>1. i + d \in 1 .. Len(history[s])
    BY <1>1, <1>3
  <2>. QED
    BY <1>3, <2>1
<1>. QED
  BY <1>2, <1>4 DEF Bar, Rows

\* What the stop bounds, of one trade.
LEMMA StopBounds ==
  ASSUME Inv, NEW t \in Made
  PROVE  /\ Result(t).trade >= -3 * Bar(t, 0).close
         /\ t.isLong => Result(t).trade >= Result(t).benchmark
<1> DEFINE last == IF Stops(t) = {} THEN Horizon ELSE Min(Stops(t))
           raw  == RawReturn(t, last)
<1>1. Result(t) = [trade |-> IF Stops(t) # {} THEN -3 * Bar(t, 0).close
                             ELSE IF t.isLong THEN raw ELSE - raw,
                   benchmark |-> raw]
  BY DEF Result
<1>2. Horizon \in Nat \ {0} /\ Bar(t, 0).close \in Nat
  <2>1. Horizon \in Nat \ {0}
    BY StrategyAssumption
  <2>. QED
    BY <2>1, BarsOf
<1>3. Stops(t) \subseteq 1 .. Horizon
  BY DEF Stops
<1>4. Stops(t) # {} => last \in Stops(t)
  BY <1>3, MinIs
<1>5. last \in 1 .. Horizon
  BY <1>2, <1>3, <1>4
<1>6. raw \in Int
  <2>1. Bar(t, last).close \in Nat
    BY <1>2, <1>5, BarsOf
  <2>. QED
    BY <1>2, <2>1 DEF RawReturn
<1> HIDE DEF last
<1>7. CASE Stops(t) # {}
  <2>1. t.isLong => raw <= -3 * Bar(t, 0).close
    BY <1>4, <1>7 DEF Stops
  <2>2. Result(t).trade = -3 * Bar(t, 0).close /\ Result(t).benchmark = raw
    BY <1>1, <1>7
  <2> HIDE DEF raw
  <2>. QED
    BY <1>2, <1>6, <2>1, <2>2
<1>8. CASE Stops(t) = {}
  <2>1. IF t.isLong THEN ~(raw <= -3 * Bar(t, 0).close) ELSE ~(raw >= 3 * Bar(t, 0).close)
    BY <1>5, <1>8 DEF Stops
  <2>2. Result(t).trade = (IF t.isLong THEN raw ELSE - raw) /\ Result(t).benchmark = raw
    BY <1>1, <1>8
  <2> HIDE DEF raw
  <2>. QED
    BY <1>2, <1>6, <2>1, <2>2
<1>. QED
  BY <1>7, <1>8

\* No trade loses more than the stop allows, and no long trade less than the
\* benchmark held as long gains, whatever the prices.
THEOREM LossesAreBounded == Spec => []StopsBoundLosses
<1>1. Inv => StopsBoundLosses
  <2> SUFFICES ASSUME Inv PROVE StopsBoundLosses
    OBVIOUS
  <2>1. Trades \in Seq(Made)
    BY MadeAll
  <2>2. Range(Trades) \subseteq Made
    BY <2>1 DEF Range
  <2>. QED
    BY <2>2, StopBounds DEF StopsBoundLosses
<1>. QED
  BY <1>1, InitInv, NextInv, PTL DEF Spec

-----------------------------------------------------------------------------
(* The order of the events.                                                *)

Occurrences == [t : Nat, kind : {"enter", "exit"}, k : Nat, score : Nat]

\* The comparator puts any two events in an order.
LEMMA BeforeOrders ==
  /\ \A a \in Occurrences : ~Before(a, a)
  /\ \A a, b, c \in Occurrences : Before(a, b) /\ Before(b, c) => Before(a, c)
  /\ \A a, b \in Occurrences : a = b \/ Before(a, b) \/ Before(b, a)
<1>1. \A a \in Occurrences : ~Before(a, a)
  BY DEF Occurrences, Before
<1>2. ASSUME NEW a \in Occurrences, NEW b \in Occurrences, NEW c \in Occurrences,
             Before(a, b), Before(b, c)
      PROVE  Before(a, c)
  BY <1>2 DEF Occurrences, Before
<1>3. ASSUME NEW a \in Occurrences, NEW b \in Occurrences
      PROVE  a = b \/ Before(a, b) \/ Before(b, a)
  <2>1. a.t # b.t => Before(a, b) \/ Before(b, a)
    BY DEF Occurrences, Before
  <2>2. a.kind # b.kind => Before(a, b) \/ Before(b, a)
    BY <2>1 DEF Occurrences, Before
  <2>3. a.score # b.score => Before(a, b) \/ Before(b, a)
    BY <2>1, <2>2 DEF Occurrences, Before
  <2>4. a.k # b.k => Before(a, b) \/ Before(b, a)
    BY <2>1, <2>2, <2>3 DEF Occurrences, Before
  <2>5. a.t = b.t /\ a.kind = b.kind /\ a.score = b.score /\ a.k = b.k => a = b
    BY DEF Occurrences
  <2>. QED
    BY <2>1, <2>2, <2>3, <2>4, <2>5
<1>. QED
  BY <1>1, <1>2, <1>3

\* The place of an event among E.
Place(E, e) == 1 + Cardinality({d \in E : Before(d, e)})

\* It gives each of finitely many events a place of its own.
LEMMA Places ==
  ASSUME NEW E \in SUBSET Occurrences, IsFiniteSet(E)
  PROVE  /\ Cardinality(E) \in Nat
         /\ \A e \in E : Place(E, e) \in 1 .. Cardinality(E)
         /\ \A d, e \in E : Before(d, e) <=> Place(E, d) < Place(E, e)
         /\ \A n \in 1 .. Cardinality(E) : \E e \in E : Place(E, e) = n
<1> DEFINE Prior(e) == {d \in E : Before(d, e)}
           N == Cardinality(E)
<1>1. N \in Nat
  BY FS_CardinalityType
<1>2. ASSUME NEW e \in E
      PROVE  /\ IsFiniteSet(Prior(e)) /\ Cardinality(Prior(e)) \in Nat
             /\ Cardinality(Prior(e)) <= N - 1
  <2>1. IsFiniteSet(E \ {e}) /\ Cardinality(E \ {e}) = N - 1
    BY FS_RemoveElement
  <2>2. Prior(e) \in SUBSET (E \ {e})
    BY BeforeOrders
  <2> HIDE DEF Prior
  <2>3. IsFiniteSet(Prior(e)) /\ Cardinality(Prior(e)) <= Cardinality(E \ {e})
    BY <2>1, <2>2, FS_Subset
  <2>. QED
    BY <2>1, <2>3, FS_CardinalityType
<1>3. ASSUME NEW d \in E, NEW e \in E, Before(d, e)
      PROVE  Cardinality(Prior(d)) < Cardinality(Prior(e))
  <2>1. Prior(d) \in SUBSET (Prior(e) \ {d}) /\ d \in Prior(e)
    BY <1>3, BeforeOrders
  <2> HIDE DEF Prior
  <2>2. IsFiniteSet(Prior(e) \ {d}) /\ Cardinality(Prior(e) \ {d}) = Cardinality(Prior(e)) - 1
    BY <1>2, <2>1, FS_RemoveElement
  <2>3. Cardinality(Prior(d)) <= Cardinality(Prior(e) \ {d})
    BY <2>1, <2>2, FS_Subset
  <2>. QED
    BY <1>2, <2>2, <2>3
<1>4. \A e \in E : Place(E, e) = 1 + Cardinality(Prior(e))
  BY DEF Place
<1> HIDE DEF Prior
<1>5. ASSUME NEW e \in E PROVE Place(E, e) \in 1 .. N
  BY <1>1, <1>2, <1>4
<1>6. ASSUME NEW d \in E, NEW e \in E, Before(d, e) PROVE Place(E, d) < Place(E, e)
  BY <1>2, <1>3, <1>4, <1>6
<1>7. ASSUME NEW d \in E, NEW e \in E PROVE Before(d, e) <=> Place(E, d) < Place(E, e)
  <2>1. Place(E, d) \in Int /\ Place(E, e) \in Int
    BY <1>5
  <2>2. d = e \/ Before(d, e) \/ Before(e, d)
    BY BeforeOrders
  <2>. QED
    BY <1>6, <2>1, <2>2
<1> DEFINE f == [e \in E |-> Place(E, e)]
<1>8. f \in Injection(E, 1 .. N)
  <2>1. f \in [E -> 1 .. N]
    BY <1>5
  <2>2. ASSUME NEW d \in E, NEW e \in E, f[d] = f[e] PROVE d = e
    <3>1. Place(E, d) = Place(E, e) /\ Place(E, d) \in Int
      BY <1>5, <2>2
    <3>2. ~Before(d, e) /\ ~Before(e, d)
      BY <1>7, <3>1
    <3>. QED
      BY <3>2, BeforeOrders
  <2>. QED
    BY <2>1, <2>2 DEF Injection, IsInjective
<1>9. f \in Surjection(E, 1 .. N)
  <2>1. IsFiniteSet(1 .. N) /\ Cardinality(1 .. N) = N
    BY <1>1, FS_Interval
  <2> HIDE DEF f
  <2>. QED
    BY <1>8, <2>1, FS_Injection
<1>10. \A n \in 1 .. N : \E e \in E : Place(E, e) = n
  BY <1>9 DEF Surjection
<1>. QED
  BY <1>1, <1>5, <1>7, <1>10

\* Sorting puts every event in its place.
LEMMA SortedPlaces ==
  ASSUME NEW E \in SUBSET Occurrences, IsFiniteSet(E)
  PROVE  /\ Len(Sorted(E)) = Cardinality(E) /\ DOMAIN Sorted(E) = 1 .. Cardinality(E)
         /\ \A e \in E : Sorted(E)[Place(E, e)] = e
<1> DEFINE N == Cardinality(E)
           placed == {[event |-> e, place |-> 1 + Cardinality({d \in E : Before(d, e)})] : e \in E}
<1>1. Sorted(E) = [n \in 1 .. N |-> (CHOOSE p \in placed : p.place = n).event]
  BY DEF Sorted
<1>2. placed = {[event |-> e, place |-> Place(E, e)] : e \in E}
  BY DEF Place
<1> HIDE DEF placed
<1>3. N \in Nat
  BY Places
<1>4. ASSUME NEW e \in E PROVE Sorted(E)[Place(E, e)] = e
  <2>1. Place(E, e) \in 1 .. N
    BY Places
  <2>2. ASSUME NEW p \in placed, p.place = Place(E, e) PROVE p.event = e
    <3>1. PICK d \in E : p = [event |-> d, place |-> Place(E, d)]
      BY <1>2
    <3>2. Place(E, d) = Place(E, e) /\ Place(E, d) \in Int
      BY <2>1, <2>2, <3>1
    <3>3. ~Before(d, e) /\ ~Before(e, d)
      <4>1. ~(Place(E, d) < Place(E, e)) /\ ~(Place(E, e) < Place(E, d))
        BY <3>2
      <4>2. \A a, b \in E : Before(a, b) <=> Place(E, a) < Place(E, b)
        BY Places
      <4>. QED
        BY <4>1, <4>2
    <3>4. d = e
      BY <3>3, BeforeOrders
    <3>. QED
      BY <3>1, <3>4
  <2>3. \E p \in placed : p.place = Place(E, e)
    <3>1. [event |-> e, place |-> Place(E, e)] \in placed
      BY <1>2
    <3>. QED
      BY <3>1
  <2> DEFINE q == CHOOSE p \in placed : p.place = Place(E, e)
  <2>4. q \in placed /\ q.place = Place(E, e)
    BY <2>3
  <2>5. Sorted(E)[Place(E, e)] = q.event
    BY <1>1, <2>1
  <2>. QED
    BY <2>2, <2>4, <2>5
<1>. QED
  BY <1>1, <1>3, <1>4

\* Trades with what the events need to know of them.
Timed(trades) ==
    /\ Len(trades) \in Nat /\ DOMAIN trades = 1 .. Len(trades)
    /\ \A k \in DOMAIN trades : /\ trades[k].from \in Nat /\ trades[k].to \in Nat
                                /\ trades[k].from < trades[k].to /\ trades[k].score \in Nat

\* The trade j is entered before k.
Sooner(trades, j, k) ==
    \/ trades[j].from < trades[k].from
    \/ /\ trades[j].from = trades[k].from
       /\ \/ trades[j].score > trades[k].score
          \/ trades[j].score = trades[k].score /\ j < k

\* The events are an enter at en[k] and an exit at ex[k] for every trade k, in
\* the order of the days, an enter before the exits of its day.
Timetable(trades, events, en, ex) ==
    /\ Len(events) \in Nat
    /\ en \in [DOMAIN trades -> 1 .. Len(events)] /\ ex \in [DOMAIN trades -> 1 .. Len(events)]
    /\ \A k \in DOMAIN trades : events[en[k]].kind = "enter" /\ events[en[k]].k = k
    /\ \A k \in DOMAIN trades : events[ex[k]].kind = "exit" /\ events[ex[k]].k = k
    /\ \A n \in 1 .. Len(events) : \E k \in DOMAIN trades : n = en[k] \/ n = ex[k]
    /\ \A j, k \in DOMAIN trades : en[j] < en[k] <=> Sooner(trades, j, k)
    /\ \A j, k \in DOMAIN trades : en[j] < ex[k] <=> trades[j].from <= trades[k].to

\* The sorted events of trades are such a timetable.
LEMMA EventsTimetable ==
  ASSUME NEW trades, Timed(trades)
  PROVE  \E en, ex : Timetable(trades, Events(trades), en, ex)
<1> DEFINE K == DOMAIN trades
           En(k) == EnterEvent(trades[k], k)
           Ex(k) == ExitEvent(trades[k], k)
           E == {En(k) : k \in K} \cup {Ex(k) : k \in K}
           en == [k \in K |-> Place(E, En(k))]
           ex == [k \in K |-> Place(E, Ex(k))]
           events == Events(trades)
<1>1. Events(trades) = Sorted(E)
  BY DEF Events
<1>2. IsFiniteSet(K)
  BY FS_Interval DEF Timed
<1>3. IsFiniteSet(E)
  <2>1. IsFiniteSet({En(k) : k \in K})
    <3> DEFINE f == [k \in K |-> En(k)]
    <3>1. f \in Surjection(K, {En(k) : k \in K})
      BY DEF Surjection
    <3> HIDE DEF f
    <3>. QED
      BY <1>2, <3>1, FS_Surjection
  <2>2. IsFiniteSet({Ex(k) : k \in K})
    <3> DEFINE f == [k \in K |-> Ex(k)]
    <3>1. f \in Surjection(K, {Ex(k) : k \in K})
      BY DEF Surjection
    <3> HIDE DEF f
    <3>. QED
      BY <1>2, <3>1, FS_Surjection
  <2> HIDE DEF En, Ex
  <2>. QED
    BY <2>1, <2>2, FS_Union
<1>4. \A k \in K : En(k) \in Occurrences /\ Ex(k) \in Occurrences
  BY DEF Timed, Occurrences, EnterEvent, ExitEvent
<1>5. E \in SUBSET Occurrences
  BY <1>4
<1>6. \A j, k \in K : Before(En(j), En(k)) <=> Sooner(trades, j, k)
  BY DEF Timed, Before, Sooner, EnterEvent
<1>7. \A j, k \in K : Before(En(j), Ex(k)) <=> trades[j].from <= trades[k].to
  BY DEF Timed, Before, EnterEvent, ExitEvent
<1>8. \A k \in K : En(k).kind = "enter" /\ En(k).k = k /\ Ex(k).kind = "exit" /\ Ex(k).k = k
  BY DEF EnterEvent, ExitEvent
<1>9. \A k \in K : En(k) \in E /\ Ex(k) \in E
  OBVIOUS
<1>10. \A e \in E : \E k \in K : e = En(k) \/ e = Ex(k)
  OBVIOUS
<1> HIDE DEF En, Ex, E
<1>11. /\ Cardinality(E) \in Nat
       /\ \A e \in E : Place(E, e) \in 1 .. Cardinality(E)
       /\ \A d, e \in E : Before(d, e) <=> Place(E, d) < Place(E, e)
       /\ \A n \in 1 .. Cardinality(E) : \E e \in E : Place(E, e) = n
  BY <1>3, <1>5, Places
<1>12. Len(events) = Cardinality(E) /\ \A e \in E : events[Place(E, e)] = e
  BY <1>1, <1>3, <1>5, SortedPlaces
<1> HIDE DEF events, K
<1>13. \A k \in K : en[k] = Place(E, En(k)) /\ ex[k] = Place(E, Ex(k))
  OBVIOUS
<1>14. en \in [K -> 1 .. Len(events)] /\ ex \in [K -> 1 .. Len(events)]
  BY <1>9, <1>11, <1>12
<1> HIDE DEF en, ex
<1>15. \A k \in K : events[en[k]].kind = "enter" /\ events[en[k]].k = k
  BY <1>8, <1>9, <1>12, <1>13
<1>16. \A k \in K : events[ex[k]].kind = "exit" /\ events[ex[k]].k = k
  BY <1>8, <1>9, <1>12, <1>13
<1>17. \A n \in 1 .. Len(events) : \E k \in K : n = en[k] \/ n = ex[k]
  BY <1>10, <1>11, <1>12, <1>13
<1>18. \A j, k \in K : en[j] < en[k] <=> Sooner(trades, j, k)
  BY <1>6, <1>9, <1>11, <1>13
<1>19. \A j, k \in K : en[j] < ex[k] <=> trades[j].from <= trades[k].to
  BY <1>7, <1>9, <1>11, <1>13
<1>20. Timetable(trades, events, en, ex)
  BY <1>11, <1>12, <1>14, <1>15, <1>16, <1>17, <1>18, <1>19 DEF Timetable, K
<1>. QED
  BY <1>20 DEF events

-----------------------------------------------------------------------------
(* The sweep.                                                              *)

\* Of the trades S, those open after i events.
OpenAt(en, ex, S, i) == {k \in S : en[k] <= i /\ i < ex[k]}

\* The sweep selects a trade when fewer than the cap are open at its enter, and
\* at no event are more than the cap of the selected open.
LEMMA Swept ==
  ASSUME NEW trades, Timed(trades), NEW cap \in Nat \ {0}, NEW events, NEW en, NEW ex,
         Timetable(trades, events, en, ex)
  PROVE  LET S == Selected(events, cap)
         IN  /\ S \subseteq DOMAIN trades
             /\ \A i \in 0 .. Len(events) : Cardinality(OpenAt(en, ex, S, i)) <= cap
             /\ \A k \in DOMAIN trades :
                  k \in S <=> Cardinality(OpenAt(en, ex, S, en[k] - 1)) < cap
<1> DEFINE K == DOMAIN trades
           L == Len(events)
           V == [open : SUBSET K, selected : SUBSET K]
           none == [open |-> {}, selected |-> {}]
           P(sweep) == sweep = [n \in 0 .. L |-> IF n = 0 THEN [open |-> {}, selected |-> {}]
                                                 ELSE Take(cap, sweep[n - 1], events[n])]
           step == [p \in (1 .. L) \X V |-> Take(cap, p[2], events[p[1]])]
           sweep == CHOOSE f : P(f)
           S == Selected(events, cap)
<1>1. L \in Nat
  BY DEF Timetable
<1>2. IsFiniteSet(K)
  BY FS_Interval DEF Timed
<1>3. Sweep(cap, events) = sweep
  BY DEF Sweep
<1>4. S = sweep[L].selected
  BY <1>3 DEF Selected
<1>5. ASSUME NEW n \in 1 .. L PROVE events[n].k \in K /\ events[n].kind \in {"enter", "exit"}
  <2>1. PICK k \in K : n = en[k] \/ n = ex[k]
    <3>1. \A i \in 1 .. Len(events) : \E k \in DOMAIN trades : i = en[k] \/ i = ex[k]
      BY DEF Timetable
    <3>. QED
      BY <3>1
  <2>2. events[n].k = k /\ events[n].kind \in {"enter", "exit"}
    <3>1. /\ events[en[k]].kind = "enter" /\ events[en[k]].k = k
          /\ events[ex[k]].kind = "exit" /\ events[ex[k]].k = k
      BY DEF Timetable
    <3>. QED
      BY <2>1, <3>1
  <2>. QED
    BY <2>2
<1> HIDE DEF L, S
<1>6. ASSUME NEW n \in 1 .. L, NEW v \in V PROVE Take(cap, v, events[n]) \in V
  BY <1>5 DEF Take
<1>7. none \in V
  OBVIOUS
<1>8. \A n \in 1 .. L : \A v \in V :
        step[<<n, v>>] = Take(cap, v, events[n]) /\ step[<<n, v>>] \in V
  BY <1>6
<1> HIDE DEF V, step
<1>9. PICK f \in [0 .. L -> V] : Computes(f, none, step, L)
  <2> HIDE DEF none
  <2>. QED
    BY <1>1, <1>7, <1>8, Computed
<1>10. P(f)
  <2>1. \A n \in 1 .. L : n - 1 \in 0 .. L /\ f[n - 1] \in V
    BY <1>1
  <2>2. f[0] = none
    BY <1>9 DEF Computes
  <2>3. \A n \in 1 .. L : f[n] = Take(cap, f[n - 1], events[n])
    BY <1>8, <1>9, <2>1 DEF Computes
  <2>4. \A n \in 0 .. L : n # 0 => n \in 1 .. L
    BY <1>1
  <2>. QED
    BY <2>2, <2>3, <2>4
<1>11. P(sweep)
  <2> HIDE DEF P
  <2>. QED
    BY <1>10
<1> HIDE DEF sweep
<1>12. sweep[0] = none /\ \A n \in 1 .. L : sweep[n] = Take(cap, sweep[n - 1], events[n])
  <2>1. 0 \in 0 .. L /\ \A n \in 1 .. L : n \in 0 .. L /\ n # 0
    BY <1>1
  <2>2. \A n \in 0 .. L : sweep[n] = IF n = 0 THEN none ELSE Take(cap, sweep[n - 1], events[n])
    BY <1>11
  <2>. QED
    BY <2>1, <2>2
<1> HIDE DEF P
\* The sweep has a type.
<1>13. \A n \in 0 .. L : sweep[n] \in V
  <2> DEFINE Q == {n \in 0 .. L : sweep[n] \in V}
  <2>1. 0 \in Q
    BY <1>1, <1>7, <1>12
  <2>2. ASSUME NEW n \in 1 .. L, n - 1 \in Q PROVE n \in Q
    BY <1>1, <1>6, <1>12, <2>2
  <2>3. \A n \in 0 .. L : n \in Q
    <3> HIDE DEF Q
    <3>. QED
      BY <1>1, <2>1, <2>2, Induct
  <2>. QED
    BY <2>3
<1>14. ASSUME NEW k \in K
       PROVE  en[k] \in 1 .. L /\ ex[k] \in 1 .. L /\ en[k] < ex[k] /\ en[k] - 1 \in 0 .. L
  <2>1. en[k] \in 1 .. L /\ ex[k] \in 1 .. L
    BY DEF Timetable, L
  <2>2. en[k] < ex[k]
    <3>1. trades[k].from <= trades[k].to
      BY DEF Timed
    <3>. QED
      BY <3>1 DEF Timetable
  <2>. QED
    BY <1>1, <2>1, <2>2
\* The two kinds of steps.
<1>15. ASSUME NEW n \in 1 .. L, NEW k \in K, n = ex[k]
       PROVE  /\ sweep[n].selected = sweep[n - 1].selected
              /\ sweep[n].open = sweep[n - 1].open \ {k}
              /\ \A j \in K : en[j] # n /\ (ex[j] = n => j = k)
  <2>1. events[n].kind = "exit" /\ events[n].k = k
    BY <1>15 DEF Timetable
  <2>2. \A j \in K : en[j] # n /\ (ex[j] = n => j = k)
    BY <2>1 DEF Timetable
  <2>3. sweep[n - 1] \in V /\ sweep[n] = Take(cap, sweep[n - 1], events[n])
    <3>1. n - 1 \in 0 .. L
      BY <1>1
    <3>. QED
      BY <1>12, <1>13, <3>1
  <2>. QED
    BY <2>1, <2>2, <2>3 DEF V, Take
<1>16. ASSUME NEW n \in 1 .. L, NEW k \in K, n = en[k]
       PROVE  /\ IF Cardinality(sweep[n - 1].open) < cap
                 THEN /\ sweep[n].selected = sweep[n - 1].selected \cup {k}
                      /\ sweep[n].open = sweep[n - 1].open \cup {k}
                 ELSE sweep[n] = sweep[n - 1]
              /\ \A j \in K : ex[j] # n /\ (en[j] = n => j = k)
  <2>1. events[n].kind = "enter" /\ events[n].k = k
    BY <1>16 DEF Timetable
  <2>2. \A j \in K : ex[j] # n /\ (en[j] = n => j = k)
    BY <2>1 DEF Timetable
  <2>3. sweep[n] = Take(cap, sweep[n - 1], events[n])
    BY <1>12
  <2>. QED
    BY <2>1, <2>2, <2>3 DEF Take
<1>17. ASSUME NEW n \in 1 .. L PROVE \E k \in K : n = en[k] \/ n = ex[k]
  BY DEF Timetable, L
\* The sweep, event by event.
<1> DEFINE Good(n) == /\ \A k \in sweep[n].selected : en[k] <= n
                      /\ sweep[n].open = OpenAt(en, ex, sweep[n].selected, n)
                      /\ Cardinality(sweep[n].open) <= cap
<1>18. \A n \in 0 .. L : Good(n)
  <2> DEFINE Q == {n \in 0 .. L : Good(n)}
  <2>1. 0 \in Q
    <3>1. sweep[0].selected = {} /\ sweep[0].open = {}
      BY <1>12
    <3>2. Cardinality({}) = 0
      BY FS_EmptySet
    <3>3. OpenAt(en, ex, {}, 0) = {}
      BY DEF OpenAt
    <3>4. 0 \in 0 .. L /\ 0 <= cap
      BY <1>1
    <3>. QED
      BY <3>1, <3>2, <3>3, <3>4
  <2>2. ASSUME NEW n \in 1 .. L, n - 1 \in Q PROVE n \in Q
    <3>1. /\ n - 1 \in 0 .. L /\ n - 1 \in Int
          /\ sweep[n - 1].selected \in SUBSET K /\ sweep[n - 1].open \in SUBSET K
      <4>1. n - 1 \in 0 .. L /\ n - 1 \in Int
        BY <1>1
      <4>. QED
        BY <1>13, <4>1 DEF V
    <3>2. IsFiniteSet(sweep[n - 1].open) /\ Cardinality(sweep[n - 1].open) \in Nat
      BY <1>2, <3>1, FS_Subset, FS_CardinalityType
    <3>3. Good(n - 1)
      BY <2>2
    <3>4. \A k \in K : en[k] \in Int /\ ex[k] \in Int /\ en[k] < ex[k]
      BY <1>14
    <3>5. CASE \E k \in K : n = ex[k]
      <4>1. PICK k \in K : n = ex[k]
        BY <3>5
      <4>2. /\ sweep[n].selected = sweep[n - 1].selected
            /\ sweep[n].open = sweep[n - 1].open \ {k}
            /\ \A j \in K : en[j] # n /\ (ex[j] = n => j = k)
        BY <1>15, <4>1
      <4>3. /\ Cardinality(sweep[n].open) <= Cardinality(sweep[n - 1].open)
            /\ Cardinality(sweep[n].open) \in Nat
        <5>1. sweep[n - 1].open \ {k} \in SUBSET sweep[n - 1].open
          OBVIOUS
        <5>. QED
          BY <3>2, <4>2, <5>1, FS_Subset, FS_CardinalityType
      <4>4. Cardinality(sweep[n].open) <= cap
        BY <3>2, <3>3, <4>3
      <4>5. \A j \in sweep[n].selected : en[j] <= n
        BY <3>1, <3>3, <3>4, <4>2
      <4>6. \A j \in K : (en[j] <= n <=> en[j] <= n - 1) /\ (n < ex[j] <=> n - 1 < ex[j] /\ j # k)
        BY <3>4, <4>1, <4>2
      <4>7. sweep[n].open = OpenAt(en, ex, sweep[n].selected, n)
        <5>1. sweep[n - 1].open = {j \in sweep[n - 1].selected : en[j] <= n - 1 /\ n - 1 < ex[j]}
          BY <3>3 DEF OpenAt
        <5>2. OpenAt(en, ex, sweep[n].selected, n)
              = {j \in sweep[n - 1].selected : en[j] <= n /\ n < ex[j]}
          BY <4>2 DEF OpenAt
        <5>. QED
          BY <3>1, <4>2, <4>6, <5>1, <5>2
      <4>. QED
        BY <4>4, <4>5, <4>7
    <3>6. CASE \E k \in K : n = en[k]
      <4>1. PICK k \in K : n = en[k]
        BY <3>6
      <4>2. \A j \in K : ex[j] # n /\ (en[j] = n => j = k)
        BY <1>16, <4>1
      <4>3. \A j \in K : /\ en[j] <= n <=> en[j] <= n - 1 \/ j = k
                         /\ n < ex[j] <=> n - 1 < ex[j] \/ j = k
        BY <3>4, <4>1, <4>2
      <4>4. k \notin sweep[n - 1].selected
        BY <3>3, <3>4, <4>1
      <4>5. sweep[n - 1].open = {j \in sweep[n - 1].selected : en[j] <= n - 1 /\ n - 1 < ex[j]}
        BY <3>3 DEF OpenAt
      <4>6. CASE Cardinality(sweep[n - 1].open) < cap
        <5>1. /\ sweep[n].selected = sweep[n - 1].selected \cup {k}
              /\ sweep[n].open = sweep[n - 1].open \cup {k}
          <6>1. IF Cardinality(sweep[n - 1].open) < cap
                THEN /\ sweep[n].selected = sweep[n - 1].selected \cup {k}
                     /\ sweep[n].open = sweep[n - 1].open \cup {k}
                ELSE sweep[n] = sweep[n - 1]
            BY <1>16, <4>1
          <6>. QED
            BY <4>6, <6>1
        <5>2. Cardinality(sweep[n].open) <= cap
          <6>1. Cardinality(sweep[n].open) <= Cardinality(sweep[n - 1].open) + 1
            <7>1. Cardinality(sweep[n - 1].open \cup {k}) =
                  IF k \in sweep[n - 1].open THEN Cardinality(sweep[n - 1].open)
                                             ELSE Cardinality(sweep[n - 1].open) + 1
              BY <3>2, FS_AddElement
            <7>. QED
              BY <3>2, <5>1, <7>1
          <6>2. Cardinality(sweep[n].open) \in Nat
            BY <3>2, <5>1, FS_AddElement, FS_CardinalityType
          <6>. QED
            BY <3>2, <4>6, <6>1, <6>2
        <5>3. \A j \in sweep[n].selected : en[j] <= n
          BY <3>1, <3>3, <3>4, <4>1, <5>1
        <5>4. OpenAt(en, ex, sweep[n].selected, n)
              = {j \in sweep[n - 1].selected \cup {k} : en[j] <= n /\ n < ex[j]}
          BY <5>1 DEF OpenAt
        <5>5. sweep[n].open = OpenAt(en, ex, sweep[n].selected, n)
          BY <3>1, <3>4, <4>1, <4>3, <4>4, <4>5, <5>1, <5>4
        <5>. QED
          BY <5>2, <5>3, <5>5
      <4>7. CASE ~(Cardinality(sweep[n - 1].open) < cap)
        <5>1. sweep[n] = sweep[n - 1]
          BY <1>16, <4>1, <4>7
        <5>2. \A j \in sweep[n].selected : en[j] <= n
          BY <3>1, <3>3, <3>4, <5>1
        <5>3. OpenAt(en, ex, sweep[n].selected, n)
              = {j \in sweep[n - 1].selected : en[j] <= n /\ n < ex[j]}
          BY <5>1 DEF OpenAt
        <5>4. sweep[n].open = OpenAt(en, ex, sweep[n].selected, n)
          BY <3>1, <4>3, <4>4, <4>5, <5>1, <5>3
        <5>. QED
          BY <3>3, <5>1, <5>2, <5>4
      <4>. QED
        BY <4>6, <4>7
    <3>. QED
      BY <1>17, <3>5, <3>6
  <2>3. \A n \in 0 .. L : n \in Q
    <3> HIDE DEF Q
    <3>. QED
      BY <1>1, <2>1, <2>2, Induct
  <2>. QED
    BY <2>3
\* Each trade is decided at its enter, for good.
<1>19. \A n \in 0 .. L : \A k \in K :
         en[k] <= n => (k \in sweep[n].selected <=> Cardinality(sweep[en[k] - 1].open) < cap)
  <2> DEFINE Decided(n) == \A k \in K : en[k] <= n
                 => (k \in sweep[n].selected <=> Cardinality(sweep[en[k] - 1].open) < cap)
             Q == {n \in 0 .. L : Decided(n)}
  <2>1. 0 \in Q
    <3>1. \A k \in K : ~(en[k] <= 0)
      BY <1>1, <1>14
    <3>. QED
      BY <1>1, <3>1
  <2>2. ASSUME NEW n \in 1 .. L, n - 1 \in Q PROVE n \in Q
    <3>1. n \in 0 .. L /\ n - 1 \in 0 .. L /\ n - 1 \in Int
      BY <1>1
    <3>2. \A k \in K : en[k] \in Int /\ (en[k] <= n <=> en[k] <= n - 1 \/ en[k] = n)
      BY <1>14, <3>1
    <3>3. Decided(n - 1)
      BY <2>2
    <3>4. CASE \E k \in K : n = ex[k]
      <4>1. PICK k \in K : n = ex[k]
        BY <3>4
      <4>2. sweep[n].selected = sweep[n - 1].selected /\ \A j \in K : en[j] # n
        BY <1>15, <4>1
      <4>3. Decided(n)
        BY <3>2, <3>3, <4>2
      <4>. QED
        BY <3>1, <4>3
    <3>5. CASE \E k \in K : n = en[k]
      <4>1. PICK k \in K : n = en[k]
        BY <3>5
      <4>2. \A j \in K : en[j] = n => j = k
        BY <1>16, <4>1
      <4>3. k \notin sweep[n - 1].selected
        <5>1. ~(en[k] <= n - 1)
          BY <3>1, <4>1
        <5>. QED
          BY <1>18, <3>1, <5>1
      <4>4. /\ k \in sweep[n].selected <=> Cardinality(sweep[n - 1].open) < cap
            /\ \A j \in K : j # k => (j \in sweep[n].selected <=> j \in sweep[n - 1].selected)
        BY <1>16, <4>1, <4>3
      <4>5. ASSUME NEW j \in K, en[j] <= n
            PROVE  j \in sweep[n].selected <=> Cardinality(sweep[en[j] - 1].open) < cap
        <5>1. CASE j = k
          BY <4>1, <4>4, <5>1
        <5>2. CASE j # k
          <6>1. en[j] <= n - 1
            BY <3>2, <4>2, <4>5, <5>2
          <6>. QED
            BY <3>3, <4>4, <5>2, <6>1
        <5>. QED
          BY <5>1, <5>2
      <4>6. Decided(n)
        BY <4>5
      <4>. QED
        BY <3>1, <4>6
    <3>. QED
      BY <1>17, <3>4, <3>5
  <2>3. \A n \in 0 .. L : n \in Q
    <3> HIDE DEF Q
    <3>. QED
      BY <1>1, <2>1, <2>2, Induct
  <2>. QED
    BY <2>3
<1>20. S \in SUBSET K
  <2>1. L \in 0 .. L
    BY <1>1
  <2>. QED
    BY <1>4, <1>13, <2>1 DEF V
<1>21. \A k \in K : k \in S <=> Cardinality(sweep[en[k] - 1].open) < cap
  <2>1. L \in 0 .. L /\ \A k \in K : en[k] <= L
    BY <1>1, <1>14
  <2>. QED
    BY <1>4, <1>19, <2>1
<1>22. ASSUME NEW n \in 0 .. L
       PROVE  sweep[n].open = OpenAt(en, ex, S, n) /\ Cardinality(OpenAt(en, ex, S, n)) <= cap
  <2>1. sweep[n].selected \in SUBSET K
    BY <1>13 DEF V
  <2>2. \A k \in K : k \in sweep[n].selected <=> k \in S /\ en[k] <= n
    BY <1>18, <1>19, <1>21, <2>1
  <2>3. sweep[n].selected = {k \in S : en[k] <= n}
    BY <1>20, <2>1, <2>2
  <2>4. OpenAt(en, ex, sweep[n].selected, n) = OpenAt(en, ex, S, n)
    BY <2>3 DEF OpenAt
  <2>. QED
    BY <1>18, <2>4
<1>23. \A k \in K : k \in S <=> Cardinality(OpenAt(en, ex, S, en[k] - 1)) < cap
  BY <1>14, <1>21, <1>22
<1>. QED
  BY <1>20, <1>22, <1>23 DEF L, S

\* No two events are one, and a trade is entered before it is closed.
LEMMA EventsDiffer ==
  ASSUME NEW trades, Timed(trades), NEW events, NEW en, NEW ex, Timetable(trades, events, en, ex)
  PROVE  /\ \A k \in DOMAIN trades : en[k] \in Int /\ ex[k] \in Int /\ 0 < en[k] /\ en[k] < ex[k]
         /\ \A j, k \in DOMAIN trades :
              en[j] # ex[k] /\ (en[j] = en[k] => j = k) /\ (ex[j] = ex[k] => j = k)
<1> DEFINE K == DOMAIN trades
<1>1. \A k \in K : en[k] \in 1 .. Len(events) /\ ex[k] \in 1 .. Len(events)
  BY DEF Timetable
<1>2. \A k \in K : en[k] < ex[k]
  <2>1. \A k \in K : trades[k].from <= trades[k].to
    BY DEF Timed
  <2>. QED
    BY <2>1 DEF Timetable
<1>3. \A k \in K : /\ events[en[k]].kind = "enter" /\ events[en[k]].k = k
                   /\ events[ex[k]].kind = "exit" /\ events[ex[k]].k = k
  BY DEF Timetable
<1>. QED
  BY <1>1, <1>2, <1>3

\* Before the first event no trade is open.
LEMMA OpenFirst ==
  ASSUME NEW trades, Timed(trades), NEW events, NEW en, NEW ex, Timetable(trades, events, en, ex),
         NEW S \in SUBSET DOMAIN trades
  PROVE  OpenAt(en, ex, S, 0) = {}
<1>1. \A j \in S : en[j] \in Int /\ 0 < en[j]
  BY EventsDiffer
<1>. QED
  BY <1>1 DEF OpenAt

\* An enter opens its trade.
LEMMA EnterOpens ==
  ASSUME NEW trades, Timed(trades), NEW events, NEW en, NEW ex, Timetable(trades, events, en, ex),
         NEW S \in SUBSET DOMAIN trades, NEW k \in DOMAIN trades
  PROVE  /\ k \notin OpenAt(en, ex, S, en[k] - 1)
         /\ k \in S => OpenAt(en, ex, S, en[k]) = OpenAt(en, ex, S, en[k] - 1) \cup {k}
         /\ k \notin S => OpenAt(en, ex, S, en[k]) = OpenAt(en, ex, S, en[k] - 1)
<1>1. /\ \A j \in DOMAIN trades : en[j] \in Int /\ ex[j] \in Int /\ en[j] < ex[j]
      /\ \A j \in DOMAIN trades : ex[j] # en[k] /\ (en[j] = en[k] => j = k)
  BY EventsDiffer
<1>2. \A j \in DOMAIN trades : /\ en[j] <= en[k] <=> en[j] <= en[k] - 1 \/ j = k
                               /\ en[k] < ex[j] <=> en[k] - 1 < ex[j]
  BY <1>1
<1>3. ~(en[k] <= en[k] - 1) /\ en[k] < ex[k] /\ en[k] - 1 < ex[k]
  BY <1>1
<1>. QED
  BY <1>2, <1>3 DEF OpenAt

\* An exit closes it.
LEMMA ExitCloses ==
  ASSUME NEW trades, Timed(trades), NEW events, NEW en, NEW ex, Timetable(trades, events, en, ex),
         NEW S \in SUBSET DOMAIN trades, NEW k \in DOMAIN trades
  PROVE  /\ k \in S => k \in OpenAt(en, ex, S, ex[k] - 1)
         /\ \A j : j \in OpenAt(en, ex, S, ex[k]) <=> j \in OpenAt(en, ex, S, ex[k] - 1) /\ j # k
<1>1. /\ \A j \in DOMAIN trades : en[j] \in Int /\ ex[j] \in Int /\ en[j] < ex[j]
      /\ \A j \in DOMAIN trades : en[j] # ex[k] /\ (ex[j] = ex[k] => j = k)
  BY EventsDiffer
<1>2. \A j \in DOMAIN trades : /\ en[j] <= ex[k] <=> en[j] <= ex[k] - 1
                               /\ ex[k] < ex[j] <=> ex[k] - 1 < ex[j] /\ j # k
  BY <1>1
<1>3. en[k] <= ex[k] - 1 /\ ex[k] - 1 < ex[k]
  BY <1>1
<1>. QED
  BY <1>2, <1>3 DEF OpenAt

\* The number reported is the largest number of the trades S open at an event.
LEMMA Counts ==
  ASSUME NEW trades, Timed(trades), NEW events, NEW en, NEW ex, Timetable(trades, events, en, ex),
         NEW S \in SUBSET DOMAIN trades
  PROVE  /\ \E j \in 0 .. Len(events) : MaxConcurrent(events, S) = Cardinality(OpenAt(en, ex, S, j))
         /\ \A j \in 0 .. Len(events) :
              Cardinality(OpenAt(en, ex, S, j)) <= MaxConcurrent(events, S)
<1> DEFINE K == DOMAIN trades
           L == Len(events)
           V == [now : Int, max : Int]
           none == [now |-> 0, max |-> 0]
           After(n, v) == IF events[n].k \in S THEN Counted(v, events[n]) ELSE v
           P(count) == count = [n \in 0 .. L |-> IF n = 0 THEN [now |-> 0, max |-> 0]
                                                 ELSE IF events[n].k \in S
                                                 THEN Counted(count[n - 1], events[n])
                                                 ELSE count[n - 1]]
           step == [p \in (1 .. L) \X V |-> After(p[1], p[2])]
           count == CHOOSE f : P(f)
           Open(i) == OpenAt(en, ex, S, i)
           size(i) == Cardinality(Open(i))
<1>1. L \in Nat
  BY DEF Timetable
<1>2. \A i : IsFiniteSet(Open(i)) /\ size(i) \in Nat
  <2>1. IsFiniteSet(K)
    BY FS_Interval DEF Timed
  <2>2. IsFiniteSet(S)
    BY <2>1, FS_Subset
  <2>3. \A i : Open(i) \in SUBSET S
    BY DEF OpenAt
  <2> HIDE DEF Open
  <2>. QED
    BY <2>2, <2>3, FS_Subset, FS_CardinalityType
<1>3. Count(events, S) = count
  BY DEF Count
<1>4. MaxConcurrent(events, S) = count[L].max
  BY <1>3 DEF MaxConcurrent
<1> HIDE DEF L
<1>5. ASSUME NEW n \in 1 .. L, NEW v \in V PROVE After(n, v) \in V
  BY DEF Counted
<1>6. none \in V
  OBVIOUS
<1>7. \A n \in 1 .. L : \A v \in V : step[<<n, v>>] = After(n, v) /\ step[<<n, v>>] \in V
  BY <1>5
<1> HIDE DEF V, step
<1>8. PICK f \in [0 .. L -> V] : Computes(f, none, step, L)
  <2> HIDE DEF none
  <2>. QED
    BY <1>1, <1>6, <1>7, Computed
<1>9. P(f)
  <2>1. \A n \in 1 .. L : n - 1 \in 0 .. L /\ f[n - 1] \in V
    BY <1>1
  <2>2. f[0] = none
    BY <1>8 DEF Computes
  <2>3. \A n \in 1 .. L : f[n] = After(n, f[n - 1])
    <3> HIDE DEF After
    <3>. QED
      BY <1>7, <1>8, <2>1 DEF Computes
  <2>4. \A n \in 0 .. L : n # 0 => n \in 1 .. L
    BY <1>1
  <2>. QED
    BY <2>2, <2>3, <2>4
<1>10. P(count)
  <2> HIDE DEF P
  <2>. QED
    BY <1>9
<1> HIDE DEF count
<1>11. count[0] = none /\ \A n \in 1 .. L : count[n] = After(n, count[n - 1])
  <2>1. 0 \in 0 .. L /\ \A n \in 1 .. L : n \in 0 .. L /\ n # 0
    BY <1>1
  <2>2. \A n \in 0 .. L : count[n] = IF n = 0 THEN none ELSE After(n, count[n - 1])
    BY <1>10
  <2>. QED
    BY <2>1, <2>2
<1> HIDE DEF P
<1>12. ASSUME NEW n \in 1 .. L PROVE \E k \in K : n = en[k] \/ n = ex[k]
  BY DEF Timetable, L
<1> DEFINE Good(n) == /\ count[n] \in V /\ count[n].now = size(n)
                      /\ \A j \in 0 .. n : size(j) <= count[n].max
                      /\ \E j \in 0 .. n : count[n].max = size(j)
\* The next count, of an event of a trade of S and of another.
<1>13. ASSUME NEW n \in 1 .. L, Good(n - 1), size(n) = size(n - 1), count[n] = count[n - 1]
       PROVE  Good(n)
  <2> HIDE DEF size
  <2>1. n - 1 \in 0 .. n - 1 /\ \A j \in 0 .. n : j = n \/ j \in 0 .. n - 1
    BY <1>1
  <2>2. \A j \in 0 .. n - 1 : j \in 0 .. n
    BY <1>1
  <2>. QED
    BY <1>13, <2>1, <2>2
<1>14. ASSUME NEW n \in 1 .. L, Good(n - 1),
              count[n] = [now |-> size(n),
                          max |-> IF size(n) > count[n - 1].max THEN size(n)
                                  ELSE count[n - 1].max]
       PROVE  Good(n)
  <2> HIDE DEF size
  <2>1. n \in 0 .. n /\ \A j \in 0 .. n : j = n \/ j \in 0 .. n - 1
    BY <1>1
  <2>2. \A j \in 0 .. n - 1 : j \in 0 .. n
    BY <1>1
  <2>3. \A j : size(j) \in Nat
    BY <1>2 DEF size
  <2>4. count[n - 1].max \in Int
    BY <1>14 DEF V
  <2>5. count[n] \in V /\ count[n].now = size(n)
    BY <1>14, <2>3, <2>4 DEF V
  <2>6. \A j \in 0 .. n : size(j) <= count[n].max
    BY <1>14, <2>1, <2>3, <2>4
  <2>7. \E j \in 0 .. n : count[n].max = size(j)
    BY <1>14, <2>1, <2>2
  <2>. QED
    BY <2>5, <2>6, <2>7
<1>15. \A n \in 0 .. L : Good(n)
  <2> DEFINE Q == {n \in 0 .. L : Good(n)}
  <2>1. 0 \in Q
    <3>1. size(0) = 0
      BY OpenFirst, FS_EmptySet
    <3>2. count[0] = none /\ none \in V
      BY <1>6, <1>11
    <3>3. 0 \in 0 .. 0 /\ \A j \in 0 .. 0 : j = 0
      OBVIOUS
    <3>4. 0 \in 0 .. L
      BY <1>1
    <3> HIDE DEF size
    <3>5. count[0].now = 0 /\ count[0].max = 0
      BY <3>2
    <3>6. (\A j \in 0 .. 0 : size(j) <= count[0].max) /\ \E j \in 0 .. 0 : count[0].max = size(j)
      BY <3>1, <3>3, <3>5
    <3>7. Good(0)
      BY <3>1, <3>2, <3>5, <3>6
    <3>. QED
      BY <3>4, <3>7
  <2>2. ASSUME NEW n \in 1 .. L, n - 1 \in Q PROVE n \in Q
    <3>1. n \in 0 .. L /\ Good(n - 1)
      BY <2>2, <1>1
    <3>2. count[n] = After(n, count[n - 1]) /\ count[n - 1].now = size(n - 1)
      BY <1>11, <3>1
    <3>3. size(n) \in Nat /\ size(n - 1) \in Nat /\ IsFiniteSet(Open(n - 1))
      BY <1>2
    <3>4. CASE \E k \in K : n = en[k]
      <4>1. PICK k \in K : n = en[k]
        BY <3>4
      <4>2. events[n].kind = "enter" /\ events[n].k = k
        BY <4>1 DEF Timetable
      <4>3. /\ k \notin Open(n - 1)
            /\ k \in S => Open(n) = Open(n - 1) \cup {k}
            /\ k \notin S => Open(n) = Open(n - 1)
        <5>1. /\ k \notin OpenAt(en, ex, S, en[k] - 1)
              /\ k \in S => OpenAt(en, ex, S, en[k]) = OpenAt(en, ex, S, en[k] - 1) \cup {k}
              /\ k \notin S => OpenAt(en, ex, S, en[k]) = OpenAt(en, ex, S, en[k] - 1)
          BY EnterOpens
        <5>. QED
          BY <4>1, <5>1
      <4> HIDE DEF Open
      <4>4. CASE k \in S
        <5>1. size(n) = size(n - 1) + 1
          <6>1. Cardinality(Open(n - 1) \cup {k}) =
                IF k \in Open(n - 1) THEN Cardinality(Open(n - 1)) ELSE Cardinality(Open(n - 1)) + 1
            BY <3>3, FS_AddElement
          <6>. QED
            BY <4>3, <4>4, <6>1
        <5>2. count[n] = Counted(count[n - 1], events[n])
          BY <3>2, <4>2, <4>4
        <5> HIDE DEF size
        <5>3. count[n] = [now |-> size(n),
                          max |-> IF size(n) > count[n - 1].max THEN size(n)
                                  ELSE count[n - 1].max]
          BY <3>2, <4>2, <5>1, <5>2 DEF Counted
        <5>4. Good(n)
          <6> HIDE DEF Good
          <6>. QED
            BY <1>14, <3>1, <5>3
        <5>. QED
          BY <3>1, <5>4
      <4>5. CASE k \notin S
        <5>1. size(n) = size(n - 1)
          BY <4>3, <4>5
        <5>2. count[n] = count[n - 1]
          BY <3>2, <4>2, <4>5
        <5> HIDE DEF size
        <5>3. Good(n)
          <6> HIDE DEF Good
          <6>. QED
            BY <1>13, <3>1, <5>1, <5>2
        <5>. QED
          BY <3>1, <5>3
      <4>. QED
        BY <4>4, <4>5
    <3>5. CASE \E k \in K : n = ex[k]
      <4>1. PICK k \in K : n = ex[k]
        BY <3>5
      <4>2. events[n].kind = "exit" /\ events[n].k = k
        BY <4>1 DEF Timetable
      <4>3. (k \in S => k \in Open(n - 1)) /\ Open(n) = Open(n - 1) \ {k}
        <5>1. k \in S => k \in OpenAt(en, ex, S, ex[k] - 1)
          BY ExitCloses
        <5>2. \A j : j \in OpenAt(en, ex, S, ex[k]) <=> j \in OpenAt(en, ex, S, ex[k] - 1) /\ j # k
          BY ExitCloses
        <5>. QED
          BY <4>1, <5>1, <5>2
      <4>4. CASE k \in S
        <5> HIDE DEF Open
        <5>1. size(n) = size(n - 1) + -1
          <6>1. Cardinality(Open(n - 1) \ {k}) =
                IF k \in Open(n - 1) THEN Cardinality(Open(n - 1)) - 1 ELSE Cardinality(Open(n - 1))
            BY <3>3, FS_RemoveElement
          <6>. QED
            BY <3>3, <4>3, <4>4, <6>1
        <5>2. count[n] = Counted(count[n - 1], events[n])
          BY <3>2, <4>2, <4>4
        <5> HIDE DEF size
        <5>3. count[n] = [now |-> size(n),
                          max |-> IF size(n) > count[n - 1].max THEN size(n)
                                  ELSE count[n - 1].max]
          BY <3>2, <4>2, <5>1, <5>2 DEF Counted
        <5>4. Good(n)
          <6> HIDE DEF Good
          <6>. QED
            BY <1>14, <3>1, <5>3
        <5>. QED
          BY <3>1, <5>4
      <4>5. CASE k \notin S
        <5>1. Open(n) = Open(n - 1)
          <6>1. k \notin Open(n - 1)
            BY <4>5 DEF OpenAt
          <6> HIDE DEF Open
          <6>. QED
            BY <4>3, <6>1
        <5> HIDE DEF Open
        <5>2. size(n) = size(n - 1)
          BY <5>1
        <5>3. count[n] = count[n - 1]
          BY <3>2, <4>2, <4>5
        <5> HIDE DEF size
        <5>4. Good(n)
          <6> HIDE DEF Good
          <6>. QED
            BY <1>13, <3>1, <5>2, <5>3
        <5>. QED
          BY <3>1, <5>4
      <4>. QED
        BY <4>4, <4>5
    <3>. QED
      BY <1>12, <3>4, <3>5
  <2>3. \A n \in 0 .. L : n \in Q
    <3> HIDE DEF Q
    <3>. QED
      BY <1>1, <2>1, <2>2, Induct
  <2>. QED
    BY <2>3
<1>16. Good(L)
  BY <1>1, <1>15
<1> HIDE DEF size
<1>17. (\A j \in 0 .. L : size(j) <= count[L].max) /\ \E j \in 0 .. L : count[L].max = size(j)
  BY <1>16
<1>. QED
  BY <1>4, <1>17 DEF L, size

-----------------------------------------------------------------------------
(* The cap.                                                                *)

\* The trades of a history have their days in order.
LEMMA MadeTimed ==
  ASSUME Inv
  PROVE  Timed(Trades) /\ (Trades # <<>> => 1 \in DOMAIN Trades)
<1>1. Trades \in Seq(Made)
  BY MadeAll
<1>2. ASSUME NEW t \in Made PROVE t.from \in Nat /\ t.to \in Nat /\ t.from < t.to /\ t.score \in Nat
  <2>0. PICK s \in Names : \E i \in 1 .. Len(history[s]) :
          i + Horizon <= Len(history[s]) /\ t = Trade(s, i)
    BY DEF Made, IsTrade
  <2>1. PICK i \in 1 .. Len(history[s]) : i + Horizon <= Len(history[s]) /\ t = Trade(s, i)
    BY <2>0
  <2>2. /\ t.from = history[s][i].day /\ t.to = history[s][i + Horizon].day
        /\ t.score = AbsScore(s, i)
    BY <2>1 DEF Trade
  <2>3. history[s] \in Seq(Rows) /\ Horizon \in Nat \ {0}
    BY StrategyAssumption DEF Inv, TypeOK
  <2>4. i + Horizon \in 1 .. Len(history[s]) /\ i \in 1 .. (i + Horizon) - 1
    BY <2>1, <2>3
  <2>5. history[s][i] \in Rows /\ history[s][i + Horizon] \in Rows
    BY <2>3, <2>4
  <2>6. history[s][i].day < history[s][i + Horizon].day
    BY <2>4 DEF Inv, InOrder
  <2>7. AbsScore(s, i) \in Nat
    BY <2>5 DEF AbsScore, Rows
  <2>. QED
    BY <2>2, <2>5, <2>6, <2>7 DEF Rows
<1>3. /\ Len(Trades) \in Nat /\ DOMAIN Trades = 1 .. Len(Trades)
      /\ \A k \in DOMAIN Trades : Trades[k] \in Made
  BY <1>1
<1>4. Trades # <<>> => Len(Trades) # 0
  BY <1>1
<1>. QED
  BY <1>2, <1>3, <1>4 DEF Timed

\* What is held on the day of a selected trade is what is open after the last
\* enter of that day; and what is open at any event is held on the day of the
\* trade of them entered last.
LEMMA HeldIsOpen ==
  ASSUME NEW trades, Timed(trades), NEW events, NEW en, NEW ex, Timetable(trades, events, en, ex),
         NEW S \in SUBSET DOMAIN trades, NEW k \in S
  PROVE  \E i \in 0 .. Len(events) : Held(trades, S, trades[k].from) = OpenAt(en, ex, S, i)
<1> DEFINE d == trades[k].from
           today == {j \in S : trades[j].from = d}
           enters == {en[j] : j \in today}
           L == Len(events)
<1>0. L \in Nat
  BY DEF Timetable
<1>1. \A j \in DOMAIN trades : en[j] \in 0 .. L /\ en[j] \in Int
  BY DEF Timetable
<1>2. \A j \in DOMAIN trades : trades[j].from \in Nat /\ trades[j].to \in Nat
  BY DEF Timed
<1>3. enters \in SUBSET (0 .. L) /\ enters # {}
  BY <1>1
<1>4. Max(enters) \in enters /\ \A i \in enters : i <= Max(enters)
  <2> HIDE DEF enters, L
  <2>. QED
    BY <1>0, <1>3, MaxIs
<1>5. PICK m \in today : \A j \in today : en[j] <= en[m]
  BY <1>4
<1>6. ASSUME NEW j \in S
      PROVE  /\ en[j] <= en[m] <=> trades[j].from <= d
             /\ en[m] < ex[j] <=> d <= trades[j].to
  <2>1. en[m] < ex[j] <=> trades[m].from <= trades[j].to
    BY DEF Timetable
  <2>2. en[j] < en[m] <=> Sooner(trades, j, m)
    BY DEF Timetable
  <2>3. en[m] < en[j] <=> Sooner(trades, m, j)
    BY DEF Timetable
  <2>4. trades[j].from < d => en[j] < en[m]
    BY <2>2 DEF Sooner
  <2>5. d < trades[j].from => en[m] < en[j]
    BY <2>3 DEF Sooner
  <2>6. trades[j].from = d => en[j] <= en[m]
    BY <1>5
  <2>. QED
    BY <1>1, <1>2, <2>1, <2>4, <2>5, <2>6
<1>7. Held(trades, S, d) = OpenAt(en, ex, S, en[m])
  BY <1>6 DEF Held, OpenAt
<1>8. en[m] \in 0 .. L
  BY <1>1
<1>. QED
  BY <1>7, <1>8

LEMMA OpenIsHeld ==
  ASSUME NEW trades, Timed(trades), NEW events, NEW en, NEW ex, Timetable(trades, events, en, ex),
         NEW S \in SUBSET DOMAIN trades, NEW i \in 0 .. Len(events), OpenAt(en, ex, S, i) # {}
  PROVE  \E k \in S : OpenAt(en, ex, S, i) \in SUBSET Held(trades, S, trades[k].from)
<1> DEFINE open == OpenAt(en, ex, S, i)
           enters == {en[j] : j \in open}
           L == Len(events)
<1>0. L \in Nat
  BY DEF Timetable
<1>1. \A j \in DOMAIN trades : en[j] \in 0 .. L /\ en[j] \in Int /\ ex[j] \in Int
  BY DEF Timetable
<1>2. \A j \in DOMAIN trades : trades[j].from \in Nat /\ trades[j].to \in Nat
  BY DEF Timed
<1>3. enters \in SUBSET (0 .. L) /\ enters # {}
  BY <1>1 DEF OpenAt
<1>4. Max(enters) \in enters /\ \A n \in enters : n <= Max(enters)
  <2> HIDE DEF enters, L
  <2>. QED
    BY <1>0, <1>3, MaxIs
<1>5. PICK k \in open : \A j \in open : en[j] <= en[k]
  BY <1>4
<1>6. k \in S /\ en[k] <= i
  BY DEF OpenAt
<1>7. ASSUME NEW j \in open PROVE j \in Held(trades, S, trades[k].from)
  <2>1. j \in S /\ i < ex[j]
    BY DEF OpenAt
  <2>2. en[k] < ex[j]
    BY <1>1, <1>6, <2>1
  <2>3. trades[k].from <= trades[j].to
    BY <1>6, <2>1, <2>2 DEF Timetable
  <2>4. en[k] < en[j] <=> Sooner(trades, k, j)
    BY <1>6, <2>1 DEF Timetable
  <2>5. ~(en[k] < en[j])
    BY <1>1, <1>5, <1>6, <2>1
  <2>6. ~(trades[k].from < trades[j].from)
    BY <2>4, <2>5 DEF Sooner
  <2>7. trades[j].from <= trades[k].from
    BY <1>2, <1>6, <2>1, <2>6
  <2>. QED
    BY <2>1, <2>3, <2>7 DEF Held
<1>. QED
  BY <1>6, <1>7

\* What was open when a trade was passed over is what is held on its day of the
\* trades entered before it or with no smaller a score.
LEMMA PassedOver ==
  ASSUME NEW trades, Timed(trades), NEW cap \in Nat \ {0}, NEW events, NEW en, NEW ex,
         Timetable(trades, events, en, ex), NEW k \in DOMAIN trades \ Selected(events, cap)
  PROVE  {j \in Held(trades, Selected(events, cap), trades[k].from) :
            trades[j].from < trades[k].from \/ trades[j].score >= trades[k].score}
         = OpenAt(en, ex, Selected(events, cap), en[k] - 1)
<1> DEFINE S == Selected(events, cap)
           Open(i) == OpenAt(en, ex, S, i)
           Ahead(j) == trades[j].from < trades[k].from \/ trades[j].score >= trades[k].score
<1>1. /\ S \subseteq DOMAIN trades
      /\ \A i \in 0 .. Len(events) : Cardinality(Open(i)) <= cap
      /\ \A j \in DOMAIN trades : j \in S <=> Cardinality(Open(en[j] - 1)) < cap
  BY Swept
<1> HIDE DEF S
<1>2. \A j \in DOMAIN trades : en[j] \in Int /\ ex[j] \in Int
  BY EventsDiffer
<1>3. \A j \in DOMAIN trades : /\ trades[j].from \in Nat /\ trades[j].to \in Nat
                               /\ trades[j].score \in Nat /\ j \in Nat
  BY DEF Timed
<1>4. k \notin S /\ k \in DOMAIN trades
  BY DEF S
<1>5. IsFiniteSet(S) /\ \A i : IsFiniteSet(Open(i)) /\ Cardinality(Open(i)) \in Nat
  <2>1. IsFiniteSet(DOMAIN trades)
    BY FS_Interval DEF Timed
  <2>2. IsFiniteSet(S)
    BY <1>1, <2>1, FS_Subset
  <2>3. \A i : Open(i) \in SUBSET S
    BY DEF OpenAt
  <2> HIDE DEF Open
  <2>. QED
    BY <2>2, <2>3, FS_Subset, FS_CardinalityType
<1>6. ASSUME NEW j \in S
      PROVE  j \in Open(en[k] - 1) <=> en[j] < en[k] /\ trades[k].from <= trades[j].to
  <2>1. j \in DOMAIN trades /\ j # k
    BY <1>1, <1>4
  <2>2. en[k] # ex[j] /\ (en[k] < ex[j] <=> trades[k].from <= trades[j].to)
    <3>1. en[k] # ex[j]
      BY <1>4, <2>1, EventsDiffer
    <3>. QED
      BY <1>4, <2>1, <3>1 DEF Timetable
  <2>3. en[j] <= en[k] - 1 <=> en[j] < en[k]
    BY <1>2, <1>4, <2>1
  <2>4. en[k] - 1 < ex[j] <=> en[k] < ex[j]
    BY <1>2, <1>4, <2>1, <2>2
  <2>. QED
    BY <2>2, <2>3, <2>4 DEF OpenAt
<1>7. ASSUME NEW j \in S, en[j] < en[k] PROVE trades[j].from <= trades[k].from /\ Ahead(j)
  <2>1. j \in DOMAIN trades
    BY <1>1
  <2>2. Sooner(trades, j, k)
    BY <1>4, <1>7, <2>1 DEF Timetable
  <2>. QED
    BY <1>3, <1>4, <2>1, <2>2 DEF Sooner
<1>8. ASSUME NEW j \in S, trades[j].from <= trades[k].from, trades[k].from <= trades[j].to, Ahead(j)
      PROVE  en[j] < en[k]
  <2>1. j \in DOMAIN trades /\ j # k
    BY <1>1, <1>4
  <2>2. (en[j] < en[k] <=> Sooner(trades, j, k)) /\ (en[k] < en[j] <=> Sooner(trades, k, j))
    BY <1>4, <2>1 DEF Timetable
  <2>3. SUFFICES ASSUME ~Sooner(trades, j, k) PROVE FALSE
    BY <2>2
  <2>4. trades[j].from = trades[k].from /\ Sooner(trades, k, j)
    BY <1>3, <1>4, <1>8, <2>1, <2>3 DEF Sooner
  <2>5. en[k] < en[j]
    BY <2>2, <2>4
  \* Then what was open at k was open at j, which would be passed over too.
  <2>6. Open(en[k] - 1) \in SUBSET Open(en[j] - 1)
    <3>1. ASSUME NEW x \in Open(en[k] - 1) PROVE x \in Open(en[j] - 1)
      <4>1. x \in S /\ x \in DOMAIN trades
        BY <1>1 DEF OpenAt
      <4>2. en[x] < en[k] /\ trades[k].from <= trades[x].to
        BY <1>6, <4>1
      <4>3. en[x] <= en[j] - 1
        BY <1>2, <1>4, <2>1, <2>5, <4>1, <4>2
      <4>4. en[j] < ex[x]
        <5>1. trades[j].from <= trades[x].to
          BY <2>4, <4>2
        <5>. QED
          BY <2>1, <4>1, <5>1 DEF Timetable
      <4>5. en[j] - 1 < ex[x]
        BY <1>2, <2>1, <4>1, <4>4
      <4>. QED
        BY <4>1, <4>3, <4>5 DEF OpenAt
    <3>. QED
      BY <3>1
  <2>7. Cardinality(Open(en[k] - 1)) <= Cardinality(Open(en[j] - 1))
    <3> HIDE DEF Open
    <3>. QED
      BY <1>5, <2>6, FS_Subset
  <2>8. ~(Cardinality(Open(en[k] - 1)) < cap) /\ Cardinality(Open(en[j] - 1)) < cap
    BY <1>1, <1>4
  <2> HIDE DEF Open
  <2>. QED
    BY <1>5, <2>7, <2>8
<1>9. \A j \in S : (j \in Held(trades, S, trades[k].from) /\ Ahead(j)) <=> j \in Open(en[k] - 1)
  <2>1. \A j \in S : j \in Held(trades, S, trades[k].from)
                     <=> trades[j].from <= trades[k].from /\ trades[k].from <= trades[j].to
    BY DEF Held
  <2>. QED
    BY <1>6, <1>7, <1>8, <2>1
<1>10. {j \in Held(trades, S, trades[k].from) : Ahead(j)} = Open(en[k] - 1)
  <2>1. \A j : j \in Held(trades, S, trades[k].from) => j \in S
    BY DEF Held
  <2>2. \A j : j \in Open(en[k] - 1) => j \in S
    BY DEF OpenAt
  <2> HIDE DEF Open, Ahead
  <2>. QED
    BY <1>9, <2>1, <2>2
<1>. QED
  BY <1>10 DEF S

\* A cap is held, and used, whatever the trades.
LEMMA CapOf ==
  ASSUME NEW trades, Timed(trades), 1 \in DOMAIN trades, NEW cap \in Nat \ {0}
  PROVE  LET S      == Selected(Events(trades), cap)
             counts == {Cardinality(Held(trades, S, trades[k].from)) : k \in S}
         IN  /\ Max(counts) <= cap
             /\ MaxConcurrent(Events(trades), S) = Max(counts)
             /\ \A k \in DOMAIN trades \ S :
                  Cardinality({j \in Held(trades, S, trades[k].from) :
                      trades[j].from < trades[k].from \/ trades[j].score >= trades[k].score}) = cap
<1> DEFINE events == Events(trades)
           S == Selected(events, cap)
           counts == {Cardinality(Held(trades, S, trades[k].from)) : k \in S}
           L == Len(events)
<1>1. PICK en, ex : Timetable(trades, events, en, ex)
  BY EventsTimetable
<1> DEFINE size(i) == Cardinality(OpenAt(en, ex, S, i))
<1> HIDE DEF events
<1>2. /\ S \in SUBSET DOMAIN trades
      /\ \A i \in 0 .. L : size(i) <= cap
      /\ \A k \in DOMAIN trades : k \in S <=> size(en[k] - 1) < cap
  BY <1>1, Swept
<1>3. \A k \in DOMAIN trades \ S :
        {j \in Held(trades, S, trades[k].from) :
           trades[j].from < trades[k].from \/ trades[j].score >= trades[k].score}
        = OpenAt(en, ex, S, en[k] - 1)
  BY <1>1, PassedOver
<1>4. L \in Nat /\ \A k \in DOMAIN trades : en[k] \in 1 .. L /\ ex[k] \in 1 .. L /\ en[k] < ex[k]
  <2>1. L \in Nat /\ \A k \in DOMAIN trades : en[k] \in 1 .. L /\ ex[k] \in 1 .. L
    BY <1>1 DEF Timetable
  <2>2. \A k \in DOMAIN trades : en[k] < ex[k]
    BY <1>1, EventsDiffer
  <2>. QED
    BY <2>1, <2>2
<1> HIDE DEF S
<1>5. ASSUME NEW T \in SUBSET S PROVE IsFiniteSet(T) /\ Cardinality(T) \in Nat
  <2>1. IsFiniteSet(DOMAIN trades)
    BY FS_Interval DEF Timed
  <2>2. T \in SUBSET DOMAIN trades
    BY <1>2
  <2>. QED
    BY <2>1, <2>2, FS_Subset, FS_CardinalityType
<1>6. /\ \A i : OpenAt(en, ex, S, i) \in SUBSET S /\ size(i) \in Nat
      /\ \A d : Held(trades, S, d) \in SUBSET S /\ Cardinality(Held(trades, S, d)) \in Nat
  <2>1. \A i : OpenAt(en, ex, S, i) \in SUBSET S
    BY DEF OpenAt
  <2>2. \A d : Held(trades, S, d) \in SUBSET S
    BY DEF Held
  <2>. QED
    BY <1>5, <2>1, <2>2
\* The first event enters a trade.
<1>7. S # {}
  <2>1. 1 \in 1 .. L
    <3>1. en[1] \in 1 .. L
      BY <1>4
    <3>. QED
      BY <1>4, <3>1
  <2>2. PICK k \in DOMAIN trades : 1 = en[k] \/ 1 = ex[k]
    <3>1. \A n \in 1 .. L : \E k \in DOMAIN trades : n = en[k] \/ n = ex[k]
      BY <1>1 DEF Timetable
    <3>. QED
      BY <2>1, <3>1
  <2>3. en[k] = 1
    <3>1. en[k] \in 1 .. L /\ ex[k] \in 1 .. L /\ en[k] < ex[k]
      BY <1>4
    <3>. QED
      BY <1>4, <2>2, <3>1
  <2>4. OpenAt(en, ex, S, 0) = {}
    BY <1>1, <1>2, OpenFirst
  <2>5. size(0) = 0 /\ en[k] - 1 = 0
    BY <2>3, <2>4, FS_EmptySet
  <2> HIDE DEF size
  <2>6. size(en[k] - 1) < cap
    BY <2>5
  <2>. QED
    BY <1>2, <2>6
<1>8. \A k \in S : \E i \in 0 .. L : Held(trades, S, trades[k].from) = OpenAt(en, ex, S, i)
  BY <1>1, <1>2, HeldIsOpen
<1>9. counts \in SUBSET (0 .. cap) /\ counts # {}
  <2>1. ASSUME NEW k \in S PROVE Cardinality(Held(trades, S, trades[k].from)) \in 0 .. cap
    <3>1. PICK i \in 0 .. L : Held(trades, S, trades[k].from) = OpenAt(en, ex, S, i)
      BY <1>8
    <3>2. size(i) \in Nat /\ size(i) <= cap
      BY <1>2, <1>6
    <3>. QED
      BY <3>1, <3>2
  <2>. QED
    BY <1>7, <2>1
<1>10. Max(counts) \in counts /\ \A x \in counts : x <= Max(counts)
  <2> HIDE DEF counts
  <2>. QED
    BY <1>9, MaxIs
<1>11. Max(counts) \in 0 .. cap
  BY <1>9, <1>10
<1>12. MaxConcurrent(events, S) = Max(counts)
  <2>1. /\ \E i \in 0 .. L : MaxConcurrent(events, S) = size(i)
        /\ \A i \in 0 .. L : size(i) <= MaxConcurrent(events, S)
    BY <1>1, <1>2, Counts
  <2>2. PICK i \in 0 .. L : MaxConcurrent(events, S) = size(i)
    BY <2>1
  <2>3. size(i) <= Max(counts)
    <3>1. CASE OpenAt(en, ex, S, i) = {}
      BY <1>11, <3>1, FS_EmptySet
    <3>2. CASE OpenAt(en, ex, S, i) # {}
      <4>1. PICK k \in S : OpenAt(en, ex, S, i) \in SUBSET Held(trades, S, trades[k].from)
        BY <1>1, <1>2, <3>2, OpenIsHeld
      <4>2. IsFiniteSet(Held(trades, S, trades[k].from))
        BY <1>5, <1>6
      <4>3. size(i) <= Cardinality(Held(trades, S, trades[k].from))
        BY <4>1, <4>2, FS_Subset
      <4>4. Cardinality(Held(trades, S, trades[k].from)) <= Max(counts)
        BY <1>10
      <4> HIDE DEF counts, size
      <4>. QED
        BY <1>6, <1>11, <4>3, <4>4
    <3>. QED
      BY <3>1, <3>2
  <2>4. PICK k \in S : Max(counts) = Cardinality(Held(trades, S, trades[k].from))
    BY <1>10
  <2>5. PICK j \in 0 .. L : Held(trades, S, trades[k].from) = OpenAt(en, ex, S, j)
    BY <1>8
  <2>6. Max(counts) <= MaxConcurrent(events, S)
    BY <2>1, <2>4, <2>5
  <2>7. MaxConcurrent(events, S) \in Nat
    BY <1>6, <2>2
  <2> HIDE DEF counts, size
  <2>. QED
    BY <1>11, <2>2, <2>3, <2>6, <2>7
<1>13. ASSUME NEW k \in DOMAIN trades \ S
       PROVE  Cardinality({j \in Held(trades, S, trades[k].from) :
                  trades[j].from < trades[k].from \/ trades[j].score >= trades[k].score}) = cap
  <2>1. size(en[k] - 1) <= cap /\ ~(size(en[k] - 1) < cap)
    <3>1. en[k] - 1 \in 0 .. L
      <4>1. en[k] \in 1 .. L
        BY <1>4
      <4>. QED
        BY <1>4, <4>1
    <3>. QED
      BY <1>2, <3>1
  <2>2. size(en[k] - 1) = cap
    <3>1. size(en[k] - 1) \in Nat
      BY <1>6
    <3> HIDE DEF size
    <3>. QED
      BY <2>1, <3>1
  <2>. QED
    BY <1>3, <2>2
<1>. QED
  BY <1>11, <1>12, <1>13 DEF S, events

\* The cap on open trades is held and used, and what is reported of it is true,
\* whatever the history and the strategy.
THEOREM CapIsEverHeld == Spec => []CapIsHeld
<1>1. Inv => CapIsHeld
  <2> SUFFICES ASSUME Inv, Trades # <<>>, NEW cap \in Caps
               PROVE  LET S      == Selected(Events(Trades), cap)
                          counts == {Cardinality(Held(Trades, S, Trades[k].from)) : k \in S}
                      IN  /\ Max(counts) <= cap
                          /\ MaxConcurrent(Events(Trades), S) = Max(counts)
                          /\ \A k \in DOMAIN Trades \ S :
                               Cardinality({j \in Held(Trades, S, Trades[k].from) :
                                   Trades[j].from < Trades[k].from
                                   \/ Trades[j].score >= Trades[k].score}) = cap
    BY Zenon DEF CapIsHeld
  <2>1. Timed(Trades) /\ 1 \in DOMAIN Trades
    BY MadeTimed
  <2>2. cap \in Nat \ {0}
    BY StrategyAssumption
  <2>. QED
    BY <2>1, <2>2, CapOf
<1>. QED
  BY <1>1, InitInv, NextInv, PTL DEF Spec
=============================================================================
