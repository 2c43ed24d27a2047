-------------------------- MODULE StrategyBacktest --------------------------
(***************************************************************************)
(* The strategy backtest of the dashboard (dashboard.service.ts): which    *)
(* trades it makes on a price history, what each returns under the 3%      *)
(* stop-loss, and which of them a cap on open trades would have allowed.   *)
(*                                                                         *)
(* The history grows by a trading day at a time, on which a symbol may     *)
(* have no bar.  A bar is a close, the setup score of the agents on that   *)
(* day, and what signal and agreement add to their conviction, in percent; *)
(* how these follow from the closes up to that day is left out.  Returns   *)
(* are scaled by 100 times the entry price, which makes them integers.     *)
(***************************************************************************)
EXTENDS Integers, Sequences, FiniteSets, FiniteSetsExt, Functions

CONSTANTS Symbols,         \* in the order of cachedData
          Bars,            \* [close, score, conviction]
          Horizon,         \* HOLDING_PERIOD_DAYS
          MinLookback,     \* MIN_LOOKBACK_FOR_FEATURES: bars without features
          NeutralLookback, \* NEUTRAL_LOOKBACK
          Margin,          \* the 6 in minLen
          NeutralMax,      \* PROBABILITY_NEUTRAL_MAX, in percent
          ConvictionMin,   \* LOCAL_CONVICTION_MIN, in percent
          Threshold,       \* LIVE_ACTIVE_SETUP_SCORE_ABS_THRESHOLD
          Caps,            \* 1, 2 and 3
          MaxDays, MaxBars \* bounds

ASSUME SymbolAssumption == Symbols \in Seq(Range(Symbols))
ASSUME BarAssumption == \A b \in Bars : b.close \in Nat \ {0} /\ b.score \in Int /\ b.conviction \in Nat
ASSUME StrategyAssumption ==
    /\ Horizon \in Nat \ {0} /\ MinLookback \in Nat /\ NeutralLookback \in Nat /\ Margin \in Nat
    /\ NeutralMax \in 0 .. 100 /\ ConvictionMin \in 0 .. 100
    /\ Threshold \in Nat \ {0} /\ Caps \subseteq Nat \ {0}

VARIABLES history, \* MarketPrice: symbol -> the bars of its latest dataset, oldest first
          day

vars == <<history, day>>

Names == Range(Symbols)

Init ==
    /\ history = [s \in Names |-> <<>>]
    /\ day = 0

\* A row of MarketPrice, with what the agents made of it.
Dated(bar, d) == [close |-> bar.close, score |-> bar.score, conviction |-> bar.conviction, day |-> d]

\* A trading day, on which not every symbol need have a bar.  A bar is of the
\* dataset of those before it or of a new one, which lacks the first of them;
\* from then on only the bars of the new one are taken.
Close(bars, lacks) ==
    /\ day < MaxDays /\ day' = day + 1
    /\ MapThenSumSet(LAMBDA s : Len(history[s]), Names) + Cardinality(DOMAIN bars) <= MaxBars
    /\ history' = [s \in Names |->
                     IF s \in DOMAIN bars
                     THEN Append(SubSeq(history[s], lacks[s] + 1, Len(history[s])),
                                 Dated(bars[s], day + 1))
                     ELSE history[s]]

Next ==
    \E S \in SUBSET Names \ {{}} : \E lacks \in [S -> 0 .. MaxDays] :
      /\ \A s \in S : lacks[s] <= Len(history[s])
      /\ \E bars \in [S -> Bars] : Close(bars, lacks)

Spec == Init /\ [][Next]_vars

-----------------------------------------------------------------------------
(* Which trades.                                                           *)

\* minLen: with fewer bars a symbol is left out.
Tradable(s) == Len(history[s]) >= MinLookback + Horizon + Margin + NeutralLookback

AbsScore(s, i) == IF history[s][i].score < 0 THEN - history[s][i].score ELSE history[s][i].score

\* Mutation: the days around the entry, for those before it.
WindowAhead(s, i) ==
    IF i - NeutralLookback > MinLookback
    THEN {k \in i - NeutralLookback .. i + 1 : k <= Len(history[s])} ELSE {}

\* The days before.  The loop ends where it starts if the first has no
\* features yet: then there are none, even if the later ones have.
Window(s, i) ==
    IF i - NeutralLookback > MinLookback THEN i - NeutralLookback .. i - 1 ELSE {}

\* probabilityNeutral, as a fraction: the days with no setup; a half without days.
ProbabilityNeutral(s, i) ==
    IF Window(s, i) = {} THEN [neutral |-> 1, of |-> 2]
    ELSE [neutral |-> Cardinality({k \in Window(s, i) : AbsScore(s, k) < Threshold}),
          of      |-> Cardinality(Window(s, i))]

\* A setup is a score of at least the threshold, either way; the gate after it
\* asks for more than the threshold.  Then two gates on probabilityNeutral,
\* the second by way of the conviction.
Enters(s, i) ==
    LET p == ProbabilityNeutral(s, i)
    IN  /\ i > MinLookback /\ AbsScore(s, i) > Threshold
        /\ 100 * p.neutral < NeutralMax * p.of
        /\ history[s][i].conviction * p.of + 20 * (p.of - p.neutral) >= ConvictionMin * p.of

Bar(t, d) == history[t.symbol][t.entry + d]

\* What the exec arrays keep of a trade.
Trade(s, i) ==
    [symbol |-> s, entry |-> i, isLong |-> history[s][i].score > 0, score |-> AbsScore(s, i),
     from |-> history[s][i].day, to |-> history[s][i + Horizon].day]

\* In the order of the two loops; a trade needs its whole holding period.
TradesOf(s) ==
    LET made[i \in 0 .. Len(history[s])] ==
          IF i = 0 THEN <<>>
          ELSE IF i + Horizon <= Len(history[s]) /\ Enters(s, i)
          THEN Append(made[i - 1], Trade(s, i))
          ELSE made[i - 1]
    IN  made[Len(history[s])]
Trades ==
    LET made[n \in 0 .. Len(Symbols)] ==
          IF n = 0 THEN <<>>
          ELSE made[n - 1] \o (IF Tradable(Symbols[n]) THEN TradesOf(Symbols[n]) ELSE <<>>)
    IN  made[Len(Symbols)]

(* What they return.                                                       *)

RawReturn(t, d) == 100 * (Bar(t, d).close - Bar(t, 0).close)

\* Mutation: the last day is not looked at.
StopsEarly(t) ==
    {d \in 1 .. Horizon - 1 : IF t.isLong THEN RawReturn(t, d) <= -3 * Bar(t, 0).close
                                           ELSE RawReturn(t, d) >= 3 * Bar(t, 0).close}

\* The days on which the close is 3% against the trade.
Stops(t) ==
    {d \in 1 .. Horizon : IF t.isLong THEN RawReturn(t, d) <= -3 * Bar(t, 0).close
                                       ELSE RawReturn(t, d) >= 3 * Bar(t, 0).close}

\* Stopped at 3% on the first such day, or closed at the horizon; the
\* benchmark is held as long.
Result(t) ==
    LET last == IF Stops(t) = {} THEN Horizon ELSE Min(Stops(t))
        raw  == RawReturn(t, last)
    IN  [trade |-> IF Stops(t) # {} THEN -3 * Bar(t, 0).close ELSE IF t.isLong THEN raw ELSE - raw,
         benchmark |-> raw]

(* Which of them a cap on open trades allows.                              *)

\* A day is two instants: entries, and a millisecond later exits.
EnterEvent(t, k) == [t |-> 2 * t.from, kind |-> "enter", k |-> k, score |-> t.score]

\* Mutation: exitTs for exitTs + 1.
ExitEventSooner(t, k) == [t |-> 2 * t.to, kind |-> "exit", k |-> k, score |-> 0]
ExitEvent(t, k) == [t |-> 2 * t.to + 1, kind |-> "exit", k |-> k, score |-> 0]

\* The comparator of evs.sort, which is stable.  (It orders exits of one
\* instant by their entries; in whichever order, they close the same trades.)
Before(a, b) ==
    \/ a.t < b.t
    \/ a.t = b.t /\ a.kind = "exit" /\ b.kind = "enter"
    \/ a.t = b.t /\ a.kind = b.kind /\ a.score > b.score
    \/ a.t = b.t /\ a.kind = b.kind /\ a.score = b.score /\ a.k < b.k

Sorted(E) ==
    LET placed == {[event |-> e, place |-> 1 + Cardinality({d \in E : Before(d, e)})] : e \in E}
    IN  [n \in 1 .. Cardinality(E) |-> (CHOOSE p \in placed : p.place = n).event]
Events(trades) ==
    Sorted({EnterEvent(trades[k], k) : k \in DOMAIN trades}
           \cup {ExitEvent(trades[k], k) : k \in DOMAIN trades})

\* runCapitalConstraintShadow: a trade is entered while fewer than the cap are
\* open.  A stopped trade keeps its place up to the horizon.
Take(cap, sweep, e) ==
    IF e.kind = "exit" THEN [sweep EXCEPT !.open = @ \ {e.k}]
    ELSE IF Cardinality(sweep.open) < cap
    THEN [open |-> sweep.open \cup {e.k}, selected |-> sweep.selected \cup {e.k}]
    ELSE sweep
Sweep(cap, events) ==
    LET sweep[n \in 0 .. Len(events)] ==
          IF n = 0 THEN [open |-> {}, selected |-> {}]
          ELSE Take(cap, sweep[n - 1], events[n])
    IN  sweep
Selected(events, cap) == Sweep(cap, events)[Len(events)].selected

\* maxConcurrentOpenTrades of the trades S: the largest count of a sweep over
\* their events.  (The source leaves out the last, after which none is open.)
Counted(c, e) ==
    LET now == c.now + IF e.kind = "enter" THEN 1 ELSE -1
    IN  [now |-> now, max |-> IF now > c.max THEN now ELSE c.max]
Count(events, S) ==
    LET count[n \in 0 .. Len(events)] ==
          IF n = 0 THEN [now |-> 0, max |-> 0]
          ELSE IF events[n].k \in S THEN Counted(count[n - 1], events[n]) ELSE count[n - 1]
    IN  count
MaxConcurrent(events, S) == Count(events, S)[Len(events)].max

-----------------------------------------------------------------------------
\* "Max concurrent open trades", "prioritize larger absolute activeSetupScore
\* first": on no day are more of the selected trades held than the cap, the
\* number reported is the largest there was, and a trade is passed over only
\* when that many, entered before it or with no smaller a score, are held.
Held(trades, S, d) == {k \in S : trades[k].from <= d /\ d <= trades[k].to}
CapIsHeld ==
    LET trades == Trades
        events == Events(trades)
    IN  trades # <<>> => \A cap \in Caps :
          LET S      == Selected(events, cap)
              counts == {Cardinality(Held(trades, S, trades[k].from)) : k \in S}
          IN  /\ Max(counts) <= cap
              /\ MaxConcurrent(events, S) = Max(counts)
              /\ \A k \in DOMAIN trades \ S :
                   LET t == trades[k]
                   IN  Cardinality({j \in Held(trades, S, t.from) :
                           trades[j].from < t.from \/ trades[j].score >= t.score}) = cap

\* "LONG: exit at -3% when rawReturn<=-0.03; SHORT: exit at -3% when
\* rawReturn>=0.03": no trade loses more, on whichever day of the holding
\* period it gets there, and no long trade less than the benchmark gains.
StopsBoundLosses ==
    \A t \in Range(Trades) :
      /\ Result(t).trade >= -3 * Bar(t, 0).close
      /\ t.isLong => Result(t).trade >= Result(t).benchmark

\* A backtest does not look ahead: of a symbol that is traded, later bars of
\* the same dataset change neither that it is, nor whether a day is one to enter
\* on, nor the result of a trade that was closed.  (With too few bars it is not
\* traded at all, on the days that will be entered on later either.)
Extended(s) == Len(history'[s]) >= Len(history[s]) /\ SubSeq(history'[s], 1, Len(history[s])) = history[s]
NoLookAhead ==
    [][\A s \in Names : Tradable(s) /\ Extended(s) =>
         /\ Tradable(s)'
         /\ \A i \in 1 .. Len(history[s]) :
              /\ Enters(s, i)' <=> Enters(s, i)
              /\ i + Horizon <= Len(history[s]) /\ Enters(s, i)
                 => Result(Trade(s, i))' = Result(Trade(s, i))]_vars
=============================================================================
