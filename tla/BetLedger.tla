----------------------------- MODULE BetLedger -----------------------------
(***************************************************************************)
(* The wallet of one user, the ledger of its movements and the bets made   *)
(* from it: bets.service.ts (createOpen and the settlements), wallet.      *)
(* service.ts and the settlement script apps/worker/src/scripts/settle.ts. *)
(*                                                                         *)
(* All of them run as interactive Postgres transactions at READ COMMITTED: *)
(* every statement sees what others have committed by then, and a row that *)
(* a transaction has updated is locked until it ends.  A transaction is    *)
(* therefore split where it reads something it later relies on; from its   *)
(* first write on it is one step, as no other transaction can tell.        *)
(*                                                                         *)
(* Prices, steps and directions of a bet are stood for by the return of a  *)
(* settlement, pnl = amount * return; -1 is a full loss.                   *)
(***************************************************************************)
EXTENDS Integers, Sequences, FiniteSets, SequencesExt

CONSTANTS Runs, Amounts, Returns,
          InitialBalance,   \* INITIAL_BALANCE
          MaxOpenBets,      \* MAX_OPEN_BETS_PER_RUN
          MaxOpenExposure,  \* MAX_OPEN_EXPOSURE_PER_RUN
          Adjustments,      \* amounts of POST /wallet/adjust
          Resets,           \* balances of POST /wallet/reset
          Clients,          \* requests in progress at once
          MaxRequests,      \* bound on requests
          NoWallet

ASSUME AmountAssumption ==
    /\ Amounts \subseteq Nat \ {0} /\ Returns \subseteq Int
    /\ Adjustments \subseteq Int /\ Resets \subseteq Int
ASSUME LimitAssumption ==
    /\ InitialBalance \in Nat \ {0} /\ MaxOpenBets \in Nat /\ MaxOpenExposure \in Nat
    /\ MaxRequests \in Nat
ASSUME WalletAssumption == NoWallet \notin Int
ASSUME ClientAssumption == IsFiniteSet(Clients)

VARIABLES balance,  \* UserWallet.balance, or NoWallet without a row
          bets,     \* Bet rows, in order of creation
          ledger,   \* UserWalletTransaction rows, in order of creation
          call,     \* per client: the request in progress
          requests,
          overlapped, \* history: two requests have been in progress at once
          wasReset    \* history: the wallet has been reset

vars == <<balance, bets, ledger, call, requests, overlapped, wasReset>>

BetIds == 1 .. MaxRequests
NoBet  == 0

Bets    == [run : Runs, amount : Amounts, status : {"OPEN", "SETTLED"}, pnl : Int]
Entries == [type : {"SEED", "BET_DEBIT", "BET_CREDIT", "ADJUSTMENT"}, amount : Int,
            bet : BetIds \cup {NoBet}]

Idle  == [pc |-> "idle"]
Calls == {Idle}
    \cup [pc : {"limits", "funds", "open", "openFirst"}, run : Runs, amount : Amounts]
    \cup [pc : {"settle"}, open : SUBSET BetIds, settled : SUBSET BetIds]
    \cup [pc : {"createWallet", "readWallet"}]
    \cup [pc : {"seed"}, amount : Int]

TypeOK ==
    /\ balance \in Int \cup {NoWallet}
    /\ bets \in Seq(Bets) /\ Len(bets) <= MaxRequests
    /\ ledger \in Seq(Entries)
    /\ call \in [Clients -> Calls]
    /\ requests \in 0 .. MaxRequests
    /\ overlapped \in BOOLEAN /\ wasReset \in BOOLEAN

Init ==
    /\ balance = NoWallet /\ bets = <<>> /\ ledger = <<>>
    /\ call = [c \in Clients |-> Idle]
    /\ requests = 0
    /\ overlapped = FALSE /\ wasReset = FALSE

-----------------------------------------------------------------------------
Total(amount, B) == FoldSet(LAMBDA b, sum : sum + amount[b], 0, B)

OpenBets(r) == {b \in DOMAIN bets : bets[b].run = r /\ bets[b].status = "OPEN"}
Exposure(r) == Total([b \in DOMAIN bets |-> bets[b].amount], OpenBets(r))

Entry(type, amount, b) == [type |-> type, amount |-> amount, bet |-> b]
Seeds == {n \in DOMAIN ledger : ledger[n].type = "SEED"}
EntriesOf(type, b) == {n \in DOMAIN ledger : ledger[n].type = type /\ ledger[n].bet = b}

\* A request arrives and its handler takes its first step.
Arrive(c) ==
    /\ call[c] = Idle
    /\ requests < MaxRequests /\ requests' = requests + 1
    /\ overlapped' = (overlapped \/ \E d \in Clients : call[d] # Idle)
Continue(c, k) == call' = [call EXCEPT ![c] = k]
Done(c) == Continue(c, Idle)
Rows == <<balance, bets, ledger>>

-----------------------------------------------------------------------------
(* POST /bets: createOpen.                                                 *)

RequestOpen(c, r, a) ==
    /\ Arrive(c)
    /\ Continue(c, [pc |-> "limits", run |-> r, amount |-> a])
    /\ UNCHANGED Rows

\* Mutation: > for >=.
CheckLimitsLate(c) ==
    LET k == call[c]
    IN  /\ k.pc = "limits"
        /\ IF Cardinality(OpenBets(k.run)) > MaxOpenBets
              \/ Exposure(k.run) + k.amount > MaxOpenExposure
           THEN Done(c) ELSE Continue(c, [k EXCEPT !.pc = "funds"])
        /\ UNCHANGED <<Rows, requests>>

\* Count and sum of the OPEN bets of the run: 400 beyond the limits.
CheckLimits(c) ==
    LET k == call[c]
    IN  /\ k.pc = "limits"
        /\ IF Cardinality(OpenBets(k.run)) >= MaxOpenBets
              \/ Exposure(k.run) + k.amount > MaxOpenExposure
           THEN Done(c) ELSE Continue(c, [k EXCEPT !.pc = "funds"])
        /\ UNCHANGED <<Rows, requests>>

\* Mutation: no check of the balance.
CheckFundsNever(c) ==
    LET k == call[c]
    IN  /\ k.pc = "funds"
        /\ Continue(c, [k EXCEPT !.pc = IF balance = NoWallet THEN "openFirst" ELSE "open"])
        /\ UNCHANGED <<Rows, requests>>

\* The wallet, or what a new one will hold: 400 "insufficient funds".
CheckFunds(c) ==
    LET k == call[c]
        funds == IF balance = NoWallet THEN InitialBalance ELSE balance
    IN  /\ k.pc = "funds"
        /\ IF funds < k.amount
           THEN Done(c)
           ELSE Continue(c, [k EXCEPT !.pc = IF balance = NoWallet THEN "openFirst" ELSE "open"])
        /\ UNCHANGED <<Rows, requests>>

NewBet(k) == [run |-> k.run, amount |-> k.amount, status |-> "OPEN", pnl |-> 0]

\* Mutation: betId of the bet before.
DebitOfPrevious(k) == Entry("BET_DEBIT", - k.amount, Len(bets))
NewDebit(k) == Entry("BET_DEBIT", - k.amount, Len(bets) + 1)

\* Mutation: the ledger row is forgotten.
OpenUnlisted(c) ==
    LET k == call[c]
    IN  /\ k.pc = "open"
        /\ balance' = balance - k.amount
        /\ bets' = Append(bets, NewBet(k))
        /\ Done(c) /\ UNCHANGED <<ledger, requests>>

\* balance: { decrement }, the bet, its BET_DEBIT; commit.
Open(c) ==
    LET k == call[c]
    IN  /\ k.pc = "open"
        /\ balance' = balance - k.amount
        /\ bets' = Append(bets, NewBet(k))
        /\ ledger' = Append(ledger, NewDebit(k))
        /\ Done(c) /\ UNCHANGED requests

\* Without a wallet: create it with its SEED first.  One that was created
\* meanwhile makes the insert fail (P2002) and the request with it.
OpenFirst(c) ==
    LET k == call[c]
    IN  /\ k.pc = "openFirst"
        /\ IF balance = NoWallet
           THEN /\ balance' = InitialBalance - k.amount
                /\ bets' = Append(bets, NewBet(k))
                /\ ledger' = ledger \o <<Entry("SEED", InitialBalance, NoBet), NewDebit(k)>>
           ELSE UNCHANGED Rows
        /\ Done(c) /\ UNCHANGED requests

-----------------------------------------------------------------------------
(* Settlements.  Each reads the bets it is to settle, and later writes     *)
(* them in one transaction, going by the status it read.                   *)

SettleLater(c, open, settled) ==
    /\ Arrive(c)
    /\ Continue(c, [pc |-> "settle", open |-> open, settled |-> settled])
    /\ UNCHANGED Rows

\* POST /bets/:id/settle: settleBetById, 400 unless OPEN.
SettleBet(c, b) ==
    /\ bets[b].status = "OPEN"
    /\ SettleLater(c, {b}, {})

\* POST /bets/settle and /bets/settle-latest: settleRun, v1 or v2.
SettleRun(c, r) ==
    /\ OpenBets(r) # {}
    /\ SettleLater(c, OpenBets(r), {})

\* The settle script: the bets of the run opened up to closeStep, with --force
\* the SETTLED ones too.  (One that finds nothing to settle writes nothing.)
SettleScript(c, r, open, settled) ==
    /\ open \cup settled # {}
    /\ open \subseteq OpenBets(r)
    /\ settled \subseteq {b \in DOMAIN bets : bets[b].run = r /\ bets[b].status = "SETTLED"}
    /\ SettleLater(c, open, settled)

Credit(b, return) == bets[b].amount + bets[b].amount * return[b]
CreditEntry(b, return) == Entry("BET_CREDIT", Credit(b, return), b)
TotalCredit(B, return) == Total([b \in B |-> Credit(b, return)], B)
Settled(B, return) ==
    [b \in DOMAIN bets |->
        IF b \in B THEN [bets[b] EXCEPT !.status = "SETTLED", !.pnl = bets[b].amount * return[b]]
                   ELSE bets[b]]

\* Mutation: a re-settled bet is credited again.
SettleCreditsForced(c, return) ==
    LET k    == call[c]
        paid == {b \in k.open \cup k.settled : Credit(b, return) # 0}
    IN  /\ k.pc = "settle"
        /\ bets' = Settled(k.open \cup k.settled, return)
        /\ balance' = balance + TotalCredit(paid, return)
        /\ ledger' = ledger \o SetToSeq({CreditEntry(b, return) : b \in paid})
        /\ Done(c) /\ UNCHANGED requests

\* Status and pnl whatever they are by now; a credit for what was read as
\* OPEN, and for a credit of 0 neither wallet nor ledger row.
Settle(c, return) ==
    LET k    == call[c]
        paid == {b \in k.open : Credit(b, return) # 0}
    IN  /\ k.pc = "settle"
        /\ bets' = Settled(k.open \cup k.settled, return)
        /\ balance' = balance + TotalCredit(paid, return)
        /\ ledger' = ledger \o SetToSeq({CreditEntry(b, return) : b \in paid})
        /\ Done(c) /\ UNCHANGED requests

-----------------------------------------------------------------------------
(* The wallet.                                                             *)

\* GET /wallet and /wallet/summary: getOrCreateWallet finds none ...
RequestWallet(c) ==
    /\ Arrive(c) /\ balance = NoWallet
    /\ Continue(c, [pc |-> "createWallet"])
    /\ UNCHANGED Rows

\* ... and creates it with its SEED, unless another request was first.
CreateWallet(c) ==
    /\ call[c].pc = "createWallet"
    /\ IF balance = NoWallet
       THEN /\ balance' = InitialBalance
            /\ ledger' = Append(ledger, Entry("SEED", InitialBalance, NoBet))
            /\ UNCHANGED bets
       ELSE UNCHANGED Rows
    /\ Done(c) /\ UNCHANGED requests

\* Mutation: backfill without looking for a SEED.
RequestListAlways(c) ==
    /\ Arrive(c)
    /\ Continue(c, [pc |-> "readWallet"])
    /\ UNCHANGED Rows

\* GET /wallet/transactions: without a SEED (looked for twice, the second
\* time in the transaction), backfillPreLedgerSeed ...
RequestList(c) ==
    /\ Arrive(c) /\ Seeds = {}
    /\ Continue(c, [pc |-> "readWallet"])
    /\ UNCHANGED Rows

\* Mutation: a missing wallet is not told from an empty one.
ReadWalletUnchecked(c) ==
    /\ call[c].pc = "readWallet"
    /\ IF balance = 0
       THEN Done(c) ELSE Continue(c, [pc |-> "seed", amount |-> balance])
    /\ UNCHANGED <<Rows, requests>>

\* ... reads the wallet; none, or an empty one, is left alone ...
ReadWallet(c) ==
    /\ call[c].pc = "readWallet"
    /\ IF balance \in {NoWallet, 0}
       THEN Done(c) ELSE Continue(c, [pc |-> "seed", amount |-> balance])
    /\ UNCHANGED <<Rows, requests>>

\* ... and inserts a SEED of its balance.  No unique index refuses a second.
InsertSeed(c) ==
    /\ call[c].pc = "seed"
    /\ ledger' = Append(ledger, Entry("SEED", call[c].amount, NoBet))
    /\ Done(c) /\ UNCHANGED <<balance, bets, requests>>

\* POST /wallet/adjust, one upsert and its row: a wallet it creates holds the
\* amount and gets no SEED.
Adjust(c, amount) ==
    /\ Arrive(c)
    /\ balance' = IF balance = NoWallet THEN amount ELSE balance + amount
    /\ ledger' = Append(ledger, Entry("ADJUSTMENT", amount, NoBet))
    /\ UNCHANGED <<bets, call>>

\* POST /wallet/reset: no ledger row at all.
Reset(c, amount) ==
    /\ Arrive(c)
    /\ balance' = amount
    /\ wasReset' = TRUE
    /\ UNCHANGED <<bets, ledger, call>>

\* The API or the script dies, or the transaction times out: rolled back.
Abort(c) ==
    /\ call[c] # Idle
    /\ Done(c) /\ UNCHANGED <<Rows, requests>>

Step(c) ==
    \/ CheckLimits(c) \/ CheckFunds(c) \/ Open(c) \/ OpenFirst(c)
    \/ call[c].pc = "settle"
       /\ \E return \in [call[c].open \cup call[c].settled -> Returns] : Settle(c, return)
    \/ CreateWallet(c) \/ ReadWallet(c) \/ InsertSeed(c) \/ Abort(c)

Request(c) ==
    \/ \E r \in Runs, a \in Amounts : RequestOpen(c, r, a)
    \/ \E b \in DOMAIN bets : SettleBet(c, b)
    \/ \E r \in Runs : SettleRun(c, r)
    \/ \E r \in Runs, open, settled \in SUBSET DOMAIN bets : SettleScript(c, r, open, settled)
    \/ RequestWallet(c) \/ RequestList(c)
    \/ \E amount \in Adjustments : Adjust(c, amount)

Next ==
    \E c \in Clients :
      \/ Step(c) /\ UNCHANGED <<overlapped, wasReset>>
      \/ Request(c) /\ UNCHANGED wasReset
      \/ \E amount \in Resets : Reset(c, amount)

Spec == Init /\ [][Next]_vars

-----------------------------------------------------------------------------
\* Every movement of money is on the ledger, whatever interleaves, aborts or
\* settles twice: the balance is what the wallet was opened with plus all
\* entries but the SEEDs.  (A reset writes no ledger row.)
Opening == IF ledger # <<>> /\ ledger[1].type = "SEED" THEN InitialBalance ELSE 0
Movement(e) == IF e.type = "SEED" THEN 0 ELSE e.amount
Moved(entries) == FoldLeft(LAMBDA sum, e : sum + Movement(e), 0, entries)
MoneyConserved ==
    balance # NoWallet /\ ~wasReset => balance = Opening + Moved(ledger)

\* A bet and its stake come and go together: each bet has one BET_DEBIT, of
\* its amount, and no bet still OPEN has been paid out.
StakesAreDebited ==
    /\ \A b \in DOMAIN bets :
         /\ \E n \in EntriesOf("BET_DEBIT", b) : ledger[n].amount = - bets[b].amount
         /\ Cardinality(EntriesOf("BET_DEBIT", b)) = 1
    /\ \A n \in DOMAIN ledger :
         ledger[n].type = "BET_CREDIT" => bets[ledger[n].bet].status = "SETTLED"

\* "Credit wallet only on first-time settlement (OPEN -> SETTLED)."
CreditedOnce == \A b \in DOMAIN bets : Cardinality(EntriesOf("BET_CREDIT", b)) <= 1

\* So it is while requests do not overlap, forced resettlements included; and
\* then a ledger has one SEED, "idempotent (unique on userId where type=SEED)",
\* though no index sees to it.
OnceAlone == ~overlapped => CreditedOnce /\ Cardinality(Seeds) <= 1

\* A request that meets no other places a bet only within "max OPEN bets per
\* user per run" and "max OPEN exposure", and never takes the wallet below
\* zero ("400 if insufficient funds").
OpensAreAllowed ==
    [][~overlapped /\ Len(bets') > Len(bets) =>
         /\ balance' >= 0
         /\ \A r \in Runs : r = bets'[Len(bets')].run =>
              Cardinality(OpenBets(r)') <= MaxOpenBets /\ Exposure(r)' <= MaxOpenExposure]_bets
=============================================================================
