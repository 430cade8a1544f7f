------------------------------ MODULE Payouts ------------------------------
(***************************************************************************)
(* Sales, their reconciliation by administrators, and the payout job that  *)
(* advances a tenth of the earnings of a pending sale and sends it through *)
(* the payment gateway.  SaleService, ReconciliationService,               *)
(* PayoutService and process_advance_payouts, on the default SQLite engine *)
(* (reads are steps of their own, a write transaction is one step: see     *)
(* Withdrawals).                                                           *)
(*                                                                         *)
(* A sale is known by its external_id and ordered by created_at; creation  *)
(* may commit out of that order.  A sale's version, and a payout's, change *)
(* exactly when its status leaves PENDING, so "UPDATE ... WHERE version =  *)
(* what was read" succeeds exactly while the row is still PENDING.         *)
(*                                                                         *)
(* Each server process runs its own scheduler: max_instances keeps a job   *)
(* from overlapping itself, and Jobs is the set of processes that run it.  *)
(*                                                                         *)
(* The gateway.  PaymentGateway's contract is that a key it knows gets the *)
(* answer it got before and moves no money (GatewayKeeps).  The one that   *)
(* create_gateway makes, MockPaymentGateway, keeps its keys in an object   *)
(* that lives as long as one run of the job (~GatewayKeeps).               *)
(*                                                                         *)
(* The settlement job has no action: process_settlements uses PayoutType,  *)
(* which is not imported there, so each run ends in NameError before the   *)
(* first query and leaves nothing behind.                                  *)
(***************************************************************************)
EXTENDS Accounts, StateMachines, FiniteSetsExt

CONSTANTS
    Sales,          \* sales, numbered by created_at
    Admins,         \* threads that serve reconciliation requests
    Jobs,           \* processes that run process_advance_payouts
    Earnings,       \* earnings of a sale
    BatchSize,      \* settings.batch_size
    GatewayKeeps    \* does the gateway remember keys across its clients?

ASSUME PayoutConstants ==
    /\ Users # {}
    /\ Sales \subseteq Nat /\ IsFiniteSet(Sales)
    /\ Earnings \subseteq Nat \ {0}
    /\ BatchSize \in Nat \ {0}
    /\ GatewayKeeps \in BOOLEAN

VARIABLES
    sale,           \* Sale.status, "NONE" before the INSERT
    info,           \* user and earnings of the sale
    advance,        \* status of the sale's ADVANCE payout, "NONE" without one
    final,          \* status of its FINAL_SETTLEMENT payout
    entries,        \* what the sale has booked to the ledger, by entry type
    admin,          \* what each administrator's request has read
    job,            \* where each payout job is
    answers,        \* gateway: its answer to "advance_<sale>", by client
    transfers       \* gateway: how often it has moved the money

tables == <<sale, info, advance, final, entries>>
gateway == <<answers, transfers>>
payoutVars == <<accounts, tables, admin, job, gateway>>

Waiting == [step |-> "waiting"]

\* A job between two runs.
Resting ==
    [phase |-> "resting", offset |-> 0, page |-> {}, created |-> FALSE, result |-> <<>>]

\* round(earnings * 0.10, 2), in hundredths: halves go to the even neighbour.
AdvanceAmount(earnings) ==
    LET tenth == earnings \div 10
        rest == earnings % 10
    IN  IF rest > 5 \/ (rest = 5 /\ tenth % 2 = 1) THEN tenth + 1 ELSE tenth

AdvanceOf(s) == AdvanceAmount(info[s].earnings)

NoAnswers == [s \in Sales |-> "none"]

NothingBooked == [advance |-> 0, final |-> 0, adjustment |-> 0]

PayoutsInit ==
    /\ ledgerSum = [u \in Users |-> 0]
    /\ available = [u \in Users |-> 0]
    /\ sale = [s \in Sales |-> "NONE"]
    /\ info = [s \in Sales |-> [user |-> CHOOSE u \in Users : TRUE, earnings |-> 0]]
    /\ advance = [s \in Sales |-> "NONE"]
    /\ final = [s \in Sales |-> "NONE"]
    /\ entries = [s \in Sales |-> NothingBooked]
    /\ admin = [a \in Admins |-> Waiting]
    /\ job = [j \in Jobs |-> Resting]
    /\ answers = [j \in Jobs |-> NoAnswers]
    /\ transfers = [s \in Sales |-> 0]

\* A ledger entry for the sale and the cached balance, as one pair.
Book(s, type, amount) ==
    /\ entries' = [entries EXCEPT ![s][type] = @ + amount]
    /\ RecordMovement(info[s].user, amount)
-----------------------------------------------------------------------------
(* POST /sales: create_sale.  The look-up of external_id and its UNIQUE    *)
(* index agree that the sale is new.                                       *)

CreateSale(s, u, earnings) ==
    /\ sale[s] = "NONE"
    /\ sale' = [sale EXCEPT ![s] = "PENDING"]
    /\ info' = [info EXCEPT ![s] = [user |-> u, earnings |-> earnings]]
    /\ UNCHANGED <<accounts, advance, final, entries, admin, job, gateway>>
-----------------------------------------------------------------------------
(* POST /admin/reconcile: reconcile_sale.                                  *)

LoadSale(a, s, decision) ==
    /\ admin[a] = Waiting
    /\ sale[s] = "PENDING"
    /\ CanTransition(SaleTransitions, sale[s], decision)
    /\ admin' = [admin EXCEPT ![a] = [step |-> "reconcile", sale |-> s, decision |-> decision]]
    /\ UNCHANGED <<accounts, tables, job, gateway>>

\* Mutant: the UPDATE does not compare versions.
Unversioned(s) == TRUE

\* The UPDATE of the sale finds the version that was read.
StillPending(s) == sale[s] = "PENDING"

\* Mutant: only an advance the gateway has confirmed is deducted.
ConfirmedAdvance(s) == IF advance[s] = "COMPLETED" THEN AdvanceOf(s) ELSE 0

\* The amount of the sale's advance payout, whatever became of it; it is
\* looked up inside the write transaction.
AdvanceMade(s) == IF advance[s] # "NONE" THEN AdvanceOf(s) ELSE 0

\* Mutant: the advance is not negated.
UnsignedAdjustment(s) == AdvanceMade(s)

\* What a rejected sale's user owes.
Adjustment(s) == -AdvanceMade(s)

\* _handle_approval: the final settlement is what the advance left.
Approve(s) ==
    LET remaining == info[s].earnings - AdvanceMade(s) IN
    IF remaining > 0
    THEN final' = [final EXCEPT ![s] = "PENDING"] /\ Book(s, "final", remaining)
    ELSE UNCHANGED <<final, accounts, entries>>

\* _handle_rejection: the advance is taken back from the balance.
Reject(s) ==
    /\ IF AdvanceMade(s) > 0 THEN Book(s, "adjustment", Adjustment(s))
                             ELSE UNCHANGED <<accounts, entries>>
    /\ UNCHANGED final

ReconcileSale(a) ==
    LET s == admin[a].sale
        decision == admin[a].decision
    IN  /\ admin[a].step = "reconcile"
        /\ StillPending(s)
        /\ sale' = [sale EXCEPT ![s] = decision]
        /\ \/ decision = "APPROVED" /\ Approve(s)
           \/ decision = "REJECTED" /\ Reject(s)
        /\ admin' = [admin EXCEPT ![a] = Waiting]
        /\ UNCHANGED <<info, advance, job, gateway>>

\* Another administrator was faster, or any other error: roll back.
ReconcileFails(a) ==
    /\ admin[a] # Waiting
    /\ admin' = [admin EXCEPT ![a] = Waiting]
    /\ UNCHANGED <<accounts, tables, job, gateway>>
-----------------------------------------------------------------------------
(* process_advance_payouts, first half: page after page of pending sales.  *)

\* get_pending_sales_batch without offset and limit.
Eligible == {s \in Sales : sale[s] = "PENDING" /\ advance[s] = "NONE"}

Rank(s) == Cardinality({t \in Eligible : t <= s})

\* Mutant: the page starts one row too late.
PageAfter(offset) == {s \in Eligible : offset + 1 < Rank(s) /\ Rank(s) <= offset + 1 + BatchSize}

\* ORDER BY created_at OFFSET offset LIMIT batch_size.
Page(offset) == {s \in Eligible : offset < Rank(s) /\ Rank(s) <= offset + BatchSize}

\* The loop has come to s.
ComesTo(j, s) == s \in job[j].page /\ \A t \in job[j].page : s <= t

JobOnly(j, state) ==
    /\ job' = [job EXCEPT ![j] = state]
    /\ UNCHANGED <<accounts, tables, admin, gateway>>

\* create_gateway: without GatewayKeeps a new object that knows nothing.
StartRun(j) ==
    /\ job[j].phase = "resting"
    /\ job' = [job EXCEPT ![j].phase = "paging"]
    /\ answers' = [answers EXCEPT ![j] = IF GatewayKeeps THEN @ ELSE NoAnswers]
    /\ UNCHANGED <<accounts, tables, admin, transfers>>

\* An empty page ends the loop; the gateway is only called if this run has
\* created a payout.
FetchPage(j) ==
    LET page == Page(job[j].offset) IN
    /\ job[j].phase = "paging"
    /\ JobOnly(j, IF page # {} THEN [job[j] EXCEPT !.phase = "visit", !.page = page]
                  ELSE IF job[j].created THEN [job[j] EXCEPT !.phase = "payouts"]
                  ELSE Resting)

\* create_advance_payout reads the sale, whose status it does not look at,
\* and finds no advance for it.
VisitSale(j, s) ==
    /\ job[j].phase = "visit" /\ ComesTo(j, s)
    /\ advance[s] = "NONE"
    /\ JobOnly(j, [job[j] EXCEPT !.phase = "insert"])

\* The loop goes on behind s; after the page, offset grows by its length.
Behind(j, s) ==
    LET left == job[j].page \ {s} IN
    [job[j] EXCEPT !.phase = IF left = {} THEN "paging" ELSE "visit",
                   !.page = left,
                   !.offset = @ + 1]

\* Mutant: nothing stops a second advance.
NoUniqueAdvance(s) == TRUE

\* UNIQUE (sale_id, type), and the payout's key "advance_<sale>".
UniqueAdvance(s) == advance[s] = "NONE"

CreateAdvance(j, s) ==
    /\ job[j].phase = "insert" /\ ComesTo(j, s)
    /\ UniqueAdvance(s)
    /\ advance' = [advance EXCEPT ![s] = "PENDING"]
    /\ Book(s, "advance", AdvanceOf(s))
    /\ job' = [job EXCEPT ![j] = [Behind(j, s) EXCEPT !.created = TRUE]]
    /\ UNCHANGED <<sale, info, final, admin, gateway>>

\* The advance exists by now, or any other error: roll back, next sale.
SkipSale(j, s) ==
    /\ job[j].phase \in {"visit", "insert"} /\ ComesTo(j, s)
    /\ JobOnly(j, Behind(j, s))
-----------------------------------------------------------------------------
(* process_advance_payouts, second half: pending advances to the gateway.  *)

Unsent == {s \in Sales : advance[s] = "PENDING"}

\* The oldest BatchSize pending advances; which are oldest is left open.
FetchPayouts(j) ==
    /\ job[j].phase = "payouts"
    /\ \E queue \in SUBSET Unsent :
        /\ Cardinality(queue) <= BatchSize
        /\ queue = Unsent \/ Cardinality(queue) = BatchSize
        /\ JobOnly(j, IF queue = {} THEN Resting
                      ELSE [job[j] EXCEPT !.phase = "send", !.page = queue])

\* Mutant: every call has a key of its own.
NewToGateway(j, s) == TRUE

\* The payout's idempotency key, "advance_<sale>", has not been seen.
KeyUnknown(j, s) == answers[j][s] = "none"

\* The answer is kept for this client, or for all.
Remember(j, s, answer) ==
    answers' = [k \in Jobs |->
        IF k = j \/ GatewayKeeps THEN [answers[k] EXCEPT ![s] = answer] ELSE answers[k]]

\* send_payout.  The job does not look at the payout's status again before
\* it calls.
SendPayout(j, s) ==
    /\ job[j].phase = "send" /\ s \in job[j].page
    /\ \E answer \in {"paid", "refused"} :
        /\ \/ /\ KeyUnknown(j, s)
              /\ Remember(j, s, answer)
              /\ transfers' = [transfers EXCEPT ![s] = IF answer = "paid" THEN @ + 1 ELSE @]
           \/ /\ ~KeyUnknown(j, s) /\ answer = answers[j][s]
              /\ UNCHANGED gateway
        /\ job' = [job EXCEPT ![j] = [@ EXCEPT !.phase = "settle", !.result = <<s, answer>>]]
    /\ UNCHANGED <<accounts, tables, admin>>

\* On to the next payout; the run ends behind the last.
AfterPayout(j, s) ==
    IF job[j].page = {s} THEN Resting
    ELSE [job[j] EXCEPT !.phase = "send", !.page = @ \ {s}, !.result = <<>>]

\* Mutant: a refused payout is completed too.
OutcomeAlwaysCompleted(answer) == "COMPLETED"

\* complete_payout or fail_payout, by the gateway's answer.
Outcome(answer) == IF answer = "paid" THEN "COMPLETED" ELSE "FAILED"

SettlePayout(j) ==
    LET s == job[j].result[1]
        target == Outcome(job[j].result[2])
    IN  /\ job[j].phase = "settle"
        /\ CanTransition(PayoutTransitions, advance[s], target)
        /\ advance' = [advance EXCEPT ![s] = target]
        /\ job' = [job EXCEPT ![j] = AfterPayout(j, s)]
        /\ UNCHANGED <<accounts, sale, info, final, entries, admin, gateway>>

\* Any error on the way, after the gateway may have paid: next payout.
SkipPayout(j) ==
    \/ /\ job[j].phase = "settle"
       /\ JobOnly(j, AfterPayout(j, job[j].result[1]))
    \/ /\ job[j].phase = "send"
       /\ \E s \in job[j].page : JobOnly(j, AfterPayout(j, s))

\* The process dies, or a query outside the loops raises.
AbortRun(j) ==
    /\ job[j].phase # "resting"
    /\ JobOnly(j, Resting)
-----------------------------------------------------------------------------
AdminStep(a) ==
    \/ \E s \in Sales, decision \in {"APPROVED", "REJECTED"} : LoadSale(a, s, decision)
    \/ ReconcileSale(a)
    \/ ReconcileFails(a)

JobStep(j) ==
    \/ StartRun(j)
    \/ FetchPage(j)
    \/ \E s \in Sales :
        VisitSale(j, s) \/ CreateAdvance(j, s) \/ SkipSale(j, s) \/ SendPayout(j, s)
    \/ FetchPayouts(j)
    \/ SettlePayout(j)
    \/ SkipPayout(j)
    \/ AbortRun(j)

PayoutsNext ==
    \/ \E s \in Sales, u \in Users, earnings \in Earnings : CreateSale(s, u, earnings)
    \/ \E a \in Admins : AdminStep(a)
    \/ \E j \in Jobs : JobStep(j)

PayoutsSpec == PayoutsInit /\ [][PayoutsNext]_payoutVars

\* The scheduler starts the job every minute.  Crashes and a busy database
\* may spoil any one attempt at a step, never all of them.
PayoutsFairness ==
    \A j \in Jobs :
        /\ WF_payoutVars(JobStep(j))
        /\ SF_payoutVars(FetchPage(j))
        /\ \A s \in Sales :
            /\ SF_payoutVars(VisitSale(j, s))
            /\ SF_payoutVars(CreateAdvance(j, s))

PayoutsFairSpec == PayoutsSpec /\ PayoutsFairness

\* Nor do they spoil all calls of the gateway.
SendFairness ==
    \A j \in Jobs :
        /\ SF_payoutVars(FetchPayouts(j))
        /\ \A s \in Sales : SF_payoutVars(SendPayout(j, s))
        /\ SF_payoutVars(SettlePayout(j))

SendingSpec == PayoutsFairSpec /\ SendFairness
-----------------------------------------------------------------------------
(* Properties                                                              *)

JobState ==
    [phase : {"resting", "paging", "visit", "insert", "payouts", "send", "settle"},
     offset : Nat, page : SUBSET Sales, created : BOOLEAN,
     result : {<<>>} \cup (Sales \X {"paid", "refused"})]

\* Types.
PayoutsTypeOK ==
    /\ AccountsTypeOK
    /\ sale \in [Sales -> {"NONE", "PENDING", "APPROVED", "REJECTED"}]
    /\ info \in [Sales -> [user : Users, earnings : Earnings \cup {0}]]
    /\ advance \in [Sales -> {"NONE", "PENDING", "COMPLETED", "FAILED"}]
    /\ final \in [Sales -> {"NONE", "PENDING"}]
    /\ entries \in [Sales -> [advance : Nat, final : Nat, adjustment : Int]]
    /\ \A s \in Sales : entries[s].adjustment <= 0
    /\ admin \in [Admins -> {Waiting} \cup
            [step : {"reconcile"}, sale : Sales, decision : {"APPROVED", "REJECTED"}]]
    /\ job \in [Jobs -> JobState]
    /\ answers \in [Jobs -> [Sales -> {"none", "paid", "refused"}]]
    /\ transfers \in [Sales -> Nat]

\* What a sale has brought its user.
Credit(s) == entries[s].advance + entries[s].final + entries[s].adjustment

\* What the sales have brought u.
Brought(u) == SumFunctionOnSet([s \in Sales |-> Credit(s)], {s \in Sales : info[s].user = u})

\* What has ever been credited to u, whatever was taken back later.
Granted(u) ==
    SumFunctionOnSet([s \in Sales |-> entries[s].advance + entries[s].final],
                     {s \in Sales : info[s].user = u})

\* What a sale should have brought: the advance while it is pending, if there is
\* one, all earnings once approved, nothing once rejected.
Entitled(s) ==
    CASE sale[s] = "NONE" -> 0
      [] sale[s] = "PENDING" -> AdvanceMade(s)
      [] sale[s] = "APPROVED" -> info[s].earnings
      [] sale[s] = "REJECTED" -> 0

\* An advance is credited once, with its payout, however many jobs visit the
\* sale at the same time.
AdvanceCreditedOnce ==
    \A s \in Sales : entries[s].advance = AdvanceMade(s)

\* At the moment a sale is reconciled the user has been credited exactly the
\* earnings (approved) or nothing (rejected), although an advance may be
\* created, sent, confirmed or refused between the read and the write.
ReconciliationExact ==
    [][\A s \in Sales :
        sale'[s] # sale[s] /\ sale[s] = "PENDING" => (Credit(s) = Entitled(s))']_tables

\* Nobody is ever short, and what a user has too much is one advance.
ExcessIsOneAdvance ==
    \A s \in Sales : Credit(s) - Entitled(s) \in {0, AdvanceOf(s)}

\* Cache, ledger and sales tell the same sum.
BooksAgree ==
    \A u \in Users : Synced(u) /\ ledgerSum[u] = Brought(u)

\* The gateway moves the money of an advance at most once, although two
\* processes may send the same payout and a job may die before it has
\* written the answer down.
PaidOnce == \A s \in Sales : transfers[s] <= 1

\* Moreover a payout's status is what happened at the gateway: COMPLETED was
\* paid, FAILED was not.
PayoutTellsTruth ==
    /\ PaidOnce
    /\ \A s \in Sales :
        /\ advance[s] = "COMPLETED" => transfers[s] = 1
        /\ advance[s] = "FAILED" => transfers[s] = 0

\* A pending sale gets its advance, unless it is reconciled first: the rows
\* that a run's growing offset jumps over are met by a later run.
AdvanceComes ==
    \A s \in Sales : s \in Eligible ~> s \notin Eligible

\* A reconciled sale leaves its user with exactly what it should.
SettledExactly ==
    \A s \in Sales : sale[s] \in {"APPROVED", "REJECTED"} => Credit(s) = Entitled(s)

\* The tables and the gateway implement a disbursement: see Disbursement.
StageOf(s) ==
    CASE advance[s] = "NONE" -> "none"
      [] advance[s] = "PENDING" -> "credited"
      [] advance[s] = "COMPLETED" -> "paid"
      [] advance[s] = "FAILED" -> "refused"

\* What the gateway has decided about s, as some client of it knows.
VerdictOn(s) ==
    IF \E j \in Jobs : answers[j][s] = "paid" THEN "paid"
    ELSE IF \E j \in Jobs : answers[j][s] = "refused" THEN "refused"
    ELSE "none"

Abstract ==
    INSTANCE Disbursement WITH
        Ids <- Sales, Sums <- {AdvanceAmount(earnings) : earnings \in Earnings},
        stage <- [s \in Sales |-> StageOf(s)],
        owed <- [s \in Sales |-> entries[s].advance],
        verdict <- [s \in Sales |-> VerdictOn(s)],
        moved <- transfers

\* Every behaviour of the jobs, the administrators and the gateway is one of
\* the disbursement: no order of visits, calls, answers and deaths credits an
\* advance twice, pays before the credit, pays twice, or reports what the
\* gateway has not decided.
ImplementsDisbursement == Abstract!Spec

\* A payout that is created is sent, and its answer written down.
PendingIsSent ==
    \A s \in Sales : advance[s] = "PENDING" ~> advance[s] # "PENDING"
=============================================================================
