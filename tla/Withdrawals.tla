---------------------------- MODULE Withdrawals ----------------------------
(***************************************************************************)
(* WithdrawalService, the HTTP handlers and the recovery job that call it, *)
(* and the tables they share, on the default SQLite engine.                *)
(*                                                                         *)
(* Atomicity.  Outside a write transaction a SELECT sees the latest commit *)
(* and holds nothing (pysqlite opens a transaction at the first INSERT or  *)
(* UPDATE; FOR UPDATE is ignored), so each read of a handler is a step of  *)
(* its own.  From the first write to the commit a handler is the only      *)
(* writer, so its writes are one step.  Whatever goes wrong before the     *)
(* commit (a domain error, "database is locked" after busy_timeout, a      *)
(* version mismatch, a UNIQUE violation, a lost connection) rolls the      *)
(* transaction back and leaves no trace: RollBack.                         *)
(*                                                                         *)
(* Time.  Of the clock only two comparisons matter: is the row inside the  *)
(* 24-hour cooldown (recent), and has it been PROCESSING for an hour       *)
(* (aged).  Time passing is a step that changes one of these flags.        *)
(*                                                                         *)
(* Left out: currency, descriptions, gateway_reference (nothing in the     *)
(* program sets it on a row that is not COMPLETED, so the recovery job     *)
(* always takes its "no gateway reference" branch), suspended users.       *)
(***************************************************************************)
EXTENDS Accounts, StateMachines, Sequences, FiniteSetsExt

CONSTANTS
    Wids,           \* withdrawal ids (uuid4, never reused)
    Keys,           \* idempotency keys of requests
    Workers,        \* threads that serve HTTP requests
    Amounts,        \* amounts clients ask for
    MinAmount,      \* settings.min_withdrawal_amount
    Threshold,      \* settings.balance_check_threshold
    BatchSize,      \* settings.batch_size
    Opening,        \* what each user had earned before the first request
    ViaApi,         \* TRUE: admin actions pass the WithdrawalAction schema
    None            \* "no row" and "no item"

ASSUME ConstantsAssumption ==
    /\ Amounts \subseteq Int
    /\ MinAmount \in Nat \ {0}
    /\ Threshold \in Nat
    /\ BatchSize \in Nat \ {0}
    /\ Opening \in [Users -> Nat]
    /\ ViaApi \in BOOLEAN
    /\ None \notin Wids

VARIABLES
    status,         \* Withdrawal.status, "NONE" before the INSERT
    version,        \* Withdrawal.version, 0 before the INSERT
    details,        \* user, amount and key of the row, immutable
    entries,        \* ledger entries that reference the row, by type
    audit,          \* audit_logs of the row: its <<old, new>> statuses
    recent,         \* rows whose created_at is inside the cooldown window
    aged,           \* PROCESSING rows whose updated_at is over an hour old
    task,           \* what each worker is doing and what it has read
    batch,          \* recovery job: rows fetched and not yet visited
    seen,           \* recovery job: version its session holds, 0 if expired
    item            \* recovery job: row it is about to fail

rows == <<status, version, details, entries, audit>>
clock == <<recent, aged>>
job == <<batch, seen, item>>
vars == <<accounts, rows, clock, task, job>>

Idle == [step |-> "idle"]

\* Amounts are whole hundredths.  WithdrawalRequest does not insist on that;
\* what SQLite makes of a finer amount is not modelled.
Request == [user : Users, amount : Amounts, key : Keys]

RequestTask == [step : {"cooldown", "balance", "ledger", "insert"}, request : Request]

ChangeTask == [step : {"update"}, wid : Wids, held : Nat, target : WithdrawalStatuses]

Exists(w) == status[w] # "NONE"

KeyFree(k) == \A w \in Wids : Exists(w) => details[w].key # k

\* Mutant: the look-up alone guards the key.
NoUniqueIndex(k) == TRUE

\* The UNIQUE index on withdrawals.idempotency_key lets the row in.
UniqueKey(k) == KeyFree(k)

\* get_recent_withdrawal found a row: the user must wait.
CoolingDown(u) ==
    \E w \in recent : status[w] \in Live /\ details[w].user = u

Init ==
    /\ ledgerSum = Opening
    /\ available = Opening
    /\ status = [w \in Wids |-> "NONE"]
    /\ version = [w \in Wids |-> 0]
    /\ details = [w \in Wids |-> None]
    /\ entries = [w \in Wids |-> [debit |-> 0, reversal |-> 0]]
    /\ audit = [w \in Wids |-> <<>>]
    /\ recent = {}
    /\ aged = {}
    /\ task = [s \in Workers |-> Idle]
    /\ batch = {}
    /\ seen = [w \in Wids |-> 0]
    /\ item = None
-----------------------------------------------------------------------------
(* POST /withdrawals: request_withdrawal, one step per query.              *)

Reads == UNCHANGED <<accounts, rows, clock, job>>

\* The request passes the amount checks and its key is new.  (A known key
\* answers with the existing row and changes nothing.)
CheckKey(s, r) ==
    /\ task[s] = Idle
    /\ r.amount >= MinAmount
    /\ KeyFree(r.key)
    /\ task' = [task EXCEPT ![s] = [step |-> "cooldown", request |-> r]]
    /\ Reads

CheckCooldown(s) ==
    /\ task[s].step = "cooldown"
    /\ ~CoolingDown(task[s].request.user)
    /\ task' = [task EXCEPT ![s].step = "balance"]
    /\ Reads

\* Mutant: amounts below the threshold are not checked at all.
CheckLargeOnly(s) ==
    LET r == task[s].request IN
    /\ task[s].step = "balance"
    /\ task' = [task EXCEPT ![s].step =
                    IF r.amount >= Threshold THEN "ledger" ELSE "insert"]
    /\ Reads

\* Mutant: the check answers True when the cached balance is too low.
CheckFallsThrough(s) ==
    LET r == task[s].request IN
    /\ task[s].step = "balance"
    /\ task' = [task EXCEPT ![s].step =
                    IF available[r.user] >= r.amount /\ r.amount >= Threshold
                    THEN "ledger" ELSE "insert"]
    /\ Reads

\* check_sufficient_balance: the cached balance, and for large amounts the
\* ledger as well.
CheckBalance(s) ==
    LET r == task[s].request IN
    /\ task[s].step = "balance"
    /\ available[r.user] >= r.amount
    /\ task' = [task EXCEPT ![s].step =
                    IF r.amount >= Threshold THEN "ledger" ELSE "insert"]
    /\ Reads

CheckLedger(s) ==
    LET r == task[s].request IN
    /\ task[s].step = "ledger"
    /\ ledgerSum[r.user] >= r.amount
    /\ task' = [task EXCEPT ![s].step = "insert"]
    /\ Reads

\* The cache promised money the ledger does not have.  recalculate_balance
\* corrects the row, but the caller then raises InsufficientBalanceError and
\* the handler's rollback takes the correction back.
DriftDetected(s) ==
    LET r == task[s].request IN
    /\ task[s].step = "ledger"
    /\ ledgerSum[r.user] < r.amount
    /\ task' = [task EXCEPT ![s] = Idle]
    /\ Reads

\* INSERT (the key is UNIQUE), debit, ledger entry, audit, COMMIT.
CommitRequest(s, w) ==
    LET r == task[s].request IN
    /\ task[s].step = "insert"
    /\ ~Exists(w)
    /\ UniqueKey(r.key)
    /\ status' = [status EXCEPT ![w] = "PENDING"]
    /\ version' = [version EXCEPT ![w] = 1]
    /\ details' = [details EXCEPT ![w] = r]
    /\ RecordMovement(r.user, -r.amount)
    /\ entries' = [entries EXCEPT ![w].debit = @ + 1]
    /\ audit' = [audit EXCEPT ![w] = Append(@, <<"NONE", "PENDING">>)]
    /\ recent' = recent \cup {w}
    /\ task' = [task EXCEPT ![s] = Idle]
    /\ UNCHANGED <<aged, job>>
-----------------------------------------------------------------------------
(* Status changes.  A handler reads the row and validates the transition   *)
(* (one query), then writes under the version it has read.                 *)

\* The actions process_withdrawal_action knows, by their target status.
HandlerTargets == {"PROCESSING", "COMPLETED", "REJECTED", "FAILED"}

\* Those whose name the request schema lets through: its pattern lists
\* approve, reject, cancel, fail and complete, and not process.
SchemaTargets == {"COMPLETED", "REJECTED", "FAILED"}

\* Over HTTP only SchemaTargets are reached.  The safety properties are checked
\* for HandlerTargets, which include them: what the service does when it is
\* called directly.
AdminTargets == IF ViaApi THEN SchemaTargets ELSE HandlerTargets

\* Mutant: validate_transition is not called.
LoadUnvalidated(s, w, target) ==
    /\ task[s] = Idle
    /\ Exists(w)
    /\ task' = [task EXCEPT ![s] =
                    [step |-> "update", wid |-> w, held |-> version[w], target |-> target]]
    /\ Reads

Load(s, w, target) ==
    /\ task[s] = Idle
    /\ Exists(w)
    /\ CanTransition(WithdrawalTransitions, status[w], target)
    /\ task' = [task EXCEPT ![s] =
                    [step |-> "update", wid |-> w, held |-> version[w], target |-> target]]
    /\ Reads

AdminLoads(s, w, target) == target \in AdminTargets /\ Load(s, w, target)

\* POST /withdrawals/{id}/cancel, only for the owner of the row.
OwnerLoads(s, w, caller) ==
    /\ Exists(w) /\ details[w].user = caller
    /\ Load(s, w, "CANCELLED")

\* Mutant: UPDATE ... WHERE id = w, without the version.
UpdateUnversioned(w, held, old, new) ==
    /\ version' = [version EXCEPT ![w] = held + 1]
    /\ status' = [status EXCEPT ![w] = new]
    /\ audit' = [audit EXCEPT ![w] = Append(@, <<old, new>>)]
    /\ aged' = aged \ {w}
    /\ UNCHANGED <<details, recent>>

\* Mutant: the version is compared but not incremented.
UpdateKeepsVersion(w, held, old, new) ==
    /\ version[w] = held
    /\ status' = [status EXCEPT ![w] = new]
    /\ audit' = [audit EXCEPT ![w] = Append(@, <<old, new>>)]
    /\ aged' = aged \ {w}
    /\ UNCHANGED <<version, details, recent>>

\* BaseRepository.update: UPDATE ... WHERE version = held; no row matches a
\* stale version and OptimisticLockError rolls back.  The audit line names
\* the old status its service function has hard-coded.  Writing the row
\* renews updated_at.
UpdateStatus(w, held, old, new) ==
    /\ version[w] = held
    /\ version' = [version EXCEPT ![w] = held + 1]
    /\ status' = [status EXCEPT ![w] = new]
    /\ audit' = [audit EXCEPT ![w] = Append(@, <<old, new>>)]
    /\ aged' = aged \ {w}
    /\ UNCHANGED <<details, recent>>

\* Mutant: the reversal does not reach the cached balance.
ReverseLedgerOnly(w) ==
    /\ entries' = [entries EXCEPT ![w].reversal = @ + 1]
    /\ CreateEntry(details[w].user, details[w].amount)
    /\ UNCHANGED available

\* Mutant: the reversal is booked with the sign of the withdrawal.
ReverseAsDebit(w) ==
    /\ entries' = [entries EXCEPT ![w].reversal = @ + 1]
    /\ RecordMovement(details[w].user, -details[w].amount)

\* The compensating transaction: WITHDRAWAL_REVERSAL and the cached credit.
Reverse(w) ==
    /\ entries' = [entries EXCEPT ![w].reversal = @ + 1]
    /\ RecordMovement(details[w].user, details[w].amount)

KeepMoney == UNCHANGED <<entries, accounts>>

\* Worker s stands before the UPDATE for this target.
Updating(s, target) == task[s].step = "update" /\ task[s].target = target

Finish(s) ==
    /\ task' = [task EXCEPT ![s] = Idle]
    /\ UNCHANGED job

ProcessWithdrawal(s) ==
    /\ Updating(s, "PROCESSING")
    /\ UpdateStatus(task[s].wid, task[s].held, "PENDING", "PROCESSING")
    /\ KeepMoney
    /\ Finish(s)

CompleteWithdrawal(s) ==
    /\ Updating(s, "COMPLETED")
    /\ UpdateStatus(task[s].wid, task[s].held, "PROCESSING", "COMPLETED")
    /\ KeepMoney
    /\ Finish(s)

FailWithdrawal(s) ==
    /\ Updating(s, "FAILED")
    /\ UpdateStatus(task[s].wid, task[s].held, "PROCESSING", "FAILED")
    /\ Reverse(task[s].wid)
    /\ Finish(s)

RejectWithdrawal(s) ==
    /\ Updating(s, "REJECTED")
    /\ UpdateStatus(task[s].wid, task[s].held, "PROCESSING", "REJECTED")
    /\ Reverse(task[s].wid)
    /\ Finish(s)

CancelWithdrawal(s) ==
    /\ Updating(s, "CANCELLED")
    /\ UpdateStatus(task[s].wid, task[s].held, "PENDING", "CANCELLED")
    /\ Reverse(task[s].wid)
    /\ Finish(s)

\* Any error before the commit: with uow's rollback, an error response.
RollBack(s) ==
    /\ task[s] # Idle
    /\ task' = [task EXCEPT ![s] = Idle]
    /\ Reads
-----------------------------------------------------------------------------
(* recover_stuck_withdrawals.  One job runs at a time (max_instances=1).   *)
(* Its session keeps the rows of the batch query and does not refresh them *)
(* when fail_withdrawal selects them again; a commit or rollback expires   *)
(* them all, and an expired row is read anew when the loop reaches it.     *)

Expired == [w \in Wids |-> 0]

\* The oldest BatchSize rows; which of the aged rows are oldest is left open.
RecoveryFetch ==
    /\ batch = {} /\ item = None /\ aged # {}
    /\ \E b \in SUBSET aged :
        /\ Cardinality(b) <= BatchSize
        /\ b = aged \/ Cardinality(b) = BatchSize
        /\ batch' = b
        /\ seen' = [w \in Wids |-> IF w \in b THEN version[w] ELSE 0]
    /\ UNCHANGED <<accounts, rows, clock, task, item>>

\* The loop takes w.  A row read anew may no longer be PROCESSING: then
\* validate_transition raises and the loop goes on after a rollback.
RecoveryVisit(w) ==
    /\ item = None
    /\ w \in batch
    /\ batch' = batch \ {w}
    /\ \/ /\ seen[w] # 0
          /\ item' = w
          /\ UNCHANGED seen
       \/ /\ seen[w] = 0 /\ status[w] = "PROCESSING"
          /\ item' = w
          /\ seen' = [seen EXCEPT ![w] = version[w]]
       \/ /\ seen[w] = 0 /\ status[w] # "PROCESSING"
          /\ seen' = Expired
          /\ UNCHANGED item
    /\ UNCHANGED <<accounts, rows, clock, task>>

\* Mutant: an error leaves the loop where it is.
SameItem == UNCHANGED <<item, seen>>

NextItem == item' = None /\ seen' = Expired

\* fail_withdrawal and commit.
RecoveryFail(w) ==
    /\ item = w
    /\ UpdateStatus(w, seen[w], "PROCESSING", "FAILED")
    /\ Reverse(w)
    /\ NextItem
    /\ UNCHANGED <<task, batch>>

\* The except branch: roll back, log, next row.
RecoveryRollBack ==
    /\ item # None
    /\ NextItem
    /\ UNCHANGED <<accounts, rows, clock, task, batch>>
-----------------------------------------------------------------------------
\* The process dies and restarts: sessions are gone, committed rows stay.
Crash ==
    /\ task' = [s \in Workers |-> Idle]
    /\ batch' = {}
    /\ item' = None
    /\ seen' = Expired
    /\ UNCHANGED <<accounts, rows, clock>>

\* 24 hours pass since w was created.
CooldownElapses(w) ==
    /\ w \in recent
    /\ recent' = recent \ {w}
    /\ UNCHANGED <<accounts, rows, aged, task, job>>

\* An hour passes since w became PROCESSING.
Ages(w) ==
    /\ status[w] = "PROCESSING" /\ w \notin aged
    /\ aged' = aged \cup {w}
    /\ UNCHANGED <<accounts, rows, recent, task, job>>

RequestStep(s) ==
    \/ \E r \in Request : CheckKey(s, r)
    \/ CheckCooldown(s)
    \/ CheckBalance(s)
    \/ CheckLedger(s)
    \/ DriftDetected(s)
    \/ \E w \in Wids : CommitRequest(s, w)

ChangeStep(s) ==
    \/ \E w \in Wids, target \in HandlerTargets : AdminLoads(s, w, target)
    \/ \E w \in Wids, caller \in Users : OwnerLoads(s, w, caller)
    \/ ProcessWithdrawal(s)
    \/ CompleteWithdrawal(s)
    \/ FailWithdrawal(s)
    \/ RejectWithdrawal(s)
    \/ CancelWithdrawal(s)

RecoveryStep ==
    \/ RecoveryFetch
    \/ \E w \in Wids : RecoveryVisit(w) \/ RecoveryFail(w)
    \/ RecoveryRollBack

Next ==
    \/ \E s \in Workers : RequestStep(s) \/ ChangeStep(s) \/ RollBack(s)
    \/ RecoveryStep
    \/ Crash
    \/ \E w \in Wids : CooldownElapses(w) \/ Ages(w)

Spec == Init /\ [][Next]_vars

\* The scheduler starts the job every five minutes and the clock runs.  A
\* crash or a busy database may undo any one attempt, never all of them; that
\* one row is not passed over for ever is no assumption but a consequence.
RecoveryFairness ==
    /\ WF_vars(\E w \in Wids : Ages(w))
    /\ WF_vars(RecoveryFetch)
    /\ WF_vars(RecoveryRollBack \/ \E w \in Wids : RecoveryFail(w))
    /\ SF_vars(\E w \in Wids : RecoveryVisit(w))
    /\ SF_vars(\E w \in Wids : RecoveryFail(w))

FairSpec == Spec /\ RecoveryFairness

\* Requests end, and an administrator keeps trying every action the API has on
\* every withdrawal, not always in vain.
AdminFairness ==
    \A s \in Workers :
        /\ WF_vars(task[s] # Idle /\ (RequestStep(s) \/ ChangeStep(s) \/ RollBack(s)))
        /\ \A w \in Wids, target \in HandlerTargets : SF_vars(AdminLoads(s, w, target))
        /\ SF_vars(ProcessWithdrawal(s))
        /\ SF_vars(CompleteWithdrawal(s))

AdminSpec == FairSpec /\ AdminFairness
-----------------------------------------------------------------------------
(* Properties                                                              *)

Details == Request

TaskTypeOK == task \in [Workers -> {Idle} \cup RequestTask \cup ChangeTask]

\* Types: among them a cache that is never negative, and statuses the enum has.
TypeOK ==
    /\ AccountsTypeOK
    /\ status \in [Wids -> WithdrawalStatuses \cup {"NONE"}]
    /\ version \in [Wids -> Nat]
    /\ details \in [Wids -> Details \cup {None}]
    /\ entries \in [Wids -> [debit : Nat, reversal : Nat]]
    /\ audit \in [Wids -> Seq((WithdrawalStatuses \cup {"NONE"}) \X WithdrawalStatuses)]
    /\ recent \subseteq Wids
    /\ aged \subseteq Wids
    /\ TaskTypeOK
    /\ batch \subseteq Wids
    /\ seen \in [Wids -> Nat]
    /\ item \in Wids \cup {None}

\* A withdrawal's money is taken once, and given back exactly once if and
\* only if the withdrawal failed, was rejected or was cancelled, although
\* several handlers and the recovery job may race for the same row.
SettledExactlyOnce ==
    \A w \in Wids :
        entries[w] = [debit    |-> IF Exists(w) THEN 1 ELSE 0,
                      reversal |-> IF status[w] \in Reversed THEN 1 ELSE 0]

\* What a handler or the job has read still holds whenever the version it
\* holds is the current one: the transition it validated is still legal, and
\* the row the job is about to fail is still PROCESSING.  This is all that
\* stands between a stale read and a double refund.
SnapshotsHold ==
    /\ \A s \in Workers :
        task[s].step = "update" =>
            /\ Exists(task[s].wid)
            /\ task[s].held <= version[task[s].wid]
            /\ task[s].held = version[task[s].wid] =>
                CanTransition(WithdrawalTransitions, status[task[s].wid], task[s].target)
    /\ \A w \in Wids :
        /\ seen[w] <= version[w]
        /\ seen[w] # 0 /\ seen[w] = version[w] => status[w] = "PROCESSING"
    /\ item # None => seen[item] # 0

\* What w holds back from its owner: its amount while it is live.
Held(w) == IF status[w] \in Live THEN details[w].amount ELSE 0

\* What the withdrawals of u hold back together.
HeldFrom(u) ==
    SumFunctionOnSet([w \in Wids |-> Held(w)], {w \in Wids : Exists(w) /\ details[w].user = u})

\* The ledger adds up: a user's sum is what was earned less what the live
\* withdrawals hold or have paid out.
LedgerBalancesBooks == \A u \in Users : ledgerSum[u] = Opening[u] - HeldFrom(u)

\* The audit trail explains the status: starting from nothing, each line
\* begins where the previous one ended, is a legal transition, and the last
\* one ends in the current status - although the old status of every line is
\* a constant of the service function and not what the row held.
AuditReplaysStatus ==
    \A w \in Wids :
        LET lines == audit[w] IN
        /\ \A i \in 2 .. Len(lines) :
            /\ lines[i][1] = lines[i - 1][2]
            /\ CanTransition(WithdrawalTransitions, lines[i][1], lines[i][2])
        /\ status[w] = IF lines = <<>> THEN "NONE" ELSE lines[Len(lines)][2]

\* No two withdrawals carry the same idempotency key, however many requests
\* with that key passed the look-up before the first of them committed.
KeyUsedOnce ==
    \A v, w \in Wids :
        v # w /\ Exists(v) /\ Exists(w) => details[v].key # details[w].key

\* A committed status only ever changes along the state machine, although a
\* handler validates a status it read before others wrote.
StatusFollowsMachine ==
    [][\A w \in Wids :
        status'[w] # status[w] =>
            \/ status[w] = "NONE" /\ status'[w] = "PENDING"
            \/ CanTransition(WithdrawalTransitions, status[w], status'[w])]_status

\* Requests that have passed the cooldown check, and those that have passed the
\* check of the cached balance.
Cooled == {s \in Workers : task[s].step \in {"balance", "ledger", "insert"}}
Promised == {s \in Workers : task[s].step \in {"ledger", "insert"}}

\* No two requests of one user are between their checks and their commits.
\* Other users, administrators and the recovery job may do as they like.
Apart == \A s, t \in Cooled : s # t => task[s].request.user # task[t].request.user

\* Two live withdrawals of u inside one 24-hour window.
TwoInWindow(u) ==
    \E v, w \in recent :
        /\ v # w /\ status[v] \in Live /\ status[w] \in Live
        /\ details[v].user = u /\ details[w].user = u

\* A user's money has two guards: the cooldown keeps a second withdrawal out of
\* the window, and the balance check, which "prevents the user from spending
\* the same money twice".  Where the first has let a second request through,
\* the second has at least kept the ledger from going negative.
SecondRequestIsStopped == \A u \in Users : TwoInWindow(u) => ledgerSum[u] >= 0

\* Overlapping requests of one user are the only way into an overdraft: without
\* them none comes about, however many threads serve other users and
\* administrators, and whatever fails or restarts.
OverdraftNeedsRace == []Apart => []NoOverspend

\* And they are the only way to a second live withdrawal inside 24 hours.
CooldownNeedsRace == []Apart => [](\A u \in Users : ~TwoInWindow(u))

\* The withdrawals implement an escrow: see Escrow.  PENDING and PROCESSING
\* hold the money, COMPLETED is paid out, the rest is returned.
HoldOf(w) ==
    CASE status[w] = "NONE" -> "none"
      [] status[w] \in {"PENDING", "PROCESSING"} -> "held"
      [] status[w] = "COMPLETED" -> "paid"
      [] OTHER -> "returned"

StakeOf(w) ==
    IF Exists(w) THEN [user |-> details[w].user, amount |-> details[w].amount] ELSE None

Abstract ==
    INSTANCE Escrow WITH
        Owners <- Users, Ids <- Wids, Sums <- Amounts,
        hold <- [w \in Wids |-> HoldOf(w)],
        stake <- [w \in Wids |-> StakeOf(w)],
        book <- ledgerSum

\* Every behaviour of the tables is a behaviour of the escrow.
ImplementsEscrow == Abstract!Spec

\* A withdrawal does not stay PROCESSING for ever: an administrator settles
\* it or the recovery job does, across crashes and failed transactions.
StuckIsSettled ==
    \A w \in Wids :
        status[w] = "PROCESSING" ~> status[w] \in {"COMPLETED", "FAILED", "REJECTED"}

\* A pending withdrawal is eventually taken up or cancelled, if administrators
\* keep trying what the API offers: process_withdrawal_action documents
\* "process: Move to PROCESSING status".
PendingIsTakenUp == \A w \in Wids : status[w] = "PENDING" ~> status[w] # "PENDING"
=============================================================================
