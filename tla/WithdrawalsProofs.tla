------------------------- MODULE WithdrawalsProofs -------------------------
(***************************************************************************)
(* Theorems about Withdrawals, for any users, withdrawals, keys, workers,  *)
(* amounts and limits.                                                     *)
(***************************************************************************)
EXTENDS Withdrawals, TLAPS

\* A row that exists has a version and its details; before the INSERT there
\* is neither.  Only PROCESSING rows can be older than an hour in that state.
RowsSound ==
    /\ \A w \in Wids :
        IF Exists(w) THEN version[w] > 0 /\ details[w] \in Request ELSE version[w] = 0
    /\ \A w \in aged : status[w] = "PROCESSING"

\* The inductive invariant.  SettledExactlyOnce alone is not inductive: a
\* reversal is safe only because a current version vouches for the status
\* the handler or the job has validated (SnapshotsHold).
IInv ==
    /\ TypeOK
    /\ RowsSound
    /\ SnapshotsHold
    /\ SettledExactlyOnce
    /\ CacheNeverBelowLedger
-----------------------------------------------------------------------------
(* The building blocks of the actions                                      *)

\* The legal transitions, spelled out.
LEMMA LegalTransitions ==
    ASSUME NEW current, NEW target
    PROVE  CanTransition(WithdrawalTransitions, current, target) <=>
               \/ current = "PENDING" /\ target \in {"PROCESSING", "CANCELLED"}
               \/ current = "PROCESSING" /\ target \in {"COMPLETED", "FAILED", "REJECTED"}
BY DEF CanTransition, WithdrawalTransitions

\* A movement keeps the types, and the cache at or above the ledger: both
\* move by the same amount, and the clamp can only lift the cache.
LEMMA MovementSafe ==
    ASSUME AccountsTypeOK, CacheNeverBelowLedger,
           NEW u \in Users, NEW amount \in Int, RecordMovement(u, amount)
    PROVE  AccountsTypeOK' /\ CacheNeverBelowLedger'
BY DEF AccountsTypeOK, CacheNeverBelowLedger, RecordMovement, CreateEntry, UpdateBalance, Clamp

\* A worker before an UPDATE holds what a status change needs.
LEMMA UpdateTask ==
    ASSUME NEW s \in Workers, NEW t, t \in {Idle} \cup RequestTask \cup ChangeTask,
           t.step = "update"
    PROVE  t \in ChangeTask /\ t.wid \in Wids /\ t.held \in Nat /\ t.target \in WithdrawalStatuses
<1>1. t # Idle
  BY DEF Idle
<1>2. t \notin RequestTask
  BY DEF RequestTask
<1> QED
  BY <1>1, <1>2 DEF ChangeTask

\* The types of everything but the accounts, the tasks and the job, after a
\* row has been updated.
LEMMA UpdateTypes ==
    ASSUME TypeOK, NEW w \in Wids, NEW held \in Nat,
           NEW old \in WithdrawalStatuses, NEW new \in WithdrawalStatuses,
           UpdateStatus(w, held, old, new)
    PROVE  /\ status' \in [Wids -> WithdrawalStatuses \cup {"NONE"}]
           /\ version' \in [Wids -> Nat]
           /\ details' \in [Wids -> Details \cup {None}]
           /\ audit' \in [Wids -> Seq((WithdrawalStatuses \cup {"NONE"}) \X WithdrawalStatuses)]
           /\ recent' \subseteq Wids
           /\ aged' \subseteq Wids
<1> DEFINE Line == (WithdrawalStatuses \cup {"NONE"}) \X WithdrawalStatuses
<1>1. <<old, new>> \in Line
  OBVIOUS
<1>2. Append(audit[w], <<old, new>>) \in Seq(Line)
  BY <1>1 DEF TypeOK
<1>3. audit' \in [Wids -> Seq(Line)]
  BY <1>2 DEF TypeOK, UpdateStatus
<1>4. status' \in [Wids -> WithdrawalStatuses \cup {"NONE"}]
  BY DEF TypeOK, UpdateStatus
<1>5. version' \in [Wids -> Nat]
  BY DEF TypeOK, UpdateStatus
<1> QED
  BY <1>3, <1>4, <1>5 DEF TypeOK, UpdateStatus

\* The heart of the argument: a legal change of one row, made under its
\* current version, with a reversal exactly when the new status needs one,
\* while every other handler and the job keep what they hold or let go.
LEMMA ChangeSafe ==
    ASSUME ConstantsAssumption, IInv,
           NEW w \in Wids, NEW held \in Nat,
           NEW old \in WithdrawalStatuses, NEW new \in WithdrawalStatuses,
           Exists(w),
           CanTransition(WithdrawalTransitions, status[w], new),
           UpdateStatus(w, held, old, new),
           \/ new \notin Reversed /\ KeepMoney
           \/ new \in Reversed /\ Reverse(w),
           TaskTypeOK',
           \A s \in Workers : task'[s] = task[s] \/ task'[s] = Idle,
           batch' \subseteq Wids,
           \/ UNCHANGED <<seen, item>>
           \/ seen' = Expired /\ item' = None
    PROVE  IInv'
<1> DEFINE from == status[w]
<1>1. \/ from = "PENDING" /\ new \in {"PROCESSING", "CANCELLED"}
      \/ from = "PROCESSING" /\ new \in {"COMPLETED", "FAILED", "REJECTED"}
  BY LegalTransitions
<1>2. details[w] \in Request /\ version[w] = held /\ version'[w] = held + 1 /\ status'[w] = new
  BY DEF IInv, TypeOK, RowsSound, UpdateStatus
<1>3. details[w].user \in Users /\ details[w].amount \in Int
  BY <1>2 DEF Request, ConstantsAssumption
<1>4. AccountsTypeOK' /\ CacheNeverBelowLedger'
  <2>1. CASE KeepMoney
    BY <2>1 DEF KeepMoney, IInv, TypeOK, AccountsTypeOK, CacheNeverBelowLedger, accounts
  <2>2. CASE Reverse(w)
    BY <2>2, <1>3, MovementSafe DEF Reverse, IInv, TypeOK
  <2> QED
    BY <2>1, <2>2
<1>5. entries' \in [Wids -> [debit : Nat, reversal : Nat]]
  <2>1. entries \in [Wids -> [debit : Nat, reversal : Nat]]
    BY DEF IInv, TypeOK
  <2>2. CASE KeepMoney
    BY <2>1, <2>2 DEF KeepMoney
  <2>3. CASE Reverse(w)
    <3>1. [entries[w] EXCEPT !.reversal = @ + 1] \in [debit : Nat, reversal : Nat]
      BY <2>1
    <3>2. entries' = [entries EXCEPT ![w] = [entries[w] EXCEPT !.reversal = @ + 1]]
      BY <2>1, <2>3 DEF Reverse
    <3> QED
      BY <2>1, <3>1, <3>2
  <2> QED
    BY <2>2, <2>3
<1>6. TypeOK'
  <2>1. seen' \in [Wids -> Nat] /\ item' \in Wids \cup {None}
    <3>1. seen \in [Wids -> Nat] /\ item \in Wids \cup {None}
      BY DEF IInv, TypeOK
    <3> QED
      BY <3>1 DEF Expired
  <2> QED
    BY <2>1, <1>4, <1>5, UpdateTypes DEF IInv, TypeOK
<1>7. RowsSound'
  <2>1. \A v \in Wids : v # w =>
            status'[v] = status[v] /\ version'[v] = version[v] /\ details'[v] = details[v]
    BY DEF IInv, TypeOK, UpdateStatus
  <2>2. details'[w] = details[w]
    BY DEF UpdateStatus
  <2>3. \A v \in Wids :
            IF Exists(v)' THEN version'[v] > 0 /\ details'[v] \in Request ELSE version'[v] = 0
    BY <2>1, <2>2, <1>1, <1>2 DEF IInv, RowsSound, Exists, Request
  <2>4. \A v \in aged' : status'[v] = "PROCESSING"
    BY <2>1 DEF IInv, TypeOK, RowsSound, UpdateStatus
  <2> QED
    BY <2>3, <2>4 DEF RowsSound, Request
<1>8. SnapshotsHold'
  <2>1. \A v \in Wids :
            /\ version'[v] >= version[v]
            /\ version'[v] = version[v] => status'[v] = status[v]
            /\ Exists(v) => Exists(v)'
    <3>1. /\ version \in [Wids -> Nat]
          /\ version' = [version EXCEPT ![w] = held + 1]
          /\ status' = [status EXCEPT ![w] = new]
          /\ status \in [Wids -> WithdrawalStatuses \cup {"NONE"}]
      BY DEF IInv, TypeOK, UpdateStatus
    <3>2. \A v \in Wids : v # w => status'[v] = status[v] /\ version'[v] = version[v]
      BY <3>1
    <3>3. new # "NONE"
      BY <1>1
    <3> QED
      BY <3>1, <3>2, <3>3, <1>2 DEF Exists
  <2>2. ASSUME NEW s \in Workers, task'[s].step = "update"
        PROVE  /\ status'[task'[s].wid] # "NONE"
               /\ task'[s].held <= version'[task'[s].wid]
               /\ task'[s].held = version'[task'[s].wid] =>
                    CanTransition(WithdrawalTransitions, status'[task'[s].wid], task'[s].target)
    <3>1. task'[s] = task[s]
      BY <2>2 DEF Idle
    <3>2. task[s] \in {Idle} \cup RequestTask \cup ChangeTask
      BY DEF IInv, TypeOK, TaskTypeOK
    <3>3. task[s].wid \in Wids /\ task[s].held \in Nat
      BY <2>2, <3>1, <3>2, UpdateTask
    <3>4. /\ Exists(task[s].wid)
          /\ task[s].held <= version[task[s].wid]
          /\ task[s].held = version[task[s].wid] =>
                CanTransition(WithdrawalTransitions, status[task[s].wid], task[s].target)
      BY <2>2, <3>1 DEF IInv, SnapshotsHold
    <3>5. version[task[s].wid] \in Nat /\ version'[task[s].wid] \in Nat
      BY <3>3, <1>6 DEF IInv, TypeOK
    <3> QED
      BY <2>1, <3>1, <3>3, <3>4, <3>5 DEF Exists
  <2>3. \A v \in Wids :
            /\ seen'[v] <= version'[v]
            /\ seen'[v] # 0 /\ seen'[v] = version'[v] => status'[v] = "PROCESSING"
    <3>1. version \in [Wids -> Nat] /\ version' \in [Wids -> Nat] /\ seen \in [Wids -> Nat]
      BY <1>6 DEF IInv, TypeOK
    <3>2. CASE UNCHANGED seen
      <4>1. \A v \in Wids :
                /\ seen[v] <= version[v]
                /\ seen[v] # 0 /\ seen[v] = version[v] => status[v] = "PROCESSING"
        BY DEF IInv, SnapshotsHold
      <4> QED
        BY <3>1, <3>2, <4>1, <2>1
    <3>3. CASE seen' = Expired
      BY <3>1, <3>3 DEF Expired
    <3> QED
      BY <3>2, <3>3
  <2>4. item' # None => seen'[item'] # 0
    BY DEF IInv, SnapshotsHold
  <2> QED
    BY <2>2, <2>3, <2>4 DEF SnapshotsHold, Exists
<1>9. SettledExactlyOnce'
  <2>1. ASSUME NEW v \in Wids, v # w
        PROVE  entries'[v] = entries[v] /\ status'[v] = status[v]
    BY <2>1 DEF KeepMoney, Reverse, UpdateStatus, IInv, TypeOK
  <2>2. entries[w] = [debit |-> 1, reversal |-> 0]
    BY <1>1 DEF IInv, SettledExactlyOnce, Reversed
  <2>3. entries'[w] = [debit |-> 1, reversal |-> IF new \in Reversed THEN 1 ELSE 0]
    BY <2>2 DEF KeepMoney, Reverse, IInv, TypeOK
  <2>4. Exists(w)'
    BY <1>1, <1>2 DEF Exists
  <2>5. ASSUME NEW v \in Wids
        PROVE  entries'[v] = [debit    |-> IF Exists(v)' THEN 1 ELSE 0,
                              reversal |-> IF status'[v] \in Reversed THEN 1 ELSE 0]
    <3>1. CASE v = w
      BY <3>1, <2>3, <2>4, <1>2
    <3>2. CASE v # w
      BY <3>2, <2>1 DEF IInv, SettledExactlyOnce, Exists
    <3> QED
      BY <3>1, <3>2
  <2> QED
    BY <2>5 DEF SettledExactlyOnce, Exists, Reversed
<1> QED
  BY <1>4, <1>6, <1>7, <1>8, <1>9 DEF IInv

\* A task that stands before an UPDATE with a transition that is legal now.
Honest(t) ==
    /\ Exists(t.wid)
    /\ t.held = version[t.wid]
    /\ CanTransition(WithdrawalTransitions, status[t.wid], t.target)

\* Steps that write no row: reads, roll-backs, crashes, the clock.  Whatever
\* they newly hold of a row is what the row is now.
LEMMA QuietSafe ==
    ASSUME IInv,
           UNCHANGED <<accounts, rows>>,
           recent' \subseteq Wids,
           aged' \subseteq Wids,
           \A w \in aged' : status[w] = "PROCESSING",
           TaskTypeOK',
           \A s \in Workers :
               task'[s] = task[s] \/ task'[s].step # "update" \/ Honest(task'[s]),
           batch' \subseteq Wids,
           seen' \in [Wids -> Nat],
           \A w \in Wids :
               \/ seen'[w] \in {0, seen[w]}
               \/ seen'[w] = version[w] /\ status[w] = "PROCESSING",
           item' \in Wids \cup {None},
           item' # None => seen'[item'] # 0
    PROVE  IInv'
<1>1. /\ status' = status /\ version' = version /\ details' = details
      /\ entries' = entries /\ audit' = audit
      /\ ledgerSum' = ledgerSum /\ available' = available
  BY DEF rows, accounts
<1>2. TypeOK'
  BY <1>1 DEF IInv, TypeOK, AccountsTypeOK
<1>3. RowsSound'
  BY <1>1 DEF IInv, RowsSound, Exists
<1>4. SnapshotsHold'
  <2>1. version \in [Wids -> Nat]
    BY DEF IInv, TypeOK
  <2>2. ASSUME NEW s \in Workers, task'[s].step = "update"
        PROVE  /\ status[task'[s].wid] # "NONE"
               /\ task'[s].held <= version[task'[s].wid]
               /\ task'[s].held = version[task'[s].wid] =>
                    CanTransition(WithdrawalTransitions, status[task'[s].wid], task'[s].target)
    <3>1. CASE task'[s] = task[s]
      BY <2>2, <3>1 DEF IInv, SnapshotsHold, Exists
    <3>2. CASE Honest(task'[s])
      <4>1. task'[s].wid \in Wids
        BY <2>2, UpdateTask DEF TaskTypeOK
      <4> QED
        BY <2>1, <3>2, <4>1 DEF Honest, Exists
    <3> QED
      BY <2>2, <3>1, <3>2
  <2>3. \A w \in Wids :
            /\ seen'[w] <= version[w]
            /\ seen'[w] # 0 /\ seen'[w] = version[w] => status[w] = "PROCESSING"
    BY <2>1 DEF IInv, SnapshotsHold
  <2> QED
    BY <1>1, <2>2, <2>3 DEF SnapshotsHold, Exists
<1>5. SettledExactlyOnce' /\ CacheNeverBelowLedger'
  BY <1>1 DEF IInv, SettledExactlyOnce, CacheNeverBelowLedger, Exists
<1> QED
  BY <1>2, <1>3, <1>4, <1>5 DEF IInv

\* Worker s takes a new task, the others keep theirs.
LEMMA OneTask ==
    ASSUME TaskTypeOK, NEW s \in Workers,
           NEW t \in {Idle} \cup RequestTask \cup ChangeTask,
           task' = [task EXCEPT ![s] = t]
    PROVE  /\ TaskTypeOK'
           /\ task'[s] = t
           /\ \A r \in Workers : r # s => task'[r] = task[r]
BY DEF TaskTypeOK

\* A worker inside a request, and the task with a later step.
LEMMA RequestTaskStep ==
    ASSUME NEW t, t \in {Idle} \cup RequestTask \cup ChangeTask,
           t.step \in {"cooldown", "balance", "ledger", "insert"},
           NEW next \in {"cooldown", "balance", "ledger", "insert"}
    PROVE  /\ t \in RequestTask
           /\ t.request \in Request
           /\ [t EXCEPT !.step = next] \in RequestTask
           /\ [t EXCEPT !.step = next].step = next
<1>1. t # Idle
  BY DEF Idle
<1>2. t \notin ChangeTask
  BY DEF ChangeTask
<1> QED
  BY <1>1, <1>2 DEF RequestTask

\* A read step of a request.
LEMMA RequestReadSafe ==
    ASSUME IInv, NEW s \in Workers, NEW t \in {Idle} \cup RequestTask,
           task' = [task EXCEPT ![s] = t], Reads
    PROVE  IInv'
<1>1. t.step # "update"
  BY DEF Idle, RequestTask
<1>2. TaskTypeOK' /\ task'[s] = t /\ \A r \in Workers : r # s => task'[r] = task[r]
  BY OneTask DEF IInv, TypeOK
<1>3. \A r \in Workers : task'[r] = task[r] \/ task'[r].step # "update"
  BY <1>1, <1>2
<1>4. /\ UNCHANGED <<accounts, rows>>
      /\ recent' = recent /\ aged' = aged
      /\ batch' = batch /\ seen' = seen /\ item' = item
  BY DEF Reads, clock, job
<1>5. /\ recent \subseteq Wids /\ aged \subseteq Wids /\ batch \subseteq Wids
      /\ seen \in [Wids -> Nat] /\ item \in Wids \cup {None}
      /\ \A w \in aged : status[w] = "PROCESSING"
      /\ item # None => seen[item] # 0
  BY DEF IInv, TypeOK, RowsSound, SnapshotsHold
<1>6. \A r \in Workers :
          task'[r] = task[r] \/ task'[r].step # "update" \/ Honest(task'[r])
  BY <1>3
<1>7. /\ \A w \in Wids :
            \/ seen'[w] \in {0, seen[w]}
            \/ seen'[w] = version[w] /\ status[w] = "PROCESSING"
      /\ recent' \subseteq Wids /\ aged' \subseteq Wids /\ batch' \subseteq Wids
      /\ \A w \in aged' : status[w] = "PROCESSING"
      /\ seen' \in [Wids -> Nat] /\ item' \in Wids \cup {None}
      /\ item' # None => seen'[item'] # 0
  BY <1>4, <1>5
<1> QED
  BY <1>2, <1>4, <1>6, <1>7, QuietSafe

\* The INSERT of a request: a new row, its debit, and nobody who holds it.
LEMMA CommitRequestSafe ==
    ASSUME ConstantsAssumption, IInv, NEW s \in Workers, NEW w \in Wids, CommitRequest(s, w)
    PROVE  IInv'
<1> DEFINE r == task[s].request
<1>1. /\ ~Exists(w)
      /\ status' = [status EXCEPT ![w] = "PENDING"]
      /\ version' = [version EXCEPT ![w] = 1]
      /\ details' = [details EXCEPT ![w] = r]
      /\ RecordMovement(r.user, -r.amount)
      /\ entries' = [entries EXCEPT ![w].debit = @ + 1]
      /\ audit' = [audit EXCEPT ![w] = Append(@, <<"NONE", "PENDING">>)]
      /\ recent' = recent \cup {w}
      /\ task' = [task EXCEPT ![s] = Idle]
      /\ aged' = aged /\ batch' = batch /\ seen' = seen /\ item' = item
  BY DEF CommitRequest, job
<1>2. r \in Request
  <2>1. task[s] \in {Idle} \cup RequestTask \cup ChangeTask
    BY DEF IInv, TypeOK, TaskTypeOK
  <2>2. task[s].step = "insert"
    BY DEF CommitRequest
  <2> QED
    BY <2>1, <2>2, RequestTaskStep
<1>3. r.user \in Users /\ -r.amount \in Int
  <2>1. r.user \in Users /\ r.amount \in Int
    BY <1>2 DEF Request, ConstantsAssumption
  <2> QED
    BY <2>1
<1>4. AccountsTypeOK' /\ CacheNeverBelowLedger'
  BY <1>1, <1>3, MovementSafe DEF IInv, TypeOK
<1>5. TaskTypeOK' /\ \A q \in Workers : task'[q] = task[q] \/ task'[q] = Idle
  BY <1>1, OneTask DEF IInv, TypeOK
<1>6. /\ status \in [Wids -> WithdrawalStatuses \cup {"NONE"}]
      /\ version \in [Wids -> Nat]
      /\ details \in [Wids -> Details \cup {None}]
      /\ entries \in [Wids -> [debit : Nat, reversal : Nat]]
      /\ seen \in [Wids -> Nat]
  BY DEF IInv, TypeOK
<1>7. /\ status[w] = "NONE" /\ version[w] = 0
      /\ entries[w] = [debit |-> 0, reversal |-> 0]
  BY <1>1 DEF IInv, RowsSound, SettledExactlyOnce, Exists, Reversed
<1>8. entries' = [entries EXCEPT ![w] = [debit |-> 1, reversal |-> 0]]
  <2>1. [entries[w] EXCEPT !.debit = @ + 1] = [debit |-> 1, reversal |-> 0]
    BY <1>7
  <2>2. entries' = [entries EXCEPT ![w] = [entries[w] EXCEPT !.debit = @ + 1]]
    BY <1>1, <1>6
  <2> QED
    BY <2>1, <2>2
<1>9. \A v \in Wids : v # w =>
          /\ status'[v] = status[v] /\ version'[v] = version[v]
          /\ details'[v] = details[v] /\ entries'[v] = entries[v]
  BY <1>1, <1>6, <1>8
<1>10. TypeOK'
  <2>1. audit' \in [Wids -> Seq((WithdrawalStatuses \cup {"NONE"}) \X WithdrawalStatuses)]
    <3> DEFINE Line == (WithdrawalStatuses \cup {"NONE"}) \X WithdrawalStatuses
    <3>1. <<"NONE", "PENDING">> \in Line
      BY DEF WithdrawalStatuses
    <3>2. Append(audit[w], <<"NONE", "PENDING">>) \in Seq(Line)
      BY <3>1 DEF IInv, TypeOK
    <3> QED
      BY <1>1, <3>2 DEF IInv, TypeOK
  <2>2. /\ status' \in [Wids -> WithdrawalStatuses \cup {"NONE"}]
        /\ version' \in [Wids -> Nat]
        /\ details' \in [Wids -> Details \cup {None}]
        /\ entries' \in [Wids -> [debit : Nat, reversal : Nat]]
    BY <1>1, <1>2, <1>6, <1>8 DEF WithdrawalStatuses, Details
  <2> QED
    BY <1>1, <1>4, <1>5, <2>1, <2>2 DEF IInv, TypeOK
<1>11. RowsSound'
  <2>1. \A v \in aged : v # w
    BY <1>7 DEF IInv, RowsSound
  <2>2. ASSUME NEW v \in Wids
        PROVE  IF status'[v] # "NONE" THEN version'[v] > 0 /\ details'[v] \in Request
                                     ELSE version'[v] = 0
    <3>1. CASE v = w
      BY <3>1, <1>1, <1>2, <1>6
    <3>2. CASE v # w
      BY <3>2, <1>9 DEF IInv, RowsSound, Exists
    <3> QED
      BY <3>1, <3>2
  <2>3. \A v \in aged' : status'[v] = "PROCESSING"
    BY <1>1, <1>9, <2>1 DEF IInv, TypeOK, RowsSound
  <2> QED
    BY <2>2, <2>3 DEF RowsSound, Exists, Request
<1>12. SnapshotsHold'
  <2>1. ASSUME NEW q \in Workers, task'[q].step = "update"
        PROVE  /\ status'[task'[q].wid] # "NONE"
               /\ task'[q].held <= version'[task'[q].wid]
               /\ task'[q].held = version'[task'[q].wid] =>
                    CanTransition(WithdrawalTransitions, status'[task'[q].wid], task'[q].target)
    <3>1. task'[q] = task[q]
      BY <1>5, <2>1 DEF Idle
    <3>2. task[q].wid \in Wids
      BY <2>1, <3>1, UpdateTask DEF IInv, TypeOK, TaskTypeOK
    <3>3. /\ status[task[q].wid] # "NONE"
          /\ task[q].held <= version[task[q].wid]
          /\ task[q].held = version[task[q].wid] =>
                CanTransition(WithdrawalTransitions, status[task[q].wid], task[q].target)
      BY <2>1, <3>1 DEF IInv, SnapshotsHold, Exists
    <3>4. task[q].wid # w
      BY <1>7, <3>3
    <3> QED
      BY <1>9, <3>1, <3>2, <3>3, <3>4
  <2>2. ASSUME NEW v \in Wids
        PROVE  /\ seen'[v] <= version'[v]
               /\ seen'[v] # 0 /\ seen'[v] = version'[v] => status'[v] = "PROCESSING"
    <3>1. CASE v = w
      <4>1. seen[w] = 0
        BY <1>6, <1>7 DEF IInv, SnapshotsHold
      <4> QED
        BY <1>1, <1>6, <3>1, <4>1
    <3>2. CASE v # w
      BY <1>1, <1>9, <3>2 DEF IInv, SnapshotsHold
    <3> QED
      BY <3>1, <3>2
  <2>3. item' # None => seen'[item'] # 0
    BY <1>1 DEF IInv, SnapshotsHold
  <2> QED
    BY <2>1, <2>2, <2>3 DEF SnapshotsHold, Exists
<1>13. SettledExactlyOnce'
  <2>1. ASSUME NEW v \in Wids
        PROVE  entries'[v] = [debit    |-> IF status'[v] # "NONE" THEN 1 ELSE 0,
                              reversal |-> IF status'[v] \in Reversed THEN 1 ELSE 0]
    <3>1. CASE v = w
      BY <3>1, <1>1, <1>6, <1>8 DEF Reversed
    <3>2. CASE v # w
      BY <3>2, <1>9 DEF IInv, SettledExactlyOnce, Exists
    <3> QED
      BY <3>1, <3>2
  <2> QED
    BY <2>1 DEF SettledExactlyOnce, Exists, Reversed
<1> QED
  BY <1>4, <1>10, <1>11, <1>12, <1>13 DEF IInv

\* A handler loads a row: the transition it validates is legal under the
\* version it takes along.
LEMMA LoadSafe ==
    ASSUME IInv, NEW s \in Workers, NEW w \in Wids, NEW target \in WithdrawalStatuses,
           Load(s, w, target)
    PROVE  IInv'
<1> DEFINE t == [step |-> "update", wid |-> w, held |-> version[w], target |-> target]
<1>1. /\ Exists(w)
      /\ CanTransition(WithdrawalTransitions, status[w], target)
      /\ task' = [task EXCEPT ![s] = t]
      /\ Reads
  BY DEF Load
<1>2. t \in ChangeTask
  BY DEF ChangeTask, IInv, TypeOK
<1>3. TaskTypeOK' /\ task'[s] = t /\ \A r \in Workers : r # s => task'[r] = task[r]
  BY <1>1, <1>2, OneTask DEF IInv, TypeOK
<1>4. Honest(t)
  BY <1>1 DEF Honest
<1>5. \A r \in Workers : task'[r] = task[r] \/ Honest(task'[r])
  <2>1. ASSUME NEW r \in Workers PROVE task'[r] = task[r] \/ Honest(task'[r])
    <3>1. CASE r = s
      <4> HIDE DEF t
      <4> QED
        BY <3>1, <1>3, <1>4
    <3>2. CASE r # s
      BY <3>2, <1>3
    <3> QED
      BY <3>1, <3>2
  <2> QED
    BY <2>1
<1>6. /\ UNCHANGED <<accounts, rows>>
      /\ recent' = recent /\ aged' = aged
      /\ batch' = batch /\ seen' = seen /\ item' = item
  BY <1>1 DEF Reads, clock, job
<1>7. /\ recent \subseteq Wids /\ aged \subseteq Wids /\ batch \subseteq Wids
      /\ seen \in [Wids -> Nat] /\ item \in Wids \cup {None}
      /\ \A v \in aged : status[v] = "PROCESSING"
      /\ item # None => seen[item] # 0
  BY DEF IInv, TypeOK, RowsSound, SnapshotsHold
<1>8. /\ \A v \in Wids :
            \/ seen'[v] \in {0, seen[v]}
            \/ seen'[v] = version[v] /\ status[v] = "PROCESSING"
      /\ recent' \subseteq Wids /\ aged' \subseteq Wids /\ batch' \subseteq Wids
      /\ \A v \in aged' : status[v] = "PROCESSING"
      /\ seen' \in [Wids -> Nat] /\ item' \in Wids \cup {None}
      /\ item' # None => seen'[item'] # 0
  BY <1>6, <1>7
<1> QED
  BY <1>3, <1>5, <1>6, <1>8, QuietSafe

\* A handler's UPDATE and what follows it in the transaction.
LEMMA HandlerUpdateSafe ==
    ASSUME ConstantsAssumption, IInv, NEW s \in Workers,
           NEW old \in WithdrawalStatuses, NEW new \in WithdrawalStatuses,
           Updating(s, new), UpdateStatus(task[s].wid, task[s].held, old, new),
           \/ new \notin Reversed /\ KeepMoney
           \/ new \in Reversed /\ Reverse(task[s].wid),
           Finish(s)
    PROVE  IInv'
<1> DEFINE w == task[s].wid
           held == task[s].held
<1>1. task[s].step = "update" /\ task[s].target = new
  BY DEF Updating
<1>2. w \in Wids /\ held \in Nat
  BY <1>1, UpdateTask DEF IInv, TypeOK, TaskTypeOK
<1>3. version[w] = held
  BY DEF UpdateStatus
<1>4. Exists(w) /\ CanTransition(WithdrawalTransitions, status[w], new)
  BY <1>1, <1>3 DEF IInv, SnapshotsHold
<1>5. TaskTypeOK' /\ \A r \in Workers : task'[r] = task[r] \/ task'[r] = Idle
  BY OneTask DEF Finish, IInv, TypeOK
<1>6. batch' \subseteq Wids /\ UNCHANGED <<seen, item>>
  BY DEF Finish, job, IInv, TypeOK
<1> QED
  BY <1>2, <1>4, <1>5, <1>6, ChangeSafe

\* The recovery job's UPDATE.
LEMMA RecoveryFailSafe ==
    ASSUME ConstantsAssumption, IInv, NEW w \in Wids, RecoveryFail(w)
    PROVE  IInv'
<1>1. /\ item = w
      /\ UpdateStatus(w, seen[w], "PROCESSING", "FAILED")
      /\ Reverse(w)
      /\ NextItem
      /\ task' = task /\ batch' = batch
  BY DEF RecoveryFail
<1>2. version[w] = seen[w] /\ seen[w] \in Nat
  BY <1>1 DEF UpdateStatus, IInv, TypeOK
<1>3. seen[w] # 0
  BY <1>1 DEF IInv, SnapshotsHold, ConstantsAssumption
<1>4. status[w] = "PROCESSING"
  BY <1>2, <1>3 DEF IInv, SnapshotsHold
<1>5. Exists(w) /\ CanTransition(WithdrawalTransitions, status[w], "FAILED")
  BY <1>4, LegalTransitions DEF Exists
<1>6. TaskTypeOK' /\ batch' \subseteq Wids
  BY <1>1 DEF IInv, TypeOK, TaskTypeOK
<1>7. "FAILED" \in Reversed /\ "FAILED" \in WithdrawalStatuses /\ "PROCESSING" \in WithdrawalStatuses
  BY DEF Reversed, WithdrawalStatuses
<1> QED
  BY <1>1, <1>2, <1>5, <1>6, <1>7, ChangeSafe DEF NextItem

\* A worker becomes idle without having written.
LEMMA LetGoSafe ==
    ASSUME IInv, NEW s \in Workers, task' = [task EXCEPT ![s] = Idle], Reads
    PROVE  IInv'
BY RequestReadSafe

\* What the job or the clock may do to their own variables.
LEMMA JobReadSafe ==
    ASSUME IInv, UNCHANGED <<accounts, rows, task>>,
           recent' \subseteq Wids, aged' \subseteq Wids,
           \A w \in aged' : status[w] = "PROCESSING",
           batch' \subseteq Wids, seen' \in [Wids -> Nat],
           \A w \in Wids :
               \/ seen'[w] \in {0, seen[w]}
               \/ seen'[w] = version[w] /\ status[w] = "PROCESSING",
           item' \in Wids \cup {None}, item' # None => seen'[item'] # 0
    PROVE  IInv'
<1>1. UNCHANGED <<accounts, rows>> /\ task' = task
  BY DEF accounts, rows
<1>2. TaskTypeOK'
  BY <1>1 DEF IInv, TypeOK, TaskTypeOK
<1> QED
  BY <1>1, <1>2, QuietSafe

\* The job's visit of a row takes it up, passes it over or, after a
\* roll-back, forgets the batch's versions.
LEMMA VisitSafe ==
    ASSUME IInv, NEW w \in Wids, RecoveryVisit(w)
    PROVE  IInv'
<1>1. /\ UNCHANGED <<accounts, rows, task>>
      /\ recent' = recent /\ aged' = aged /\ batch' = batch \ {w} /\ item = None
  BY DEF RecoveryVisit, clock
<1>2. /\ recent \subseteq Wids /\ aged \subseteq Wids /\ batch \subseteq Wids
      /\ seen \in [Wids -> Nat] /\ version \in [Wids -> Nat]
      /\ \A v \in aged : status[v] = "PROCESSING"
  BY DEF IInv, TypeOK, RowsSound
<1>3. CASE seen[w] # 0 /\ item' = w /\ UNCHANGED seen
  <2>1. \A v \in Wids : seen'[v] \in {0, seen[v]}
    BY <1>3
  <2> QED
    BY <1>1, <1>2, <1>3, <2>1, JobReadSafe
<1>4. CASE /\ seen[w] = 0 /\ status[w] = "PROCESSING"
           /\ item' = w /\ seen' = [seen EXCEPT ![w] = version[w]]
  <2>1. version[w] > 0
    BY <1>4 DEF IInv, RowsSound, Exists
  <2>2. /\ seen' \in [Wids -> Nat] /\ seen'[w] # 0
        /\ \A v \in Wids :
            \/ seen'[v] \in {0, seen[v]}
            \/ seen'[v] = version[v] /\ status[v] = "PROCESSING"
    BY <1>2, <1>4, <2>1
  <2> QED
    BY <1>1, <1>2, <1>4, <2>2, JobReadSafe
<1>5. CASE seen' = Expired /\ UNCHANGED item
  <2>1. seen' \in [Wids -> Nat] /\ \A v \in Wids : seen'[v] = 0
    BY <1>5 DEF Expired
  <2> QED
    BY <1>1, <1>2, <1>5, <2>1, JobReadSafe
<1> QED
  BY <1>3, <1>4, <1>5 DEF RecoveryVisit
-----------------------------------------------------------------------------
(* The induction                                                           *)

\* Before the first request the tables hold nothing.
LEMMA InitSafe ==
    ASSUME ConstantsAssumption, Init
    PROVE  IInv
<1>1. TypeOK
  <2>1. audit \in [Wids -> Seq((WithdrawalStatuses \cup {"NONE"}) \X WithdrawalStatuses)]
    BY DEF Init
  <2>2. Idle \in {Idle} \cup RequestTask \cup ChangeTask
    OBVIOUS
  <2> HIDE DEF Idle
  <2>3. TaskTypeOK
    BY <2>2 DEF Init, TaskTypeOK
  <2>4. AccountsTypeOK
    BY DEF Init, ConstantsAssumption, AccountsTypeOK
  <2>5. entries \in [Wids -> [debit : Nat, reversal : Nat]]
    BY DEF Init
  <2> QED
    BY <2>1, <2>3, <2>4, <2>5 DEF Init, TypeOK
<1>2. RowsSound
  BY DEF Init, RowsSound, Exists
<1>3. SnapshotsHold
  BY DEF Init, SnapshotsHold, Idle
<1>4. SettledExactlyOnce
  BY DEF Init, SettledExactlyOnce, Exists, Reversed
<1>5. CacheNeverBelowLedger
  BY DEF Init, ConstantsAssumption, CacheNeverBelowLedger
<1> QED
  BY <1>1, <1>2, <1>3, <1>4, <1>5 DEF IInv

\* Every read step of a request.
LEMMA RequestStepSafe ==
    ASSUME ConstantsAssumption, IInv, NEW s \in Workers, RequestStep(s)
    PROVE  IInv'
<1>1. task \in [Workers -> {Idle} \cup RequestTask \cup ChangeTask]
  BY DEF IInv, TypeOK, TaskTypeOK
<1>2. ASSUME NEW next \in {"cooldown", "balance", "ledger", "insert"},
             task[s].step \in {"cooldown", "balance", "ledger", "insert"},
             task' = [task EXCEPT ![s].step = next], Reads
      PROVE  IInv'
  <2>1. [task[s] EXCEPT !.step = next] \in RequestTask
    BY <1>1, <1>2, RequestTaskStep
  <2>2. task' = [task EXCEPT ![s] = [task[s] EXCEPT !.step = next]]
    BY <1>1, <1>2
  <2> QED
    BY <1>2, <2>1, <2>2, RequestReadSafe
<1>3. CASE \E r \in Request : CheckKey(s, r)
  <2>1. PICK r \in Request : CheckKey(s, r)
    BY <1>3
  <2>2. [step |-> "cooldown", request |-> r] \in RequestTask
    BY DEF RequestTask
  <2> QED
    BY <2>1, <2>2, RequestReadSafe DEF CheckKey
<1>4. CASE CheckCooldown(s)
  BY <1>2, <1>4 DEF CheckCooldown
<1>5. CASE CheckBalance(s)
  BY <1>2, <1>5 DEF CheckBalance
<1>6. CASE CheckLedger(s)
  BY <1>2, <1>6 DEF CheckLedger
<1>7. CASE DriftDetected(s)
  BY <1>7, LetGoSafe DEF DriftDetected
<1>8. CASE \E w \in Wids : CommitRequest(s, w)
  BY <1>8, CommitRequestSafe
<1> QED
  BY <1>3, <1>4, <1>5, <1>6, <1>7, <1>8 DEF RequestStep

\* Every load and every status change of a handler.
LEMMA ChangeStepSafe ==
    ASSUME ConstantsAssumption, IInv, NEW s \in Workers, ChangeStep(s)
    PROVE  IInv'
<1>1. {"PENDING", "PROCESSING", "COMPLETED", "FAILED", "REJECTED", "CANCELLED"}
          \subseteq WithdrawalStatuses
  BY DEF WithdrawalStatuses
<1>2. CASE \E w \in Wids, target \in HandlerTargets : AdminLoads(s, w, target)
  <2>1. PICK w \in Wids, target \in HandlerTargets : AdminLoads(s, w, target)
    BY <1>2
  <2>2. target \in WithdrawalStatuses
    BY <1>1 DEF HandlerTargets
  <2> QED
    BY <2>1, <2>2, LoadSafe DEF AdminLoads
<1>3. CASE \E w \in Wids, caller \in Users : OwnerLoads(s, w, caller)
  BY <1>1, <1>3, LoadSafe DEF OwnerLoads
<1>4. CASE ProcessWithdrawal(s)
  <2>1. "PROCESSING" \notin Reversed
    BY DEF Reversed
  <2> QED
    BY <1>1, <1>4, <2>1, HandlerUpdateSafe DEF ProcessWithdrawal
<1>5. CASE CompleteWithdrawal(s)
  <2>1. "COMPLETED" \notin Reversed
    BY DEF Reversed
  <2> QED
    BY <1>1, <1>5, <2>1, HandlerUpdateSafe DEF CompleteWithdrawal
<1>6. CASE FailWithdrawal(s)
  <2>1. "FAILED" \in Reversed
    BY DEF Reversed
  <2> QED
    BY <1>1, <1>6, <2>1, HandlerUpdateSafe DEF FailWithdrawal
<1>7. CASE RejectWithdrawal(s)
  <2>1. "REJECTED" \in Reversed
    BY DEF Reversed
  <2> QED
    BY <1>1, <1>7, <2>1, HandlerUpdateSafe DEF RejectWithdrawal
<1>8. CASE CancelWithdrawal(s)
  <2>1. "CANCELLED" \in Reversed
    BY DEF Reversed
  <2> QED
    BY <1>1, <1>8, <2>1, HandlerUpdateSafe DEF CancelWithdrawal
<1> QED
  BY <1>2, <1>3, <1>4, <1>5, <1>6, <1>7, <1>8 DEF ChangeStep

\* Every step of the recovery job.
LEMMA RecoveryStepSafe ==
    ASSUME ConstantsAssumption, IInv, RecoveryStep
    PROVE  IInv'
<1>1. /\ recent \subseteq Wids /\ aged \subseteq Wids /\ batch \subseteq Wids
      /\ seen \in [Wids -> Nat] /\ version \in [Wids -> Nat]
      /\ \A w \in aged : status[w] = "PROCESSING"
  BY DEF IInv, TypeOK, RowsSound
<1>2. CASE RecoveryFetch
  <2>1. PICK b \in SUBSET aged :
            batch' = b /\ seen' = [w \in Wids |-> IF w \in b THEN version[w] ELSE 0]
    BY <1>2 DEF RecoveryFetch
  <2>2. /\ UNCHANGED <<accounts, rows, task>>
        /\ recent' = recent /\ aged' = aged /\ item' = item /\ item = None
    BY <1>2 DEF RecoveryFetch, clock
  <2>3. /\ seen' \in [Wids -> Nat]
        /\ \A w \in Wids :
            \/ seen'[w] \in {0, seen[w]}
            \/ seen'[w] = version[w] /\ status[w] = "PROCESSING"
    BY <1>1, <2>1
  <2>4. batch' \subseteq Wids
    BY <1>1, <2>1
  <2> QED
    BY <1>1, <2>2, <2>3, <2>4, JobReadSafe
<1>3. CASE \E w \in Wids : RecoveryVisit(w) \/ RecoveryFail(w)
  BY <1>3, VisitSafe, RecoveryFailSafe
<1>4. CASE RecoveryRollBack
  <2>1. /\ UNCHANGED <<accounts, rows, task>>
        /\ recent' = recent /\ aged' = aged /\ batch' = batch
        /\ item' = None
        /\ seen' \in [Wids -> Nat] /\ \A w \in Wids : seen'[w] = 0
    BY <1>4 DEF RecoveryRollBack, NextItem, Expired, clock
  <2> QED
    BY <1>1, <2>1, JobReadSafe
<1> QED
  BY <1>2, <1>3, <1>4 DEF RecoveryStep

\* Crashes and the clock.
LEMMA EnvironmentSafe ==
    ASSUME IInv, Crash \/ \E w \in Wids : CooldownElapses(w) \/ Ages(w)
    PROVE  IInv'
<1>1. /\ recent \subseteq Wids /\ aged \subseteq Wids /\ batch \subseteq Wids
      /\ seen \in [Wids -> Nat] /\ item \in Wids \cup {None}
      /\ \A w \in aged : status[w] = "PROCESSING"
      /\ item # None => seen[item] # 0
  BY DEF IInv, TypeOK, RowsSound, SnapshotsHold
<1>2. CASE Crash
  <2>1. /\ task' = [s \in Workers |-> Idle] /\ batch' = {} /\ item' = None
        /\ seen' \in [Wids -> Nat] /\ \A w \in Wids : seen'[w] = 0
        /\ UNCHANGED <<accounts, rows>> /\ recent' = recent /\ aged' = aged
    BY <1>2 DEF Crash, Expired, clock
  <2>2. TaskTypeOK'
    <3>1. Idle \in {Idle} \cup RequestTask \cup ChangeTask
      OBVIOUS
    <3> HIDE DEF Idle
    <3> QED
      BY <2>1, <3>1 DEF TaskTypeOK
  <2>3. \A s \in Workers : task'[s].step # "update"
    BY <2>1 DEF Idle
  <2>4. \A s \in Workers :
            task'[s] = task[s] \/ task'[s].step # "update" \/ Honest(task'[s])
    BY <2>3
  <2> QED
    BY <1>1, <2>1, <2>2, <2>4, QuietSafe
<1>3. ASSUME NEW w \in Wids, CooldownElapses(w) \/ Ages(w)
      PROVE  IInv'
  <2>1. /\ UNCHANGED <<accounts, rows, task>>
        /\ batch' = batch /\ seen' = seen /\ item' = item
    BY <1>3 DEF CooldownElapses, Ages, job
  <2>2. recent' \subseteq Wids
    BY <1>1, <1>3 DEF CooldownElapses, Ages
  <2>3. aged' \subseteq Wids /\ \A v \in aged' : status[v] = "PROCESSING"
    BY <1>1, <1>3 DEF CooldownElapses, Ages
  <2>4. \A v \in Wids : seen'[v] \in {0, seen[v]}
    BY <2>1
  <2> QED
    BY <1>1, <2>1, <2>2, <2>3, <2>4, JobReadSafe
<1> QED
  BY <1>2, <1>3

\* Every step preserves the invariant.
LEMMA NextSafe ==
    ASSUME ConstantsAssumption, IInv, [Next]_vars
    PROVE  IInv'
<1>1. CASE \E s \in Workers : RequestStep(s) \/ ChangeStep(s) \/ RollBack(s)
  BY <1>1, RequestStepSafe, ChangeStepSafe, LetGoSafe DEF RollBack
<1>2. CASE RecoveryStep
  BY <1>2, RecoveryStepSafe
<1>3. CASE Crash \/ \E w \in Wids : CooldownElapses(w) \/ Ages(w)
  BY <1>3, EnvironmentSafe
<1>4. CASE UNCHANGED vars
  BY <1>4 DEF vars, accounts, rows, clock, job, IInv, TypeOK, AccountsTypeOK, TaskTypeOK,
              RowsSound, SnapshotsHold, SettledExactlyOnce, CacheNeverBelowLedger, Exists
<1> QED
  BY <1>1, <1>2, <1>3, <1>4 DEF Next

\* IInv is an invariant.
THEOREM Inductive == Spec => []IInv
<1>1. Init => IInv
  BY InitSafe, ConstantsAssumption
<1>2. IInv /\ [Next]_vars => IInv'
  BY NextSafe, ConstantsAssumption
<1> QED
  BY <1>1, <1>2, PTL DEF Spec
-----------------------------------------------------------------------------
(* The theorems                                                            *)

\* Rows, accounts, snapshots and tasks keep their types.
THEOREM TypeCorrect == Spec => []TypeOK
<1>1. IInv => TypeOK
  BY DEF IInv
<1> QED
  BY <1>1, Inductive, PTL

\* A stale read never passes for a current one: see SnapshotsHold.
THEOREM VersionsVouch == Spec => []SnapshotsHold
<1>1. IInv => SnapshotsHold
  BY DEF IInv
<1> QED
  BY <1>1, Inductive, PTL

\* No interleaving of handlers, owners, recovery job and crashes takes the
\* money of a withdrawal twice or gives it back twice.
THEOREM MoneySettled == Spec => []SettledExactlyOnce
<1>1. IInv => SettledExactlyOnce
  BY DEF IInv
<1> QED
  BY <1>1, Inductive, PTL

\* The cached balance is never below the ledger's.
THEOREM CacheIsUpperBound == Spec => []CacheNeverBelowLedger
<1>1. IInv => CacheNeverBelowLedger
  BY DEF IInv
<1> QED
  BY <1>1, Inductive, PTL
-----------------------------------------------------------------------------
(* What a step may do to the tables                                        *)

\* A status change along the machine, with the audit line it deserves and
\* the reversal it needs.
LegalChange(w, new) ==
    /\ Exists(w)
    /\ CanTransition(WithdrawalTransitions, status[w], new)
    /\ UpdateStatus(w, version[w], status[w], new)
    /\ IF new \in Reversed THEN Reverse(w) ELSE KeepMoney

\* A handler that gets past the version check makes a legal change, and the
\* old status its service function has hard-coded is the true one.
LEMMA HandlerChangeLegal ==
    ASSUME IInv, NEW s \in Workers,
           ProcessWithdrawal(s) \/ CompleteWithdrawal(s) \/ FailWithdrawal(s)
               \/ RejectWithdrawal(s) \/ CancelWithdrawal(s)
    PROVE  \E w \in Wids, new \in WithdrawalStatuses : LegalChange(w, new)
<1> DEFINE w == task[s].wid
           new == task[s].target
<1>1. task[s].step = "update" /\ version[w] = task[s].held
  BY DEF ProcessWithdrawal, CompleteWithdrawal, FailWithdrawal, RejectWithdrawal,
         CancelWithdrawal, Updating, UpdateStatus
<1>2. w \in Wids /\ new \in WithdrawalStatuses
  BY <1>1, UpdateTask DEF IInv, TypeOK, TaskTypeOK
<1>3. Exists(w) /\ CanTransition(WithdrawalTransitions, status[w], new)
  BY <1>1 DEF IInv, SnapshotsHold
<1>4. UpdateStatus(w, version[w], status[w], new)
  BY <1>1, <1>3, LegalTransitions
     DEF ProcessWithdrawal, CompleteWithdrawal, FailWithdrawal, RejectWithdrawal,
         CancelWithdrawal, Updating
<1>5. IF new \in Reversed THEN Reverse(w) ELSE KeepMoney
  BY DEF ProcessWithdrawal, CompleteWithdrawal, FailWithdrawal, RejectWithdrawal,
         CancelWithdrawal, Updating, Reversed
<1> QED
  BY <1>2, <1>3, <1>4, <1>5 DEF LegalChange

\* The recovery job too.
LEMMA RecoveryChangeLegal ==
    ASSUME ConstantsAssumption, IInv, NEW w \in Wids, RecoveryFail(w)
    PROVE  LegalChange(w, "FAILED")
<1>1. seen[w] # 0 /\ version[w] = seen[w]
  BY DEF RecoveryFail, UpdateStatus, IInv, SnapshotsHold, ConstantsAssumption
<1>2. status[w] = "PROCESSING"
  BY <1>1 DEF IInv, SnapshotsHold
<1> QED
  BY <1>1, <1>2, LegalTransitions DEF RecoveryFail, LegalChange, Exists, Reversed

\* Every step leaves the tables alone, inserts a withdrawal, or makes one
\* legal change.  The properties below are about these three.
LEMMA StepShape ==
    ASSUME ConstantsAssumption, IInv, [Next]_vars
    PROVE  \/ UNCHANGED <<accounts, rows>>
           \/ \E s \in Workers, w \in Wids : CommitRequest(s, w)
           \/ \E w \in Wids, new \in WithdrawalStatuses : LegalChange(w, new)
<1>1. CASE \E s \in Workers : RequestStep(s) \/ ChangeStep(s) \/ RollBack(s)
  BY <1>1, HandlerChangeLegal
     DEF RequestStep, ChangeStep, RollBack, Reads, CheckKey, CheckCooldown, CheckBalance,
         CheckLedger, DriftDetected, AdminLoads, OwnerLoads, Load
<1>2. CASE RecoveryStep
  <2>1. CASE \E w \in Wids : RecoveryFail(w)
    BY <2>1, RecoveryChangeLegal DEF WithdrawalStatuses
  <2>2. CASE ~\E w \in Wids : RecoveryFail(w)
    BY <1>2, <2>2 DEF RecoveryStep, RecoveryFetch, RecoveryVisit, RecoveryRollBack
  <2> QED
    BY <2>1, <2>2
<1>3. CASE Crash \/ \E w \in Wids : CooldownElapses(w) \/ Ages(w)
  BY <1>3 DEF Crash, CooldownElapses, Ages
<1>4. CASE UNCHANGED vars
  BY <1>4 DEF vars
<1> QED
  BY <1>1, <1>2, <1>3, <1>4 DEF Next

\* Every change of a status is a legal one.
LEMMA StatusStep ==
    IInv /\ [Next]_vars =>
        [\A w \in Wids :
            status'[w] # status[w] =>
                \/ status[w] = "NONE" /\ status'[w] = "PENDING"
                \/ CanTransition(WithdrawalTransitions, status[w], status'[w])]_status
<1> DEFINE A == \A w \in Wids :
                    status'[w] # status[w] =>
                        \/ status[w] = "NONE" /\ status'[w] = "PENDING"
                        \/ CanTransition(WithdrawalTransitions, status[w], status'[w])
<1> SUFFICES ASSUME IInv, [Next]_vars PROVE A
  OBVIOUS
<1>1. status \in [Wids -> WithdrawalStatuses \cup {"NONE"}]
  BY DEF IInv, TypeOK
<1>2. CASE UNCHANGED <<accounts, rows>>
  BY <1>2 DEF rows
<1>3. CASE \E s \in Workers, w \in Wids : CommitRequest(s, w)
  BY <1>1, <1>3 DEF CommitRequest, Exists
<1>4. CASE \E w \in Wids, new \in WithdrawalStatuses : LegalChange(w, new)
  BY <1>1, <1>4 DEF LegalChange, UpdateStatus
<1> QED
  BY <1>2, <1>3, <1>4, StepShape, ConstantsAssumption

\* A committed status only changes along the state machine, whatever was
\* read when.
THEOREM StatusStepsLegal == Spec => StatusFollowsMachine
<1> DEFINE A == \A w \in Wids :
                    status'[w] # status[w] =>
                        \/ status[w] = "NONE" /\ status'[w] = "PENDING"
                        \/ CanTransition(WithdrawalTransitions, status[w], status'[w])
<1>1. IInv /\ [Next]_vars => [A]_status
  BY StatusStep
<1> QED
  BY <1>1, Inductive, PTL DEF Spec, StatusFollowsMachine

\* Cache and ledger agree until a movement overdraws the ledger.
THEOREM DriftNeedsOverdraft == Spec => DriftStartsWithOverdraft
<1> DEFINE A == \A u \in Users : Synced(u) /\ ~Synced(u)' => ledgerSum'[u] < 0
<1>1. IInv /\ [Next]_vars => [A]_accounts
  <2> SUFFICES ASSUME IInv, [Next]_vars PROVE [A]_accounts
    OBVIOUS
  <2>1. AccountsTypeOK
    BY DEF IInv, TypeOK
  <2>2. ASSUME NEW u \in Users, NEW amount \in Int, RecordMovement(u, amount)
        PROVE  A
    BY <2>1, <2>2
       DEF AccountsTypeOK, RecordMovement, CreateEntry, UpdateBalance, Clamp, Synced
  <2>3. CASE \E s \in Workers, w \in Wids : CommitRequest(s, w)
    <3>1. PICK s \in Workers, w \in Wids : CommitRequest(s, w)
      BY <2>3
    <3>2. task[s].request \in Request
      BY <3>1, RequestTaskStep DEF CommitRequest, IInv, TypeOK, TaskTypeOK
    <3>3. task[s].request.user \in Users /\ task[s].request.amount \in Int
      BY <3>2, ConstantsAssumption DEF Request, ConstantsAssumption
    <3>4. -task[s].request.amount \in Int
      BY <3>3
    <3> QED
      BY <2>2, <3>1, <3>3, <3>4 DEF CommitRequest
  <2>4. CASE \E w \in Wids, new \in WithdrawalStatuses : LegalChange(w, new)
    <3>1. PICK w \in Wids, new \in WithdrawalStatuses : LegalChange(w, new)
      BY <2>4
    <3>2. CASE new \in Reversed
      <4>1. details[w].user \in Users /\ details[w].amount \in Int
        BY <3>1, ConstantsAssumption
           DEF LegalChange, IInv, RowsSound, Request, ConstantsAssumption
      <4> QED
        BY <2>2, <3>1, <3>2, <4>1 DEF LegalChange, Reverse
    <3>3. CASE new \notin Reversed
      BY <3>1, <3>3 DEF LegalChange, KeepMoney
    <3> QED
      BY <3>2, <3>3
  <2> QED
    BY <2>3, <2>4, StepShape, ConstantsAssumption
<1> QED
  BY <1>1, Inductive, PTL DEF Spec, DriftStartsWithOverdraft

\* No step gives a used key to another withdrawal.
LEMMA KeysNext == IInv /\ KeyUsedOnce /\ [Next]_vars => KeyUsedOnce'
<1> SUFFICES ASSUME IInv, KeyUsedOnce, [Next]_vars PROVE KeyUsedOnce'
  OBVIOUS
<1>1. status \in [Wids -> WithdrawalStatuses \cup {"NONE"}] /\ details \in [Wids -> Details \cup {None}]
  BY DEF IInv, TypeOK
<1>2. CASE UNCHANGED <<accounts, rows>>
  BY <1>2 DEF rows, KeyUsedOnce, Exists
<1>3. CASE \E s \in Workers, w \in Wids : CommitRequest(s, w)
  <2>1. PICK s \in Workers, w \in Wids : CommitRequest(s, w)
    BY <1>3
  <2>2. \A v \in Wids : Exists(v) => details[v].key # task[s].request.key
    BY <2>1 DEF CommitRequest, UniqueKey, KeyFree
  <2>3. /\ details'[w] = task[s].request
        /\ \A v \in Wids : v # w => details'[v] = details[v] /\ status'[v] = status[v]
    BY <1>1, <2>1 DEF CommitRequest
  <2> QED
    BY <2>2, <2>3 DEF KeyUsedOnce, Exists
<1>4. CASE \E w \in Wids, new \in WithdrawalStatuses : LegalChange(w, new)
  BY <1>1, <1>4 DEF LegalChange, UpdateStatus, KeyUsedOnce, Exists
<1> QED
  BY <1>2, <1>3, <1>4, StepShape, ConstantsAssumption

\* Requests that race with the same key: at most one row.
THEOREM KeysUnique == Spec => []KeyUsedOnce
<1>1. Init => KeyUsedOnce
  BY DEF Init, KeyUsedOnce, Exists
<1>2. IInv /\ KeyUsedOnce /\ [Next]_vars => KeyUsedOnce'
  BY KeysNext
<1> QED
  BY <1>1, <1>2, Inductive, PTL DEF Spec
\* What AuditReplaysStatus asks of one row's audit lines.
Replays(lines, current) ==
    /\ \A i \in 2 .. Len(lines) :
        /\ lines[i][1] = lines[i - 1][2]
        /\ CanTransition(WithdrawalTransitions, lines[i][1], lines[i][2])
    /\ current = IF lines = <<>> THEN "NONE" ELSE lines[Len(lines)][2]

\* One more line, from the status the others lead to.
LEMMA AppendReplays ==
    ASSUME NEW lines \in Seq((WithdrawalStatuses \cup {"NONE"}) \X WithdrawalStatuses),
           NEW old \in WithdrawalStatuses \cup {"NONE"}, NEW new \in WithdrawalStatuses,
           Replays(lines, old),
           lines # <<>> => CanTransition(WithdrawalTransitions, old, new)
    PROVE  Replays(Append(lines, <<old, new>>), new)
<1> DEFINE longer == Append(lines, <<old, new>>)
<1>1. /\ Len(lines) \in Nat
      /\ Len(longer) = Len(lines) + 1
      /\ longer[Len(lines) + 1] = <<old, new>>
      /\ \A i \in 1 .. Len(lines) : longer[i] = lines[i]
      /\ longer # <<>>
  <2> DEFINE Line == (WithdrawalStatuses \cup {"NONE"}) \X WithdrawalStatuses
  <2>1. lines \in Seq(Line) /\ <<old, new>> \in Line
    OBVIOUS
  <2> HIDE DEF Line
  <2>2. /\ Len(lines) \in Nat
        /\ Len(longer) = Len(lines) + 1
        /\ \A i \in 1 .. Len(lines) : longer[i] = lines[i]
    BY <2>1
  <2>3. longer[Len(lines) + 1] = <<old, new>>
    BY <2>1
  <2>4. longer # <<>>
    <3>1. Len(<<>>) = 0 /\ Len(longer) # 0
      BY <2>2
    <3> HIDE DEF longer
    <3> QED
      BY <3>1
  <2> QED
    BY <2>2, <2>3, <2>4
<1>2. ASSUME NEW i \in 2 .. Len(longer)
      PROVE  /\ longer[i][1] = longer[i - 1][2]
             /\ CanTransition(WithdrawalTransitions, longer[i][1], longer[i][2])
  <2>1. CASE i = Len(lines) + 1
    <3>1. lines # <<>> /\ i - 1 = Len(lines) /\ i - 1 \in 1 .. Len(lines)
      BY <1>1, <2>1
    <3>2. lines[i - 1][2] = old
      BY <3>1 DEF Replays
    <3>3. longer[i] = <<old, new>> /\ longer[i - 1] = lines[i - 1]
      BY <1>1, <2>1, <3>1
    <3> QED
      BY <3>1, <3>2, <3>3
  <2>2. CASE i # Len(lines) + 1
    <3>1. i \in 2 .. Len(lines) /\ i \in 1 .. Len(lines) /\ i - 1 \in 1 .. Len(lines)
      BY <1>1, <2>2
    <3>2. longer[i] = lines[i] /\ longer[i - 1] = lines[i - 1]
      BY <1>1, <3>1
    <3> QED
      BY <3>1, <3>2 DEF Replays
  <2> QED
    BY <2>1, <2>2
<1>3. longer[Len(longer)][2] = new
  BY <1>1
<1> QED
  BY <1>1, <1>2, <1>3 DEF Replays

\* The audit trail of every row replays to its status: before and after.
LEMMA AuditIsReplay ==
    /\ AuditReplaysStatus <=> \A w \in Wids : Replays(audit[w], status[w])
    /\ AuditReplaysStatus' <=> \A w \in Wids : Replays(audit'[w], status'[w])
BY DEF AuditReplaysStatus, Replays

\* Every step that changes a status appends the line that says so.
LEMMA AuditNext == IInv /\ AuditReplaysStatus /\ [Next]_vars => AuditReplaysStatus'
<1> SUFFICES ASSUME IInv, AuditReplaysStatus, [Next]_vars, NEW v \in Wids
             PROVE  Replays(audit'[v], status'[v])
  BY AuditIsReplay
<1>1. /\ status \in [Wids -> WithdrawalStatuses \cup {"NONE"}]
      /\ audit \in [Wids -> Seq((WithdrawalStatuses \cup {"NONE"}) \X WithdrawalStatuses)]
  BY DEF IInv, TypeOK
<1>2. Replays(audit[v], status[v])
  BY AuditIsReplay
<1>3. CASE UNCHANGED <<accounts, rows>>
  BY <1>2, <1>3 DEF rows
<1>4. CASE \E s \in Workers, w \in Wids : CommitRequest(s, w)
  <2>1. PICK s \in Workers, w \in Wids : CommitRequest(s, w)
    BY <1>4
  <2>2. CASE v = w
    <3>1. /\ status[v] = "NONE" /\ status'[v] = "PENDING"
          /\ audit'[v] = Append(audit[v], <<"NONE", "PENDING">>)
      BY <1>1, <2>1, <2>2 DEF CommitRequest, Exists
    <3>2. audit[v] = <<>>
      <4>1. SUFFICES ASSUME audit[v] # <<>> PROVE FALSE
        OBVIOUS
      <4>2. audit[v][Len(audit[v])][2] = "NONE"
        BY <1>2, <3>1, <4>1 DEF Replays
      <4>3. Len(audit[v]) \in 1 .. Len(audit[v])
        BY <1>1, <4>1
      <4>4. audit[v][Len(audit[v])] \in (WithdrawalStatuses \cup {"NONE"}) \X WithdrawalStatuses
        BY <1>1, <4>3
      <4>5. "NONE" \in WithdrawalStatuses
        BY <4>2, <4>4
      <4> QED
        BY <4>5 DEF WithdrawalStatuses
    <3>3. audit[v] \in Seq((WithdrawalStatuses \cup {"NONE"}) \X WithdrawalStatuses)
      BY <1>1
    <3>4. "PENDING" \in WithdrawalStatuses
      BY DEF WithdrawalStatuses
    <3>5. Replays(audit[v], "NONE")
      BY <1>2, <3>1
    <3>6. ASSUME NEW lines, lines = audit[v]
          PROVE  Replays(Append(lines, <<"NONE", "PENDING">>), "PENDING")
      BY <3>2, <3>3, <3>4, <3>5, <3>6, AppendReplays
    <3> QED
      BY <3>1, <3>6
  <2>3. CASE v # w
    BY <1>1, <1>2, <2>1, <2>3 DEF CommitRequest
  <2> QED
    BY <2>2, <2>3
<1>5. CASE \E w \in Wids, new \in WithdrawalStatuses : LegalChange(w, new)
  <2>1. PICK w \in Wids, new \in WithdrawalStatuses : LegalChange(w, new)
    BY <1>5
  <2>2. CASE v = w
    <3>1. /\ status'[v] = new
          /\ audit'[v] = Append(audit[v], <<status[v], new>>)
          /\ CanTransition(WithdrawalTransitions, status[v], new)
      BY <1>1, <2>1, <2>2 DEF LegalChange, UpdateStatus
    <3>2. /\ audit[v] \in Seq((WithdrawalStatuses \cup {"NONE"}) \X WithdrawalStatuses)
          /\ status[v] \in WithdrawalStatuses \cup {"NONE"}
      BY <1>1
    <3> QED
      BY <1>2, <3>1, <3>2, AppendReplays
  <2>3. CASE v # w
    BY <1>1, <1>2, <2>1, <2>3 DEF LegalChange, UpdateStatus
  <2> QED
    BY <2>2, <2>3
<1> QED
  BY <1>3, <1>4, <1>5, StepShape, ConstantsAssumption

\* The audit trail of every row replays to its status.
THEOREM AuditTrailTrue == Spec => []AuditReplaysStatus
<1>1. Init => AuditReplaysStatus
  BY AuditIsReplay DEF Init, Replays
<1>2. IInv /\ AuditReplaysStatus /\ [Next]_vars => AuditReplaysStatus'
  BY AuditNext
<1> QED
  BY <1>1, <1>2, Inductive, PTL DEF Spec
-----------------------------------------------------------------------------
(* Refinement                                                              *)

\* Where the money of a withdrawal is, by its status.
LEMMA HoldTable ==
    ASSUME NEW w, status[w] \in WithdrawalStatuses \cup {"NONE"}
    PROVE  /\ HoldOf(w) = "none" <=> status[w] = "NONE"
           /\ HoldOf(w) = "held" <=> status[w] \in {"PENDING", "PROCESSING"}
           /\ HoldOf(w) = "paid" <=> status[w] = "COMPLETED"
           /\ HoldOf(w) = "returned" <=> status[w] \in Reversed
BY DEF HoldOf, WithdrawalStatuses, Reversed

\* The INSERT of a request sets its amount aside, which is positive because
\* the minimum was checked when the request came in.
LEMMA CommitSetsAside ==
    ASSUME ConstantsAssumption, IInv, NEW s \in Workers, NEW w \in Wids, CommitRequest(s, w),
           task[s].request.amount > 0
    PROVE  Abstract!Next
<1> DEFINE r == task[s].request
<1>1. /\ ~Exists(w)
      /\ status' = [status EXCEPT ![w] = "PENDING"]
      /\ details' = [details EXCEPT ![w] = r]
      /\ ledgerSum' = [ledgerSum EXCEPT ![r.user] = @ + (-r.amount)]
  BY DEF CommitRequest, RecordMovement, CreateEntry
<1>2. r \in Request
  BY RequestTaskStep DEF CommitRequest, IInv, TypeOK, TaskTypeOK
<1>3. r.user \in Users /\ r.amount \in Amounts /\ r.amount \in Int
  BY <1>2 DEF Request, ConstantsAssumption
<1>4. /\ status \in [Wids -> WithdrawalStatuses \cup {"NONE"}]
      /\ details \in [Wids -> Details \cup {None}]
      /\ ledgerSum \in [Users -> Int]
  BY DEF IInv, TypeOK, AccountsTypeOK
<1>5. \A v \in Wids : v # w => HoldOf(v)' = HoldOf(v) /\ StakeOf(v)' = StakeOf(v)
  BY <1>1, <1>4 DEF HoldOf, StakeOf, Exists
<1>6. HoldOf(w) = "none" /\ HoldOf(w)' = "held"
  BY <1>1, <1>4 DEF HoldOf, Exists
<1>7. StakeOf(w)' = [user |-> r.user, amount |-> r.amount]
  BY <1>1, <1>4 DEF StakeOf, Exists
<1>8. [v \in Wids |-> HoldOf(v)]' = [[v \in Wids |-> HoldOf(v)] EXCEPT ![w] = "held"]
  BY <1>5, <1>6
<1>9. [v \in Wids |-> StakeOf(v)]'
          = [[v \in Wids |-> StakeOf(v)] EXCEPT ![w] = [user |-> r.user, amount |-> r.amount]]
  BY <1>5, <1>7
<1>10. ledgerSum' = [ledgerSum EXCEPT ![r.user] = @ - r.amount]
  <2>1. ledgerSum[r.user] + (-r.amount) = ledgerSum[r.user] - r.amount
    BY <1>3, <1>4
  <2> QED
    BY <1>1, <2>1
<1>11. Abstract!SetAside(w, r.user, r.amount)
  BY <1>6, <1>8, <1>9, <1>10 DEF Abstract!SetAside
<1> QED
  BY <1>3, <1>11 DEF Abstract!Next

\* A legal change pays out, gives back, or leaves the money where it is.
LEMMA ChangeMovesMoney ==
    ASSUME ConstantsAssumption, IInv, NEW w \in Wids, NEW new \in WithdrawalStatuses,
           LegalChange(w, new)
    PROVE  [Abstract!Next]_(Abstract!escrow)
<1>1. /\ Exists(w)
      /\ status' = [status EXCEPT ![w] = new]
      /\ details' = details
  BY DEF LegalChange, UpdateStatus
<1>2. \/ status[w] = "PENDING" /\ new \in {"PROCESSING", "CANCELLED"}
      \/ status[w] = "PROCESSING" /\ new \in {"COMPLETED", "FAILED", "REJECTED"}
  BY LegalTransitions DEF LegalChange
<1>3. /\ status \in [Wids -> WithdrawalStatuses \cup {"NONE"}]
      /\ ledgerSum \in [Users -> Int]
  BY DEF IInv, TypeOK, AccountsTypeOK
<1>4. \A v \in Wids : v # w => HoldOf(v)' = HoldOf(v)
  BY <1>1, <1>3 DEF HoldOf
<1>5. \A v \in Wids : StakeOf(v)' = StakeOf(v)
  <2>1. \A v \in Wids : Exists(v)' <=> Exists(v)
    BY <1>1, <1>2, <1>3 DEF Exists
  <2> QED
    BY <1>1, <2>1 DEF StakeOf
<1>6. HoldOf(w) = "held"
  BY <1>2 DEF HoldOf
<1>7. [v \in Wids |-> StakeOf(v)]' = [v \in Wids |-> StakeOf(v)]
  BY <1>5
<1>8. CASE new = "PROCESSING"
  <2>1. \A v \in Wids : HoldOf(v)' = HoldOf(v)
    BY <1>1, <1>3, <1>4, <1>6, <1>8 DEF HoldOf
  <2>2. ledgerSum' = ledgerSum
    BY <1>8 DEF LegalChange, KeepMoney, accounts, Reversed
  <2> QED
    BY <1>7, <2>1, <2>2 DEF Abstract!escrow
<1>9. CASE new = "COMPLETED"
  <2>1. HoldOf(w)' = "paid"
    BY <1>1, <1>3, <1>9 DEF HoldOf
  <2>2. [v \in Wids |-> HoldOf(v)]' = [[v \in Wids |-> HoldOf(v)] EXCEPT ![w] = "paid"]
    BY <1>4, <2>1
  <2>3. ledgerSum' = ledgerSum
    BY <1>9 DEF LegalChange, KeepMoney, accounts, Reversed
  <2>4. Abstract!PayOut(w)
    BY <1>6, <1>7, <2>2, <2>3 DEF Abstract!PayOut
  <2> QED
    BY <2>4 DEF Abstract!Next
<1>10. CASE new \in Reversed
  <2>1. HoldOf(w)' = "returned"
    BY <1>1, <1>3, <1>10 DEF HoldOf, Reversed
  <2>2. [v \in Wids |-> HoldOf(v)]' = [[v \in Wids |-> HoldOf(v)] EXCEPT ![w] = "returned"]
    BY <1>4, <2>1
  <2>3. ledgerSum' = [ledgerSum EXCEPT ![details[w].user] = @ + details[w].amount]
    BY <1>10 DEF LegalChange, Reverse, RecordMovement, CreateEntry
  <2>4. StakeOf(w) = [user |-> details[w].user, amount |-> details[w].amount]
    BY <1>1 DEF StakeOf
  <2>5. StakeOf(w).user = details[w].user /\ StakeOf(w).amount = details[w].amount
    BY <2>4
  <2>6. ledgerSum' = [ledgerSum EXCEPT ![StakeOf(w).user] = @ + StakeOf(w).amount]
    BY <2>3, <2>5
  <2>7. Abstract!GiveBack(w)
    BY <1>6, <1>7, <2>2, <2>6 DEF Abstract!GiveBack
  <2> QED
    BY <2>7 DEF Abstract!Next
<1> QED
  BY <1>2, <1>8, <1>9, <1>10 DEF Reversed

\* Every request in flight has passed the amount check.
RequestsPositive ==
    \A s \in Workers :
        task[s].step \in {"cooldown", "balance", "ledger", "insert"} =>
            task[s].request.amount > 0

\* Only CheckKey starts a request; the later steps keep it.
LEMMA RequestsStayPositive ==
    ASSUME ConstantsAssumption, IInv, RequestsPositive, [Next]_vars
    PROVE  RequestsPositive'
<1>1. task \in [Workers -> {Idle} \cup RequestTask \cup ChangeTask]
  BY DEF IInv, TypeOK, TaskTypeOK
<1>2. ASSUME NEW s \in Workers, NEW t,
             task' = [task EXCEPT ![s] = t],
             t.step \in {"cooldown", "balance", "ledger", "insert"} => t.request.amount > 0
      PROVE  RequestsPositive'
  <2>1. ASSUME NEW r \in Workers, task'[r].step \in {"cooldown", "balance", "ledger", "insert"}
        PROVE  task'[r].request.amount > 0
    <3>1. CASE r = s
      BY <1>1, <1>2, <2>1, <3>1
    <3>2. CASE r # s
      BY <1>1, <1>2, <2>1, <3>2 DEF RequestsPositive
    <3> QED
      BY <3>1, <3>2
  <2> QED
    BY <2>1 DEF RequestsPositive
<1>3. ASSUME NEW s \in Workers, task' = [task EXCEPT ![s] = Idle]
      PROVE  RequestsPositive'
  BY <1>2, <1>3 DEF Idle
<1>4. CASE task' = task
  BY <1>4 DEF RequestsPositive
<1>5. CASE Crash
  BY <1>5 DEF Crash, Idle, RequestsPositive
<1>6. ASSUME NEW s \in Workers, RequestStep(s)
      PROVE  RequestsPositive'
  <2>1. CASE \E r \in Request : CheckKey(s, r)
    <3>1. PICK r \in Request : CheckKey(s, r)
      BY <2>1
    <3>2. r.amount > 0
      <4>1. r.amount \in Int /\ MinAmount \in Nat \ {0}
        BY DEF Request, ConstantsAssumption
      <4>2. r.amount >= MinAmount
        BY <3>1 DEF CheckKey
      <4> QED
        BY <4>1, <4>2
    <3> QED
      BY <1>2, <3>1, <3>2 DEF CheckKey
  <2>2. ASSUME NEW next \in {"cooldown", "balance", "ledger", "insert"},
               task[s].step \in {"cooldown", "balance", "ledger", "insert"},
               task' = [task EXCEPT ![s].step = next]
        PROVE  RequestsPositive'
    <3>1. task[s] \in RequestTask
      BY <1>1, <2>2, RequestTaskStep
    <3>2. [task[s] EXCEPT !.step = next].request = task[s].request
      BY <3>1 DEF RequestTask
    <3>3. task[s].request.amount > 0
      BY <2>2 DEF RequestsPositive
    <3>4. task' = [task EXCEPT ![s] = [task[s] EXCEPT !.step = next]]
      BY <1>1, <2>2
    <3> QED
      BY <1>2, <3>2, <3>3, <3>4
  <2>3. CASE CheckCooldown(s) \/ CheckBalance(s) \/ CheckLedger(s)
    BY <2>2, <2>3 DEF CheckCooldown, CheckBalance, CheckLedger
  <2>4. CASE DriftDetected(s) \/ \E w \in Wids : CommitRequest(s, w)
    BY <1>3, <2>4 DEF DriftDetected, CommitRequest
  <2> QED
    BY <1>6, <2>1, <2>3, <2>4 DEF RequestStep
<1>7. ASSUME NEW s \in Workers, ChangeStep(s)
      PROVE  RequestsPositive'
  <2>1. CASE \E w \in Wids, target \in WithdrawalStatuses : Load(s, w, target)
    BY <1>2, <2>1 DEF Load
  <2>2. CASE Finish(s)
    BY <1>3, <2>2 DEF Finish
  <2> QED
    BY <1>7, <2>1, <2>2
       DEF ChangeStep, AdminLoads, OwnerLoads, HandlerTargets, WithdrawalStatuses,
           ProcessWithdrawal, CompleteWithdrawal, FailWithdrawal, RejectWithdrawal,
           CancelWithdrawal
<1>8. CASE \E s \in Workers : RollBack(s)
  BY <1>3, <1>8 DEF RollBack
<1>9. CASE RecoveryStep \/ (\E w \in Wids : CooldownElapses(w) \/ Ages(w)) \/ UNCHANGED vars
  BY <1>4, <1>9 DEF RecoveryStep, RecoveryFetch, RecoveryVisit, RecoveryFail, RecoveryRollBack,
                    CooldownElapses, Ages, vars
<1> QED
  BY <1>5, <1>6, <1>7, <1>8, <1>9 DEF Next

\* Every step of the tables is a step of the escrow, or a stutter.
LEMMA EscrowStep ==
    ASSUME ConstantsAssumption, IInv, RequestsPositive, [Next]_vars
    PROVE  [Abstract!Next]_(Abstract!escrow)
<1>1. CASE UNCHANGED <<accounts, rows>>
  BY <1>1 DEF accounts, rows, Abstract!escrow, HoldOf, StakeOf, Exists
<1>2. CASE \E s \in Workers, w \in Wids : CommitRequest(s, w)
  <2>1. PICK s \in Workers, w \in Wids : CommitRequest(s, w)
    BY <1>2
  <2>2. task[s].request.amount > 0
    BY <2>1 DEF CommitRequest, RequestsPositive
  <2> QED
    BY <2>1, <2>2, CommitSetsAside
<1>3. CASE \E w \in Wids, new \in WithdrawalStatuses : LegalChange(w, new)
  BY <1>3, ChangeMovesMoney
<1> QED
  BY <1>1, <1>2, <1>3, StepShape

\* The withdrawals implement the escrow: set aside once, then paid out or
\* given back once and for good.
THEOREM EscrowImplemented == Spec => ImplementsEscrow
<1>1. Init => Abstract!Init
  BY DEF Init, Abstract!Init, HoldOf, StakeOf, Exists
<1>2. Init => RequestsPositive
  BY DEF Init, RequestsPositive, Idle
<1>3. IInv /\ RequestsPositive /\ [Next]_vars => RequestsPositive'
  BY RequestsStayPositive, ConstantsAssumption
<1>4. IInv /\ RequestsPositive /\ [Next]_vars => [Abstract!Next]_(Abstract!escrow)
  BY EscrowStep, ConstantsAssumption
<1> QED
  BY <1>1, <1>2, <1>3, <1>4, Inductive, PTL DEF Spec, ImplementsEscrow, Abstract!Spec
=============================================================================
