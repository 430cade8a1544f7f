----------------------------- MODULE RaceProofs -----------------------------
(***************************************************************************)
(* What overlapping requests of one user are needed for in Withdrawals: an *)
(* overdraft, and a second live withdrawal inside the cooldown.  While the *)
(* requests of every single user are Apart neither comes about, however    *)
(* many threads serve other users and administrators at the same time, and *)
(* wherever the recovery job, failures and restarts come in between.       *)
(***************************************************************************)
EXTENDS WithdrawalsProofs

DetailsPositive == \A w \in Wids : Exists(w) => details[w].amount > 0

\* Amounts that are on their way are positive.
Positive == RequestsPositive /\ DetailsPositive
-----------------------------------------------------------------------------
(* Where a request comes from                                              *)

Looks == UNCHANGED <<accounts, rows, clock>>

\* How a request came to be past the cooldown: it was there before, or one of
\* the checks has just let it through and nothing else has changed.
CameFrom(s) ==
    /\ task[s].step \in {"cooldown", "balance", "ledger", "insert"}
    /\ task'[s].request = task[s].request
    /\ \/ task'[s] = task[s]
       \/ /\ task[s].step = "cooldown" /\ task'[s].step = "balance" /\ Looks
          /\ ~CoolingDown(task[s].request.user)
       \/ /\ task[s].step = "balance" /\ Looks
          /\ available[task[s].request.user] >= task[s].request.amount
       \/ task[s].step = "ledger" /\ Looks

\* One more check of a request.
LEMMA CheckPassed ==
    ASSUME TypeOK, NEW s \in Workers, NEW next \in {"balance", "ledger", "insert"},
           task[s].step \in {"cooldown", "balance", "ledger"},
           task' = [task EXCEPT ![s].step = next]
    PROVE  /\ task'[s].request = task[s].request /\ task'[s].step = next
           /\ \A t \in Workers \ {s} : task'[t] = task[t]
<1>1. task \in [Workers -> {Idle} \cup RequestTask \cup ChangeTask]
  BY DEF TypeOK, TaskTypeOK
<1>2. task[s] \in RequestTask
  BY <1>1, RequestTaskStep
<1>3. [task[s] EXCEPT !.step = next].request = task[s].request
  BY <1>2 DEF RequestTask
<1>4. [task[s] EXCEPT !.step = next].step = next
  BY <1>2 DEF RequestTask
<1>5. task' = [task EXCEPT ![s] = [task[s] EXCEPT !.step = next]]
  BY <1>1
<1> QED BY <1>1, <1>3, <1>4, <1>5

\* A worker past the cooldown check was past it, or at it, one step before.
LEMMA RequestComesFrom ==
    ASSUME IInv, [Next]_vars, NEW s \in Workers, s \in Cooled'
    PROVE  CameFrom(s)
<1>1. /\ TypeOK /\ task \in [Workers -> {Idle} \cup RequestTask \cup ChangeTask]
      /\ task'[s].step \in {"balance", "ledger", "insert"}
  BY DEF IInv, TypeOK, TaskTypeOK, Cooled
<1>2. CASE task'[s] = task[s]
  BY <1>1, <1>2 DEF CameFrom
<1>3. ASSUME NEW t \in Workers, NEW state, state.step \notin {"balance", "ledger", "insert"},
             task' = [task EXCEPT ![t] = state]
      PROVE  task'[s] = task[s]
  BY <1>1, <1>3
<1>4. ASSUME NEW t \in Workers, task' = [task EXCEPT ![t] = Idle]
      PROVE  task'[s] = task[s]
  <2>1. Idle.step = "idle"
    BY DEF Idle
  <2> QED BY <1>3, <1>4, <2>1
<1>5. ASSUME NEW t \in Workers, RequestStep(t) PROVE CameFrom(s)
  <2>1. CASE \E r \in Request : CheckKey(t, r)
    <3>1. PICK r \in Request : task' = [task EXCEPT ![t] = [step |-> "cooldown", request |-> r]]
      BY <2>1 DEF CheckKey
    <3>2. [step |-> "cooldown", request |-> r].step = "cooldown"
      OBVIOUS
    <3> QED BY <1>2, <1>3, <3>1, <3>2
  <2>2. CASE CheckCooldown(t)
    <3>1. /\ task[t].step = "cooldown" /\ task' = [task EXCEPT ![t].step = "balance"]
          /\ ~CoolingDown(task[t].request.user) /\ Looks
      BY <2>2 DEF CheckCooldown, Reads, Looks
    <3> QED BY <1>1, <1>2, <3>1, CheckPassed DEF CameFrom
  <2>3. CASE CheckBalance(t)
    <3>1. PICK next \in {"ledger", "insert"} :
            /\ task[t].step = "balance" /\ task' = [task EXCEPT ![t].step = next]
            /\ available[task[t].request.user] >= task[t].request.amount /\ Looks
      BY <2>3 DEF CheckBalance, Reads, Looks
    <3> QED BY <1>1, <1>2, <3>1, CheckPassed DEF CameFrom
  <2>4. CASE CheckLedger(t)
    <3>1. task[t].step = "ledger" /\ task' = [task EXCEPT ![t].step = "insert"] /\ Looks
      BY <2>4 DEF CheckLedger, Reads, Looks
    <3> QED BY <1>1, <1>2, <3>1, CheckPassed DEF CameFrom
  <2>5. CASE DriftDetected(t) \/ \E w \in Wids : CommitRequest(t, w)
    BY <1>2, <1>4, <2>5 DEF DriftDetected, CommitRequest
  <2> QED BY <1>5, <2>1, <2>2, <2>3, <2>4, <2>5 DEF RequestStep
<1>6. ASSUME NEW t \in Workers, ChangeStep(t) PROVE CameFrom(s)
  <2>1. ASSUME NEW w \in Wids, NEW target, Load(t, w, target) PROVE CameFrom(s)
    <3> DEFINE state == [step |-> "update", wid |-> w, held |-> version[w], target |-> target]
    <3>1. state.step = "update" /\ task' = [task EXCEPT ![t] = state]
      BY <2>1 DEF Load
    <3> HIDE DEF state
    <3> QED BY <1>2, <1>3, <3>1
  <2>2. CASE Finish(t)
    BY <1>2, <1>4, <2>2 DEF Finish
  <2> QED
    BY <1>6, <2>1, <2>2
       DEF ChangeStep, AdminLoads, OwnerLoads, ProcessWithdrawal, CompleteWithdrawal,
           FailWithdrawal, RejectWithdrawal, CancelWithdrawal
<1>7. ASSUME NEW t \in Workers, RollBack(t) PROVE CameFrom(s)
  BY <1>2, <1>4, <1>7 DEF RollBack
<1>8. CASE Crash
  BY <1>1, <1>8 DEF Crash, Idle
<1>9. CASE RecoveryStep \/ (\E w \in Wids : CooldownElapses(w) \/ Ages(w)) \/ UNCHANGED vars
  BY <1>2, <1>9 DEF RecoveryStep, RecoveryFetch, RecoveryVisit, RecoveryFail, RecoveryRollBack,
                    CooldownElapses, Ages, vars
<1> QED BY <1>5, <1>6, <1>7, <1>8, <1>9 DEF Next
-----------------------------------------------------------------------------
(* How the money moves                                                     *)

\* Positive is inductive.
LEMMA PositiveNext ==
    ASSUME ConstantsAssumption, IInv, Positive, [Next]_vars
    PROVE  Positive'
<1>1. RequestsPositive'
  BY RequestsStayPositive DEF Positive
<1>2. ASSUME NEW v \in Wids, Exists(v)' PROVE details'[v].amount > 0
  <2>1. /\ status \in [Wids -> WithdrawalStatuses \cup {"NONE"}]
        /\ details \in [Wids -> Details \cup {None}]
    BY DEF IInv, TypeOK
  <2>2. CASE UNCHANGED <<accounts, rows>>
    BY <1>2, <2>2 DEF rows, Positive, DetailsPositive, Exists
  <2>3. ASSUME NEW s \in Workers, NEW w \in Wids, CommitRequest(s, w)
        PROVE  details'[v].amount > 0
    BY <1>2, <2>1, <2>3
       DEF CommitRequest, Positive, RequestsPositive, DetailsPositive, Exists
  <2>4. ASSUME NEW w \in Wids, NEW new \in WithdrawalStatuses, LegalChange(w, new)
        PROVE  details'[v].amount > 0
    BY <1>2, <2>1, <2>4 DEF LegalChange, UpdateStatus, Positive, DetailsPositive, Exists
  <2> QED BY <2>2, <2>3, <2>4, StepShape
<1> QED BY <1>1, <1>2 DEF Positive, DetailsPositive

\* Worker s takes the money it has been promised.
Draws(s) ==
    LET r == task[s].request IN
    /\ task[s].step = "insert" /\ task'[s] = Idle
    /\ r \in Request
    /\ RecordMovement(r.user, -r.amount)

\* A step leaves the accounts alone, takes what a request was promised, or
\* gives something back.
LEMMA MoneyMoves ==
    ASSUME ConstantsAssumption, IInv, Positive, [Next]_vars
    PROVE  \/ UNCHANGED accounts
           \/ \E s \in Workers : Draws(s)
           \/ \E u \in Users, amount \in Nat : RecordMovement(u, amount)
<1>1. CASE UNCHANGED <<accounts, rows>>
  BY <1>1
<1>2. ASSUME NEW s \in Workers, NEW w \in Wids, CommitRequest(s, w)
      PROVE  Draws(s)
  <2>1. task[s].request \in Request
    BY <1>2, RequestTaskStep DEF CommitRequest, IInv, TypeOK, TaskTypeOK
  <2>2. task'[s] = Idle
    BY <1>2 DEF CommitRequest, IInv, TypeOK, TaskTypeOK
  <2> QED BY <1>2, <2>1, <2>2 DEF CommitRequest, Draws
<1>3. ASSUME NEW w \in Wids, NEW new \in WithdrawalStatuses, LegalChange(w, new)
      PROVE  \/ UNCHANGED accounts
             \/ \E u \in Users, amount \in Nat : RecordMovement(u, amount)
  <2>1. details[w].user \in Users /\ details[w].amount \in Nat
    <3>1. details[w] \in Request /\ details[w].amount > 0
      BY <1>3 DEF LegalChange, IInv, RowsSound, Positive, DetailsPositive
    <3>2. details[w].user \in Users /\ details[w].amount \in Int
      BY <3>1 DEF Request, ConstantsAssumption
    <3> QED BY <3>1, <3>2
  <2> QED BY <1>3, <2>1 DEF LegalChange, Reverse, KeepMoney
<1> QED BY <1>1, <1>2, <1>3, StepShape

\* A worker that takes its money shares its user with nobody who has been
\* promised some.
LEMMA DrawsAlone ==
    ASSUME Apart,
           NEW s \in Workers, s \in Cooled, task'[s] = Idle,
           NEW t \in Workers, t \in Promised', CameFrom(t)
    PROVE  task[t].request.user # task[s].request.user
<1>1. t \in Cooled /\ t # s
  BY DEF CameFrom, Promised, Cooled, Idle
<1> QED BY <1>1 DEF Apart

-----------------------------------------------------------------------------
(* No overdraft                                                            *)

\* Cache and ledger agree, and a request that has passed the balance check is
\* still covered: nobody draws on its user, and the rest only gives back.
Covered ==
    /\ Positive
    /\ \A u \in Users : Synced(u)
    /\ \A s \in Promised : available[task[s].request.user] >= task[s].request.amount

\* While requests are apart, Covered is preserved.
LEMMA CoveredNext ==
    ASSUME Apart, ConstantsAssumption, IInv, Covered, [Next]_vars
    PROVE  Covered'
<1>1. Positive /\ Positive'
  BY PositiveNext DEF Covered
<1>2. AccountsTypeOK
  BY DEF IInv, TypeOK
<1>3. ASSUME NEW s \in Workers, s \in Promised'
      PROVE  /\ task[s].request \in Request /\ task'[s].request = task[s].request
             /\ available[task[s].request.user] >= task[s].request.amount
  <2>1. CameFrom(s)
    BY <1>3, RequestComesFrom DEF Promised, Cooled
  <2>2. task[s].request \in Request
    BY <2>1, RequestTaskStep DEF CameFrom, IInv, TypeOK, TaskTypeOK
  <2> QED BY <1>3, <2>1, <2>2 DEF CameFrom, Covered, Promised
<1>4. CASE UNCHANGED accounts
  <2>1. \A u \in Users : Synced(u)'
    BY <1>4 DEF Covered, Synced, accounts
  <2> QED BY <1>1, <1>3, <1>4, <2>1 DEF Covered, accounts, Promised
<1>5. ASSUME NEW s \in Workers, Draws(s) PROVE Covered'
  <2> DEFINE r == task[s].request
  <2>1. /\ r.user \in Users /\ r.amount \in Int
        /\ available[r.user] >= r.amount
        /\ ledgerSum' = [ledgerSum EXCEPT ![r.user] = @ + (-r.amount)]
        /\ available' = [available EXCEPT ![r.user] = Clamp(@ + (-r.amount))]
    BY <1>5 DEF Draws, Request, ConstantsAssumption, Covered, Promised, RecordMovement,
                CreateEntry, UpdateBalance
  <2> HIDE DEF r
  <2>2. \A u \in Users : Synced(u)'
    BY <1>2, <2>1 DEF Covered, Synced, AccountsTypeOK, Clamp
  <2>3. ASSUME NEW t \in Workers, t \in Promised'
        PROVE  available'[task'[t].request.user] >= task'[t].request.amount
    <3>1. CameFrom(t)
      BY <2>3, RequestComesFrom DEF Promised, Cooled
    <3>2. task[t].request.user # r.user
      BY <1>5, <2>3, <3>1, DrawsAlone DEF Draws, Cooled, r
    <3>3. task[t].request.user \in Users
      BY <1>3, <2>3 DEF Request
    <3>4. available'[task[t].request.user] = available[task[t].request.user]
      BY <1>2, <2>1, <3>2, <3>3 DEF AccountsTypeOK
    <3> QED BY <1>3, <2>3, <3>4
  <2> QED BY <1>1, <2>2, <2>3 DEF Covered, Promised
<1>6. ASSUME NEW u \in Users, NEW amount \in Nat, RecordMovement(u, amount) PROVE Covered'
  <2>1. \A v \in Users : Synced(v)'
    BY <1>2, <1>6
       DEF Covered, Synced, AccountsTypeOK, RecordMovement, CreateEntry, UpdateBalance, Clamp
  <2>2. \A v \in Users : available'[v] >= available[v]
    BY <1>2, <1>6 DEF AccountsTypeOK, RecordMovement, UpdateBalance, Clamp
  <2>3. ASSUME NEW s \in Workers, s \in Promised'
        PROVE  available'[task'[s].request.user] >= task'[s].request.amount
    <3>1. task[s].request.user \in Users /\ task[s].request.amount \in Int
      BY <1>3, <2>3 DEF Request, ConstantsAssumption
    <3>2. available' \in [Users -> Int] /\ available \in [Users -> Int]
      BY <1>2, <1>6 DEF AccountsTypeOK, RecordMovement, UpdateBalance, Clamp
    <3> QED BY <1>3, <2>2, <2>3, <3>1, <3>2
  <2> QED BY <1>1, <2>1, <2>3 DEF Covered, Promised
<1> QED BY <1>1, <1>4, <1>5, <1>6, MoneyMoves

\* Overlapping requests of one user are the only way into an overdraft.
THEOREM OverdraftIsRace == Spec => OverdraftNeedsRace
<1>1. Init => Covered
  BY ConstantsAssumption
     DEF Init, Covered, Positive, RequestsPositive, DetailsPositive, Synced, Promised, Exists, Idle
<1>2. Apart /\ IInv /\ Covered /\ [Next]_vars => Covered'
  BY CoveredNext, ConstantsAssumption
<1>3. IInv /\ Covered => NoOverspend
  <2> SUFFICES ASSUME IInv, Covered, NEW u \in Users PROVE ledgerSum[u] >= 0
    BY DEF NoOverspend
  <2>1. available[u] \in Nat
    BY DEF IInv, TypeOK, AccountsTypeOK
  <2>2. available[u] = ledgerSum[u]
    BY DEF Covered, Synced
  <2> QED BY <2>1, <2>2
<1> QED BY <1>1, <1>2, <1>3, Inductive, PTL DEF Spec, OverdraftNeedsRace
-----------------------------------------------------------------------------
(* The cooldown                                                            *)

NobodyTwice == \A u \in Users : ~TwoInWindow(u)

\* A request past the cooldown check still finds no live row of its user: none
\* of its user's is inserted, and no row comes back to life.
StillCooled ==
    /\ \A w \in recent : Exists(w)
    /\ \A s \in Cooled : ~CoolingDown(task[s].request.user)
    /\ NobodyTwice

\* Only the INSERT of a request puts a row into the window.
LEMMA RecentShrinks ==
    ASSUME [Next]_vars, ~\E s \in Workers, w \in Wids : CommitRequest(s, w)
    PROVE  recent' \subseteq recent
<1>1. ASSUME NEW s \in Workers, RequestStep(s) \/ RollBack(s) PROVE recent' \subseteq recent
  BY <1>1 DEF RequestStep, CheckKey, CheckCooldown, CheckBalance, CheckLedger, DriftDetected,
              RollBack, Reads, clock
<1>2. ASSUME NEW s \in Workers, ChangeStep(s) PROVE recent' \subseteq recent
  BY <1>2 DEF ChangeStep, AdminLoads, OwnerLoads, Load, Reads, clock, ProcessWithdrawal,
              CompleteWithdrawal, FailWithdrawal, RejectWithdrawal, CancelWithdrawal, UpdateStatus
<1>3. CASE RecoveryStep \/ Crash \/ UNCHANGED vars
  BY <1>3 DEF RecoveryStep, RecoveryFetch, RecoveryVisit, RecoveryFail, RecoveryRollBack,
              UpdateStatus, Crash, vars, clock
<1>4. CASE \E w \in Wids : CooldownElapses(w) \/ Ages(w)
  BY <1>4 DEF CooldownElapses, Ages
<1> QED BY <1>1, <1>2, <1>3, <1>4 DEF Next

\* While requests are apart, StillCooled is preserved.
LEMMA StillCooledNext ==
    ASSUME Apart, ConstantsAssumption, IInv, StillCooled, [Next]_vars
    PROVE  StillCooled'
<1>1. /\ status \in [Wids -> WithdrawalStatuses \cup {"NONE"}]
      /\ recent \subseteq Wids
  BY DEF IInv, TypeOK
<1>2. ASSUME NEW s \in Workers, s \in Cooled'
      PROVE  /\ task'[s].request = task[s].request
             /\ s \in Cooled \/ (~CoolingDown(task[s].request.user) /\ Looks)
  <2>1. CameFrom(s)
    BY <1>2, RequestComesFrom
  <2> QED BY <1>2, <2>1 DEF CameFrom, Cooled
<1>3. ASSUME recent' \subseteq recent,
             \A w \in recent : Exists(w) => Exists(w)',
             \A w \in recent : status'[w] \in Live => status[w] \in Live,
             \A w \in recent : details'[w] = details[w]
      PROVE  StillCooled'
  <2>1. \A u : CoolingDown(u)' => CoolingDown(u)
    BY <1>3 DEF CoolingDown
  <2>2. \A s \in Cooled' : ~CoolingDown(task[s].request.user)
    BY <1>2 DEF StillCooled, Cooled
  <2>3. ASSUME NEW s \in Workers, s \in Cooled' PROVE (~CoolingDown(task[s].request.user))'
    <3>1. task'[s].request = task[s].request /\ ~CoolingDown(task[s].request.user)
      BY <1>2, <2>2, <2>3
    <3>2. ASSUME NEW w \in recent', status'[w] \in Live
          PROVE  details'[w].user # task[s].request.user
      BY <1>3, <3>1, <3>2 DEF CoolingDown
    <3> QED BY <3>1, <3>2 DEF CoolingDown
  <2>4. NobodyTwice'
    BY <1>3 DEF NobodyTwice, TwoInWindow, StillCooled
  <2> QED BY <1>3, <2>3, <2>4 DEF StillCooled, Cooled
<1>4. CASE UNCHANGED <<accounts, rows>>
  <2>1. recent' \subseteq recent
    <3>1. ~\E s \in Workers, w \in Wids : CommitRequest(s, w)
      BY <1>1, <1>4 DEF CommitRequest, rows, Exists
    <3> QED BY <3>1, RecentShrinks
  <2> QED BY <1>3, <1>4, <2>1 DEF rows, Exists
<1>5. ASSUME NEW s \in Workers, NEW w \in Wids, CommitRequest(s, w) PROVE StillCooled'
  <2> DEFINE r == task[s].request
  <2>1. /\ r \in Request /\ task'[s] = Idle /\ s \in Cooled
        /\ ~Exists(w) /\ recent' = recent \cup {w}
        /\ details'[w] = r
        /\ \A v \in Wids \ {w} : status'[v] = status[v] /\ details'[v] = details[v]
        /\ status'[w] = "PENDING"
    BY <1>1, <1>5, RequestTaskStep DEF CommitRequest, IInv, TypeOK, TaskTypeOK, Cooled
  <2> HIDE DEF r
  <2>2. \A v \in recent' : Exists(v)'
    BY <1>1, <2>1 DEF StillCooled, Exists
  <2>3. ~CoolingDown(r.user)
    BY <2>1 DEF StillCooled, r
  <2>4. w \notin recent
    BY <2>1 DEF StillCooled
  <2>5. ASSUME NEW t \in Workers, t \in Cooled' PROVE (~CoolingDown(task[t].request.user))'
    <3>1. t \in Cooled /\ t # s /\ task'[t].request = task[t].request
      BY <1>1, <1>2, <2>1, <2>5 DEF Looks, rows, Exists, Cooled, Idle
    <3>2. task[t].request.user # r.user /\ ~CoolingDown(task[t].request.user)
      BY <2>1, <3>1 DEF Apart, StillCooled, r
    <3>3. ASSUME NEW v \in recent', status'[v] \in Live
          PROVE  details'[v].user # task[t].request.user
      BY <1>1, <2>1, <2>4, <3>2, <3>3 DEF CoolingDown
    <3> QED BY <3>1, <3>3 DEF CoolingDown
  <2>6. NobodyTwice'
    <3> SUFFICES ASSUME NEW u \in Users, NEW v \in recent', NEW x \in recent', v # x,
                        status'[v] \in Live, status'[x] \in Live,
                        details'[v].user = u, details'[x].user = u
                 PROVE  FALSE
      BY DEF NobodyTwice, TwoInWindow
    <3>1. CASE v = w
      <4>1. x \in recent /\ status[x] \in Live /\ details[x].user = r.user
        BY <1>1, <2>1, <2>4, <3>1
      <4> QED BY <2>3, <4>1 DEF CoolingDown
    <3>2. CASE x = w
      <4>1. v \in recent /\ status[v] \in Live /\ details[v].user = r.user
        BY <1>1, <2>1, <2>4, <3>2
      <4> QED BY <2>3, <4>1 DEF CoolingDown
    <3>3. CASE v # w /\ x # w
      BY <1>1, <2>1, <3>3 DEF StillCooled, NobodyTwice, TwoInWindow
    <3> QED BY <3>1, <3>2, <3>3
  <2> QED BY <2>2, <2>5, <2>6 DEF StillCooled, Cooled
<1>6. ASSUME NEW w \in Wids, NEW new \in WithdrawalStatuses, LegalChange(w, new)
      PROVE  StillCooled'
  <2>1. status[w] \in {"PENDING", "PROCESSING"}
    BY <1>6, LegalTransitions DEF LegalChange
  <2>2. /\ status' = [status EXCEPT ![w] = new] /\ recent' = recent /\ details' = details
        /\ new # "NONE"
    BY <1>6 DEF LegalChange, UpdateStatus, WithdrawalStatuses
  <2> QED BY <1>1, <1>3, <2>1, <2>2 DEF Exists, Live, Reversed, WithdrawalStatuses
<1> QED BY <1>4, <1>5, <1>6, StepShape

\* And they are the only way to a second live withdrawal inside the cooldown.
THEOREM CooldownIsRace == Spec => CooldownNeedsRace
<1>1. Init => StillCooled
  BY DEF Init, StillCooled, NobodyTwice, TwoInWindow, Cooled, Idle
<1>2. Apart /\ IInv /\ StillCooled /\ [Next]_vars => StillCooled'
  BY StillCooledNext, ConstantsAssumption
<1>3. StillCooled => \A u \in Users : ~TwoInWindow(u)
  BY DEF StillCooled, NobodyTwice
<1> QED BY <1>1, <1>2, <1>3, Inductive, PTL DEF Spec, CooldownNeedsRace
=============================================================================
