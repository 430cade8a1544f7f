------------------------- MODULE LedgerSystemProofs -------------------------
(***************************************************************************)
(* Theorems about the composition, for any users, withdrawals, sales,      *)
(* workers, administrators, jobs and amounts: each component keeps what it *)
(* promises, its refinement included, although the other writes the same   *)
(* accounts; the ledger adds up across them; nothing in the program makes  *)
(* a drift between cache and ledger smaller; and while no requests of one  *)
(* user overlap, a user's debt is at most what rejections have taken back, *)
(* and nobody draws more than was credited.                                *)
(***************************************************************************)
EXTENDS LedgerSystem, TLAPS

\* The components together with what has been proved about them.
WP == INSTANCE BalanceProofs WITH Opening <- NoOpening, entries <- bookings

PP == INSTANCE DisbursementProofs
-----------------------------------------------------------------------------
(* W and WP, and P and PP, are instances of the same modules with the same *)
(* substitutions, so their actions are the same.                           *)

\* The withdrawals of LedgerSystem are those the proofs are about.
LEMMA SameWithdrawals ==
    W!Next <=> WP!Next
<1> USE DEF
      W!accounts, WP!accounts, W!AdminTargets, WP!AdminTargets, W!CanTransition,
          WP!CanTransition, W!Cardinality, WP!Cardinality, W!Clamp, WP!Clamp, W!clock,
          WP!clock, W!CoolingDown, WP!CoolingDown, W!CreateEntry, WP!CreateEntry, W!Exists,
          WP!Exists, W!Expired, WP!Expired, W!Finish, WP!Finish, W!HandlerTargets,
          WP!HandlerTargets, W!Idle, WP!Idle, W!job, WP!job, W!KeepMoney, WP!KeepMoney,
          W!KeyFree, WP!KeyFree, W!Live, WP!Live, W!Load, WP!Load, W!NextItem, WP!NextItem,
          W!Reads, WP!Reads, W!RecordMovement, WP!RecordMovement, W!Reverse, WP!Reverse,
          W!Reversed, WP!Reversed, W!rows, WP!rows, W!SchemaTargets, WP!SchemaTargets,
          W!UniqueKey, WP!UniqueKey, W!UpdateBalance, WP!UpdateBalance, W!UpdateStatus,
          WP!UpdateStatus, W!Updating, WP!Updating, W!WithdrawalStatuses,
          WP!WithdrawalStatuses, W!WithdrawalTransitions, WP!WithdrawalTransitions
<1>1. \A s, r : W!CheckKey(s, r) <=> WP!CheckKey(s, r)
  BY DEF W!CheckKey, WP!CheckKey
<1>2. \A s : W!CheckCooldown(s) <=> WP!CheckCooldown(s)
  BY DEF W!CheckCooldown, WP!CheckCooldown
<1>3. \A s : W!CheckBalance(s) <=> WP!CheckBalance(s)
  BY DEF W!CheckBalance, WP!CheckBalance
<1>4. \A s : W!CheckLedger(s) <=> WP!CheckLedger(s)
  BY DEF W!CheckLedger, WP!CheckLedger
<1>5. \A s : W!DriftDetected(s) <=> WP!DriftDetected(s)
  BY DEF W!DriftDetected, WP!DriftDetected
<1>6. \A s, w : W!CommitRequest(s, w) <=> WP!CommitRequest(s, w)
  BY DEF W!CommitRequest, WP!CommitRequest
<1>7. \A s, w, t : W!AdminLoads(s, w, t) <=> WP!AdminLoads(s, w, t)
  BY DEF W!AdminLoads, WP!AdminLoads
<1>8. \A s, w, t : W!OwnerLoads(s, w, t) <=> WP!OwnerLoads(s, w, t)
  BY DEF W!OwnerLoads, WP!OwnerLoads
<1>9. \A s : W!ProcessWithdrawal(s) <=> WP!ProcessWithdrawal(s)
  BY DEF W!ProcessWithdrawal, WP!ProcessWithdrawal
<1>10. \A s : W!CompleteWithdrawal(s) <=> WP!CompleteWithdrawal(s)
  BY DEF W!CompleteWithdrawal, WP!CompleteWithdrawal
<1>11. \A s : W!FailWithdrawal(s) <=> WP!FailWithdrawal(s)
  BY DEF W!FailWithdrawal, WP!FailWithdrawal
<1>12. \A s : W!RejectWithdrawal(s) <=> WP!RejectWithdrawal(s)
  BY DEF W!RejectWithdrawal, WP!RejectWithdrawal
<1>13. \A s : W!CancelWithdrawal(s) <=> WP!CancelWithdrawal(s)
  BY DEF W!CancelWithdrawal, WP!CancelWithdrawal
<1>14. \A s : W!RollBack(s) <=> WP!RollBack(s)
  BY DEF W!RollBack, WP!RollBack
<1>15. W!RecoveryFetch <=> WP!RecoveryFetch
  BY DEF W!RecoveryFetch, WP!RecoveryFetch
<1>16. \A w : W!RecoveryVisit(w) <=> WP!RecoveryVisit(w)
  BY DEF W!RecoveryVisit, WP!RecoveryVisit
<1>17. \A w : W!RecoveryFail(w) <=> WP!RecoveryFail(w)
  BY DEF W!RecoveryFail, WP!RecoveryFail
<1>18. W!RecoveryRollBack <=> WP!RecoveryRollBack
  BY DEF W!RecoveryRollBack, WP!RecoveryRollBack
<1>19. W!Crash <=> WP!Crash
  BY DEF W!Crash, WP!Crash
<1>20. \A w : W!CooldownElapses(w) <=> WP!CooldownElapses(w)
  BY DEF W!CooldownElapses, WP!CooldownElapses
<1>21. \A w : W!Ages(w) <=> WP!Ages(w)
  BY DEF W!Ages, WP!Ages
<1> QED
  BY <1>1, <1>2, <1>3, <1>4, <1>5, <1>6, <1>7, <1>8, <1>9, <1>10, <1>11, <1>12, <1>13, <1>14, <1>15, <1>16, <1>17, <1>18, <1>19, <1>20, <1>21
     DEF W!Next, WP!Next, W!Request, WP!Request, W!RequestStep, WP!RequestStep, W!ChangeStep, WP!ChangeStep, W!RecoveryStep, WP!RecoveryStep

\* The sales and payouts of LedgerSystem are those the proofs are about.
LEMMA SamePayouts ==
    P!PayoutsNext <=> PP!PayoutsNext
<1> USE DEF
      P!accounts, PP!accounts, P!Adjustment, PP!Adjustment, P!AdvanceAmount,
          PP!AdvanceAmount, P!AdvanceMade, PP!AdvanceMade, P!AdvanceOf, PP!AdvanceOf,
          P!AfterPayout, PP!AfterPayout, P!Approve, PP!Approve, P!Behind, PP!Behind, P!Book,
          PP!Book, P!CanTransition, PP!CanTransition, P!Cardinality, PP!Cardinality,
          P!Clamp, PP!Clamp, P!ComesTo, PP!ComesTo, P!CreateEntry, PP!CreateEntry,
          P!Eligible, PP!Eligible, P!gateway, PP!gateway, P!JobOnly, PP!JobOnly,
          P!KeyUnknown, PP!KeyUnknown, P!NoAnswers, PP!NoAnswers, P!Outcome, PP!Outcome,
          P!Page, PP!Page, P!PayoutTransitions, PP!PayoutTransitions, P!Rank, PP!Rank,
          P!RecordMovement, PP!RecordMovement, P!Reject, PP!Reject, P!Remember, PP!Remember,
          P!Resting, PP!Resting, P!SaleTransitions, PP!SaleTransitions, P!StillPending,
          PP!StillPending, P!tables, PP!tables, P!UniqueAdvance, PP!UniqueAdvance, P!Unsent,
          PP!Unsent, P!UpdateBalance, PP!UpdateBalance, P!Waiting, PP!Waiting
<1>1. \A s, u, e : P!CreateSale(s, u, e) <=> PP!CreateSale(s, u, e)
  BY DEF P!CreateSale, PP!CreateSale
<1>2. \A a, s, d : P!LoadSale(a, s, d) <=> PP!LoadSale(a, s, d)
  BY DEF P!LoadSale, PP!LoadSale
<1>3. \A a : P!ReconcileSale(a) <=> PP!ReconcileSale(a)
  BY DEF P!ReconcileSale, PP!ReconcileSale
<1>4. \A a : P!ReconcileFails(a) <=> PP!ReconcileFails(a)
  BY DEF P!ReconcileFails, PP!ReconcileFails
<1>5. \A j : P!StartRun(j) <=> PP!StartRun(j)
  BY DEF P!StartRun, PP!StartRun
<1>6. \A j : P!FetchPage(j) <=> PP!FetchPage(j)
  BY DEF P!FetchPage, PP!FetchPage
<1>7. \A j, s : P!VisitSale(j, s) <=> PP!VisitSale(j, s)
  BY DEF P!VisitSale, PP!VisitSale
<1>8. \A j, s : P!CreateAdvance(j, s) <=> PP!CreateAdvance(j, s)
  BY DEF P!CreateAdvance, PP!CreateAdvance
<1>9. \A j, s : P!SkipSale(j, s) <=> PP!SkipSale(j, s)
  BY DEF P!SkipSale, PP!SkipSale
<1>10. \A j : P!FetchPayouts(j) <=> PP!FetchPayouts(j)
  BY DEF P!FetchPayouts, PP!FetchPayouts
<1>11. \A j, s : P!SendPayout(j, s) <=> PP!SendPayout(j, s)
  BY DEF P!SendPayout, PP!SendPayout
<1>12. \A j : P!SettlePayout(j) <=> PP!SettlePayout(j)
  BY DEF P!SettlePayout, PP!SettlePayout
<1>13. \A j : P!SkipPayout(j) <=> PP!SkipPayout(j)
  BY DEF P!SkipPayout, PP!SkipPayout
<1>14. \A j : P!AbortRun(j) <=> PP!AbortRun(j)
  BY DEF P!AbortRun, PP!AbortRun
<1> QED
  BY <1>1, <1>2, <1>3, <1>4, <1>5, <1>6, <1>7, <1>8, <1>9, <1>10, <1>11, <1>12, <1>13, <1>14
     DEF P!PayoutsNext, PP!PayoutsNext, P!AdminStep, PP!AdminStep, P!JobStep, PP!JobStep

\* All instances of Accounts, and the one this module extends, agree.
LEMMA SameAccounts ==
    /\ \A u, amount : WP!RecordMovement(u, amount) <=> RecordMovement(u, amount)
    /\ \A u, amount : PP!RecordMovement(u, amount) <=> RecordMovement(u, amount)
    /\ WP!accounts = accounts /\ PP!accounts = accounts
    /\ WP!AccountsTypeOK <=> AccountsTypeOK
    /\ PP!AccountsTypeOK <=> AccountsTypeOK
BY DEF WP!RecordMovement, PP!RecordMovement, RecordMovement, WP!CreateEntry, PP!CreateEntry,
       CreateEntry, WP!UpdateBalance, PP!UpdateBalance, UpdateBalance, WP!Clamp, PP!Clamp, Clamp,
       WP!accounts, PP!accounts, accounts, WP!AccountsTypeOK, PP!AccountsTypeOK, AccountsTypeOK

\* The components' assumptions follow from those of the system.
LEMMA ComponentConstants == WP!ConstantsAssumption /\ PP!PayoutConstants
BY SystemConstants
   DEF SystemConstants, WP!ConstantsAssumption, PP!PayoutConstants, NoOpening,
       PP!IsFiniteSet, IsFiniteSet

\* A step of the system is a step of one component, or none.
WithdrawalsMove == [WP!Next]_(WP!vars) /\ UNCHANGED <<payoutState, takenBack>>

PayoutsMove ==
    /\ PP!PayoutsNext
    /\ UNCHANGED withdrawalState
    /\ takenBack' = [u \in Users |-> takenBack[u] + TakenFrom(u)]

\* A step of the system is a step, or a stutter, of one component.
LEMMA OneMoves ==
    ASSUME [SystemNext]_systemVars
    PROVE  WithdrawalsMove \/ PayoutsMove
<1>1. CASE W!Next /\ UNCHANGED <<payoutState, takenBack>>
  BY <1>1, SameWithdrawals DEF WithdrawalsMove
<1>2. CASE /\ P!PayoutsNext
           /\ UNCHANGED withdrawalState
           /\ takenBack' = [u \in Users |-> takenBack[u] + TakenFrom(u)]
  BY <1>2, SamePayouts DEF PayoutsMove
<1>3. CASE UNCHANGED systemVars
  <2>1. UNCHANGED <<accounts, withdrawalState, payoutState, takenBack>>
    BY <1>3 DEF systemVars
  <2>2. UNCHANGED WP!vars
    BY <2>1 DEF withdrawalState, accounts, WP!vars, WP!accounts, WP!rows, WP!clock, WP!job
  <2> QED BY <2>1, <2>2 DEF WithdrawalsMove
<1> QED BY <1>1, <1>2, <1>3 DEF SystemNext
-----------------------------------------------------------------------------
(* How a step of Payouts moves money                                       *)

\* What the tables of Payouts offer for it.
LEMMA Advances ==
    ASSUME PP!Books
    PROVE  /\ PP!PayoutsTypeOK
           /\ \A s \in Sales :
                /\ info[s].user \in Users /\ info[s].earnings \in Nat
                /\ PP!AdvanceOf(s) \in Nat /\ PP!AdvanceMade(s) \in Nat
                /\ sale[s] # "NONE" => PP!AdvanceMade(s) < info[s].earnings
<1>1. /\ PP!PayoutsTypeOK
      /\ \A s \in Sales : sale[s] # "NONE" => info[s].earnings \in Earnings
  BY DEF PP!Books, PP!SaleSound
<1>2. Earnings \subseteq Nat \ {0}
  BY SystemConstants DEF SystemConstants
<1>3. ASSUME NEW s \in Sales PROVE info[s].user \in Users /\ info[s].earnings \in Nat
  <2>1. info \in [Sales -> [user : Users, earnings : Earnings \cup {0}]]
    BY <1>1 DEF PP!PayoutsTypeOK
  <2>2. info[s].user \in Users /\ info[s].earnings \in Earnings \cup {0}
    BY <2>1
  <2>3. \A e \in Earnings \cup {0} : e \in Nat
    BY <1>2
  <2> QED BY <2>2, <2>3
<1>4. ASSUME NEW s \in Sales
      PROVE  /\ PP!AdvanceOf(s) \in Nat /\ PP!AdvanceMade(s) \in Nat
             /\ sale[s] # "NONE" => PP!AdvanceMade(s) < info[s].earnings
  <2>1. info[s].earnings \in Nat /\ (sale[s] # "NONE" => info[s].earnings > 0)
    BY <1>1, <1>2, <1>3
  <2>2. /\ PP!AdvanceAmount(info[s].earnings) \in Nat
        /\ info[s].earnings > 0 => PP!AdvanceAmount(info[s].earnings) < info[s].earnings
    BY <2>1, ComponentConstants, PP!AdvanceBounds
  <2> QED BY <2>1, <2>2 DEF PP!AdvanceOf, PP!AdvanceMade
<1> QED BY <1>1, <1>3, <1>4

\* A booking is a movement on the account of the sale's user.
LEMMA BookMoves ==
    ASSUME NEW s, NEW type, NEW amount, PP!Book(s, type, amount)
    PROVE  RecordMovement(info[s].user, amount)
BY SameAccounts DEF PP!Book

NothingTaken == \A v \in Users : TakenFrom(v) = 0

\* Nothing, a credit, or the debit of a rejection, which takenBack records.
PayoutMove ==
    \/ UNCHANGED accounts /\ NothingTaken
    \/ \E u \in Users, amount \in Nat : RecordMovement(u, amount) /\ NothingTaken
    \/ \E u \in Users, amount \in Nat :
        /\ RecordMovement(u, -amount)
        /\ \A v \in Users : TakenFrom(v) = IF v = u THEN amount ELSE 0

\* What a reconciliation does, and what takenBack records of it.
LEMMA ReconciliationShape ==
    ASSUME PP!Books, NEW a \in Admins, PP!ReconcileSale(a)
    PROVE  \E s \in Sales :
            /\ sale[s] = "PENDING" /\ UNCHANGED info
            /\ \/ PP!Approve(s) /\ NothingTaken
               \/ /\ PP!Reject(s)
                  /\ \A v \in Users :
                        TakenFrom(v) = IF v = info[s].user THEN PP!AdvanceMade(s) ELSE 0
<1> DEFINE s == admin[a].sale
<1> DEFINE decision == admin[a].decision
<1>1. /\ s \in Sales /\ sale[s] = "PENDING" /\ decision \in {"APPROVED", "REJECTED"}
      /\ sale' = [sale EXCEPT ![s] = decision] /\ UNCHANGED info
  <2>1. admin[a] # PP!Waiting
    BY DEF PP!ReconcileSale, PP!Waiting
  <2>2. admin[a] \in [step : {"reconcile"}, sale : Sales, decision : {"APPROVED", "REJECTED"}]
    BY <2>1, Advances DEF PP!PayoutsTypeOK
  <2> QED BY <2>2 DEF PP!ReconcileSale, PP!StillPending
<1>2. \/ decision = "APPROVED" /\ PP!Approve(s)
      \/ decision = "REJECTED" /\ PP!Reject(s)
  BY DEF PP!ReconcileSale
<1> HIDE DEF s, decision
<1>3. \A t \in Sales : Rejects(t) <=> (t = s /\ decision = "REJECTED")
  BY <1>1, Advances DEF Rejects, PP!PayoutsTypeOK
<1>4. CASE decision = "APPROVED" /\ PP!Approve(s)
  <2>1. NothingTaken
    BY <1>3, <1>4 DEF NothingTaken, TakenFrom
  <2> QED BY <1>1, <1>4, <2>1
<1>5. CASE decision = "REJECTED" /\ PP!Reject(s)
  <2>1. (CHOOSE t \in Sales : Rejects(t)) = s
    BY <1>1, <1>3, <1>5
  <2>2. P!AdvanceMade(s) = PP!AdvanceMade(s)
    BY DEF P!AdvanceMade, PP!AdvanceMade, P!AdvanceOf, PP!AdvanceOf, P!AdvanceAmount,
           PP!AdvanceAmount
  <2>3. \A v \in Users :
            TakenFrom(v) = IF v = info[s].user THEN PP!AdvanceMade(s) ELSE 0
    BY <1>1, <1>3, <1>5, <2>1, <2>2 DEF TakenFrom
  <2> QED BY <1>1, <1>5, <2>3
<1> QED BY <1>2, <1>4, <1>5

\* A reconciliation books the earnings, the rest of them, or takes the advance back.
LEMMA ReconciliationMoves ==
    ASSUME PP!Books, NEW a \in Admins, PP!ReconcileSale(a)
    PROVE  PayoutMove
<1>1. PICK s \in Sales :
        /\ sale[s] = "PENDING"
        /\ \/ PP!Approve(s) /\ NothingTaken
           \/ /\ PP!Reject(s)
              /\ \A v \in Users :
                    TakenFrom(v) = IF v = info[s].user THEN PP!AdvanceMade(s) ELSE 0
  BY ReconciliationShape
<1>2. /\ info[s].user \in Users /\ info[s].earnings \in Nat /\ PP!AdvanceMade(s) \in Nat
      /\ PP!AdvanceMade(s) < info[s].earnings
  BY <1>1, Advances
<1>3. CASE PP!Approve(s) /\ NothingTaken
  <2>1. CASE UNCHANGED accounts
    BY <1>3, <2>1 DEF PayoutMove
  <2>2. CASE PP!Book(s, "final", info[s].earnings - PP!AdvanceMade(s))
    <3>1. info[s].earnings - PP!AdvanceMade(s) \in Nat
      BY <1>2
    <3> QED BY <1>2, <1>3, <2>2, <3>1, BookMoves DEF PayoutMove
  <2> QED BY <1>2, <1>3, <2>1, <2>2, SameAccounts DEF PP!Approve
<1>4. CASE /\ PP!Reject(s)
           /\ \A v \in Users :
                TakenFrom(v) = IF v = info[s].user THEN PP!AdvanceMade(s) ELSE 0
  <2>1. CASE PP!AdvanceMade(s) = 0 /\ UNCHANGED accounts
    BY <1>4, <2>1 DEF PayoutMove, NothingTaken
  <2>2. CASE PP!Book(s, "adjustment", -PP!AdvanceMade(s))
    BY <1>2, <1>4, <2>2, BookMoves DEF PayoutMove
  <2> QED BY <1>2, <1>4, <2>1, <2>2 DEF PP!Reject, PP!Adjustment, PP!accounts, accounts
<1> QED BY <1>1, <1>3, <1>4

\* Every step of sales and payouts is a movement of one account, or none.
LEMMA PayoutMoves ==
    ASSUME PP!Books, PP!PayoutsNext
    PROVE  PayoutMove
<1>1. ASSUME UNCHANGED sale PROVE NothingTaken
  BY <1>1 DEF NothingTaken, TakenFrom, Rejects
<1>2. ASSUME NEW s \in Sales, NEW u \in Users, NEW earnings \in Earnings,
             PP!CreateSale(s, u, earnings)
      PROVE  PayoutMove
  <2>1. \A t \in Sales : ~Rejects(t)
    BY <1>2, Advances DEF PP!CreateSale, PP!PayoutsTypeOK, Rejects
  <2>2. UNCHANGED accounts
    BY <1>2 DEF PP!CreateSale, PP!accounts, accounts
  <2>3. NothingTaken
    BY <2>1 DEF NothingTaken, TakenFrom
  <2> QED BY <2>2, <2>3 DEF PayoutMove
<1>3. ASSUME NEW a \in Admins, PP!AdminStep(a) PROVE PayoutMove
  <2>1. CASE UNCHANGED <<PP!accounts, PP!tables>>
    BY <1>1, <2>1 DEF PayoutMove, PP!tables, PP!accounts, accounts
  <2> QED
    BY <1>3, <2>1, ReconciliationMoves DEF PP!AdminStep, PP!LoadSale, PP!ReconcileFails
<1>4. ASSUME NEW j \in Jobs, PP!JobStep(j) PROVE PayoutMove
  <2>1. CASE UNCHANGED <<PP!accounts, sale>>
    BY <1>1, <2>1 DEF PayoutMove, PP!accounts, accounts
  <2>2. ASSUME NEW s \in Sales, PP!CreateAdvance(j, s) PROVE PayoutMove
    <3>1. NothingTaken /\ info[s].user \in Users /\ PP!AdvanceOf(s) \in Nat
      BY <1>1, <2>2, Advances DEF PP!CreateAdvance
    <3>2. RecordMovement(info[s].user, PP!AdvanceOf(s))
      BY <2>2, BookMoves DEF PP!CreateAdvance
    <3> QED BY <3>1, <3>2 DEF PayoutMove
  <2> QED
    BY <1>4, <2>1, <2>2
       DEF PP!JobStep, PP!StartRun, PP!FetchPage, PP!VisitSale, PP!SkipSale, PP!SendPayout,
           PP!FetchPayouts, PP!SettlePayout, PP!SkipPayout, PP!AbortRun, PP!JobOnly, PP!tables
<1> QED BY <1>2, <1>3, <1>4 DEF PP!PayoutsNext
-----------------------------------------------------------------------------
(* The invariants of both components                                       *)

\* Each component's inductive invariant, and what takenBack counts.
Parts ==
    /\ WP!IInv /\ WP!Positive
    /\ PP!Books
    /\ takenBack \in [Users -> Nat]

\* How a step of the system moves money: nothing, the debit of a request, a
\* credit, or the debit of a rejection.
Moves ==
    \/ UNCHANGED <<accounts, takenBack>>
    \/ \E s \in Workers : WP!Draws(s) /\ UNCHANGED takenBack
    \/ \E u \in Users, amount \in Nat : RecordMovement(u, amount) /\ UNCHANGED takenBack
    \/ \E u \in Users, amount \in Nat :
        /\ RecordMovement(u, -amount)
        /\ takenBack' = [takenBack EXCEPT ![u] = @ + amount]
        /\ UNCHANGED withdrawalState

\* Sales and payouts start as they do alone.
LEMMA PayoutsStart == SystemInit => PP!PayoutsInit
BY DEF SystemInit, P!PayoutsInit, PP!PayoutsInit, P!NothingBooked, PP!NothingBooked,
       P!Waiting, PP!Waiting, P!Resting, PP!Resting, P!NoAnswers, PP!NoAnswers

\* Both components start sound.
LEMMA PartsInit == SystemInit => Parts
<1> SUFFICES ASSUME SystemInit PROVE Parts
  OBVIOUS
<1>1. WP!Init
  BY DEF SystemInit, W!Init, WP!Init, W!Idle, WP!Idle
<1>2. PP!PayoutsInit
  BY PayoutsStart
<1>3. WP!IInv /\ PP!Books
  BY <1>1, <1>2, ComponentConstants, WP!InitSafe, PP!BooksInit
<1>4. WP!Positive
  BY <1>1 DEF WP!Init, WP!Positive, WP!RequestsPositive, WP!DetailsPositive, WP!Exists, WP!Idle
<1>5. takenBack \in [Users -> Nat]
  BY DEF SystemInit
<1> QED BY <1>3, <1>4, <1>5 DEF Parts

\* Every step of the system is a movement of one account, or none.
LEMMA SystemMoves ==
    ASSUME Parts, [SystemNext]_systemVars
    PROVE  Moves
<1>1. CASE WithdrawalsMove
  <2>1. \/ UNCHANGED WP!accounts
        \/ \E s \in Workers : WP!Draws(s)
        \/ \E u \in Users, amount \in Nat : WP!RecordMovement(u, amount)
    BY <1>1, ComponentConstants, WP!MoneyMoves DEF WithdrawalsMove, Parts
  <2> QED
    BY <1>1, <2>1, SameAccounts DEF WithdrawalsMove, Moves, WP!accounts, accounts
<1>2. CASE PayoutsMove
  <2>1. PayoutMove
    BY <1>2, PayoutMoves DEF PayoutsMove, Parts
  <2>2. /\ takenBack \in [Users -> Nat] /\ UNCHANGED withdrawalState
        /\ takenBack' = [u \in Users |-> takenBack[u] + TakenFrom(u)]
    BY <1>2 DEF PayoutsMove, Parts
  <2>3. ASSUME NothingTaken PROVE takenBack' = takenBack
    BY <2>2, <2>3 DEF NothingTaken
  <2>4. ASSUME NEW u \in Users, NEW amount \in Nat,
               \A v \in Users : TakenFrom(v) = IF v = u THEN amount ELSE 0
        PROVE  takenBack' = [takenBack EXCEPT ![u] = @ + amount]
    <3>1. \A v \in Users : takenBack'[v] = IF v = u THEN takenBack[u] + amount ELSE takenBack[v]
      BY <2>2, <2>4
    <3>2. takenBack' = [v \in Users |-> takenBack'[v]]
      BY <2>2
    <3> QED BY <2>2, <3>1, <3>2
  <2> QED BY <2>1, <2>2, <2>3, <2>4 DEF PayoutMove, Moves
<1> QED BY <1>1, <1>2, OneMoves

\* A component that does not move keeps its invariant, because a movement of
\* the other one leaves the accounts as it expects them.
LEMMA PartsNext ==
    ASSUME Parts, [SystemNext]_systemVars
    PROVE  Parts'
<1>1. AccountsTypeOK /\ CacheNeverBelowLedger
  BY SameAccounts
     DEF Parts, WP!IInv, WP!TypeOK, WP!CacheNeverBelowLedger, CacheNeverBelowLedger
<1>2. Moves
  BY SystemMoves
<1>3. takenBack' \in [Users -> Nat]
  BY <1>2 DEF Moves, Parts
<1>4. CASE WithdrawalsMove
  <2>1. WP!IInv' /\ WP!Positive'
    BY <1>4, ComponentConstants, WP!NextSafe, WP!PositiveNext DEF WithdrawalsMove, Parts
  <2>2. PP!AccountsTypeOK'
    BY <2>1 DEF WP!IInv, WP!TypeOK, WP!AccountsTypeOK, PP!AccountsTypeOK
  <2>3. PP!Books'
    BY <1>4, <2>2
       DEF WithdrawalsMove, payoutState, Parts, PP!Books, PP!PayoutsTypeOK, PP!SaleSound,
           PP!JobSound, PP!AdvanceMade, PP!AdvanceOf
  <2> QED BY <1>3, <2>1, <2>3 DEF Parts
<1>5. CASE PayoutsMove
  <2>1. PP!Books'
    BY <1>5, ComponentConstants, PP!BooksNext DEF PayoutsMove, Parts
  <2>2. PayoutMove
    BY <1>5, PayoutMoves DEF PayoutsMove, Parts
  <2>3. AccountsTypeOK' /\ CacheNeverBelowLedger'
    BY <1>1, <2>2
       DEF PayoutMove, accounts, AccountsTypeOK, CacheNeverBelowLedger, RecordMovement,
           CreateEntry, UpdateBalance, Clamp
  <2>4. WP!AccountsTypeOK' /\ WP!CacheNeverBelowLedger'
    BY <2>3 DEF WP!AccountsTypeOK, AccountsTypeOK, WP!CacheNeverBelowLedger,
                CacheNeverBelowLedger
  <2>5. WP!IInv' /\ WP!Positive'
    BY <1>5, <2>4
       DEF PayoutsMove, withdrawalState, Parts, WP!IInv, WP!TypeOK, WP!TaskTypeOK, WP!RowsSound,
           WP!SnapshotsHold, WP!SettledExactlyOnce, WP!Exists, WP!Positive,
           WP!RequestsPositive, WP!DetailsPositive
  <2> QED BY <1>3, <2>1, <2>5 DEF Parts
<1> QED BY <1>4, <1>5, OneMoves

\* Both components stay sound in the composed system.
LEMMA PartsAlways == SystemSpec => []Parts
BY PartsInit, PartsNext, PTL DEF SystemSpec
-----------------------------------------------------------------------------
(* The theorems                                                            *)

\* Each component keeps what it promises although the other one writes the
\* same accounts in between: withdrawals are settled exactly once, snapshots
\* vouch for what was validated, an advance is credited once.
THEOREM ComponentsKeep ==
    SystemSpec =>
        [](/\ WP!SettledExactlyOnce
           /\ WP!SnapshotsHold
           /\ PP!AdvanceCreditedOnce
           /\ CacheNeverBelowLedger)
<1>1. Parts => /\ WP!SettledExactlyOnce
               /\ WP!SnapshotsHold
               /\ PP!AdvanceCreditedOnce
               /\ CacheNeverBelowLedger
  BY DEF Parts, WP!IInv, WP!CacheNeverBelowLedger, CacheNeverBelowLedger, PP!Books,
         PP!SaleSound, PP!AdvanceCreditedOnce
<1> QED BY <1>1, PartsAlways, PTL

\* No step brings a cached balance closer to the ledger.
NoStepRepairs ==
    [][\A u \in Users : available'[u] - ledgerSum'[u] >= available[u] - ledgerSum[u]]_accounts

\* Why the balance does not follow the ledger (BalanceFollowsLedger is refuted):
\* the clamp rounds up, every service moves both by the same amount, no job
\* reconciles balances, and the recalculation that a detected drift triggers is
\* rolled back.  This holds for every instance and is no promise of the program:
\* its comments say that drift is corrected.
THEOREM NothingRepairsDrift == SystemSpec => NoStepRepairs
<1> DEFINE A == \A u \in Users : available'[u] - ledgerSum'[u] >= available[u] - ledgerSum[u]
<1>1. Parts /\ [SystemNext]_systemVars => [A]_accounts
  <2> SUFFICES ASSUME Parts, [SystemNext]_systemVars PROVE [A]_accounts
    OBVIOUS
  <2>1. AccountsTypeOK
    BY SameAccounts DEF Parts, WP!IInv, WP!TypeOK
  <2>2. ASSUME NEW u \in Users, NEW amount \in Int, RecordMovement(u, amount) PROVE A
    BY <2>1, <2>2 DEF AccountsTypeOK, RecordMovement, CreateEntry, UpdateBalance, Clamp
  <2>3. ASSUME NEW s \in Workers, WP!Draws(s) PROVE A
    <3>1. task[s].request.user \in Users /\ task[s].request.amount \in Int
      BY <2>3, SystemConstants DEF WP!Draws, WP!Request, SystemConstants
    <3>2. RecordMovement(task[s].request.user, -task[s].request.amount)
      BY <2>3, SameAccounts DEF WP!Draws
    <3> QED BY <2>2, <3>1, <3>2
  <2>4. ASSUME NEW u \in Users, NEW amount \in Nat, RecordMovement(u, -amount) PROVE A
    BY <2>2, <2>4
  <2> QED BY <2>2, <2>3, <2>4, SystemMoves DEF Moves
<1> QED BY <1>1, PartsAlways, PTL DEF SystemSpec, NoStepRepairs
-----------------------------------------------------------------------------
(* The sums                                                                *)

\* W and WP, P and PP mean the same sums.
LEMMA SameSums ==
    /\ \A u : W!HeldFrom(u) = WP!HeldFrom(u)
    /\ \A u : P!Brought(u) = PP!Brought(u)
    /\ \A u : P!Granted(u) = PP!Granted(u)
<1>1. \A u : W!HeldFrom(u) = WP!HeldFrom(u)
  BY DEF W!HeldFrom, WP!HeldFrom, W!Held, WP!Held, W!Exists, WP!Exists, W!Live, WP!Live,
         W!WithdrawalStatuses, WP!WithdrawalStatuses, W!Reversed, WP!Reversed,
         W!SumFunctionOnSet, WP!SumFunctionOnSet, W!FoldFunctionOnSet, WP!FoldFunctionOnSet,
         W!MapThenFoldSet, WP!MapThenFoldSet
<1>2. \A u : P!Brought(u) = PP!Brought(u)
  BY DEF P!Brought, PP!Brought, P!Credit, PP!Credit,
         P!SumFunctionOnSet, PP!SumFunctionOnSet, P!FoldFunctionOnSet, PP!FoldFunctionOnSet,
         P!MapThenFoldSet, PP!MapThenFoldSet
<1>3. \A u : P!Granted(u) = PP!Granted(u)
  BY DEF P!Granted, PP!Granted,
         P!SumFunctionOnSet, PP!SumFunctionOnSet, P!FoldFunctionOnSet, PP!FoldFunctionOnSet,
         P!MapThenFoldSet, PP!MapThenFoldSet
<1> QED BY <1>1, <1>2, <1>3

\* The same after a step.
LEMMA SameSumsNext == \A u : P!Brought(u)' = PP!Brought(u)'
<1>1. (\A u : P!Brought(u) = PP!Brought(u))'
  BY SameSums, PTL
<1> QED BY <1>1

\* The books of the system, and finitely many withdrawals to sum up.
Sums ==
    /\ WP!FiniteRows
    /\ \A u \in Users : ledgerSum[u] = PP!Brought(u) - WP!HeldFrom(u)

\* Before the first sale nothing has been brought, and nobody has anything.
LEMMA NothingBrought ==
    SystemInit => \A u \in Users : ledgerSum[u] = 0 /\ PP!Brought(u) = 0
<1> SUFFICES ASSUME SystemInit
             PROVE  \A u \in Users : ledgerSum[u] = 0 /\ PP!Brought(u) = 0
  OBVIOUS
<1>1. \A s \in Sales : PP!Credit(s) = 0
  BY DEF SystemInit, P!PayoutsInit, P!NothingBooked, PP!Credit
<1>2. \A u \in Users : PP!Brought(u) = 0
  BY <1>1, ComponentConstants, PP!BroughtInit
<1>3. \A u \in Users : ledgerSum[u] = 0
  BY DEF SystemInit, P!PayoutsInit
<1> QED BY <1>2, <1>3

\* Before the first sale and the first withdrawal all sums are 0.
LEMMA SumsInit == SystemInit => Sums
<1> SUFFICES ASSUME SystemInit PROVE Sums
  OBVIOUS
<1>1. WP!Init
  BY DEF SystemInit, W!Init, WP!Init, W!Idle, WP!Idle
<1>2. WP!FiniteRows /\ \A u \in Users : WP!HeldFrom(u) = 0
  BY <1>1, ComponentConstants, WP!NothingHeld
<1>3. \A u \in Users : ledgerSum[u] = 0 /\ PP!Brought(u) = 0
  BY NothingBrought
<1> QED BY <1>2, <1>3 DEF Sums

\* Neither component's step moves the other one's sum, and its own moves with
\* the ledger.
LEMMA SumsNext ==
    ASSUME Parts, Sums, [SystemNext]_systemVars
    PROVE  Sums'
<1>1. Parts'
  BY PartsNext
<1>2. (\A u \in Users : ledgerSum[u] \in Int) /\ (\A u \in Users : ledgerSum'[u] \in Int)
  BY <1>1 DEF Parts, WP!IInv, WP!TypeOK, WP!AccountsTypeOK
<1>3. /\ \A u \in Users : PP!Brought(u) \in Nat
      /\ \A u \in Users : PP!Brought(u)' \in Nat
  BY <1>1, ComponentConstants, PP!BroughtNat, PP!BroughtNatNext DEF Parts
<1>4. WP!FiniteRows'
  <2>1. CASE WithdrawalsMove
    BY <2>1, ComponentConstants, WP!FiniteRowsNext DEF WithdrawalsMove, Parts, Sums
  <2>2. CASE PayoutsMove
    BY <2>2 DEF PayoutsMove, withdrawalState, Sums, WP!FiniteRows, WP!Exists
  <2> QED BY <2>1, <2>2, OneMoves
<1>5. /\ \A u \in Users : WP!HeldFrom(u) \in Int
      /\ \A u \in Users : WP!HeldFrom(u)' \in Int
  <2>1. WP!ConstantsAssumption /\ WP!ConstantsAssumption'
    BY ComponentConstants DEF WP!ConstantsAssumption, NoOpening
  <2> QED BY <1>1, <1>4, <2>1, WP!HeldFromInt, WP!HeldFromIntNext DEF Parts, Sums
<1>6. ASSUME NEW u \in Users
      PROVE  ledgerSum'[u] = PP!Brought(u)' - WP!HeldFrom(u)'
  <2>1. ledgerSum[u] = PP!Brought(u) - WP!HeldFrom(u)
    BY DEF Sums
  <2>2. CASE WithdrawalsMove
    <3>1. ledgerSum'[u] + WP!HeldFrom(u)' = ledgerSum[u] + WP!HeldFrom(u)
      BY <2>2, ComponentConstants, WP!HeldMoves DEF WithdrawalsMove, Parts, Sums
    <3>2. PP!Brought(u)' = PP!Brought(u)
      BY <2>2 DEF WithdrawalsMove, payoutState, PP!Brought, PP!Credit
    <3> QED BY <1>2, <1>3, <1>5, <2>1, <3>1, <3>2
  <2>3. CASE PayoutsMove
    <3>1. ledgerSum'[u] - PP!Brought(u)' = ledgerSum[u] - PP!Brought(u)
      BY <2>3, ComponentConstants, PP!BroughtMoves DEF PayoutsMove, Parts
    <3>2. WP!HeldFrom(u)' = WP!HeldFrom(u)
      BY <2>3 DEF PayoutsMove, withdrawalState, WP!HeldFrom, WP!Held, WP!Exists
    <3> QED BY <1>2, <1>3, <1>5, <2>1, <3>1, <3>2
  <2> QED BY <2>2, <2>3, OneMoves
<1> QED BY <1>4, <1>6 DEF Sums

\* No interleaving of the two components loses or invents money: a user's
\* ledger is what the sales have brought less what the withdrawals hold or
\* have paid out.
THEOREM SystemBalanced == SystemSpec => []SystemBooks
<1>1. Sums => SystemBooks
  BY SameSums DEF Sums, SystemBooks
<1>2. Parts /\ Sums /\ [SystemNext]_systemVars => Sums'
  BY SumsNext
<1> QED BY <1>1, <1>2, SumsInit, PartsAlways, PTL DEF SystemSpec
-----------------------------------------------------------------------------
(* The refinements, in the presence of the other component                 *)

\* The ledger and what the sales have brought are whole amounts.
LEMMA AmountsInt ==
    ASSUME Parts
    PROVE  /\ ledgerSum \in [Users -> Int]
           /\ \A u \in Users : ledgerSum[u] \in Int /\ PP!Brought(u) \in Int
BY ComponentConstants, PP!BroughtNat DEF Parts, WP!IInv, WP!TypeOK, WP!AccountsTypeOK

\* A step of the withdrawals is a step of the escrow over what is left of the
\* ledger without the sales.
LEMMA WithdrawalsEscrow ==
    ASSUME Parts, WithdrawalsMove
    PROVE  [Escrowed!Next]_(Escrowed!escrow)
<1>1. [WP!Abstract!Next]_(WP!Abstract!escrow)
  BY ComponentConstants, WP!EscrowStep DEF Parts, WP!Positive, WithdrawalsMove
<1>2. /\ \A u \in Users : P!Brought(u)' = P!Brought(u)
      /\ \A u \in Users : ledgerSum[u] \in Int /\ P!Brought(u) \in Int
  <2>1. \A u \in Users : P!Brought(u)' = P!Brought(u)
    BY DEF WithdrawalsMove, payoutState, P!Brought, P!Credit
  <2> QED BY <2>1, AmountsInt, SameSums
<1>3. /\ \A w : W!HoldOf(w) = WP!HoldOf(w) /\ W!StakeOf(w) = WP!StakeOf(w)
      /\ \A w : W!HoldOf(w)' = WP!HoldOf(w)' /\ W!StakeOf(w)' = WP!StakeOf(w)'
  BY DEF W!HoldOf, WP!HoldOf, W!StakeOf, WP!StakeOf, W!Exists, WP!Exists
<1> DEFINE hold == [w \in Wids |-> W!HoldOf(w)]
           stake == [w \in Wids |-> W!StakeOf(w)]
           book == [u \in Users |-> ledgerSum[u] - P!Brought(u)]
<1>4. /\ hold = [w \in Wids |-> WP!HoldOf(w)] /\ hold' = [w \in Wids |-> WP!HoldOf(w)]'
      /\ stake = [w \in Wids |-> WP!StakeOf(w)] /\ stake' = [w \in Wids |-> WP!StakeOf(w)]'
  BY <1>3
<1>5. ASSUME NEW u, NEW amount \in Int, ledgerSum' = [ledgerSum EXCEPT ![u] = @ + amount]
      PROVE  book' = [book EXCEPT ![u] = @ + amount]
  <2>1. \A v \in Users :
            book'[v] = IF v = u THEN book[v] + amount ELSE book[v]
    BY <1>2, <1>5, AmountsInt
  <2> QED BY <2>1
<1>6. ASSUME ledgerSum' = ledgerSum PROVE book' = book
  BY <1>2, <1>6
<1> HIDE DEF hold, stake, book
<1>7. ASSUME NEW w \in Wids, NEW u \in Users, NEW amount \in Amounts, amount > 0,
             WP!Abstract!SetAside(w, u, amount)
      PROVE  Escrowed!Next
  <2>1. amount \in Int /\ -amount \in Int
    BY SystemConstants DEF SystemConstants
  <2>2. ledgerSum' = [ledgerSum EXCEPT ![u] = @ + (-amount)]
    BY <1>7, <2>1, AmountsInt DEF WP!Abstract!SetAside
  <2>3. book' = [book EXCEPT ![u] = @ + (-amount)]
    BY <1>5, <2>1, <2>2
  <2>4. book' = [book EXCEPT ![u] = @ - amount]
    <3>1. book[u] + (-amount) = book[u] - amount
      BY <1>2, <2>1 DEF book
    <3> QED BY <2>3, <3>1
  <2>5. Escrowed!SetAside(w, u, amount)
    BY <1>4, <1>7, <2>4 DEF WP!Abstract!SetAside, Escrowed!SetAside, hold, stake, book
  <2> QED BY <1>7, <2>5 DEF Escrowed!Next
<1>8. ASSUME NEW w \in Wids, WP!Abstract!PayOut(w)
      PROVE  Escrowed!Next
  <2>1. Escrowed!PayOut(w)
    BY <1>4, <1>6, <1>8 DEF WP!Abstract!PayOut, Escrowed!PayOut, hold, stake, book
  <2> QED BY <2>1 DEF Escrowed!Next
<1>9. ASSUME NEW w \in Wids, WP!Abstract!GiveBack(w)
      PROVE  Escrowed!Next
  <2>1. /\ stake[w].amount \in Int
        /\ ledgerSum' = [ledgerSum EXCEPT ![stake[w].user] = @ + stake[w].amount]
    <3>1. WP!Exists(w)
      BY <1>9 DEF WP!Abstract!GiveBack, WP!HoldOf, WP!Exists
    <3>2. details[w].amount \in Int
      BY <3>1, SystemConstants DEF Parts, WP!IInv, WP!RowsSound, SystemConstants, WP!Request
    <3>3. stake[w] = WP!StakeOf(w) /\ WP!StakeOf(w).amount = details[w].amount
      BY <1>4, <3>1 DEF WP!StakeOf
    <3> QED BY <1>9, <3>2, <3>3 DEF WP!Abstract!GiveBack
  <2>2. book' = [book EXCEPT ![stake[w].user] = @ + stake[w].amount]
    BY <1>5, <2>1
  <2>3. Escrowed!GiveBack(w)
    BY <1>4, <1>9, <2>2 DEF WP!Abstract!GiveBack, Escrowed!GiveBack, hold, stake, book
  <2> QED BY <2>3 DEF Escrowed!Next
<1>10. CASE UNCHANGED WP!Abstract!escrow
  BY <1>4, <1>6, <1>10 DEF WP!Abstract!escrow, Escrowed!escrow, hold, stake, book
<1> QED BY <1>1, <1>7, <1>8, <1>9, <1>10 DEF WP!Abstract!Next

\* A step of sales and payouts moves the ledger and what the sales have
\* brought alike: the escrow does not notice it.
LEMMA PayoutsUnnoticed ==
    ASSUME Parts, PayoutsMove
    PROVE  UNCHANGED Escrowed!escrow
<1>1. \A u \in Users : (ledgerSum[u] - P!Brought(u))' = ledgerSum[u] - P!Brought(u)
  <2>1. \A u \in Users : ledgerSum'[u] - PP!Brought(u)' = ledgerSum[u] - PP!Brought(u)
    BY ComponentConstants, PP!BroughtMoves DEF Parts, PayoutsMove
  <2>2. \A u \in Users : P!Brought(u) = PP!Brought(u) /\ P!Brought(u)' = PP!Brought(u)'
    BY SameSums, SameSumsNext
  <2> QED BY <2>1, <2>2
<1>2. \A w : W!HoldOf(w)' = W!HoldOf(w) /\ W!StakeOf(w)' = W!StakeOf(w)
  BY DEF PayoutsMove, withdrawalState, W!HoldOf, W!StakeOf, W!Exists
<1> QED BY <1>1, <1>2 DEF Escrowed!escrow

\* In the composed system the withdrawals are still an escrow: what is left of
\* the ledger without the sales moves only when money is set aside or given
\* back, once per withdrawal, whatever advances and reconciliations come
\* between the steps of a withdrawal.
THEOREM EscrowInSystem == SystemSpec => WithdrawalsStayEscrow
<1>1. SystemInit => Escrowed!Init
  <2> SUFFICES ASSUME SystemInit PROVE Escrowed!Init
    OBVIOUS
  <2>1. \A w \in Wids : W!HoldOf(w) = "none" /\ W!StakeOf(w) = None
    BY DEF SystemInit, W!Init, W!HoldOf, W!StakeOf, W!Exists
  <2>2. \A u \in Users : ledgerSum[u] - P!Brought(u) = 0
    <3>1. \A u \in Users : ledgerSum[u] = 0 /\ PP!Brought(u) = 0
      BY NothingBrought
    <3>2. \A u \in Users : P!Brought(u) = 0
      BY <3>1, SameSums
    <3>3. ASSUME NEW u \in Users PROVE ledgerSum[u] - P!Brought(u) = 0
      <4>1. ledgerSum[u] = 0 /\ P!Brought(u) = 0
        BY <3>1, <3>2
      <4> QED BY <4>1
    <3> QED BY <3>3
  <2> QED BY <2>1, <2>2 DEF Escrowed!Init, NoOpening
<1>2. Parts /\ [SystemNext]_systemVars => [Escrowed!Next]_(Escrowed!escrow)
  BY WithdrawalsEscrow, PayoutsUnnoticed, OneMoves
<1> QED
  BY <1>1, <1>2, PartsAlways, PTL DEF SystemSpec, WithdrawalsStayEscrow, Escrowed!Spec

\* What is known of the gateway and on its way there, in the system.
LEMMA GatewayKnowledgeNext ==
    ASSUME GatewayKeeps, Parts, PP!Truth, PP!Credited, [SystemNext]_systemVars
    PROVE  PP!Truth' /\ PP!Credited'
<1>1. CASE WithdrawalsMove
  BY <1>1 DEF WithdrawalsMove, payoutState, PP!Truth, PP!GatewaySound, PP!AnswerKept, PP!Credited
<1>2. CASE PayoutsMove
  BY <1>2, ComponentConstants, PP!TruthNext, PP!CreditedNext DEF PayoutsMove, Parts
<1> QED BY <1>1, <1>2, OneMoves

\* P and PP mean the same disbursement.
LEMMA SameDisbursement ==
    /\ PP!Abstract!Init => P!Abstract!Init
    /\ [PP!Abstract!Next]_(PP!Abstract!disbursement) => [P!Abstract!Next]_(P!Abstract!disbursement)
BY DEF PP!Abstract!Init, P!Abstract!Init, PP!Abstract!Next, P!Abstract!Next,
       PP!Abstract!disbursement, P!Abstract!disbursement, PP!Abstract!Grant, P!Abstract!Grant,
       PP!Abstract!Pay, P!Abstract!Pay, PP!Abstract!Refuse, P!Abstract!Refuse,
       PP!Abstract!Report, P!Abstract!Report, PP!StageOf, P!StageOf, PP!VerdictOn, P!VerdictOn,
       PP!AdvanceAmount, P!AdvanceAmount

\* Drawing money while advances are credited, sent and settled makes none of
\* that happen twice or out of order, and what a settled payout says is what
\* happened at the gateway.
THEOREM DisbursementInSystem ==
    GatewayKeeps => (SystemSpec => P!ImplementsDisbursement /\ []PP!PayoutTellsTruth)
<1> SUFFICES ASSUME GatewayKeeps
             PROVE  SystemSpec => P!ImplementsDisbursement /\ []PP!PayoutTellsTruth
  OBVIOUS
<1>1. SystemInit => PP!Truth /\ PP!Credited /\ P!Abstract!Init
  <2> SUFFICES ASSUME SystemInit PROVE PP!Truth /\ PP!Credited /\ P!Abstract!Init
    OBVIOUS
  <2>1. PP!PayoutsInit
    BY PayoutsStart
  <2> QED BY <2>1, ComponentConstants, PP!DisbursementInit, SameDisbursement
<1>2. Parts /\ PP!Truth /\ PP!Credited /\ [SystemNext]_systemVars => PP!Truth' /\ PP!Credited'
  BY GatewayKnowledgeNext
<1>3. Parts /\ Parts' /\ PP!Truth /\ PP!Truth' /\ PP!Credited /\ [SystemNext]_systemVars
        => [P!Abstract!Next]_(P!Abstract!disbursement)
  <2> SUFFICES ASSUME Parts, Parts', PP!Truth, PP!Truth', PP!Credited, [SystemNext]_systemVars
               PROVE  [P!Abstract!Next]_(P!Abstract!disbursement)
    OBVIOUS
  <2>1. CASE WithdrawalsMove
    BY <2>1 DEF WithdrawalsMove, payoutState, P!Abstract!disbursement, P!StageOf, P!VerdictOn
  <2>2. CASE PayoutsMove
    BY <2>2, ComponentConstants, PP!DisbursementStep, SameDisbursement DEF PayoutsMove, Parts
  <2> QED BY <2>1, <2>2, OneMoves
<1>4. PP!Truth => PP!PayoutTellsTruth
  BY DEF PP!Truth, PP!GatewaySound, PP!PayoutTellsTruth, PP!PaidOnce
<1> QED
  BY <1>1, <1>2, <1>3, <1>4, PartsAlways, PTL
     DEF SystemSpec, P!ImplementsDisbursement, P!Abstract!Spec
-----------------------------------------------------------------------------
(* Records, steps, drift and cooldown, in the presence of the other        *)

\* Audit lines and keys are not touched by the other component.
LEMMA RecordsNext ==
    ASSUME Parts, WP!AuditReplaysStatus, WP!KeyUsedOnce, [SystemNext]_systemVars
    PROVE  WP!AuditReplaysStatus' /\ WP!KeyUsedOnce'
<1>1. CASE WithdrawalsMove
  BY <1>1, ComponentConstants, WP!AuditNext, WP!KeysNext DEF WithdrawalsMove, Parts
<1>2. CASE PayoutsMove
  BY <1>2 DEF PayoutsMove, withdrawalState, WP!AuditReplaysStatus, WP!KeyUsedOnce, WP!Exists
<1> QED BY <1>1, <1>2, OneMoves

\* The audit trail explains each status and keys stay unique, in the system.
THEOREM RecordsKept == SystemSpec => [](WP!AuditReplaysStatus /\ WP!KeyUsedOnce)
<1>1. SystemInit => WP!AuditReplaysStatus /\ WP!KeyUsedOnce
  BY DEF SystemInit, W!Init, WP!AuditReplaysStatus, WP!KeyUsedOnce, WP!Exists
<1>2. Parts /\ WP!AuditReplaysStatus /\ WP!KeyUsedOnce /\ [SystemNext]_systemVars
        => WP!AuditReplaysStatus' /\ WP!KeyUsedOnce'
  BY RecordsNext
<1> QED BY <1>1, <1>2, PartsAlways, PTL DEF SystemSpec

\* Statuses change along the state machine, and the step that reconciles a
\* sale leaves its user with the earnings or with nothing, although a
\* withdrawal may have drawn the advance in between.
THEOREM StepsKept == SystemSpec => WP!StatusFollowsMachine /\ PP!ReconciliationExact
<1>1. Parts /\ [SystemNext]_systemVars =>
        [\A w \in Wids :
            status'[w] # status[w] =>
                \/ status[w] = "NONE" /\ status'[w] = "PENDING"
                \/ WP!CanTransition(WP!WithdrawalTransitions, status[w], status'[w])]_status
  <2>1. CASE WithdrawalsMove
    BY <2>1, ComponentConstants, WP!StatusStep DEF WithdrawalsMove, Parts
  <2>2. CASE PayoutsMove
    BY <2>2 DEF PayoutsMove, withdrawalState
  <2> QED BY <2>1, <2>2, OneMoves
<1>2. Parts /\ [SystemNext]_systemVars =>
        [\A s \in Sales :
            sale'[s] # sale[s] /\ sale[s] = "PENDING"
                => (PP!Credit(s) = PP!Entitled(s))']_(PP!tables)
  <2>1. CASE WithdrawalsMove
    BY <2>1 DEF WithdrawalsMove, payoutState, PP!tables
  <2>2. CASE PayoutsMove
    BY <2>2, ComponentConstants, PP!ReconciliationStep DEF PayoutsMove, Parts
  <2> QED BY <2>1, <2>2, OneMoves
<1> QED
  BY <1>1, <1>2, PartsAlways, PTL
     DEF SystemSpec, WP!StatusFollowsMachine, PP!ReconciliationExact

\* Cache and ledger part only in a step that takes the ledger below zero: in
\* the system that may also be a rejection.
THEOREM DriftNeedsDebt == SystemSpec => WP!DriftStartsWithOverdraft
<1> DEFINE A == \A u \in Users : WP!Synced(u) /\ ~WP!Synced(u)' => ledgerSum'[u] < 0
<1>1. Parts /\ [SystemNext]_systemVars => [A]_(WP!accounts)
  <2> SUFFICES ASSUME Parts, [SystemNext]_systemVars PROVE [A]_(WP!accounts)
    OBVIOUS
  <2>1. AccountsTypeOK
    BY SameAccounts DEF Parts, WP!IInv, WP!TypeOK
  <2>2. ASSUME NEW u \in Users, NEW amount \in Int, RecordMovement(u, amount) PROVE A
    BY <2>1, <2>2
       DEF AccountsTypeOK, RecordMovement, CreateEntry, UpdateBalance, Clamp, WP!Synced
  <2>3. ASSUME NEW s \in Workers, WP!Draws(s) PROVE A
    <3>1. task[s].request.user \in Users /\ task[s].request.amount \in Int
      BY <2>3, SystemConstants DEF WP!Draws, WP!Request, SystemConstants
    <3>2. -task[s].request.amount \in Int
      BY <3>1
    <3>3. RecordMovement(task[s].request.user, -task[s].request.amount)
      BY <2>3, SameAccounts DEF WP!Draws
    <3> QED BY <2>2, <3>1, <3>2, <3>3
  <2>4. ASSUME NEW u \in Users, NEW amount \in Nat,
               RecordMovement(u, amount) \/ RecordMovement(u, -amount)
        PROVE A
    BY <2>2, <2>4
  <2>5. CASE UNCHANGED accounts
    BY <2>5 DEF accounts, WP!accounts
  <2> QED BY <2>3, <2>4, <2>5, SystemMoves DEF Moves
<1> QED BY <1>1, PartsAlways, PTL DEF SystemSpec, WP!DriftStartsWithOverdraft

\* Overlapping requests are the only way to a second live withdrawal inside the
\* window, whatever is credited or taken back in between.
THEOREM CooldownInSystem == SystemSpec => WP!CooldownNeedsRace
<1>1. SystemInit => WP!StillCooled
  BY DEF SystemInit, W!Init, W!Idle, WP!StillCooled, WP!NobodyTwice, WP!TwoInWindow, WP!Cooled
<1>2. WP!Apart /\ Parts /\ WP!StillCooled /\ [SystemNext]_systemVars => WP!StillCooled'
  <2> SUFFICES ASSUME WP!Apart, Parts, WP!StillCooled, [SystemNext]_systemVars
               PROVE  WP!StillCooled'
    OBVIOUS
  <2>1. CASE WithdrawalsMove
    BY <2>1, ComponentConstants, WP!StillCooledNext DEF WithdrawalsMove, Parts
  <2>2. CASE PayoutsMove
    BY <2>2 DEF PayoutsMove, withdrawalState, WP!StillCooled, WP!NobodyTwice, WP!TwoInWindow,
                WP!Cooled, WP!CoolingDown, WP!Exists, WP!Live
  <2> QED BY <2>1, <2>2, OneMoves
<1>3. WP!StillCooled => \A u \in Users : ~WP!TwoInWindow(u)
  BY DEF WP!StillCooled, WP!NobodyTwice
<1> QED BY <1>1, <1>2, <1>3, PartsAlways, PTL DEF SystemSpec, WP!CooldownNeedsRace
-----------------------------------------------------------------------------
(* Requests apart: debts                                                   *)

\* What the ledger holds for u, or would hold without rejections.
Backing(u) == ledgerSum[u] + takenBack[u]

\* A promise the balance check has made is still backed.  A rejection that
\* comes in between takes the money, but takenBack grows by as much.
Backed ==
    /\ ShortfallIsAdvances
    /\ \A s \in WP!Promised : Backing(task[s].request.user) >= task[s].request.amount

\* Requests come from where they do in Withdrawals alone.
LEMMA RequestOrigin ==
    ASSUME Parts, [SystemNext]_systemVars, NEW s \in Workers, s \in WP!Cooled'
    PROVE  WP!CameFrom(s)
<1>1. CASE WithdrawalsMove
  BY <1>1, ComponentConstants, WP!RequestComesFrom DEF WithdrawalsMove, Parts
<1>2. CASE PayoutsMove
  <2>1. task' = task
    BY <1>2 DEF PayoutsMove, withdrawalState
  <2> QED BY <2>1 DEF WP!CameFrom, WP!Cooled
<1> QED BY <1>1, <1>2, OneMoves

\* What the backing of an account does in a movement.
LEMMA BackingMoves ==
    ASSUME AccountsTypeOK, takenBack \in [Users -> Nat], ShortfallIsAdvances,
           NEW u \in Users, NEW amount \in Nat,
           \/ RecordMovement(u, amount) /\ UNCHANGED takenBack
           \/ RecordMovement(u, -amount) /\ takenBack' = [takenBack EXCEPT ![u] = @ + amount]
    PROVE  /\ ShortfallIsAdvances'
           /\ \A v \in Users : Backing(v)' >= Backing(v)
<1>1. ASSUME NEW v \in Users
      PROVE  /\ Backing(v)' >= Backing(v)
             /\ Backing(v)' >= 0 /\ available'[v] <= Backing(v)'
  <2>1. /\ ledgerSum[v] \in Int /\ available[v] \in Nat /\ takenBack[v] \in Nat
        /\ ledgerSum[v] + takenBack[v] >= 0 /\ available[v] <= ledgerSum[v] + takenBack[v]
    BY DEF AccountsTypeOK, ShortfallIsAdvances
  <2>2. CASE v # u
    BY <2>1, <2>2 DEF AccountsTypeOK, RecordMovement, CreateEntry, UpdateBalance, Backing
  <2>3. CASE v = u /\ RecordMovement(u, amount) /\ UNCHANGED takenBack
    BY <2>1, <2>3
       DEF AccountsTypeOK, RecordMovement, CreateEntry, UpdateBalance, Clamp, Backing
  <2>4. CASE /\ v = u /\ RecordMovement(u, -amount)
             /\ takenBack' = [takenBack EXCEPT ![u] = @ + amount]
    BY <2>1, <2>4
       DEF AccountsTypeOK, RecordMovement, CreateEntry, UpdateBalance, Clamp, Backing
  <2> QED BY <2>2, <2>3, <2>4
<1> QED BY <1>1 DEF ShortfallIsAdvances, Backing

\* While requests are apart, Backed is preserved, given the components.
LEMMA BackedNext ==
    ASSUME WP!Apart, Parts, Backed, [SystemNext]_systemVars
    PROVE  Backed'
<1>1. /\ AccountsTypeOK /\ takenBack \in [Users -> Nat] /\ ShortfallIsAdvances
      /\ Amounts \subseteq Int
  BY SameAccounts, SystemConstants DEF Parts, WP!IInv, WP!TypeOK, Backed, SystemConstants
<1>2. ASSUME NEW s \in Workers, s \in WP!Promised'
      PROVE  /\ WP!CameFrom(s) /\ task'[s].request = task[s].request
             /\ task[s].request.user \in Users /\ task[s].request.amount \in Int
             /\ Backing(task[s].request.user) >= task[s].request.amount
  <2> DEFINE r == task[s].request
  <2>1. WP!CameFrom(s)
    BY <1>2, RequestOrigin DEF WP!Promised, WP!Cooled
  <2>2. r \in WP!Request /\ task'[s].request = r
    <3>1. task[s] \in {WP!Idle} \cup WP!RequestTask \cup WP!ChangeTask
      BY DEF Parts, WP!IInv, WP!TypeOK, WP!TaskTypeOK
    <3> QED BY <2>1, <3>1, ComponentConstants, WP!RequestTaskStep DEF WP!CameFrom
  <2>3. r.user \in Users /\ r.amount \in Int
    BY <1>1, <2>2 DEF WP!Request
  <2>4. s \in WP!Promised \/ available[r.user] >= r.amount
    BY <1>2, <2>1 DEF WP!CameFrom, WP!Promised
  <2> HIDE DEF r
  <2>5. Backing(r.user) >= r.amount
    <3>1. CASE s \in WP!Promised
      BY <3>1 DEF Backed, r
    <3>2. CASE available[r.user] >= r.amount
      BY <1>1, <2>3, <3>2 DEF ShortfallIsAdvances, AccountsTypeOK, Backing
    <3> QED BY <2>4, <3>1, <3>2
  <2> QED BY <2>1, <2>2, <2>3, <2>5 DEF r
<1>3. \A v \in Users : ledgerSum'[v] \in Int /\ takenBack'[v] \in Int
  BY PartsNext DEF Parts, WP!IInv, WP!TypeOK, WP!AccountsTypeOK
<1>4. ASSUME ShortfallIsAdvances',
             \A s \in WP!Promised', u \in Users :
                u = task[s].request.user => Backing(u)' >= Backing(u)
      PROVE  Backed'
  <2> SUFFICES ASSUME NEW s \in Workers, s \in WP!Promised'
               PROVE  (Backing(task[s].request.user) >= task[s].request.amount)'
    BY <1>4 DEF Backed, WP!Promised
  <2> DEFINE r == task[s].request
  <2>1. /\ task'[s].request = r /\ r.user \in Users /\ r.amount \in Int
        /\ Backing(r.user) >= r.amount
    BY <1>2
  <2>2. \A u \in Users : u = r.user => Backing(u)' >= Backing(u)
    BY <1>4
  <2> HIDE DEF r
  <2>3. ledgerSum'[r.user] + takenBack'[r.user] >= Backing(r.user)
    BY <2>1, <2>2 DEF Backing
  <2>4. Backing(r.user) \in Int
    BY <1>1, <2>1 DEF Backing, AccountsTypeOK
  <2> QED BY <1>3, <2>1, <2>3, <2>4 DEF Backing
<1>5. CASE UNCHANGED <<accounts, takenBack>>
  <2>1. \A v \in Users : Backing(v)' = Backing(v) /\ Backing(v) \in Int
    BY <1>1, <1>5 DEF Backing, accounts, AccountsTypeOK
  <2>2. ShortfallIsAdvances'
    BY <1>1, <1>5 DEF ShortfallIsAdvances, accounts
  <2> QED BY <1>4, <2>1, <2>2
<1>6. ASSUME NEW s \in Workers, WP!Draws(s), UNCHANGED takenBack PROVE Backed'
  <2> DEFINE r == task[s].request
  <2>1. /\ r.user \in Users /\ r.amount \in Int /\ Backing(r.user) >= r.amount
        /\ RecordMovement(r.user, -r.amount)
    BY <1>1, <1>6, SameAccounts DEF WP!Draws, WP!Request, Backed, WP!Promised
  <2>2. ASSUME NEW t \in Workers, t \in WP!Promised' PROVE task[t].request.user # r.user
    <3>1. s \in WP!Cooled /\ task'[s] = WP!Idle
      BY <1>6 DEF WP!Draws, WP!Cooled
    <3> QED BY <1>2, <2>2, <3>1, ComponentConstants, WP!DrawsAlone DEF r
  <2> HIDE DEF r
  <2>3. r.amount > 0
    BY <1>6 DEF Parts, WP!Positive, WP!RequestsPositive, WP!Draws, r
  <2>4. ShortfallIsAdvances'
    BY <1>1, <1>6, <2>1, <2>3
       DEF ShortfallIsAdvances, Backing, AccountsTypeOK, RecordMovement, CreateEntry,
           UpdateBalance, Clamp
  <2>5. \A u \in Users \ {r.user} : Backing(u)' = Backing(u) /\ Backing(u) \in Int
    BY <1>1, <1>6, <2>1 DEF Backing, AccountsTypeOK, RecordMovement, CreateEntry
  <2> QED BY <1>4, <2>2, <2>4, <2>5 DEF WP!Promised
<1>7. ASSUME NEW u \in Users, NEW amount \in Nat,
             \/ RecordMovement(u, amount) /\ UNCHANGED takenBack
             \/ RecordMovement(u, -amount) /\ takenBack' = [takenBack EXCEPT ![u] = @ + amount]
      PROVE  Backed'
  BY <1>1, <1>4, <1>7, BackingMoves
<1> QED BY <1>5, <1>6, <1>7, SystemMoves DEF Moves

\* While no requests of one user overlap, a user lacks at most what rejections
\* have taken back, and the cache promises at most that much more than the ledger
\* holds, wherever other users' requests, rejections, advances, settlements, the
\* recovery job and restarts come between the checks of a request.
THEOREM DebtIsAdvances == SystemSpec => ([]WP!Apart => []ShortfallIsAdvances)
<1>1. SystemInit => Backed
  BY DEF SystemInit, W!Init, NoOpening, W!Idle, Backed, ShortfallIsAdvances, WP!Promised
<1>2. WP!Apart /\ Parts /\ Backed /\ [SystemNext]_systemVars => Backed'
  BY BackedNext
<1>3. Backed => ShortfallIsAdvances
  BY DEF Backed
<1> QED BY <1>1, <1>2, <1>3, PartsAlways, PTL DEF SystemSpec
-----------------------------------------------------------------------------
(* Requests apart: what was never there                                    *)

\* The sale whose adjustment a step of sales and payouts concerns, if any, and
\* what takenBack records of it.
LEMMA AdjustmentShape ==
    ASSUME PP!Books, PP!PayoutsNext
    PROVE  \/ /\ NothingTaken /\ UNCHANGED info
              /\ \A t \in Sales : entries'[t].adjustment = entries[t].adjustment
           \/ \E s \in Sales :
                /\ NothingTaken /\ UNCHANGED entries
                /\ entries[s].adjustment = 0
                /\ \A t \in Sales \ {s} : info'[t] = info[t]
           \/ \E s \in Sales :
                /\ UNCHANGED info
                /\ \A v \in Users :
                        TakenFrom(v) = IF v = info[s].user THEN PP!AdvanceMade(s) ELSE 0
                /\ entries'[s].adjustment = entries[s].adjustment + (-PP!AdvanceMade(s))
                /\ \A t \in Sales \ {s} : entries'[t].adjustment = entries[t].adjustment
<1> DEFINE Quiet == /\ NothingTaken /\ UNCHANGED info
                    /\ \A t \in Sales : entries'[t].adjustment = entries[t].adjustment
           Rejected(s) ==
                /\ UNCHANGED info
                /\ \A v \in Users :
                        TakenFrom(v) = IF v = info[s].user THEN PP!AdvanceMade(s) ELSE 0
                /\ entries'[s].adjustment = entries[s].adjustment + (-PP!AdvanceMade(s))
                /\ \A t \in Sales \ {s} : entries'[t].adjustment = entries[t].adjustment
<1>1. ASSUME UNCHANGED sale PROVE NothingTaken
  BY <1>1 DEF NothingTaken, TakenFrom, Rejects
<1>2. \A s \in Sales : entries[s].adjustment \in Int
  BY DEF PP!Books, PP!PayoutsTypeOK
<1>3. ASSUME NEW s \in Sales, NEW type \in {"advance", "final"}, NEW amount \in Int,
             PP!Book(s, type, amount)
      PROVE  \A t \in Sales : entries'[t].adjustment = entries[t].adjustment
  <2>1. /\ entries'[s].adjustment = entries[s].adjustment + 0
        /\ \A t \in Sales \ {s} : entries'[t] = entries[t]
    BY <1>3, ComponentConstants, PP!BookAdjusts
  <2> QED BY <1>2, <2>1
<1>4. ASSUME NEW s \in Sales, NEW u \in Users, NEW earnings \in Earnings,
             PP!CreateSale(s, u, earnings)
      PROVE  /\ NothingTaken /\ UNCHANGED entries
             /\ entries[s].adjustment = 0
             /\ \A t \in Sales \ {s} : info'[t] = info[t]
  <2>1. \A t \in Sales : ~Rejects(t)
    BY <1>4, Advances DEF PP!CreateSale, PP!PayoutsTypeOK, Rejects
  <2>2. NothingTaken
    BY <2>1 DEF NothingTaken, TakenFrom
  <2>3. entries[s].adjustment = 0
    BY <1>4 DEF PP!CreateSale, PP!Books, PP!SaleSound
  <2>4. UNCHANGED entries /\ \A t \in Sales \ {s} : info'[t] = info[t]
    BY <1>4, Advances DEF PP!CreateSale, PP!PayoutsTypeOK
  <2> QED BY <2>2, <2>3, <2>4
<1>5. ASSUME NEW a \in Admins, PP!ReconcileSale(a)
      PROVE  Quiet \/ \E s \in Sales : Rejected(s)
  <2>1. PICK s \in Sales :
          /\ sale[s] = "PENDING" /\ UNCHANGED info
          /\ \/ PP!Approve(s) /\ NothingTaken
             \/ /\ PP!Reject(s)
                /\ \A v \in Users :
                      TakenFrom(v) = IF v = info[s].user THEN PP!AdvanceMade(s) ELSE 0
    BY <1>5, ReconciliationShape
  <2>2. /\ info[s].earnings - PP!AdvanceMade(s) \in Int
        /\ PP!AdvanceMade(s) \in Nat /\ -PP!AdvanceMade(s) \in Int
    BY Advances
  <2>3. CASE PP!Approve(s) /\ NothingTaken
    <3>1. CASE UNCHANGED entries
      BY <2>1, <2>3, <3>1
    <3>2. CASE PP!Book(s, "final", info[s].earnings - PP!AdvanceMade(s))
      BY <1>3, <2>1, <2>2, <2>3, <3>2
    <3> QED BY <2>3, <3>1, <3>2 DEF PP!Approve
  <2>4. CASE /\ PP!Reject(s)
             /\ \A v \in Users :
                    TakenFrom(v) = IF v = info[s].user THEN PP!AdvanceMade(s) ELSE 0
    <3>1. /\ entries'[s].adjustment = entries[s].adjustment + (-PP!AdvanceMade(s))
          /\ \A t \in Sales \ {s} : entries'[t].adjustment = entries[t].adjustment
      <4>1. CASE PP!AdvanceMade(s) > 0
        <5>1. PP!Book(s, "adjustment", -PP!AdvanceMade(s))
          BY <2>4, <4>1 DEF PP!Reject, PP!Adjustment
        <5> QED BY <2>2, <5>1, ComponentConstants, PP!BookAdjusts
      <4>2. CASE PP!AdvanceMade(s) = 0 /\ UNCHANGED entries
        BY <1>2, <4>2
      <4> QED BY <2>2, <2>4, <4>1, <4>2 DEF PP!Reject
    <3> QED BY <2>1, <2>4, <3>1
  <2> QED BY <2>1, <2>3, <2>4
<1>6. ASSUME NEW a \in Admins, PP!AdminStep(a)
      PROVE  Quiet \/ \E s \in Sales : Rejected(s)
  <2>1. CASE UNCHANGED PP!tables
    BY <1>1, <2>1 DEF PP!tables
  <2> HIDE DEF Quiet, Rejected
  <2> QED BY <1>5, <1>6, <2>1 DEF PP!AdminStep, PP!LoadSale, PP!ReconcileFails
<1>7. ASSUME NEW j \in Jobs, PP!JobStep(j) PROVE Quiet
  <2>1. CASE UNCHANGED <<sale, info, entries>>
    BY <1>1, <2>1
  <2>2. ASSUME NEW s \in Sales, PP!CreateAdvance(j, s) PROVE Quiet
    <3>1. NothingTaken /\ UNCHANGED info
      BY <1>1, <2>2 DEF PP!CreateAdvance
    <3>2. PP!AdvanceOf(s) \in Int
      BY Advances
    <3>3. PP!Book(s, "advance", PP!AdvanceOf(s))
      BY <2>2 DEF PP!CreateAdvance
    <3> QED BY <1>3, <3>1, <3>2, <3>3
  <2> HIDE DEF Quiet
  <2> QED
    BY <1>7, <2>1, <2>2
       DEF PP!JobStep, PP!StartRun, PP!FetchPage, PP!VisitSale, PP!SkipSale, PP!SendPayout,
           PP!FetchPayouts, PP!SettlePayout, PP!SkipPayout, PP!AbortRun, PP!JobOnly, PP!tables
<1> HIDE DEF Quiet, Rejected
<1>8. \/ Quiet
      \/ \E s \in Sales : Rejected(s)
      \/ \E s \in Sales :
            /\ NothingTaken /\ UNCHANGED entries
            /\ entries[s].adjustment = 0
            /\ \A t \in Sales \ {s} : info'[t] = info[t]
  BY <1>4, <1>6, <1>7 DEF PP!PayoutsNext
<1> QED BY <1>8 DEF Quiet, Rejected

\* The history variable is what the NEGATIVE_ADJUSTMENT entries say.
Taken == \A u \in Users : takenBack[u] + PP!Adjusted(u) = 0

\* A rejection adds to takenBack what it books as an adjustment.
LEMMA TakenNext ==
    ASSUME Parts, Taken, [SystemNext]_systemVars
    PROVE  Taken'
<1>1. Parts'
  BY PartsNext
<1>2. PP!Books /\ PP!Books'
  BY <1>1 DEF Parts
<1>3. \A u \in Users : takenBack[u] \in Int /\ PP!Adjusted(u) \in Int
  BY ComponentConstants, PP!BroughtParts DEF Parts
<1>4. CASE WithdrawalsMove
  BY <1>4 DEF WithdrawalsMove, payoutState, Taken, PP!Adjusted
<1>5. ASSUME PayoutsMove, NEW u \in Users PROVE takenBack'[u] + PP!Adjusted(u)' = 0
  <2>1. takenBack'[u] = takenBack[u] + TakenFrom(u)
    BY <1>5 DEF PayoutsMove
  <2>2. takenBack[u] + PP!Adjusted(u) = 0
    BY DEF Taken
  <2>3. CASE /\ NothingTaken /\ UNCHANGED info
             /\ \A t \in Sales : entries'[t].adjustment = entries[t].adjustment
    <3>1. PP!Adjusted(u)' = PP!Adjusted(u)
      BY <2>3 DEF PP!Adjusted
    <3> QED BY <1>3, <2>1, <2>2, <2>3, <3>1 DEF NothingTaken
  <2>4. ASSUME NEW s \in Sales,
               NothingTaken, UNCHANGED entries, entries[s].adjustment = 0,
               \A t \in Sales \ {s} : info'[t] = info[t]
        PROVE  takenBack'[u] + PP!Adjusted(u)' = 0
    <3>1. PP!Adjusted(u)' = PP!Adjusted(u)
                - (IF info[s].user = u THEN entries[s].adjustment ELSE 0)
                + (IF info'[s].user = u THEN entries'[s].adjustment ELSE 0)
      BY <1>2, <2>4, ComponentConstants, PP!AdjustedMoves
    <3>2. PP!Adjusted(u)' = PP!Adjusted(u)
      BY <1>3, <2>4, <3>1
    <3> QED BY <1>3, <2>1, <2>2, <2>4, <3>2 DEF NothingTaken
  <2>5. ASSUME NEW s \in Sales,
               UNCHANGED info,
               \A v \in Users :
                    TakenFrom(v) = IF v = info[s].user THEN PP!AdvanceMade(s) ELSE 0,
               entries'[s].adjustment = entries[s].adjustment + (-PP!AdvanceMade(s)),
               \A t \in Sales \ {s} : entries'[t].adjustment = entries[t].adjustment
        PROVE  takenBack'[u] + PP!Adjusted(u)' = 0
    <3>1. PP!Adjusted(u)' = PP!Adjusted(u)
                - (IF info[s].user = u THEN entries[s].adjustment ELSE 0)
                + (IF info'[s].user = u THEN entries'[s].adjustment ELSE 0)
      BY <1>2, <2>5, ComponentConstants, PP!AdjustedMoves
    <3>2. PP!AdvanceMade(s) \in Nat /\ entries[s].adjustment \in Int
      BY <1>2, Advances DEF PP!PayoutsTypeOK
    <3>3. PP!Adjusted(u)' = PP!Adjusted(u) - TakenFrom(u)
      BY <1>3, <2>5, <3>1, <3>2
    <3>4. TakenFrom(u) \in Int
      BY <2>5, <3>2
    <3> QED BY <1>3, <2>1, <2>2, <3>3, <3>4
  <2> QED
    BY <1>2, <1>5, <2>3, <2>4, <2>5, AdjustmentShape DEF PayoutsMove
<1> QED BY <1>4, <1>5, OneMoves DEF Taken

\* While no requests of one user overlap, a user's withdrawals never hold or pay
\* out more than advances and final payouts have credited, wherever rejections
\* take money back between the checks and the commit of a request.
THEOREM DrawnIsGranted == SystemSpec => ([]WP!Apart => []DrawnWasGranted)
<1>1. SystemInit => Taken
  <2> SUFFICES ASSUME SystemInit, NEW u \in Users PROVE takenBack[u] + PP!Adjusted(u) = 0
    BY DEF Taken
  <2>1. \A s \in Sales : entries[s].adjustment = 0
    BY DEF SystemInit, P!PayoutsInit, P!NothingBooked
  <2>2. takenBack[u] = 0 /\ PP!Adjusted(u) = 0
    BY <2>1, ComponentConstants, PP!AdjustedInit DEF SystemInit
  <2> QED BY <2>2
<1>2. Parts /\ Taken /\ [SystemNext]_systemVars => Taken'
  BY TakenNext
<1>3. Parts /\ Sums /\ [SystemNext]_systemVars => Sums'
  BY SumsNext
<1>4. Parts /\ Sums /\ Taken /\ ShortfallIsAdvances => DrawnWasGranted
  <2> SUFFICES ASSUME Parts, Sums, Taken, ShortfallIsAdvances, NEW u \in Users
               PROVE  W!HeldFrom(u) <= P!Granted(u)
    BY DEF DrawnWasGranted
  <2>1. /\ PP!Brought(u) = PP!Granted(u) + PP!Adjusted(u)
        /\ PP!Granted(u) \in Int /\ PP!Adjusted(u) \in Int
    BY ComponentConstants, PP!BroughtParts DEF Parts
  <2>2. /\ ledgerSum[u] = PP!Brought(u) - WP!HeldFrom(u)
        /\ takenBack[u] + PP!Adjusted(u) = 0 /\ ledgerSum[u] + takenBack[u] >= 0
    BY DEF Sums, Taken, ShortfallIsAdvances
  <2>3. WP!HeldFrom(u) \in Int /\ takenBack[u] \in Int
    BY ComponentConstants, WP!HeldFromInt DEF Parts, Sums
  <2>4. W!HeldFrom(u) = WP!HeldFrom(u) /\ P!Granted(u) = PP!Granted(u)
    BY SameSums
  <2>5. WP!HeldFrom(u) <= PP!Granted(u)
    BY <2>1, <2>2, <2>3
  <2> QED BY <2>4, <2>5
<1> QED
  BY <1>1, <1>2, <1>3, <1>4, SumsInit, DebtIsAdvances, PartsAlways, PTL DEF SystemSpec
=============================================================================
