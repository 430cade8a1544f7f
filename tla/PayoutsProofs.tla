--------------------------- MODULE PayoutsProofs ---------------------------
(***************************************************************************)
(* Theorems about Payouts, for any users, sales, administrators, jobs,     *)
(* earnings and batch size.                                                *)
(***************************************************************************)
EXTENDS Payouts, SumProofs, TLAPS

\* What a sale has booked, in terms of its status and its advance.  The
\* advance may have come after the reconciliation, so a reconciled sale has
\* either deducted it or not.
SaleSound(s) ==
    /\ sale[s] = "NONE" => advance[s] = "NONE"
    /\ sale[s] # "NONE" => info[s].earnings \in Earnings
    /\ entries[s].advance = AdvanceMade(s)
    /\ entries[s].final # 0 => sale[s] = "APPROVED"
    /\ entries[s].adjustment # 0 => sale[s] = "REJECTED"
    /\ sale[s] = "APPROVED" =>
        \/ entries[s].final = info[s].earnings
        \/ entries[s].final = info[s].earnings - AdvanceOf(s) /\ advance[s] # "NONE"
    /\ sale[s] = "REJECTED" =>
        \/ entries[s].adjustment = 0
        \/ entries[s].adjustment = -AdvanceOf(s) /\ advance[s] # "NONE"

\* A job only has sales on its page that exist, and settles an answer it has.
JobSound(j) ==
    /\ \A s \in job[j].page : sale[s] # "NONE"
    /\ job[j].phase = "settle" => job[j].result # <<>>

\* The inductive invariant of the tables.
Books ==
    /\ PayoutsTypeOK
    /\ \A s \in Sales : SaleSound(s)
    /\ \A j \in Jobs : JobSound(j)
-----------------------------------------------------------------------------
\* An advance is a natural number and less than the earnings.
LEMMA AdvanceBounds ==
    ASSUME NEW e \in Nat
    PROVE  AdvanceAmount(e) \in Nat /\ (e > 0 => AdvanceAmount(e) < e)
<1>1. e = (10 * (e \div 10)) + (e % 10) /\ e % 10 \in 0 .. 9 /\ e \div 10 \in Nat
  OBVIOUS
<1>2. AdvanceAmount(e) \in {e \div 10, e \div 10 + 1}
  BY DEF AdvanceAmount
<1>3. AdvanceAmount(e) = e \div 10 + 1 => e % 10 >= 5
  BY <1>1 DEF AdvanceAmount
<1> QED BY <1>1, <1>2, <1>3

\* A booking keeps the types of the accounts.
LEMMA BookTypes ==
    ASSUME PayoutsTypeOK, NEW s \in Sales, NEW amount \in Int,
           RecordMovement(info[s].user, amount)
    PROVE  AccountsTypeOK'
<1>1. info[s].user \in Users
  BY DEF PayoutsTypeOK
<1> QED
  BY <1>1 DEF PayoutsTypeOK, AccountsTypeOK, RecordMovement, CreateEntry, UpdateBalance, Clamp

\* The initial state has sound books.
LEMMA BooksInit == PayoutsInit => Books
<1> SUFFICES ASSUME PayoutsInit PROVE Books
  OBVIOUS
<1> USE DEF PayoutsInit
<1>1. (CHOOSE u \in Users : TRUE) \in Users
  BY PayoutConstants DEF PayoutConstants
<1>2. Resting \in JobState
  BY DEF Resting, JobState
<1>3. AccountsTypeOK
  BY DEF AccountsTypeOK
<1>4. PayoutsTypeOK
  <2>1. sale \in [Sales -> {"NONE", "PENDING", "APPROVED", "REJECTED"}]
    OBVIOUS
  <2>2. info \in [Sales -> [user : Users, earnings : Earnings \cup {0}]]
    BY <1>1
  <2>3. /\ advance \in [Sales -> {"NONE", "PENDING", "COMPLETED", "FAILED"}]
        /\ final \in [Sales -> {"NONE", "PENDING"}]
    OBVIOUS
  <2>4. /\ entries \in [Sales -> [advance : Nat, final : Nat, adjustment : Int]]
        /\ \A s \in Sales : entries[s].adjustment <= 0
    BY DEF NothingBooked
  <2>5. admin \in [Admins -> {Waiting} \cup
            [step : {"reconcile"}, sale : Sales, decision : {"APPROVED", "REJECTED"}]]
    OBVIOUS
  <2>6. job \in [Jobs -> JobState]
    BY <1>2
  <2>7. answers \in [Jobs -> [Sales -> {"none", "paid", "refused"}]] /\ transfers \in [Sales -> Nat]
    BY DEF NoAnswers
  <2> QED BY <1>3, <2>1, <2>2, <2>3, <2>4, <2>5, <2>6, <2>7 DEF PayoutsTypeOK
<1>5. \A s \in Sales : SaleSound(s)
  BY DEF SaleSound, AdvanceMade, NothingBooked
<1>6. \A j \in Jobs : JobSound(j)
  BY DEF JobSound, Resting
<1> QED BY <1>4, <1>5, <1>6 DEF Books
-----------------------------------------------------------------------------
(* Steps that only move a job                                              *)

\* A job that moves on, keeping its page among existing sales, disturbs
\* nothing.
LEMMA JobMoves ==
    ASSUME Books, NEW j \in Jobs, NEW state \in JobState,
           \A s \in state.page : sale[s] # "NONE",
           state.phase = "settle" => state.result # <<>>,
           job' = [job EXCEPT ![j] = state],
           UNCHANGED <<accounts, tables, admin>>,
           answers' \in [Jobs -> [Sales -> {"none", "paid", "refused"}]],
           transfers' \in [Sales -> Nat]
    PROVE  Books'
<1> USE DEF Books, tables
<1>1. job' \in [Jobs -> JobState]
  BY DEF PayoutsTypeOK
<1>2. PayoutsTypeOK'
  BY <1>1 DEF PayoutsTypeOK, AccountsTypeOK, accounts
<1>3. ASSUME NEW s \in Sales PROVE SaleSound(s)'
  BY DEF SaleSound, AdvanceMade, AdvanceOf
<1>4. ASSUME NEW k \in Jobs PROVE JobSound(k)'
  <2>1. CASE k = j
    BY <2>1 DEF JobSound, PayoutsTypeOK
  <2>2. CASE k # j
    BY <2>2 DEF JobSound, PayoutsTypeOK
  <2> QED BY <2>1, <2>2
<1> QED BY <1>2, <1>3, <1>4

\* The same for JobOnly.
LEMMA JobOnlySafe ==
    ASSUME Books, NEW j \in Jobs, NEW state \in JobState,
           \A s \in state.page : sale[s] # "NONE",
           state.phase = "settle" => state.result # <<>>,
           JobOnly(j, state)
    PROVE  Books'
<1>1. UNCHANGED <<accounts, tables, admin>> /\ job' = [job EXCEPT ![j] = state]
  BY DEF JobOnly
<1>2. answers' \in [Jobs -> [Sales -> {"none", "paid", "refused"}]] /\ transfers' \in [Sales -> Nat]
  BY DEF JobOnly, gateway, Books, PayoutsTypeOK
<1> QED BY <1>1, <1>2, JobMoves

\* A job between two runs has nothing on its page.
LEMMA RestingSound ==
    /\ Resting \in JobState
    /\ Resting.page = {} /\ Resting.phase = "resting"
BY DEF Resting, JobState

\* Where a job goes behind a sale, or behind a payout, is sound again.
LEMMA GoesOn ==
    ASSUME Books, NEW j \in Jobs, NEW s \in Sales
    PROVE  /\ Behind(j, s) \in JobState /\ AfterPayout(j, s) \in JobState
           /\ \A t \in Behind(j, s).page : sale[t] # "NONE"
           /\ \A t \in AfterPayout(j, s).page : sale[t] # "NONE"
           /\ Behind(j, s).phase # "settle" /\ AfterPayout(j, s).phase # "settle"
<1>1. job[j] \in JobState /\ JobSound(j)
  BY DEF Books, PayoutsTypeOK
<1>2. /\ Behind(j, s) \in JobState
      /\ Behind(j, s).page = job[j].page \ {s}
      /\ Behind(j, s).phase # "settle"
  <2> DEFINE left == job[j].page \ {s}
             phase == IF left = {} THEN "paging" ELSE "visit"
  <2>1. Behind(j, s) = [job[j] EXCEPT !.phase = phase, !.page = left, !.offset = job[j].offset + 1]
    BY <1>1 DEF Behind, JobState
  <2>2. phase \in {"paging", "visit"} /\ left \in SUBSET Sales /\ job[j].offset + 1 \in Nat
    BY <1>1 DEF JobState
  <2> HIDE DEF left, phase
  <2>3. Behind(j, s) \in JobState /\ Behind(j, s).page = left /\ Behind(j, s).phase = phase
    BY <1>1, <2>1, <2>2 DEF JobState
  <2> QED BY <2>2, <2>3 DEF left
<1>3. /\ AfterPayout(j, s) \in JobState
      /\ AfterPayout(j, s).page \subseteq job[j].page
      /\ AfterPayout(j, s).phase # "settle"
  BY <1>1, RestingSound DEF AfterPayout, JobState
<1> QED BY <1>1, <1>2, <1>3 DEF JobSound

\* No step of a job breaks the books.
LEMMA JobStepsSafe ==
    ASSUME Books, NEW j \in Jobs,
           \/ StartRun(j) \/ FetchPage(j) \/ FetchPayouts(j) \/ SkipPayout(j) \/ AbortRun(j)
           \/ \E s \in Sales : VisitSale(j, s) \/ SkipSale(j, s) \/ SendPayout(j, s)
    PROVE  Books'
<1>1. job[j] \in JobState /\ JobSound(j)
  BY DEF Books, PayoutsTypeOK
<1>2. CASE StartRun(j)
  <2> DEFINE state == [job[j] EXCEPT !.phase = "paging"]
  <2>1. job' = [job EXCEPT ![j] = state] /\ state \in JobState
    BY <1>1, <1>2 DEF StartRun, JobState, Books, PayoutsTypeOK
  <2>2. state.page = job[j].page /\ state.phase = "paging"
    BY <1>1 DEF JobState
  <2>3. /\ answers' \in [Jobs -> [Sales -> {"none", "paid", "refused"}]]
        /\ transfers' \in [Sales -> Nat]
    BY <1>2 DEF StartRun, Books, PayoutsTypeOK, NoAnswers
  <2>4. UNCHANGED <<accounts, tables, admin>>
    BY <1>2 DEF StartRun
  <2> HIDE DEF state
  <2> QED BY <1>1, <2>1, <2>2, <2>3, <2>4, JobMoves DEF JobSound
<1>3. CASE FetchPage(j)
  <2> DEFINE page == Page(job[j].offset)
             visiting == [job[j] EXCEPT !.phase = "visit", !.page = page]
             sending == [job[j] EXCEPT !.phase = "payouts"]
  <2>1. page \in SUBSET Sales /\ \A s \in page : sale[s] # "NONE"
    BY DEF Page, Eligible
  <2>2. visiting \in JobState /\ visiting.page = page /\ visiting.phase = "visit"
    BY <1>1, <2>1 DEF JobState
  <2>3. sending \in JobState /\ sending.page = job[j].page /\ sending.phase = "payouts"
    BY <1>1 DEF JobState
  <2>4. JobOnly(j, visiting) \/ JobOnly(j, sending) \/ JobOnly(j, Resting)
    BY <1>3 DEF FetchPage
  <2> HIDE DEF page, visiting, sending
  <2> QED BY <1>1, <2>1, <2>2, <2>3, <2>4, RestingSound, JobOnlySafe DEF JobSound
<1>4. CASE FetchPayouts(j)
  <2>1. PICK queue \in SUBSET Unsent :
            JobOnly(j, IF queue = {} THEN Resting
                       ELSE [job[j] EXCEPT !.phase = "send", !.page = queue])
    BY <1>4 DEF FetchPayouts
  <2> DEFINE sending == [job[j] EXCEPT !.phase = "send", !.page = queue]
  <2>2. queue \in SUBSET Sales /\ \A s \in queue : sale[s] # "NONE"
    BY DEF Unsent, Books, SaleSound
  <2>3. sending \in JobState /\ sending.page = queue /\ sending.phase = "send"
    BY <1>1, <2>2 DEF JobState
  <2>4. JobOnly(j, sending) \/ JobOnly(j, Resting)
    BY <2>1
  <2> HIDE DEF sending
  <2> QED BY <2>2, <2>3, <2>4, RestingSound, JobOnlySafe
<1>5. CASE SkipPayout(j)
  <2>1. CASE job[j].phase = "settle" /\ JobOnly(j, AfterPayout(j, job[j].result[1]))
    <3>1. job[j].result[1] \in Sales
      BY <1>1, <2>1 DEF JobSound, JobState
    <3> QED BY <2>1, <3>1, GoesOn, JobOnlySafe
  <2>2. CASE \E s \in job[j].page : JobOnly(j, AfterPayout(j, s))
    <3>1. job[j].page \subseteq Sales
      BY <1>1 DEF JobState
    <3> QED BY <2>2, <3>1, GoesOn, JobOnlySafe
  <2> QED BY <1>5, <2>1, <2>2 DEF SkipPayout
<1>6. CASE AbortRun(j)
  BY <1>6, RestingSound, JobOnlySafe DEF AbortRun
<1>7. ASSUME NEW s \in Sales, VisitSale(j, s)
      PROVE  Books'
  <2> DEFINE state == [job[j] EXCEPT !.phase = "insert"]
  <2>1. state \in JobState /\ state.page = job[j].page /\ state.phase = "insert"
    BY <1>1 DEF JobState
  <2>2. JobOnly(j, state)
    BY <1>7 DEF VisitSale
  <2> HIDE DEF state
  <2> QED BY <1>1, <2>1, <2>2, JobOnlySafe DEF JobSound
<1>8. ASSUME NEW s \in Sales, SkipSale(j, s)
      PROVE  Books'
  BY <1>8, GoesOn, JobOnlySafe DEF SkipSale
<1>9. ASSUME NEW s \in Sales, SendPayout(j, s)
      PROVE  Books'
  <2>1. PICK answer \in {"paid", "refused"} :
            /\ \/ /\ Remember(j, s, answer)
                  /\ transfers' = [transfers EXCEPT ![s] = IF answer = "paid" THEN @ + 1 ELSE @]
               \/ UNCHANGED gateway
            /\ job' = [job EXCEPT ![j] = [@ EXCEPT !.phase = "settle", !.result = <<s, answer>>]]
    BY <1>9 DEF SendPayout
  <2> DEFINE state == [job[j] EXCEPT !.phase = "settle", !.result = <<s, answer>>]
  <2>2. /\ state \in JobState
        /\ state.page = job[j].page /\ state.result = <<s, answer>>
    BY <1>1 DEF JobState
  <2>3. job' = [job EXCEPT ![j] = state]
    BY <2>1 DEF Books, PayoutsTypeOK
  <2>4. /\ answers' \in [Jobs -> [Sales -> {"none", "paid", "refused"}]]
        /\ transfers' \in [Sales -> Nat]
    <3>1. CASE UNCHANGED gateway
      BY <3>1 DEF gateway, Books, PayoutsTypeOK
    <3>2. CASE /\ Remember(j, s, answer)
               /\ transfers' = [transfers EXCEPT ![s] = IF answer = "paid" THEN @ + 1 ELSE @]
      <4>1. \A k \in Jobs : answers[k] \in [Sales -> {"none", "paid", "refused"}]
        BY DEF Books, PayoutsTypeOK
      <4>2. \A k \in Jobs :
                [answers[k] EXCEPT ![s] = answer] \in [Sales -> {"none", "paid", "refused"}]
        BY <4>1
      <4>3. answers' \in [Jobs -> [Sales -> {"none", "paid", "refused"}]]
        BY <3>2, <4>1, <4>2 DEF Remember
      <4>4. transfers' \in [Sales -> Nat]
        BY <3>2 DEF Books, PayoutsTypeOK
      <4> QED BY <4>3, <4>4
    <3> QED BY <2>1, <3>1, <3>2
  <2>5. UNCHANGED <<accounts, tables, admin>>
    BY <1>9 DEF SendPayout
  <2>6. state.result # <<>>
    BY <2>2
  <2> HIDE DEF state
  <2> QED BY <1>1, <2>2, <2>3, <2>4, <2>5, <2>6, JobMoves DEF JobSound
<1> QED BY <1>2, <1>3, <1>4, <1>5, <1>6, <1>7, <1>8, <1>9
-----------------------------------------------------------------------------
(* Steps that write the tables                                             *)

\* A sale that nothing touches stays sound.
LEMMA OtherSale ==
    ASSUME NEW s, SaleSound(s), sale'[s] = sale[s], info'[s] = info[s],
           advance'[s] = advance[s], entries'[s] = entries[s]
    PROVE  SaleSound(s)'
BY DEF SaleSound, AdvanceMade, AdvanceOf

\* Creating a sale does not break the books.
LEMMA CreateSaleSafe ==
    ASSUME Books, NEW s \in Sales, NEW u \in Users, NEW earnings \in Earnings,
           CreateSale(s, u, earnings)
    PROVE  Books'
<1> USE DEF CreateSale, Books
<1>1. PayoutsTypeOK'
  BY DEF PayoutsTypeOK, AccountsTypeOK, accounts, gateway
<1>2. ASSUME NEW t \in Sales PROVE SaleSound(t)'
  <2>1. CASE t = s
    BY <2>1 DEF SaleSound, AdvanceMade, PayoutsTypeOK
  <2>2. CASE t # s
    BY <2>2, OtherSale DEF PayoutsTypeOK
  <2> QED BY <2>1, <2>2
<1>3. ASSUME NEW j \in Jobs PROVE JobSound(j)'
  BY DEF JobSound, PayoutsTypeOK, JobState
<1> QED BY <1>1, <1>2, <1>3

\* An administrator who reads a sale does not break the books.
LEMMA AdminReadSafe ==
    ASSUME Books, NEW a \in Admins,
           \/ \E s \in Sales, decision \in {"APPROVED", "REJECTED"} : LoadSale(a, s, decision)
           \/ ReconcileFails(a)
    PROVE  Books'
<1> USE DEF Books
<1>1. UNCHANGED <<accounts, tables, job, gateway>>
  BY DEF LoadSale, ReconcileFails
<1>2. admin' \in [Admins -> {Waiting} \cup
            [step : {"reconcile"}, sale : Sales, decision : {"APPROVED", "REJECTED"}]]
  <2>1. CASE ReconcileFails(a)
    BY <2>1 DEF ReconcileFails, PayoutsTypeOK
  <2>2. ASSUME NEW s \in Sales, NEW decision \in {"APPROVED", "REJECTED"},
               LoadSale(a, s, decision)
        PROVE  admin' \in [Admins -> {Waiting} \cup
                [step : {"reconcile"}, sale : Sales, decision : {"APPROVED", "REJECTED"}]]
    <3> DEFINE request == [step |-> "reconcile", sale |-> s, decision |-> decision]
    <3>1. request \in [step : {"reconcile"}, sale : Sales, decision : {"APPROVED", "REJECTED"}]
      OBVIOUS
    <3>2. admin' = [admin EXCEPT ![a] = request]
      BY <2>2 DEF LoadSale
    <3> HIDE DEF request
    <3> QED BY <3>1, <3>2 DEF PayoutsTypeOK
  <2> QED BY <2>1, <2>2
<1>3. PayoutsTypeOK'
  BY <1>1, <1>2 DEF PayoutsTypeOK, AccountsTypeOK, accounts, tables, gateway
<1>4. \A s \in Sales : SaleSound(s)'
  BY <1>1, OtherSale DEF tables
<1>5. \A j \in Jobs : JobSound(j)'
  BY <1>1 DEF tables, JobSound
<1> QED BY <1>3, <1>4, <1>5

\* Whichever way a sale is reconciled, what it has booked is worked out.
LEMMA ReconciliationBooks ==
    ASSUME Books, NEW s \in Sales, NEW decision \in {"APPROVED", "REJECTED"},
           sale[s] = "PENDING",
           \/ decision = "APPROVED" /\ Approve(s)
           \/ decision = "REJECTED" /\ Reject(s)
    PROVE  /\ AccountsTypeOK'
           /\ final' \in [Sales -> {"NONE", "PENDING"}]
           /\ entries' \in [Sales -> [advance : Nat, final : Nat, adjustment : Int]]
           /\ \A t \in Sales \ {s} : entries'[t] = entries[t]
           /\ entries'[s].advance = AdvanceMade(s)
           /\ decision = "APPROVED" =>
                /\ entries'[s].final = info[s].earnings - AdvanceMade(s)
                /\ entries'[s].adjustment = 0
           /\ decision = "REJECTED" =>
                /\ entries'[s].final = 0
                /\ entries'[s].adjustment = -AdvanceMade(s)
           /\ AdvanceMade(s) \in Nat /\ info[s].earnings \in Nat
<1>1. PayoutsTypeOK /\ SaleSound(s)
  BY DEF Books
<1>2. info[s].earnings \in Nat \ {0}
  BY <1>1, PayoutConstants DEF SaleSound, PayoutConstants
<1>3. AdvanceOf(s) \in Nat /\ AdvanceOf(s) < info[s].earnings
  BY <1>2, AdvanceBounds DEF AdvanceOf
<1>4. AdvanceMade(s) \in Nat /\ AdvanceMade(s) < info[s].earnings
  BY <1>2, <1>3 DEF AdvanceMade
<1>5. /\ entries[s] \in [advance : Nat, final : Nat, adjustment : Int]
      /\ entries[s].advance = AdvanceMade(s) /\ entries[s].final = 0 /\ entries[s].adjustment = 0
  BY <1>1 DEF SaleSound, PayoutsTypeOK
<1> DEFINE remaining == info[s].earnings - AdvanceMade(s)
<1>6. remaining \in Nat /\ remaining > 0 /\ -AdvanceMade(s) \in Int
  BY <1>2, <1>4
<1>7. CASE decision = "APPROVED"
  <2>1. final' = [final EXCEPT ![s] = "PENDING"] /\ Book(s, "final", remaining)
    BY <1>6, <1>7 DEF Approve
  <2> HIDE DEF remaining
  <2>2. AccountsTypeOK'
    BY <1>1, <1>6, <2>1, BookTypes DEF Book
  <2>3. entries' = [entries EXCEPT ![s] = [@ EXCEPT !.final = remaining]]
    <3>1. entries' = [entries EXCEPT ![s]["final"] = @ + (remaining)]
      BY <2>1 DEF Book
    <3>2. entries \in [Sales -> [advance : Nat, final : Nat, adjustment : Int]]
      BY <1>1 DEF PayoutsTypeOK
    <3>3. entries[s].final + (remaining) = remaining
      BY <1>5, <1>6
    <3> QED BY <3>1, <3>2, <3>3
  <2>4. /\ entries' \in [Sales -> [advance : Nat, final : Nat, adjustment : Int]]
        /\ \A t \in Sales \ {s} : entries'[t] = entries[t]
        /\ entries'[s] = [entries[s] EXCEPT !.final = remaining]
    BY <1>1, <1>5, <1>6, <2>3 DEF PayoutsTypeOK
  <2>5. final' \in [Sales -> {"NONE", "PENDING"}]
    BY <1>1, <2>1 DEF PayoutsTypeOK
  <2> QED BY <1>2, <1>4, <1>5, <1>7, <2>2, <2>4, <2>5 DEF remaining
<1>8. CASE decision = "REJECTED" /\ AdvanceMade(s) > 0
  <2>1. UNCHANGED final /\ Book(s, "adjustment", -AdvanceMade(s))
    BY <1>8 DEF Reject, Adjustment
  <2>2. AccountsTypeOK'
    BY <1>1, <1>6, <2>1, BookTypes DEF Book
  <2>3. entries' = [entries EXCEPT ![s] = [@ EXCEPT !.adjustment = -AdvanceMade(s)]]
    <3>1. entries' = [entries EXCEPT ![s]["adjustment"] = @ + (-AdvanceMade(s))]
      BY <2>1 DEF Book
    <3>2. entries \in [Sales -> [advance : Nat, final : Nat, adjustment : Int]]
      BY <1>1 DEF PayoutsTypeOK
    <3>3. entries[s].adjustment + (-AdvanceMade(s)) = -AdvanceMade(s)
      BY <1>5, <1>6
    <3> QED BY <3>1, <3>2, <3>3
  <2>4. /\ entries' \in [Sales -> [advance : Nat, final : Nat, adjustment : Int]]
        /\ \A t \in Sales \ {s} : entries'[t] = entries[t]
        /\ entries'[s] = [entries[s] EXCEPT !.adjustment = -AdvanceMade(s)]
    BY <1>1, <1>5, <1>6, <2>3 DEF PayoutsTypeOK
  <2>5. final' \in [Sales -> {"NONE", "PENDING"}]
    BY <1>1, <2>1 DEF PayoutsTypeOK
  <2> QED BY <1>2, <1>4, <1>5, <1>8, <2>2, <2>4, <2>5
<1>9. CASE decision = "REJECTED" /\ AdvanceMade(s) = 0
  <2>1. UNCHANGED <<final, accounts, entries>>
    BY <1>9 DEF Reject
  <2>2. AccountsTypeOK'
    BY <1>1, <2>1 DEF PayoutsTypeOK, AccountsTypeOK, accounts
  <2> QED BY <1>1, <1>2, <1>4, <1>5, <1>9, <2>1, <2>2 DEF PayoutsTypeOK
<1> QED BY <1>4, <1>7, <1>8, <1>9

\* Reconciling a sale leaves it sound and its user with exactly what is due,
\* and is the only change of a sale that it makes.
LEMMA ReconcileSaleSafe ==
    ASSUME Books, NEW a \in Admins, ReconcileSale(a)
    PROVE  /\ Books'
           /\ \A t \in Sales : sale'[t] # sale[t] => (Credit(t) = Entitled(t))'
<1>1. PICK s \in Sales, decision \in {"APPROVED", "REJECTED"} :
        /\ sale[s] = "PENDING" /\ sale' = [sale EXCEPT ![s] = decision]
        /\ \/ decision = "APPROVED" /\ Approve(s)
           \/ decision = "REJECTED" /\ Reject(s)
        /\ admin' = [admin EXCEPT ![a] = Waiting]
        /\ UNCHANGED <<info, advance, job, gateway>>
  <2>1. admin[a] \in [step : {"reconcile"}, sale : Sales, decision : {"APPROVED", "REJECTED"}]
    BY DEF ReconcileSale, Waiting, Books, PayoutsTypeOK
  <2> QED BY <2>1 DEF ReconcileSale, StillPending
<1>2. /\ AccountsTypeOK'
      /\ final' \in [Sales -> {"NONE", "PENDING"}]
      /\ entries' \in [Sales -> [advance : Nat, final : Nat, adjustment : Int]]
      /\ \A t \in Sales \ {s} : entries'[t] = entries[t]
      /\ entries'[s].advance = AdvanceMade(s)
      /\ decision = "APPROVED" =>
            /\ entries'[s].final = info[s].earnings - AdvanceMade(s)
            /\ entries'[s].adjustment = 0
      /\ decision = "REJECTED" =>
            /\ entries'[s].final = 0
            /\ entries'[s].adjustment = -AdvanceMade(s)
      /\ AdvanceMade(s) \in Nat /\ info[s].earnings \in Nat
  BY <1>1, ReconciliationBooks
<1>3. PayoutsTypeOK /\ SaleSound(s)
  BY DEF Books
<1>4. PayoutsTypeOK'
  <2>1. ASSUME NEW t \in Sales PROVE entries'[t].adjustment <= 0
    <3>1. CASE t = s
      BY <1>2, <3>1
    <3>2. CASE t # s
      BY <1>2, <1>3, <3>2 DEF PayoutsTypeOK
    <3> QED BY <3>1, <3>2
  <2>2. sale' \in [Sales -> {"NONE", "PENDING", "APPROVED", "REJECTED"}]
    BY <1>1, <1>3 DEF PayoutsTypeOK
  <2>3. admin' \in [Admins -> {Waiting} \cup
            [step : {"reconcile"}, sale : Sales, decision : {"APPROVED", "REJECTED"}]]
    BY <1>1, <1>3 DEF PayoutsTypeOK
  <2> QED BY <1>1, <1>2, <1>3, <2>1, <2>2, <2>3 DEF PayoutsTypeOK, gateway
<1>5. /\ sale'[s] = decision /\ \A t \in Sales \ {s} : sale'[t] = sale[t]
      /\ AdvanceMade(s)' = AdvanceMade(s) /\ AdvanceOf(s)' = AdvanceOf(s)
  BY <1>1, <1>3 DEF PayoutsTypeOK, AdvanceMade, AdvanceOf
<1>6. SaleSound(s)'
  BY <1>1, <1>2, <1>3, <1>5 DEF SaleSound, AdvanceMade
<1>7. ASSUME NEW t \in Sales PROVE SaleSound(t)'
  <2>1. CASE t = s
    BY <1>6, <2>1
  <2>2. CASE t # s
    BY <1>1, <1>2, <1>5, <2>2, OtherSale DEF Books
  <2> QED BY <2>1, <2>2
<1>8. ASSUME NEW j \in Jobs PROVE JobSound(j)'
  BY <1>1, <1>3, <1>5 DEF JobSound, Books, PayoutsTypeOK, JobState
<1>9. (Credit(s) = Entitled(s))'
  BY <1>1, <1>2, <1>5 DEF Credit, Entitled
<1>10. \A t \in Sales : sale'[t] # sale[t] => (Credit(t) = Entitled(t))'
  BY <1>5, <1>9
<1> QED BY <1>4, <1>7, <1>8, <1>10 DEF Books

\* Creating an advance books it with the payout.
LEMMA CreateAdvanceSafe ==
    ASSUME Books, NEW j \in Jobs, NEW s \in Sales, CreateAdvance(j, s)
    PROVE  Books'
<1> USE DEF Books
<1> DEFINE state == [Behind(j, s) EXCEPT !.created = TRUE]
<1>1. /\ s \in job[j].page /\ advance[s] = "NONE" /\ advance' = [advance EXCEPT ![s] = "PENDING"]
      /\ entries' = [entries EXCEPT ![s]["advance"] = @ + AdvanceOf(s)]
      /\ RecordMovement(info[s].user, AdvanceOf(s))
      /\ job' = [job EXCEPT ![j] = state]
      /\ UNCHANGED <<sale, info, final, admin, gateway>>
  BY DEF CreateAdvance, ComesTo, UniqueAdvance, Book
<1>2. /\ state \in JobState /\ state.page = Behind(j, s).page
      /\ state.phase = Behind(j, s).phase
  <2>1. Behind(j, s) \in JobState
    BY GoesOn
  <2> QED BY <2>1 DEF JobState
<1> HIDE DEF state
<1>3. /\ sale[s] # "NONE" /\ info[s].earnings \in Nat /\ AdvanceOf(s) \in Nat
  BY <1>1, AdvanceBounds, PayoutConstants DEF PayoutConstants, AdvanceOf, JobSound, SaleSound
<1>4. /\ entries' \in [Sales -> [advance : Nat, final : Nat, adjustment : Int]]
      /\ \A t \in Sales \ {s} : entries'[t] = entries[t]
      /\ entries'[s].advance = entries[s].advance + AdvanceOf(s)
      /\ entries'[s].final = entries[s].final
      /\ entries'[s].adjustment = entries[s].adjustment
  <2>1. /\ entries \in [Sales -> [advance : Nat, final : Nat, adjustment : Int]]
        /\ entries[s].advance + AdvanceOf(s) \in Nat
    BY <1>3 DEF PayoutsTypeOK
  <2>2. entries' = [entries EXCEPT ![s] = [@ EXCEPT !.advance = entries[s].advance + AdvanceOf(s)]]
    BY <1>1, <2>1
  <2> QED BY <2>1, <2>2
<1>5. PayoutsTypeOK'
  <2>1. AccountsTypeOK'
    BY <1>1, <1>3, BookTypes
  <2>2. advance' \in [Sales -> {"NONE", "PENDING", "COMPLETED", "FAILED"}]
    BY <1>1 DEF PayoutsTypeOK
  <2>3. job' \in [Jobs -> JobState]
    BY <1>1, <1>2 DEF PayoutsTypeOK
  <2>4. \A t \in Sales : entries'[t].adjustment <= 0
    BY <1>4 DEF PayoutsTypeOK
  <2> QED BY <1>1, <1>4, <2>1, <2>2, <2>3, <2>4 DEF PayoutsTypeOK, gateway
<1>6. ASSUME NEW t \in Sales PROVE SaleSound(t)'
  <2>1. CASE t = s
    <3>1. entries[s].advance = 0 /\ SaleSound(s)
      BY <1>1 DEF SaleSound, AdvanceMade
    <3>2. advance'[s] = "PENDING" /\ AdvanceOf(s)' = AdvanceOf(s)
      BY <1>1 DEF PayoutsTypeOK, AdvanceOf
    <3> QED BY <1>1, <1>3, <1>4, <2>1, <3>1, <3>2 DEF SaleSound, AdvanceMade
  <2>2. CASE t # s
    BY <1>1, <1>4, <2>2, OtherSale DEF PayoutsTypeOK
  <2> QED BY <2>1, <2>2
<1>7. ASSUME NEW k \in Jobs PROVE JobSound(k)'
  <2>1. CASE k = j
    BY <1>1, <1>2, <2>1, GoesOn DEF JobSound, PayoutsTypeOK
  <2>2. CASE k # j
    BY <1>1, <2>2 DEF JobSound, PayoutsTypeOK
  <2> QED BY <2>1, <2>2
<1> QED BY <1>5, <1>6, <1>7

\* A payout's status does not matter to the books once the payout exists.
LEMMA SettlePayoutSafe ==
    ASSUME Books, NEW j \in Jobs, SettlePayout(j)
    PROVE  Books'
<1> DEFINE s == job[j].result[1]
           target == Outcome(job[j].result[2])
           state == AfterPayout(j, s)
<1> USE DEF Books
<1>1. /\ job[j].phase = "settle" /\ CanTransition(PayoutTransitions, advance[s], target)
      /\ advance' = [advance EXCEPT ![s] = target]
      /\ job' = [job EXCEPT ![j] = state]
      /\ UNCHANGED <<accounts, sale, info, final, entries, admin, gateway>>
  BY DEF SettlePayout
<1>2. s \in Sales /\ target \in {"COMPLETED", "FAILED"}
  BY <1>1 DEF JobSound, JobState, PayoutsTypeOK, Outcome
<1> HIDE DEF s, target, state
<1>3. advance[s] # "NONE"
  BY <1>1, <1>2 DEF CanTransition, PayoutTransitions
<1>4. /\ state \in JobState /\ state.phase # "settle"
      /\ \A t \in state.page : sale[t] # "NONE"
  BY <1>2, GoesOn DEF state
<1>5. PayoutsTypeOK'
  <2>1. advance' \in [Sales -> {"NONE", "PENDING", "COMPLETED", "FAILED"}]
    BY <1>1, <1>2 DEF PayoutsTypeOK
  <2>2. job' \in [Jobs -> JobState]
    BY <1>1, <1>4 DEF PayoutsTypeOK
  <2> QED BY <1>1, <2>1, <2>2 DEF PayoutsTypeOK, AccountsTypeOK, accounts, gateway
<1>6. ASSUME NEW t \in Sales PROVE SaleSound(t)'
  <2>1. CASE t = s
    BY <1>1, <1>2, <1>3, <2>1 DEF SaleSound, AdvanceMade, AdvanceOf, PayoutsTypeOK
  <2>2. CASE t # s
    BY <1>1, <2>2, OtherSale DEF PayoutsTypeOK
  <2> QED BY <2>1, <2>2
<1>7. ASSUME NEW k \in Jobs PROVE JobSound(k)'
  <2>1. CASE k = j
    BY <1>1, <1>4, <2>1 DEF JobSound, PayoutsTypeOK
  <2>2. CASE k # j
    BY <1>1, <2>2 DEF JobSound, PayoutsTypeOK
  <2> QED BY <2>1, <2>2
<1> QED BY <1>5, <1>6, <1>7
-----------------------------------------------------------------------------
(* The theorems about the tables                                           *)

\* Books is inductive.
LEMMA BooksNext == Books /\ [PayoutsNext]_payoutVars => Books'
<1> SUFFICES ASSUME Books, [PayoutsNext]_payoutVars PROVE Books'
  OBVIOUS
<1>1. CASE UNCHANGED payoutVars
  <2>1. PayoutsTypeOK'
    BY <1>1 DEF Books, PayoutsTypeOK, AccountsTypeOK, payoutVars, accounts, tables, gateway
  <2>2. \A s \in Sales : SaleSound(s)'
    BY <1>1, OtherSale DEF Books, payoutVars, tables
  <2>3. \A j \in Jobs : JobSound(j)'
    BY <1>1 DEF Books, JobSound, payoutVars, tables
  <2> QED BY <2>1, <2>2, <2>3 DEF Books
<1>2. ASSUME NEW s \in Sales, NEW u \in Users, NEW earnings \in Earnings,
             CreateSale(s, u, earnings)
      PROVE  Books'
  BY <1>2, CreateSaleSafe
<1>3. ASSUME NEW a \in Admins, AdminStep(a) PROVE Books'
  BY <1>3, AdminReadSafe, ReconcileSaleSafe DEF AdminStep
<1>4. ASSUME NEW j \in Jobs, JobStep(j) PROVE Books'
  BY <1>4, JobStepsSafe, CreateAdvanceSafe, SettlePayoutSafe DEF JobStep
<1> QED BY <1>1, <1>2, <1>3, <1>4 DEF PayoutsNext

\* Every reachable state has sound books.
LEMMA BooksAlways == PayoutsSpec => []Books
BY BooksInit, BooksNext, PTL DEF PayoutsSpec

\* Types: PayoutsTypeOK.
THEOREM PayoutsTypeCorrect == PayoutsSpec => []PayoutsTypeOK
<1>1. Books => PayoutsTypeOK
  BY DEF Books
<1> QED BY <1>1, BooksAlways, PTL

\* However many jobs visit a sale, and whoever reconciles it meanwhile, its
\* advance is credited exactly when, and as, its payout says.
THEOREM AdvanceOnce == PayoutsSpec => []AdvanceCreditedOnce
<1>1. Books => AdvanceCreditedOnce
  BY DEF Books, SaleSound, AdvanceCreditedOnce
<1> QED BY <1>1, BooksAlways, PTL

\* A user is never short, and has at most the sale's one advance too much.
THEOREM ExcessBounded == PayoutsSpec => []ExcessIsOneAdvance
<1>1. Books => ExcessIsOneAdvance
  <2> SUFFICES ASSUME Books, NEW s \in Sales
               PROVE  Credit(s) - Entitled(s) \in {0, AdvanceOf(s)}
    BY DEF ExcessIsOneAdvance
  <2>1. /\ SaleSound(s) /\ sale[s] \in {"NONE", "PENDING", "APPROVED", "REJECTED"}
        /\ entries[s] \in [advance : Nat, final : Nat, adjustment : Int]
        /\ info[s].earnings \in Nat
    <3>1. info[s].earnings \in Earnings \cup {0}
      BY DEF Books, PayoutsTypeOK
    <3>2. info[s].earnings \in Nat
      <4>1. \A e \in Earnings \cup {0} : e \in Nat
        BY PayoutConstants DEF PayoutConstants
      <4> QED BY <3>1, <4>1
    <3>3. /\ sale[s] \in {"NONE", "PENDING", "APPROVED", "REJECTED"}
          /\ entries[s] \in [advance : Nat, final : Nat, adjustment : Int]
      BY DEF Books, PayoutsTypeOK
    <3> QED BY <3>2, <3>3 DEF Books
  <2>2. AdvanceOf(s) \in Nat
    BY <2>1, AdvanceBounds DEF AdvanceOf
  <2>3. CASE sale[s] \in {"NONE", "PENDING"}
    BY <2>1, <2>2, <2>3 DEF SaleSound, Credit, Entitled, AdvanceMade
  <2>4. CASE sale[s] = "APPROVED"
    BY <2>1, <2>2, <2>4 DEF SaleSound, Credit, Entitled, AdvanceMade
  <2>5. CASE sale[s] = "REJECTED"
    BY <2>1, <2>2, <2>5 DEF SaleSound, Credit, Entitled, AdvanceMade
  <2> QED BY <2>1, <2>3, <2>4, <2>5
<1> QED BY <1>1, BooksAlways, PTL

\* A step that reconciles a sale leaves it exact.
LEMMA ReconciliationStep ==
    Books /\ [PayoutsNext]_payoutVars =>
        [\A s \in Sales :
            sale'[s] # sale[s] /\ sale[s] = "PENDING" => (Credit(s) = Entitled(s))']_tables
<1> SUFFICES ASSUME Books, [PayoutsNext]_payoutVars, tables' # tables,
                    NEW s \in Sales, sale'[s] # sale[s], sale[s] = "PENDING"
             PROVE  (Credit(s) = Entitled(s))'
  OBVIOUS
<1>1. PICK a \in Admins : ReconcileSale(a)
  <2>1. ~UNCHANGED sale
    OBVIOUS
  <2>2. ASSUME NEW r \in Sales, NEW u \in Users, NEW earnings \in Earnings,
               CreateSale(r, u, earnings)
        PROVE  FALSE
    BY <2>2 DEF CreateSale, Books, PayoutsTypeOK
  <2>3. ASSUME NEW j \in Jobs, JobStep(j) PROVE FALSE
    BY <2>1, <2>3 DEF JobStep, StartRun, FetchPage, VisitSale, CreateAdvance, SkipSale,
          SendPayout, FetchPayouts, SettlePayout, SkipPayout, AbortRun, JobOnly, tables
  <2>4. ASSUME NEW a \in Admins, AdminStep(a) PROVE ReconcileSale(a)
    BY <2>1, <2>4 DEF AdminStep, LoadSale, ReconcileFails, tables
  <2> QED BY <2>1, <2>2, <2>3, <2>4 DEF PayoutsNext, payoutVars, tables
<1> QED BY <1>1, ReconcileSaleSafe

\* The step that reconciles a sale leaves its user with exactly the earnings,
\* or with nothing, whatever the advance job has done since the sale was read.
THEOREM ReconciledExactly == PayoutsSpec => ReconciliationExact
<1> DEFINE Exact == \A s \in Sales :
        sale'[s] # sale[s] /\ sale[s] = "PENDING" => (Credit(s) = Entitled(s))'
<1>1. Books /\ [PayoutsNext]_payoutVars => [Exact]_tables
  BY ReconciliationStep
<1> QED BY <1>1, BooksAlways, PTL DEF PayoutsSpec, ReconciliationExact
-----------------------------------------------------------------------------
(* The sums                                                                *)

\* A sale never costs its user anything on balance.
LEMMA CreditNat == Books => \A s \in Sales : Credit(s) \in Nat
<1> SUFFICES ASSUME Books, NEW s \in Sales PROVE Credit(s) \in Nat
  OBVIOUS
<1>1. /\ SaleSound(s) /\ sale[s] \in {"NONE", "PENDING", "APPROVED", "REJECTED"}
      /\ entries[s] \in [advance : Nat, final : Nat, adjustment : Int]
  BY DEF Books, PayoutsTypeOK
<1>2. CASE entries[s].adjustment = 0
  BY <1>1, <1>2 DEF Credit
<1>3. CASE entries[s].adjustment # 0
  <2>1. entries[s].adjustment = -AdvanceOf(s) /\ entries[s].advance = AdvanceOf(s)
    BY <1>1, <1>3 DEF SaleSound, AdvanceMade
  <2> QED BY <1>1, <2>1 DEF Credit
<1> QED BY <1>2, <1>3

\* A booking adds its amount to what its sale has brought.
LEMMA BookCredits ==
    ASSUME Books, NEW s \in Sales, NEW type \in {"advance", "final", "adjustment"},
           NEW amount \in Int, Book(s, type, amount)
    PROVE  /\ Credit(s)' = Credit(s) + amount
           /\ \A t \in Sales \ {s} : Credit(t)' = Credit(t)
<1>1. /\ entries \in [Sales -> [advance : Nat, final : Nat, adjustment : Int]]
      /\ entries' = [entries EXCEPT ![s][type] = @ + amount]
  BY DEF Books, PayoutsTypeOK, Book
<1>2. \A t \in Sales \ {s} : entries'[t] = entries[t]
  BY <1>1
<1>3. entries[s] \in [advance : Nat, final : Nat, adjustment : Int]
  BY <1>1
<1>4. CASE type = "advance"
  <2>1. entries' = [entries EXCEPT ![s]["advance"] = @ + amount]
    BY <1>1, <1>4
  <2>2. entries'[s] = [entries[s] EXCEPT !.advance = entries[s].advance + amount]
    BY <1>1, <2>1
  <2> QED BY <1>2, <1>3, <2>2 DEF Credit
<1>5. CASE type = "final"
  <2>1. entries' = [entries EXCEPT ![s]["final"] = @ + amount]
    BY <1>1, <1>5
  <2>2. entries'[s] = [entries[s] EXCEPT !.final = entries[s].final + amount]
    BY <1>1, <2>1
  <2> QED BY <1>2, <1>3, <2>2 DEF Credit
<1>6. CASE type = "adjustment"
  <2>1. entries' = [entries EXCEPT ![s]["adjustment"] = @ + amount]
    BY <1>1, <1>6
  <2>2. entries'[s] = [entries[s] EXCEPT !.adjustment = entries[s].adjustment + amount]
    BY <1>1, <2>1
  <2> QED BY <1>2, <1>3, <2>2 DEF Credit
<1> QED BY <1>2, <1>4, <1>5, <1>6 DEF Credit

\* As far as the books are concerned a step does nothing, inserts a sale, or
\* books one movement for one sale.
LEMMA BookingShape ==
    ASSUME Books, [PayoutsNext]_payoutVars
    PROVE  \/ UNCHANGED <<accounts, info, entries>>
           \/ /\ UNCHANGED <<accounts, entries>>
              /\ \E s \in Sales : sale[s] = "NONE" /\ \A t \in Sales \ {s} : info'[t] = info[t]
           \/ /\ UNCHANGED info
              /\ \E s \in Sales, type \in {"advance", "final", "adjustment"}, amount \in Int :
                    Book(s, type, amount)
<1> DEFINE Goal ==
       \/ UNCHANGED <<accounts, info, entries>>
       \/ /\ UNCHANGED <<accounts, entries>>
          /\ \E s \in Sales : sale[s] = "NONE" /\ \A t \in Sales \ {s} : info'[t] = info[t]
       \/ /\ UNCHANGED info
          /\ \E s \in Sales, type \in {"advance", "final", "adjustment"}, amount \in Int :
                Book(s, type, amount)
<1>1. CASE UNCHANGED payoutVars
  BY <1>1 DEF payoutVars, tables
<1>2. ASSUME NEW s \in Sales, NEW u \in Users, NEW earnings \in Earnings,
             CreateSale(s, u, earnings)
      PROVE  Goal
  BY <1>2 DEF CreateSale, Books, PayoutsTypeOK
<1>3. ASSUME NEW a \in Admins, ReconcileSale(a) PROVE Goal
  <2>1. PICK s \in Sales : /\ sale[s] = "PENDING" /\ UNCHANGED info
                           /\ Approve(s) \/ Reject(s)
    <3>1. admin[a] \in [step : {"reconcile"}, sale : Sales, decision : {"APPROVED", "REJECTED"}]
      BY <1>3 DEF ReconcileSale, Waiting, Books, PayoutsTypeOK
    <3> QED BY <1>3, <3>1 DEF ReconcileSale, StillPending
  <2>2. info[s].earnings \in Nat /\ AdvanceOf(s) \in Nat
    BY <2>1, AdvanceBounds, PayoutConstants
       DEF PayoutConstants, AdvanceOf, Books, SaleSound
  <2>3. AdvanceMade(s) \in Nat
    BY <2>2 DEF AdvanceMade
  <2>4. info[s].earnings - AdvanceMade(s) \in Int /\ -AdvanceMade(s) \in Int
    BY <2>2, <2>3
  <2>5. \/ UNCHANGED <<accounts, entries>>
        \/ Book(s, "final", info[s].earnings - AdvanceMade(s))
        \/ Book(s, "adjustment", -AdvanceMade(s))
    BY <2>1 DEF Approve, Reject, Adjustment
  <2> QED BY <2>1, <2>4, <2>5
<1>4. ASSUME NEW j \in Jobs, NEW s \in Sales, CreateAdvance(j, s) PROVE Goal
  <2>1. sale[s] # "NONE"
    BY <1>4 DEF CreateAdvance, ComesTo, Books, JobSound
  <2>2. AdvanceOf(s) \in Nat
    BY <2>1, AdvanceBounds, PayoutConstants DEF PayoutConstants, AdvanceOf, Books, SaleSound
  <2>3. AdvanceOf(s) \in Int
    BY <2>2
  <2> QED BY <1>4, <2>3 DEF CreateAdvance
<1>5. CASE UNCHANGED <<accounts, info, entries>>
  BY <1>5
<1> QED
  BY <1>1, <1>2, <1>3, <1>4, <1>5
     DEF PayoutsNext, AdminStep, JobStep, LoadSale, ReconcileFails, StartRun, FetchPage, VisitSale,
         SkipSale, SendPayout, FetchPayouts, SettlePayout, SkipPayout, AbortRun, JobOnly, tables

\* In a sound state what the sales have brought a user is a natural number.
LEMMA BroughtNat == Books => \A v \in Users : Brought(v) \in Nat
<1> SUFFICES ASSUME Books, NEW u \in Users PROVE Brought(u) \in Nat
  OBVIOUS
<1> DEFINE f == [s \in Sales |-> Credit(s)]
           S == {s \in Sales : info[s].user = u}
<1>1. IsFiniteSet(S) /\ \A s \in S : f[s] \in Nat
  BY CreditNat, FS_Subset, PayoutConstants DEF PayoutConstants
<1>2. Brought(u) = SumFunctionOnSet(f, S)
  BY DEF Brought
<1> HIDE DEF f, S
<1> QED BY <1>1, <1>2, SumNat

\* The same of the next state.
LEMMA BroughtNatNext == Books' => \A v \in Users : Brought(v)' \in Nat
<1>1. (Books => \A v \in Users : Brought(v) \in Nat)'
  BY BroughtNat, PTL
<1> QED BY <1>1

\* No step moves the ledger away from what the sales have brought, whatever
\* else is booked there.
LEMMA BroughtMoves ==
    ASSUME Books, [PayoutsNext]_payoutVars, NEW u \in Users
    PROVE  ledgerSum'[u] - Brought(u)' = ledgerSum[u] - Brought(u)
<1> DEFINE f == [s \in Sales |-> Credit(s)]
           S == {s \in Sales : info[s].user = u}
           g == [s \in Sales |-> Credit(s)']
           T == {s \in Sales : info'[s].user = u}
<1>1. Books /\ Books'
  BY BooksNext
<1>2. (\A s \in S : f[s] \in Nat) /\ (\A s \in T : g[s] \in Nat)
  <2>1. \A s \in Sales : Credit(s) \in Nat
    BY CreditNat
  <2>2. \A s \in Sales : Credit(s)' \in Nat
    <3>1. (Books => \A s \in Sales : Credit(s) \in Nat)'
      BY CreditNat, PTL
    <3> QED BY <1>1, <3>1
  <2> QED BY <2>1, <2>2
<1>3. IsFiniteSet(S) /\ IsFiniteSet(T)
  BY FS_Subset, PayoutConstants DEF PayoutConstants
<1>4. Brought(u) = SumFunctionOnSet(f, S) /\ Brought(u)' = SumFunctionOnSet(g, T)
  BY DEF Brought
<1>5. AccountsTypeOK
  BY DEF Books, PayoutsTypeOK
<1>6. SumFunctionOnSet(f, S) \in Nat /\ SumFunctionOnSet(g, T) \in Nat
  <2> HIDE DEF f, S, g, T
  <2> QED BY <1>2, <1>3, SumNat
<1>7. ASSUME NEW s \in Sales,
             \A t \in Sales \ {s} : info'[t] = info[t] /\ Credit(t)' = Credit(t)
      PROVE  SumFunctionOnSet(g, T) = SumFunctionOnSet(f, S) - Part(f, S, s) + Part(g, T, s)
  <2>1. T \ {s} = S \ {s}
    BY <1>7
  <2>2. \A t \in S \ {s} : g[t] = f[t]
    BY <1>7
  <2> HIDE DEF f, S, g, T
  <2>3. (\A t \in S : f[t] \in Int) /\ (\A t \in T : g[t] \in Int)
    BY <1>2
  <2> QED BY <1>3, <2>1, <2>2, <2>3, SumMoves
<1>8. CASE UNCHANGED <<accounts, info, entries>>
  <2>1. f = g /\ S = T
    BY <1>8 DEF Credit
  <2> QED BY <1>4, <1>6, <1>8, <2>1 DEF accounts
<1>9. ASSUME UNCHANGED <<accounts, entries>>,
             NEW s \in Sales, sale[s] = "NONE", \A t \in Sales \ {s} : info'[t] = info[t]
      PROVE  ledgerSum'[u] - Brought(u)' = ledgerSum[u] - Brought(u)
  <2>1. Credit(s) = 0
    BY <1>9 DEF Books, PayoutsTypeOK, SaleSound, AdvanceMade, Credit
  <2>2. \A t \in Sales : Credit(t)' = Credit(t)
    BY <1>9 DEF Credit
  <2>3. Part(f, S, s) = 0 /\ Part(g, T, s) = 0
    BY <2>1, <2>2 DEF Part
  <2>4. SumFunctionOnSet(g, T) = SumFunctionOnSet(f, S) - Part(f, S, s) + Part(g, T, s)
    BY <1>7, <1>9, <2>2
  <2> HIDE DEF f, S, g, T
  <2>5. Brought(u)' = Brought(u)
    BY <1>4, <1>6, <2>3, <2>4
  <2> QED BY <1>9, <2>5 DEF accounts
<1>10. ASSUME UNCHANGED info,
              NEW s \in Sales, NEW type \in {"advance", "final", "adjustment"}, NEW amount \in Int,
              Book(s, type, amount)
       PROVE  ledgerSum'[u] - Brought(u)' = ledgerSum[u] - Brought(u)
  <2>1. /\ Credit(s)' = Credit(s) + amount
        /\ \A t \in Sales \ {s} : Credit(t)' = Credit(t)
    BY <1>10, BookCredits
  <2>2. SumFunctionOnSet(g, T) = SumFunctionOnSet(f, S) - Part(f, S, s) + Part(g, T, s)
    BY <1>7, <1>10, <2>1
  <2>3. Credit(s) \in Nat
    BY CreditNat
  <2>4. Part(g, T, s) - Part(f, S, s) = IF info[s].user = u THEN amount ELSE 0
    BY <1>10, <2>1, <2>3 DEF Part
  <2>5. Part(g, T, s) \in Int /\ Part(f, S, s) \in Int
    BY <1>2 DEF Part
  <2>6. info[s].user \in Users
    BY DEF Books, PayoutsTypeOK
  <2>7. ledgerSum'[u] = ledgerSum[u] + (IF info[s].user = u THEN amount ELSE 0)
    BY <1>5, <1>10, <2>6 DEF Book, RecordMovement, CreateEntry, AccountsTypeOK
  <2>8. ledgerSum[u] \in Int
    BY <1>5 DEF AccountsTypeOK
  <2> HIDE DEF f, S, g, T
  <2> QED BY <1>4, <1>6, <2>2, <2>4, <2>5, <2>7, <2>8
<1> QED BY <1>8, <1>9, <1>10, BookingShape

\* Initially no sale has brought anything.
LEMMA BroughtInit ==
    ASSUME NEW u \in Users, \A s \in Sales : Credit(s) = 0
    PROVE  Brought(u) = 0
<1> DEFINE f == [s \in Sales |-> Credit(s)]
           S == {s \in Sales : info[s].user = u}
<1>1. IsFiniteSet(S) /\ \A s \in S : f[s] = 0
  BY FS_Subset, PayoutConstants DEF PayoutConstants
<1> HIDE DEF f, S
<1>2. SumFunctionOnSet(f, S) = 0
  BY <1>1, SumZero
<1> QED BY <1>2 DEF Brought, f, S

\* Cache, ledger and sales tell the same sum: a sale is never negative on
\* balance, so the sum is not, and the clamp of the cache never acts.
THEOREM BooksBalance == PayoutsSpec => []BooksAgree
<1>1. PayoutsInit => BooksAgree
  <2> SUFFICES ASSUME PayoutsInit, NEW u \in Users
               PROVE  Synced(u) /\ ledgerSum[u] = Brought(u)
    BY DEF BooksAgree
  <2>1. \A s \in Sales : Credit(s) = 0
    BY DEF PayoutsInit, NothingBooked, Credit
  <2> QED BY <2>1, BroughtInit DEF PayoutsInit, Synced
<1>2. Books /\ BooksAgree /\ [PayoutsNext]_payoutVars => BooksAgree'
  <2> SUFFICES ASSUME Books, BooksAgree, [PayoutsNext]_payoutVars, NEW u \in Users
               PROVE  Synced(u)' /\ ledgerSum'[u] = Brought(u)'
    BY DEF BooksAgree
  <2>1. /\ AccountsTypeOK /\ AccountsTypeOK'
        /\ Synced(u) /\ ledgerSum[u] = Brought(u)
    BY BooksNext DEF Books, PayoutsTypeOK, BooksAgree
  <2>2. /\ ledgerSum[u] \in Int /\ ledgerSum'[u] \in Int
        /\ Brought(u)' \in Nat
    BY <2>1, BooksNext, BroughtNatNext DEF AccountsTypeOK
  <2>3. ledgerSum'[u] = Brought(u)' /\ ledgerSum'[u] \in Nat
    BY <2>1, <2>2, BroughtMoves
  <2>4. CASE UNCHANGED accounts
    BY <2>1, <2>3, <2>4 DEF accounts, Synced
  <2>5. ASSUME NEW s \in Sales, NEW type, NEW amount \in Int, Book(s, type, amount)
        PROVE  Synced(u)'
    BY <2>1, <2>3, <2>5
       DEF Book, RecordMovement, CreateEntry, UpdateBalance, Clamp, AccountsTypeOK, Synced
  <2> QED BY <2>3, <2>4, <2>5, BookingShape
<1> QED BY <1>1, <1>2, BooksAlways, PTL DEF PayoutsSpec

\* What has been taken back from u again: the sum, never positive, of the
\* NEGATIVE_ADJUSTMENT entries.
Adjusted(u) ==
    SumFunctionOnSet([s \in Sales |-> entries[s].adjustment], {s \in Sales : info[s].user = u})

\* What the sales have brought is what was credited and what was taken back.
LEMMA BroughtParts ==
    ASSUME Books, NEW u
    PROVE  /\ Brought(u) = Granted(u) + Adjusted(u)
           /\ Granted(u) \in Int /\ Adjusted(u) \in Int
<1> DEFINE f == [s \in Sales |-> entries[s].advance + entries[s].final]
           g == [s \in Sales |-> entries[s].adjustment]
           h == [s \in Sales |-> Credit(s)]
           S == {s \in Sales : info[s].user = u}
<1>1. IsFiniteSet(S)
  BY FS_Subset, PayoutConstants DEF PayoutConstants
<1>2. \A s \in S : f[s] \in Int /\ g[s] \in Int /\ h[s] = f[s] + g[s]
  BY DEF Books, PayoutsTypeOK, Credit
<1>3. Brought(u) = SumFunctionOnSet(h, S)
  BY DEF Brought
<1>4. Granted(u) = SumFunctionOnSet(f, S)
  BY DEF Granted
<1>5. Adjusted(u) = SumFunctionOnSet(g, S)
  BY DEF Adjusted
<1> HIDE DEF f, g, h, S
<1>6. SumFunctionOnSet(h, S) = SumFunctionOnSet(f, S) + SumFunctionOnSet(g, S)
  BY <1>1, <1>2, SumAdds
<1>7. SumFunctionOnSet(f, S) \in Int /\ SumFunctionOnSet(g, S) \in Int
  BY <1>1, <1>2, SumInt
<1> QED BY <1>3, <1>4, <1>5, <1>6, <1>7

\* Initially nothing has been taken back.
LEMMA AdjustedInit ==
    ASSUME NEW u, \A s \in Sales : entries[s].adjustment = 0
    PROVE  Adjusted(u) = 0
<1> DEFINE f == [s \in Sales |-> entries[s].adjustment]
           S == {s \in Sales : info[s].user = u}
<1>1. IsFiniteSet(S) /\ \A s \in S : f[s] = 0
  BY FS_Subset, PayoutConstants DEF PayoutConstants
<1>2. Adjusted(u) = SumFunctionOnSet(f, S)
  BY DEF Adjusted
<1> HIDE DEF f, S
<1> QED BY <1>1, <1>2, SumZero

\* A step that concerns one sale moves the sum of the adjustments by what that
\* sale contributes.
LEMMA AdjustedMoves ==
    ASSUME Books, Books', NEW u, NEW s \in Sales,
           \A t \in Sales \ {s} :
                info'[t] = info[t] /\ entries'[t].adjustment = entries[t].adjustment
    PROVE  Adjusted(u)' = Adjusted(u)
                - (IF info[s].user = u THEN entries[s].adjustment ELSE 0)
                + (IF info'[s].user = u THEN entries'[s].adjustment ELSE 0)
<1> DEFINE f == [t \in Sales |-> entries[t].adjustment]
           S == {t \in Sales : info[t].user = u}
           g == [t \in Sales |-> entries'[t].adjustment]
           T == {t \in Sales : info'[t].user = u}
<1>1. IsFiniteSet(S)
  BY FS_Subset, PayoutConstants DEF PayoutConstants
<1>2. (\A t \in S : f[t] \in Int) /\ (\A t \in T : g[t] \in Int)
  BY DEF Books, PayoutsTypeOK
<1>3. T \ {s} = S \ {s} /\ \A t \in S \ {s} : g[t] = f[t]
  OBVIOUS
<1>4. Adjusted(u) = SumFunctionOnSet(f, S) /\ Adjusted(u)' = SumFunctionOnSet(g, T)
  BY DEF Adjusted
<1>5. /\ Part(f, S, s) = IF info[s].user = u THEN entries[s].adjustment ELSE 0
      /\ Part(g, T, s) = IF info'[s].user = u THEN entries'[s].adjustment ELSE 0
  BY DEF Part
<1> HIDE DEF f, S, g, T
<1>6. SumFunctionOnSet(g, T) = SumFunctionOnSet(f, S) - Part(f, S, s) + Part(g, T, s)
  BY <1>1, <1>2, <1>3, SumMoves
<1> QED BY <1>4, <1>5, <1>6

\* Only a booking of that type moves a sale's adjustment.
LEMMA BookAdjusts ==
    ASSUME Books, NEW s \in Sales, NEW type \in {"advance", "final", "adjustment"},
           NEW amount \in Int, Book(s, type, amount)
    PROVE  /\ entries'[s].adjustment =
                entries[s].adjustment + (IF type = "adjustment" THEN amount ELSE 0)
           /\ \A t \in Sales \ {s} : entries'[t] = entries[t]
<1>1. /\ entries \in [Sales -> [advance : Nat, final : Nat, adjustment : Int]]
      /\ entries' = [entries EXCEPT ![s][type] = @ + amount]
  BY DEF Books, PayoutsTypeOK, Book
<1>2. \A t \in Sales \ {s} : entries'[t] = entries[t]
  BY <1>1
<1>3. entries[s] \in [advance : Nat, final : Nat, adjustment : Int]
  BY <1>1
<1>4. CASE type = "adjustment"
  <2>1. entries' = [entries EXCEPT ![s]["adjustment"] = @ + amount]
    BY <1>1, <1>4
  <2>2. entries'[s] = [entries[s] EXCEPT !.adjustment = entries[s].adjustment + amount]
    BY <1>1, <2>1
  <2> QED BY <1>2, <1>3, <1>4, <2>2
<1>5. CASE type = "advance"
  <2>1. entries' = [entries EXCEPT ![s]["advance"] = @ + amount]
    BY <1>1, <1>5
  <2>2. entries'[s] = [entries[s] EXCEPT !.advance = entries[s].advance + amount]
    BY <1>1, <2>1
  <2> QED BY <1>2, <1>3, <1>5, <2>2
<1>6. CASE type = "final"
  <2>1. entries' = [entries EXCEPT ![s]["final"] = @ + amount]
    BY <1>1, <1>6
  <2>2. entries'[s] = [entries[s] EXCEPT !.final = entries[s].final + amount]
    BY <1>1, <2>1
  <2> QED BY <1>2, <1>3, <1>6, <2>2
<1> QED BY <1>4, <1>5, <1>6
-----------------------------------------------------------------------------
(* The theorem about the gateway                                           *)

\* With a gateway that keeps its keys, all its clients know the same answer
\* for a sale's advance, and that answer is what happened to the money and
\* what a settled payout says.
GatewaySound(s) ==
    /\ transfers[s] <= 1
    /\ \A j, k \in Jobs : answers[j][s] = answers[k][s]
    /\ \A j \in Jobs : transfers[s] = IF answers[j][s] = "paid" THEN 1 ELSE 0
    /\ advance[s] = "COMPLETED" =>
        transfers[s] = 1 /\ \A j \in Jobs : answers[j][s] = "paid"
    /\ advance[s] = "FAILED" =>
        transfers[s] = 0 /\ \A j \in Jobs : answers[j][s] = "refused"

\* A job writes down the answer that the gateway has kept.
AnswerKept(j) ==
    job[j].phase = "settle" => answers[j][job[j].result[1]] = job[j].result[2]

Truth ==
    /\ \A s \in Sales : GatewaySound(s)
    /\ \A j \in Jobs : AnswerKept(j)

\* Every step but a call of the gateway and the settlement of its answer.
LEMMA GatewayRests ==
    ASSUME Truth, UNCHANGED gateway,
           \A s \in Sales : advance'[s] \in {"COMPLETED", "FAILED"} => advance'[s] = advance[s],
           \A j \in Jobs : job'[j].phase = "settle" => job'[j] = job[j]
    PROVE  Truth'
<1>1. ASSUME NEW s \in Sales PROVE GatewaySound(s)'
  BY DEF Truth, GatewaySound, gateway
<1>2. ASSUME NEW j \in Jobs PROVE AnswerKept(j)'
  BY DEF Truth, AnswerKept, gateway
<1> QED BY <1>1, <1>2 DEF Truth

\* A job that does not come to settle disturbs nothing.
LEMMA JobOnlyTrue ==
    ASSUME Books, Truth, NEW j \in Jobs, NEW state, JobOnly(j, state), state.phase # "settle"
    PROVE  Truth'
<1>1. /\ UNCHANGED gateway /\ UNCHANGED advance
      /\ \A k \in Jobs : job'[k].phase = "settle" => job'[k] = job[k]
  BY DEF JobOnly, tables, Books, PayoutsTypeOK
<1> QED BY <1>1, GatewayRests

\* A call of the gateway keeps what is known of it true.
LEMMA SendPayoutTrue ==
    ASSUME GatewayKeeps, Books, Truth, NEW j \in Jobs, NEW s \in Sales, SendPayout(j, s)
    PROVE  Truth'
<1>1. PICK answer \in {"paid", "refused"} :
        /\ \/ /\ KeyUnknown(j, s)
              /\ Remember(j, s, answer)
              /\ transfers' = [transfers EXCEPT ![s] = IF answer = "paid" THEN @ + 1 ELSE @]
           \/ /\ ~KeyUnknown(j, s) /\ answer = answers[j][s]
              /\ UNCHANGED gateway
        /\ job' = [job EXCEPT ![j] = [@ EXCEPT !.phase = "settle", !.result = <<s, answer>>]]
        /\ UNCHANGED advance
  BY DEF SendPayout, tables
<1>2. /\ PayoutsTypeOK
      /\ \A k \in Jobs : answers[k] \in [Sales -> {"none", "paid", "refused"}]
      /\ \A k \in Jobs : job[k] \in JobState
  BY DEF Books, PayoutsTypeOK
<1>3. /\ job'[j].phase = "settle" /\ job'[j].result = <<s, answer>>
      /\ \A k \in Jobs \ {j} : job'[k] = job[k]
  BY <1>1, <1>2 DEF PayoutsTypeOK, JobState
<1>4. CASE ~KeyUnknown(j, s) /\ answer = answers[j][s] /\ UNCHANGED gateway
  <2>1. ASSUME NEW t \in Sales PROVE GatewaySound(t)'
    BY <1>1, <1>4 DEF Truth, GatewaySound, gateway
  <2>2. ASSUME NEW k \in Jobs PROVE AnswerKept(k)'
    BY <1>3, <1>4 DEF Truth, AnswerKept, gateway
  <2> QED BY <2>1, <2>2 DEF Truth
<1>5. CASE /\ KeyUnknown(j, s)
           /\ Remember(j, s, answer)
           /\ transfers' = [transfers EXCEPT ![s] = IF answer = "paid" THEN @ + 1 ELSE @]
  <2>1. \A k \in Jobs : answers'[k] = [answers[k] EXCEPT ![s] = answer]
    BY <1>5 DEF Remember
  <2>2. \A k \in Jobs : answers'[k][s] = answer /\ \A t \in Sales \ {s} : answers'[k][t] = answers[k][t]
    BY <1>2, <2>1
  <2>3. \A k \in Jobs : answers[k][s] = "none"
    BY <1>5 DEF KeyUnknown, Truth, GatewaySound
  <2>4. transfers[s] = 0 /\ advance[s] \notin {"COMPLETED", "FAILED"}
    BY <2>3 DEF Truth, GatewaySound
  <2>5. /\ transfers'[s] = IF answer = "paid" THEN 1 ELSE 0
        /\ \A t \in Sales \ {s} : transfers'[t] = transfers[t]
    BY <1>2, <1>5, <2>4 DEF PayoutsTypeOK
  <2>6. ASSUME NEW t \in Sales PROVE GatewaySound(t)'
    <3>1. CASE t = s
      BY <1>1, <2>2, <2>4, <2>5, <3>1 DEF GatewaySound
    <3>2. CASE t # s
      BY <1>1, <2>2, <2>5, <3>2 DEF Truth, GatewaySound
    <3> QED BY <3>1, <3>2
  <2>7. ASSUME NEW k \in Jobs PROVE AnswerKept(k)'
    <3>1. CASE k = j
      BY <1>3, <2>2, <3>1 DEF AnswerKept
    <3>2. CASE k # j
      <4>1. SUFFICES ASSUME job[k].phase = "settle"
                     PROVE  answers'[k][job[k].result[1]] = job[k].result[2]
        BY <1>3, <3>2 DEF AnswerKept
      <4>2. job[k].result \in Sales \X {"paid", "refused"}
        BY <1>2, <4>1 DEF Books, JobSound, JobState
      <4>3. job[k].result[1] # s
        BY <2>3, <4>1, <4>2 DEF Truth, AnswerKept
      <4> QED BY <2>2, <4>1, <4>2, <4>3 DEF Truth, AnswerKept
    <3> QED BY <3>1, <3>2
  <2> QED BY <2>6, <2>7 DEF Truth
<1> QED BY <1>1, <1>4, <1>5

\* Writing down the answer keeps it true.
LEMMA SettlePayoutTrue ==
    ASSUME Books, Truth, NEW j \in Jobs, SettlePayout(j)
    PROVE  Truth'
<1>1. PICK s \in Sales, answer \in {"paid", "refused"} :
        job[j].result = <<s, answer>> /\ job[j].phase = "settle"
  <2>1. job[j] \in JobState /\ JobSound(j) /\ job[j].phase = "settle"
    BY DEF SettlePayout, Books, PayoutsTypeOK
  <2>2. job[j].result \in Sales \X {"paid", "refused"}
    BY <2>1 DEF JobSound, JobState
  <2> QED BY <2>1, <2>2
<1>2. /\ advance' = [advance EXCEPT ![s] = Outcome(answer)]
      /\ job' = [job EXCEPT ![j] = AfterPayout(j, s)]
      /\ UNCHANGED gateway
  BY <1>1 DEF SettlePayout
<1>3. AfterPayout(j, s).phase # "settle"
  BY GoesOn
<1>4. \A k \in Jobs : answers[k][s] = answer
  BY <1>1 DEF Truth, AnswerKept, GatewaySound
<1>5. ASSUME NEW t \in Sales PROVE GatewaySound(t)'
  <2>1. CASE t = s
    <3>1. advance'[s] = Outcome(answer)
      BY <1>2 DEF Books, PayoutsTypeOK
    <3>2. transfers[s] = IF answer = "paid" THEN 1 ELSE 0
      BY <1>4 DEF Truth, GatewaySound
    <3> QED BY <1>2, <1>4, <2>1, <3>1, <3>2 DEF Truth, GatewaySound, gateway, Outcome
  <2>2. CASE t # s
    BY <1>2, <2>2 DEF Truth, GatewaySound, gateway, Books, PayoutsTypeOK
  <2> QED BY <2>1, <2>2
<1>6. ASSUME NEW k \in Jobs PROVE AnswerKept(k)'
  <2>1. CASE k = j
    BY <1>2, <1>3, <2>1 DEF AnswerKept, Books, PayoutsTypeOK
  <2>2. CASE k # j
    BY <1>2, <2>2 DEF Truth, AnswerKept, gateway, Books, PayoutsTypeOK
  <2> QED BY <2>1, <2>2
<1> QED BY <1>5, <1>6 DEF Truth

\* So does every step of the job.
LEMMA JobTrue ==
    ASSUME GatewayKeeps, Books, Truth, NEW j \in Jobs, JobStep(j)
    PROVE  Truth'
<1>1. job[j] \in JobState /\ JobSound(j) /\ job \in [Jobs -> JobState]
  BY DEF Books, PayoutsTypeOK
<1>2. CASE StartRun(j)
  <2>1. /\ UNCHANGED answers
        /\ \A k \in Jobs : job'[k].phase = "settle" => job'[k] = job[k]
    BY <1>1, <1>2 DEF StartRun, JobState, Books, PayoutsTypeOK
  <2> QED BY <1>2, <2>1, GatewayRests DEF StartRun, tables, gateway
<1>3. CASE FetchPage(j)
  <2> DEFINE visiting == [job[j] EXCEPT !.phase = "visit", !.page = Page(job[j].offset)]
             sending == [job[j] EXCEPT !.phase = "payouts"]
  <2>1. visiting.phase # "settle" /\ sending.phase # "settle"
    BY <1>1 DEF JobState
  <2>2. JobOnly(j, visiting) \/ JobOnly(j, sending) \/ JobOnly(j, Resting)
    BY <1>3 DEF FetchPage
  <2> HIDE DEF visiting, sending
  <2> QED BY <2>1, <2>2, RestingSound, JobOnlyTrue
<1>4. ASSUME NEW s \in Sales, VisitSale(j, s) PROVE Truth'
  <2>1. [job[j] EXCEPT !.phase = "insert"].phase # "settle"
    BY <1>1 DEF JobState
  <2> QED BY <1>4, <2>1, JobOnlyTrue DEF VisitSale
<1>5. ASSUME NEW s \in Sales, CreateAdvance(j, s) PROVE Truth'
  <2>1. [Behind(j, s) EXCEPT !.created = TRUE].phase # "settle"
    <3>1. Behind(j, s) \in JobState /\ Behind(j, s).phase # "settle"
      BY GoesOn
    <3> QED BY <3>1 DEF JobState
  <2>2. \A k \in Jobs : job'[k].phase = "settle" => job'[k] = job[k]
    BY <1>1, <1>5, <2>1 DEF CreateAdvance
  <2>3. \A t \in Sales : advance'[t] \in {"COMPLETED", "FAILED"} => advance'[t] = advance[t]
    BY <1>5 DEF CreateAdvance, Books, PayoutsTypeOK
  <2> QED BY <1>5, <2>2, <2>3, GatewayRests DEF CreateAdvance
<1>6. ASSUME NEW s \in Sales, SkipSale(j, s) PROVE Truth'
  BY <1>6, GoesOn, JobOnlyTrue DEF SkipSale
<1>7. ASSUME NEW s \in Sales, SendPayout(j, s) PROVE Truth'
  BY <1>7, SendPayoutTrue
<1>8. CASE FetchPayouts(j)
  <2>1. PICK queue \in SUBSET Unsent :
            JobOnly(j, IF queue = {} THEN Resting
                       ELSE [job[j] EXCEPT !.phase = "send", !.page = queue])
    BY <1>8 DEF FetchPayouts
  <2> DEFINE sending == [job[j] EXCEPT !.phase = "send", !.page = queue]
  <2>2. sending.phase # "settle"
    BY <1>1 DEF JobState
  <2>3. JobOnly(j, sending) \/ JobOnly(j, Resting)
    BY <2>1
  <2> HIDE DEF sending
  <2> QED BY <2>2, <2>3, RestingSound, JobOnlyTrue
<1>9. CASE SettlePayout(j)
  BY <1>9, SettlePayoutTrue
<1>10. CASE SkipPayout(j)
  <2>1. PICK s \in Sales : JobOnly(j, AfterPayout(j, s))
    BY <1>1, <1>10 DEF SkipPayout, JobSound, JobState
  <2> QED BY <2>1, GoesOn, JobOnlyTrue
<1>11. CASE AbortRun(j)
  BY <1>11, RestingSound, JobOnlyTrue DEF AbortRun
<1> QED BY <1>2, <1>3, <1>4, <1>5, <1>6, <1>7, <1>8, <1>9, <1>10, <1>11 DEF JobStep

\* Truth is inductive, given the books.
LEMMA TruthNext == GatewayKeeps /\ Books /\ Truth /\ [PayoutsNext]_payoutVars => Truth'
<1> SUFFICES ASSUME GatewayKeeps, Books, Truth, [PayoutsNext]_payoutVars PROVE Truth'
  OBVIOUS
<1>1. CASE UNCHANGED payoutVars
  BY <1>1, GatewayRests DEF payoutVars, tables
<1>2. ASSUME NEW s \in Sales, NEW u \in Users, NEW earnings \in Earnings,
             CreateSale(s, u, earnings)
      PROVE  Truth'
  BY <1>2, GatewayRests DEF CreateSale
<1>3. ASSUME NEW a \in Admins, AdminStep(a) PROVE Truth'
  BY <1>3, GatewayRests DEF AdminStep, LoadSale, ReconcileSale, ReconcileFails, tables
<1>4. ASSUME NEW j \in Jobs, JobStep(j) PROVE Truth'
  BY <1>4, JobTrue
<1> QED BY <1>1, <1>2, <1>3, <1>4 DEF PayoutsNext

\* If the gateway keeps its keys, it pays an advance at most once and the
\* payout's status is what happened there, however many processes send the
\* same payout and wherever one of them dies.
THEOREM PayoutTrue == GatewayKeeps => (PayoutsSpec => []PayoutTellsTruth)
<1> SUFFICES ASSUME GatewayKeeps PROVE PayoutsSpec => []PayoutTellsTruth
  OBVIOUS
<1>1. PayoutsInit => Truth
  BY DEF PayoutsInit, Truth, GatewaySound, AnswerKept, NoAnswers, Resting
<1>2. Books /\ Truth /\ [PayoutsNext]_payoutVars => Truth'
  BY TruthNext
<1>3. Truth => PayoutTellsTruth
  BY DEF Truth, GatewaySound, PayoutTellsTruth, PaidOnce
<1> QED BY <1>1, <1>2, <1>3, BooksAlways, PTL DEF PayoutsSpec
=============================================================================
