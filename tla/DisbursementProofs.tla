------------------------- MODULE DisbursementProofs -------------------------
(***************************************************************************)
(* With a gateway that keeps its keys, Payouts implements Disbursement.    *)
(***************************************************************************)
EXTENDS PayoutsProofs

\* Only what has been credited is on its way to the gateway or known there.
Credited ==
    /\ \A j \in Jobs : job[j].phase \in {"send", "settle"} =>
            \A s \in job[j].page : advance[s] # "NONE"
    /\ \A j \in Jobs, s \in Sales : answers[j][s] # "none" => advance[s] # "NONE"

\* Advances are never taken off the tables.
AdvancesStay == \A s \in Sales : advance[s] # "NONE" => advance'[s] # "NONE"
-----------------------------------------------------------------------------
\* A step of a job that carries only credited advances towards the gateway.
LEMMA CarriesCredited ==
    ASSUME Books, Credited, AdvancesStay, UNCHANGED answers,
           NEW j \in Jobs, NEW state,
           job' = [job EXCEPT ![j] = state],
           state.phase \in {"send", "settle"} =>
                state.page \subseteq Sales /\ \A s \in state.page : advance[s] # "NONE"
    PROVE  Credited'
<1>1. ASSUME NEW k \in Jobs, job'[k].phase \in {"send", "settle"}, NEW s \in job'[k].page
      PROVE  advance'[s] # "NONE"
  <2>1. CASE k = j
    BY <1>1, <2>1 DEF AdvancesStay, Books, PayoutsTypeOK
  <2>2. CASE k # j
    <3>1. job'[k] = job[k]
      BY <2>2 DEF Books, PayoutsTypeOK
    <3>2. s \in Sales /\ advance[s] # "NONE"
      BY <1>1, <3>1 DEF Credited, Books, PayoutsTypeOK, JobState
    <3> QED BY <3>2 DEF AdvancesStay
  <2> QED BY <2>1, <2>2
<1>2. \A k \in Jobs, s \in Sales : answers'[k][s] # "none" => advance'[s] # "NONE"
  BY DEF Credited, AdvancesStay
<1> QED BY <1>1, <1>2 DEF Credited

\* The same for a step that only moves the job.
LEMMA OnlyCarriesCredited ==
    ASSUME Books, Credited, NEW j \in Jobs, NEW state, JobOnly(j, state),
           state.phase \in {"send", "settle"} =>
                state.page \subseteq Sales /\ \A s \in state.page : advance[s] # "NONE"
    PROVE  Credited'
<1>1. AdvancesStay /\ UNCHANGED answers /\ job' = [job EXCEPT ![j] = state]
  BY DEF JobOnly, tables, gateway, AdvancesStay
<1> QED BY <1>1, CarriesCredited

\* Behind a payout only payouts of the same page are left.
LEMMA AfterPayoutCredited ==
    ASSUME Books, Credited, NEW j \in Jobs, NEW s \in Sales,
           job[j].phase \in {"send", "settle"}
    PROVE  AfterPayout(j, s).phase \in {"send", "settle"} =>
                /\ AfterPayout(j, s).page \subseteq Sales
                /\ \A t \in AfterPayout(j, s).page : advance[t] # "NONE"
<1>1. job[j] \in JobState
  BY DEF Books, PayoutsTypeOK
<1>2. AfterPayout(j, s).page \subseteq job[j].page
  BY <1>1, RestingSound DEF AfterPayout, JobState
<1> QED BY <1>1, <1>2 DEF Credited, JobState

\* A call of the gateway is made for an advance that has been credited.
LEMMA SendPayoutCredited ==
    ASSUME GatewayKeeps, Books, Credited, NEW j \in Jobs, NEW s \in Sales, SendPayout(j, s)
    PROVE  Credited'
<1>1. /\ job[j].phase = "send" /\ s \in job[j].page /\ UNCHANGED advance
      /\ advance[s] # "NONE"
  BY DEF SendPayout, tables, Credited
<1>2. PICK answer \in {"paid", "refused"} :
        /\ Remember(j, s, answer) \/ UNCHANGED answers
        /\ job' = [job EXCEPT ![j] = [@ EXCEPT !.phase = "settle", !.result = <<s, answer>>]]
  BY DEF SendPayout, gateway
<1>3. ASSUME NEW k \in Jobs, job'[k].phase \in {"send", "settle"}, NEW t \in job'[k].page
      PROVE  advance'[t] # "NONE"
  <2>1. job'[k].page = job[k].page /\ (k # j => job'[k].phase = job[k].phase)
    BY <1>2 DEF Books, PayoutsTypeOK, JobState
  <2>2. job[k].phase \in {"send", "settle"}
    BY <1>1, <1>3, <2>1
  <2> QED BY <1>1, <1>3, <2>1, <2>2 DEF Credited
<1>4. ASSUME NEW k \in Jobs, NEW t \in Sales, answers'[k][t] # "none"
      PROVE  advance'[t] # "NONE"
  <2>1. t = s \/ answers'[k][t] = answers[k][t]
    BY <1>2 DEF Remember, Books, PayoutsTypeOK
  <2> QED BY <1>1, <1>4, <2>1 DEF Credited
<1> QED BY <1>3, <1>4 DEF Credited

\* Every step of a job keeps what it holds about credited advances.
LEMMA JobCredited ==
    ASSUME GatewayKeeps, Books, Credited, NEW j \in Jobs, JobStep(j)
    PROVE  Credited'
<1>1. job[j] \in JobState /\ JobSound(j) /\ job \in [Jobs -> JobState]
  BY DEF Books, PayoutsTypeOK
<1>2. CASE StartRun(j)
  <2> DEFINE state == [job[j] EXCEPT !.phase = "paging"]
  <2>1. state.phase = "paging" /\ job' = [job EXCEPT ![j] = state]
    BY <1>1, <1>2 DEF StartRun, JobState
  <2>2. UNCHANGED answers /\ AdvancesStay
    BY <1>2 DEF StartRun, tables, AdvancesStay, Books, PayoutsTypeOK
  <2> HIDE DEF state
  <2> QED BY <2>1, <2>2, CarriesCredited
<1>3. CASE FetchPage(j)
  <2> DEFINE visiting == [job[j] EXCEPT !.phase = "visit", !.page = Page(job[j].offset)]
             sending == [job[j] EXCEPT !.phase = "payouts"]
  <2>1. visiting.phase = "visit" /\ sending.phase = "payouts"
    BY <1>1 DEF JobState
  <2>2. JobOnly(j, visiting) \/ JobOnly(j, sending) \/ JobOnly(j, Resting)
    BY <1>3 DEF FetchPage
  <2> HIDE DEF visiting, sending
  <2> QED BY <2>1, <2>2, RestingSound, OnlyCarriesCredited
<1>4. ASSUME NEW s \in Sales, VisitSale(j, s) PROVE Credited'
  <2>1. [job[j] EXCEPT !.phase = "insert"].phase = "insert"
    BY <1>1 DEF JobState
  <2> QED BY <1>4, <2>1, OnlyCarriesCredited DEF VisitSale
<1>5. ASSUME NEW s \in Sales PROVE Behind(j, s) \in JobState /\ Behind(j, s).phase \in {"visit", "paging"}
  <2>1. Behind(j, s) \in JobState
    BY GoesOn
  <2>2. Behind(j, s).phase = IF job[j].page \ {s} = {} THEN "paging" ELSE "visit"
    BY <1>1 DEF Behind, JobState
  <2> QED BY <2>1, <2>2
<1>6. ASSUME NEW s \in Sales, CreateAdvance(j, s) PROVE Credited'
  <2> DEFINE state == [Behind(j, s) EXCEPT !.created = TRUE]
  <2>1. state.phase \in {"visit", "paging"}
    BY <1>5 DEF JobState
  <2>2. job' = [job EXCEPT ![j] = state] /\ UNCHANGED answers
    BY <1>6 DEF CreateAdvance, gateway
  <2>3. AdvancesStay
    BY <1>6 DEF CreateAdvance, AdvancesStay, Books, PayoutsTypeOK
  <2> HIDE DEF state
  <2> QED BY <2>1, <2>2, <2>3, CarriesCredited
<1>7. ASSUME NEW s \in Sales, SkipSale(j, s) PROVE Credited'
  BY <1>5, <1>7, OnlyCarriesCredited DEF SkipSale
<1>8. ASSUME NEW s \in Sales, SendPayout(j, s) PROVE Credited'
  BY <1>8, SendPayoutCredited
<1>9. CASE FetchPayouts(j)
  <2>1. PICK queue \in SUBSET Unsent :
            JobOnly(j, IF queue = {} THEN Resting
                       ELSE [job[j] EXCEPT !.phase = "send", !.page = queue])
    BY <1>9 DEF FetchPayouts
  <2> DEFINE sending == [job[j] EXCEPT !.phase = "send", !.page = queue]
  <2>2. sending.page \subseteq Sales /\ \A s \in sending.page : advance[s] # "NONE"
    BY <1>1 DEF Unsent, JobState
  <2>3. JobOnly(j, sending) \/ JobOnly(j, Resting)
    BY <2>1
  <2> HIDE DEF sending
  <2> QED BY <2>2, <2>3, RestingSound, OnlyCarriesCredited
<1>10. CASE SettlePayout(j)
  <2> DEFINE s == job[j].result[1]
             target == Outcome(job[j].result[2])
  <2>1. /\ job[j].phase = "settle" /\ s \in Sales
        /\ advance' = [advance EXCEPT ![s] = target]
        /\ job' = [job EXCEPT ![j] = AfterPayout(j, s)]
        /\ UNCHANGED answers
    BY <1>1, <1>10 DEF SettlePayout, gateway, JobSound, JobState
  <2>2. target # "NONE"
    BY DEF Outcome
  <2> HIDE DEF s, target
  <2>3. AdvancesStay
    BY <2>1, <2>2 DEF AdvancesStay, Books, PayoutsTypeOK
  <2> QED BY <2>1, <2>3, AfterPayoutCredited, CarriesCredited
<1>11. CASE SkipPayout(j)
  <2>1. PICK s \in Sales :
            job[j].phase \in {"send", "settle"} /\ JobOnly(j, AfterPayout(j, s))
    BY <1>1, <1>11 DEF SkipPayout, JobSound, JobState
  <2> QED BY <2>1, AfterPayoutCredited, OnlyCarriesCredited
<1>12. CASE AbortRun(j)
  BY <1>12, RestingSound, OnlyCarriesCredited DEF AbortRun
<1> QED BY <1>2, <1>3, <1>4, <1>6, <1>7, <1>8, <1>9, <1>10, <1>11, <1>12 DEF JobStep

\* Credited is inductive, given the books.
LEMMA CreditedNext ==
    GatewayKeeps /\ Books /\ Credited /\ [PayoutsNext]_payoutVars => Credited'
<1> SUFFICES ASSUME GatewayKeeps, Books, Credited, [PayoutsNext]_payoutVars PROVE Credited'
  OBVIOUS
<1>1. CASE UNCHANGED <<advance, job, gateway>>
  BY <1>1 DEF Credited, gateway
<1>2. ASSUME NEW j \in Jobs, JobStep(j) PROVE Credited'
  BY <1>2, JobCredited
<1> QED
  BY <1>1, <1>2 DEF PayoutsNext, payoutVars, tables, CreateSale, AdminStep, LoadSale,
     ReconcileSale, ReconcileFails
-----------------------------------------------------------------------------
(* The refinement                                                          *)

\* A step that touches neither payouts nor gateway stutters.
LEMMA QuietStutters ==
    ASSUME Books, Books', UNCHANGED <<advance, gateway>>,
           \A s \in Sales : advance[s] # "NONE" => info'[s] = info[s]
    PROVE  UNCHANGED Abstract!disbursement
<1>1. [s \in Sales |-> StageOf(s)]' = [s \in Sales |-> StageOf(s)]
  BY DEF StageOf
<1>2. [s \in Sales |-> entries[s].advance]' = [s \in Sales |-> entries[s].advance]
  <2>1. /\ \A s \in Sales : entries[s].advance = AdvanceMade(s)
        /\ \A s \in Sales : entries'[s].advance = AdvanceMade(s)'
    BY DEF Books, SaleSound
  <2>2. \A s \in Sales : AdvanceMade(s)' = AdvanceMade(s)
    BY DEF AdvanceMade, AdvanceOf
  <2> QED BY <2>1, <2>2
<1>3. [s \in Sales |-> VerdictOn(s)]' = [s \in Sales |-> VerdictOn(s)]
  BY DEF VerdictOn, gateway
<1>4. transfers' = transfers
  BY DEF gateway
<1> QED BY <1>1, <1>2, <1>3, <1>4 DEF Abstract!disbursement

\* The credit of an advance grants it.
LEMMA CreateGrants ==
    ASSUME Books, Books', NEW j \in Jobs, NEW s \in Sales, CreateAdvance(j, s)
    PROVE  \E amount \in {AdvanceAmount(earnings) : earnings \in Earnings} :
                Abstract!Grant(s, amount)
<1>1. /\ advance[s] = "NONE" /\ advance' = [advance EXCEPT ![s] = "PENDING"]
      /\ UNCHANGED <<info, gateway>>
      /\ s \in job[j].page
  BY DEF CreateAdvance, UniqueAdvance, ComesTo
<1>2. info[s].earnings \in Earnings
  BY <1>1 DEF Books, JobSound, SaleSound
<1>3. advance \in [Sales -> {"NONE", "PENDING", "COMPLETED", "FAILED"}]
  BY DEF Books, PayoutsTypeOK
<1>4. [t \in Sales |-> StageOf(t)]' = [[t \in Sales |-> StageOf(t)] EXCEPT ![s] = "credited"]
  BY <1>1, <1>3 DEF StageOf
<1>5. [t \in Sales |-> entries[t].advance]' =
            [[t \in Sales |-> entries[t].advance] EXCEPT ![s] = AdvanceOf(s)]
  <2>1. /\ \A t \in Sales : entries[t].advance = AdvanceMade(t)
        /\ \A t \in Sales : entries'[t].advance = AdvanceMade(t)'
    BY DEF Books, SaleSound
  <2>2. \A t \in Sales : AdvanceMade(t)' = IF t = s THEN AdvanceOf(s) ELSE AdvanceMade(t)
    BY <1>1, <1>3 DEF AdvanceMade, AdvanceOf
  <2> QED BY <2>1, <2>2
<1>6. [t \in Sales |-> VerdictOn(t)]' = [t \in Sales |-> VerdictOn(t)] /\ transfers' = transfers
  BY <1>1 DEF VerdictOn, gateway
<1>7. [t \in Sales |-> StageOf(t)][s] = "none"
  BY <1>1 DEF StageOf
<1>8. Abstract!Grant(s, AdvanceOf(s))
  BY <1>4, <1>5, <1>6, <1>7 DEF Abstract!Grant
<1>9. AdvanceOf(s) \in {AdvanceAmount(earnings) : earnings \in Earnings}
  BY <1>2 DEF AdvanceOf
<1> QED BY <1>8, <1>9 DEF Abstract!Grant

\* A call with a new key decides a credited advance; a repeated one stutters.
LEMMA SendDecides ==
    ASSUME GatewayKeeps, Books, Truth, Credited, Truth', Books',
           NEW j \in Jobs, NEW s \in Sales, SendPayout(j, s)
    PROVE  Abstract!Pay(s) \/ Abstract!Refuse(s) \/ UNCHANGED Abstract!disbursement
<1>1. PICK answer \in {"paid", "refused"} :
        \/ /\ KeyUnknown(j, s)
           /\ Remember(j, s, answer)
           /\ transfers' = [transfers EXCEPT ![s] = IF answer = "paid" THEN @ + 1 ELSE @]
        \/ UNCHANGED gateway
  BY DEF SendPayout
<1>2. /\ job[j].phase = "send" /\ s \in job[j].page
      /\ UNCHANGED <<advance, info, entries>>
  BY DEF SendPayout, tables
<1>3. CASE UNCHANGED gateway
  BY <1>2, <1>3, QuietStutters
<1>4. CASE /\ KeyUnknown(j, s)
           /\ Remember(j, s, answer)
           /\ transfers' = [transfers EXCEPT ![s] = IF answer = "paid" THEN @ + 1 ELSE @]
  <2>1. \A k \in Jobs : answers[k] \in [Sales -> {"none", "paid", "refused"}]
    BY DEF Books, PayoutsTypeOK
  <2>2. /\ \A k \in Jobs : answers'[k] = [answers[k] EXCEPT ![s] = answer]
        /\ \A k \in Jobs : answers[k][s] = "none"
    BY <1>4 DEF Remember, KeyUnknown, Truth, GatewaySound
  <2>3. /\ \A k \in Jobs : answers'[k][s] = answer
        /\ \A k \in Jobs, t \in Sales \ {s} : answers'[k][t] = answers[k][t]
    BY <2>1, <2>2
  <2>4. transfers[s] = 0 /\ advance[s] = "PENDING"
    BY <1>2, <2>2 DEF Credited, Truth, GatewaySound, Books, PayoutsTypeOK
  <2>5. /\ [t \in Sales |-> StageOf(t)]' = [t \in Sales |-> StageOf(t)]
        /\ [t \in Sales |-> entries[t].advance]' = [t \in Sales |-> entries[t].advance]
    BY <1>2 DEF StageOf
  <2>6. [t \in Sales |-> StageOf(t)][s] = "credited"
    BY <2>4 DEF StageOf
  <2>7. /\ VerdictOn(s) = "none" /\ VerdictOn(s)' = answer
        /\ \A t \in Sales \ {s} : VerdictOn(t)' = VerdictOn(t)
    BY <2>2, <2>3 DEF VerdictOn
  <2>8. /\ [t \in Sales |-> VerdictOn(t)][s] = "none"
        /\ [t \in Sales |-> VerdictOn(t)]' = [[t \in Sales |-> VerdictOn(t)] EXCEPT ![s] = answer]
    BY <2>7
  <2>9. CASE answer = "paid"
    <3>1. transfers' = [transfers EXCEPT ![s] = 1]
      BY <1>4, <2>4, <2>9
    <3> QED BY <2>5, <2>6, <2>8, <2>9, <3>1 DEF Abstract!Pay
  <2>10. CASE answer = "refused"
    <3>1. transfers' = transfers
      BY <1>4, <2>10 DEF Books, PayoutsTypeOK
    <3> QED BY <2>5, <2>6, <2>8, <2>10, <3>1 DEF Abstract!Refuse
  <2> QED BY <2>9, <2>10
<1> QED BY <1>1, <1>3, <1>4

\* The answer that is written down is the verdict.
LEMMA SettleReports ==
    ASSUME Books, Truth, NEW j \in Jobs, SettlePayout(j)
    PROVE  \E s \in Sales : Abstract!Report(s)
<1>1. PICK s \in Sales, answer \in {"paid", "refused"} :
        job[j].result = <<s, answer>> /\ job[j].phase = "settle"
  <2>1. job[j] \in JobState /\ JobSound(j) /\ job[j].phase = "settle"
    BY DEF SettlePayout, Books, PayoutsTypeOK
  <2>2. job[j].result \in Sales \X {"paid", "refused"}
    BY <2>1 DEF JobSound, JobState
  <2> QED BY <2>1, <2>2
<1>2. /\ advance' = [advance EXCEPT ![s] = Outcome(answer)]
      /\ CanTransition(PayoutTransitions, advance[s], Outcome(answer))
      /\ UNCHANGED <<info, entries, gateway>>
  BY <1>1 DEF SettlePayout
<1>3. advance[s] = "PENDING"
  BY <1>2 DEF CanTransition, PayoutTransitions
<1>4. VerdictOn(s) = answer
  BY <1>1 DEF Truth, AnswerKept, GatewaySound, VerdictOn
<1>5. advance \in [Sales -> {"NONE", "PENDING", "COMPLETED", "FAILED"}]
  BY DEF Books, PayoutsTypeOK
<1>6. [t \in Sales |-> StageOf(t)]' = [[t \in Sales |-> StageOf(t)] EXCEPT ![s] = answer]
  BY <1>2, <1>5 DEF StageOf, Outcome
<1>7. /\ [t \in Sales |-> StageOf(t)][s] = "credited"
      /\ [t \in Sales |-> VerdictOn(t)][s] = answer
  BY <1>3, <1>4 DEF StageOf
<1>8. /\ [t \in Sales |-> entries[t].advance]' = [t \in Sales |-> entries[t].advance]
      /\ [t \in Sales |-> VerdictOn(t)]' = [t \in Sales |-> VerdictOn(t)]
      /\ transfers' = transfers
  BY <1>2 DEF VerdictOn, gateway
<1> QED BY <1>6, <1>7, <1>8 DEF Abstract!Report

\* Nothing is credited, decided or on its way at the start.
LEMMA DisbursementInit == PayoutsInit => Truth /\ Credited /\ Abstract!Init
BY DEF PayoutsInit, Truth, GatewaySound, AnswerKept, NoAnswers, Resting, Credited,
       Abstract!Init, StageOf, VerdictOn, NothingBooked

\* Every step is a step of the disbursement, or a stutter.
LEMMA DisbursementStep ==
    ASSUME GatewayKeeps, Books, Books', Truth, Truth', Credited, [PayoutsNext]_payoutVars
    PROVE  [Abstract!Next]_(Abstract!disbursement)
<1>1. ASSUME NEW j \in Jobs, NEW s \in Sales, CreateAdvance(j, s)
      PROVE  Abstract!Next
  BY <1>1, CreateGrants DEF Abstract!Next
<1>2. ASSUME NEW j \in Jobs, NEW s \in Sales, SendPayout(j, s)
      PROVE  [Abstract!Next]_(Abstract!disbursement)
  BY <1>2, SendDecides DEF Abstract!Next
<1>3. ASSUME NEW j \in Jobs, SettlePayout(j)
      PROVE  Abstract!Next
  BY <1>3, SettleReports DEF Abstract!Next
<1>4. CASE /\ UNCHANGED <<advance, gateway>>
           /\ \A s \in Sales : advance[s] # "NONE" => info'[s] = info[s]
  BY <1>4, QuietStutters
<1>5. ASSUME NEW s \in Sales, NEW u \in Users, NEW earnings \in Earnings,
             CreateSale(s, u, earnings)
      PROVE  \A t \in Sales : advance[t] # "NONE" => info'[t] = info[t]
  BY <1>5 DEF CreateSale, Books, SaleSound, PayoutsTypeOK
<1>6. ASSUME NEW j \in Jobs, StartRun(j) PROVE UNCHANGED <<advance, info, gateway>>
  BY <1>6 DEF StartRun, tables, gateway, Books, PayoutsTypeOK
<1>7. ASSUME NEW j \in Jobs,
             \/ FetchPage(j) \/ FetchPayouts(j) \/ SkipPayout(j) \/ AbortRun(j)
             \/ \E s \in Sales : VisitSale(j, s) \/ SkipSale(j, s)
      PROVE  UNCHANGED <<advance, info, gateway>>
  BY <1>7 DEF FetchPage, FetchPayouts, SkipPayout, AbortRun, VisitSale, SkipSale, JobOnly, tables
<1>8. ASSUME NEW a \in Admins, AdminStep(a) PROVE UNCHANGED <<advance, info, gateway>>
  BY <1>8 DEF AdminStep, LoadSale, ReconcileSale, ReconcileFails, tables
<1>9. CASE UNCHANGED payoutVars
  BY <1>4, <1>9 DEF payoutVars, tables
<1>10. ASSUME NEW s \in Sales, NEW u \in Users, NEW earnings \in Earnings,
              CreateSale(s, u, earnings)
       PROVE  UNCHANGED <<advance, gateway>>
  BY <1>10 DEF CreateSale
<1>11. ASSUME NEW j \in Jobs, JobStep(j)
       PROVE  [Abstract!Next]_(Abstract!disbursement)
  BY <1>1, <1>2, <1>3, <1>4, <1>6, <1>7, <1>11 DEF JobStep
<1> QED BY <1>4, <1>5, <1>8, <1>9, <1>10, <1>11 DEF PayoutsNext

\* If the gateway keeps its keys, the advances of any number of sales, handled
\* by any number of processes that die anywhere and repeat each other's calls,
\* are disbursements: credited once, decided once, reported as decided.
THEOREM DisbursementImplemented == GatewayKeeps => (PayoutsSpec => ImplementsDisbursement)
<1> SUFFICES ASSUME GatewayKeeps PROVE PayoutsSpec => ImplementsDisbursement
  OBVIOUS
<1>1. Books /\ Truth /\ [PayoutsNext]_payoutVars => Truth'
  BY TruthNext
<1>2. Books /\ Credited /\ [PayoutsNext]_payoutVars => Credited'
  BY CreditedNext
<1>3. Books /\ Books' /\ Truth /\ Truth' /\ Credited /\ [PayoutsNext]_payoutVars
        => [Abstract!Next]_(Abstract!disbursement)
  BY DisbursementStep
<1> QED
  BY <1>1, <1>2, <1>3, DisbursementInit, BooksAlways, PTL
     DEF PayoutsSpec, ImplementsDisbursement, Abstract!Spec
=============================================================================
