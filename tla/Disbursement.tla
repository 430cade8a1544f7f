---------------------------- MODULE Disbursement ----------------------------
(***************************************************************************)
(* What an advance promises about money, with no word of pages, processes  *)
(* or keys: it is credited once, then the gateway decides once whether the *)
(* money moves, and only then, and in those words, the books report it.    *)
(***************************************************************************)
EXTENDS Integers

CONSTANTS Ids, Sums

VARIABLES
    stage,      \* what the books say: "none", "credited", "paid", "refused"
    owed,       \* the amount credited
    verdict,    \* what the gateway has decided: "none", "paid", "refused"
    moved       \* how often the money has moved

disbursement == <<stage, owed, verdict, moved>>

Init ==
    /\ stage = [i \in Ids |-> "none"]
    /\ owed = [i \in Ids |-> 0]
    /\ verdict = [i \in Ids |-> "none"]
    /\ moved = [i \in Ids |-> 0]

Grant(i, amount) ==
    /\ stage[i] = "none"
    /\ stage' = [stage EXCEPT ![i] = "credited"]
    /\ owed' = [owed EXCEPT ![i] = amount]
    /\ UNCHANGED <<verdict, moved>>

Pay(i) ==
    /\ stage[i] = "credited" /\ verdict[i] = "none"
    /\ verdict' = [verdict EXCEPT ![i] = "paid"]
    /\ moved' = [moved EXCEPT ![i] = 1]
    /\ UNCHANGED <<stage, owed>>

Refuse(i) ==
    /\ stage[i] = "credited" /\ verdict[i] = "none"
    /\ verdict' = [verdict EXCEPT ![i] = "refused"]
    /\ UNCHANGED <<stage, owed, moved>>

Report(i) ==
    /\ stage[i] = "credited" /\ verdict[i] # "none"
    /\ stage' = [stage EXCEPT ![i] = verdict[i]]
    /\ UNCHANGED <<owed, verdict, moved>>

Next ==
    \E i \in Ids :
        \/ \E amount \in Sums : Grant(i, amount)
        \/ Pay(i)
        \/ Refuse(i)
        \/ Report(i)

Spec == Init /\ [][Next]_disbursement
=============================================================================
