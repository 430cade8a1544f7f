------------------------------- MODULE Escrow -------------------------------
(***************************************************************************)
(* What a withdrawal promises about money, with no word of tables, retries *)
(* or workers: the amount is set aside once, and from there it is either   *)
(* paid out or returned to its owner, once and for good.                   *)
(***************************************************************************)
EXTENDS Integers

CONSTANTS Owners, Ids, Sums, Opening, None

VARIABLES
    hold,       \* "none", "held", "paid" or "returned"
    stake,      \* whose money it is and how much, None before it is held
    book        \* what each owner has

escrow == <<hold, stake, book>>

Init ==
    /\ hold = [i \in Ids |-> "none"]
    /\ stake = [i \in Ids |-> None]
    /\ book = Opening

SetAside(i, u, a) ==
    /\ hold[i] = "none"
    /\ hold' = [hold EXCEPT ![i] = "held"]
    /\ stake' = [stake EXCEPT ![i] = [user |-> u, amount |-> a]]
    /\ book' = [book EXCEPT ![u] = @ - a]

PayOut(i) ==
    /\ hold[i] = "held"
    /\ hold' = [hold EXCEPT ![i] = "paid"]
    /\ UNCHANGED <<stake, book>>

GiveBack(i) ==
    /\ hold[i] = "held"
    /\ hold' = [hold EXCEPT ![i] = "returned"]
    /\ book' = [book EXCEPT ![stake[i].user] = @ + stake[i].amount]
    /\ UNCHANGED stake

Next ==
    \E i \in Ids :
        \/ \E u \in Owners, a \in Sums : a > 0 /\ SetAside(i, u, a)
        \/ PayOut(i)
        \/ GiveBack(i)

Spec == Init /\ [][Next]_escrow
=============================================================================
