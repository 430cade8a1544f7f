--------------------------- MODULE StateMachines ---------------------------
(***************************************************************************)
(* The status life cycles of app/core/state_machines.py.  Each machine is  *)
(* the set of its legal <<current, target>> pairs; a status with no        *)
(* outgoing pair is terminal.                                              *)
(***************************************************************************)

SaleTransitions == {"PENDING"} \X {"APPROVED", "REJECTED"}

PayoutTransitions == {"PENDING"} \X {"COMPLETED", "FAILED"}

\* Mutant: a pending withdrawal may be rejected directly.
TransitionsWithDirectReject ==
    ({"PENDING"} \X {"PROCESSING", "CANCELLED", "REJECTED"}) \cup
    ({"PROCESSING"} \X {"COMPLETED", "FAILED", "REJECTED"})

WithdrawalTransitions ==
    ({"PENDING"} \X {"PROCESSING", "CANCELLED"}) \cup
    ({"PROCESSING"} \X {"COMPLETED", "FAILED", "REJECTED"})

\* can_transition; validate_transition raises exactly when it is FALSE.
CanTransition(machine, current, target) == <<current, target>> \in machine

WithdrawalStatuses ==
    {"PENDING", "PROCESSING", "COMPLETED", "FAILED", "CANCELLED", "REJECTED"}

\* The statuses in which a withdrawal's money has been given back.
Reversed == {"FAILED", "REJECTED", "CANCELLED"}

\* The statuses get_recent_withdrawal looks for: the money is on its way out
\* or has left.
Live == WithdrawalStatuses \ Reversed
=============================================================================
