--------------------------- MODULE MCWithdrawals ---------------------------
(***************************************************************************)
(* Instances of Withdrawals for TLC.                                       *)
(***************************************************************************)
EXTENDS Withdrawals

\* Every user starts with three units: a withdrawal of two leaves one, which a
\* second debit of two takes below zero and the clamp rounds up.
MCOpening == [u \in Users |-> 3]
=============================================================================
