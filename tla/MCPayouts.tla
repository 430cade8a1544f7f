----------------------------- MODULE MCPayouts -----------------------------
(***************************************************************************)
(* Instances of Payouts for TLC.                                           *)
(***************************************************************************)
EXTENDS Payouts, TLC

\* Administrators, jobs and users are interchangeable (safety runs only).
MCPayoutSymmetry == Permutations(Admins) \cup Permutations(Jobs) \cup Permutations(Users)
=============================================================================
