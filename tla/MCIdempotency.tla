--------------------------- MODULE MCIdempotency ---------------------------
(***************************************************************************)
(* Instances of Idempotency for TLC.                                       *)
(***************************************************************************)
EXTENDS Idempotency, TLC

MCIdempotencySymmetry == Permutations(Keys) \cup Permutations(Threads)
=============================================================================
