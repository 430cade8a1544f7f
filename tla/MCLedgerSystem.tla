--------------------------- MODULE MCLedgerSystem ---------------------------
(***************************************************************************)
(* Instances of LedgerSystem for TLC.                                      *)
(***************************************************************************)
EXTENDS LedgerSystem, TLC

\* Ids, keys and users are interchangeable.
MCSystemSymmetry == Permutations(Wids) \cup Permutations(Keys) \cup Permutations(Users)
=============================================================================
