--------------------------- MODULE MCTransaction ---------------------------
(***************************************************************************)
(* Instances of Transaction for TLC.  Transaction objects and in-place     *)
(* transactions are interchangeable identities.                            *)
(***************************************************************************)
EXTENDS Transaction, TLC

Symmetry == Permutations(Tx) \cup Permutations(Sub)
=============================================================================
