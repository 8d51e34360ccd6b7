---------------------------- MODULE MCSequencer ----------------------------
(***************************************************************************)
(* Instances of Sequencer for TLC.  Operations are numbered in the order   *)
(* they are added, so that no symmetry applies.                            *)
(***************************************************************************)
EXTENDS Sequencer
=============================================================================
