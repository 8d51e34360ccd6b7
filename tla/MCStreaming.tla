---------------------------- MODULE MCStreaming ----------------------------
(***************************************************************************)
(* Instances of Streaming for TLC.                                         *)
(***************************************************************************)
EXTENDS Streaming

\* No limit, a limit within the rows, and one beyond them.
MCLimits == {-1, 3, 9}

\* The limit set programmatically to RDFSelect::NoLimit.
MCDisabled == {0}

=============================================================================
