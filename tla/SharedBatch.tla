---------------------------- MODULE SharedBatch ----------------------------
(***************************************************************************)
(* What in-place transactions promise their callers, without saying how:   *)
(* participants of the open batch come and go, each leaving with a vote,   *)
(* and the last to leave settles the batch.  It is sent to the database in *)
(* one piece when nobody voted against it, and dropped otherwise.  Without *)
(* an open batch an update is sent by itself.                              *)
(*                                                                         *)
(* rdfservice.h:812-816 and 596-616 describe this for sharing transactions *)
(* and for a commit or rollback of one.  Transaction implements it.        *)
(***************************************************************************)
EXTENDS Naturals, Sequences

CONSTANT Participant    \* whoever can take part in a batch

VARIABLES
  participants,   \* those taking part in the open batch, {} when none is open
  against,        \* whether one of them left with a vote against the batch
  recorded,       \* the updates of the open batch
  written,        \* how many updates were issued
  sent,           \* the requests sent to the database, each a set of updates
  dropped         \* the updates of batches that were dropped

vars == <<participants, against, recorded, written, sent, dropped>>

Init ==
  /\ participants = {}
  /\ against = FALSE
  /\ recorded = {}
  /\ written = 0
  /\ sent = <<>>
  /\ dropped = {}

Write ==
  /\ written' = written + 1
  /\ IF participants = {}
     THEN sent' = Append(sent, {written + 1}) /\ UNCHANGED recorded
     ELSE recorded' = recorded \cup {written + 1} /\ UNCHANGED sent
  /\ UNCHANGED <<participants, against, dropped>>

\* Somebody opens a batch or takes part in the open one.
Enter(p) ==
  /\ p \notin participants
  /\ participants' = participants \cup {p}
  /\ UNCHANGED <<against, recorded, written, sent, dropped>>

\* A participant leaves while others go on.
Leave(p, vote) ==
  /\ p \in participants /\ participants # {p}
  /\ participants' = participants \ {p}
  /\ against' = (against \/ ~vote)
  /\ UNCHANGED <<recorded, written, sent, dropped>>

\* The last participant leaves, and the batch is settled.
Settle(p, vote) ==
  /\ participants = {p}
  /\ participants' = {}
  /\ against' = FALSE
  /\ recorded' = {}
  /\ \/ /\ against \/ ~vote
        /\ dropped' = dropped \cup recorded
        /\ UNCHANGED sent
     \/ /\ vote /\ ~against
        /\ sent' = IF recorded = {} THEN sent ELSE Append(sent, recorded)
        /\ UNCHANGED dropped
  /\ UNCHANGED written

Next ==
  \/ Write
  \/ \E p \in Participant :
       Enter(p) \/ \E vote \in BOOLEAN : Leave(p, vote) \/ Settle(p, vote)

Spec == Init /\ [][Next]_vars

=============================================================================
