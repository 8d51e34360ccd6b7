---------------------------- MODULE BatchProofs ----------------------------
(***************************************************************************)
(* Transaction implements SharedBatch, when callers neither use direct     *)
(* handles nor block in a commit: each call is a step of the batch or      *)
(* leaves it alone.  Then what becomes of the updates, with only as much   *)
(* of these hypotheses as each result needs; and that no call is stuck.    *)
(***************************************************************************)
EXTENDS TransactionProofs

\* The batch as Transaction's variables show it.
Opposed == transaction # NoTx /\ Postponed(transaction)
Recording == IF transaction = NoTx THEN {} ELSE update[transaction]
Sends == [i \in 1..Len(requests) |-> requests[i].ops]

Request == [tx : Tx \cup {NoTx}, ops : SUBSET Op]

\* Callers' assumptions: no direct handles and no blocking commits.
Plain == DirectHandles = FALSE /\ TRUE \notin Blocking

\* No commit is in its event loop.
Waits == {f \in Frame : f.kind = "reinitiate"}
Unblocked == stack \in Seq(Waits)

----------------------------------------------------------------------------
(* The requests as the batch shows them.                                   *)

LEMMA SendsTyped ==
  ASSUME requests \in Seq(Request)
  PROVE  /\ Sends \in Seq(SUBSET Op) /\ Len(Sends) = Len(requests)
         /\ Len(requests) \in Nat
         /\ \A i \in 1..Len(requests) : Sends[i] = requests[i].ops
  <1>1. Len(requests) \in Nat /\ \A i \in 1..Len(requests) : requests[i] \in Request
    BY LenProperties, ElementOfSeq
  <1>2. \A i \in 1..Len(requests) : requests[i].ops \in SUBSET Op
    BY <1>1 DEF Request
  <1>3. Sends \in [1..Len(requests) -> SUBSET Op]
    BY <1>2 DEF Sends
  <1>4. Sends \in Seq(SUBSET Op) /\ Len(Sends) = Len(requests)
    BY <1>1, <1>3
  <1> QED BY <1>1, <1>4 DEF Sends

\* A request more is a set of updates more.
LEMMA SendsAppend ==
  ASSUME requests \in Seq(Request), NEW r \in Request, requests' = Append(requests, r)
  PROVE  Sends' = Append(Sends, r.ops)
  <1>1. /\ Append(requests, r) \in Seq(Request)
        /\ Len(Append(requests, r)) = Len(requests) + 1
        /\ \A i \in 1..Len(requests) : Append(requests, r)[i] = requests[i]
        /\ Append(requests, r)[Len(requests) + 1] = r
    BY AppendProperties
  <1>2. r.ops \in SUBSET Op
    BY DEF Request
  <1>3. /\ Append(Sends, r.ops) \in Seq(SUBSET Op)
        /\ Len(Append(Sends, r.ops)) = Len(requests) + 1
        /\ \A i \in 1..Len(requests) : Append(Sends, r.ops)[i] = requests[i].ops
        /\ Append(Sends, r.ops)[Len(requests) + 1] = r.ops
    BY <1>2, SendsTyped, AppendProperties
  <1>4. Len(requests) \in Nat
    BY SendsTyped
  <1>5. DOMAIN Append(Sends, r.ops) = 1..(Len(requests) + 1)
    BY <1>3, LenProperties
  <1>6. Sends' = [i \in 1..(Len(requests) + 1) |-> Append(requests, r)[i].ops]
    BY <1>1 DEF Sends
  <1>7. \A i \in 1..(Len(requests) + 1) :
          Append(requests, r)[i].ops = Append(Sends, r.ops)[i]
    BY <1>1, <1>3, <1>4
  <1>8. Append(Sends, r.ops) =
          [i \in 1..(Len(requests) + 1) |-> Append(Sends, r.ops)[i]]
    BY <1>3, <1>5, LenProperties
  <1> QED BY <1>6, <1>7, <1>8

----------------------------------------------------------------------------
(* The steps of the batch, in the variables of Transaction.                *)

LEMMA BatchStutters ==
  ASSUME Participants' = Participants, Opposed' <=> Opposed,
         Recording' = Recording, issued' = issued, requests' = requests,
         discarded' = discarded
  PROVE  UNCHANGED Batch!vars
  <1>1. Sends' = Sends /\ Len(issued)' = Len(issued)
    BY DEF Sends
  <1> QED BY <1>1 DEF Batch!vars, Opposed, Postponed, Recording, Sends

LEMMA BatchEntered ==
  ASSUME NEW p \in Tx \cup Sub, p \notin Participants,
         Participants' = Participants \cup {p}, Opposed' <=> Opposed,
         Recording' = Recording, issued' = issued, requests' = requests,
         discarded' = discarded
  PROVE  Batch!Next
  <1>1. Sends' = Sends /\ Len(issued)' = Len(issued)
    BY DEF Sends
  <1>2. Batch!Enter(p)
    BY <1>1 DEF Batch!Enter, Opposed, Postponed, Recording, Sends
  <1> QED BY <1>2 DEF Batch!Next

LEMMA BatchLeft ==
  ASSUME NEW p \in Participants, p \in Tx \cup Sub, NEW vote \in BOOLEAN,
         Participants # {p},
         Participants' = Participants \ {p}, Opposed' <=> Opposed \/ ~vote,
         Recording' = Recording, issued' = issued, requests' = requests,
         discarded' = discarded
  PROVE  Batch!Next
  <1>1. Sends' = Sends /\ Len(issued)' = Len(issued)
    BY DEF Sends
  <1>2. Batch!Leave(p, vote)
    BY <1>1 DEF Batch!Leave, Opposed, Postponed, Recording, Sends
  <1> QED BY <1>2 DEF Batch!Next

LEMMA BatchDropped ==
  ASSUME NEW p \in Tx \cup Sub, NEW vote \in BOOLEAN, Participants = {p},
         transaction' = NoTx, Opposed \/ ~vote,
         discarded' = discarded \cup Recording,
         issued' = issued, requests' = requests
  PROVE  Batch!Next
  <1>1. /\ Sends' = Sends /\ Len(issued)' = Len(issued)
        /\ Participants' = {} /\ Opposed' = FALSE /\ Recording' = {}
    BY DEF Sends, Participants, Opposed, Recording
  <1>2. Batch!Settle(p, vote)
    BY <1>1 DEF Batch!Settle, Opposed, Postponed, Recording, Sends
  <1> QED BY <1>2 DEF Batch!Next

LEMMA BatchSent ==
  ASSUME NEW p \in Tx \cup Sub, Participants = {p}, transaction' = NoTx, ~Opposed,
         Sends' = IF Recording = {} THEN Sends ELSE Append(Sends, Recording),
         issued' = issued, discarded' = discarded
  PROVE  Batch!Next
  <1>1. /\ Len(issued)' = Len(issued)
        /\ Participants' = {} /\ Opposed' = FALSE /\ Recording' = {}
    BY DEF Participants, Opposed, Recording
  <1>2. Batch!Settle(p, TRUE)
    BY <1>1 DEF Batch!Settle, Opposed, Postponed, Recording, Sends
  <1> QED BY <1>2 DEF Batch!Next

----------------------------------------------------------------------------
(* Finishing a Transaction settles the batch; a sharer that goes leaves it. *)

LEMMA CommitSettles ==
  ASSUME Objects, DataTyped, NEW t \in Tx, NEW p \in Tx \cup Sub, Participants = {p},
         Active(t), ~Postponed(t), NEW o, NEW next, NEW m, commit(t, o, FALSE, next, m)
  PROVE  Batch!Next
  <1>1. transaction = t /\ t # NoTx
    BY ObjectsAssumption DEF Objects, ActiveIsCurrent
  <1>2. Recording = update[t] /\ ~Opposed /\ update[t] \in SUBSET Op
    BY <1>1 DEF Recording, Opposed, DataTyped
  <1>3. transaction' = NoTx /\ issued' = issued /\ discarded' = discarded
    BY DEF commit
  <1>4. Sends' = IF update[t] = {} THEN Sends ELSE Append(Sends, update[t])
    <2>1. CASE update[t] = {}
      BY <2>1 DEF commit, Sends
    <2>2. CASE update[t] # {}
      <3>1. PICK r : r = [tx |-> t, ops |-> update[t]]
        OBVIOUS
      <3>2. r \in Request /\ r.ops = update[t]
        BY <1>2, <3>1 DEF Request
      <3>3. requests' = Append(requests, r) /\ requests \in Seq(Request)
        BY <2>2, <3>1 DEF commit, DataTyped, Request
      <3> QED BY <2>2, <3>2, <3>3, SendsAppend
    <2> QED BY <2>1, <2>2
  <1> QED BY <1>2, <1>3, <1>4, BatchSent

LEMMA RollbackSettles ==
  ASSUME Objects, NEW t \in Tx, NEW p \in Tx \cup Sub, Participants = {p}, Active(t),
         NEW vote \in BOOLEAN, Postponed(t) \/ ~vote,
         NEW next, NEW m, rollback(t, next, m)
  PROVE  Batch!Next
  <1>1. transaction = t /\ t # NoTx
    BY ObjectsAssumption DEF Objects, ActiveIsCurrent
  <1>2. Recording = update[t] /\ (Opposed \/ ~vote)
    BY <1>1 DEF Recording, Opposed
  <1>3. /\ transaction' = NoTx /\ discarded' = discarded \cup update[t]
        /\ issued' = issued /\ requests' = requests
    BY DEF rollback, database
  <1> QED BY <1>2, <1>3, BatchDropped

\* commit, rollback and destruction of an active sharer.
LEMMA SharerLeavesBatch ==
  ASSUME Objects, DataTyped, Shared, NEW s \in Sub, Active(s),
         NEW next, NEW m \in Modal,
         "Inactive" \in m[s], \A o \in (Tx \cup Sub) \ {s} : m[o] = mode[o],
         subCommit(s, FALSE, next, m) \/ subRollback(s, next, m),
         \/ UNCHANGED <<parent, held>>
         \/ parent' = [parent EXCEPT ![s] = NoTx] /\ held' = held \ {s}
  PROVE  Batch!Next
  <1> USE ObjectsAssumption
  <1>1. PICK t \in Tx : t = parent[s] /\ t = transaction /\ s \in held
    BY DEF Shared, SharersOfCurrent, Objects, SubsHeld
  <1>2. Active(t) /\ ~Exclusive(t) /\ mode \in Modal
    <2>1. Active(t)
      BY <1>1 DEF Objects, ActiveIsCurrent
    <2>2. ~Exclusive(t)
      BY <1>1 DEF Shared, SharingAgreed
    <2> QED BY <2>1, <2>2 DEF Objects, ObjectsTyped, Modal, Flags
  <1>3. Participants = Sharers(t) /\ s \in Sharers(t)
    BY <1>1, <1>2 DEF Participants, Sharers
  <1>4. CASE active_subs[t] = 1
    <2>1. Participants = {s}
      BY <1>1, <1>3, <1>4, LastSharer DEF Objects
    <2>2. CASE Postponed(t) /\ subCommit(s, FALSE, next, m)
      <3>1. rollback(t, <<>>, m)
        BY <1>1, <1>4, <2>2 DEF subCommit, Postponed
      <3> QED BY <1>2, <2>1, <2>2, <3>1, RollbackSettles
    <2>3. CASE ~Postponed(t) /\ subCommit(s, FALSE, next, m)
      <3>1. commit(t, s, FALSE, next, m)
        BY <1>1, <1>4, <2>3 DEF subCommit, Postponed
      <3> QED BY <1>2, <2>1, <2>3, <3>1, CommitSettles
    <2>4. CASE subRollback(s, next, m)
      <3>1. rollback(t, next, m)
        BY <1>1, <1>4, <2>4 DEF subRollback
      <3> QED BY <1>2, <2>1, <3>1, RollbackSettles
    <2> QED BY <2>2, <2>3, <2>4
  <1>5. CASE active_subs[t] # 1
    <2>1. SharerFinish(s, t)
      BY <1>1, SubCommitFinishes, SubRollbackFinishes
    <2>2. transaction' = t
      BY <1>1, <1>5, <2>1 DEF SharerFinish
    <2>3. ~Exclusive(t)'
      <3>1. \/ mode' = m
            \/ mode' = [m EXCEPT ![t] = @ \cup {"PendingRollback"}]
        BY <1>1, <1>5 DEF subCommit, subRollback, Unfinished
      <3>2. mode'[t] \in {mode[t], mode[t] \cup {"PendingRollback"}}
        BY <1>1, <3>1 DEF Modal
      <3> QED BY <1>2, <3>2 DEF Exclusive
    <2>4. Sharers(t)' = Sharers(t) \ {s}
      <3>1. \A r \in Sub \ {s} : (Active(r)' <=> Active(r)) /\ parent'[r] = parent[r]
        BY <1>1, <2>1 DEF SharerFinish, Objects, ObjectsTyped
      <3>2. ~Active(s)'
        BY <2>1 DEF SharerFinish
      <3> QED BY <3>1, <3>2 DEF Sharers
    <2>5. Participants' = Participants \ {s} /\ Participants # {s}
      BY <1>1, <1>3, <1>5, <2>2, <2>3, <2>4, LastSharer
         DEF Participants, Exclusive, Sharers, Objects
    <2>6. \/ Unfinished(m) /\ subCommit(s, FALSE, next, m)
          \/ Unfinished([m EXCEPT ![t] = @ \cup {"PendingRollback"}])
      BY <1>1, <1>5 DEF subCommit, subRollback
    <2>7. /\ update' = update /\ requests' = requests
          /\ issued' = issued /\ discarded' = discarded
      BY <2>6 DEF Unfinished, database
    <2>8. Recording' = Recording
      BY <1>1, <2>2, <2>7 DEF Recording
    <2>9. CASE Unfinished(m) /\ subCommit(s, FALSE, next, m)
      <3>1. mode'[t] = mode[t]
        BY <2>9 DEF Unfinished
      <3>2. Opposed' <=> Opposed \/ ~TRUE
        BY <1>1, <2>2, <3>1 DEF Opposed, Postponed
      <3> QED BY <1>3, <2>5, <2>7, <2>8, <3>2, BatchLeft
    <2>10. CASE Unfinished([m EXCEPT ![t] = @ \cup {"PendingRollback"}])
      <3>1. "PendingRollback" \in mode'[t]
        BY <2>10 DEF Unfinished, Modal
      <3>2. Opposed' <=> Opposed \/ ~FALSE
        BY <1>1, <2>2, <3>1 DEF Opposed, Postponed
      <3> QED BY <1>3, <2>5, <2>7, <2>8, <3>2, BatchLeft
    <2> QED BY <2>6, <2>9, <2>10
  <1> QED BY <1>4, <1>5

\* Dropping an inactive sharer does not take an active Transaction with it.
LEMMA LeftReferenced ==
  ASSUME Objects, Shared, NEW s \in held \cap Sub, ~Active(s), Active(parent[s]),
         held' = held \ {s}, parent' = [parent EXCEPT ![s] = NoTx]
  PROVE  Referenced(parent[s], held', parent')
  <1> USE ObjectsAssumption
  <1>1. PICK t \in Tx : t = parent[s]
    BY DEF Objects, SubsHeld
  <1>2. transaction = t /\ t # NoTx
    BY <1>1 DEF Objects, ActiveIsCurrent
  <1>3. ~Exclusive(t)
    BY <1>1 DEF Shared, SharingAgreed
  <1>4. PICK r \in Sharers(t) : TRUE
    BY <1>2, <1>3 DEF Shared, NeverOrphaned
  <1>5. r \in held' \cap Sub /\ parent'[r] = t
    BY <1>4 DEF Sharers, Objects, SubsHeld, ObjectsTyped
  <1> QED BY <1>1, <1>5 DEF Referenced

LEMMA FinishSubBatch ==
  ASSUME Plain, Consistent, Shared, NEW s \in Sub, CommitSub(s) \/ RollbackSub(s)
  PROVE  Batch!Next
  <1> USE ObjectsAssumption
  <1>1. PICK m : m = Inactivated(s)
    OBVIOUS
  <1>2. Active(s) /\ UNCHANGED <<parent, held>>
    BY DEF CommitSub, RollbackSub
  <1>3. /\ m \in Modal /\ "Inactive" \in m[s]
        /\ \A o \in (Tx \cup Sub) \ {s} : m[o] = mode[o]
    BY <1>1 DEF Inactivated, Consistent, ObjectsTyped, Modal, Flags, ModeFlags
  <1>4. \A b \in Blocking : b = FALSE
    BY ModesAssumption DEF Plain
  <1>5. PICK next : subCommit(s, FALSE, next, m) \/ subRollback(s, next, m)
    BY <1>1, <1>4 DEF CommitSub, RollbackSub
  <1> QED BY <1>2, <1>3, <1>5, ConsistentParts, SharerLeavesBatch

LEMMA FinishTxBatch ==
  ASSUME Plain, Consistent, Shared, NEW t \in Tx, CommitTx(t) \/ RollbackTx(t)
  PROVE  Batch!Next
  <1> USE ObjectsAssumption
  <1>1. t \in held /\ Active(t) /\ Exclusive(t) /\ ~Postponed(t)
    BY ConsistentParts, HeldUnshared DEF CommitTx, RollbackTx
  <1>2. Participants = {t}
    BY <1>1 DEF Participants, Consistent, ActiveIsCurrent
  <1>3. \A b \in Blocking : b = FALSE
    BY ModesAssumption DEF Plain
  <1>4. PICK next : commit(t, t, FALSE, next, mode) \/ rollback(t, next, mode)
    BY <1>3 DEF CommitTx, RollbackTx
  <1> QED BY <1>1, <1>2, <1>4, ConsistentParts, CommitSettles, RollbackSettles

LEMMA DropTxBatch ==
  ASSUME Consistent, Shared, NEW t \in Tx, DropTx(t)
  PROVE  Batch!Next \/ UNCHANGED Batch!vars
  <1> USE ObjectsAssumption
  <1>1. t \in held /\ held' = held \ {t} /\ Exclusive(t) /\ ~Postponed(t)
    BY ConsistentParts, HeldUnshared DEF DropTx
  <1>2. ~Referenced(t, held', parent)
    BY <1>1, ConsistentParts, HeldUnshared DEF Referenced
  <1>3. DestroyTx(t, mode)
    BY <1>2 DEF DropTx
  <1>4. CASE Active(t)
    <2>1. Participants = {t}
      BY <1>1, <1>4 DEF Participants, Consistent, ActiveIsCurrent
    <2>2. commit(t, t, FALSE, <<>>, mode) \/ rollback(t, <<>>, mode)
      BY <1>3, <1>4 DEF DestroyTx
    <2> QED BY <1>1, <1>4, <2>1, <2>2, ConsistentParts, CommitSettles, RollbackSettles
  <1>5. CASE ~Active(t)
    <2>1. Unfinished(mode)
      BY <1>3, <1>5 DEF DestroyTx
    <2>2. UNCHANGED <<transaction, mode, parent, update>>
      BY <2>1 DEF Unfinished, DropTx
    <2>3. /\ Participants' = Participants /\ (Opposed' <=> Opposed)
          /\ Recording' = Recording
      BY <2>2 DEF Participants, Opposed, Postponed, Recording, Sharers, Active, Exclusive
    <2> QED BY <2>1, <2>3, BatchStutters DEF Unfinished, database
  <1> QED BY <1>4, <1>5

LEMMA DropSubBatch ==
  ASSUME Consistent, Shared, NEW s \in Sub, DropSub(s)
  PROVE  Batch!Next \/ UNCHANGED Batch!vars
  <1> USE ObjectsAssumption
  <1>1. PICK t \in Tx : t = parent[s] /\ s \in held
    BY DEF DropSub, Consistent, SubsHeld
  <1>2. PICK m : m = [mode EXCEPT ![s] = {"Inactive"}]
    OBVIOUS
  <1>3. held' = held \ {s} /\ parent' = [parent EXCEPT ![s] = NoTx]
    BY DEF DropSub
  <1>4. /\ m \in Modal /\ "Inactive" \in m[s]
        /\ \A o \in (Tx \cup Sub) \ {s} : m[o] = mode[o]
    BY <1>2 DEF Consistent, ObjectsTyped, Modal, Flags, ModeFlags
  <1>5. CASE Active(s)
    <2>1. subCommit(s, FALSE, <<>>, m) \/ subRollback(s, <<>>, m)
      BY <1>2, <1>5 DEF DropSub
    <2> QED BY <1>3, <1>4, <1>5, <2>1, ConsistentParts, SharerLeavesBatch
  <1>6. CASE ~Active(s)
    <2>1. Unfinished(m)
      BY <1>1, <1>2, <1>6, ConsistentParts, LeftReferenced DEF DropSub, DestroyTx
    <2>2. /\ transaction' = transaction /\ update' = update
          /\ \A o \in (Tx \cup Sub) \ {s} : mode'[o] = mode[o]
          /\ \A r \in Sub \ {s} : parent'[r] = parent[r]
          /\ ~Active(s)'
      BY <1>3, <1>4, <2>1 DEF Unfinished, Active, Consistent, ObjectsTyped
    <2>3. \A u \in Tx : /\ Exclusive(u)' <=> Exclusive(u)
                        /\ Postponed(u)' <=> Postponed(u)
                        /\ Sharers(u)' = Sharers(u)
      BY <1>6, <2>2 DEF Exclusive, Postponed, Sharers, Active
    <2>4. /\ Participants' = Participants /\ (Opposed' <=> Opposed)
          /\ Recording' = Recording
      <3>1. CASE transaction = NoTx
        BY <2>2, <3>1 DEF Participants, Opposed, Recording
      <3>2. CASE transaction # NoTx
        <4>1. PICK u \in Tx : u = transaction /\ u = transaction'
          BY <2>2, <3>2 DEF Consistent, ObjectsTyped
        <4>2. Participants = IF Exclusive(u) THEN {u} ELSE Sharers(u)
          BY <4>1, <3>2 DEF Participants
        <4>3. Participants' = IF Exclusive(u)' THEN {u} ELSE Sharers(u)'
          BY <4>1, <3>2, <2>2 DEF Participants, Exclusive, Sharers, Active
        <4> QED BY <2>2, <2>3, <3>2, <4>1, <4>2, <4>3 DEF Opposed, Postponed, Recording
      <3> QED BY <3>1, <3>2
    <2> QED BY <2>1, <2>4, BatchStutters DEF Unfinished, database
  <1> QED BY <1>5, <1>6

----------------------------------------------------------------------------
(* Calls that open the batch, join it, write to it, or leave it alone.     *)

\* Calls that change neither the service's transaction nor who shares it.
LEMMA Undisturbed ==
  ASSUME UNCHANGED <<transaction, mode, parent, update, issued, requests, discarded>>
  PROVE  UNCHANGED Batch!vars
  <1>1. /\ Participants' = Participants /\ (Opposed' <=> Opposed)
        /\ Recording' = Recording
    BY DEF Participants, Opposed, Postponed, Recording, Sharers, Active, Exclusive
  <1> QED BY <1>1, BatchStutters

LEMMA ExecuteBatch ==
  ASSUME Consistent, Shared, Execute
  PROVE  Batch!Next
  <1> USE ObjectsAssumption
  <1>1. /\ UNCHANGED <<transaction, mode, parent, discarded>>
        /\ Len(issued) < MaxOps
    BY DEF Execute, objects
  <1>2. /\ Participants' = Participants /\ (Opposed' <=> Opposed)
    BY <1>1 DEF Participants, Opposed, Postponed, Sharers, Active, Exclusive
  <1>3. Len(issued) \in Nat /\ Len(issued) + 1 \in Op
    BY <1>1, BoundsAssumption, LenProperties DEF Consistent, DataTyped, Op
  <1>4. PICK op \in Op : op = Len(issued) + 1
    BY <1>3
  <1>5. Len(issued)' = Len(issued) + 1
    BY <1>3, AppendProperties DEF Execute, Sent, Recorded, Consistent, DataTyped
  <1>6. CASE transaction = NoTx
    <2>1. Participants = {} /\ Recording' = Recording
      BY <1>1, <1>6 DEF Participants, Recording
    <2>2. PICK r : r = [tx |-> NoTx, ops |-> {op}]
      OBVIOUS
    <2>3. r \in Request /\ r.ops = {op}
      BY <2>2 DEF Request
    <2>4. requests' = Append(requests, r) /\ requests \in Seq(Request)
      BY <1>4, <1>6, <2>2 DEF Execute, Sent, Consistent, DataTyped, Request
    <2>5. Sends' = Append(Sends, {op})
      BY <2>3, <2>4, SendsAppend
    <2>6. Batch!Write
      BY <1>1, <1>2, <1>4, <1>5, <2>1, <2>5
         DEF Batch!Write, Opposed, Postponed, Recording, Sends
    <2> QED BY <2>6 DEF Batch!Next
  <1>7. CASE transaction # NoTx
    <2>1. transaction \in Tx /\ Participants # {}
      BY <1>7 DEF Participants, Shared, NeverOrphaned, Consistent, ObjectsTyped
    <2>2. /\ update' = [update EXCEPT ![transaction] = @ \cup {op}]
          /\ requests' = requests
      BY <1>4, <1>7 DEF Execute, Recorded
    <2>3. Recording' = Recording \cup {op}
      BY <1>1, <1>7, <2>1, <2>2 DEF Recording, Consistent, DataTyped
    <2>4. Sends' = Sends
      BY <2>2 DEF Sends
    <2>5. Batch!Write
      BY <1>1, <1>2, <1>4, <1>5, <2>1, <2>3, <2>4
         DEF Batch!Write, Opposed, Postponed, Recording, Sends
    <2> QED BY <2>5 DEF Batch!Next
  <1> QED BY <1>6, <1>7

\* An activation opens a batch for the one who asked for it.
LEMMA ActivationOpens ==
  ASSUME DataTyped, NEW t \in Tx, transaction = NoTx, transaction' = t,
         ~Postponed(t)', update' = [update EXCEPT ![t] = {}],
         NEW p \in Tx \cup Sub, Participants' = {p},
         UNCHANGED <<issued, requests, discarded>>
  PROVE  Batch!Next
  <1>1. /\ Participants = {} /\ (Opposed' <=> Opposed)
        /\ Recording' = Recording
    BY ObjectsAssumption DEF Participants, Opposed, Postponed, Recording, DataTyped
  <1> QED BY <1>1, BatchEntered

\* Somebody joins the active Transaction, or comes to refer to it only.
LEMMA SharerJoinsBatch ==
  ASSUME Objects, NEW s \in Sub, ~Active(s),
         transaction \in Tx, transaction' = transaction, ~Exclusive(transaction),
         \A o \in (Tx \cup Sub) \ {s} : mode'[o] = mode[o],
         \A r \in Sub \ {s} : parent'[r] = parent[r], parent'[s] = transaction,
         UNCHANGED <<update, issued, requests, discarded>>
  PROVE  Batch!Next \/ UNCHANGED Batch!vars
  <1> USE ObjectsAssumption
  <1>1. PICK t \in Tx : t = transaction /\ t = transaction' /\ t # NoTx
    OBVIOUS
  <1>2. mode'[t] = mode[t]
    OBVIOUS
  <1>3. (Opposed' <=> Opposed) /\ Recording' = Recording
    BY <1>1, <1>2 DEF Opposed, Postponed, Recording
  <1>4. Participants = Sharers(t) /\ Participants' = Sharers(t)'
    BY <1>1, <1>2 DEF Participants, Exclusive, Sharers
  <1>5. s \notin Sharers(t)
    BY DEF Sharers
  <1>6. Sharers(t)' = IF Active(s)' THEN Sharers(t) \cup {s} ELSE Sharers(t)
    BY <1>1, <1>5 DEF Sharers, Active
  <1>7. CASE Active(s)'
    BY <1>3, <1>4, <1>5, <1>6, <1>7, BatchEntered
  <1>8. CASE ~Active(s)'
    BY <1>3, <1>4, <1>6, <1>8, BatchStutters
  <1> QED BY <1>7, <1>8

LEMMA ReinitiatedBatch ==
  ASSUME Consistent, Shared, NEW o \in held, Reinitiated(o), held' = held,
         UNCHANGED <<issued, requests, discarded>>
  PROVE  Batch!Next \/ UNCHANGED Batch!vars
  <1> USE ObjectsAssumption
  <1>1. CASE o \in Tx
    <2>1. /\ transaction = NoTx /\ transaction' = o /\ parent' = parent
          /\ mode' = [mode EXCEPT ![o] = @ \ {"Inactive"}]
          /\ update' = [update EXCEPT ![o] = {}]
      BY <1>1 DEF Reinitiated, ReinitiateTx, reinitiate
    <2>2. mode'[o] = mode[o] \ {"Inactive"}
      BY <1>1, <2>1 DEF Consistent, ObjectsTyped
    <2>3. ~Postponed(o)' /\ Exclusive(o)'
      BY <1>1, <2>2, ConsistentParts, HeldUnshared DEF Postponed, Exclusive
    <2>4. Participants' = {o}
      BY <1>1, <2>1, <2>3 DEF Participants, Exclusive
    <2> QED BY <1>1, <2>1, <2>3, <2>4, ActivationOpens DEF Consistent
  <1>2. CASE o \in Sub /\ ReinitiateOwn(o)
    <2>1. PICK t \in Tx : t = parent[o]
      BY <1>2 DEF Consistent, SubsHeld
    <2>2. /\ transaction = NoTx /\ transaction' = t /\ parent' = parent
          /\ mode' = [Activated(o) EXCEPT ![t] = @ \ {"Inactive"}]
          /\ update' = [update EXCEPT ![t] = {}]
      BY <1>2, <2>1 DEF ReinitiateOwn, reinitiate
    <2>3. /\ mode'[t] = mode[t] \ {"Inactive"} /\ mode'[o] = mode[o] \ {"Inactive"}
          /\ \A q \in (Tx \cup Sub) \ {o, t} : mode'[q] = mode[q]
      BY <1>2, <2>2 DEF Activated, Consistent, ObjectsTyped
    <2>4. Active(o)' /\ \A r \in Sub : Active(r)' => r = o
      BY <1>2, <2>2, <2>3, ConsistentParts, NoneActive DEF Shared, Active
    <2>5. ~Exclusive(t)'
      BY <1>2, <2>1, <2>3 DEF Exclusive, Shared, SharingAgreed
    <2>6. ~Postponed(t)'
      BY <2>1, <2>2, <2>3, ConsistentParts, NonePostponed DEF Postponed, Shared
    <2>7. Sharers(t)' = {o}
      BY <1>2, <2>1, <2>2, <2>4 DEF Sharers
    <2>8. Participants' = {o}
      BY <2>2, <2>5, <2>7 DEF Participants, Exclusive, Sharers
    <2> QED BY <1>2, <2>2, <2>6, <2>8, ActivationOpens DEF Consistent
  <1>3. CASE o \in Sub /\ ~Active(o) /\ ReinitiateShared(o)
    <2>1. transaction \in Tx /\ Join(o, transaction) /\ ~Exclusive(transaction)
      BY <1>3, ConsistentParts, JoinsCurrent
    <2>2. /\ parent' = [parent EXCEPT ![o] = transaction]
          /\ mode' = [mode EXCEPT ![o] = @ \ {"Inactive"}]
          /\ UNCHANGED <<transaction, update>>
      BY <2>1 DEF Join, Activated
    <2>3. /\ parent'[o] = transaction
          /\ \A q \in (Tx \cup Sub) \ {o} : mode'[q] = mode[q]
          /\ \A r \in Sub \ {o} : parent'[r] = parent[r]
      BY <1>3, <2>2 DEF Consistent, ObjectsTyped
    <2> QED BY <1>3, <2>1, <2>2, <2>3, ConsistentParts, SharerJoinsBatch
  <1>4. o \in Tx \/ o \in Sub
    BY DEF Consistent, ObjectsTyped
  <1> QED BY <1>1, <1>2, <1>3, <1>4 DEF Reinitiated

LEMMA CreateSharedBatch ==
  ASSUME Consistent, Shared, NEW md \in Modes, CreateShared(md)
  PROVE  Batch!Next \/ UNCHANGED Batch!vars
  <1> USE ObjectsAssumption
  <1>1. PICK s \in Sub \ held :
          /\ parent' = [parent EXCEPT ![s] = transaction]
          /\ mode' = [mode EXCEPT ![s] = md]
    BY DEF CreateShared
  <1>2. /\ transaction \in Tx /\ transaction' = transaction /\ ~Exclusive(transaction)
        /\ UNCHANGED <<update, issued, requests, discarded>>
    BY DEF CreateShared, history, database, canAdopt, Exclusive, Consistent, ObjectsTyped
  <1>3. /\ parent'[s] = transaction /\ ~Active(s)
        /\ \A o \in (Tx \cup Sub) \ {s} : mode'[o] = mode[o]
        /\ \A r \in Sub \ {s} : parent'[r] = parent[r]
    BY <1>1 DEF Consistent, ObjectsTyped, SubsHeld
  <1> QED BY <1>1, <1>2, <1>3, ConsistentParts, SharerJoinsBatch

LEMMA CreateOwnBatch ==
  ASSUME Consistent, Shared, NEW md \in Modes, CreateOwn(md)
  PROVE  Batch!Next \/ UNCHANGED Batch!vars
  <1> USE ObjectsAssumption
  <1>1. PICK t \in Tx :
          /\ ~Exists(t) /\ Created(t, md)
          /\ IF "Inactive" \in md
             THEN UNCHANGED <<transaction, activations>>
             ELSE /\ transaction = NoTx /\ transaction' = t
                  /\ activations' = activations + 1
    BY ConsistentParts, CreateOwnCreates
  <1>2. PICK u \in Tx :
          /\ ~Exists(u) /\ update' = [update EXCEPT ![u] = {}]
          /\ "Inactive" \notin md => transaction' = u
    BY DEF CreateOwn, reinitiate
  <1>3. UNCHANGED <<issued, requests, discarded>>
    BY DEF CreateOwn
  <1>4. CASE "Inactive" \notin md
    <2>1. /\ transaction = NoTx /\ transaction' = t
          /\ update' = [update EXCEPT ![t] = {}] /\ ~Postponed(t)'
      BY <1>1, <1>2, <1>4 DEF Created, Postponed
    <2>2. \A r \in Sub : ~Active(r)
      BY <2>1, ConsistentParts, NoneActive DEF Shared
    <2>3. CASE "Exclusive" \in md
      <3>1. Participants' = {t}
        BY <1>1, <2>1, <2>3 DEF Created, Participants, Exclusive
      <3> QED BY <1>3, <2>1, <3>1, ActivationOpens DEF Consistent
    <2>4. CASE "Exclusive" \notin md
      <3>1. PICK s \in Sub :
              /\ mode'[s] = md /\ parent'[s] = t
              /\ \A o \in (Tx \cup Sub) \ {s, t} : mode'[o] = mode[o]
        BY <1>1, <2>4 DEF Created
      <3>2. Active(s)' /\ \A r \in Sub : Active(r)' => r = s
        BY <1>4, <2>2, <3>1 DEF Active
      <3>3. Sharers(t)' = {s}
        BY <3>1, <3>2 DEF Sharers
      <3>4. Participants' = {s}
        BY <1>1, <2>1, <2>4, <3>3 DEF Created, Participants, Exclusive, Sharers
      <3> QED BY <1>3, <2>1, <3>4, ActivationOpens DEF Consistent
    <2> QED BY <2>3, <2>4
  <1>5. CASE "Inactive" \in md
    <2>1. transaction' = transaction /\ transaction # t /\ transaction # u
      BY <1>1, <1>2, <1>5 DEF Consistent, CurrentExists
    <2>2. CASE transaction = NoTx
      <3>1. /\ Participants' = Participants /\ (Opposed' <=> Opposed)
            /\ Recording' = Recording
        BY <2>1, <2>2 DEF Participants, Opposed, Recording
      <3> QED BY <1>3, <3>1, BatchStutters
    <2>3. CASE transaction # NoTx
      <3>1. PICK c \in Tx \ {t} : c = transaction /\ c = transaction'
        BY <2>1, <2>3 DEF Consistent, ObjectsTyped
      <3>2. mode'[c] = mode[c] /\ update'[c] = update[c]
        BY <1>1, <1>2, <2>1, <3>1 DEF Created, Consistent, DataTyped
      <3>3. \A r \in Sub :
              /\ Active(r)' <=> Active(r)
              /\ Active(r) => parent'[r] = parent[r]
        BY <1>1, <1>5 DEF Created, Active, Consistent, SubsHeld
      <3>4. Sharers(c)' = Sharers(c)
        BY <3>3 DEF Sharers
      <3>5. Participants' = Participants
        <4>1. Participants = IF Exclusive(c) THEN {c} ELSE Sharers(c)
          BY <2>3, <3>1 DEF Participants
        <4>2. Participants' = IF Exclusive(c)' THEN {c} ELSE Sharers(c)'
          BY <2>3, <3>1 DEF Participants, Exclusive, Sharers, Active
        <4> QED BY <3>2, <3>4, <4>1, <4>2 DEF Exclusive
      <3>6. (Opposed' <=> Opposed) /\ Recording' = Recording
        BY <2>3, <3>1, <3>2 DEF Opposed, Postponed, Recording
      <3> QED BY <1>3, <3>5, <3>6, BatchStutters
    <2> QED BY <2>2, <2>3
  <1> QED BY <1>4, <1>5

LEMMA ReturnsBatch ==
  ASSUME Consistent, Shared, Unblocked, Returns
  PROVE  Batch!Next \/ UNCHANGED Batch!vars
  <1>1. stack # <<>> /\ stack' = Tail(stack) /\ held' = held
    BY DEF Returns, ReturnToReinitiate, ReturnFromBlock, objects
  <1>2. Head(stack) \in Waits /\ Head(stack) \in HeldFrame
    BY <1>1, HeadTailProperties DEF Unblocked, Consistent, CallsHeld
  <1>3. ReturnToReinitiate
    BY <1>2 DEF Waits, Returns, ReturnFromBlock
  <1>4. PICK o \in held : o = Head(stack).obj
    BY <1>2 DEF HeldFrame
  <1>5. UNCHANGED <<issued, requests, discarded>>
    BY <1>3 DEF ReturnToReinitiate, database
  <1>6. CASE Reinitiated(o)
    BY <1>1, <1>5, <1>6, ReinitiatedBatch
  <1>7. CASE ~Reinitiated(o)
    <2>1. UNCHANGED <<transaction, mode, parent, update>>
      BY <1>3, <1>4, <1>7 DEF ReturnToReinitiate
    <2> QED BY <1>5, <2>1, Undisturbed
  <1> QED BY <1>6, <1>7

----------------------------------------------------------------------------
(* No commit is ever in its event loop.                                    *)

LEMMA ContinuationWaits ==
  ASSUME NEW o \in Tx \cup Sub, NEW goal, NEW slots \in BOOLEAN
  PROVE  Continuation(goal, o, slots) \in Seq(Waits)
  <1>1. Reinitiation(o, slots) \in Waits
    BY DEF Reinitiation, Waits, Frame
  <1>2. \/ Continuation(goal, o, slots) = <<>>
        \/ Continuation(goal, o, slots) = <<Reinitiation(o, slots)>>
    BY DEF Continuation
  <1>3. <<Reinitiation(o, slots)>> \in Seq(Waits) /\ <<>> \in Seq(Waits)
    BY <1>1, EmptySeq
  <1> QED BY <1>2, <1>3

LEMMA FinishingUnblocked ==
  ASSUME Unblocked, NEW next \in Seq(Waits), NEW t, NEW o, NEW m,
         \/ commit(t, o, FALSE, next, m)
         \/ rollback(t, next, m) \/ rollback(t, <<>>, m)
         \/ Unfinished(m)
  PROVE  Unblocked'
  <1>1. stack' \in {stack, next \o stack, <<>> \o stack}
    BY DEF commit, rollback, Unfinished
  <1>2. next \o stack \in Seq(Waits) /\ <<>> \o stack \in Seq(Waits)
    BY ConcatProperties, EmptySeq DEF Unblocked
  <1>3. Waits' = Waits
    BY DEF Waits, Frame
  <1> QED BY <1>1, <1>2, <1>3 DEF Unblocked

LEMMA SharerUnblocked ==
  ASSUME Unblocked, NEW next \in Seq(Waits), NEW s, NEW m,
         subCommit(s, FALSE, next, m) \/ subRollback(s, next, m)
  PROVE  Unblocked'
  <1>1. PICK t : t = parent[s]
    OBVIOUS
  <1>2. \/ commit(t, s, FALSE, next, m)
        \/ rollback(t, next, m) \/ rollback(t, <<>>, m)
        \/ Unfinished(m)
        \/ Unfinished([m EXCEPT ![t] = @ \cup {"PendingRollback"}])
    BY <1>1 DEF subCommit, subRollback
  <1> QED BY <1>2, FinishingUnblocked

LEMMA NextUnblocked ==
  ASSUME TRUE \notin Blocking, Consistent, Unblocked, [Next]_vars
  PROVE  Unblocked'
  <1>1. \A b \in Blocking : b = FALSE
    BY ModesAssumption
  <1>2. ASSUME stack' = stack PROVE Unblocked'
    BY <1>2 DEF Unblocked, Waits, Frame
  <1>3. <<>> \in Seq(Waits)
    BY EmptySeq
  <1>4. ASSUME NEW s \in Sub, CommitSub(s) \/ RollbackSub(s) PROVE Unblocked'
    <2>1. PICK goal, slots :
            /\ slots \in BOOLEAN
            /\ \/ subCommit(s, FALSE, Continuation(goal, s, slots), Inactivated(s))
               \/ subRollback(s, Continuation(goal, s, slots), Inactivated(s))
      BY <1>1, <1>4 DEF CommitSub, RollbackSub
    <2> QED BY <2>1, ContinuationWaits, SharerUnblocked
  <1>5. ASSUME NEW t \in Tx, CommitTx(t) \/ RollbackTx(t) PROVE Unblocked'
    <2>1. PICK goal, slots :
            /\ slots \in BOOLEAN
            /\ \/ commit(t, t, FALSE, Continuation(goal, t, slots), mode)
               \/ rollback(t, Continuation(goal, t, slots), mode)
      BY <1>1, <1>5 DEF CommitTx, RollbackTx
    <2> QED BY <2>1, ContinuationWaits, FinishingUnblocked
  <1>6. \A t, m : DestroyTx(t, m) =>
          \/ commit(t, t, FALSE, <<>>, m) \/ rollback(t, <<>>, m)
          \/ Unfinished(m)
    BY DEF DestroyTx
  <1>7. ASSUME NEW t \in Tx, DropTx(t) PROVE Unblocked'
    BY <1>3, <1>6, <1>7, FinishingUnblocked DEF DropTx
  <1>8. ASSUME NEW s \in Sub, DropSub(s) PROVE Unblocked'
    <2>1. PICK m : m = [mode EXCEPT ![s] = {"Inactive"}]
      OBVIOUS
    <2>2. \/ subCommit(s, FALSE, <<>>, m) \/ subRollback(s, <<>>, m)
          \/ Unfinished(m) \/ DestroyTx(parent[s], m)
      BY <1>8, <2>1 DEF DropSub
    <2> QED BY <1>3, <1>6, <2>2, FinishingUnblocked, SharerUnblocked
  <1>9. CASE Returns
    <2>1. stack # <<>> /\ stack' = Tail(stack)
      BY <1>9 DEF Returns, ReturnToReinitiate, ReturnFromBlock
    <2> QED BY <2>1, HeadTailProperties DEF Unblocked, Waits, Frame
  <1>10. CASE \/ Execute \/ PendingTransaction \/ CreateTransaction
              \/ \E o \in Tx \cup Sub : Reinitiate(o)
              \/ \E r \in 1..Len(requests) : DatabaseReply(r)
              \/ UNCHANGED vars
    <2>1. stack' = stack
      BY <1>10 DEF Execute, PendingTransaction, CreateTransaction, CreateShared,
                   CreateOwn, Reinitiate, DatabaseReply, vars
    <2> QED BY <1>2, <2>1
  <1> QED BY <1>4, <1>5, <1>7, <1>8, <1>9, <1>10 DEF Next

----------------------------------------------------------------------------
(* The theorems.                                                           *)

LEMMA UnblockedAlways ==
  ASSUME TRUE \notin Blocking
  PROVE  Spec => []Unblocked
  <1>1. Init => Unblocked
    BY EmptySeq DEF Init, Unblocked
  <1>2. Consistent /\ Unblocked /\ [Next]_vars => Unblocked'
    BY NextUnblocked
  <1> QED BY <1>1, <1>2, ConsistentAlways, PTL DEF Spec

LEMMA NextBatch ==
  ASSUME Plain, Consistent, Shared, Unblocked, [Next]_vars
  PROVE  [Batch!Next]_(Batch!vars)
  <1>1. CASE Execute
    BY <1>1, ExecuteBatch
  <1>2. CASE CreateTransaction
    BY <1>2, CreateSharedBatch, CreateOwnBatch DEF CreateTransaction
  <1>3. CASE PendingTransaction
    BY <1>3 DEF PendingTransaction, Plain
  <1>4. CASE \E s \in Sub : CommitSub(s) \/ RollbackSub(s) \/ DropSub(s)
    BY <1>4, FinishSubBatch, DropSubBatch
  <1>5. CASE \E t \in Tx : CommitTx(t) \/ RollbackTx(t) \/ DropTx(t)
    BY <1>5, FinishTxBatch, DropTxBatch
  <1>6. CASE \E o \in Tx \cup Sub : Reinitiate(o)
    <2>1. PICK o : Reinitiate(o)
      BY <1>6
    <2>2. /\ o \in held /\ Reinitiated(o) /\ held' = held
          /\ UNCHANGED <<issued, requests, discarded>>
      BY <2>1 DEF Reinitiate, database
    <2> QED BY <2>2, ReinitiatedBatch
  <1>7. CASE Returns
    BY <1>7, ReturnsBatch
  <1>8. CASE (\E r \in 1..Len(requests) : DatabaseReply(r)) \/ UNCHANGED vars
    <2>1. UNCHANGED <<transaction, mode, parent, update, issued, requests, discarded>>
      BY <1>8 DEF DatabaseReply, vars, objects, database, history
    <2> QED BY <2>1, Undisturbed
  <1> QED BY <1>1, <1>2, <1>3, <1>4, <1>5, <1>6, <1>7, <1>8 DEF Next

\* Transactions with their flags, counters, parents and recycled objects do
\* what SharedBatch promises their callers: the participants of one batch share
\* its fate, which the last of them seals, however they come, go and nest calls.
THEOREM BatchImplemented ==
  ASSUME DirectHandles = FALSE, TRUE \notin Blocking
  PROVE  Spec => ImplementsBatch
  <1>1. Init => Batch!Init
    BY ObjectsAssumption DEF Init, Batch!Init, Participants
  <1>2. Consistent /\ Shared /\ Unblocked /\ [Next]_vars => [Batch!Next]_(Batch!vars)
    BY NextBatch DEF Plain
  <1> QED BY <1>1, <1>2, ConsistentAlways, SharedAlways, UnblockedAlways, PTL
          DEF Spec, ImplementsBatch, Batch!Spec

----------------------------------------------------------------------------
(* What becomes of the updates, whatever handles callers use and however   *)
(* they commit.  A call settles what is recorded, delivers it, writes down  *)
(* one more update, or is the return of a blocking commit (Cut).            *)

Settled ==
  /\ Recording' \subseteq Recording /\ Recording \subseteq Recording' \cup discarded'
  /\ discarded \subseteq discarded'
  /\ Sends' = Sends /\ issued' = issued

Delivered ==
  /\ Recording' = {} /\ Sends' = Append(Sends, Recording)
  /\ UNCHANGED <<issued, discarded>>

WrittenDown ==
  /\ transaction' = transaction /\ (Opposed' <=> Opposed)
  /\ \/ /\ transaction = NoTx /\ Recording' = Recording
        /\ Sends' = Append(Sends, {Len(issued) + 1})
        /\ issued' = Append(issued, 0)
     \/ /\ transaction \in Tx /\ Recording' = Recording \cup {Len(issued) + 1}
        /\ Sends' = Sends
        /\ issued' = Append(issued, activations)
  /\ UNCHANGED <<activations, vetoed, discarded>>

Cut ==
  /\ transaction' = transaction /\ (Opposed' <=> Opposed)
  /\ Recording' \subseteq Recording
  /\ UNCHANGED <<activations, vetoed, issued, requests, discarded>>

Flow == Settled \/ Delivered \/ WrittenDown

\* What the service records in stays, or nothing is recorded afterwards.
LEMMA SettledFlow ==
  ASSUME transaction' = transaction \/ Recording = {},
         transaction' = transaction => Recording' = Recording,
         transaction' # transaction => Recording' = {},
         UNCHANGED <<issued, requests, discarded>>
  PROVE  Flow
  BY DEF Flow, Settled, Sends

LEMMA UnfinishedFlow ==
  ASSUME NEW m, Unfinished(m)
  PROVE  Flow
  <1>1. Recording' = Recording /\ UNCHANGED <<transaction, issued, requests, discarded>>
    BY DEF Unfinished, Recording, database
  <1> QED BY <1>1, SettledFlow

\* A commit takes the service's pointer away before it sends what is recorded.
LEMMA CommitSends ==
  ASSUME Objects, DataTyped, NEW t \in Tx, Active(t),
         NEW o, NEW b, NEW next, NEW m, commit(t, o, b, next, m)
  PROVE  /\ transaction = t /\ t # NoTx /\ transaction' = NoTx
         /\ Recording' = {}
         /\ Sends' = IF Recording = {} THEN Sends ELSE Append(Sends, Recording)
         /\ UNCHANGED <<activations, issued, discarded>>
  <1>1. transaction = t /\ t # NoTx
    BY ObjectsAssumption DEF Objects, ActiveIsCurrent
  <1>2. Recording = update[t] /\ update[t] \in SUBSET Op
    BY <1>1 DEF Recording, DataTyped
  <1>3. transaction' = NoTx /\ UNCHANGED <<activations, issued, discarded>>
    BY DEF commit
  <1>4. Sends' = IF update[t] = {} THEN Sends ELSE Append(Sends, update[t])
    <2>1. CASE update[t] = {}
      BY <2>1 DEF commit, Sends
    <2>2. CASE update[t] # {}
      <3>1. PICK r : r = [tx |-> t, ops |-> update[t]]
        OBVIOUS
      <3>2. r \in Request /\ r.ops = update[t]
        BY <1>2, <3>1 DEF Request
      <3>3. requests' = Append(requests, r) /\ requests \in Seq(Request)
        BY <2>2, <3>1 DEF commit, DataTyped, Request
      <3> QED BY <2>2, <3>2, <3>3, SendsAppend
    <2> QED BY <2>1, <2>2
  <1>5. Recording' = {}
    BY <1>3 DEF Recording
  <1> QED BY <1>1, <1>2, <1>3, <1>4, <1>5

LEMMA CommitFlow ==
  ASSUME Consistent, NEW t \in Tx, NEW o, NEW b, NEW next, NEW m,
         commit(t, o, b, next, m)
  PROVE  Flow
  <1>1. CASE Active(t)
    BY <1>1, CommitSends, ConsistentParts DEF Flow, Settled, Delivered
  <1>2. CASE ~Active(t)
    BY <1>2, UnfinishedFlow DEF commit
  <1> QED BY <1>1, <1>2

LEMMA RollbackFlow ==
  ASSUME Consistent, NEW t \in Tx, NEW next, NEW m, rollback(t, next, m)
  PROVE  Flow
  <1>1. CASE Active(t)
    <2>1. transaction = t /\ t # NoTx
      BY <1>1, ObjectsAssumption DEF Consistent, ActiveIsCurrent
    <2>2. Recording = update[t]
      BY <2>1 DEF Recording
    <2>3. /\ Recording' = {} /\ discarded' = discarded \cup update[t]
          /\ UNCHANGED <<issued, requests>>
      BY <1>1 DEF rollback, database, Recording
    <2> QED BY <2>2, <2>3 DEF Flow, Settled, Sends
  <1>2. CASE ~Active(t)
    BY <1>2, UnfinishedFlow DEF rollback
  <1> QED BY <1>1, <1>2

LEMMA SharerFlow ==
  ASSUME Consistent, NEW s \in Sub, Active(s), NEW b, NEW next, NEW m,
         subCommit(s, b, next, m) \/ subRollback(s, next, m)
  PROVE  Flow
  <1>1. PICK t \in Tx : t = parent[s]
    BY DEF Consistent, SubsHeld
  <1>2. \/ commit(t, s, b, next, m)
        \/ rollback(t, next, m) \/ rollback(t, <<>>, m)
        \/ Unfinished(m)
        \/ Unfinished([m EXCEPT ![t] = @ \cup {"PendingRollback"}])
    BY <1>1 DEF subCommit, subRollback
  <1> QED BY <1>2, CommitFlow, RollbackFlow, UnfinishedFlow

LEMMA DestroyFlow ==
  ASSUME Consistent, NEW t \in Tx, NEW m, DestroyTx(t, m)
  PROVE  Flow
  BY CommitFlow, RollbackFlow, UnfinishedFlow DEF DestroyTx

LEMMA DropFlow ==
  ASSUME Consistent,
         (\E s \in Sub : DropSub(s)) \/ (\E t \in Tx : DropTx(t))
  PROVE  Flow
  <1>1. ASSUME NEW s \in Sub, DropSub(s) PROVE Flow
    <2>1. PICK m : m = [mode EXCEPT ![s] = {"Inactive"}]
      OBVIOUS
    <2>2. s \in held /\ parent[s] \in Tx
      BY <1>1 DEF DropSub, Consistent, SubsHeld
    <2>3. \/ Active(s) /\ (subCommit(s, FALSE, <<>>, m) \/ subRollback(s, <<>>, m))
          \/ Unfinished(m) \/ DestroyTx(parent[s], m)
      BY <1>1, <2>1 DEF DropSub
    <2> QED BY <2>2, <2>3, SharerFlow, UnfinishedFlow, DestroyFlow
  <1>2. ASSUME NEW t \in Tx, DropTx(t) PROVE Flow
    BY <1>2, UnfinishedFlow, DestroyFlow DEF DropTx
  <1> QED BY <1>1, <1>2

LEMMA ReinitiatedFlow ==
  ASSUME Consistent, NEW o \in held, Reinitiated(o),
         UNCHANGED <<issued, requests, discarded>>
  PROVE  Flow
  <1>1. CASE UNCHANGED <<transaction, update>>
    <2>1. Recording' = Recording
      BY <1>1 DEF Recording
    <2> QED BY <1>1, <2>1, SettledFlow
  <1>2. ASSUME NEW t \in Tx, transaction = NoTx, transaction' = t,
               update' = [update EXCEPT ![t] = {}]
        PROVE  Flow
    <2>1. Recording = {} /\ Recording' = {} /\ t # NoTx
      BY <1>2, ObjectsAssumption DEF Recording, Consistent, DataTyped
    <2> QED BY <1>2, <2>1, SettledFlow
  <1>3. o \in Tx \/ (o \notin Tx /\ parent[o] \in Tx)
    BY DEF Consistent, ObjectsTyped, SubsHeld
  <1> QED BY <1>1, <1>2, <1>3 DEF Reinitiated, ReinitiateTx, ReinitiateOwn,
             ReinitiateShared, Join, reinitiate

LEMMA CreateFlow ==
  ASSUME Consistent, NEW md \in Modes, CreateShared(md) \/ CreateOwn(md)
  PROVE  Flow
  <1>1. CASE CreateShared(md)
    <2>1. UNCHANGED <<transaction, update, issued, requests, discarded>>
      BY <1>1 DEF CreateShared, database, history
    <2>2. Recording' = Recording
      BY <2>1 DEF Recording
    <2> QED BY <2>1, <2>2, SettledFlow
  <1>2. CASE CreateOwn(md)
    <2>1. PICK u \in Tx :
            /\ ~Exists(u) /\ update' = [update EXCEPT ![u] = {}]
            /\ IF "Inactive" \in md THEN transaction' = transaction
               ELSE transaction = NoTx /\ transaction' = u
      BY <1>2 DEF CreateOwn, reinitiate
    <2>2. UNCHANGED <<issued, requests, discarded>>
      BY <1>2 DEF CreateOwn
    <2>3. CASE "Inactive" \in md
      <3>1. transaction' = transaction /\ transaction # u
        BY <2>1, <2>3, ObjectsAssumption DEF Consistent, CurrentExists
      <3>2. Recording' = Recording
        BY <2>1, <3>1 DEF Recording, Consistent, ObjectsTyped, DataTyped
      <3> QED BY <2>2, <3>1, <3>2, SettledFlow
    <2>4. CASE "Inactive" \notin md
      <3>1. Recording = {} /\ Recording' = {} /\ transaction' # transaction
        BY <2>1, <2>4, ObjectsAssumption DEF Recording, Consistent, DataTyped
      <3> QED BY <2>2, <3>1, SettledFlow
    <2> QED BY <2>3, <2>4
  <1> QED BY <1>1, <1>2

LEMMA ExecuteWritesDown ==
  ASSUME Consistent, Execute
  PROVE  WrittenDown
  <1> USE ObjectsAssumption
  <1>1. /\ UNCHANGED <<transaction, mode, activations, vetoed, discarded>>
        /\ Len(issued) < MaxOps
    BY DEF Execute, objects
  <1>2. Opposed' <=> Opposed
    BY <1>1 DEF Opposed, Postponed
  <1>3. PICK op \in Op : op = Len(issued) + 1
    BY <1>1, BoundsAssumption, LenProperties DEF Consistent, DataTyped, Op
  <1>4. CASE transaction = NoTx
    <2>1. Recording' = Recording /\ issued' = Append(issued, 0)
      BY <1>1, <1>4 DEF Recording, Execute, Sent
    <2>2. PICK r : r = [tx |-> NoTx, ops |-> {op}]
      OBVIOUS
    <2>3. r \in Request /\ r.ops = {op}
      BY <2>2 DEF Request
    <2>4. requests' = Append(requests, r) /\ requests \in Seq(Request)
      BY <1>3, <1>4, <2>2 DEF Execute, Sent, Consistent, DataTyped, Request
    <2>5. Sends' = Append(Sends, {op})
      BY <2>3, <2>4, SendsAppend
    <2> QED BY <1>1, <1>2, <1>3, <1>4, <2>1, <2>5 DEF WrittenDown
  <1>5. CASE transaction # NoTx
    <2>1. transaction \in Tx
      BY <1>5 DEF Consistent, ObjectsTyped
    <2>2. /\ update' = [update EXCEPT ![transaction] = @ \cup {op}]
          /\ requests' = requests /\ issued' = Append(issued, activations)
      BY <1>3, <1>5 DEF Execute, Recorded
    <2>3. Recording' = Recording \cup {op} /\ Sends' = Sends
      BY <1>1, <1>5, <2>1, <2>2 DEF Recording, Sends, Consistent, DataTyped
    <2> QED BY <1>1, <1>2, <1>3, <2>1, <2>2, <2>3 DEF WrittenDown
  <1> QED BY <1>4, <1>5

LEMMA ReturnFromBlockCuts ==
  ASSUME Consistent, ReturnFromBlock
  PROVE  Cut
  <1>1. /\ UNCHANGED <<transaction, mode, activations, vetoed, issued, requests,
                       discarded>>
        /\ update' = [update EXCEPT ![Head(stack).tx] = {}]
    BY DEF ReturnFromBlock, objects, database, history
  <1>2. (Opposed' <=> Opposed) /\ Recording' \subseteq Recording
    BY <1>1 DEF Opposed, Postponed, Recording, Consistent, ObjectsTyped, DataTyped
  <1> QED BY <1>1, <1>2 DEF Cut

LEMMA ReturnsFlow ==
  ASSUME Consistent, Returns
  PROVE  Flow \/ (ReturnFromBlock /\ Cut)
  <1>1. CASE ReturnFromBlock
    BY <1>1, ReturnFromBlockCuts
  <1>2. CASE ReturnToReinitiate
    <2>1. stack # <<>> /\ UNCHANGED <<issued, requests, discarded>>
      BY <1>2 DEF ReturnToReinitiate, database
    <2>2. PICK o \in held : o = Head(stack).obj
      BY <2>1, HeadTailProperties DEF Consistent, CallsHeld, HeldFrame
    <2>3. CASE Reinitiated(o)
      BY <2>1, <2>3, ReinitiatedFlow
    <2>4. CASE UNCHANGED <<transaction, update>>
      <3>1. Recording' = Recording
        BY <2>4 DEF Recording
      <3> QED BY <2>1, <2>4, <3>1, SettledFlow
    <2> QED BY <1>2, <2>2, <2>3, <2>4 DEF ReturnToReinitiate
  <1> QED BY <1>1, <1>2 DEF Returns

LEMMA NextFlow ==
  ASSUME Consistent, [Next]_vars
  PROVE  Flow \/ (ReturnFromBlock /\ Cut)
  <1>1. CASE Execute
    BY <1>1, ExecuteWritesDown DEF Flow
  <1>2. CASE CreateTransaction
    BY <1>2, CreateFlow DEF CreateTransaction
  <1>3. CASE \E s \in Sub : CommitSub(s) \/ RollbackSub(s)
    BY <1>3, SharerFlow DEF CommitSub, RollbackSub
  <1>4. CASE \E t \in Tx : CommitTx(t) \/ RollbackTx(t)
    BY <1>4, CommitFlow, RollbackFlow DEF CommitTx, RollbackTx
  <1>5. CASE (\E s \in Sub : DropSub(s)) \/ (\E t \in Tx : DropTx(t))
    BY <1>5, DropFlow
  <1>6. CASE \E o \in Tx \cup Sub : Reinitiate(o)
    <2>1. PICK o : Reinitiate(o)
      BY <1>6
    <2>2. /\ o \in held /\ Reinitiated(o)
          /\ UNCHANGED <<issued, requests, discarded>>
      BY <2>1 DEF Reinitiate, database
    <2> QED BY <2>2, ReinitiatedFlow
  <1>7. CASE Returns
    BY <1>7, ReturnsFlow
  <1>8. CASE \/ PendingTransaction
             \/ \E r \in 1..Len(requests) : DatabaseReply(r)
             \/ UNCHANGED vars
    <2>1. UNCHANGED <<transaction, update, issued, requests, discarded>>
      BY <1>8 DEF PendingTransaction, DatabaseReply, vars, objects, database, history
    <2>2. Recording' = Recording
      BY <2>1 DEF Recording
    <2> QED BY <2>1, <2>2, SettledFlow
  <1> QED BY <1>1, <1>2, <1>3, <1>4, <1>5, <1>6, <1>7, <1>8 DEF Next

----------------------------------------------------------------------------
(* Updates reach the database in order, and are lost only by a Cut.        *)

\* What is recorded was issued later than anything sent, and all in order.
InOrder ==
  /\ Recording \subseteq 1..Len(issued)
  /\ \A i \in 1..Len(Sends) : Sends[i] \subseteq 1..Len(issued)
  /\ \A i, j \in 1..Len(Sends) : i < j =>
       \A p \in Sends[i], q \in Sends[j] : p < q
  /\ \A i \in 1..Len(Sends) : \A p \in Sends[i], q \in Recording : p < q

\* Every update issued is sent, dropped or recorded.
Accounted ==
  \A op \in 1..Len(issued) :
    op \in discarded \/ op \in Recording \/ \E i \in 1..Len(Sends) : op \in Sends[i]

LEMMA OneMoreSent ==
  ASSUME DataTyped, NEW e \in SUBSET Nat, Sends' = Append(Sends, e)
  PROVE  /\ Len(Sends)' = Len(Sends) + 1
         /\ \A i \in 1..Len(Sends) : Sends'[i] = Sends[i]
         /\ Sends'[Len(Sends) + 1] = e
  <1>1. Op \subseteq Nat
    BY DEF Op
  <1>2. Sends \in Seq(SUBSET Op)
    BY SendsTyped DEF DataTyped, Request
  <1>3. Sends \in Seq(SUBSET Nat)
    BY <1>1, <1>2, SeqMonotonic
  <1> QED BY <1>3, AppendProperties

LEMMA OneMoreIssued ==
  ASSUME DataTyped, NEW b \in Nat, issued' = Append(issued, b)
  PROVE  /\ Len(issued)' = Len(issued) + 1
         /\ \A op \in 1..Len(issued) : issued'[op] = issued[op]
         /\ issued'[Len(issued) + 1] = b
  BY AppendProperties DEF DataTyped

LEMMA LengthsTyped ==
  ASSUME DataTyped
  PROVE  Len(Sends) \in Nat /\ Len(issued) \in Nat /\ activations \in Nat
  BY SendsTyped, LenProperties DEF DataTyped, Request

\* A request more, later than those before it, keeps the requests in order.
LEMMA LaterSentInOrder ==
  ASSUME DataTyped, InOrder, NEW n \in Nat, Len(issued) <= n, NEW e \in SUBSET (1..n),
         \A i \in 1..Len(Sends) : \A p \in Sends[i], q \in e : p < q,
         Sends' = Append(Sends, e), Len(issued)' = n, Recording' = {}
  PROVE  InOrder'
  <1> USE LengthsTyped
  <1>1. e \in SUBSET Nat
    OBVIOUS
  <1>2. /\ Len(Sends)' = Len(Sends) + 1
        /\ \A i \in 1..Len(Sends) : Sends'[i] = Sends[i]
        /\ Sends'[Len(Sends) + 1] = e
    BY <1>1, OneMoreSent
  <1>3. 1..Len(issued) \subseteq 1..n
    OBVIOUS
  <1>4. \A i \in 1..(Len(Sends) + 1) : Sends'[i] \subseteq 1..n
    <2> SUFFICES ASSUME NEW i \in 1..(Len(Sends) + 1)
                 PROVE  Sends'[i] \subseteq 1..n
      OBVIOUS
    <2>1. CASE i \in 1..Len(Sends)
      BY <1>2, <1>3, <2>1 DEF InOrder
    <2>2. CASE i = Len(Sends) + 1
      BY <1>2, <2>2
    <2> QED BY <2>1, <2>2
  <1>5. \A i, j \in 1..(Len(Sends) + 1) : i < j =>
          \A p \in Sends'[i], q \in Sends'[j] : p < q
    <2> SUFFICES ASSUME NEW i \in 1..(Len(Sends) + 1), NEW j \in 1..(Len(Sends) + 1),
                        i < j, NEW p \in Sends'[i], NEW q \in Sends'[j]
                 PROVE  p < q
      OBVIOUS
    <2>1. i \in 1..Len(Sends) /\ p \in Sends[i]
      BY <1>2
    <2>2. CASE j \in 1..Len(Sends)
      BY <1>2, <2>1, <2>2 DEF InOrder
    <2>3. CASE j = Len(Sends) + 1
      BY <1>2, <2>1, <2>3
    <2> QED BY <2>2, <2>3
  <1> QED BY <1>2, <1>4, <1>5 DEF InOrder

LEMMA FlowInOrder ==
  ASSUME DataTyped, InOrder, Flow
  PROVE  InOrder'
  <1> USE LengthsTyped
  <1>1. CASE Settled
    BY <1>1 DEF Settled, InOrder
  <1>2. CASE Delivered
    BY <1>2, LaterSentInOrder DEF Delivered, InOrder
  <1>3. CASE WrittenDown
    <2>1. PICK new \in Nat : new = Len(issued) + 1
      OBVIOUS
    <2>2. 1..new = 1..Len(issued) \cup {new}
      BY <2>1
    <2>3. \A i \in 1..Len(Sends) : \A p \in Sends[i] : p < new
      BY <2>1 DEF InOrder
    <2>4. ASSUME NEW b \in Nat, issued' = Append(issued, b) PROVE Len(issued)' = new
      BY <2>1, <2>4, OneMoreIssued
    <2>5. CASE Sends' = Sends
      <3>1. /\ Recording' = Recording \cup {new}
            /\ issued' = Append(issued, activations)
        BY <1>3, <2>1, <2>5, OneMoreSent DEF WrittenDown
      <3>2. Len(issued)' = new
        BY <2>4, <3>1
      <3>3. /\ Recording \cup {new} \subseteq 1..new
            /\ \A i \in 1..Len(Sends) : Sends[i] \subseteq 1..new
        BY <2>2 DEF InOrder
      <3>4. \A i \in 1..Len(Sends) : \A p \in Sends[i], q \in Recording \cup {new} : p < q
        BY <2>3 DEF InOrder
      <3> QED BY <2>5, <3>1, <3>2, <3>3, <3>4 DEF InOrder
    <2>6. CASE Sends' # Sends
      <3>1. /\ transaction = NoTx /\ transaction' = NoTx
            /\ Sends' = Append(Sends, {new}) /\ issued' = Append(issued, 0)
        BY <1>3, <2>1, <2>6 DEF WrittenDown
      <3>2. Recording' = {}
        BY <3>1 DEF Recording
      <3>3. Len(issued)' = new /\ Len(issued) <= new /\ {new} \in SUBSET (1..new)
        BY <2>1, <2>2, <2>4, <3>1
      <3>4. \A i \in 1..Len(Sends) : \A p \in Sends[i], q \in {new} : p < q
        BY <2>3
      <3> QED BY <3>1, <3>2, <3>3, <3>4, LaterSentInOrder
    <2> QED BY <2>5, <2>6
  <1> QED BY <1>1, <1>2, <1>3 DEF Flow

LEMMA CutInOrder ==
  ASSUME InOrder, Cut
  PROVE  InOrder'
  <1>1. Recording' \subseteq Recording /\ Sends' = Sends /\ issued' = issued
    BY DEF Cut, Sends
  <1> QED BY <1>1 DEF InOrder

LEMMA FlowAccounted ==
  ASSUME DataTyped, InOrder, Accounted, Flow
  PROVE  Accounted'
  <1> USE LengthsTyped
  <1>1. CASE Settled
    BY <1>1 DEF Settled, Accounted
  <1>2. CASE Delivered
    <2>1. Recording \in SUBSET Nat
      BY DEF InOrder
    <2>2. /\ Len(Sends)' = Len(Sends) + 1
          /\ \A i \in 1..Len(Sends) : Sends'[i] = Sends[i]
          /\ Sends'[Len(Sends) + 1] = Recording
      BY <1>2, <2>1, OneMoreSent DEF Delivered
    <2>3. \A op : op \in Recording \/ (\E i \in 1..Len(Sends) : op \in Sends[i])
            => \E i \in 1..Len(Sends)' : op \in Sends'[i]
      BY <2>2
    <2> QED BY <1>2, <2>3 DEF Delivered, Accounted
  <1>3. CASE WrittenDown
    <2>1. PICK new \in Nat \ {0} : new = Len(issued) + 1
      OBVIOUS
    <2>2. 1..new = 1..Len(issued) \cup {new} /\ discarded' = discarded
      BY <1>3, <2>1 DEF WrittenDown
    <2>3. ASSUME NEW b \in Nat, issued' = Append(issued, b) PROVE Len(issued)' = new
      BY <2>1, <2>3, OneMoreIssued
    <2>4. CASE Sends' = Append(Sends, {new}) /\ Recording' = Recording
      <3>1. {new} \in SUBSET Nat
        OBVIOUS
      <3>2. /\ Len(Sends)' = Len(Sends) + 1
            /\ \A i \in 1..Len(Sends) : Sends'[i] = Sends[i]
            /\ Sends'[Len(Sends) + 1] = {new}
        BY <2>4, <3>1, OneMoreSent
      <3>3. \A op : op = new \/ (\E i \in 1..Len(Sends) : op \in Sends[i])
              => \E i \in 1..Len(Sends)' : op \in Sends'[i]
        BY <3>2
      <3>4. Len(issued)' = new
        BY <1>3, <2>3 DEF WrittenDown
      <3> QED BY <2>2, <2>4, <3>3, <3>4 DEF Accounted
    <2>5. CASE Sends' = Sends /\ Recording' = Recording \cup {new}
      <3>1. Len(issued)' = new
        BY <1>3, <2>3 DEF WrittenDown
      <3> QED BY <2>2, <2>5, <3>1 DEF Accounted
    <2> QED BY <1>3, <2>1, <2>4, <2>5 DEF WrittenDown
  <1> QED BY <1>1, <1>2, <1>3 DEF Flow

LEMMA NothingSentYet ==
  ASSUME Init
  PROVE  /\ transaction = NoTx /\ transaction \notin Tx /\ Recording = {}
         /\ Len(Sends) = 0 /\ Len(issued) = 0 /\ discarded = {} /\ vetoed = {}
  <1>1. /\ transaction = NoTx /\ transaction \notin Tx /\ Recording = {}
        /\ Len(issued) = 0 /\ discarded = {} /\ vetoed = {}
    BY ObjectsAssumption DEF Init, Recording
  <1>2. requests = <<>> /\ Len(requests) = 0 /\ requests \in Seq(Request)
    BY EmptySeq DEF Init
  <1> QED BY <1>1, <1>2, SendsTyped

\* What the requests hold is what the batch shows.
LEMMA RequestsSent ==
  ASSUME Consistent
  PROVE  /\ Len(Sends) = Len(requests)
         /\ \A i \in 1..Len(requests) : requests[i].ops = Sends[i]
  BY SendsTyped DEF Consistent, DataTyped, Request

LEMMA WhatIsAccounted ==
  ASSUME Consistent
  PROVE  Accounted <=> NothingLost
  <1>1. /\ Len(Sends) = Len(requests)
        /\ \A i \in 1..Len(requests) : requests[i].ops = Sends[i]
    BY RequestsSent
  <1>2. \A op : op \in Recording <=> transaction # NoTx /\ op \in update[transaction]
    BY DEF Recording
  <1> QED BY <1>1, <1>2 DEF Accounted, NothingLost

LEMMA InOrderAlways == Spec => []InOrder
  <1>1. Init => InOrder
    BY NothingSentYet DEF InOrder
  <1>2. Consistent /\ InOrder /\ [Next]_vars => InOrder'
    BY NextFlow, FlowInOrder, CutInOrder DEF Consistent
  <1> QED BY <1>1, <1>2, ConsistentAlways, PTL DEF Spec

\* Updates reach the database in the order callers issued them, whether they
\* were sent by themselves or in the batches around them, whatever handles
\* callers use and whether or not their commits block.
THEOREM UpdatesInOrder == Spec => []SentInOrder
  <1>1. Consistent /\ InOrder => SentInOrder
    BY RequestsSent DEF InOrder, SentInOrder
  <1> QED BY <1>1, ConsistentAlways, InOrderAlways, PTL

\* Transaction_blocking_lost shows the one way to lose updates without a
\* rollback: the reset of update_ after a blocking commit's event loop.  No
\* other call, however it is nested, lets go of an update.
THEOREM OnlyBlockingLoses ==
  Spec => [][NothingLost /\ ~NothingLost' => ReturnFromBlock]_vars
  <1>1. Consistent /\ InOrder /\ [Next]_vars
          => [Accounted /\ ~Accounted' => ReturnFromBlock]_vars
    BY NextFlow, FlowAccounted DEF Consistent
  <1>2. Consistent => (Accounted <=> NothingLost)
    BY WhatIsAccounted
  <1> QED BY <1>1, <1>2, ConsistentAlways, InOrderAlways, PTL DEF Spec

\* No update is lost without a rollback where nobody commits in an event loop:
\* executeQuery's update is sent, was dropped by a vote, or is still recorded
\* in the active Transaction.
THEOREM UpdatesAccounted ==
  ASSUME TRUE \notin Blocking
  PROVE  Spec => []NothingLost
  <1>1. Init => Accounted
    BY NothingSentYet DEF Accounted
  <1>2. Consistent /\ InOrder /\ Unblocked /\ Accounted /\ [Next]_vars => Accounted'
    <2> SUFFICES ASSUME Consistent, InOrder, Unblocked, Accounted, [Next]_vars
                 PROVE  Accounted'
      OBVIOUS
    <2>1. ~ReturnFromBlock
      BY HeadTailProperties DEF ReturnFromBlock, Unblocked, Waits
    <2> QED BY <2>1, NextFlow, FlowAccounted DEF Consistent
  <1>3. Consistent /\ Accounted => NothingLost
    BY WhatIsAccounted
  <1> QED BY <1>1, <1>2, <1>3, ConsistentAlways, InOrderAlways, UnblockedAlways, PTL
          DEF Spec

----------------------------------------------------------------------------
(* Without direct handles, every call has one of seven effects on the      *)
(* batches of updates (Effect).                                            *)

Silent ==
  /\ transaction' = transaction /\ (Opposed' <=> Opposed) /\ Recording' = Recording
  /\ UNCHANGED <<activations, vetoed, issued, requests, discarded>>

Opened ==
  /\ transaction = NoTx /\ transaction' \in Tx /\ ~Opposed' /\ Recording' = {}
  /\ activations' = activations + 1
  /\ UNCHANGED <<vetoed, issued, requests, discarded>>

VotedAgainst ==
  /\ transaction \in Tx /\ transaction' = transaction /\ Opposed'
  /\ Recording' = Recording
  /\ vetoed' = vetoed \cup {activations}
  /\ UNCHANGED <<activations, issued, requests, discarded>>

SentOff ==
  /\ transaction \in Tx /\ transaction' = NoTx /\ ~Opposed
  /\ Sends' = IF Recording = {} THEN Sends ELSE Append(Sends, Recording)
  /\ UNCHANGED <<activations, vetoed, issued, discarded>>

ThrownAway ==
  /\ transaction \in Tx /\ transaction' = NoTx
  /\ discarded' = discarded \cup Recording
  /\ vetoed' = vetoed \cup {activations}
  /\ UNCHANGED <<activations, issued, requests>>

Effect ==
  \/ Silent \/ Opened \/ VotedAgainst \/ SentOff \/ ThrownAway
  \/ WrittenDown \/ (ReturnFromBlock /\ Cut)

LEMMA SilentEffect ==
  ASSUME ObjectsTyped, transaction' = transaction,
         transaction \in Tx => /\ mode'[transaction] = mode[transaction]
                               /\ update'[transaction] = update[transaction],
         UNCHANGED <<activations, vetoed, issued, requests, discarded>>
  PROVE  Silent
  <1>1. transaction = NoTx \/ transaction \in Tx
    BY DEF ObjectsTyped
  <1>2. (Opposed' <=> Opposed) /\ Recording' = Recording
    BY <1>1 DEF Opposed, Postponed, Recording
  <1> QED BY <1>2 DEF Silent

LEMMA CommitSendsOff ==
  ASSUME Objects, DataTyped, NEW t \in Tx, Active(t), ~Postponed(t),
         NEW o, NEW b, NEW next, NEW m, commit(t, o, b, next, m), vetoed' = vetoed
  PROVE  SentOff
  BY CommitSends DEF SentOff, Opposed

\* What is dropped was voted against: just now, or when the rollback was
\* postponed.
LEMMA RollbackThrowsAway ==
  ASSUME Objects, RollbackPostponed, NEW t \in Tx, Active(t),
         NEW next, NEW m, rollback(t, next, m),
         vetoed' = vetoed \cup Veto(t) \/ (Postponed(t) /\ vetoed' = vetoed)
  PROVE  ThrownAway
  <1>1. transaction = t /\ t # NoTx
    BY ObjectsAssumption DEF Objects, ActiveIsCurrent
  <1>2. Recording = update[t]
    BY <1>1 DEF Recording
  <1>3. vetoed' = vetoed \cup {activations}
    BY DEF Veto, RollbackPostponed, Postponed
  <1>4. /\ transaction' = NoTx /\ discarded' = discarded \cup update[t]
        /\ UNCHANGED <<activations, issued, requests>>
    BY DEF rollback, database
  <1> QED BY <1>1, <1>2, <1>3, <1>4 DEF ThrownAway

LEMMA SharerEffect ==
  ASSUME Objects, DataTyped, Shared, NEW s \in Sub, Active(s),
         NEW b, NEW next, NEW m \in Modal, \A o \in (Tx \cup Sub) \ {s} : m[o] = mode[o],
         subCommit(s, b, next, m) \/ subRollback(s, next, m)
  PROVE  Effect
  <1> USE ObjectsAssumption
  <1>1. PICK t \in Tx : t = parent[s] /\ t = transaction
    BY DEF Shared, SharersOfCurrent, Objects, SubsHeld
  <1>2. Active(t) /\ RollbackPostponed
    BY <1>1 DEF Objects, ActiveIsCurrent, Shared
  <1>3. CASE subCommit(s, b, next, m)
    <2>1. vetoed' = vetoed
      BY <1>3 DEF subCommit
    <2>2. CASE active_subs[t] # 1
      <3>1. /\ mode'[t] = mode[t] /\ transaction' = transaction
            /\ update' = update
            /\ UNCHANGED <<activations, issued, requests, discarded>>
        BY <1>1, <1>3, <2>2 DEF subCommit, Unfinished, database
      <3> QED BY <1>1, <2>1, <3>1, SilentEffect DEF Effect, Objects
    <2>3. CASE active_subs[t] = 1 /\ Postponed(t)
      <3>1. rollback(t, <<>>, m)
        BY <1>1, <1>3, <2>3 DEF subCommit, Postponed
      <3> QED BY <1>2, <2>1, <2>3, <3>1, RollbackThrowsAway DEF Effect
    <2>4. CASE active_subs[t] = 1 /\ ~Postponed(t)
      <3>1. commit(t, s, b, next, m)
        BY <1>1, <1>3, <2>4 DEF subCommit, Postponed
      <3> QED BY <1>2, <2>1, <2>4, <3>1, CommitSendsOff DEF Effect
    <2> QED BY <2>2, <2>3, <2>4
  <1>4. CASE subRollback(s, next, m)
    <2>1. vetoed' = vetoed \cup Veto(t)
      BY <1>1, <1>4 DEF subRollback
    <2>2. CASE active_subs[t] # 1
      <3>1. Unfinished([m EXCEPT ![t] = @ \cup {"PendingRollback"}])
        BY <1>1, <1>4, <2>2 DEF subRollback
      <3>2. Postponed(t)'
        BY <3>1 DEF Unfinished, Postponed, Modal
      <3>3. /\ transaction' = transaction /\ update' = update
            /\ UNCHANGED <<activations, issued, requests, discarded>>
        BY <3>1 DEF Unfinished, database
      <3>4. Opposed' /\ Recording' = Recording
        BY <1>1, <3>2, <3>3 DEF Opposed, Postponed, Recording
      <3>5. VotedAgainst
        BY <1>1, <1>2, <2>1, <3>3, <3>4 DEF VotedAgainst, Veto
      <3> QED BY <3>5 DEF Effect
    <2>3. CASE active_subs[t] = 1
      <3>1. rollback(t, next, m)
        BY <1>1, <1>4, <2>3 DEF subRollback
      <3> QED BY <1>2, <2>1, <3>1, RollbackThrowsAway DEF Effect
    <2> QED BY <2>2, <2>3
  <1> QED BY <1>3, <1>4

LEMMA FinishSubEffect ==
  ASSUME Consistent, Shared, NEW s \in Sub, CommitSub(s) \/ RollbackSub(s)
  PROVE  Effect
  <1> USE ObjectsAssumption
  <1>1. PICK m : m = Inactivated(s)
    OBVIOUS
  <1>2. Active(s)
    BY DEF CommitSub, RollbackSub
  <1>3. /\ m \in Modal /\ \A o \in (Tx \cup Sub) \ {s} : m[o] = mode[o]
    BY <1>1 DEF Inactivated, Consistent, ObjectsTyped, Modal, Flags, ModeFlags
  <1>4. PICK b, next : subCommit(s, b, next, m) \/ subRollback(s, next, m)
    BY <1>1 DEF CommitSub, RollbackSub
  <1> QED BY <1>2, <1>3, <1>4, ConsistentParts, SharerEffect

LEMMA FinishTxEffect ==
  ASSUME Consistent, Shared, NEW t \in Tx, CommitTx(t) \/ RollbackTx(t)
  PROVE  Effect
  <1>1. t \in held /\ Active(t) /\ ~Postponed(t)
    BY ConsistentParts, HeldUnshared DEF CommitTx, RollbackTx
  <1>2. PICK b, next :
          \/ commit(t, t, b, next, mode) /\ vetoed' = vetoed
          \/ rollback(t, next, mode) /\ vetoed' = vetoed \cup Veto(t)
    BY DEF CommitTx, RollbackTx
  <1> QED BY <1>1, <1>2, ConsistentParts, CommitSendsOff, RollbackThrowsAway
          DEF Shared, Effect

LEMMA DropTxEffect ==
  ASSUME Consistent, Shared, NEW t \in Tx, DropTx(t)
  PROVE  Effect
  <1>1. t \in held /\ held' = held \ {t} /\ ~Postponed(t)
    BY ConsistentParts, HeldUnshared DEF DropTx
  <1>2. ~Referenced(t, held', parent)
    BY <1>1, ConsistentParts, HeldUnshared DEF Referenced
  <1>3. DestroyTx(t, mode)
    BY <1>2 DEF DropTx
  <1>4. CASE Active(t)
    <2>1. \/ commit(t, t, FALSE, <<>>, mode) /\ vetoed' = vetoed
          \/ rollback(t, <<>>, mode) /\ vetoed' = vetoed \cup Veto(t)
      BY <1>3, <1>4 DEF DestroyTx
    <2> QED BY <1>1, <1>4, <2>1, ConsistentParts, CommitSendsOff, RollbackThrowsAway
            DEF Shared, Effect
  <1>5. CASE ~Active(t)
    <2>1. Unfinished(mode) /\ vetoed' = vetoed
      BY <1>3, <1>5 DEF DestroyTx
    <2>2. /\ transaction' = transaction /\ mode' = mode /\ update' = update
          /\ UNCHANGED <<activations, vetoed, issued, requests, discarded>>
      BY <2>1 DEF Unfinished, database
    <2> QED BY <2>2, SilentEffect DEF Effect, Consistent
  <1> QED BY <1>4, <1>5

LEMMA DropSubEffect ==
  ASSUME Consistent, Shared, NEW s \in Sub, DropSub(s)
  PROVE  Effect
  <1> USE ObjectsAssumption
  <1>1. PICK m : m = [mode EXCEPT ![s] = {"Inactive"}]
    OBVIOUS
  <1>2. /\ m \in Modal /\ \A o \in (Tx \cup Sub) \ {s} : m[o] = mode[o]
    BY <1>1 DEF Consistent, ObjectsTyped, Modal, Flags, ModeFlags
  <1>3. s \in held /\ held' = held \ {s} /\ parent' = [parent EXCEPT ![s] = NoTx]
    BY DEF DropSub
  <1>4. CASE Active(s)
    <2>1. subCommit(s, FALSE, <<>>, m) \/ subRollback(s, <<>>, m)
      BY <1>1, <1>4 DEF DropSub
    <2> QED BY <1>2, <1>4, <2>1, ConsistentParts, SharerEffect
  <1>5. CASE ~Active(s)
    <2>1. Unfinished(m) /\ vetoed' = vetoed
      BY <1>1, <1>3, <1>5, ConsistentParts, LeftReferenced DEF DropSub, DestroyTx
    <2>2. /\ transaction' = transaction /\ update' = update
          /\ \A t \in Tx : mode'[t] = mode[t]
          /\ UNCHANGED <<activations, vetoed, issued, requests, discarded>>
      BY <1>2, <2>1 DEF Unfinished, database
    <2> QED BY <2>2, SilentEffect DEF Effect, Consistent
  <1> QED BY <1>4, <1>5

LEMMA ActivationEffect ==
  ASSUME DataTyped, NEW t \in Tx, transaction = NoTx, transaction' = t,
         ~Postponed(t)', update' = [update EXCEPT ![t] = {}],
         activations' = activations + 1,
         UNCHANGED <<vetoed, issued, requests, discarded>>
  PROVE  Opened
  <1>1. ~Opposed' /\ Recording' = {}
    BY ObjectsAssumption DEF Opposed, Postponed, Recording, DataTyped
  <1> QED BY <1>1 DEF Opened

LEMMA ReinitiatedEffect ==
  ASSUME Consistent, Shared, NEW o \in held, Reinitiated(o),
         UNCHANGED <<vetoed, issued, requests, discarded>>
  PROVE  Effect
  <1> USE ObjectsAssumption
  <1>1. CASE o \in Tx
    <2>1. /\ transaction = NoTx /\ transaction' = o
          /\ mode' = [mode EXCEPT ![o] = @ \ {"Inactive"}]
          /\ update' = [update EXCEPT ![o] = {}] /\ activations' = activations + 1
      BY <1>1 DEF Reinitiated, ReinitiateTx, reinitiate
    <2>2. ~Postponed(o)'
      BY <1>1, <2>1, ConsistentParts, HeldUnshared DEF Postponed, Consistent, ObjectsTyped
    <2>3. Opened
      BY <1>1, <2>1, <2>2, ActivationEffect DEF Consistent
    <2> QED BY <2>3 DEF Effect
  <1>2. CASE o \in Sub /\ ReinitiateOwn(o)
    <2>1. PICK t \in Tx : t = parent[o]
      BY <1>2 DEF Consistent, SubsHeld
    <2>2. /\ transaction = NoTx /\ transaction' = t
          /\ mode' = [Activated(o) EXCEPT ![t] = @ \ {"Inactive"}]
          /\ update' = [update EXCEPT ![t] = {}] /\ activations' = activations + 1
      BY <1>2, <2>1 DEF ReinitiateOwn, reinitiate
    <2>3. mode'[t] = mode[t] \ {"Inactive"}
      BY <1>2, <2>2 DEF Activated, Consistent, ObjectsTyped
    <2>4. ~Postponed(t)'
      BY <2>1, <2>2, <2>3, ConsistentParts, NonePostponed DEF Postponed, Shared
    <2>5. Opened
      BY <2>2, <2>4, ActivationEffect DEF Consistent
    <2> QED BY <2>5 DEF Effect
  <1>3. CASE o \in Sub /\ ~Active(o) /\ ReinitiateShared(o)
    <2>1. /\ mode' = [mode EXCEPT ![o] = @ \ {"Inactive"}]
          /\ UNCHANGED <<transaction, update, activations>>
      BY <1>3 DEF ReinitiateShared, Join, Activated
    <2>2. \A t \in Tx : mode'[t] = mode[t]
      BY <1>3, <2>1 DEF Consistent, ObjectsTyped
    <2> QED BY <2>1, <2>2, SilentEffect DEF Effect, Consistent
  <1>4. o \in Tx \/ o \in Sub
    BY DEF Consistent, ObjectsTyped
  <1> QED BY <1>1, <1>2, <1>3, <1>4 DEF Reinitiated

LEMMA CreateEffect ==
  ASSUME Consistent, Shared, NEW md \in Modes, CreateShared(md) \/ CreateOwn(md)
  PROVE  Effect
  <1> USE ObjectsAssumption
  <1>1. CASE CreateShared(md)
    <2>1. PICK s \in Sub : mode' = [mode EXCEPT ![s] = md]
      BY <1>1 DEF CreateShared
    <2>2. \A t \in Tx : mode'[t] = mode[t]
      BY <2>1 DEF Consistent, ObjectsTyped
    <2>3. UNCHANGED <<transaction, update, activations, vetoed, issued, requests, discarded>>
      BY <1>1 DEF CreateShared, database, history
    <2> QED BY <2>2, <2>3, SilentEffect DEF Effect, Consistent
  <1>2. CASE CreateOwn(md)
    <2>1. PICK t \in Tx :
            /\ ~Exists(t) /\ Created(t, md)
            /\ IF "Inactive" \in md
               THEN UNCHANGED <<transaction, activations>>
               ELSE /\ transaction = NoTx /\ transaction' = t
                    /\ activations' = activations + 1
      BY <1>2, ConsistentParts, CreateOwnCreates
    <2>2. PICK u \in Tx :
            /\ ~Exists(u) /\ update' = [update EXCEPT ![u] = {}]
            /\ "Inactive" \notin md => transaction' = u
      BY <1>2 DEF CreateOwn, reinitiate
    <2>3. UNCHANGED <<vetoed, issued, requests, discarded>>
      BY <1>2 DEF CreateOwn
    <2>4. CASE "Inactive" \notin md
      <3>1. ~Postponed(t)'
        BY <2>1 DEF Created, Postponed
      <3>2. Opened
        BY <2>1, <2>2, <2>3, <2>4, <3>1, ActivationEffect DEF Consistent
      <3> QED BY <3>2 DEF Effect
    <2>5. CASE "Inactive" \in md
      <3>1. transaction' = transaction /\ transaction # t /\ transaction # u
        BY <2>1, <2>2, <2>5 DEF Consistent, CurrentExists
      <3>2. transaction \in Tx => /\ mode'[transaction] = mode[transaction]
                                  /\ update'[transaction] = update[transaction]
        BY <2>1, <2>2, <3>1 DEF Created, Consistent, DataTyped
      <3>3. activations' = activations
        BY <2>1, <2>5
      <3> QED BY <2>3, <3>1, <3>2, <3>3, SilentEffect DEF Effect, Consistent
    <2> QED BY <2>4, <2>5
  <1> QED BY <1>1, <1>2

LEMMA ReturnsEffect ==
  ASSUME Consistent, Shared, Returns
  PROVE  Effect
  <1>1. CASE ReturnFromBlock
    <2>1. Cut
      BY <1>1, ReturnFromBlockCuts
    <2> QED BY <1>1, <2>1 DEF Effect
  <1>2. CASE ReturnToReinitiate
    <2>1. stack # <<>> /\ UNCHANGED <<vetoed, issued, requests, discarded>>
      BY <1>2 DEF ReturnToReinitiate, database
    <2>2. PICK o \in held : o = Head(stack).obj
      BY <2>1, HeadTailProperties DEF Consistent, CallsHeld, HeldFrame
    <2>3. CASE Reinitiated(o)
      BY <2>1, <2>3, ReinitiatedEffect
    <2>4. CASE ~Reinitiated(o)
      <3>1. UNCHANGED <<transaction, mode, update, activations>>
        BY <1>2, <2>2, <2>4 DEF ReturnToReinitiate
      <3> QED BY <2>1, <3>1, SilentEffect DEF Effect, Consistent
    <2> QED BY <2>3, <2>4
  <1> QED BY <1>1, <1>2 DEF Returns

LEMMA NextEffect ==
  ASSUME DirectHandles = FALSE, Consistent, Shared, [Next]_vars
  PROVE  Effect
  <1>1. CASE Execute
    BY <1>1, ExecuteWritesDown DEF Effect
  <1>2. CASE CreateTransaction
    BY <1>2, CreateEffect DEF CreateTransaction
  <1>3. CASE PendingTransaction
    BY <1>3 DEF PendingTransaction
  <1>4. CASE \E s \in Sub : CommitSub(s) \/ RollbackSub(s) \/ DropSub(s)
    BY <1>4, FinishSubEffect, DropSubEffect
  <1>5. CASE \E t \in Tx : CommitTx(t) \/ RollbackTx(t) \/ DropTx(t)
    BY <1>5, FinishTxEffect, DropTxEffect
  <1>6. CASE \E o \in Tx \cup Sub : Reinitiate(o)
    <2>1. PICK o : Reinitiate(o)
      BY <1>6
    <2>2. /\ o \in held /\ Reinitiated(o)
          /\ UNCHANGED <<vetoed, issued, requests, discarded>>
      BY <2>1 DEF Reinitiate, database
    <2> QED BY <2>2, ReinitiatedEffect
  <1>7. CASE Returns
    BY <1>7, ReturnsEffect
  <1>8. CASE (\E r \in 1..Len(requests) : DatabaseReply(r)) \/ UNCHANGED vars
    <2>1. UNCHANGED <<transaction, mode, update, activations, vetoed, issued,
                      requests, discarded>>
      BY <1>8 DEF DatabaseReply, vars, objects, database, history
    <2> QED BY <2>1, SilentEffect DEF Effect, Consistent
  <1> QED BY <1>1, <1>2, <1>3, <1>4, <1>5, <1>6, <1>7, <1>8 DEF Next

----------------------------------------------------------------------------
(* Votes.  A rollback by one who shares a batch decides about all of it,   *)
(* and blocking commits do not change that.                                *)

\* A batch voted against is under way only while its rollback is postponed.
VotesKept ==
  /\ vetoed \subseteq 1..activations
  /\ transaction \in Tx => activations \in Nat \ {0}
  /\ transaction \in Tx /\ activations \in vetoed => Opposed

\* What is recorded is of the batch under way; nobody voted against a batch
\* that was sent; what was dropped was voted against.
VotesHonoured ==
  /\ \A op \in 1..Len(issued) : issued[op] \in 0..activations
  /\ transaction \in Tx => \A op \in Recording : issued[op] = activations
  /\ \A i \in 1..Len(Sends) : \A op \in Sends[i] :
       /\ issued[op] \notin vetoed
       /\ transaction \in Tx => issued[op] # activations
  /\ \A op \in discarded : op \in 1..Len(issued) /\ issued[op] \in vetoed

Votes == VotesKept /\ VotesHonoured

LEMMA VoteInRange ==
  ASSUME Votes, transaction \in Tx
  PROVE  vetoed \cup {activations} \subseteq 1..activations
  <1>1. activations \in Nat \ {0} /\ vetoed \subseteq 1..activations
    BY DEF Votes, VotesKept
  <1> QED BY <1>1

LEMMA NewBatchUnused ==
  ASSUME DataTyped, InOrder, Votes, Opened
  PROVE  \A op \in 1..Len(issued) :
           issued[op] \in 0..activations' /\ issued[op] # activations'
  <1>1. activations' = activations + 1 /\ activations \in Nat
    BY LengthsTyped DEF Opened
  <1>2. \A op \in 1..Len(issued) : issued[op] \in 0..activations
    BY DEF Votes, VotesHonoured
  <1> QED BY <1>1, <1>2

\* Steps that neither issue nor send anything, nor settle a batch.
LEMMA GoesOnVotes ==
  ASSUME DataTyped, InOrder, Votes, Silent \/ VotedAgainst \/ Opened \/ Cut
  PROVE  Votes'
  <1> USE ObjectsAssumption, LengthsTyped
  <1>1. /\ Sends' = Sends /\ issued' = issued /\ discarded' = discarded
        /\ Recording' \subseteq Recording
    BY DEF Silent, VotedAgainst, Opened, Cut, Sends, Recording
  <1>2. CASE Silent \/ Cut
    <2>1. /\ transaction' = transaction /\ (Opposed' <=> Opposed)
          /\ UNCHANGED <<activations, vetoed>>
      BY <1>2 DEF Silent, Cut
    <2> QED BY <1>1, <2>1 DEF Votes, VotesKept, VotesHonoured
  <1>3. CASE VotedAgainst
    <2>1. /\ transaction \in Tx /\ transaction' = transaction
          /\ activations' = activations /\ vetoed' = vetoed \cup {activations}
          /\ Opposed'
      BY <1>3 DEF VotedAgainst
    <2>2. vetoed \cup {activations} \subseteq 1..activations
      BY <2>1, VoteInRange
    <2>3. VotesKept'
      BY <2>1, <2>2 DEF Votes, VotesKept
    <2>4. VotesHonoured'
      BY <1>1, <2>1 DEF Votes, VotesHonoured
    <2> QED BY <2>3, <2>4 DEF Votes
  <1>4. CASE Opened
    <2>1. /\ transaction = NoTx /\ activations' = activations + 1
          /\ vetoed' = vetoed /\ Recording' = {}
      BY <1>4 DEF Opened
    <2>2. \A op \in 1..Len(issued) :
            issued[op] \in 0..activations' /\ issued[op] # activations'
      BY <1>4, NewBatchUnused
    <2>3. \A i \in 1..Len(Sends) : \A op \in Sends[i] : op \in 1..Len(issued)
      BY DEF InOrder
    <2>4. VotesKept'
      BY <2>1 DEF Votes, VotesKept
    <2>5. VotesHonoured'
      BY <1>1, <2>1, <2>2, <2>3 DEF Votes, VotesHonoured
    <2> QED BY <2>4, <2>5 DEF Votes
  <1> QED BY <1>2, <1>3, <1>4

\* A batch is settled.
LEMMA ThrownAwayVotes ==
  ASSUME DataTyped, InOrder, Votes, ThrownAway
  PROVE  Votes'
  <1> USE ObjectsAssumption, LengthsTyped
  <1>1. /\ transaction \in Tx /\ transaction' = NoTx /\ Recording' = {}
        /\ Sends' = Sends /\ issued' = issued /\ activations' = activations
        /\ discarded' = discarded \cup Recording
        /\ vetoed' = vetoed \cup {activations}
    BY DEF ThrownAway, Sends, Recording
  <1>2. VotesKept'
    <2>1. vetoed \cup {activations} \subseteq 1..activations
      BY <1>1, VoteInRange
    <2> QED BY <1>1, <2>1 DEF VotesKept
  <1>3. VotesHonoured'
    BY <1>1 DEF Votes, InOrder, VotesHonoured
  <1> QED BY <1>2, <1>3 DEF Votes

LEMMA SentOffVotes ==
  ASSUME DataTyped, InOrder, Votes, SentOff
  PROVE  Votes'
  <1> USE ObjectsAssumption, LengthsTyped
  <1>1. /\ transaction \in Tx /\ transaction' = NoTx /\ Recording' = {}
        /\ issued' = issued /\ activations' = activations
        /\ discarded' = discarded /\ vetoed' = vetoed /\ ~Opposed
    BY DEF SentOff, Recording
  <1>2. VotesKept'
    BY <1>1 DEF Votes, VotesKept
  <1>3. \A op \in Recording : issued[op] \notin vetoed
    BY <1>1 DEF Votes, VotesKept, VotesHonoured
  <1>4. \A i \in 1..Len(Sends)' : \A op \in Sends'[i] : issued[op] \notin vetoed
    <2>1. CASE Recording = {}
      BY <2>1 DEF SentOff, Votes, VotesHonoured
    <2>2. CASE Recording # {}
      <3>1. Recording \in SUBSET Nat
        BY DEF InOrder
      <3>2. /\ Len(Sends)' = Len(Sends) + 1
            /\ \A i \in 1..Len(Sends) : Sends'[i] = Sends[i]
            /\ Sends'[Len(Sends) + 1] = Recording
        BY <2>2, <3>1, OneMoreSent DEF SentOff
      <3> SUFFICES ASSUME NEW i \in 1..(Len(Sends) + 1), NEW op \in Sends'[i]
                   PROVE  issued[op] \notin vetoed
        BY <3>2
      <3>3. CASE i \in 1..Len(Sends)
        BY <3>2, <3>3 DEF Votes, VotesHonoured
      <3>4. CASE i = Len(Sends) + 1
        BY <1>3, <3>2, <3>4
      <3> QED BY <3>3, <3>4
    <2> QED BY <2>1, <2>2
  <1>5. VotesHonoured'
    BY <1>1, <1>4 DEF Votes, VotesHonoured
  <1> QED BY <1>2, <1>5 DEF Votes

\* An update is sent by itself, or recorded in the batch under way.
LEMMA WrittenDownVotes ==
  ASSUME DataTyped, InOrder, Votes, WrittenDown
  PROVE  Votes'
  <1> USE ObjectsAssumption, LengthsTyped
  <1>1. /\ transaction' = transaction /\ (Opposed' <=> Opposed)
        /\ activations' = activations /\ vetoed' = vetoed /\ discarded' = discarded
    BY DEF WrittenDown
  <1>2. VotesKept'
    BY <1>1 DEF Votes, VotesKept
  <1>3. PICK new \in Nat \ {0} : new = Len(issued) + 1 /\ new \notin 1..Len(issued)
    OBVIOUS
  <1>4. 1..new = 1..Len(issued) \cup {new}
    BY <1>3
  <1>5. 0 \notin vetoed
    BY DEF Votes, VotesKept
  <1>6. /\ Recording \subseteq 1..Len(issued)
        /\ \A i \in 1..Len(Sends) : Sends[i] \subseteq 1..Len(issued)
        /\ \A op \in discarded : op \in 1..Len(issued)
    BY DEF Votes, InOrder, VotesHonoured
  <1>7. CASE transaction = NoTx
    <2>1. /\ Recording = {} /\ Recording' = {} /\ transaction \notin Tx
          /\ Sends' = Append(Sends, {new}) /\ issued' = Append(issued, 0)
      BY <1>1, <1>3, <1>7 DEF WrittenDown, Recording
    <2>2. /\ Len(issued)' = new /\ issued'[new] = 0
          /\ \A op \in 1..Len(issued) : issued'[op] = issued[op]
      BY <1>3, <2>1, OneMoreIssued
    <2>3. /\ Len(Sends)' = Len(Sends) + 1
          /\ \A i \in 1..Len(Sends) : Sends'[i] = Sends[i]
          /\ Sends'[Len(Sends) + 1] = {new}
      <3>1. {new} \in SUBSET Nat
        BY <1>3
      <3> QED BY <2>1, <3>1, OneMoreSent
    <2>4. \A i \in 1..(Len(Sends) + 1) : \A op \in Sends'[i] : issued'[op] \notin vetoed
      <3> SUFFICES ASSUME NEW i \in 1..(Len(Sends) + 1), NEW op \in Sends'[i]
                   PROVE  issued'[op] \notin vetoed
        OBVIOUS
      <3>1. CASE i \in 1..Len(Sends)
        <4>1. op \in Sends[i] /\ issued'[op] = issued[op]
          BY <1>6, <2>2, <2>3, <3>1
        <4> QED BY <3>1, <4>1 DEF Votes, VotesHonoured
      <3>2. CASE i = Len(Sends) + 1
        BY <1>5, <2>2, <2>3, <3>2
      <3> QED BY <3>1, <3>2
    <2>5. \A op \in 1..new : issued'[op] \in 0..activations
      BY <1>4, <2>2 DEF Votes, VotesHonoured
    <2>6. \A op \in discarded : op \in 1..new /\ issued'[op] \in vetoed
      BY <1>4, <1>6, <2>2 DEF Votes, VotesHonoured
    <2>7. /\ transaction' \notin Tx /\ Len(issued)' = new
          /\ UNCHANGED <<activations, vetoed, discarded>>
      BY <1>1, <2>1, <2>2
    <2>8. \A i \in 1..Len(Sends)' : \A op \in Sends'[i] : issued'[op] \notin vetoed
      BY <2>3, <2>4
    <2>9. VotesHonoured'
      BY <2>5, <2>6, <2>7, <2>8 DEF VotesHonoured
    <2> QED BY <1>2, <2>9 DEF Votes
  <1>8. CASE transaction \in Tx
    <2>1. /\ Recording' = Recording \cup {new} /\ Sends' = Sends
          /\ issued' = Append(issued, activations)
      BY <1>3, <1>8 DEF WrittenDown
    <2>2. /\ Len(issued)' = new /\ issued'[new] = activations
          /\ \A op \in 1..Len(issued) : issued'[op] = issued[op]
      BY <1>3, <2>1, OneMoreIssued
    <2>3. \A op \in 1..new : issued'[op] \in 0..activations
      BY <1>4, <2>2 DEF Votes, VotesHonoured
    <2>4. \A op \in Recording \cup {new} : issued'[op] = activations
      BY <1>6, <1>8, <2>2 DEF Votes, VotesHonoured
    <2>5. \A i \in 1..Len(Sends) : \A op \in Sends[i] :
            issued'[op] \notin vetoed /\ issued'[op] # activations
      BY <1>6, <1>8, <2>2 DEF Votes, VotesHonoured
    <2>6. \A op \in discarded : op \in 1..new /\ issued'[op] \in vetoed
      BY <1>4, <1>6, <2>2 DEF Votes, VotesHonoured
    <2>7. VotesHonoured'
      BY <1>1, <2>1, <2>2, <2>3, <2>4, <2>5, <2>6 DEF VotesHonoured
    <2> QED BY <1>2, <2>7 DEF Votes
  <1> QED BY <1>7, <1>8 DEF WrittenDown

LEMMA VotesAlways ==
  ASSUME DirectHandles = FALSE
  PROVE  Spec => []Votes
  <1>1. Init => Votes
    BY NothingSentYet DEF Votes, VotesKept, VotesHonoured
  <1>2. Consistent /\ Shared /\ InOrder /\ Votes /\ [Next]_vars => Votes'
    <2> SUFFICES ASSUME Consistent, Shared, InOrder, Votes, [Next]_vars
                 PROVE  Votes'
      OBVIOUS
    <2>1. DataTyped /\ Effect
      BY NextEffect DEF Consistent
    <2> QED BY <2>1, GoesOnVotes, ThrownAwayVotes, SentOffVotes, WrittenDownVotes
            DEF Effect
  <1> QED BY <1>1, <1>2, ConsistentAlways, SharedAlways, InOrderAlways, PTL DEF Spec

\* A sharer's rollback decides about the whole batch, also when commits block
\* and their event loop lets callers roll back, commit and reinitiate at will:
\* nothing it voted against is sent, and nothing else is dropped.
THEOREM VetoesAlwaysRespected ==
  ASSUME DirectHandles = FALSE
  PROVE  Spec => []VetoesRespected
  <1>1. Consistent /\ Votes => VetoesRespected
    BY RequestsSent DEF Votes, VotesHonoured, VetoesRespected
  <1> QED BY <1>1, ConsistentAlways, VotesAlways, PTL

----------------------------------------------------------------------------
(* Without blocking commits either, a batch is sent whole.                 *)

\* The batch under way is all recorded, and the batches sent are whole.
BatchesWhole ==
  /\ transaction \in Tx =>
       \A op \in 1..Len(issued) : issued[op] = activations => op \in Recording
  /\ \A i \in 1..Len(Sends) : \A op \in Sends[i], p \in 1..Len(issued) :
       issued[p] = issued[op] /\ issued[p] # 0 => p \in Sends[i]

LEMMA GoesOnWhole ==
  ASSUME DataTyped, InOrder, Votes, BatchesWhole, Silent \/ VotedAgainst \/ Opened
  PROVE  BatchesWhole'
  <1>1. Sends' = Sends /\ issued' = issued /\ Recording' = Recording
    BY DEF Silent, VotedAgainst, Opened, Sends, Recording
  <1>2. CASE Silent \/ VotedAgainst
    BY <1>1, <1>2 DEF Silent, VotedAgainst, BatchesWhole
  <1>3. CASE Opened
    <2>1. \A op \in 1..Len(issued) : issued[op] # activations'
      BY <1>3, NewBatchUnused
    <2> QED BY <1>1, <2>1 DEF BatchesWhole
  <1> QED BY <1>2, <1>3

LEMMA SettledWhole ==
  ASSUME DataTyped, InOrder, Votes, BatchesWhole, SentOff \/ ThrownAway
  PROVE  BatchesWhole'
  <1> USE LengthsTyped
  <1>1. transaction \in Tx /\ transaction' \notin Tx /\ issued' = issued
    BY ObjectsAssumption DEF SentOff, ThrownAway
  <1>2. CASE Sends' = Sends
    BY <1>1, <1>2 DEF BatchesWhole
  <1>3. CASE Sends' = Append(Sends, Recording)
    <2>1. Recording \in SUBSET Nat
      BY DEF InOrder
    <2>2. /\ Len(Sends)' = Len(Sends) + 1
          /\ \A i \in 1..Len(Sends) : Sends'[i] = Sends[i]
          /\ Sends'[Len(Sends) + 1] = Recording
      BY <1>3, <2>1, OneMoreSent
    <2> SUFFICES ASSUME NEW i \in 1..(Len(Sends) + 1), NEW op \in Sends'[i],
                        NEW p \in 1..Len(issued), issued[p] = issued[op], issued[p] # 0
                 PROVE  p \in Sends'[i]
      BY <1>1, <2>2 DEF BatchesWhole
    <2>3. CASE i \in 1..Len(Sends)
      BY <2>2, <2>3 DEF BatchesWhole
    <2>4. CASE i = Len(Sends) + 1
      <3>1. op \in Recording /\ Sends'[i] = Recording
        BY <2>2, <2>4
      <3>2. issued[op] = activations
        BY <1>1, <3>1 DEF Votes, VotesHonoured
      <3> QED BY <1>1, <3>1, <3>2 DEF BatchesWhole
    <2> QED BY <2>3, <2>4
  <1>4. Sends' = Sends \/ Sends' = Append(Sends, Recording)
    BY DEF SentOff, ThrownAway, Sends
  <1> QED BY <1>2, <1>3, <1>4

LEMMA WrittenDownWhole ==
  ASSUME DataTyped, InOrder, Votes, BatchesWhole, WrittenDown
  PROVE  BatchesWhole'
  <1> USE ObjectsAssumption, LengthsTyped
  <1>1. transaction' = transaction /\ activations' = activations
    BY DEF WrittenDown
  <1>2. PICK new \in Nat \ {0} : new = Len(issued) + 1 /\ new \notin 1..Len(issued)
    OBVIOUS
  <1>3. 1..new = 1..Len(issued) \cup {new}
    BY <1>2
  <1>4. \A i \in 1..Len(Sends) : Sends[i] \subseteq 1..Len(issued)
    BY DEF InOrder
  <1>5. CASE transaction = NoTx
    <2>1. /\ transaction' \notin Tx
          /\ Sends' = Append(Sends, {new}) /\ issued' = Append(issued, 0)
      BY <1>1, <1>2, <1>5 DEF WrittenDown
    <2>2. /\ Len(issued)' = new /\ issued'[new] = 0
          /\ \A op \in 1..Len(issued) : issued'[op] = issued[op]
      BY <1>2, <2>1, OneMoreIssued
    <2>3. /\ Len(Sends)' = Len(Sends) + 1
          /\ \A i \in 1..Len(Sends) : Sends'[i] = Sends[i]
          /\ Sends'[Len(Sends) + 1] = {new}
      <3>1. {new} \in SUBSET Nat
        BY <1>2
      <3> QED BY <2>1, <3>1, OneMoreSent
    <2>4. ASSUME NEW i \in 1..(Len(Sends) + 1), NEW op \in Sends'[i],
                 NEW p \in 1..new, issued'[p] = issued'[op], issued'[p] # 0
          PROVE  p \in Sends'[i]
      <3>1. p \in 1..Len(issued) /\ issued'[p] = issued[p]
        BY <1>3, <2>2, <2>4
      <3>2. i \in 1..Len(Sends) /\ op \in Sends[i] /\ Sends'[i] = Sends[i]
        BY <2>2, <2>3, <2>4
      <3>3. issued'[op] = issued[op]
        BY <1>4, <2>2, <3>2
      <3> QED BY <2>4, <3>1, <3>2, <3>3 DEF BatchesWhole
    <2>5. \A i \in 1..Len(Sends)' : \A op \in Sends'[i], p \in 1..Len(issued)' :
            issued'[p] = issued'[op] /\ issued'[p] # 0 => p \in Sends'[i]
      BY <2>2, <2>3, <2>4
    <2> QED BY <2>1, <2>5 DEF BatchesWhole
  <1>6. CASE transaction \in Tx
    <2>1. /\ Recording' = Recording \cup {new} /\ Sends' = Sends
          /\ issued' = Append(issued, activations)
      BY <1>2, <1>6 DEF WrittenDown
    <2>2. /\ Len(issued)' = new /\ issued'[new] = activations
          /\ \A op \in 1..Len(issued) : issued'[op] = issued[op]
      BY <1>2, <2>1, OneMoreIssued
    <2>3. \A op \in 1..new : issued'[op] = activations => op \in Recording \cup {new}
      BY <1>3, <1>6, <2>2 DEF BatchesWhole
    <2>4. ASSUME NEW i \in 1..Len(Sends), NEW op \in Sends[i], NEW p \in 1..new,
                 issued'[p] = issued'[op], issued'[p] # 0
          PROVE  p \in Sends[i]
      <3>1. issued'[op] = issued[op] /\ issued[op] # activations
        BY <1>4, <1>6, <2>2 DEF Votes, VotesHonoured
      <3>2. p \in 1..Len(issued) /\ issued'[p] = issued[p]
        BY <1>3, <2>2, <2>4, <3>1
      <3> QED BY <2>4, <3>1, <3>2 DEF BatchesWhole
    <2> QED BY <1>1, <2>1, <2>2, <2>3, <2>4 DEF BatchesWhole
  <1> QED BY <1>5, <1>6 DEF WrittenDown

LEMMA WholeAlways ==
  ASSUME DirectHandles = FALSE, TRUE \notin Blocking
  PROVE  Spec => []BatchesWhole
  <1>1. Init => BatchesWhole
    BY NothingSentYet DEF BatchesWhole
  <1>2. /\ Consistent /\ Shared /\ InOrder /\ Votes /\ Unblocked
        /\ BatchesWhole /\ [Next]_vars
        => BatchesWhole'
    <2> SUFFICES ASSUME Consistent, Shared, InOrder, Votes, Unblocked,
                        BatchesWhole, [Next]_vars
                 PROVE  BatchesWhole'
      OBVIOUS
    <2>1. ~ReturnFromBlock
      BY HeadTailProperties DEF ReturnFromBlock, Unblocked, Waits
    <2>2. DataTyped /\ Effect
      BY NextEffect DEF Consistent
    <2> QED BY <2>1, <2>2, GoesOnWhole, SettledWhole, WrittenDownWhole DEF Effect
  <1> QED BY <1>1, <1>2, ConsistentAlways, SharedAlways, InOrderAlways, VotesAlways,
             UnblockedAlways, PTL DEF Spec

\* The updates of one activation are sent in one request that no participant
\* voted against, or are dropped because one did.
THEOREM BatchesShareFate ==
  ASSUME DirectHandles = FALSE, TRUE \notin Blocking
  PROVE  Spec => []AllOrNothing
  <1>1. Consistent /\ Votes /\ BatchesWhole => AllOrNothing
    BY RequestsSent DEF Votes, VotesHonoured, BatchesWhole, VetoesRespected, AllOrNothing
  <1> QED BY <1>1, ConsistentAlways, VotesAlways, WholeAlways, PTL

----------------------------------------------------------------------------
(* Calls in progress can go on.                                            *)

\* A blocking commit waits for a request that was sent, in an event loop that
\* takes the answer in.
Answerable ==
  {f \in Frame : f.kind = "commit" => f.slots = TRUE /\ f.request \in 1..Len(requests)}
Expected == stack \in Seq(Answerable)

\* The innermost call returns, or the answer it waits for can be taken in.
CallsCanReturn ==
  stack # <<>> =>
    \/ Head(stack).kind = "reinitiate"
    \/ Head(stack).request \in replied
    \/ CallersRun /\ Head(stack).request \in 1..Len(requests)

LEMMA AnswerableKept ==
  ASSUME DataTyped, DataTyped', Len(requests) <= Len(requests)'
  PROVE  Answerable \subseteq Answerable' /\ Waits \subseteq Answerable'
  <1>1. Len(requests) \in Nat /\ Len(requests)' \in Nat
    BY LenProperties DEF DataTyped
  <1> QED BY <1>1 DEF Answerable, Waits, Frame

\* A request more, or none, keeps what the calls in progress wait for.
LEMMA ExpectedKept ==
  ASSUME DataTyped, DataTyped', Len(requests) <= Len(requests)', Expected,
         NEW next \in Seq(Waits),
         stack' = stack \/ stack' = next \o stack
           \/ (stack # <<>> /\ stack' = Tail(stack))
  PROVE  Expected'
  <1>1. Answerable \subseteq Answerable' /\ Waits \subseteq Answerable'
    BY AnswerableKept
  <1>2. stack \in Seq(Answerable') /\ next \in Seq(Answerable')
    BY <1>1, SeqMonotonic DEF Expected
  <1>3. /\ next \o stack \in Seq(Answerable')
        /\ stack # <<>> => Tail(stack) \in Seq(Answerable')
    BY <1>2, ConcatProperties, HeadTailProperties
  <1> QED BY <1>2, <1>3 DEF Expected

\* The request a blocking commit waits for is the one it has just sent.
LEMMA CommitExpected ==
  ASSUME DataTyped, DataTyped', Expected, NEW t \in Tx, NEW o \in Tx \cup Sub,
         NEW b, NEW next \in Seq(Waits), NEW m, commit(t, o, b, next, m)
  PROVE  Expected'
  <1>1. CASE requests' = requests
    <2>1. Len(requests) <= Len(requests)'
      BY <1>1, LenProperties DEF DataTyped
    <2>2. stack' = stack \/ stack' = next \o stack
      <3>1. Append(requests, [tx |-> t, ops |-> update[t]]) # requests
        BY LenProperties, AppendProperties DEF DataTyped
      <3> QED BY <1>1, <3>1 DEF commit, Unfinished
    <2> QED BY <2>1, <2>2, ExpectedKept
  <1>2. CASE requests' # requests
    <2>1. PICK r \in Request : requests' = Append(requests, r)
      BY <1>2 DEF commit, Unfinished, database, Request, DataTyped
    <2>2. Len(requests)' = Len(requests) + 1 /\ Len(requests) \in Nat
      BY <2>1, AppendProperties, LenProperties DEF DataTyped, Request
    <2>3. PICK f : f = EndOfCommit(o, t, Len(requests) + 1)
      OBVIOUS
    <2>4. f \in Answerable'
      BY <2>2, <2>3 DEF EndOfCommit, Answerable, Frame
    <2>5. \/ stack' = next \o stack
          \/ stack' = <<f>> \o next \o stack
      BY <1>2, <2>3 DEF commit, Unfinished, database
    <2>6. Answerable \subseteq Answerable' /\ Waits \subseteq Answerable'
      BY <2>2, AnswerableKept
    <2>7. stack \in Seq(Answerable') /\ next \in Seq(Answerable')
      BY <2>6, SeqMonotonic DEF Expected
    <2>8. <<f>> \in Seq(Answerable')
      BY <2>4
    <2>9. <<f>> \o next \in Seq(Answerable')
      BY <2>7, <2>8, ConcatProperties
    <2>10. /\ next \o stack \in Seq(Answerable')
           /\ <<f>> \o next \o stack \in Seq(Answerable')
      BY <2>7, <2>9, ConcatProperties
    <2> QED BY <2>5, <2>10 DEF Expected
  <1> QED BY <1>1, <1>2

LEMMA RollbackExpected ==
  ASSUME DataTyped, DataTyped', Expected, NEW next \in Seq(Waits), NEW t, NEW m,
         rollback(t, next, m) \/ Unfinished(m)
  PROVE  Expected'
  <1>1. /\ requests' = requests
        /\ stack' = stack \/ stack' = next \o stack
    BY DEF rollback, Unfinished, database
  <1>2. Len(requests) <= Len(requests)'
    BY <1>1, LenProperties DEF DataTyped
  <1> QED BY <1>1, <1>2, ExpectedKept

LEMMA SharerExpected ==
  ASSUME Consistent, DataTyped', Expected, NEW s \in Sub, Active(s), NEW b,
         NEW next \in Seq(Waits), NEW m,
         subCommit(s, b, next, m) \/ subRollback(s, next, m)
  PROVE  Expected'
  <1>1. PICK t \in Tx : t = parent[s]
    BY DEF Consistent, SubsHeld
  <1>2. \/ commit(t, s, b, next, m)
        \/ rollback(t, next, m) \/ rollback(t, <<>>, m)
        \/ Unfinished(m)
        \/ Unfinished([m EXCEPT ![t] = @ \cup {"PendingRollback"}])
    BY <1>1 DEF subCommit, subRollback
  <1>3. <<>> \in Seq(Waits)
    BY EmptySeq
  <1> QED BY <1>2, <1>3, CommitExpected, RollbackExpected DEF Consistent

LEMMA DestroyExpected ==
  ASSUME Consistent, DataTyped', Expected, NEW t \in Tx, NEW m,
         DestroyTx(t, m) \/ Unfinished(m)
  PROVE  Expected'
  <1>1. <<>> \in Seq(Waits)
    BY EmptySeq
  <1>2. \/ commit(t, t, FALSE, <<>>, m) \/ rollback(t, <<>>, m) \/ Unfinished(m)
    BY DEF DestroyTx
  <1> QED BY <1>1, <1>2, CommitExpected, RollbackExpected DEF Consistent

LEMMA NextExpected ==
  ASSUME Consistent, DataTyped', Expected, [Next]_vars
  PROVE  Expected'
  <1> USE DEF Consistent
  <1>1. <<>> \in Seq(Waits)
    BY EmptySeq
  <1>2. ASSUME NEW s \in Sub, CommitSub(s) \/ RollbackSub(s) PROVE Expected'
    <2>1. PICK b, goal, slots :
            /\ slots \in BOOLEAN
            /\ \/ subCommit(s, b, Continuation(goal, s, slots), Inactivated(s))
               \/ subRollback(s, Continuation(goal, s, slots), Inactivated(s))
      BY <1>2 DEF CommitSub, RollbackSub
    <2>2. Active(s) /\ Continuation(goal, s, slots) \in Seq(Waits)
      BY <1>2, <2>1, ContinuationWaits DEF CommitSub, RollbackSub
    <2> QED BY <2>1, <2>2, SharerExpected
  <1>3. ASSUME NEW t \in Tx, CommitTx(t) \/ RollbackTx(t) PROVE Expected'
    <2>1. PICK b, goal, slots :
            /\ slots \in BOOLEAN
            /\ \/ commit(t, t, b, Continuation(goal, t, slots), mode)
               \/ rollback(t, Continuation(goal, t, slots), mode)
      BY <1>3 DEF CommitTx, RollbackTx
    <2>2. Continuation(goal, t, slots) \in Seq(Waits)
      BY <2>1, ContinuationWaits
    <2> QED BY <2>1, <2>2, CommitExpected, RollbackExpected
  <1>4. ASSUME NEW t \in Tx, DropTx(t) PROVE Expected'
    BY <1>4, DestroyExpected DEF DropTx
  <1>5. ASSUME NEW s \in Sub, DropSub(s) PROVE Expected'
    <2>1. PICK m : m = [mode EXCEPT ![s] = {"Inactive"}]
      OBVIOUS
    <2>2. s \in held /\ parent[s] \in Tx
      BY <1>5 DEF DropSub, SubsHeld
    <2>3. \/ Active(s) /\ (subCommit(s, FALSE, <<>>, m) \/ subRollback(s, <<>>, m))
          \/ Unfinished(m) \/ DestroyTx(parent[s], m)
      BY <1>5, <2>1 DEF DropSub
    <2> QED BY <1>1, <2>2, <2>3, SharerExpected, DestroyExpected
  <1>6. CASE Execute
    <2>1. stack' = stack
      BY <1>6 DEF Execute
    <2>2. Len(requests) <= Len(requests)'
      <3>1. CASE requests' = requests
        BY <3>1, LenProperties DEF DataTyped
      <3>2. CASE requests' # requests
        <4>1. PICK op \in Op : op = Len(issued) + 1
          BY <1>6, BoundsAssumption, LenProperties DEF Execute, DataTyped, Op
        <4>2. PICK r \in Request : requests' = Append(requests, r)
          BY <1>6, <3>2, <4>1 DEF Execute, Sent, Recorded, Request
        <4> QED BY <4>2, AppendProperties, LenProperties DEF DataTyped, Request
      <3> QED BY <3>1, <3>2
    <2> QED BY <1>1, <2>1, <2>2, ExpectedKept
  <1>7. CASE \/ Returns \/ PendingTransaction \/ CreateTransaction
             \/ \E o \in Tx \cup Sub : Reinitiate(o)
             \/ \E r \in 1..Len(requests) : DatabaseReply(r)
             \/ UNCHANGED vars
    <2>1. /\ requests' = requests
          /\ stack' = stack \/ (stack # <<>> /\ stack' = Tail(stack))
      BY <1>7 DEF Returns, ReturnToReinitiate, ReturnFromBlock, PendingTransaction,
         CreateTransaction, CreateShared, CreateOwn, Reinitiate, DatabaseReply,
         vars, database
    <2>2. Len(requests) <= Len(requests)'
      BY <2>1, LenProperties DEF DataTyped
    <2> QED BY <1>1, <2>1, <2>2, ExpectedKept
  <1> QED BY <1>2, <1>3, <1>4, <1>5, <1>6, <1>7 DEF Next

\* No call is stuck, however blocking commits, slots and handles are nested:
\* the innermost call in progress goes on to reinitiate, has its answer, or
\* waits in an event loop for the answer to a request that was sent.  This is
\* what run Transaction_blocking needs of every state for CallsReturn.
THEOREM NoCallStuck == Spec => []CallsCanReturn
  <1>1. Init => Expected
    BY EmptySeq DEF Init, Expected
  <1>2. Consistent /\ Consistent' /\ Expected /\ [Next]_vars => Expected'
    BY NextExpected DEF Consistent
  <1>3. Expected => CallsCanReturn
    <2> SUFFICES ASSUME Expected, stack # <<>>
                 PROVE  \/ Head(stack).kind = "reinitiate"
                        \/ CallersRun /\ Head(stack).request \in 1..Len(requests)
      BY DEF CallsCanReturn
    <2>1. Head(stack) \in Answerable
      BY HeadTailProperties DEF Expected
    <2> QED BY <2>1 DEF Answerable, Frame, CallersRun
  <1> QED BY <1>1, <1>2, <1>3, ConsistentAlways, PTL DEF Spec

=============================================================================
