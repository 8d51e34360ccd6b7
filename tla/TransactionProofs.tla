------------------------- MODULE TransactionProofs -------------------------
(***************************************************************************)
(* Proofs about Transaction.  Consistent is inductive for every choice of  *)
(* the constants, callers' direct handles and nested event loops included. *)
(***************************************************************************)
EXTENDS Transaction, FiniteSetTheorems, SequenceTheorems, TLAPS

Flags == ModeFlags \cup BackEndFlags
Modal == [Tx \cup Sub -> SUBSET Flags]

----------------------------------------------------------------------------
(* What the finishing calls do.                                            *)

\* The objects after a call that finishes t if it is active.
Finish(t, m) ==
  /\ transaction' = IF Active(t) THEN NoTx ELSE transaction
  /\ mode' \in IF Active(t)
               THEN {[m EXCEPT ![t] = @ \cup {"Inactive"}],
                     [m EXCEPT ![t] = (@ \cup {"Inactive"}) \ {"PendingRollback"}]}
               ELSE {m}

\* commit finishes its Transaction.
LEMMA CommitFinishes ==
  ASSUME NEW t \in Tx, NEW o, NEW b, NEW next, NEW m, commit(t, o, b, next, m)
  PROVE  Finish(t, m)
  BY DEF commit, Unfinished, Finish

\* rollback finishes its Transaction.
LEMMA RollbackFinishes ==
  ASSUME NEW t \in Tx, NEW next, NEW m, rollback(t, next, m)
  PROVE  Finish(t, m)
  BY DEF rollback, Unfinished, Finish

\* A finishing call leaves the recorded updates, the requests and the history
\* well-typed, whatever it has sent or dropped.
LEMMA CommitTyped ==
  ASSUME NEW t \in Tx, NEW o, NEW b, NEW next, NEW m,
         DataTyped, commit(t, o, b, next, m), vetoed' \subseteq Nat
  PROVE  DataTyped'
  <1>1. CASE ~Active(t)
    BY <1>1 DEF commit, Unfinished, DataTyped, database
  <1>2. CASE Active(t) /\ update[t] = {}
    BY <1>2 DEF commit, DataTyped
  <1>3. CASE Active(t) /\ update[t] # {}
    <2>1. /\ requests' = Append(requests, [tx |-> t, ops |-> update[t]])
          /\ pending_commit' = [pending_commit EXCEPT ![t] = Len(requests) + 1]
          /\ update' \in {update, [update EXCEPT ![t] = {}]}
          /\ UNCHANGED <<replied, activations, issued, discarded>>
      BY <1>3 DEF commit
    <2>2. requests' \in Seq([tx : Tx \cup {NoTx}, ops : SUBSET Op])
      BY <2>1 DEF DataTyped
    <2>3. pending_commit' \in [Tx -> Nat]
      BY <2>1, LenProperties DEF DataTyped
    <2>4. update' \in [Tx -> SUBSET Op]
      BY <2>1 DEF DataTyped
    <2> QED BY <2>1, <2>2, <2>3, <2>4 DEF DataTyped
  <1> QED BY <1>1, <1>2, <1>3

LEMMA RollbackTyped ==
  ASSUME NEW t \in Tx, NEW next, NEW m,
         DataTyped, rollback(t, next, m), vetoed' \subseteq Nat
  PROVE  DataTyped'
  <1>1. CASE ~Active(t)
    BY <1>1 DEF rollback, Unfinished, DataTyped, database
  <1>2. CASE Active(t)
    BY <1>2 DEF rollback, DataTyped, database
  <1> QED BY <1>1, <1>2

\* The calls in progress after a finishing call are those before it, and calls
\* of the object it was made on.
LEMMA CommitCalls ==
  ASSUME NEW t \in Tx, NEW o \in held, NEW b, NEW next \in Seq(HeldFrame), NEW m,
         held \subseteq Tx \cup Sub, CallsHeld, requests \in Seq([tx : Tx \cup {NoTx}, ops : SUBSET Op]),
         commit(t, o, b, next, m)
  PROVE  stack' \in Seq(HeldFrame)
  <1>1. EndOfCommit(o, t, Len(requests) + 1) \in HeldFrame
    BY LenProperties DEF EndOfCommit, HeldFrame, Frame
  <1>2. \/ stack' = stack
        \/ stack' = next \o stack
        \/ stack' = <<EndOfCommit(o, t, Len(requests) + 1)>> \o next \o stack
    BY DEF commit, Unfinished
  <1>3. <<EndOfCommit(o, t, Len(requests) + 1)>> \in Seq(HeldFrame)
    BY <1>1
  <1>4. <<EndOfCommit(o, t, Len(requests) + 1)>> \o next \in Seq(HeldFrame)
    BY <1>3, ConcatProperties
  <1>5. /\ next \o stack \in Seq(HeldFrame)
        /\ <<EndOfCommit(o, t, Len(requests) + 1)>> \o next \o stack \in Seq(HeldFrame)
    BY <1>4, ConcatProperties DEF CallsHeld
  <1> QED BY <1>2, <1>5 DEF CallsHeld

LEMMA RollbackCalls ==
  ASSUME NEW t \in Tx, NEW next \in Seq(HeldFrame), NEW m,
         CallsHeld, rollback(t, next, m)
  PROVE  stack' \in Seq(HeldFrame)
  <1>1. stack' = stack \/ stack' = next \o stack
    BY DEF rollback, Unfinished
  <1> QED BY <1>1, ConcatProperties DEF CallsHeld

----------------------------------------------------------------------------
(* The count of sharers.                                                   *)

LEMMA SharersFinite ==
  ASSUME NEW t
  PROVE  IsFiniteSet(Sharers(t)) /\ Cardinality(Sharers(t)) \in Nat
  BY ObjectsAssumption, FS_Subset, FS_CardinalityType DEF Sharers

\* One sharer leaves, and is counted off.
LEMMA SharerLeaves ==
  ASSUME NEW s \in Sub, ObjectsTyped, SharersCounted, Active(s), parent[s] \in Tx,
         \A r \in Sub : Active(r)' <=> Active(r) /\ r # s,
         \A r \in Sub \ {s} : parent'[r] = parent[r],
         active_subs' = [active_subs EXCEPT ![parent[s]] = @ - 1]
  PROVE  SharersCounted' /\ active_subs' \in [Tx -> Nat]
  <1> SUFFICES ASSUME NEW t \in Tx
               PROVE  active_subs'[t] = Cardinality(Sharers(t)') /\ active_subs'[t] \in Nat
    BY DEF ObjectsTyped, SharersCounted
  <1>1. CASE t = parent[s]
    <2>1. s \in Sharers(t) /\ Sharers(t)' = Sharers(t) \ {s}
      BY <1>1 DEF Sharers
    <2>2. Cardinality(Sharers(t)') = Cardinality(Sharers(t)) - 1
      BY <2>1, SharersFinite, FS_RemoveElement
    <2>3. Cardinality(Sharers(t)') \in Nat
      BY <2>1, SharersFinite, FS_RemoveElement, FS_CardinalityType
    <2>4. active_subs'[t] = active_subs[t] - 1 /\ active_subs[t] = Cardinality(Sharers(t))
      BY <1>1 DEF ObjectsTyped, SharersCounted
    <2> QED BY <2>2, <2>3, <2>4
  <1>2. CASE t # parent[s]
    <2>1. Sharers(t)' = Sharers(t)
      BY <1>2 DEF Sharers
    <2> QED BY <1>2, <2>1, SharersFinite DEF ObjectsTyped, SharersCounted
  <1> QED BY <1>1, <1>2

\* One sharer comes, and is counted in.
LEMMA SharerComes ==
  ASSUME NEW s \in Sub, NEW p \in Tx, ObjectsTyped, SharersCounted, ~Active(s),
         \A r \in Sub : Active(r)' <=> Active(r) \/ r = s,
         \A r \in Sub \ {s} : parent'[r] = parent[r],
         parent'[s] = p,
         active_subs' = [active_subs EXCEPT ![p] = @ + 1]
  PROVE  SharersCounted' /\ active_subs' \in [Tx -> Nat]
  <1> SUFFICES ASSUME NEW t \in Tx
               PROVE  active_subs'[t] = Cardinality(Sharers(t)') /\ active_subs'[t] \in Nat
    BY DEF ObjectsTyped, SharersCounted
  <1>1. CASE t = p
    <2>1. s \notin Sharers(t) /\ Sharers(t)' = Sharers(t) \cup {s}
      BY <1>1 DEF Sharers
    <2>2. Cardinality(Sharers(t)') = Cardinality(Sharers(t)) + 1
      BY <2>1, SharersFinite, FS_AddElement
    <2>3. active_subs'[t] = active_subs[t] + 1 /\ active_subs[t] = Cardinality(Sharers(t))
      BY <1>1 DEF ObjectsTyped, SharersCounted
    <2> QED BY <2>2, <2>3, SharersFinite
  <1>2. CASE t # p
    <2>1. Sharers(t)' = Sharers(t)
      BY <1>2 DEF Sharers
    <2> QED BY <1>2, <2>1, SharersFinite DEF ObjectsTyped, SharersCounted
  <1> QED BY <1>1, <1>2

\* The sharers stay as they are.
LEMMA SharersStay ==
  ASSUME ObjectsTyped, SharersCounted,
         \A r \in Sub : Active(r)' <=> Active(r),
         \A r \in Sub : Active(r) => parent'[r] = parent[r],
         active_subs' = active_subs
  PROVE  SharersCounted' /\ active_subs' \in [Tx -> Nat]
  <1>1. \A t \in Tx : Sharers(t)' = Sharers(t)
    BY DEF Sharers
  <1> QED BY <1>1 DEF ObjectsTyped, SharersCounted

\* Nobody is counted as a sharer of an object that does not exist.
LEMMA UnreferencedUnshared ==
  ASSUME NEW t \in Tx, ObjectsTyped, SharersCounted, SubsHeld, ~Exists(t)
  PROVE  Sharers(t) = {} /\ active_subs[t] = 0
  <1>1. Sharers(t) = {}
    BY DEF Sharers, SubsHeld, Exists, Referenced
  <1> QED BY <1>1, FS_EmptySet DEF SharersCounted

\* The last one that is counted is the only sharer.
LEMMA LastSharer ==
  ASSUME NEW s \in Sub, ObjectsTyped, SharersCounted, Active(s), parent[s] \in Tx
  PROVE  /\ active_subs[parent[s]] = 1 => Sharers(parent[s]) = {s}
         /\ active_subs[parent[s]] # 1 => \E r \in Sharers(parent[s]) : r # s
  <1>1. s \in Sharers(parent[s])
    BY DEF Sharers
  <1>2. active_subs[parent[s]] = Cardinality(Sharers(parent[s]))
    BY DEF SharersCounted
  <1>3. Cardinality(Sharers(parent[s])) = 1 <=> \E r : Sharers(parent[s]) = {r}
    BY SharersFinite, FS_Singleton
  <1> QED BY <1>1, <1>2, <1>3

\* Who shares a Transaction that is counted as unshared is not active.
LEMMA UncountedInactive ==
  ASSUME NEW s \in Sub, ObjectsTyped, SharersCounted, parent[s] \in Tx,
         active_subs[parent[s]] = 0
  PROVE  ~Active(s)
  <1>1. Cardinality(Sharers(parent[s])) = 0
    BY DEF SharersCounted
  <1>2. Sharers(parent[s]) = {}
    BY <1>1, SharersFinite, FS_EmptySet
  <1> QED BY <1>2 DEF Sharers

----------------------------------------------------------------------------
(* The objects: the part of Consistent about handles and pointers.         *)

Objects ==
  ObjectsTyped /\ ActiveIsCurrent /\ SharersCounted /\ SubsHeld /\ CurrentExists

\* Finishing a Transaction that no sharer finishes.
LEMMA TxFinishes ==
  ASSUME Objects, NEW t \in Tx, Finish(t, mode),
         UNCHANGED <<parent, active_subs, held>>
  PROVE  Objects'
  <1> USE ObjectsAssumption
  <1>1. /\ mode' \in Modal
        /\ \A o \in (Tx \cup Sub) \ {t} : Active(o)' <=> Active(o)
        /\ ~Active(t)'
    BY DEF Objects, ObjectsTyped, Finish, Modal, Flags, ModeFlags, Active
  <1>2. transaction' = IF transaction = t THEN NoTx ELSE transaction
    BY DEF Finish, Objects, ActiveIsCurrent
  <1>3. ObjectsTyped'
    BY <1>1, <1>2 DEF Objects, ObjectsTyped, Modal, Flags
  <1>4. ActiveIsCurrent'
    BY <1>1, <1>2 DEF Objects, ObjectsTyped, ActiveIsCurrent
  <1>5. SharersCounted'
    BY <1>1, SharersStay DEF Objects
  <1>6. SubsHeld'
    BY <1>1 DEF Objects, SubsHeld
  <1>7. CurrentExists'
    BY <1>2 DEF Objects, CurrentExists, Exists, Referenced
  <1> QED BY <1>3, <1>4, <1>5, <1>6, <1>7 DEF Objects

\* What finishing a sharer s of t does to the objects.  s may be dropped with it.
SharerFinish(s, t) ==
  /\ mode' \in Modal
  /\ ~Active(s)'
  /\ \A o \in (Tx \cup Sub) \ {s, t} : Active(o)' <=> Active(o)
  /\ active_subs' = [active_subs EXCEPT ![t] = @ - 1]
  /\ IF active_subs[t] = 1
     THEN ~Active(t)' /\ transaction' = IF Active(t) THEN NoTx ELSE transaction
     ELSE (Active(t)' <=> Active(t)) /\ transaction' = transaction
  /\ \/ UNCHANGED <<parent, held>>
     \/ /\ parent' = [parent EXCEPT ![s] = NoTx]
        /\ held' = held \ {s}

LEMMA SharerFinishes ==
  ASSUME Objects, NEW s \in Sub, NEW t \in Tx, parent[s] = t, Active(s),
         SharerFinish(s, t)
  PROVE  Objects'
  <1> USE ObjectsAssumption
  <1>1. s \in held /\ t \in Tx /\ parent[s] = t
    BY DEF Objects, SubsHeld
  <1>2. /\ \A r \in Sub : Active(r)' <=> Active(r) /\ r # s
        /\ \A r \in Sub \ {s} : parent'[r] = parent[r]
        /\ parent' \in [Sub -> Tx \cup {NoTx}]
        /\ active_subs' = [active_subs EXCEPT ![t] = @ - 1]
    BY <1>1 DEF SharerFinish, Objects, ObjectsTyped
  <1>3. SharersCounted' /\ active_subs' \in [Tx -> Nat]
    BY <1>1, <1>2, SharerLeaves DEF Objects
  <1>4. ObjectsTyped'
    BY <1>1, <1>2, <1>3 DEF SharerFinish, Objects, ObjectsTyped, Modal, Flags
  <1>5. ActiveIsCurrent'
    <2> SUFFICES ASSUME NEW u \in Tx PROVE Active(u)' <=> transaction' = u
      BY DEF ActiveIsCurrent
    <2>1. CASE u = t
      <3>1. Active(t) <=> transaction = t
        BY <1>1 DEF Objects, ActiveIsCurrent
      <3>2. CASE active_subs[t] = 1
        BY <1>1, <2>1, <3>1, <3>2 DEF SharerFinish
      <3>3. CASE active_subs[t] # 1
        BY <1>1, <2>1, <3>1, <3>3 DEF SharerFinish
      <3> QED BY <3>2, <3>3
    <2>2. CASE u # t
      <3>1. Active(u)' <=> Active(u)
        BY <1>1, <2>2 DEF SharerFinish
      <3> QED BY <1>1, <2>2, <3>1 DEF SharerFinish, Objects, ActiveIsCurrent
    <2> QED BY <2>1, <2>2
  <1>6. SubsHeld'
    BY <1>1, <1>2 DEF SharerFinish, Objects, SubsHeld
  <1>7. CurrentExists'
    <2> SUFFICES ASSUME transaction' # NoTx PROVE Exists(transaction)'
      BY DEF CurrentExists
    <2>1. transaction' = transaction /\ transaction \in Tx
      BY DEF SharerFinish, Objects, ObjectsTyped
    <2>2. CASE transaction # t
      <3>1. transaction \in held \/ \E r \in held \cap Sub : parent[r] = transaction
        BY <2>1 DEF Objects, CurrentExists, Exists, Referenced
      <3>2. CASE transaction \in held
        BY <2>1, <3>2 DEF SharerFinish, Exists, Referenced
      <3>3. CASE \E r \in held \cap Sub : parent[r] = transaction
        <4>1. PICK r \in held \cap Sub : parent[r] = transaction
          BY <3>3
        <4>2. r # s /\ r \in held' \cap Sub /\ parent'[r] = transaction
          BY <2>2, <4>1, <1>2 DEF SharerFinish
        <4> QED BY <2>1, <4>2 DEF Exists, Referenced
      <3> QED BY <3>1, <3>2, <3>3
    <2>3. CASE transaction = t
      <3>1. Active(t)
        BY <2>3, <1>1 DEF Objects, ActiveIsCurrent
      <3>2. active_subs[t] # 1
        BY <3>1, <2>1, <2>3, <1>1 DEF SharerFinish
      <3>3. PICK r \in Sharers(t) : r # s
        BY <3>2, <1>1, LastSharer DEF Objects
      <3>4. r \in held' \cap Sub /\ parent'[r] = t
        BY <3>3, <1>2 DEF Sharers, SharerFinish, Objects, SubsHeld
      <3> QED BY <2>1, <2>3, <3>4 DEF Exists, Referenced
    <2> QED BY <2>2, <2>3
  <1> QED BY <1>3, <1>4, <1>5, <1>6, <1>7 DEF Objects

\* Finishing a sharer finishes its Transaction only if it is the last.
LEMMA SubCommitFinishes ==
  ASSUME Objects, NEW s \in Sub, NEW t \in Tx, parent[s] = t, Active(s),
         NEW b, NEW next, NEW m \in Modal,
         "Inactive" \in m[s], \A o \in (Tx \cup Sub) \ {s} : m[o] = mode[o],
         subCommit(s, b, next, m),
         \/ UNCHANGED <<parent, held>>
         \/ parent' = [parent EXCEPT ![s] = NoTx] /\ held' = held \ {s}
  PROVE  SharerFinish(s, t)
  <1> USE ObjectsAssumption
  <1>1. t \in Tx /\ t # s /\ t \notin Sub
    OBVIOUS
  <1>2. active_subs' = [active_subs EXCEPT ![t] = @ - 1]
    BY DEF subCommit
  <1>3. CASE active_subs[t] # 1
    <2>1. mode' = m /\ transaction' = transaction
      BY <1>3 DEF subCommit, Unfinished
    <2>2. /\ ~Active(s)'
          /\ \A o \in (Tx \cup Sub) \ {s} : Active(o)' <=> Active(o)
      BY <2>1 DEF Active
    <2> QED BY <1>1, <1>2, <1>3, <2>1, <2>2 DEF SharerFinish
  <1>4. CASE active_subs[t] = 1
    <2>1. Finish(t, m)
      <3>1. \/ rollback(t, <<>>, m)
            \/ commit(t, s, b, next, m)
        BY <1>4 DEF subCommit
      <3> QED BY <1>1, <3>1, CommitFinishes, RollbackFinishes
    <2>2. /\ mode' \in Modal
          /\ \A o \in (Tx \cup Sub) \ {t} : mode'[o] = m[o]
          /\ "Inactive" \in mode'[t]
      BY <1>1, <2>1 DEF Finish, Modal, Flags, ModeFlags, Active
    <2>3. /\ ~Active(s)' /\ ~Active(t)'
          /\ \A o \in (Tx \cup Sub) \ {s, t} : Active(o)' <=> Active(o)
      BY <1>1, <2>2 DEF Active
    <2>4. transaction' = IF Active(t) THEN NoTx ELSE transaction
      BY <2>1 DEF Finish
    <2> QED BY <1>2, <1>4, <2>2, <2>3, <2>4 DEF SharerFinish
  <1> QED BY <1>3, <1>4

LEMMA SubRollbackFinishes ==
  ASSUME Objects, NEW s \in Sub, NEW t \in Tx, parent[s] = t, Active(s), NEW next, NEW m \in Modal,
         "Inactive" \in m[s], \A o \in (Tx \cup Sub) \ {s} : m[o] = mode[o],
         subRollback(s, next, m),
         \/ UNCHANGED <<parent, held>>
         \/ parent' = [parent EXCEPT ![s] = NoTx] /\ held' = held \ {s}
  PROVE  SharerFinish(s, t)
  <1> USE ObjectsAssumption
  <1>1. t \in Tx /\ t # s /\ t \notin Sub
    OBVIOUS
  <1>2. active_subs' = [active_subs EXCEPT ![t] = @ - 1]
    BY DEF subRollback
  <1>3. CASE active_subs[t] # 1
    <2>1. /\ mode' = [m EXCEPT ![t] = @ \cup {"PendingRollback"}]
          /\ transaction' = transaction
      BY <1>3 DEF subRollback, Unfinished
    <2>2. /\ mode' \in Modal
          /\ \A o \in Tx \cup Sub : "Inactive" \in mode'[o] <=> "Inactive" \in m[o]
      BY <1>1, <2>1 DEF Modal, Flags, ModeFlags
    <2>3. /\ ~Active(s)'
          /\ \A o \in (Tx \cup Sub) \ {s} : Active(o)' <=> Active(o)
      BY <2>2 DEF Active
    <2> QED BY <1>1, <1>2, <1>3, <2>1, <2>2, <2>3 DEF SharerFinish
  <1>4. CASE active_subs[t] = 1
    <2>1. Finish(t, m)
      BY <1>1, <1>4, RollbackFinishes DEF subRollback
    <2>2. /\ mode' \in Modal
          /\ \A o \in (Tx \cup Sub) \ {t} : mode'[o] = m[o]
          /\ "Inactive" \in mode'[t]
      BY <1>1, <2>1 DEF Finish, Modal, Flags, ModeFlags, Active
    <2>3. /\ ~Active(s)' /\ ~Active(t)'
          /\ \A o \in (Tx \cup Sub) \ {s, t} : Active(o)' <=> Active(o)
      BY <1>1, <2>2 DEF Active
    <2>4. transaction' = IF Active(t) THEN NoTx ELSE transaction
      BY <2>1 DEF Finish
    <2> QED BY <1>2, <1>4, <2>2, <2>3, <2>4 DEF SharerFinish
  <1> QED BY <1>3, <1>4

----------------------------------------------------------------------------
\* A handle that is activated again, alone or as a sharer.
LEMMA ReinitiatedObjects ==
  ASSUME Objects, NEW o \in held, Reinitiated(o), held' = held
  PROVE  Objects'
  <1> USE ObjectsAssumption
  <1>1. CASE o \in Tx
    <2>1. /\ transaction = NoTx /\ transaction' = o
          /\ mode' = [mode EXCEPT ![o] = @ \ {"Inactive"}]
          /\ UNCHANGED <<parent, active_subs>>
      BY <1>1 DEF Reinitiated, ReinitiateTx, reinitiate
    <2>2. /\ mode' \in Modal
          /\ \A p \in (Tx \cup Sub) \ {o} : Active(p)' <=> Active(p)
          /\ Active(o)'
      BY <1>1, <2>1 DEF Objects, ObjectsTyped, Modal, Flags, ModeFlags, Active
    <2>3. ObjectsTyped'
      BY <1>1, <2>1, <2>2 DEF Objects, ObjectsTyped, Modal, Flags
    <2>4. ActiveIsCurrent'
      BY <1>1, <2>1, <2>2 DEF Objects, ActiveIsCurrent
    <2>5. SharersCounted'
      BY <1>1, <2>1, <2>2, SharersStay DEF Objects
    <2>6. SubsHeld' /\ CurrentExists'
      BY <1>1, <2>1, <2>2 DEF Objects, SubsHeld, CurrentExists, Exists, Referenced
    <2> QED BY <2>3, <2>4, <2>5, <2>6 DEF Objects
  <1>2. CASE o \in Sub /\ ReinitiateOwn(o)
    <2>1. PICK t \in Tx : t = parent[o]
      BY <1>2 DEF Objects, SubsHeld
    <2>2. /\ transaction = NoTx /\ transaction' = t /\ active_subs[t] = 0
          /\ mode' = [Activated(o) EXCEPT ![t] = @ \ {"Inactive"}]
          /\ parent' = parent /\ active_subs' = [active_subs EXCEPT ![t] = 1]
      BY <1>2, <2>1 DEF ReinitiateOwn, reinitiate
    <2>3. ~Active(o)
      BY <1>2, <2>1, <2>2, UncountedInactive DEF Objects
    <2>4. /\ mode' \in Modal
          /\ \A p \in (Tx \cup Sub) \ {o, t} : mode'[p] = mode[p]
          /\ "Inactive" \notin mode'[o] /\ "Inactive" \notin mode'[t]
      BY <1>2, <2>2 DEF Activated, Objects, ObjectsTyped, Modal, Flags, ModeFlags
    <2>5. /\ \A p \in (Tx \cup Sub) \ {o, t} : Active(p)' <=> Active(p)
          /\ Active(o)' /\ Active(t)'
      BY <2>4 DEF Active
    <2>6. active_subs' = [active_subs EXCEPT ![t] = @ + 1]
      BY <2>2 DEF Objects, ObjectsTyped
    <2>7. SharersCounted' /\ active_subs' \in [Tx -> Nat]
      <3>1. \A r \in Sub : Active(r)' <=> Active(r) \/ r = o
        BY <1>2, <2>5
      <3>2. parent'[o] = t /\ \A r \in Sub \ {o} : parent'[r] = parent[r]
        BY <2>1, <2>2
      <3> QED BY <1>2, <2>3, <2>6, <3>1, <3>2, SharerComes DEF Objects
    <2>8. ObjectsTyped'
      BY <2>2, <2>4, <2>7 DEF Objects, ObjectsTyped, Modal, Flags
    <2>9. ActiveIsCurrent'
      BY <1>2, <2>2, <2>5 DEF Objects, ActiveIsCurrent
    <2>10. SubsHeld' /\ CurrentExists'
      BY <1>2, <2>1, <2>2, <2>5 DEF Objects, SubsHeld, CurrentExists, Exists, Referenced
    <2> QED BY <2>7, <2>8, <2>9, <2>10 DEF Objects
  <1>3. CASE o \in Sub /\ ~Active(o) /\ ReinitiateShared(o)
    <2>1. PICK t \in Tx : Join(o, t) /\ (t = parent[o] \/ t = transaction)
      <3>1. parent[o] \in Tx
        BY <1>3 DEF Objects, SubsHeld
      <3> QED BY <1>3, <3>1 DEF ReinitiateShared, Objects, ObjectsTyped
    <2>2. /\ parent' = [parent EXCEPT ![o] = t]
          /\ mode' = Activated(o)
          /\ active_subs' = [active_subs EXCEPT ![t] = @ + 1]
          /\ transaction' = transaction
      BY <2>1 DEF Join
    <2>3. /\ mode' \in Modal
          /\ \A p \in (Tx \cup Sub) \ {o} : mode'[p] = mode[p]
          /\ "Inactive" \notin mode'[o]
      BY <1>3, <2>2 DEF Activated, Objects, ObjectsTyped, Modal, Flags, ModeFlags
    <2>4. /\ \A p \in (Tx \cup Sub) \ {o} : Active(p)' <=> Active(p)
          /\ Active(o)'
      BY <2>3 DEF Active
    <2>5. SharersCounted' /\ active_subs' \in [Tx -> Nat]
      <3>1. \A r \in Sub : Active(r)' <=> Active(r) \/ r = o
        BY <1>3, <2>4
      <3>2. parent'[o] = t /\ \A r \in Sub \ {o} : parent'[r] = parent[r]
        BY <1>3, <2>2 DEF Objects, ObjectsTyped
      <3> QED BY <1>3, <2>2, <3>1, <3>2, SharerComes DEF Objects
    <2>6. ObjectsTyped'
      BY <1>3, <2>2, <2>3, <2>5 DEF Objects, ObjectsTyped, Modal, Flags
    <2>7. ActiveIsCurrent'
      BY <1>3, <2>2, <2>4 DEF Objects, ActiveIsCurrent
    <2>8. SubsHeld'
      BY <1>3, <2>2, <2>4 DEF Objects, ObjectsTyped, SubsHeld
    <2>9. CurrentExists'
      <3> SUFFICES ASSUME transaction # NoTx PROVE Exists(transaction)'
        BY <2>2 DEF CurrentExists
      <3>1. CASE t = transaction
        BY <1>3, <2>2, <3>1 DEF Objects, ObjectsTyped, Exists, Referenced
      <3>2. CASE t = parent[o]
        <4>1. parent' = parent
          BY <2>2, <3>2 DEF Objects, ObjectsTyped
        <4> QED BY <2>2, <4>1 DEF Objects, CurrentExists, Exists, Referenced
      <3> QED BY <2>1, <3>1, <3>2
    <2> QED BY <2>5, <2>6, <2>7, <2>8, <2>9 DEF Objects
  <1> QED BY <1>1, <1>2, <1>3 DEF Reinitiated, Objects, ObjectsTyped

\* A new sharer of the active Transaction.
LEMMA CreateSharedObjects ==
  ASSUME Objects, NEW md \in Modes, CreateShared(md)
  PROVE  Objects'
  <1> USE ObjectsAssumption
  <1>1. PICK s \in Sub \ held :
          /\ held' = held \cup {s}
          /\ parent' = [parent EXCEPT ![s] = transaction]
          /\ mode' = [mode EXCEPT ![s] = md]
          /\ active_subs' = [active_subs EXCEPT ![transaction] =
                               IF "Inactive" \in md THEN @ ELSE @ + 1]
          /\ transaction' = transaction
    BY DEF CreateShared
  <1>2. PICK t \in Tx : t = transaction
    BY DEF CreateShared, Objects, ObjectsTyped
  <1>3. ~Active(s)
    BY DEF Objects, SubsHeld
  <1>4. md \in SUBSET Flags
    BY DEF Flags, BackEndFlags
  <1>5. /\ mode' \in Modal
        /\ \A p \in (Tx \cup Sub) \ {s} : mode'[p] = mode[p]
        /\ mode'[s] = md
    BY <1>1, <1>4 DEF Objects, ObjectsTyped, Modal, Flags
  <1>6. /\ \A p \in (Tx \cup Sub) \ {s} : Active(p)' <=> Active(p)
        /\ Active(s)' <=> "Inactive" \notin md
    BY <1>5 DEF Active
  <1>7. SharersCounted' /\ active_subs' \in [Tx -> Nat]
    <2>1. CASE "Inactive" \in md
      <3>1. active_subs' = active_subs
        BY <1>1, <1>2, <2>1 DEF Objects, ObjectsTyped
      <3>2. \A r \in Sub : Active(r)' <=> Active(r)
        BY <1>3, <1>6, <2>1
      <3>3. \A r \in Sub : Active(r) => parent'[r] = parent[r]
        BY <1>1, <1>3
      <3> QED BY <3>1, <3>2, <3>3, SharersStay DEF Objects
    <2>2. CASE "Inactive" \notin md
      <3>1. active_subs' = [active_subs EXCEPT ![t] = @ + 1]
        BY <1>1, <1>2, <2>2
      <3>2. \A r \in Sub : Active(r)' <=> Active(r) \/ r = s
        BY <1>6, <2>2
      <3>3. parent'[s] = t /\ \A r \in Sub \ {s} : parent'[r] = parent[r]
        BY <1>1, <1>2 DEF Objects, ObjectsTyped
      <3> QED BY <1>3, <3>1, <3>2, <3>3, SharerComes DEF Objects
    <2> QED BY <2>1, <2>2
  <1>8. ObjectsTyped'
    BY <1>1, <1>5, <1>7 DEF Objects, ObjectsTyped, Modal, Flags
  <1>9. ActiveIsCurrent'
    BY <1>1, <1>6 DEF Objects, ActiveIsCurrent
  <1>10. SubsHeld' /\ CurrentExists'
    BY <1>1, <1>2, <1>6 DEF Objects, ObjectsTyped, SubsHeld, CurrentExists, Exists, Referenced
  <1> QED BY <1>7, <1>8, <1>9, <1>10 DEF Objects

\* A new Transaction, handed out as it is or through a first sharer.
LEMMA CreateOwnObjects ==
  ASSUME Objects, NEW md \in Modes, CreateOwn(md)
  PROVE  Objects'
  <1> USE ObjectsAssumption
  <1>1. PICK t \in Tx :
          /\ ~Exists(t)
          /\ \/ /\ held' = held \cup {t}
                /\ active_subs' = [active_subs EXCEPT ![t] = 0]
                /\ parent' = parent
                /\ mode' = IF "Inactive" \in md
                           THEN [mode EXCEPT ![t] = md \cup {"Inactive"}]
                           ELSE [[mode EXCEPT ![t] = md \cup {"Inactive"}]
                                   EXCEPT ![t] = @ \ {"Inactive"}]
             \/ \E s \in Sub \ held :
                  /\ held' = held \cup {s}
                  /\ parent' = [parent EXCEPT ![s] = t]
                  /\ active_subs' = [active_subs EXCEPT ![t] =
                                       IF "Inactive" \in md THEN 0 ELSE 1]
                  /\ mode' = IF "Inactive" \in md
                             THEN [[mode EXCEPT ![t] = md \cup {"Inactive"}] EXCEPT ![s] = md]
                             ELSE [[[mode EXCEPT ![t] = md \cup {"Inactive"}]
                                     EXCEPT ![s] = md] EXCEPT ![t] = @ \ {"Inactive"}]
          /\ transaction' = IF "Inactive" \in md THEN transaction ELSE t
    BY DEF CreateOwn, reinitiate
  <1>2. /\ md \in SUBSET Flags
        /\ "Inactive" \in Flags
    BY DEF Flags, BackEndFlags, ModeFlags
  <1>3. /\ Sharers(t) = {} /\ active_subs[t] = 0
        /\ transaction # t /\ ~Active(t)
    BY <1>1, UnreferencedUnshared DEF Objects, CurrentExists, ActiveIsCurrent
  <1>4. "Inactive" \notin md => transaction = NoTx
    BY DEF CreateOwn
  <1>5. CASE /\ held' = held \cup {t}
             /\ active_subs' = [active_subs EXCEPT ![t] = 0]
             /\ parent' = parent
             /\ mode' = IF "Inactive" \in md
                        THEN [mode EXCEPT ![t] = md \cup {"Inactive"}]
                        ELSE [[mode EXCEPT ![t] = md \cup {"Inactive"}]
                                EXCEPT ![t] = @ \ {"Inactive"}]
    <2>1. /\ mode' \in Modal
          /\ \A p \in (Tx \cup Sub) \ {t} : mode'[p] = mode[p]
          /\ "Inactive" \in mode'[t] <=> "Inactive" \in md
      BY <1>2, <1>5 DEF Objects, ObjectsTyped, Modal, Flags
    <2>2. /\ \A p \in (Tx \cup Sub) \ {t} : Active(p)' <=> Active(p)
          /\ Active(t)' <=> "Inactive" \notin md
      BY <2>1 DEF Active
    <2>3. active_subs' = active_subs
      BY <1>3, <1>5 DEF Objects, ObjectsTyped
    <2>4. SharersCounted' /\ active_subs' \in [Tx -> Nat]
      <3>1. \A r \in Sub : Active(r)' <=> Active(r)
        BY <2>2
      <3> QED BY <1>5, <2>3, <3>1, SharersStay DEF Objects
    <2>5. ObjectsTyped'
      BY <1>1, <1>5, <2>1, <2>4 DEF Objects, ObjectsTyped, Modal, Flags
    <2>6. ActiveIsCurrent'
      BY <1>1, <1>3, <1>4, <2>2 DEF Objects, ActiveIsCurrent
    <2>7. SubsHeld' /\ CurrentExists'
      BY <1>1, <1>5, <2>2 DEF Objects, SubsHeld, CurrentExists, Exists, Referenced
    <2> QED BY <2>4, <2>5, <2>6, <2>7 DEF Objects
  <1>6. ASSUME NEW s \in Sub \ held,
               held' = held \cup {s},
               parent' = [parent EXCEPT ![s] = t],
               active_subs' = [active_subs EXCEPT ![t] =
                                 IF "Inactive" \in md THEN 0 ELSE 1],
               mode' = IF "Inactive" \in md
                       THEN [[mode EXCEPT ![t] = md \cup {"Inactive"}] EXCEPT ![s] = md]
                       ELSE [[[mode EXCEPT ![t] = md \cup {"Inactive"}]
                               EXCEPT ![s] = md] EXCEPT ![t] = @ \ {"Inactive"}]
        PROVE  Objects'
    <2>1. /\ mode' \in Modal
          /\ \A p \in (Tx \cup Sub) \ {s, t} : mode'[p] = mode[p]
          /\ "Inactive" \in mode'[t] <=> "Inactive" \in md
          /\ "Inactive" \in mode'[s] <=> "Inactive" \in md
      BY <1>2, <1>6 DEF Objects, ObjectsTyped, Modal, Flags
    <2>2. /\ \A p \in (Tx \cup Sub) \ {s, t} : Active(p)' <=> Active(p)
          /\ Active(t)' <=> "Inactive" \notin md
          /\ Active(s)' <=> "Inactive" \notin md
      BY <2>1 DEF Active
    <2>3. ~Active(s)
      BY DEF Objects, SubsHeld
    <2>4. parent'[s] = t /\ \A r \in Sub \ {s} : parent'[r] = parent[r]
      BY <1>6 DEF Objects, ObjectsTyped
    <2>5. SharersCounted' /\ active_subs' \in [Tx -> Nat]
      <3>1. CASE "Inactive" \in md
        <4>1. active_subs' = active_subs
          BY <1>3, <1>6, <3>1 DEF Objects, ObjectsTyped
        <4>2. \A r \in Sub : Active(r)' <=> Active(r)
          BY <2>2, <2>3, <3>1
        <4>3. \A r \in Sub : Active(r) => parent'[r] = parent[r]
          BY <2>3, <2>4
        <4> QED BY <4>1, <4>2, <4>3, SharersStay DEF Objects
      <3>2. CASE "Inactive" \notin md
        <4>1. active_subs' = [active_subs EXCEPT ![t] = @ + 1]
          BY <1>3, <1>6, <3>2 DEF Objects, ObjectsTyped
        <4>2. \A r \in Sub : Active(r)' <=> Active(r) \/ r = s
          BY <2>2, <3>2
        <4> QED BY <2>3, <2>4, <4>1, <4>2, SharerComes DEF Objects
      <3> QED BY <3>1, <3>2
    <2>6. ObjectsTyped'
      BY <1>1, <1>6, <2>1, <2>5 DEF Objects, ObjectsTyped, Modal, Flags
    <2>7. ActiveIsCurrent'
      BY <1>1, <1>3, <1>4, <2>2 DEF Objects, ActiveIsCurrent
    <2>8. SubsHeld'
      BY <1>6, <2>2, <2>4 DEF Objects, SubsHeld
    <2>9. CurrentExists'
      BY <1>1, <1>6, <2>4 DEF Objects, CurrentExists, Exists, Referenced
    <2> QED BY <2>5, <2>6, <2>7, <2>8, <2>9 DEF Objects
  <1> QED BY <1>1, <1>5, <1>6

\* A caller lets go of an inactive sharer or of a Transaction, which is
\* finished when nobody else refers to it.
LEMMA HandleDropped ==
  ASSUME Objects, NEW o \in held, NEW t \in Tx, NEW m,
         \/ o = t /\ m = mode /\ parent' = parent
         \/ /\ o \in Sub /\ ~Active(o) /\ parent[o] = t
            /\ parent' = [parent EXCEPT ![o] = NoTx]
            /\ m = [mode EXCEPT ![o] = {"Inactive"}],
         held' = held \ {o}, active_subs' = active_subs,
         \/ Referenced(t, held', parent') /\ mode' = m /\ transaction' = transaction
         \/ ~Referenced(t, held', parent') /\ Finish(t, m)
  PROVE  Objects'
  <1> USE ObjectsAssumption
  <1>1. m \in Modal /\ \A p \in Tx \cup Sub : "Inactive" \in m[p] <=> "Inactive" \in mode[p]
    BY DEF Objects, ObjectsTyped, Modal, Flags, ModeFlags, Active
  <1>2. /\ mode' \in Modal
        /\ \A p \in (Tx \cup Sub) \ {t} : "Inactive" \in mode'[p] <=> "Inactive" \in mode[p]
        /\ "Inactive" \notin mode'[t]
             => "Inactive" \notin mode[t] /\ Referenced(t, held', parent')
        /\ "Inactive" \notin mode[t] /\ Referenced(t, held', parent')
             => "Inactive" \notin mode'[t]
    BY <1>1 DEF Finish, Modal, Flags, ModeFlags, Active
  <1>3. /\ \A p \in (Tx \cup Sub) \ {t} : Active(p)' <=> Active(p)
        /\ Active(t)' <=> Active(t) /\ Referenced(t, held', parent')
    BY <1>2 DEF Active
  <1>4. transaction' = IF Active(t)' \/ transaction # t THEN transaction ELSE NoTx
    BY <1>3 DEF Finish, Objects, ActiveIsCurrent
  <1>5. SharersCounted' /\ active_subs' \in [Tx -> Nat]
    <2>1. \A r \in Sub : Active(r)' <=> Active(r)
      BY <1>3
    <2>2. \A r \in Sub : Active(r) => parent'[r] = parent[r]
      BY DEF Objects, ObjectsTyped
    <2> QED BY <2>1, <2>2, SharersStay DEF Objects
  <1>6. ObjectsTyped'
    BY <1>2, <1>4, <1>5 DEF Objects, ObjectsTyped, Modal, Flags
  <1>7. ActiveIsCurrent'
    BY <1>3, <1>4 DEF Objects, ActiveIsCurrent
  <1>8. SubsHeld'
    BY <1>3 DEF Objects, ObjectsTyped, SubsHeld
  <1>9. CurrentExists'
    <2> SUFFICES ASSUME transaction' # NoTx PROVE Exists(transaction)'
      BY DEF CurrentExists
    <2>1. transaction' = transaction /\ transaction \in Tx
      BY <1>4 DEF Objects, ObjectsTyped
    <2>2. CASE transaction = t
      <3>1. Referenced(t, held', parent')
        BY <2>2, <1>3, <1>4
      <3> QED BY <2>1, <2>2, <3>1 DEF Exists, Referenced
    <2>3. CASE transaction # t
      <3>1. transaction \in held \/ \E r \in held \cap Sub : parent[r] = transaction
        BY <2>1 DEF Objects, CurrentExists, Exists, Referenced
      <3>2. CASE transaction \in held
        BY <2>1, <2>3, <3>2 DEF Exists, Referenced
      <3>3. CASE \E r \in held \cap Sub : parent[r] = transaction
        <4>1. PICK r \in held \cap Sub : parent[r] = transaction
          BY <3>3
        <4>2. r # o /\ r \in held' \cap Sub /\ parent'[r] = transaction
          BY <2>3, <4>1 DEF Objects, ObjectsTyped
        <4> QED BY <2>1, <4>2 DEF Exists, Referenced
      <3> QED BY <3>1, <3>2, <3>3
    <2> QED BY <2>2, <2>3
  <1> QED BY <1>5, <1>6, <1>7, <1>8, <1>9 DEF Objects

\* What DestroyTx does to a Transaction.
LEMMA DestroyFinishes ==
  ASSUME NEW t \in Tx, NEW m, DestroyTx(t, m)
  PROVE  Finish(t, m)
  BY CommitFinishes, RollbackFinishes DEF DestroyTx, Unfinished, Finish

LEMMA DropTxObjects ==
  ASSUME Objects, NEW t \in Tx, DropTx(t)
  PROVE  Objects'
  <1>1. /\ t \in held
        /\ held' = held \ {t} /\ parent' = parent /\ active_subs' = active_subs
    BY DEF DropTx
  <1>2. \/ Referenced(t, held', parent') /\ mode' = mode /\ transaction' = transaction
        \/ ~Referenced(t, held', parent') /\ Finish(t, mode)
    BY <1>1, DestroyFinishes DEF DropTx, Unfinished
  <1> QED BY <1>1, <1>2, HandleDropped

LEMMA DropSubObjects ==
  ASSUME Objects, NEW s \in Sub, DropSub(s)
  PROVE  Objects'
  <1> USE ObjectsAssumption
  <1>1. PICK t \in Tx : t = parent[s]
    BY DEF DropSub, Objects, SubsHeld
  <1>2. PICK m : m = [mode EXCEPT ![s] = {"Inactive"}]
    OBVIOUS
  <1>3. s \in held /\ held' = held \ {s} /\ parent' = [parent EXCEPT ![s] = NoTx]
    BY DEF DropSub
  <1>4. CASE Active(s)
    <2>1. m \in Modal /\ "Inactive" \in m[s] /\ \A o \in (Tx \cup Sub) \ {s} : m[o] = mode[o]
      BY <1>2 DEF Objects, ObjectsTyped, Modal, Flags, ModeFlags
    <2>2. subCommit(s, FALSE, <<>>, m) \/ subRollback(s, <<>>, m)
      BY <1>2, <1>4 DEF DropSub
    <2>3. SharerFinish(s, t)
      BY <1>1, <1>3, <1>4, <2>1, <2>2, SubCommitFinishes, SubRollbackFinishes
    <2> QED BY <1>1, <1>4, <2>3, SharerFinishes
  <1>5. CASE ~Active(s)
    <2>1. \/ Referenced(t, held', parent') /\ mode' = m /\ transaction' = transaction
          \/ ~Referenced(t, held', parent') /\ Finish(t, m)
      BY <1>1, <1>2, <1>5, DestroyFinishes DEF DropSub, Unfinished
    <2>2. active_subs' = active_subs
      BY <1>5 DEF DropSub
    <2> QED BY <1>1, <1>2, <1>3, <1>5, <2>1, <2>2, HandleDropped
  <1> QED BY <1>4, <1>5

----------------------------------------------------------------------------
(* The recorded updates, the requests and the history.                     *)

LEMMA VetoTyped ==
  ASSUME DataTyped, NEW t
  PROVE  vetoed \cup Veto(t) \subseteq Nat
  BY DEF DataTyped, Veto

LEMMA SubCommitTyped ==
  ASSUME NEW s, NEW t \in Tx, t = parent[s], NEW b, NEW next, NEW m,
         DataTyped, subCommit(s, b, next, m)
  PROVE  DataTyped'
  <1>1. vetoed' \subseteq Nat
    BY DEF subCommit, DataTyped
  <1>2. CASE active_subs[t] # 1
    BY <1>2 DEF subCommit, Unfinished, DataTyped, database
  <1>3. CASE active_subs[t] = 1
    <2>1. rollback(t, <<>>, m) \/ commit(t, s, b, next, m)
      BY <1>3 DEF subCommit
    <2> QED BY <1>1, <2>1, CommitTyped, RollbackTyped
  <1> QED BY <1>2, <1>3

LEMMA SubRollbackTyped ==
  ASSUME NEW s, NEW t \in Tx, t = parent[s], NEW next, NEW m,
         DataTyped, subRollback(s, next, m)
  PROVE  DataTyped'
  <1>1. vetoed' \subseteq Nat
    BY VetoTyped DEF subRollback
  <1>2. CASE active_subs[t] # 1
    BY <1>1, <1>2 DEF subRollback, Unfinished, DataTyped, database
  <1>3. CASE active_subs[t] = 1
    <2>1. rollback(t, next, m)
      BY <1>3 DEF subRollback
    <2> QED BY <1>1, <2>1, RollbackTyped
  <1> QED BY <1>2, <1>3

LEMMA DestroyTyped ==
  ASSUME NEW t \in Tx, NEW m, DataTyped, DestroyTx(t, m)
  PROVE  DataTyped'
  <1>1. CASE Unfinished(m) /\ UNCHANGED vetoed
    BY <1>1 DEF Unfinished, DataTyped, database
  <1>2. CASE commit(t, t, FALSE, <<>>, m) /\ UNCHANGED vetoed
    BY <1>2, CommitTyped DEF DataTyped
  <1>3. CASE rollback(t, <<>>, m) /\ vetoed' = vetoed \cup Veto(t)
    BY <1>3, VetoTyped, RollbackTyped
  <1> QED BY <1>1, <1>2, <1>3 DEF DestroyTx

LEMMA ExecuteTyped ==
  ASSUME ObjectsTyped, DataTyped, Execute
  PROVE  DataTyped'
  <1>1. Len(issued) + 1 \in Op
    BY LenProperties, BoundsAssumption DEF Execute, DataTyped, Op
  <1>2. CASE transaction = NoTx
    <2>1. /\ requests' = Append(requests, [tx |-> NoTx, ops |-> {Len(issued) + 1}])
          /\ issued' = Append(issued, 0)
          /\ UNCHANGED <<update, pending_commit, replied, activations, vetoed, discarded>>
      BY <1>2 DEF Execute, Sent
    <2>2. requests' \in Seq([tx : Tx \cup {NoTx}, ops : SUBSET Op])
      BY <1>1, <2>1 DEF DataTyped
    <2>3. issued' \in Seq(Nat)
      BY <2>1 DEF DataTyped
    <2> QED BY <2>1, <2>2, <2>3 DEF DataTyped
  <1>3. CASE transaction # NoTx
    <2>1. /\ update' = [update EXCEPT ![transaction] = @ \cup {Len(issued) + 1}]
          /\ issued' = Append(issued, activations)
          /\ UNCHANGED <<requests, pending_commit, replied, activations, vetoed, discarded>>
      BY <1>3 DEF Execute, Recorded
    <2>2. update' \in [Tx -> SUBSET Op]
      BY <1>1, <1>3, <2>1 DEF DataTyped
    <2>3. issued' \in Seq(Nat)
      BY <2>1 DEF DataTyped
    <2> QED BY <2>1, <2>2, <2>3 DEF DataTyped
  <1> QED BY <1>2, <1>3

LEMMA CreateOwnTyped ==
  ASSUME DataTyped, NEW md, CreateOwn(md)
  PROVE  DataTyped'
  <1>1. PICK t \in Tx :
          /\ pending_commit' = [pending_commit EXCEPT ![t] = 0]
          /\ update' = [update EXCEPT ![t] = {}]
          /\ activations' \in {activations, activations + 1}
          /\ UNCHANGED <<requests, replied, issued, vetoed, discarded>>
    BY DEF CreateOwn, reinitiate
  <1>2. pending_commit' \in [Tx -> Nat] /\ update' \in [Tx -> SUBSET Op]
    BY <1>1 DEF DataTyped
  <1> QED BY <1>1, <1>2 DEF DataTyped

LEMMA ReinitiatedTyped ==
  ASSUME Objects, DataTyped, NEW o \in held, Reinitiated(o),
         UNCHANGED <<database, issued, vetoed, discarded>>
  PROVE  DataTyped'
  <1>1. PICK t \in Tx : t = IF o \in Tx THEN o ELSE parent[o]
    BY DEF Objects, ObjectsTyped, SubsHeld
  <1>2. /\ update' \in {update, [update EXCEPT ![t] = {}]}
        /\ activations' \in {activations, activations + 1}
    BY <1>1 DEF Reinitiated, ReinitiateTx, ReinitiateOwn, ReinitiateShared, Join, reinitiate
  <1>3. update' \in [Tx -> SUBSET Op]
    BY <1>2 DEF DataTyped
  <1> QED BY <1>2, <1>3 DEF DataTyped, database

----------------------------------------------------------------------------
(* The calls in progress.                                                  *)

LEMMA ContinuationCalls ==
  ASSUME held \subseteq Tx \cup Sub, NEW o \in held, NEW goal, NEW slots \in BOOLEAN
  PROVE  Continuation(goal, o, slots) \in Seq(HeldFrame)
  <1>1. Reinitiation(o, slots) \in HeldFrame
    BY DEF Reinitiation, HeldFrame, Frame
  <1>2. \/ Continuation(goal, o, slots) = <<>>
        \/ Continuation(goal, o, slots) = <<Reinitiation(o, slots)>>
    BY DEF Continuation
  <1>3. <<Reinitiation(o, slots)>> \in Seq(HeldFrame)
    BY <1>1
  <1>4. <<>> \in Seq(HeldFrame)
    BY EmptySeq
  <1> QED BY <1>2, <1>3, <1>4

\* The calls stay what they are when the handles of their objects stay.
LEMMA CallsStay ==
  ASSUME CallsHeld, stack' = stack, held \subseteq held'
  PROVE  CallsHeld'
  <1>1. HeldFrame \subseteq HeldFrame'
    BY DEF HeldFrame
  <1> QED BY <1>1, SeqMonotonic DEF CallsHeld

LEMMA CallReturns ==
  ASSUME CallsHeld, stack # <<>>, stack' = Tail(stack), held' = held
  PROVE  CallsHeld' /\ Head(stack) \in HeldFrame
  BY HeadTailProperties DEF CallsHeld, HeldFrame

\* No call is left without its object by dropping a handle not on the stack.
LEMMA CallsKept ==
  ASSUME CallsHeld, NEW o, ~OnStack(o), stack' = stack, held' = held \ {o}
  PROVE  CallsHeld'
  <1>1. /\ Len(stack) \in Nat /\ stack = [i \in 1..Len(stack) |-> stack[i]]
        /\ \A i \in 1..Len(stack) : stack[i] \in HeldFrame
    BY LenProperties, ElementOfSeq DEF CallsHeld
  <1>2. \A i \in 1..Len(stack) : stack[i] \in HeldFrame'
    BY <1>1 DEF OnStack, HeldFrame
  <1>3. stack \in Seq(HeldFrame')
    BY <1>1, <1>2
  <1> QED BY <1>3 DEF CallsHeld

\* Dropping a handle begins no call.
LEMMA FinishingBeginsNoCall ==
  ASSUME CallsHeld, NEW t, NEW o, NEW m,
         commit(t, o, FALSE, <<>>, m) \/ rollback(t, <<>>, m)
  PROVE  stack' = stack
  <1>1. stack' \in {stack, <<>> \o stack}
    BY DEF commit, rollback, Unfinished
  <1> QED BY <1>1, ConcatEmptySeq DEF CallsHeld

LEMMA SubCommitCalls ==
  ASSUME NEW s \in held, NEW t \in Tx, t = parent[s], NEW b, NEW next \in Seq(HeldFrame),
         NEW m, ObjectsTyped, DataTyped, CallsHeld, subCommit(s, b, next, m)
  PROVE  stack' \in Seq(HeldFrame)
  <1>1. CASE active_subs[t] # 1
    BY <1>1 DEF subCommit, Unfinished, CallsHeld
  <1>2. CASE rollback(t, <<>>, m)
    BY <1>2, FinishingBeginsNoCall DEF CallsHeld
  <1>3. CASE commit(t, s, b, next, m)
    BY <1>3, CommitCalls DEF ObjectsTyped, DataTyped
  <1> QED BY <1>1, <1>2, <1>3 DEF subCommit

LEMMA SubRollbackCalls ==
  ASSUME NEW s, NEW t \in Tx, t = parent[s], NEW next \in Seq(HeldFrame), NEW m,
         CallsHeld, subRollback(s, next, m)
  PROVE  stack' \in Seq(HeldFrame)
  BY RollbackCalls DEF subRollback, Unfinished, CallsHeld

LEMMA DropCalls ==
  ASSUME CallsHeld, NEW o, DropTx(o) \/ DropSub(o)
  PROVE  CallsHeld'
  <1>1. ~OnStack(o) /\ held' = held \ {o}
    BY DEF DropTx, DropSub
  <1>2. \A t, m : DestroyTx(t, m) => stack' = stack
    BY FinishingBeginsNoCall DEF DestroyTx, Unfinished
  <1>3. \A s, m : subCommit(s, FALSE, <<>>, m) => stack' = stack
    BY FinishingBeginsNoCall DEF subCommit, Unfinished
  <1>4. \A s, m : subRollback(s, <<>>, m) => stack' = stack
    BY FinishingBeginsNoCall DEF subRollback, Unfinished
  <1>5. stack' = stack
    BY <1>2, <1>3, <1>4 DEF DropTx, DropSub, Unfinished
  <1> QED BY <1>1, <1>5, CallsKept

----------------------------------------------------------------------------
(* Every action keeps Consistent.                                          *)

LEMMA ConsistentParts == Consistent <=> Objects /\ DataTyped /\ CallsHeld
  BY DEF Consistent, Objects

\* Actions that leave the objects alone.
LEMMA UntouchedObjects ==
  ASSUME Objects, UNCHANGED <<transaction, mode, parent, active_subs, held>>
  PROVE  Objects'
  <1>1. ObjectsTyped' /\ ActiveIsCurrent' /\ SharersCounted'
    BY DEF Objects, ObjectsTyped, ActiveIsCurrent, SharersCounted, Sharers, Active
  <1>2. SubsHeld' /\ CurrentExists'
    BY DEF Objects, SubsHeld, CurrentExists, Exists, Referenced, Active
  <1> QED BY <1>1, <1>2 DEF Objects

LEMMA ExecuteConsistent ==
  ASSUME Consistent, Execute
  PROVE  Consistent'
  <1>1. UNCHANGED <<transaction, mode, parent, active_subs, held>> /\ stack' = stack
    BY DEF Execute, objects
  <1>2. Objects' /\ CallsHeld'
    <2>1. held \subseteq held'
      BY <1>1
    <2> QED BY <1>1, <2>1, ConsistentParts, UntouchedObjects, CallsStay
  <1>3. DataTyped'
    BY ExecuteTyped DEF Consistent
  <1> QED BY <1>2, <1>3 DEF Consistent, Objects

LEMMA CreateConsistent ==
  ASSUME Consistent, CreateTransaction
  PROVE  Consistent'
  <1>1. PICK md \in Modes : CreateShared(md) \/ CreateOwn(md)
    BY DEF CreateTransaction
  <1>2. Objects'
    BY <1>1, ConsistentParts, CreateSharedObjects, CreateOwnObjects
  <1>3. DataTyped'
    <2>1. CASE CreateShared(md)
      BY <2>1 DEF CreateShared, Consistent, DataTyped, database, history
    <2>2. CASE CreateOwn(md)
      BY <2>2, CreateOwnTyped DEF Consistent
    <2> QED BY <1>1, <2>1, <2>2
  <1>4. stack' = stack /\ held \subseteq held'
    BY <1>1 DEF CreateShared, CreateOwn
  <1>5. CallsHeld'
    BY <1>4, CallsStay DEF Consistent
  <1> QED BY <1>2, <1>3, <1>5 DEF Consistent, Objects

LEMMA PendingConsistent ==
  ASSUME Consistent, PendingTransaction
  PROVE  Consistent'
  <1>1. /\ UNCHANGED <<transaction, mode, parent, active_subs, stack>>
        /\ held' = held \cup {transaction} /\ transaction \in Tx
    BY DEF PendingTransaction, Consistent, ObjectsTyped
  <1>2. ObjectsTyped' /\ ActiveIsCurrent' /\ SharersCounted'
    BY <1>1 DEF Consistent, ObjectsTyped, ActiveIsCurrent, SharersCounted, Sharers, Active
  <1>3. SubsHeld' /\ CurrentExists'
    BY <1>1, ObjectsAssumption
       DEF Consistent, ObjectsTyped, SubsHeld, CurrentExists, Exists, Referenced, Active
  <1>4. DataTyped'
    BY DEF PendingTransaction, Consistent, DataTyped, database, history
  <1>5. CallsHeld'
    BY <1>1, CallsStay DEF Consistent
  <1> QED BY <1>2, <1>3, <1>4, <1>5 DEF Consistent

\* commit and rollback of a sharer, with what follows them.
LEMMA FinishSubConsistent ==
  ASSUME Consistent, NEW s \in Sub, CommitSub(s) \/ RollbackSub(s)
  PROVE  Consistent'
  <1> USE ObjectsAssumption
  <1>1. PICK t \in Tx : t = parent[s]
    BY DEF CommitSub, RollbackSub, Consistent, SubsHeld
  <1>2. PICK m : m = Inactivated(s)
    OBVIOUS
  <1>3. s \in held /\ Active(s) /\ parent' = parent /\ held' = held
    BY DEF CommitSub, RollbackSub
  <1>4. m \in Modal /\ "Inactive" \in m[s] /\ \A o \in (Tx \cup Sub) \ {s} : m[o] = mode[o]
    BY <1>2 DEF Inactivated, Consistent, ObjectsTyped, Modal, Flags, ModeFlags
  <1>5. PICK b, goal, slots :
          /\ slots \in BOOLEAN
          /\ \/ subCommit(s, b, Continuation(goal, s, slots), m)
             \/ subRollback(s, Continuation(goal, s, slots), m)
    BY <1>2 DEF CommitSub, RollbackSub
  <1>6. Continuation(goal, s, slots) \in Seq(HeldFrame)
    BY <1>3, <1>5, ContinuationCalls DEF Consistent, ObjectsTyped
  <1>7. SharerFinish(s, t)
    BY <1>1, <1>3, <1>4, <1>5, ConsistentParts, SubCommitFinishes, SubRollbackFinishes
  <1>8. Objects'
    BY <1>1, <1>3, <1>7, ConsistentParts, SharerFinishes
  <1>9. DataTyped'
    BY <1>1, <1>5, SubCommitTyped, SubRollbackTyped DEF Consistent
  <1>10. stack' \in Seq(HeldFrame)
    BY <1>1, <1>3, <1>5, <1>6, SubCommitCalls, SubRollbackCalls DEF Consistent
  <1>11. CallsHeld'
    BY <1>3, <1>10 DEF CallsHeld, HeldFrame
  <1> QED BY <1>8, <1>9, <1>11 DEF Consistent, Objects

\* commit and rollback of a Transaction, with what follows them.
LEMMA FinishTxConsistent ==
  ASSUME Consistent, NEW t \in Tx, CommitTx(t) \/ RollbackTx(t)
  PROVE  Consistent'
  <1>1. /\ t \in held /\ parent' = parent /\ held' = held /\ active_subs' = active_subs
        /\ vetoed' = vetoed \/ vetoed' = vetoed \cup Veto(t)
    BY DEF CommitTx, RollbackTx
  <1>2. PICK b, goal, slots :
          /\ slots \in BOOLEAN
          /\ \/ commit(t, t, b, Continuation(goal, t, slots), mode)
             \/ rollback(t, Continuation(goal, t, slots), mode)
    BY DEF CommitTx, RollbackTx
  <1>3. Continuation(goal, t, slots) \in Seq(HeldFrame)
    BY <1>1, <1>2, ContinuationCalls DEF Consistent, ObjectsTyped
  <1>4. Objects'
    BY <1>1, <1>2, ConsistentParts, CommitFinishes, RollbackFinishes, TxFinishes
  <1>5. DataTyped'
    <2>1. vetoed' \subseteq Nat
      BY <1>1, VetoTyped DEF Consistent, DataTyped
    <2> QED BY <1>2, <2>1, CommitTyped, RollbackTyped DEF Consistent
  <1>6. stack' \in Seq(HeldFrame)
    BY <1>1, <1>2, <1>3, CommitCalls, RollbackCalls DEF Consistent, ObjectsTyped, DataTyped
  <1>7. CallsHeld'
    BY <1>1, <1>6 DEF CallsHeld, HeldFrame
  <1> QED BY <1>4, <1>5, <1>7 DEF Consistent, Objects

LEMMA DropTxConsistent ==
  ASSUME Consistent, NEW t \in Tx, DropTx(t)
  PROVE  Consistent'
  <1>1. Objects' /\ CallsHeld'
    BY ConsistentParts, DropTxObjects, DropCalls
  <1>2. DataTyped'
    <2>1. (Unfinished(mode) /\ UNCHANGED vetoed) \/ DestroyTx(t, mode)
      BY DEF DropTx
    <2>2. CASE Unfinished(mode) /\ UNCHANGED vetoed
      BY <2>2 DEF Unfinished, Consistent, DataTyped, database
    <2> QED BY <2>1, <2>2, DestroyTyped DEF Consistent
  <1> QED BY <1>1, <1>2 DEF Consistent, Objects

LEMMA DropSubConsistent ==
  ASSUME Consistent, NEW s \in Sub, DropSub(s)
  PROVE  Consistent'
  <1>1. Objects' /\ CallsHeld'
    BY ConsistentParts, DropSubObjects, DropCalls
  <1>2. DataTyped'
    <2>1. PICK t \in Tx : t = parent[s]
      BY DEF DropSub, Consistent, SubsHeld
    <2>2. PICK m : m = [mode EXCEPT ![s] = {"Inactive"}]
      OBVIOUS
    <2>3. \/ subCommit(s, FALSE, <<>>, m)
          \/ subRollback(s, <<>>, m)
          \/ Unfinished(m) /\ UNCHANGED vetoed
          \/ DestroyTx(t, m)
      BY <2>1, <2>2 DEF DropSub
    <2>4. CASE Unfinished(m) /\ UNCHANGED vetoed
      BY <2>4 DEF Unfinished, Consistent, DataTyped, database
    <2> QED BY <2>1, <2>3, <2>4, SubCommitTyped, SubRollbackTyped, DestroyTyped
               DEF Consistent
  <1> QED BY <1>1, <1>2 DEF Consistent, Objects

LEMMA ReinitiateConsistent ==
  ASSUME Consistent, NEW o, Reinitiate(o)
  PROVE  Consistent'
  <1>1. o \in held /\ Reinitiated(o) /\ held' = held /\ stack' = stack
    BY DEF Reinitiate
  <1>2. UNCHANGED <<database, issued, vetoed, discarded>>
    BY DEF Reinitiate
  <1>3. Objects' /\ DataTyped'
    BY <1>1, <1>2, ConsistentParts, ReinitiatedObjects, ReinitiatedTyped
  <1>4. CallsHeld'
    BY <1>1, CallsStay DEF Consistent
  <1> QED BY <1>3, <1>4 DEF Consistent, Objects

LEMMA ReturnsConsistent ==
  ASSUME Consistent, Returns
  PROVE  Consistent'
  <1>1. stack # <<>> /\ stack' = Tail(stack) /\ held' = held
    BY DEF Returns, ReturnToReinitiate, ReturnFromBlock, objects
  <1>2. CallsHeld' /\ Head(stack).obj \in held
    BY <1>1, CallReturns DEF Consistent, HeldFrame
  <1>3. CASE ReturnToReinitiate /\ Reinitiated(Head(stack).obj)
    <2>1. UNCHANGED <<database, issued, vetoed, discarded>>
      BY <1>3 DEF ReturnToReinitiate
    <2>2. PICK o \in held : o = Head(stack).obj
      BY <1>2
    <2>3. Objects' /\ DataTyped'
      BY <1>1, <1>3, <2>1, <2>2, ConsistentParts, ReinitiatedObjects, ReinitiatedTyped
    <2> QED BY <1>2, <2>3 DEF Consistent, Objects
  <1>4. CASE ReturnToReinitiate /\ ~Reinitiated(Head(stack).obj)
    <2>1. /\ UNCHANGED <<transaction, mode, parent, active_subs, held>>
          /\ UNCHANGED <<update, activations, database, issued, vetoed, discarded>>
      BY <1>1, <1>4 DEF ReturnToReinitiate
    <2>2. Objects'
      BY <1>1, <2>1, ConsistentParts, UntouchedObjects
    <2>3. DataTyped'
      BY <2>1 DEF Consistent, DataTyped, database
    <2> QED BY <1>2, <2>2, <2>3 DEF Consistent, Objects
  <1>5. CASE ReturnFromBlock
    <2>1. /\ UNCHANGED <<transaction, mode, parent, active_subs, held>>
          /\ UNCHANGED <<requests, replied, pending_commit>>
          /\ UNCHANGED <<activations, issued, vetoed, discarded>>
          /\ update' = [update EXCEPT ![Head(stack).tx] = {}]
      BY <1>5 DEF ReturnFromBlock, objects, database, history
    <2>2. Objects'
      BY <1>1, <2>1, ConsistentParts, UntouchedObjects
    <2>3. DataTyped'
      BY <2>1 DEF Consistent, DataTyped
    <2> QED BY <1>2, <2>2, <2>3 DEF Consistent, Objects
  <1> QED BY <1>3, <1>4, <1>5 DEF Returns

LEMMA ReplyConsistent ==
  ASSUME Consistent, NEW r \in 1..Len(requests), DatabaseReply(r)
  PROVE  Consistent'
  <1>1. UNCHANGED <<transaction, mode, parent, active_subs, held>> /\ stack' = stack
    BY DEF DatabaseReply, objects
  <1>2. Objects' /\ CallsHeld'
    <2>1. held \subseteq held'
      BY <1>1
    <2> QED BY <1>1, <2>1, ConsistentParts, UntouchedObjects, CallsStay
  <1>3. DataTyped'
    BY DEF DatabaseReply, Consistent, DataTyped, history
  <1> QED BY <1>2, <1>3 DEF Consistent, Objects

----------------------------------------------------------------------------
(* The theorems.                                                           *)

LEMMA InitConsistent == Init => Consistent
  <1> USE ObjectsAssumption
  <1> SUFFICES ASSUME Init PROVE Consistent
    OBVIOUS
  <1>1. ObjectsTyped
    BY DEF Init, ObjectsTyped, ModeFlags
  <1>2. DataTyped
    BY BoundsAssumption DEF Init, DataTyped, Op
  <1>3. CallsHeld
    BY EmptySeq DEF Init, CallsHeld
  <1>4. \A o \in Tx \cup Sub : ~Active(o)
    BY DEF Init, Active
  <1>5. ActiveIsCurrent
    BY <1>4 DEF Init, ActiveIsCurrent
  <1>6. SharersCounted
    <2>1. \A t \in Tx : Sharers(t) = {}
      BY <1>4 DEF Sharers
    <2> QED BY <2>1, FS_EmptySet DEF Init, SharersCounted
  <1>7. SubsHeld /\ CurrentExists
    BY <1>4 DEF Init, SubsHeld, CurrentExists
  <1> QED BY <1>1, <1>2, <1>3, <1>5, <1>6, <1>7 DEF Consistent

LEMMA StutterConsistent ==
  ASSUME Consistent, UNCHANGED vars
  PROVE  Consistent'
  <1>1. UNCHANGED <<transaction, mode, parent, active_subs, held>> /\ stack' = stack
    BY DEF vars, objects
  <1>2. Objects' /\ CallsHeld'
    <2>1. held \subseteq held'
      BY <1>1
    <2> QED BY <1>1, <2>1, ConsistentParts, UntouchedObjects, CallsStay
  <1>3. DataTyped'
    BY DEF vars, database, history, Consistent, DataTyped
  <1> QED BY <1>2, <1>3 DEF Consistent, Objects

\* Whatever callers do, in whatever order and from whatever slot, the flags,
\* the pointer, the counts and the handles of the transactions stay consistent.
THEOREM ConsistentAlways == Spec => []Consistent
  <1>1. Consistent /\ [Next]_vars => Consistent'
    <2> SUFFICES ASSUME Consistent, [Next]_vars PROVE Consistent'
      OBVIOUS
    <2>1. CASE Execute
      BY <2>1, ExecuteConsistent
    <2>2. CASE CreateTransaction
      BY <2>2, CreateConsistent
    <2>3. CASE PendingTransaction
      BY <2>3, PendingConsistent
    <2>4. CASE \E s \in Sub : CommitSub(s) \/ RollbackSub(s)
      BY <2>4, FinishSubConsistent
    <2>5. CASE \E t \in Tx : CommitTx(t) \/ RollbackTx(t)
      BY <2>5, FinishTxConsistent
    <2>6. CASE (\E s \in Sub : DropSub(s)) \/ (\E t \in Tx : DropTx(t))
      BY <2>6, DropSubConsistent, DropTxConsistent
    <2>7. CASE \E o \in Tx \cup Sub : Reinitiate(o)
      BY <2>7, ReinitiateConsistent
    <2>8. CASE Returns
      BY <2>8, ReturnsConsistent
    <2>9. CASE \E r \in 1..Len(requests) : DatabaseReply(r)
      BY <2>9, ReplyConsistent
    <2>10. CASE UNCHANGED vars
      BY <2>10, StutterConsistent
    <2> QED BY <2>1, <2>2, <2>3, <2>4, <2>5, <2>6, <2>7, <2>8, <2>9, <2>10 DEF Next
  <1> QED BY <1>1, InitConsistent, PTL DEF Spec

\* Every variable keeps its type.
THEOREM TypeCorrect == Spec => []TypeOK
  <1>1. Consistent => TypeOK
    <2>1. HeldFrame \subseteq Frame
      BY DEF HeldFrame
    <2> QED BY <2>1, SeqMonotonic DEF Consistent, CallsHeld, TypeOK
  <1> QED BY <1>1, ConsistentAlways, PTL

\* RDFServiceBasic::transaction_ points to a Transaction exactly while that
\* Transaction is active: no commit, rollback, destruction, reinitiation or
\* nested event loop makes the raw pointer and the Inactive flags disagree.
THEOREM PointerAgrees == Spec => []ActiveIsCurrent
  <1>1. Consistent => ActiveIsCurrent
    BY DEF Consistent
  <1> QED BY <1>1, ConsistentAlways, PTL

\* Transaction::active_subs_ is the number of active in-place transactions
\* that share the Transaction: the last one to finish is recognised as such.
THEOREM CountAgrees == Spec => []SharersCounted
  <1>1. Consistent => SharersCounted
    BY DEF Consistent
  <1> QED BY <1>1, ConsistentAlways, PTL

\* The raw pointer transaction_ never dangles: the Transaction it points to is
\* still referred to by a handle of a caller.
THEOREM PointerNeverDangles == Spec => []CurrentExists
  <1>1. Consistent => CurrentExists
    BY DEF Consistent
  <1> QED BY <1>1, ConsistentAlways, PTL

----------------------------------------------------------------------------
(* Callers that do not use direct handles.  Shared is inductive relative to *)
(* Consistent.                                                             *)

\* What never changes of an object's mode while it exists.
Kind(flags) == flags \ {"Inactive", "PendingRollback"}

Postponed(t) == "PendingRollback" \in mode[t]

----------------------------------------------------------------------------
(* Modes and agreement.                                                    *)

\* Exclusivity and back-end flags are part of the kind.
LEMMA KindDecides ==
  ASSUME NEW f, NEW g, Kind(f) = Kind(g)
  PROVE  BackEnd(f) = BackEnd(g) /\ ("Exclusive" \in f <=> "Exclusive" \in g)
  BY DEF Kind, BackEnd, BackEndFlags, ModeFlags

\* Finishing keeps the kind of every object, and no other mode changes.
LEMMA FinishKeepsKind ==
  ASSUME NEW t \in Tx, NEW m \in Modal, Finish(t, m)
  PROVE  /\ \A o \in Tx \cup Sub : Kind(mode'[o]) = Kind(m[o])
         /\ \A o \in (Tx \cup Sub) \ {t} : mode'[o] = m[o]
         /\ "PendingRollback" \in mode'[t] => "PendingRollback" \in m[t]
  BY DEF Finish, Modal, Kind

\* Agreement is kept by all calls that bring nobody to a new parent.
LEMMA AgreementKept ==
  ASSUME HandlesExclusive, SharingAgreed, SubsHeld, held' \subseteq held,
         \A r \in held' \cap Sub : parent'[r] = parent[r],
         \A o \in Tx \cup (held' \cap Sub) : Kind(mode'[o]) = Kind(mode[o])
  PROVE  HandlesExclusive' /\ SharingAgreed'
  <1>1. HandlesExclusive'
    BY KindDecides DEF HandlesExclusive, Exclusive
  <1>2. SharingAgreed'
    <2> SUFFICES ASSUME NEW s \in held' \cap Sub
                 PROVE  /\ ~Exclusive(parent[s])'
                        /\ BackEnd(mode'[s]) = BackEnd(mode'[parent'[s]])
      BY DEF SharingAgreed
    <2>1. parent'[s] = parent[s] /\ parent[s] \in Tx
      BY DEF SubsHeld
    <2>2. /\ ~Exclusive(parent[s])
          /\ BackEnd(mode[s]) = BackEnd(mode[parent[s]])
      BY DEF SharingAgreed
    <2>3. /\ Kind(mode'[s]) = Kind(mode[s])
          /\ Kind(mode'[parent[s]]) = Kind(mode[parent[s]])
      BY <2>1
    <2>4. BackEnd(mode'[s]) = BackEnd(mode[s])
      BY <2>3, KindDecides
    <2>5. /\ BackEnd(mode'[parent[s]]) = BackEnd(mode[parent[s]])
          /\ "Exclusive" \in mode'[parent[s]] <=> "Exclusive" \in mode[parent[s]]
      BY <2>3, KindDecides
    <2> QED BY <2>1, <2>2, <2>4, <2>5 DEF Exclusive
  <1> QED BY <1>1, <1>2

\* The rollbacks that are postponed concern shared Transactions.
LEMMA PostponedKept ==
  ASSUME PostponedIsShared,
         \A t \in Tx : Kind(mode'[t]) = Kind(mode[t]),
         \A t \in Tx : Postponed(t)' => Postponed(t) \/ ~Exclusive(t)
  PROVE  PostponedIsShared'
  BY KindDecides DEF PostponedIsShared, Postponed, Exclusive

\* No rollback is postponed while the service has no transaction.
LEMMA NonePostponed ==
  ASSUME Objects, RollbackPostponed, NEW t \in Tx, transaction # t
  PROVE  ~Postponed(t)
  BY DEF RollbackPostponed, Postponed, Objects, ActiveIsCurrent

\* Nobody is active while the service has no transaction.
LEMMA NoneActive ==
  ASSUME Objects, SharersOfCurrent, transaction = NoTx, NEW s \in Sub
  PROVE  ~Active(s)
  BY ObjectsAssumption DEF SharersOfCurrent, Objects, SubsHeld

----------------------------------------------------------------------------
(* A Transaction is finished, or not, by one who shares it.                *)

\* The service has no transaction left, and nothing waits for one.
LEMMA FinishedShared ==
  ASSUME Objects, Shared, transaction' = NoTx, \A r \in Sub : ~Active(r)',
         held' \subseteq held, \A r \in held' \cap Sub : parent'[r] = parent[r],
         \A o \in Tx \cup (held' \cap Sub) : Kind(mode'[o]) = Kind(mode[o]),
         \A u \in Tx : ~Postponed(u)'
  PROVE  Shared'
  <1>1. HandlesExclusive' /\ SharingAgreed'
    BY AgreementKept DEF Objects, Shared
  <1>2. SharersOfCurrent' /\ NeverOrphaned'
    BY DEF SharersOfCurrent, NeverOrphaned
  <1>3. RollbackPostponed' /\ PostponedIsShared'
    BY DEF RollbackPostponed, PostponedIsShared, Postponed
  <1> QED BY <1>1, <1>2, <1>3 DEF Shared

\* The transaction goes on, with one sharer at least.
LEMMA GoingOnShared ==
  ASSUME Objects, Shared, transaction' = transaction, transaction \in Tx,
         \A u \in Tx : Active(u)' <=> Active(u),
         \A r \in Sub : Active(r)' => Active(r) /\ r \in held',
         held' \subseteq held, \A r \in held' \cap Sub : parent'[r] = parent[r],
         \A o \in Tx \cup (held' \cap Sub) : Kind(mode'[o]) = Kind(mode[o]),
         activations' = activations, vetoed \subseteq vetoed',
         \A u \in Tx : Postponed(u)' =>
           Postponed(u) \/ (~Exclusive(u) /\ u = transaction /\ activations \in vetoed'),
         IF Exclusive(transaction) THEN transaction \in held'
         ELSE \E r \in held' \cap Sub : Active(r)'
  PROVE  Shared'
  <1>1. HandlesExclusive' /\ SharingAgreed'
    BY AgreementKept DEF Objects, Shared
  <1>2. SharersOfCurrent'
    BY DEF Shared, SharersOfCurrent
  <1>3. Exclusive(transaction)' <=> Exclusive(transaction)
    BY KindDecides DEF Exclusive
  <1>4. NeverOrphaned'
    <2>1. CASE Exclusive(transaction)
      BY <1>3, <2>1 DEF NeverOrphaned, Exclusive
    <2>2. CASE ~Exclusive(transaction)
      <3>1. PICK r \in held' \cap Sub : Active(r)'
        BY <2>2
      <3>2. parent'[r] = transaction'
        BY <3>1, <1>2 DEF SharersOfCurrent
      <3>3. Sharers(transaction)' # {}
        BY <3>1, <3>2 DEF Sharers
      <3> QED BY <1>3, <2>2, <3>3 DEF NeverOrphaned, Exclusive
    <2> QED BY <2>1, <2>2
  <1>5. Active(transaction)
    BY DEF Objects, ActiveIsCurrent
  <1>6. RollbackPostponed'
    BY <1>5 DEF Shared, RollbackPostponed, Postponed
  <1>7. PostponedIsShared'
    BY PostponedKept DEF Shared
  <1> QED BY <1>1, <1>2, <1>4, <1>6, <1>7 DEF Shared

\* What commit and rollback leave of a postponed rollback.
LEMMA RollbackEndsPostponement ==
  ASSUME NEW t \in Tx, NEW next, NEW m \in Modal, Active(t), rollback(t, next, m)
  PROVE  "PendingRollback" \notin mode'[t]
  BY DEF rollback, Modal

LEMMA FinishingActivatesNothing ==
  ASSUME NEW t, NEW o, NEW b, NEW next, NEW m,
         commit(t, o, b, next, m) \/ rollback(t, next, m)
  PROVE  activations' = activations
  BY DEF commit, rollback, Unfinished

\* What finishing a sharer s does to the modes and the history.
LEMMA SharerFinishModes ==
  ASSUME NEW s \in Sub, NEW t \in Tx, parent[s] = t, Active(t), mode \in Modal,
         NEW b, NEW next, NEW m \in Modal,
         \A o \in (Tx \cup Sub) \ {s} : m[o] = mode[o],
         subCommit(s, b, next, m) \/ subRollback(s, next, m)
  PROVE  /\ \A o \in (Tx \cup Sub) \ {s, t} : mode'[o] = mode[o]
         /\ mode'[s] = m[s] /\ Kind(mode'[t]) = Kind(mode[t])
         /\ active_subs[t] = 1 => ~Postponed(t)'
         /\ Postponed(t)' => Postponed(t) \/ activations \in vetoed'
         /\ activations' = activations /\ vetoed \subseteq vetoed'
  <1> USE ObjectsAssumption
  <1>1. t # s /\ m[t] = mode[t]
    OBVIOUS
  <1>2. CASE active_subs[t] # 1 /\ subCommit(s, b, next, m)
    <2>1. mode' = m /\ activations' = activations /\ vetoed' = vetoed
      BY <1>2 DEF subCommit, Unfinished
    <2> QED BY <1>1, <1>2, <2>1 DEF Postponed
  <1>3. CASE active_subs[t] # 1 /\ subRollback(s, next, m)
    <2>1. /\ mode' = [m EXCEPT ![t] = @ \cup {"PendingRollback"}]
          /\ activations' = activations /\ vetoed' = vetoed \cup {activations}
      BY <1>3 DEF subRollback, Unfinished, Veto
    <2>2. /\ \A o \in (Tx \cup Sub) \ {t} : mode'[o] = m[o]
          /\ Kind(mode'[t]) = Kind(mode[t])
      BY <1>1, <2>1 DEF Modal, Kind
    <2> QED BY <1>1, <1>3, <2>1, <2>2
  <1>4. CASE active_subs[t] = 1
    <2>1. vetoed \subseteq vetoed'
      BY DEF subCommit, subRollback
    <2>2. \/ rollback(t, <<>>, m)
          \/ rollback(t, next, m)
          \/ "PendingRollback" \notin mode[t] /\ commit(t, s, b, next, m)
      BY <1>4 DEF subCommit, subRollback
    <2>3. Finish(t, m) /\ activations' = activations
      BY <2>2, CommitFinishes, RollbackFinishes, FinishingActivatesNothing
    <2>4. /\ \A o \in (Tx \cup Sub) \ {t} : mode'[o] = m[o]
          /\ Kind(mode'[t]) = Kind(m[t])
          /\ "PendingRollback" \in mode'[t] => "PendingRollback" \in m[t]
      BY <2>3, FinishKeepsKind
    <2>5. ~Postponed(t)'
      BY <1>1, <2>2, <2>4, RollbackEndsPostponement DEF Postponed
    <2> QED BY <1>1, <1>4, <2>1, <2>3, <2>4, <2>5
  <1> QED BY <1>2, <1>3, <1>4

\* The last sharer ends what they share; the others go on.
LEMMA SharerFinishesShared ==
  ASSUME Objects, Shared, NEW s \in Sub, Active(s),
         NEW b, NEW next, NEW m \in Modal,
         "Inactive" \in m[s], \A o \in (Tx \cup Sub) \ {s} : m[o] = mode[o],
         subCommit(s, b, next, m) \/ subRollback(s, next, m),
         \/ UNCHANGED <<parent, held>> /\ Kind(m[s]) = Kind(mode[s])
         \/ parent' = [parent EXCEPT ![s] = NoTx] /\ held' = held \ {s}
  PROVE  Shared'
  <1> USE ObjectsAssumption
  <1>1. PICK t \in Tx : t = parent[s] /\ t = transaction /\ s \in held
    BY DEF Shared, SharersOfCurrent, Objects, SubsHeld
  <1>2. /\ Active(t) /\ mode \in Modal
        /\ \A u \in Tx \ {t} : ~Postponed(u)
    BY <1>1, NonePostponed
       DEF Objects, ActiveIsCurrent, ObjectsTyped, Modal, Flags, Shared
  <1>3. SharerFinish(s, t)
    BY <1>1, SubCommitFinishes, SubRollbackFinishes
  <1>4. /\ \A o \in (Tx \cup Sub) \ {s, t} : mode'[o] = mode[o]
        /\ mode'[s] = m[s] /\ Kind(mode'[t]) = Kind(mode[t])
        /\ active_subs[t] = 1 => ~Postponed(t)'
        /\ Postponed(t)' => Postponed(t) \/ activations \in vetoed'
        /\ activations' = activations /\ vetoed \subseteq vetoed'
    BY <1>1, <1>2, SharerFinishModes
  <1>5. /\ held' \subseteq held
        /\ \A r \in held' \cap Sub : parent'[r] = parent[r]
        /\ s \in held' => Kind(mode'[s]) = Kind(mode[s])
        /\ held \ {s} \subseteq held'
    BY <1>4 DEF Objects, ObjectsTyped
  <1>6. \A o \in Tx \cup (held' \cap Sub) : Kind(mode'[o]) = Kind(mode[o])
    BY <1>1, <1>4, <1>5
  <1>7. \A u \in Tx \ {t} : ~Postponed(u)'
    BY <1>2, <1>4 DEF Postponed
  <1>8. \A r \in Sub : Active(r)' => Active(r) /\ r # s
    BY <1>3 DEF SharerFinish
  <1>9. CASE active_subs[t] = 1
    <2>1. transaction' = NoTx
      BY <1>2, <1>3, <1>9 DEF SharerFinish
    <2>2. Sharers(t) = {s}
      BY <1>1, <1>9, LastSharer DEF Objects
    <2>3. \A r \in Sub : ~Active(r)'
      BY <1>1, <1>8, <2>2 DEF Sharers, Shared, SharersOfCurrent
    <2> QED BY <1>4, <1>5, <1>6, <1>7, <1>9, <2>1, <2>3, FinishedShared
  <1>10. CASE active_subs[t] # 1
    <2>1. transaction' = transaction /\ \A u \in Tx : Active(u)' <=> Active(u)
      BY <1>3, <1>10 DEF SharerFinish
    <2>2. PICK r \in Sharers(t) : r # s
      BY ZenonT(40), <1>1, <1>10, LastSharer DEF Objects
    <2>3. ~Exclusive(t)
      BY <1>1 DEF Shared, SharingAgreed
    <2>4. r \in held' \cap Sub /\ Active(r)'
      BY <1>1, <1>3, <1>5, <2>2 DEF Sharers, SharerFinish, Shared, SharersOfCurrent
    <2>5. \A q \in Sub : Active(q)' => Active(q) /\ q \in held'
      BY <1>5, <1>8 DEF Shared, SharersOfCurrent
    <2>6. \A u \in Tx : Postponed(u)' =>
            Postponed(u) \/ (~Exclusive(u) /\ u = transaction /\ activations \in vetoed')
      BY <1>1, <1>4, <1>7, <2>3
    <2> QED BY <1>1, <1>4, <1>5, <1>6, <2>1, <2>3, <2>4, <2>5, <2>6, GoingOnShared
  <1> QED BY <1>9, <1>10

----------------------------------------------------------------------------
(* Calls on an exclusive Transaction, and calls that change no transaction. *)

\* Nothing changes but, at most, that an inactive handle is let go of.
LEMMA QuietShared ==
  ASSUME Objects, Shared, transaction' = transaction, held' \subseteq held,
         \A u \in Tx : mode'[u] = mode[u],
         \A r \in held' \cap Sub : mode'[r] = mode[r] /\ parent'[r] = parent[r],
         \A r \in Sub : Active(r)' <=> Active(r),
         \A r \in Sub : Active(r) => r \in held',
         transaction \in held \cap Tx => transaction \in held',
         activations' = activations, vetoed \subseteq vetoed'
  PROVE  Shared'
  <1>1. \A o \in Tx \cup (held' \cap Sub) : Kind(mode'[o]) = Kind(mode[o])
    OBVIOUS
  <1>2. CASE transaction = NoTx
    <2>1. \A r \in Sub : ~Active(r)'
      BY <1>2, NoneActive DEF Shared
    <2>2. \A u \in Tx : ~Postponed(u)'
      <3>1. \A u \in Tx : transaction # u
        BY <1>2, ObjectsAssumption
      <3>2. \A u \in Tx : ~Postponed(u)
        BY <3>1, NonePostponed DEF Shared
      <3> QED BY <3>2 DEF Postponed
    <2> QED BY <1>1, <1>2, <2>1, <2>2, FinishedShared
  <1>3. CASE transaction # NoTx
    <2>1. transaction \in Tx
      BY <1>3 DEF Objects, ObjectsTyped
    <2>2. \A u \in Tx : (Active(u)' <=> Active(u)) /\ (Postponed(u)' <=> Postponed(u))
      BY DEF Active, Postponed
    <2>3. IF Exclusive(transaction) THEN transaction \in held'
          ELSE \E r \in held' \cap Sub : Active(r)'
      BY <1>3, <2>1 DEF Shared, NeverOrphaned, Sharers
    <2> QED BY <1>1, <2>1, <2>2, <2>3, GoingOnShared
  <1> QED BY <1>2, <1>3

\* Whoever holds a Transaction directly does not share it.
LEMMA HeldUnshared ==
  ASSUME Objects, Shared, NEW t \in held \cap Tx
  PROVE  /\ Exclusive(t) /\ ~Postponed(t)
         /\ \A r \in held \cap Sub : parent[r] # t
         /\ Active(t) => \A r \in Sub : ~Active(r)
  <1>1. Exclusive(t) /\ ~Postponed(t)
    BY DEF Shared, HandlesExclusive, PostponedIsShared, Postponed
  <1>2. \A r \in held \cap Sub : parent[r] # t
    BY <1>1 DEF Shared, SharingAgreed
  <1>3. Active(t) => \A r \in Sub : ~Active(r)
    BY <1>2 DEF Objects, ActiveIsCurrent, Shared, SharersOfCurrent
  <1> QED BY <1>1, <1>2, <1>3

\* An exclusive Transaction is finished.
LEMMA ExclusiveFinishesShared ==
  ASSUME Objects, Shared, NEW t \in held \cap Tx, Finish(t, mode),
         held' = held \/ held' = held \ {t}, parent' = parent,
         activations' = activations, vetoed \subseteq vetoed',
         ~Active(t) => held' = held \/ transaction # t
  PROVE  Shared'
  <1> USE ObjectsAssumption
  <1>1. mode \in Modal
    BY DEF Objects, ObjectsTyped, Modal, Flags
  <1>2. CASE Active(t)
    <2>1. transaction' = NoTx
      BY <1>2 DEF Finish
    <2>2. /\ \A o \in Tx \cup Sub : Kind(mode'[o]) = Kind(mode[o])
          /\ \A o \in (Tx \cup Sub) \ {t} : mode'[o] = mode[o]
          /\ "PendingRollback" \in mode'[t] => "PendingRollback" \in mode[t]
      BY <1>1, FinishKeepsKind
    <2>3. \A r \in Sub : ~Active(r)'
      BY <1>2, <2>2, HeldUnshared DEF Active
    <2>4. \A u \in Tx : ~Postponed(u)'
      <3>1. \A u \in Tx \ {t} : ~Postponed(u)
        BY <1>2, NonePostponed DEF Shared, Objects, ActiveIsCurrent
      <3>2. ~Postponed(t)
        BY HeldUnshared
      <3> QED BY <2>2, <3>1, <3>2 DEF Postponed
    <2> QED BY <2>1, <2>2, <2>3, <2>4, FinishedShared
  <1>3. CASE ~Active(t)
    <2>1. transaction' = transaction /\ mode' = mode
      BY <1>3 DEF Finish
    <2>2. \A r \in Sub : (Active(r)' <=> Active(r)) /\ (Active(r) => r \in held')
      BY <2>1 DEF Active, Shared, SharersOfCurrent
    <2> QED BY <1>3, <2>1, <2>2, QuietShared
  <1> QED BY <1>2, <1>3

LEMMA FinishTxShared ==
  ASSUME Objects, Shared, NEW t \in Tx, CommitTx(t) \/ RollbackTx(t)
  PROVE  Shared'
  <1>1. /\ t \in held /\ parent' = parent /\ held' = held /\ vetoed \subseteq vetoed'
        /\ Active(t)
    BY DEF CommitTx, RollbackTx
  <1>2. Finish(t, mode) /\ activations' = activations
    <2>1. PICK b, next : commit(t, t, b, next, mode) \/ rollback(t, next, mode)
      BY DEF CommitTx, RollbackTx
    <2> QED BY <2>1, CommitFinishes, RollbackFinishes, FinishingActivatesNothing
  <1> QED BY <1>1, <1>2, ExclusiveFinishesShared

LEMMA DropTxShared ==
  ASSUME Objects, Shared, NEW t \in Tx, DropTx(t)
  PROVE  Shared'
  <1>1. t \in held /\ held' = held \ {t} /\ parent' = parent
    BY DEF DropTx
  <1>2. ~Referenced(t, held', parent)
    BY <1>1, HeldUnshared DEF Referenced
  <1>3. DestroyTx(t, mode)
    BY <1>2 DEF DropTx
  <1>4. Finish(t, mode) /\ activations' = activations /\ vetoed \subseteq vetoed'
    <2>1. activations' = activations /\ vetoed \subseteq vetoed'
      BY <1>3, FinishingActivatesNothing DEF DestroyTx, Unfinished
    <2> QED BY <1>3, <2>1, DestroyFinishes
  <1>5. ~Active(t) => transaction # t
    BY DEF Objects, ActiveIsCurrent
  <1> QED BY <1>1, <1>4, <1>5, ExclusiveFinishesShared

\* A sharer that takes no part in the transaction leaves it to the others.
LEMMA DropSubShared ==
  ASSUME Objects, Shared, NEW s \in Sub, DropSub(s)
  PROVE  Shared'
  <1> USE ObjectsAssumption
  <1>1. PICK t \in Tx : t = parent[s] /\ s \in held
    BY DEF DropSub, Objects, SubsHeld
  <1>2. PICK m : m = [mode EXCEPT ![s] = {"Inactive"}]
    OBVIOUS
  <1>3. held' = held \ {s} /\ parent' = [parent EXCEPT ![s] = NoTx]
    BY DEF DropSub
  <1>4. /\ m \in Modal /\ "Inactive" \in m[s]
        /\ \A o \in (Tx \cup Sub) \ {s} : m[o] = mode[o]
    BY <1>2 DEF Objects, ObjectsTyped, Modal, Flags, ModeFlags
  <1>5. CASE Active(s)
    <2>1. subCommit(s, FALSE, <<>>, m) \/ subRollback(s, <<>>, m)
      BY <1>2, <1>5 DEF DropSub
    <2> QED BY <1>3, <1>4, <1>5, <2>1, SharerFinishesShared
  <1>6. CASE ~Active(s)
    <2>1. Active(t) => Referenced(t, held', parent')
      <3> SUFFICES ASSUME Active(t) PROVE Referenced(t, held', parent')
        OBVIOUS
      <3>1. transaction = t /\ t # NoTx
        BY DEF Objects, ActiveIsCurrent
      <3>2. ~Exclusive(t)
        BY <1>1 DEF Shared, SharingAgreed
      <3>3. PICK r \in Sharers(t) : TRUE
        BY <3>1, <3>2 DEF Shared, NeverOrphaned
      <3>4. r \in held' \cap Sub /\ parent'[r] = t
        BY <1>3, <1>6, <3>3 DEF Sharers, Objects, SubsHeld, ObjectsTyped
      <3> QED BY <3>4 DEF Referenced
    <2>2. Unfinished(m) /\ vetoed' = vetoed
      BY <1>1, <1>2, <1>6, <2>1 DEF DropSub, DestroyTx
    <2>3. mode' = m /\ transaction' = transaction /\ activations' = activations
      BY <2>2 DEF Unfinished
    <2>4. \A r \in Sub : (Active(r)' <=> Active(r)) /\ (Active(r) => r \in held')
      BY <1>3, <1>4, <1>6, <2>3 DEF Active, Objects, SubsHeld
    <2>5. /\ \A u \in Tx : mode'[u] = mode[u]
          /\ \A r \in held' \cap Sub : mode'[r] = mode[r] /\ parent'[r] = parent[r]
          /\ transaction \in held \cap Tx => transaction \in held'
      BY <1>3, <1>4, <2>3 DEF Objects, ObjectsTyped
    <2> QED BY <1>3, <2>2, <2>3, <2>4, <2>5, QuietShared
  <1> QED BY <1>5, <1>6


\* commit and rollback by a sharer.
LEMMA FinishSubShared ==
  ASSUME Objects, Shared, NEW s \in Sub, CommitSub(s) \/ RollbackSub(s)
  PROVE  Shared'
  <1> USE ObjectsAssumption
  <1>1. PICK m : m = Inactivated(s)
    OBVIOUS
  <1>2. Active(s) /\ UNCHANGED <<parent, held>>
    BY DEF CommitSub, RollbackSub
  <1>3. /\ m \in Modal /\ "Inactive" \in m[s] /\ Kind(m[s]) = Kind(mode[s])
        /\ \A o \in (Tx \cup Sub) \ {s} : m[o] = mode[o]
    BY <1>1 DEF Inactivated, Objects, ObjectsTyped, Modal, Flags, ModeFlags, Kind
  <1>4. PICK b, next : subCommit(s, b, next, m) \/ subRollback(s, next, m)
    BY <1>1 DEF CommitSub, RollbackSub
  <1> QED BY <1>2, <1>3, <1>4, SharerFinishesShared

----------------------------------------------------------------------------
(* Creation and reinitiation.                                              *)

\* A Transaction is activated while the service has none, for a caller that
\* holds it exclusively or for one that shares it.
LEMMA ActivatedShared ==
  ASSUME Objects, Shared, NEW t \in Tx, transaction = NoTx, transaction' = t,
         activations' = activations + 1,
         held \subseteq held',
         HandlesExclusive', SharingAgreed',
         \A u \in Tx \ {t} : mode'[u] = mode[u], ~Postponed(t)',
         \A r \in Sub : Active(r)' => r \in held' /\ parent'[r] = t,
         IF Exclusive(t)' THEN t \in held' ELSE \E r \in Sub : Active(r)'
  PROVE  Shared'
  <1>1. SharersOfCurrent'
    BY DEF SharersOfCurrent
  <1>2. NeverOrphaned'
    BY DEF NeverOrphaned, Sharers, Exclusive
  <1>3. \A u \in Tx : ~Postponed(u)'
    <2>1. \A u \in Tx : transaction # u
      BY ObjectsAssumption
    <2>2. \A u \in Tx : ~Postponed(u)
      BY <2>1, NonePostponed DEF Shared
    <2> QED BY <2>2 DEF Postponed
  <1>4. RollbackPostponed' /\ PostponedIsShared'
    BY <1>3 DEF RollbackPostponed, PostponedIsShared, Postponed
  <1> QED BY <1>1, <1>2, <1>4 DEF Shared

LEMMA ReinitiateTxShared ==
  ASSUME Objects, Shared, NEW t \in held \cap Tx, ReinitiateTx(t), held' = held
  PROVE  Shared'
  <1> USE ObjectsAssumption
  <1>1. /\ transaction = NoTx /\ transaction' = t /\ parent' = parent
        /\ mode' = [mode EXCEPT ![t] = @ \ {"Inactive"}]
        /\ activations' = activations + 1
    BY DEF ReinitiateTx, reinitiate
  <1>2. /\ mode'[t] = mode[t] \ {"Inactive"}
        /\ \A o \in (Tx \cup Sub) \ {t} : mode'[o] = mode[o]
    BY <1>1 DEF Objects, ObjectsTyped
  <1>3. \A o \in Tx \cup (held' \cap Sub) : Kind(mode'[o]) = Kind(mode[o])
    BY <1>2 DEF Kind
  <1>4. HandlesExclusive' /\ SharingAgreed'
    BY <1>1, <1>3, AgreementKept DEF Objects, Shared
  <1>5. \A r \in Sub : ~Active(r)'
    BY <1>1, <1>2, NoneActive DEF Shared, Active
  <1>6. ~Postponed(t)' /\ Exclusive(t)'
    BY <1>2, HeldUnshared DEF Postponed, Exclusive
  <1> QED BY <1>1, <1>2, <1>4, <1>5, <1>6, ActivatedShared

LEMMA ReinitiateOwnShared ==
  ASSUME Objects, Shared, NEW s \in held \cap Sub, ReinitiateOwn(s), held' = held
  PROVE  Shared'
  <1> USE ObjectsAssumption
  <1>1. PICK t \in Tx : t = parent[s]
    BY DEF Objects, SubsHeld
  <1>2. /\ transaction = NoTx /\ transaction' = t /\ parent' = parent
        /\ mode' = [Activated(s) EXCEPT ![t] = @ \ {"Inactive"}]
        /\ activations' = activations + 1
    BY <1>1 DEF ReinitiateOwn, reinitiate
  <1>3. /\ mode'[t] = mode[t] \ {"Inactive"} /\ mode'[s] = mode[s] \ {"Inactive"}
        /\ \A o \in (Tx \cup Sub) \ {s, t} : mode'[o] = mode[o]
    BY <1>2 DEF Activated, Objects, ObjectsTyped
  <1>4. \A o \in Tx \cup (held' \cap Sub) : Kind(mode'[o]) = Kind(mode[o])
    BY <1>3 DEF Kind
  <1>5. HandlesExclusive' /\ SharingAgreed'
    BY <1>2, <1>4, AgreementKept DEF Objects, Shared
  <1>6. Active(s)' /\ \A r \in Sub : Active(r)' => r = s
    BY <1>2, <1>3, NoneActive DEF Shared, Active
  <1>7. ~Postponed(t)'
    BY <1>1, <1>2, <1>3, NonePostponed DEF Postponed, Shared
  <1>8. ~Exclusive(t)'
    BY <1>1, <1>3 DEF Exclusive, Shared, SharingAgreed
  <1> QED BY <1>1, <1>2, <1>3, <1>5, <1>6, <1>7, <1>8, ActivatedShared


\* The Transaction a sharer is activated in is the one that records updates.
LEMMA JoinsCurrent ==
  ASSUME Objects, Shared, NEW s \in held \cap Sub, ReinitiateShared(s)
  PROVE  /\ transaction \in Tx /\ Join(s, transaction)
         /\ ~Exclusive(transaction) /\ BackEnd(mode[s]) = BackEnd(mode[transaction])
  <1>1. parent[s] \in Tx
    BY DEF Objects, SubsHeld
  <1>2. CASE active_subs[parent[s]] # 0 /\ Join(s, parent[s])
    <2>1. Cardinality(Sharers(parent[s])) # 0
      BY <1>1, <1>2 DEF Objects, SharersCounted
    <2>2. PICK r \in Sharers(parent[s]) : TRUE
      BY <2>1, FS_EmptySet
    <2>3. parent[s] = transaction
      BY <2>2 DEF Sharers, Shared, SharersOfCurrent
    <2> QED BY <1>1, <1>2, <2>3 DEF Shared, SharingAgreed
  <1>3. CASE transaction # NoTx /\ canAdopt(transaction, mode[s]) /\ Join(s, transaction)
    BY <1>3 DEF canAdopt, Exclusive, Objects, ObjectsTyped
  <1> QED BY <1>2, <1>3 DEF ReinitiateShared

\* A sharer joins the active Transaction, or is made to refer to it.
LEMMA JoinedShared ==
  ASSUME Objects, Shared, transaction \in Tx, transaction' = transaction,
         NEW s \in Sub, held' = held \cup {s},
         ~Exclusive(transaction), BackEnd(mode'[s]) = BackEnd(mode[transaction]),
         \A o \in (Tx \cup Sub) \ {s} : mode'[o] = mode[o],
         \A r \in Sub \ {s} : parent'[r] = parent[r], parent'[s] = transaction,
         ~Active(s), activations' = activations, vetoed' = vetoed
  PROVE  Shared'
  <1> USE ObjectsAssumption
  <1>1. \A o \in (Tx \cup Sub) \ {s} :
          /\ Active(o)' <=> Active(o)
          /\ Exclusive(o)' <=> Exclusive(o)
          /\ Postponed(o)' <=> Postponed(o)
    BY DEF Active, Exclusive, Postponed
  <1>2. HandlesExclusive'
    BY <1>1 DEF Shared, HandlesExclusive
  <1>3. SharersOfCurrent'
    BY <1>1 DEF Shared, SharersOfCurrent
  <1>4. NeverOrphaned'
    <2>1. PICK r \in Sharers(transaction) : TRUE
      BY DEF Shared, NeverOrphaned
    <2>2. r \in Sub /\ Active(r)' /\ parent'[r] = transaction'
      BY <1>1, <2>1 DEF Sharers
    <2>3. Sharers(transaction)' # {}
      BY <2>2 DEF Sharers
    <2> QED BY <1>1, <2>3 DEF NeverOrphaned, Exclusive
  <1>5. SharingAgreed'
    <2> SUFFICES ASSUME NEW r \in held' \cap Sub
                 PROVE  /\ ~Exclusive(parent[r])'
                        /\ BackEnd(mode'[r]) = BackEnd(mode'[parent'[r]])
      BY DEF SharingAgreed
    <2>1. CASE r = s
      BY <1>1, <2>1 DEF Exclusive
    <2>2. CASE r # s
      <3>1. r \in held \cap Sub /\ parent'[r] = parent[r] /\ parent[r] \in Tx
        BY <2>2 DEF Objects, SubsHeld
      <3>2. ~Exclusive(parent[r]) /\ BackEnd(mode[r]) = BackEnd(mode[parent[r]])
        BY <3>1 DEF Shared, SharingAgreed
      <3>3. mode'[r] = mode[r] /\ mode'[parent[r]] = mode[parent[r]]
        BY <2>2, <3>1
      <3> QED BY <3>1, <3>2, <3>3 DEF Exclusive
    <2> QED BY <2>1, <2>2
  <1>6. RollbackPostponed' /\ PostponedIsShared'
    BY <1>1 DEF Shared, RollbackPostponed, PostponedIsShared, Postponed
  <1> QED BY <1>2, <1>3, <1>4, <1>5, <1>6 DEF Shared

LEMMA ReinitiateSharedShared ==
  ASSUME Objects, Shared, NEW s \in held \cap Sub, ~Active(s), ReinitiateShared(s),
         held' = held, vetoed' = vetoed
  PROVE  Shared'
  <1> USE ObjectsAssumption
  <1>1. /\ transaction \in Tx /\ Join(s, transaction)
        /\ ~Exclusive(transaction) /\ BackEnd(mode[s]) = BackEnd(mode[transaction])
    BY JoinsCurrent
  <1>2. /\ parent' = [parent EXCEPT ![s] = transaction]
        /\ mode' = [mode EXCEPT ![s] = @ \ {"Inactive"}]
        /\ transaction' = transaction /\ activations' = activations
    BY <1>1 DEF Join, Activated
  <1>3. /\ mode'[s] = mode[s] \ {"Inactive"} /\ parent'[s] = transaction
        /\ \A o \in (Tx \cup Sub) \ {s} : mode'[o] = mode[o]
        /\ \A r \in Sub \ {s} : parent'[r] = parent[r]
        /\ held' = held \cup {s}
    BY <1>2 DEF Objects, ObjectsTyped
  <1>4. BackEnd(mode'[s]) = BackEnd(mode[s])
    BY <1>3 DEF BackEnd, BackEndFlags, ModeFlags
  <1> QED BY <1>1, <1>2, <1>3, <1>4, JoinedShared

LEMMA ReinitiatedShared ==
  ASSUME Objects, Shared, NEW o \in held, Reinitiated(o), held' = held, vetoed' = vetoed
  PROVE  Shared'
  <1>1. o \in Tx \/ o \in Sub
    BY DEF Objects, ObjectsTyped
  <1> QED BY <1>1, ReinitiateTxShared, ReinitiateOwnShared, ReinitiateSharedShared
          DEF Reinitiated

LEMMA CreateSharedShared ==
  ASSUME Objects, Shared, NEW md \in Modes, CreateShared(md)
  PROVE  Shared'
  <1> USE ObjectsAssumption
  <1>1. PICK s \in Sub \ held :
          /\ held' = held \cup {s}
          /\ parent' = [parent EXCEPT ![s] = transaction]
          /\ mode' = [mode EXCEPT ![s] = md]
    BY DEF CreateShared
  <1>2. /\ transaction \in Tx /\ transaction' = transaction
        /\ activations' = activations /\ vetoed' = vetoed
        /\ ~Exclusive(transaction) /\ BackEnd(md) = BackEnd(mode[transaction])
    BY DEF CreateShared, history, canAdopt, Exclusive, Objects, ObjectsTyped
  <1>3. /\ mode'[s] = md /\ parent'[s] = transaction
        /\ \A o \in (Tx \cup Sub) \ {s} : mode'[o] = mode[o]
        /\ \A r \in Sub \ {s} : parent'[r] = parent[r]
    BY <1>1 DEF Objects, ObjectsTyped
  <1>4. ~Active(s)
    BY DEF Objects, SubsHeld
  <1> QED BY <1>1, <1>2, <1>3, <1>4, JoinedShared


\* A new Transaction t and who gets it: its caller, or a first sharer.
Created(t, md) ==
  /\ "PendingRollback" \notin mode'[t]
  /\ "Exclusive" \in mode'[t] <=> "Exclusive" \in md
  /\ BackEnd(mode'[t]) = BackEnd(md)
  /\ \/ /\ "Exclusive" \in md /\ held' = held \cup {t} /\ parent' = parent
        /\ \A o \in (Tx \cup Sub) \ {t} : mode'[o] = mode[o]
     \/ /\ "Exclusive" \notin md
        /\ \E s \in Sub \ held :
             /\ held' = held \cup {s}
             /\ mode'[s] = md /\ parent'[s] = t
             /\ \A o \in (Tx \cup Sub) \ {s, t} : mode'[o] = mode[o]
             /\ \A r \in Sub \ {s} : parent'[r] = parent[r]

LEMMA CreateOwnCreates ==
  ASSUME Objects, NEW md \in Modes, CreateOwn(md)
  PROVE  \E t \in Tx :
           /\ ~Exists(t) /\ Created(t, md)
           /\ IF "Inactive" \in md
              THEN UNCHANGED <<transaction, activations>>
              ELSE /\ transaction = NoTx /\ transaction' = t
                   /\ activations' = activations + 1
  <1> USE ObjectsAssumption
  <1>1. PICK t \in Tx :
          /\ ~Exists(t)
          /\ \/ /\ "Exclusive" \in md
                /\ held' = held \cup {t} /\ parent' = parent
                /\ mode' = IF "Inactive" \in md
                           THEN [mode EXCEPT ![t] = md \cup {"Inactive"}]
                           ELSE [[mode EXCEPT ![t] = md \cup {"Inactive"}]
                                   EXCEPT ![t] = @ \ {"Inactive"}]
             \/ /\ "Exclusive" \notin md
                /\ \E s \in Sub \ held :
                     /\ held' = held \cup {s}
                     /\ parent' = [parent EXCEPT ![s] = t]
                     /\ mode' = IF "Inactive" \in md
                                THEN [[mode EXCEPT ![t] = md \cup {"Inactive"}] EXCEPT ![s] = md]
                                ELSE [[[mode EXCEPT ![t] = md \cup {"Inactive"}]
                                        EXCEPT ![s] = md] EXCEPT ![t] = @ \ {"Inactive"}]
          /\ IF "Inactive" \in md
             THEN UNCHANGED <<transaction, activations>>
             ELSE transaction' = t /\ activations' = activations + 1
    BY DEF CreateOwn, reinitiate
  <1>2. "Inactive" \notin md => transaction = NoTx
    BY DEF CreateOwn
  <1>3. \A f : f = md \cup {"Inactive"} \/ f = (md \cup {"Inactive"}) \ {"Inactive"} =>
          /\ "PendingRollback" \notin f
          /\ "Exclusive" \in f <=> "Exclusive" \in md
          /\ BackEnd(f) = BackEnd(md)
    BY ModesAssumption DEF BackEnd, BackEndFlags, ModeFlags
  <1>4. mode'[t] = md \cup {"Inactive"} \/ mode'[t] = (md \cup {"Inactive"}) \ {"Inactive"}
    BY <1>1 DEF Objects, ObjectsTyped
  <1>5. CASE /\ "Exclusive" \in md
             /\ held' = held \cup {t} /\ parent' = parent
             /\ mode' = IF "Inactive" \in md
                        THEN [mode EXCEPT ![t] = md \cup {"Inactive"}]
                        ELSE [[mode EXCEPT ![t] = md \cup {"Inactive"}]
                                EXCEPT ![t] = @ \ {"Inactive"}]
    <2>1. \A o \in (Tx \cup Sub) \ {t} : mode'[o] = mode[o]
      BY <1>5 DEF Objects, ObjectsTyped
    <2>2. Created(t, md)
      BY <1>3, <1>4, <1>5, <2>1 DEF Created
    <2> QED BY <1>1, <1>2, <2>2
  <1>6. ASSUME "Exclusive" \notin md, NEW s \in Sub \ held,
               held' = held \cup {s},
               parent' = [parent EXCEPT ![s] = t],
               mode' = IF "Inactive" \in md
                       THEN [[mode EXCEPT ![t] = md \cup {"Inactive"}] EXCEPT ![s] = md]
                       ELSE [[[mode EXCEPT ![t] = md \cup {"Inactive"}]
                               EXCEPT ![s] = md] EXCEPT ![t] = @ \ {"Inactive"}]
        PROVE  Created(t, md)
    <2>1. /\ mode'[s] = md /\ parent'[s] = t
          /\ \A o \in (Tx \cup Sub) \ {s, t} : mode'[o] = mode[o]
          /\ \A r \in Sub \ {s} : parent'[r] = parent[r]
      BY <1>6 DEF Objects, ObjectsTyped
    <2> QED BY <1>3, <1>4, <1>6, <2>1 DEF Created
  <1> QED BY <1>1, <1>2, <1>5, <1>6

\* A new Transaction disturbs no agreement.
LEMMA CreatedAgreed ==
  ASSUME Objects, Shared, NEW md \in Modes, NEW t \in Tx, ~Exists(t), Created(t, md)
  PROVE  HandlesExclusive' /\ SharingAgreed'
  <1> USE ObjectsAssumption
  <1>1. \A r \in held \cap Sub : parent[r] # t /\ parent[r] \in Tx
    BY DEF Exists, Referenced, Objects, SubsHeld
  <1>2. t \notin held
    BY DEF Exists, Referenced
  <1>3. HandlesExclusive'
    BY <1>2 DEF Created, Shared, HandlesExclusive, Exclusive
  <1>4. SharingAgreed'
    <2> SUFFICES ASSUME NEW r \in held' \cap Sub
                 PROVE  /\ ~Exclusive(parent[r])'
                        /\ BackEnd(mode'[r]) = BackEnd(mode'[parent'[r]])
      BY DEF SharingAgreed
    <2>1. CASE r \in held
      <3>1. parent'[r] = parent[r] /\ mode'[r] = mode[r]
        BY <2>1 DEF Created
      <3>2. mode'[parent[r]] = mode[parent[r]]
        BY <1>1, <2>1 DEF Created
      <3>3. ~Exclusive(parent[r]) /\ BackEnd(mode[r]) = BackEnd(mode[parent[r]])
        BY <2>1 DEF Shared, SharingAgreed
      <3> QED BY <3>1, <3>2, <3>3 DEF Exclusive
    <2>2. CASE r \notin held
      BY <2>2 DEF Created, Exclusive
    <2> QED BY <2>1, <2>2
  <1> QED BY <1>3, <1>4

LEMMA CreateOwnShared ==
  ASSUME Objects, Shared, NEW md \in Modes, CreateOwn(md)
  PROVE  Shared'
  <1> USE ObjectsAssumption
  <1>1. PICK t \in Tx :
          /\ ~Exists(t) /\ Created(t, md)
          /\ IF "Inactive" \in md
             THEN UNCHANGED <<transaction, activations>>
             ELSE /\ transaction = NoTx /\ transaction' = t
                  /\ activations' = activations + 1
    BY CreateOwnCreates
  <1>2. HandlesExclusive' /\ SharingAgreed'
    BY <1>1, CreatedAgreed
  <1>3. vetoed' = vetoed
    BY DEF CreateOwn
  <1>4. /\ \A u \in Tx \ {t} : mode'[u] = mode[u]
        /\ ~Postponed(t)' /\ held \subseteq held'
    BY <1>1 DEF Created, Postponed
  <1>5. transaction # t
    BY <1>1 DEF Objects, CurrentExists
  <1>6. CASE "Inactive" \notin md
    <2>1. \A r \in Sub : ~Active(r)
      BY <1>1, <1>6, NoneActive DEF Shared
    <2>2. \A r \in Sub : Active(r)' => r \in held' /\ parent'[r] = t
      BY <1>1, <2>1 DEF Created, Active
    <2>3. IF Exclusive(t)' THEN t \in held' ELSE \E r \in Sub : Active(r)'
      BY <1>1, <1>6 DEF Created, Active, Exclusive
    <2> QED BY <1>1, <1>2, <1>4, <1>6, <2>2, <2>3, ActivatedShared
  <1>7. CASE "Inactive" \in md
    <2>1. transaction' = transaction /\ activations' = activations
      BY <1>1, <1>7
    <2>2. \A r \in Sub : Active(r)' => Active(r) /\ parent'[r] = parent[r]
      BY <1>1, <1>7 DEF Created, Active
    <2>3. \A r \in held \cap Sub : mode'[r] = mode[r] /\ parent'[r] = parent[r]
      BY <1>1 DEF Created
    <2>4. SharersOfCurrent'
      BY <1>4, <2>1, <2>2 DEF Shared, SharersOfCurrent
    <2>5. NeverOrphaned'
      <3> SUFFICES ASSUME transaction # NoTx
                   PROVE  IF Exclusive(transaction)' THEN transaction \in held'
                          ELSE Sharers(transaction)' # {}
        BY <2>1 DEF NeverOrphaned, Exclusive, Sharers
      <3>1. mode'[transaction] = mode[transaction]
        BY <1>4, <1>5 DEF Objects, ObjectsTyped
      <3>2. Sharers(transaction) \subseteq Sharers(transaction)'
        BY <2>1, <2>3 DEF Sharers, Active, Objects, SubsHeld
      <3> QED BY <1>4, <2>1, <3>1, <3>2 DEF Shared, NeverOrphaned, Exclusive
    <2>6. RollbackPostponed' /\ PostponedIsShared'
      BY <1>3, <1>4, <2>1
         DEF Shared, RollbackPostponed, PostponedIsShared, Postponed, Active, Exclusive
    <2> QED BY <1>2, <2>4, <2>5, <2>6 DEF Shared
  <1> QED BY <1>6, <1>7


----------------------------------------------------------------------------
(* Every action keeps Shared.                                              *)

\* Actions that leave the objects alone.
LEMMA UntouchedShared ==
  ASSUME Objects, Shared, UNCHANGED objects, activations' = activations, vetoed' = vetoed
  PROVE  Shared'
  <1>1. \A r \in Sub : (Active(r)' <=> Active(r)) /\ (Active(r) => r \in held')
    BY DEF objects, Active, Objects, SubsHeld
  <1> QED BY <1>1, QuietShared DEF objects

LEMMA ReturnsShared ==
  ASSUME Objects, CallsHeld, Shared, Returns
  PROVE  Shared'
  <1>1. CASE ReturnToReinitiate /\ Reinitiated(Head(stack).obj)
    <2>1. Head(stack).obj \in held /\ held' = held /\ vetoed' = vetoed
      BY <1>1, CallReturns DEF ReturnToReinitiate, HeldFrame
    <2>2. PICK o \in held : o = Head(stack).obj
      BY <2>1
    <2> QED BY <1>1, <2>1, <2>2, ReinitiatedShared
  <1>2. CASE ReturnToReinitiate /\ ~Reinitiated(Head(stack).obj)
    BY <1>2, UntouchedShared DEF ReturnToReinitiate, objects
  <1>3. CASE ReturnFromBlock
    BY <1>3, UntouchedShared DEF ReturnFromBlock, history
  <1> QED BY <1>1, <1>2, <1>3 DEF Returns

LEMMA InitShared == Init => Shared
  BY DEF Init, Shared, HandlesExclusive, SharersOfCurrent, NeverOrphaned, SharingAgreed,
         RollbackPostponed, PostponedIsShared, Active

LEMMA NextShared ==
  ASSUME DirectHandles = FALSE, Consistent, Shared, [Next]_vars
  PROVE  Shared'
  <1> USE ConsistentParts
  <1>1. CASE Execute
    BY <1>1, UntouchedShared DEF Execute
  <1>2. CASE CreateTransaction
    BY <1>2, CreateSharedShared, CreateOwnShared DEF CreateTransaction
  <1>3. CASE PendingTransaction
    BY <1>3 DEF PendingTransaction
  <1>4. CASE \E s \in Sub : CommitSub(s) \/ RollbackSub(s) \/ DropSub(s)
    BY <1>4, FinishSubShared, DropSubShared
  <1>5. CASE \E t \in Tx : CommitTx(t) \/ RollbackTx(t) \/ DropTx(t)
    BY <1>5, FinishTxShared, DropTxShared
  <1>6. CASE \E o \in Tx \cup Sub : Reinitiate(o)
    <2>1. PICK o : Reinitiate(o)
      BY <1>6
    <2>2. o \in held /\ Reinitiated(o) /\ held' = held /\ vetoed' = vetoed
      BY <2>1 DEF Reinitiate
    <2> QED BY <2>2, ReinitiatedShared
  <1>7. CASE Returns
    BY <1>7, ReturnsShared
  <1>8. CASE \E r \in 1..Len(requests) : DatabaseReply(r)
    BY <1>8, UntouchedShared DEF DatabaseReply, history
  <1>9. CASE UNCHANGED vars
    BY <1>9, UntouchedShared DEF vars, history
  <1> QED BY <1>1, <1>2, <1>3, <1>4, <1>5, <1>6, <1>7, <1>8, <1>9 DEF Next

----------------------------------------------------------------------------
(* The theorems.                                                           *)

LEMMA SharedAlways ==
  ASSUME DirectHandles = FALSE
  PROVE  Spec => []Shared
  <1>1. Consistent /\ Shared /\ [Next]_vars => Shared'
    BY NextShared
  <1> QED BY <1>1, InitShared, ConsistentAlways, PTL DEF Spec

\* Every active in-place transaction shares the Transaction that the service
\* records updates in, whatever was committed, rolled back, destroyed or
\* reinitiated around it.
THEOREM SharersAgreeWithService ==
  ASSUME DirectHandles = FALSE
  PROVE  Spec => []SharersOfCurrent
  <1>1. Shared => SharersOfCurrent
    BY DEF Shared
  <1> QED BY <1>1, SharedAlways, PTL

\* The active Transaction always has somebody left who can finish it: its one
\* exclusive holder, or an active sharer.
THEOREM SomebodyCanFinish ==
  ASSUME DirectHandles = FALSE
  PROVE  Spec => []NeverOrphaned
  <1>1. Shared => NeverOrphaned
    BY DEF Shared
  <1> QED BY <1>1, SharedAlways, PTL

\* canAdopt is never bypassed: sharers' back-end flags agree with those of
\* their Transaction, which nobody owns exclusively, after any reinitiation.
THEOREM SharersAgreeOnFlags ==
  ASSUME DirectHandles = FALSE
  PROVE  Spec => []SharingAgreed
  <1>1. Shared => SharingAgreed
    BY DEF Shared
  <1> QED BY <1>1, SharedAlways, PTL

\* A PendingRollback flag belongs to an active Transaction and to a rollback of
\* its present batch: it never survives into the next activation.
THEOREM PostponementEnds ==
  ASSUME DirectHandles = FALSE
  PROVE  Spec => []RollbackPostponed
  <1>1. Shared => RollbackPostponed
    BY DEF Shared
  <1> QED BY <1>1, SharedAlways, PTL


\* No step goes from one active Transaction to another.
LEMMA OneTransactionAtATime ==
  ASSUME DirectHandles = FALSE, Consistent, [Next]_vars
  PROVE  transaction = NoTx \/ transaction' \in {transaction, NoTx}
  <1>1. \A t, o, b, next, m :
          commit(t, o, b, next, m) \/ rollback(t, next, m) \/ Unfinished(m)
            => transaction' \in {transaction, NoTx}
    BY DEF commit, rollback, Unfinished
  <1>2. \A s, b, next, m :
          subCommit(s, b, next, m) \/ subRollback(s, next, m)
            => transaction' \in {transaction, NoTx}
    BY <1>1 DEF subCommit, subRollback
  <1>3. CASE \E s \in Sub : CommitSub(s) \/ RollbackSub(s) \/ DropSub(s)
    BY <1>1, <1>2, <1>3 DEF CommitSub, RollbackSub, DropSub, DestroyTx
  <1>4. CASE \E t \in Tx : CommitTx(t) \/ RollbackTx(t) \/ DropTx(t)
    BY <1>1, <1>4 DEF CommitTx, RollbackTx, DropTx, DestroyTx
  <1>5. \A o : Reinitiated(o) => transaction = NoTx \/ transaction' = transaction
    BY DEF Reinitiated, ReinitiateTx, ReinitiateOwn, ReinitiateShared, Join
  <1>6. CASE (\E o \in Tx \cup Sub : Reinitiate(o)) \/ Returns
    BY <1>5, <1>6 DEF Reinitiate, Returns, ReturnToReinitiate, ReturnFromBlock, objects
  <1>7. CASE CreateTransaction
    BY <1>7 DEF CreateTransaction, CreateShared, CreateOwn
  <1>8. CASE Execute \/ PendingTransaction \/ \E r \in 1..Len(requests) : DatabaseReply(r)
    BY <1>8 DEF Execute, PendingTransaction, DatabaseReply, objects
  <1> QED BY <1>3, <1>4, <1>6, <1>7, <1>8 DEF Next, vars, objects

\* Whoever ends a shared Transaction is the last who takes part in it: no step
\* finishes it while another sharer stays active.
THEOREM LastSharerFinishes ==
  ASSUME DirectHandles = FALSE
  PROVE  Spec => FinishedByLastSharer
  <1>1. ASSUME Consistent, Consistent', Shared', [Next]_vars
        PROVE  [\A t \in Tx : Active(t) /\ ~Active(t)' =>
                  \A s \in Sharers(t) : ~Active(s)']_vars
    <2> SUFFICES ASSUME NEW t \in Tx, Active(t), ~Active(t)', NEW s \in Sub, Active(s)'
                 PROVE  FALSE
      BY DEF Sharers
    <2>1. transaction = t /\ transaction' # t
      BY <1>1 DEF Consistent, ActiveIsCurrent
    <2>2. transaction' = NoTx
      BY <1>1, <2>1, OneTransactionAtATime, ObjectsAssumption
    <2>3. parent'[s] = NoTx /\ parent'[s] \in Tx
      BY <1>1, <2>2 DEF Consistent, SubsHeld, Shared, SharersOfCurrent
    <2> QED BY <2>3, ObjectsAssumption
  <1> QED BY <1>1, ConsistentAlways, SharedAlways, PTL DEF Spec, FinishedByLastSharer

=============================================================================
