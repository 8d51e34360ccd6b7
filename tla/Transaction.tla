---------------------------- MODULE Transaction ----------------------------
(***************************************************************************)
(* In-place transactions of one RDF service: Transaction and               *)
(* InPlaceSubTransaction (transaction_p.cpp), RDFServiceBasic's            *)
(* createTransaction and pendingTransaction (rdfservice_p.cpp), and the    *)
(* recording of updates by TrackerService::executeQuery.                   *)
(*                                                                         *)
(* A service has at most one active Transaction.  Callers that do not ask  *)
(* for exclusivity share it: each holds an InPlaceSubTransaction of its    *)
(* own, and the last of them to finish decides the fate of everything      *)
(* recorded meanwhile.  Everything runs in one thread; the interleaving    *)
(* comes from callers that hold handles side by side and from slots run    *)
(* inside a call, which the call stack below makes explicit.               *)
(***************************************************************************)
EXTENDS Integers, Sequences, FiniteSets

CONSTANTS
  Tx,             \* identities of Transaction objects
  Sub,            \* identities of InPlaceSubTransaction objects
  NoTx,           \* a null Transaction pointer
  Modes,          \* the modes callers create transactions with, sets of flags
  Blocking,       \* the is_blocking arguments callers pass, a subset of BOOLEAN
  DirectHandles,  \* whether callers use pendingTransaction()
  MaxOps,         \* bound: updates issued in a behaviour
  MaxBatches,     \* bound: activations of a Transaction in a behaviour
  MaxDepth        \* bound: calls in progress at once

ModeFlags == {"Exclusive", "Inactive", "PendingRollback", "CommitOnDestroy"}
BackEndFlags == (UNION Modes) \ ModeFlags

ASSUME ObjectsAssumption ==
  /\ Tx \cap Sub = {}
  /\ NoTx \notin Tx
  /\ IsFiniteSet(Sub)
ASSUME ModesAssumption ==
  /\ \A md \in Modes : "PendingRollback" \notin md
  /\ Blocking \subseteq BOOLEAN
  /\ DirectHandles \in BOOLEAN
ASSUME BoundsAssumption ==
  MaxOps \in Nat /\ MaxBatches \in Nat /\ MaxDepth \in Nat

VARIABLES
  transaction,    \* RDFServiceBasic::transaction_
  mode,           \* mode_ of every transaction object
  parent,         \* parent_ of every InPlaceSubTransaction
  active_subs,    \* active_subs_ of every Transaction
  update,         \* update_: the updates recorded in a Transaction
  pending_commit, \* pending_commit_: the request whose model is observed, or 0
  held,           \* the objects callers hold a handle of
  stack           \* calls in progress, the innermost first

VARIABLES
  requests,       \* the updates sent to the database, in order
  replied,        \* the requests the database has answered
  activations,    \* history: how often a Transaction was activated, and so the
                  \* number of the active one's batch of updates
  issued,         \* history: the batch each issued update was recorded in
  vetoed,         \* history: the batches a participant rolled back
  discarded       \* history: the updates dropped by a rollback

objects == <<transaction, mode, parent, active_subs, held>>
database == <<requests, replied, pending_commit>>
history == <<activations, issued, vetoed, discarded>>
vars == <<objects, update, stack, database, history>>

Op == 1..MaxOps

----------------------------------------------------------------------------
(* Queries.                                                                *)

Active(o) == "Inactive" \notin mode[o]
Exclusive(o) == "Exclusive" \in mode[o]

\* The active in-place transactions sharing t.
Sharers(t) == {s \in Sub : Active(s) /\ parent[s] = t}

\* A Transaction lives as long as a shared pointer to it exists.
Referenced(t, hs, par) ==
  \/ t \in hs
  \/ \E s \in hs \cap Sub : par[s] = t
Exists(t) == Referenced(t, held, parent)

BackEnd(flags) == flags \cap BackEndFlags

\* Variant: back-end flags are not compared.
canAdoptAnyBackEnd(t, child_mode) == "Exclusive" \notin mode[t] \cup child_mode

canAdopt(t, child_mode) ==
  /\ "Exclusive" \notin mode[t] \cup child_mode
  /\ BackEnd(mode[t]) = BackEnd(child_mode)

\* Callers act when no call is in progress, or from a slot of the innermost.
CallersRun == stack # <<>> => Head(stack).slots
OnStack(o) == \E i \in 1..Len(stack) : stack[i].obj = o \/ stack[i].tx = o

Reinitiation(o, slots) == [kind |-> "reinitiate", obj |-> o, tx |-> NoTx,
                           request |-> 0, slots |-> slots]
EndOfCommit(o, t, r) == [kind |-> "commit", obj |-> o, tx |-> t,
                         request |-> r, slots |-> TRUE]

----------------------------------------------------------------------------
(* Calls that finish or activate a Transaction.  m is mode with what the   *)
(* caller has changed already; next is what the caller goes on to do.      *)

Unfinished(m) ==
  /\ mode' = m
  /\ UNCHANGED <<transaction, update, stack, database>>
  /\ UNCHANGED <<activations, issued, discarded>>

\* Variant: transaction_ is still set when the update is executed, which then
\* records it in update_ instead of sending it.
commitIntoItself(t, o, is_blocking, next, m) ==
  IF ~Active(t) THEN Unfinished(m)
  ELSE /\ transaction' = NoTx
       /\ mode' = [m EXCEPT ![t] = @ \cup {"Inactive"}]
       /\ stack' = next \o stack
       /\ update' = [update EXCEPT ![t] = {}]
       /\ UNCHANGED <<database, activations, issued, discarded>>

\* Transaction::commit.  The update is sent and its model observed; only then
\* is update_ reset, which a blocking commit reaches after the event loop it
\* waits in.  An empty commit emits commitFinished at once.
commit(t, o, is_blocking, next, m) ==
  IF ~Active(t) THEN Unfinished(m)
  ELSE /\ transaction' = NoTx
       /\ mode' = [m EXCEPT ![t] = @ \cup {"Inactive"}]
       /\ \/ /\ update[t] = {}
             /\ stack' = next \o stack
             /\ UNCHANGED <<update, requests, pending_commit>>
          \/ /\ update[t] # {}
             /\ requests' = Append(requests, [tx |-> t, ops |-> update[t]])
             /\ pending_commit' = [pending_commit EXCEPT ![t] = Len(requests) + 1]
             /\ IF is_blocking
                THEN /\ stack' = <<EndOfCommit(o, t, Len(requests) + 1)>>
                                    \o next \o stack
                     /\ UNCHANGED update
                ELSE /\ stack' = next \o stack
                     /\ update' = [update EXCEPT ![t] = {}]
       /\ UNCHANGED <<replied, activations, issued, discarded>>

\* Variant: the PendingRollback flag stays.
rollbackKeepsFlag(t, next, m) ==
  IF ~Active(t) THEN Unfinished(m)
  ELSE /\ transaction' = NoTx
       /\ mode' = [m EXCEPT ![t] = @ \cup {"Inactive"}]
       /\ update' = [update EXCEPT ![t] = {}]
       /\ stack' = next \o stack
       /\ discarded' = discarded \cup update[t]
       /\ UNCHANGED <<database, activations, issued>>

\* Transaction::rollback.
rollback(t, next, m) ==
  IF ~Active(t) THEN Unfinished(m)
  ELSE /\ transaction' = NoTx
       /\ mode' = [m EXCEPT ![t] = (@ \cup {"Inactive"}) \ {"PendingRollback"}]
       /\ update' = [update EXCEPT ![t] = {}]
       /\ stack' = next \o stack
       /\ discarded' = discarded \cup update[t]
       /\ UNCHANGED <<database, activations, issued>>

\* The bound on activations counts those a call in progress has yet to make.
Room ==
  activations
    + Cardinality({i \in 1..Len(stack) : stack[i].kind = "reinitiate"}) < MaxBatches

\* Variant: update_ keeps what it held.
reinitiateKeepsUpdate(t, m) ==
  /\ transaction' = t
  /\ mode' = [m EXCEPT ![t] = @ \ {"Inactive"}]
  /\ activations' = activations + 1
  /\ UNCHANGED update

\* Transaction::reinitiate, when the service has no active transaction.
reinitiate(t, m) ==
  /\ transaction' = t
  /\ update' = [update EXCEPT ![t] = {}]
  /\ mode' = [m EXCEPT ![t] = @ \ {"Inactive"}]
  /\ activations' = activations + 1

\* The batch a rollback by one who shares t is a vote against.
Veto(t) == IF Active(t) THEN {activations} ELSE {}

\* Variant: the last sharer does not look for a postponed rollback.
subCommitRegardless(s, is_blocking, next, m) ==
  LET t == parent[s] IN
  /\ active_subs' = [active_subs EXCEPT ![t] = @ - 1]
  /\ IF active_subs[t] # 1 THEN Unfinished(m)
     ELSE commit(t, s, is_blocking, next, m)
  /\ UNCHANGED vetoed

\* InPlaceSubTransaction::commit and rollback of an active s.  next is reached
\* only when the shared Transaction is finished the way s asked for.
subCommit(s, is_blocking, next, m) ==
  LET t == parent[s] IN
  /\ active_subs' = [active_subs EXCEPT ![t] = @ - 1]
  /\ IF active_subs[t] # 1 THEN Unfinished(m)
     ELSE IF "PendingRollback" \in mode[t] THEN rollback(t, <<>>, m)
     ELSE commit(t, s, is_blocking, next, m)
  /\ UNCHANGED vetoed

subRollback(s, next, m) ==
  LET t == parent[s] IN
  /\ active_subs' = [active_subs EXCEPT ![t] = @ - 1]
  /\ IF active_subs[t] # 1
     THEN Unfinished([m EXCEPT ![t] = @ \cup {"PendingRollback"}])
     ELSE rollback(t, next, m)
  /\ vetoed' = vetoed \cup Veto(t)

Inactivated(o) == [mode EXCEPT ![o] = @ \cup {"Inactive"}]

----------------------------------------------------------------------------
(* Operations of the callers.                                              *)

Sent(op) ==
  /\ requests' = Append(requests, [tx |-> NoTx, ops |-> {op}])
  /\ issued' = Append(issued, 0)
  /\ UNCHANGED update

Recorded(op) ==
  /\ update' = [update EXCEPT ![transaction] = @ \cup {op}]
  /\ issued' = Append(issued, activations)
  /\ UNCHANGED requests

\* Variant: one of the three ways to issue an update forgets the transaction.
ExecuteAtOnce ==
  /\ CallersRun
  /\ Len(issued) < MaxOps
  /\ \/ Sent(Len(issued) + 1)
     \/ transaction # NoTx /\ Recorded(Len(issued) + 1)
  /\ UNCHANGED <<objects, stack, replied, pending_commit>>
  /\ UNCHANGED <<activations, vetoed, discarded>>

\* insertTripleToGraph, deleteTripleFromGraph, executeQuery: the update goes
\* into the active transaction, or to the database when there is none.
Execute ==
  /\ CallersRun
  /\ Len(issued) < MaxOps
  /\ IF transaction = NoTx
     THEN Sent(Len(issued) + 1)
     ELSE Recorded(Len(issued) + 1)
  /\ UNCHANGED <<objects, stack, replied, pending_commit>>
  /\ UNCHANGED <<activations, vetoed, discarded>>

\* Variant: an inactive sharer is counted as well.
CreateSharedCounted(md) ==
  /\ transaction # NoTx /\ canAdopt(transaction, md)
  /\ \E s \in Sub \ held :
       /\ held' = held \cup {s}
       /\ parent' = [parent EXCEPT ![s] = transaction]
       /\ mode' = [mode EXCEPT ![s] = md]
       /\ active_subs' = [active_subs EXCEPT ![transaction] = @ + 1]
  /\ UNCHANGED <<transaction, update, stack, database, history>>

\* createTransaction, when the active transaction can be shared.
CreateShared(md) ==
  /\ transaction # NoTx /\ canAdopt(transaction, md)
  /\ \E s \in Sub \ held :
       /\ held' = held \cup {s}
       /\ parent' = [parent EXCEPT ![s] = transaction]
       /\ mode' = [mode EXCEPT ![s] = md]
       /\ active_subs' = [active_subs EXCEPT ![transaction] =
                            IF "Inactive" \in md THEN @ ELSE @ + 1]
  /\ UNCHANGED <<transaction, update, stack, database, history>>

\* createTransaction with a Transaction of its own: inactive when it is made,
\* and activated unless the caller asked for an inactive one.
CreateOwn(md) ==
  /\ transaction # NoTx => "Inactive" \in md /\ ~canAdopt(transaction, md)
  /\ \E t \in {u \in Tx : ~Exists(u) /\ ~OnStack(u)} :
       LET made == [mode EXCEPT ![t] = md \cup {"Inactive"}]
           Initiate(m) ==
             IF "Inactive" \in md
             THEN /\ mode' = m
                  /\ update' = [update EXCEPT ![t] = {}]
                  /\ UNCHANGED <<transaction, activations>>
             ELSE Room /\ reinitiate(t, m)
       IN /\ pending_commit' = [pending_commit EXCEPT ![t] = 0]
          /\ \/ /\ "Exclusive" \in md
                /\ held' = held \cup {t}
                /\ active_subs' = [active_subs EXCEPT ![t] = 0]
                /\ Initiate(made)
                /\ UNCHANGED parent
             \/ /\ "Exclusive" \notin md
                /\ \E s \in Sub \ held :
                     /\ held' = held \cup {s}
                     /\ parent' = [parent EXCEPT ![s] = t]
                     /\ active_subs' = [active_subs EXCEPT ![t] =
                                          IF "Inactive" \in md THEN 0 ELSE 1]
                     /\ Initiate([made EXCEPT ![s] = md])
  /\ UNCHANGED <<stack, requests, replied, issued, vetoed, discarded>>

CreateTransaction ==
  /\ CallersRun
  /\ \E md \in Modes : CreateShared(md) \/ CreateOwn(md)

\* pendingTransaction hands out the active Transaction itself.
PendingTransaction ==
  /\ DirectHandles /\ CallersRun
  /\ transaction # NoTx /\ transaction \notin held
  /\ held' = held \cup {transaction}
  /\ UNCHANGED <<transaction, mode, parent, active_subs, update, stack>>
  /\ UNCHANGED <<database, history>>

\* Every finishing call may go on to reinitiate the object it was made on.  No
\* slot runs in between when the commit neither blocks nor is empty.
Goals == {"finish", "finish and reinitiate"}
Continuation(goal, o, slots) ==
  IF goal = "finish" THEN <<>> ELSE <<Reinitiation(o, slots)>>
CanContinue(goal) ==
  goal = "finish and reinitiate" => Room /\ Len(stack) < MaxDepth

\* commit and commitAndReinitiate of an in-place transaction.
CommitSub(s) ==
  /\ CallersRun
  /\ s \in held /\ Active(s)
  /\ \E b \in Blocking, goal \in Goals :
       /\ CanContinue(goal)
       /\ b => Len(stack) + 1 < MaxDepth
       /\ subCommit(s, b, Continuation(goal, s, update[parent[s]] = {}), Inactivated(s))
  /\ UNCHANGED <<parent, held>>

\* rollback and rollbackAndReinitiate of an in-place transaction.
RollbackSub(s) ==
  /\ CallersRun
  /\ s \in held /\ Active(s)
  /\ \E goal \in Goals :
       /\ CanContinue(goal)
       /\ subRollback(s, Continuation(goal, s, TRUE), Inactivated(s))
  /\ UNCHANGED <<parent, held>>

\* commit and commitAndReinitiate of a Transaction the caller has a handle of.
CommitTx(t) ==
  /\ CallersRun
  /\ t \in held /\ Active(t)
  /\ \E b \in Blocking, goal \in Goals :
       /\ CanContinue(goal)
       /\ b => Len(stack) + 1 < MaxDepth
       /\ commit(t, t, b, Continuation(goal, t, update[t] = {}), mode)
  /\ UNCHANGED <<parent, held, active_subs, vetoed>>

RollbackTx(t) ==
  /\ CallersRun
  /\ t \in held /\ Active(t)
  /\ \E goal \in Goals :
       /\ CanContinue(goal)
       /\ rollback(t, Continuation(goal, t, TRUE), mode)
  /\ vetoed' = vetoed \cup Veto(t)
  /\ UNCHANGED <<parent, held, active_subs>>

\* What reinitiate does to a handle o: nothing, or one of the three ways an
\* object becomes active.  A shared Transaction that finished is activated
\* again; a sharer whose Transaction is not the active one moves over to it.
Activated(o) == [mode EXCEPT ![o] = @ \ {"Inactive"}]

ReinitiateTx(t) ==
  /\ transaction = NoTx
  /\ reinitiate(t, mode)
  /\ UNCHANGED <<parent, active_subs>>

\* Variant: the sharer that activates its Transaction is not counted.
ReinitiateOwnUncounted(s) ==
  LET t == parent[s] IN
  /\ active_subs[t] = 0 /\ transaction = NoTx
  /\ reinitiate(t, Activated(s))
  /\ UNCHANGED <<parent, active_subs>>

ReinitiateOwn(s) ==
  LET t == parent[s] IN
  /\ active_subs[t] = 0 /\ transaction = NoTx
  /\ reinitiate(t, Activated(s))
  /\ active_subs' = [active_subs EXCEPT ![t] = 1]
  /\ UNCHANGED parent

Join(s, t) ==
  /\ parent' = [parent EXCEPT ![s] = t]
  /\ mode' = Activated(s)
  /\ active_subs' = [active_subs EXCEPT ![t] = @ + 1]
  /\ UNCHANGED <<transaction, update, activations>>

\* Variant: the sharer does not move to the active Transaction.
ReinitiateSharedInPlace(s) ==
  \/ active_subs[parent[s]] # 0 /\ Join(s, parent[s])
  \/ /\ active_subs[parent[s]] = 0
     /\ transaction # NoTx /\ canAdopt(transaction, mode[s])
     /\ Join(s, parent[s])

ReinitiateShared(s) ==
  \/ active_subs[parent[s]] # 0 /\ Join(s, parent[s])
  \/ /\ active_subs[parent[s]] = 0
     /\ transaction # NoTx /\ canAdopt(transaction, mode[s])
     /\ Join(s, transaction)

Reinitiated(o) ==
  IF o \in Tx THEN ReinitiateTx(o)
  ELSE ~Active(o) /\ (ReinitiateOwn(o) \/ ReinitiateShared(o))

CanReinitiate(o) ==
  IF o \in Tx THEN transaction = NoTx
  ELSE /\ ~Active(o)
       /\ \/ active_subs[parent[o]] # 0
          \/ transaction = NoTx
          \/ canAdopt(transaction, mode[o])

\* initiate and reinitiate by a caller.  A refused call changes nothing.
Reinitiate(o) ==
  /\ CallersRun
  /\ o \in held
  /\ transaction = NoTx => Room
  /\ Reinitiated(o)
  /\ UNCHANGED <<held, stack, database, issued, vetoed, discarded>>

\* The second half of commitAndReinitiate and rollbackAndReinitiate.
ReturnToReinitiate ==
  /\ stack # <<>> /\ Head(stack).kind = "reinitiate"
  /\ LET o == Head(stack).obj IN
     \/ Reinitiated(o)
     \/ /\ ~CanReinitiate(o)
        /\ UNCHANGED <<transaction, mode, parent, active_subs, update, activations>>
  /\ stack' = Tail(stack)
  /\ UNCHANGED <<held, database, issued, vetoed, discarded>>

\* Variant: transaction_ is reset when the commit is over.
ReturnFromBlockResets ==
  /\ stack # <<>> /\ Head(stack).kind = "commit"
  /\ Head(stack).request \in replied
  /\ update' = [update EXCEPT ![Head(stack).tx] = {}]
  /\ stack' = Tail(stack)
  /\ transaction' = NoTx
  /\ UNCHANGED <<mode, parent, active_subs, held, database, history>>

\* A blocking commit returns from its event loop and resets update_.
ReturnFromBlock ==
  /\ stack # <<>> /\ Head(stack).kind = "commit"
  /\ Head(stack).request \in replied
  /\ update' = [update EXCEPT ![Head(stack).tx] = {}]
  /\ stack' = Tail(stack)
  /\ UNCHANGED <<objects, database, history>>

\* Variant: an active Transaction is destroyed as it is.
DestroyTxOnly(t, m) == Unfinished(m) /\ UNCHANGED vetoed

\* ~Transaction, when nothing refers to t any more.
DestroyTx(t, m) ==
  IF ~Active(t) THEN Unfinished(m) /\ UNCHANGED vetoed
  ELSE \/ /\ "CommitOnDestroy" \in mode[t]
          /\ commit(t, t, FALSE, <<>>, m)
          /\ UNCHANGED vetoed
       \/ /\ "CommitOnDestroy" \notin mode[t]
          /\ rollback(t, <<>>, m)
          /\ vetoed' = vetoed \cup Veto(t)

\* A caller lets go of its handle.  Callers keep the object they are calling.
DropTx(t) ==
  /\ CallersRun
  /\ t \in held /\ ~OnStack(t)
  /\ held' = held \ {t}
  /\ IF Referenced(t, held', parent)
     THEN Unfinished(mode) /\ UNCHANGED vetoed
     ELSE DestroyTx(t, mode)
  /\ UNCHANGED <<parent, active_subs>>

\* ~InPlaceSubTransaction, which finishes s and releases its parent.
DropSub(s) ==
  LET m == [mode EXCEPT ![s] = {"Inactive"}] IN
  /\ CallersRun
  /\ s \in held /\ ~OnStack(s)
  /\ held' = held \ {s}
  /\ parent' = [parent EXCEPT ![s] = NoTx]
  /\ IF Active(s)
     THEN IF "CommitOnDestroy" \in mode[s]
          THEN subCommit(s, FALSE, <<>>, m)
          ELSE subRollback(s, <<>>, m)
     ELSE /\ IF Referenced(parent[s], held', parent')
             THEN Unfinished(m) /\ UNCHANGED vetoed
             ELSE DestroyTx(parent[s], m)
          /\ UNCHANGED active_subs

\* Variant: no event is handled while a call is in progress.
DatabaseReplyOutside(r) ==
  /\ stack = <<>>
  /\ r \notin replied
  /\ replied' = replied \cup {r}
  /\ UNCHANGED <<objects, update, stack, requests, pending_commit, history>>

\* The answer to a request arrives in an event loop.  The Transaction that
\* observes the request emits commitFinished or commitError to its callers.
DatabaseReply(r) ==
  /\ CallersRun
  /\ r \notin replied
  /\ replied' = replied \cup {r}
  /\ UNCHANGED <<objects, update, stack, requests, pending_commit, history>>

----------------------------------------------------------------------------
Init ==
  /\ transaction = NoTx
  /\ mode = [o \in Tx \cup Sub |-> {"Inactive"}]
  /\ parent = [s \in Sub |-> NoTx]
  /\ active_subs = [t \in Tx |-> 0]
  /\ update = [t \in Tx |-> {}]
  /\ pending_commit = [t \in Tx |-> 0]
  /\ held = {}
  /\ stack = <<>>
  /\ requests = <<>>
  /\ replied = {}
  /\ activations = 0
  /\ issued = <<>>
  /\ vetoed = {}
  /\ discarded = {}

Returns == ReturnToReinitiate \/ ReturnFromBlock

Next ==
  \/ Execute
  \/ CreateTransaction
  \/ PendingTransaction
  \/ \E s \in Sub : CommitSub(s) \/ RollbackSub(s) \/ DropSub(s)
  \/ \E t \in Tx : CommitTx(t) \/ RollbackTx(t) \/ DropTx(t)
  \/ \E o \in Tx \cup Sub : Reinitiate(o)
  \/ Returns
  \/ \E r \in 1..Len(requests) : DatabaseReply(r)

Spec == Init /\ [][Next]_vars

\* Replies to D-Bus calls arrive or time out, and calls go on when they can.
FairSpec ==
  /\ Spec
  /\ WF_vars(Returns)
  /\ \A r \in 1..MaxOps : WF_vars(r \in 1..Len(requests) /\ DatabaseReply(r))

----------------------------------------------------------------------------
(* Properties.                                                             *)

Frame == [kind : {"reinitiate", "commit"}, obj : Tx \cup Sub,
          tx : Tx \cup {NoTx}, request : Nat, slots : BOOLEAN]

ObjectsTyped ==
  /\ transaction \in Tx \cup {NoTx}
  /\ mode \in [Tx \cup Sub -> SUBSET (ModeFlags \cup BackEndFlags)]
  /\ parent \in [Sub -> Tx \cup {NoTx}]
  /\ active_subs \in [Tx -> Nat]
  /\ held \subseteq Tx \cup Sub

DataTyped ==
  /\ update \in [Tx -> SUBSET Op]
  /\ pending_commit \in [Tx -> Nat]
  /\ requests \in Seq([tx : Tx \cup {NoTx}, ops : SUBSET Op])
  /\ replied \subseteq Nat
  /\ activations \in Nat
  /\ issued \in Seq(Nat)
  /\ vetoed \subseteq Nat
  /\ discarded \subseteq Op

\* The shape of the state.
TypeOK == ObjectsTyped /\ DataTyped /\ stack \in Seq(Frame)

\* The service points to a Transaction exactly while that one is active:
\* transaction_ and the Inactive flags, set in different places, agree.
ActiveIsCurrent == \A t \in Tx : Active(t) <=> transaction = t

\* An active in-place transaction shares the Transaction that records the
\* updates, through every commit, rollback and move to another parent.
SharersOfCurrent ==
  \A s \in Sub : Active(s) => s \in held /\ parent[s] = transaction

\* active_subs_ counts the active sharers, whichever way they came and left.
SharersCounted == \A t \in Tx : active_subs[t] = Cardinality(Sharers(t))

\* An active Transaction always has somebody left who can finish it.
NeverOrphaned ==
  transaction # NoTx =>
    IF Exclusive(transaction) THEN transaction \in held
    ELSE Sharers(transaction) # {}

\* Nobody shares an exclusive transaction, and sharers agree on back-end flags.
SharingAgreed ==
  \A s \in held \cap Sub :
    ~Exclusive(parent[s]) /\ BackEnd(mode[s]) = BackEnd(mode[parent[s]])

\* A postponed rollback waits for a sharer: the flag never outlives its batch.
RollbackPostponed ==
  \A t \in Tx : "PendingRollback" \in mode[t] => Active(t) /\ activations \in vetoed

\* A sharer's rollback is never overridden: what the batch it voted against held
\* is not sent, and nothing is dropped that nobody voted against.
VetoesRespected ==
  /\ \A i \in 1..Len(requests) : \A op \in requests[i].ops : issued[op] \notin vetoed
  /\ \A op \in discarded : issued[op] \in vetoed

\* The updates of one activation are sent in one request, and then no sharer
\* rolled back; or they are dropped, and then some sharer did.
AllOrNothing ==
  /\ VetoesRespected
  /\ \A i \in 1..Len(requests) : \A op \in requests[i].ops, p \in 1..Len(issued) :
       issued[p] = issued[op] /\ issued[p] # 0 => p \in requests[i].ops

\* Updates reach the database in the order they were issued, none twice.
SentInOrder ==
  \A i, j \in 1..Len(requests) : i < j =>
    \A p \in requests[i].ops, q \in requests[j].ops : p < q

\* Every issued update was sent, was rolled back, or is still recorded in the
\* active transaction.
NothingLost ==
  \A op \in 1..Len(issued) :
    \/ op \in discarded
    \/ \E i \in 1..Len(requests) : op \in requests[i].ops
    \/ transaction # NoTx /\ op \in update[transaction]

\* Calls in progress come to an end, however their slots nest other calls.
CallsReturn == stack # <<>> ~> stack = <<>>

\* A Transaction is finished only by the last of those who share it.
FinishedByLastSharer ==
  [][\A t \in Tx : Active(t) /\ ~Active(t)' => \A s \in Sharers(t) : ~Active(s)']_vars

\* No in-place transaction starts to share one that is bound to roll back.
NeverJoinsDoomed ==
  [][\A s \in Sub : ~Active(s) /\ Active(s)' =>
       "PendingRollback" \notin mode[parent'[s]]]_vars

\* Those who can finish the active Transaction: its holder or its sharers.
Participants ==
  IF transaction = NoTx THEN {}
  ELSE IF Exclusive(transaction) THEN {transaction} ELSE Sharers(transaction)

Batch == INSTANCE SharedBatch WITH
  Participant <- Tx \cup Sub,
  participants <- Participants,
  against <- transaction # NoTx /\ "PendingRollback" \in mode[transaction],
  recorded <- IF transaction = NoTx THEN {} ELSE update[transaction],
  written <- Len(issued),
  sent <- [i \in 1..Len(requests) |-> requests[i].ops],
  dropped <- discarded

\* Transactions, with all their flags, counters and parents, do what the
\* abstract batch promises: each step is one of the batch's, or none.
ImplementsBatch == Batch!Spec

----------------------------------------------------------------------------
(* Inductive invariants.                                                   *)

\* Whoever shares a Transaction is held by a caller and refers to one.
SubsHeld ==
  \A s \in Sub : (Active(s) => s \in held) /\ (s \in held => parent[s] \in Tx)

\* The service's raw pointer never dangles.
CurrentExists == transaction # NoTx => Exists(transaction)

\* Calls in progress are calls of objects that callers hold.
HeldFrame == {f \in Frame : f.obj \in held}
CallsHeld == stack \in Seq(HeldFrame)

\* Whatever handles callers use.
Consistent ==
  /\ ObjectsTyped /\ DataTyped /\ CallsHeld
  /\ ActiveIsCurrent /\ SharersCounted /\ SubsHeld /\ CurrentExists

\* What a caller holds directly is exclusive, unless it uses direct handles.
HandlesExclusive == \A t \in held \cap Tx : Exclusive(t)

\* A Transaction whose rollback is postponed is shared.
PostponedIsShared ==
  \A t \in Tx : "PendingRollback" \in mode[t] => ~Exclusive(t)

\* Without direct handles.
Shared ==
  /\ HandlesExclusive /\ SharersOfCurrent /\ NeverOrphaned /\ SharingAgreed
  /\ RollbackPostponed /\ PostponedIsShared

=============================================================================
