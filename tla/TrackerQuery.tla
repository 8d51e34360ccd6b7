---------------------------- MODULE TrackerQuery ----------------------------
(***************************************************************************)
(* One model's query over D-Bus: TrackerContentModule (tracker_p.cpp) and  *)
(* its TrackerAccessDbus.  A flush aborts the query under way and puts a   *)
(* new operation on the sequencer; when that starts the query is sent, and *)
(* the reply is taken in by a poll.  A blocking call waits for both.       *)
(*                                                                         *)
(* Callers act when no call is in progress, from slots of the signals the  *)
(* module emits, and from the event loop of a wait (the service attribute  *)
(* process_events_on_block is set); the stack below is the call they       *)
(* interrupt.  The sequencer is seen from one module: operations of others *)
(* only decide when a queued one starts, or make it fail.                  *)
(***************************************************************************)
EXTENDS Integers, Sequences

CONSTANTS
  MaxOps,      \* bound: flushes in a behaviour
  MaxCalls,    \* bound: calls by callers in a behaviour
  MaxDepth,    \* bound: calls in progress at once
  SlotPoints   \* the signals whose slots call the model

ASSUME QueryAssumption ==
  /\ MaxOps \in Nat /\ MaxCalls \in Nat /\ MaxDepth \in Nat
  /\ SlotPoints \subseteq {"unready", "running", "waited", "stopped", "result"}

VARIABLES
  state,             \* state_ of every operation; its query has its number
  sequenced,         \* sequenced_: the operation held, 0 for none
  pending_sequenced, \* pending_sequenced_
  watcher,           \* completion_watcher_: the query watched, 0 for none
  pending_watcher,   \* pending_completion_watcher_
  replied,           \* the queries tracker has answered
  erroneous,         \* those among them answered with an error
  running,           \* RDFStrategy::Running of the model
  ready,             \* RDFStrategy::ModelReady of the model
  shown,             \* the query whose result the model's rows are
  stack              \* calls in progress, the innermost first

VARIABLES
  added,     \* history: flushes so far, the operations are numbered in order
  calls,     \* history: calls by callers
  intruded   \* history: a slot of one of these signals flushed

sequencing == <<state, sequenced, pending_sequenced, added>>
access == <<watcher, pending_watcher, replied, erroneous>>
model == <<running, ready, shown>>
vars == <<sequencing, access, model, stack, calls, intruded>>

Op == 1..MaxOps

At(point) == stack # <<>> /\ Head(stack).at = point
Waiting == At("sequence wait") \/ At("query wait")
EventLoopRuns == stack # <<>> => Waiting
CallersRun == ~EventLoopRuns => Head(stack).slot
SlotsRun(point, emitted) == emitted /\ point \in SlotPoints

\* A call: where it is, whether it blocks, the readiness it will return, the
\* operation it is about, whether slots run.
Frame(point, blocks, ret, op, slot) ==
  [at |-> point, block |-> blocks, ret |-> ret, op |-> op, slot |-> slot]
Blocks == Head(stack).block
Goto(point, op, slot) ==
  stack' = <<Frame(point, Blocks, Head(stack).ret, op, slot)>> \o Tail(stack)
Return == stack' = Tail(stack)

\* The operations of this module, ended by its own signals: those that started.
Ended == [o \in Op |-> IF state[o] = "started" THEN "ended" ELSE state[o]]

----------------------------------------------------------------------------
(* Calls of the callers.                                                   *)

\* refreshModel, up to the signal that the model is ready no more.
RefreshModel(mode) ==
  /\ CallersRun
  /\ calls < MaxCalls /\ Len(stack) < MaxDepth
  /\ calls' = calls + 1
  /\ \/ /\ "Flush" \in mode
        /\ ready' = FALSE
        /\ intruded' = (intruded \/ ~EventLoopRuns)
        /\ stack' = <<Frame("flush", "Block" \in mode, FALSE, 0,
                           SlotsRun("unready", ready))>> \o stack
     \/ /\ "Flush" \notin mode
        /\ stack' = <<Frame(IF "Block" \in mode /\ running THEN "block" ELSE "take",
                            "Block" \in mode, ready, 0, FALSE)>> \o stack
        /\ UNCHANGED <<ready, intruded>>
  /\ UNCHANGED <<sequencing, access, running, shown>>

\* Variant: the operation is left on the sequencer.
AbortsAccessOnly ==
  /\ sequenced' = 0
  /\ pending_sequenced' = (pending_sequenced /\ sequenced = 0)
  /\ watcher' = 0
  /\ pending_watcher' = FALSE
  /\ UNCHANGED state

\* abort, of the module and of its access.
abort ==
  /\ state' = IF sequenced # 0 /\ state[sequenced] \in {"queued", "started"}
              THEN [state EXCEPT ![sequenced] = "aborted"] ELSE state
  /\ sequenced' = 0
  /\ pending_sequenced' = (pending_sequenced /\ sequenced = 0)
  /\ watcher' = 0
  /\ pending_watcher' = FALSE

\* alterStrategy that disables Running; enabling it on a model that is not
\* ready is a flush, and otherwise changes nothing.
Stop ==
  /\ CallersRun
  /\ calls < MaxCalls
  /\ calls' = calls + 1
  /\ abort
  /\ running' = FALSE
  /\ UNCHANGED <<replied, erroneous, added, ready, shown, stack, intruded>>

----------------------------------------------------------------------------
(* The refresh: flush.                                                     *)

\* Variant: the query under way goes on.
FlushWithoutAbort ==
  /\ At("flush")
  /\ added < MaxOps
  /\ running' = TRUE
  /\ Goto("add", 0, SlotsRun("running", ~running))
  /\ UNCHANGED <<sequencing, access, ready, shown, calls, intruded>>

\* Abort, up to the signal that the model is running.
Flush ==
  /\ At("flush")
  /\ added < MaxOps
  /\ abort
  /\ running' = TRUE
  /\ Goto("add", 0, SlotsRun("running", ~running))
  /\ UNCHANGED <<replied, erroneous, added, ready, shown, calls, intruded>>

\* addOperation.  With nothing in its way the operation starts at once.
AddOperation ==
  LET o == added + 1 IN
  /\ At("add")
  /\ o \in Op
  /\ added' = o
  /\ sequenced' = o
  /\ \/ /\ state' = [state EXCEPT ![o] = "queued"]
        /\ UNCHANGED watcher
     \/ /\ \A p \in 1..added : state[p] # "queued"
        /\ state' = [state EXCEPT ![o] = "started"]
        /\ watcher' = o
  /\ Goto(IF Blocks /\ running THEN "block" ELSE "take", 0, FALSE)
  /\ UNCHANGED <<pending_sequenced, pending_watcher, replied, erroneous, model,
                 calls, intruded>>

----------------------------------------------------------------------------
(* The refresh: block.                                                     *)

\* The sequencer has dropped the operation of the latest flush.
Dropped == sequenced # 0 /\ state[sequenced] = "dropped"

Unmoved == UNCHANGED <<model, calls, intruded, added>>

\* Wait for the operation to start, unless a call below does.  The wait for one
\* that the sequencer has dropped reads its erased list entry, which is undefined:
\* it passes here, unless the program crashes.
Block ==
  /\ At("block")
  /\ \/ /\ sequenced # 0 /\ ~pending_sequenced
        /\ pending_sequenced' = TRUE
        /\ IF state[sequenced] = "queued"
           THEN Goto("sequence wait", sequenced, FALSE)
           ELSE Goto("waited", 0, SlotsRun("waited", Dropped))
     \/ /\ sequenced = 0 \/ pending_sequenced
        /\ Goto("wait", 0, FALSE)
        /\ UNCHANGED pending_sequenced
  /\ UNCHANGED <<state, sequenced, access>> /\ Unmoved

\* It was started, or will not be: then an error is emitted.
SequenceWaited ==
  /\ At("sequence wait")
  /\ LET o == Head(stack).op IN
       /\ state[o] # "queued"
       /\ Goto("waited", 0, SlotsRun("waited", state[o] \in {"aborted", "dropped"}))
  /\ UNCHANGED <<sequencing, access>> /\ Unmoved

Waited ==
  /\ At("waited")
  /\ pending_sequenced' = FALSE
  /\ Goto("wait", 0, FALSE)
  /\ UNCHANGED <<state, sequenced, access>> /\ Unmoved

\* waitForQueryComplete: wait for the query, unless a call below does.
waitForQueryComplete ==
  /\ At("wait")
  /\ \/ /\ watcher # 0 /\ watcher \notin replied /\ ~pending_watcher
        /\ pending_watcher' = TRUE
        /\ Goto("query wait", watcher, FALSE)
     \/ /\ watcher = 0 \/ watcher \in replied \/ pending_watcher
        /\ Goto("take", 0, FALSE)
        /\ UNCHANGED pending_watcher
  /\ UNCHANGED <<sequencing, watcher, replied, erroneous>> /\ Unmoved

\* Variant: only the query that is watched ends the wait.
WatchedQueryWaited ==
  /\ At("query wait")
  /\ Head(stack).op \in replied /\ watcher = Head(stack).op
  /\ pending_watcher' = FALSE
  /\ Goto("wait", 0, FALSE)
  /\ UNCHANGED <<sequencing, watcher, replied, erroneous>> /\ Unmoved

\* Variant: the wait stays marked as pending.
QueryWaitedPending ==
  /\ At("query wait")
  /\ Head(stack).op \in replied
  /\ Goto("wait", 0, FALSE)
  /\ UNCHANGED <<sequencing, watcher, pending_watcher, replied, erroneous>> /\ Unmoved

\* The query that the wait began with is answered.
QueryWaited ==
  /\ At("query wait")
  /\ Head(stack).op \in replied
  /\ pending_watcher' = FALSE
  /\ Goto("wait", 0, FALSE)
  /\ UNCHANGED <<sequencing, watcher, replied, erroneous>> /\ Unmoved

----------------------------------------------------------------------------
(* The refresh: take the result.                                           *)

\* takeQueryResult, up to the signal that the model runs no more.
Take ==
  /\ At("take")
  /\ \/ /\ watcher \in replied
        /\ watcher' = 0
        /\ running' = FALSE
        /\ Goto("taken", watcher, SlotsRun("stopped", running))
        /\ UNCHANGED ready
     \/ /\ watcher \notin replied
        /\ ready' = (ready \/ Head(stack).ret)
        /\ Return
        /\ UNCHANGED <<watcher, running>>
  /\ UNCHANGED <<sequencing, pending_watcher, replied, erroneous, shown, calls,
                 intruded>>

\* The rows are replaced, or an error is emitted (later, unless the call blocks).
Taken ==
  /\ At("taken")
  /\ sequenced' = 0
  /\ LET q == Head(stack).op
         failed == q \in erroneous
     IN /\ shown' = IF failed THEN shown ELSE q
        /\ Goto("result", q, SlotsRun("result", failed => Blocks))
  /\ UNCHANGED <<state, pending_sequenced, added, access, running, ready, calls,
                 intruded>>

\* sequencedSuccess or sequencedFailure; with rows the model is ready.
Result ==
  /\ At("result")
  /\ state' = Ended
  /\ ready' = (ready \/ Head(stack).op \notin erroneous)
  /\ Return
  /\ UNCHANGED <<sequenced, pending_sequenced, added, access, running, shown,
                 calls, intruded>>

----------------------------------------------------------------------------
(* The event loop.                                                         *)

\* sequencedStart, when what the operation waited for has started or ended.
SequencedStart(o) ==
  /\ EventLoopRuns
  /\ state[o] = "queued"
  /\ \A p \in 1..(o - 1) : state[p] # "queued"
  /\ state' = [state EXCEPT ![o] = "started"]
  /\ watcher' = o
  /\ UNCHANGED <<sequenced, pending_sequenced, added, pending_watcher, replied,
                 erroneous, model, stack, calls, intruded>>

\* The sequencer drops a queued operation, for another module's aborted query.
\* Nothing in this module hears of it.
Drop(o) ==
  /\ EventLoopRuns
  /\ state[o] = "queued"
  /\ state' = [state EXCEPT ![o] = "dropped"]
  /\ UNCHANGED <<sequenced, pending_sequenced, added, access, model, stack,
                 calls, intruded>>

WatcherLives(q) ==
  \/ watcher = q
  \/ \E i \in 1..Len(stack) : stack[i].at = "query wait" /\ stack[i].op = q

\* Variant: the slot leaves the result to somebody else.
QueryCompletedUnheard(q, error) ==
  /\ EventLoopRuns
  /\ q \notin replied /\ WatcherLives(q)
  /\ replied' = replied \cup {q}
  /\ erroneous' = IF error THEN erroneous \cup {q} ELSE erroneous
  /\ UNCHANGED <<sequencing, watcher, pending_watcher, model, stack, calls, intruded>>

\* The reply to a query and the slot queryCompleted, which polls the model
\* unless somebody waits.  The reply to a query nobody watches has no effect.
QueryCompleted(q, error) ==
  /\ EventLoopRuns
  /\ q \notin replied /\ WatcherLives(q)
  /\ replied' = replied \cup {q}
  /\ erroneous' = IF error THEN erroneous \cup {q} ELSE erroneous
  /\ stack' = IF pending_watcher THEN stack
              ELSE <<Frame("take", FALSE, ready, 0, FALSE)>> \o stack
  /\ UNCHANGED <<sequencing, watcher, pending_watcher, model, calls, intruded>>

----------------------------------------------------------------------------
Init ==
  /\ state = [o \in Op |-> "none"]
  /\ sequenced = 0 /\ pending_sequenced = FALSE
  /\ watcher = 0 /\ pending_watcher = FALSE
  /\ replied = {} /\ erroneous = {}
  /\ running = FALSE /\ ready = FALSE /\ shown = 0
  /\ stack = <<>>
  /\ added = 0 /\ calls = 0 /\ intruded = FALSE

GoesOn ==
  \/ Flush \/ AddOperation
  \/ Block \/ SequenceWaited \/ Waited \/ waitForQueryComplete \/ QueryWaited
  \/ Take \/ Taken \/ Result

Next ==
  \/ \E mode \in SUBSET {"Flush", "Block"} : RefreshModel(mode)
  \/ Stop
  \/ GoesOn
  \/ \E o \in Op : SequencedStart(o) \/ Drop(o)
  \/ \E q \in Op, error \in BOOLEAN : QueryCompleted(q, error)

Spec == Init /\ [][Next]_vars

\* Calls go on, the sequencer starts or drops what is queued, and tracker
\* answers every query, if only with a D-Bus timeout.
FairSpec ==
  /\ Spec
  /\ WF_vars(GoesOn)
  /\ WF_vars(\E o \in Op : SequencedStart(o) \/ Drop(o))
  /\ WF_vars(\E q \in Op, error \in BOOLEAN : QueryCompleted(q, error))

----------------------------------------------------------------------------
(* Properties.                                                             *)

Ranges ==
  /\ state \in [Op -> {"none", "queued", "started", "ended", "aborted", "dropped"}]
  /\ sequenced \in 0..added /\ pending_sequenced \in BOOLEAN
  /\ watcher \in 0..added /\ pending_watcher \in BOOLEAN
  /\ erroneous \subseteq replied /\ replied \subseteq Op
  /\ running \in BOOLEAN /\ ready \in BOOLEAN /\ shown \in 0..added
  /\ added \in 0..MaxOps

\* A wait is marked as pending only while a call waits: a mark left behind would
\* make every later blocking call pass without waiting.
PendingWaits ==
  /\ pending_sequenced =>
       \E i \in 1..Len(stack) : stack[i].at \in {"sequence wait", "waited"}
  /\ pending_watcher => \E i \in 1..Len(stack) : stack[i].at = "query wait"

\* The shape of the state, with the marks of pending waits.
TypeOK == Ranges /\ PendingWaits

\* A model that is ready shows the result of the latest flush, however flushes,
\* stops and waits are nested; unless a slot intruded.
ReadyShowsLatest == ready /\ ~intruded => shown = added

\* Outside calls, a model that shows Running has an operation that will start
\* or a query that will be answered; unless a slot intruded, or the sequencer
\* dropped the operation.
NoIdleRunning ==
  stack = <<>> /\ running /\ ~intruded /\ ~Dropped =>
    \/ sequenced # 0 /\ state[sequenced] = "queued"
    \/ watcher # 0 /\ watcher \notin replied

\* The sequencer is kept waiting by no operation whose query is over: outside
\* calls, an operation that counts as started has its query under way.
NoneHeldUp ==
  stack = <<>> /\ ~intruded =>
    \A o \in Op : state[o] = "started" => watcher = o /\ o \notin replied

\* Every call comes back, however deeply waits are nested.
CallsReturn == stack # <<>> ~> stack = <<>>

=============================================================================
