----------------------------- MODULE Sequencer -----------------------------
(***************************************************************************)
(* The sequencer that orders the queries and updates of the tracker        *)
(* back-end: SequenceOperation, SequencerDependencyChain and SequencerStep *)
(* (sequencer_p.cpp), under the chains that TrackerAccessDbus and          *)
(* TrackerAccessQSparql ask for.                                           *)
(*                                                                         *)
(* An operation waits for one step of its chain at a time.  When another   *)
(* operation starts or ends, it notifies the steps that wait for it, in    *)
(* nested calls: a notified operation may start, and callers that hear of  *)
(* it may add or abort operations before the next step is told.            *)
(* calls is what is left to do of the calls in progress.                   *)
(***************************************************************************)
EXTENDS Integers, Sequences, FiniteSets

CONSTANTS
  MaxOps,       \* bound: operations added in a behaviour
  Kinds,        \* the kinds of operations added: "read" (a query over D-Bus),
                \* "direct" (a query over QSparql) and "write"
  SyncSignals,  \* whether a direct query may be answered in its starting slot
  KeptHandles   \* whether an aborted operation is still waited for, a subset
                \* of BOOLEAN

ASSUME SequencerAssumption ==
  /\ MaxOps \in Nat
  /\ Kinds \subseteq {"read", "direct", "write"}
  /\ SyncSignals \in BOOLEAN
  /\ KeptHandles \subseteq BOOLEAN

VARIABLES
  added,          \* how many operations were added; they are numbered in order
  kind,           \* the access type and method of every operation
  state,          \* state_ of every operation
  list,           \* the operations in the sequencer's list, in order
  current_step,   \* current_step_i_: the step an operation waits for
  required,       \* required_sub_objects_ of that step
  remaining,      \* remaining_sub_objects_ of that step
  dependents,     \* dependents_: the steps to notify, each with its operation
  calls,          \* what calls in progress have yet to do, the innermost first
  answered        \* the operations whose signal was emitted

chains == <<current_step, required, remaining, dependents>>
vars == <<added, kind, state, list, chains, calls, answered>>

Op == 1..MaxOps
Failed == {"FailedSignal", "FailedDependencies", "FailedAborted"}
Finished == {"Succeeded"} \cup Failed
State == {"NotStarted", "Started"} \cup Finished

----------------------------------------------------------------------------
(* Dependency chains.                                                      *)

\* Variant: a step of scope All passes operations that only started.
allFinishedOrStarted(q) ==
  [scope |-> "All", trigger |-> {"Started", "Succeeded", "Failed"}, quality |-> q]

allFinished(q) ==
  [scope |-> "All", trigger |-> {"Succeeded", "Failed"}, quality |-> q]
latestStarted(q) == [scope |-> "Latest", trigger |-> {"Started"}, quality |-> q]

\* sequencingQualities.
Quality(k) == IF k = "write" THEN "write" ELSE "read"

\* Variants: updates do not look at queries; nor do direct queries at each other.
DependenciesOfOwnKind(k) ==
  CASE k = "read" -> <<latestStarted("read"), allFinished("write")>>
    [] k = "direct" -> <<allFinished("read"), allFinished("write")>>
    [] k = "write" -> <<latestStarted("write")>>

DirectDependenciesInParallel == <<latestStarted("read"), allFinished("write")>>

\* sequencingDependencies of TrackerAccessQSparql, for queries.
DirectDependencies == <<allFinished("read"), allFinished("write")>>

\* sequencingDependencies of TrackerAccessDbus, which sends all updates.
Dependencies(k) ==
  CASE k = "read" -> <<latestStarted("read"), allFinished("write")>>
    [] k = "write" -> <<latestStarted("write"), allFinished("read")>>
    [] k = "direct" -> DirectDependencies

\* Variant: the search for the latest runs from the front of the list.
SubObjectsFromFront(o, s) ==
  LET before == {p \in list : p < o /\ Quality(kind[p]) = s.quality}
  IN IF s.scope = "Latest" THEN {p \in before : \A r \in before : r >= p} ELSE before

\* The operations before o that step s is about.
SubObjects(o, s) ==
  LET before == {p \in list : p < o /\ Quality(kind[p]) = s.quality}
  IN IF s.scope = "Latest" THEN {p \in before : \A r \in before : r <= p} ELSE before

\* Those it has to wait for: a step triggered by starts passes what has started.
Awaited(o, s) ==
  {p \in SubObjects(o, s) : "Started" \in s.trigger => state[p] # "Started"}

\* Variant: the started ones are left out of the count, whatever the trigger.
primeSubObjectsLessStarted(o, s) ==
  Cardinality({p \in SubObjects(o, s) : state[p] # "Started"})

\* How many operations the step requires, those already started told off.
primeSubObjects(o, s) == Cardinality(Awaited(o, s))

Notification(o, k, event) == [call |-> "notify", op |-> o, step |-> k, event |-> event]
Slot(o) == [call |-> "slot", op |-> o, step |-> 0, event |-> "Started"]
InSlot(o) == \E i \in 1..Len(calls) : calls[i] = Slot(o)

\* What is left of a module's abort once the sequencer is through with o: the
\* abort of its access, which deletes the result of a running direct query.
AccessAbort(o) == [call |-> "close", op |-> o, step |-> 0, event |-> "Failed"]
Closing(o) == \E i \in 1..Len(calls) : calls[i] = AccessAbort(o)

\* Callers act when no call is in progress, or on the answer to a direct query
\* that came in its starting slot; a slot that sends over D-Bus only returns.
CallersRun ==
  calls # <<>> => Head(calls).call = "slot" /\ Head(calls).op \in answered

\* signalDependents: tell every step that waits for o, before anything else.
signalDependents(o, event, rest) ==
  calls' = [i \in 1..Len(dependents[o]) |->
              Notification(dependents[o][i].op, dependents[o][i].step, event)] \o rest

\* evaluateCurrentStep of o, of kind k, from step first on: steps with nothing
\* to wait for are passed, and when all are, the starting slot is called.
evaluateCurrentStep(o, k, first, rest) ==
  LET chain == Dependencies(k)
      blocking == {j \in first..Len(chain) : Awaited(o, chain[j]) # {}}
  IN \/ /\ blocking = {}
        /\ current_step' = [current_step EXCEPT ![o] = Len(chain) + 1]
        /\ required' = [required EXCEPT ![o] = 0]
        /\ remaining' = [remaining EXCEPT ![o] = 0]
        /\ calls' = <<Slot(o)>> \o rest
        /\ UNCHANGED dependents
     \/ \E j \in blocking :
        /\ \A i \in blocking : j <= i
        /\ current_step' = [current_step EXCEPT ![o] = j]
        /\ required' = [required EXCEPT ![o] = primeSubObjects(o, chain[j])]
        /\ remaining' = [remaining EXCEPT ![o] = Cardinality(SubObjects(o, chain[j]))]
        /\ dependents' = [p \in Op |->
             IF p \in SubObjects(o, chain[j])
             THEN Append(dependents[p], [op |-> o, step |-> j]) ELSE dependents[p]]
        /\ calls' = rest

----------------------------------------------------------------------------
(* Operations of the callers, and answers of tracker.                      *)

\* addOperation, at the end of the list.
Add(k) ==
  LET o == added + 1 IN
  /\ CallersRun
  /\ o \in Op
  /\ added' = o
  /\ kind' = [kind EXCEPT ![o] = k]
  /\ list' = list \cup {o}
  /\ evaluateCurrentStep(o, k, 1, calls)
  /\ UNCHANGED <<state, answered>>

\* Variant: the dependents of an aborted operation are not told.
EndQuietly(o, final, rest) ==
  /\ state' = [state EXCEPT ![o] = final]
  /\ list' = list \ {o}
  /\ IF final = "FailedAborted" THEN calls' = rest
     ELSE signalDependents(o, IF final = "Succeeded" THEN "Succeeded" ELSE "Failed", rest)

\* A change to a final state takes o off the list and tells its dependents.
End(o, final, rest) ==
  /\ state' = [state EXCEPT ![o] = final]
  /\ list' = list \ {o}
  /\ signalDependents(o, IF final = "Succeeded" THEN "Succeeded" ELSE "Failed", rest)

\* Off the list, o is destroyed with its chain unless somebody holds it.
Destroyed(o) ==
  /\ current_step' = [current_step EXCEPT ![o] = 0]
  /\ required' = [required EXCEPT ![o] = 0]
  /\ remaining' = [remaining EXCEPT ![o] = 0]
  /\ dependents' = [dependents EXCEPT ![o] = <<>>]

\* success and failure, called by the signals of the module that runs o.  They
\* change nothing before the operation is Started, which is when a direct query
\* that cannot be executed is answered.
Answer(o) ==
  /\ o \notin answered
  /\ IF state[o] = "Started" THEN CallersRun
     ELSE SyncSignals /\ kind[o] = "direct" /\ calls # <<>> /\ Head(calls) = Slot(o)
  /\ answered' = answered \cup {o}
  /\ IF state[o] = "Started"
     THEN /\ \E final \in {"Succeeded", "FailedSignal"} : End(o, final, calls)
          /\ Destroyed(o)
     ELSE UNCHANGED <<state, list, chains, calls>>
  /\ UNCHANGED <<added, kind>>

\* The calls left to an abort of o: only a started direct query has a result.
AfterAbort(o) ==
  IF kind[o] = "direct" /\ state[o] = "Started" THEN <<AccessAbort(o)>> \o calls
  ELSE calls

\* Variant: updates are aborted as well.
AbortAnyKind(o) ==
  /\ CallersRun
  /\ o <= added /\ o \notin answered /\ ~InSlot(o)
  /\ state[o] \notin Finished
  /\ End(o, "FailedAborted", AfterAbort(o))
  /\ Destroyed(o)
  /\ UNCHANGED <<added, kind, answered>>

\* abort, by a query's module.  The operation fails and its dependents are told,
\* which may start the next query; the module's access is aborted after that.  An
\* update's module never aborts; an answered module has let go of its operation.
\* An abort from within the operation's own starting slot would destroy it inside
\* a call of its own, which is undefined and left out.  A caller in waitForStarted
\* keeps the operation it waits for.
Abort(o) ==
  /\ CallersRun
  /\ o <= added /\ kind[o] # "write" /\ o \notin answered /\ ~InSlot(o)
  /\ state[o] \notin Finished
  /\ End(o, "FailedAborted", AfterAbort(o))
  /\ \E keep \in KeptHandles :
       IF keep /\ state[o] = "NotStarted" THEN UNCHANGED chains ELSE Destroyed(o)
  /\ UNCHANGED <<added, kind, answered>>

----------------------------------------------------------------------------
(* The calls in progress.                                                  *)

\* subObjectStarted, subObjectSucceeded and subObjectFailed of a step: it counts
\* the sub-objects it still requires, and those it may still hear of.  The last
\* step of an operation off the list goes on to start it; an earlier one would go
\* on from a list position that is gone, which is undefined and left out.
Notify ==
  /\ calls # <<>> /\ Head(calls).call = "notify"
  /\ LET o == Head(calls).op
         s == Head(calls).step
         event == Head(calls).event
         alive == current_step[o] = s
                    /\ (o \notin list => s = Len(Dependencies(kind[o])))
         fits == event \in Dependencies(kind[o])[s].trigger
         req == required[o] - (IF fits THEN 1 ELSE 0)
         rem == remaining[o] - (IF event # "Started" THEN 1 ELSE 0)
     IN \/ /\ o \in list => ~alive
           /\ calls' = Tail(calls)
           /\ UNCHANGED <<state, list, chains>>
        \/ /\ alive /\ fits /\ req = 0
           /\ evaluateCurrentStep(o, kind[o], s + 1, Tail(calls))
           /\ UNCHANGED <<state, list>>
        \/ /\ alive /\ req # 0 /\ rem >= req
           /\ required' = [required EXCEPT ![o] = req]
           /\ remaining' = [remaining EXCEPT ![o] = rem]
           /\ calls' = Tail(calls)
           /\ UNCHANGED <<state, list, current_step, dependents>>
        \/ /\ alive /\ rem < req
           /\ End(o, "FailedDependencies", Tail(calls))
           /\ Destroyed(o)
  /\ UNCHANGED <<added, kind, answered>>

\* Variant: nobody is told that the operation started.
SlotReturnsQuietly ==
  /\ calls # <<>> /\ Head(calls).call = "slot"
  /\ state' = [state EXCEPT ![Head(calls).op] = "Started"]
  /\ calls' = Tail(calls)
  /\ UNCHANGED <<added, kind, list, chains, answered>>

\* The starting slot returns; only now does the operation count as started.
SlotReturns ==
  /\ calls # <<>> /\ Head(calls).call = "slot"
  /\ state' = [state EXCEPT ![Head(calls).op] = "Started"]
  /\ signalDependents(Head(calls).op, "Started", Tail(calls))
  /\ UNCHANGED <<added, kind, list, chains, answered>>

\* The dependents of an aborted query were told; its result is deleted.
AccessAborted ==
  /\ calls # <<>> /\ Head(calls).call = "close"
  /\ calls' = Tail(calls)
  /\ UNCHANGED <<added, kind, state, list, chains, answered>>

----------------------------------------------------------------------------
Init ==
  /\ added = 0
  /\ kind = [o \in Op |-> "write"]
  /\ state = [o \in Op |-> "NotStarted"]
  /\ list = {}
  /\ current_step = [o \in Op |-> 0]
  /\ required = [o \in Op |-> 0]
  /\ remaining = [o \in Op |-> 0]
  /\ dependents = [o \in Op |-> <<>>]
  /\ calls = <<>>
  /\ answered = {}

Next ==
  \/ \E k \in Kinds : Add(k)
  \/ \E o \in Op : Answer(o) \/ Abort(o)
  \/ Notify
  \/ SlotReturns
  \/ AccessAborted

Spec == Init /\ [][Next]_vars

\* Calls go on when they can, and tracker answers every started operation, if
\* only with a D-Bus timeout.
FairSpec ==
  /\ Spec
  /\ WF_vars(Notify) /\ WF_vars(SlotReturns) /\ WF_vars(AccessAborted)
  /\ \A o \in Op : WF_vars(state[o] = "Started" /\ Answer(o))

----------------------------------------------------------------------------
(* Properties.                                                             *)

Call == [call : {"notify", "slot", "close"}, op : Op, step : Nat,
         event : {"Started", "Succeeded", "Failed"}]

\* The shape of the state; the counters of a step never fall below zero.
TypeOK ==
  /\ added \in 0..MaxOps
  /\ kind \in [Op -> {"read", "direct", "write"}]
  /\ state \in [Op -> State]
  /\ list \subseteq 1..added
  /\ current_step \in [Op -> 0..3]
  /\ required \in [Op -> Nat]
  /\ remaining \in [Op -> Nat]
  /\ dependents \in [Op -> Seq([op : Op, step : 1..2])]
  /\ calls \in Seq(Call)
  /\ answered \subseteq Op

Running(o) == state[o] = "Started" \/ InSlot(o)

\* Queries and updates never overlap, and take effect in the order they were
\* added: an operation runs only when every earlier one of the other quality
\* has ended.
ConflictsInOrder ==
  \A o, p \in 1..added :
    p < o /\ Quality(kind[p]) # Quality(kind[o]) /\ Running(o) => state[p] \in Finished

\* Updates are sent in the order they were added, and no query waits for an
\* earlier one unstarted: operations of one quality start in order.
StartedInOrder ==
  \A o, p \in 1..added :
    p < o /\ Quality(kind[p]) = Quality(kind[o]) /\ Running(o) => state[p] # "NotStarted"

\* The result of direct query o is open, from its starting slot on: it ends with
\* the query, or is deleted by an abort.
Open(o) == kind[o] = "direct" /\ (Running(o) \/ Closing(o))

\* The direct connection runs one query at a time, but for one case: an aborted
\* query's result is still open while the abort tells those who waited for it, and
\* the next direct query is sent beside it.
DirectOverlapOnlyInAbort ==
  \A o, p \in 1..added : o < p /\ Open(o) /\ Open(p) => Closing(o)

\* No aborted query makes an update fail unsent.
UpdatesNeverDropped ==
  \A o \in 1..added : kind[o] = "write" => state[o] # "FailedDependencies"

\* Between calls, an operation that has not started waits for a step that has
\* something to wait for, and counts exactly the operations that are left.
NoMissedNotification ==
  calls = <<>> =>
    \A o \in 1..added : state[o] = "NotStarted" =>
      /\ o \in list
      /\ current_step[o] \in 1..2
      /\ LET s == Dependencies(kind[o])[current_step[o]] IN
           /\ Awaited(o, s) # {}
           /\ required[o] = Cardinality(Awaited(o, s))

\* Where an operation stands for those who wait: it runs from the call of its
\* starting slot on.
Standing(o) ==
  CASE o > added -> "absent"
    [] o <= added /\ state[o] \in Finished -> "over"
    [] o <= added /\ state[o] \notin Finished -> IF Running(o) THEN "running" ELSE "waiting"

Order == INSTANCE OrderedAccess WITH
  Access <- {"read", "direct", "write"},
  arrived <- added,
  access <- kind,
  status <- [o \in Op |-> Standing(o)]

\* The list, the chains, the counters and the nested notifications do what the
\* order of access promises: each step is one of its steps, or none.
ImplementsOrder == Order!Spec

Ignored(o) == o \in answered /\ state[o] = "Started"

\* Every operation comes to an end, unless the answer to one was lost in its
\* starting slot.
OperationsEnd ==
  \A o \in Op : o <= added ~> (state[o] \in Finished \/ \E p \in Op : Ignored(p))

\* An operation whose signal was received ends.
AnsweredOperationsEnd ==
  calls = <<>> => \A o \in answered : state[o] \in Finished

\* An aborted operation is not started any more.
AbortedNeverStarts ==
  [][\A o \in Op : state[o] = "FailedAborted" => state'[o] # "Started"]_vars

=============================================================================
