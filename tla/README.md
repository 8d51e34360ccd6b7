# A model of libqttracker

libqttracker (`src/src`) is a Qt library that keeps live query results and resources of a
Tracker RDF store.  A program builds queries from variables and patterns, gets item models
that fill in and stay up to date asynchronously, and changes the store through resources,
updates and transactions.  Nearly everything happens in one thread.  What makes it hard is
not parallelism but *re-entrance*: signals call slots in the middle of an operation, blocking
calls run nested event loops, shared pointers end lives in the middle of calls, and the order
of what is sent to the store over two access methods is decided by a sequencer that itself
runs inside those calls.

This directory models that control logic in TLA+, checks it with TLC and proves most of
what is checked with TLAPS.  `PROJECT.json` lists, for machines, what is described here: runs, the code lines
of every definition, one mutation of the code per checked property, findings, hazards and
theorems.

## 1. Inventory

| Component | Code | State it keeps | Operations | What must hold |
|---|---|---|---|---|
| In-place transactions | `transaction_p.*` | mode flags, parent, `active_subs_`, recorded update, pending commit | create, commit, rollback, reinitiate, `...AndReinitiate`, destruction | the count of sharers is right, a batch is all or nothing, nothing is lost or reordered |
| Service front end | `rdfservice_p.*` | `transaction_`, attributes, prefixes | `createTransaction`, `pendingTransaction`, insert, delete, `executeQuery`, `removeResources` | the raw pointer agrees with the transactions' flags and never dangles |
| Operation sequencer | `sequencer_p.*` | list of operations, their state, the step each waits for, dependents | `addOperation`, abort, success and failure signals, waiting | conflicting operations never overlap, nobody waits for ever |
| Tracker back-end | `backends/tracker/tracker_p.*`, `trackeraccess*` | query in progress, sequenced operation, completion watcher | start, block, flush, abort, complete | each query completes once, an aborted one never reports |
| Signal dispatchers | `signals_p.*`, `graph_signals_p.*`, `id2iricache_p.*` | registered handlers, open segments, id cache | register, dispatch, resolve ids | every change reaches every live handler once, in order |
| Streaming and live updates | `updatermodule_p.*`, `tripleupdates_p.*` | stream piece under way, remaining limit, pending updates | start, stop, piece arrives, end of stream | no row fetched twice or skipped, at most the limit |
| Row store and transitions | `rowstoremodel_p.*`, `rowstoreblock_p.*`, `sparsevector_p.h`, `lnm_transitionstrategy_p.*`, `subrowstoremodel_p.*` | rows, blocks, sub-models | insert, remove, smooth transition | the transition ends in the new rows, through legal model signals |
| Graph cache | `rdfcache_p.*` | cached models and their row index | attach, rows inserted, query | answers equal those of the store |
| Live node models | `livenodemodelbase_p.*`, `compositemodule_p.h` | module chain, strategy flags | refresh, alter strategy, attach, detach | flags reflect what modules do |
| Query construction | `rdfunbound_p.*`, `rdfvariable_p.*`, `rdfderivedselect_p.*`, `derived_columns_p.*` | expression trees | builders | meaning preserved (unit tests) |
| Local and MAFW back-ends, resources, D-Bus proxies, vendored Soprano, utilities, generated ontologies | see `PROJECT.json` | | | not modelled |

How they interact:

* Programs call transactions and the service directly; both call `TrackerService::executeQuery`,
  which records into the active transaction or makes update modules.
* Each query or update module, when flushed, adds an operation to the service's sequencer.  The
  sequencer calls the module's `sequencedStart` slot; the module's `sequencedSuccess` and
  `sequencedFailure` signals end the operation.
* `sequencedStart` sends over D-Bus (asynchronously) or over the direct QSparql connection,
  which may answer at once.
* Transactions observe the model of their commit and pass its completion on to their sharers.
* Change signals of tracker reach live models through dispatchers and `UpdaterModule`, which
  runs further queries and merges their rows.

The hazards, each at its line, are in `PROJECT.json`, with the properties that would catch
them going wrong, or the reason why none does.

## 2. Modules

| Module | What it is |
|---|---|
| `SharedBatch` | abstract specification of what in-place transactions promise |
| `Transaction` | in-place transactions, their service and the recording of updates; implements `SharedBatch` |
| `TransactionProofs` | theorems about `Transaction`: whatever handles callers use, and for callers without direct handles |
| `BatchProofs` | the proof that `Transaction` implements `SharedBatch`, theorems about what becomes of the updates, and that no call is stuck |
| `OrderedAccess` | abstract specification of the order in which the sequencer lets operations begin |
| `Sequencer` | the operation sequencer under the tracker back-end's dependency chains; implements `OrderedAccess` |
| `SequencerProofs` | theorems about `Sequencer` when aborted operations are let go |
| `WaitingProofs` | that nobody in `Sequencer` misses a notification, no update is dropped, no operations wait in a circle, and that it implements `OrderedAccess` |
| `TrackerQuery` | one model's query: flush, start, reply, poll, block and stop |
| `TrackerQueryProofs` | theorems about `TrackerQuery` and their proofs |
| `Streaming` | fetching a model piece by piece |
| `StreamingProofs` | theorems about `Streaming` and their proofs |
| `RowTransition` | merging the rows of a live update, step by step |
| `MergeProofs` | that a merge, for all rows and updates, ends in the rows it should |
| `LiveModel` | a live model from a change in tracker to its rows; uses `RowTransition` |
| `LiveModelProofs` | theorems about `LiveModel` and their proofs |
| `MC...` | the instances TLC checks |

### SharedBatch

What `rdfservice.h` tells callers, without objects, flags or counters: participants of the open
batch come and go, each leaves with a vote, and the last to leave settles it: the batch is sent
in one piece if nobody voted against it and dropped otherwise.  Outside a batch, updates are
sent one by one.  `Transaction!ImplementsBatch` instantiates it under a refinement mapping: the
participants are the active sharers and, for an exclusive one, the Transaction itself; `against`
is its `PendingRollback` flag.  Every step of `Transaction` without direct handles or blocking
commits maps to a step of the batch or to none.

### Transaction

State: `transaction` is `RDFServiceBasic::transaction_`; `mode`, `parent`, `active_subs`,
`update` and `pending_commit` are the fields of the objects, as functions from object
identities; `held` is the set of objects callers hold shared pointers to, which with `parent`
decides what exists.  A *direct handle* is a Transaction in `held`: rightful for an exclusive
transaction, or obtained from `pendingTransaction`.  `requests` and `replied` stand for the
database.

Actions: one per call (`CommitSub` is `InPlaceSubTransaction::commit` and
`commitAndReinitiate`, `CommitTx` those of `Transaction`, and so on), `CreateTransaction`
(`createTransaction`, which may share, own, or refuse), `Execute` (the three ways to issue an
update), `DropSub` and `DropTx` (the destructors).  Calls run to their end in one step except
where the code lets other code run: a blocking commit waits in an event loop (`EndOfCommit`
frame on `stack`, popped by `ReturnFromBlock`, which does the reset of `update_` that follows
the wait), and the `...AndReinitiate` calls emit a signal before they reinitiate
(`Reinitiation` frame, popped by `ReturnToReinitiate`).  While such a frame is innermost,
callers may call anything.

An update's content is its number; a batch is the set of updates recorded in one activation.
`activations`, `issued`, `vetoed` and `discarded` are history and influence nothing except
that `activations` is bounded.  A back-end flag set stands for `BatchMode`, `SyncOnCommit`,
`Notify` and `RemoveSubjectProperty`.  `DiscardUpdateResults` is not among the back-end flags
commits pass on (`BackEndFlagsMask`), so a non-empty commit always has a model to observe.

### Sequencer

State: `list` is the sequencer's list (operations are numbered in list order), `state`,
`current_step`, `required`, `remaining` and `dependents` are fields of the operations and of
the step each waits for.  `calls` makes the call stack explicit: `signalDependents` pushes one
`notify` per waiting step, and starting an operation pushes a `slot`.  So every interleaving
of the nested notifications with callers that act inside slots is explored.

Actions: `Add` (`addOperation` with the first evaluation of its chain), `Answer` (the success
or failure signal of the module), `Abort`, `Notify` (one `subObject...` call of a step),
`SlotReturns` (the end of the starting slot, where the state becomes `Started`), `AccessAborted`.

`TrackerContentModule::abort` ends the operation first, which notifies those who wait for it and
may call the starting slot of the next query, and aborts its access afterwards
(`tracker_p.cpp:437`, `:441`).  So an abort of a running direct query leaves a `close` call
beneath the notifications, and its result is open (`Open`) until `AccessAborted` takes that call.
An abort of an operation from within its own starting slot is left out: it may destroy the
operation inside its own call, which is undefined.

Operations are of three kinds: `read` (a query over D-Bus), `direct` (over QSparql) and
`write`; a service may mix them, since the access method is looked up per model.  Their chains
are those of the two `sequencingDependencies`.  Slots that send over D-Bus only return;
callers act in a slot only on the synchronous answer to a direct query.

### OrderedAccess

What those chains are for, without list, steps, counters or notifications: operations arrive one
after another, begin once they may, finish, and a query that waits may be given up, an update
never.  `MayBegin` is the whole promise: everything before has begun; updates and queries before
one another have ended; before a direct query everything has.  `Sequencer!ImplementsOrder`
instantiates it with `Standing`, which tells what an operation's state is to those who wait:
running from the call of its starting slot on (the state becomes `Started` only when the slot
returns), over once it has succeeded, failed or been aborted.  An aborted query is over at once,
as the sequencer sees it; that its result is deleted a little later is the subject of
`Sequencer!DirectOverlapOnlyInAbort`.

### TrackerQuery

`TrackerContentModule` and its `TrackerAccessDbus`, for one model.  State: the sequencer's state
of each operation this module has added; the handle `sequenced` and the flag `pending_sequenced`
of the module; `watcher` (the completion watcher, by the number of its query) and
`pending_watcher` of the access; the strategies `Running` and `ModelReady`; `shown`, the query
whose rows the model has.  `stack` holds the calls in progress: a refresh goes through `flush`,
`add`, `block`, `wait`, `take`, and stops wherever it emits a signal (a slot may call the model)
or runs an event loop (anything may happen).

The sequencer is seen from this one module: an operation starts at once or later, in order
(`AddOperation`, `SequencedStart`), or is dropped because a query of another module that it
depended on was aborted (`Drop`).  That an aborted operation that a blocked caller holds may
still be started is the run `Sequencer_kept` and is not repeated here.  The service attribute
`process_events_on_block` is set, which lets more happen than when it is not.

Two exemptions in the properties are behaviours of the code that no text in the repository
excludes, listed as hazards.  `Dropped`: nothing tells the module that the sequencer dropped its
operation, so the model stays `Running`.  `intruded`: when a slot of a signal that the module
emits in the middle of a refresh flushes the model again, the rest of the outer refresh clears
the handle of the new operation, ends it before its reply, and may set `ModelReady` over old
rows.  A blocked wait for a dropped operation reads an erased list entry; the model lets it
pass, and says nothing of what happens to the program.

### Streaming

`UpdaterModule`'s streaming.  State: the flags `Streaming` and `Running`, `EndOfStreamSeen`,
the remaining limit, `streaming_update_`, the pieces awaited, the rows; `stack` again holds
calls in progress, which stop where a signal is emitted and slots may stop, start or limit the
stream.  A row is its place in the query's order; the database does not change under a stream
(the combination with live updates is not modelled).  A piece asks for what comes after the
model's last row; its answer is what the database has there, up to its size.

### RowTransition and LiveModel

`RowTransition` is `SmoothTransitionModule::update`: rows that are equal are passed, rows with
the same identity are changed in place, and between two matches rows the update is about are
removed, others kept, and rows of the source inserted, each in blocks announced by the model's
signals.  One step goes to the next signal or the next iteration of the outer loop: `Advance`
passes and changes, and looks for the next match; `Merge` does one iteration of the inner loop
up to that match.  A transition carries the rows a view has that knows them from these signals
only, so what a view sees in the middle of an update can be stated.  Rows are compared as text while
the database orders them by value; `rank` says how.  An iteration that neither removes, passes
nor inserts would repeat for ever: that is the phase `hangs`, which no action leaves.  The row
store has no gaps and one block.

`LiveModel` composes it with everything before: a change in the database, the `GraphUpdated`
signal, segments whose ids are looked up, the cache of known ids, the class signals, the
queries these lead to, each executed by tracker at any time and answered at any time after that.
One model of one class, in GraphUpdated mode, registered before its own query is sent.
A merge is a transition `tr` of the state; while it is under way tracker goes on (changes,
signals, queries executed), but this thread does nothing else, as `update` does not return to an
event loop.  A row whose ordering value has changed is there twice between its insertion and its
removal, so `OneRowEach` is about models between merges; `ViewFollows` is about every step.
The ids of classes and properties are taken as known; the lookup of ids is executed and
delivered in one step.  A resource whose id is unknown becomes the null IRI in a class signal, and
the query then asks for that IRI in vain; the model leaves it out of the query, and leaves out a
query about nothing else.

## 3. Runs

| Run | Question | Result |
|---|---|---|
| `Transaction_shared` | callers share, own, recycle and drop transactions; is that the abstract batch? | sharing, votes, order and `ImplementsBatch` hold (about 550 000 states) |
| `Transaction_blocking` | blocking commits, nested loops, direct handles | pointer and order hold, calls return |
| `Transaction_blocking_lost` | does `NothingLost` survive blocking commits? | no: finding |
| `Transaction_doomed` | can a caller join a transaction bound to roll back? | yes: finding |
| `Transaction_direct` | do direct handles respect sharers? | no: finding |
| `Sequencer` | exclusion, direct queries one at a time but for aborts, no missed notification, termination; is it the order of access? | all hold, with `ImplementsOrder` (about 42 000 states) |
| `Sequencer_sync` | does an answered operation end? | not if answered in its slot: finding |
| `Sequencer_kept` | may an aborted operation start? | yes, if still held: finding |
| `TrackerQuery` | flushes, waits and stops nested in one another | ready models show the latest flush, nobody watches an idle model, the sequencer is not held up, calls return (about 52 000 states) |
| `Streaming` | streams started, stopped and limited from anywhere | rows gapless, end right, limit kept, streams end (about 114 000 states) |
| `Streaming_nolimit` | does `NoLimit` disable the limit? | no: finding |
| `LiveModel` | changes, signals, lookups and answers in any order, and the merge | views follow, rows well-formed, agreement in the end but for two exceptions (about 840 000 states) |

Bounds.  *Transaction_shared*: two Transaction objects (one active, one finished or being
recycled; a third would be interchangeable with the second), three sharers (one leaves, one
postpones, one finishes), two updates (enough to split or reorder a batch), three activations
(so that a recycled transaction follows one that followed another).  Modes: shared, exclusive,
inactive with commit-on-destroy, and one with another back-end flag.  *Transaction_blocking*
adds three nested calls, enough for a blocking commit inside a blocking commit that will
reinitiate.  *Sequencer*: four operations, enough for two of one quality around one of the
other and one more behind them; every sequence of the three kinds is explored.  *TrackerQuery*: three flushes (one under way, one that
replaces it, one nested in the wait for either), three calls by callers, three calls in progress;
it was also run once with four calls and flushes (about 977 000 states).  *Streaming*: five rows,
a first block of one and blocks of three (so that pieces come out full, short and empty), limits
of none, three (inside a piece) and nine (beyond the rows), four calls, three in progress.
*LiveModel*: two resources, two ordering values and two data values, two changes, which with the
signals, the model's own query and the updates makes up to seven queries under way;
`UpdateMerges` compares the merge with its result for all rows of three resources and all
updates about them, 8 000 pairs, in one state.  Deadlock checking is off where the system may
really stop: a sequencer whose operations have ended, callers that have made all their calls,
a database that does not change any more.  It is on in `Transaction` runs.

Fairness.  `Transaction!FairSpec`: the database answers every request (D-Bus calls complete
or time out), and a call that can go on does, since nothing else runs in its thread.  Nothing
is assumed of callers.  `Sequencer!FairSpec`: calls in progress go on, and tracker answers
every started operation, if only by timeout; operations need not be added or aborted.
`TrackerQuery!FairSpec`: calls go on, the sequencer
starts or drops what is queued, tracker answers every query, if only with a D-Bus timeout.
`Streaming!FairSpec`: calls go on, the query of a piece is answered.  Callers need do nothing.
`CallsReturn`, `OperationsEnd` and `StreamsEnd` are checked under these.  `OperationsEnd` excludes the case
of `Sequencer_sync`, where the answer was ignored.  `LiveModel` states no fairness: what should
come about in the end is stated as what holds when nothing is under way (`Agreement`).

## 4. Findings

1. **A blocking commit can lose updates** (`transaction_p.cpp:83-85`).  The reset of `update_`
   comes after the nested event loop.  A slot that reinitiates the transaction and records in
   it loses that batch.  The counterexample: share, record, commit blocking; in the loop,
   reinitiate and record; the commit returns and the update is in no request and no rollback.
2. **A transaction bound to roll back can be joined** (`transaction_p.cpp:139-145`), against
   `rdfservice.h:570`.
3. **`pendingTransaction` breaks sharing** (`rdfservice_p.cpp:436`), against
   `rdfservice.h:812-816` and the comment at `transaction_p.h:55`.
4. **A query answered in its starting slot never ends** (`sequencer_p.cpp:643-658`), against
   `sequencer_p.cpp:710-712`.  On the direct connection everything behind it waits for ever.
5. **An aborted query can be started** (`sequencer_p.cpp:599`) when a blocked caller still
   holds it, against `tracker_p.cpp:496-502`.
6. **`NoLimit` stops a stream** (`updatermodule_p.cpp:557`), against the example at
   `document_global.h:1345-1348`.  `RDFSelect::NoLimit` is 0; it becomes -1 only when the module
   is attached.  Set later, the next piece asks for no row, gets none, and the stream ends.

One more disagreement is stated by the exception of a property that holds instead of a run of its
own.  `trackeraccessqsparql.cpp:77` says 'Do not run queries in parallel with QTRACKER_DIRECT
connection', and the dependency chain is there for it.  But an abort of a running direct query
starts the next one at `tracker_p.cpp:437` and deletes the aborted query's result only at `:441`,
so both are open for the length of the notifications.  `DirectOverlapOnlyInAbort` says that two
are open in this case only; without `Closing(o)` in it, TLC finds the overlap in six states (start
one, add another, abort the first).

Other behaviours worth knowing, which contradict no text and are hazards in `PROJECT.json`:
the dropped operation and the intruding slot of `TrackerQuery`; in `LiveModel`, a resource
removed before its id was ever looked up is never removed from the model, an answer overtaken by
an older one leaves a stale row, and the merge may not end when ordering values compare
differently as text than in the database (numbers do), which `HangsOnlyOutOfOrder` confines
to that case.

## 5. Proofs

`TransactionProofs` proves, for every number of objects, every set of modes, with and
without blocking commits and direct handles:

* `ConsistentAlways`: `Spec => []Consistent`, the inductive invariant;
* `TypeCorrect`: `Spec => []TypeOK`;
* `PointerAgrees`: `Spec => []ActiveIsCurrent`;
* `CountAgrees`: `Spec => []SharersCounted`;
* `PointerNeverDangles`: `Spec => []CurrentExists`.

It goes on, as generally, for callers that never take the active Transaction
from `pendingTransaction()` (`DirectHandles = FALSE`, the hypothesis of each of these theorems):

* `SharersAgreeWithService`: `Spec => []SharersOfCurrent`;
* `SomebodyCanFinish`: `Spec => []NeverOrphaned`;
* `SharersAgreeOnFlags`: `Spec => []SharingAgreed`;
* `PostponementEnds`: `Spec => []RollbackPostponed`;
* `LastSharerFinishes`: `Spec => FinishedByLastSharer`, the action property that holds in
  run `Transaction_shared` and that `Transaction_direct` shows violated once a caller uses a direct handle.  The theorem says
  that direct handles are the only way to violate it.

Assumptions: object identities of the two classes are distinct, `NoTx` is no Transaction, there are
finitely many sharers (the counts are cardinalities), no caller passes `PendingRollback`.

The argument.  `ActiveIsCurrent` and `SharersCounted` are not inductive alone.  A destructor
finishes an active transaction only if it was the last reference; that the service's pointer
survives otherwise needs `CurrentExists`, and that a sharer that is dropped takes its count
along needs `SubsHeld` (active sharers are held, held sharers have a parent).  The calls in
progress matter as well: a `Reinitiation` frame will act on its object later, so that object
must still be held then (`CallsHeld`), which is why callers may not drop what is on the stack.
`Consistent` is the conjunction, with the types.  Direct handles are what makes
`SharersOfCurrent` and `NeverOrphaned` false in general, and the proof of the first theorems
does without them.  The proof treats *finishing* once: `Finish(t, m)` abstracts what `commit`
and `rollback` do to the objects, lemmas show that every finishing call of a sharer or of a
Transaction is one, and each action is then a few steps.  Counting is in three lemmas
(`SharerLeaves`, `SharerComes`, `SharersStay`) over finite cardinalities.

Without direct handles, `Consistent /\ Shared` is inductive.  The four properties of `Shared`
need each other: that the last sharer leaves nobody behind (`SharersOfCurrent`) needs the
counts of `Consistent`; that the others go on after one has left (`NeverOrphaned`) needs that
all active sharers share the one active Transaction; that a postponed rollback is not left
behind when an exclusive Transaction is finished needs that only shared ones are postponed
(`PostponedIsShared`), hence that nobody shares an exclusive one (`SharingAgreed`) and that
whatever is held directly is exclusive (`HandlesExclusive`).  Six lemmas describe what can
become of the transaction in a step (`FinishedShared`, `GoingOnShared`, `QuietShared`,
`ActivatedShared`, `JoinedShared`, `CreatedAgreed`); each action falls under one or two.
`JoinsCurrent` is the point about reinitiation: whichever branch a sharer takes, the
Transaction it joins is the active one.

`BatchProofs` goes on, each theorem with as few assumptions about callers as it can have:

* `UpdatesInOrder`: `Spec => []SentInOrder`, whatever callers do, as run `Transaction_blocking` checks;
* `NoCallStuck`: the innermost call in progress can return, or waits, in an event loop, for the
  answer to a request that was sent; whatever callers do;
* `OnlyBlockingLoses`: `NothingLost` becomes false in no step but the return of a blocking
  commit, whatever callers do: finding 1 is the only way to lose an update;
* `UpdatesAccounted`: `Spec => []NothingLost`, where no commit blocks (`TRUE \notin Blocking`);
* `VetoesAlwaysRespected`: `Spec => []VetoesRespected`, the part of `AllOrNothing` about votes,
  without direct handles (`DirectHandles = FALSE`), blocking commits included;
* `BatchesShareFate`: `Spec => []AllOrNothing`, without either;
* `BatchImplemented`: `Spec => ImplementsBatch`, the refinement of `SharedBatch`, without either.

The argument.  Under `Consistent`, `Shared` and `Unblocked` (no commit is in its event loop),
each call is a step of the batch or changes nothing a batch shows.  Five lemmas say which
changes of objects, flags and counts amount to each (`BatchStutters`, `BatchEntered`,
`BatchLeft`, `BatchDropped`, `BatchSent`), and one lemma per call says under which it falls.
That the last one to leave is the one that settles the batch is where the counts of `Consistent`
enter: `active_subs_` reaches zero exactly when no other participant is left, and that takes
`SharersOfCurrent`, since a participant of another Transaction would not be counted.

What the history says of the batches is not inductive either: whether a commit may send what is
recorded depends on who voted in this activation, and order depends on what is still recorded.
Four invariants add that.  `InOrder`: updates recorded now are later than all those sent.
`Accounted`: each update is sent, dropped or recorded.  `Votes`: what is recorded is of the
present activation, a batch voted against is under way only while `PendingRollback` is set
(`VotesKept`), and nobody voted against what was sent (`VotesHonoured`).  `BatchesWhole`: the
present activation is all recorded, and what was sent is all of its activation.

They need different assumptions, so what a call can do is said twice.  Under `Consistent` alone a
call settles what is recorded, delivers it, writes down one more (`Flow`), or is the return of a
blocking commit, which cuts off what was recorded meanwhile (`Cut`).  `InOrder` survives both,
`Accounted` only the first: hence the two theorems about order and the two about loss.  Under
`Consistent /\ Shared` one can tell who voted (`Effect`: `Silent`, `Opened`, `VotedAgainst`,
`SentOff`, `ThrownAway`, `WrittenDown`, and again `Cut`); `Votes` survives all of them,
`BatchesWhole` all but `Cut`.  The assumptions are not conveniences: runs
`Transaction_blocking_lost` and `Transaction_direct` show what goes wrong without them.

`NoCallStuck` is the half of `CallsReturn` a proof can reach.  It rests on `Expected`: each
blocking commit on the stack waits for a request that was sent, and lets events in.

`StreamingProofs` proves, for every number of rows, all block sizes and limits, every choice of
signals whose slots call back, and any number and depth of calls:

* `Invariance`: `Spec => []Inv`, the inductive invariant;
* `TypesKept`, `RowsGapless`, `EndIsComplete`, `PieceIsAwaited`, `RunningWaits`: the properties
  `TypeOK`, `Gapless`, `EndMeansAll`, `OnePieceUnderWay` and `NoIdleRunning`;
* `LimitIsKept`: `Spec => []LimitKept`.

Assumed: sizes are positive, `NoPiece` is no piece.  The argument.  `Gapless` is not inductive:
an answer continues the rows only if its piece asked for what comes after the present last row
(`UnderWayIsNext`), and that holds only if answers are taken in for the one piece under way
(`AwaitedIsUnderWay`).  A piece is known to more than `streaming_update`: the calls that start it
are on the stack, and slots may have cancelled it and begun another meanwhile.  So no two calls
start the same piece, none starts an awaited one (`StartedOnce`, for which pieces are numbered),
and the piece under way is awaited or being started (`UnderWayIsHeard`).  `EndMeansAll` needs that
a call that has taken in a short piece stays right while slots run (`ShortIsLast`), and
`NoIdleRunning` that a running model has a piece or a call that will look for one
(`RunningGoesOn`).  The stack enters these as the set of its calls; `Popped`, `Pushed` and
`Replaced` say what a return, a call and going on do to that set, and each action is one lemma.  `LimitKept` compares what a stream has fetched with
the limit it began with, and what remains of that limit is counted down only after the signal
that announces the rows, by another call than the one that sent the piece.  `Budget` adds, for a
stream nobody meddles with: the call in progress is the only one (`AloneIsOnlyCall`), and what
is fetched, what is inserted but not yet counted (`Uncounted`) and what remains make up the
limit, with what each point of a call knows of the size of its piece (`Metered`, `CallMetered`).

`TrackerQueryProofs` proves, for every number of flushes and calls, any depth of nested waits and
every choice of signals whose slots call back:

* `Invariance`: `Spec => []Inv`, the inductive invariant;
* `TypesKept`, `LatestIsShown`, `RunningWaits`, `NothingHeldUp`: the properties `TypeOK`,
  `ReadyShowsLatest`, `NoIdleRunning` and `NoneHeldUp`;
* `OvertakenNeverShown`: no step replaces the rows by others than those of the latest flush, while
  the model is not ready either.

Assumed: the bounds are natural numbers.  The argument.  `ReadyShowsLatest` says nothing of what
is under way, so it is not inductive: a model could be ready with an older query watched, whose
answer would replace the rows.  Hence a ready model is `Quiet`, and whatever is queued, watched or
started is the latest operation (`QueuedIsLatest`, `WatchedIsLatest`, `StartedIsWatched`).  A
flush in two parts and a result taken in in two parts have a signal in between, and the calls of
its slots could spoil both; that they do not is `Settled` (what holds of the model while a call is
at such a point) and `Undisturbed` (the slot's call is the innermost one, finds nothing to wait
for or to take, and returns).  `AnswersTaken` is what keeps the one who waits from being forgotten:
an answer that nobody polls for belongs to a call in progress that will take it.  `TypeOK` also
says that a wait is marked as pending only while a call waits (`PendingWaits`, by one lemma about
calls that go on, `PendingGoneOn`, and one about the others, `PendingOthers`).  Everything but
`TypeOK` is proved as long as no slot has flushed (`~intruded`): with such slots the properties
may fail, as section 2 says.

`SequencerProofs` proves, for any number of operations of any kinds, with and without answers in
the starting slot, for callers that let go of aborted operations (`TRUE \notin KeptHandles`, the
hypothesis `LetGo` of each theorem):

* `Invariance`: `Spec => []Inv`, the inductive invariant;
* `TypesKept`, `ConflictsKeepOrder`, `StartsKeepOrder`: the properties `TypeOK`,
  `ConflictsInOrder` and `StartedInOrder`;
* `DirectQueriesOverlapInAborts`: `Spec => []DirectOverlapOnlyInAbort`;
* `AbortedStayAborted`: `Spec => AbortedNeverStarts`, which run `Sequencer_kept` shows violated
  once a caller keeps an aborted operation.

Assumed: the ranges of the constants.  The argument.  An operation that runs has passed both steps
of its chain, and `PassedInOrder` says that a passed step has nothing to wait for: what it was
about has left the list or, for a step about the latest to start, has started.  It stays so, since
operations are added at the end.  A step is passed when its counter reaches zero, so the counter
must not reach zero early: `Counted` says that it is at least the number of operations still
waited for plus the notifications about the step in calls in progress, and that takes that each
step is recorded once with each operation, and with nothing before it is reached (`Recorded`,
`Complete`, `StepIsFresh`).  A step about the latest waits for one operation only; that all
before have started too is `EarlierStarted`, by `PassedInOrder` of that one, and `Heard` keeps it
while the notification is under way.  `Good(q)` states all of it for a sequence `q` of calls, so
that taking the innermost call off (`RestIsGood`) and acting on it are separate; `Leaves`,
`Starts`, `Evaluates` and `CountsDown` are the ways an operation moves on, and each action is one
or two of them.  Two direct queries have results open only while the earlier is being aborted: of
two that run, the later has passed a step about the end of the earlier (`DirectAfterQueries`), so
one of them is under abort; and `AbortsInOrder` says that it is not the later, since when an abort
begins all queries before it have ended, and what is final stays so (`FinishedStays`).

`WaitingProofs` goes on from there, under the same hypothesis `LetGo`:

* `WaitingInvariance`: `Spec => []WaitingInv`;
* `NoUpdateDropped`: `Spec => []UpdatesNeverDropped`;
* `NotificationsArrive`: `Spec => []NoMissedNotification`;
* `NeverStuck`: `Spec => []SomeoneRuns`: between calls, unless the list is empty, one of its
  operations is started, so that tracker's answer will move it;
* `OrderImplemented`: `Spec => ImplementsOrder`, the refinement of `OrderedAccess`.

The argument.  `Inv` bounds the counters of a step from below only: that no step is passed early.
`Waiting` adds the other side: the operations that a step may still hear of are those it is
recorded with plus the ends that it is about to be told, `remaining` counts exactly them, and at
least as many are left as are required.  Between calls nothing is about to be told, so the step
requires exactly what it still waits for (`NotificationsArrive`).  An operation is failed when it
hears of an end with fewer left than it requires.  That cannot happen at a step that waits for
the end of all it is recorded with; it can at the first step of an update, which waits for the
start of the update before, if that one ends first.  Whoever answers or aborts is a caller, so it
is enough that callers do not run between an update's start and the moment the next one hears of
it: `WritesFirst` says that all calls in front of such a notification are themselves part of the
start of an update, in which no caller gets a turn (only a direct query is answered in its
starting slot, `AnsweredKnown`).  `WritesUntold` and with it `NeverDropped` follow, since an update is never aborted and so does not
end unstarted.  Queries are aborted while they are queued, and the query that waits for the start
of an aborted one is failed: the property is about updates only.

`NeverStuck`: the earliest operation of the list is started, since by `NotificationsArrive` it
would otherwise wait for one of the list before it.

For the refinement, what an operation may begin after must be known at the moment it begins, in
the middle of a notification.  That is in the invariant after the step: `OrderKept` states
that whatever runs may begin where it stands (`RunningMayBegin`, from `PassedInOrder`), so the primed
`Inv` gives it for the operation that has just begun, and the others stand where they stood
(`OthersStand`).  A step then is a step of `OrderedAccess` when at most
one operation stands otherwise (`OneMoves`).  That an update is never given up is the
`NeverDropped` of `NoUpdateDropped`.

`MergeProofs` is about one merge: all lemmas lead to one theorem, for any set of resources,
contents and rows.

* `UpdateMergesAll`: when texts compare as the database orders, `update` of the rows of a
  database by an update about any of its resources reaches, after finitely many steps, the rows
  a query would have of the database with those resources replaced, and a view has the same.

The argument.  `Within` says that the places of a merge lie inside the rows and the source, for
any rows and any `rank`; `AdvanceSteps` and `MergeSteps` name what a step can be (`AdvancedBy`, `MatchedBy`,
`KeptBy`, `RemovedBy`, `InsertedBy`, or an end) with what the code has compared.  `MergeOrder`
is the invariant of a merge that is in order: rows and source are sorted, what is merged comes
before what is left of the source, of the resources the update is about it is what the source
has so far, and only those may be there twice.  It also gives the point that is not obvious in
the code: the first row of a block is inserted without comparing it.  That is right because an
iteration that keeps nothing has found the next row of the model not to precede it; and since
one of *not before*, *about the update* and *before but not about it* holds of every row left before
the match, an iteration that does nothing contradicts `Match`, so `hangs` is not reached.
For the end, `Measure` falls in every step: the rows left in model and source, and whether the
next iteration stands at a match.  That rows in order are determined by what they have of each
resource (`SameInOrder`) turns the invariant at the end into the answer of a query.  The hypothesis on `rank` is
needed: run `LiveModel` has the reversed one too, in which merges do hang.

`LiveModelProofs` proves, for any number of resources, contents, changes and queries under way:

* `ShapeIsKept`, `ViewIsKept`: `Spec => []TypeOK` and `Spec => []ViewFollows`, for all texts;
* `OneRowEachIsKept`, `NeverHangsInOrder`: `Spec => []OneRowEach`, `Spec => []HangsOnlyOutOfOrder`;
* `AgreesWhenQuiet`: `Spec => []Agreement`;
* `RowsAreFresh`: when nothing is under way and there is no exception, the rows are exactly
  those a query executed now would have, in number and order.

Assumed (`LiveAssumption`): resources and ordering values are numbers, there are finitely many
resources, `Absent` is no content.  The argument.  `Agreement` says nothing of what is
under way.  Its invariant, `Traced`, gives each resource the number `c` of its last change that
counts (`Fresh`): every answer executed since has of it what the database has; if an
answer that new has been merged, and not overtaken, the model shows just that, or will when the merge is
over (`Showing`); and until then some signal, segment or query under way will tell of it
(`Touching`, `WillTell`), unless its id was forgotten.  With nothing under way only the second is
left.  The queue of queries enters by what joins it and what is taken from it (`Joined`,
`Taken`); what a merge does to `Showing` is the order lemma of `MergeProofs`.

Only model-checked: liveness, `ENABLED` and fairness (`CallsReturn`, `OperationsEnd`,
`StreamsEnd` and the like), which are out of the prover's reach.  `UpdateMerges` is
checked for three resources, by an operator of `MCLiveModel` that is recursive and so cannot
occur in a proof; `UpdateMergesAll` states the same of any sequence of steps, for every size.

## 6. Not modelled

* The text of queries and updates, and errors of SPARQL.
* What a lost or failed commit does to the store: a request is answered or fails as a whole.
* Sequencer conditions and branches that no code in `src` uses, null or destroyed slot objects
  (modules hold themselves while sequenced), and what follows once an operation off the list
  evaluates a further step, which dereferences an erased list iterator.
* Threads: services are per thread, and no two threads share the state modelled here.
* Streaming: the filter that is literally false and models that are null, for which the code returns
  early; the combination with live updates, whose rows may then lie outside the rows fetched;
  a piece whose model is ready at once after a slot has cancelled it (the code then dereferences
  a null pointer).
* Live updates: chained properties (only changes of the resources themselves), altering the Live
  strategy and dropping contexts, two models on one dispatcher, the older class signals of
  tracker, ids that change their IRI.
* Row store: blocks, gaps, `migrate` and sub-models.
* Tracker modules: sister update modules, derived and detached models, the Sync step after an
  update, `removeResources`.
* The graph cache, whose update and removal handlers are unimplemented in the code, and the other
  components marked `not_modelled` in `PROJECT.json`, with the reason there.

Two thirds of the repository's lines are ontology headers generated from schemas, and much of the
rest is builders of query text, proxies, vendored value classes, tests and examples.  The modules
here cover the stateful control logic, which is a small part by lines.

## 7. Plan

Done, in this order: `Transaction` and `Sequencer`, the theorems about objects, pointers and
sharing, `SharedBatch`, its refinement and the theorems about the history, `Streaming` and its
theorems, `RowTransition` and `LiveModel`, `TrackerQuery` and its theorems, the theorems about
`Sequencer`, those about merges and live models, `OrderedAccess` and its refinement, what is left
of the theorems about updates under blocking commits and direct handles.  What would come next:

1. Sister update modules and the composition of two `TrackerQuery` modules with `Sequencer`.
2. Streaming and live updates on one model.
3. `GraphCache`: attach and insert against the main model.
