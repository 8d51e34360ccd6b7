----------------------------- MODULE LiveModel -----------------------------
(***************************************************************************)
(* A live model of the resources of a class: from a change in tracker to   *)
(* the rows of the model.                                                  *)
(*                                                                         *)
(*  - GraphUpdated says which resources a change touched, by their ids     *)
(*    (graph_signals_p.cpp).  Ids the cache does not know are looked up    *)
(*    first, so later changes may be dispatched sooner.                    *)
(*  - The class signals that a change stands for make the model query what *)
(*    its resources are now (signals_p.cpp, updatermodule_p.cpp).          *)
(*  - The answer is merged into the rows, step by step (RowTransition).    *)
(*    The process does nothing else meanwhile; tracker does.               *)
(*                                                                         *)
(* Tracker executes queries at any time after they are sent and answers    *)
(* may overtake one another.  The model is registered before its own query *)
(* is sent, and not streamed.                                              *)
(***************************************************************************)
EXTENDS Integers, Sequences, FiniteSets, SequencesExt, RowTransition

CONSTANTS
  Subject,      \* resources, numbers in the order of their IRIs
  Content,      \* the ordering value and the data a resource may have
  Absent,       \* a resource that is not in the database
  Initial,      \* databases to begin with
  TextRanks,    \* the places its ordering values may have among texts
  MaxChanges    \* bound: changes in a behaviour

ASSUME LiveAssumption ==
  /\ Subject \subseteq Nat /\ IsFiniteSet(Subject)
  /\ \A c \in Content : DOMAIN c = {"ord", "data"} /\ c.ord \in Nat
  /\ Absent \notin Content
  /\ Initial \subseteq [Subject -> Content \cup {Absent}]
  /\ \A rank \in TextRanks : rank \in [{c.ord : c \in Content} -> Nat]
  /\ MaxChanges \in Nat

VARIABLES
  db,         \* the database
  changes,    \* changes made so far
  bus,        \* GraphUpdated signals under way, in order
  id2iri,     \* id2iri_: the resources whose ids are known
  segments,   \* compatibility_: those segments whose ids are looked up
  queries,    \* queries sent, each with its answer once it is executed
  tr,         \* row_store of the model, the rows of a view, and the update
              \* that is merged into them
  text        \* how ordering values compare as texts

VARIABLES
  latest,     \* history: the changes seen by the latest answer for a resource
  overtaken,  \* history: resources last updated by an answer that was overtaken
  forgotten   \* history: resources whose change was dispatched without an IRI

tracker == <<db, changes, bus>>
history == <<latest, overtaken>>
vars == <<tracker, id2iri, segments, queries, tr, text, history, forgotten>>

rows == tr.rows
view == tr.view
Idle == tr.phase = "none"

\* The process is in an endless loop.
hangs == tr.phase = "hangs"

Unexecuted == -1
Orders == {c.ord : c \in Content}
Row == {[ord |-> c.ord, id |-> s, data |-> c.data] : c \in Content, s \in Subject}
Segment == [added : SUBSET Subject, removed : SUBSET Subject, changed : SUBSET Subject]
Touched(segment) == segment.changed

Transition ==
  [phase : {"none", "rows", "merge", "hangs"}, rows : Seq(Row), view : Seq(Row),
   source : Seq(Row), keys : SUBSET Subject, t_i : Nat, s_i : Nat,
   removed : Nat, inserted : Nat]

\* The rows a query about some resources has: in the order of the database.
Precedes(a, b) == a.ord < b.ord \/ (a.ord = b.ord /\ a.id < b.id)
Answer(content, about) ==
  LET answers == {[ord |-> content[s].ord, id |-> s, data |-> content[s].data] :
                    s \in {x \in about : content[x] # Absent}}
  IN CHOOSE q \in [1..Cardinality(answers) -> answers] :
       \A i, j \in 1..Cardinality(answers) : i < j => Precedes(q[i], q[j])

Query(kind, about) == [kind |-> kind, about |-> about, at |-> Unexecuted, answer |-> <<>>]

----------------------------------------------------------------------------
(* Tracker.                                                                *)

\* A transaction of somebody changes the database; tracker signals the quads it
\* deleted and inserted.
Change(content) ==
  /\ ~hangs
  /\ changes < MaxChanges
  /\ content # db
  /\ db' = content
  /\ changes' = changes + 1
  /\ bus' = Append(bus,
       [added |-> {s \in Subject : db[s] = Absent /\ content[s] # Absent},
        removed |-> {s \in Subject : db[s] # Absent /\ content[s] = Absent},
        changed |-> {s \in Subject : db[s] # content[s]}])
  /\ UNCHANGED <<id2iri, segments, queries, tr, text, history,
                 forgotten>>

\* Tracker executes a query.
Execute(i) ==
  /\ queries[i].at = Unexecuted
  /\ queries' = [queries EXCEPT ![i].at = changes,
                                ![i].answer = Answer(db, queries[i].about)]
  /\ UNCHANGED <<tracker, id2iri, segments, tr, text, history,
                 forgotten>>

----------------------------------------------------------------------------
(* Update signals.                                                         *)

\* tripleUpdates_chain: a query about the resources of a class signal.  One
\* about no resource that has an IRI comes back without rows and is left out.
tripleUpdates(subjects) ==
  IF subjects = {} THEN <<>> ELSE <<Query("update", subjects)>>

\* Variant: quads that were deleted are not looked at.
InsertsOnly(segment, known) ==
  /\ queries' = queries \o tripleUpdates((segment.changed \ segment.removed) \cap known)
  /\ forgotten' = (forgotten \cup Touched(segment)) \ known

\* dispatchClassUpdateSignals: SubjectsAdded, SubjectsRemoved, SubjectsChanged.
\* An id the cache does not know becomes the null IRI, queried for in vain.
dispatchClassUpdateSignals(segment, known) ==
  /\ queries' = queries
       \o tripleUpdates(segment.added \cap known)
       \o tripleUpdates(segment.removed \cap known)
       \o tripleUpdates(segment.changed \cap known)
  /\ forgotten' = (forgotten \cup Touched(segment)) \ known

\* GraphUpdated: a segment is made of the signal.  It is dispatched at once if
\* all its ids are known, otherwise they are looked up.
GraphUpdated ==
  /\ Idle
  /\ bus # <<>>
  /\ bus' = Tail(bus)
  /\ \/ /\ Touched(Head(bus)) \subseteq id2iri
        /\ dispatchClassUpdateSignals(Head(bus), id2iri)
        /\ UNCHANGED segments
     \/ /\ ~(Touched(Head(bus)) \subseteq id2iri)
        /\ segments' = Append(segments, Head(bus))
        /\ UNCHANGED <<queries, forgotten>>
  /\ UNCHANGED <<db, changes, id2iri, tr, text, history>>

\* segmentComplete: the ids that were looked up are registered, those of
\* resources that the database still has, and the segment is dispatched.
segmentComplete(i) ==
  LET found == {s \in Touched(segments[i]) : db[s] # Absent}
  IN /\ Idle
     /\ id2iri' = id2iri \cup found
     /\ dispatchClassUpdateSignals(segments[i], id2iri \cup found)
     /\ segments' = RemoveAt(segments, i)
     /\ UNCHANGED <<tracker, tr, text, history>>

----------------------------------------------------------------------------
(* The model.                                                              *)

Shows(q) ==
  /\ latest' = [s \in Subject |->
       IF s \in q.about /\ q.at > latest[s] THEN q.at ELSE latest[s]]
  /\ overtaken' = (overtaken \ q.about) \cup {s \in q.about : q.at < latest[s]}

\* processResults of the query of the model itself: its rows are all replaced.
Fill(i) ==
  /\ queries[i].kind = "all"
  /\ tr' = Settled(queries[i].answer, queries[i].answer)

\* LiveUpdate::updateModel begins to merge the answer.
LiveUpdate(i) ==
  /\ queries[i].kind = "update"
  /\ tr' = update(rows, view, queries[i].answer, queries[i].about)

\* A query is answered.
Answered(i) ==
  /\ Idle
  /\ queries[i].at # Unexecuted
  /\ Fill(i) \/ LiveUpdate(i)
  /\ Shows(queries[i])
  /\ queries' = RemoveAt(queries, i)
  /\ UNCHANGED <<tracker, id2iri, segments, text, forgotten>>

\* The merge goes on, to its next signal.
Transit ==
  /\ \/ tr.phase = "rows" /\ tr' = Advance(tr)
     \/ tr.phase = "merge" /\ tr' = Merge(tr, text)
  /\ UNCHANGED <<tracker, id2iri, segments, queries, text, history, forgotten>>

----------------------------------------------------------------------------
Init ==
  /\ db \in Initial
  /\ changes = 0
  /\ bus = <<>>
  /\ id2iri = {}
  /\ segments = <<>>
  /\ queries = <<Query("all", Subject)>>
  /\ tr = Settled(<<>>, <<>>)
  /\ text \in TextRanks
  /\ latest = [s \in Subject |-> 0]
  /\ overtaken = {}
  /\ forgotten = {}

Next ==
  \/ \E content \in [Subject -> Content \cup {Absent}] : Change(content)
  \/ GraphUpdated
  \/ \E i \in 1..Len(segments) : segmentComplete(i)
  \/ \E i \in 1..Len(queries) : Execute(i) \/ Answered(i)
  \/ Transit

Spec == Init /\ [][Next]_vars
----------------------------------------------------------------------------
(* Properties.                                                             *)

\* The shape of the state.
TypeOK ==
  /\ db \in [Subject -> Content \cup {Absent}] /\ changes \in 0..MaxChanges
  /\ bus \in Seq(Segment) /\ segments \in Seq(Segment)
  /\ id2iri \subseteq Subject
  /\ \A i \in 1..Len(queries) :
       /\ queries[i].kind \in {"all", "update"} /\ queries[i].about \subseteq Subject
       /\ queries[i].at \in {Unexecuted} \cup 0..changes
       /\ queries[i].answer \in Seq(Row)
  /\ tr \in Transition
  /\ tr.t_i \in 1..(Len(rows) + 1 - tr.removed)
  /\ tr.s_i \in 1..(Len(tr.source) + 1 - tr.inserted)
  /\ latest \in [Subject -> 0..changes]
  /\ overtaken \subseteq Subject /\ forgotten \subseteq Subject

\* Whether texts compare as the database compares what they stand for.
TextsInOrder == \A a, b \in Orders : a < b => text[a] < text[b]

\* Whatever updates come, and in whatever order, no resource has two rows once
\* an update is merged, and rows stay in order if texts compare as the database
\* does.
OneRowEach ==
  Idle /\ TextsInOrder =>
    \A i, j \in 1..Len(rows) : i < j =>
      rows[i].id # rows[j].id /\ Precedes(rows[i], rows[j])

\* A view that follows rowsInserted, rowsRemoved and dataChanged has the rows
\* of the model, at every signal.
ViewFollows == view = rows

\* Merging an update comes to an end when texts compare as the database does.
HangsOnlyOutOfOrder == hangs => ~TextsInOrder

\* What the model should show of a resource.
Shown(s) == {rows[i] : i \in {j \in 1..Len(rows) : rows[j].id = s}}
Agrees(s) == Shown(s) = ToSet(Answer(db, {s}))

Quiet == Idle /\ bus = <<>> /\ segments = <<>> /\ queries = <<>>

\* When nothing is under way the model agrees with the database, in whatever
\* order signals were dispatched and queries executed, except about resources
\* whose last answer was overtaken by an older one, and those whose last change
\* was removal before their id was looked up.
Agreement ==
  TextsInOrder /\ Quiet =>
    \A s \in Subject \ (overtaken \cup forgotten) : Agrees(s)

=============================================================================
