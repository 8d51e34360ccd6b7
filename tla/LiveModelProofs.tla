-------------------------- MODULE LiveModelProofs --------------------------
(***************************************************************************)
(* Proofs about a live model, for any number of resources, changes and     *)
(* queries under way: the rows stay in order and its view with them, the   *)
(* merge does not hang when texts compare as the database does, and what   *)
(* is shown once nothing is under way is what the database has.            *)
(***************************************************************************)
EXTENDS MergeProofs

----------------------------------------------------------------------------
(* Queries that are added to others, and taken from them.                  *)

Asked ==
  [kind : {"all", "update"}, about : SUBSET Subject, at : {Unexecuted} \cup Nat,
   answer : Seq(Row)]

\* r has the queries of q and others, which are new.
Joined(q, r) ==
  /\ r \in Seq(Asked)
  /\ \A i \in 1..Len(q) : i \in 1..Len(r) /\ r[i] = q[i]
  /\ \A i \in 1..Len(r) : i \notin 1..Len(q) =>
       r[i].kind = "update" /\ r[i].at = Unexecuted

\* Some query that is not executed yet is about each of them.
AskedFor(r, subjects) ==
  \A s \in subjects : \E i \in 1..Len(r) : r[i].at = Unexecuted /\ s \in r[i].about

LEMMA JoinedTransitive ==
  ASSUME NEW p, NEW q, NEW r, Joined(p, q), Joined(q, r)
  PROVE  Joined(p, r)
  BY DEF Joined

\* A query joins others.
LEMMA TripleUpdatesJoin ==
  ASSUME NEW q \in Seq(Asked), NEW subjects \in SUBSET Subject
  PROVE  /\ Joined(q, q \o tripleUpdates(subjects))
         /\ AskedFor(q \o tripleUpdates(subjects), subjects)
  <1> DEFINE one == Query("update", subjects)
             p == tripleUpdates(subjects)
             r == q \o p
             n == Len(q)
  <1>1. /\ one \in Asked /\ one.at = Unexecuted /\ one.kind = "update"
        /\ one.about = subjects
    <2>1. <<>> \in Seq(Row)
      OBVIOUS
    <2> QED BY <2>1 DEF Query, Asked
  <1>2. n \in Nat
    BY LenProperties
  <1> HIDE DEF one, n
  <1>3. CASE subjects = {}
    <2>1. p = <<>>
      BY <1>3 DEF tripleUpdates
    <2>2. r = q
      BY <2>1, ConcatEmptySeq
    <2> HIDE DEF r
    <2>3. Joined(q, r)
      BY <2>2 DEF Joined
    <2> QED BY <1>3, <2>3 DEF r, AskedFor
  <1>4. CASE subjects # {}
    <2>1. p = <<one>>
      BY <1>4 DEF tripleUpdates, one
    <2>2. p \in Seq(Asked) /\ Len(p) = 1 /\ p[1] = one
      BY <1>1, <2>1
    <2> HIDE DEF p
    <2>3. /\ r \in Seq(Asked) /\ Len(r) = n + 1
          /\ \A i \in 1..(n + 1) : r[i] = IF i <= n THEN q[i] ELSE p[i - n]
      <3>1. /\ q \o p \in Seq(Asked) /\ Len(q \o p) = Len(q) + Len(p)
            /\ \A i \in 1..(Len(q) + Len(p)) :
                 (q \o p)[i] = IF i <= Len(q) THEN q[i] ELSE p[i - Len(q)]
        BY <2>2, ConcatProperties
      <3> QED BY <2>2, <3>1 DEF n
    <2> HIDE DEF r
    <2>4. \A i \in 1..n : i \in 1..(n + 1) /\ i <= n
      BY <1>2
    <2>5. \A i \in 1..(n + 1) : i \notin 1..n => i = n + 1
      BY <1>2
    <2>6. n + 1 \in 1..(n + 1) /\ r[n + 1] = one
      <3>1. n + 1 \in 1..(n + 1) /\ ~(n + 1 <= n) /\ (n + 1) - n = 1
        BY <1>2
      <3> QED BY <2>2, <2>3, <3>1
    <2>7. Joined(q, r)
      BY <1>1, <2>3, <2>4, <2>5, <2>6 DEF Joined, n
    <2>8. AskedFor(r, subjects)
      BY <1>1, <2>3, <2>6 DEF AskedFor
    <2> QED BY <2>7, <2>8 DEF r, p
  <1> QED BY <1>3, <1>4

\* The dispatch of a segment: what it changed of known resources is queried.
LEMMA DispatchJoins ==
  ASSUME NEW q \in Seq(Asked), NEW segment \in Segment, NEW known \in SUBSET Subject,
         NEW r,
         r = q \o tripleUpdates(segment.added \cap known)
               \o tripleUpdates(segment.removed \cap known)
               \o tripleUpdates(segment.changed \cap known)
  PROVE  /\ Joined(q, r)
         /\ AskedFor(r, segment.changed \cap known)
  <1> DEFINE a == segment.added \cap known
             b == segment.removed \cap known
             c == segment.changed \cap known
  <1>1. a \in SUBSET Subject /\ b \in SUBSET Subject /\ c \in SUBSET Subject
    OBVIOUS
  <1>2. r = ((q \o tripleUpdates(a)) \o tripleUpdates(b)) \o tripleUpdates(c)
    OBVIOUS
  <1> DEFINE qa == q \o tripleUpdates(a)
             qb == qa \o tripleUpdates(b)
  <1>3. r = qb \o tripleUpdates(c)
    BY <1>2
  <1> HIDE DEF a, b, c
  <1>4. Joined(q, qa)
    BY <1>1, TripleUpdatesJoin
  <1>5. qa \in Seq(Asked)
    BY <1>4 DEF Joined
  <1> HIDE DEF qa
  <1>6. Joined(qa, qb)
    BY <1>1, <1>5, TripleUpdatesJoin
  <1>7. qb \in Seq(Asked)
    BY <1>6 DEF Joined
  <1> HIDE DEF qb
  <1>8. /\ Joined(qb, r)
        /\ AskedFor(r, c)
    <2>1. Joined(qb, qb \o tripleUpdates(c)) /\ AskedFor(qb \o tripleUpdates(c), c)
      BY <1>1, <1>7, TripleUpdatesJoin
    <2> QED BY <1>3, <2>1
  <1>9. Joined(q, r)
    BY <1>4, <1>6, <1>8, JoinedTransitive
  <1> QED BY <1>8, <1>9 DEF c

\* One taken from others.
Taken(q, r, i) ==
  /\ \A j \in 1..Len(q) : j # i => \E k \in 1..Len(r) : r[k] = q[j]
  /\ \A k \in 1..Len(r) : \E j \in 1..Len(q) : j # i /\ r[k] = q[j]

LEMMA RemoveAtTakes ==
  ASSUME NEW R, NEW q \in Seq(R), NEW i \in 1..Len(q)
  PROVE  RemoveAt(q, i) \in Seq(R) /\ Taken(q, RemoveAt(q, i), i)
  <1> DEFINE r == RemoveAt(q, i)
             n == Len(q)
  <1>1. n \in Nat /\ i \in Nat /\ 1 <= i /\ i <= n
    BY LenProperties
  <1>2. r = Without(q, i, 1)
    BY DEF RemoveAt, Without
  <1> HIDE DEF r, n
  <1>3. /\ r \in Seq(R) /\ Len(r) = n - 1
        /\ \A k \in 1..(n - 1) : r[k] = IF k < i THEN q[k] ELSE q[k + 1]
    <2>1. i + 1 <= Len(q) + 1
      BY <1>1 DEF n
    <2>2. /\ Without(q, i, 1) \in Seq(R) /\ Len(Without(q, i, 1)) = Len(q) - 1
          /\ \A k \in 1..(Len(q) - 1) :
               Without(q, i, 1)[k] = IF k < i THEN q[k] ELSE q[k + 1]
      BY <1>1, <2>1, WithoutIs
    <2> QED BY <1>2, <2>2 DEF n
  <1>4. ASSUME NEW j \in 1..n, j # i PROVE \E k \in 1..(n - 1) : r[k] = q[j]
    <2>1. CASE j < i
      <3>1. j \in 1..(n - 1)
        BY <1>1, <2>1
      <3> QED BY <1>3, <2>1, <3>1
    <2>2. CASE ~(j < i)
      <3>1. j - 1 \in 1..(n - 1) /\ ~(j - 1 < i) /\ (j - 1) + 1 = j
        BY <1>1, <1>4, <2>2
      <3> QED BY <1>3, <3>1
    <2> QED BY <2>1, <2>2
  <1>5. ASSUME NEW k \in 1..(n - 1) PROVE \E j \in 1..n : j # i /\ r[k] = q[j]
    <2>1. CASE k < i
      <3>1. k \in 1..n /\ k # i
        BY <1>1, <2>1
      <3> QED BY <1>3, <2>1, <3>1
    <2>2. CASE ~(k < i)
      <3>1. k + 1 \in 1..n /\ k + 1 # i
        BY <1>1, <2>2
      <3> QED BY <1>3, <2>2, <3>1
    <2> QED BY <2>1, <2>2
  <1>6. Taken(q, r, i)
    BY <1>3, <1>4, <1>5 DEF Taken, n
  <1> QED BY <1>3, <1>6 DEF r

\* One of them executed.
Executed(q, r, i, at, answer) ==
  /\ Len(r) = Len(q)
  /\ \A j \in 1..Len(q) : j # i => r[j] = q[j]
  /\ r[i].at = at /\ r[i].answer = answer /\ r[i].about = q[i].about
  /\ r[i].kind = q[i].kind

LEMMA ExecutedIs ==
  ASSUME NEW q \in Seq(Asked), NEW i \in 1..Len(q), NEW at \in Nat,
         NEW answer \in Seq(Row),
         NEW r, r = [q EXCEPT ![i].at = at, ![i].answer = answer]
  PROVE  r \in Seq(Asked) /\ Executed(q, r, i, at, answer)
  <1> DEFINE n == Len(q)
             old == q[i]
             one == [old EXCEPT !.at = at, !.answer = answer]
  <1>1. n \in Nat /\ q \in [1..n -> Asked] /\ i \in 1..n /\ old \in Asked
    BY LenProperties, ElementOfSeq
  <1>2. r = [q EXCEPT ![i] = one]
    BY <1>1
  <1> HIDE DEF n, old
  <1>3. /\ one \in Asked /\ one.at = at /\ one.answer = answer
        /\ one.about = old.about /\ one.kind = old.kind
    BY <1>1 DEF Asked
  <1> HIDE DEF one
  <1>4. r \in [1..n -> Asked]
    BY <1>1, <1>2, <1>3
  <1>5. r \in Seq(Asked) /\ Len(r) = Len(q)
    <2>1. [q EXCEPT ![i] = one] \in Seq(Asked) /\ Len([q EXCEPT ![i] = one]) = Len(q)
      BY <1>3, ExceptSeq
    <2> QED BY <1>2, <2>1
  <1>6. r[i] = one /\ \A j \in 1..n : j # i => r[j] = q[j]
    BY <1>1, <1>2
  <1> QED BY <1>3, <1>5, <1>6 DEF Executed, n, old

----------------------------------------------------------------------------
(* The shape of the state, and the view.                                   *)

Typed ==
  /\ db \in [Subject -> Content \cup {Absent}]
  /\ changes \in 0..MaxChanges
  /\ bus \in Seq(Segment) /\ segments \in Seq(Segment)
  /\ id2iri \in SUBSET Subject
  /\ queries \in Seq(Asked)
  /\ \A i \in 1..Len(queries) : queries[i].at \in {Unexecuted} \cup 0..changes
  /\ Within(tr)
  /\ text \in TextRanks
  /\ latest \in [Subject -> 0..changes]
  /\ overtaken \in SUBSET Subject /\ forgotten \in SUBSET Subject

LEMMA InitTyped == Init => Typed
  <1> SUFFICES ASSUME Init PROVE Typed
    OBVIOUS
  <1>1. db \in [Subject -> Content \cup {Absent}] /\ changes \in 0..MaxChanges
    BY LiveAssumption DEF Init, LiveAssumption
  <1>2. bus \in Seq(Segment) /\ segments \in Seq(Segment) /\ id2iri \in SUBSET Subject
    BY DEF Init
  <1>3. /\ queries \in Seq(Asked) /\ Len(queries) = 1
        /\ \A i \in 1..1 : queries[i].at = Unexecuted
    <2>1. Query("all", Subject) \in Asked /\ Query("all", Subject).at = Unexecuted
      <3>1. <<>> \in Seq(Row)
        OBVIOUS
      <3> QED BY <3>1 DEF Query, Asked
    <2> HIDE DEF Asked, Query
    <2> QED BY <2>1 DEF Init
  <1>4. Within(tr)
    <2>1. <<>> \in Seq(Row)
      OBVIOUS
    <2> QED BY <2>1, SettledIs DEF Init
  <1>5. /\ latest \in [Subject -> 0..changes] /\ text \in TextRanks
        /\ overtaken \in SUBSET Subject /\ forgotten \in SUBSET Subject
    BY DEF Init
  <1> QED BY <1>1, <1>2, <1>3, <1>4, <1>5 DEF Typed

LEMMA ChangeTyped ==
  ASSUME Typed, NEW content \in [Subject -> Content \cup {Absent}], Change(content)
  PROVE  Typed'
  <1>1. changes' = changes + 1 /\ changes \in Nat /\ changes' \in 0..MaxChanges
    BY LiveAssumption DEF Change, Typed, LiveAssumption
  <1>2. bus' \in Seq(Segment)
    <2> DEFINE one == [added |-> {s \in Subject : db[s] = Absent /\ content[s] # Absent},
                       removed |-> {s \in Subject : db[s] # Absent /\ content[s] = Absent},
                       changed |-> {s \in Subject : db[s] # content[s]}]
    <2>1. one \in Segment
      BY DEF Segment
    <2>2. bus' = Append(bus, one) /\ bus \in Seq(Segment)
      BY DEF Change, Typed
    <2> HIDE DEF one, Segment
    <2> QED BY <2>1, <2>2, AppendProperties
  <1>3. \A at : at \in {Unexecuted} \cup 0..changes => at \in {Unexecuted} \cup 0..changes'
    BY <1>1
  <1>4. latest' \in [Subject -> 0..changes']
    <2>1. latest' = latest /\ latest \in [Subject -> 0..changes]
      BY DEF Change, Typed, history
    <2>2. \A at \in 0..changes : at \in 0..changes'
      BY <1>1
    <2> QED BY <2>1, <2>2
  <1>5. /\ db' = content /\ queries' = queries /\ tr' = tr /\ id2iri' = id2iri
        /\ segments' = segments /\ text' = text /\ overtaken' = overtaken
        /\ forgotten' = forgotten
    BY DEF Change, history
  <1>6. \A i \in 1..Len(queries') : queries'[i].at \in {Unexecuted} \cup 0..changes'
    BY <1>3, <1>5 DEF Typed
  <1>7. Within(tr')
    BY <1>5 DEF Typed
  <1> QED BY <1>1, <1>2, <1>4, <1>5, <1>6, <1>7 DEF Typed

\* What execution of a query does to it.
LEMMA ExecuteIs ==
  ASSUME Typed, NEW i \in 1..Len(queries), Execute(i)
  PROVE  /\ queries' \in Seq(Asked)
         /\ Executed(queries, queries', i, changes, Answer(db, queries[i].about))
         /\ queries[i].at = Unexecuted /\ queries[i].about \in SUBSET Subject
  <1> DEFINE answer == Answer(db, queries[i].about)
  <1>1. queries \in Seq(Asked) /\ queries[i] \in Asked
    BY ElementOfSeq DEF Typed
  <1>2. queries[i].about \in SUBSET Subject
    BY <1>1 DEF Asked
  <1>3. answer \in Seq(Row)
    BY <1>2, AnswerIs DEF Typed
  <1>4. changes \in Nat
    BY LiveAssumption DEF Typed, LiveAssumption
  <1>5. queries' = [queries EXCEPT ![i].at = changes, ![i].answer = answer]
    BY DEF Execute
  <1> HIDE DEF answer
  <1>6. queries' \in Seq(Asked) /\ Executed(queries, queries', i, changes, answer)
    BY <1>1, <1>3, <1>4, <1>5, ExecutedIs
  <1> QED BY <1>2, <1>6 DEF Execute, answer

LEMMA ExecuteTyped ==
  ASSUME Typed, NEW i \in 1..Len(queries), Execute(i)
  PROVE  Typed'
  <1>1. /\ db' = db /\ changes' = changes /\ bus' = bus /\ segments' = segments
        /\ id2iri' = id2iri /\ tr' = tr /\ text' = text /\ latest' = latest
        /\ overtaken' = overtaken /\ forgotten' = forgotten
    BY DEF Execute, tracker, history
  <1>2. /\ queries' \in Seq(Asked) /\ Len(queries') = Len(queries)
        /\ \A j \in 1..Len(queries) : j # i => queries'[j] = queries[j]
        /\ queries'[i].at = changes
    BY ExecuteIs DEF Executed
  <1>3. changes \in 0..changes
    BY LiveAssumption DEF Typed, LiveAssumption
  <1>4. \A j \in 1..Len(queries') : queries'[j].at \in {Unexecuted} \cup 0..changes'
    BY <1>1, <1>2, <1>3 DEF Typed
  <1>5. Within(tr')
    BY <1>1 DEF Typed
  <1> QED BY <1>1, <1>2, <1>4, <1>5 DEF Typed

\* What dispatch of a segment does to the queries.
LEMMA DispatchIs ==
  ASSUME Typed, NEW segment \in Segment, NEW known \in SUBSET Subject,
         dispatchClassUpdateSignals(segment, known)
  PROVE  /\ Joined(queries, queries')
         /\ \A i \in 1..Len(queries') : queries'[i].at \in {Unexecuted} \cup 0..changes
         /\ AskedFor(queries', segment.changed \cap known)
         /\ forgotten' = (forgotten \cup segment.changed) \ known
         /\ forgotten' \in SUBSET Subject
  <1>1. queries \in Seq(Asked)
    BY DEF Typed
  <1>2. queries' = queries \o tripleUpdates(segment.added \cap known)
                           \o tripleUpdates(segment.removed \cap known)
                           \o tripleUpdates(segment.changed \cap known)
    BY DEF dispatchClassUpdateSignals
  <1>3. /\ Joined(queries, queries')
        /\ AskedFor(queries', segment.changed \cap known)
    BY <1>1, <1>2, DispatchJoins
  <1>4. \A i \in 1..Len(queries') : queries'[i].at \in {Unexecuted} \cup 0..changes
    BY <1>3 DEF Joined, Typed
  <1>5. /\ forgotten' = (forgotten \cup segment.changed) \ known
        /\ forgotten' \in SUBSET Subject
    BY DEF dispatchClassUpdateSignals, Touched, Typed, Segment
  <1> QED BY <1>3, <1>4, <1>5

LEMMA GraphUpdatedTyped ==
  ASSUME Typed, GraphUpdated
  PROVE  Typed'
  <1>1. /\ db' = db /\ changes' = changes /\ id2iri' = id2iri /\ tr' = tr /\ text' = text
        /\ latest' = latest /\ overtaken' = overtaken
    BY DEF GraphUpdated, history
  <1>2. /\ bus' \in Seq(Segment) /\ Head(bus) \in Segment
    BY HeadTailProperties DEF GraphUpdated, Typed
  <1>3. Within(tr')
    BY <1>1 DEF Typed
  <1>4. CASE /\ dispatchClassUpdateSignals(Head(bus), id2iri)
             /\ UNCHANGED segments
    <2>1. /\ queries' \in Seq(Asked) /\ forgotten' \in SUBSET Subject
          /\ \A i \in 1..Len(queries') : queries'[i].at \in {Unexecuted} \cup 0..changes'
      BY <1>1, <1>2, <1>4, DispatchIs DEF Typed, Joined
    <2> QED BY <1>1, <1>2, <1>3, <1>4, <2>1 DEF Typed
  <1>5. CASE /\ segments' = Append(segments, Head(bus))
             /\ UNCHANGED <<queries, forgotten>>
    <2>1. segments' \in Seq(Segment)
      BY <1>2, <1>5, AppendProperties DEF Typed
    <2>2. queries' = queries /\ forgotten' = forgotten
      BY <1>5
    <2>3. \A i \in 1..Len(queries') : queries'[i].at \in {Unexecuted} \cup 0..changes'
      BY <1>1, <2>2 DEF Typed
    <2> QED BY <1>1, <1>2, <1>3, <2>1, <2>2, <2>3 DEF Typed
  <1> QED BY <1>4, <1>5 DEF GraphUpdated

LEMMA segmentCompleteTyped ==
  ASSUME Typed, NEW i \in 1..Len(segments), segmentComplete(i)
  PROVE  Typed'
  <1> DEFINE found == {s \in Touched(segments[i]) : db[s] # Absent}
             known == id2iri \cup found
  <1>1. /\ db' = db /\ changes' = changes /\ bus' = bus /\ tr' = tr /\ text' = text
        /\ latest' = latest /\ overtaken' = overtaken
    BY DEF segmentComplete, tracker, history
  <1>2. segments[i] \in Segment /\ segments \in Seq(Segment)
    BY ElementOfSeq DEF Typed
  <1>3. id2iri' = known /\ known \in SUBSET Subject
    BY <1>2 DEF segmentComplete, Typed, Touched, Segment
  <1>4. segments' \in Seq(Segment)
    BY <1>2, RemoveAtTakes DEF segmentComplete
  <1>5. dispatchClassUpdateSignals(segments[i], known)
    BY DEF segmentComplete
  <1> HIDE DEF known
  <1>6. /\ queries' \in Seq(Asked) /\ forgotten' \in SUBSET Subject
        /\ \A j \in 1..Len(queries') : queries'[j].at \in {Unexecuted} \cup 0..changes'
    BY <1>1, <1>2, <1>3, <1>5, DispatchIs DEF Joined
  <1>7. Within(tr')
    BY <1>1 DEF Typed
  <1> QED BY <1>1, <1>3, <1>4, <1>6, <1>7 DEF Typed

\* What an answered query is.
LEMMA AnsweredIs ==
  ASSUME Typed, NEW i \in 1..Len(queries), Answered(i)
  PROVE  /\ queries[i] \in Asked /\ queries[i].about \in SUBSET Subject
         /\ queries[i].answer \in Seq(Row) /\ queries[i].at \in 0..changes
         /\ queries' \in Seq(Asked) /\ Taken(queries, queries', i)
         /\ tr.phase = "none"
         /\ \/ /\ queries[i].kind = "all"
               /\ tr' = Settled(queries[i].answer, queries[i].answer)
            \/ /\ queries[i].kind = "update"
               /\ tr' = update(tr.rows, tr.view, queries[i].answer, queries[i].about)
  <1>1. queries[i] \in Asked /\ queries \in Seq(Asked)
    BY ElementOfSeq DEF Typed
  <1>2. queries[i].about \in SUBSET Subject /\ queries[i].answer \in Seq(Row)
    BY <1>1 DEF Asked
  <1>3. queries[i].at \in 0..changes
    BY DEF Typed, Answered
  <1>4. queries' \in Seq(Asked) /\ Taken(queries, queries', i)
    BY <1>1, RemoveAtTakes DEF Answered
  <1> QED BY <1>1, <1>2, <1>3, <1>4 DEF Answered, Idle, Fill, LiveUpdate, rows, view

LEMMA AnsweredTyped ==
  ASSUME Typed, NEW i \in 1..Len(queries), Answered(i)
  PROVE  Typed'
  <1> DEFINE q == queries[i]
  <1>1. /\ db' = db /\ changes' = changes /\ bus' = bus /\ segments' = segments
        /\ id2iri' = id2iri /\ text' = text /\ forgotten' = forgotten
    BY DEF Answered, tracker
  <1>2. /\ q.about \in SUBSET Subject /\ q.answer \in Seq(Row) /\ q.at \in 0..changes
        /\ queries' \in Seq(Asked) /\ Taken(queries, queries', i)
        /\ tr.phase = "none"
        /\ \/ tr' = Settled(q.answer, q.answer)
           \/ tr' = update(tr.rows, tr.view, q.answer, q.about)
    BY AnsweredIs
  <1>3. /\ latest' = [s \in Subject |->
             IF s \in q.about /\ q.at > latest[s] THEN q.at ELSE latest[s]]
        /\ overtaken' = (overtaken \ q.about) \cup {s \in q.about : q.at < latest[s]}
    BY DEF Answered, Shows
  <1> HIDE DEF q
  <1>4. latest' \in [Subject -> 0..changes'] /\ overtaken' \in SUBSET Subject
    <2>1. \A s \in Subject : latest'[s] \in 0..changes
      BY <1>2, <1>3 DEF Typed
    <2> QED BY <1>1, <1>2, <1>3, <2>1 DEF Typed
  <1>5. \A k \in 1..Len(queries') : queries'[k].at \in {Unexecuted} \cup 0..changes'
    BY <1>1, <1>2 DEF Taken, Typed
  <1>6. Within(tr')
    BY <1>2, SettledIs, UpdateBegins DEF Typed
  <1> QED BY <1>1, <1>2, <1>4, <1>5, <1>6 DEF Typed

LEMMA TransitTyped ==
  ASSUME Typed, Transit
  PROVE  Typed'
  <1>1. /\ db' = db /\ changes' = changes /\ bus' = bus /\ segments' = segments
        /\ id2iri' = id2iri /\ queries' = queries /\ text' = text /\ latest' = latest
        /\ overtaken' = overtaken /\ forgotten' = forgotten
    BY DEF Transit, tracker, history
  <1>2. Within(tr')
    BY AdvanceSteps, MergeSteps DEF Transit, Typed
  <1>3. \A i \in 1..Len(queries') : queries'[i].at \in {Unexecuted} \cup 0..changes'
    BY <1>1 DEF Typed
  <1> QED BY <1>1, <1>2, <1>3 DEF Typed

LEMMA StaysTyped == Typed /\ [Next]_vars => Typed'
  <1> SUFFICES ASSUME Typed, [Next]_vars PROVE Typed'
    OBVIOUS
  <1>1. CASE UNCHANGED vars
    <2>1. /\ db' = db /\ changes' = changes /\ bus' = bus /\ segments' = segments
          /\ id2iri' = id2iri /\ queries' = queries /\ text' = text /\ latest' = latest
          /\ overtaken' = overtaken /\ forgotten' = forgotten /\ tr' = tr
      BY <1>1 DEF vars, tracker, history
    <2>2. Within(tr')
      BY <2>1 DEF Typed
    <2>3. \A i \in 1..Len(queries') : queries'[i].at \in {Unexecuted} \cup 0..changes'
      BY <2>1 DEF Typed
    <2> QED BY <2>1, <2>2, <2>3 DEF Typed
  <1>2. CASE Next
    BY <1>2, ChangeTyped, GraphUpdatedTyped, segmentCompleteTyped, ExecuteTyped,
       AnsweredTyped, TransitTyped DEF Next
  <1> QED BY <1>1, <1>2

LEMMA AlwaysTyped == Spec => []Typed
  BY InitTyped, StaysTyped, PTL DEF Spec

\* The parts of the state are of their shapes, and a merge stays within the rows
\* and the source it merges: no change, removal or insertion is signalled, and no
\* row read, beyond their ends.
THEOREM ShapeIsKept == Spec => []TypeOK
  <1>1. Typed => TypeOK
    <2> SUFFICES ASSUME Typed PROVE TypeOK
      OBVIOUS
    <2>1. \A i \in 1..Len(queries) :
            /\ queries[i].kind \in {"all", "update"} /\ queries[i].about \subseteq Subject
            /\ queries[i].answer \in Seq(Row)
      <3> TAKE i \in 1..Len(queries)
      <3>1. queries[i] \in Asked
        BY ElementOfSeq DEF Typed
      <3> QED BY <3>1 DEF Asked
    <2> QED BY <2>1 DEF Typed, TypeOK, Within, rows
  <1> QED BY <1>1, AlwaysTyped, PTL

\* At every signal of a merge, and of a model that is filled, a view that follows
\* the signals has the rows of the model.
THEOREM ViewIsKept == Spec => []ViewFollows
  <1>1. Typed => ViewFollows
    BY DEF Typed, Within, ViewFollows, rows, view
  <1> QED BY <1>1, AlwaysTyped, PTL

----------------------------------------------------------------------------
(* The order of the rows.                                                  *)

\* A query that is executed has its rows in order, one of each resource.
AnswerOrdered(q) ==
  q.at # Unexecuted =>
    /\ Sorted(q.answer) /\ Distinct(q.answer)
    /\ \A j \in 1..Len(q.answer) : q.answer[j].id \in q.about

AnswersOrdered == \A i \in 1..Len(queries) : AnswerOrdered(queries[i])

RowsOrdered == TextsInOrder => Ordered(tr)

\* Texts then compare as the order of rows.
LEMMA TextsRank ==
  ASSUME text \in TextRanks, TextsInOrder
  PROVE  Ranked(text)
  <1>1. text \in [Orders -> Nat]
    BY LiveAssumption DEF LiveAssumption, Orders
  <1> QED BY <1>1, RisingRanks DEF TextsInOrder

LEMMA InitOrdered == Init => AnswersOrdered /\ RowsOrdered
  <1> SUFFICES ASSUME Init PROVE AnswersOrdered /\ RowsOrdered
    OBVIOUS
  <1>1. AnswersOrdered
    BY DEF Init, AnswersOrdered, AnswerOrdered, Query
  <1>2. Ordered(tr)
    <2>1. <<>> \in Seq(Row) /\ Sorted(<<>>) /\ Distinct(<<>>)
      BY DEF Sorted, Distinct
    <2> QED BY <2>1, SettledIs DEF Init
  <1> QED BY <1>1, <1>2 DEF RowsOrdered

LEMMA AnswersStayOrdered ==
  ASSUME Typed, AnswersOrdered, [Next]_vars
  PROVE  AnswersOrdered'
  <1>1. CASE queries' = queries
    BY <1>1 DEF AnswersOrdered
  <1>2. CASE Joined(queries, queries')
    BY <1>2 DEF Joined, AnswersOrdered, AnswerOrdered
  <1>3. CASE GraphUpdated
    <2>1. CASE dispatchClassUpdateSignals(Head(bus), id2iri)
      <3>1. Head(bus) \in Segment /\ id2iri \in SUBSET Subject
        BY <1>3, HeadTailProperties DEF GraphUpdated, Typed
      <3> QED BY <1>2, <2>1, <3>1, DispatchIs
    <2>2. CASE queries' = queries
      BY <1>1, <2>2
    <2> QED BY <1>3, <2>1, <2>2 DEF GraphUpdated
  <1>4. ASSUME NEW i \in 1..Len(segments), segmentComplete(i)
        PROVE  AnswersOrdered'
    <2> DEFINE known == id2iri \cup {s \in Touched(segments[i]) : db[s] # Absent}
    <2>1. segments[i] \in Segment
      BY ElementOfSeq DEF Typed
    <2>2. known \in SUBSET Subject
      BY <2>1 DEF Typed, Touched, Segment
    <2>3. dispatchClassUpdateSignals(segments[i], known)
      BY <1>4 DEF segmentComplete
    <2> HIDE DEF known
    <2> QED BY <1>2, <2>1, <2>2, <2>3, DispatchIs
  <1>5. ASSUME NEW i \in 1..Len(queries), Execute(i)
        PROVE  AnswersOrdered'
    <2> DEFINE about == queries[i].about
               answer == Answer(db, about)
    <2>1. Executed(queries, queries', i, changes, answer) /\ about \in SUBSET Subject
      BY <1>5, ExecuteIs
    <2>2. /\ Sorted(answer) /\ Distinct(answer)
          /\ \A j \in 1..Len(answer) : answer[j].id \in about
      BY <2>1, AnswerIs DEF Typed
    <2> HIDE DEF answer
    <2>3. AnswerOrdered(queries'[i])
      BY <2>1, <2>2 DEF Executed, AnswerOrdered
    <2>4. ASSUME NEW j \in 1..Len(queries') PROVE AnswerOrdered(queries'[j])
      <3>1. CASE j = i
        BY <2>3, <3>1
      <3>2. CASE j # i
        BY <2>1, <3>2 DEF Executed, AnswersOrdered
      <3> QED BY <3>1, <3>2
    <2> QED BY <2>4 DEF AnswersOrdered
  <1>6. ASSUME NEW i \in 1..Len(queries), Answered(i)
        PROVE  AnswersOrdered'
    BY <1>6, AnsweredIs DEF Taken, AnswersOrdered
  <1>7. ASSUME NEW content \in [Subject -> Content \cup {Absent}], Change(content)
        PROVE  AnswersOrdered'
    BY <1>1, <1>7 DEF Change
  <1>8. CASE Transit
    BY <1>1, <1>8 DEF Transit
  <1>9. CASE UNCHANGED vars
    BY <1>1, <1>9 DEF vars
  <1> QED BY <1>3, <1>4, <1>5, <1>6, <1>7, <1>8, <1>9 DEF Next

\* An answer begins an update in order.
LEMMA AnsweredOrdered ==
  ASSUME Typed, AnswersOrdered, NEW i \in 1..Len(queries), Answered(i), Ordered(tr)
  PROVE  Ordered(tr')
  <1> DEFINE q == queries[i]
  <1>1. /\ q.about \in SUBSET Subject /\ q.answer \in Seq(Row) /\ tr.phase = "none"
        /\ \/ tr' = Settled(q.answer, q.answer)
           \/ tr' = update(tr.rows, tr.view, q.answer, q.about)
    BY AnsweredIs
  <1>2. /\ Sorted(q.answer) /\ Distinct(q.answer)
        /\ \A j \in 1..Len(q.answer) : q.answer[j].id \in q.about
    BY DEF AnswersOrdered, AnswerOrdered, Answered
  <1>3. Within(tr)
    BY DEF Typed
  <1> HIDE DEF q
  <1>4. CASE tr' = Settled(q.answer, q.answer)
    BY <1>1, <1>2, <1>4, SettledIs
  <1>5. CASE tr' = update(tr.rows, tr.view, q.answer, q.about)
    BY <1>1, <1>2, <1>3, <1>5, UpdateBegins
  <1> QED BY <1>1, <1>4, <1>5

\* The merge stays in order, and what it will show of each resource is the same.
LEMMA TransitInStep ==
  ASSUME Typed, Transit, TextsInOrder, Ordered(tr)
  PROVE  InStep(tr, tr')
  <1>1. Ranked(text)
    BY TextsRank DEF Typed
  <1>2. Within(tr)
    BY DEF Typed
  <1>3. CASE tr.phase = "rows" /\ tr' = Advance(tr)
    BY <1>2, <1>3, AdvanceInOrder
  <1>4. CASE tr.phase = "merge" /\ tr' = Merge(tr, text)
    BY <1>1, <1>2, <1>4, MergeInOrder
  <1> QED BY <1>3, <1>4 DEF Transit

LEMMA RowsStayOrdered ==
  ASSUME Typed, AnswersOrdered, RowsOrdered, [Next]_vars
  PROVE  RowsOrdered'
  <1>1. text' = text
    BY DEF Next, vars, Change, GraphUpdated, segmentComplete, Execute, Answered, Transit
  <1>2. TextsInOrder' => TextsInOrder
    BY <1>1 DEF TextsInOrder
  <1>3. SUFFICES ASSUME TextsInOrder, Ordered(tr) PROVE Ordered(tr')
    BY <1>2 DEF RowsOrdered
  <1>4. CASE tr' = tr
    BY <1>3, <1>4
  <1>5. ASSUME NEW i \in 1..Len(queries), Answered(i) PROVE Ordered(tr')
    BY <1>3, <1>5, AnsweredOrdered
  <1>6. CASE Transit
    BY <1>3, <1>6, TransitInStep DEF InStep
  <1>7. Transit \/ tr' = tr \/ \E i \in 1..Len(queries) : Answered(i)
    BY DEF Next, vars, Change, GraphUpdated, segmentComplete, Execute
  <1> QED BY <1>4, <1>5, <1>6, <1>7

LEMMA AlwaysOrdered == Spec => [](Typed /\ AnswersOrdered /\ RowsOrdered)
  <1>1. Init => Typed /\ AnswersOrdered /\ RowsOrdered
    BY InitTyped, InitOrdered
  <1>2. Typed /\ AnswersOrdered /\ RowsOrdered /\ [Next]_vars
          => (Typed /\ AnswersOrdered /\ RowsOrdered)'
    BY StaysTyped, AnswersStayOrdered, RowsStayOrdered
  <1> QED BY <1>1, <1>2, PTL DEF Spec

\* In whatever order updates are signalled, queried and answered, once an update
\* is merged every resource has one row and the rows are in the order of the
\* database, when texts compare as the database does.
THEOREM OneRowEachIsKept == Spec => []OneRowEach
  <1>1. Typed /\ RowsOrdered => OneRowEach
    <2> SUFFICES ASSUME RowsOrdered, Idle, TextsInOrder
                 PROVE  \A i, j \in 1..Len(rows) : i < j =>
                          rows[i].id # rows[j].id /\ Precedes(rows[i], rows[j])
      BY DEF OneRowEach
    <2>1. Sorted(tr.rows) /\ Distinct(tr.rows)
      BY DEF RowsOrdered, Ordered, Idle
    <2> QED BY <2>1 DEF Sorted, Distinct, rows
  <1> QED BY <1>1, AlwaysOrdered, PTL

\* The loop over removed_rows and inserted_rows comes to an end: at a row that it
\* neither removes nor passes it inserts one, when texts compare as the database
\* does.
THEOREM NeverHangsInOrder == Spec => []HangsOnlyOutOfOrder
  <1>1. RowsOrdered => HangsOnlyOutOfOrder
    BY DEF RowsOrdered, Ordered, HangsOnlyOutOfOrder, hangs
  <1> QED BY <1>1, AlwaysOrdered, PTL

----------------------------------------------------------------------------
(* Agreement.  Of each resource there is a number c of changes, of which    *)
(* the last has touched it, such that what saw c changes saw it as it is.   *)

\* Answers of queries executed after c changes have what the database has of s.
FreshAnswers(q, content, s, c) ==
  \A i \in 1..Len(q) : s \in q[i].about /\ q[i].at # Unexecuted /\ q[i].at >= c =>
    RowsAbout(q[i].answer, s) = Found(content, s)

\* The model's own query is answered.
Filled(q) == \A i \in 1..Len(q) : q[i].kind # "all"

\* A query under way will tell of s.
Telling(one, s, c) == s \in one.about /\ (one.at = Unexecuted \/ one.at >= c)
WillTell(q, s, c) == \E i \in 1..Len(q) : Telling(q[i], s, c)

\* A signal or a segment under way touches s.
Touching(q, s) == \E i \in 1..Len(q) : s \in q[i].changed

Fresh(s, c) ==
  /\ FreshAnswers(queries, db, s, c)
  /\ TextsInOrder /\ Filled(queries) /\ latest[s] >= c /\ s \notin overtaken =>
       Showing(tr, s) = Found(db, s)
  /\ \/ s \in forgotten
     \/ latest[s] >= c
     \/ Touching(bus, s)
     \/ Touching(segments, s)
     \/ WillTell(queries, s, c)

Traced == \A s \in Subject : \E c \in 0..changes : Fresh(s, c)

\* The model's own query is about all resources; and an id that is forgotten is
\* not known.
Tellable ==
  /\ \A i \in 1..Len(queries) : queries[i].kind = "all" => queries[i].about = Subject
  /\ forgotten \cap id2iri = {}

LEMMA JoinedKeeps ==
  ASSUME NEW q, NEW r, Joined(q, r), NEW content, NEW s, NEW c
  PROVE  /\ FreshAnswers(q, content, s, c) => FreshAnswers(r, content, s, c)
         /\ Filled(r) => Filled(q)
         /\ WillTell(q, s, c) => WillTell(r, s, c)
  <1>1. FreshAnswers(q, content, s, c) => FreshAnswers(r, content, s, c)
    BY DEF Joined, FreshAnswers
  <1>2. Filled(r) => Filled(q)
    BY DEF Joined, Filled
  <1>3. WillTell(q, s, c) => WillTell(r, s, c)
    BY DEF Joined, WillTell
  <1> QED BY <1>1, <1>2, <1>3

LEMMA TakenKeeps ==
  ASSUME NEW q, NEW r, NEW i \in 1..Len(q), Taken(q, r, i), NEW content, NEW s, NEW c
  PROVE  /\ FreshAnswers(q, content, s, c) => FreshAnswers(r, content, s, c)
         /\ Filled(r) /\ q[i].kind # "all" => Filled(q)
         /\ WillTell(q, s, c) => WillTell(r, s, c) \/ Telling(q[i], s, c)
         /\ Touching(q, s) => Touching(r, s) \/ s \in q[i].changed
  <1>1. FreshAnswers(q, content, s, c) => FreshAnswers(r, content, s, c)
    BY DEF Taken, FreshAnswers
  <1>2. Filled(r) /\ q[i].kind # "all" => Filled(q)
    BY DEF Taken, Filled
  <1>3. WillTell(q, s, c) => WillTell(r, s, c) \/ Telling(q[i], s, c)
    BY DEF Taken, WillTell
  <1>4. Touching(q, s) => Touching(r, s) \/ s \in q[i].changed
    BY DEF Taken, Touching
  <1> QED BY <1>1, <1>2, <1>3, <1>4

\* Who is asked for will be told of.
LEMMA AskedTells ==
  ASSUME NEW r, NEW subjects, AskedFor(r, subjects), NEW s \in subjects, NEW c
  PROVE  WillTell(r, s, c)
  BY DEF AskedFor, WillTell, Telling

\* After a dispatch what was forgotten or is touched is forgotten or asked for.
LEMMA DispatchTraces ==
  ASSUME Typed, Tellable, NEW segment \in Segment, NEW known \in SUBSET Subject,
         NEW found \in SUBSET segment.changed, known = id2iri \cup found,
         dispatchClassUpdateSignals(segment, known),
         NEW s, s \in forgotten \/ s \in segment.changed, NEW c
  PROVE  s \in forgotten' \/ WillTell(queries', s, c)
  <1>1. /\ AskedFor(queries', segment.changed \cap known)
        /\ forgotten' = (forgotten \cup segment.changed) \ known
    BY DispatchIs
  <1>2. CASE s \notin known
    BY <1>1, <1>2
  <1>3. CASE s \in known
    <2>1. s \in segment.changed \cap known
      BY <1>3 DEF Tellable
    <2> QED BY <1>1, <2>1, AskedTells
  <1> QED BY <1>2, <1>3

LEMMA InitTraced == Init => Tellable /\ Traced
  <1> SUFFICES ASSUME Init PROVE Tellable /\ Traced
    OBVIOUS
  <1>1. /\ Len(queries) = 1 /\ queries[1].kind = "all" /\ queries[1].about = Subject
        /\ queries[1].at = Unexecuted
    BY DEF Init, Query
  <1>2. Tellable
    BY <1>1 DEF Tellable, Init
  <1>3. ASSUME NEW s \in Subject PROVE 0 \in 0..changes /\ Fresh(s, 0)
    <2>1. changes = 0 /\ latest[s] = 0
      BY DEF Init
    <2>2. FreshAnswers(queries, db, s, 0)
      BY <1>1 DEF FreshAnswers
    <2>3. ~Filled(queries)
      BY <1>1 DEF Filled
    <2> QED BY <2>1, <2>2, <2>3 DEF Fresh
  <1> QED BY <1>2, <1>3 DEF Traced

LEMMA ChangeTraced ==
  ASSUME Typed, NEW content \in [Subject -> Content \cup {Absent}], Change(content),
         NEW s \in Subject, NEW c \in 0..changes, Fresh(s, c)
  PROVE  \E d \in 0..changes' : Fresh(s, d)'
  <1> DEFINE one == [added |-> {x \in Subject : db[x] = Absent /\ content[x] # Absent},
                     removed |-> {x \in Subject : db[x] # Absent /\ content[x] = Absent},
                     changed |-> {x \in Subject : db[x] # content[x]}]
             k == Len(bus)
  <1>1. /\ db' = content /\ queries' = queries /\ tr' = tr /\ segments' = segments
        /\ text' = text /\ latest' = latest /\ overtaken' = overtaken
        /\ forgotten' = forgotten
    BY DEF Change, history
  <1>2. changes' = changes + 1 /\ changes \in Nat /\ c \in Nat
    BY LiveAssumption DEF Change, Typed, LiveAssumption
  <1>3. /\ k \in Nat /\ Len(bus') = k + 1 /\ bus'[k + 1] = one
        /\ \A i \in 1..k : bus'[i] = bus[i]
    <2>1. one \in Segment
      BY DEF Segment
    <2>2. bus' = Append(bus, one) /\ bus \in Seq(Segment)
      BY DEF Change, Typed
    <2> HIDE DEF one
    <2> QED BY <2>1, <2>2, AppendProperties, LenProperties
  <1>4. CASE db[s] # content[s]
    <2>1. PICK d \in 0..changes' : d = changes + 1
      BY <1>2
    <2>2. \A at \in {Unexecuted} \cup 0..changes : at # Unexecuted => ~(at >= d)
      BY <1>2, <2>1
    <2>3. ASSUME NEW i \in 1..Len(queries), queries[i].at # Unexecuted
          PROVE  ~(queries[i].at >= d)
      BY <2>2, <2>3 DEF Typed
    <2>4. FreshAnswers(queries', db', s, d)
      BY <1>1, <2>3 DEF FreshAnswers
    <2>5. ~(latest'[s] >= d)
      <3>1. latest[s] \in 0..changes
        BY DEF Typed
      <3> QED BY <1>1, <1>2, <2>1, <3>1
    <2>6. Touching(bus', s)
      <3>1. k + 1 \in 1..(k + 1)
        BY <1>3
      <3>2. s \in one.changed
        BY <1>4
      <3> HIDE DEF one, k
      <3> QED BY <1>3, <3>1, <3>2 DEF Touching
    <2>7. Fresh(s, d)'
      BY <2>4, <2>5, <2>6 DEF Fresh
    <2> QED BY <2>7
  <1>5. CASE db[s] = content[s]
    <2>1. Found(db', s) = Found(db, s)
      BY <1>1, <1>5 DEF Found
    <2>2. FreshAnswers(queries', db', s, c)
      BY <1>1, <2>1 DEF Fresh, FreshAnswers
    <2>3. Touching(bus, s) => Touching(bus', s)
      <3>1. \A i \in 1..k : i \in 1..(k + 1)
        BY <1>3
      <3> QED BY <1>3, <3>1 DEF Touching
    <2>4. TextsInOrder' => TextsInOrder
      BY <1>1 DEF TextsInOrder
    <2>5. Fresh(s, c)'
      BY <1>1, <2>1, <2>2, <2>3, <2>4 DEF Fresh
    <2>6. c \in 0..changes'
      BY <1>2
    <2> QED BY <2>5, <2>6
  <1> QED BY <1>4, <1>5

LEMMA ExecuteTraced ==
  ASSUME Typed, NEW i \in 1..Len(queries), Execute(i),
         NEW s \in Subject, NEW c \in 0..changes, Fresh(s, c)
  PROVE  Fresh(s, c)'
  <1> DEFINE about == queries[i].about
             answer == Answer(db, about)
  <1>1. /\ db' = db /\ bus' = bus /\ segments' = segments /\ tr' = tr /\ text' = text
        /\ latest' = latest /\ overtaken' = overtaken /\ forgotten' = forgotten
    BY DEF Execute, tracker, history
  <1>2. /\ Executed(queries, queries', i, changes, answer)
        /\ queries[i].at = Unexecuted /\ about \in SUBSET Subject
    BY ExecuteIs
  <1>3. s \in about => RowsAbout(answer, s) = Found(db, s)
    BY <1>2, AnswerIs DEF Typed
  <1>4. changes >= c
    BY LiveAssumption DEF Typed, LiveAssumption
  <1> HIDE DEF about, answer
  <1>5. FreshAnswers(queries', db', s, c)
    <2> SUFFICES ASSUME NEW j \in 1..Len(queries'), s \in queries'[j].about,
                        queries'[j].at # Unexecuted, queries'[j].at >= c
                 PROVE  RowsAbout(queries'[j].answer, s) = Found(db', s)
      BY DEF FreshAnswers
    <2>1. CASE j = i
      BY <1>1, <1>2, <1>3, <2>1 DEF Executed, about
    <2>2. CASE j # i
      <3>1. j \in 1..Len(queries) /\ queries'[j] = queries[j]
        BY <1>2, <2>2 DEF Executed
      <3> QED BY <1>1, <3>1 DEF Fresh, FreshAnswers
    <2> QED BY <2>1, <2>2
  <1>6. Filled(queries') => Filled(queries)
    <2> SUFFICES ASSUME Filled(queries'), NEW j \in 1..Len(queries)
                 PROVE  queries[j].kind # "all"
      BY DEF Filled
    <2>1. CASE j = i
      BY <1>2, <2>1 DEF Executed, Filled
    <2>2. CASE j # i
      BY <1>2, <2>2 DEF Executed, Filled
    <2> QED BY <2>1, <2>2
  <1>7. WillTell(queries, s, c) => WillTell(queries', s, c)
    <2> SUFFICES ASSUME NEW j \in 1..Len(queries), Telling(queries[j], s, c)
                 PROVE  Telling(queries'[j], s, c) /\ j \in 1..Len(queries')
      BY DEF WillTell
    <2>1. CASE j = i
      BY <1>2, <1>4, <2>1 DEF Executed, Telling
    <2>2. CASE j # i
      BY <1>2, <2>2 DEF Executed
    <2> QED BY <2>1, <2>2
  <1>8. TextsInOrder' => TextsInOrder
    BY <1>1 DEF TextsInOrder
  <1> QED BY <1>1, <1>5, <1>6, <1>7, <1>8 DEF Fresh

LEMMA GraphUpdatedTraced ==
  ASSUME Typed, Tellable, GraphUpdated,
         NEW s \in Subject, NEW c \in 0..changes, Fresh(s, c)
  PROVE  Fresh(s, c)'
  <1> DEFINE one == Head(bus)
  <1>1. /\ db' = db /\ tr' = tr /\ text' = text /\ latest' = latest
        /\ overtaken' = overtaken
    BY DEF GraphUpdated, history
  <1>2. /\ bus \in Seq(Segment) /\ bus # <<>> /\ bus' = Tail(bus) /\ one \in Segment
    BY HeadTailProperties DEF GraphUpdated, Typed
  <1>3. Touching(bus, s) => Touching(bus', s) \/ s \in one.changed
    <2> SUFFICES ASSUME NEW i \in 1..Len(bus), s \in bus[i].changed, s \notin one.changed
                 PROVE  Touching(bus', s)
      BY DEF Touching
    <2> DEFINE n == Len(bus)
    <2>1. /\ n \in Nat /\ Len(Tail(bus)) = n - 1
          /\ \A j \in 1..(n - 1) : Tail(bus)[j] = bus[j + 1]
      <3>1. /\ Len(Tail(bus)) = Len(bus) - 1
            /\ \A j \in 1..Len(Tail(bus)) : Tail(bus)[j] = bus[j + 1]
        BY <1>2, HeadTailProperties
      <3> QED BY <1>2, <3>1, LenProperties
    <2>2. i # 1
      <3>1. one = bus[1]
        BY <1>2
      <3> QED BY <3>1
    <2> HIDE DEF n, one
    <2>3. i - 1 \in 1..(n - 1) /\ (i - 1) + 1 = i
      <3>1. i \in 1..n
        BY DEF n
      <3> QED BY <2>1, <2>2, <3>1
    <2>4. Tail(bus)[i - 1] = bus[i]
      BY <2>1, <2>3
    <2> QED BY <1>2, <2>1, <2>3, <2>4 DEF Touching
  <1> HIDE DEF one
  <1>4. TextsInOrder' => TextsInOrder
    BY <1>1 DEF TextsInOrder
  <1>5. CASE /\ Touched(one) \subseteq id2iri
             /\ dispatchClassUpdateSignals(one, id2iri)
             /\ UNCHANGED segments
    <2>1. Joined(queries, queries')
      BY <1>2, <1>5, DispatchIs DEF Typed
    <2>2. s \in forgotten \/ s \in one.changed
             => s \in forgotten' \/ WillTell(queries', s, c)
      <3>1. id2iri \in SUBSET Subject /\ {} \in SUBSET one.changed /\ id2iri = id2iri \cup {}
        BY DEF Typed
      <3> QED BY <1>2, <1>5, <3>1, DispatchTraces
    <2>3. /\ FreshAnswers(queries, db, s, c) => FreshAnswers(queries', db, s, c)
          /\ Filled(queries') => Filled(queries)
          /\ WillTell(queries, s, c) => WillTell(queries', s, c)
      BY <2>1, JoinedKeeps
    <2> QED BY <1>1, <1>3, <1>4, <1>5, <2>2, <2>3 DEF Fresh
  <1>6. CASE /\ segments' = Append(segments, one)
             /\ UNCHANGED <<queries, forgotten>>
    <2> DEFINE k == Len(segments)
    <2>1. /\ k \in Nat /\ Len(segments') = k + 1 /\ segments'[k + 1] = one
          /\ \A i \in 1..k : segments'[i] = segments[i]
      BY <1>2, <1>6, AppendProperties, LenProperties DEF Typed
    <2>2. Touching(segments, s) \/ s \in one.changed => Touching(segments', s)
      <3>1. k + 1 \in 1..(k + 1) /\ \A i \in 1..k : i \in 1..(k + 1)
        BY <2>1
      <3> QED BY <2>1, <3>1 DEF Touching
    <2>3. queries' = queries /\ forgotten' = forgotten
      BY <1>6
    <2> HIDE DEF k
    <2> QED BY <1>1, <1>3, <1>4, <2>2, <2>3 DEF Fresh
  <1> QED BY <1>5, <1>6 DEF GraphUpdated, one

LEMMA segmentCompleteTraced ==
  ASSUME Typed, Tellable, NEW i \in 1..Len(segments), segmentComplete(i),
         NEW s \in Subject, NEW c \in 0..changes, Fresh(s, c)
  PROVE  Fresh(s, c)'
  <1> DEFINE one == segments[i]
             found == {x \in Touched(one) : db[x] # Absent}
             known == id2iri \cup found
  <1>1. /\ db' = db /\ bus' = bus /\ tr' = tr /\ text' = text /\ latest' = latest
        /\ overtaken' = overtaken
    BY DEF segmentComplete, tracker, history
  <1>2. one \in Segment /\ segments \in Seq(Segment)
    BY ElementOfSeq DEF Typed
  <1>3. found \in SUBSET one.changed /\ known \in SUBSET Subject
    BY <1>2 DEF Typed, Touched, Segment
  <1>4. /\ dispatchClassUpdateSignals(one, known)
        /\ segments' = RemoveAt(segments, i)
    BY DEF segmentComplete
  <1>5. known = id2iri \cup found
    OBVIOUS
  <1> HIDE DEF one, found, known
  <1>6. Joined(queries, queries')
    BY <1>2, <1>3, <1>4, DispatchIs
  <1>7. s \in forgotten \/ s \in one.changed
           => s \in forgotten' \/ WillTell(queries', s, c)
    BY <1>2, <1>3, <1>4, <1>5, DispatchTraces
  <1>8. Touching(segments, s) => Touching(segments', s) \/ s \in one.changed
    <2>1. Taken(segments, segments', i)
      BY <1>2, <1>4, RemoveAtTakes
    <2> QED BY <2>1, TakenKeeps DEF one
  <1>9. /\ FreshAnswers(queries, db, s, c) => FreshAnswers(queries', db, s, c)
        /\ Filled(queries') => Filled(queries)
        /\ WillTell(queries, s, c) => WillTell(queries', s, c)
    BY <1>6, JoinedKeeps
  <1>10. TextsInOrder' => TextsInOrder
    BY <1>1 DEF TextsInOrder
  <1> QED BY <1>1, <1>7, <1>8, <1>9, <1>10 DEF Fresh

\* An answer shows the resources it is about as it has them: as they are, if it
\* is not overtaken by one that has been shown.
LEMMA AnsweredTraced ==
  ASSUME Typed, Tellable, NEW i \in 1..Len(queries), Answered(i),
         NEW s \in Subject, NEW c \in 0..changes, Fresh(s, c)
  PROVE  Fresh(s, c)'
  <1> DEFINE q == queries[i]
             at == q.at
             seen == latest[s]
  <1>1. /\ db' = db /\ changes' = changes /\ bus' = bus /\ segments' = segments
        /\ text' = text /\ forgotten' = forgotten
    BY DEF Answered, tracker
  <1>2. /\ q.about \in SUBSET Subject /\ q.answer \in Seq(Row) /\ at \in 0..changes
        /\ Taken(queries, queries', i)
        /\ tr.phase = "none"
        /\ \/ q.kind = "all" /\ tr' = Settled(q.answer, q.answer)
           \/ q.kind = "update" /\ tr' = update(tr.rows, tr.view, q.answer, q.about)
    BY AnsweredIs
  <1>3. /\ latest'[s] = IF s \in q.about /\ at > seen THEN at ELSE seen
        /\ s \in overtaken' <=> (s \in overtaken /\ s \notin q.about)
                                  \/ (s \in q.about /\ at < seen)
    BY DEF Answered, Shows
  <1>4. /\ at \in Nat /\ seen \in Nat /\ c \in Nat
        /\ at # Unexecuted
    <2>1. changes \in Nat /\ seen \in 0..changes
      BY LiveAssumption DEF Typed, LiveAssumption
    <2> QED BY <1>2, <2>1 DEF Unexecuted
  <1>5. s \in q.about /\ at >= c => RowsAbout(q.answer, s) = Found(db, s)
    BY <1>4 DEF Fresh, FreshAnswers
  <1>6. /\ Within(tr)
        /\ q.kind = "all" => q.about = Subject
    BY DEF Typed, Tellable
  <1>7. /\ FreshAnswers(queries, db, s, c) => FreshAnswers(queries', db, s, c)
        /\ Filled(queries') /\ q.kind # "all" => Filled(queries)
        /\ WillTell(queries, s, c) => WillTell(queries', s, c) \/ Telling(q, s, c)
    BY <1>2, TakenKeeps
  <1> HIDE DEF q, at, seen
  <1>8. Showing(tr', s) = IF s \in q.about THEN RowsAbout(q.answer, s) ELSE Showing(tr, s)
    <2>1. CASE q.kind = "all" /\ tr' = Settled(q.answer, q.answer)
      BY <1>2, <1>6, <2>1, SettledIs
    <2>2. CASE tr' = update(tr.rows, tr.view, q.answer, q.about)
      BY <1>2, <1>6, <2>2, UpdateBegins
    <2> QED BY <1>2, <2>1, <2>2
  <1>9. TextsInOrder' => TextsInOrder
    BY <1>1 DEF TextsInOrder
  <1>10. ASSUME TextsInOrder', Filled(queries'), latest'[s] >= c, s \notin overtaken'
         PROVE  Showing(tr', s) = Found(db, s)
    <2>1. CASE s \in q.about
      <3>1. at >= c
        <4>1. ~(at < seen) /\ (IF at > seen THEN at ELSE seen) >= c
          BY <1>3, <1>10, <2>1
        <4> QED BY <1>4, <4>1
      <3> QED BY <1>5, <1>8, <2>1, <3>1
    <2>2. CASE s \notin q.about
      <3>1. q.kind # "all"
        BY <1>6, <2>2
      <3>2. Filled(queries) /\ latest[s] >= c /\ s \notin overtaken
        BY <1>3, <1>7, <1>10, <2>2, <3>1 DEF seen
      <3> QED BY <1>8, <1>9, <1>10, <2>2, <3>2 DEF Fresh
    <2> QED BY <2>1, <2>2
  <1>11. /\ latest[s] >= c => latest'[s] >= c
         /\ Telling(q, s, c) => latest'[s] >= c
    <2>1. seen >= c => latest'[s] >= c
      BY <1>3, <1>4
    <2>2. s \in q.about /\ at >= c => latest'[s] >= c
      BY <1>3, <1>4
    <2>3. Telling(q, s, c) => s \in q.about /\ at >= c
      BY <1>4 DEF Telling, at
    <2> QED BY <2>1, <2>2, <2>3 DEF seen
  <1> QED BY <1>1, <1>7, <1>10, <1>11 DEF Fresh

\* A merge that goes on will show the same.
LEMMA TransitTraced ==
  ASSUME Typed, RowsOrdered, Transit,
         NEW s \in Subject, NEW c \in 0..changes, Fresh(s, c)
  PROVE  Fresh(s, c)'
  <1>1. /\ db' = db /\ bus' = bus /\ segments' = segments /\ queries' = queries
        /\ text' = text /\ latest' = latest /\ overtaken' = overtaken
        /\ forgotten' = forgotten
    BY DEF Transit, tracker, history
  <1>2. TextsInOrder' => TextsInOrder
    BY <1>1 DEF TextsInOrder
  <1>3. ASSUME TextsInOrder PROVE Showing(tr', s) = Showing(tr, s)
    <2>1. InStep(tr, tr')
      BY <1>3, TransitInStep DEF RowsOrdered
    <2> QED BY <2>1 DEF InStep
  <1> QED BY <1>1, <1>2, <1>3 DEF Fresh

LEMMA StaysTraced ==
  ASSUME Typed, RowsOrdered, Tellable, Traced, [Next]_vars
  PROVE  Traced'
  <1> SUFFICES ASSUME NEW s \in Subject PROVE \E d \in 0..changes' : Fresh(s, d)'
    BY DEF Traced
  <1>1. PICK c \in 0..changes : Fresh(s, c)
    BY DEF Traced
  <1>2. SUFFICES ASSUME changes' = changes PROVE Fresh(s, c)'
    <2>1. ASSUME NEW content \in [Subject -> Content \cup {Absent}], Change(content)
          PROVE  \E d \in 0..changes' : Fresh(s, d)'
      BY <1>1, <2>1, ChangeTraced
    <2>2. changes' = changes \/
            \E content \in [Subject -> Content \cup {Absent}] : Change(content)
      BY DEF Next, vars, tracker, GraphUpdated, segmentComplete, Execute, Answered, Transit
    <2> QED BY <1>2, <2>1, <2>2
  <1>3. ASSUME NEW i \in 1..Len(queries), Execute(i) \/ Answered(i) PROVE Fresh(s, c)'
    BY <1>1, <1>3, ExecuteTraced, AnsweredTraced
  <1>4. ASSUME NEW i \in 1..Len(segments), segmentComplete(i) PROVE Fresh(s, c)'
    BY <1>1, <1>4, segmentCompleteTraced
  <1>5. CASE GraphUpdated
    BY <1>1, <1>5, GraphUpdatedTraced
  <1>6. CASE Transit
    BY <1>1, <1>6, TransitTraced
  <1>7. ASSUME NEW content \in [Subject -> Content \cup {Absent}], Change(content)
        PROVE  FALSE
    <2>1. changes' = changes + 1 /\ changes \in Nat
      BY <1>7, LiveAssumption DEF Change, Typed, LiveAssumption
    <2> QED BY <1>2, <2>1
  <1>8. CASE UNCHANGED vars
    <2>1. /\ db' = db /\ bus' = bus /\ segments' = segments /\ queries' = queries
          /\ text' = text /\ latest' = latest /\ overtaken' = overtaken
          /\ forgotten' = forgotten /\ tr' = tr
      BY <1>8 DEF vars, tracker, history
    <2>2. TextsInOrder' => TextsInOrder
      BY <2>1 DEF TextsInOrder
    <2> QED BY <1>1, <2>1, <2>2 DEF Fresh
  <1> QED BY <1>3, <1>4, <1>5, <1>6, <1>7, <1>8 DEF Next

LEMMA StaysTellable ==
  ASSUME Typed, Tellable, [Next]_vars
  PROVE  Tellable'
  <1>1. CASE Joined(queries, queries') /\ forgotten' \cap id2iri' = {}
    BY <1>1 DEF Joined, Tellable
  <1>2. CASE forgotten' = forgotten /\ id2iri' = id2iri /\ queries' = queries
    BY <1>2 DEF Tellable
  <1>3. ASSUME NEW i \in 1..Len(queries), Execute(i) PROVE Tellable'
    <2>1. forgotten' = forgotten /\ id2iri' = id2iri
      BY <1>3 DEF Execute
    <2>2. Executed(queries, queries', i, changes, Answer(db, queries[i].about))
      BY <1>3, ExecuteIs
    <2>3. ASSUME NEW j \in 1..Len(queries'), queries'[j].kind = "all"
          PROVE  queries'[j].about = Subject
      <3>1. j \in 1..Len(queries) /\ queries'[j].kind = queries[j].kind
            /\ queries'[j].about = queries[j].about
        BY <2>2 DEF Executed
      <3> QED BY <2>3, <3>1 DEF Tellable
    <2> QED BY <2>1, <2>3 DEF Tellable
  <1>4. ASSUME NEW i \in 1..Len(queries), Answered(i) PROVE Tellable'
    BY <1>4, AnsweredIs DEF Taken, Tellable, Answered
  <1>5. ASSUME NEW segment \in Segment, NEW known \in SUBSET Subject, id2iri' = known,
               dispatchClassUpdateSignals(segment, known)
        PROVE  Tellable'
    <2>1. Joined(queries, queries') /\ forgotten' = (forgotten \cup segment.changed) \ known
      BY <1>5, DispatchIs
    <2> QED BY <1>1, <1>5, <2>1
  <1>6. CASE GraphUpdated
    <2>1. id2iri' = id2iri
      BY <1>6 DEF GraphUpdated
    <2>2. CASE dispatchClassUpdateSignals(Head(bus), id2iri)
      <3>1. Head(bus) \in Segment /\ id2iri \in SUBSET Subject
        BY <1>6, HeadTailProperties DEF GraphUpdated, Typed
      <3> QED BY <1>5, <2>1, <2>2, <3>1
    <2> QED BY <1>2, <1>6, <2>1, <2>2 DEF GraphUpdated
  <1>7. ASSUME NEW i \in 1..Len(segments), segmentComplete(i) PROVE Tellable'
    <2> DEFINE known == id2iri \cup {s \in Touched(segments[i]) : db[s] # Absent}
    <2>1. segments[i] \in Segment
      BY ElementOfSeq DEF Typed
    <2>2. known \in SUBSET Subject
      BY <2>1 DEF Typed, Touched, Segment
    <2>3. dispatchClassUpdateSignals(segments[i], known) /\ id2iri' = known
      BY <1>7 DEF segmentComplete
    <2> HIDE DEF known
    <2> QED BY <1>5, <2>1, <2>2, <2>3
  <1>8. CASE UNCHANGED vars \/ Transit
            \/ \E content \in [Subject -> Content \cup {Absent}] : Change(content)
    BY <1>2, <1>8 DEF vars, Transit, Change
  <1> QED BY <1>3, <1>4, <1>6, <1>7, <1>8 DEF Next

LEMMA AlwaysTraced ==
  Spec => [](Typed /\ AnswersOrdered /\ RowsOrdered /\ Tellable /\ Traced)
  <1> DEFINE Inv == Typed /\ AnswersOrdered /\ RowsOrdered /\ Tellable /\ Traced
  <1>1. Init => Inv
    BY InitTyped, InitOrdered, InitTraced
  <1>2. Inv /\ [Next]_vars => Inv'
    BY StaysTyped, AnswersStayOrdered, RowsStayOrdered, StaysTellable, StaysTraced
  <1> QED BY <1>1, <1>2, PTL DEF Spec

\* When nothing is under way the rows of a resource are those the database has.
LEMMA QuietShows ==
  ASSUME Typed, Traced, TextsInOrder, Quiet, NEW s \in Subject \ (overtaken \cup forgotten)
  PROVE  RowsAbout(tr.rows, s) = Found(db, s)
  <1>1. PICK c \in 0..changes : Fresh(s, c)
    BY DEF Traced
  <1>2. latest[s] >= c /\ Filled(queries)
    BY <1>1 DEF Fresh, Quiet, Touching, WillTell, Filled
  <1>3. Showing(tr, s) = Found(db, s)
    BY <1>1, <1>2 DEF Fresh
  <1> QED BY <1>3 DEF Showing, Merging, Quiet, Idle

\* When no signal, lookup or query is under way, the model shows of a resource what
\* the database has of it: in whatever order segments were dispatched, queries were
\* executed and their answers merged.  Except resources whose latest answer was
\* overtaken, and those that were removed before their ids were looked up.
THEOREM AgreesWhenQuiet == Spec => []Agreement
  <1>1. Typed /\ Traced => Agreement
    <2> SUFFICES ASSUME Typed, Traced, TextsInOrder, Quiet,
                        NEW s \in Subject \ (overtaken \cup forgotten)
                 PROVE  Agrees(s)
      BY DEF Agreement
    <2> DEFINE q == Answer(db, {s})
    <2>1. Shown(s) = RowsAbout(tr.rows, s)
      BY DEF Shown, RowsAbout, rows
    <2>2. Shown(s) = Found(db, s)
      BY <2>1, QuietShows
    <2>3. /\ q \in Seq(Row) /\ RowsAbout(q, s) = Found(db, s)
          /\ \A i \in 1..Len(q) : q[i].id \in {s}
      BY AnswerIs DEF Typed
    <2> HIDE DEF q
    <2>4. ToSet(q) = RowsAbout(q, s)
      <3>1. DOMAIN q = 1..Len(q)
        BY <2>3, LenProperties
      <3>2. {j \in 1..Len(q) : q[j].id = s} = 1..Len(q)
        BY <2>3
      <3> QED BY <3>1, <3>2 DEF ToSet, RowsAbout
    <2> QED BY <2>2, <2>3, <2>4 DEF Agrees, q
  <1> QED BY <1>1, AlwaysTraced, PTL

\* And the rows are then one for one, in number and in order, those that the same
\* query executed afresh would have, when there are no such exceptions.
THEOREM RowsAreFresh ==
  Spec => [](TextsInOrder /\ Quiet /\ overtaken \cup forgotten = {} =>
               rows = Answer(db, Subject))
  <1>1. Typed /\ RowsOrdered /\ Traced =>
          (TextsInOrder /\ Quiet /\ overtaken \cup forgotten = {} =>
             rows = Answer(db, Subject))
    <2> SUFFICES ASSUME Typed, RowsOrdered, Traced, TextsInOrder, Quiet,
                        overtaken \cup forgotten = {}
                 PROVE  rows = Answer(db, Subject)
      OBVIOUS
    <2>1. tr.rows \in Seq(Row)
      BY WithinTyped DEF Typed
    <2>2. Sorted(tr.rows)
      BY DEF RowsOrdered, Ordered, Quiet, Idle
    <2>3. ASSUME NEW s \in Subject PROVE RowsAbout(tr.rows, s) = Found(db, s)
      BY QuietShows
    <2>4. db \in [Subject -> Content \cup {Absent}]
      BY DEF Typed
    <2>5. tr.rows = Answer(db, Subject)
      BY <2>1, <2>2, <2>3, <2>4, RowsAreAnswer
    <2> QED BY <2>5 DEF rows
  <1> QED BY <1>1, AlwaysTraced, PTL

=============================================================================
