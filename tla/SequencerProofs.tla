-------------------------- MODULE SequencerProofs --------------------------
(***************************************************************************)
(* Proofs about Sequencer, for every number of operations, when no caller  *)
(* keeps the handle of an operation that was aborted.                      *)
(***************************************************************************)
EXTENDS Sequencer, FunctionTheorems, FiniteSetTheorems, SequenceTheorems,
        WellFoundedInduction, TLAPS

\* Callers' assumption: aborted operations are let go.
LetGo == TRUE \notin KeptHandles

----------------------------------------------------------------------------
(* The inductive invariant.  The parts about what calls in progress have   *)
(* yet to do are about a sequence q of calls, so that they can be stated   *)
(* of what is left once the innermost one is taken off.                    *)

Kind == {"read", "direct", "write"}
Entry(o, s) == [op |-> o, step |-> s]
Entries(p) == {dependents[p][i] : i \in 1..Len(dependents[p])}
Trigger(o, s) == Dependencies(kind[o])[s].trigger

\* Step s of o is about p.
About(p, o, s) == p < o /\ Quality(kind[p]) = Dependencies(kind[o])[s].quality

\* The notifications of step s of o among calls q, as positions.
Told(q, o, s, events) ==
  {i \in 1..Len(q) :
     q[i].call = "notify" /\ q[i].op = o /\ q[i].step = s /\ q[i].event \in events}

\* The operations step s of o will hear of, that it waits for.
Waits(o, s) ==
  {p \in list : /\ Entry(o, s) \in Entries(p)
                /\ "Started" \in Trigger(o, s) => state[p] # "Started"}

\* The list holds the operations that have not ended, each at one of its steps.
Listed ==
  /\ \A o \in Op : o \in list <=> o <= added /\ state[o] \notin Finished
  /\ \A o \in Op : o > added => state[o] = "NotStarted"
  /\ \A o \in Op : current_step[o] # 0 <=> o \in list
  /\ \A o \in list : state[o] = "Started" => current_step[o] = 3

\* Steps are recorded with the operations they are about, once.
Recorded ==
  \A p \in Op :
    /\ \A e \in Entries(p) : /\ p \in list /\ e.op \in 1..added
                             /\ About(p, e.op, e.step)
                             /\ e.op \in list => e.step <= current_step[e.op]
    /\ \A i, j \in 1..Len(dependents[p]) : dependents[p][i] = dependents[p][j] => i = j

\* A step that was passed has nothing to wait for any more.
Passed(o, s) ==
  \A p \in list : About(p, o, s) => "Started" \in Trigger(o, s) /\ state[p] = "Started"
PassedInOrder == \A o \in list : \A s \in 1..2 : s < current_step[o] => Passed(o, s)

\* A step of scope All is recorded with whatever it is about; one of scope
\* Latest with the latest.
Complete ==
  \A o \in list : \A s \in 1..2 : s = current_step[o] =>
    IF "Started" \in Trigger(o, s)
    THEN \A p, r \in list : Entry(o, s) \in Entries(p) /\ About(r, o, s) => r <= p
    ELSE \A p \in list : About(p, o, s) => Entry(o, s) \in Entries(p)

CallsKnown(q) ==
  /\ \A i \in 1..Len(q) : q[i].call = "notify" =>
       /\ q[i].op <= added /\ q[i].step \in 1..2
       /\ q[i].op \in list => q[i].step <= current_step[q[i].op]
  /\ \A i \in 1..Len(q) : q[i].call = "slot" =>
       /\ q[i] = Slot(q[i].op)
       /\ q[i].op \in list /\ state[q[i].op] = "NotStarted" /\ current_step[q[i].op] = 3
  /\ \A i, j \in 1..Len(q) : q[i].call = "slot" /\ q[i] = q[j] => i = j

\* A step still requires every operation it waits for or was told of.
Counted(q) ==
  \A o \in list : \A s \in 1..2 : s = current_step[o] =>
    required[o] >= Cardinality(Waits(o, s)) + Cardinality(Told(q, o, s, Trigger(o, s)))

\* Once the latest has started, all before have.
Heard(q) ==
  \A o \in list : \A s \in 1..2 :
    s = current_step[o] /\ "Started" \in Trigger(o, s) /\ Told(q, o, s, {"Started"}) # {} =>
      \A p \in list : About(p, o, s) => state[p] = "Started"

Good(q) ==
  /\ TypeOK /\ q \in Seq(Call)
  /\ Listed /\ Recorded /\ PassedInOrder /\ Complete
  /\ CallsKnown(q) /\ Counted(q) /\ Heard(q)

Inv == Good(calls)

----------------------------------------------------------------------------
(* The chains.                                                             *)

Step == [scope : {"All", "Latest"}, trigger : SUBSET {"Started", "Succeeded", "Failed"},
         quality : {"read", "write"}]

\* Every chain has two steps: one about operations of the same quality and one
\* about the others, for whose end it waits.
LEMMA Chains ==
  ASSUME NEW k \in Kind
  PROVE  /\ Len(Dependencies(k)) = 2
         /\ \A s \in 1..2 :
              \/ /\ Dependencies(k)[s].scope = "All"
                 /\ Dependencies(k)[s].trigger = {"Succeeded", "Failed"}
              \/ /\ Dependencies(k)[s].scope = "Latest" /\ s = 1 /\ k # "direct"
                 /\ Dependencies(k)[s].trigger = {"Started"}
         /\ Dependencies(k)[1].quality = Quality(k)
         /\ Dependencies(k)[2].quality # Quality(k)
         /\ \A s \in 1..2 : Dependencies(k)[s].quality \in {"read", "write"}
         /\ Quality(k) \in {"read", "write"}
  BY DEF Kind, Dependencies, DirectDependencies, allFinished, latestStarted, Quality

\* Event by event: what a step waits for.
LEMMA Triggers ==
  ASSUME TypeOK, NEW o \in Op, NEW s \in 1..2
  PROVE  /\ Trigger(o, s) = {"Started"} \/ Trigger(o, s) = {"Succeeded", "Failed"}
         /\ Dependencies(kind[o])[s].scope = "Latest" <=> "Started" \in Trigger(o, s)
         /\ Dependencies(kind[o])[s].scope \in {"All", "Latest"}
         /\ Dependencies(kind[o])[s].trigger = Trigger(o, s)
  <1>1. kind[o] \in Kind
    BY DEF TypeOK, Kind
  <1> QED BY <1>1, Chains DEF Trigger

----------------------------------------------------------------------------
(* Counting notifications.                                                 *)

LEMMA ToldFinite ==
  ASSUME NEW q \in Seq(Call), NEW o, NEW s, NEW events
  PROVE  /\ IsFiniteSet(Told(q, o, s, events))
         /\ Cardinality(Told(q, o, s, events)) \in Nat
  <1>1. Len(q) \in Nat
    BY LenProperties
  <1>2. IsFiniteSet(1..Len(q))
    BY <1>1, FS_Interval
  <1>3. IsFiniteSet(Told(q, o, s, events))
    BY <1>2, FS_Subset DEF Told
  <1> QED BY <1>3, FS_CardinalityType

LEMMA ToldTogether ==
  ASSUME NEW a \in Seq(Call), NEW b \in Seq(Call), NEW o, NEW s, NEW events
  PROVE  Cardinality(Told(a \o b, o, s, events))
           = Cardinality(Told(a, o, s, events)) + Cardinality(Told(b, o, s, events))
  <1> DEFINE A == Told(a, o, s, events)
             B == Told(b, o, s, events)
             n == Len(a)
             f == [i \in B |-> i + n]
             C == {i + n : i \in B}
  <1>1. n \in Nat /\ Len(b) \in Nat
    BY LenProperties
  <1>2. /\ Len(a \o b) = n + Len(b)
        /\ \A i \in 1..(n + Len(b)) : (a \o b)[i] = IF i <= n THEN a[i] ELSE b[i - n]
    BY ConcatProperties
  <1>3. A \subseteq 1..n /\ B \subseteq 1..Len(b)
    BY DEF Told
  <1>4. Told(a \o b, o, s, events) = A \cup C
    <2>1. ASSUME NEW i \in Told(a \o b, o, s, events) PROVE i \in A \cup C
      <3>1. /\ i \in 1..(n + Len(b)) /\ (a \o b)[i].call = "notify"
            /\ (a \o b)[i].op = o /\ (a \o b)[i].step = s /\ (a \o b)[i].event \in events
        BY <1>2 DEF Told
      <3>2. CASE i <= n
        <4>1. i \in 1..n /\ (a \o b)[i] = a[i]
          BY <1>1, <1>2, <3>1, <3>2
        <4>2. i \in A
          BY <3>1, <4>1 DEF Told
        <4> QED BY <4>2
      <3>3. CASE ~(i <= n)
        <4>1. i - n \in 1..Len(b) /\ (a \o b)[i] = b[i - n] /\ i = (i - n) + n
          BY <1>1, <1>2, <3>1, <3>3
        <4>2. i - n \in B
          BY <3>1, <4>1 DEF Told
        <4> QED BY <4>1, <4>2
      <3> QED BY <3>2, <3>3
    <2>2. ASSUME NEW i \in A PROVE i \in Told(a \o b, o, s, events)
      <3>1. i \in 1..n /\ i \in 1..(n + Len(b)) /\ i <= n
        BY <1>1, <1>3
      <3>2. (a \o b)[i] = a[i]
        BY <1>2, <3>1
      <3> QED BY <1>2, <2>2, <3>1, <3>2 DEF Told
    <2>3. ASSUME NEW i \in B PROVE i + n \in Told(a \o b, o, s, events)
      <3>1. i \in 1..Len(b) /\ i + n \in 1..(n + Len(b)) /\ ~(i + n <= n) /\ (i + n) - n = i
        BY <1>1, <1>3
      <3>2. (a \o b)[i + n] = b[i]
        BY <1>2, <3>1
      <3> QED BY <1>2, <2>3, <3>1, <3>2 DEF Told
    <2> QED BY <2>1, <2>2, <2>3
  <1>5. f \in Bijection(B, C)
    <2>1. f \in [B -> C]
      OBVIOUS
    <2>2. \A i, j \in B : f[i] = f[j] => i = j
      BY <1>1, <1>3
    <2>3. \A c \in C : \E i \in B : f[i] = c
      OBVIOUS
    <2> QED BY <2>1, <2>2, <2>3, Fun_IsBij
  <1>6. IsFiniteSet(A) /\ IsFiniteSet(B)
    BY ToldFinite
  <1>7. IsFiniteSet(C) /\ Cardinality(C) = Cardinality(B)
    BY <1>5, <1>6, FS_Bijection DEF ExistsBijection
  <1>8. A \cap C = {}
    BY <1>1, <1>3
  <1>9. Cardinality(A) \in Nat /\ Cardinality(C) \in Nat
    BY <1>6, <1>7, FS_CardinalityType
  <1> HIDE DEF A, B, C
  <1>10. Cardinality(A \cup C) = Cardinality(A) + Cardinality(C) - Cardinality(A \cap C)
    BY <1>6, <1>7, FS_Union
  <1>11. Cardinality(A \cup C) = Cardinality(A) + Cardinality(C)
    <2>1. Cardinality(A \cap C) = 0
      BY <1>8, FS_EmptySet
    <2> QED BY <1>9, <1>10, <2>1
  <1> QED BY <1>4, <1>7, <1>11 DEF A, B

Matches(c, o, s, events) ==
  c.call = "notify" /\ c.op = o /\ c.step = s /\ c.event \in events

LEMMA ToldAndRest ==
  ASSUME NEW q \in Seq(Call), q # <<>>, NEW o, NEW s, NEW events
  PROVE  /\ Tail(q) \in Seq(Call) /\ Head(q) \in Call
         /\ Matches(Head(q), o, s, events) =>
              Cardinality(Told(q, o, s, events)) = Cardinality(Told(Tail(q), o, s, events)) + 1
         /\ ~Matches(Head(q), o, s, events) =>
              Cardinality(Told(q, o, s, events)) = Cardinality(Told(Tail(q), o, s, events))
  <1>1. /\ Tail(q) \in Seq(Call) /\ Head(q) \in Call /\ Head(q) = q[1]
        /\ Len(q) \in Nat \ {0} /\ Len(Tail(q)) = Len(q) - 1
        /\ \A i \in 1..Len(Tail(q)) : Tail(q)[i] = q[i + 1]
    BY HeadTailProperties, EmptySeq
  <1>2. <<Head(q)>> \in Seq(Call) /\ Len(<<Head(q)>>) = 1 /\ <<Head(q)>>[1] = Head(q)
    BY <1>1
  <1>3. q = <<Head(q)>> \o Tail(q)
    <2> DEFINE r == <<Head(q)>> \o Tail(q)
    <2>1. /\ r \in Seq(Call) /\ Len(r) = Len(q)
          /\ \A i \in 1..Len(q) : r[i] = IF i <= 1 THEN Head(q) ELSE Tail(q)[i - 1]
      BY <1>1, <1>2, ConcatProperties
    <2>2. ASSUME NEW i \in 1..Len(q) PROVE r[i] = q[i]
      <3>1. CASE i = 1
        BY <1>1, <2>1, <3>1
      <3>2. CASE i # 1
        <4>1. ~(i <= 1) /\ i - 1 \in 1..Len(Tail(q)) /\ (i - 1) + 1 = i
          BY <1>1, <3>2
        <4>2. r[i] = Tail(q)[i - 1]
          BY <2>1, <4>1
        <4>3. Tail(q)[i - 1] = q[(i - 1) + 1]
          BY <1>1, <4>1
        <4> QED BY <4>1, <4>2, <4>3
      <3> QED BY <3>1, <3>2
    <2> HIDE DEF r
    <2>3. r = q
      BY <2>1, <2>2, SeqEqual
    <2> QED BY <2>3 DEF r
  <1>4. Cardinality(Told(q, o, s, events))
          = Cardinality(Told(<<Head(q)>>, o, s, events)) + Cardinality(Told(Tail(q), o, s, events))
    <2> DEFINE a == <<Head(q)>>
               b == Tail(q)
    <2>1. a \in Seq(Call) /\ b \in Seq(Call) /\ q = a \o b
      BY <1>1, <1>2, <1>3
    <2> HIDE DEF a, b
    <2>2. Cardinality(Told(a \o b, o, s, events))
            = Cardinality(Told(a, o, s, events)) + Cardinality(Told(b, o, s, events))
      BY <2>1, ToldTogether
    <2>3. Cardinality(Told(q, o, s, events))
            = Cardinality(Told(a, o, s, events)) + Cardinality(Told(b, o, s, events))
      BY <2>1, <2>2, Zenon
    <2> QED BY <2>3 DEF a, b
  <1>5. Cardinality(Told(Tail(q), o, s, events)) \in Nat
    BY <1>1, ToldFinite
  <1>6. CASE Matches(Head(q), o, s, events)
    <2>1. Told(<<Head(q)>>, o, s, events) = {1}
      BY <1>2, <1>6 DEF Told, Matches
    <2>2. Cardinality(Told(<<Head(q)>>, o, s, events)) = 1
      BY <2>1, FS_Singleton
    <2> QED BY <1>1, <1>4, <1>5, <1>6, <2>2
  <1>7. CASE ~Matches(Head(q), o, s, events)
    <2>1. Told(<<Head(q)>>, o, s, events) = {}
      BY <1>2, <1>7 DEF Told, Matches
    <2>2. Cardinality(Told(<<Head(q)>>, o, s, events)) = 0
      BY <2>1, FS_EmptySet
    <2> QED BY <1>1, <1>4, <1>5, <1>7, <2>2
  <1> QED BY <1>6, <1>7

LEMMA WaitsFinite ==
  ASSUME TypeOK, NEW o, NEW s
  PROVE  IsFiniteSet(Waits(o, s)) /\ Cardinality(Waits(o, s)) \in Nat
  <1>1. added \in Nat /\ list \subseteq 1..added
    BY SequencerAssumption DEF TypeOK
  <1>2. IsFiniteSet(1..added)
    BY <1>1, FS_Interval
  <1>3. IsFiniteSet(Waits(o, s))
    BY <1>1, <1>2, FS_Subset DEF Waits
  <1> QED BY <1>3, FS_CardinalityType

\* What holds with a call in progress holds of what is left after it.
LEMMA RestIsGood ==
  ASSUME NEW q, Good(q), q # <<>>
  PROVE  Good(Tail(q)) /\ Head(q) \in Call
  <1>1. /\ q \in Seq(Call) /\ Tail(q) \in Seq(Call) /\ Head(q) \in Call /\ Head(q) = q[1]
        /\ Len(q) \in Nat \ {0} /\ Len(Tail(q)) = Len(q) - 1
        /\ \A i \in 1..Len(Tail(q)) : Tail(q)[i] = q[i + 1]
    BY HeadTailProperties, EmptySeq DEF Good
  <1>2. \A i \in 1..Len(Tail(q)) : i + 1 \in 1..Len(q) /\ Tail(q)[i] = q[i + 1]
    BY <1>1
  <1>3. CallsKnown(Tail(q))
    <2>1. ASSUME NEW i \in 1..Len(Tail(q)), NEW j \in 1..Len(Tail(q)),
                 Tail(q)[i].call = "slot", Tail(q)[i] = Tail(q)[j]
          PROVE  i = j
      <3>1. i + 1 = j + 1
        BY <1>2, <2>1 DEF Good, CallsKnown
      <3> QED BY <1>1, <3>1
    <2>2. ASSUME NEW i \in 1..Len(Tail(q)), Tail(q)[i].call = "notify"
          PROVE  /\ Tail(q)[i].op <= added /\ Tail(q)[i].step \in 1..2
                 /\ Tail(q)[i].op \in list => Tail(q)[i].step <= current_step[Tail(q)[i].op]
      BY <1>2, <2>2 DEF Good, CallsKnown
    <2>3. ASSUME NEW i \in 1..Len(Tail(q)), Tail(q)[i].call = "slot"
          PROVE  /\ Tail(q)[i] = Slot(Tail(q)[i].op)
                 /\ Tail(q)[i].op \in list /\ state[Tail(q)[i].op] = "NotStarted"
                 /\ current_step[Tail(q)[i].op] = 3
      BY <1>2, <2>3 DEF Good, CallsKnown
    <2> QED BY <2>1, <2>2, <2>3 DEF CallsKnown
  <1>4. Counted(Tail(q))
    <2> SUFFICES ASSUME NEW o \in list, NEW s \in 1..2, s = current_step[o]
                 PROVE  required[o] >= Cardinality(Waits(o, s))
                                       + Cardinality(Told(Tail(q), o, s, Trigger(o, s)))
      BY DEF Counted
    <2>1. required[o] >= Cardinality(Waits(o, s)) + Cardinality(Told(q, o, s, Trigger(o, s)))
      BY DEF Good, Counted
    <2>2. /\ Cardinality(Told(Tail(q), o, s, Trigger(o, s))) \in Nat
          /\ Cardinality(Waits(o, s)) \in Nat
      BY <1>1, ToldFinite, WaitsFinite DEF Good
    <2>3. \/ Cardinality(Told(q, o, s, Trigger(o, s)))
               = Cardinality(Told(Tail(q), o, s, Trigger(o, s))) + 1
          \/ Cardinality(Told(q, o, s, Trigger(o, s)))
               = Cardinality(Told(Tail(q), o, s, Trigger(o, s)))
      BY <1>1, ToldAndRest
    <2>4. required[o] \in Nat
      BY SequencerAssumption DEF Good, TypeOK, Op
    <2> QED BY <2>1, <2>2, <2>3, <2>4
  <1>5. Heard(Tail(q))
    <2> SUFFICES ASSUME NEW o \in list, NEW s \in 1..2, s = current_step[o],
                        "Started" \in Trigger(o, s),
                        NEW i \in Told(Tail(q), o, s, {"Started"})
                 PROVE  \A p \in list : About(p, o, s) => state[p] = "Started"
      BY DEF Heard
    <2>1. i \in 1..Len(Tail(q)) /\ Matches(Tail(q)[i], o, s, {"Started"})
      BY DEF Told, Matches
    <2>2. i + 1 \in 1..Len(q) /\ Matches(q[i + 1], o, s, {"Started"})
      BY <1>2, <2>1
    <2>3. i + 1 \in Told(q, o, s, {"Started"})
      BY <2>2 DEF Told, Matches
    <2> QED BY <2>3 DEF Good, Heard
  <1> QED BY <1>1, <1>3, <1>4, <1>5 DEF Good

----------------------------------------------------------------------------
(* Notifying the dependents of an operation.                               *)

Notifications(p, event) ==
  [i \in 1..Len(dependents[p]) |->
     Notification(dependents[p][i].op, dependents[p][i].step, event)]

LEMMA NotificationsKnown ==
  ASSUME TypeOK, Recorded, NEW p \in Op, NEW event \in {"Started", "Succeeded", "Failed"}
  PROVE  /\ Notifications(p, event) \in Seq(Call)
         /\ \A i \in 1..Len(Notifications(p, event)) :
              /\ Notifications(p, event)[i].call = "notify"
              /\ Notifications(p, event)[i].event = event
              /\ Entry(Notifications(p, event)[i].op, Notifications(p, event)[i].step)
                   \in Entries(p)
              /\ Notifications(p, event)[i].step \in 1..2
         /\ \A u \in Op, t \in 1..2 : \A events :
              /\ event \notin events => Told(Notifications(p, event), u, t, events) = {}
              /\ Entry(u, t) \notin Entries(p) =>
                   Told(Notifications(p, event), u, t, events) = {}
              /\ Cardinality(Told(Notifications(p, event), u, t, events)) \in {0, 1}
  <1> DEFINE d == dependents[p]
             a == Notifications(p, event)
  <1>1. /\ d \in Seq([op : Op, step : 1..2]) /\ Len(d) \in Nat
        /\ \A i \in 1..Len(d) : d[i] \in [op : Op, step : 1..2]
    BY LenProperties, ElementOfSeq DEF TypeOK
  <1>2. \A i \in 1..Len(d) : /\ Notification(d[i].op, d[i].step, event) \in Call
                             /\ d[i] = Entry(d[i].op, d[i].step)
    BY <1>1 DEF Notification, Call, Entry
  <1>3. a \in [1..Len(d) -> Call]
    BY <1>2 DEF Notifications
  <1>4. a \in Seq(Call) /\ Len(a) = Len(d)
    BY <1>1, <1>3
  <1>5. \A i \in 1..Len(a) :
          /\ a[i].call = "notify" /\ a[i].event = event
          /\ a[i].op = d[i].op /\ a[i].step = d[i].step
          /\ Entry(a[i].op, a[i].step) = d[i]
    BY <1>2, <1>4 DEF Notifications, Notification
  <1>6. \A i \in 1..Len(a) : d[i] \in Entries(p) /\ a[i].step \in 1..2
    BY <1>1, <1>4, <1>5 DEF Entries
  <1> HIDE DEF a
  <1>7. ASSUME NEW u \in Op, NEW t \in 1..2, NEW events
        PROVE  /\ event \notin events => Told(a, u, t, events) = {}
               /\ Entry(u, t) \notin Entries(p) => Told(a, u, t, events) = {}
               /\ Cardinality(Told(a, u, t, events)) \in {0, 1}
    <2>1. event \notin events => Told(a, u, t, events) = {}
      BY <1>5 DEF Told
    <2>2. \A i \in Told(a, u, t, events) : i \in 1..Len(d) /\ d[i] = Entry(u, t)
      BY <1>4, <1>5 DEF Told
    <2>3. Entry(u, t) \notin Entries(p) => Told(a, u, t, events) = {}
      BY <1>4, <1>6, <2>2
    <2>4. \A i, j \in Told(a, u, t, events) : i = j
      BY <2>2 DEF Recorded
    <2>5. CASE Told(a, u, t, events) = {}
      BY <2>1, <2>3, <2>5, FS_EmptySet
    <2>6. CASE Told(a, u, t, events) # {}
      <3>1. PICK i : i \in Told(a, u, t, events)
        BY <2>6
      <3>2. Told(a, u, t, events) = {i}
        BY <2>4, <3>1
      <3>3. Cardinality(Told(a, u, t, events)) = 1
        BY <3>2, FS_Singleton
      <3> QED BY <2>1, <2>3, <3>3
    <2> QED BY <2>5, <2>6
  <1> QED BY <1>4, <1>5, <1>6, <1>7 DEF a

LEMMA EntriesAreSteps ==
  ASSUME TypeOK, NEW p \in Op, NEW e \in Entries(p)
  PROVE  e.op \in Op /\ e.step \in 1..2 /\ e = Entry(e.op, e.step)
  <1>1. dependents[p] \in Seq([op : Op, step : 1..2])
    BY DEF TypeOK
  <1>2. PICK i \in 1..Len(dependents[p]) : e = dependents[p][i]
    BY DEF Entries
  <1>3. e \in [op : Op, step : 1..2]
    BY <1>1, <1>2, ElementOfSeq
  <1> QED BY <1>3 DEF Entry

LEMMA CallsTogether ==
  ASSUME NEW a \in Seq(Call), NEW b \in Seq(Call)
  PROVE  /\ a \o b \in Seq(Call)
         /\ \A i \in 1..Len(a \o b) :
              \/ i \in 1..Len(a) /\ (a \o b)[i] = a[i]
              \/ ~(i <= Len(a)) /\ i - Len(a) \in 1..Len(b) /\ (a \o b)[i] = b[i - Len(a)]
         /\ Len(a) \in Nat
  <1>1. Len(a) \in Nat /\ Len(b) \in Nat
    BY LenProperties
  <1>2. /\ a \o b \in Seq(Call) /\ Len(a \o b) = Len(a) + Len(b)
        /\ \A i \in 1..(Len(a) + Len(b)) :
             (a \o b)[i] = IF i <= Len(a) THEN a[i] ELSE b[i - Len(a)]
    BY ConcatProperties
  <1>3. ASSUME NEW i \in 1..Len(a \o b)
        PROVE  \/ i \in 1..Len(a) /\ (a \o b)[i] = a[i]
               \/ ~(i <= Len(a)) /\ i - Len(a) \in 1..Len(b) /\ (a \o b)[i] = b[i - Len(a)]
    <2>1. i \in 1..(Len(a) + Len(b))
      BY <1>2
    <2>2. CASE i <= Len(a)
      BY <1>1, <1>2, <2>1, <2>2
    <2>3. CASE ~(i <= Len(a))
      BY <1>1, <1>2, <2>1, <2>3
    <2> QED BY <2>2, <2>3
  <1> QED BY <1>1, <1>2, <1>3

LEMMA ListedAreOps ==
  ASSUME TypeOK
  PROVE  list \subseteq Op /\ added \in Nat /\ added <= MaxOps
  BY SequencerAssumption DEF TypeOK, Op

\* A call to be made first that is no notification tells nothing yet.
LEMMA CallFirst ==
  ASSUME NEW b \in Seq(Call), NEW c \in Call, c.call # "notify"
  PROVE  /\ <<c>> \o b \in Seq(Call)
         /\ \A i \in 1..Len(<<c>> \o b) :
              \/ i = 1 /\ (<<c>> \o b)[i] = c
              \/ i - 1 \in 1..Len(b) /\ (<<c>> \o b)[i] = b[i - 1]
         /\ \A u, t, events :
              Cardinality(Told(<<c>> \o b, u, t, events)) = Cardinality(Told(b, u, t, events))
         /\ \A u, t, events :
              Told(<<c>> \o b, u, t, events) # {} => Told(b, u, t, events) # {}
  <1> DEFINE a == <<c>>
  <1>1. c \in Call /\ c.call # "notify"
    OBVIOUS
  <1>2. a \in Seq(Call) /\ Len(a) = 1 /\ a[1] = c
    BY <1>1
  <1> HIDE DEF a
  <1>3. /\ a \o b \in Seq(Call)
        /\ \A i \in 1..Len(a \o b) :
             \/ i = 1 /\ (a \o b)[i] = c
             \/ i - 1 \in 1..Len(b) /\ (a \o b)[i] = b[i - 1]
    <2>1. /\ a \o b \in Seq(Call)
          /\ \A i \in 1..Len(a \o b) :
               \/ i \in 1..1 /\ (a \o b)[i] = a[i]
               \/ ~(i <= 1) /\ i - 1 \in 1..Len(b) /\ (a \o b)[i] = b[i - 1]
      BY ZenonT(40), <1>2, CallsTogether
    <2> QED BY <1>2, <2>1
  <1>4. ASSUME NEW u, NEW t, NEW events
        PROVE  /\ Cardinality(Told(a \o b, u, t, events)) = Cardinality(Told(b, u, t, events))
               /\ Told(a \o b, u, t, events) # {} => Told(b, u, t, events) # {}
    <2>1. Told(a, u, t, events) = {}
      BY <1>1, <1>2 DEF Told
    <2>2. Cardinality(Told(a, u, t, events)) = 0
      BY <2>1, FS_EmptySet
    <2>3. /\ Cardinality(Told(b, u, t, events)) \in Nat
          /\ IsFiniteSet(Told(b, u, t, events)) /\ IsFiniteSet(Told(a \o b, u, t, events))
      BY <1>3, ToldFinite
    <2>4. Cardinality(Told(a \o b, u, t, events)) = Cardinality(Told(b, u, t, events))
      BY <1>2, <2>2, <2>3, ToldTogether
    <2> QED BY <2>3, <2>4, FS_EmptySet
  <1> QED BY <1>3, <1>4 DEF a

LEMMA SlotFirst ==
  ASSUME NEW b \in Seq(Call), NEW o \in Op
  PROVE  /\ <<Slot(o)>> \o b \in Seq(Call)
         /\ \A i \in 1..Len(<<Slot(o)>> \o b) :
              \/ i = 1 /\ (<<Slot(o)>> \o b)[i] = Slot(o)
              \/ i - 1 \in 1..Len(b) /\ (<<Slot(o)>> \o b)[i] = b[i - 1]
         /\ \A u, t, events :
              Cardinality(Told(<<Slot(o)>> \o b, u, t, events)) = Cardinality(Told(b, u, t, events))
         /\ \A u, t, events :
              Told(<<Slot(o)>> \o b, u, t, events) # {} => Told(b, u, t, events) # {}
  <1>1. Slot(o) \in Call /\ Slot(o).call # "notify"
    BY DEF Slot, Call
  <1> QED BY <1>1, CallFirst

\* What holds of calls still holds with the end of an abort to be made first.
LEMMA AccessAbortFirst ==
  ASSUME NEW q, Good(q), NEW o \in Op
  PROVE  /\ Good(<<AccessAbort(o)>> \o q)
         /\ \A u : (\A i \in 1..Len(q) : q[i] # Slot(u)) =>
              \A i \in 1..Len(<<AccessAbort(o)>> \o q) : (<<AccessAbort(o)>> \o q)[i] # Slot(u)
  <1>1. q \in Seq(Call) /\ Len(q) \in Nat
    BY LenProperties DEF Good
  <1>2. /\ AccessAbort(o) \in Call
        /\ AccessAbort(o).call # "notify" /\ AccessAbort(o).call # "slot"
    BY DEF AccessAbort, Call
  <1> DEFINE c == AccessAbort(o)
             r == <<c>> \o q
  <1> HIDE DEF c
  <1>3. /\ r \in Seq(Call)
        /\ \A i \in 1..Len(r) :
             (i = 1 /\ r[i] = c) \/ (i - 1 \in 1..Len(q) /\ r[i] = q[i - 1])
        /\ \A u, t, events :
             Cardinality(Told(r, u, t, events)) = Cardinality(Told(q, u, t, events))
        /\ \A u, t, events : Told(r, u, t, events) # {} => Told(q, u, t, events) # {}
    BY <1>1, <1>2, CallFirst DEF c
  <1> HIDE DEF r
  <1>4. c.call # "notify" /\ c.call # "slot"
    BY <1>2 DEF c
  <1>5. ASSUME NEW i \in 1..Len(r), r[i].call = "notify" \/ r[i].call = "slot"
        PROVE  i - 1 \in 1..Len(q) /\ r[i] = q[i - 1] /\ i \in Nat
    BY <1>3, <1>4, <1>5
  <1>6. CallsKnown(r)
    <2>1. CallsKnown(q)
      BY DEF Good
    <2>2. ASSUME NEW i \in 1..Len(r), r[i].call = "notify"
          PROVE  /\ r[i].op <= added /\ r[i].step \in 1..2
                 /\ r[i].op \in list => r[i].step <= current_step[r[i].op]
      BY <1>5, <2>1, <2>2 DEF CallsKnown
    <2>3. ASSUME NEW i \in 1..Len(r), r[i].call = "slot"
          PROVE  /\ r[i] = Slot(r[i].op)
                 /\ r[i].op \in list /\ state[r[i].op] = "NotStarted"
                 /\ current_step[r[i].op] = 3
      BY <1>5, <2>1, <2>3 DEF CallsKnown
    <2>4. ASSUME NEW i \in 1..Len(r), NEW j \in 1..Len(r), r[i].call = "slot", r[i] = r[j]
          PROVE  i = j
      <3>1. /\ i - 1 \in 1..Len(q) /\ r[i] = q[i - 1]
            /\ j - 1 \in 1..Len(q) /\ r[j] = q[j - 1]
        BY <1>5, <2>4
      <3>2. i - 1 = j - 1
        BY <2>1, <2>4, <3>1 DEF CallsKnown
      <3> QED BY <3>2
    <2> QED BY <2>2, <2>3, <2>4 DEF CallsKnown
  <1>7. Counted(r)
    BY <1>3 DEF Good, Counted
  <1>8. Heard(r)
    BY <1>3 DEF Good, Heard
  <1>9. ASSUME NEW u, \A i \in 1..Len(q) : q[i] # Slot(u), NEW i \in 1..Len(r)
        PROVE  r[i] # Slot(u)
    BY <1>3, <1>4, <1>9 DEF Slot
  <1> QED BY <1>3, <1>6, <1>7, <1>8, <1>9 DEF Good, r, c

\* Calls about to be made after the dependents of o were told, if what is left
\* of them was known and o is not about to start.
LEMMA CallsKnownAfter ==
  ASSUME TypeOK, Recorded, NEW o \in Op, NEW event \in {"Started", "Succeeded", "Failed"},
         NEW rest \in Seq(Call), CallsKnown(rest),
         \A i \in 1..Len(rest) : rest[i] # Slot(o),
         calls' = Notifications(o, event) \o rest,
         added' = added, list' \in {list, list \ {o}},
         o \in list' => current_step'[o] = current_step[o],
         \A u \in Op : u # o => current_step'[u] = current_step[u] /\ state'[u] = state[u]
  PROVE  calls' \in Seq(Call) /\ CallsKnown(calls)'
  <1> DEFINE a == Notifications(o, event)
  <1>1. /\ a \in Seq(Call)
        /\ \A i \in 1..Len(a) : /\ a[i].call = "notify"
                                /\ Entry(a[i].op, a[i].step) \in Entries(o)
                                /\ a[i].step \in 1..2
    <2>1. a \in Seq(Call)
      BY NotificationsKnown
    <2>2. \A i \in 1..Len(a) : /\ a[i].call = "notify"
                               /\ Entry(a[i].op, a[i].step) \in Entries(o)
                               /\ a[i].step \in 1..2
      BY NotificationsKnown
    <2> HIDE DEF a
    <2> QED BY <2>1, <2>2
  <1>2. calls' = a \o rest
    OBVIOUS
  <1> HIDE DEF a
  <1>3. /\ calls' \in Seq(Call) /\ Len(a) \in Nat
        /\ \A i \in 1..Len(calls') :
             \/ i \in 1..Len(a) /\ calls'[i] = a[i]
             \/ ~(i <= Len(a)) /\ i - Len(a) \in 1..Len(rest) /\ calls'[i] = rest[i - Len(a)]
    BY <1>1, <1>2, CallsTogether
  <1>4. \A i \in 1..Len(a) : /\ a[i].op \in 1..added
                             /\ a[i].op \in list => a[i].step <= current_step[a[i].op]
    BY <1>1 DEF Recorded, Entry
  <1>5. \A i \in 1..Len(rest) : rest[i] \in Call
    BY ElementOfSeq
  <1>6. ASSUME NEW i \in 1..Len(calls'), calls'[i].call = "notify"
        PROVE  /\ calls'[i].op <= added /\ calls'[i].step \in 1..2
               /\ calls'[i].op \in list' => calls'[i].step <= current_step'[calls'[i].op]
    <2>1. \A u \in list' : u \in list /\ u \in Op /\ current_step'[u] = current_step[u]
      <3>1. list' \subseteq list
        OBVIOUS
      <3> QED BY <3>1, ListedAreOps
    <2>2. CASE i \in 1..Len(a) /\ calls'[i] = a[i]
      <3>1. a[i].op <= added
        BY <1>4, <2>2, SequencerAssumption DEF TypeOK
      <3> QED BY <1>1, <1>4, <2>1, <2>2, <3>1
    <2>3. CASE i - Len(a) \in 1..Len(rest) /\ calls'[i] = rest[i - Len(a)]
      <3>1. /\ calls'[i].op <= added /\ calls'[i].step \in 1..2
            /\ calls'[i].op \in list => calls'[i].step <= current_step[calls'[i].op]
        BY <1>6, <2>3 DEF CallsKnown
      <3> QED BY <2>1, <3>1
    <2> QED BY <1>3, <2>2, <2>3
  <1>7. ASSUME NEW i \in 1..Len(calls'), calls'[i].call = "slot"
        PROVE  ~(i <= Len(a)) /\ i - Len(a) \in 1..Len(rest) /\ calls'[i] = rest[i - Len(a)]
    BY <1>1, <1>3, <1>7
  <1>8. ASSUME NEW i \in 1..Len(calls'), calls'[i].call = "slot"
        PROVE  /\ calls'[i] = Slot(calls'[i].op)
               /\ calls'[i].op \in list' /\ state'[calls'[i].op] = "NotStarted"
               /\ current_step'[calls'[i].op] = 3
    <2>1. i - Len(a) \in 1..Len(rest) /\ calls'[i] = rest[i - Len(a)]
      BY <1>7, <1>8
    <2>2. /\ calls'[i] = Slot(calls'[i].op)
          /\ calls'[i].op \in list /\ state[calls'[i].op] = "NotStarted"
          /\ current_step[calls'[i].op] = 3
      BY <1>8, <2>1 DEF CallsKnown
    <2>3. calls'[i].op # o /\ calls'[i].op \in Op
      BY <1>5, <2>1, <2>2 DEF Call
    <2> QED BY <2>2, <2>3
  <1>9. ASSUME NEW i \in 1..Len(calls'), NEW j \in 1..Len(calls'),
               calls'[i].call = "slot", calls'[i] = calls'[j]
        PROVE  i = j
    <2>1. /\ i - Len(a) \in 1..Len(rest) /\ calls'[i] = rest[i - Len(a)]
          /\ j - Len(a) \in 1..Len(rest) /\ calls'[j] = rest[j - Len(a)]
      BY <1>7, <1>9
    <2>2. \A k, l \in 1..Len(rest) : rest[k].call = "slot" /\ rest[k] = rest[l] => k = l
      BY DEF CallsKnown
    <2>3. i - Len(a) = j - Len(a)
      BY <1>9, <2>1, <2>2
    <2> QED BY <1>3, <2>3
  <1>10. /\ \A i \in 1..Len(calls') : calls'[i].call = "notify" =>
              /\ calls'[i].op <= added' /\ calls'[i].step \in 1..2
              /\ calls'[i].op \in list' => calls'[i].step <= current_step'[calls'[i].op]
         /\ \A i \in 1..Len(calls') : calls'[i].call = "slot" =>
              /\ calls'[i] = Slot(calls'[i].op)
              /\ calls'[i].op \in list' /\ state'[calls'[i].op] = "NotStarted"
              /\ current_step'[calls'[i].op] = 3
    BY <1>6, <1>8
  <1> QED BY <1>3, <1>9, <1>10 DEF CallsKnown

\* An operation that heard something did so before, or is told now.
LEMMA ToldBefore ==
  ASSUME TypeOK, Recorded, NEW o \in Op, NEW event \in {"Started", "Succeeded", "Failed"},
         NEW rest \in Seq(Call), NEW u \in Op, NEW t \in 1..2, NEW events
  PROVE  Told(Notifications(o, event) \o rest, u, t, events) # {} =>
           \/ Told(rest, u, t, events) # {}
           \/ event \in events /\ Entry(u, t) \in Entries(o)
  <1> DEFINE a == Notifications(o, event)
  <1>1. /\ a \in Seq(Call)
        /\ event \notin events => Told(a, u, t, events) = {}
        /\ Entry(u, t) \notin Entries(o) => Told(a, u, t, events) = {}
    BY NotificationsKnown
  <1> HIDE DEF a
  <1>2. SUFFICES ASSUME NEW i \in Told(a \o rest, u, t, events)
                 PROVE  Told(a, u, t, events) # {} \/ Told(rest, u, t, events) # {}
    BY <1>1 DEF a
  <1>3. i \in 1..Len(a \o rest) /\ Matches((a \o rest)[i], u, t, events)
    BY DEF Told, Matches
  <1>4. CASE i \in 1..Len(a) /\ (a \o rest)[i] = a[i]
    BY <1>3, <1>4 DEF Told, Matches
  <1>5. CASE i - Len(a) \in 1..Len(rest) /\ (a \o rest)[i] = rest[i - Len(a)]
    <2>1. i - Len(a) \in Told(rest, u, t, events)
      BY <1>3, <1>5 DEF Told, Matches
    <2> QED BY <2>1
  <1> QED BY <1>1, <1>3, <1>4, <1>5, CallsTogether

\* What a step requires stays enough when o tells it, and is not waited for.
LEMMA CountedAfter ==
  ASSUME TypeOK, Recorded, NEW o \in Op, NEW event \in {"Started", "Succeeded", "Failed"},
         NEW rest \in Seq(Call), NEW u \in Op, NEW t \in 1..2, NEW events,
         NEW before, IsFiniteSet(before), NEW n \in Nat,
         n >= Cardinality(before) + Cardinality(Told(rest, u, t, events)),
         NEW after \in SUBSET before,
         event \in events /\ Entry(u, t) \in Entries(o) => o \in before /\ o \notin after
  PROVE  n >= Cardinality(after)
              + Cardinality(Told(Notifications(o, event) \o rest, u, t, events))
  <1> DEFINE a == Notifications(o, event)
  <1>1. /\ a \in Seq(Call)
        /\ event \notin events => Told(a, u, t, events) = {}
        /\ Entry(u, t) \notin Entries(o) => Told(a, u, t, events) = {}
        /\ Cardinality(Told(a, u, t, events)) \in {0, 1}
    BY NotificationsKnown
  <1> HIDE DEF a
  <1>2. Cardinality(Told(a \o rest, u, t, events))
          = Cardinality(Told(a, u, t, events)) + Cardinality(Told(rest, u, t, events))
    BY <1>1, ToldTogether
  <1>3. Cardinality(Told(rest, u, t, events)) \in Nat
    BY ToldFinite
  <1>4. /\ Cardinality(before) \in Nat /\ Cardinality(after) \in Nat
        /\ Cardinality(after) <= Cardinality(before)
    BY FS_Subset, FS_CardinalityType
  <1>5. CASE Told(a, u, t, events) = {}
    <2>1. Cardinality(Told(a, u, t, events)) = 0
      BY <1>5, FS_EmptySet
    <2> QED BY <1>2, <1>3, <1>4, <2>1 DEF a
  <1>6. CASE Told(a, u, t, events) # {}
    <2>1. o \in before /\ o \notin after
      BY <1>1, <1>6
    <2>2. IsFiniteSet(before \ {o}) /\ Cardinality(before \ {o}) = Cardinality(before) - 1
      BY <2>1, FS_RemoveElement
    <2>3. after \in SUBSET (before \ {o})
      BY <2>1
    <2>4. Cardinality(after) <= Cardinality(before) - 1
      BY <2>2, <2>3, FS_Subset
    <2> QED BY <1>1, <1>2, <1>3, <1>4, <2>4 DEF a
  <1> QED BY <1>5, <1>6

----------------------------------------------------------------------------
(* An operation ends, starts, or comes to wait for another step.           *)

\* An operation that is not about to start can end.
LEMMA Leaves ==
  ASSUME NEW rest, Good(rest), NEW o \in list, NEW final \in Finished,
         \A i \in 1..Len(rest) : rest[i] # Slot(o),
         End(o, final, rest), Destroyed(o),
         UNCHANGED <<added, kind>>, answered' \subseteq Op
  PROVE  Inv'
  <1> DEFINE event == IF final = "Succeeded" THEN "Succeeded" ELSE "Failed"
  <1>1. event \in {"Started", "Succeeded", "Failed"} /\ event # "Started"
    OBVIOUS
  <1>2. calls' = Notifications(o, event) \o rest
    BY DEF End, signalDependents, Notifications
  <1> HIDE DEF event
  <1>3. /\ TypeOK /\ Recorded /\ Listed /\ rest \in Seq(Call) /\ CallsKnown(rest)
        /\ o \in Op /\ list \subseteq Op /\ added \in Nat
    BY ListedAreOps DEF Good
  <1>4. /\ added' = added /\ kind' = kind /\ list' = list \ {o}
        /\ state' = [state EXCEPT ![o] = final]
        /\ current_step' = [current_step EXCEPT ![o] = 0]
        /\ required' = [required EXCEPT ![o] = 0]
        /\ remaining' = [remaining EXCEPT ![o] = 0]
        /\ dependents' = [dependents EXCEPT ![o] = <<>>]
    BY DEF End, Destroyed
  <1>5. /\ \A u \in Op : u # o => /\ state'[u] = state[u] /\ current_step'[u] = current_step[u]
                                  /\ required'[u] = required[u]
                                  /\ dependents'[u] = dependents[u]
        /\ state'[o] = final /\ current_step'[o] = 0 /\ dependents'[o] = <<>>
    BY <1>3, <1>4 DEF TypeOK
  <1>6. /\ \A u \in Op : u # o => Entries(u)' = Entries(u)
        /\ Entries(o)' = {}
    BY <1>3, <1>5 DEF Entries
  <1>7. /\ \A u, t : Trigger(u, t)' = Trigger(u, t)
        /\ \A q, u, t : About(q, u, t)' = About(q, u, t)
    BY <1>4 DEF Trigger, About
  <1>8. calls' \in Seq(Call) /\ CallsKnown(calls)'
    BY <1>1, <1>2, <1>3, <1>4, <1>5, CallsKnownAfter
  <1>9. TypeOK'
    <2>1. /\ added' \in 0..MaxOps /\ kind' \in [Op -> {"read", "direct", "write"}]
          /\ list' \subseteq 1..added'
      BY <1>3, <1>4 DEF TypeOK
    <2>2. state' \in [Op -> State]
      BY <1>3, <1>4 DEF TypeOK, State
    <2>3. /\ current_step' \in [Op -> 0..3] /\ required' \in [Op -> Nat]
          /\ remaining' \in [Op -> Nat]
      BY <1>3, <1>4 DEF TypeOK
    <2>4. dependents' \in [Op -> Seq([op : Op, step : 1..2])]
      <3>1. <<>> \in Seq([op : Op, step : 1..2])
        OBVIOUS
      <3> QED BY <1>3, <1>4, <3>1 DEF TypeOK
    <2> QED BY <1>8, <2>1, <2>2, <2>3, <2>4 DEF TypeOK
  <1>10. Listed'
    <2>1. o <= added
      BY <1>3 DEF TypeOK
    <2>2. \A u \in Op : u \in list' <=> u <= added' /\ state'[u] \notin Finished
      BY <1>3, <1>4, <1>5 DEF Listed
    <2>3. \A u \in Op : u > added' => state'[u] = "NotStarted"
      <3>1. ASSUME NEW u \in Op, u > added PROVE u # o
        BY <1>3, <2>1, <3>1 DEF Op
      <3> QED BY <1>3, <1>4, <1>5, <3>1 DEF Listed
    <2>4. \A u \in Op : current_step'[u] # 0 <=> u \in list'
      BY <1>3, <1>4, <1>5 DEF Listed
    <2>5. \A u \in list' : state'[u] = "Started" => current_step'[u] = 3
      BY <1>3, <1>4, <1>5 DEF Listed
    <2> QED BY <2>2, <2>3, <2>4, <2>5 DEF Listed
  <1>11. Recorded'
    <2> SUFFICES ASSUME NEW p \in Op
                 PROVE  /\ \A e \in Entries(p)' :
                             /\ p \in list' /\ e.op \in 1..added'
                             /\ About(p, e.op, e.step)'
                             /\ e.op \in list' => e.step <= current_step'[e.op]
                        /\ \A i, j \in 1..Len(dependents'[p]) :
                             dependents'[p][i] = dependents'[p][j] => i = j
      BY DEF Recorded
    <2>1. CASE p = o
      BY <1>5, <1>6, <2>1
    <2>2. CASE p # o
      <3>1. ASSUME NEW e \in Entries(p)
            PROVE  /\ p \in list' /\ e.op \in 1..added'
                   /\ About(p, e.op, e.step)'
                   /\ e.op \in list' => e.step <= current_step'[e.op]
        <4>1. /\ p \in list /\ e.op \in 1..added /\ About(p, e.op, e.step)
              /\ e.op \in list => e.step <= current_step[e.op]
          BY <1>3 DEF Recorded
        <4> QED BY <1>3, <1>4, <1>5, <1>7, <2>2, <4>1
      <3>2. \A i, j \in 1..Len(dependents[p]) : dependents[p][i] = dependents[p][j] => i = j
        BY <1>3 DEF Recorded
      <3> QED BY <1>5, <1>6, <2>2, <3>1, <3>2
    <2> QED BY <2>1, <2>2
  <1>12. PassedInOrder'
    <2> SUFFICES ASSUME NEW u \in list', NEW s \in 1..2, s < current_step'[u],
                        NEW p \in list', About(p, u, s)'
                 PROVE  "Started" \in Trigger(u, s)' /\ state'[p] = "Started"
      BY DEF PassedInOrder, Passed
    <2>1. Passed(u, s)
      BY <1>3, <1>4, <1>5 DEF Good, PassedInOrder
    <2> QED BY <1>3, <1>4, <1>5, <1>7, <2>1 DEF Passed
  <1>13. Complete'
    <2> SUFFICES ASSUME NEW u \in list', NEW s \in 1..2, s = current_step'[u]
                 PROVE  IF "Started" \in Trigger(u, s)'
                        THEN \A p, r \in list' :
                               Entry(u, s) \in Entries(p)' /\ About(r, u, s)' => r <= p
                        ELSE \A p \in list' : About(p, u, s)' => Entry(u, s) \in Entries(p)'
      BY DEF Complete, Entry
    <2>1. u \in list /\ s = current_step[u] /\ list' \subseteq list
      BY <1>3, <1>4, <1>5
    <2>2. \A p \in list' : Entries(p)' = Entries(p)
      BY <1>3, <1>4, <1>6
    <2> QED BY <1>7, <2>1, <2>2 DEF Good, Complete
  <1>14. ASSUME NEW u \in list'
         PROVE  /\ u \in list /\ u \in Op /\ required'[u] = required[u]
                /\ current_step'[u] = current_step[u] /\ required[u] \in Nat
    BY <1>3, <1>4, <1>5 DEF TypeOK
  <1>15. Counted(calls)'
    <2> SUFFICES ASSUME NEW u \in list', NEW s \in 1..2, s = current_step'[u]
                 PROVE  required'[u] >= Cardinality(Waits(u, s)')
                          + Cardinality(Told(calls', u, s, Trigger(u, s)'))
      BY DEF Counted, Told
    <2>1. required[u] >= Cardinality(Waits(u, s)) + Cardinality(Told(rest, u, s, Trigger(u, s)))
      BY <1>14 DEF Good, Counted
    <2>2. Waits(u, s)' \in SUBSET Waits(u, s) /\ o \notin Waits(u, s)'
      <3>1. ASSUME NEW p \in Waits(u, s)' PROVE p \in Waits(u, s) /\ p # o
        <4>1. /\ p \in list' /\ Entry(u, s) \in Entries(p)'
              /\ "Started" \in Trigger(u, s)' => state'[p] # "Started"
          BY DEF Waits, Entry
        <4>2. p # o /\ p \in list /\ p \in Op /\ Entries(p)' = Entries(p) /\ state'[p] = state[p]
          BY <1>3, <1>4, <1>5, <1>6, <4>1
        <4> QED BY <1>7, <4>1, <4>2 DEF Waits
      <3> QED BY <3>1
    <2>3. event \in Trigger(u, s) /\ Entry(u, s) \in Entries(o) => o \in Waits(u, s)
      BY <1>1, <1>3, <1>14, Triggers DEF Waits
    <2>4. IsFiniteSet(Waits(u, s))
      BY <1>3, WaitsFinite
    <2> DEFINE T == Trigger(u, s)
               W == Waits(u, s)
               V == Waits(u, s)'
               n == required[u]
    <2>5. /\ n \in Nat /\ n >= Cardinality(W) + Cardinality(Told(rest, u, s, T))
          /\ V \in SUBSET W /\ IsFiniteSet(W)
          /\ event \in T /\ Entry(u, s) \in Entries(o) => o \in W /\ o \notin V
          /\ u \in Op
      BY <1>14, <2>1, <2>2, <2>3, <2>4
    <2>6. required'[u] = n /\ Trigger(u, s)' = T
      BY <1>7, <1>14
    <2> HIDE DEF T, W, V, n
    <2>7. n >= Cardinality(V) + Cardinality(Told(Notifications(o, event) \o rest, u, s, T))
      BY <1>1, <1>3, <2>5, CountedAfter
    <2>8. n >= Cardinality(V) + Cardinality(Told(calls', u, s, T))
      BY <1>2, <2>7
    <2> QED BY <2>6, <2>8 DEF V
  <1>16. Heard(calls)'
    <2> SUFFICES ASSUME NEW u \in list', NEW s \in 1..2, s = current_step'[u],
                        "Started" \in Trigger(u, s)',
                        Told(calls', u, s, {"Started"}) # {},
                        NEW p \in list', About(p, u, s)'
                 PROVE  state'[p] = "Started"
      BY DEF Heard, Told
    <2>1. Told(Notifications(o, event) \o rest, u, s, {"Started"}) # {}
      BY <1>2
    <2>2. Told(rest, u, s, {"Started"}) # {}
      BY <1>1, <1>3, <1>14, <2>1, ToldBefore
    <2>3. state[p] = "Started"
      BY <1>3, <1>4, <1>7, <1>14, <2>2 DEF Good, Heard
    <2> QED BY <1>3, <1>4, <1>5, <2>3
  <1> QED BY <1>8, <1>9, <1>10, <1>11, <1>12, <1>13, <1>15, <1>16 DEF Inv, Good

\* An operation whose starting slot returns starts, as all before it of its
\* quality have: so those that waited for the latest to start wait no longer.
LEMMA Starts ==
  ASSUME NEW rest, Good(rest), NEW o \in list,
         state[o] = "NotStarted", current_step[o] = 3,
         \A i \in 1..Len(rest) : rest[i] # Slot(o),
         state' = [state EXCEPT ![o] = "Started"],
         signalDependents(o, "Started", rest),
         UNCHANGED <<added, kind, list, chains, answered>>
  PROVE  Inv'
  <1>1. calls' = Notifications(o, "Started") \o rest
    BY DEF signalDependents, Notifications
  <1>2. /\ TypeOK /\ Recorded /\ Listed /\ rest \in Seq(Call) /\ CallsKnown(rest)
        /\ o \in Op /\ list \subseteq Op /\ added \in Nat
    BY ListedAreOps DEF Good
  <1>3. /\ added' = added /\ kind' = kind /\ list' = list /\ answered' = answered
        /\ current_step' = current_step /\ required' = required
        /\ remaining' = remaining /\ dependents' = dependents
    BY DEF chains
  <1>4. /\ \A u \in Op : u # o => state'[u] = state[u]
        /\ state'[o] = "Started"
        /\ \A u \in Op : state[u] = "Started" => state'[u] = "Started"
    BY <1>2 DEF TypeOK
  <1>5. /\ \A u : Entries(u)' = Entries(u)
        /\ \A u, t : Trigger(u, t)' = Trigger(u, t)
        /\ \A q, u, t : About(q, u, t)' = About(q, u, t)
    BY <1>3 DEF Entries, Trigger, About
  <1>6. calls' \in Seq(Call) /\ CallsKnown(calls)'
    BY <1>1, <1>2, <1>3, <1>4, CallsKnownAfter
  <1>7. TypeOK'
    <2>1. state' \in [Op -> State]
      BY <1>2 DEF TypeOK, State
    <2> QED BY <1>2, <1>3, <1>6, <2>1 DEF TypeOK
  <1>8. Listed'
    <2>1. o <= added
      BY <1>2 DEF TypeOK
    <2>2. \A u \in Op : u \in list' <=> u <= added' /\ state'[u] \notin Finished
      <3>1. "Started" \notin Finished
        BY DEF Finished, Failed
      <3> QED BY <1>2, <1>3, <1>4, <2>1, <3>1 DEF Listed
    <2>3. \A u \in Op : u > added' => state'[u] = "NotStarted"
      <3>1. ASSUME NEW u \in Op, u > added PROVE u # o
        BY <1>2, <2>1, <3>1 DEF Op
      <3> QED BY <1>2, <1>3, <1>4, <3>1 DEF Listed
    <2>4. \A u \in Op : current_step'[u] # 0 <=> u \in list'
      BY <1>3, <1>2 DEF Listed
    <2>5. \A u \in list' : state'[u] = "Started" => current_step'[u] = 3
      BY <1>2, <1>3, <1>4 DEF Listed
    <2> QED BY <2>2, <2>3, <2>4, <2>5 DEF Listed
  <1>9. Recorded'
    BY <1>2, <1>3, <1>5 DEF Recorded
  <1>10. PassedInOrder'
    <2> SUFFICES ASSUME NEW u \in list, NEW s \in 1..2, s < current_step[u],
                        NEW p \in list, About(p, u, s)
                 PROVE  "Started" \in Trigger(u, s) /\ state'[p] = "Started"
      BY <1>3, <1>5 DEF PassedInOrder, Passed
    <2>1. Passed(u, s)
      BY DEF Good, PassedInOrder
    <2> QED BY <1>2, <1>4, <2>1 DEF Passed
  <1>11. Complete'
    BY <1>3, <1>5 DEF Good, Complete, Entry
  <1>12. Counted(calls)'
    <2> SUFFICES ASSUME NEW u \in list, NEW s \in 1..2, s = current_step[u]
                 PROVE  required[u] >= Cardinality(Waits(u, s)')
                          + Cardinality(Told(calls', u, s, Trigger(u, s)))
      BY <1>3, <1>5 DEF Counted, Told
    <2>1. required[u] >= Cardinality(Waits(u, s)) + Cardinality(Told(rest, u, s, Trigger(u, s)))
      BY DEF Good, Counted
    <2>2. u \in Op /\ required[u] \in Nat
      BY <1>2 DEF TypeOK
    <2>3. ASSUME NEW p \in Waits(u, s)' PROVE p \in Waits(u, s)
      <3>1. /\ p \in list /\ Entry(u, s) \in Entries(p)
            /\ "Started" \in Trigger(u, s) => state'[p] # "Started"
        BY <1>3, <1>5 DEF Waits, Entry
      <3> QED BY <1>2, <1>4, <3>1 DEF Waits
    <2>4. "Started" \in Trigger(u, s) /\ Entry(u, s) \in Entries(o)
            => o \in Waits(u, s) /\ o \notin Waits(u, s)'
      BY <1>4, <1>5 DEF Waits
    <2>5. IsFiniteSet(Waits(u, s))
      BY <1>2, WaitsFinite
    <2> DEFINE T == Trigger(u, s)
               W == Waits(u, s)
               V == Waits(u, s)'
               n == required[u]
    <2>6. /\ n \in Nat /\ n >= Cardinality(W) + Cardinality(Told(rest, u, s, T))
          /\ V \in SUBSET W /\ IsFiniteSet(W)
          /\ "Started" \in T /\ Entry(u, s) \in Entries(o) => o \in W /\ o \notin V
      BY <2>1, <2>2, <2>3, <2>4, <2>5
    <2> HIDE DEF T, W, V, n
    <2>7. n >= Cardinality(V) + Cardinality(Told(Notifications(o, "Started") \o rest, u, s, T))
      BY <1>2, <2>2, <2>6, CountedAfter
    <2> QED BY <1>1, <2>7 DEF T, V, n
  <1>13. Heard(calls)'
    <2> SUFFICES ASSUME NEW u \in list, NEW s \in 1..2, s = current_step[u],
                        "Started" \in Trigger(u, s),
                        Told(calls', u, s, {"Started"}) # {},
                        NEW p \in list, About(p, u, s)
                 PROVE  state'[p] = "Started"
      BY <1>3, <1>5 DEF Heard, Told
    <2>1. u \in Op /\ p \in Op
      BY <1>2
    <2>2. \/ Told(rest, u, s, {"Started"}) # {}
          \/ Entry(u, s) \in Entries(o)
      <3>1. Told(Notifications(o, "Started") \o rest, u, s, {"Started"}) # {}
        BY <1>1
      <3> QED BY <1>2, <2>1, <3>1, ToldBefore
    <2>3. CASE Told(rest, u, s, {"Started"}) # {}
      BY <1>4, <2>1, <2>3 DEF Good, Heard
    <2>4. CASE Entry(u, s) \in Entries(o)
      <3>1. p <= o
        BY <2>4 DEF Good, Complete
      <3>2. About(o, u, s)
        BY <1>2, <2>4 DEF Recorded, Entry
      <3>3. CASE p = o
        BY <1>4, <3>3
      <3>4. CASE p # o
        <4>1. p < o
          BY <1>2, <2>1, <3>1, <3>4 DEF Op
        <4>2. Quality(kind[p]) = Quality(kind[o])
          BY <3>2 DEF About
        <4>3. kind[o] \in Kind
          BY <1>2 DEF TypeOK, Kind
        <4>4. About(p, o, 1)
          BY <4>1, <4>2, <4>3, Chains DEF About
        <4>5. Passed(o, 1)
          BY DEF Good, PassedInOrder
        <4>6. state[p] = "Started"
          BY <4>4, <4>5 DEF Passed
        <4> QED BY <1>4, <2>1, <4>6
      <3> QED BY <3>3, <3>4
    <2> QED BY <2>2, <2>3, <2>4
  <1> QED BY <1>6, <1>7, <1>8, <1>9, <1>10, <1>11, <1>12, <1>13 DEF Inv, Good

\* The latest of some operations.
LEMMA LatestOf ==
  ASSUME NEW n \in Nat, NEW S \in SUBSET (1..n), S # {}
  PROVE  \E p \in S : \A r \in S : r <= p
  <1> DEFINE T == {n - p : p \in S}
             R == OpToRel(<, Nat)
  <1>1. \A x, y \in Nat : x < y => <<x, y>> \in R
    BY DEF OpToRel
  <1>2. IsWellFoundedOn(R, Nat)
    BY NatLessThanWellFounded
  <1> HIDE DEF R
  <1>3. T \subseteq Nat /\ T # {}
    <2>1. ASSUME NEW q \in S PROVE n - q \in Nat /\ n - q \in T
      OBVIOUS
    <2> QED BY <2>1
  <1> HIDE DEF T
  <1>4. PICK x \in T : \A y \in T : ~ (<<y, x>> \in R)
    BY <1>2, <1>3, WFMin
  <1> USE DEF T
  <1>5. PICK p \in S : x = n - p
    BY <1>4
  <1>6. ASSUME NEW r \in S PROVE r <= p
    <2>1. n - r \in T /\ ~(<<n - r, x>> \in R)
      BY <1>4
    <2>2. ~(n - r < x)
      BY <1>1, <1>3, <1>4, <2>1
    <2> QED BY <1>5, <2>2
  <1> QED BY <1>6

\* Operations of one quality start in order, those off the list left out.
LEMMA EarlierStarted ==
  ASSUME TypeOK, Listed, PassedInOrder,
         NEW m \in list, state[m] = "Started",
         NEW p \in list, p < m, Quality(kind[p]) = Quality(kind[m])
  PROVE  state[p] = "Started"
  <1>1. m \in Op /\ current_step[m] = 3
    BY ListedAreOps DEF Listed
  <1>2. kind[m] \in Kind
    BY <1>1 DEF TypeOK, Kind
  <1>3. About(p, m, 1)
    BY <1>2, Chains DEF About
  <1>4. Passed(m, 1)
    BY <1>1 DEF PassedInOrder
  <1> QED BY <1>3, <1>4 DEF Passed

\* A step of a later operation with nothing to wait for can be passed.
LEMMA NothingAwaited ==
  ASSUME TypeOK, Listed, PassedInOrder, NEW o \in Op, NEW k \in Kind, NEW s \in 1..2,
         Awaited(o, Dependencies(k)[s]) = {},
         NEW p \in list, p < o, Quality(kind[p]) = Dependencies(k)[s].quality
  PROVE  "Started" \in Dependencies(k)[s].trigger /\ state[p] = "Started"
  <1> DEFINE c == Dependencies(k)[s]
             before == {r \in list : r < o /\ Quality(kind[r]) = c.quality}
  <1>1. p \in before
    OBVIOUS
  <1>2. CASE c.scope = "All" /\ c.trigger = {"Succeeded", "Failed"}
    <2>1. p \in SubObjects(o, c)
      BY <1>2 DEF SubObjects
    <2>2. p \in Awaited(o, c)
      BY <1>2, <2>1 DEF Awaited
    <2> QED BY <2>2
  <1>3. CASE c.scope = "Latest" /\ c.trigger = {"Started"}
    <2>1. before \in SUBSET (1..added) /\ added \in Nat
      BY ListedAreOps DEF TypeOK
    <2> HIDE DEF before
    <2>2. PICK m \in before : \A r \in before : r <= m
      BY <1>1, <2>1, LatestOf
    <2> USE DEF before
    <2>3. m \in SubObjects(o, c)
      BY <1>3, <2>2 DEF SubObjects
    <2>4. state[m] = "Started"
      BY <1>3, <2>3 DEF Awaited
    <2>5. p <= m /\ m \in list /\ Quality(kind[p]) = Quality(kind[m])
      BY <1>1, <2>2
    <2>6. CASE p = m
      BY <1>3, <2>4, <2>6
    <2>7. CASE p # m
      <3>1. p < m
        BY <2>5, <2>7, ListedAreOps DEF Op
      <3> QED BY <1>3, <2>4, <2>5, <3>1, EarlierStarted
    <2> QED BY <2>6, <2>7
  <1> QED BY <1>2, <1>3, Chains

\* Nothing was heard of a step that was not waited for yet.
LEMMA StepIsFresh ==
  ASSUME NEW rest, Good(rest), NEW o \in Op, o \in list \/ o > added,
         NEW s \in 1..3, current_step[o] < s
  PROVE  /\ \A p \in Op : Entry(o, s) \notin Entries(p)
         /\ \A i \in 1..Len(rest) : /\ rest[i] # Slot(o)
                                    /\ rest[i].call = "notify" /\ rest[i].op = o =>
                                         o \in list /\ rest[i].step < s
         /\ \A events : Told(rest, o, s, events) = {}
         /\ state[o] = "NotStarted"
  <1>1. /\ TypeOK /\ Recorded /\ Listed /\ CallsKnown(rest)
        /\ added \in Nat /\ list \subseteq 1..added
    BY ListedAreOps DEF Good, TypeOK
  <1>2. o <= added => o \in list
    <2>1. o \in Int
      BY DEF Op
    <2> QED BY <1>1, <2>1
  <1>3. current_step[o] \in 0..2
    BY <1>1 DEF TypeOK
  <1>4. \A p \in Op : Entry(o, s) \notin Entries(p)
    <2>1. ASSUME NEW p \in Op, Entry(o, s) \in Entries(p) PROVE FALSE
      <3>1. o \in 1..added /\ (o \in list => s <= current_step[o])
        BY <1>1, <2>1 DEF Recorded, Entry
      <3> QED BY <1>2, <1>3, <3>1
    <2> QED BY <2>1
  <1>5. ASSUME NEW i \in 1..Len(rest), rest[i] = Slot(o) PROVE FALSE
    <2>1. rest[i].call = "slot" /\ rest[i].op = o
      BY <1>5 DEF Slot
    <2> QED BY <1>1, <1>3, <2>1 DEF CallsKnown
  <1>6. ASSUME NEW i \in 1..Len(rest), rest[i].call = "notify", rest[i].op = o
        PROVE  o \in list /\ rest[i].step < s
    <2>1. /\ o <= added /\ rest[i].step \in 1..2
          /\ o \in list => rest[i].step <= current_step[o]
      BY <1>1, <1>6 DEF CallsKnown
    <2> QED BY <1>2, <1>3, <2>1
  <1>7. \A events : Told(rest, o, s, events) = {}
    <2>1. ASSUME NEW i \in 1..Len(rest), rest[i].call = "notify", rest[i].op = o
          PROVE  rest[i].step # s
      <3>1. rest[i].step < s /\ rest[i].step \in 1..2
        BY <1>1, <1>6, <2>1 DEF CallsKnown
      <3> QED BY <3>1
    <2> QED BY <2>1 DEF Told
  <1>8. state[o] = "NotStarted"
    <2>1. CASE o > added
      BY <1>1, <2>1 DEF Listed
    <2>2. CASE o \in list
      <3>1. state[o] # "Started" /\ state[o] \notin Finished /\ state[o] \in State
        BY <1>1, <1>3, <2>2 DEF Listed, TypeOK
      <3> QED BY <3>1 DEF State
    <2> QED BY <2>1, <2>2
  <1> QED BY <1>4, <1>5, <1>6, <1>7, <1>8

\* Operation o, of kind k, comes to wait for step s and for those of new, or
\* passes all steps (s = 3).
IsAdded(o, k) ==
  /\ o = added + 1 /\ added' = o
  /\ kind' = [kind EXCEPT ![o] = k] /\ list' = list \cup {o}
IsKept(o, k) ==
  /\ o \in list /\ k = kind[o]
  /\ added' = added /\ kind' = kind /\ list' = list
NothingToWaitFor(o, k, t) ==
  \A p \in list : p < o /\ Quality(kind[p]) = Dependencies(k)[t].quality =>
    "Started" \in Dependencies(k)[t].trigger /\ state[p] = "Started"
Reaches(o, k, s, new) ==
  /\ IsAdded(o, k) \/ IsKept(o, k)
  /\ \A t \in 1..2 : t < s => NothingToWaitFor(o, k, t)
  /\ s # 3 => new = SubObjects(o, Dependencies(k)[s])
  /\ s = 3 => new = {}
  /\ current_step' = [current_step EXCEPT ![o] = s]
  /\ s # 3 => /\ Awaited(o, Dependencies(k)[s]) # {}
              /\ required'[o] = Cardinality(Awaited(o, Dependencies(k)[s]))
              /\ remaining'[o] = Cardinality(SubObjects(o, Dependencies(k)[s]))
  /\ \A u \in Op : u # o => required'[u] = required[u] /\ remaining'[u] = remaining[u]
  /\ required' \in [Op -> Nat] /\ remaining' \in [Op -> Nat]
  /\ state' = state /\ answered' = answered
Records(o, s, new) ==
  /\ dependents' \in [Op -> Seq([op : Op, step : 1..2])]
  /\ \A p \in Op : Entries(p)' = IF p \in new THEN Entries(p) \cup {Entry(o, s)}
                                              ELSE Entries(p)
  /\ \A p \in Op : \A i, j \in 1..Len(dependents'[p]) :
       dependents'[p][i] = dependents'[p][j] => i = j

LEMMA MovesOn ==
  ASSUME NEW rest, Good(rest), NEW o \in Op, NEW k \in Kind, NEW s \in 1..3,
         current_step[o] < s, NEW new \in SUBSET list,
         Reaches(o, k, s, new), Records(o, s, new),
         calls' = IF s = 3 THEN <<Slot(o)>> \o rest ELSE rest
  PROVE  Inv'
  <1>1. /\ TypeOK /\ Recorded /\ Listed /\ PassedInOrder /\ Complete
        /\ rest \in Seq(Call) /\ CallsKnown(rest) /\ Counted(rest) /\ Heard(rest)
        /\ list \subseteq Op /\ added \in Nat /\ list \subseteq 1..added
    BY ListedAreOps DEF Good, TypeOK
  <1>2. o \in list \/ o > added
    BY <1>1 DEF Reaches, IsAdded, IsKept
  <1>3. /\ \A p \in Op : Entry(o, s) \notin Entries(p)
        /\ \A i \in 1..Len(rest) : /\ rest[i] # Slot(o)
                                   /\ rest[i].call = "notify" /\ rest[i].op = o =>
                                        o \in list /\ rest[i].step < s
        /\ \A events : Told(rest, o, s, events) = {}
        /\ state[o] = "NotStarted"
    BY <1>2, StepIsFresh
  <1>4. /\ list' = list \cup {o} /\ list' \subseteq Op
        /\ added' \in Nat /\ added <= added' /\ o <= added' /\ added' <= MaxOps
        /\ list' \subseteq 1..added'
    <2>1. CASE IsAdded(o, k)
      <3>0. o = added + 1 /\ added' = o /\ list' = list \cup {o}
        BY <2>1 DEF IsAdded
      <3>1. added' \in Nat /\ added <= added' /\ o <= added' /\ added' <= MaxOps
        BY <1>1, <3>0, SequencerAssumption DEF Op
      <3>2. 1..added \subseteq 1..added' /\ o \in 1..added'
        BY <1>1, <3>0, <3>1
      <3> QED BY <1>1, <3>0, <3>1, <3>2
    <2>2. CASE IsKept(o, k)
      <3>1. o \in list /\ added' = added /\ list' = list
        BY <2>2 DEF IsKept
      <3>2. added <= MaxOps /\ o <= added
        BY <1>1, <3>1, ListedAreOps
      <3> QED BY <1>1, <3>1, <3>2
    <2> QED BY <2>1, <2>2 DEF Reaches
  <1>5. /\ \A u \in Op : u # o => current_step'[u] = current_step[u]
        /\ current_step'[o] = s
        /\ state' = state /\ answered' = answered
        /\ required' \in [Op -> Nat] /\ remaining' \in [Op -> Nat]
        /\ \A u \in Op : u # o => required'[u] = required[u]
        /\ dependents' \in [Op -> Seq([op : Op, step : 1..2])]
    BY <1>1 DEF TypeOK, Reaches, Records
  <1>6. ASSUME NEW u \in 1..added, NEW t
        PROVE  /\ kind'[u] = kind[u] /\ Trigger(u, t)' = Trigger(u, t)
               /\ \A p \in Op : About(p, u, t)' <=> About(p, u, t)
    <2>1. u \in Op
      BY <1>1, SequencerAssumption DEF TypeOK, Op
    <2>2. CASE IsAdded(o, k)
      <3>1. \A p \in Op : p <= added => kind'[p] = kind[p]
        BY <1>1, <2>2 DEF TypeOK, IsAdded
      <3>2. kind'[u] = kind[u]
        BY <2>1, <3>1
      <3>3. ASSUME NEW p \in Op, p < u PROVE kind'[p] = kind[p]
        <4>1. p <= added
          BY <1>1, <3>3 DEF Op
        <4> QED BY <3>1, <4>1
      <3> QED BY <3>2, <3>3 DEF About, Trigger
    <2>3. CASE IsKept(o, k)
      BY <2>3 DEF About, Trigger, IsKept
    <2> QED BY <2>2, <2>3 DEF Reaches
  <1>7. /\ kind'[o] = k /\ kind' \in [Op -> {"read", "direct", "write"}]
        /\ \A t : Trigger(o, t)' = Dependencies(k)[t].trigger
        /\ \A t : \A p \in list : About(p, o, t)' <=>
             p < o /\ Quality(kind[p]) = Dependencies(k)[t].quality
    <2>1. kind'[o] = k /\ kind' \in [Op -> {"read", "direct", "write"}]
      BY <1>1 DEF TypeOK, Kind, Reaches, IsAdded, IsKept
    <2>2. \A p \in list : kind'[p] = kind[p]
      BY <1>1, <1>6
    <2> QED BY <2>1, <2>2 DEF Trigger, About
  <1>8. ASSUME NEW u \in list, u # o
        PROVE  /\ u \in Op /\ u \in 1..added
               /\ current_step'[u] = current_step[u] /\ required'[u] = required[u]
               /\ \A p \in list', t \in 1..2 : About(p, u, t)' => p \in list /\ About(p, u, t)
    <2>1. u \in Op /\ u \in 1..added
      BY <1>1
    <2>2. ASSUME NEW p \in list', NEW t \in 1..2, About(p, u, t)'
          PROVE  p \in list /\ About(p, u, t)
      <3>1. About(p, u, t)
        BY <1>4, <1>6, <2>1, <2>2
      <3>2. p < u
        BY <3>1 DEF About
      <3>3. ~(o > added) \/ p # o
        BY <2>1, <3>2, <1>1
      <3> QED BY <1>2, <1>4, <3>1, <3>3
    <2> QED BY <1>5, <1>8, <2>1, <2>2
  <1>9. \A t : \A p \in list' : About(p, o, t)' => p \in list
    <2>1. \A t : ~About(o, o, t)'
      BY DEF About, Op
    <2> QED BY <1>4, <2>1
  <1>10. calls' \in Seq(Call)
    <2>1. Slot(o) \in Call
      BY DEF Slot, Call
    <2>2. <<Slot(o)>> \in Seq(Call)
      BY <2>1
    <2> QED BY <1>1, <2>2, CallsTogether
  <1>11. TypeOK'
    <2>1. current_step' \in [Op -> 0..3]
      BY <1>1 DEF TypeOK, Reaches
    <2>2. added' \in 0..MaxOps
      BY <1>4, SequencerAssumption
    <2> QED BY <1>1, <1>4, <1>5, <1>7, <1>10, <2>1, <2>2 DEF TypeOK
  <1>12. Listed'
    <2>1. "NotStarted" \notin Finished
      BY DEF Finished, Failed
    <2>2. ASSUME NEW u \in Op
          PROVE  /\ u \in list' <=> u <= added' /\ state'[u] \notin Finished
                 /\ u > added' => state'[u] = "NotStarted"
                 /\ current_step'[u] # 0 <=> u \in list'
                 /\ u \in list' /\ state'[u] = "Started" => current_step'[u] = 3
      <3>1. CASE u = o
        <4>1. u \in list' /\ u <= added' /\ state'[u] = "NotStarted" /\ current_step'[u] # 0
          BY <1>3, <1>4, <1>5, <3>1
        <4> QED BY <2>1, <4>1
      <3>2. CASE u # o
        <4>1. u \in list' <=> u \in list
          BY <1>4, <3>2
        <4>2. u <= added' <=> u <= added
          <5>1. added' = added \/ (o = added + 1 /\ added' = o)
            BY DEF Reaches, IsAdded, IsKept
          <5>2. u \in Nat /\ added \in Nat /\ u # o
            BY <1>1, <3>2 DEF Op
          <5> QED BY <5>1, <5>2
        <4>3. u > added' => u > added
          BY <1>1, <1>4 DEF Op
        <4> QED BY <1>1, <1>5, <3>2, <4>1, <4>2, <4>3 DEF Listed
      <3> QED BY <3>1, <3>2
    <2> QED BY <1>4, <2>2 DEF Listed
  <1>13. Recorded'
    <2>0. \A p \in Op : \A i, j \in 1..Len(dependents'[p]) :
            dependents'[p][i] = dependents'[p][j] => i = j
      BY DEF Records
    <2> SUFFICES ASSUME NEW p \in Op, NEW e \in Entries(p)'
                 PROVE  /\ p \in list' /\ e.op \in 1..added'
                        /\ About(p, e.op, e.step)'
                        /\ e.op \in list' => e.step <= current_step'[e.op]
      BY <2>0 DEF Recorded
    <2>1. CASE e \in Entries(p)
      <3>1. /\ p \in list /\ e.op \in 1..added /\ About(p, e.op, e.step)
            /\ e.op \in list => e.step <= current_step[e.op]
        BY <1>1, <2>1 DEF Recorded
      <3>2. e.op \in 1..added'
        BY <1>1, <1>4, <3>1
      <3>3. About(p, e.op, e.step)'
        BY <1>6, <3>1
      <3>4. e.op \in list' => e.step <= current_step'[e.op]
        <4>1. CASE e.op = o
          <5>1. o \in list
            BY <1>1, <1>2, <3>1, <4>1
          <5>2. e.step <= current_step[o] /\ current_step[o] \in 0..3
            BY <1>1, <3>1, <4>1, <5>1 DEF TypeOK
          <5>3. e.step \in 1..2
            BY <1>1, <2>1, EntriesAreSteps
          <5> QED BY <1>5, <4>1, <5>2, <5>3
        <4>2. CASE e.op # o
          <5>1. e.op \in list' => e.op \in list /\ e.op \in Op
            BY <1>1, <1>4, <4>2
          <5> QED BY <1>5, <3>1, <4>2, <5>1
        <4> QED BY <4>1, <4>2
      <3> QED BY <1>4, <3>1, <3>2, <3>3, <3>4
    <2>2. CASE e \notin Entries(p)
      <3>1. p \in new /\ e = Entry(o, s)
        BY <2>2 DEF Records
      <3>2. e.op = o /\ e.step = s /\ p \in list /\ s # 3
        BY <3>1 DEF Entry, Reaches
      <3>3. p < o /\ Quality(kind[p]) = Dependencies(k)[s].quality
        BY <3>1, <3>2 DEF SubObjects, Reaches
      <3> QED BY <1>4, <1>5, <1>7, <3>2, <3>3
    <2> QED BY <2>1, <2>2
  <1>14. PassedInOrder'
    <2> SUFFICES ASSUME NEW u \in list', NEW t \in 1..2, t < current_step'[u],
                        NEW p \in list', About(p, u, t)'
                 PROVE  "Started" \in Trigger(u, t)' /\ state'[p] = "Started"
      BY DEF PassedInOrder, Passed
    <2>1. CASE u = o
      <3>1. t < s /\ p \in list /\ About(p, o, t)'
        BY <1>5, <1>9, <2>1
      <3>2. p < o /\ Quality(kind[p]) = Dependencies(k)[t].quality
        BY <1>7, <3>1
      <3>3. "Started" \in Dependencies(k)[t].trigger /\ state[p] = "Started"
        BY <3>1, <3>2 DEF Reaches, NothingToWaitFor
      <3>4. Trigger(u, t)' = Dependencies(k)[t].trigger
        BY <1>7, <2>1
      <3> QED BY <1>5, <3>3, <3>4
    <2>2. CASE u # o
      <3>1. u \in list
        BY <1>4, <2>2
      <3>2. Passed(u, t)
        BY <1>1, <1>8, <2>2, <3>1 DEF PassedInOrder
      <3> QED BY <1>5, <1>6, <1>8, <2>2, <3>1, <3>2 DEF Passed
    <2> QED BY <2>1, <2>2
  <1>15. \A u \in list' : u # o => \A t \in 1..2 : \A p \in list' :
           Entry(u, t) \in Entries(p)' <=> Entry(u, t) \in Entries(p)
    BY SMTT(30), <1>4 DEF Entry, Records
  <1>16. Complete'
    <2> SUFFICES ASSUME NEW u \in list', NEW t \in 1..2, t = current_step'[u]
                 PROVE  IF "Started" \in Trigger(u, t)'
                        THEN \A p, r \in list' :
                               Entry(u, t) \in Entries(p)' /\ About(r, u, t)' => r <= p
                        ELSE \A p \in list' : About(p, u, t)' => Entry(u, t) \in Entries(p)'
      BY DEF Complete, Entry
    <2>1. CASE u = o
      <3> DEFINE c == Dependencies(k)[s]
                 before == {p \in list : p < o /\ Quality(kind[p]) = c.quality}
      <3>1. t = s /\ s # 3
        BY <1>5, <2>1
      <3>2. \A p \in list' : Entry(o, s) \in Entries(p)' <=> p \in new
        BY <1>3, <1>4 DEF Records
      <3>3. \A p \in list' : About(p, o, s)' => p \in before
        BY <1>7, <1>9
      <3>4. Trigger(u, t)' = c.trigger
        BY <1>7, <2>1, <3>1
      <3>5. CASE c.scope = "All" /\ c.trigger = {"Succeeded", "Failed"}
        <4>1. new = before
          BY <3>1, <3>5 DEF SubObjects, Reaches
        <4>2. ASSUME NEW p \in list', About(p, o, s)' PROVE Entry(o, s) \in Entries(p)'
          <5>1. p \in new
            BY <3>3, <4>1, <4>2
          <5> QED BY <3>2, <5>1
        <4>3. "Started" \notin Trigger(u, t)'
          BY <3>4, <3>5
        <4> HIDE DEF c, before
        <4>4. \A p \in list' : About(p, u, t)' => Entry(u, t) \in Entries(p)'
          BY <2>1, <3>1, <4>2
        <4> QED BY <4>3, <4>4
      <3>6. CASE c.scope = "Latest" /\ c.trigger = {"Started"}
        <4>1. new = {p \in before : \A r \in before : r <= p}
          BY <3>1, <3>6 DEF SubObjects, Reaches
        <4>2. ASSUME NEW p \in list', NEW r \in list',
                     Entry(o, s) \in Entries(p)', About(r, o, s)'
              PROVE  r <= p
          BY <3>2, <3>3, <4>1, <4>2
        <4> QED BY <2>1, <3>1, <3>4, <3>6, <4>2
      <3> QED BY <3>1, <3>5, <3>6, Chains
    <2>2. CASE u # o
      <3>1. u \in list /\ t = current_step[u] /\ Trigger(u, t)' = Trigger(u, t)
        BY <1>4, <1>6, <1>8, <2>2
      <3>2. CASE "Started" \in Trigger(u, t)
        <4>1. ASSUME NEW p \in list', NEW r \in list',
                     Entry(u, t) \in Entries(p)', About(r, u, t)'
              PROVE  r <= p
          <5>1. Entry(u, t) \in Entries(p) /\ p \in Op
            BY <1>4, <1>15, <2>2, <4>1
          <5>2. p \in list
            BY <1>1, <5>1 DEF Recorded
          <5>3. r \in list /\ About(r, u, t)
            BY <1>8, <2>2, <3>1, <4>1
          <5> QED BY <1>1, <3>1, <3>2, <5>1, <5>2, <5>3 DEF Complete
        <4> QED BY <3>1, <3>2, <4>1
      <3>3. CASE "Started" \notin Trigger(u, t)
        <4>1. ASSUME NEW p \in list', About(p, u, t)' PROVE Entry(u, t) \in Entries(p)'
          <5>1. p \in list /\ About(p, u, t)
            BY <1>8, <2>2, <3>1, <4>1
          <5>2. Entry(u, t) \in Entries(p)
            BY <1>1, <3>1, <3>3, <5>1 DEF Complete
          <5> QED BY <1>15, <2>2, <5>2
        <4> QED BY <3>1, <3>3, <4>1
      <3> QED BY <3>2, <3>3
    <2> QED BY <2>1, <2>2
  <1>17. ASSUME NEW i \in 1..Len(calls')
         PROVE  \/ s = 3 /\ i = 1 /\ calls'[i] = Slot(o)
                \/ s = 3 /\ i - 1 \in 1..Len(rest) /\ calls'[i] = rest[i - 1]
                \/ s # 3 /\ i \in 1..Len(rest) /\ calls'[i] = rest[i]
    BY <1>1, SlotFirst
  <1>18. ASSUME NEW j \in 1..Len(rest)
         PROVE  /\ rest[j].call = "notify" =>
                     /\ rest[j].op <= added' /\ rest[j].step \in 1..2
                     /\ rest[j].op \in list' => rest[j].step <= current_step'[rest[j].op]
                /\ rest[j].call = "slot" =>
                     /\ rest[j] = Slot(rest[j].op)
                     /\ rest[j].op \in list' /\ state'[rest[j].op] = "NotStarted"
                     /\ current_step'[rest[j].op] = 3
                /\ rest[j] # Slot(o) /\ rest[j].op \in Op
    <2>1. rest[j].op \in Op
      <3>1. rest[j] \in Call
        BY <1>1, ElementOfSeq
      <3> QED BY <3>1 DEF Call
    <2>2. CASE rest[j].call = "notify"
      <3>1. /\ rest[j].op <= added /\ rest[j].step \in 1..2
            /\ rest[j].op \in list => rest[j].step <= current_step[rest[j].op]
        BY <1>1, <2>2 DEF CallsKnown
      <3>2. rest[j].op <= added'
        BY <1>1, <1>4, <2>1, <3>1 DEF Op
      <3>3. CASE rest[j].op = o
        <4>1. rest[j].step < s
          BY <1>3, <2>2, <3>3
        <4> QED BY <1>3, <1>5, <2>1, <2>2, <3>1, <3>2, <3>3, <4>1
      <3>4. CASE rest[j].op # o
        BY <1>3, <1>4, <1>5, <2>1, <2>2, <3>1, <3>2, <3>4
      <3> QED BY <3>3, <3>4
    <2>3. CASE rest[j].call = "slot"
      <3>1. /\ rest[j] = Slot(rest[j].op)
            /\ rest[j].op \in list /\ state[rest[j].op] = "NotStarted"
            /\ current_step[rest[j].op] = 3
        BY <1>1, <2>3 DEF CallsKnown
      <3>2. rest[j] # Slot(o) /\ rest[j].op # o
        BY <1>3, <3>1
      <3> QED BY <1>4, <1>5, <2>1, <2>3, <3>1, <3>2
    <2>4. rest[j] # Slot(o)
      BY <1>3
    <2> QED BY <2>1, <2>2, <2>3, <2>4
  <1>19. CallsKnown(calls)'
    <2>1. /\ Slot(o).call = "slot" /\ Slot(o).op = o
          /\ s = 3 => o \in list' /\ state'[o] = "NotStarted" /\ current_step'[o] = 3
      BY <1>3, <1>4, <1>5 DEF Slot
    <2>2. ASSUME NEW i \in 1..Len(calls'), calls'[i].call = "notify"
          PROVE  /\ calls'[i].op <= added' /\ calls'[i].step \in 1..2
                 /\ calls'[i].op \in list' => calls'[i].step <= current_step'[calls'[i].op]
      BY <1>17, <1>18, <2>1, <2>2
    <2>3. ASSUME NEW i \in 1..Len(calls'), calls'[i].call = "slot"
          PROVE  /\ calls'[i] = Slot(calls'[i].op)
                 /\ calls'[i].op \in list' /\ state'[calls'[i].op] = "NotStarted"
                 /\ current_step'[calls'[i].op] = 3
      BY <1>17, <1>18, <2>1, <2>3
    <2>4. ASSUME NEW i \in 1..Len(calls'), NEW j \in 1..Len(calls'),
                 calls'[i].call = "slot", calls'[i] = calls'[j]
          PROVE  i = j
      <3>1. CASE s # 3
        BY <1>1, <1>17, <2>4, <3>1 DEF CallsKnown
      <3>2. CASE s = 3 /\ calls'[i] = Slot(o)
        <4>1. i = 1 /\ j = 1
          BY <1>17, <1>18, <2>4, <3>2
        <4> QED BY <4>1
      <3>3. CASE s = 3 /\ calls'[i] # Slot(o)
        <4>1. /\ i - 1 \in 1..Len(rest) /\ calls'[i] = rest[i - 1]
              /\ j - 1 \in 1..Len(rest) /\ calls'[j] = rest[j - 1]
          BY <1>17, <2>4, <3>3
        <4>2. i - 1 = j - 1
          BY <1>1, <2>4, <4>1 DEF CallsKnown
        <4> QED BY <4>2
      <3> QED BY <3>1, <3>2, <3>3
    <2>5. /\ \A i \in 1..Len(calls') : calls'[i].call = "notify" =>
               /\ calls'[i].op <= added' /\ calls'[i].step \in 1..2
               /\ calls'[i].op \in list' => calls'[i].step <= current_step'[calls'[i].op]
          /\ \A i \in 1..Len(calls') : calls'[i].call = "slot" =>
               /\ calls'[i] = Slot(calls'[i].op)
               /\ calls'[i].op \in list' /\ state'[calls'[i].op] = "NotStarted"
               /\ current_step'[calls'[i].op] = 3
      BY <2>2, <2>3
    <2> QED BY <2>4, <2>5 DEF CallsKnown
  <1>20. ASSUME NEW u, NEW t, NEW events
         PROVE  /\ Cardinality(Told(calls', u, t, events)) = Cardinality(Told(rest, u, t, events))
                /\ Told(calls', u, t, events) # {} => Told(rest, u, t, events) # {}
    <2>1. CASE s = 3
      <3>1. calls' = <<Slot(o)>> \o rest
        BY <2>1
      <3> QED BY <1>1, <3>1, SlotFirst
    <2>2. CASE s # 3
      BY <2>2
    <2> QED BY <2>1, <2>2
  <1>21. Counted(calls)'
    <2> SUFFICES ASSUME NEW u \in list', NEW t \in 1..2, t = current_step'[u]
                 PROVE  required'[u] >= Cardinality(Waits(u, t)')
                          + Cardinality(Told(calls', u, t, Trigger(u, t)'))
      BY DEF Counted, Told
    <2>1. CASE u = o
      <3>1. t = s /\ s # 3
        BY <1>5, <2>1
      <3> DEFINE c == Dependencies(k)[s]
      <3>2. Trigger(u, t)' = c.trigger
        BY <1>7, <2>1, <3>1
      <3>3. Waits(u, t)' = Awaited(o, c)
        <4>1. new = SubObjects(o, c)
          BY <3>1 DEF Reaches
        <4>2. \A p \in list' : Entry(o, s) \in Entries(p)' <=> p \in new
          BY <1>3, <1>4 DEF Records
        <4>3. Waits(u, t)' = {p \in list' : /\ Entry(o, s) \in Entries(p)'
                                            /\ "Started" \in c.trigger => state[p] # "Started"}
          BY <1>5, <2>1, <3>1, <3>2 DEF Waits, Entry
        <4> HIDE DEF c
        <4>4. new \subseteq list'
          BY <1>4
        <4> QED BY <4>1, <4>2, <4>3, <4>4 DEF Awaited
      <3>4. Cardinality(Told(calls', u, t, Trigger(u, t)')) = 0
        <4>1. Told(rest, u, t, Trigger(u, t)') = {}
          BY <1>3, <2>1, <3>1
        <4>2. Cardinality(Told(rest, u, t, Trigger(u, t)')) = 0
          BY <4>1, FS_EmptySet
        <4> QED BY <1>20, <4>2
      <3>5. required'[u] = Cardinality(Waits(u, t)') /\ required'[u] \in Nat
        BY <1>5, <2>1, <3>1, <3>3 DEF Reaches
      <3> QED BY <3>4, <3>5
    <2>2. CASE u # o
      <3>1. /\ u \in list /\ u \in Op /\ t = current_step[u] /\ Trigger(u, t)' = Trigger(u, t)
            /\ required'[u] = required[u] /\ required[u] \in Nat
        BY <1>1, <1>4, <1>6, <1>8, <2>2 DEF TypeOK
      <3>2. required[u] >= Cardinality(Waits(u, t)) + Cardinality(Told(rest, u, t, Trigger(u, t)))
        BY <1>1, <3>1 DEF Counted
      <3>3. ASSUME NEW p \in Waits(u, t)' PROVE p \in Waits(u, t)
        <4>1. /\ p \in list' /\ Entry(u, t) \in Entries(p)'
              /\ "Started" \in Trigger(u, t) => state[p] # "Started"
          BY <1>5, <3>1 DEF Waits, Entry
        <4>2. p \in Op /\ Entry(u, t) \in Entries(p)
          BY <1>4, <1>15, <2>2, <4>1
        <4>3. p \in list
          BY <1>1, <4>2 DEF Recorded
        <4> QED BY <4>1, <4>2, <4>3 DEF Waits
      <3>4. /\ IsFiniteSet(Waits(u, t)) /\ Cardinality(Waits(u, t)) \in Nat
            /\ Waits(u, t)' \in SUBSET Waits(u, t)
        BY <1>1, <3>3, WaitsFinite
      <3> DEFINE W == Waits(u, t)
                 V == Waits(u, t)'
      <3>5. IsFiniteSet(W) /\ Cardinality(W) \in Nat /\ V \in SUBSET W
        BY <3>4
      <3> HIDE DEF W, V
      <3>6. Cardinality(V) <= Cardinality(W) /\ Cardinality(V) \in Nat
        BY <3>5, FS_Subset, FS_CardinalityType
      <3>7. required'[u] >= Cardinality(W) + Cardinality(Told(calls', u, t, Trigger(u, t)'))
        BY <1>20, <3>1, <3>2 DEF W
      <3>8. Cardinality(Told(calls', u, t, Trigger(u, t)')) \in Nat
        BY <1>10, ToldFinite
      <3>9. required'[u] >= Cardinality(V) + Cardinality(Told(calls', u, t, Trigger(u, t)'))
        BY <3>1, <3>5, <3>6, <3>7, <3>8
      <3> QED BY <3>9 DEF V
    <2> QED BY <2>1, <2>2
  <1>22. Heard(calls)'
    <2> SUFFICES ASSUME NEW u \in list', NEW t \in 1..2, t = current_step'[u],
                        "Started" \in Trigger(u, t)',
                        Told(calls', u, t, {"Started"}) # {},
                        NEW p \in list', About(p, u, t)'
                 PROVE  state'[p] = "Started"
      BY DEF Heard, Told
    <2>1. Told(rest, u, t, {"Started"}) # {}
      BY <1>20
    <2>2. u # o
      BY <1>3, <1>5, <2>1
    <2>3. u \in list /\ t = current_step[u] /\ Trigger(u, t)' = Trigger(u, t)
      BY <1>4, <1>6, <1>8, <2>2
    <2>4. p \in list /\ About(p, u, t)
      BY <1>8, <2>2, <2>3
    <2> QED BY <1>1, <1>5, <2>1, <2>3, <2>4 DEF Heard
  <1> QED BY <1>10, <1>11, <1>12, <1>13, <1>14, <1>16, <1>19, <1>21, <1>22 DEF Inv, Good

\* An operation evaluates its steps from one on that it did not wait for yet,
\* with those before passed.
LEMMA StepReached ==
  ASSUME NEW rest, Good(rest), NEW o \in Op, NEW k \in Kind, NEW first \in 1..3,
         current_step[o] < first,
         IsAdded(o, k) \/ IsKept(o, k),
         \A t \in 1..2 : t < first => NothingToWaitFor(o, k, t),
         evaluateCurrentStep(o, k, first, rest),
         state' = state, answered' = answered
  PROVE  \E s \in 1..3, new \in SUBSET list :
           /\ first <= s /\ current_step[o] < s
           /\ Reaches(o, k, s, new) /\ Records(o, s, new)
           /\ calls' = IF s = 3 THEN <<Slot(o)>> \o rest ELSE rest
  <1> DEFINE chain == Dependencies(k)
             blocking == {j \in first..Len(chain) : Awaited(o, chain[j]) # {}}
  <1>1. /\ TypeOK /\ Recorded /\ Listed /\ PassedInOrder
        /\ list \subseteq Op /\ added \in Nat /\ list \subseteq 1..added
        /\ current_step[o] \in 0..3
    BY ListedAreOps DEF Good, TypeOK
  <1>2. Len(chain) = 2
    BY Chains
  <1>3. ASSUME NEW t \in 1..2, t \notin blocking PROVE NothingToWaitFor(o, k, t)
    <2>1. CASE t < first
      BY <2>1
    <2>2. CASE ~(t < first)
      <3>1. Awaited(o, Dependencies(k)[t]) = {}
        BY <1>2, <1>3, <2>2
      <3> QED BY <1>1, <3>1, NothingAwaited DEF NothingToWaitFor
    <2> QED BY <2>1, <2>2
  <1>4. \/ /\ blocking = {}
           /\ current_step' = [current_step EXCEPT ![o] = Len(chain) + 1]
           /\ required' = [required EXCEPT ![o] = 0]
           /\ remaining' = [remaining EXCEPT ![o] = 0]
           /\ calls' = <<Slot(o)>> \o rest
           /\ UNCHANGED dependents
        \/ \E j \in blocking :
           /\ \A i \in blocking : j <= i
           /\ current_step' = [current_step EXCEPT ![o] = j]
           /\ required' = [required EXCEPT ![o] = Cardinality(Awaited(o, chain[j]))]
           /\ remaining' = [remaining EXCEPT ![o] = Cardinality(SubObjects(o, chain[j]))]
           /\ dependents' = [p \in Op |->
                IF p \in SubObjects(o, chain[j])
                THEN Append(dependents[p], [op |-> o, step |-> j]) ELSE dependents[p]]
           /\ calls' = rest
    BY DEF evaluateCurrentStep, primeSubObjects
  <1> HIDE DEF blocking
  <1>5. CASE /\ blocking = {}
             /\ current_step' = [current_step EXCEPT ![o] = Len(chain) + 1]
             /\ required' = [required EXCEPT ![o] = 0]
             /\ remaining' = [remaining EXCEPT ![o] = 0]
             /\ calls' = <<Slot(o)>> \o rest
             /\ UNCHANGED dependents
    <2>0. current_step' = [current_step EXCEPT ![o] = 3] /\ dependents' = dependents
      BY <1>2, <1>5
    <2>1. /\ required' \in [Op -> Nat] /\ remaining' \in [Op -> Nat]
          /\ \A u \in Op : u # o => required'[u] = required[u] /\ remaining'[u] = remaining[u]
      BY <1>1, <1>5 DEF TypeOK
    <2>2. \A t \in 1..2 : NothingToWaitFor(o, k, t)
      BY <1>3, <1>5
    <2>3. Reaches(o, k, 3, {})
      BY <2>0, <2>1, <2>2 DEF Reaches
    <2>4. Records(o, 3, {})
      BY <1>1, <2>0 DEF Records, Recorded, Entries, TypeOK
    <2>5. first <= 3 /\ current_step[o] < 3
      BY <1>1
    <2>6. calls' = IF 3 = 3 THEN <<Slot(o)>> \o rest ELSE rest
      BY <1>5
    <2>7. 3 \in 1..3 /\ {} \in SUBSET list
      OBVIOUS
    <2> QED BY <2>3, <2>4, <2>5, <2>6, <2>7
  <1>6. ASSUME NEW j \in blocking,
               \A i \in blocking : j <= i,
               current_step' = [current_step EXCEPT ![o] = j],
               required' = [required EXCEPT ![o] = Cardinality(Awaited(o, chain[j]))],
               remaining' = [remaining EXCEPT ![o] = Cardinality(SubObjects(o, chain[j]))],
               dependents' = [p \in Op |->
                 IF p \in SubObjects(o, chain[j])
                 THEN Append(dependents[p], [op |-> o, step |-> j]) ELSE dependents[p]],
               calls' = rest
        PROVE  \E s \in 1..3, new \in SUBSET list :
                 /\ first <= s /\ current_step[o] < s
                 /\ Reaches(o, k, s, new) /\ Records(o, s, new)
                 /\ calls' = IF s = 3 THEN <<Slot(o)>> \o rest ELSE rest
    <2> DEFINE new == SubObjects(o, chain[j])
    <2>1. j \in 1..2 /\ j # 3 /\ first <= j /\ current_step[o] < j
      BY <1>1, <1>2 DEF blocking
    <2>2. new \in SUBSET list /\ Awaited(o, chain[j]) \in SUBSET new
      BY DEF SubObjects, Awaited
    <2>3. /\ IsFiniteSet(new) /\ IsFiniteSet(Awaited(o, chain[j]))
          /\ Cardinality(new) \in Nat /\ Cardinality(Awaited(o, chain[j])) \in Nat
      <3>1. IsFiniteSet(1..added)
        BY <1>1, FS_Interval
      <3>2. IsFiniteSet(list)
        BY <1>1, <3>1, FS_Subset
      <3> HIDE DEF new
      <3>3. IsFiniteSet(new)
        BY <2>2, <3>2, FS_Subset
      <3>4. IsFiniteSet(Awaited(o, chain[j]))
        BY <2>2, <3>3, FS_Subset
      <3> QED BY <3>3, <3>4, FS_CardinalityType
    <2>4. /\ required' \in [Op -> Nat] /\ remaining' \in [Op -> Nat]
          /\ \A u \in Op : u # o => required'[u] = required[u] /\ remaining'[u] = remaining[u]
          /\ required'[o] = Cardinality(Awaited(o, chain[j]))
          /\ remaining'[o] = Cardinality(SubObjects(o, chain[j]))
      BY <1>1, <1>6, <2>3 DEF TypeOK
    <2>45. Awaited(o, chain[j]) # {}
      BY DEF blocking
    <2>5. \A t \in 1..2 : t < j => NothingToWaitFor(o, k, t)
      <3>1. ASSUME NEW t \in 1..2, t < j PROVE t \notin blocking
        BY <1>6, <2>1, <3>1
      <3> QED BY <1>3, <3>1
    <2>6. Reaches(o, k, j, new)
      BY <1>6, <2>1, <2>4, <2>45, <2>5 DEF Reaches
    <2>7. \A p \in Op : Entry(o, j) \notin Entries(p)
      BY <1>1, <2>1, StepIsFresh DEF IsAdded, IsKept
    <2>8. Records(o, j, new)
      <3> HIDE DEF new
      <3>1. ASSUME NEW p \in Op
            PROVE  /\ dependents'[p] \in Seq([op : Op, step : 1..2])
                   /\ Entries(p)' = IF p \in new THEN Entries(p) \cup {Entry(o, j)}
                                                 ELSE Entries(p)
                   /\ \A i, l \in 1..Len(dependents'[p]) :
                        dependents'[p][i] = dependents'[p][l] => i = l
        <4>1. /\ dependents[p] \in Seq([op : Op, step : 1..2])
              /\ \A i, l \in 1..Len(dependents[p]) :
                   dependents[p][i] = dependents[p][l] => i = l
          BY <1>1 DEF TypeOK, Recorded
        <4>2. CASE p \notin new
          <5>1. dependents'[p] = dependents[p]
            BY <1>6, <4>2 DEF new
          <5> QED BY <4>1, <4>2, <5>1 DEF Entries
        <4>3. CASE p \in new
          <5>1. dependents'[p] = Append(dependents[p], Entry(o, j))
            BY <1>6, <4>3 DEF new, Entry
          <5> DEFINE d == dependents[p]
                     n == Len(d)
          <5>2. Entry(o, j) \in [op : Op, step : 1..2]
            BY <2>1 DEF Entry
          <5>3. /\ dependents'[p] \in Seq([op : Op, step : 1..2])
                /\ n \in Nat /\ Len(dependents'[p]) = n + 1
                /\ \A i \in 1..n : dependents'[p][i] = d[i]
                /\ dependents'[p][n + 1] = Entry(o, j)
            BY <4>1, <5>1, <5>2, AppendProperties, LenProperties
          <5>4. \A i \in 1..n : d[i] # Entry(o, j)
            BY <2>7 DEF Entries
          <5>5. Entries(p)' = Entries(p) \cup {Entry(o, j)}
            <6>1. Entries(p)' = {dependents'[p][i] : i \in 1..(n + 1)}
              BY <5>3 DEF Entries
            <6>2. 1..(n + 1) = (1..n) \cup {n + 1}
              BY <5>3
            <6> QED BY ZenonT(40), <5>3, <6>1, <6>2 DEF Entries
          <5>6. ASSUME NEW i \in 1..(n + 1), NEW l \in 1..(n + 1),
                       dependents'[p][i] = dependents'[p][l]
                PROVE  i = l
            <6>1. CASE i \in 1..n /\ l \in 1..n
              BY <4>1, <5>3, <5>6, <6>1
            <6>2. CASE i = n + 1 /\ l \in 1..n
              <7>1. d[l] = Entry(o, j)
                BY <5>3, <5>6, <6>2
              <7> QED BY <5>4, <6>2, <7>1
            <6>3. CASE i \in 1..n /\ l = n + 1
              <7>1. d[i] = Entry(o, j)
                BY <5>3, <5>6, <6>3
              <7> QED BY <5>4, <6>3, <7>1
            <6>4. CASE i = n + 1 /\ l = n + 1
              BY <6>4
            <6> QED BY <5>3, <6>1, <6>2, <6>3, <6>4
          <5> QED BY <4>3, <5>3, <5>5, <5>6
        <4> QED BY <4>2, <4>3
      <3>2. dependents' \in [Op -> Seq([op : Op, step : 1..2])]
        BY <1>6, <3>1
      <3> QED BY <3>1, <3>2 DEF Records
    <2> HIDE DEF new, chain
    <2>9. calls' = IF j = 3 THEN <<Slot(o)>> \o rest ELSE rest
      BY <1>6, <2>1
    <2>10. j \in 1..3 /\ new \in SUBSET list
      BY <2>1, <2>2
    <2> QED BY <2>1, <2>6, <2>8, <2>9, <2>10
  <1> QED BY <1>4, <1>5, <1>6

LEMMA Evaluates ==
  ASSUME NEW rest, Good(rest), NEW o \in Op, NEW k \in Kind, NEW first \in 1..3,
         current_step[o] < first,
         IsAdded(o, k) \/ IsKept(o, k),
         \A t \in 1..2 : t < first => NothingToWaitFor(o, k, t),
         evaluateCurrentStep(o, k, first, rest),
         state' = state, answered' = answered
  PROVE  Inv'
  <1>1. PICK s \in 1..3, new \in SUBSET list :
           /\ first <= s /\ current_step[o] < s
           /\ Reaches(o, k, s, new) /\ Records(o, s, new)
           /\ calls' = IF s = 3 THEN <<Slot(o)>> \o rest ELSE rest
    BY StepReached
  <1> QED BY <1>1, MovesOn

----------------------------------------------------------------------------
(* Every action keeps the invariant.                                       *)

\* Calls return, or a step counts what it was told, and nothing else happens.
LEMMA CountsDown ==
  ASSUME NEW q, Good(q), NEW rest, Good(rest), calls' = rest,
         required' \in [Op -> Nat], remaining' \in [Op -> Nat], answered' \subseteq Op,
         UNCHANGED <<added, kind, state, list, current_step, dependents>>,
         \A u \in list : \A t \in 1..2 : t = current_step[u] =>
           required'[u] >= Cardinality(Waits(u, t)) + Cardinality(Told(rest, u, t, Trigger(u, t)))
  PROVE  Inv'
  <1>1. /\ \A u : Entries(u)' = Entries(u)
        /\ \A u, t : Trigger(u, t)' = Trigger(u, t)
        /\ \A p, u, t : About(p, u, t)' = About(p, u, t)
        /\ \A u, t : Waits(u, t)' = Waits(u, t)
    BY DEF Entries, Trigger, About, Waits, Entry
  <1>2. TypeOK'
    BY DEF Good, TypeOK
  <1>3. Listed' /\ Recorded' /\ PassedInOrder' /\ Complete'
    <2>1. Listed'
      BY DEF Good, Listed
    <2>2. Recorded'
      BY <1>1 DEF Good, Recorded
    <2>3. PassedInOrder'
      BY <1>1 DEF Good, PassedInOrder, Passed
    <2>4. Complete'
      BY <1>1 DEF Good, Complete, Entry
    <2> QED BY <2>1, <2>2, <2>3, <2>4
  <1>4. calls' \in Seq(Call) /\ CallsKnown(calls)'
    BY DEF Good, CallsKnown
  <1>5. Counted(calls)'
    BY <1>1 DEF Counted, Told
  <1>6. Heard(calls)'
    <2> SUFFICES ASSUME NEW u \in list, NEW t \in 1..2, t = current_step[u],
                        "Started" \in Trigger(u, t), Told(rest, u, t, {"Started"}) # {},
                        NEW p \in list, About(p, u, t)
                 PROVE  state[p] = "Started"
      BY <1>1 DEF Heard, Told
    <2> QED BY DEF Good, Heard
  <1> QED BY <1>2, <1>3, <1>4, <1>5, <1>6 DEF Inv, Good

LEMMA AddKeeps ==
  ASSUME Inv, NEW k \in Kinds, Add(k)
  PROVE  Inv'
  <1> DEFINE o == added + 1
  <1>1. Good(calls) /\ k \in Kind /\ o \in Op /\ added \in Nat
    BY SequencerAssumption, ListedAreOps DEF Inv, Good, Add, Kind
  <1>2. IsAdded(o, k) /\ evaluateCurrentStep(o, k, 1, calls)
    BY DEF Add, IsAdded
  <1>3. state' = state /\ answered' = answered
    BY DEF Add
  <1>4. current_step[o] = 0
    <2>1. o \notin list
      BY <1>1 DEF Good, TypeOK
    <2> QED BY <1>1, <2>1 DEF Good, Listed
  <1> HIDE DEF o
  <1>5. SUFFICES ASSUME NEW q, q = calls, NEW u, u = o PROVE Inv'
    OBVIOUS
  <1>6. /\ Good(q) /\ u \in Op /\ k \in Kind /\ 1 \in 1..3 /\ current_step[u] < 1
        /\ IsAdded(u, k) \/ IsKept(u, k)
        /\ \A t \in 1..2 : t < 1 => NothingToWaitFor(u, k, t)
        /\ evaluateCurrentStep(u, k, 1, q)
    BY <1>1, <1>2, <1>4, <1>5
  <1> QED BY <1>3, <1>6, Evaluates

LEMMA AnswerKeeps ==
  ASSUME Inv, NEW o \in Op, Answer(o)
  PROVE  Inv'
  <1>1. /\ Good(calls) /\ TypeOK /\ Listed /\ CallsKnown(calls)
        /\ added' = added /\ kind' = kind /\ answered' \subseteq Op
    BY DEF Inv, Good, TypeOK, Answer
  <1>2. CASE state[o] = "Started"
    <2>1. o \in list
      <3>1. "Started" \notin Finished /\ o \in Nat /\ added \in Nat
        BY <1>1, ListedAreOps DEF Finished, Failed, Op
      <3> QED BY <1>1, <1>2, <3>1 DEF Listed
    <2>2. \A i \in 1..Len(calls) : calls[i] # Slot(o)
      BY <1>1, <1>2 DEF CallsKnown, Slot
    <2>3. PICK final \in {"Succeeded", "FailedSignal"} : End(o, final, calls)
      BY <1>2 DEF Answer
    <2>4. Destroyed(o) /\ final \in Finished
      BY <1>2 DEF Answer, Finished, Failed
    <2>5. SUFFICES ASSUME NEW q, q = calls PROVE Inv'
      OBVIOUS
    <2>6. Good(q) /\ End(o, final, q) /\ \A i \in 1..Len(q) : q[i] # Slot(o)
      BY <1>1, <2>2, <2>3, <2>5
    <2> QED BY <1>1, <2>1, <2>4, <2>6, Leaves
  <1>3. CASE state[o] # "Started"
    <2>1. UNCHANGED <<added, kind, state, list, chains, calls>>
      BY <1>1, <1>3 DEF Answer
    <2>2. SUFFICES ASSUME NEW q, q = calls PROVE Inv'
      OBVIOUS
    <2>3. Good(q) /\ calls' = q
      BY <1>1, <2>1, <2>2
    <2> QED BY <1>1, <2>1, <2>3, CountsDown DEF chains, Good, TypeOK, Counted
  <1> QED BY <1>2, <1>3

LEMMA AbortKeeps ==
  ASSUME LetGo, Inv, NEW o \in Op, Abort(o)
  PROVE  Inv'
  <1>1. /\ Good(calls) /\ Listed
        /\ added' = added /\ kind' = kind /\ answered' \subseteq Op
    BY DEF Inv, Good, TypeOK, Abort
  <1>2. o \in list
    BY <1>1 DEF Abort, Listed
  <1>3. \A i \in 1..Len(calls) : calls[i] # Slot(o)
    BY DEF Abort, InSlot
  <1>4. Destroyed(o)
    <2>1. \A keep \in KeptHandles : ~keep
      BY SequencerAssumption DEF LetGo
    <2> QED BY <2>1 DEF Abort
  <1>5. End(o, "FailedAborted", AfterAbort(o)) /\ "FailedAborted" \in Finished
    BY DEF Abort, Finished, Failed
  <1>6. SUFFICES ASSUME NEW q, q = AfterAbort(o) PROVE Inv'
    OBVIOUS
  <1>7. Good(q) /\ End(o, "FailedAborted", q) /\ \A i \in 1..Len(q) : q[i] # Slot(o)
    BY <1>1, <1>3, <1>5, <1>6, AccessAbortFirst DEF AfterAbort
  <1> QED BY <1>1, <1>2, <1>4, <1>5, <1>7, Leaves

LEMMA SlotReturnsKeeps ==
  ASSUME Inv, SlotReturns
  PROVE  Inv'
  <1> SUFFICES ASSUME NEW rest, rest = Tail(calls), NEW o, o = Head(calls).op
               PROVE  Inv'
    OBVIOUS
  <1>1. calls # <<>> /\ Head(calls).call = "slot"
    BY DEF SlotReturns
  <1>2. Good(calls) /\ Good(rest) /\ Head(calls) \in Call
    BY <1>1, RestIsGood DEF Inv
  <1>3. /\ Len(calls) \in Nat \ {0} /\ Head(calls) = calls[1]
        /\ Len(rest) = Len(calls) - 1
        /\ \A i \in 1..Len(rest) : rest[i] = calls[i + 1]
    BY <1>1, <1>2, HeadTailProperties, EmptySeq DEF Good
  <1>4. 1 \in 1..Len(calls) /\ calls[1].call = "slot" /\ calls[1].op = o
    BY <1>1, <1>3
  <1>5. /\ calls[1] = Slot(o) /\ o \in list /\ state[o] = "NotStarted"
        /\ current_step[o] = 3
    BY <1>2, <1>4 DEF Good, CallsKnown
  <1>6. ASSUME NEW i \in 1..Len(rest), rest[i] = Slot(o) PROVE FALSE
    <2>1. i + 1 \in 1..Len(calls) /\ calls[i + 1] = calls[1] /\ i + 1 # 1
      BY <1>3, <1>5, <1>6
    <2> QED BY <1>2, <1>4, <2>1 DEF Good, CallsKnown
  <1>7. /\ state' = [state EXCEPT ![o] = "Started"]
        /\ signalDependents(o, "Started", rest)
        /\ UNCHANGED <<added, kind, list, chains, answered>>
    BY DEF SlotReturns
  <1> QED BY <1>2, <1>5, <1>6, <1>7, Starts

LEMMA AccessAbortedKeeps ==
  ASSUME Inv, AccessAborted
  PROVE  Inv'
  <1> SUFFICES ASSUME NEW q, q = Tail(calls) PROVE Inv'
    OBVIOUS
  <1>1. Good(q) /\ calls' = q
    BY RestIsGood DEF AccessAborted, Inv
  <1>2. UNCHANGED <<added, kind, state, list, chains, answered>>
    BY DEF AccessAborted
  <1> QED BY <1>1, <1>2, CountsDown DEF chains, Good, TypeOK, Counted

\* A step that required one more operation, and is told of it, has nothing to
\* wait for any more.
LEMMA LastWaitedFor ==
  ASSUME NEW q, Good(q), q # <<>>, NEW o \in list, NEW s \in 1..2, s = current_step[o],
         Matches(Head(q), o, s, Trigger(o, s)), required[o] = 1
  PROVE  \A t \in 1..2 : t < s + 1 => NothingToWaitFor(o, kind[o], t)
  <1>1. /\ TypeOK /\ q \in Seq(Call) /\ o \in Op /\ kind[o] \in Kind
    BY ListedAreOps DEF Good, TypeOK, Kind
  <1>2. /\ Len(q) \in Nat \ {0} /\ Head(q) = q[1]
        /\ Tail(q) \in Seq(Call)
    BY <1>1, HeadTailProperties, EmptySeq
  <1>3. Waits(o, s) = {}
    <2>1. 1 >= Cardinality(Waits(o, s)) + Cardinality(Told(q, o, s, Trigger(o, s)))
      BY DEF Good, Counted
    <2>2. /\ Cardinality(Told(q, o, s, Trigger(o, s)))
               = Cardinality(Told(Tail(q), o, s, Trigger(o, s))) + 1
          /\ Cardinality(Told(Tail(q), o, s, Trigger(o, s))) \in Nat
      <3>1. Cardinality(Told(Tail(q), o, s, Trigger(o, s))) \in Nat
        BY <1>2, ToldFinite
      <3>2. Cardinality(Told(q, o, s, Trigger(o, s)))
              = Cardinality(Told(Tail(q), o, s, Trigger(o, s))) + 1
        BY <1>1, ToldAndRest
      <3> QED BY <3>1, <3>2
    <2>3. IsFiniteSet(Waits(o, s)) /\ Cardinality(Waits(o, s)) \in Nat
      BY <1>1, WaitsFinite
    <2>4. Cardinality(Waits(o, s)) = 0
      BY <2>1, <2>2, <2>3
    <2> QED BY <2>3, <2>4, FS_EmptySet
  <1>4. \A p \in list, t \in 1..2 :
          About(p, o, t) <=> p < o /\ Quality(kind[p]) = Dependencies(kind[o])[t].quality
    BY DEF About
  <1>5. ASSUME NEW t \in 1..2, t < s PROVE NothingToWaitFor(o, kind[o], t)
    <2>1. Passed(o, t)
      BY <1>5 DEF Good, PassedInOrder
    <2> QED BY <1>4, <2>1 DEF Passed, NothingToWaitFor, Trigger
  <1>6. NothingToWaitFor(o, kind[o], s)
    <2> SUFFICES ASSUME NEW p \in list, About(p, o, s)
                 PROVE  "Started" \in Trigger(o, s) /\ state[p] = "Started"
      BY <1>4 DEF NothingToWaitFor, Trigger
    <2>1. CASE "Started" \in Trigger(o, s)
      <3>1. Trigger(o, s) = {"Started"}
        BY <1>1, <2>1, Triggers
      <3>2. 1 \in Told(q, o, s, {"Started"})
        BY <1>2, <3>1 DEF Matches, Told
      <3> QED BY <2>1, <3>2 DEF Good, Heard
    <2>2. CASE "Started" \notin Trigger(o, s)
      <3>1. Entry(o, s) \in Entries(p)
        BY <2>2 DEF Good, Complete
      <3>2. p \in Waits(o, s)
        BY <2>2, <3>1 DEF Waits
      <3> QED BY <1>3, <3>2
    <2> QED BY <2>1, <2>2
  <1> QED BY <1>5, <1>6

LEMMA NotifyKeeps ==
  ASSUME Inv, Notify
  PROVE  Inv'
  <1> SUFFICES ASSUME NEW q, q = calls, NEW rest, rest = Tail(calls),
                      NEW o, o = Head(calls).op, NEW s, s = Head(calls).step,
                      NEW event, event = Head(calls).event
               PROVE  Inv'
    OBVIOUS
  <1> DEFINE alive == current_step[o] = s
                        /\ (o \notin list => s = Len(Dependencies(kind[o])))
             fits == event \in Dependencies(kind[o])[s].trigger
             req == required[o] - (IF fits THEN 1 ELSE 0)
             rem == remaining[o] - (IF event # "Started" THEN 1 ELSE 0)
  <1>1. q # <<>> /\ Head(q).call = "notify" /\ UNCHANGED <<added, kind, answered>>
    BY DEF Notify
  <1>2. /\ Good(q) /\ Good(rest) /\ Head(q) \in Call
    BY <1>1, RestIsGood DEF Inv
  <1>3. /\ TypeOK /\ Listed /\ q \in Seq(Call) /\ rest \in Seq(Call)
        /\ answered' \subseteq Op
    BY <1>1, <1>2 DEF Good, TypeOK
  <1>4. /\ o \in Op /\ s \in 1..2
        /\ o \in list => s <= current_step[o]
    <2>1. /\ o \in Op /\ Head(q) = q[1] /\ 1 \in 1..Len(q)
      BY <1>1, <1>2, <1>3, HeadTailProperties, EmptySeq DEF Call
    <2> QED BY <1>1, <1>2, <2>1 DEF Good, CallsKnown
  <1>5. kind[o] \in Kind /\ required[o] \in Nat /\ remaining[o] \in Nat
    BY <1>3, <1>4 DEF TypeOK, Kind
  <1>6. alive => o \in list /\ current_step[o] = s
    BY <1>3, <1>4 DEF Listed
  <1>7. fits <=> Matches(Head(q), o, s, Trigger(o, s))
    BY <1>1, <1>3, <1>4, Triggers DEF Matches
  <1>8. \/ /\ calls' = rest
           /\ UNCHANGED <<state, list, chains>>
        \/ /\ alive /\ fits /\ req = 0
           /\ evaluateCurrentStep(o, kind[o], s + 1, rest)
           /\ UNCHANGED <<state, list>>
        \/ /\ alive /\ req # 0 /\ rem >= req
           /\ required' = [required EXCEPT ![o] = req]
           /\ remaining' = [remaining EXCEPT ![o] = rem]
           /\ calls' = rest
           /\ UNCHANGED <<state, list, current_step, dependents>>
        \/ /\ alive /\ rem < req
           /\ End(o, "FailedDependencies", rest)
           /\ Destroyed(o)
    BY DEF Notify
  <1>9. CASE calls' = rest /\ UNCHANGED <<state, list, chains>>
    BY <1>1, <1>2, <1>3, <1>9, CountsDown DEF chains, Good, TypeOK, Counted
  <1>10. CASE /\ alive /\ fits /\ req = 0
              /\ evaluateCurrentStep(o, kind[o], s + 1, rest)
              /\ UNCHANGED <<state, list>>
    <2>1. o \in list /\ s = current_step[o] /\ required[o] = 1
      BY <1>5, <1>6, <1>10
    <2>2. Matches(Head(q), o, s, Trigger(o, s))
      BY <1>7, <1>10
    <2>3. \A t \in 1..2 : t < s + 1 => NothingToWaitFor(o, kind[o], t)
      BY <1>1, <1>2, <1>4, <2>1, <2>2, LastWaitedFor
    <2> SUFFICES ASSUME NEW k, k = kind[o], NEW first, first = s + 1 PROVE Inv'
      OBVIOUS
    <2>4. /\ k \in Kind /\ first \in 1..3 /\ current_step[o] < first
          /\ IsAdded(o, k) \/ IsKept(o, k)
          /\ \A t \in 1..2 : t < first => NothingToWaitFor(o, k, t)
          /\ evaluateCurrentStep(o, k, first, rest)
          /\ state' = state /\ answered' = answered
      BY <1>1, <1>4, <1>5, <1>10, <2>1, <2>3 DEF IsKept
    <2> QED BY <1>2, <1>4, <2>4, Evaluates
  <1>11. CASE /\ alive /\ req # 0 /\ rem >= req
              /\ required' = [required EXCEPT ![o] = req]
              /\ remaining' = [remaining EXCEPT ![o] = rem]
              /\ calls' = rest
              /\ UNCHANGED <<state, list, current_step, dependents>>
    <2>1. o \in list /\ s = current_step[o]
      BY <1>6, <1>11
    <2>2. ASSUME NEW u \in list, NEW t \in 1..2, t = current_step[u]
          PROVE  /\ required[u] >= Cardinality(Waits(u, t)) + Cardinality(Told(q, u, t, Trigger(u, t)))
                 /\ Cardinality(Waits(u, t)) \in Nat
                 /\ Cardinality(Told(rest, u, t, Trigger(u, t))) \in Nat
                 /\ Matches(Head(q), u, t, Trigger(u, t)) =>
                      Cardinality(Told(q, u, t, Trigger(u, t)))
                        = Cardinality(Told(rest, u, t, Trigger(u, t))) + 1
                 /\ ~Matches(Head(q), u, t, Trigger(u, t)) =>
                      Cardinality(Told(q, u, t, Trigger(u, t)))
                        = Cardinality(Told(rest, u, t, Trigger(u, t)))
                 /\ required[u] \in Nat
      <3>1. required[u] >= Cardinality(Waits(u, t)) + Cardinality(Told(q, u, t, Trigger(u, t)))
        BY <1>2, <2>2 DEF Good, Counted
      <3>2. required[u] \in Nat
        BY <1>3, <2>2, ListedAreOps DEF TypeOK
      <3>3. Cardinality(Waits(u, t)) \in Nat
        BY <1>3, WaitsFinite
      <3>4. Cardinality(Told(rest, u, t, Trigger(u, t))) \in Nat
        BY <1>3, ToldFinite
      <3>5. /\ Matches(Head(q), u, t, Trigger(u, t)) =>
                 Cardinality(Told(q, u, t, Trigger(u, t)))
                   = Cardinality(Told(Tail(q), u, t, Trigger(u, t))) + 1
            /\ ~Matches(Head(q), u, t, Trigger(u, t)) =>
                 Cardinality(Told(q, u, t, Trigger(u, t)))
                   = Cardinality(Told(Tail(q), u, t, Trigger(u, t)))
        BY <1>1, <1>3, ToldAndRest
      <3>6. rest = Tail(q)
        OBVIOUS
      <3> QED BY <3>1, <3>2, <3>3, <3>4, <3>5, <3>6
    <2>3. req \in Nat
      <3>1. CASE fits
        <4>1. Matches(Head(q), o, s, Trigger(o, s))
          BY <1>7, <3>1
        <4>2. required[o] >= 1
          BY <1>4, <2>1, <2>2, <4>1
        <4> QED BY <1>5, <3>1, <4>2
      <3>2. CASE ~fits
        BY <1>5, <3>2
      <3> QED BY <3>1, <3>2
    <2>4. rem \in Nat
      <3>1. rem \in Int
        BY <1>5
      <3> HIDE DEF rem, req
      <3> QED BY <1>11, <2>3, <3>1
    <2>5. required' \in [Op -> Nat] /\ remaining' \in [Op -> Nat]
      <3> HIDE DEF rem, req
      <3> QED BY <1>3, <1>11, <2>3, <2>4 DEF TypeOK
    <2>6. ASSUME NEW u \in list, NEW t \in 1..2, t = current_step[u]
          PROVE  required'[u] >= Cardinality(Waits(u, t))
                                   + Cardinality(Told(rest, u, t, Trigger(u, t)))
      <3>1. CASE u = o
        <4>1. t = s /\ required'[u] = req
          <5> HIDE DEF rem, req
          <5> QED BY <1>3, <1>4, <1>11, <2>1, <2>6, <3>1 DEF TypeOK
        <4>2. CASE fits
          <5>1. Matches(Head(q), u, t, Trigger(u, t)) /\ req = required[u] - 1
            BY <1>7, <3>1, <4>1, <4>2
          <5> HIDE DEF req, fits
          <5>2. /\ required[u] >= Cardinality(Waits(u, t))
                                    + (Cardinality(Told(rest, u, t, Trigger(u, t))) + 1)
                /\ Cardinality(Waits(u, t)) \in Nat
                /\ Cardinality(Told(rest, u, t, Trigger(u, t))) \in Nat
                /\ required[u] \in Nat
            BY <2>2, <2>6, <5>1
          <5>3. required[u] - 1 >= Cardinality(Waits(u, t))
                                     + Cardinality(Told(rest, u, t, Trigger(u, t)))
            BY <5>2
          <5>4. required'[u] = required[u] - 1
            BY <4>1, <5>1, Zenon
          <5> QED BY <5>3, <5>4, Zenon
        <4>3. CASE ~fits
          <5>1. ~Matches(Head(q), u, t, Trigger(u, t)) /\ req = required[u]
            BY <1>5, <1>7, <3>1, <4>1, <4>3
          <5> HIDE DEF req, fits
          <5>2. required[u] >= Cardinality(Waits(u, t))
                                 + Cardinality(Told(rest, u, t, Trigger(u, t)))
            BY <2>2, <2>6, <5>1
          <5>3. required'[u] = required[u]
            BY <4>1, <5>1, Zenon
          <5> QED BY <5>2, <5>3, Zenon
        <4> QED BY <4>2, <4>3
      <3>2. CASE u # o
        <4>1. ~Matches(Head(q), u, t, Trigger(u, t))
          BY <3>2 DEF Matches
        <4>2. required'[u] = required[u]
          <5> HIDE DEF rem, req
          <5>1. u \in Op
            BY <1>3, <2>6, ListedAreOps
          <5> QED BY <1>3, <1>11, <3>2, <5>1 DEF TypeOK
        <4> QED BY <2>2, <2>6, <4>1, <4>2
      <3> QED BY <3>1, <3>2
    <2> QED BY <1>1, <1>2, <1>3, <1>11, <2>5, <2>6, CountsDown
  <1>12. CASE /\ alive /\ rem < req
              /\ End(o, "FailedDependencies", rest)
              /\ Destroyed(o)
    <2>1. o \in list /\ current_step[o] < 3 /\ 3 \in 1..3
      BY <1>4, <1>6, <1>12
    <2>2. \A i \in 1..Len(rest) : rest[i] # Slot(o)
      BY <1>2, <1>4, <2>1, StepIsFresh
    <2>3. "FailedDependencies" \in Finished
      BY DEF Finished, Failed
    <2> QED BY <1>1, <1>2, <1>3, <1>12, <2>1, <2>2, <2>3, Leaves
  <1> QED BY <1>8, <1>9, <1>10, <1>11, <1>12

----------------------------------------------------------------------------
(* The theorems.                                                           *)

LEMMA InitInv ==
  ASSUME Init
  PROVE  Inv
  <1>1. /\ \A p \in Op : dependents[p] = <<>> /\ Len(dependents[p]) = 0
        /\ calls = <<>> /\ Len(calls) = 0 /\ list = {} /\ added = 0
    BY DEF Init
  <1>2. TypeOK
    <2>1. <<>> \in Seq([op : Op, step : 1..2]) /\ <<>> \in Seq(Call)
      OBVIOUS
    <2> QED BY <2>1, SequencerAssumption DEF Init, TypeOK, State
  <1>3. \A p \in Op : Entries(p) = {}
    BY <1>1 DEF Entries
  <1>4. Listed
    BY <1>1 DEF Init, Listed, Op
  <1>5. Recorded
    BY <1>1, <1>3 DEF Recorded
  <1>6. PassedInOrder /\ Complete /\ CallsKnown(calls) /\ Counted(calls) /\ Heard(calls)
    BY <1>1 DEF PassedInOrder, Complete, CallsKnown, Counted, Heard
  <1>7. calls \in Seq(Call)
    BY <1>2 DEF TypeOK
  <1> QED BY <1>2, <1>4, <1>5, <1>6, <1>7 DEF Inv, Good

LEMMA NextKeeps ==
  ASSUME LetGo, Inv, [Next]_vars
  PROVE  Inv'
  <1>1. CASE UNCHANGED vars
    <2>1. UNCHANGED <<added, kind, state, list, chains, calls, answered>>
      BY <1>1 DEF vars
    <2>2. SUFFICES ASSUME NEW q, q = calls PROVE Inv'
      OBVIOUS
    <2>3. Good(q) /\ calls' = q
      BY <2>1, <2>2 DEF Inv
    <2> QED BY <2>1, <2>3, CountsDown DEF chains, Good, TypeOK, Counted
  <1>2. CASE \E k \in Kinds : Add(k)
    BY <1>2, AddKeeps
  <1>3. CASE \E o \in Op : Answer(o) \/ Abort(o)
    BY <1>3, AnswerKeeps, AbortKeeps
  <1>4. CASE Notify
    BY <1>4, NotifyKeeps
  <1>5. CASE SlotReturns
    BY <1>5, SlotReturnsKeeps
  <1>6. CASE AccessAborted
    BY <1>6, AccessAbortedKeeps
  <1> QED BY <1>1, <1>2, <1>3, <1>4, <1>5, <1>6 DEF Next

\* Every operation of the list waits at a step with those before passed, and
\* each call in progress is about a step that the operation has reached.
THEOREM Invariance == ASSUME LetGo PROVE Spec => []Inv
  <1>1. Init => Inv
    BY InitInv
  <1>2. Inv /\ [Next]_vars => Inv'
    BY NextKeeps
  <1> QED BY <1>1, <1>2, PTL DEF Spec

\* The counters of a step never fall below zero, in whatever order its
\* sub-objects start, end and are aborted.
THEOREM TypesKept == ASSUME LetGo PROVE Spec => []TypeOK
  <1>1. Inv => TypeOK
    BY DEF Inv, Good
  <1> QED BY <1>1, Invariance, PTL

\* An operation that runs has passed both steps of its chain.
LEMMA RunningPassed ==
  ASSUME Inv, NEW o \in 1..added, Running(o)
  PROVE  /\ o \in Op /\ o \in list /\ kind[o] \in Kind
         /\ \A s \in 1..2 : Passed(o, s)
  <1>1. /\ TypeOK /\ Listed /\ CallsKnown(calls) /\ PassedInOrder
        /\ added \in Nat /\ added <= MaxOps /\ MaxOps \in Nat
    BY ListedAreOps, SequencerAssumption DEF Inv, Good
  <1>2. o \in Op /\ o <= added
    BY <1>1 DEF Op
  <1>3. o \in list /\ current_step[o] = 3
    <2>1. CASE state[o] = "Started"
      <3>1. "Started" \notin Finished
        BY DEF Finished, Failed
      <3> QED BY <1>1, <1>2, <2>1, <3>1 DEF Listed
    <2>2. CASE InSlot(o)
      <3>1. PICK i \in 1..Len(calls) : calls[i] = Slot(o)
        BY <2>2 DEF InSlot
      <3>2. calls[i].call = "slot" /\ calls[i].op = o
        BY <3>1 DEF Slot
      <3> QED BY <1>1, <3>1, <3>2 DEF CallsKnown
    <2> QED BY <2>1, <2>2 DEF Running
  <1>4. kind[o] \in Kind
    BY <1>1, <1>2 DEF TypeOK, Kind
  <1> QED BY <1>1, <1>2, <1>3, <1>4 DEF PassedInOrder

LEMMA EarlierListed ==
  ASSUME Inv, NEW p \in 1..added, state[p] \notin Finished
  PROVE  p \in list /\ p \in Op /\ kind[p] \in Kind
  <1>1. /\ TypeOK /\ Listed /\ added \in Nat /\ added <= MaxOps /\ MaxOps \in Nat
    BY ListedAreOps, SequencerAssumption DEF Inv, Good
  <1>2. p \in Op /\ p <= added
    BY <1>1 DEF Op
  <1> QED BY <1>1, <1>2 DEF Listed, TypeOK, Kind

\* Queries and updates never overlap: whatever has to end first has ended.
THEOREM ConflictsKeepOrder == ASSUME LetGo PROVE Spec => []ConflictsInOrder
  <1>1. ASSUME Inv PROVE ConflictsInOrder
    <2> SUFFICES ASSUME NEW o \in 1..added, NEW p \in 1..added, p < o,
                        Quality(kind[p]) # Quality(kind[o]), Running(o),
                        state[p] \notin Finished
                 PROVE  FALSE
      BY DEF ConflictsInOrder
    <2>1. /\ o \in Op /\ kind[o] \in Kind /\ Passed(o, 2)
          /\ p \in list /\ kind[p] \in Kind
      BY <1>1, RunningPassed, EarlierListed
    <2>2. About(p, o, 2)
      BY <2>1, Chains DEF About
    <2>3. "Started" \notin Trigger(o, 2)
      BY <2>1, Chains DEF Trigger
    <2> QED BY <2>1, <2>2, <2>3 DEF Passed
  <1>2. Inv => ConflictsInOrder
    BY <1>1
  <1> QED BY <1>2, Invariance, PTL

\* Updates are sent in the order they were added, as are queries over D-Bus.
THEOREM StartsKeepOrder == ASSUME LetGo PROVE Spec => []StartedInOrder
  <1>1. ASSUME Inv PROVE StartedInOrder
    <2> SUFFICES ASSUME NEW o \in 1..added, NEW p \in 1..added, p < o,
                        Quality(kind[p]) = Quality(kind[o]), Running(o),
                        state[p] = "NotStarted"
                 PROVE  FALSE
      BY DEF StartedInOrder
    <2>1. state[p] \notin Finished
      BY DEF Finished, Failed
    <2>2. /\ o \in Op /\ kind[o] \in Kind /\ Passed(o, 1) /\ p \in list
      BY <1>1, <2>1, RunningPassed, EarlierListed
    <2>3. About(p, o, 1)
      BY <2>2, Chains DEF About
    <2> QED BY <2>2, <2>3 DEF Passed
  <1>2. Inv => StartedInOrder
    BY <1>1
  <1> QED BY <1>2, Invariance, PTL

\* Only an operation of the list has a starting slot to return from, so that one
\* that has ended is not started again.
LEMMA FinishedStays ==
  ASSUME Inv, [Next]_vars, NEW o \in Op, state[o] \in Finished
  PROVE  state'[o] \in Finished
  <1>1. state \in [Op -> State]
    BY DEF Inv, Good, TypeOK
  <1>2. CASE state' = state
    BY <1>2
  <1>3. CASE \E u \in Op, final \in Finished : state' = [state EXCEPT ![u] = final]
    BY <1>1, <1>3
  <1>4. CASE Notify
    <2>1. \/ state' = state
          \/ state' = [state EXCEPT ![Head(calls).op] = "FailedDependencies"]
      BY <1>4 DEF Notify, End
    <2> QED BY <1>1, <2>1 DEF Finished, Failed
  <1>5. CASE SlotReturns
    <2>1. state' = [state EXCEPT ![Head(calls).op] = "Started"]
      BY <1>5 DEF SlotReturns
    <2>2. /\ calls \in Seq(Call) /\ calls # <<>> /\ Head(calls).call = "slot"
          /\ CallsKnown(calls)
      BY <1>5 DEF Inv, Good, SlotReturns
    <2>3. 1 \in 1..Len(calls) /\ calls[1] = Head(calls)
      BY <2>2, HeadTailProperties, EmptySeq
    <2>4. state[Head(calls).op] = "NotStarted" /\ "NotStarted" \notin Finished
      BY <2>2, <2>3 DEF CallsKnown, Finished, Failed
    <2>5. Head(calls).op # o
      BY <2>4
    <2> QED BY <1>1, <2>1, <2>5
  <1>6. CASE \E k \in Kinds : Add(k)
    BY <1>2, <1>6 DEF Add
  <1>7. CASE \E u \in Op : Answer(u) \/ Abort(u)
    <2>1. PICK u \in Op : Answer(u) \/ Abort(u)
      BY <1>7
    <2>2. \/ state' = state
          \/ \E final \in Finished : state' = [state EXCEPT ![u] = final]
      BY <2>1 DEF Answer, Abort, End, Finished, Failed
    <2> QED BY <1>2, <1>3, <2>2
  <1>8. CASE AccessAborted
    BY <1>2, <1>8 DEF AccessAborted
  <1>9. CASE UNCHANGED vars
    BY <1>2, <1>9 DEF vars
  <1> QED BY <1>4, <1>5, <1>6, <1>7, <1>8, <1>9 DEF Next

\* A direct query that runs has all earlier queries behind it.
LEMMA DirectAfterQueries ==
  ASSUME Inv, NEW o \in 1..added, NEW p \in 1..added, p < o,
         kind[o] = "direct", Quality(kind[p]) = "read", Running(o)
  PROVE  state[p] \in Finished
  <1> SUFFICES ASSUME state[p] \notin Finished PROVE FALSE
    OBVIOUS
  <1>1. /\ o \in Op /\ kind[o] \in Kind /\ Passed(o, 1) /\ p \in list
    BY RunningPassed, EarlierListed
  <1>2. Dependencies(kind[o])[1].quality = "read" /\ "Started" \notin Trigger(o, 1)
    BY <1>1, Chains DEF Trigger, Quality
  <1>3. About(p, o, 1)
    BY <1>2 DEF About
  <1> QED BY <1>1, <1>2, <1>3 DEF Passed

\* The operations whose abort is under way in calls q.
OpenAborts(q) == {q[i].op : i \in {j \in 1..Len(q) : q[j].call = "close"}}

\* They are direct queries, and all earlier queries have ended.
AbortsInOrder ==
  \A p \in OpenAborts(calls) :
    /\ p \in 1..added /\ kind[p] = "direct"
    /\ \A o \in 1..added : o < p /\ Quality(kind[o]) = "read" => state[o] \in Finished

LEMMA OpenAbortsTogether ==
  ASSUME NEW a \in Seq(Call), NEW b \in Seq(Call)
  PROVE  OpenAborts(a \o b) \subseteq OpenAborts(a) \cup OpenAborts(b)
  <1> SUFFICES ASSUME NEW i \in 1..Len(a \o b), (a \o b)[i].call = "close"
               PROVE  (a \o b)[i].op \in OpenAborts(a) \cup OpenAborts(b)
    BY DEF OpenAborts
  <1>1. CASE i \in 1..Len(a) /\ (a \o b)[i] = a[i]
    BY <1>1 DEF OpenAborts
  <1>2. CASE i - Len(a) \in 1..Len(b) /\ (a \o b)[i] = b[i - Len(a)]
    BY <1>2 DEF OpenAborts
  <1> QED BY <1>1, <1>2, CallsTogether

LEMMA OpenAbortsOfRest ==
  ASSUME NEW q \in Seq(Call), q # <<>>
  PROVE  Tail(q) \in Seq(Call) /\ OpenAborts(Tail(q)) \subseteq OpenAborts(q)
  <1>1. /\ Tail(q) \in Seq(Call) /\ Len(q) \in Nat \ {0} /\ Len(Tail(q)) = Len(q) - 1
        /\ \A i \in 1..Len(Tail(q)) : Tail(q)[i] = q[i + 1]
    BY HeadTailProperties, EmptySeq
  <1>2. \A i \in 1..Len(Tail(q)) : i + 1 \in 1..Len(q) /\ Tail(q)[i] = q[i + 1]
    BY <1>1
  <1> QED BY <1>1, <1>2 DEF OpenAborts

\* Slots and notifications put before other calls are no aborts.
LEMMA NoAbortFirst ==
  ASSUME Inv, NEW q \in Seq(Call), NEW o \in Op,
         NEW event \in {"Started", "Succeeded", "Failed"}
  PROVE  /\ OpenAborts(<<Slot(o)>> \o q) \subseteq OpenAborts(q)
         /\ OpenAborts(Notifications(o, event) \o q) \subseteq OpenAborts(q)
  <1> DEFINE a == <<Slot(o)>>
             b == Notifications(o, event)
  <1>1. a \in Seq(Call) /\ OpenAborts(a) = {}
    <2>1. Slot(o) \in Call /\ Slot(o).call = "slot"
      BY DEF Slot, Call
    <2>2. a \in Seq(Call) /\ Len(a) = 1 /\ a[1] = Slot(o)
      BY <2>1
    <2> QED BY <2>1, <2>2 DEF OpenAborts
  <1>2. b \in Seq(Call) /\ OpenAborts(b) = {}
    <2>1. b \in Seq(Call) /\ \A i \in 1..Len(b) : b[i].call = "notify"
      BY NotificationsKnown DEF Inv, Good
    <2> QED BY <2>1 DEF OpenAborts
  <1> HIDE DEF a, b
  <1>3. OpenAborts(a \o q) \subseteq OpenAborts(q) /\ OpenAborts(b \o q) \subseteq OpenAborts(q)
    BY <1>1, <1>2, OpenAbortsTogether
  <1> QED BY <1>3 DEF a, b

\* An abort is under way only from a call of Abort on.
LEMMA OpenAbortsNext ==
  ASSUME Inv, [Next]_vars
  PROVE  \/ OpenAborts(calls') \subseteq OpenAborts(calls)
         \/ \E o \in Op : /\ Abort(o)
                          /\ kind[o] = "direct" /\ state[o] = "Started"
                          /\ OpenAborts(calls') \subseteq OpenAborts(calls) \cup {o}
  <1> DEFINE Kept(q) == OpenAborts(q) \subseteq OpenAborts(calls)
  <1>1. calls \in Seq(Call) /\ added \in Nat
    BY ListedAreOps DEF Inv, Good
  <1>2. ASSUME NEW q \in Seq(Call), Kept(q), NEW o \in Op,
               NEW event \in {"Started", "Succeeded", "Failed"}
        PROVE  Kept(<<Slot(o)>> \o q) /\ Kept(Notifications(o, event) \o q)
    BY <1>2, NoAbortFirst
  <1>3. calls # <<>> => /\ Tail(calls) \in Seq(Call) /\ Kept(Tail(calls))
                        /\ Head(calls).op \in Op
    <2>1. calls # <<>> => Tail(calls) \in Seq(Call) /\ Kept(Tail(calls))
      BY <1>1, OpenAbortsOfRest
    <2>2. calls # <<>> => Head(calls) \in Call
      BY <1>1, HeadTailProperties
    <2>3. calls # <<>> => Head(calls).op \in Op
      BY <2>2 DEF Call
    <2> QED BY <2>1, <2>3
  <1>4. CASE \E k \in Kinds : Add(k)
    <2>1. PICK k \in Kinds : Add(k)
      BY <1>4
    <2>2. added + 1 \in Op
      BY <2>1 DEF Add
    <2>3. calls' = calls \/ calls' = <<Slot(added + 1)>> \o calls
      BY <2>1 DEF Add, evaluateCurrentStep
    <2> QED BY <1>1, <1>2, <2>2, <2>3
  <1>5. CASE \E o \in Op : Answer(o)
    <2>1. PICK o \in Op : Answer(o)
      BY <1>5
    <2>2. calls' = calls \/ \E event \in {"Succeeded", "Failed"} :
                              calls' = Notifications(o, event) \o calls
      BY <2>1 DEF Answer, End, signalDependents, Notifications
    <2> QED BY <1>1, <1>2, <2>2
  <1>6. CASE \E o \in Op : Abort(o)
    <2>1. PICK o \in Op : Abort(o)
      BY <1>6
    <2>2. calls' = Notifications(o, "Failed") \o AfterAbort(o)
      BY <2>1 DEF Abort, End, signalDependents, Notifications
    <2>3. CASE AfterAbort(o) = calls
      BY <1>1, <1>2, <2>2, <2>3
    <2>4. CASE AfterAbort(o) # calls
      <3>1. kind[o] = "direct" /\ state[o] = "Started" /\ AfterAbort(o) = <<AccessAbort(o)>> \o calls
        BY <2>4 DEF AfterAbort
      <3> DEFINE c == <<AccessAbort(o)>>
                 r == c \o calls
      <3>2. c \in Seq(Call) /\ OpenAborts(c) = {o}
        <4>1. AccessAbort(o) \in Call /\ AccessAbort(o).call = "close" /\ AccessAbort(o).op = o
          BY DEF AccessAbort, Call
        <4>2. c \in Seq(Call) /\ Len(c) = 1 /\ c[1] = AccessAbort(o)
          BY <4>1
        <4> QED BY <4>1, <4>2 DEF OpenAborts
      <3> HIDE DEF c
      <3>3. r \in Seq(Call) /\ OpenAborts(r) \subseteq OpenAborts(calls) \cup {o}
        BY <1>1, <3>2, OpenAbortsTogether, CallsTogether
      <3> HIDE DEF r
      <3>4. OpenAborts(Notifications(o, "Failed") \o r) \subseteq OpenAborts(r)
        BY <3>3, NoAbortFirst
      <3>5. OpenAborts(calls') \subseteq OpenAborts(calls) \cup {o}
        BY <2>2, <3>1, <3>3, <3>4 DEF r, c
      <3> QED BY <2>1, <3>1, <3>5
    <2> QED BY <2>3, <2>4
  <1>7. CASE Notify
    <2> DEFINE o == Head(calls).op
    <2>1. \/ calls' = Tail(calls)
          \/ calls' = <<Slot(o)>> \o Tail(calls)
          \/ calls' = Notifications(o, "Failed") \o Tail(calls)
      BY <1>7 DEF Notify, evaluateCurrentStep, End, signalDependents, Notifications
    <2>2. calls # <<>>
      BY <1>7 DEF Notify
    <2> QED BY <1>2, <1>3, <2>1, <2>2
  <1>8. CASE SlotReturns
    <2>1. calls # <<>> /\ calls' = Notifications(Head(calls).op, "Started") \o Tail(calls)
      BY <1>8 DEF SlotReturns, signalDependents, Notifications
    <2> QED BY <1>2, <1>3, <2>1
  <1>9. CASE AccessAborted
    BY <1>3, <1>9 DEF AccessAborted
  <1>10. CASE UNCHANGED vars
    BY <1>10 DEF vars
  <1> QED BY <1>4, <1>5, <1>6, <1>7, <1>8, <1>9, <1>10 DEF Next

LEMMA AbortsKeepOrder ==
  ASSUME Inv, AbortsInOrder, [Next]_vars
  PROVE  AbortsInOrder'
  <1>1. added \in Nat /\ added <= MaxOps /\ MaxOps \in Nat
    BY ListedAreOps, SequencerAssumption DEF Inv, Good
  <1>2. /\ added' \in {added, added + 1}
        /\ \A o \in 1..added : kind'[o] = kind[o]
    <2>1. CASE \E k \in Kinds : Add(k)
      <3>1. PICK k \in Kinds : Add(k)
        BY <2>1
      <3>2. added' = added + 1 /\ kind' = [kind EXCEPT ![added + 1] = k]
        BY <3>1 DEF Add
      <3>3. kind \in [Op -> Kind] /\ \A o \in 1..added : o \in Op /\ o # added + 1
        BY <1>1 DEF Inv, Good, TypeOK, Kind, Op
      <3> QED BY <3>2, <3>3
    <2>2. CASE added' = added /\ kind' = kind
      BY <2>2
    <2>3. CASE \E o \in Op : Answer(o) \/ Abort(o)
      BY <2>2, <2>3 DEF Answer, Abort
    <2> QED BY <2>1, <2>2, <2>3 DEF Next, Notify, SlotReturns, AccessAborted, vars
  <1>3. ASSUME NEW p \in 1..added, kind[p] = "direct",
               \A o \in 1..added : o < p /\ Quality(kind[o]) = "read" => state[o] \in Finished
        PROVE  /\ p \in 1..added' /\ kind'[p] = "direct"
               /\ \A o \in 1..added' : o < p /\ Quality(kind'[o]) = "read" => state'[o] \in Finished
    <2>1. p \in 1..added' /\ kind'[p] = "direct"
      BY <1>1, <1>2, <1>3
    <2>2. ASSUME NEW o \in 1..added', o < p, Quality(kind'[o]) = "read"
          PROVE  state'[o] \in Finished
      <3>1. o \in 1..added /\ o \in Op
        BY <1>1, <1>2, <2>2 DEF Op
      <3>2. state[o] \in Finished
        BY <1>2, <1>3, <2>2, <3>1
      <3> QED BY <3>1, <3>2, FinishedStays
    <2> QED BY <2>1, <2>2
  <1>4. ASSUME NEW o \in Op, Abort(o), kind[o] = "direct", state[o] = "Started"
        PROVE  /\ o \in 1..added
               /\ \A p \in 1..added : p < o /\ Quality(kind[p]) = "read" => state[p] \in Finished
    <2>1. o \in 1..added
      BY <1>1, <1>4 DEF Abort, Op
    <2> QED BY <1>4, <2>1, DirectAfterQueries DEF Running
  <1>5. ASSUME NEW p \in OpenAborts(calls')
        PROVE  /\ p \in 1..added /\ kind[p] = "direct"
               /\ \A o \in 1..added : o < p /\ Quality(kind[o]) = "read" => state[o] \in Finished
    <2>1. CASE p \in OpenAborts(calls)
      BY <2>1 DEF AbortsInOrder
    <2>2. CASE \E o \in Op : /\ Abort(o) /\ kind[o] = "direct" /\ state[o] = "Started"
                             /\ p = o
      BY <1>4, <2>2
    <2> QED BY <1>5, <2>1, <2>2, OpenAbortsNext
  <1>6. ASSUME NEW p \in OpenAborts(calls')
        PROVE  /\ p \in 1..added' /\ kind'[p] = "direct"
               /\ \A o \in 1..added' : o < p /\ Quality(kind'[o]) = "read" => state'[o] \in Finished
    BY <1>3, <1>5, <1>6
  <1> QED BY <1>6 DEF AbortsInOrder

\* The direct connection runs a query beside an earlier one only while that one's
\* abort has yet to delete its result, however aborts and starting slots nest.
THEOREM DirectQueriesOverlapInAborts == ASSUME LetGo PROVE Spec => []DirectOverlapOnlyInAbort
  <1>1. Init => AbortsInOrder
    <2>1. Init => Len(calls) = 0
      BY DEF Init
    <2> QED BY <2>1 DEF AbortsInOrder, OpenAborts
  <1>2. Inv /\ AbortsInOrder /\ [Next]_vars => AbortsInOrder'
    BY AbortsKeepOrder
  <1>3. ASSUME Inv, AbortsInOrder PROVE DirectOverlapOnlyInAbort
    <2> SUFFICES ASSUME NEW o \in 1..added, NEW p \in 1..added, o < p,
                        Open(o), Open(p), ~Closing(o)
                 PROVE  FALSE
      BY DEF DirectOverlapOnlyInAbort
    <2>1. /\ kind[o] = "direct" /\ Running(o) /\ kind[p] = "direct"
          /\ Quality(kind[o]) = "read"
      BY DEF Open, Quality
    <2>2. state[o] \notin Finished
      <3>1. o \in list /\ o \in Op /\ Listed
        BY <1>3, <2>1, RunningPassed DEF Inv, Good
      <3> QED BY <3>1 DEF Listed
    <2>3. CASE Running(p)
      BY <1>3, <2>1, <2>2, <2>3, DirectAfterQueries
    <2>4. CASE Closing(p)
      <3>1. PICK i \in 1..Len(calls) : calls[i] = AccessAbort(p)
        BY <2>4 DEF Closing
      <3>2. calls[i].call = "close" /\ calls[i].op = p
        BY <3>1 DEF AccessAbort
      <3>3. p \in OpenAborts(calls)
        BY <3>1, <3>2 DEF OpenAborts
      <3> QED BY <1>3, <2>1, <2>2, <3>3 DEF AbortsInOrder
    <2> QED BY <2>3, <2>4 DEF Open
  <1>4. Inv /\ AbortsInOrder => DirectOverlapOnlyInAbort
    BY <1>3
  <1> QED BY <1>1, <1>2, <1>4, Invariance, PTL DEF Spec

\* Unless somebody keeps it, an operation that was aborted is never started.
THEOREM AbortedStayAborted == ASSUME LetGo PROVE Spec => AbortedNeverStarts
  <1>1. ASSUME Inv, [Next]_vars, NEW o \in Op, state[o] = "FailedAborted"
        PROVE  state'[o] # "Started"
    <2>1. state[o] \in Finished /\ "Started" \notin Finished
      BY <1>1 DEF Finished, Failed
    <2> QED BY <1>1, <2>1, FinishedStays
  <1>2. Inv /\ [Next]_vars =>
          [\A o \in Op : state[o] = "FailedAborted" => state'[o] # "Started"]_vars
    BY <1>1
  <1> QED BY <1>2, Invariance, PTL DEF Spec, AbortedNeverStarts

=============================================================================
