--------------------------- MODULE WaitingProofs ---------------------------
(***************************************************************************)
(* Proofs about what operations of Sequencer wait for: nobody misses a     *)
(* notification, no update is dropped, nobody waits for nobody, and the    *)
(* operations begin in the order of OrderedAccess.  As in SequencerProofs, *)
(* for any number of operations, when no caller keeps an aborted one.      *)
(***************************************************************************)
EXTENDS SequencerProofs

----------------------------------------------------------------------------
(* The inductive invariant, on top of Inv.                                 *)

Ends == {"Succeeded", "Failed"}

\* The operations that step s of o is recorded with.
RecordedWith(o, s) == {p \in list : Entry(o, s) \in Entries(p)}

\* An operation at a step requires some of those it may still hear of, whose end
\* it waits for or was told of among calls q; the latest, once started, has
\* told it.  With all steps passed it is about to start.
Waiting(q, o) ==
  /\ \A s \in 1..2 : s = current_step[o] =>
       /\ 1 <= required[o] /\ required[o] <= remaining[o]
       /\ remaining[o] = Cardinality(RecordedWith(o, s)) + Cardinality(Told(q, o, s, Ends))
       /\ "Started" \in Trigger(o, s) =>
            /\ required[o] = 1
            /\ \A p \in RecordedWith(o, s) :
                 state[p] = "Started" => Told(q, o, s, {"Started"}) # {}
  /\ current_step[o] = 3 /\ state[o] = "NotStarted" => \E i \in 1..Len(q) : q[i] = Slot(o)

\* Only a direct query is answered before it has started.
AnsweredKnown ==
  \A o \in answered : o <= added /\ (state[o] = "NotStarted" => kind[o] = "direct")

\* An update hears that the one before has started; kd are the kinds.
HearsStart(c, kd) ==
  c.call = "notify" /\ c.event = "Started" /\ c.step = 1 /\ kd[c.op] = "write"

NoneHears(q, kd) == \A i \in 1..Len(q) : ~HearsStart(q[i], kd)

\* Calls on behalf of an update that starts.
OfStartingWrite(c, kd) ==
  \/ c.call = "slot" /\ kd[c.op] = "write"
  \/ /\ c.call = "notify" /\ c.event = "Started"
     /\ Dependencies(kd[c.op])[c.step].quality = "write"

\* Updates hear of a start before callers run again.
WritesFirst(q, kd) ==
  \A i \in 1..Len(q) : HearsStart(q[i], kd) =>
    \A j \in 1..Len(q) : j < i => OfStartingWrite(q[j], kd)

\* No update hears of an end before it heard of the start.
WritesUntold(q) ==
  \A o \in list : kind[o] = "write" /\ current_step[o] = 1 => Told(q, o, 1, Ends) = {}

NeverDropped == \A o \in Op : kind[o] = "write" => state[o] # "FailedDependencies"

Writes(q) == AnsweredKnown /\ WritesFirst(q, kind) /\ WritesUntold(q) /\ NeverDropped

WaitingInv == (\A o \in list : Waiting(calls, o)) /\ Writes(calls)

----------------------------------------------------------------------------
(* What operations wait for.                                               *)

LEMMA RecordedFinite ==
  ASSUME TypeOK, NEW o, NEW s
  PROVE  IsFiniteSet(RecordedWith(o, s)) /\ Cardinality(RecordedWith(o, s)) \in Nat
  <1>1. added \in Nat /\ list \subseteq 1..added
    BY ListedAreOps DEF TypeOK
  <1>2. IsFiniteSet(1..added)
    BY <1>1, FS_Interval
  <1>3. IsFiniteSet(RecordedWith(o, s))
    BY <1>1, <1>2, FS_Subset DEF RecordedWith
  <1> QED BY <1>3, FS_CardinalityType

\* A call that is neither the starting slot of u nor about its step leaves u
\* waiting as it was.
LEMMA WaitingRest ==
  ASSUME NEW q, Good(q), q # <<>>, NEW u \in list, Waiting(q, u),
         Head(q).call = "slot" => Head(q).op # u,
         Head(q).call = "notify" => Head(q).op # u \/ Head(q).step # current_step[u]
  PROVE  Waiting(Tail(q), u)
  <1>1. /\ q \in Seq(Call) /\ Tail(q) \in Seq(Call) /\ Head(q) = q[1]
        /\ Len(q) \in Nat \ {0} /\ Len(Tail(q)) = Len(q) - 1
        /\ \A i \in 1..Len(Tail(q)) : Tail(q)[i] = q[i + 1]
    BY HeadTailProperties, EmptySeq DEF Good
  <1>2. ASSUME NEW s \in 1..2, s = current_step[u], NEW events
        PROVE  /\ Cardinality(Told(Tail(q), u, s, events)) = Cardinality(Told(q, u, s, events))
               /\ Told(q, u, s, events) # {} => Told(Tail(q), u, s, events) # {}
    <2>1. ~Matches(Head(q), u, s, events)
      BY <1>2 DEF Matches
    <2>2. Cardinality(Told(Tail(q), u, s, events)) = Cardinality(Told(q, u, s, events))
      BY <1>1, <2>1, ToldAndRest
    <2>3. /\ IsFiniteSet(Told(Tail(q), u, s, events))
          /\ IsFiniteSet(Told(q, u, s, events))
      BY <1>1, ToldFinite
    <2> QED BY <2>2, <2>3, FS_EmptySet
  <1>3. ASSUME NEW i \in 1..Len(q), q[i] = Slot(u)
        PROVE  \E j \in 1..Len(Tail(q)) : Tail(q)[j] = Slot(u)
    <2>1. i # 1
      BY <1>1, <1>3 DEF Slot
    <2>2. i - 1 \in 1..Len(Tail(q)) /\ (i - 1) + 1 = i
      BY <1>1, <2>1
    <2>3. Tail(q)[i - 1] = q[(i - 1) + 1]
      BY <1>1, <2>2
    <2> QED BY <1>3, <2>2, <2>3
  <1> QED BY <1>2, <1>3 DEF Waiting

LEMMA ToldMore ==
  ASSUME TypeOK, Recorded, NEW o \in Op, NEW event \in {"Started", "Succeeded", "Failed"},
         NEW rest \in Seq(Call), NEW u \in Op, NEW t \in 1..2, NEW events
  PROVE  /\ Cardinality(Told(Notifications(o, event) \o rest, u, t, events))
              = Cardinality(Told(rest, u, t, events))
                + (IF event \in events /\ Entry(u, t) \in Entries(o) THEN 1 ELSE 0)
         /\ Told(rest, u, t, events) # {} =>
              Told(Notifications(o, event) \o rest, u, t, events) # {}
         /\ event \in events /\ Entry(u, t) \in Entries(o) =>
              Told(Notifications(o, event) \o rest, u, t, events) # {}
  <1> DEFINE a == Notifications(o, event)
             d == dependents[o]
  <1>1. /\ a \in Seq(Call)
        /\ event \notin events => Told(a, u, t, events) = {}
        /\ Entry(u, t) \notin Entries(o) => Told(a, u, t, events) = {}
        /\ Cardinality(Told(a, u, t, events)) \in {0, 1}
    BY NotificationsKnown
  <1>2. ASSUME event \in events, Entry(u, t) \in Entries(o)
        PROVE  Told(a, u, t, events) # {}
    <2>1. PICK i \in 1..Len(d) : d[i] = Entry(u, t)
      BY <1>2 DEF Entries
    <2>2. Len(d) \in Nat /\ Len(a) = Len(d)
      <3>1. d \in Seq([op : Op, step : 1..2])
        BY DEF TypeOK
      <3>2. Len(d) \in Nat
        BY <3>1, LenProperties
      <3> QED BY <3>2 DEF Notifications
    <2>3. i \in 1..Len(a) /\ a[i] = Notification(d[i].op, d[i].step, event)
      BY <2>1, <2>2 DEF Notifications
    <2>4. a[i].call = "notify" /\ a[i].op = u /\ a[i].step = t /\ a[i].event \in events
      BY <1>2, <2>1, <2>3 DEF Notification, Entry
    <2>5. i \in Told(a, u, t, events)
      BY <2>3, <2>4 DEF Told
    <2> QED BY <2>5
  <1>3. Cardinality(Told(a, u, t, events))
          = IF event \in events /\ Entry(u, t) \in Entries(o) THEN 1 ELSE 0
    <2>1. IsFiniteSet(Told(a, u, t, events))
      BY <1>1, ToldFinite
    <2>2. Cardinality(Told(a, u, t, events)) = 0 <=> Told(a, u, t, events) = {}
      BY <2>1, FS_EmptySet
    <2> QED BY <1>1, <1>2, <2>2
  <1> HIDE DEF a
  <1>4. Cardinality(Told(a \o rest, u, t, events))
          = Cardinality(Told(a, u, t, events)) + Cardinality(Told(rest, u, t, events))
    BY <1>1, ToldTogether
  <1>5. /\ Cardinality(Told(rest, u, t, events)) \in Nat
        /\ Cardinality(Told(a, u, t, events)) \in Nat
        /\ IsFiniteSet(Told(rest, u, t, events)) /\ IsFiniteSet(Told(a, u, t, events))
        /\ IsFiniteSet(Told(a \o rest, u, t, events))
    BY <1>1, ToldFinite, CallsTogether
  <1>6. Cardinality(Told(a \o rest, u, t, events)) = 0 =>
          Cardinality(Told(a, u, t, events)) = 0 /\ Cardinality(Told(rest, u, t, events)) = 0
    BY <1>4, <1>5
  <1>7. Told(a \o rest, u, t, events) = {} =>
          Told(a, u, t, events) = {} /\ Told(rest, u, t, events) = {}
    BY <1>5, <1>6, FS_EmptySet
  <1>8. Cardinality(Told(a \o rest, u, t, events)) = Cardinality(Told(rest, u, t, events))
          + (IF event \in events /\ Entry(u, t) \in Entries(o) THEN 1 ELSE 0)
    BY <1>3, <1>4, <1>5
  <1> QED BY <1>2, <1>7, <1>8 DEF a

LEMMA StillToCome ==
  ASSUME NEW a \in Seq(Call), NEW b \in Seq(Call), NEW c, \E i \in 1..Len(b) : b[i] = c
  PROVE  \E i \in 1..Len(a \o b) : (a \o b)[i] = c
  <1>1. Len(a) \in Nat /\ Len(b) \in Nat
    BY LenProperties
  <1>2. /\ Len(a \o b) = Len(a) + Len(b)
        /\ \A i \in 1..(Len(a) + Len(b)) :
             (a \o b)[i] = IF i <= Len(a) THEN a[i] ELSE b[i - Len(a)]
    BY ConcatProperties
  <1>3. PICK i \in 1..Len(b) : b[i] = c
    OBVIOUS
  <1>4. /\ i + Len(a) \in 1..Len(a \o b) /\ ~(i + Len(a) <= Len(a))
        /\ (i + Len(a)) - Len(a) = i
    BY <1>1, <1>2
  <1>5. (a \o b)[i + Len(a)] = b[(i + Len(a)) - Len(a)]
    BY <1>1, <1>2, <1>4
  <1>6. (a \o b)[i + Len(a)] = c
    BY <1>3, <1>4, <1>5
  <1> QED BY <1>4, <1>6

\* Those that are told of the end of o count it as told instead of recorded.
LEMMA WaitingWhenLeaves ==
  ASSUME NEW rest, Good(rest), NEW o \in list, NEW final \in Finished,
         End(o, final, rest), Destroyed(o), UNCHANGED <<added, kind>>,
         \A u \in list : u # o => Waiting(rest, u)
  PROVE  \A u \in list' : Waiting(calls, u)'
  <1> DEFINE event == IF final = "Succeeded" THEN "Succeeded" ELSE "Failed"
  <1>1. event \in {"Started", "Succeeded", "Failed"} /\ event \in Ends
    BY DEF Ends
  <1>2. calls' = Notifications(o, event) \o rest
    BY DEF End, signalDependents, Notifications
  <1> HIDE DEF event
  <1>3. /\ TypeOK /\ Recorded /\ rest \in Seq(Call) /\ o \in Op /\ list \subseteq Op
    BY ListedAreOps DEF Good
  <1>4. /\ kind' = kind /\ list' = list \ {o}
        /\ \A u \in Op : u # o => /\ state'[u] = state[u] /\ current_step'[u] = current_step[u]
                                  /\ required'[u] = required[u]
                                  /\ remaining'[u] = remaining[u]
                                  /\ dependents'[u] = dependents[u]
    BY <1>3 DEF End, Destroyed, TypeOK
  <1>5. /\ \A u \in Op : u # o => Entries(u)' = Entries(u)
        /\ \A u, t : Trigger(u, t)' = Trigger(u, t)
    BY <1>3, <1>4 DEF Entries, Trigger
  <1>6. SUFFICES ASSUME NEW u \in list, u # o, Waiting(rest, u)
                 PROVE  Waiting(calls, u)'
    BY <1>4
  <1>7. /\ u \in Op /\ current_step'[u] = current_step[u] /\ required'[u] = required[u]
        /\ remaining'[u] = remaining[u] /\ state'[u] = state[u]
    BY <1>3, <1>4, <1>6
  <1>8. ASSUME NEW t \in 1..2, t = current_step[u]
        PROVE  /\ remaining[u] = Cardinality(RecordedWith(u, t)')
                                   + Cardinality(Told(calls', u, t, Ends))
               /\ "Started" \in Trigger(u, t) =>
                    \A p \in RecordedWith(u, t)' :
                      state'[p] = "Started" => Told(calls', u, t, {"Started"}) # {}
    <2> DEFINE R == RecordedWith(u, t)
               S == RecordedWith(u, t)'
    <2>1. S = R \ {o}
      BY <1>3, <1>4, <1>5 DEF RecordedWith, Entry
    <2>2. o \in R <=> Entry(u, t) \in Entries(o)
      BY DEF RecordedWith
    <2>3. IsFiniteSet(R) /\ Cardinality(R) \in Nat
      BY <1>3, RecordedFinite
    <2>4. Cardinality(S) = Cardinality(R) - (IF Entry(u, t) \in Entries(o) THEN 1 ELSE 0)
      <3> HIDE DEF R, S
      <3>1. CASE o \in R
        <4>1. Cardinality(R \ {o}) = Cardinality(R) - 1
          BY <2>3, <3>1, FS_RemoveElement
        <4> QED BY <2>1, <2>2, <3>1, <4>1
      <3>2. CASE o \notin R
        <4>1. S = R
          BY <2>1, <3>2
        <4> QED BY <2>2, <2>3, <3>2, <4>1
      <3> QED BY <3>1, <3>2
    <2>5. Cardinality(Told(calls', u, t, Ends)) = Cardinality(Told(rest, u, t, Ends))
            + (IF Entry(u, t) \in Entries(o) THEN 1 ELSE 0)
      BY <1>1, <1>2, <1>3, <1>7, ToldMore
    <2>6. Cardinality(Told(rest, u, t, Ends)) \in Nat
      BY <1>3, ToldFinite
    <2>7. remaining[u] = Cardinality(R) + Cardinality(Told(rest, u, t, Ends))
      BY <1>6, <1>8 DEF Waiting
    <2>8. remaining[u] = Cardinality(S) + Cardinality(Told(calls', u, t, Ends))
      <3> HIDE DEF R, S
      <3> QED BY <2>3, <2>4, <2>5, <2>6, <2>7
    <2>9. ASSUME "Started" \in Trigger(u, t), NEW p \in S, state'[p] = "Started"
          PROVE  Told(calls', u, t, {"Started"}) # {}
      <3>1. p \in R /\ p # o /\ p \in Op
        BY <1>3, <2>1, <2>9 DEF RecordedWith
      <3>2. state[p] = "Started"
        BY <1>4, <2>9, <3>1
      <3>3. Told(rest, u, t, {"Started"}) # {}
        BY <1>6, <1>8, <2>9, <3>1, <3>2 DEF Waiting
      <3> QED BY <1>1, <1>2, <1>3, <1>7, <3>3, ToldMore
    <2> QED BY <2>8, <2>9
  <1>9. ASSUME current_step[u] = 3, state[u] = "NotStarted"
        PROVE  \E i \in 1..Len(calls') : calls'[i] = Slot(u)
    <2>1. \E i \in 1..Len(rest) : rest[i] = Slot(u)
      BY <1>6, <1>9 DEF Waiting
    <2>2. Notifications(o, event) \in Seq(Call)
      BY <1>1, <1>3, NotificationsKnown
    <2> QED BY ZenonT(30), <1>2, <1>3, <2>1, <2>2, StillToCome
  <1>10. \A t \in 1..2 : t = current_step[u] =>
           /\ 1 <= required[u] /\ required[u] <= remaining[u]
           /\ "Started" \in Trigger(u, t) => required[u] = 1
    BY <1>6 DEF Waiting
  <1> QED BY <1>5, <1>7, <1>8, <1>9, <1>10 DEF Waiting, Slot, Told

\* Those that are told of the start of o have something to come.
LEMMA WaitingWhenStarts ==
  ASSUME NEW rest, Good(rest), NEW o \in list, current_step[o] = 3,
         state' = [state EXCEPT ![o] = "Started"],
         signalDependents(o, "Started", rest),
         UNCHANGED <<added, kind, list, chains>>,
         \A u \in list : u # o => Waiting(rest, u)
  PROVE  \A u \in list' : Waiting(calls, u)'
  <1>1. calls' = Notifications(o, "Started") \o rest
    BY DEF signalDependents, Notifications
  <1>2. /\ TypeOK /\ Recorded /\ rest \in Seq(Call) /\ o \in Op /\ list \subseteq Op
    BY ListedAreOps DEF Good
  <1>3. /\ kind' = kind /\ list' = list
        /\ current_step' = current_step /\ required' = required
        /\ remaining' = remaining /\ dependents' = dependents
        /\ \A u \in Op : u # o => state'[u] = state[u]
        /\ state'[o] = "Started"
    BY <1>2 DEF chains, TypeOK
  <1>4. /\ \A u, t : Trigger(u, t)' = Trigger(u, t)
        /\ \A u, t : RecordedWith(u, t)' = RecordedWith(u, t)
    BY <1>3 DEF RecordedWith, Entries, Entry, Trigger
  <1>5. Waiting(calls, o)'
    BY <1>3 DEF Waiting
  <1>6. SUFFICES ASSUME NEW u \in list, u # o, Waiting(rest, u)
                 PROVE  Waiting(calls, u)'
    BY <1>3, <1>5
  <1>7. u \in Op /\ state'[u] = state[u] /\ "Started" \notin Ends
    BY <1>2, <1>3, <1>6 DEF Ends
  <1>8. ASSUME NEW t \in 1..2, t = current_step[u]
        PROVE  /\ remaining[u] = Cardinality(RecordedWith(u, t))
                                   + Cardinality(Told(calls', u, t, Ends))
               /\ "Started" \in Trigger(u, t) =>
                    \A p \in RecordedWith(u, t) :
                      state'[p] = "Started" => Told(calls', u, t, {"Started"}) # {}
    <2>1. Cardinality(Told(calls', u, t, Ends)) = Cardinality(Told(rest, u, t, Ends))
      <3>1. Cardinality(Told(rest, u, t, Ends)) \in Nat
        BY <1>2, ToldFinite
      <3>2. Cardinality(Told(Notifications(o, "Started") \o rest, u, t, Ends))
              = Cardinality(Told(rest, u, t, Ends)) + 0
        BY <1>2, <1>7, ToldMore
      <3> QED BY <1>1, <3>1, <3>2
    <2>2. remaining[u] = Cardinality(RecordedWith(u, t)) + Cardinality(Told(rest, u, t, Ends))
      BY <1>6, <1>8 DEF Waiting
    <2>3. ASSUME "Started" \in Trigger(u, t), NEW p \in RecordedWith(u, t),
                 state'[p] = "Started"
          PROVE  Told(Notifications(o, "Started") \o rest, u, t, {"Started"}) # {}
      <3>1. p \in list /\ p \in Op /\ Entry(u, t) \in Entries(p)
        BY <1>2, <2>3 DEF RecordedWith
      <3>2. CASE p = o
        BY <1>2, <1>7, <3>1, <3>2, ToldMore
      <3>3. CASE p # o
        <4>1. state[p] = "Started"
          BY <1>3, <2>3, <3>1, <3>3
        <4>2. Told(rest, u, t, {"Started"}) # {}
          BY <1>6, <1>8, <2>3, <4>1 DEF Waiting
        <4> QED BY <1>2, <1>7, <4>2, ToldMore
      <3> QED BY <3>2, <3>3
    <2> QED BY <1>1, <2>1, <2>2, <2>3
  <1>9. ASSUME current_step[u] = 3, state[u] = "NotStarted"
        PROVE  \E i \in 1..Len(calls') : calls'[i] = Slot(u)
    <2>1. \E i \in 1..Len(rest) : rest[i] = Slot(u)
      BY <1>6, <1>9 DEF Waiting
    <2>2. Notifications(o, "Started") \in Seq(Call)
      BY <1>2, NotificationsKnown
    <2> QED BY SMTT(30), <1>1, <1>2, <2>1, <2>2, StillToCome
  <1>10. \A t \in 1..2 : t = current_step[u] =>
           /\ 1 <= required[u] /\ required[u] <= remaining[u]
           /\ "Started" \in Trigger(u, t) => required[u] = 1
    BY <1>6 DEF Waiting
  <1> QED BY <1>3, <1>4, <1>7, <1>8, <1>9, <1>10 DEF Waiting, Slot, Told

\* A step that is reached waits for somebody, and the last one starts o.
LEMMA WaitingWhenReached ==
  ASSUME NEW rest, Good(rest), NEW o \in Op, NEW k \in Kind, NEW s \in 1..3,
         current_step[o] < s, NEW new \in SUBSET list,
         Reaches(o, k, s, new), Records(o, s, new),
         calls' = IF s = 3 THEN <<Slot(o)>> \o rest ELSE rest,
         \A u \in list : u # o => Waiting(rest, u)
  PROVE  \A u \in list' : Waiting(calls, u)'
  <1>1. /\ TypeOK /\ Recorded /\ rest \in Seq(Call) /\ list \subseteq Op
        /\ added \in Nat /\ list \subseteq 1..added
    BY ListedAreOps DEF Good, TypeOK
  <1>2. /\ list \subseteq list' /\ \A u \in list' : u # o => u \in list
        /\ kind'[o] = k /\ current_step'[o] = s /\ state' = state
        /\ \A u \in Op : u # o => /\ kind'[u] = kind[u]
                                  /\ current_step'[u] = current_step[u]
                                  /\ required'[u] = required[u]
                                  /\ remaining'[u] = remaining[u]
        /\ o \in list \/ o > added
    <2>1. /\ IsAdded(o, k) \/ IsKept(o, k)
          /\ current_step' = [current_step EXCEPT ![o] = s] /\ state' = state
          /\ \A u \in Op : u # o => required'[u] = required[u] /\ remaining'[u] = remaining[u]
      BY DEF Reaches
    <2>2. /\ list \subseteq list' /\ \A u \in list' : u # o => u \in list
          /\ kind'[o] = k /\ \A u \in Op : u # o => kind'[u] = kind[u]
          /\ o \in list \/ o > added
      BY <1>1, <2>1 DEF IsAdded, IsKept, TypeOK
    <2>3. current_step'[o] = s /\ \A u \in Op : u # o => current_step'[u] = current_step[u]
      BY <1>1, <2>1 DEF TypeOK
    <2> QED BY <2>1, <2>2, <2>3
  <1>3. /\ \A p \in Op : Entry(o, s) \notin Entries(p)
        /\ \A events : Told(rest, o, s, events) = {}
        /\ state[o] = "NotStarted"
    BY <1>1, <1>2, StepIsFresh
  <1>4. /\ calls' \in Seq(Call)
        /\ \A u, t, events : /\ Cardinality(Told(calls', u, t, events))
                                  = Cardinality(Told(rest, u, t, events))
                             /\ Told(rest, u, t, events) # {} => Told(calls', u, t, events) # {}
    <2>1. CASE s # 3
      BY <1>1, <2>1
    <2>2. CASE s = 3
      <3>1. /\ calls' \in Seq(Call)
            /\ \A u, t, events : Cardinality(Told(calls', u, t, events))
                                   = Cardinality(Told(rest, u, t, events))
        BY <1>1, <2>2, SlotFirst
      <3>2. ASSUME NEW u, NEW t, NEW events, Told(rest, u, t, events) # {}
            PROVE  Told(calls', u, t, events) # {}
        <4>1. IsFiniteSet(Told(rest, u, t, events)) /\ IsFiniteSet(Told(calls', u, t, events))
          BY <1>1, <3>1, ToldFinite
        <4>2. Cardinality(Told(rest, u, t, events)) # 0
          BY <3>2, <4>1, FS_EmptySet
        <4>3. Cardinality(Told(calls', u, t, events)) # 0
          BY <3>1, <4>2
        <4> QED BY <4>1, <4>3, FS_EmptySet
      <3> QED BY <3>1, <3>2
    <2> QED BY <2>1, <2>2
  <1>5. \A p \in Op : /\ p \in new => Entries(p)' = Entries(p) \cup {Entry(o, s)}
                      /\ p \notin new => Entries(p)' = Entries(p)
    BY DEF Records
  <1>6. ASSUME NEW u \in list, u # o PROVE Waiting(calls, u)'
    <2>1. /\ u \in Op /\ Waiting(rest, u) /\ kind'[u] = kind[u] /\ state'[u] = state[u]
          /\ current_step'[u] = current_step[u] /\ required'[u] = required[u]
          /\ remaining'[u] = remaining[u]
      BY <1>1, <1>2, <1>6
    <2>2. ASSUME NEW t PROVE RecordedWith(u, t)' = RecordedWith(u, t)
      <3>1. Entry(u, t) # Entry(o, s)
        BY <1>6 DEF Entry
      <3>2. \A p \in Op : Entry(u, t) \in Entries(p)' <=> Entry(u, t) \in Entries(p)
        BY <1>5, <3>1
      <3>3. \A p \in Op : Entry(u, t) \in Entries(p) => p \in list
        BY <1>1 DEF Recorded
      <3>4. list' \subseteq Op
        BY <1>1, <1>2
      <3>5. RecordedWith(u, t)' = {p \in list' : Entry(u, t) \in Entries(p)'}
        BY DEF RecordedWith, Entry
      <3> QED BY <1>1, <1>2, <3>2, <3>3, <3>4, <3>5 DEF RecordedWith
    <2>3. ASSUME current_step[u] = 3, state[u] = "NotStarted"
          PROVE  \E i \in 1..Len(calls') : calls'[i] = Slot(u)
      <3>1. \E i \in 1..Len(rest) : rest[i] = Slot(u)
        BY <2>1, <2>3 DEF Waiting
      <3>2. CASE s # 3
        BY <3>1, <3>2
      <3>3. CASE s = 3
        <4>1. <<Slot(o)>> \in Seq(Call)
          BY DEF Slot, Call
        <4> QED BY <1>1, <3>1, <3>3, <4>1, StillToCome
      <3> QED BY <3>2, <3>3
    <2>4. \A t \in 1..2 : t = current_step[u] =>
            /\ 1 <= required[u] /\ required[u] <= remaining[u]
            /\ remaining[u] = Cardinality(RecordedWith(u, t))
                                + Cardinality(Told(rest, u, t, Ends))
            /\ "Started" \in Trigger(u, t) =>
                 /\ required[u] = 1
                 /\ \A p \in RecordedWith(u, t) :
                      state[p] = "Started" => Told(rest, u, t, {"Started"}) # {}
      BY <2>1 DEF Waiting
    <2>5. \A t : Trigger(u, t)' = Trigger(u, t)
      BY <2>1 DEF Trigger
    <2>6. ASSUME NEW t \in 1..2, t = current_step[u]
          PROVE  /\ 1 <= required'[u] /\ required'[u] <= remaining'[u]
                 /\ remaining'[u] = Cardinality(RecordedWith(u, t)')
                                      + Cardinality(Told(calls', u, t, Ends))
                 /\ "Started" \in Trigger(u, t)' =>
                      /\ required'[u] = 1
                      /\ \A p \in RecordedWith(u, t)' :
                           state'[p] = "Started" => Told(calls', u, t, {"Started"}) # {}
      <3>1. /\ 1 <= required'[u] /\ required'[u] <= remaining'[u]
            /\ remaining'[u] = Cardinality(RecordedWith(u, t)')
                                 + Cardinality(Told(rest, u, t, Ends))
            /\ "Started" \in Trigger(u, t)' =>
                 /\ required'[u] = 1
                 /\ \A p \in RecordedWith(u, t)' :
                      state[p] = "Started" => Told(rest, u, t, {"Started"}) # {}
        BY <2>1, <2>2, <2>4, <2>5, <2>6
      <3>2. Cardinality(Told(calls', u, t, Ends)) = Cardinality(Told(rest, u, t, Ends))
        BY <1>4
      <3> QED BY <1>2, <1>4, <3>1, <3>2
    <2>7. /\ \A t \in 1..2 : t = current_step'[u] =>
               /\ 1 <= required'[u] /\ required'[u] <= remaining'[u]
               /\ remaining'[u] = Cardinality(RecordedWith(u, t)')
                                    + Cardinality(Told(calls', u, t, Ends))
               /\ "Started" \in Trigger(u, t)' =>
                    /\ required'[u] = 1
                    /\ \A p \in RecordedWith(u, t)' :
                         state'[p] = "Started" => Told(calls', u, t, {"Started"}) # {}
          /\ current_step'[u] = 3 /\ state'[u] = "NotStarted" =>
               \E i \in 1..Len(calls') : calls'[i] = Slot(u)
      BY <2>1, <2>3, <2>6
    <2> QED BY ONLY <2>7 DEF Waiting, Slot, Told
  <1>7. CASE s = 3
    <2>1. \E i \in 1..Len(calls') : calls'[i] = Slot(o)
      <3>1. /\ Len(<<Slot(o)>> \o rest) = 1 + Len(rest) /\ (<<Slot(o)>> \o rest)[1] = Slot(o)
            /\ Len(rest) \in Nat
        <4>1. <<Slot(o)>> \in Seq(Call) /\ Len(<<Slot(o)>>) = 1 /\ <<Slot(o)>>[1] = Slot(o)
          BY DEF Slot, Call
        <4> DEFINE a == <<Slot(o)>>
        <4> HIDE DEF a
        <4>2. a \in Seq(Call) /\ Len(a) = 1 /\ a[1] = Slot(o)
          BY <4>1 DEF a
        <4>3. Len(rest) \in Nat /\ Len(a \o rest) = Len(a) + Len(rest)
          BY <1>1, <4>2, ConcatProperties, LenProperties
        <4>4. (a \o rest)[1] = a[1]
          <5>1. 1 \in 1..(Len(a) + Len(rest)) /\ 1 <= Len(a)
            BY <4>2, <4>3
          <5> QED BY <1>1, <4>2, <5>1, ConcatProperties
        <4> QED BY <4>2, <4>3, <4>4 DEF a
      <3>2. 1 \in 1..Len(<<Slot(o)>> \o rest)
        BY <3>1
      <3> QED BY <1>7, <3>1, <3>2
    <2>2. Waiting(calls, o)'
      BY <1>2, <1>7, <2>1 DEF Waiting, Slot
    <2> QED BY <1>2, <1>6, <2>2
  <1>8. CASE s # 3
    <2> DEFINE c == Dependencies(k)[s]
    <2>1. /\ s \in 1..2 /\ new = SubObjects(o, c) /\ Awaited(o, c) # {}
          /\ required'[o] = Cardinality(Awaited(o, c))
          /\ remaining'[o] = Cardinality(new)
      BY <1>8 DEF Reaches
    <2>2. Trigger(o, s)' = c.trigger
      BY <1>2 DEF Trigger
    <2>3. RecordedWith(o, s)' = new
      <3>1. RecordedWith(o, s)' = {p \in list' : Entry(o, s) \in Entries(p)'}
        BY DEF RecordedWith, Entry
      <3>2. list' \subseteq Op
        BY <1>1, <1>2
      <3> HIDE DEF c
      <3> QED BY <1>2, <1>3, <1>5, <3>1, <3>2
    <2>4. IsFiniteSet(new) /\ Awaited(o, c) \in SUBSET new
      <3>1. IsFiniteSet(1..added)
        BY <1>1, FS_Interval
      <3>2. IsFiniteSet(new)
        BY <1>1, <3>1, FS_Subset
      <3>3. Awaited(o, c) \in SUBSET new
        BY <2>1 DEF Awaited
      <3> QED BY <3>2, <3>3
    <2>5. /\ Cardinality(new) \in Nat /\ Cardinality(Awaited(o, c)) \in Nat
          /\ 1 <= Cardinality(Awaited(o, c))
          /\ Cardinality(Awaited(o, c)) <= Cardinality(new)
      <3> HIDE DEF c
      <3>1. IsFiniteSet(Awaited(o, c))
        BY <2>4, FS_Subset
      <3>2. Cardinality(Awaited(o, c)) # 0
        BY <2>1, <3>1, FS_EmptySet
      <3>3. Cardinality(Awaited(o, c)) \in Nat /\ Cardinality(new) \in Nat
        BY <2>4, <3>1, FS_CardinalityType
      <3>4. Cardinality(Awaited(o, c)) <= Cardinality(new)
        BY <2>4, FS_Subset
      <3> QED BY <3>2, <3>3, <3>4
    <2>6. Cardinality(Told(calls', o, s, Ends)) = 0
      <3>1. Cardinality(Told(rest, o, s, Ends)) = 0
        BY <1>3, FS_EmptySet
      <3> QED BY <1>4, <3>1
    <2>7. ASSUME "Started" \in c.trigger
          PROVE  /\ Cardinality(Awaited(o, c)) = 1
                 /\ \A p \in new : state[p] # "Started"
      <3>1. c.scope = "Latest"
        BY <2>1, <2>7, Chains
      <3>2. \A p, r \in new : p <= r /\ r <= p
        BY <2>1, <3>1 DEF SubObjects
      <3>3. new \subseteq 1..added
        BY <1>1
      <3>4. \A p, r \in new : p = r
        BY <1>1, <3>2, <3>3
      <3>5. PICK p \in Awaited(o, c) : TRUE
        BY <2>1
      <3>6. p \in new /\ state[p] # "Started"
        BY <2>4, <2>7, <3>5 DEF Awaited
      <3>7. Awaited(o, c) = {p} /\ new = {p}
        <4> HIDE DEF c
        <4> QED BY <2>4, <3>4, <3>5, <3>6
      <3>8. Cardinality(Awaited(o, c)) = 1
        <4> HIDE DEF c
        <4> QED BY <3>7, FS_Singleton
      <3> QED BY <3>6, <3>7, <3>8
    <2>8. remaining'[o] = Cardinality(new) + Cardinality(Told(calls', o, s, Ends))
      <3> HIDE DEF c
      <3> QED BY <2>1, <2>5, <2>6
    <2>9. Waiting(calls, o)'
      <3> HIDE DEF c
      <3>1. ASSUME NEW t \in 1..2, t = s
            PROVE  /\ 1 <= required'[o] /\ required'[o] <= remaining'[o]
                   /\ remaining'[o] = Cardinality(RecordedWith(o, t)')
                                        + Cardinality(Told(calls', o, t, Ends))
                   /\ "Started" \in Trigger(o, t)' =>
                        /\ required'[o] = 1
                        /\ \A p \in RecordedWith(o, t)' : state'[p] # "Started"
        <4>1. RecordedWith(o, t)' = new /\ Trigger(o, t)' = c.trigger
          BY <2>2, <2>3, <3>1
        <4>2. remaining'[o] = Cardinality(new) + Cardinality(Told(calls', o, t, Ends))
          BY <2>8, <3>1
        <4>3. 1 <= required'[o] /\ required'[o] <= remaining'[o]
          BY <2>1, <2>5
        <4>4. "Started" \in c.trigger =>
                required'[o] = 1 /\ \A p \in new : state'[p] # "Started"
          BY <1>2, <2>1, <2>7
        <4> QED BY <4>1, <4>2, <4>3, <4>4, Zenon
      <3> QED BY <1>2, <1>8, <3>1 DEF Waiting, Told
    <2> QED BY <1>2, <1>6, <2>9
  <1> QED BY <1>7, <1>8

----------------------------------------------------------------------------
(* The order in which updates hear of one another.                         *)

LEMMA NoneFirst ==
  ASSUME NEW q \in Seq(Call), q # <<>>, NEW kd, WritesFirst(q, kd),
         ~OfStartingWrite(Head(q), kd)
  PROVE  NoneHears(q, kd)
  <1>1. Head(q) = q[1] /\ 1 \in 1..Len(q) /\ Len(q) \in Nat
    BY HeadTailProperties, EmptySeq
  <1>2. ASSUME NEW i \in 1..Len(q), HearsStart(q[i], kd) PROVE FALSE
    <2>1. CASE i = 1
      <3>1. OfStartingWrite(q[1], kd)
        BY <1>2, <2>1 DEF HearsStart, OfStartingWrite, Dependencies, latestStarted
      <3> QED BY <1>1, <3>1
    <2>2. CASE i # 1
      <3>1. 1 < i
        BY <1>1, <2>2
      <3> QED BY <1>1, <1>2, <3>1 DEF WritesFirst
    <2> QED BY <2>1, <2>2
  <1> QED BY <1>2 DEF NoneHears

LEMMA FirstOfRest ==
  ASSUME NEW q \in Seq(Call), q # <<>>, NEW kd, WritesFirst(q, kd)
  PROVE  WritesFirst(Tail(q), kd) /\ (NoneHears(q, kd) => NoneHears(Tail(q), kd))
  <1>1. /\ Len(q) \in Nat \ {0} /\ Len(Tail(q)) = Len(q) - 1
        /\ \A i \in 1..Len(Tail(q)) : Tail(q)[i] = q[i + 1]
    BY HeadTailProperties, EmptySeq
  <1>2. \A i \in 1..Len(Tail(q)) : i + 1 \in 1..Len(q) /\ Tail(q)[i] = q[i + 1]
    BY <1>1
  <1>3. ASSUME NEW i \in 1..Len(Tail(q)), HearsStart(Tail(q)[i], kd),
               NEW j \in 1..Len(Tail(q)), j < i
        PROVE  OfStartingWrite(Tail(q)[j], kd)
    <2>1. /\ i + 1 \in 1..Len(q) /\ j + 1 \in 1..Len(q) /\ j + 1 < i + 1
          /\ Tail(q)[i] = q[i + 1] /\ Tail(q)[j] = q[j + 1]
      BY <1>1, <1>2, <1>3
    <2> QED BY <1>3, <2>1 DEF WritesFirst
  <1> QED BY <1>2, <1>3 DEF WritesFirst, NoneHears

LEMMA FirstTogether ==
  ASSUME NEW a \in Seq(Call), NEW b \in Seq(Call), NEW kd, WritesFirst(b, kd),
         \/ \A i \in 1..Len(a) : OfStartingWrite(a[i], kd)
         \/ NoneHears(a, kd) /\ NoneHears(b, kd)
  PROVE  WritesFirst(a \o b, kd)
  <1>1. /\ \A i \in 1..Len(a \o b) :
             \/ i \in 1..Len(a) /\ (a \o b)[i] = a[i]
             \/ ~(i <= Len(a)) /\ i - Len(a) \in 1..Len(b) /\ (a \o b)[i] = b[i - Len(a)]
        /\ Len(a) \in Nat
    BY CallsTogether
  <1>2. ASSUME NEW i \in 1..Len(a \o b), HearsStart((a \o b)[i], kd),
               NEW j \in 1..Len(a \o b), j < i
        PROVE  OfStartingWrite((a \o b)[j], kd)
    <2>1. CASE NoneHears(a, kd) /\ NoneHears(b, kd)
      BY <1>1, <1>2, <2>1 DEF NoneHears
    <2>2. CASE \A l \in 1..Len(a) : OfStartingWrite(a[l], kd)
      <3>1. CASE j \in 1..Len(a) /\ (a \o b)[j] = a[j]
        BY <2>2, <3>1
      <3>2. CASE ~(j <= Len(a)) /\ j - Len(a) \in 1..Len(b) /\ (a \o b)[j] = b[j - Len(a)]
        <4>1. ~(i <= Len(a)) /\ j - Len(a) < i - Len(a)
          BY <1>1, <1>2, <3>2
        <4>2. i - Len(a) \in 1..Len(b) /\ (a \o b)[i] = b[i - Len(a)]
          BY <1>1, <4>1
        <4>3. HearsStart(b[i - Len(a)], kd)
          BY <1>2, <4>2
        <4>4. OfStartingWrite(b[j - Len(a)], kd)
          BY <3>2, <4>1, <4>2, <4>3 DEF WritesFirst
        <4> QED BY <3>2, <4>4
      <3> QED BY <1>1, <3>1, <3>2
    <2> QED BY <2>1, <2>2
  <1> QED BY <1>2 DEF WritesFirst

\* Who is told of an update's start, or of anything else.
LEMMA NotificationsOf ==
  ASSUME TypeOK, Recorded, NEW o \in Op, NEW event \in {"Started", "Succeeded", "Failed"}
  PROVE  /\ event = "Started" /\ kind[o] = "write" =>
              \A i \in 1..Len(Notifications(o, event)) :
                OfStartingWrite(Notifications(o, event)[i], kind)
         /\ event # "Started" \/ kind[o] # "write" => NoneHears(Notifications(o, event), kind)
  <1> DEFINE a == Notifications(o, event)
  <1>1. \A i \in 1..Len(a) : /\ a[i].call = "notify" /\ a[i].event = event
                             /\ Entry(a[i].op, a[i].step) \in Entries(o)
    BY NotificationsKnown
  <1> HIDE DEF a
  <1>2. ASSUME NEW i \in 1..Len(a)
        PROVE  About(o, a[i].op, a[i].step)
    <2>1. /\ Entry(a[i].op, a[i].step).op = a[i].op
          /\ Entry(a[i].op, a[i].step).step = a[i].step
      BY DEF Entry
    <2> QED BY <1>1, <2>1 DEF Recorded
  <1>3. ASSUME event = "Started", kind[o] = "write", NEW i \in 1..Len(a)
        PROVE  OfStartingWrite(a[i], kind)
    BY <1>1, <1>2, <1>3 DEF OfStartingWrite, About, Quality
  <1>4. ASSUME event # "Started" \/ kind[o] # "write", NEW i \in 1..Len(a),
               HearsStart(a[i], kind)
        PROVE  FALSE
    <2>1. kind[a[i].op] = "write" /\ a[i].step = 1 /\ event = "Started"
      BY <1>1, <1>4 DEF HearsStart
    <2>2. Quality(kind[o]) = Dependencies("write")[1].quality
      BY <1>2, <2>1 DEF About
    <2>3. kind[o] = "write"
      BY <2>2 DEF Quality, Dependencies, latestStarted
    <2> QED BY <1>4, <2>1, <2>3
  <1> QED BY <1>3, <1>4 DEF NoneHears, a

\* While callers run, no update is about to hear of a start.
LEMMA NoneWhileCallersRun ==
  ASSUME NEW q, q = calls, CallersRun, Good(q), AnsweredKnown, WritesFirst(q, kind)
  PROVE  NoneHears(q, kind)
  <1>1. q \in Seq(Call) /\ CallsKnown(q)
    BY DEF Good
  <1>2. CASE q = <<>>
    BY <1>2 DEF NoneHears
  <1>3. CASE q # <<>>
    <2>1. /\ Head(q).call = "slot" /\ Head(q).op \in answered
          /\ Head(q) = q[1] /\ 1 \in 1..Len(q)
      BY <1>1, <1>3, HeadTailProperties, EmptySeq DEF CallersRun
    <2>2. state[Head(q).op] = "NotStarted"
      BY <1>1, <2>1 DEF CallsKnown
    <2>3. kind[Head(q).op] = "direct"
      BY <2>1, <2>2 DEF AnsweredKnown
    <2>4. ~OfStartingWrite(Head(q), kind)
      BY <2>1, <2>3 DEF OfStartingWrite
    <2> QED BY <1>1, <1>3, <2>4, NoneFirst
  <1> QED BY <1>2, <1>3

\* An operation leaves while no update is about to hear of a start: no update
\* that did not hear of its start hears of its end.
LEMMA WritesWhenLeaves ==
  ASSUME NEW rest, Good(rest), NEW o \in list, NEW final \in Finished,
         End(o, final, rest), Destroyed(o), UNCHANGED <<added, kind>>,
         answered' \subseteq answered \cup {o},
         \A u \in list : u # o => Waiting(rest, u),
         Writes(rest), NoneHears(rest, kind),
         kind[o] = "write" => state[o] = "Started" /\ final # "FailedDependencies"
  PROVE  Writes(calls)'
  <1> DEFINE event == IF final = "Succeeded" THEN "Succeeded" ELSE "Failed"
  <1>1. event \in {"Started", "Succeeded", "Failed"} /\ event # "Started"
    OBVIOUS
  <1>2. calls' = Notifications(o, event) \o rest
    BY DEF End, signalDependents, Notifications
  <1> HIDE DEF event
  <1>3. /\ TypeOK /\ Recorded /\ rest \in Seq(Call) /\ o \in Op /\ o <= added
        /\ list \subseteq Op /\ added \in Nat
    BY ListedAreOps DEF Good, Listed
  <1>4. /\ kind' = kind /\ added' = added /\ list' = list \ {o}
        /\ state' = [state EXCEPT ![o] = final]
        /\ \A u \in Op : u # o => current_step'[u] = current_step[u]
    BY <1>3 DEF End, Destroyed, TypeOK
  <1>5. AnsweredKnown'
    <2>1. ASSUME NEW u \in answered', state'[u] = "NotStarted"
          PROVE  kind[u] = "direct"
      <3>1. u # o
        BY <1>3, <1>4, <2>1 DEF TypeOK, Finished, Failed
      <3>2. u \in answered /\ u \in Op
        BY <1>3, <2>1, <3>1 DEF TypeOK
      <3>3. state[u] = "NotStarted"
        BY <1>3, <1>4, <2>1, <3>1, <3>2 DEF TypeOK
      <3> QED BY <3>2, <3>3 DEF Writes, AnsweredKnown
    <2>2. \A u \in answered' : u <= added
      BY <1>3 DEF Writes, AnsweredKnown
    <2> QED BY <1>4, <2>1, <2>2 DEF AnsweredKnown
  <1>6. WritesFirst(calls', kind)
    <2>1. NoneHears(Notifications(o, event), kind)
      BY <1>1, <1>3, NotificationsOf
    <2>2. Notifications(o, event) \in Seq(Call)
      BY <1>1, <1>3, NotificationsKnown
    <2> QED BY <1>2, <1>3, <2>1, <2>2, FirstTogether DEF Writes
  <1>7. ASSUME NEW u \in list, u # o, kind[u] = "write", current_step[u] = 1
        PROVE  Told(calls', u, 1, Ends) = {}
    <2>1. Told(rest, u, 1, Ends) = {}
      BY <1>7 DEF Writes, WritesUntold
    <2>2. ASSUME Entry(u, 1) \in Entries(o) PROVE FALSE
      <3>1. About(o, u, 1)
        <4>1. Entry(u, 1).op = u /\ Entry(u, 1).step = 1
          BY DEF Entry
        <4> QED BY <1>3, <2>2, <4>1 DEF Recorded
      <3>2. kind[o] = "write"
        BY <1>7, <3>1 DEF About, Quality, Dependencies, latestStarted
      <3>3. state[o] = "Started" /\ "Started" \in Trigger(u, 1) /\ o \in RecordedWith(u, 1)
        BY <1>7, <2>2, <3>2 DEF Trigger, Dependencies, latestStarted, RecordedWith
      <3>4. Told(rest, u, 1, {"Started"}) # {}
        BY <1>7, <3>3 DEF Waiting
      <3>5. PICK i \in 1..Len(rest) : HearsStart(rest[i], kind)
        BY <1>7, <3>4 DEF Told, HearsStart
      <3> QED BY <3>5 DEF NoneHears
    <2>3. u \in Op /\ 1 \in 1..2
      BY <1>3, <1>7
    <2>4. Told(Notifications(o, event) \o rest, u, 1, Ends) = {}
      BY <1>1, <1>3, <2>1, <2>2, <2>3, ToldBefore
    <2> QED BY <1>2, <2>4
  <1>8. WritesUntold(calls)'
    <2>1. \A u \in list' : u \in list /\ u # o /\ current_step'[u] = current_step[u]
      BY <1>3, <1>4
    <2> QED BY <1>4, <1>7, <2>1 DEF WritesUntold, Told
  <1>9. NeverDropped'
    BY <1>3, <1>4 DEF NeverDropped, Writes, TypeOK
  <1> QED BY <1>4, <1>5, <1>6, <1>8, <1>9
         DEF Writes, WritesFirst, HearsStart, OfStartingWrite

\* Those that wait for an update's start hear of it before anything else
\* happens.
LEMMA WritesWhenStarts ==
  ASSUME NEW rest, Good(rest), NEW o \in list,
         state' = [state EXCEPT ![o] = "Started"],
         signalDependents(o, "Started", rest),
         UNCHANGED <<added, kind, list, chains, answered>>,
         Writes(rest), kind[o] # "write" => NoneHears(rest, kind)
  PROVE  Writes(calls)'
  <1>1. calls' = Notifications(o, "Started") \o rest
    BY DEF signalDependents, Notifications
  <1>2. /\ TypeOK /\ Recorded /\ rest \in Seq(Call) /\ o \in Op /\ list \subseteq Op
    BY ListedAreOps DEF Good
  <1>3. /\ kind' = kind /\ added' = added /\ list' = list /\ answered' = answered
        /\ current_step' = current_step /\ state'[o] = "Started"
        /\ \A u \in Op : u # o => state'[u] = state[u]
    BY <1>2 DEF chains, TypeOK
  <1>4. AnsweredKnown'
    BY <1>2, <1>3 DEF AnsweredKnown, Writes, TypeOK
  <1>5. WritesFirst(calls', kind)
    <2>1. Notifications(o, "Started") \in Seq(Call)
      BY <1>2, NotificationsKnown
    <2>2. \/ \A i \in 1..Len(Notifications(o, "Started")) :
               OfStartingWrite(Notifications(o, "Started")[i], kind)
          \/ NoneHears(Notifications(o, "Started"), kind) /\ NoneHears(rest, kind)
      BY <1>2, NotificationsOf
    <2> QED BY <1>1, <1>2, <2>1, <2>2, FirstTogether DEF Writes
  <1>6. ASSUME NEW u \in list, kind[u] = "write", current_step[u] = 1
        PROVE  Told(calls', u, 1, Ends) = {}
    <2>1. Told(rest, u, 1, Ends) = {}
      BY <1>6 DEF Writes, WritesUntold
    <2>2. u \in Op /\ 1 \in 1..2 /\ "Started" \notin Ends
      BY <1>2, <1>6 DEF Ends
    <2>3. Told(Notifications(o, "Started") \o rest, u, 1, Ends) = {}
      BY <1>2, <2>1, <2>2, ToldBefore
    <2> QED BY <1>1, <2>3
  <1>7. WritesUntold(calls)'
    BY <1>3, <1>6 DEF WritesUntold, Told
  <1>8. NeverDropped'
    BY <1>2, <1>3 DEF NeverDropped, Writes
  <1> QED BY <1>3, <1>4, <1>5, <1>7, <1>8
         DEF Writes, WritesFirst, HearsStart, OfStartingWrite

\* An update that passes its steps starts before anything else happens.
LEMMA WritesWhenReached ==
  ASSUME NEW rest, Good(rest), NEW o \in Op, NEW k \in Kind, NEW s \in 1..3,
         current_step[o] < s, NEW new \in SUBSET list,
         Reaches(o, k, s, new), Records(o, s, new),
         calls' = IF s = 3 THEN <<Slot(o)>> \o rest ELSE rest,
         Writes(rest), k # "write" \/ o \notin list => NoneHears(rest, kind)
  PROVE  Writes(calls)'
  <1>1. /\ TypeOK /\ Listed /\ rest \in Seq(Call) /\ list \subseteq Op
        /\ added \in Nat /\ CallsKnown(rest)
        /\ \A u \in list : u <= added
    <2>1. /\ TypeOK /\ Listed /\ rest \in Seq(Call) /\ list \subseteq Op
          /\ added \in Nat /\ CallsKnown(rest)
      BY ListedAreOps DEF Good
    <2> QED BY <2>1 DEF Listed
  <1>2. /\ \A u \in list' : u # o => u \in list
        /\ kind'[o] = k /\ \A u \in Op : u <= added => kind'[u] = kind[u]
        /\ added <= added'
        /\ current_step'[o] = s /\ \A u \in Op : u # o => current_step'[u] = current_step[u]
        /\ state' = state /\ answered' = answered
        /\ o \in list \/ o > added
    <2>1. /\ IsAdded(o, k) \/ IsKept(o, k)
          /\ current_step' = [current_step EXCEPT ![o] = s]
          /\ state' = state /\ answered' = answered
      BY DEF Reaches
    <2>2. /\ \A u \in list' : u # o => u \in list
          /\ kind'[o] = k /\ \A u \in Op : u <= added => kind'[u] = kind[u]
          /\ added <= added'
          /\ o \in list \/ o > added
      BY <1>1, <2>1 DEF IsAdded, IsKept, TypeOK
    <2>3. current_step'[o] = s /\ \A u \in Op : u # o => current_step'[u] = current_step[u]
      BY <1>1, <2>1 DEF TypeOK
    <2> QED BY <2>1, <2>2, <2>3
  <1>3. /\ \A events : Told(rest, o, s, events) = {}
        /\ state[o] = "NotStarted"
    BY <1>1, <1>2, StepIsFresh
  <1>4. AnsweredKnown'
    <2>1. \A u \in answered : u \in Op /\ u <= added /\ u <= added'
      <3>1. answered \subseteq Op /\ \A u \in answered : u <= added
        BY <1>1 DEF TypeOK, AnsweredKnown, Writes
      <3>2. added' \in Int
        BY <1>1 DEF Reaches, IsAdded, IsKept
      <3> QED BY <1>1, <1>2, <3>1, <3>2 DEF Op
    <2> QED BY <1>2, <2>1 DEF AnsweredKnown, Writes
  <1>5. \A i \in 1..Len(rest) : rest[i].call \in {"notify", "slot"} =>
                               kind'[rest[i].op] = kind[rest[i].op]
    <2>1. ASSUME NEW i \in 1..Len(rest), rest[i].call \in {"notify", "slot"}
          PROVE  rest[i].op \in Op /\ rest[i].op <= added
      <3>1. rest[i] \in Call
        BY <1>1
      <3>2. rest[i].op \in Op
        BY <3>1 DEF Call
      <3> QED BY <1>1, <2>1, <3>2 DEF CallsKnown
    <2> QED BY <1>2, <2>1
  <1>6. /\ WritesFirst(rest, kind')
        /\ NoneHears(rest, kind) => NoneHears(rest, kind')
    BY <1>5 DEF Writes, WritesFirst, NoneHears, HearsStart, OfStartingWrite
  <1>7. WritesFirst(calls', kind')
    <2>1. CASE s # 3
      BY <1>6, <2>1
    <2>2. CASE s = 3
      <3> DEFINE a == <<Slot(o)>>
      <3>1. /\ a \in Seq(Call) /\ \A i \in 1..Len(a) : a[i] = Slot(o)
        BY DEF Slot, Call
      <3> HIDE DEF a
      <3>2. CASE k = "write"
        <4>1. OfStartingWrite(Slot(o), kind')
          BY <1>2, <3>2 DEF OfStartingWrite, Slot
        <4>2. \A i \in 1..Len(a) : OfStartingWrite(a[i], kind')
          BY <3>1, <4>1
        <4>3. WritesFirst(a \o rest, kind')
          BY <1>1, <1>6, <3>1, <4>2, FirstTogether
        <4> QED BY <2>2, <4>3 DEF a
      <3>3. CASE k # "write"
        <4>1. ~HearsStart(Slot(o), kind')
          BY DEF HearsStart, Slot
        <4>2. NoneHears(a, kind') /\ NoneHears(rest, kind')
          BY <1>6, <3>1, <3>3, <4>1 DEF NoneHears
        <4>3. WritesFirst(a \o rest, kind')
          BY <1>1, <1>6, <3>1, <4>2, FirstTogether
        <4> QED BY <2>2, <4>3 DEF a
      <3> QED BY <3>2, <3>3
    <2> QED BY <2>1, <2>2
  <1>8. ASSUME NEW u \in list', kind'[u] = "write", current_step'[u] = 1
        PROVE  Told(calls', u, 1, Ends) = {}
    <2>1. Told(rest, u, 1, Ends) = {}
      <3>1. CASE u = o
        BY <1>2, <1>3, <1>8, <3>1
      <3>2. CASE u # o
        <4>1. u \in list /\ u \in Op /\ u <= added
          BY <1>1, <1>2, <1>8, <3>2
        <4>2. kind[u] = "write" /\ current_step[u] = 1
          BY <1>2, <1>8, <3>2, <4>1
        <4> QED BY <4>1, <4>2 DEF Writes, WritesUntold
      <3> QED BY <3>1, <3>2
    <2>2. CASE s # 3
      BY <2>1, <2>2
    <2>3. CASE s = 3
      BY <1>1, <2>1, <2>3, SlotFirst
    <2> QED BY <2>2, <2>3
  <1>9. NeverDropped'
    <2>1. ASSUME NEW u \in Op, kind'[u] = "write" PROVE state[u] # "FailedDependencies"
      <3>1. CASE u <= added
        BY <1>2, <2>1, <3>1 DEF Writes, NeverDropped
      <3>2. CASE ~(u <= added)
        <4>1. u > added
          BY <1>1, <3>2 DEF Op
        <4> QED BY <1>1, <4>1 DEF Listed
      <3> QED BY <3>1, <3>2
    <2> QED BY <1>2, <2>1 DEF NeverDropped
  <1> QED BY <1>4, <1>7, <1>8, <1>9
         DEF Writes, WritesUntold, WritesFirst, HearsStart, OfStartingWrite, Told

----------------------------------------------------------------------------
(* Every action keeps the invariant.                                       *)

LEMMA WaitsWhenEvaluated ==
  ASSUME NEW rest, Good(rest), NEW o \in Op, NEW k \in Kind, NEW first \in 1..3,
         current_step[o] < first,
         IsAdded(o, k) \/ IsKept(o, k),
         \A t \in 1..2 : t < first => NothingToWaitFor(o, k, t),
         evaluateCurrentStep(o, k, first, rest),
         state' = state, answered' = answered,
         \A u \in list : u # o => Waiting(rest, u),
         Writes(rest), k # "write" \/ o \notin list => NoneHears(rest, kind)
  PROVE  WaitingInv'
  <1>1. PICK s \in 1..3, new \in SUBSET list :
           /\ first <= s /\ current_step[o] < s
           /\ Reaches(o, k, s, new) /\ Records(o, s, new)
           /\ calls' = IF s = 3 THEN <<Slot(o)>> \o rest ELSE rest
    BY StepReached
  <1>2. \A u \in list' : Waiting(calls, u)'
    BY <1>1, WaitingWhenReached
  <1>3. Writes(calls)'
    BY <1>1, WritesWhenReached
  <1> QED BY <1>2, <1>3 DEF WaitingInv

LEMMA WaitsWhenLeft ==
  ASSUME NEW rest, Good(rest), NEW o \in list, NEW final \in Finished,
         End(o, final, rest), Destroyed(o), UNCHANGED <<added, kind>>,
         answered' \subseteq answered \cup {o},
         \A u \in list : u # o => Waiting(rest, u),
         Writes(rest), NoneHears(rest, kind),
         kind[o] = "write" => state[o] = "Started" /\ final # "FailedDependencies"
  PROVE  WaitingInv'
  <1>1. \A u \in list' : Waiting(calls, u)'
    BY WaitingWhenLeaves
  <1>2. Writes(calls)'
    BY WritesWhenLeaves
  <1> QED BY <1>1, <1>2 DEF WaitingInv

LEMMA AddWaits ==
  ASSUME Inv, WaitingInv, NEW k \in Kinds, Add(k)
  PROVE  WaitingInv'
  <1> DEFINE o == added + 1
  <1>1. Good(calls) /\ k \in Kind /\ o \in Op /\ added \in Nat
    BY SequencerAssumption, ListedAreOps DEF Inv, Good, Add, Kind
  <1>2. IsAdded(o, k) /\ evaluateCurrentStep(o, k, 1, calls)
    BY DEF Add, IsAdded
  <1>3. state' = state /\ answered' = answered /\ CallersRun
    BY DEF Add
  <1>4. o \notin list
    BY <1>1 DEF Good, TypeOK
  <1>5. current_step[o] = 0
    BY <1>1, <1>4 DEF Good, Listed
  <1> HIDE DEF o
  <1>6. SUFFICES ASSUME NEW q, q = calls, NEW u, u = o PROVE WaitingInv'
    OBVIOUS
  <1>7. /\ Good(q) /\ u \in Op /\ k \in Kind /\ 1 \in 1..3 /\ current_step[u] < 1
        /\ IsAdded(u, k) \/ IsKept(u, k)
        /\ \A t \in 1..2 : t < 1 => NothingToWaitFor(u, k, t)
        /\ evaluateCurrentStep(u, k, 1, q)
    BY <1>1, <1>2, <1>5, <1>6
  <1>8. (\A p \in list : Waiting(q, p)) /\ Writes(q)
    BY <1>6 DEF WaitingInv
  <1>9. NoneHears(q, kind)
    BY <1>3, <1>6, <1>7, <1>8, NoneWhileCallersRun DEF Writes
  <1> QED BY <1>3, <1>7, <1>8, <1>9, WaitsWhenEvaluated

\* Calls return, or a step counts what it was told, and nothing else happens.
LEMMA WaitingKept ==
  ASSUME NEW rest, calls' = rest, NEW u \in list, Waiting(rest, u),
         UNCHANGED <<kind, state, list, current_step, dependents>>,
         required'[u] = required[u], remaining'[u] = remaining[u]
  PROVE  Waiting(calls, u)'
  <1>1. \A t : RecordedWith(u, t)' = RecordedWith(u, t) /\ Trigger(u, t)' = Trigger(u, t)
    BY DEF RecordedWith, Entries, Entry, Trigger
  <1>2. \A t \in 1..2 : t = current_step[u] =>
          /\ 1 <= required[u] /\ required[u] <= remaining[u]
          /\ remaining[u] = Cardinality(RecordedWith(u, t)) + Cardinality(Told(rest, u, t, Ends))
          /\ "Started" \in Trigger(u, t) =>
               /\ required[u] = 1
               /\ \A p \in RecordedWith(u, t) :
                    state[p] = "Started" => Told(rest, u, t, {"Started"}) # {}
    BY DEF Waiting
  <1>3. current_step[u] = 3 /\ state[u] = "NotStarted" => \E i \in 1..Len(rest) : rest[i] = Slot(u)
    BY DEF Waiting
  <1> QED BY <1>1, <1>2, <1>3 DEF Waiting, Slot, Told

LEMMA AnswerWaits ==
  ASSUME Inv, WaitingInv, NEW o \in Op, Answer(o)
  PROVE  WaitingInv'
  <1> SUFFICES ASSUME NEW q, q = calls PROVE WaitingInv'
    OBVIOUS
  <1>1. /\ Good(q) /\ TypeOK /\ Listed /\ CallsKnown(q) /\ q \in Seq(Call)
        /\ added' = added /\ kind' = kind /\ answered' = answered \cup {o}
        /\ (\A p \in list : Waiting(q, p)) /\ Writes(q)
    BY DEF Inv, Good, Answer, WaitingInv
  <1>2. CASE state[o] = "Started"
    <2>1. o \in list
      <3>1. "Started" \notin Finished /\ o \in Nat /\ added \in Nat
        BY <1>1, ListedAreOps DEF Finished, Failed, Op
      <3> QED BY <1>1, <1>2, <3>1 DEF Listed
    <2>2. PICK final \in {"Succeeded", "FailedSignal"} : End(o, final, q)
      BY <1>2 DEF Answer
    <2>3. Destroyed(o) /\ final \in Finished /\ final # "FailedDependencies" /\ CallersRun
      BY <1>2 DEF Answer, Finished, Failed
    <2>4. NoneHears(q, kind)
      BY <1>1, <2>3, NoneWhileCallersRun DEF Writes
    <2> QED BY <1>1, <1>2, <2>1, <2>2, <2>3, <2>4, WaitsWhenLeft
  <1>3. CASE state[o] # "Started"
    <2>1. UNCHANGED <<added, kind, state, list, chains, calls>>
      BY <1>1, <1>3 DEF Answer
    <2>2. kind[o] = "direct" /\ q # <<>> /\ Head(q) = Slot(o)
      BY <1>3 DEF Answer
    <2>3. o <= added
      <3>1. Head(q) = q[1] /\ 1 \in 1..Len(q)
        BY <1>1, <2>2, HeadTailProperties, EmptySeq
      <3>2. q[1].call = "slot" /\ q[1].op = o
        BY <2>2, <3>1 DEF Slot
      <3> QED BY <1>1, <3>1, <3>2 DEF CallsKnown, Listed
    <2>4. AnsweredKnown'
      BY <1>1, <2>1, <2>2, <2>3 DEF AnsweredKnown, Writes
    <2>5. \A u \in list' : Waiting(calls, u)'
      <3>1. /\ calls' = q /\ list' = list /\ state' = state /\ kind' = kind
            /\ current_step' = current_step /\ required' = required
            /\ remaining' = remaining /\ dependents' = dependents
        BY <2>1 DEF chains
      <3> QED BY <1>1, <3>1, WaitingKept
    <2>6. (WritesFirst(calls, kind) /\ WritesUntold(calls) /\ NeverDropped)'
      BY <1>1, <2>1 DEF chains, Writes, WritesFirst, HearsStart, OfStartingWrite,
                        WritesUntold, Told, NeverDropped
    <2> QED BY <2>4, <2>5, <2>6 DEF WaitingInv, Writes
  <1> QED BY <1>2, <1>3

\* The end of an abort, to be made first, tells nobody anything.
LEMMA WaitingAfterAbort ==
  ASSUME NEW q, Good(q), NEW o \in Op, Writes(q), NoneHears(q, kind),
         \A u \in list : Waiting(q, u)
  PROVE  /\ \A u \in list : Waiting(<<AccessAbort(o)>> \o q, u)
         /\ Writes(<<AccessAbort(o)>> \o q)
         /\ NoneHears(<<AccessAbort(o)>> \o q, kind)
  <1> DEFINE c == AccessAbort(o)
             r == <<c>> \o q
  <1>1. q \in Seq(Call) /\ Len(q) \in Nat
    BY LenProperties DEF Good
  <1>2. c \in Call /\ c.call # "notify" /\ c.call # "slot"
    BY DEF AccessAbort, Call
  <1> HIDE DEF c
  <1>3. /\ r \in Seq(Call)
        /\ \A i \in 1..Len(r) :
             (i = 1 /\ r[i] = c) \/ (i - 1 \in 1..Len(q) /\ r[i] = q[i - 1])
        /\ \A u, t, events :
             Cardinality(Told(r, u, t, events)) = Cardinality(Told(q, u, t, events))
    BY <1>1, <1>2, CallFirst
  <1>4. \A i \in 1..Len(q) : i + 1 \in 1..Len(r) /\ r[i + 1] = q[i]
    <2>1. <<c>> \in Seq(Call) /\ Len(<<c>>) = 1
      BY <1>2
    <2>2. /\ Len(r) = 1 + Len(q)
          /\ \A i \in 1..(1 + Len(q)) : r[i] = IF i <= 1 THEN <<c>>[i] ELSE q[i - 1]
      BY <1>1, <2>1, ConcatProperties
    <2> HIDE DEF r
    <2> QED BY <1>1, <2>2
  <1> HIDE DEF r
  <1>5. \A u, t, events : Told(r, u, t, events) = {} <=> Told(q, u, t, events) = {}
    <2> SUFFICES ASSUME NEW u, NEW t, NEW events
                 PROVE  Told(r, u, t, events) = {} <=> Told(q, u, t, events) = {}
      OBVIOUS
    <2>1. IsFiniteSet(Told(r, u, t, events)) /\ IsFiniteSet(Told(q, u, t, events))
      BY <1>1, <1>3, ToldFinite
    <2> QED BY <1>3, <2>1, FS_EmptySet
  <1>6. ASSUME NEW u \in list PROVE Waiting(r, u)
    <2>1. \A s \in 1..2 : s = current_step[u] =>
            /\ 1 <= required[u] /\ required[u] <= remaining[u]
            /\ remaining[u] = Cardinality(RecordedWith(u, s)) + Cardinality(Told(q, u, s, Ends))
            /\ "Started" \in Trigger(u, s) =>
                 /\ required[u] = 1
                 /\ \A p \in RecordedWith(u, s) :
                      state[p] = "Started" => Told(q, u, s, {"Started"}) # {}
      BY DEF Waiting
    <2>2. \A s \in 1..2 : s = current_step[u] =>
            /\ 1 <= required[u] /\ required[u] <= remaining[u]
            /\ remaining[u] = Cardinality(RecordedWith(u, s)) + Cardinality(Told(r, u, s, Ends))
            /\ "Started" \in Trigger(u, s) =>
                 /\ required[u] = 1
                 /\ \A p \in RecordedWith(u, s) :
                      state[p] = "Started" => Told(r, u, s, {"Started"}) # {}
      BY <1>3, <1>5, <2>1
    <2>3. current_step[u] = 3 /\ state[u] = "NotStarted" =>
            \E i \in 1..Len(r) : r[i] = Slot(u)
      <3>1. current_step[u] = 3 /\ state[u] = "NotStarted" =>
              \E i \in 1..Len(q) : q[i] = Slot(u)
        BY DEF Waiting
      <3> QED BY <1>4, <3>1
    <2> QED BY <2>2, <2>3 DEF Waiting
  <1>7. NoneHears(r, kind)
    BY <1>2, <1>3 DEF NoneHears, HearsStart
  <1>8. WritesUntold(r)
    BY <1>5 DEF Writes, WritesUntold
  <1>9. Writes(r)
    BY <1>7, <1>8 DEF Writes, NoneHears, WritesFirst
  <1> QED BY <1>6, <1>7, <1>9 DEF r, c

LEMMA AbortWaits ==
  ASSUME LetGo, Inv, WaitingInv, NEW o \in Op, Abort(o)
  PROVE  WaitingInv'
  <1> SUFFICES ASSUME NEW b, b = calls, NEW q, q = AfterAbort(o) PROVE WaitingInv'
    OBVIOUS
  <1>1. /\ Good(q) /\ Listed
        /\ added' = added /\ kind' = kind /\ answered' = answered
        /\ (\A p \in list : Waiting(q, p)) /\ Writes(q) /\ NoneHears(q, kind)
    <2>1. /\ Good(b) /\ Listed /\ CallersRun
          /\ added' = added /\ kind' = kind /\ answered' = answered
          /\ (\A p \in list : Waiting(b, p)) /\ Writes(b)
      BY DEF Inv, Good, Abort, WaitingInv
    <2>2. NoneHears(b, kind)
      BY <2>1, NoneWhileCallersRun DEF Writes
    <2>3. q = b \/ q = <<AccessAbort(o)>> \o b
      BY DEF AfterAbort
    <2>4. Good(q)
      BY <2>1, <2>3, AccessAbortFirst
    <2>5. (\A p \in list : Waiting(q, p)) /\ Writes(q) /\ NoneHears(q, kind)
      BY <2>1, <2>2, <2>3, WaitingAfterAbort
    <2> QED BY <2>1, <2>4, <2>5
  <1>2. o \in list /\ kind[o] # "write" /\ CallersRun
    BY <1>1 DEF Abort, Listed
  <1>3. Destroyed(o)
    <2>1. \A keep \in KeptHandles : ~keep
      BY SequencerAssumption DEF LetGo
    <2> QED BY <2>1 DEF Abort
  <1>4. End(o, "FailedAborted", q) /\ "FailedAborted" \in Finished
    BY DEF Abort, Finished, Failed
  <1> QED BY <1>1, <1>2, <1>3, <1>4, WaitsWhenLeft

\* The innermost call returns without a change; unless it is on behalf of an
\* update that starts, no update is about to hear of a start.
LEMMA WritesRest ==
  ASSUME NEW q, Good(q), q # <<>>, Writes(q)
  PROVE  /\ Writes(Tail(q))
         /\ NoneHears(q, kind) => NoneHears(Tail(q), kind)
         /\ ~OfStartingWrite(Head(q), kind) => NoneHears(Tail(q), kind)
  <1>1. q \in Seq(Call) /\ Tail(q) \in Seq(Call)
    BY HeadTailProperties DEF Good
  <1>2. /\ WritesFirst(Tail(q), kind)
        /\ NoneHears(q, kind) => NoneHears(Tail(q), kind)
        /\ ~OfStartingWrite(Head(q), kind) => NoneHears(Tail(q), kind)
    BY <1>1, FirstOfRest, NoneFirst DEF Writes
  <1>3. WritesUntold(Tail(q))
    <2> SUFFICES ASSUME NEW u \in list, kind[u] = "write", current_step[u] = 1
                 PROVE  Told(Tail(q), u, 1, Ends) = {}
      BY DEF WritesUntold
    <2> DEFINE T == Told(q, u, 1, Ends)
               R == Told(Tail(q), u, 1, Ends)
    <2>1. T = {}
      BY DEF Writes, WritesUntold
    <2>2. IsFiniteSet(R) /\ Cardinality(R) \in Nat
      BY <1>1, ToldFinite
    <2>3. Cardinality(T) = Cardinality(R) + 1 \/ Cardinality(T) = Cardinality(R)
      BY <1>1, ToldAndRest
    <2> HIDE DEF T, R
    <2>4. Cardinality(T) = 0
      BY <2>1, FS_EmptySet
    <2>5. Cardinality(R) = 0
      BY <2>2, <2>3, <2>4
    <2>6. R = {}
      BY <2>2, <2>5, FS_EmptySet
    <2> QED BY <2>6 DEF R
  <1> QED BY <1>2, <1>3 DEF Writes

LEMMA SlotReturnsWaits ==
  ASSUME Inv, WaitingInv, SlotReturns
  PROVE  WaitingInv'
  <1> SUFFICES ASSUME NEW q, q = calls, NEW rest, rest = Tail(calls),
                      NEW o, o = Head(calls).op
               PROVE  WaitingInv'
    OBVIOUS
  <1>1. /\ q # <<>> /\ Head(q).call = "slot"
        /\ state' = [state EXCEPT ![o] = "Started"]
        /\ signalDependents(o, "Started", rest)
        /\ UNCHANGED <<added, kind, list, chains, answered>>
    BY DEF SlotReturns
  <1>2. /\ Good(q) /\ Good(rest) /\ q \in Seq(Call) /\ CallsKnown(q)
        /\ (\A p \in list : Waiting(q, p)) /\ Writes(q)
    BY <1>1, RestIsGood DEF Inv, Good, WaitingInv
  <1>3. Head(q) = q[1] /\ 1 \in 1..Len(q)
    BY <1>1, <1>2, HeadTailProperties, EmptySeq
  <1>4. o \in list /\ current_step[o] = 3
    BY <1>1, <1>2, <1>3 DEF CallsKnown
  <1>5. \A u \in list : u # o => Waiting(rest, u)
    BY <1>1, <1>2, WaitingRest
  <1>6. Writes(rest) /\ (kind[o] # "write" => NoneHears(rest, kind))
    BY <1>1, <1>2, WritesRest DEF OfStartingWrite
  <1>7. \A u \in list' : Waiting(calls, u)'
    BY <1>1, <1>2, <1>4, <1>5, WaitingWhenStarts
  <1>8. Writes(calls)'
    BY <1>1, <1>2, <1>4, <1>6, WritesWhenStarts
  <1> QED BY <1>7, <1>8 DEF WaitingInv

\* The end of an abort is told nobody, nor does it start anything.
LEMMA AccessAbortedWaits ==
  ASSUME Inv, WaitingInv, AccessAborted
  PROVE  WaitingInv'
  <1> SUFFICES ASSUME NEW q, q = calls, NEW rest, rest = Tail(calls) PROVE WaitingInv'
    OBVIOUS
  <1>1. /\ q # <<>> /\ Head(q).call = "close" /\ calls' = rest
        /\ UNCHANGED <<added, kind, state, list, chains, answered>>
    BY DEF AccessAborted
  <1>2. Good(q) /\ (\A p \in list : Waiting(q, p)) /\ Writes(q)
    BY DEF Inv, WaitingInv
  <1>3. \A u \in list : Waiting(rest, u)
    BY <1>1, <1>2, WaitingRest
  <1>4. Writes(rest)
    BY <1>1, <1>2, WritesRest
  <1>5. /\ list' = list /\ state' = state /\ kind' = kind
        /\ current_step' = current_step /\ required' = required
        /\ remaining' = remaining /\ dependents' = dependents
        /\ added' = added /\ answered' = answered
    BY <1>1 DEF chains
  <1>6. \A u \in list' : Waiting(calls, u)'
    BY <1>1, <1>3, <1>5, WaitingKept
  <1>7. Writes(calls)'
    BY <1>1, <1>4, <1>5 DEF Writes, AnsweredKnown, WritesFirst, HearsStart,
                            OfStartingWrite, WritesUntold, Told, NeverDropped
  <1> QED BY <1>6, <1>7 DEF WaitingInv

LEMMA NotifyWaits ==
  ASSUME Inv, WaitingInv, Notify
  PROVE  WaitingInv'
  <1> SUFFICES ASSUME NEW q, q = calls, NEW rest, rest = Tail(calls),
                      NEW o, o = Head(calls).op, NEW s, s = Head(calls).step,
                      NEW event, event = Head(calls).event
               PROVE  WaitingInv'
    OBVIOUS
  <1> DEFINE alive == current_step[o] = s
                        /\ (o \notin list => s = Len(Dependencies(kind[o])))
             fits == event \in Dependencies(kind[o])[s].trigger
             req == required[o] - (IF fits THEN 1 ELSE 0)
             rem == remaining[o] - (IF event # "Started" THEN 1 ELSE 0)
  <1>1. q # <<>> /\ Head(q).call = "notify" /\ UNCHANGED <<added, kind, answered>>
    BY DEF Notify
  <1>2. /\ Good(q) /\ Good(rest) /\ Head(q) \in Call
        /\ (\A p \in list : Waiting(q, p)) /\ Writes(q)
    BY <1>1, RestIsGood DEF Inv, WaitingInv
  <1>3. /\ TypeOK /\ Listed /\ q \in Seq(Call) /\ rest \in Seq(Call)
        /\ list \subseteq Op /\ CallsKnown(q) /\ Recorded
    BY <1>2, ListedAreOps DEF Good
  <1>4. /\ o \in Op /\ s \in 1..2 /\ event \in {"Started", "Succeeded", "Failed"}
    <2>1. /\ o \in Op /\ Head(q) = q[1] /\ 1 \in 1..Len(q)
          /\ event \in {"Started", "Succeeded", "Failed"}
      BY <1>1, <1>2, <1>3, HeadTailProperties, EmptySeq DEF Call
    <2> QED BY <1>1, <1>3, <2>1 DEF CallsKnown
  <1>5. kind[o] \in Kind /\ required[o] \in Nat /\ remaining[o] \in Nat
    BY <1>3, <1>4 DEF TypeOK, Kind
  <1>6. alive => o \in list /\ current_step[o] = s
    BY <1>3, <1>4 DEF Listed
  <1>7. /\ fits <=> Matches(Head(q), o, s, Trigger(o, s))
        /\ event # "Started" <=> Matches(Head(q), o, s, Ends)
        /\ event = "Started" <=> Matches(Head(q), o, s, {"Started"})
        /\ Trigger(o, s) = {"Started"} \/ Trigger(o, s) = {"Succeeded", "Failed"}
        /\ fits <=> event \in Trigger(o, s)
    BY <1>1, <1>3, <1>4, Triggers DEF Matches, Ends
  <1>8. \/ /\ o \in list => ~alive
           /\ calls' = rest
           /\ UNCHANGED <<state, list, chains>>
        \/ /\ alive /\ fits /\ req = 0
           /\ evaluateCurrentStep(o, kind[o], s + 1, rest)
           /\ UNCHANGED <<state, list>>
        \/ /\ alive /\ req # 0 /\ rem >= req
           /\ required' = [required EXCEPT ![o] = req]
           /\ remaining' = [remaining EXCEPT ![o] = rem]
           /\ calls' = rest
           /\ UNCHANGED <<state, list, current_step, dependents>>
        \/ /\ alive /\ rem < req
           /\ End(o, "FailedDependencies", rest)
           /\ Destroyed(o)
    BY DEF Notify
  <1>9. /\ Writes(rest)
        /\ ~OfStartingWrite(Head(q), kind) => NoneHears(rest, kind)
    BY <1>1, <1>2, WritesRest
  <1>10. \A u \in list : u # o \/ s # current_step[u] => Waiting(rest, u)
    BY <1>1, <1>2, WaitingRest
  <1>11. OfStartingWrite(Head(q), kind) => event = "Started" /\ (fits => kind[o] = "write")
    <2>1. ASSUME OfStartingWrite(Head(q), kind)
          PROVE  event = "Started" /\ Dependencies(kind[o])[s].quality = "write"
      BY <1>1, <2>1 DEF OfStartingWrite
    <2>2. ASSUME event = "Started", fits, Dependencies(kind[o])[s].quality = "write"
          PROVE  kind[o] = "write"
      <3>1. s = 1 /\ Quality(kind[o]) = "write"
        BY <1>4, <1>5, <2>2, Chains
      <3> QED BY <3>1 DEF Quality
    <2> QED BY <2>1, <2>2
  <1>12. ASSUME alive
         PROVE  /\ 1 <= required[o] /\ required[o] <= remaining[o]
                /\ remaining[o] = Cardinality(RecordedWith(o, s))
                                    + Cardinality(Told(q, o, s, Ends))
                /\ "Started" \in Trigger(o, s) =>
                     /\ required[o] = 1
                     /\ \A p \in RecordedWith(o, s) :
                          state[p] = "Started" => Told(q, o, s, {"Started"}) # {}
    <2>1. Waiting(q, o) /\ s = current_step[o]
      BY <1>2, <1>6, <1>12
    <2> QED BY <1>4, <2>1 DEF Waiting
  <1>13. CASE /\ o \in list => ~alive
              /\ calls' = rest
              /\ UNCHANGED <<state, list, chains>>
    <2>1. UNCHANGED <<kind, state, list, current_step, dependents, required, remaining>>
      BY <1>1, <1>13 DEF chains
    <2>2. \A u \in list : Waiting(rest, u)
      BY <1>10, <1>13
    <2>3. \A u \in list : Waiting(calls, u)'
      BY <1>13, <2>1, <2>2, WaitingKept
    <2>4. Writes(calls)'
      BY SMTT(30), <1>1, <1>9, <1>13, <2>1 DEF Writes, AnsweredKnown, WritesFirst, HearsStart,
                                OfStartingWrite, WritesUntold, Told, NeverDropped
    <2> QED BY <2>1, <2>3, <2>4 DEF WaitingInv
  <1>14. CASE /\ alive /\ fits /\ req = 0
              /\ evaluateCurrentStep(o, kind[o], s + 1, rest)
              /\ UNCHANGED <<state, list>>
    <2>1. o \in list /\ s = current_step[o] /\ required[o] = 1
      BY <1>5, <1>6, <1>14
    <2>2. Matches(Head(q), o, s, Trigger(o, s))
      BY <1>7, <1>14
    <2>3. \A t \in 1..2 : t < s + 1 => NothingToWaitFor(o, kind[o], t)
      BY <1>1, <1>2, <1>4, <2>1, <2>2, LastWaitedFor
    <2>4. /\ kind[o] # "write" => NoneHears(rest, kind)
          /\ \A u \in list : u # o => Waiting(rest, u)
      BY <1>9, <1>10, <1>11, <1>14
    <2> SUFFICES ASSUME NEW k, k = kind[o], NEW first, first = s + 1 PROVE WaitingInv'
      OBVIOUS
    <2>5. /\ k \in Kind /\ first \in 1..3 /\ current_step[o] < first
          /\ IsAdded(o, k) \/ IsKept(o, k)
          /\ \A t \in 1..2 : t < first => NothingToWaitFor(o, k, t)
          /\ evaluateCurrentStep(o, k, first, rest)
          /\ state' = state /\ answered' = answered
          /\ k # "write" \/ o \notin list => NoneHears(rest, kind)
      BY <1>1, <1>4, <1>5, <1>14, <2>1, <2>3, <2>4 DEF IsKept
    <2> QED BY <1>2, <1>4, <1>9, <2>4, <2>5, WaitsWhenEvaluated
  <1>15. CASE /\ alive /\ req # 0 /\ rem >= req
              /\ required' = [required EXCEPT ![o] = req]
              /\ remaining' = [remaining EXCEPT ![o] = rem]
              /\ calls' = rest
              /\ UNCHANGED <<state, list, current_step, dependents>>
    <2>1. o \in list /\ s = current_step[o] /\ s # 3
      BY <1>4, <1>6, <1>15
    <2>2. ASSUME NEW u \in list, u # o PROVE Waiting(calls, u)'
      <3>1. u \in Op /\ required'[u] = required[u] /\ remaining'[u] = remaining[u]
        BY <1>3, <1>15, <2>2 DEF TypeOK
      <3>2. Waiting(rest, u)
        BY <1>10, <2>2
      <3>3. UNCHANGED <<kind, state, list, current_step, dependents>> /\ calls' = rest
        BY <1>1, <1>15
      <3> QED BY <3>1, <3>2, <3>3, WaitingKept
    <2>3. required'[o] = req /\ remaining'[o] = rem
      BY <1>3, <1>4, <1>15 DEF TypeOK
    <2>4. 1 <= req /\ req <= rem
      <3>1. req \in Nat /\ rem \in Int
        BY <1>5, <1>12, <1>15
      <3> HIDE DEF req, rem
      <3> QED BY <1>15, <3>1
    <2>5. /\ Cardinality(Told(rest, o, s, Ends)) \in Nat
          /\ event # "Started" => Cardinality(Told(q, o, s, Ends))
                                    = Cardinality(Told(rest, o, s, Ends)) + 1
          /\ event = "Started" => Cardinality(Told(q, o, s, Ends))
                                    = Cardinality(Told(rest, o, s, Ends))
      <3>1. Cardinality(Told(rest, o, s, Ends)) \in Nat
        BY <1>3, ToldFinite
      <3>2. /\ Matches(Head(q), o, s, Ends) =>
                 Cardinality(Told(q, o, s, Ends)) = Cardinality(Told(Tail(q), o, s, Ends)) + 1
            /\ ~Matches(Head(q), o, s, Ends) =>
                 Cardinality(Told(q, o, s, Ends)) = Cardinality(Told(Tail(q), o, s, Ends))
        BY <1>1, <1>3, ToldAndRest
      <3>3. rest = Tail(q)
        OBVIOUS
      <3> QED BY <1>7, <3>1, <3>2, <3>3
    <2>6. rem = Cardinality(RecordedWith(o, s)) + Cardinality(Told(rest, o, s, Ends))
      <3>1. Cardinality(RecordedWith(o, s)) \in Nat
        BY <1>3, RecordedFinite
      <3>2. remaining[o] = Cardinality(RecordedWith(o, s)) + Cardinality(Told(q, o, s, Ends))
        BY <1>12, <1>15
      <3> QED BY <2>5, <3>1, <3>2
    <2>7. ASSUME "Started" \in Trigger(o, s)
          PROVE  /\ req = 1
                 /\ \A p \in RecordedWith(o, s) :
                      state[p] = "Started" => Told(rest, o, s, {"Started"}) # {}
      <3>1. required[o] = 1 /\ \A p \in RecordedWith(o, s) :
                                 state[p] = "Started" => Told(q, o, s, {"Started"}) # {}
        BY <1>12, <1>15, <2>7
      <3>2. ~fits
        <4>1. fits => req = 0
          BY <3>1
        <4> QED BY <1>15, <4>1
      <3>3. req = 1
        BY <3>1, <3>2
      <3>4. Told(q, o, s, {"Started"}) # {} => Told(rest, o, s, {"Started"}) # {}
        <4>1. ~Matches(Head(q), o, s, {"Started"})
          BY <1>7, <2>7, <3>2
        <4>2. Cardinality(Told(q, o, s, {"Started"})) = Cardinality(Told(rest, o, s, {"Started"}))
          BY <1>1, <1>3, <4>1, ToldAndRest
        <4>3. /\ IsFiniteSet(Told(q, o, s, {"Started"}))
              /\ IsFiniteSet(Told(rest, o, s, {"Started"}))
          BY <1>3, ToldFinite
        <4> QED BY <4>2, <4>3, FS_EmptySet
      <3> QED BY <3>1, <3>3, <3>4
    <2>8. Waiting(calls, o)'
      <3> HIDE DEF req, rem, alive, fits
      <3>1. /\ RecordedWith(o, s)' = RecordedWith(o, s) /\ Trigger(o, s)' = Trigger(o, s)
            /\ state' = state /\ current_step' = current_step /\ calls' = rest
        BY <1>1, <1>15 DEF RecordedWith, Entries, Entry, Trigger
      <3>2. ASSUME NEW t \in 1..2, t = current_step'[o]
            PROVE  /\ 1 <= required'[o] /\ required'[o] <= remaining'[o]
                   /\ remaining'[o] = Cardinality(RecordedWith(o, t)')
                                        + Cardinality(Told(calls', o, t, Ends))
                   /\ "Started" \in Trigger(o, t)' =>
                        /\ required'[o] = 1
                        /\ \A p \in RecordedWith(o, t)' :
                             state'[p] = "Started" => Told(calls', o, t, {"Started"}) # {}
        <4>1. t = s
          BY <2>1, <3>1, <3>2
        <4>2. /\ 1 <= required'[o] /\ required'[o] <= remaining'[o]
              /\ remaining'[o] = Cardinality(RecordedWith(o, s))
                                   + Cardinality(Told(rest, o, s, Ends))
          BY <2>3, <2>4, <2>6
        <4>3. "Started" \in Trigger(o, s) =>
                /\ required'[o] = 1
                /\ \A p \in RecordedWith(o, s) :
                     state[p] = "Started" => Told(rest, o, s, {"Started"}) # {}
          BY <2>3, <2>7
        <4> QED BY <3>1, <4>1, <4>2, <4>3
      <3>3. current_step'[o] # 3
        BY <2>1, <3>1
      <3> QED BY ONLY <3>2, <3>3 DEF Waiting, Slot, Told
    <2>9. Writes(calls)'
      <3> HIDE DEF req, rem, alive, fits
      <3> QED BY <1>1, <1>9, <1>15 DEF Writes, AnsweredKnown, WritesFirst, HearsStart,
                                  OfStartingWrite, WritesUntold, Told, NeverDropped
    <2>10. list' = list
      BY <1>15
    <2> QED BY <2>2, <2>8, <2>9, <2>10 DEF WaitingInv
  <1>16. CASE /\ alive /\ rem < req
              /\ End(o, "FailedDependencies", rest)
              /\ Destroyed(o)
    <2>1. o \in list /\ current_step[o] = s /\ "FailedDependencies" \in Finished
      BY <1>6, <1>16 DEF Finished, Failed
    <2>2. 1 <= required[o] /\ required[o] <= remaining[o]
      BY <1>12, <1>16
    <2>3. event # "Started" /\ ~fits
      <3>1. event = "Started" => rem = remaining[o]
        BY <1>5
      <3>2. req <= required[o] /\ (fits => req = required[o] - 1)
        BY <1>5
      <3>3. rem >= remaining[o] - 1 /\ rem \in Int /\ req \in Int
        BY <1>5
      <3> HIDE DEF req, rem, fits
      <3> QED BY <1>5, <1>16, <2>2, <3>1, <3>2, <3>3
    <2>4. kind[o] # "write"
      <3>1. ASSUME kind[o] = "write" PROVE FALSE
        <4>1. Trigger(o, s) = {"Started"}
          BY <1>4, <1>7, <2>3
        <4>2. s = 1
          <5>1. "Started" \in Dependencies(kind[o])[s].trigger
            BY <4>1 DEF Trigger
          <5> QED BY <1>4, <1>5, <5>1, Chains
        <4>3. Told(q, o, 1, Ends) = {}
          BY <1>2, <2>1, <3>1, <4>2 DEF Writes, WritesUntold
        <4>4. Head(q) = q[1] /\ 1 \in 1..Len(q)
          BY <1>1, <1>3, HeadTailProperties, EmptySeq
        <4>5. 1 \in Told(q, o, 1, Ends)
          BY <1>1, <1>4, <2>3, <4>2, <4>4 DEF Told, Ends
        <4> QED BY <4>3, <4>5
      <3> QED BY <3>1
    <2>5. NoneHears(rest, kind) /\ \A u \in list : u # o => Waiting(rest, u)
      BY <1>9, <1>10, <1>11, <2>3
    <2> QED BY <1>1, <1>2, <1>9, <1>16, <2>1, <2>4, <2>5, WaitsWhenLeft
  <1> QED BY <1>8, <1>13, <1>14, <1>15, <1>16

----------------------------------------------------------------------------
(* The theorems.                                                           *)

LEMMA InitWaits ==
  ASSUME Init
  PROVE  WaitingInv
  <1>1. list = {} /\ calls = <<>> /\ Len(calls) = 0 /\ answered = {}
    BY DEF Init
  <1>2. NeverDropped
    BY DEF Init, NeverDropped
  <1> QED BY <1>1, <1>2 DEF WaitingInv, Writes, AnsweredKnown, WritesFirst, WritesUntold

LEMMA NextKeepsWaiting ==
  ASSUME LetGo, Inv, WaitingInv, [Next]_vars
  PROVE  WaitingInv'
  <1>1. CASE UNCHANGED vars
    <2>1. /\ calls' = calls /\ UNCHANGED <<kind, state, list, current_step, dependents>>
          /\ UNCHANGED <<added, answered, required, remaining>>
      BY <1>1 DEF vars, chains
    <2>2. SUFFICES ASSUME NEW q, q = calls PROVE WaitingInv'
      OBVIOUS
    <2>3. (\A u \in list : Waiting(q, u)) /\ calls' = q
      BY <2>1, <2>2 DEF WaitingInv
    <2>4. \A u \in list : Waiting(calls, u)'
      BY <2>1, <2>3, WaitingKept
    <2>5. Writes(calls)'
      BY <2>1 DEF WaitingInv, Writes, AnsweredKnown, WritesFirst, HearsStart,
                  OfStartingWrite, WritesUntold, Told, NeverDropped
    <2> QED BY <2>1, <2>4, <2>5 DEF WaitingInv
  <1>2. CASE \E k \in Kinds : Add(k)
    BY <1>2, AddWaits
  <1>3. CASE \E o \in Op : Answer(o) \/ Abort(o)
    BY <1>3, AnswerWaits, AbortWaits
  <1>4. CASE Notify
    BY <1>4, NotifyWaits
  <1>5. CASE SlotReturns
    BY <1>5, SlotReturnsWaits
  <1>6. CASE AccessAborted
    BY <1>6, AccessAbortedWaits
  <1> QED BY <1>1, <1>2, <1>3, <1>4, <1>5, <1>6 DEF Next

\* Whoever waits for a step counts exactly those whose end it may still hear
\* of, and updates hear of the start of the one before ahead of its end.
THEOREM WaitingInvariance == ASSUME LetGo PROVE Spec => []WaitingInv
  <1>1. Init => WaitingInv
    BY InitWaits
  <1>2. Inv /\ WaitingInv /\ [Next]_vars => WaitingInv'
    BY NextKeepsWaiting
  <1> QED BY <1>1, <1>2, Invariance, PTL DEF Spec

\* Though a step that hears of an end it does not wait for fails its operation,
\* no update fails unsent because a query before it was aborted or failed.
THEOREM NoUpdateDropped == ASSUME LetGo PROVE Spec => []UpdatesNeverDropped
  <1>1. ASSUME Inv, WaitingInv PROVE UpdatesNeverDropped
    <2>1. 1..added \subseteq Op
      BY <1>1, SequencerAssumption, ListedAreOps DEF Inv, Good, Op
    <2> QED BY <1>1, <2>1 DEF WaitingInv, Writes, NeverDropped, UpdatesNeverDropped
  <1>2. Inv /\ WaitingInv => UpdatesNeverDropped
    BY <1>1
  <1> QED BY <1>2, Invariance, WaitingInvariance, PTL

\* Between calls, whoever has not started waits for exactly what is left to
\* wait for.
THEOREM NotificationsArrive == ASSUME LetGo PROVE Spec => []NoMissedNotification
  <1>1. ASSUME Inv, WaitingInv, calls = <<>>,
               NEW o \in 1..added, state[o] = "NotStarted",
               NEW s, s = current_step[o], NEW c, c = Dependencies(kind[o])[s]
        PROVE  /\ o \in list /\ s \in 1..2
               /\ Awaited(o, c) # {} /\ required[o] = Cardinality(Awaited(o, c))
    <2> DEFINE R == RecordedWith(o, s)
    <2>1. /\ TypeOK /\ Listed /\ Recorded /\ Complete /\ Counted(calls)
          /\ \A u \in list : Waiting(calls, u)
          /\ list \subseteq Op /\ list \subseteq 1..added /\ added \in Nat /\ added <= MaxOps
      BY <1>1, ListedAreOps DEF Inv, Good, WaitingInv, TypeOK
    <2>2. /\ o \in Op /\ kind[o] \in Kind /\ current_step[o] \in 0..3
          /\ required[o] \in Nat /\ remaining[o] \in Nat
      <3>1. o \in Op
        BY <2>1, SequencerAssumption DEF Op
      <3> QED BY <2>1, <3>1 DEF TypeOK, Kind
    <2>3. o \in list
      <3>1. "NotStarted" \notin Finished /\ o <= added
        BY <2>1 DEF Finished, Failed
      <3> QED BY <1>1, <2>1, <2>2, <3>1 DEF Listed
    <2>4. Len(calls) = 0 /\ \A u, t, events : Told(calls, u, t, events) = {}
      BY <1>1 DEF Told
    <2>5. s \in 1..2
      <3>1. s # 0
        BY <1>1, <2>1, <2>2, <2>3 DEF Listed
      <3>2. s # 3
        BY <1>1, <2>1, <2>3, <2>4 DEF Waiting
      <3> QED BY <1>1, <2>2, <3>1, <3>2
    <2>6. /\ 1 <= required[o] /\ required[o] <= remaining[o]
          /\ remaining[o] = Cardinality(R) + Cardinality(Told(calls, o, s, Ends))
          /\ "Started" \in Trigger(o, s) =>
               /\ required[o] = 1
               /\ \A p \in R : state[p] = "Started" => Told(calls, o, s, {"Started"}) # {}
      BY <1>1, <2>1, <2>3, <2>5 DEF Waiting
    <2>7. IsFiniteSet(R) /\ Cardinality(R) \in Nat
      BY <2>1, RecordedFinite
    <2>8. required[o] <= Cardinality(R)
      <3>1. Cardinality(Told(calls, o, s, Ends)) = 0
        BY <2>4, FS_EmptySet
      <3> HIDE DEF R
      <3> QED BY <2>6, <2>7, <3>1
    <2>9. \A p \in R : p \in list /\ About(p, o, s)
      <3>1. Entry(o, s).op = o /\ Entry(o, s).step = s
        BY DEF Entry
      <3> QED BY <2>1, <3>1 DEF Recorded, RecordedWith
    <2>10. /\ Trigger(o, s) = c.trigger
           /\ \A p \in list : About(p, o, s) <=> p < o /\ Quality(kind[p]) = c.quality
           /\ c.scope = "Latest" <=> "Started" \in c.trigger
           /\ c.scope \in {"Latest", "All"}
      BY <1>1, <2>2, <2>5, Chains DEF Trigger, About
    <2>11. CASE "Started" \notin c.trigger
      <3>1. \A p \in list : About(p, o, s) => p \in R
        BY <1>1, <2>1, <2>3, <2>5, <2>10, <2>11 DEF Complete, RecordedWith
      <3>2. SubObjects(o, c) = R
        BY <2>9, <2>10, <2>11, <3>1 DEF SubObjects
      <3>3. Awaited(o, c) = R
        BY <2>11, <3>2 DEF Awaited
      <3>4. Waits(o, s) = R
        BY <2>10, <2>11 DEF Waits, RecordedWith
      <3>5. required[o] >= Cardinality(R)
        <4>1. required[o] >= Cardinality(Waits(o, s))
                               + Cardinality(Told(calls, o, s, Trigger(o, s)))
          BY <1>1, <2>1, <2>3, <2>5 DEF Counted
        <4>2. Cardinality(Told(calls, o, s, Trigger(o, s))) = 0
          BY <2>4, FS_EmptySet
        <4> HIDE DEF R
        <4> QED BY <2>2, <2>7, <3>4, <4>1, <4>2
      <3>6. required[o] = Cardinality(R) /\ Cardinality(R) # 0
        <4> HIDE DEF R
        <4> QED BY <2>2, <2>6, <2>7, <2>8, <3>5
      <3>7. R # {}
        BY <3>6, FS_EmptySet
      <3> QED BY <2>3, <2>5, <3>3, <3>6, <3>7
    <2>12. CASE "Started" \in c.trigger
      <3>1. R # {}
        <4>1. Cardinality(R) # 0
          BY <2>2, <2>6, <2>7, <2>8
        <4> QED BY <4>1, FS_EmptySet
      <3>2. PICK p \in R : TRUE
        BY <3>1
      <3>3. /\ p \in list /\ About(p, o, s) /\ state[p] # "Started"
            /\ \A r \in list : About(r, o, s) => r <= p
        <4>1. p \in list /\ About(p, o, s) /\ Entry(o, s) \in Entries(p)
          BY <2>9, <3>2 DEF RecordedWith
        <4>2. state[p] # "Started"
          BY <2>4, <2>6, <2>10, <2>12, <3>2
        <4>3. \A r \in list : About(r, o, s) => r <= p
          BY <1>1, <2>1, <2>3, <2>5, <2>10, <2>12, <4>1 DEF Complete
        <4> QED BY <4>1, <4>2, <4>3
      <3>4. SubObjects(o, c) = {p}
        <4>1. \A r \in list : r <= p /\ p <= r => r = p
          BY <2>1, <3>3
        <4>2. c.scope = "Latest" /\ p <= p
          BY <2>1, <2>10, <2>12, <3>3
        <4>3. \A r \in SubObjects(o, c) : r \in list /\ About(r, o, s) /\ p <= r
          BY <2>10, <3>3, <4>2 DEF SubObjects
        <4>4. p \in SubObjects(o, c)
          BY <2>10, <3>3 DEF SubObjects
        <4> QED BY <3>3, <4>1, <4>3, <4>4
      <3>5. Awaited(o, c) = {p}
        BY <3>3, <3>4 DEF Awaited
      <3>6. Cardinality(Awaited(o, c)) = 1
        BY <3>5, FS_Singleton
      <3>7. required[o] = 1
        BY <2>6, <2>10, <2>12
      <3> QED BY <2>3, <2>5, <3>5, <3>6, <3>7
    <2> QED BY <2>11, <2>12
  <1>2. Inv /\ WaitingInv => NoMissedNotification
    BY <1>1 DEF NoMissedNotification
  <1> QED BY <1>2, Invariance, WaitingInvariance, PTL

----------------------------------------------------------------------------
(* The order of access: Sequencer implements OrderedAccess.                *)

\* The starting slot of o is among calls q.
SlotAmong(q, o) == \E i \in 1..Len(q) : q[i] = Slot(o)

LEMMA SlotOfRest ==
  ASSUME NEW q \in Seq(Call), q # <<>>, NEW o
  PROVE  SlotAmong(q, o) <=> Head(q) = Slot(o) \/ SlotAmong(Tail(q), o)
  <1>1. /\ Head(q) = q[1] /\ Len(q) \in Nat \ {0} /\ Len(Tail(q)) = Len(q) - 1
        /\ \A i \in 1..Len(Tail(q)) : Tail(q)[i] = q[i + 1]
    BY HeadTailProperties, EmptySeq
  <1>2. ASSUME NEW i \in 1..Len(q), q[i] = Slot(o), i # 1
        PROVE  SlotAmong(Tail(q), o)
    <2>1. i - 1 \in 1..Len(Tail(q)) /\ (i - 1) + 1 = i
      BY <1>1, <1>2
    <2>2. Tail(q)[i - 1] = q[(i - 1) + 1]
      BY <1>1, <2>1
    <2> QED BY <1>2, <2>1, <2>2 DEF SlotAmong
  <1>3. ASSUME NEW i \in 1..Len(Tail(q)), Tail(q)[i] = Slot(o)
        PROVE  SlotAmong(q, o)
    <2>1. i + 1 \in 1..Len(q) /\ q[i + 1] = Slot(o)
      BY <1>1, <1>3
    <2> QED BY <2>1 DEF SlotAmong
  <1>4. 1 \in 1..Len(q)
    BY <1>1
  <1> QED BY <1>1, <1>2, <1>3, <1>4 DEF SlotAmong

\* Telling dependents adds no starting slot to what is left.
LEMMA SlotUntold ==
  ASSUME TypeOK, Recorded, NEW p \in Op, NEW event \in {"Started", "Succeeded", "Failed"},
         NEW rest \in Seq(Call), NEW o
  PROVE  SlotAmong(Notifications(p, event) \o rest, o) <=> SlotAmong(rest, o)
  <1> DEFINE a == Notifications(p, event)
  <1>1. a \in Seq(Call) /\ \A i \in 1..Len(a) : a[i].call = "notify"
    BY NotificationsKnown
  <1> HIDE DEF a
  <1>2. Slot(o).call = "slot"
    BY DEF Slot
  <1>3. ASSUME NEW i \in 1..Len(a \o rest), (a \o rest)[i] = Slot(o)
        PROVE  SlotAmong(rest, o)
    <2>1. ~(i \in 1..Len(a) /\ (a \o rest)[i] = a[i])
      BY <1>1, <1>2, <1>3
    <2>2. i - Len(a) \in 1..Len(rest) /\ (a \o rest)[i] = rest[i - Len(a)]
      BY <1>1, <2>1, CallsTogether
    <2> QED BY <1>3, <2>2 DEF SlotAmong
  <1>4. ASSUME SlotAmong(rest, o) PROVE SlotAmong(a \o rest, o)
    <2> DEFINE c == Slot(o)
    <2>1. \E i \in 1..Len(rest) : rest[i] = c
      BY <1>4 DEF SlotAmong
    <2> HIDE DEF c
    <2>2. \E i \in 1..Len(a \o rest) : (a \o rest)[i] = c
      BY SMTT(30), <1>1, <2>1, StillToCome
    <2> QED BY <2>2 DEF SlotAmong, c
  <1> QED BY <1>3, <1>4 DEF SlotAmong, a

\* A starting slot about to be called is the only one added.
LEMMA SlotAdded ==
  ASSUME NEW rest \in Seq(Call), NEW u \in Op, NEW o
  PROVE  SlotAmong(<<Slot(u)>> \o rest, o) <=> o = u \/ SlotAmong(rest, o)
  <1> DEFINE a == <<Slot(u)>>
  <1>1. a \in Seq(Call) /\ Len(a) = 1 /\ a[1] = Slot(u) /\ 1 \in 1..Len(a)
    BY DEF Slot, Call
  <1>2. Slot(o).op = o /\ Slot(u).op = u
    BY DEF Slot
  <1>3. \A i \in 1..Len(a \o rest) : \/ i = 1 /\ (a \o rest)[i] = Slot(u)
                                     \/ i - 1 \in 1..Len(rest) /\ (a \o rest)[i] = rest[i - 1]
    BY SlotFirst
  <1> HIDE DEF a
  <1>4. SlotAmong(a \o rest, o) => o = u \/ SlotAmong(rest, o)
    BY <1>2, <1>3 DEF SlotAmong
  <1>5. SlotAmong(rest, o) => SlotAmong(a \o rest, o)
    BY <1>1, StillToCome DEF SlotAmong
  <1>6. SlotAmong(a \o rest, u)
    <2>1. 1 \in 1..Len(a \o rest) /\ (a \o rest)[1] = a[1]
      <3>1. Len(rest) \in Nat /\ Len(a \o rest) = Len(a) + Len(rest)
        BY <1>1, ConcatProperties, LenProperties
      <3>2. 1 \in 1..(Len(a) + Len(rest)) /\ 1 <= Len(a)
        BY <1>1, <3>1
      <3>3. (a \o rest)[1] = a[1]
        BY <1>1, <3>2, ConcatProperties
      <3> QED BY <3>1, <3>2, <3>3
    <2> QED BY <1>1, <2>1 DEF SlotAmong
  <1> QED BY <1>4, <1>5, <1>6 DEF a

\* The end of an abort adds no starting slot.
LEMMA SlotAfterAbort ==
  ASSUME NEW rest \in Seq(Call), NEW u \in Op, NEW o
  PROVE  SlotAmong(<<AccessAbort(u)>> \o rest, o) <=> SlotAmong(rest, o)
  <1> DEFINE c == AccessAbort(u)
             a == <<c>>
  <1>1. c \in Call /\ c.call = "close" /\ Slot(o).call = "slot"
    BY DEF AccessAbort, Call, Slot
  <1> HIDE DEF c
  <1>2. a \in Seq(Call) /\ Len(a) = 1
    BY <1>1
  <1>3. \A i \in 1..Len(a \o rest) : \/ i = 1 /\ (a \o rest)[i] = c
                                     \/ i - 1 \in 1..Len(rest) /\ (a \o rest)[i] = rest[i - 1]
    BY <1>1, CallFirst
  <1> HIDE DEF a
  <1> DEFINE d == Slot(o)
  <1>4. d.call = "slot"
    BY <1>1
  <1> HIDE DEF d
  <1>5. (\E i \in 1..Len(a \o rest) : (a \o rest)[i] = d) => \E i \in 1..Len(rest) : rest[i] = d
    BY <1>1, <1>3, <1>4
  <1>6. ASSUME \E i \in 1..Len(rest) : rest[i] = d
        PROVE  \E i \in 1..Len(a \o rest) : (a \o rest)[i] = d
    <2>1. PICK i \in 1..Len(rest) : rest[i] = d
      BY <1>6
    <2>2. Len(rest) \in Nat
      BY LenProperties
    <2>3. /\ Len(a \o rest) = Len(a) + Len(rest)
          /\ \A j \in 1..(Len(a) + Len(rest)) :
               (a \o rest)[j] = IF j <= Len(a) THEN a[j] ELSE rest[j - Len(a)]
      BY <1>2, ConcatProperties
    <2>4. i + 1 \in 1..Len(a \o rest) /\ ~(i + 1 <= 1) /\ (i + 1) - 1 = i
      BY <1>2, <2>2, <2>3
    <2>5. (a \o rest)[i + 1] = rest[(i + 1) - 1]
      BY <1>2, <2>2, <2>3, <2>4
    <2>6. (a \o rest)[i + 1] = d
      BY <2>1, <2>4, <2>5
    <2> QED BY <2>4, <2>6
  <1> QED BY <1>5, <1>6 DEF SlotAmong, a, c, d

\* What the chains guarantee an operation that runs: the earlier ones it
\* conflicts with are over, and the others have begun.
OrderKept == \A o \in 1..added : Running(o) => Order!MayBegin(o, kind[o])

LEMMA RunningMayBegin ==
  ASSUME Inv
  PROVE  OrderKept
  <1> SUFFICES ASSUME NEW o \in 1..added, Running(o), NEW p \in Op, p < o
               PROVE  /\ Standing(p) \in {"running", "over"}
                      /\ Quality(kind[p]) # Quality(kind[o]) \/ kind[o] = "direct" =>
                           Standing(p) = "over"
    BY DEF OrderKept, Order!MayBegin, Order!Update, Quality
  <1>1. /\ o \in Op /\ o \in list /\ kind[o] \in Kind /\ Passed(o, 1) /\ Passed(o, 2)
        /\ added \in Nat /\ added <= MaxOps /\ p \in 1..added /\ p <= added
    <2>1. added \in Nat /\ added <= MaxOps
      BY ListedAreOps DEF Inv, Good
    <2> QED BY <2>1, RunningPassed DEF Op
  <1>2. CASE state[p] \in Finished
    BY <1>1, <1>2 DEF Standing
  <1>3. CASE state[p] \notin Finished
    <2>1. p \in list /\ kind[p] \in Kind
      BY <1>1, <1>3, EarlierListed
    <2>2. "Started" \notin Trigger(o, 2) /\ (kind[o] = "direct" => "Started" \notin Trigger(o, 1))
      BY <1>1, Chains DEF Trigger
    <2>3. ~About(p, o, 2)
      BY <1>1, <2>1, <2>2 DEF Passed
    <2>4. Quality(kind[p]) = Quality(kind[o])
      BY <1>1, <2>1, <2>3, Chains DEF About
    <2>5. About(p, o, 1)
      BY <1>1, <2>1, <2>4, Chains DEF About
    <2>6. state[p] = "Started" /\ "Started" \in Trigger(o, 1)
      BY <1>1, <2>1, <2>5 DEF Passed
    <2>7. Standing(p) = "running"
      BY <1>1, <1>3, <2>6 DEF Standing, Running
    <2> QED BY <2>2, <2>4, <2>6, <2>7
  <1> QED BY <1>2, <1>3

\* Where an operation stands, from its state and the calls q to come.
StandsAs(o, n, st, q) ==
  IF o > n THEN "absent" ELSE IF st \in Finished THEN "over"
  ELSE IF st = "Started" \/ SlotAmong(q, o) THEN "running" ELSE "waiting"

LEMMA Stands ==
  ASSUME added \in Nat, NEW o \in Op
  PROVE  Standing(o) = StandsAs(o, added, state[o], calls)
  <1>1. o > added \/ o <= added
    BY DEF Op
  <1>2. ~(o > added /\ o <= added)
    BY DEF Op
  <1> QED BY <1>1, <1>2 DEF Standing, StandsAs, Running, InSlot, SlotAmong

\* The ways one operation may move on, as OrderedAccess has it.
Moves(o) ==
  \/ Standing(o)' = Standing(o)
  \/ Standing(o) = "waiting" /\ Standing(o)' = "running"
  \/ Standing(o) = "running" /\ Standing(o)' = "over"
  \/ Standing(o) = "waiting" /\ Standing(o)' = "over" /\ kind[o] # "write"

LEMMA StandingSame ==
  ASSUME UNCHANGED <<added, kind>>, \A p \in Op : Standing(p)' = Standing(p)
  PROVE  UNCHANGED Order!vars
  <1>1. UNCHANGED [p \in Op |-> Standing(p)]
    OBVIOUS
  <1> QED BY <1>1 DEF Order!vars

LEMMA OneMoves ==
  ASSUME OrderKept', added \in Nat, UNCHANGED <<added, kind>>, NEW o \in Op, o <= added,
         \A p \in Op : p # o => Standing(p)' = Standing(p),
         Moves(o)
  PROVE  [Order!Next]_(Order!vars)
  <1> DEFINE status == [p \in Op |-> Standing(p)]
  <1>1. o \in 1..added
    BY DEF Op
  <1>2. status' = [status EXCEPT ![o] = Standing(o)']
    <2>1. \A p \in Op : Standing(p)' = IF p = o THEN Standing(o)' ELSE Standing(p)
      OBVIOUS
    <2> QED BY <2>1
  <1>3. CASE Standing(o)' = Standing(o)
    BY <1>3, StandingSame
  <1>4. CASE Standing(o) = "running" /\ Standing(o)' = "over"
    <2>1. Order!Finish(o)
      BY <1>2, <1>4 DEF Order!Finish
    <2> QED BY <2>1 DEF Order!Next
  <1>5. CASE Standing(o) = "waiting" /\ Standing(o)' = "over" /\ kind[o] # "write"
    <2>1. Order!GiveUp(o)
      BY <1>2, <1>5 DEF Order!GiveUp, Order!Update
    <2> QED BY <2>1 DEF Order!Next
  <1>6. CASE Standing(o) = "waiting" /\ Standing(o)' = "running"
    <2>1. Order!MayBegin(o, kind[o])
      <3>1. Running(o)' /\ kind' = kind
        BY <1>1, <1>6 DEF Standing
      <3>2. \A p \in Op : p < o =>
              /\ Standing(p)' \in {"running", "over"}
              /\ Order!Update(kind[p]) # Order!Update(kind[o]) \/ kind[o] = "direct" =>
                   Standing(p)' = "over"
        BY <1>1, <3>1 DEF OrderKept, Order!MayBegin, Order!Update
      <3>3. \A p \in Op : p < o => Standing(p)' = Standing(p)
        BY DEF Op
      <3> QED BY <3>2, <3>3 DEF Order!MayBegin
    <2>2. Order!Begin(o)
      BY <1>2, <1>6, <2>1 DEF Order!Begin
    <2> QED BY <2>2 DEF Order!Next
  <1> QED BY <1>3, <1>4, <1>5, <1>6 DEF Moves

LEMMA StandsNext ==
  ASSUME added' \in Nat, NEW o \in Op
  PROVE  Standing(o)' = StandsAs(o, added', state'[o], calls')
  <1>1. o > added' \/ o <= added'
    BY DEF Op
  <1>2. ~(o > added' /\ o <= added')
    BY DEF Op
  <1> QED BY <1>1, <1>2 DEF Standing, StandsAs, Running, InSlot, SlotAmong, Slot

\* Whoever keeps its state and its starting slot stands where it stood.
LEMMA OthersStand ==
  ASSUME added \in Nat, added' \in Nat, NEW p \in Op, p > added' <=> p > added,
         state'[p] = state[p], SlotAmong(calls', p) <=> SlotAmong(calls, p)
  PROVE  Standing(p)' = Standing(p)
  BY Stands, StandsNext DEF StandsAs

\* One arrives, and begins unless it has something to wait for.
LEMMA AddOrdered ==
  ASSUME Inv, OrderKept', NEW k \in Kinds, Add(k)
  PROVE  [Order!Next]_(Order!vars)
  <1> SUFFICES ASSUME NEW o, o = added + 1
               PROVE  [Order!Next]_(Order!vars)
    OBVIOUS
  <1> DEFINE status == [p \in Op |-> Standing(p)]
  <1>1. /\ TypeOK /\ Listed /\ CallsKnown(calls) /\ calls \in Seq(Call) /\ added \in Nat
        /\ k \in {"read", "direct", "write"} /\ list \subseteq 1..added
    BY SequencerAssumption, ListedAreOps DEF Inv, Good, TypeOK
  <1>2. /\ o \in Op /\ added' = o /\ kind' = [kind EXCEPT ![o] = k] /\ state' = state
        /\ calls' = <<Slot(o)>> \o calls \/ calls' = calls
    BY DEF Add, evaluateCurrentStep
  <1>3. added' \in Nat /\ o > added /\ ~(o > added') /\ o \in 1..added'
    BY <1>1, <1>2 DEF Op
  <1>4. state[o] = "NotStarted" /\ "NotStarted" \notin Finished /\ o \notin list
    BY <1>1, <1>2, <1>3 DEF Listed, Finished, Failed
  <1>5. \A p \in Op : p # o =>
          (p > added' <=> p > added) /\ (SlotAmong(calls', p) <=> SlotAmong(calls, p))
    <2>1. \A p \in Op : p # o => (p > added' <=> p > added)
      BY <1>1, <1>2 DEF Op
    <2>2. \A p \in Op : p # o => (SlotAmong(calls', p) <=> SlotAmong(calls, p))
      <3>1. CASE calls' = calls
        BY <3>1
      <3>2. CASE calls' = <<Slot(o)>> \o calls
        BY <1>1, <1>2, <3>2, SlotAdded
      <3> QED BY <1>2, <3>1, <3>2
    <2> QED BY <2>1, <2>2
  <1>6. \A p \in Op : p # o => Standing(p)' = Standing(p)
    BY <1>1, <1>2, <1>3, <1>5, OthersStand
  <1>7. Standing(o) = "absent"
    BY <1>1, <1>2, <1>3, Stands DEF StandsAs
  <1>8. Standing(o)' \in {"waiting", "running"}
    BY <1>1, <1>2, <1>3, <1>4, StandsNext DEF StandsAs
  <1>9. status' = [status EXCEPT ![o] = Standing(o)']
    <2>1. \A p \in Op : Standing(p)' = IF p = o THEN Standing(o)' ELSE Standing(p)
      BY <1>6
    <2> QED BY <2>1
  <1>10. Standing(o)' = "running" => Order!MayBegin(o, k)
    <2> SUFFICES ASSUME Standing(o)' = "running" PROVE Order!MayBegin(o, k)
      OBVIOUS
    <2>1. Running(o)' /\ kind'[o] = k /\ \A p \in Op : p < o => kind'[p] = kind[p]
      <3>1. Running(o)'
        BY <1>3 DEF Standing
      <3>2. \A p \in Op : p < o => p # o
        BY DEF Op
      <3> QED BY <1>1, <1>2, <3>1, <3>2 DEF TypeOK
    <2>2. \A p \in Op : p < o =>
            /\ Standing(p)' \in {"running", "over"}
            /\ Order!Update(kind[p]) # Order!Update(k) \/ k = "direct" => Standing(p)' = "over"
      BY <1>3, <2>1 DEF OrderKept, Order!MayBegin, Order!Update
    <2>3. \A p \in Op : p < o => Standing(p)' = Standing(p)
      BY <1>2, <1>6 DEF Op
    <2> QED BY <2>2, <2>3 DEF Order!MayBegin
  <1>11. Order!Arrive(k)
    <2>1. o = added + 1
      OBVIOUS
    <2>2. \/ status' = [status EXCEPT ![o] = "waiting"]
          \/ Order!MayBegin(o, k) /\ status' = [status EXCEPT ![o] = "running"]
      BY <1>8, <1>9, <1>10
    <2> QED BY <1>2, <2>1, <2>2 DEF Order!Arrive
  <1> QED BY <1>1, <1>11 DEF Order!Next

\* An operation that leaves the list is over.
LEMMA LeavesOrdered ==
  ASSUME Inv, OrderKept', NEW rest \in Seq(Call), NEW o \in list, NEW final \in Finished,
         End(o, final, rest), UNCHANGED <<added, kind>>,
         \A p \in Op : p # o => (SlotAmong(rest, p) <=> SlotAmong(calls, p)),
         Standing(o) = "running" \/ (Standing(o) = "waiting" /\ kind[o] # "write")
  PROVE  [Order!Next]_(Order!vars)
  <1> DEFINE event == IF final = "Succeeded" THEN "Succeeded" ELSE "Failed"
  <1>1. /\ TypeOK /\ Recorded /\ added \in Nat /\ o \in Op /\ o <= added
    BY ListedAreOps DEF Inv, Good, Listed
  <1>2. event \in {"Started", "Succeeded", "Failed"}
    OBVIOUS
  <1>3. calls' = Notifications(o, event) \o rest
    BY DEF End, signalDependents, Notifications
  <1> HIDE DEF event
  <1>4. \A p \in Op : SlotAmong(calls', p) <=> SlotAmong(rest, p)
    BY <1>1, <1>2, <1>3, SlotUntold
  <1>5. state'[o] = final /\ \A p \in Op : p # o => state'[p] = state[p]
    BY <1>1 DEF End, TypeOK
  <1>6. \A p \in Op : p # o => Standing(p)' = Standing(p)
    BY <1>1, <1>4, <1>5, OthersStand
  <1>7. Standing(o)' = "over"
    BY <1>1, <1>5, StandsNext DEF StandsAs, Op
  <1>8. Moves(o)
    BY <1>7 DEF Moves
  <1> QED BY <1>1, <1>6, <1>8, OneMoves

LEMMA AnswerOrdered ==
  ASSUME Inv, OrderKept', NEW o \in Op, Answer(o)
  PROVE  [Order!Next]_(Order!vars)
  <1>1. /\ TypeOK /\ Listed /\ added \in Nat /\ calls \in Seq(Call)
        /\ UNCHANGED <<added, kind>>
    BY ListedAreOps DEF Inv, Good, Answer
  <1>2. CASE state[o] = "Started"
    <2>1. "Started" \notin Finished /\ o <= added /\ o \in list
      BY <1>1, <1>2 DEF Finished, Failed, Listed, Op
    <2>2. PICK final \in {"Succeeded", "FailedSignal"} : End(o, final, calls)
      BY <1>2 DEF Answer
    <2>3. final \in Finished
      BY DEF Finished, Failed
    <2>4. Standing(o) = "running"
      BY <1>1, <1>2, <2>1, Stands DEF StandsAs, Op
    <2> QED BY <1>1, <2>1, <2>2, <2>3, <2>4, LeavesOrdered
  <1>3. CASE state[o] # "Started"
    <2>1. UNCHANGED <<added, kind, state, calls>>
      BY <1>1, <1>3 DEF Answer
    <2>2. \A p \in Op : Standing(p)' = Standing(p)
      BY <2>1, <1>1, OthersStand
    <2> QED BY <2>1, <2>2, StandingSame
  <1> QED BY <1>2, <1>3

LEMMA AbortOrdered ==
  ASSUME Inv, OrderKept', NEW o \in Op, Abort(o)
  PROVE  [Order!Next]_(Order!vars)
  <1>1. /\ TypeOK /\ Listed /\ added \in Nat /\ calls \in Seq(Call)
        /\ UNCHANGED <<added, kind>>
    BY ListedAreOps DEF Inv, Good, Abort
  <1>2. /\ o <= added /\ kind[o] # "write" /\ state[o] \notin Finished
        /\ End(o, "FailedAborted", AfterAbort(o)) /\ "FailedAborted" \in Finished
    BY DEF Abort, Finished, Failed
  <1>3. o \in list
    BY <1>1, <1>2 DEF Listed
  <1>4. Standing(o) \in {"running", "waiting"}
    BY <1>1, <1>2, Stands DEF StandsAs, Op
  <1>5. \A p \in Op : SlotAmong(AfterAbort(o), p) <=> SlotAmong(calls, p)
    <2>1. AfterAbort(o) = calls \/ AfterAbort(o) = <<AccessAbort(o)>> \o calls
      BY DEF AfterAbort
    <2>2. \A p \in Op : SlotAmong(<<AccessAbort(o)>> \o calls, p) <=> SlotAmong(calls, p)
      BY <1>1, SlotAfterAbort
    <2> QED BY <2>1, <2>2
  <1>6. SUFFICES ASSUME NEW rest, rest = AfterAbort(o) PROVE [Order!Next]_(Order!vars)
    OBVIOUS
  <1>7. rest \in Seq(Call)
    BY <1>1, <1>6, AccessAbortFirst DEF AfterAbort, Inv, Good
  <1>8. /\ End(o, "FailedAborted", rest)
        /\ \A p \in Op : p # o => (SlotAmong(rest, p) <=> SlotAmong(calls, p))
    BY <1>2, <1>5, <1>6
  <1> QED BY <1>1, <1>2, <1>3, <1>4, <1>7, <1>8, LeavesOrdered

\* The slot of an operation that runs returns: it runs on.
LEMMA SlotReturnsOrdered ==
  ASSUME Inv, SlotReturns
  PROVE  [Order!Next]_(Order!vars)
  <1> SUFFICES ASSUME NEW o, o = Head(calls).op, NEW rest, rest = Tail(calls)
               PROVE  [Order!Next]_(Order!vars)
    OBVIOUS
  <1>1. /\ TypeOK /\ Recorded /\ Listed /\ CallsKnown(calls) /\ added \in Nat
        /\ calls \in Seq(Call) /\ rest \in Seq(Call) /\ list \subseteq Op
        /\ UNCHANGED <<added, kind>>
    BY ListedAreOps, RestIsGood DEF Inv, Good, SlotReturns
  <1>2. /\ calls # <<>> /\ Head(calls).call = "slot"
        /\ calls[1] = Head(calls) /\ 1 \in 1..Len(calls)
    BY <1>1, HeadTailProperties, EmptySeq DEF SlotReturns
  <1>3. Head(calls) = Slot(o) /\ o \in list /\ state[o] = "NotStarted"
    BY <1>1, <1>2 DEF CallsKnown
  <1>4. state' = [state EXCEPT ![o] = "Started"] /\ calls' = Notifications(o, "Started") \o rest
    BY DEF SlotReturns, signalDependents, Notifications
  <1>5. o \in Op /\ o <= added /\ {"Started", "NotStarted"} \cap Finished = {}
    BY <1>1, <1>3 DEF Listed, Finished, Failed
  <1>6. \A p \in Op : SlotAmong(calls', p) <=> SlotAmong(rest, p)
    BY <1>1, <1>4, <1>5, SlotUntold
  <1>7. \A p \in Op : SlotAmong(calls, p) <=> p = o \/ SlotAmong(rest, p)
    <2>1. \A p \in Op : Slot(o) = Slot(p) <=> p = o
      BY DEF Slot
    <2> QED BY <1>1, <1>2, <1>3, <2>1, SlotOfRest
  <1>8. \A p \in Op : p # o => Standing(p)' = Standing(p)
    <2>1. \A p \in Op : p # o => state'[p] = state[p]
      BY <1>1, <1>4 DEF TypeOK
    <2> QED BY <1>1, <1>6, <1>7, <2>1, OthersStand
  <1>9. Standing(o) = "running"
    BY <1>1, <1>3, <1>5, <1>7, Stands DEF StandsAs, Op
  <1>10. Standing(o)' = "running"
    <2>1. state'[o] = "Started"
      BY <1>1, <1>4, <1>5 DEF TypeOK
    <2> QED BY <1>1, <1>5, <2>1, StandsNext DEF StandsAs, Op
  <1> QED BY <1>1, <1>8, <1>9, <1>10, StandingSame

LEMMA NotifyOrdered ==
  ASSUME Inv, NeverDropped', OrderKept', Notify
  PROVE  [Order!Next]_(Order!vars)
  <1> SUFFICES ASSUME NEW o, o = Head(calls).op, NEW s, s = Head(calls).step,
                      NEW rest, rest = Tail(calls)
               PROVE  [Order!Next]_(Order!vars)
    OBVIOUS
  <1>1. /\ TypeOK /\ Listed /\ CallsKnown(calls) /\ added \in Nat
        /\ calls \in Seq(Call) /\ rest \in Seq(Call) /\ list \subseteq Op
        /\ UNCHANGED <<added, kind>>
    BY ListedAreOps, RestIsGood DEF Inv, Good, Notify
  <1>2. /\ calls # <<>> /\ Head(calls).call = "notify" /\ o \in Op /\ s \in 1..2
    <2>1. /\ calls # <<>> /\ Head(calls).call = "notify" /\ Head(calls) \in Call
      BY RestIsGood DEF Inv, Notify
    <2>2. Head(calls) = calls[1] /\ 1 \in 1..Len(calls)
      BY <1>1, <2>1, HeadTailProperties, EmptySeq
    <2> QED BY <1>1, <2>1, <2>2 DEF CallsKnown, Call
  <1>3. \A p \in Op : SlotAmong(calls, p) <=> SlotAmong(rest, p)
    <2>1. \A p \in Op : Slot(p).call = "slot"
      BY DEF Slot
    <2> QED BY <1>1, <1>2, <2>1, SlotOfRest
  <1>4. \/ UNCHANGED state /\ calls' = rest
        \/ /\ current_step[o] = s /\ UNCHANGED state
           /\ calls' = rest \/ calls' = <<Slot(o)>> \o rest
        \/ current_step[o] = s /\ End(o, "FailedDependencies", rest)
    BY DEF Notify, evaluateCurrentStep
  <1>5. ASSUME current_step[o] = s
        PROVE  /\ o \in list /\ o <= added /\ state[o] = "NotStarted"
               /\ Standing(o) = "waiting"
    <2>1. o \in list /\ o <= added /\ state[o] \notin Finished /\ state[o] # "Started"
      BY <1>1, <1>2, <1>5 DEF Listed
    <2>2. state[o] = "NotStarted"
      BY <1>1, <1>2, <2>1 DEF TypeOK, State
    <2>3. ~SlotAmong(calls, o)
      <3>1. ASSUME NEW i \in 1..Len(calls), calls[i] = Slot(o) PROVE FALSE
        <4>1. calls[i].call = "slot" /\ calls[i].op = o
          BY <3>1 DEF Slot
        <4>2. current_step[o] = 3
          BY <1>1, <4>1 DEF CallsKnown
        <4> QED BY <1>2, <1>5, <4>2
      <3> QED BY <3>1 DEF SlotAmong
    <2> QED BY <1>1, <1>2, <2>1, <2>2, <2>3, Stands DEF StandsAs, Op
  <1>6. CASE UNCHANGED state /\ calls' = rest
    <2>1. \A p \in Op : Standing(p)' = Standing(p)
      BY <1>1, <1>3, <1>6, OthersStand
    <2> QED BY <1>1, <2>1, StandingSame
  <1>7. CASE /\ current_step[o] = s /\ UNCHANGED state
             /\ calls' = rest \/ calls' = <<Slot(o)>> \o rest
    <2>1. \A p \in Op : p # o => (SlotAmong(calls', p) <=> SlotAmong(calls, p))
      <3>1. CASE calls' = rest
        BY <1>3, <3>1
      <3>2. CASE calls' = <<Slot(o)>> \o rest
        BY <1>1, <1>2, <1>3, <3>2, SlotAdded
      <3> QED BY <1>7, <3>1, <3>2
    <2>2. \A p \in Op : p # o => Standing(p)' = Standing(p)
      BY <1>1, <1>7, <2>1, OthersStand
    <2>3. Standing(o)' \in {"waiting", "running"}
      <3>1. state'[o] = "NotStarted" /\ "NotStarted" \notin Finished /\ ~(o > added')
        BY <1>1, <1>2, <1>5, <1>7 DEF Finished, Failed, Op
      <3> QED BY <1>1, <1>2, <3>1, StandsNext DEF StandsAs
    <2>4. Moves(o)
      BY <1>5, <1>7, <2>3 DEF Moves
    <2> QED BY <1>1, <1>2, <1>5, <1>7, <2>2, <2>4, OneMoves
  <1>8. CASE current_step[o] = s /\ End(o, "FailedDependencies", rest)
    <2>1. state'[o] = "FailedDependencies" /\ "FailedDependencies" \in Finished
      BY <1>1, <1>2, <1>8 DEF End, TypeOK, Finished, Failed
    <2>2. kind[o] # "write"
      BY <1>1, <1>2, <2>1 DEF NeverDropped
    <2> QED BY <1>1, <1>3, <1>5, <1>8, <2>1, <2>2, LeavesOrdered
  <1> QED BY <1>4, <1>6, <1>7, <1>8

\* The end of an abort moves nobody.
LEMMA AccessAbortedOrdered ==
  ASSUME Inv, AccessAborted
  PROVE  [Order!Next]_(Order!vars)
  <1>1. /\ added \in Nat /\ calls \in Seq(Call) /\ calls # <<>>
        /\ Head(calls).call = "close" /\ calls' = Tail(calls)
        /\ UNCHANGED <<added, kind, state>>
    BY ListedAreOps DEF Inv, Good, AccessAborted
  <1>2. \A p \in Op : SlotAmong(calls', p) <=> SlotAmong(calls, p)
    <2>1. \A p \in Op : Slot(p).call = "slot"
      BY DEF Slot
    <2> QED BY <1>1, <2>1, SlotOfRest
  <1>3. \A p \in Op : Standing(p)' = Standing(p)
    BY <1>1, <1>2, OthersStand
  <1> QED BY <1>1, <1>3, StandingSame

LEMMA InitOrdered ==
  ASSUME Init
  PROVE  Order!Init
  <1>1. added \in Nat /\ \A p \in Op : p > added
    BY DEF Init, Op
  <1>2. \A p \in Op : Standing(p) = "absent"
    BY <1>1, Stands DEF StandsAs
  <1> QED BY <1>2 DEF Init, Order!Init

\* The list, the chains, the counters and the nested notifications add up to
\* the order that the back-end relies on: whatever an operation hears, it
\* begins only when OrderedAccess lets it, and no update is given up.
THEOREM OrderImplemented == ASSUME LetGo PROVE Spec => ImplementsOrder
  <1>1. Init => Order!Init
    BY InitOrdered
  <1>2. Inv => OrderKept
    BY RunningMayBegin
  <1>3. WaitingInv => NeverDropped
    BY DEF WaitingInv, Writes
  <1>4. Inv /\ NeverDropped' /\ OrderKept' /\ [Next]_vars => [Order!Next]_(Order!vars)
    <2> SUFFICES ASSUME Inv, NeverDropped', OrderKept', [Next]_vars
                 PROVE  [Order!Next]_(Order!vars)
      OBVIOUS
    <2>1. CASE UNCHANGED vars
      <3>1. UNCHANGED <<added, kind, state, calls>> /\ added \in Nat
        BY <2>1, ListedAreOps DEF vars, Inv, Good
      <3>2. \A p \in Op : Standing(p)' = Standing(p)
        BY <3>1, OthersStand
      <3> QED BY <3>1, <3>2, StandingSame
    <2> QED BY <2>1, AddOrdered, AnswerOrdered, AbortOrdered, NotifyOrdered,
               SlotReturnsOrdered, AccessAbortedOrdered DEF Next
  <1> QED BY <1>1, <1>2, <1>3, <1>4, Invariance, WaitingInvariance, PTL
          DEF Spec, ImplementsOrder, Order!Spec

----------------------------------------------------------------------------
(* Nobody waits for nobody.                                                *)

\* Between calls, unless the list is empty, one of it runs.
SomeoneRuns == calls = <<>> /\ list # {} => \E o \in list : state[o] = "Started"

\* Operations that wait never wait for one another in a circle, nor for one
\* that is gone: the earliest of the list always runs, and tracker is to answer.
THEOREM NeverStuck == ASSUME LetGo PROVE Spec => []SomeoneRuns
  <1>1. ASSUME Inv, NoMissedNotification, calls = <<>>, list # {}
        PROVE  \E o \in list : state[o] = "Started"
    <2>1. /\ TypeOK /\ Listed /\ list \subseteq Op /\ list \subseteq 1..added
          /\ list \subseteq Nat /\ added \in Nat
      <3>1. TypeOK /\ Listed
        BY <1>1 DEF Inv, Good
      <3>2. list \subseteq Op /\ list \subseteq 1..added /\ added \in Nat
        BY <3>1, ListedAreOps DEF TypeOK
      <3> QED BY <3>1, <3>2
    <2> DEFINE R == OpToRel(<, Nat)
    <2>2. \A x, y \in Nat : x < y => <<x, y>> \in R
      BY DEF OpToRel
    <2>3. IsWellFoundedOn(R, Nat)
      BY NatLessThanWellFounded
    <2> HIDE DEF R
    <2>4. PICK m \in list : \A p \in list : ~(<<p, m>> \in R)
      BY <1>1, <2>1, <2>3, WFMin
    <2>5. \A p \in list : ~(p < m)
      BY <2>1, <2>2, <2>4
    <2>6. state[m] \in {"NotStarted", "Started"}
      BY <2>1 DEF Listed, TypeOK, State
    <2>7. state[m] # "NotStarted"
      <3>1. ASSUME state[m] = "NotStarted" PROVE FALSE
        <4>1. PICK p : p \in Awaited(m, Dependencies(kind[m])[current_step[m]])
          BY <1>1, <2>1, <3>1 DEF NoMissedNotification
        <4>2. p \in list /\ p < m
          BY <4>1 DEF Awaited, SubObjects
        <4> QED BY <2>5, <4>2
      <3> QED BY <3>1
    <2> QED BY <2>6, <2>7
  <1>2. Inv /\ NoMissedNotification => SomeoneRuns
    BY <1>1 DEF SomeoneRuns
  <1> QED BY <1>2, Invariance, NotificationsArrive, PTL

=============================================================================
