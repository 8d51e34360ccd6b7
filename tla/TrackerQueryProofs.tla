------------------------- MODULE TrackerQueryProofs -------------------------
(***************************************************************************)
(* Proofs about TrackerQuery, for every number of flushes and calls and    *)
(* however calls are nested.  What is shown holds while no slot intruded.  *)
(***************************************************************************)
EXTENDS TrackerQuery, SequenceTheorems, TLAPS

----------------------------------------------------------------------------
(* The inductive invariant.                                                *)

Point == {"flush", "add", "block", "sequence wait", "waited", "wait", "query wait",
          "take", "taken", "result"}
Call == [at : Point, block : BOOLEAN, ret : BOOLEAN, op : 0..MaxOps, slot : BOOLEAN]

\* The calls in progress, those around the innermost, and those around these.
InProgress == {stack[i] : i \in 1..Len(stack)}
Outer == {stack[i] : i \in 2..Len(stack)}
Deep == {stack[i] : i \in 3..Len(stack)}

\* Points at which nothing may change the model, and points after which a call
\* takes the result that is there.
Critical == {"flush", "add", "taken", "result"}
Taking == {"add", "block", "sequence wait", "waited", "wait", "query wait", "take"}

Quiet == watcher = 0 /\ ~running /\ \A o \in Op : state[o] # "queued"
Completing == \E f \in InProgress : f.at \in {"taken", "result"}

Typed ==
  /\ Ranges
  /\ stack \in Seq(Call) /\ intruded \in BOOLEAN
  /\ \A f \in InProgress : f.op <= added
  /\ \A o \in Op : state[o] # "none" => o <= added

\* Only the operation of the latest flush is queued, watched or started.
QueuedIsLatest ==
  \A o \in Op : state[o] = "queued" =>
    /\ o = added /\ sequenced = o /\ watcher = 0 /\ o \notin replied
    /\ \A f \in InProgress : f.at = "query wait" => f.op # o
WatchedIsLatest == watcher # 0 => watcher = added
StartedIsWatched ==
  \A o \in Op : state[o] = "started" =>
    (watcher = o /\ sequenced = o) \/ Completing

\* A ready model has nothing under way.
ReadyIsLatest == ready => shown = added /\ Quiet

\* A running model has an operation or a query, or is about to.
RunningGoesOn ==
  running =>
    \/ watcher # 0
    \/ sequenced # 0 /\ state[sequenced] \in {"queued", "dropped"}
    \/ \E f \in InProgress : f.at = "add"

\* An answer is taken in by some call in progress.
AnswersTaken ==
  /\ replied \subseteq 1..added
  /\ pending_watcher => \E f \in InProgress : f.at = "query wait"
  /\ watcher \in replied => \E f \in InProgress : f.at \in Taking

\* What a call at a critical point has made of the model.
Settled ==
  /\ \A f \in Deep : f.at \notin Critical
  /\ \A f \in InProgress :
       /\ f.at \in Critical => ~ready
       /\ f.at = "flush" /\ (f.slot \/ f \in Outer) => Quiet
       /\ f.at = "add" => watcher = 0 /\ sequenced = 0
       /\ f.at \in {"taken", "result"} => Quiet /\ f.op = added
       /\ f.at = "result" => f.op \in erroneous \/ shown = added

\* What slots call at critical points does nothing, and returns at once.
Undisturbed ==
  /\ \A f \in Outer : ~f.ret
  /\ \A f \in InProgress : f.ret => f.at = "take" /\ ready /\ ~f.slot
  /\ \A f \in Outer : f.at \in Critical =>
       /\ ~Head(stack).slot
       /\ \/ Head(stack).at = "take"
          \/ f.at = "add" /\ Head(stack).at \in {"block", "wait"}

Good ==
  /\ QueuedIsLatest /\ WatchedIsLatest /\ StartedIsWatched /\ ReadyIsLatest
  /\ RunningGoesOn /\ AnswersTaken /\ Settled /\ Undisturbed

Inv == Typed /\ (~intruded => Good)

----------------------------------------------------------------------------
(* The calls in progress as sets.                                          *)

LEMMA NoCalls ==
  /\ <<>> \in Seq(Call) /\ Len(<<>>) = 0
  /\ {<<>>[i] : i \in 1..Len(<<>>)} = {}
  /\ {<<>>[i] : i \in 2..Len(<<>>)} = {}
  /\ {<<>>[i] : i \in 3..Len(<<>>)} = {}
  <1>1. <<>> \in Seq(Call) /\ Len(<<>>) = 0
    BY EmptySeq
  <1>2. 1..0 = {} /\ 2..0 = {} /\ 3..0 = {}
    OBVIOUS
  <1> QED BY <1>1, <1>2

\* The innermost call and the others.
LEMMA Innermost ==
  ASSUME stack \in Seq(Call)
  PROVE  /\ stack = <<>> => InProgress = {} /\ Outer = {} /\ Deep = {}
         /\ stack # <<>> => /\ Head(stack) \in Call
                            /\ InProgress = {Head(stack)} \cup Outer
         /\ Outer \subseteq InProgress /\ Deep \subseteq Outer
         /\ \A f \in InProgress : f \in Call
  <1>1. Len(stack) \in Nat /\ \A i \in 1..Len(stack) : stack[i] \in Call
    BY LenProperties, ElementOfSeq
  <1>2. CASE stack = <<>>
    BY <1>2, NoCalls DEF InProgress, Outer, Deep
  <1>3. CASE stack # <<>>
    <2>1. Len(stack) \in Nat \ {0} /\ Head(stack) = stack[1] /\ Head(stack) \in Call
      BY <1>3, HeadTailProperties, EmptySeq
    <2>2. 1..Len(stack) = {1} \cup 2..Len(stack) /\ 3..Len(stack) \subseteq 2..Len(stack)
      BY <2>1
    <2> QED BY <1>1, <1>3, <2>1, <2>2 DEF InProgress, Outer, Deep
  <1> QED BY <1>2, <1>3

\* The innermost call goes on.
LEMMA GoneOn ==
  ASSUME stack \in Seq(Call), stack # <<>>, NEW f \in Call,
         stack' = <<f>> \o Tail(stack)
  PROVE  /\ stack' \in Seq(Call) /\ stack' # <<>> /\ Head(stack') = f
         /\ InProgress' = {f} \cup Outer /\ Outer' = Outer /\ Deep' = Deep
  <1>1. /\ Len(stack) \in Nat \ {0} /\ Tail(stack) \in Seq(Call)
        /\ Len(Tail(stack)) = Len(stack) - 1
        /\ \A i \in 1..Len(Tail(stack)) : Tail(stack)[i] = stack[i + 1]
    BY HeadTailProperties, EmptySeq
  <1>2. /\ <<f>> \in Seq(Call) /\ Len(<<f>>) = 1 /\ <<f>>[1] = f
    OBVIOUS
  <1>3. /\ stack' \in Seq(Call) /\ Len(stack') = Len(stack) /\ stack'[1] = f
        /\ \A i \in 2..Len(stack) : stack'[i] = Tail(stack)[i - 1]
    BY <1>1, <1>2, ConcatProperties
  <1>4. \A i \in 2..Len(stack) : stack'[i] = stack[i]
    BY <1>1, <1>3
  <1>5. stack' # <<>> /\ Head(stack') = f
    BY <1>1, <1>3, EmptySeq
  <1>6. 1..Len(stack) = {1} \cup 2..Len(stack) /\ 3..Len(stack) \subseteq 2..Len(stack)
    BY <1>1
  <1>7. Outer' = Outer /\ Deep' = Deep
    BY <1>3, <1>4, <1>6 DEF Outer, Deep
  <1>8. InProgress' = {f} \cup Outer
    BY <1>3, <1>4, <1>6 DEF InProgress, Outer
  <1> QED BY <1>3, <1>5, <1>7, <1>8

\* A call comes.
LEMMA Called ==
  ASSUME stack \in Seq(Call), NEW f \in Call, stack' = <<f>> \o stack
  PROVE  /\ stack' \in Seq(Call) /\ stack' # <<>> /\ Head(stack') = f
         /\ InProgress' = {f} \cup InProgress /\ Outer' = InProgress /\ Deep' = Outer
  <1>1. Len(stack) \in Nat
    BY LenProperties
  <1>2. /\ <<f>> \in Seq(Call) /\ Len(<<f>>) = 1 /\ <<f>>[1] = f
    OBVIOUS
  <1>3. /\ stack' \in Seq(Call) /\ Len(stack') = Len(stack) + 1 /\ stack'[1] = f
        /\ \A i \in 2..Len(stack') : stack'[i] = stack[i - 1]
    BY <1>1, <1>2, ConcatProperties
  <1>4. stack' # <<>> /\ Head(stack') = f
    BY <1>1, <1>3, EmptySeq
  <1>5. Outer' = InProgress
    <2>1. ASSUME NEW i \in 2..Len(stack') PROVE stack'[i] \in InProgress
      <3>1. i - 1 \in 1..Len(stack) /\ stack'[i] = stack[i - 1]
        BY <1>1, <1>3
      <3> QED BY <3>1 DEF InProgress
    <2>2. ASSUME NEW i \in 1..Len(stack) PROVE stack[i] \in Outer'
      <3>1. i + 1 \in 2..Len(stack') /\ stack'[i + 1] = stack[i]
        BY <1>1, <1>3
      <3> QED BY <3>1 DEF Outer
    <2> QED BY <2>1, <2>2 DEF Outer, InProgress
  <1>6. Deep' = Outer
    <2>1. ASSUME NEW i \in 3..Len(stack') PROVE stack'[i] \in Outer
      <3>1. i - 1 \in 2..Len(stack) /\ stack'[i] = stack[i - 1]
        BY <1>1, <1>3
      <3> QED BY <3>1 DEF Outer
    <2>2. ASSUME NEW i \in 2..Len(stack) PROVE stack[i] \in Deep'
      <3>1. i + 1 \in 3..Len(stack') /\ stack'[i + 1] = stack[i]
        BY <1>1, <1>3
      <3> QED BY <3>1 DEF Deep
    <2> QED BY <2>1, <2>2 DEF Outer, Deep
  <1>7. InProgress' = {f} \cup InProgress
    <2>1. 1..Len(stack') = {1} \cup 2..Len(stack')
      BY <1>1, <1>3
    <2>2. InProgress' = {f} \cup Outer'
      BY <1>3, <2>1 DEF InProgress, Outer
    <2> QED BY <2>2, <1>5
  <1> QED BY <1>3, <1>4, <1>5, <1>6, <1>7

\* The innermost call returns.
LEMMA Returned ==
  ASSUME stack \in Seq(Call), stack # <<>>, stack' = Tail(stack)
  PROVE  /\ stack' \in Seq(Call)
         /\ InProgress' = Outer /\ Outer' = Deep /\ Deep' \subseteq Deep
  <1>1. /\ Len(stack) \in Nat \ {0} /\ stack' \in Seq(Call)
        /\ Len(stack') = Len(stack) - 1
        /\ \A i \in 1..Len(stack') : stack'[i] = stack[i + 1]
    BY HeadTailProperties, EmptySeq
  <1>2. \A i \in 2..Len(stack) : stack[i] = stack'[i - 1] /\ i - 1 \in 1..Len(stack')
    BY <1>1
  <1>3. InProgress' = Outer
    <2>1. ASSUME NEW i \in 1..Len(stack') PROVE stack'[i] \in Outer
      <3>1. i + 1 \in 2..Len(stack) /\ stack'[i] = stack[i + 1]
        BY <1>1
      <3> QED BY <3>1 DEF Outer
    <2> QED BY <2>1, <1>2 DEF InProgress, Outer
  <1>4. Outer' = Deep
    <2>1. ASSUME NEW i \in 2..Len(stack') PROVE stack'[i] \in Deep
      <3>1. i + 1 \in 3..Len(stack) /\ stack'[i] = stack[i + 1]
        BY <1>1
      <3> QED BY <3>1 DEF Deep
    <2>2. ASSUME NEW i \in 3..Len(stack) PROVE stack[i] \in Outer'
      <3>1. i - 1 \in 2..Len(stack') /\ stack[i] = stack'[i - 1]
        BY <1>1
      <3> QED BY <3>1 DEF Outer
    <2> QED BY <2>1, <2>2 DEF Outer, Deep
  <1>5. Deep' \subseteq Deep
    <2>1. ASSUME NEW i \in 3..Len(stack') PROVE stack'[i] \in Deep
      <3>1. i + 1 \in 3..Len(stack) /\ stack'[i] = stack[i + 1]
        BY <1>1
      <3> QED BY <3>1 DEF Deep
    <2> QED BY <2>1 DEF Deep
  <1> QED BY <1>1, <1>3, <1>4, <1>5

\* Fields of a call.
LEMMA CallMade ==
  ASSUME NEW point \in Point, NEW blocks \in BOOLEAN, NEW ret \in BOOLEAN,
         NEW op \in 0..MaxOps, NEW slot \in BOOLEAN
  PROVE  /\ Frame(point, blocks, ret, op, slot) \in Call
         /\ Frame(point, blocks, ret, op, slot).at = point
         /\ Frame(point, blocks, ret, op, slot).block = blocks
         /\ Frame(point, blocks, ret, op, slot).ret = ret
         /\ Frame(point, blocks, ret, op, slot).op = op
         /\ Frame(point, blocks, ret, op, slot).slot = slot
  BY DEF Frame, Call

LEMMA SlotsOfSignal ==
  ASSUME NEW point, NEW emitted
  PROVE  SlotsRun(point, emitted) \in BOOLEAN /\ (SlotsRun(point, emitted) => emitted)
  BY DEF SlotsRun

LEMMA Bounds ==
  ASSUME Typed
  PROVE  /\ MaxOps \in Nat /\ added \in 0..MaxOps /\ 0 \notin Op
         /\ 0 <= added /\ 0 \in 0..MaxOps /\ 0 \in 0..added
         /\ \A n \in 0..added : n \in 0..MaxOps /\ n <= added /\ (n # 0 => n \in Op)
         /\ \A o \in Op : o \in 0..MaxOps
  BY QueryAssumption DEF Typed, Ranges, Op

LEMMA AtPoint ==
  ASSUME Typed, NEW point, At(point)
  PROVE  /\ stack # <<>> /\ stack \in Seq(Call)
         /\ Head(stack) \in Call /\ Head(stack) \in InProgress
         /\ Head(stack).at = point /\ Head(stack).op \in 0..added
         /\ Head(stack).ret \in BOOLEAN /\ Head(stack).block \in BOOLEAN
         /\ InProgress = {Head(stack)} \cup Outer /\ Deep \subseteq Outer
         /\ Outer \subseteq InProgress
  <1>1. stack # <<>> /\ stack \in Seq(Call) /\ Head(stack).at = point
    BY DEF At, Typed
  <1>2. /\ Head(stack) \in Call /\ Head(stack) \in InProgress
        /\ InProgress = {Head(stack)} \cup Outer /\ Deep \subseteq Outer
        /\ Outer \subseteq InProgress
    BY <1>1, Innermost
  <1>3. Head(stack).op \in 0..MaxOps /\ Head(stack).op <= added /\ added \in 0..MaxOps
    BY <1>2, Bounds DEF Typed, Call
  <1>4. Head(stack).op \in 0..added
    BY <1>3, QueryAssumption
  <1> QED BY <1>1, <1>2, <1>4 DEF Call

----------------------------------------------------------------------------
(* A blocking call before it takes the result.                             *)

\* The call goes on and nothing else changes but who waits.
LEMMA WaitsOn ==
  ASSUME Inv, NEW point \in Taking \ {"add", "take"}, At(point),
         NEW f \in Call, stack' = <<f>> \o Tail(stack),
         f.at \in Taking \ {"add", "block"}, f.op <= added, f.ret = Head(stack).ret,
         pending_sequenced' \in BOOLEAN, pending_watcher' \in BOOLEAN,
         UNCHANGED <<state, sequenced, watcher, replied, erroneous, running, ready, shown,
                     added, intruded>>,
         ~intruded =>
           /\ f.at = "query wait" => f.op \in Op /\ state[f.op] # "queued"
           /\ pending_watcher' =>
                (pending_watcher /\ point # "query wait") \/ f.at = "query wait"
           /\ (\E g \in Outer : g.at \in Critical) => ~f.slot /\ f.at \in {"wait", "take"}
           /\ (\E g \in Outer : g.at \in Critical) /\ f.at = "wait" => point = "block"
  PROVE  Inv'
  <1>1. Typed
    BY DEF Inv
  <1>2. /\ stack # <<>> /\ stack \in Seq(Call)
        /\ Head(stack) \in Call /\ Head(stack) \in InProgress
        /\ Head(stack).at = point
        /\ InProgress = {Head(stack)} \cup Outer /\ Deep \subseteq Outer
        /\ Outer \subseteq InProgress
    BY <1>1, AtPoint
  <1>3. /\ stack' \in Seq(Call) /\ stack' # <<>> /\ Head(stack') = f
        /\ InProgress' = {f} \cup Outer /\ Outer' = Outer /\ Deep' = Deep
    BY <1>2, GoneOn
  <1>4. Typed'
    BY <1>1, <1>2, <1>3 DEF Typed, Ranges
  <1>5. ASSUME Good, ~intruded PROVE Good'
    <2>1. point \notin Critical /\ f.at \notin Critical /\ f.at # "add" /\ point # "add"
      BY DEF Taking, Critical
    <2>2. ~f.ret
      BY <1>2, <1>5, <2>1 DEF Good, Undisturbed, Taking
    <2>3. QueuedIsLatest' /\ WatchedIsLatest' /\ ReadyIsLatest'
      BY <1>2, <1>3, <1>5
      DEF Good, QueuedIsLatest, WatchedIsLatest, ReadyIsLatest, Quiet
    <2>4. StartedIsWatched'
      BY <1>2, <1>3, <1>5, <2>1 DEF Good, StartedIsWatched, Completing, Critical
    <2>5. RunningGoesOn'
      BY <1>2, <1>3, <1>5, <2>1 DEF Good, RunningGoesOn
    <2>6. AnswersTaken'
      BY <1>2, <1>3, <1>5 DEF Good, AnswersTaken
    <2>7. Settled'
      BY <1>2, <1>3, <1>5, <2>1 DEF Good, Settled, Quiet, Critical
    <2>8. Undisturbed'
      BY <1>2, <1>3, <1>5, <2>1, <2>2 DEF Good, Undisturbed
    <2> QED BY <2>3, <2>4, <2>5, <2>6, <2>7, <2>8 DEF Good
  <1> QED BY <1>4, <1>5 DEF Inv

LEMMA BlockKeeps ==
  ASSUME Inv, Block
  PROVE  Inv'
  <1>1. Typed /\ At("block")
    BY DEF Inv, Block
  <1>2. /\ Head(stack).ret \in BOOLEAN /\ Head(stack).block \in BOOLEAN
        /\ Head(stack).at = "block" /\ InProgress = {Head(stack)} \cup Outer
    BY <1>1, AtPoint
  <1>3. UNCHANGED <<state, sequenced, watcher, pending_watcher, replied, erroneous,
                    running, ready, shown, added, intruded>>
    BY DEF Block, Unmoved, access, model
  <1>4. sequenced \in 0..added /\ pending_watcher \in BOOLEAN
    BY <1>1 DEF Typed, Ranges
  <1>5. ~intruded /\ (\E g \in Outer : g.at \in Critical) => sequenced = 0
    BY <1>2 DEF Inv, Good, Settled, Undisturbed
  <1>6. "block" \in Taking \ {"add", "take"}
    BY DEF Taking
  <1>7. CASE pending_sequenced' = TRUE /\ sequenced # 0
             /\ Goto("sequence wait", sequenced, FALSE)
    <2> DEFINE f == Frame("sequence wait", Blocks, Head(stack).ret, sequenced, FALSE)
    <2>1. /\ f \in Call /\ f.at = "sequence wait" /\ f.op = sequenced
          /\ f.ret = Head(stack).ret
      BY <1>2, <1>4, <1>1, Bounds DEF Frame, Call, Point, Blocks
    <2>2. stack' = <<f>> \o Tail(stack)
      BY <1>7 DEF Goto
    <2> HIDE DEF f
    <2>3. f.at \in Taking \ {"add", "block"} /\ f.op <= added
      BY <2>1, <1>4, <1>1, Bounds DEF Taking
    <2> QED BY <1>1, <1>3, <1>4, <1>5, <1>6, <1>7, <2>1, <2>2, <2>3, WaitsOn
  <1>8. CASE pending_sequenced' = TRUE /\ sequenced # 0
             /\ Goto("waited", 0, SlotsRun("waited", Dropped))
    <2> DEFINE f == Frame("waited", Blocks, Head(stack).ret, 0,
                          SlotsRun("waited", Dropped))
    <2>1. /\ f \in Call /\ f.at = "waited" /\ f.op = 0 /\ f.ret = Head(stack).ret
      BY <1>2, <1>1, Bounds, SlotsOfSignal DEF Frame, Call, Point, Blocks
    <2>2. stack' = <<f>> \o Tail(stack)
      BY <1>8 DEF Goto
    <2> HIDE DEF f
    <2>3. f.at \in Taking \ {"add", "block"} /\ f.op <= added
      BY <2>1, <1>1, Bounds DEF Taking
    <2> QED BY <1>1, <1>3, <1>4, <1>5, <1>6, <1>8, <2>1, <2>2, <2>3, WaitsOn
  <1>9. CASE pending_sequenced' = pending_sequenced /\ Goto("wait", 0, FALSE)
    <2> DEFINE f == Frame("wait", Blocks, Head(stack).ret, 0, FALSE)
    <2>1. /\ f \in Call /\ f.at = "wait" /\ f.op = 0 /\ f.ret = Head(stack).ret /\ ~f.slot
      BY <1>2, <1>1, Bounds DEF Frame, Call, Point, Blocks
    <2>2. stack' = <<f>> \o Tail(stack)
      BY <1>9 DEF Goto
    <2> HIDE DEF f
    <2>3. f.at \in Taking \ {"add", "block"} /\ f.op <= added
      BY <2>1, <1>1, Bounds DEF Taking
    <2>4. pending_sequenced \in BOOLEAN
      BY <1>1 DEF Typed, Ranges
    <2> QED BY <1>1, <1>3, <1>4, <1>5, <1>6, <1>9, <2>1, <2>2, <2>3, <2>4, WaitsOn
  <1> QED BY <1>7, <1>8, <1>9 DEF Block

LEMMA SequenceWaitedKeeps ==
  ASSUME Inv, SequenceWaited
  PROVE  Inv'
  <1> DEFINE o == Head(stack).op
             dropped == state[o] \in {"aborted", "dropped"}
             f == Frame("waited", Blocks, Head(stack).ret, 0, SlotsRun("waited", dropped))
  <1>1. Typed /\ At("sequence wait")
    BY DEF Inv, SequenceWaited
  <1>2. /\ Head(stack).ret \in BOOLEAN /\ Head(stack).block \in BOOLEAN
        /\ Head(stack).at = "sequence wait"
    BY <1>1, AtPoint
  <1>3. UNCHANGED <<state, sequenced, pending_sequenced, watcher, pending_watcher, replied,
                    erroneous, running, ready, shown, added, intruded>>
    BY DEF SequenceWaited, Unmoved, sequencing, access, model
  <1>4. pending_sequenced \in BOOLEAN /\ pending_watcher \in BOOLEAN
    BY <1>1 DEF Typed, Ranges
  <1>5. ~intruded => ~\E g \in Outer : g.at \in Critical
    BY <1>2 DEF Inv, Good, Undisturbed
  <1>6. "sequence wait" \in Taking \ {"add", "take"}
    BY DEF Taking
  <1>7. /\ f \in Call /\ f.at = "waited" /\ f.op = 0 /\ f.ret = Head(stack).ret
    <2> HIDE DEF dropped
    <2> QED BY <1>2, <1>1, Bounds, SlotsOfSignal DEF Frame, Call, Point, Blocks
  <1>8. stack' = <<f>> \o Tail(stack)
    BY DEF SequenceWaited, Goto
  <1> HIDE DEF f
  <1>9. f.at \in Taking \ {"add", "block"} /\ f.op <= added
    BY <1>7, <1>1, Bounds DEF Taking
  <1> QED BY <1>1, <1>3, <1>4, <1>5, <1>6, <1>7, <1>8, <1>9, WaitsOn

LEMMA WaitedKeeps ==
  ASSUME Inv, Waited
  PROVE  Inv'
  <1> DEFINE f == Frame("wait", Blocks, Head(stack).ret, 0, FALSE)
  <1>1. Typed /\ At("waited")
    BY DEF Inv, Waited
  <1>2. /\ Head(stack).ret \in BOOLEAN /\ Head(stack).block \in BOOLEAN
        /\ Head(stack).at = "waited"
    BY <1>1, AtPoint
  <1>3. /\ UNCHANGED <<state, sequenced, watcher, pending_watcher, replied,
                       erroneous, running, ready, shown, added, intruded>>
        /\ pending_sequenced' = FALSE
    BY DEF Waited, Unmoved, access, model
  <1>4. pending_watcher \in BOOLEAN
    BY <1>1 DEF Typed, Ranges
  <1>5. ~intruded => ~\E g \in Outer : g.at \in Critical
    BY <1>2 DEF Inv, Good, Undisturbed
  <1>6. "waited" \in Taking \ {"add", "take"}
    BY DEF Taking
  <1>7. /\ f \in Call /\ f.at = "wait" /\ f.op = 0 /\ f.ret = Head(stack).ret
    BY <1>2, <1>1, Bounds DEF Frame, Call, Point, Blocks
  <1>8. stack' = <<f>> \o Tail(stack)
    BY DEF Waited, Goto
  <1> HIDE DEF f
  <1>9. f.at \in Taking \ {"add", "block"} /\ f.op <= added
    BY <1>7, <1>1, Bounds DEF Taking
  <1> QED BY <1>1, <1>3, <1>4, <1>5, <1>6, <1>7, <1>8, <1>9, WaitsOn

LEMMA WaitForQueryKeeps ==
  ASSUME Inv, waitForQueryComplete
  PROVE  Inv'
  <1>1. Typed /\ At("wait")
    BY DEF Inv, waitForQueryComplete
  <1>2. /\ Head(stack).ret \in BOOLEAN /\ Head(stack).block \in BOOLEAN
        /\ Head(stack).at = "wait" /\ InProgress = {Head(stack)} \cup Outer
    BY <1>1, AtPoint
  <1>3. UNCHANGED <<state, sequenced, pending_sequenced, watcher, replied, erroneous,
                    running, ready, shown, added, intruded>>
    BY DEF waitForQueryComplete, Unmoved, sequencing, model
  <1>4. /\ pending_sequenced \in BOOLEAN /\ pending_watcher \in BOOLEAN
        /\ watcher \in 0..added
    BY <1>1 DEF Typed, Ranges
  <1>5. ~intruded /\ (\E g \in Outer : g.at \in Critical) => watcher = 0
    BY <1>2 DEF Inv, Good, Settled, Undisturbed
  <1>6. "wait" \in Taking \ {"add", "take"}
    BY DEF Taking
  <1>7. CASE watcher # 0 /\ pending_watcher' = TRUE /\ Goto("query wait", watcher, FALSE)
    <2> DEFINE f == Frame("query wait", Blocks, Head(stack).ret, watcher, FALSE)
    <2>1. /\ f \in Call /\ f.at = "query wait" /\ f.op = watcher
          /\ f.ret = Head(stack).ret
      BY <1>2, <1>4, <1>1, Bounds DEF Frame, Call, Point, Blocks
    <2>2. stack' = <<f>> \o Tail(stack)
      BY <1>7 DEF Goto
    <2> HIDE DEF f
    <2>3. f.at \in Taking \ {"add", "block"} /\ f.op <= added /\ f.op \in Op
      BY <2>1, <1>4, <1>7, <1>1, Bounds DEF Taking
    <2>4. ~intruded => state[f.op] # "queued"
      BY <2>1, <2>3, <1>7 DEF Inv, Good, QueuedIsLatest
    <2> QED BY <1>1, <1>3, <1>4, <1>5, <1>6, <1>7, <2>1, <2>2, <2>3, <2>4, WaitsOn
  <1>8. CASE pending_watcher' = pending_watcher /\ Goto("take", 0, FALSE)
    <2> DEFINE f == Frame("take", Blocks, Head(stack).ret, 0, FALSE)
    <2>1. /\ f \in Call /\ f.at = "take" /\ f.op = 0 /\ f.ret = Head(stack).ret /\ ~f.slot
      BY <1>2, <1>1, Bounds DEF Frame, Call, Point, Blocks
    <2>2. stack' = <<f>> \o Tail(stack)
      BY <1>8 DEF Goto
    <2> HIDE DEF f
    <2>3. f.at \in Taking \ {"add", "block"} /\ f.op <= added
      BY <2>1, <1>1, Bounds DEF Taking
    <2> QED BY <1>1, <1>3, <1>4, <1>5, <1>6, <1>8, <2>1, <2>2, <2>3, WaitsOn
  <1> QED BY <1>7, <1>8 DEF waitForQueryComplete

LEMMA QueryWaitedKeeps ==
  ASSUME Inv, QueryWaited
  PROVE  Inv'
  <1> DEFINE f == Frame("wait", Blocks, Head(stack).ret, 0, FALSE)
  <1>1. Typed /\ At("query wait")
    BY DEF Inv, QueryWaited
  <1>2. /\ Head(stack).ret \in BOOLEAN /\ Head(stack).block \in BOOLEAN
        /\ Head(stack).at = "query wait"
    BY <1>1, AtPoint
  <1>3. /\ UNCHANGED <<state, sequenced, pending_sequenced, watcher, replied,
                       erroneous, running, ready, shown, added, intruded>>
        /\ pending_watcher' = FALSE
    BY DEF QueryWaited, Unmoved, sequencing, model
  <1>4. pending_sequenced \in BOOLEAN
    BY <1>1 DEF Typed, Ranges
  <1>5. ~intruded => ~\E g \in Outer : g.at \in Critical
    BY <1>2 DEF Inv, Good, Undisturbed
  <1>6. "query wait" \in Taking \ {"add", "take"}
    BY DEF Taking
  <1>7. /\ f \in Call /\ f.at = "wait" /\ f.op = 0 /\ f.ret = Head(stack).ret
    BY <1>2, <1>1, Bounds DEF Frame, Call, Point, Blocks
  <1>8. stack' = <<f>> \o Tail(stack)
    BY DEF QueryWaited, Goto
  <1> HIDE DEF f
  <1>9. f.at \in Taking \ {"add", "block"} /\ f.op <= added
    BY <1>7, <1>1, Bounds DEF Taking
  <1> QED BY <1>1, <1>3, <1>4, <1>5, <1>6, <1>7, <1>8, <1>9, WaitsOn

----------------------------------------------------------------------------
(* A call takes the result.                                                *)

LEMMA TakeKeeps ==
  ASSUME Inv, Take
  PROVE  Inv'
  <1>1. Typed /\ At("take")
    BY DEF Inv, Take
  <1>2. /\ stack # <<>> /\ stack \in Seq(Call)
        /\ Head(stack) \in Call /\ Head(stack) \in InProgress
        /\ Head(stack).at = "take" /\ Head(stack).ret \in BOOLEAN
        /\ Head(stack).block \in BOOLEAN
        /\ InProgress = {Head(stack)} \cup Outer /\ Deep \subseteq Outer
        /\ Outer \subseteq InProgress
    BY <1>1, AtPoint
  <1>3. /\ UNCHANGED <<state, sequenced, pending_sequenced, pending_watcher, replied,
                       erroneous, shown, added, intruded>>
    BY DEF Take, sequencing
  <1>4. watcher \in 0..added /\ running \in BOOLEAN /\ ready \in BOOLEAN
    BY <1>1 DEF Typed, Ranges
  <1>5. ASSUME watcher \in replied, watcher' = 0, running' = FALSE, ready' = ready,
               Goto("taken", watcher, SlotsRun("stopped", running))
        PROVE  Inv'
    <2> DEFINE f == Frame("taken", Blocks, Head(stack).ret, watcher,
                          SlotsRun("stopped", running))
    <2>1. /\ f \in Call /\ f.at = "taken" /\ f.op = watcher /\ f.ret = Head(stack).ret
      BY <1>1, <1>2, <1>4, Bounds, SlotsOfSignal DEF Frame, Call, Point, Blocks
    <2>2. stack' = <<f>> \o Tail(stack)
      BY <1>5 DEF Goto
    <2> HIDE DEF f
    <2>3. /\ stack' \in Seq(Call) /\ stack' # <<>> /\ Head(stack') = f
          /\ InProgress' = {f} \cup Outer /\ Outer' = Outer /\ Deep' = Deep
      BY <1>2, <2>1, <2>2, GoneOn
    <2>4. f.op <= added /\ 0 \in 0..added /\ watcher # 0 /\ 0 \notin replied
      <3>1. 0 \notin replied
        BY <1>1, Bounds DEF Typed, Ranges
      <3> QED BY <1>1, <1>4, <1>5, <2>1, <3>1, Bounds
    <2>5. Typed'
      BY <1>1, <1>2, <1>3, <1>5, <2>3, <2>4 DEF Typed, Ranges
    <2>6. ASSUME Good, ~intruded PROVE Good'
      <3>1. ~ready /\ ~f.ret
        BY <1>2, <2>1, <2>4, <2>6 DEF Good, ReadyIsLatest, Quiet, Undisturbed
      <3>2. \A g \in Outer : g.at \notin Critical
        BY <1>2, <2>4, <2>6 DEF Good, Settled, Quiet, Critical
      <3>3. Quiet' /\ f.op = added
        BY <1>3, <1>5, <2>1, <2>4, <2>6
        DEF Good, Quiet, QueuedIsLatest, WatchedIsLatest
      <3>4. QueuedIsLatest' /\ WatchedIsLatest' /\ ReadyIsLatest' /\ RunningGoesOn'
        BY <1>3, <1>5, <3>1, <3>3
        DEF QueuedIsLatest, WatchedIsLatest, ReadyIsLatest, RunningGoesOn, Quiet
      <3>5. StartedIsWatched'
        BY <2>1, <2>3 DEF StartedIsWatched, Completing
      <3>6. AnswersTaken'
        BY <1>2, <1>3, <1>5, <2>3, <2>4, <2>6 DEF Good, AnswersTaken
      <3>7. Settled'
        BY <1>2, <1>3, <1>5, <2>1, <2>3, <3>1, <3>2, <3>3 DEF Settled, Critical
      <3>8. Undisturbed'
        BY <1>2, <1>5, <2>3, <2>6, <3>1, <3>2 DEF Good, Undisturbed
      <3> QED BY <3>4, <3>5, <3>6, <3>7, <3>8 DEF Good
    <2> QED BY <1>3, <2>5, <2>6 DEF Inv
  <1>6. ASSUME watcher \notin replied, ready' = (ready \/ Head(stack).ret), Return,
               UNCHANGED <<watcher, running>>
        PROVE  Inv'
    <2>1. /\ stack' \in Seq(Call)
          /\ InProgress' = Outer /\ Outer' = Deep /\ Deep' \subseteq Deep
      BY <1>2, <1>6, Returned DEF Return
    <2>2. ready' \in BOOLEAN
      BY <1>4, <1>6
    <2>3. Typed'
      BY <1>1, <1>2, <1>3, <1>6, <2>1, <2>2 DEF Typed, Ranges
    <2>4. ASSUME Good, ~intruded PROVE Good'
      <3>1. ready' = ready
        BY <1>2, <1>4, <1>6, <2>4 DEF Good, Undisturbed
      <3>2. QueuedIsLatest' /\ WatchedIsLatest' /\ ReadyIsLatest'
        <4>1. QueuedIsLatest'
          BY <1>2, <1>3, <1>6, <2>1, <2>4 DEF Good, QueuedIsLatest
        <4>2. WatchedIsLatest'
          BY <1>3, <1>6, <2>4 DEF Good, WatchedIsLatest
        <4>3. ReadyIsLatest'
          BY <1>3, <1>6, <2>4, <3>1 DEF Good, ReadyIsLatest, Quiet
        <4> QED BY <4>1, <4>2, <4>3
      <3>3. StartedIsWatched' /\ RunningGoesOn'
        BY <1>2, <1>3, <1>6, <2>1, <2>4
        DEF Good, StartedIsWatched, RunningGoesOn, Completing
      <3>4. AnswersTaken'
        BY <1>2, <1>3, <1>6, <2>1, <2>4 DEF Good, AnswersTaken
      <3>5. Settled'
        BY <1>2, <1>3, <1>6, <2>1, <2>4, <3>1 DEF Good, Settled, Quiet
      <3>6. Undisturbed'
        BY <1>2, <2>1, <2>4, <3>1 DEF Good, Undisturbed, Settled
      <3> QED BY <3>2, <3>3, <3>4, <3>5, <3>6 DEF Good
    <2> QED BY <1>3, <2>3, <2>4 DEF Inv
  <1> QED BY <1>5, <1>6 DEF Take

LEMMA TakenKeeps ==
  ASSUME Inv, Taken
  PROVE  Inv'
  <1> DEFINE q == Head(stack).op
             failed == q \in erroneous
             emitted == failed => Blocks
             f == Frame("result", Blocks, Head(stack).ret, q, SlotsRun("result", emitted))
  <1>1. Typed /\ At("taken")
    BY DEF Inv, Taken
  <1>2. /\ stack # <<>> /\ stack \in Seq(Call)
        /\ Head(stack) \in Call /\ Head(stack) \in InProgress
        /\ Head(stack).at = "taken" /\ q \in 0..added /\ Head(stack).ret \in BOOLEAN
        /\ Head(stack).block \in BOOLEAN
        /\ InProgress = {Head(stack)} \cup Outer /\ Deep \subseteq Outer
        /\ Outer \subseteq InProgress
    BY <1>1, AtPoint
  <1>3. /\ UNCHANGED <<state, pending_sequenced, watcher, pending_watcher, replied,
                       erroneous, running, ready, added, intruded>>
        /\ sequenced' = 0
        /\ shown' = IF q \in erroneous THEN shown ELSE q
    BY DEF Taken, access
  <1>4. stack' = <<f>> \o Tail(stack)
    BY DEF Taken, Goto
  <1>5. f \in Call /\ f.at = "result" /\ f.op = q /\ f.ret = Head(stack).ret
    <2> HIDE DEF emitted
    <2> QED BY <1>1, <1>2, Bounds, SlotsOfSignal DEF Frame, Call, Point, Blocks
  <1> HIDE DEF f
  <1>6. /\ stack' \in Seq(Call) /\ stack' # <<>> /\ Head(stack') = f
        /\ InProgress' = {f} \cup Outer /\ Outer' = Outer /\ Deep' = Deep
    BY <1>2, <1>4, <1>5, GoneOn
  <1>7. f.op <= added /\ 0 \in 0..added
    BY <1>1, <1>2, <1>5, Bounds
  <1>8. shown' \in 0..added
    BY <1>1, <1>2, <1>3 DEF Typed, Ranges
  <1>9. Typed'
    BY <1>1, <1>2, <1>3, <1>6, <1>7, <1>8 DEF Typed, Ranges
  <1>10. ASSUME Good, ~intruded PROVE Good'
    <2>1. ~ready /\ Quiet /\ q = added /\ ~f.ret
      BY <1>2, <1>5, <1>10 DEF Good, Settled, Undisturbed, Critical
    <2>2. \A g \in Outer : g.at \notin Critical
      BY <1>2, <1>10 DEF Good, Undisturbed
    <2>3. Quiet'
      BY <1>3, <2>1 DEF Quiet
    <2>4. QueuedIsLatest' /\ WatchedIsLatest' /\ ReadyIsLatest' /\ RunningGoesOn'
      BY <1>3, <2>1, <2>3
      DEF QueuedIsLatest, WatchedIsLatest, ReadyIsLatest, RunningGoesOn, Quiet
    <2>5. StartedIsWatched'
      BY <1>5, <1>6 DEF StartedIsWatched, Completing
    <2>6. AnswersTaken'
      BY <1>2, <1>3, <1>6, <1>10 DEF Good, AnswersTaken, Taking
    <2>7. Settled'
      BY <1>2, <1>3, <1>5, <1>6, <2>1, <2>2, <2>3 DEF Settled, Critical
    <2>8. Undisturbed'
      BY <1>2, <1>3, <1>6, <1>10, <2>1, <2>2 DEF Good, Undisturbed
    <2> QED BY <2>4, <2>5, <2>6, <2>7, <2>8 DEF Good
  <1> QED BY <1>3, <1>9, <1>10 DEF Inv

LEMMA ResultKeeps ==
  ASSUME Inv, Result
  PROVE  Inv'
  <1>1. Typed /\ At("result")
    BY DEF Inv, Result
  <1>2. /\ stack # <<>> /\ stack \in Seq(Call)
        /\ Head(stack) \in Call /\ Head(stack) \in InProgress
        /\ Head(stack).at = "result"
        /\ InProgress = {Head(stack)} \cup Outer /\ Deep \subseteq Outer
        /\ Outer \subseteq InProgress
    BY <1>1, AtPoint
  <1>3. /\ UNCHANGED <<sequenced, pending_sequenced, watcher, pending_watcher, replied,
                       erroneous, running, shown, added, intruded>>
        /\ ready' = (ready \/ Head(stack).op \notin erroneous)
        /\ state' = Ended /\ stack' = Tail(stack)
    BY DEF Result, access, Return
  <1>4. /\ stack' \in Seq(Call)
        /\ InProgress' = Outer /\ Outer' = Deep /\ Deep' \subseteq Deep
    BY <1>2, <1>3, Returned
  <1>5. /\ state' \in [Op -> {"none", "queued", "started", "ended", "aborted", "dropped"}]
        /\ \A o \in Op : /\ state'[o] # "started"
                         /\ state'[o] # "none" => state[o] # "none"
                         /\ state'[o] = "queued" => state[o] = "queued"
    BY <1>1, <1>3 DEF Ended, Typed, Ranges
  <1>6. ready' \in BOOLEAN
    BY <1>1, <1>3 DEF Typed, Ranges
  <1>7. Typed'
    BY <1>1, <1>2, <1>3, <1>4, <1>5, <1>6 DEF Typed, Ranges
  <1>8. ASSUME Good, ~intruded PROVE Good'
    <2>1. /\ ~ready /\ Quiet
          /\ Head(stack).op \in erroneous \/ shown = added
      BY <1>2, <1>8 DEF Good, Settled, Critical
    <2>2. \A g \in Outer : g.at \notin Critical /\ ~g.ret
      BY <1>2, <1>8 DEF Good, Undisturbed
    <2>3. Quiet'
      BY <1>3, <1>5, <2>1 DEF Quiet
    <2>4. QueuedIsLatest' /\ WatchedIsLatest' /\ StartedIsWatched' /\ RunningGoesOn'
      BY <1>3, <1>5, <2>3
      DEF QueuedIsLatest, WatchedIsLatest, StartedIsWatched, RunningGoesOn, Quiet
    <2>5. ReadyIsLatest'
      BY <1>3, <2>1, <2>3 DEF ReadyIsLatest
    <2>6. AnswersTaken'
      BY <1>2, <1>3, <1>4, <1>8 DEF Good, AnswersTaken, Taking
    <2>7. Settled' /\ Undisturbed'
      BY <1>2, <1>4, <2>2 DEF Settled, Undisturbed, Critical
    <2> QED BY <2>4, <2>5, <2>6, <2>7 DEF Good
  <1> QED BY <1>3, <1>7, <1>8 DEF Inv

----------------------------------------------------------------------------
(* Aborting and flushing.                                                  *)

\* What aborting does to the operations.
LEMMA Aborts ==
  ASSUME Typed, abort
  PROVE  /\ state' \in [Op -> {"none", "queued", "started", "ended", "aborted", "dropped"}]
         /\ sequenced' = 0 /\ watcher' = 0 /\ pending_watcher' = FALSE
         /\ pending_sequenced' \in BOOLEAN
         /\ \A o \in Op :
              /\ state'[o] # "none" => state[o] # "none"
              /\ state'[o] \in {"queued", "started"} => state'[o] = state[o] /\ o # sequenced
  <1>1. /\ state \in [Op -> {"none", "queued", "started", "ended", "aborted", "dropped"}]
        /\ pending_sequenced \in BOOLEAN /\ 0 \notin Op
    BY Bounds DEF Typed, Ranges
  <1>2. /\ sequenced' = 0 /\ watcher' = 0 /\ pending_watcher' = FALSE
        /\ pending_sequenced' \in BOOLEAN
    BY <1>1 DEF abort
  <1>3. CASE sequenced # 0 /\ state[sequenced] \in {"queued", "started"}
    <2>1. state' = [state EXCEPT ![sequenced] = "aborted"]
      BY <1>3 DEF abort
    <2>2. state' \in [Op -> {"none", "queued", "started", "ended", "aborted", "dropped"}]
      BY <1>1, <2>1
    <2>3. \A o \in Op : state'[o] = IF o = sequenced THEN "aborted" ELSE state[o]
      BY <1>1, <2>1
    <2>4. \A o \in Op :
            /\ state'[o] # "none" => state[o] # "none"
            /\ state'[o] \in {"queued", "started"} => state'[o] = state[o] /\ o # sequenced
      BY <1>3, <2>3
    <2> QED BY <1>2, <2>2, <2>4
  <1>4. CASE ~(sequenced # 0 /\ state[sequenced] \in {"queued", "started"})
    <2>1. state' = state
      BY <1>4 DEF abort
    <2> QED BY <1>1, <1>2, <1>4, <2>1
  <1> QED BY <1>3, <1>4

\* Of the operations under way, only one whose result is being shown survives.
LEMMA AbortsLatest ==
  ASSUME Typed, Good, abort
  PROVE  \A o \in Op : /\ state'[o] # "queued"
                       /\ state'[o] = "started" => Completing
  BY Aborts DEF Good, QueuedIsLatest, StartedIsWatched

LEMMA StopKeeps ==
  ASSUME Inv, Stop
  PROVE  Inv'
  <1>1. Typed /\ abort /\ running' = FALSE
    BY DEF Inv, Stop
  <1>2. UNCHANGED <<replied, erroneous, added, ready, shown, stack, intruded>>
    BY DEF Stop
  <1>3. InProgress' = InProgress /\ Outer' = Outer /\ Deep' = Deep
    BY <1>2 DEF InProgress, Outer, Deep
  <1>4. 0 \in 0..added
    BY <1>1, Bounds
  <1>5. Typed'
    BY <1>1, <1>2, <1>3, <1>4, Aborts DEF Typed, Ranges
  <1>6. ASSUME Good, ~intruded PROVE Good'
    <2>1. Quiet' /\ watcher' = 0 /\ sequenced' = 0 /\ pending_watcher' = FALSE
      BY <1>1, <1>6, Aborts, AbortsLatest DEF Quiet
    <2>2. StartedIsWatched'
      BY <1>1, <1>3, <1>6, AbortsLatest DEF StartedIsWatched, Completing
    <2>3. QueuedIsLatest' /\ WatchedIsLatest' /\ RunningGoesOn'
      BY <2>1 DEF QueuedIsLatest, WatchedIsLatest, RunningGoesOn, Quiet
    <2>4. ReadyIsLatest'
      BY <1>2, <1>6, <2>1 DEF Good, ReadyIsLatest
    <2>5. AnswersTaken'
      <3>1. 0 \notin replied
        BY <1>1, Bounds DEF Typed, Ranges
      <3> QED BY <1>2, <1>3, <1>6, <2>1, <3>1 DEF Good, AnswersTaken
    <2>6. Settled'
      BY <1>2, <1>3, <1>6, <2>1 DEF Good, Settled
    <2>7. Undisturbed'
      BY <1>2, <1>3, <1>6 DEF Good, Undisturbed
    <2> QED BY <2>2, <2>3, <2>4, <2>5, <2>6, <2>7 DEF Good
  <1> QED BY <1>2, <1>5, <1>6 DEF Inv

LEMMA FlushKeeps ==
  ASSUME Inv, Flush
  PROVE  Inv'
  <1> DEFINE stopped == ~running
             f == Frame("add", Blocks, Head(stack).ret, 0, SlotsRun("running", stopped))
  <1>1. Typed /\ At("flush") /\ abort /\ running' = TRUE
    BY DEF Inv, Flush
  <1>2. /\ stack # <<>> /\ stack \in Seq(Call)
        /\ Head(stack) \in Call /\ Head(stack) \in InProgress
        /\ Head(stack).at = "flush" /\ Head(stack).ret \in BOOLEAN
        /\ Head(stack).block \in BOOLEAN
        /\ InProgress = {Head(stack)} \cup Outer /\ Deep \subseteq Outer
        /\ Outer \subseteq InProgress
    BY <1>1, AtPoint
  <1>3. UNCHANGED <<replied, erroneous, added, ready, shown, intruded>>
    BY DEF Flush
  <1>4. stack' = <<f>> \o Tail(stack)
    BY DEF Flush, Goto
  <1>5. f \in Call /\ f.at = "add" /\ f.op = 0 /\ f.ret = Head(stack).ret
    <2> HIDE DEF stopped
    <2> QED BY <1>1, <1>2, Bounds, SlotsOfSignal DEF Frame, Call, Point, Blocks
  <1> HIDE DEF f
  <1>6. /\ stack' \in Seq(Call) /\ stack' # <<>> /\ Head(stack') = f
        /\ InProgress' = {f} \cup Outer /\ Outer' = Outer /\ Deep' = Deep
    BY <1>2, <1>4, <1>5, GoneOn
  <1>7. f.op <= added /\ 0 \in 0..added
    BY <1>1, <1>5, Bounds
  <1>8. Typed'
    BY <1>1, <1>2, <1>3, <1>6, <1>7, Aborts DEF Typed, Ranges
  <1>9. ASSUME Good, ~intruded PROVE Good'
    <2>1. \A g \in Outer : g.at \notin Critical
      BY <1>2, <1>9 DEF Good, Undisturbed
    <2>2. ~ready /\ ~f.ret /\ ~Completing
      BY <1>2, <1>5, <1>9, <2>1 DEF Good, Settled, Undisturbed, Critical, Completing
    <2>3. /\ watcher' = 0 /\ sequenced' = 0 /\ pending_watcher' = FALSE
          /\ \A o \in Op : state'[o] # "queued" /\ state'[o] # "started"
      BY <1>1, <1>9, <2>2, Aborts, AbortsLatest
    <2>4. QueuedIsLatest' /\ WatchedIsLatest' /\ StartedIsWatched' /\ ReadyIsLatest'
      BY <1>3, <2>2, <2>3
      DEF QueuedIsLatest, WatchedIsLatest, StartedIsWatched, ReadyIsLatest
    <2>5. RunningGoesOn'
      BY <1>5, <1>6 DEF RunningGoesOn
    <2>6. AnswersTaken'
      BY <1>3, <1>5, <1>6, <1>9, <2>3 DEF Good, AnswersTaken, Taking
    <2>7. Settled'
      BY <1>2, <1>3, <1>5, <1>6, <2>1, <2>2, <2>3 DEF Settled, Critical
    <2>8. Undisturbed'
      BY <1>2, <1>3, <1>6, <1>9, <2>1, <2>2 DEF Good, Undisturbed
    <2> QED BY <2>4, <2>5, <2>6, <2>7, <2>8 DEF Good
  <1> QED BY <1>3, <1>8, <1>9 DEF Inv

LEMMA AddOperationKeeps ==
  ASSUME Inv, AddOperation
  PROVE  Inv'
  <1> DEFINE o == added + 1
             next == IF Blocks /\ running THEN "block" ELSE "take"
             f == Frame(next, Blocks, Head(stack).ret, 0, FALSE)
  <1>1. Typed /\ At("add") /\ o \in Op
    BY DEF Inv, AddOperation
  <1>2. /\ stack # <<>> /\ stack \in Seq(Call)
        /\ Head(stack) \in Call /\ Head(stack) \in InProgress
        /\ Head(stack).at = "add" /\ Head(stack).ret \in BOOLEAN
        /\ Head(stack).block \in BOOLEAN
        /\ InProgress = {Head(stack)} \cup Outer /\ Deep \subseteq Outer
        /\ Outer \subseteq InProgress
    BY <1>1, AtPoint
  <1>3. /\ UNCHANGED <<pending_sequenced, pending_watcher, replied, erroneous, running,
                       ready, shown, intruded>>
        /\ added' = o /\ sequenced' = o
    BY DEF AddOperation, model
  <1>4. stack' = <<f>> \o Tail(stack)
    BY DEF AddOperation, Goto
  <1>5. /\ f \in Call /\ f.at \in {"block", "take"} /\ f.op = 0 /\ f.ret = Head(stack).ret
        /\ ~f.slot
    <2>1. next \in {"block", "take"} /\ next \in Point
      BY DEF Point
    <2> HIDE DEF next
    <2> QED BY <1>1, <1>2, <2>1, Bounds DEF Frame, Call, Blocks
  <1> HIDE DEF next, f
  <1>6. /\ stack' \in Seq(Call) /\ stack' # <<>> /\ Head(stack') = f
        /\ InProgress' = {f} \cup Outer /\ Outer' = Outer /\ Deep' = Deep
    BY <1>2, <1>4, <1>5, GoneOn
  <1>7. /\ o \in 0..o /\ 0 \in 0..o /\ o # 0 /\ added <= o /\ 0..added \subseteq 0..o
        /\ 1..added \subseteq 1..o /\ o \notin 1..added /\ o \in 0..MaxOps
        /\ added \in Nat /\ o \in Nat
    BY <1>1, Bounds
  <1>8. \/ state' = [state EXCEPT ![o] = "queued"] /\ watcher' = watcher
        \/ state' = [state EXCEPT ![o] = "started"] /\ watcher' = o
    BY DEF AddOperation
  <1>9. /\ state' \in [Op -> {"none", "queued", "started", "ended", "aborted", "dropped"}]
        /\ \A p \in Op : p # o => state'[p] = state[p]
        /\ \/ state'[o] = "queued" /\ watcher' = watcher
           \/ state'[o] = "started" /\ watcher' = o
    BY <1>1, <1>8 DEF Typed, Ranges
  <1>10. Typed'
    <2>1. watcher' \in 0..o /\ shown \in 0..o
      BY <1>1, <1>7, <1>9 DEF Typed, Ranges
    <2>2. Ranges'
      BY <1>1, <1>3, <1>7, <1>9, <2>1 DEF Typed, Ranges
    <2>3. \A g \in InProgress' : g.op <= o
      <3>1. ASSUME NEW g \in Outer PROVE g.op <= o
        <4>1. g.op \in 0..MaxOps /\ g.op <= added
          BY <1>1, <1>2, Innermost DEF Typed, Call
        <4> QED BY <4>1, <1>7
      <3> QED BY <1>5, <1>6, <1>7, <3>1
    <2>4. \A p \in Op : state'[p] # "none" => p <= o
      <3>1. ASSUME NEW p \in Op, p # o, state'[p] # "none" PROVE p <= o
        BY <1>1, <1>7, <1>9, <3>1 DEF Typed, Op
      <3> QED BY <3>1, <1>7
    <2> QED BY <1>1, <1>3, <1>6, <2>2, <2>3, <2>4 DEF Typed
  <1>11. ASSUME Good, ~intruded PROVE Good'
    <2>1. \A g \in Outer : g.at \notin Critical
      BY <1>2, <1>11 DEF Good, Undisturbed
    <2>2. ~ready /\ ~f.ret /\ watcher = 0 /\ sequenced = 0
      BY <1>2, <1>5, <1>11 DEF Good, Settled, Undisturbed, Critical
    <2>3. \A p \in Op : state[p] # "queued" /\ state[p] # "started"
      <3>1. ~Completing
        BY <1>2, <2>1 DEF Completing, Critical
      <3>2. 0 \notin Op
        BY <1>1, Bounds
      <3> QED BY <1>11, <2>2, <3>1, <3>2 DEF Good, QueuedIsLatest, StartedIsWatched
    <2>4. o \notin replied
      BY <1>7, <1>11 DEF Good, AnswersTaken
    <2>5. QueuedIsLatest'
      <3>1. ASSUME NEW g \in InProgress', g.at = "query wait" PROVE g.op # o
        <4>1. g \in Outer
          BY <3>1, <1>5, <1>6
        <4>2. g.op \in 0..MaxOps /\ g.op <= added
          BY <1>1, <1>2, <4>1, Innermost DEF Typed, Call
        <4> QED BY <4>2, <1>7
      <3>2. ASSUME NEW p \in Op, state'[p] = "queued" PROVE p = o /\ watcher' = 0
        BY <3>2, <1>9, <2>2, <2>3
      <3> QED BY <1>3, <2>4, <3>1, <3>2 DEF QueuedIsLatest
    <2>6. WatchedIsLatest' /\ StartedIsWatched'
      BY <1>3, <1>9, <2>2, <2>3 DEF WatchedIsLatest, StartedIsWatched
    <2>7. ReadyIsLatest' /\ RunningGoesOn'
      BY <1>3, <1>7, <1>9, <2>2 DEF ReadyIsLatest, RunningGoesOn
    <2>8. AnswersTaken'
      <3>1. watcher' \notin replied
        <4>1. 0 \notin replied
          BY <1>1, Bounds DEF Typed, Ranges
        <4> QED BY <4>1, <1>9, <2>2, <2>4
      <3>2. replied \subseteq 1..o
        BY <1>7, <1>11 DEF Good, AnswersTaken
      <3>3. pending_watcher => \E g \in Outer : g.at = "query wait"
        BY <1>2, <1>11 DEF Good, AnswersTaken
      <3> QED BY <1>3, <1>6, <3>1, <3>2, <3>3 DEF AnswersTaken
    <2>9. Settled'
      BY <1>2, <1>5, <1>6, <2>1 DEF Settled, Critical
    <2>10. Undisturbed'
      BY <1>2, <1>3, <1>6, <1>11, <2>1, <2>2 DEF Good, Undisturbed
    <2> QED BY <2>5, <2>6, <2>7, <2>8, <2>9, <2>10 DEF Good
  <1> QED BY <1>3, <1>10, <1>11 DEF Inv

----------------------------------------------------------------------------
(* The event loop and the callers.                                         *)

\* The event loop runs at no critical point.
LEMMA LoopRuns ==
  ASSUME Typed, Good, EventLoopRuns
  PROVE  \A g \in InProgress : g.at \notin Critical /\ ~g.ret
  <1>1. CASE stack = <<>>
    BY <1>1, Innermost DEF Typed
  <1>2. CASE stack # <<>>
    <2>1. /\ Head(stack).at \in {"sequence wait", "query wait"}
          /\ InProgress = {Head(stack)} \cup Outer
      BY <1>2, Innermost DEF Typed, EventLoopRuns, Waiting, At
    <2> QED BY <2>1 DEF Good, Undisturbed, Critical
  <1> QED BY <1>1, <1>2

LEMMA SequencedStartKeeps ==
  ASSUME Inv, NEW o \in Op, SequencedStart(o)
  PROVE  Inv'
  <1>1. Typed /\ EventLoopRuns /\ state[o] = "queued"
    BY DEF Inv, SequencedStart
  <1>2. /\ UNCHANGED <<sequenced, pending_sequenced, added, pending_watcher, replied,
                       erroneous, running, ready, shown, stack, intruded>>
        /\ watcher' = o
    BY DEF SequencedStart, model
  <1>3. InProgress' = InProgress /\ Outer' = Outer /\ Deep' = Deep
    BY <1>2 DEF InProgress, Outer, Deep
  <1>4. /\ state' \in [Op -> {"none", "queued", "started", "ended", "aborted", "dropped"}]
        /\ state'[o] = "started"
        /\ \A p \in Op : p # o => state'[p] = state[p]
    BY <1>1 DEF SequencedStart, Typed, Ranges
  <1>5. o \in 0..added /\ o # 0
    BY <1>1, QueryAssumption DEF Typed, Ranges, Op
  <1>6. \A p \in Op : state'[p] # "none" => p <= added
    BY <1>1, <1>4 DEF Typed
  <1>7. Typed'
    BY <1>1, <1>2, <1>3, <1>4, <1>5, <1>6 DEF Typed, Ranges
  <1>8. ASSUME Good, ~intruded PROVE Good'
    <2>1. \A g \in InProgress : g.at \notin Critical /\ ~g.ret
      BY <1>1, <1>8, LoopRuns
    <2>2. o = added /\ sequenced = o /\ watcher = 0 /\ o \notin replied /\ ~ready
      BY <1>1, <1>8 DEF Good, QueuedIsLatest, ReadyIsLatest, Quiet
    <2>3. \A p \in Op : state'[p] # "queued" /\ (state'[p] = "started" => p = o)
      <3>1. ASSUME NEW p \in Op, p # o PROVE state[p] # "queued" /\ state[p] # "started"
        <4>1. ~Completing /\ 0 \notin Op
          BY <1>1, <2>1, Bounds DEF Completing, Critical
        <4> QED BY <1>8, <2>2, <3>1, <4>1 DEF Good, QueuedIsLatest, StartedIsWatched
      <3> QED BY <1>4, <3>1
    <2>4. QueuedIsLatest' /\ WatchedIsLatest' /\ StartedIsWatched'
      BY <1>2, <2>2, <2>3 DEF QueuedIsLatest, WatchedIsLatest, StartedIsWatched
    <2>5. ReadyIsLatest' /\ RunningGoesOn'
      BY <1>2, <1>5, <2>2 DEF ReadyIsLatest, RunningGoesOn
    <2>6. AnswersTaken'
      BY <1>2, <1>3, <1>8, <2>2 DEF Good, AnswersTaken
    <2>7. Settled'
      BY <1>2, <1>3, <1>8, <2>1 DEF Good, Settled, Critical
    <2>8. Undisturbed'
      BY <1>2, <1>3, <1>8 DEF Good, Undisturbed
    <2> QED BY <2>4, <2>5, <2>6, <2>7, <2>8 DEF Good
  <1> QED BY <1>2, <1>7, <1>8 DEF Inv

LEMMA DropKeeps ==
  ASSUME Inv, NEW o \in Op, Drop(o)
  PROVE  Inv'
  <1>1. Typed /\ EventLoopRuns /\ state[o] = "queued"
    BY DEF Inv, Drop
  <1>2. UNCHANGED <<sequenced, pending_sequenced, added, watcher, pending_watcher, replied,
                    erroneous, running, ready, shown, stack, intruded>>
    BY DEF Drop, access, model
  <1>3. InProgress' = InProgress /\ Outer' = Outer /\ Deep' = Deep
    BY <1>2 DEF InProgress, Outer, Deep
  <1>4. /\ state' \in [Op -> {"none", "queued", "started", "ended", "aborted", "dropped"}]
        /\ state'[o] = "dropped"
        /\ \A p \in Op : p # o => state'[p] = state[p]
    BY <1>1 DEF Drop, Typed, Ranges
  <1>5. \A p \in Op : state'[p] # "none" => p <= added
    BY <1>1, <1>4 DEF Typed
  <1>6. Typed'
    BY <1>1, <1>2, <1>3, <1>4, <1>5 DEF Typed, Ranges
  <1>7. ASSUME Good, ~intruded PROVE Good'
    <2>1. \A g \in InProgress : g.at \notin Critical /\ ~g.ret
      BY <1>1, <1>7, LoopRuns
    <2>2. o = added /\ sequenced = o /\ watcher = 0 /\ ~ready /\ sequenced # 0
      BY <1>1, <1>7, Bounds DEF Good, QueuedIsLatest, ReadyIsLatest, Quiet
    <2>3. QueuedIsLatest'
      BY <1>2, <1>3, <1>4, <1>7 DEF Good, QueuedIsLatest
    <2>4. WatchedIsLatest' /\ ReadyIsLatest' /\ RunningGoesOn'
      BY <1>2, <1>4, <2>2 DEF WatchedIsLatest, ReadyIsLatest, RunningGoesOn
    <2>5. StartedIsWatched'
      BY <1>2, <1>3, <1>4, <1>7 DEF Good, StartedIsWatched, Completing
    <2>6. AnswersTaken'
      BY <1>2, <1>3, <1>7 DEF Good, AnswersTaken
    <2>7. Settled'
      BY <1>2, <1>3, <1>7, <2>1 DEF Good, Settled, Critical
    <2>8. Undisturbed'
      BY <1>2, <1>3, <1>7 DEF Good, Undisturbed
    <2> QED BY <2>3, <2>4, <2>5, <2>6, <2>7, <2>8 DEF Good
  <1> QED BY <1>2, <1>6, <1>7 DEF Inv

LEMMA QueryCompletedKeeps ==
  ASSUME Inv, NEW q \in Op, NEW error \in BOOLEAN, QueryCompleted(q, error)
  PROVE  Inv'
  <1>1. Typed /\ EventLoopRuns /\ q \notin replied /\ WatcherLives(q)
    BY DEF Inv, QueryCompleted
  <1>2. /\ UNCHANGED <<state, sequenced, pending_sequenced, watcher, pending_watcher,
                       running, ready, shown, added, intruded>>
        /\ replied' = replied \cup {q}
        /\ erroneous' \in {erroneous, erroneous \cup {q}}
    BY DEF QueryCompleted, sequencing, model
  <1> DEFINE f == Frame("take", FALSE, ready, 0, FALSE)
  <1>3. /\ f \in Call /\ f.at = "take" /\ f.op = 0 /\ f.ret = ready /\ ~f.slot
    BY <1>1, Bounds DEF Frame, Call, Point, Typed, Ranges
  <1>4. stack' = IF pending_watcher THEN stack ELSE <<f>> \o stack
    BY DEF QueryCompleted
  <1> HIDE DEF f
  <1>5. \/ watcher = q
        \/ \E g \in InProgress : g.at = "query wait" /\ g.op = q
    BY <1>1 DEF WatcherLives, InProgress
  <1>6. q \in 1..added
    <2>1. watcher \in 0..added /\ added \in 0..MaxOps /\ \A g \in InProgress : g.op <= added
      BY <1>1 DEF Typed, Ranges
    <2>2. q <= added
      <3>1. CASE watcher = q
        BY <2>1, <3>1
      <3>2. CASE \E g \in InProgress : g.at = "query wait" /\ g.op = q
        BY <2>1, <3>2
      <3> QED BY <1>5, <3>1, <3>2
    <2> QED BY <2>1, <2>2, QueryAssumption DEF Op
  <1>7. erroneous' \subseteq replied' /\ replied' \subseteq Op
    BY <1>1, <1>2 DEF Typed, Ranges
  <1>8. CASE pending_watcher
    <2>1. InProgress' = InProgress /\ Outer' = Outer /\ Deep' = Deep /\ stack' = stack
      BY <1>4, <1>8 DEF InProgress, Outer, Deep
    <2>2. Typed'
      BY <1>1, <1>2, <1>7, <2>1 DEF Typed, Ranges
    <2>3. ASSUME Good, ~intruded PROVE Good'
      <3>1. \A g \in InProgress : g.at \notin Critical /\ ~g.ret
        BY <1>1, <2>3, LoopRuns
      <3>2. QueuedIsLatest'
        BY <1>2, <1>5, <2>1, <2>3, <1>1, Bounds DEF Good, QueuedIsLatest
      <3>3. WatchedIsLatest' /\ StartedIsWatched'
        BY <1>2, <2>1, <2>3 DEF Good, WatchedIsLatest, StartedIsWatched, Completing
      <3>4. ReadyIsLatest' /\ RunningGoesOn'
        BY <1>2, <2>1, <2>3 DEF Good, ReadyIsLatest, Quiet, RunningGoesOn
      <3>5. AnswersTaken'
        BY <1>2, <1>6, <1>8, <2>1, <2>3 DEF Good, AnswersTaken, Taking
      <3>6. Settled'
        BY <1>2, <2>1, <2>3, <3>1 DEF Good, Settled, Critical
      <3>7. Undisturbed'
        BY <1>2, <2>1, <2>3 DEF Good, Undisturbed
      <3> QED BY <3>2, <3>3, <3>4, <3>5, <3>6, <3>7 DEF Good
    <2> QED BY <1>2, <2>2, <2>3 DEF Inv
  <1>9. CASE ~pending_watcher
    <2>1. /\ stack' \in Seq(Call) /\ stack' # <<>> /\ Head(stack') = f
          /\ InProgress' = {f} \cup InProgress /\ Outer' = InProgress /\ Deep' = Outer
          /\ Outer \subseteq InProgress
      BY <1>1, <1>3, <1>4, <1>9, Called, Innermost DEF Typed
    <2>2. f.op <= added
      BY <1>1, <1>3, Bounds
    <2>3. Typed'
      BY <1>1, <1>2, <1>7, <2>1, <2>2 DEF Typed, Ranges
    <2>4. ASSUME Good, ~intruded PROVE Good'
      <3>1. \A g \in InProgress : g.at \notin Critical /\ ~g.ret
        BY <1>1, <2>4, LoopRuns
      <3>2. QueuedIsLatest'
        BY <1>1, <1>2, <1>3, <1>5, <2>1, <2>4, Bounds DEF Good, QueuedIsLatest
      <3>3. WatchedIsLatest' /\ StartedIsWatched'
        BY <1>2, <2>1, <2>4 DEF Good, WatchedIsLatest, StartedIsWatched, Completing
      <3>4. ReadyIsLatest' /\ RunningGoesOn'
        BY <1>2, <2>1, <2>4 DEF Good, ReadyIsLatest, Quiet, RunningGoesOn
      <3>5. AnswersTaken'
        BY <1>2, <1>3, <1>6, <1>9, <2>1, <2>4 DEF Good, AnswersTaken, Taking
      <3>6. Settled'
        BY <1>2, <1>3, <2>1, <3>1 DEF Settled, Critical
      <3>7. Undisturbed'
        BY <1>2, <1>3, <2>1, <3>1 DEF Undisturbed
      <3> QED BY <3>2, <3>3, <3>4, <3>5, <3>6, <3>7 DEF Good
    <2> QED BY <1>2, <2>3, <2>4 DEF Inv
  <1> QED BY <1>8, <1>9

LEMMA RefreshModelKeeps ==
  ASSUME Inv, NEW mode \in SUBSET {"Flush", "Block"}, RefreshModel(mode)
  PROVE  Inv'
  <1> DEFINE blocks == "Block" \in mode
             next == IF blocks /\ running THEN "block" ELSE "take"
             f == Frame("flush", blocks, FALSE, 0, SlotsRun("unready", ready))
             g == Frame(next, blocks, ready, 0, FALSE)
  <1>1. Typed /\ CallersRun
    BY DEF Inv, RefreshModel
  <1>2. /\ UNCHANGED <<state, sequenced, pending_sequenced, watcher, pending_watcher,
                       replied, erroneous, running, shown, added>>
    BY DEF RefreshModel, sequencing, access
  <1>3. \/ /\ ready' = FALSE /\ intruded' = (intruded \/ ~EventLoopRuns)
           /\ stack' = <<f>> \o stack
        \/ /\ ready' = ready /\ intruded' = intruded /\ stack' = <<g>> \o stack
    BY DEF RefreshModel
  <1>4. /\ f \in Call /\ f.at = "flush" /\ f.op = 0 /\ ~f.ret /\ (f.slot => ready)
    <2>1. blocks \in BOOLEAN
      OBVIOUS
    <2> HIDE DEF blocks
    <2> QED BY <2>1, <1>1, Bounds, SlotsOfSignal DEF Frame, Call, Point
  <1>5. /\ g \in Call /\ g.at = next /\ g.op = 0 /\ g.ret = ready /\ ~g.slot
    <2>1. blocks \in BOOLEAN /\ next \in Point
      BY DEF Point
    <2> HIDE DEF blocks, next
    <2> QED BY <2>1, <1>1, Bounds DEF Frame, Call, Typed, Ranges
  <1>6. next \in {"block", "take"} /\ (~running => next = "take")
    OBVIOUS
  <1>7. Outer \subseteq InProgress /\ f.op <= added /\ g.op <= added
    BY <1>1, <1>4, <1>5, Innermost, Bounds DEF Typed
  <1> HIDE DEF f, g, next, blocks
  <1>8. CASE ready' = FALSE /\ intruded' = (intruded \/ ~EventLoopRuns)
             /\ stack' = <<f>> \o stack
    <2>1. /\ stack' \in Seq(Call) /\ stack' # <<>> /\ Head(stack') = f
          /\ InProgress' = {f} \cup InProgress /\ Outer' = InProgress /\ Deep' = Outer
      BY <1>1, <1>4, <1>8, Called DEF Typed
    <2>2. Typed'
      <3>1. intruded' \in BOOLEAN
        BY <1>1, <1>8 DEF Typed
      <3> QED BY <1>1, <1>2, <1>7, <1>8, <2>1, <3>1 DEF Typed, Ranges
    <2>3. ASSUME Good, EventLoopRuns PROVE Good'
      <3>1. \A h \in InProgress : h.at \notin Critical /\ ~h.ret
        BY <1>1, <2>3, LoopRuns
      <3>2. QueuedIsLatest' /\ WatchedIsLatest'
        BY <1>2, <1>4, <2>1, <2>3 DEF Good, QueuedIsLatest, WatchedIsLatest
      <3>3. StartedIsWatched' /\ RunningGoesOn'
        BY <1>2, <2>1, <2>3 DEF Good, StartedIsWatched, Completing, RunningGoesOn
      <3>4. ReadyIsLatest'
        BY <1>8 DEF ReadyIsLatest
      <3>5. AnswersTaken'
        BY <1>2, <2>1, <2>3 DEF Good, AnswersTaken
      <3>6. Settled'
        <4>1. f.slot => Quiet'
          BY <1>2, <1>4, <2>3 DEF Good, ReadyIsLatest, Quiet
        <4> QED BY <1>2, <1>4, <1>7, <1>8, <2>1, <3>1, <4>1 DEF Settled, Critical
      <3>7. Undisturbed'
        BY <1>4, <2>1, <3>1 DEF Undisturbed
      <3> QED BY <3>2, <3>3, <3>4, <3>5, <3>6, <3>7 DEF Good
    <2> QED BY <1>8, <2>2, <2>3 DEF Inv
  <1>9. CASE ready' = ready /\ intruded' = intruded /\ stack' = <<g>> \o stack
    <2>1. /\ stack' \in Seq(Call) /\ stack' # <<>> /\ Head(stack') = g
          /\ InProgress' = {g} \cup InProgress /\ Outer' = InProgress /\ Deep' = Outer
      BY <1>1, <1>5, <1>9, Called DEF Typed
    <2>2. Typed'
      BY <1>1, <1>2, <1>7, <1>9, <2>1 DEF Typed, Ranges
    <2>3. ASSUME Good, ~intruded PROVE Good'
      <3>1. /\ \A h \in Outer : h.at \notin Critical
            /\ \A h \in InProgress : ~h.ret /\ (h.at \in Critical => h.slot)
        <4>1. CASE EventLoopRuns
          BY <1>1, <1>7, <2>3, <4>1, LoopRuns
        <4>2. CASE ~EventLoopRuns
          <5>1. stack # <<>> /\ Head(stack).slot /\ InProgress = {Head(stack)} \cup Outer
            BY <1>1, <4>2, Innermost DEF CallersRun, EventLoopRuns, Typed
          <5> QED BY <2>3, <5>1 DEF Good, Undisturbed
        <4> QED BY <4>1, <4>2
      <3>2. g.at \in {"block", "take"} /\ (ready \/ ~running => g.at = "take")
        BY <1>5, <1>6, <2>3 DEF Good, ReadyIsLatest, Quiet
      <3>3. \A h \in InProgress : h.at \in Critical => g.at = "take" \/ h.at = "add"
        BY <2>3, <3>1, <3>2 DEF Good, Settled, Quiet, Critical
      <3>4. QueuedIsLatest' /\ WatchedIsLatest'
        BY <1>2, <2>1, <2>3, <3>2 DEF Good, QueuedIsLatest, WatchedIsLatest
      <3>5. StartedIsWatched' /\ RunningGoesOn'
        BY <1>2, <2>1, <2>3 DEF Good, StartedIsWatched, Completing, RunningGoesOn
      <3>6. ReadyIsLatest'
        BY <1>2, <1>9, <2>3 DEF Good, ReadyIsLatest, Quiet
      <3>7. AnswersTaken'
        BY <1>2, <2>1, <2>3 DEF Good, AnswersTaken
      <3>8. Settled'
        <4>1. Quiet' <=> Quiet
          BY <1>2 DEF Quiet
        <4>2. g.at \notin Critical /\ g.at # "add"
          BY <3>2 DEF Critical
        <4> QED BY <1>2, <1>9, <2>1, <2>3, <3>1, <4>1, <4>2 DEF Good, Settled, Critical
      <3>9. Undisturbed'
        BY <1>5, <1>9, <2>1, <3>1, <3>2, <3>3 DEF Undisturbed
      <3> QED BY <3>4, <3>5, <3>6, <3>7, <3>8, <3>9 DEF Good
    <2> QED BY <1>9, <2>2, <2>3 DEF Inv
  <1> QED BY <1>3, <1>8, <1>9

----------------------------------------------------------------------------
(* The marks of pending waits, slots that intrude or not.                  *)

SequenceWait == {"sequence wait", "waited"}

LEMMA PendingAmong ==
  PendingWaits <=>
    /\ pending_sequenced => \E f \in InProgress : f.at \in SequenceWait
    /\ pending_watcher => \E f \in InProgress : f.at = "query wait"
  BY DEF PendingWaits, InProgress, SequenceWait

\* The marks of a call that goes on from one point to another.
MarksFollow(from, point) ==
  /\ pending_sequenced' =>
       point \in SequenceWait \/ (pending_sequenced /\ from \notin SequenceWait)
  /\ pending_watcher' =>
       point = "query wait" \/ (pending_watcher /\ from # "query wait")

\* The innermost call goes on, and takes its mark along or takes it away.
LEMMA PendingGoneOn ==
  ASSUME Typed, PendingWaits, NEW from, At(from),
         NEW point \in Point, NEW op \in 0..MaxOps, NEW slot \in BOOLEAN,
         Goto(point, op, slot), MarksFollow(from, point)
  PROVE  PendingWaits'
  <1> DEFINE f == Frame(point, Blocks, Head(stack).ret, op, slot)
  <1>1. /\ stack # <<>> /\ stack \in Seq(Call) /\ Head(stack).at = from
        /\ Head(stack).ret \in BOOLEAN /\ Head(stack).block \in BOOLEAN
        /\ InProgress = {Head(stack)} \cup Outer
    BY AtPoint
  <1>2. f \in Call /\ f.at = point
    BY <1>1 DEF Frame, Call, Blocks
  <1>3. stack' = <<f>> \o Tail(stack)
    BY DEF Goto
  <1> HIDE DEF f
  <1>4. InProgress' = {f} \cup Outer
    BY <1>1, <1>2, <1>3, GoneOn
  <1>5. pending_sequenced' => \E g \in InProgress' : g.at \in SequenceWait
    BY <1>1, <1>2, <1>4, PendingAmong DEF MarksFollow
  <1>6. pending_watcher' => \E g \in InProgress' : g.at = "query wait"
    BY <1>1, <1>2, <1>4, PendingAmong DEF MarksFollow
  <1> QED BY <1>5, <1>6 DEF PendingWaits, InProgress, SequenceWait

\* No call that waits returns, and no mark is set.
LEMMA PendingOthers ==
  ASSUME Typed, PendingWaits,
         pending_sequenced' => pending_sequenced, pending_watcher' => pending_watcher,
         \/ stack' = stack
         \/ \E f \in Call : stack' = <<f>> \o stack
         \/ /\ stack # <<>> /\ stack' = Tail(stack)
            /\ Head(stack).at \notin SequenceWait \cup {"query wait"}
  PROVE  PendingWaits'
  <1>1. stack \in Seq(Call)
    BY DEF Typed
  <1>2. CASE stack' = stack
    BY <1>2 DEF PendingWaits
  <1>3. CASE \E f \in Call : stack' = <<f>> \o stack
    <2>1. InProgress \subseteq InProgress'
      BY <1>1, <1>3, Called
    <2>2. /\ pending_sequenced' => \E g \in InProgress' : g.at \in SequenceWait
          /\ pending_watcher' => \E g \in InProgress' : g.at = "query wait"
      BY <2>1, PendingAmong
    <2> QED BY <2>2 DEF PendingWaits, InProgress, SequenceWait
  <1>4. CASE /\ stack # <<>> /\ stack' = Tail(stack)
             /\ Head(stack).at \notin SequenceWait \cup {"query wait"}
    <2>1. InProgress = {Head(stack)} \cup Outer /\ InProgress' = Outer
      BY <1>1, <1>4, Innermost, Returned
    <2>2. /\ pending_sequenced' => \E g \in InProgress' : g.at \in SequenceWait
          /\ pending_watcher' => \E g \in InProgress' : g.at = "query wait"
      BY <1>4, <2>1, PendingAmong
    <2> QED BY <2>2 DEF PendingWaits, InProgress, SequenceWait
  <1> QED BY <1>2, <1>3, <1>4

\* A call that does not wait returns.
LEMMA PendingReturned ==
  ASSUME Typed, PendingWaits, NEW from \in {"take", "result"}, At(from),
         UNCHANGED <<pending_sequenced, pending_watcher>>, stack' = Tail(stack)
  PROVE  PendingWaits'
  <1>1. stack # <<>> /\ Head(stack).at = from
    BY AtPoint
  <1>2. from \notin SequenceWait \cup {"query wait"}
    BY DEF SequenceWait
  <1> QED BY <1>1, <1>2, PendingOthers

\* The steps of a refresh.
LEMMA PendingWhileGoing ==
  ASSUME Typed, PendingWaits, GoesOn
  PROVE  PendingWaits'
  <1>1. 0 \in 0..MaxOps /\ sequenced \in 0..MaxOps /\ watcher \in 0..MaxOps /\ FALSE \in BOOLEAN
    BY Bounds DEF Typed, Ranges
  <1>2. \A point, emitted : SlotsRun(point, emitted) \in BOOLEAN
    BY DEF SlotsRun
  <1>3. CASE Flush
    <2>1. At("flush") /\ Goto("add", 0, SlotsRun("running", ~running))
      BY <1>3 DEF Flush
    <2>2. MarksFollow("flush", "add")
      BY <1>3 DEF Flush, abort, MarksFollow, SequenceWait
    <2>3. "add" \in Point
      BY DEF Point
    <2> QED BY <1>1, <1>2, <2>1, <2>2, <2>3, PendingGoneOn
  <1>4. CASE AddOperation
    <2>1. At("add")
      BY <1>4 DEF AddOperation
    <2>2. CASE Goto("block", 0, FALSE) /\ MarksFollow("add", "block")
      <3>1. "block" \in Point
        BY DEF Point
      <3> QED BY <1>1, <1>2, <2>1, <2>2, <3>1, PendingGoneOn
    <2>3. CASE Goto("take", 0, FALSE) /\ MarksFollow("add", "take")
      <3>1. "take" \in Point
        BY DEF Point
      <3> QED BY <1>1, <1>2, <2>1, <2>3, <3>1, PendingGoneOn
    <2> QED BY <1>4, <2>2, <2>3 DEF AddOperation, MarksFollow, SequenceWait
  <1>5. CASE Block
    <2>1. /\ At("block")
          /\ MarksFollow("block", "sequence wait") /\ MarksFollow("block", "waited")
          /\ pending_sequenced' = pending_sequenced => MarksFollow("block", "wait")
      <3>1. At("block") /\ pending_watcher' = pending_watcher
        BY <1>5 DEF Block, access
      <3> QED BY <3>1 DEF MarksFollow, SequenceWait
    <2>2. "sequence wait" \in Point /\ "waited" \in Point /\ "wait" \in Point
      BY DEF Point
    <2>3. CASE Goto("sequence wait", sequenced, FALSE)
      BY <1>1, <1>2, <2>1, <2>2, <2>3, PendingGoneOn
    <2>4. CASE Goto("waited", 0, SlotsRun("waited", Dropped))
      BY <1>1, <1>2, <2>1, <2>2, <2>4, PendingGoneOn
    <2>5. CASE Goto("wait", 0, FALSE) /\ pending_sequenced' = pending_sequenced
      BY <1>1, <1>2, <2>1, <2>2, <2>5, PendingGoneOn
    <2> QED BY <1>5, <2>3, <2>4, <2>5 DEF Block
  <1>6. CASE SequenceWaited
    <2>1. At("sequence wait") /\ Goto("waited", 0, SlotsRun("waited", state[Head(stack).op] \in {"aborted", "dropped"}))
      BY <1>6 DEF SequenceWaited
    <2>2. MarksFollow("sequence wait", "waited")
      BY <1>6 DEF SequenceWaited, sequencing, access, MarksFollow, SequenceWait
    <2>3. "waited" \in Point
      BY DEF Point
    <2> QED BY <1>1, <1>2, <2>1, <2>2, <2>3, PendingGoneOn
  <1>7. CASE Waited
    <2>1. At("waited") /\ Goto("wait", 0, FALSE)
      BY <1>7 DEF Waited
    <2>2. MarksFollow("waited", "wait")
      BY <1>7 DEF Waited, access, MarksFollow, SequenceWait
    <2>3. "wait" \in Point
      BY DEF Point
    <2> QED BY <1>1, <1>2, <2>1, <2>2, <2>3, PendingGoneOn
  <1>8. CASE waitForQueryComplete
    <2>1. /\ At("wait") /\ MarksFollow("wait", "query wait")
          /\ pending_watcher' = pending_watcher => MarksFollow("wait", "take")
      <3>1. At("wait") /\ pending_sequenced' = pending_sequenced
        BY <1>8 DEF waitForQueryComplete, sequencing
      <3> QED BY <3>1 DEF MarksFollow, SequenceWait
    <2>2. "query wait" \in Point /\ "take" \in Point
      BY DEF Point
    <2>3. CASE Goto("query wait", watcher, FALSE)
      BY <1>1, <1>2, <2>1, <2>2, <2>3, PendingGoneOn
    <2>4. CASE Goto("take", 0, FALSE) /\ pending_watcher' = pending_watcher
      BY <1>1, <1>2, <2>1, <2>2, <2>4, PendingGoneOn
    <2> QED BY <1>8, <2>3, <2>4 DEF waitForQueryComplete
  <1>9. CASE QueryWaited
    <2>1. At("query wait") /\ Goto("wait", 0, FALSE)
      BY <1>9 DEF QueryWaited
    <2>2. MarksFollow("query wait", "wait")
      BY <1>9 DEF QueryWaited, sequencing, MarksFollow, SequenceWait
    <2>3. "wait" \in Point
      BY DEF Point
    <2> QED BY <1>1, <1>2, <2>1, <2>2, <2>3, PendingGoneOn
  <1>10. CASE Take
    <2>1. At("take") /\ UNCHANGED <<pending_sequenced, pending_watcher>>
      BY <1>10 DEF Take, sequencing
    <2>2. CASE Goto("taken", watcher, SlotsRun("stopped", running))
      <3>1. "taken" \in Point /\ MarksFollow("take", "taken")
        BY <2>1 DEF Point, MarksFollow, SequenceWait
      <3> QED BY <1>1, <1>2, <2>1, <2>2, <3>1, PendingGoneOn
    <2>3. CASE stack' = Tail(stack)
      BY <2>1, <2>3, PendingReturned
    <2> QED BY <1>10, <2>2, <2>3 DEF Take, Return
  <1>11. CASE Taken
    <2>1. /\ At("taken") /\ UNCHANGED <<pending_sequenced, pending_watcher>>
          /\ Goto("result", Head(stack).op,
                  SlotsRun("result", Head(stack).op \in erroneous => Blocks))
      BY <1>11 DEF Taken, access
    <2>2. "result" \in Point /\ MarksFollow("taken", "result")
      BY <2>1 DEF Point, MarksFollow, SequenceWait
    <2>3. Head(stack).op \in 0..MaxOps
      BY <2>1, AtPoint, Bounds
    <2> QED BY <1>2, <2>1, <2>2, <2>3, PendingGoneOn
  <1>12. CASE Result
    <2>1. /\ At("result") /\ UNCHANGED <<pending_sequenced, pending_watcher>>
          /\ stack' = Tail(stack)
      BY <1>12 DEF Result, access, Return
    <2> QED BY <2>1, PendingReturned
  <1> QED BY <1>3, <1>4, <1>5, <1>6, <1>7, <1>8, <1>9, <1>10, <1>11, <1>12 DEF GoesOn

LEMMA PendingKept ==
  ASSUME Typed, PendingWaits, [Next]_vars
  PROVE  PendingWaits'
  <1>1. ASSUME NEW mode \in SUBSET {"Flush", "Block"}, RefreshModel(mode)
        PROVE  PendingWaits'
    <2>1. UNCHANGED <<pending_sequenced, pending_watcher>>
      BY <1>1 DEF RefreshModel, sequencing, access
    <2>2. ready \in BOOLEAN /\ 0 \in 0..MaxOps
      BY Bounds DEF Typed, Ranges
    <2>3. \E f \in Call : stack' = <<f>> \o stack
      <3>1. CASE stack' = <<Frame("flush", "Block" \in mode, FALSE, 0,
                                  SlotsRun("unready", ready))>> \o stack
        <4> DEFINE f == Frame("flush", "Block" \in mode, FALSE, 0,
                              SlotsRun("unready", ready))
        <4>1. f \in Call
          BY <2>2, SlotsOfSignal DEF Frame, Call, Point
        <4> HIDE DEF f
        <4>2. stack' = <<f>> \o stack
          BY <3>1 DEF f
        <4> QED BY <4>1, <4>2
      <3>2. CASE stack' = <<Frame(IF "Block" \in mode /\ running THEN "block" ELSE "take",
                                  "Block" \in mode, ready, 0, FALSE)>> \o stack
        <4> DEFINE f == Frame(IF "Block" \in mode /\ running THEN "block" ELSE "take",
                              "Block" \in mode, ready, 0, FALSE)
        <4>1. f \in Call
          BY <2>2 DEF Frame, Call, Point
        <4> HIDE DEF f
        <4>2. stack' = <<f>> \o stack
          BY <3>2 DEF f
        <4> QED BY <4>1, <4>2
      <3> QED BY <1>1, <3>1, <3>2 DEF RefreshModel
    <2> QED BY <2>1, <2>3, PendingOthers
  <1>2. CASE Stop
    BY <1>2, PendingOthers DEF Stop, abort
  <1>3. CASE GoesOn
    BY <1>3, PendingWhileGoing
  <1>4. ASSUME NEW o \in Op, SequencedStart(o) \/ Drop(o) PROVE PendingWaits'
    <2>1. UNCHANGED <<pending_sequenced, pending_watcher, stack>>
      BY <1>4 DEF SequencedStart, Drop, access
    <2> QED BY <2>1, PendingOthers
  <1>5. ASSUME NEW q \in Op, NEW error \in BOOLEAN, QueryCompleted(q, error)
        PROVE  PendingWaits'
    <2>1. /\ UNCHANGED <<pending_sequenced, pending_watcher>>
          /\ \/ stack' = stack
             \/ stack' = <<Frame("take", FALSE, ready, 0, FALSE)>> \o stack
      BY <1>5 DEF QueryCompleted, sequencing
    <2>2. Frame("take", FALSE, ready, 0, FALSE) \in Call
      BY Bounds DEF Typed, Ranges, Frame, Call, Point
    <2> QED BY <2>1, <2>2, PendingOthers
  <1>6. CASE UNCHANGED vars
    BY <1>6, PendingOthers DEF vars, sequencing, access
  <1> QED BY <1>1, <1>2, <1>3, <1>4, <1>5, <1>6 DEF Next

----------------------------------------------------------------------------
(* The theorems.                                                           *)

\* The invariant holds of every behaviour of the query model.
THEOREM Invariance == Spec => []Inv
  <1>1. Init => Inv
    <2> SUFFICES ASSUME Init PROVE Inv
      OBVIOUS
    <2>1. InProgress = {} /\ Outer = {} /\ Deep = {} /\ stack \in Seq(Call)
      BY NoCalls DEF Init, InProgress, Outer, Deep
    <2>2. 0 \in 0..0 /\ 0 \in 0..MaxOps /\ 0 \notin Op
      BY QueryAssumption DEF Op
    <2>3. Typed
      BY <2>1, <2>2 DEF Init, Typed, Ranges
    <2>4. Good
      BY <2>1, <2>2
      DEF Init, Good, QueuedIsLatest, WatchedIsLatest, StartedIsWatched, ReadyIsLatest,
          RunningGoesOn, AnswersTaken, Settled, Undisturbed
    <2> QED BY <2>3, <2>4 DEF Inv
  <1>2. Inv /\ [Next]_vars => Inv'
    <2> SUFFICES ASSUME Inv, [Next]_vars PROVE Inv'
      OBVIOUS
    <2>1. ASSUME NEW mode \in SUBSET {"Flush", "Block"}, RefreshModel(mode) PROVE Inv'
      BY <2>1, RefreshModelKeeps
    <2>2. CASE Stop
      BY <2>2, StopKeeps
    <2>3. CASE GoesOn
      BY <2>3, FlushKeeps, AddOperationKeeps, BlockKeeps, SequenceWaitedKeeps, WaitedKeeps,
         WaitForQueryKeeps, QueryWaitedKeeps, TakeKeeps, TakenKeeps, ResultKeeps DEF GoesOn
    <2>4. ASSUME NEW o \in Op, SequencedStart(o) \/ Drop(o) PROVE Inv'
      BY <2>4, SequencedStartKeeps, DropKeeps
    <2>5. ASSUME NEW q \in Op, NEW error \in BOOLEAN, QueryCompleted(q, error) PROVE Inv'
      BY <2>5, QueryCompletedKeeps
    <2>6. CASE UNCHANGED vars
      <3>1. UNCHANGED <<state, sequenced, pending_sequenced, watcher, pending_watcher,
                        replied, erroneous, running, ready, shown, stack, added, intruded>>
        BY <2>6 DEF vars, sequencing, access, model
      <3>2. InProgress' = InProgress /\ Outer' = Outer /\ Deep' = Deep
        BY <3>1 DEF InProgress, Outer, Deep
      <3>3. Typed' <=> Typed
        BY <3>1, <3>2 DEF Typed, Ranges
      <3>4. (Quiet' <=> Quiet) /\ (Completing' <=> Completing)
        BY <3>1, <3>2 DEF Quiet, Completing
      <3>5. Good' <=> Good
        BY <3>1, <3>2, <3>4
        DEF Good, QueuedIsLatest, WatchedIsLatest, StartedIsWatched, ReadyIsLatest,
            RunningGoesOn, AnswersTaken, Settled, Undisturbed
      <3> QED BY <3>1, <3>3, <3>5 DEF Inv
    <2> QED BY <2>1, <2>2, <2>3, <2>4, <2>5, <2>6 DEF Next
  <1> QED BY <1>1, <1>2, PTL DEF Spec

\* The state keeps its shape, and no mark of a pending wait is left behind, slots
\* that intrude or not.
THEOREM TypesKept == Spec => []TypeOK
  <1>1. Init => PendingWaits
    BY DEF Init, PendingWaits
  <1>2. Inv /\ PendingWaits /\ [Next]_vars => PendingWaits'
    BY PendingKept DEF Inv
  <1>3. Inv /\ PendingWaits => TypeOK
    BY DEF Inv, Typed, TypeOK
  <1> QED BY <1>1, <1>2, <1>3, Invariance, PTL DEF Spec

\* However flushes, stops and waits of a model are nested, when it is ready it
\* shows what its latest flush asked for, not a query that was overtaken.
THEOREM LatestIsShown == Spec => []ReadyShowsLatest
  <1>1. Inv => ReadyShowsLatest
    BY DEF Inv, Good, ReadyIsLatest, ReadyShowsLatest
  <1> QED BY <1>1, Invariance, PTL

\* Outside calls, a model that shows Running has something to wait for: its
\* operation or the reply to its query.
THEOREM RunningWaits == Spec => []NoIdleRunning
  <1>1. Inv => NoIdleRunning
    <2> SUFFICES ASSUME Inv, stack = <<>>, running, ~intruded, ~Dropped
                 PROVE  \/ sequenced # 0 /\ state[sequenced] = "queued"
                        \/ watcher # 0 /\ watcher \notin replied
      BY DEF NoIdleRunning
    <2>1. InProgress = {}
      BY Innermost DEF Inv, Typed
    <2> QED BY <2>1 DEF Inv, Good, RunningGoesOn, AnswersTaken, Dropped
  <1> QED BY <1>1, Invariance, PTL

\* Outside calls, an operation that others on the sequencer wait for has its
\* query under way: no abort leaves one behind.
THEOREM NothingHeldUp == Spec => []NoneHeldUp
  <1>1. Inv => NoneHeldUp
    <2> SUFFICES ASSUME Inv, stack = <<>>, ~intruded,
                        NEW o \in Op, state[o] = "started"
                 PROVE  watcher = o /\ o \notin replied
      BY DEF NoneHeldUp
    <2>1. InProgress = {}
      BY Innermost DEF Inv, Typed
    <2> QED BY <2>1 DEF Inv, Good, StartedIsWatched, AnswersTaken, Completing
  <1> QED BY <1>1, Invariance, PTL

\* The rows of a model are only ever replaced by those of its latest flush, also
\* while it is not ready: the answer to an aborted or overtaken query, waited
\* for or not, never gets as far as the rows.
THEOREM OvertakenNeverShown ==
  Spec => [][shown' # shown /\ ~intruded => shown' = added]_vars
  <1>1. Inv /\ [Next]_vars => [shown' # shown /\ ~intruded => shown' = added]_vars
    <2> SUFFICES ASSUME Inv, [Next]_vars, shown' # shown, ~intruded
                 PROVE  shown' = added
      OBVIOUS
    <2>1. Taken
      BY DEF Next, GoesOn, RefreshModel, Stop, Flush, AddOperation, Block, SequenceWaited,
         Waited, waitForQueryComplete, QueryWaited, Take, Result, SequencedStart, Drop,
         QueryCompleted, Unmoved, vars, model
    <2>2. Head(stack).at = "taken" /\ Head(stack) \in InProgress
      BY <2>1, AtPoint DEF Taken, Inv
    <2>3. shown' = Head(stack).op
      BY <2>1 DEF Taken
    <2> QED BY <2>2, <2>3 DEF Inv, Good, Settled
  <1> QED BY <1>1, Invariance, PTL DEF Spec

=============================================================================
