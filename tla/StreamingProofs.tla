-------------------------- MODULE StreamingProofs --------------------------
(***************************************************************************)
(* Proofs about Streaming, for every number of rows, all block sizes and   *)
(* limits, and however calls are nested.                                   *)
(***************************************************************************)
EXTENDS Streaming, SequenceTheorems, TLAPS

----------------------------------------------------------------------------
(* The inductive invariant.                                                *)

Flag == {"Streaming", "Running"}

\* The calls that may be in progress.
Altering ==
  [at : {"altered"}, slot : BOOLEAN, enables : SUBSET Flag, disables : SUBSET Flag]
Initiating == [at : {"initiate"}, slot : BOOLEAN, first : BOOLEAN]
Starting == [at : {"started"}, slot : BOOLEAN, piece : Piece]
Inserting == [at : {"inserted"}, slot : BOOLEAN, size : Nat, asked : Nat]
Receiving == [at : {"received"}, slot : BOOLEAN]
Frame == Altering \cup Initiating \cup Starting \cup Inserting \cup Receiving

Calls(s) == {s[i] : i \in 1..Len(s)}

\* No two calls in progress have started the same piece.
Distinct(s) ==
  \A i, j \in 1..Len(s) :
    i < j /\ s[i].at = "started" /\ s[j].at = "started" => s[i].piece # s[j].piece

Typed ==
  /\ streaming \in BOOLEAN /\ running \in BOOLEAN /\ seen_end \in BOOLEAN
  /\ remaining \in Int /\ limit \in Limits
  /\ streaming_update \in Piece \cup {NoPiece}
  /\ pending \subseteq Piece
  /\ made \in Nat
  /\ rows \in Seq(Row)
  /\ stack \in Seq(Frame)

\* The piece under way is the latest, and fetches what comes after the rows.
UnderWayIsNext ==
  streaming_update # NoPiece =>
    streaming_update.after = Len(rows) /\ streaming_update.no <= made

\* Only the piece under way is awaited.
AwaitedIsUnderWay == pending \subseteq {streaming_update} \ {NoPiece}

\* A piece that is being started is not awaited yet, and not by two calls.
StartedOnce ==
  /\ Distinct(stack)
  /\ \A f \in Calls(stack) : f.at = "started" => f.piece \notin pending /\ f.piece.no <= made

\* The piece under way is awaited or being started.
UnderWayIsHeard ==
  streaming_update # NoPiece =>
    \/ streaming_update \in pending
    \/ \E f \in Calls(stack) : f.at = "started" /\ f.piece = streaming_update

\* A running model has a piece under way, or a call that will look for one.
RunningGoesOn ==
  running =>
    \/ streaming_update # NoPiece
    \/ \E f \in Calls(stack) : f.at \in {"inserted", "received", "initiate"}

\* A piece that came out short was the last.
ShortIsLast ==
  \A f \in Calls(stack) : f.at = "inserted" /\ f.size < f.asked => Len(rows) = Total

Rows == Gapless /\ EndMeansAll /\ UnderWayIsNext /\ ShortIsLast
Pieces == AwaitedIsUnderWay /\ StartedOnce /\ UnderWayIsHeard /\ RunningGoesOn

Inv == Typed /\ Rows /\ Pieces

----------------------------------------------------------------------------
(* The calls in progress as a set.                                         *)

\* The innermost call and the others.
LEMMA Popped ==
  ASSUME NEW s \in Seq(Frame), s # <<>>
  PROVE  /\ Head(s) \in Frame /\ Tail(s) \in Seq(Frame)
         /\ Calls(s) = {Head(s)} \cup Calls(Tail(s))
         /\ Distinct(s) => Distinct(Tail(s))
         /\ Distinct(s) /\ Head(s).at = "started" =>
              \A f \in Calls(Tail(s)) : f.at = "started" => f.piece # Head(s).piece
  <1>1. /\ Len(s) \in Nat \ {0} /\ Head(s) = s[1] /\ Head(s) \in Frame
        /\ Tail(s) \in Seq(Frame)
        /\ Len(Tail(s)) = Len(s) - 1 /\ \A i \in 1..(Len(s) - 1) : Tail(s)[i] = s[i + 1]
    BY HeadTailProperties, EmptySeq, LenProperties
  <1>2. Calls(s) = {Head(s)} \cup Calls(Tail(s))
    <2>1. ASSUME NEW i \in 1..Len(s) PROVE s[i] \in {Head(s)} \cup Calls(Tail(s))
      <3>1. CASE i = 1
        BY <3>1, <1>1
      <3>2. CASE i # 1
        <4>1. i - 1 \in 1..Len(Tail(s)) /\ Tail(s)[i - 1] = s[i]
          BY <3>2, <1>1
        <4> QED BY <4>1 DEF Calls
      <3> QED BY <3>1, <3>2
    <2>2. ASSUME NEW i \in 1..Len(Tail(s)) PROVE Tail(s)[i] \in Calls(s)
      <3>1. i + 1 \in 1..Len(s) /\ Tail(s)[i] = s[i + 1]
        BY <1>1
      <3> QED BY <3>1 DEF Calls
    <2>3. Head(s) \in Calls(s)
      BY <1>1 DEF Calls
    <2> QED BY <2>1, <2>2, <2>3 DEF Calls
  <1>3. ASSUME Distinct(s) PROVE Distinct(Tail(s))
    <2> SUFFICES ASSUME NEW i \in 1..Len(Tail(s)), NEW j \in 1..Len(Tail(s)), i < j,
                        Tail(s)[i].at = "started", Tail(s)[j].at = "started"
                 PROVE  Tail(s)[i].piece # Tail(s)[j].piece
      BY DEF Distinct
    <2>1. /\ i + 1 \in 1..Len(s) /\ Tail(s)[i] = s[i + 1]
          /\ j + 1 \in 1..Len(s) /\ Tail(s)[j] = s[j + 1]
          /\ i + 1 < j + 1
      BY <1>1
    <2> QED BY <2>1, <1>3 DEF Distinct
  <1>4. ASSUME Distinct(s), Head(s).at = "started",
               NEW f \in Calls(Tail(s)), f.at = "started"
        PROVE  f.piece # Head(s).piece
    <2>1. PICK i \in 1..Len(Tail(s)) : f = Tail(s)[i]
      BY DEF Calls
    <2>2. i + 1 \in 1..Len(s) /\ f = s[i + 1] /\ 1 \in 1..Len(s) /\ 1 < i + 1
      BY <2>1, <1>1
    <2> QED BY <2>2, <1>1, <1>4 DEF Distinct
  <1> QED BY <1>1, <1>2, <1>3, <1>4

\* One more call.
LEMMA Pushed ==
  ASSUME NEW s \in Seq(Frame), NEW f \in Frame
  PROVE  /\ <<f>> \o s \in Seq(Frame) /\ <<f>> \o s # <<>>
         /\ Calls(<<f>> \o s) = {f} \cup Calls(s)
         /\ Distinct(s) /\ (\A g \in Calls(s) :
              f.at = "started" /\ g.at = "started" => g.piece # f.piece)
            => Distinct(<<f>> \o s)
  <1> DEFINE t == <<f>> \o s
  <1>1. /\ t \in Seq(Frame) /\ Len(t) = Len(s) + 1 /\ Len(s) \in Nat
        /\ t[1] = f /\ \A i \in 2..Len(t) : t[i] = s[i - 1]
    BY ConcatProperties, LenProperties
  <1>2. Calls(t) = {f} \cup Calls(s)
    <2>1. ASSUME NEW i \in 1..Len(t) PROVE t[i] \in {f} \cup Calls(s)
      <3>1. CASE i = 1
        BY <3>1, <1>1
      <3>2. CASE i # 1
        <4>1. i - 1 \in 1..Len(s) /\ t[i] = s[i - 1]
          BY <3>2, <1>1
        <4> QED BY <4>1 DEF Calls
      <3> QED BY <3>1, <3>2
    <2>2. ASSUME NEW i \in 1..Len(s) PROVE s[i] \in Calls(t)
      <3>1. i + 1 \in 1..Len(t) /\ t[i + 1] = s[i]
        BY <1>1
      <3> QED BY <3>1 DEF Calls
    <2>3. f \in Calls(t)
      BY <1>1 DEF Calls
    <2> QED BY <2>1, <2>2, <2>3 DEF Calls
  <1>3. ASSUME Distinct(s),
               \A g \in Calls(s) : f.at = "started" /\ g.at = "started" => g.piece # f.piece
        PROVE  Distinct(t)
    <2> SUFFICES ASSUME NEW i \in 1..Len(t), NEW j \in 1..Len(t), i < j,
                        t[i].at = "started", t[j].at = "started"
                 PROVE  t[i].piece # t[j].piece
      BY DEF Distinct
    <2>1. j - 1 \in 1..Len(s) /\ t[j] = s[j - 1]
      BY <1>1
    <2>2. CASE i = 1
      <3>1. s[j - 1] \in Calls(s)
        BY <2>1 DEF Calls
      <3> QED BY <3>1, <2>1, <2>2, <1>1, <1>3
    <2>3. CASE i # 1
      <3>1. i - 1 \in 1..Len(s) /\ t[i] = s[i - 1] /\ i - 1 < j - 1
        BY <2>3, <1>1
      <3> QED BY <3>1, <2>1, <1>3 DEF Distinct
    <2> QED BY <2>2, <2>3
  <1>4. t # <<>>
    BY <1>1
  <1> QED BY <1>1, <1>2, <1>3, <1>4


\* The innermost call gives way to another.
LEMMA Replaced ==
  ASSUME NEW s \in Seq(Frame), s # <<>>, NEW f \in Frame
  PROVE  /\ <<f>> \o Tail(s) \in Seq(Frame) /\ <<f>> \o Tail(s) # <<>>
         /\ Calls(<<f>> \o Tail(s)) = {f} \cup Calls(Tail(s))
         /\ Distinct(s) /\ (\A g \in Calls(Tail(s)) :
              f.at = "started" /\ g.at = "started" => g.piece # f.piece)
            => Distinct(<<f>> \o Tail(s))
  BY Popped, Pushed

\* When no call is in progress, none is.
LEMMA NoCalls == Calls(<<>>) = {} /\ Distinct(<<>>) /\ <<>> \in Seq(Frame)
  BY EmptySeq DEF Calls, Distinct

----------------------------------------------------------------------------
(* The rows.                                                               *)

\* A gapless beginning is not longer than the whole.
LEMMA RowsBounded ==
  ASSUME rows \in Seq(Row), Gapless
  PROVE  /\ Len(rows) \in Nat /\ Len(rows) <= Total
         /\ NextPiece.after = Len(rows)
  <1>1. Len(rows) \in Nat /\ (rows = <<>> <=> Len(rows) = 0)
    BY LenProperties, EmptySeq
  <1>2. CASE rows = <<>>
    BY <1>1, <1>2, SizesAssumption DEF NextPiece
  <1>3. CASE rows # <<>>
    <2>1. Len(rows) \in 1..Len(rows)
      BY <1>1, <1>3
    <2>2. rows[Len(rows)] = Len(rows) /\ rows[Len(rows)] \in Row
      BY <2>1, ElementOfSeq DEF Gapless
    <2> QED BY <2>2, <1>1, <1>3, SizesAssumption DEF Row, NextPiece
  <1> QED BY <1>2, <1>3

\* The next piece is one, whatever the limit.
LEMMA NextPieceTyped ==
  ASSUME Typed, Gapless, Head(stack).first \in BOOLEAN
  PROVE  /\ NextPiece \in Piece /\ NextPiece # NoPiece
         /\ NextPiece.no = made + 1 /\ NextPiece.after = Len(rows)
  <1>1. NextSize(Head(stack).first) \in Nat
    BY SizesAssumption DEF NextSize, Typed
  <1>2. NextPiece.after \in Nat /\ NextPiece.after = Len(rows)
    BY RowsBounded DEF Typed
  <1>3. NextPiece \in Piece
    BY <1>1, <1>2 DEF NextPiece, Piece, Typed
  <1> QED BY <1>2, <1>3, NoPieceAssumption DEF NextPiece

\* The answer to a piece that asks for what comes after the rows continues
\* them, and comes out short only at the end.
LEMMA AnswerContinues ==
  ASSUME NEW p \in Piece, rows \in Seq(Row), Gapless, p.after = Len(rows)
  PROVE  /\ Len(Answer(p)) \in Nat
         /\ rows \o Answer(p) \in Seq(Row)
         /\ Len(rows \o Answer(p)) = Len(rows) + Len(Answer(p))
         /\ \A i \in 1..Len(rows \o Answer(p)) : (rows \o Answer(p))[i] = i
         /\ Len(Answer(p)) < p.size => Len(rows \o Answer(p)) = Total
         /\ Len(rows) = Total => Len(rows \o Answer(p)) = Total
  <1> DEFINE n == IF Total - p.after < p.size THEN Total - p.after ELSE p.size
  <1>1. /\ Len(rows) \in Nat /\ p.after \in Nat /\ p.size \in Nat
        /\ p.after <= Total /\ Total \in Nat
    BY RowsBounded, SizesAssumption DEF Piece
  <1>2. n \in Nat /\ p.after + n <= Total
    BY <1>1
  <1>3. Answer(p) = [i \in 1..n |-> p.after + i]
    BY DEF Answer
  <1> HIDE DEF n
  <1>4. \A i \in 1..n : p.after + i \in Row
    BY <1>1, <1>2 DEF Row
  <1>5. Answer(p) \in Seq(Row) /\ Len(Answer(p)) = n
    <2>1. Answer(p) \in [1..n -> Row]
      BY <1>3, <1>4
    <2>2. Answer(p) \in Seq(Row)
      BY <2>1, <1>2, SeqDef
    <2> QED BY <2>1, <2>2, <1>2, LenProperties, <1>3
  <1>6. /\ rows \o Answer(p) \in Seq(Row)
        /\ Len(rows \o Answer(p)) = Len(rows) + n
        /\ \A i \in 1..Len(rows) + n : (rows \o Answer(p))[i] =
             IF i <= Len(rows) THEN rows[i] ELSE Answer(p)[i - Len(rows)]
    BY ZenonT(40), <1>5, ConcatProperties
  <1>7. ASSUME NEW i \in 1..Len(rows) + n PROVE (rows \o Answer(p))[i] = i
    <2>1. CASE i <= Len(rows)
      BY <2>1, <1>1, <1>2, <1>6 DEF Gapless
    <2>2. CASE i > Len(rows)
      <3>1. i - Len(rows) \in 1..n
        BY <2>2, <1>1, <1>2
      <3>2. Answer(p)[i - Len(rows)] = p.after + (i - Len(rows))
        BY <3>1, <1>3
      <3> QED BY <3>2, <2>2, <1>1, <1>2, <1>6
    <2>3. i \in Nat /\ (i <= Len(rows) \/ i > Len(rows))
      BY <1>1, <1>2
    <2> QED BY <2>1, <2>2, <2>3
  <1>8. /\ n < p.size => Len(rows) + n = Total
        /\ Len(rows) = Total => Len(rows) + n = Total
    BY <1>1 DEF n
  <1> QED BY <1>2, <1>5, <1>6, <1>7, <1>8

----------------------------------------------------------------------------
(* Every step keeps the invariant.                                         *)

\* A call of alterStrategy adds a call in progress that starts nothing yet.
LEMMA AlterStrategyKeeps ==
  ASSUME Inv, NEW enables \in SUBSET Flag, NEW disables \in SUBSET Flag,
         AlterStrategy(enables, disables)
  PROVE  Inv'
  <1> DEFINE f == [at |-> "altered",
                   slot |-> SlotsRun("altered", streaming' # streaming),
                   enables |-> enables, disables |-> disables]
  <1>1. f.slot \in BOOLEAN
    BY DEF SlotsRun
  <1>2. stack' = <<f>> \o stack /\ f \in Frame /\ f.at = "altered"
    BY <1>1 DEF AlterStrategy, Frame, Altering
  <1> HIDE DEF f
  <1>3. /\ Calls(stack') = {f} \cup Calls(stack)
        /\ stack' \in Seq(Frame) /\ Distinct(stack')
    <2>1. stack \in Seq(Frame) /\ Distinct(stack)
      BY DEF Inv, Typed, Pieces, StartedOnce
    <2> QED BY <1>2, <2>1, Pushed
  <1>4. /\ UNCHANGED <<running, seen_end, limit, streaming_update, pending, made, rows>>
        /\ streaming' \in BOOLEAN /\ remaining' \in Int
    <2>1. limit \in Int /\ remaining \in Int /\ streaming \in BOOLEAN /\ -1 \in Int
      BY SizesAssumption DEF Inv, Typed
    <2>2. \/ remaining' = limit /\ streaming' = TRUE
          \/ remaining' = -1 /\ streaming' = FALSE
          \/ UNCHANGED <<remaining, streaming>>
      BY Zenon DEF AlterStrategy
    <2> QED BY <2>1, <2>2 DEF AlterStrategy
  <1>5. Typed'
    BY <1>3, <1>4 DEF Inv, Typed
  <1>6. Rows'
    BY <1>2, <1>3, <1>4
    DEF Inv, Rows, Gapless, EndMeansAll, UnderWayIsNext, ShortIsLast
  <1>7. Pieces'
    BY <1>2, <1>3, <1>4
    DEF Inv, Pieces, AwaitedIsUnderWay, StartedOnce, UnderWayIsHeard, RunningGoesOn
  <1> QED BY <1>5, <1>6, <1>7 DEF Inv

\* Setting the limit, and steps that change nothing.
LEMMA SetLimitKeeps ==
  ASSUME Inv, UNCHANGED vars \/ \E l \in Limits : SetLimit(l)
  PROVE  Inv'
  <1>1. /\ UNCHANGED <<flags, remaining, streaming_update, pending, made, rows, stack>>
        /\ limit' \in Limits
    BY DEF SetLimit, vars, Inv, Typed
  <1>2. Typed'
    BY <1>1 DEF Inv, Typed, flags
  <1>3. Rows'
    BY <1>1
    DEF Inv, Rows, Gapless, EndMeansAll, UnderWayIsNext, ShortIsLast, flags
  <1>4. Pieces'
    BY <1>1
    DEF Inv, Pieces, AwaitedIsUnderWay, StartedOnce, UnderWayIsHeard, RunningGoesOn, flags
  <1> QED BY <1>2, <1>3, <1>4 DEF Inv

\* What an innermost call at a point is.
LEMMA Innermost ==
  ASSUME Inv, NEW point, At(point)
  PROVE  /\ stack # <<>> /\ Head(stack) \in Frame /\ Head(stack).at = point
         /\ Tail(stack) \in Seq(Frame)
         /\ Calls(stack) = {Head(stack)} \cup Calls(Tail(stack))
         /\ Distinct(stack) /\ Distinct(Tail(stack))
         /\ point = "started" =>
              \A f \in Calls(Tail(stack)) :
                f.at = "started" => f.piece # Head(stack).piece
  <1>1. stack \in Seq(Frame) /\ Distinct(stack) /\ stack # <<>> /\ Head(stack).at = point
    BY DEF Inv, Typed, Pieces, StartedOnce, At
  <1> QED BY <1>1, Popped

\* Return, and the call goes on at another point that starts no piece.
LEMMA GoneOn ==
  ASSUME Inv, NEW point, At(point),
         \/ Return
         \/ \E f \in Frame : f.at # "started" /\ Goto(f)
  PROVE  /\ stack' \in Seq(Frame) /\ Distinct(stack')
         /\ Return => Calls(stack') = Calls(Tail(stack))
         /\ \A f \in Frame : f.at # "started" /\ Goto(f) =>
              Calls(stack') = {f} \cup Calls(Tail(stack))
  <1>1. /\ stack \in Seq(Frame) /\ stack # <<>> /\ Distinct(stack)
        /\ Tail(stack) \in Seq(Frame) /\ Distinct(Tail(stack))
    BY Innermost DEF Inv, Typed
  <1>2. CASE Return
    <2>1. stack' = Tail(stack)
      BY <1>2 DEF Return
    <2>2. ASSUME NEW f \in Frame, f.at # "started", Goto(f)
          PROVE  Calls(stack') = {f} \cup Calls(Tail(stack))
      BY <2>2, <1>1, Replaced DEF Goto
    <2> QED BY <1>1, <2>1, <2>2
  <1>3. ASSUME NEW f \in Frame, f.at # "started", Goto(f)
        PROVE  /\ stack' \in Seq(Frame) /\ Distinct(stack')
               /\ Calls(stack') = {f} \cup Calls(Tail(stack))
    <2>1. stack' = <<f>> \o Tail(stack)
      BY <1>3 DEF Goto
    <2> QED BY <1>1, <1>3, <2>1, Replaced
  <1> QED BY <1>2, <1>3 DEF Return

LEMMA AlteredKeeps ==
  ASSUME Inv, Altered
  PROVE  Inv'
  <1>1. /\ At("altered")
        /\ Calls(stack) = {Head(stack)} \cup Calls(Tail(stack))
        /\ Head(stack).at = "altered"
    BY Innermost DEF Altered
  <1>2. /\ UNCHANGED <<streaming, seen_end, remaining, made, rows, limit>>
        /\ running' \in BOOLEAN
    BY DEF Altered, Unmoved, Cancel, Inv, Typed
  <1>3. CASE Cancel
    <2>1. /\ streaming_update' = NoPiece /\ pending' = pending \ {streaming_update}
          /\ running' = (running /\ streaming_update = NoPiece) /\ Return
      BY <1>3 DEF Cancel
    <2>2. /\ stack' \in Seq(Frame) /\ Distinct(stack')
          /\ Calls(stack') = Calls(Tail(stack))
      BY <1>1, <2>1, GoneOn
    <2>3. Typed'
      BY <1>2, <2>1, <2>2 DEF Inv, Typed
    <2>4. Rows'
      BY <1>1, <1>2, <2>1, <2>2
      DEF Inv, Rows, Gapless, EndMeansAll, UnderWayIsNext, ShortIsLast
    <2>5. Pieces'
      BY <1>1, <1>2, <2>1, <2>2
      DEF Inv, Pieces, AwaitedIsUnderWay, StartedOnce, UnderWayIsHeard, RunningGoesOn
    <2> QED BY <2>3, <2>4, <2>5 DEF Inv
  <1>4. CASE /\ UNCHANGED <<running, streaming_update, pending>>
             /\ Return \/ Goto(Initiation(TRUE))
    <2>1. Initiation(TRUE) \in Frame /\ Initiation(TRUE).at = "initiate"
      BY DEF Initiation, Frame, Initiating
    <2>2. /\ stack' \in Seq(Frame) /\ Distinct(stack')
          /\ \/ Calls(stack') = Calls(Tail(stack))
             \/ Calls(stack') = {Initiation(TRUE)} \cup Calls(Tail(stack))
      BY <1>1, <1>4, <2>1, GoneOn
    <2>3. Typed'
      BY <1>2, <1>4, <2>2 DEF Inv, Typed
    <2>4. Rows'
      BY <1>1, <1>2, <1>4, <2>1, <2>2
      DEF Inv, Rows, Gapless, EndMeansAll, UnderWayIsNext, ShortIsLast
    <2>5. Pieces'
      BY <1>1, <1>2, <1>4, <2>1, <2>2
      DEF Inv, Pieces, AwaitedIsUnderWay, StartedOnce, UnderWayIsHeard, RunningGoesOn
    <2> QED BY <2>3, <2>4, <2>5 DEF Inv
  <1> QED BY <1>3, <1>4 DEF Altered

LEMMA InitiateKeeps ==
  ASSUME Inv, Initiate
  PROVE  Inv'
  <1>1. /\ At("initiate") /\ stack # <<>> /\ stack \in Seq(Frame) /\ Distinct(stack)
        /\ Calls(stack) = {Head(stack)} \cup Calls(Tail(stack))
        /\ Tail(stack) \in Seq(Frame)
        /\ Head(stack) \in Frame /\ Head(stack).at = "initiate"
    BY Innermost DEF Initiate, Inv, Typed
  <1>2. UNCHANGED <<remaining, pending, rows, limit>>
    BY DEF Initiate, Unmoved
  <1>3. CASE /\ seen_end
             /\ EndOfStream
             /\ UNCHANGED <<streaming_update, made>>
    <2>1. seen_end' = TRUE /\ streaming' = FALSE /\ running' = FALSE /\ Return
      BY <1>3 DEF EndOfStream
    <2>2. /\ stack' \in Seq(Frame) /\ Distinct(stack')
          /\ Calls(stack') = Calls(Tail(stack))
      BY <1>1, <2>1, GoneOn
    <2>3. Typed'
      BY <1>2, <1>3, <2>1, <2>2 DEF Inv, Typed
    <2>4. Rows'
      BY <1>1, <1>2, <1>3, <2>1, <2>2
      DEF Inv, Rows, Gapless, EndMeansAll, UnderWayIsNext, ShortIsLast
    <2>5. Pieces'
      BY <1>1, <1>2, <1>3, <2>1, <2>2
      DEF Inv, Pieces, AwaitedIsUnderWay, StartedOnce, UnderWayIsHeard, RunningGoesOn
    <2> QED BY <2>3, <2>4, <2>5 DEF Inv
  <1>4. CASE /\ streaming_update # NoPiece
             /\ Return
             /\ UNCHANGED <<flags, streaming_update, made>>
    <2>1. /\ stack' \in Seq(Frame) /\ Distinct(stack')
          /\ Calls(stack') = Calls(Tail(stack))
      BY <1>1, <1>4, GoneOn
    <2>2. Typed'
      BY <1>2, <1>4, <2>1 DEF Inv, Typed, flags
    <2>3. Rows'
      BY <1>1, <1>2, <1>4, <2>1
      DEF Inv, Rows, Gapless, EndMeansAll, UnderWayIsNext, ShortIsLast, flags
    <2>4. Pieces'
      BY <1>1, <1>2, <1>4, <2>1
      DEF Inv, Pieces, AwaitedIsUnderWay, StartedOnce, UnderWayIsHeard, RunningGoesOn, flags
    <2> QED BY <2>2, <2>3, <2>4 DEF Inv
  <1>5. CASE /\ streaming_update = NoPiece
             /\ streaming_update' = NextPiece /\ made' = made + 1
             /\ running' = TRUE /\ Goto(Start(NextPiece))
             /\ UNCHANGED <<streaming, seen_end>>
    <2> DEFINE p == NextPiece
               f == Start(p)
    <2>1. Head(stack).first \in BOOLEAN
      BY <1>1 DEF Frame, Altering, Initiating, Starting, Inserting, Receiving
    <2>2. p \in Piece /\ p # NoPiece /\ p.no = made + 1 /\ p.after = Len(rows)
      BY <2>1, NextPieceTyped DEF Inv, Rows
    <2>3. f \in Frame /\ f.at = "started" /\ f.piece = p
      BY <2>2 DEF Start, SlotsRun, Frame, Starting
    <2>4. stack' = <<f>> \o Tail(stack)
      BY <1>5 DEF Goto
    <2>5. made \in Nat /\ streaming_update' = p /\ pending = {}
      BY <1>5 DEF Inv, Typed, Pieces, AwaitedIsUnderWay
    <2> HIDE DEF p, f
    <2>6. \A g \in Calls(Tail(stack)) : g.at = "started" => g.piece.no <= made /\ g.piece # p
      <3> SUFFICES ASSUME NEW g \in Calls(Tail(stack)), g.at = "started"
                   PROVE  g.piece.no <= made /\ g.piece # p
        OBVIOUS
      <3>1. g.piece.no <= made
        BY <1>1 DEF Inv, Pieces, StartedOnce
      <3>2. ~(made + 1 <= made)
        BY <2>5
      <3> QED BY <2>2, <3>1, <3>2
    <2>7. /\ stack' \in Seq(Frame) /\ Distinct(stack')
          /\ Calls(stack') = {f} \cup Calls(Tail(stack))
      BY <1>1, <2>3, <2>4, <2>6, Replaced
    <2>8. Typed'
      BY <1>2, <1>5, <2>2, <2>5, <2>7 DEF Inv, Typed
    <2>9. Rows'
      <3>1. p.no <= made'
        BY <1>5, <2>2, <2>5
      <3> QED
        BY <1>1, <1>2, <1>5, <2>2, <2>3, <2>5, <2>7, <3>1
        DEF Inv, Rows, Gapless, EndMeansAll, UnderWayIsNext, ShortIsLast
    <2>10. AwaitedIsUnderWay' /\ UnderWayIsHeard' /\ RunningGoesOn'
      BY <1>2, <2>2, <2>3, <2>5, <2>7
      DEF AwaitedIsUnderWay, UnderWayIsHeard, RunningGoesOn
    <2>11. StartedOnce'
      <3> SUFFICES ASSUME NEW g \in Calls(stack'), g.at = "started"
                   PROVE  g.piece \notin pending' /\ g.piece.no <= made'
        BY <2>7 DEF StartedOnce
      <3>1. CASE g = f
        <4>1. p.no <= made'
          BY <1>5, <2>2, <2>5
        <4> QED BY <3>1, <4>1, <1>2, <2>3, <2>5
      <3>2. CASE g \in Calls(Tail(stack))
        <4>1. g.piece.no <= made /\ g.piece \in Piece
          <5>1. g \in Frame
            BY <3>2, <1>1 DEF Calls
          <5> QED BY <5>1, <3>2, <2>6
              DEF Frame, Altering, Initiating, Starting, Inserting, Receiving
        <4>2. g.piece.no \in Int
          BY <4>1 DEF Piece
        <4>3. g.piece.no <= made'
          BY <4>1, <4>2, <1>5, <2>5
        <4> QED BY <4>3, <1>2, <2>5
      <3> QED BY <3>1, <3>2, <2>7
    <2> QED BY <2>8, <2>9, <2>10, <2>11 DEF Inv, Pieces
  <1> QED
    BY <1>3, <1>4, <1>5 DEF Initiate

\* Taking the answer to the piece under way into the model.
LEMMA TakeInKeeps ==
  ASSUME Inv, NEW p \in Piece, p = streaming_update, NEW callers \in Seq(Frame),
         \/ callers = <<>> /\ stack = <<>>
         \/ /\ stack # <<>> /\ callers = Tail(stack)
            /\ Head(stack).at = "started" /\ Head(stack).piece = p,
         TakeIn(p, callers), pending' = pending \ {p},
         UNCHANGED <<flags, remaining, made, limit>>
  PROVE  Inv'
  <1> DEFINE f == [at |-> "inserted",
                   slot |-> SlotsRun("inserted", Answer(p) # <<>>),
                   size |-> Len(Answer(p)), asked |-> p.size]
             now == rows \o Answer(p)
  <1>1. p # NoPiece /\ p.after = Len(rows) /\ rows \in Seq(Row) /\ Gapless
    BY NoPieceAssumption DEF Inv, Typed, Rows, UnderWayIsNext
  <1>2. /\ now \in Seq(Row) /\ Len(Answer(p)) \in Nat
        /\ \A i \in 1..Len(now) : now[i] = i
        /\ Len(Answer(p)) < p.size => Len(now) = Total
        /\ Len(rows) = Total => Len(now) = Total
    BY <1>1, AnswerContinues
  <1>3. f \in Frame /\ f.at = "inserted" /\ f.size = Len(Answer(p)) /\ f.asked = p.size
    BY <1>2 DEF SlotsRun, Frame, Inserting, Piece
  <1>4. /\ stack' = <<f>> \o callers /\ rows' = now /\ streaming_update' = NoPiece
    BY DEF TakeIn
  <1> HIDE DEF f, now
  <1>5. /\ stack \in Seq(Frame) /\ Distinct(stack)
    BY DEF Inv, Typed, Pieces, StartedOnce
  <1>6. Distinct(callers) /\ Calls(callers) \subseteq Calls(stack)
    BY <1>5, Popped, NoCalls
  <1>7. /\ stack' \in Seq(Frame) /\ Distinct(stack')
        /\ Calls(stack') = {f} \cup Calls(callers)
    BY <1>3, <1>4, <1>6, Pushed
  <1>8. pending' = {}
    BY DEF Inv, Pieces, AwaitedIsUnderWay
  <1>9. Typed'
    BY <1>2, <1>4, <1>7, <1>8 DEF Inv, Typed, flags
  <1>10. Rows'
    BY <1>2, <1>3, <1>4, <1>6, <1>7
    DEF Inv, Rows, Gapless, EndMeansAll, UnderWayIsNext, ShortIsLast, flags
  <1>11. Pieces'
    BY <1>3, <1>4, <1>6, <1>7, <1>8
    DEF Inv, Pieces, AwaitedIsUnderWay, StartedOnce, UnderWayIsHeard, RunningGoesOn, flags
  <1> QED BY <1>9, <1>10, <1>11 DEF Inv

LEMMA StartedKeeps ==
  ASSUME Inv, Started
  PROVE  Inv'
  <1> DEFINE p == Head(stack).piece
  <1>1. /\ At("started") /\ stack # <<>> /\ stack \in Seq(Frame)
        /\ Calls(stack) = {Head(stack)} \cup Calls(Tail(stack))
        /\ Tail(stack) \in Seq(Frame)
        /\ Head(stack) \in Frame /\ Head(stack).at = "started"
        /\ \A f \in Calls(Tail(stack)) : f.at = "started" => f.piece # p
    BY Innermost DEF Started, Inv, Typed
  <1>2. p \in Piece /\ p # NoPiece
    BY <1>1, NoPieceAssumption
    DEF Frame, Altering, Initiating, Starting, Inserting, Receiving
  <1>3. p \notin pending
    BY <1>1 DEF Inv, Pieces, StartedOnce
  <1>4. UNCHANGED <<flags, remaining, made, limit>>
    BY DEF Started, Unmoved
  <1>5. CASE /\ pending' = IF streaming_update = p THEN pending \cup {p} ELSE pending
             /\ Return
             /\ UNCHANGED <<streaming_update, rows, stream>>
    <2>1. /\ stack' \in Seq(Frame) /\ Distinct(stack')
          /\ Calls(stack') = Calls(Tail(stack))
      BY <1>1, <1>5, GoneOn
    <2>2. Typed'
      BY <1>2, <1>4, <1>5, <2>1 DEF Inv, Typed, flags
    <2>3. Rows'
      BY <1>1, <1>4, <1>5, <2>1
      DEF Inv, Rows, Gapless, EndMeansAll, UnderWayIsNext, ShortIsLast, flags
    <2> HIDE DEF p
    <2>4. Pieces'
      BY <1>1, <1>2, <1>4, <1>5, <2>1
      DEF Inv, Pieces, AwaitedIsUnderWay, StartedOnce, UnderWayIsHeard, RunningGoesOn,
          flags, p
    <2> QED BY <2>2, <2>3, <2>4 DEF Inv
  <1>6. CASE /\ streaming_update = p
             /\ TakeIn(p, Tail(stack))
             /\ UNCHANGED pending
    <2>1. pending' = pending \ {p}
      BY <1>3, <1>6
    <2> QED BY <1>1, <1>2, <1>4, <1>6, <2>1, TakeInKeeps
  <1> QED BY <1>5, <1>6 DEF Started

LEMMA PieceAnsweredKeeps ==
  ASSUME Inv, NEW p \in pending, PieceAnswered(p)
  PROVE  Inv'
  <1>1. p \in Piece /\ p = streaming_update
    BY DEF Inv, Typed, Pieces, AwaitedIsUnderWay
  <1>2. /\ stack = <<>> /\ TakeIn(p, <<>>) /\ pending' = pending \ {p}
        /\ UNCHANGED <<flags, remaining, made, limit>>
    BY DEF PieceAnswered, Unmoved
  <1> QED BY <1>1, <1>2, NoCalls, TakeInKeeps

LEMMA InsertedKeeps ==
  ASSUME Inv, Inserted
  PROVE  Inv'
  <1>1. /\ At("inserted")
        /\ Calls(stack) = {Head(stack)} \cup Calls(Tail(stack))
        /\ Head(stack) \in Frame /\ Head(stack).at = "inserted"
    BY Innermost DEF Inserted
  <1>2. UNCHANGED <<streaming_update, pending, made, rows, limit>>
    BY DEF Inserted, Unmoved
  <1>3. CASE /\ Head(stack).size < Head(stack).asked
             /\ EndOfStream
             /\ UNCHANGED remaining
    <2>1. seen_end' = TRUE /\ streaming' = FALSE /\ running' = FALSE /\ Return
      BY <1>3 DEF EndOfStream
    <2>2. /\ stack' \in Seq(Frame) /\ Distinct(stack')
          /\ Calls(stack') = Calls(Tail(stack))
      BY <1>1, <2>1, GoneOn
    <2>3. Len(rows) = Total
      BY <1>1, <1>3 DEF Inv, Rows, ShortIsLast
    <2>4. Typed'
      BY <1>2, <1>3, <2>1, <2>2 DEF Inv, Typed
    <2>5. Rows'
      BY <1>1, <1>2, <2>2, <2>3
      DEF Inv, Rows, Gapless, EndMeansAll, UnderWayIsNext, ShortIsLast
    <2>6. Pieces'
      BY <1>1, <1>2, <2>1, <2>2
      DEF Inv, Pieces, AwaitedIsUnderWay, StartedOnce, UnderWayIsHeard, RunningGoesOn
    <2> QED BY <2>4, <2>5, <2>6 DEF Inv
  <1>4. ASSUME NEW f, f = [at |-> "received",
                           slot |-> SlotsRun("received", streaming' # streaming)],
               NEW left, left = remaining - Head(stack).size,
               remaining' = IF left = 0 THEN -1 ELSE left,
               streaming' = (streaming /\ left # 0),
               Goto(f), UNCHANGED <<running, seen_end>>
        PROVE  Inv'
    <2>1. f \in Frame /\ f.at = "received"
      BY <1>4 DEF SlotsRun, Frame, Receiving
    <2>2. /\ stack' \in Seq(Frame) /\ Distinct(stack')
          /\ Calls(stack') = {f} \cup Calls(Tail(stack))
      BY <1>1, <1>4, <2>1, GoneOn
    <2>3. Head(stack).size \in Nat
      BY <1>1 DEF Frame, Altering, Initiating, Starting, Inserting, Receiving
    <2>4. left \in Int /\ remaining' \in Int
      BY <1>4, <2>3 DEF Inv, Typed
    <2>5. streaming' \in BOOLEAN
      BY <1>4
    <2>6. Typed'
      BY <1>2, <1>4, <2>2, <2>4, <2>5 DEF Inv, Typed
    <2>7. Rows'
      BY <1>1, <1>2, <1>4, <2>1, <2>2
      DEF Inv, Rows, Gapless, EndMeansAll, UnderWayIsNext, ShortIsLast
    <2>8. Pieces'
      BY <1>1, <1>2, <1>4, <2>1, <2>2
      DEF Inv, Pieces, AwaitedIsUnderWay, StartedOnce, UnderWayIsHeard, RunningGoesOn
    <2> QED BY <2>6, <2>7, <2>8 DEF Inv
  <1> QED BY <1>3, <1>4 DEF Inserted

LEMMA ReceivedKeeps ==
  ASSUME Inv, Received
  PROVE  Inv'
  <1>1. /\ At("received")
        /\ Calls(stack) = {Head(stack)} \cup Calls(Tail(stack))
        /\ Head(stack).at = "received"
    BY Innermost DEF Received
  <1>2. UNCHANGED <<streaming, seen_end, remaining, streaming_update, pending, made,
                    rows, limit>>
    BY DEF Received, Unmoved
  <1>3. Initiation(FALSE) \in Frame /\ Initiation(FALSE).at = "initiate"
    BY DEF Initiation, Frame, Initiating
  <1>4. /\ stack' \in Seq(Frame) /\ Distinct(stack') /\ running' \in BOOLEAN
        /\ \/ /\ Calls(stack') = {Initiation(FALSE)} \cup Calls(Tail(stack))
              /\ running' = running
           \/ /\ Calls(stack') = Calls(Tail(stack))
              /\ running' = FALSE
    BY <1>1, <1>3, GoneOn DEF Received, Inv, Typed
  <1>5. Typed'
    BY <1>2, <1>4 DEF Inv, Typed
  <1>6. Rows'
    BY <1>1, <1>2, <1>3, <1>4
    DEF Inv, Rows, Gapless, EndMeansAll, UnderWayIsNext, ShortIsLast
  <1>7. Pieces'
    BY <1>1, <1>2, <1>3, <1>4
    DEF Inv, Pieces, AwaitedIsUnderWay, StartedOnce, UnderWayIsHeard, RunningGoesOn
  <1> QED BY <1>5, <1>6, <1>7 DEF Inv

----------------------------------------------------------------------------
(* The limit of a stream that nobody meddles with.                         *)

StreamTyped == stream \in [alone : BOOLEAN, limit : Limits \cup {-1}, fetched : Nat]

\* The call of such a stream is the only one in progress.
AloneIsOnlyCall == stream.alone /\ stack # <<>> => Tail(stack) = <<>>

\* What the innermost call has taken in and not counted yet.
Uncounted == IF At("inserted") THEN Head(stack).size ELSE 0

\* No call asks for or has taken in more than what is left, and only one that
\* starts a piece has one under way.
CallMetered(f) ==
  /\ f.at # "started" => streaming_update = NoPiece
  /\ f.at \in {"altered", "initiate", "started", "inserted"} => streaming
  /\ f.at = "started" => f.piece.size <= remaining
  /\ f.at = "inserted" => f.size <= f.asked /\ f.asked <= remaining

\* While it streams, what was fetched and what is left make up the limit; it
\* stops when nothing is left or the end was seen.
Metered ==
  stream.alone /\ stream.limit # -1 =>
    /\ streaming =>
         remaining \in Nat /\ stream.fetched + remaining = stream.limit + Uncounted
    /\ ~streaming =>
         /\ stream.fetched <= stream.limit
         /\ seen_end \/ stream.fetched = stream.limit
    /\ streaming_update # NoPiece => streaming /\ streaming_update.size <= remaining
    /\ stack # <<>> => CallMetered(Head(stack))

Budget == StreamTyped /\ AloneIsOnlyCall /\ Metered

\* A limit is a number.
LEMMA LimitsAreNumbers == \A l \in Limits \cup {-1} : l \in Int
  BY SizesAssumption

\* A call that is the only one.
LEMMA OnlyCall ==
  ASSUME NEW f \in Frame
  PROVE  /\ <<f>> \o <<>> # <<>> /\ Head(<<f>> \o <<>>) = f
         /\ Tail(<<f>> \o <<>>) = <<>>
  <1>1. <<>> \in Seq(Frame) /\ <<f>> \o <<>> \in Seq(Frame) /\ <<f>> \o <<>> # <<>>
    BY NoCalls, Pushed
  <1>2. Len(<<f>> \o <<>>) = 1 /\ (<<f>> \o <<>>)[1] = f
    BY ConcatProperties, EmptySeq, LenProperties, <1>1
  <1>3. Len(Tail(<<f>> \o <<>>)) = 0 /\ Tail(<<f>> \o <<>>) \in Seq(Frame)
    BY <1>1, <1>2, HeadTailProperties
  <1> QED BY <1>1, <1>2, <1>3, HeadTailProperties, EmptySeq

\* The answer to a piece within the rows is not longer than it asked for.
LEMMA AnswerFits ==
  ASSUME Inv, NEW p \in Piece, p.after = Len(rows)
  PROVE  Len(Answer(p)) \in Nat /\ Len(Answer(p)) <= p.size
  <1> DEFINE n == IF Total - p.after < p.size THEN Total - p.after ELSE p.size
  <1>1. /\ Len(rows) \in Nat /\ Len(rows) <= Total /\ p.size \in Nat /\ Total \in Nat
    BY RowsBounded, SizesAssumption DEF Inv, Typed, Rows, Piece
  <1>2. n \in Nat /\ n <= p.size
    BY <1>1
  <1>3. Answer(p) = [i \in 1..n |-> p.after + i]
    BY DEF Answer
  <1> HIDE DEF n
  <1>4. Answer(p) \in [1..n -> Int]
    BY <1>1, <1>2, <1>3
  <1>5. Len(Answer(p)) = n
    BY <1>2, <1>3, <1>4, SeqDef, LenProperties
  <1> QED BY <1>2, <1>5

\* Where the innermost call is, once it has moved on.
LEMMA MovedOn ==
  ASSUME Inv, Budget, stream.alone, stack # <<>>,
         NEW f \in Frame, Goto(f)
  PROVE  /\ stack' # <<>> /\ Head(stack') = f /\ Tail(stack') = <<>>
         /\ At(f.at)' /\ \A point : At(point)' => f.at = point
  <1>1. stack' = <<f>> \o <<>>
    BY DEF Goto, Budget, AloneIsOnlyCall
  <1> QED BY <1>1, OnlyCall DEF At

LEMMA MovedOut ==
  ASSUME Inv, Budget, stream.alone, stack # <<>>, Return
  PROVE  stack' = <<>> /\ \A point : ~At(point)'
  BY DEF Return, Budget, AloneIsOnlyCall, At

\* A stream somebody meddles with is not metered.
LEMMA NotAlone ==
  ASSUME StreamTyped', ~stream'.alone
  PROVE  Budget'
  BY DEF Budget, AloneIsOnlyCall, Metered

\* A caller's call begins the stream or meddles with it; the others keep within
\* its limit.
LEMMA AlterStrategyMetered ==
  ASSUME Inv, Budget, NEW enables \in SUBSET Flag, NEW disables \in SUBSET Flag,
         AlterStrategy(enables, disables)
  PROVE  Budget'
  <1> DEFINE f == [at |-> "altered",
                   slot |-> SlotsRun("altered", streaming' # streaming),
                   enables |-> enables, disables |-> disables]
             begins == /\ "Streaming" \in enables /\ "Running" \notin disables
                       /\ ~streaming /\ streaming_update = NoPiece /\ stack = <<>>
  <1>1. f \in Frame /\ f.at = "altered" /\ stack' = <<f>> \o stack
    BY DEF SlotsRun, AlterStrategy, Frame, Altering
  <1> HIDE DEF f
  <1>2. limit \in Limits /\ UNCHANGED streaming_update
    BY DEF Inv, Typed, AlterStrategy
  <1>3. CASE begins
    <2>1. /\ stream' = [alone |-> TRUE, limit |-> limit, fetched |-> 0]
          /\ remaining' = limit /\ streaming' = TRUE
          /\ streaming_update' = NoPiece /\ stack' = <<f>> \o <<>>
      BY <1>1, <1>2, <1>3 DEF AlterStrategy
    <2>2. stack' # <<>> /\ Head(stack') = f /\ Tail(stack') = <<>>
      BY <2>1, <1>1, OnlyCall
    <2>3. StreamTyped' /\ AloneIsOnlyCall'
      BY <1>2, <2>1, <2>2 DEF StreamTyped, AloneIsOnlyCall
    <2>4. Uncounted' = 0
      BY <2>2, <1>1 DEF Uncounted, At
    <2>5. CallMetered(Head(stack))'
      BY <1>1, <2>1, <2>2 DEF CallMetered
    <2>6. limit # -1 => limit \in Nat /\ 0 + limit = limit + 0
      BY <1>2, SizesAssumption
    <2>7. Metered'
      BY <2>1, <2>2, <2>4, <2>5, <2>6 DEF Metered, CallMetered
    <2> QED BY <2>3, <2>7 DEF Budget
  <1>4. CASE ~begins
    <2>1. stream' = [stream EXCEPT !.alone = FALSE]
      BY <1>4 DEF AlterStrategy
    <2>2. StreamTyped' /\ ~stream'.alone
      BY <2>1 DEF Budget, StreamTyped
    <2> QED BY <2>2, NotAlone
  <1> QED BY <1>3, <1>4

LEMMA SetLimitMetered ==
  ASSUME Inv, Budget, UNCHANGED vars \/ \E l \in Limits : SetLimit(l)
  PROVE  Budget'
  <1>1. UNCHANGED <<flags, remaining, streaming_update, pending, made, rows, stack, stream>>
    BY DEF SetLimit, vars
  <1> QED BY <1>1
      DEF Budget, StreamTyped, AloneIsOnlyCall, Metered, Uncounted, At, CallMetered, flags

LEMMA AlteredMetered ==
  ASSUME Inv, Budget, Altered
  PROVE  Budget'
  <1>1. At("altered") /\ stack # <<>> /\ Head(stack).at = "altered"
    BY Innermost DEF Altered
  <1>2. UNCHANGED <<streaming, seen_end, remaining, stream>>
    BY DEF Altered
  <1>3. streaming_update' \in {streaming_update, NoPiece}
    BY DEF Altered, Cancel
  <1>4. StreamTyped'
    BY <1>2 DEF Budget, StreamTyped
  <1>5. CASE ~stream.alone
    BY <1>2, <1>4, <1>5, NotAlone
  <1>6. CASE stream.alone
    <2>1. Initiation(TRUE) \in Frame /\ Initiation(TRUE).at = "initiate"
      BY DEF Initiation, Frame, Initiating
    <2>2. \/ Return
          \/ Goto(Initiation(TRUE))
      BY DEF Altered, Cancel
    <2>3. AloneIsOnlyCall' /\ Uncounted' = 0
      BY <1>1, <1>6, <2>1, <2>2, MovedOn, MovedOut DEF AloneIsOnlyCall, Uncounted
    <2>4. stack' # <<>> => Head(stack').at = "initiate"
      BY <1>1, <1>6, <2>1, <2>2, MovedOn, MovedOut
    <2>5. Uncounted = 0
      BY <1>1 DEF Uncounted, At
    <2>6. stream.limit # -1 => streaming /\ streaming_update = NoPiece
      BY <1>1, <1>6 DEF Budget, Metered, CallMetered
    <2>7. Metered'
      BY <1>1, <1>2, <1>3, <1>6, <2>3, <2>4, <2>5, <2>6 DEF Budget, Metered, CallMetered
    <2> QED BY <1>4, <2>3, <2>7 DEF Budget
  <1> QED BY <1>5, <1>6

LEMMA InitiateMetered ==
  ASSUME Inv, Budget, Initiate
  PROVE  Budget'
  <1>1. /\ At("initiate") /\ stack # <<>> /\ Head(stack).at = "initiate"
        /\ Head(stack) \in Frame
    BY Innermost DEF Initiate
  <1>2. UNCHANGED <<remaining, stream>>
    BY DEF Initiate
  <1>3. StreamTyped'
    BY <1>2 DEF Budget, StreamTyped
  <1>4. CASE ~stream.alone
    BY <1>2, <1>3, <1>4, NotAlone
  <1>5. ASSUME stream.alone, Return
        PROVE  stack' = <<>> /\ AloneIsOnlyCall' /\ Uncounted' = 0
    BY <1>1, <1>5, MovedOut DEF AloneIsOnlyCall, Uncounted
  <1>6. Uncounted = 0
    BY <1>1 DEF Uncounted, At
  <1>7. stream.alone /\ stream.limit # -1 =>
          /\ streaming /\ remaining \in Nat /\ streaming_update = NoPiece
          /\ stream.fetched + remaining = stream.limit
          /\ stream.fetched <= stream.limit
    <2> SUFFICES ASSUME stream.alone, stream.limit # -1
                 PROVE  /\ streaming /\ remaining \in Nat /\ streaming_update = NoPiece
                        /\ stream.fetched + remaining = stream.limit
                        /\ stream.fetched <= stream.limit
      OBVIOUS
    <2>1. CallMetered(Head(stack)) /\ streaming
      BY <1>1 DEF Budget, Metered, CallMetered
    <2>2. /\ streaming /\ remaining \in Nat /\ streaming_update = NoPiece
          /\ stream.fetched + remaining = stream.limit + Uncounted
      BY <1>1, <2>1 DEF Budget, Metered, CallMetered
    <2>3. stream.fetched \in Nat /\ stream.limit \in Int
      BY LimitsAreNumbers DEF Budget, StreamTyped
    <2> QED BY <1>6, <2>2, <2>3
  <1>8. CASE stream.alone /\ seen_end /\ EndOfStream /\ UNCHANGED streaming_update
    <2>1. seen_end' = TRUE /\ streaming' = FALSE /\ Return
      BY <1>8 DEF EndOfStream
    <2>2. stack' = <<>> /\ AloneIsOnlyCall'
      BY <1>5, <1>8, <2>1
    <2>3. Metered'
      BY <1>2, <1>7, <1>8, <2>1, <2>2 DEF Metered
    <2> QED BY <1>3, <2>2, <2>3 DEF Budget
  <1>9. CASE stream.alone /\ Return /\ UNCHANGED <<flags, streaming_update>>
    <2>1. stack' = <<>> /\ AloneIsOnlyCall' /\ Uncounted' = 0
      BY <1>5, <1>9
    <2>2. UNCHANGED <<streaming, seen_end>>
      BY <1>9 DEF flags
    <2>3. Metered'
      BY <1>2, <1>6, <1>7, <1>9, <2>1, <2>2 DEF Metered, Budget
    <2> QED BY <1>3, <2>1, <2>3 DEF Budget
  <1>10. CASE /\ stream.alone
              /\ streaming_update' = NextPiece /\ Goto(Start(NextPiece))
              /\ UNCHANGED <<streaming, seen_end>>
    <2> DEFINE p == NextPiece
               f == Start(p)
    <2>1. Head(stack).first \in BOOLEAN
      BY <1>1 DEF Frame, Altering, Initiating, Starting, Inserting, Receiving
    <2>2. p \in Piece /\ p.size = NextSize(Head(stack).first)
      BY <2>1, NextPieceTyped DEF Inv, Rows, NextPiece
    <2>3. f \in Frame /\ f.at = "started" /\ f.piece = p
      BY <2>2 DEF Start, SlotsRun, Frame, Starting
    <2>4. remaining \in Nat => NextSize(Head(stack).first) <= remaining
      BY SizesAssumption DEF NextSize
    <2>5. streaming_update' = p /\ Goto(f)
      BY <1>10
    <2> HIDE DEF p, f
    <2>6. /\ stack' # <<>> /\ Head(stack') = f /\ Tail(stack') = <<>>
          /\ Uncounted' = 0
      BY <1>1, <1>10, <2>3, <2>5, MovedOn DEF Uncounted
    <2>7. stream.limit # -1 => CallMetered(Head(stack))'
      BY <1>2, <1>7, <1>10, <2>2, <2>3, <2>4, <2>6 DEF CallMetered
    <2>8. AloneIsOnlyCall'
      BY <2>6 DEF AloneIsOnlyCall
    <2>9. Metered'
      <3> SUFFICES ASSUME stream'.alone, stream'.limit # -1
                   PROVE  /\ streaming' /\ remaining' \in Nat
                          /\ stream'.fetched + remaining' = stream'.limit + Uncounted'
                          /\ streaming_update'.size <= remaining'
                          /\ CallMetered(Head(stack))'
        BY DEF Metered
      <3>1. CallMetered(Head(stack))'
        BY <1>2, <2>6, <2>7 DEF CallMetered
      <3>2. stream'.limit \in Int
        BY <1>3, LimitsAreNumbers DEF StreamTyped
      <3>3. stream'.fetched + remaining' = stream'.limit + Uncounted'
        BY <1>2, <1>7, <2>6, <3>2
      <3> QED BY <1>2, <1>7, <1>10, <2>2, <2>4, <2>5, <3>1, <3>3
    <2> QED BY <1>3, <2>8, <2>9 DEF Budget
  <1> QED
    BY <1>4, <1>8, <1>9, <1>10 DEF Initiate

\* Taking in the answer to the piece under way.
LEMMA TakeInMetered ==
  ASSUME Inv, Budget, NEW p \in Piece, p = streaming_update, NEW callers \in Seq(Frame),
         \/ callers = <<>> /\ stack = <<>>
         \/ /\ stack # <<>> /\ callers = Tail(stack)
            /\ Head(stack).at = "started" /\ Head(stack).piece = p,
         TakeIn(p, callers), UNCHANGED <<flags, remaining>>
  PROVE  Budget'
  <1> DEFINE n == Len(Answer(p))
             f == [at |-> "inserted",
                   slot |-> SlotsRun("inserted", Answer(p) # <<>>),
                   size |-> n, asked |-> p.size]
  <1>1. p # NoPiece /\ p.after = Len(rows)
    BY NoPieceAssumption DEF Inv, Rows, UnderWayIsNext
  <1>2. n \in Nat /\ n <= p.size /\ p.size \in Nat
    BY <1>1, AnswerFits DEF Piece
  <1>3. f \in Frame /\ f.at = "inserted" /\ f.size = n /\ f.asked = p.size
    BY <1>2 DEF SlotsRun, Frame, Inserting
  <1>4. /\ stack' = <<f>> \o callers /\ streaming_update' = NoPiece
        /\ stream' = [stream EXCEPT !.fetched = @ + n]
    BY DEF TakeIn
  <1> HIDE DEF f, n
  <1>5. /\ StreamTyped' /\ stream'.alone = stream.alone /\ stream'.limit = stream.limit
        /\ stream'.fetched = stream.fetched + n
        /\ stream.fetched \in Nat /\ stream.limit \in Int
    <2>1. stream.fetched + n \in Nat
      BY <1>2 DEF Budget, StreamTyped
    <2> QED BY <1>4, <2>1, LimitsAreNumbers DEF Budget, StreamTyped
  <1>6. CASE ~stream.alone
    BY <1>5, <1>6, NotAlone
  <1>7. CASE stream.alone
    <2>1. stack' = <<f>> \o <<>>
      BY <1>4, <1>7 DEF Budget, AloneIsOnlyCall
    <2>2. /\ stack' # <<>> /\ Head(stack') = f /\ Tail(stack') = <<>>
      BY <2>1, <1>3, OnlyCall
    <2>3. Uncounted' = n /\ AloneIsOnlyCall'
      BY <2>2, <1>3 DEF Uncounted, At, AloneIsOnlyCall
    <2>4. Uncounted = 0
      BY DEF Uncounted, At
    <2>5. Metered'
      <3> SUFFICES ASSUME stream.limit # -1
                   PROVE  /\ streaming' /\ remaining' \in Nat
                          /\ stream'.fetched + remaining' = stream'.limit + Uncounted'
                          /\ CallMetered(Head(stack))'
        BY <1>4, <1>5, <2>2 DEF Metered, CallMetered
      <3>1. /\ streaming /\ p.size <= remaining /\ remaining \in Nat
            /\ stream.fetched + remaining = stream.limit + Uncounted
        BY <1>1, <1>7 DEF Budget, Metered
      <3>2. stream'.fetched + remaining' = stream'.limit + Uncounted'
        <4>1. UNCHANGED remaining
          OBVIOUS
        <4> QED BY <4>1, <1>2, <1>5, <2>3, <2>4, <3>1
      <3>3. CallMetered(Head(stack))'
        BY <1>2, <1>3, <1>4, <2>2, <3>1 DEF CallMetered, flags
      <3> QED BY <3>1, <3>2, <3>3 DEF flags
    <2> QED BY <1>5, <2>3, <2>5 DEF Budget
  <1> QED BY <1>6, <1>7

LEMMA StartedMetered ==
  ASSUME Inv, Budget, Started
  PROVE  Budget'
  <1> DEFINE p == Head(stack).piece
  <1>1. /\ At("started") /\ stack # <<>> /\ Head(stack).at = "started"
        /\ Head(stack) \in Frame /\ Tail(stack) \in Seq(Frame)
    BY Innermost DEF Started
  <1>2. p \in Piece
    BY <1>1 DEF Frame, Altering, Initiating, Starting, Inserting, Receiving
  <1>3. UNCHANGED <<flags, remaining>>
    BY DEF Started
  <1>4. CASE Return /\ UNCHANGED <<streaming_update, rows, stream>>
    <2>1. StreamTyped'
      BY <1>4 DEF Budget, StreamTyped
    <2>2. CASE ~stream.alone
      BY <1>4, <2>1, <2>2, NotAlone
    <2>3. CASE stream.alone
      <3>1. stack' = <<>> /\ Uncounted' = 0 /\ AloneIsOnlyCall'
        BY <1>1, <1>4, <2>3, MovedOut DEF Uncounted, AloneIsOnlyCall
      <3>2. Uncounted = 0
        BY <1>1 DEF Uncounted, At
      <3>3. Metered'
        BY <1>3, <1>4, <3>1, <3>2 DEF Budget, Metered, flags
      <3> QED BY <2>1, <3>1, <3>3 DEF Budget
    <2> QED BY <2>2, <2>3
  <1>5. CASE streaming_update = p /\ TakeIn(p, Tail(stack))
    BY <1>1, <1>2, <1>3, <1>5, TakeInMetered
  <1> QED BY <1>4, <1>5 DEF Started

LEMMA PieceAnsweredMetered ==
  ASSUME Inv, Budget, NEW p \in pending, PieceAnswered(p)
  PROVE  Budget'
  <1>1. p \in Piece /\ p = streaming_update
    BY DEF Inv, Typed, Pieces, AwaitedIsUnderWay
  <1>2. stack = <<>> /\ TakeIn(p, <<>>) /\ UNCHANGED <<flags, remaining>>
    BY DEF PieceAnswered
  <1> QED BY <1>1, <1>2, NoCalls, TakeInMetered

LEMMA InsertedMetered ==
  ASSUME Inv, Budget, Inserted
  PROVE  Budget'
  <1>1. /\ At("inserted") /\ stack # <<>> /\ Head(stack).at = "inserted"
        /\ Head(stack) \in Frame
    BY Innermost DEF Inserted
  <1>2. UNCHANGED <<streaming_update, stream>>
    BY DEF Inserted
  <1>3. StreamTyped' /\ stream.fetched \in Nat /\ stream.limit \in Int
    BY <1>2, LimitsAreNumbers DEF Budget, StreamTyped
  <1>4. CASE ~stream.alone
    BY <1>2, <1>3, <1>4, NotAlone
  <1>5. Head(stack).size \in Nat /\ Head(stack).asked \in Nat /\ Uncounted = Head(stack).size
    BY <1>1 DEF Uncounted, Frame, Altering, Initiating, Starting, Inserting, Receiving
  <1>6. stream.alone /\ stream.limit # -1 =>
          /\ streaming /\ remaining \in Nat /\ streaming_update = NoPiece
          /\ stream.fetched + remaining = stream.limit + Head(stack).size
          /\ Head(stack).size <= Head(stack).asked /\ Head(stack).asked <= remaining
    BY <1>1, <1>5 DEF Budget, Metered, CallMetered
  <1>7. CASE stream.alone /\ EndOfStream
    <2>1. seen_end' = TRUE /\ streaming' = FALSE /\ Return
      BY <1>7 DEF EndOfStream
    <2>2. stack' = <<>> /\ AloneIsOnlyCall'
      BY <1>1, <1>7, <2>1, MovedOut DEF AloneIsOnlyCall
    <2>3. stream.limit # -1 => stream.fetched <= stream.limit
      BY <1>3, <1>5, <1>6, <1>7
    <2>4. Metered'
      BY <1>2, <1>6, <1>7, <2>1, <2>2, <2>3 DEF Metered
    <2> QED BY <1>3, <2>2, <2>4 DEF Budget
  <1>8. ASSUME stream.alone,
               NEW f, f = [at |-> "received",
                           slot |-> SlotsRun("received", streaming' # streaming)],
               NEW left, left = remaining - Head(stack).size,
               Head(stack).size >= Head(stack).asked,
               remaining' = IF left = 0 THEN -1 ELSE left,
               streaming' = (streaming /\ left # 0),
               Goto(f), UNCHANGED seen_end
        PROVE  Budget'
    <2>1. f \in Frame /\ f.at = "received"
      BY <1>8 DEF SlotsRun, Frame, Receiving
    <2>2. /\ stack' # <<>> /\ Head(stack') = f /\ Tail(stack') = <<>>
          /\ Uncounted' = 0 /\ AloneIsOnlyCall'
      BY <1>1, <1>8, <2>1, MovedOn DEF Uncounted, AloneIsOnlyCall
    <2>3. Metered'
      <3> SUFFICES ASSUME stream.limit # -1
                   PROVE  /\ streaming' =>
                               /\ remaining' \in Nat
                               /\ stream.fetched + remaining' = stream.limit + Uncounted'
                          /\ ~streaming' => stream.fetched = stream.limit
                          /\ streaming_update' = NoPiece
        BY <1>2, <1>3, <2>1, <2>2 DEF Metered, CallMetered
      <3>1. CASE left = 0
        <4>0. ~streaming'
          BY <1>8, <3>1
        <4>1. remaining = Head(stack).size
          BY <1>5, <1>6, <1>8, <3>1
        <4>2. stream.fetched = stream.limit
          BY <4>1, <1>3, <1>5, <1>6, <1>8
        <4>3. streaming_update' = NoPiece
          BY <1>2, <1>6, <1>8
        <4> QED BY <4>0, <4>2, <4>3, Zenon
      <3>2. CASE left # 0
        <4>1. streaming' /\ remaining' = left
          BY <1>6, <1>8, <3>2
        <4>2. left \in Nat /\ stream.fetched + left = stream.limit
          BY <1>3, <1>5, <1>6, <1>8
        <4> QED BY <4>1, <4>2, <1>2, <1>3, <1>6, <1>8, <2>2
      <3> QED BY <3>1, <3>2
    <2> QED BY <1>3, <2>2, <2>3 DEF Budget
  <1> QED BY <1>4, <1>7, <1>8 DEF Inserted

LEMMA ReceivedMetered ==
  ASSUME Inv, Budget, Received
  PROVE  Budget'
  <1>1. At("received") /\ stack # <<>> /\ Head(stack).at = "received"
    BY Innermost DEF Received
  <1>2. UNCHANGED <<streaming, seen_end, remaining, streaming_update, stream>>
    BY DEF Received
  <1>3. StreamTyped'
    BY <1>2 DEF Budget, StreamTyped
  <1>4. CASE ~stream.alone
    BY <1>2, <1>3, <1>4, NotAlone
  <1>5. CASE stream.alone
    <2>1. Initiation(FALSE) \in Frame /\ Initiation(FALSE).at = "initiate"
      BY DEF Initiation, Frame, Initiating
    <2>2. \/ Return
          \/ streaming /\ Goto(Initiation(FALSE))
      BY DEF Received
    <2>3. AloneIsOnlyCall' /\ Uncounted' = 0
      BY <1>1, <1>5, <2>1, <2>2, MovedOn, MovedOut DEF AloneIsOnlyCall, Uncounted
    <2>4. stack' # <<>> => Head(stack').at = "initiate" /\ streaming
      BY <1>1, <1>5, <2>1, <2>2, MovedOn, MovedOut
    <2>5. Uncounted = 0
      BY <1>1 DEF Uncounted, At
    <2>6. stream.limit # -1 => streaming_update = NoPiece
      BY <1>1, <1>5 DEF Budget, Metered, CallMetered
    <2>7. Metered'
      BY <1>2, <2>3, <2>4, <2>5, <2>6 DEF Budget, Metered, CallMetered
    <2> QED BY <1>3, <2>3, <2>7 DEF Budget
  <1> QED BY <1>4, <1>5

----------------------------------------------------------------------------
(* The theorems.                                                           *)

\* The invariant holds of every behaviour of the streaming model.
THEOREM Invariance == Spec => []Inv
  <1>1. Init => Inv
    <2> SUFFICES ASSUME Init PROVE Inv
      OBVIOUS
    <2>1. rows = <<>> /\ stack = <<>> /\ Len(rows) = 0 /\ <<>> \in Seq(Row)
      BY EmptySeq, LenProperties DEF Init
    <2>2. Typed
      <3>1. rows \in Seq(Row) /\ stack \in Seq(Frame)
        BY <2>1, NoCalls, Zenon
      <3>2. -1 \in Int /\ 0 \in Nat
        OBVIOUS
      <3> QED BY <3>1, <3>2, Zenon DEF Init, Typed
    <2>3. Rows
      BY <2>1, NoCalls DEF Init, Rows, Gapless, EndMeansAll, UnderWayIsNext, ShortIsLast
    <2>4. Pieces
      BY <2>1, NoCalls
      DEF Init, Pieces, AwaitedIsUnderWay, StartedOnce, UnderWayIsHeard, RunningGoesOn
    <2> QED BY <2>2, <2>3, <2>4 DEF Inv
  <1>2. Inv /\ [Next]_vars => Inv'
    <2> SUFFICES ASSUME Inv, [Next]_vars PROVE Inv'
      OBVIOUS
    <2>1. ASSUME NEW enables \in SUBSET Flag, NEW disables \in SUBSET Flag,
                 AlterStrategy(enables, disables)
          PROVE  Inv'
      BY <2>1, AlterStrategyKeeps
    <2>2. CASE UNCHANGED vars \/ \E l \in Limits : SetLimit(l)
      BY <2>2, SetLimitKeeps
    <2>3. CASE GoesOn
      BY <2>3, AlteredKeeps, InitiateKeeps, StartedKeeps, InsertedKeeps, ReceivedKeeps
      DEF GoesOn
    <2>4. ASSUME NEW p \in pending, PieceAnswered(p)
          PROVE  Inv'
      BY <2>4, PieceAnsweredKeeps
    <2> QED BY <2>1, <2>2, <2>3, <2>4 DEF Next, Flag
  <1> QED BY <1>1, <1>2, PTL DEF Spec

\* The state keeps its shape.
THEOREM TypesKept == Spec => []TypeOK
  <1>1. Inv => TypeOK
    <2> SUFFICES ASSUME Inv PROVE \A i \in 1..Len(stack) : stack[i].slot \in BOOLEAN
      BY DEF Inv, Typed, TypeOK
    <2> SUFFICES ASSUME NEW i \in 1..Len(stack) PROVE stack[i].slot \in BOOLEAN
      OBVIOUS
    <2>1. stack[i] \in Frame
      BY ElementOfSeq DEF Inv, Typed
    <2>2. \A f \in Frame : f.slot \in BOOLEAN
      BY DEF Frame, Altering, Initiating, Starting, Inserting, Receiving
    <2> QED BY <2>1, <2>2
  <1> QED BY <1>1, Invariance, PTL

\* However pieces are started, cancelled and answered, and whatever slots
\* call, the rows of the model are a gapless beginning of the query's.
THEOREM RowsGapless == Spec => []Gapless
  <1>1. Inv => Gapless
    BY DEF Inv, Rows
  <1> QED BY <1>1, Invariance, PTL

\* The end of the stream is never declared early.
THEOREM EndIsComplete == Spec => []EndMeansAll
  <1>1. Inv => EndMeansAll
    BY DEF Inv, Rows
  <1> QED BY <1>1, Invariance, PTL

\* Nothing but the piece under way is awaited, and outside calls it is.
THEOREM PieceIsAwaited == Spec => []OnePieceUnderWay
  <1>1. Inv => OnePieceUnderWay
    BY NoCalls DEF Inv, Pieces, AwaitedIsUnderWay, UnderWayIsHeard, OnePieceUnderWay
  <1> QED BY <1>1, Invariance, PTL

\* Outside calls, a model that shows Running waits for a piece.
THEOREM RunningWaits == Spec => []NoIdleRunning
  <1>1. Inv => NoIdleRunning
    BY NoCalls DEF Inv, Pieces, UnderWayIsHeard, RunningGoesOn, NoIdleRunning
  <1> QED BY <1>1, Invariance, PTL

\* A stream nobody meddles with keeps within its limit, and stops only there or
\* at the end of the rows, for every limit and all block sizes.
THEOREM LimitIsKept == Spec => []LimitKept
  <1>1. Init => Budget
    <2> SUFFICES ASSUME Init PROVE Budget
      OBVIOUS
    <2>1. stream = [alone |-> FALSE, limit |-> -1, fetched |-> 0]
      BY DEF Init
    <2> QED BY <2>1 DEF Budget, StreamTyped, AloneIsOnlyCall, Metered
  <1>2. Inv /\ Budget /\ [Next]_vars => Budget'
    <2> SUFFICES ASSUME Inv, Budget, [Next]_vars PROVE Budget'
      OBVIOUS
    <2>1. ASSUME NEW enables \in SUBSET Flag, NEW disables \in SUBSET Flag,
                 AlterStrategy(enables, disables)
          PROVE  Budget'
      BY <2>1, AlterStrategyMetered
    <2>2. CASE UNCHANGED vars \/ \E l \in Limits : SetLimit(l)
      BY <2>2, SetLimitMetered
    <2>3. CASE GoesOn
      BY <2>3, AlteredMetered, InitiateMetered, StartedMetered, InsertedMetered,
         ReceivedMetered
      DEF GoesOn
    <2>4. ASSUME NEW p \in pending, PieceAnswered(p)
          PROVE  Budget'
      BY <2>4, PieceAnsweredMetered
    <2> QED BY <2>1, <2>2, <2>3, <2>4 DEF Next, Flag
  <1>3. Inv /\ Budget => LimitKept
    <2> SUFFICES ASSUME Inv, Budget, stream.alone, stream.limit # -1
                 PROVE  /\ stream.fetched <= stream.limit
                        /\ stack = <<>> /\ ~streaming /\ ~seen_end =>
                             stream.fetched = stream.limit
      BY DEF LimitKept
    <2>1. stream.fetched \in Nat /\ stream.limit \in Int
      BY LimitsAreNumbers DEF Budget, StreamTyped
    <2>2. CASE ~streaming
      BY <2>2 DEF Budget, Metered
    <2>3. CASE streaming
      <3>1. remaining \in Nat /\ stream.fetched + remaining = stream.limit + Uncounted
        BY <2>3 DEF Budget, Metered
      <3>2. Uncounted \in Nat /\ Uncounted <= remaining
        <4>1. CASE At("inserted")
          <5>1. /\ Head(stack) \in Frame /\ Head(stack).at = "inserted" /\ stack # <<>>
            BY <4>1, Innermost
          <5>2. Head(stack).size \in Nat /\ Head(stack).asked \in Nat
            BY <5>1 DEF Frame, Altering, Initiating, Starting, Inserting, Receiving
          <5>3. /\ Head(stack).size <= Head(stack).asked
                /\ Head(stack).asked <= remaining
            BY <5>1 DEF Budget, Metered, CallMetered
          <5> QED BY <4>1, <5>2, <5>3, <3>1 DEF Uncounted
        <4>2. CASE ~At("inserted")
          BY <4>2, <3>1 DEF Uncounted
        <4> QED BY <4>1, <4>2
      <3> QED BY <2>1, <2>3, <3>1, <3>2
    <2> QED BY <2>2, <2>3
  <1> QED BY <1>1, <1>2, <1>3, Invariance, PTL DEF Spec

=============================================================================
