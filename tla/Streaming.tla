----------------------------- MODULE Streaming -----------------------------
(***************************************************************************)
(* UpdaterModule's streaming of a model (updatermodule_p.cpp): the rows of *)
(* a sorted query are fetched piece by piece, each piece a query for what  *)
(* comes after the last row of the model.  Callers switch the Streaming    *)
(* and Running flags at any time, also from slots of the signals emitted   *)
(* while a piece is started or taken in; the stack below is the call that  *)
(* emitted.                                                                *)
(***************************************************************************)
EXTENDS Integers, Sequences

CONSTANTS
  Total,        \* rows the query has in the database
  FirstBlock,   \* model attribute streaming_first_block_size
  Block,        \* model attribute streaming_block_size
  Limits,       \* values of the model attribute streaming_limit
  SlotPoints,   \* the signals whose slots call alterStrategy
  NoPiece,      \* a null streaming_update_
  MaxCalls,     \* bound: calls by callers in a behaviour
  MaxDepth      \* bound: calls in progress at once

ASSUME SizesAssumption ==
  /\ Total \in Nat /\ FirstBlock \in Nat \ {0} /\ Block \in Nat \ {0}
  /\ Limits \subseteq Nat \cup {-1} /\ Limits # {}
ASSUME PointsAssumption ==
  /\ SlotPoints \subseteq {"altered", "started", "inserted", "received"}
  /\ MaxCalls \in Nat /\ MaxDepth \in Nat

VARIABLES
  streaming,        \* RDFStrategy::Streaming of the model
  running,          \* RDFStrategy::Running of the model
  seen_end,         \* EndOfStreamSeen
  remaining,        \* streaming_remaining_limit_, -1 for none
  limit,            \* streaming_limit
  streaming_update, \* streaming_update_: the piece under way
  pending,          \* pending_updates_: the pieces whose answer is awaited
  made,             \* pieces made so far, to tell them apart
  rows,             \* the rows of the model
  stack             \* calls in progress, the innermost first

VARIABLES
  calls,            \* history: calls by callers
  stream            \* history: the present stream, whether anybody meddled
                    \* with it, the limit it began with, the rows it fetched

flags == <<streaming, running, seen_end>>
vars == <<flags, remaining, limit, streaming_update, pending, made, rows,
          stack, calls, stream>>

Row == 1..Total
Piece == [no : Nat, after : Nat, size : Nat]

ASSUME NoPieceAssumption == NoPiece \notin Piece

\* Callers act when no call is in progress, or from a slot of the innermost.
CallersRun == stack # <<>> => Head(stack).slot
SlotsRun(at, emitted) == emitted /\ at \in SlotPoints
Goto(frame) == stack' = <<frame>> \o Tail(stack)
Return == stack' = Tail(stack)
Initiation(first) == [at |-> "initiate", slot |-> FALSE, first |-> first]
Start(p) ==
  [at |-> "started", slot |-> SlotsRun("started", ~running), piece |-> p]

At(point) == stack # <<>> /\ Head(stack).at = point

\* The answer to a piece: what the database has after the last row.
Answer(p) ==
  LET n == IF Total - p.after < p.size THEN Total - p.after ELSE p.size
  IN [i \in 1..n |-> p.after + i]

----------------------------------------------------------------------------
(* Calls of the callers.                                                   *)

\* alterStrategy.  Enabling anything is refused once the end was seen.
AlterStrategy(enables, disables) ==
  /\ CallersRun
  /\ calls < MaxCalls /\ Len(stack) < MaxDepth
  /\ enables # {} => ~seen_end
  /\ IF "Streaming" \in enables
     THEN remaining' = limit /\ streaming' = TRUE
     ELSE IF "Streaming" \in disables
     THEN remaining' = -1 /\ streaming' = FALSE
     ELSE UNCHANGED <<remaining, streaming>>
  /\ stack' = <<[at |-> "altered",
                 slot |-> SlotsRun("altered", streaming' # streaming),
                 enables |-> enables, disables |-> disables]>> \o stack
  /\ calls' = calls + 1
  /\ stream' =
       IF /\ "Streaming" \in enables /\ "Running" \notin disables
          /\ ~streaming /\ streaming_update = NoPiece /\ stack = <<>>
       THEN [alone |-> TRUE, limit |-> limit, fetched |-> 0]
       ELSE [stream EXCEPT !.alone = FALSE]
  /\ UNCHANGED <<running, seen_end, limit, streaming_update, pending, made, rows>>

\* setModelAttribute("streaming_limit").
SetLimit(l) ==
  /\ CallersRun
  /\ calls < MaxCalls
  /\ limit' = l
  /\ calls' = calls + 1
  /\ UNCHANGED <<flags, remaining, streaming_update, pending, made, rows,
                 stack, stream>>

----------------------------------------------------------------------------
(* What the calls go on to do.                                             *)

Unmoved == UNCHANGED <<limit, calls>>

\* Variant: the answer of the cancelled piece is still awaited.
CancelLeavesPending ==
  /\ streaming_update' = NoPiece
  /\ running' = (running /\ streaming_update = NoPiece)
  /\ Return
  /\ UNCHANGED pending

\* cancelStreamPiece.
Cancel ==
  /\ streaming_update' = NoPiece
  /\ pending' = pending \ {streaming_update}
  /\ running' = (running /\ streaming_update = NoPiece)
  /\ Return

\* The rest of changeState.
Altered ==
  /\ At("altered")
  /\ \/ /\ "Running" \in Head(stack).disables
        /\ Cancel
     \/ /\ "Running" \notin Head(stack).disables
        /\ IF Head(stack).enables # {}
           THEN Goto(Initiation(TRUE))
           ELSE Return
        /\ UNCHANGED <<running, streaming_update, pending>>
  /\ UNCHANGED <<streaming, seen_end, remaining, made, rows, stream>> /\ Unmoved

EndOfStream ==
  /\ seen_end' = TRUE
  /\ streaming' = FALSE
  /\ running' = FALSE
  /\ Return

\* Variant: the limit is not looked at.
WholeBlock(first) == IF first THEN FirstBlock ELSE Block

\* Variant: no limit compares as -1, below every block.
SignedSize(first) ==
  LET block == IF first THEN FirstBlock ELSE Block IN
  IF remaining < block THEN remaining ELSE block

\* The size of the next piece.  What is below zero compares as a large unsigned.
NextSize(first) ==
  LET block == IF first THEN FirstBlock ELSE Block IN
  IF 0 <= remaining /\ remaining < block THEN remaining ELSE block

\* What comes after the last row of the model.
NextPiece ==
  [no |-> made + 1,
   after |-> IF rows = <<>> THEN 0 ELSE rows[Len(rows)],
   size |-> NextSize(Head(stack).first)]

\* Variant: a piece is made although one is under way.
InitiateAgain ==
  /\ At("initiate")
  /\ LET p == NextPiece IN
        /\ streaming_update' = p
        /\ made' = made + 1
        /\ running' = TRUE
        /\ Goto(Start(p))
  /\ UNCHANGED <<streaming, seen_end, remaining, pending, rows, stream>> /\ Unmoved

\* initiateStreamPiece, up to the signal that Running is enabled.
Initiate ==
  /\ At("initiate")
  /\ \/ /\ seen_end
        /\ EndOfStream
        /\ UNCHANGED <<streaming_update, made>>
     \/ /\ ~seen_end /\ streaming_update # NoPiece
        /\ Return
        /\ UNCHANGED <<flags, streaming_update, made>>
     \/ /\ ~seen_end /\ streaming_update = NoPiece
        /\ LET p == NextPiece IN
              /\ streaming_update' = p
              /\ made' = made + 1
              /\ running' = TRUE
              /\ Goto(Start(p))
        /\ UNCHANGED <<streaming, seen_end>>
  /\ UNCHANGED <<remaining, pending, rows, stream>> /\ Unmoved

\* StreamingUpdate::updateModel, up to the signal that rows are inserted.
TakeIn(p, callers) ==
  /\ streaming_update' = NoPiece
  /\ rows' = rows \o Answer(p)
  /\ stream' = [stream EXCEPT !.fetched = @ + Len(Answer(p))]
  /\ stack' = <<[at |-> "inserted",
                 slot |-> SlotsRun("inserted", Answer(p) # <<>>),
                 size |-> Len(Answer(p)), asked |-> p.size]>> \o callers

\* Variant: the model of the piece is never waited for.
StartedUnheard ==
  /\ At("started")
  /\ Return
  /\ UNCHANGED <<streaming_update, rows, stream, pending>>
  /\ UNCHANGED <<flags, remaining, made>> /\ Unmoved

\* The rest of initiateStreamPiece: the model of the piece is awaited, or it
\* is ready at once.  A piece that a slot has cancelled is gone, and with it
\* the model that would answer.
Started ==
  /\ At("started")
  /\ LET p == Head(stack).piece IN
     \/ /\ pending' = IF streaming_update = p THEN pending \cup {p} ELSE pending
        /\ Return
        /\ UNCHANGED <<streaming_update, rows, stream>>
     \/ /\ streaming_update = p
        /\ TakeIn(p, Tail(stack))
        /\ UNCHANGED pending
  /\ UNCHANGED <<flags, remaining, made>> /\ Unmoved

\* updateModelDerivedsUpdated: a piece is answered.
PieceAnswered(p) ==
  /\ stack = <<>>
  /\ p \in pending
  /\ pending' = pending \ {p}
  /\ TakeIn(p, <<>>)
  /\ UNCHANGED <<flags, remaining, made>> /\ Unmoved

\* Variant: a piece of the size asked for ends the stream too.
InsertedEndsEarly ==
  /\ At("inserted")
  /\ EndOfStream
  /\ UNCHANGED remaining
  /\ UNCHANGED <<streaming_update, pending, made, rows, stream>> /\ Unmoved

\* The rest of updateModel and the first half of receivedStreamPiece.
Inserted ==
  /\ At("inserted")
  /\ \/ /\ Head(stack).size < Head(stack).asked
        /\ EndOfStream
        /\ UNCHANGED remaining
     \/ /\ Head(stack).size >= Head(stack).asked
        /\ LET left == remaining - Head(stack).size IN
           /\ remaining' = IF left = 0 THEN -1 ELSE left
           /\ streaming' = (streaming /\ left # 0)
           /\ Goto([at |-> "received",
                   slot |-> SlotsRun("received", streaming' # streaming)])
        /\ UNCHANGED <<running, seen_end>>
  /\ UNCHANGED <<streaming_update, pending, made, rows, stream>> /\ Unmoved

\* Variant: Running stays on when the stream was stopped.
ReceivedStaysRunning ==
  /\ At("received")
  /\ IF streaming THEN Goto(Initiation(FALSE)) ELSE Return
  /\ UNCHANGED running
  /\ UNCHANGED <<streaming, seen_end, remaining, streaming_update, pending,
                 made, rows, stream>> /\ Unmoved

\* The second half of receivedStreamPiece.
Received ==
  /\ At("received")
  /\ \/ /\ streaming
        /\ Goto(Initiation(FALSE))
        /\ UNCHANGED running
     \/ /\ ~streaming
        /\ running' = FALSE
        /\ Return
  /\ UNCHANGED <<streaming, seen_end, remaining, streaming_update, pending,
                 made, rows, stream>> /\ Unmoved

----------------------------------------------------------------------------
\* UpdaterModule::UpdaterModule and attached; the graph cache then enables
\* the strategies that were asked for.
Init ==
  /\ streaming = FALSE /\ running = FALSE /\ seen_end = FALSE
  /\ remaining = -1
  /\ limit \in Limits
  /\ streaming_update = NoPiece
  /\ pending = {}
  /\ made = 0
  /\ rows = <<>>
  /\ stack = <<>>
  /\ calls = 0
  /\ stream = [alone |-> FALSE, limit |-> -1, fetched |-> 0]

GoesOn == Altered \/ Initiate \/ Started \/ Inserted \/ Received

Next ==
  \/ \E enables, disables \in SUBSET {"Streaming", "Running"} :
       /\ enables \cap disables = {} /\ enables \cup disables # {}
       /\ AlterStrategy(enables, disables)
  \/ \E l \in Limits : SetLimit(l)
  \/ GoesOn
  \/ \E p \in pending : PieceAnswered(p)

Spec == Init /\ [][Next]_vars

\* Queries are answered, and calls go on.
FairSpec ==
  Spec /\ WF_vars(GoesOn) /\ WF_vars(\E p \in pending : PieceAnswered(p))

----------------------------------------------------------------------------
(* Properties.                                                             *)

\* The shape of the state.
TypeOK ==
  /\ streaming \in BOOLEAN /\ running \in BOOLEAN /\ seen_end \in BOOLEAN
  /\ remaining \in Int /\ limit \in Limits
  /\ streaming_update \in Piece \cup {NoPiece}
  /\ pending \subseteq Piece
  /\ made \in Nat
  /\ rows \in Seq(Row)
  /\ \A i \in 1..Len(stack) : stack[i].slot \in BOOLEAN

\* The model is at all times a gapless beginning of the query's rows: pieces
\* neither overlap nor leave anything out, whatever slots start or cancel.
Gapless == \A i \in 1..Len(rows) : rows[i] = i

\* Outside calls, the one piece under way is the one whose answer is awaited.
OnePieceUnderWay ==
  /\ pending \subseteq {streaming_update}
  /\ stack = <<>> => {streaming_update} \ {NoPiece} = pending

\* A model that shows Running does wait for a piece: nobody is left watching
\* a model that will never change.
NoIdleRunning == stack = <<>> /\ running => pending # {}

\* The end of the stream is declared only when every row is there.
EndMeansAll == seen_end => Len(rows) = Total

\* A stream nobody meddles with stays within its limit, and ends only there
\* or at the end of the rows.
LimitKept ==
  stream.alone /\ stream.limit # -1 =>
    /\ stream.fetched <= stream.limit
    /\ stack = <<>> /\ ~streaming /\ ~seen_end => stream.fetched = stream.limit

\* A stream whose limit was disabled with RDFSelect::NoLimit, which is 0, goes
\* on to the end of the rows.
NoLimit == 0
NoLimitStreamsAll ==
  stream.alone /\ stream.limit = NoLimit /\ stack = <<>> /\ ~streaming => seen_end

\* What runs comes to rest.
StreamsEnd == (running \/ stack # <<>>) ~> (~running /\ stack = <<>>)

=============================================================================
