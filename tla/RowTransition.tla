--------------------------- MODULE RowTransition ---------------------------
(***************************************************************************)
(* SmoothTransitionModule::update (lnm_transitionstrategy_p.cpp): merging  *)
(* the rows of a live update into the rows of a model, one block of        *)
(* signalled changes at a time.                                            *)
(*                                                                         *)
(* A row is its ordering column, its identity column and a data column.    *)
(* Rows are identified by the first two, which are unique in a model, and  *)
(* compared as text: rank is the place of an ordering value among texts.   *)
(* Row stores have no gaps here, and a block of the store holds all rows.  *)
(*                                                                         *)
(* A transition tr has the rows of the model and those of a view that      *)
(* follows the model's signals, the source and the keys of the update, the *)
(* index t_i of the row it has come to, the index s_i it has come to in    *)
(* the source, and in the merge up to the next match how many rows are     *)
(* left before the match in the model, removed, and in the source,         *)
(* inserted.  Its phase is "none" when no update is under way, "rows" when *)
(* it advances row by row, "merge", or "hangs".  Each step below ends      *)
(* where the code emits a signal or its outer loop begins again.           *)
(***************************************************************************)
EXTENDS Integers, Sequences, FiniteSetsExt

Identity(row) == <<row.ord, row.id>>

\* Variant: only the identity column is compared.
AboveById(a, b, rank) == a.id > b.id

\* rowIdentityCompare(a, b) > 0.
Above(a, b, rank) ==
  \/ rank[a.ord] > rank[b.ord]
  \/ rank[a.ord] = rank[b.ord] /\ a.id > b.id

\* Variant: the keys are looked up in another column.
InKeysByOrder(row, keys) == row.ord \in keys

\* isUpdatedRow: the update is about this row.
isUpdatedRow(row, keys) == row.id \in keys

RowsOf(rows, first, count) == SubSeq(rows, first, first + count - 1)
Without(rows, first, count) ==
  SubSeq(rows, 1, first - 1) \o SubSeq(rows, first + count, Len(rows))
With(rows, first, new) ==
  SubSeq(rows, 1, first - 1) \o new \o SubSeq(rows, first, Len(rows))

\* The longest run of offsets from 0, at most most of them, that are all good.
Run(most, good) == Max({n \in 0..most : 0..(n - 1) \subseteq good})

\* How many rows of the model and of the source are left side by side.
Pairs(tr) ==
  LET targets == Len(tr.rows) + 1 - tr.t_i
      sources == Len(tr.source) + 1 - tr.s_i
  IN IF targets < sources THEN targets ELSE sources

\* No update is under way.
Settled(rows, view) ==
  [phase |-> "none", rows |-> rows, view |-> view, source |-> <<>>, keys |-> {},
   t_i |-> 1, s_i |-> 1, removed |-> 0, inserted |-> 0]

\* update of all rows of a model, which a view shows, from the rows of a live
\* update that is about keys.
update(rows, view, source, keys) ==
  [Settled(rows, view) EXCEPT !.phase = "rows", !.source = source, !.keys = keys]

\* beginRemoveRows to endRemoveRows.
RemoveRows(tr, count) ==
  [tr EXCEPT !.rows = Without(@, tr.t_i, count),
             !.view = Without(@, tr.t_i, count),
             !.removed = @ - count]

\* beginInsertRows to endInsertRows; a view reads the new rows from the model.
InsertRows(tr, count) ==
  LET rows == With(tr.rows, tr.t_i, RowsOf(tr.source, tr.s_i, count)) IN
  [tr EXCEPT !.rows = rows,
             !.view = With(@, tr.t_i, RowsOf(rows, tr.t_i, count)),
             !.t_i = @ + count, !.s_i = @ + count, !.inserted = @ - count]

\* Variant: no signal.
WriteRows(tr, count) ==
  [tr EXCEPT !.rows = With(Without(@, tr.t_i, count), tr.t_i,
                           RowsOf(tr.source, tr.s_i, count)),
             !.t_i = @ + count, !.s_i = @ + count]

\* Rows written in place, and dataChanged; a view reads them from the model.
ChangeRows(tr, count) ==
  LET rows == With(Without(tr.rows, tr.t_i, count), tr.t_i,
                   RowsOf(tr.source, tr.s_i, count)) IN
  [tr EXCEPT !.rows = rows,
             !.view = With(Without(@, tr.t_i, count), tr.t_i,
                           RowsOf(rows, tr.t_i, count)),
             !.t_i = @ + count, !.s_i = @ + count]

\* What is equal is passed.
PassEqual(tr) ==
  LET equal == Run(Pairs(tr),
        {i \in 0..(Pairs(tr) - 1) : tr.rows[tr.t_i + i] = tr.source[tr.s_i + i]})
  IN [tr EXCEPT !.t_i = @ + equal, !.s_i = @ + equal]

\* How many rows are the same with other data.
OtherData(tr) ==
  Run(Pairs(tr),
      {i \in 0..(Pairs(tr) - 1) :
         /\ Identity(tr.rows[tr.t_i + i]) = Identity(tr.source[tr.s_i + i])
         /\ tr.rows[tr.t_i + i] # tr.source[tr.s_i + i]})

\* The places of the rows of the model, not before the row it has come to, that
\* the source has too.
Matches(tr) ==
  {m \in (tr.t_i..Len(tr.rows)) \X (tr.s_i..Len(tr.source)) :
     Identity(tr.rows[m[1]]) = Identity(tr.source[m[2]])}

\* iterateTargetToIdentitySource: the first of them, or the ends of both.
NextMatch(tr) ==
  IF Matches(tr) = {} THEN <<Len(tr.rows) + 1, Len(tr.source) + 1>>
  ELSE CHOOSE m \in Matches(tr) : \A n \in Matches(tr) : m[1] <= n[1]

\* Variant: the merge includes the match.
MergeMatchToo(tr, match) ==
  [tr EXCEPT !.phase = "merge", !.removed = match[1] + 1 - tr.t_i,
             !.inserted = match[2] - tr.s_i]

\* The merge up to a match begins.
MergeUpTo(tr, match) ==
  [tr EXCEPT !.phase = "merge", !.removed = match[1] - tr.t_i,
             !.inserted = match[2] - tr.s_i]

\* Row by row: what is equal is passed, what is the same row with other data
\* is written in place; then the next match is looked for.
AdvancePassed(tr) ==
  IF OtherData(tr) > 0 THEN ChangeRows(tr, OtherData(tr))
  ELSE MergeUpTo(tr, NextMatch(tr))
Advance(tr) == AdvancePassed(PassEqual(tr))

\* A row of the model belongs before the next of the source.
Before(tr, i, rank) ==
  tr.s_i > Len(tr.source) \/ ~Above(tr.rows[tr.t_i + i], tr.source[tr.s_i], rank)

\* Rows are passed that the update is not about.
PassKept(tr, rank) ==
  LET kept == Run(tr.removed,
        {i \in 0..(tr.removed - 1) :
           Before(tr, i, rank) /\ ~isUpdatedRow(tr.rows[tr.t_i + i], tr.keys)})
  IN [tr EXCEPT !.t_i = @ + kept, !.removed = @ - kept]

\* How many rows are removed: the update is about them.
Obsolete(tr, rank) ==
  Run(tr.removed,
      {i \in 0..(tr.removed - 1) :
         Before(tr, i, rank) /\ isUpdatedRow(tr.rows[tr.t_i + i], tr.keys)})

\* How many rows are inserted; the first without being compared.
NewRows(tr, rank) ==
  Run(tr.inserted,
      {i \in 0..(tr.inserted - 1) :
         \/ i = 0
         \/ tr.t_i > Len(tr.rows)
         \/ Above(tr.rows[tr.t_i], tr.source[tr.s_i + i], rank)})

\* The end of the loop over removed_rows and inserted_rows, which never comes
\* while rows are left that it neither removes nor passes; and of update.
Onward(tr) ==
  IF tr.removed > 0 THEN [tr EXCEPT !.phase = "hangs"]
  ELSE IF tr.t_i > Len(tr.rows) THEN Settled(tr.rows, tr.view)
  ELSE [tr EXCEPT !.phase = "rows"]

\* Variant: rows are removed whether the update is about them or not.
MergeAnyRow(tr, rank) ==
  IF tr.removed > 0 THEN RemoveRows(tr, tr.removed)
  ELSE IF tr.inserted > 0 THEN InsertRows(tr, tr.inserted)
  ELSE Onward(tr)

\* The loop over removed_rows and inserted_rows: rows the update is about are
\* removed, others are passed, and the rows of the source inserted, in order.
MergePassed(tr, rank) ==
  CASE Obsolete(tr, rank) > 0 -> RemoveRows(tr, Obsolete(tr, rank))
    [] Obsolete(tr, rank) = 0 /\ NewRows(tr, rank) > 0 ->
         InsertRows(tr, NewRows(tr, rank))
    [] Obsolete(tr, rank) = 0 /\ NewRows(tr, rank) = 0 -> Onward(tr)
Merge(tr, rank) == MergePassed(PassKept(tr, rank), rank)

=============================================================================
