---------------------------- MODULE MCLiveModel ----------------------------
(* Instances of LiveModel.                                                 *)
EXTENDS LiveModel

MCSubject == 1..2

\* One ordering value with two data values, and another ordering value.
MCContent == {[ord |-> 1, data |-> 1], [ord |-> 1, data |-> 2], [ord |-> 2, data |-> 1]}

\* The second resource before the first; both with one ordering value.
MCInitial ==
  { [s \in MCSubject |-> [ord |-> 3 - s, data |-> 1]],
    [s \in MCSubject |-> [ord |-> 1, data |-> s]] }

\* Texts that compare as the database does, and the other way round, as the
\* texts of 9 and 10 do.
MCTextRanks == {[o \in 1..2 |-> o], [o \in 1..2 |-> 3 - o]}

Databases == [1..3 -> MCContent \cup {Absent}]

\* An update from its beginning to its end.
RECURSIVE Completed(_, _)
Completed(step, rank) ==
  CASE step.phase = "rows" -> Completed(Advance(step), rank)
    [] step.phase = "merge" -> Completed(Merge(step, rank), rank)
    [] step.phase \in {"none", "hangs"} -> step

\* Of all rows of up to three resources and all updates about some of them, in
\* the order of their texts: update makes the rows that are not updated, and
\* those of the update, in order.  Evaluated in one initial state.
UpdateMerges ==
  changes = 0 /\ TextsInOrder /\ queries # <<>> /\ queries[1].at = Unexecuted
      /\ (\A s \in MCSubject : db[s].data = 1) =>
    \A old \in Databases, keys \in SUBSET (1..3) :
    \A new \in [keys -> MCContent \cup {Absent}] :
      LET target == Answer(old, 1..3)
          source == Answer(new, keys)
          end == Completed(update(target, target, source, keys), text)
          merged == Answer([s \in 1..3 |-> IF s \in keys THEN new[s] ELSE old[s]], 1..3)
      IN end = Settled(merged, merged)

=============================================================================
