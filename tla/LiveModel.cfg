SPECIFICATION Spec
CONSTANTS
  Subject <- MCSubject
  Content <- MCContent
  Initial <- MCInitial
  TextRanks <- MCTextRanks
  Absent = Absent
  MaxChanges = 2
INVARIANTS
  TypeOK
  OneRowEach
  ViewFollows
  HangsOnlyOutOfOrder
  Agreement
  UpdateMerges
CHECK_DEADLOCK FALSE
