---------------------------- MODULE MergeProofs ----------------------------
(***************************************************************************)
(* Proofs about the merge of an update into the rows of a live model, for  *)
(* all rows and updates: its steps stay within the rows, a view follows    *)
(* them, and when texts compare as the database orders, the rows stay in   *)
(* order and the merge does not hang, but comes to an end in the rows      *)
(* that a query would have.                                                *)
(***************************************************************************)
EXTENDS LiveModel, SequenceTheorems, FiniteSetTheorems, FunctionTheorems,
        WellFoundedInduction, TLAPS

----------------------------------------------------------------------------
(* The helpers.                                                            *)

\* A set of numbers up to n has a greatest.
LEMMA GreatestOf ==
  ASSUME NEW n \in Nat, NEW S \in SUBSET (0..n), S # {}
  PROVE  Max(S) \in S /\ \A y \in S : y <= Max(S)
  <1> DEFINE T == {n - p : p \in S}
             R == OpToRel(<, Nat)
  <1>1. \A x, y \in Nat : x < y => <<x, y>> \in R
    BY DEF OpToRel
  <1>2. IsWellFoundedOn(R, Nat)
    BY NatLessThanWellFounded
  <1> HIDE DEF R
  <1>3. T \subseteq Nat /\ T # {}
    <2>1. ASSUME NEW q \in S PROVE n - q \in Nat /\ n - q \in T
      OBVIOUS
    <2> QED BY <2>1
  <1> HIDE DEF T
  <1>4. PICK x \in T : \A y \in T : ~ (<<y, x>> \in R)
    BY <1>2, <1>3, WFMin
  <1> USE DEF T
  <1>5. PICK p \in S : x = n - p
    BY <1>4
  <1>6. ASSUME NEW r \in S PROVE p >= r
    <2>1. n - r \in T /\ ~(<<n - r, x>> \in R)
      BY <1>4
    <2>2. ~(n - r < x)
      BY <1>1, <1>3, <1>4, <2>1
    <2> QED BY <1>5, <2>2
  <1>7. Max(S) \in S /\ \A y \in S : Max(S) >= y
    BY <1>6 DEF Max
  <1> QED BY <1>7

\* A run has only good offsets, and ends at one that is not.
LEMMA RunOf ==
  ASSUME NEW most \in Nat, NEW good
  PROVE  /\ Run(most, good) \in 0..most
         /\ \A i \in 0..(Run(most, good) - 1) : i \in good
         /\ Run(most, good) < most => Run(most, good) \notin good
  <1> DEFINE S == {n \in 0..most : 0..(n - 1) \subseteq good}
             run == Run(most, good)
  <1>1. 0 \in S
    OBVIOUS
  <1>2. S \in SUBSET (0..most) /\ run = Max(S)
    BY DEF Run
  <1>3. run \in S /\ \A n \in S : n <= run
    BY <1>1, <1>2, GreatestOf
  <1> HIDE DEF run
  <1>4. ASSUME run < most, run \in good PROVE FALSE
    <2>1. run + 1 \in 0..most /\ run \in 0..most
      BY <1>3, <1>4
    <2>2. ASSUME NEW i \in 0..((run + 1) - 1) PROVE i \in good
      <3>1. i = run \/ i \in 0..(run - 1)
        BY <2>1
      <3> QED BY <3>1, <1>3, <1>4
    <2>3. run + 1 \in S
      BY <2>1, <2>2
    <2> QED BY <1>3, <2>1, <2>3
  <1> QED BY <1>3, <1>4 DEF run

\* Some rows of the whole.
LEMMA RowsOfIs ==
  ASSUME NEW R, NEW q \in Seq(R), NEW f \in Nat, NEW c \in Nat, 1 <= f, f + c <= Len(q) + 1
  PROVE  /\ RowsOf(q, f, c) \in Seq(R) /\ Len(RowsOf(q, f, c)) = c
         /\ \A i \in 1..c : RowsOf(q, f, c)[i] = q[f + i - 1]
  <1>1. Len(q) \in Nat /\ f + c - 1 \in Int
    BY LenProperties
  <1>2. \A i \in f..(f + c - 1) : q[i] \in R
    <2> TAKE i \in f..(f + c - 1)
    <2>1. i \in 1..Len(q)
      BY <1>1
    <2> QED BY <2>1, ElementOfSeq
  <1>3. /\ SubSeq(q, f, f + c - 1) \in Seq(R)
        /\ Len(SubSeq(q, f, f + c - 1)) = IF f <= f + c - 1 THEN (f + c - 1) - f + 1 ELSE 0
        /\ \A i \in 1..((f + c - 1) - f + 1) : SubSeq(q, f, f + c - 1)[i] = q[f + i - 1]
    BY <1>1, <1>2, SubSeqProperties
  <1>4. (f + c - 1) - f + 1 = c /\ (IF f <= f + c - 1 THEN (f + c - 1) - f + 1 ELSE 0) = c
    OBVIOUS
  <1> QED BY <1>3, <1>4 DEF RowsOf

\* The whole without some rows.
LEMMA WithoutIs ==
  ASSUME NEW R, NEW q \in Seq(R), NEW f \in Nat, NEW c \in Nat, 1 <= f, f + c <= Len(q) + 1
  PROVE  /\ Without(q, f, c) \in Seq(R) /\ Len(Without(q, f, c)) = Len(q) - c
         /\ \A i \in 1..(Len(q) - c) :
              Without(q, f, c)[i] = IF i < f THEN q[i] ELSE q[i + c]
  <1> DEFINE a == SubSeq(q, 1, f - 1)
             b == SubSeq(q, f + c, Len(q))
  <1>1. Len(q) \in Nat
    BY LenProperties
  <1>2. a \in Seq(R) /\ Len(a) = f - 1 /\ \A i \in 1..(f - 1) : a[i] = q[i]
    <2>1. \A i \in 1..(f - 1) : q[i] \in R
      BY <1>1, ElementOfSeq
    <2>2. /\ a \in Seq(R) /\ Len(a) = IF 1 <= f - 1 THEN (f - 1) - 1 + 1 ELSE 0
          /\ \A i \in 1..((f - 1) - 1 + 1) : a[i] = q[1 + i - 1]
      BY <2>1, SubSeqProperties
    <2> HIDE DEF a
    <2> QED BY <2>2
  <1>3. /\ b \in Seq(R) /\ Len(b) = Len(q) + 1 - (f + c)
        /\ \A i \in 1..(Len(q) + 1 - (f + c)) : b[i] = q[f + c + i - 1]
    <2>1. \A i \in (f + c)..Len(q) : q[i] \in R
      BY <1>1, ElementOfSeq
    <2>2. /\ b \in Seq(R) /\ Len(b) = IF f + c <= Len(q) THEN Len(q) - (f + c) + 1 ELSE 0
          /\ \A i \in 1..(Len(q) - (f + c) + 1) : b[i] = q[f + c + i - 1]
      BY <1>1, <2>1, SubSeqProperties
    <2> HIDE DEF b
    <2> QED BY <1>1, <2>2
  <1> HIDE DEF a, b
  <1>4. /\ a \o b \in Seq(R) /\ Len(a \o b) = Len(a) + Len(b)
        /\ \A i \in 1..(Len(a) + Len(b)) :
             (a \o b)[i] = IF i <= Len(a) THEN a[i] ELSE b[i - Len(a)]
    BY <1>2, <1>3, ConcatProperties
  <1>5. Without(q, f, c) = a \o b
    BY DEF Without, a, b
  <1>6. Len(a) + Len(b) = Len(q) - c
    BY <1>1, <1>2, <1>3
  <1>7. ASSUME NEW i \in 1..(Len(q) - c)
        PROVE  (a \o b)[i] = IF i < f THEN q[i] ELSE q[i + c]
    <2>1. CASE i < f
      <3>1. i <= Len(a) /\ i \in 1..(f - 1)
        BY <1>1, <1>2, <2>1
      <3> QED BY <1>2, <1>4, <1>6, <2>1, <3>1
    <2>2. CASE ~(i < f)
      <3>1. /\ ~(i <= Len(a)) /\ i - Len(a) \in 1..(Len(q) + 1 - (f + c))
            /\ f + c + (i - Len(a)) - 1 = i + c
        BY <1>1, <1>2, <2>2
      <3>2. (a \o b)[i] = b[i - Len(a)]
        BY <1>4, <1>6, <3>1
      <3>3. b[i - Len(a)] = q[i + c]
        BY <1>3, <3>1
      <3> QED BY <2>2, <3>2, <3>3
    <2> QED BY <2>1, <2>2
  <1> QED BY <1>4, <1>5, <1>6, <1>7

\* The whole with some more rows.
LEMMA WithIs ==
  ASSUME NEW R, NEW q \in Seq(R), NEW new \in Seq(R), NEW f \in Nat, 1 <= f, f <= Len(q) + 1
  PROVE  /\ With(q, f, new) \in Seq(R) /\ Len(With(q, f, new)) = Len(q) + Len(new)
         /\ \A i \in 1..(Len(q) + Len(new)) :
              With(q, f, new)[i] = IF i < f THEN q[i]
                                   ELSE IF i < f + Len(new) THEN new[i - f + 1]
                                   ELSE q[i - Len(new)]
  <1> DEFINE a == SubSeq(q, 1, f - 1)
             b == SubSeq(q, f, Len(q))
  <1>1. Len(q) \in Nat /\ Len(new) \in Nat
    BY LenProperties
  <1>2. a \in Seq(R) /\ Len(a) = f - 1 /\ \A i \in 1..(f - 1) : a[i] = q[i]
    <2>1. \A i \in 1..(f - 1) : q[i] \in R
      BY <1>1, ElementOfSeq
    <2>2. /\ a \in Seq(R) /\ Len(a) = IF 1 <= f - 1 THEN (f - 1) - 1 + 1 ELSE 0
          /\ \A i \in 1..((f - 1) - 1 + 1) : a[i] = q[1 + i - 1]
      BY <2>1, SubSeqProperties
    <2> HIDE DEF a
    <2> QED BY <2>2
  <1>3. /\ b \in Seq(R) /\ Len(b) = Len(q) + 1 - f
        /\ \A i \in 1..(Len(q) + 1 - f) : b[i] = q[f + i - 1]
    <2>1. \A i \in f..Len(q) : q[i] \in R
      BY <1>1, ElementOfSeq
    <2>2. /\ b \in Seq(R) /\ Len(b) = IF f <= Len(q) THEN Len(q) - f + 1 ELSE 0
          /\ \A i \in 1..(Len(q) - f + 1) : b[i] = q[f + i - 1]
      BY <1>1, <2>1, SubSeqProperties
    <2> HIDE DEF b
    <2> QED BY <1>1, <2>2
  <1> HIDE DEF a, b
  <1>4. /\ a \o new \in Seq(R) /\ Len(a \o new) = Len(a) + Len(new)
        /\ \A i \in 1..(Len(a) + Len(new)) :
             (a \o new)[i] = IF i <= Len(a) THEN a[i] ELSE new[i - Len(a)]
    BY <1>2, ConcatProperties
  <1> DEFINE an == a \o new
  <1> HIDE DEF an
  <1>5. /\ an \in Seq(R) /\ Len(an) = f - 1 + Len(new)
        /\ \A i \in 1..(f - 1 + Len(new)) :
             an[i] = IF i <= f - 1 THEN a[i] ELSE new[i - (f - 1)]
    BY <1>2, <1>4 DEF an
  <1>6. /\ an \o b \in Seq(R) /\ Len(an \o b) = Len(an) + Len(b)
        /\ \A i \in 1..(Len(an) + Len(b)) :
             (an \o b)[i] = IF i <= Len(an) THEN an[i] ELSE b[i - Len(an)]
    BY <1>3, <1>5, ConcatProperties
  <1>7. With(q, f, new) = an \o b
    BY DEF With, a, b, an
  <1>8. Len(an) + Len(b) = Len(q) + Len(new)
    BY <1>1, <1>3, <1>5
  <1>9. ASSUME NEW i \in 1..(Len(q) + Len(new))
        PROVE  (an \o b)[i] = IF i < f THEN q[i]
                              ELSE IF i < f + Len(new) THEN new[i - f + 1]
                              ELSE q[i - Len(new)]
    <2>1. CASE i < f
      <3>1. i <= Len(an) /\ i \in 1..(f - 1) /\ i \in 1..(f - 1 + Len(new)) /\ i <= f - 1
        BY <1>1, <1>5, <2>1
      <3>2. (an \o b)[i] = an[i]
        BY <1>6, <1>8, <3>1
      <3>3. an[i] = a[i]
        BY <1>5, <3>1
      <3> QED BY <1>2, <2>1, <3>1, <3>2, <3>3
    <2>2. CASE ~(i < f) /\ i < f + Len(new)
      <3>1. /\ i <= Len(an) /\ i \in 1..(f - 1 + Len(new)) /\ ~(i <= f - 1)
            /\ i - (f - 1) = i - f + 1
        BY <1>1, <1>5, <2>2
      <3>2. (an \o b)[i] = an[i]
        BY <1>6, <1>8, <3>1
      <3>3. an[i] = new[i - f + 1]
        BY <1>5, <3>1
      <3> QED BY <2>2, <3>2, <3>3
    <2>3. CASE ~(i < f) /\ ~(i < f + Len(new))
      <3>1. /\ ~(i <= Len(an)) /\ i - Len(an) \in 1..(Len(q) + 1 - f)
            /\ f + (i - Len(an)) - 1 = i - Len(new)
        BY <1>1, <1>5, <2>3
      <3>2. (an \o b)[i] = b[i - Len(an)]
        BY <1>6, <1>8, <3>1
      <3>3. b[i - Len(an)] = q[i - Len(new)]
        BY <1>3, <3>1
      <3> QED BY <2>3, <3>2, <3>3
    <2> QED BY <2>1, <2>2, <2>3
  <1> QED BY <1>6, <1>7, <1>8, <1>9

----------------------------------------------------------------------------
(* Rows overwritten, removed and inserted at place a; the new ones are     *)
(* those of a source from its place b.                                     *)

Overwritten(q, r, source, a, b, c) ==
  /\ Len(r) = Len(q)
  /\ \A i \in 1..Len(q) :
       r[i] = IF a <= i /\ i < a + c THEN source[b + (i - a)] ELSE q[i]

RowsRemoved(q, r, a, c) ==
  /\ Len(r) = Len(q) - c
  /\ \A i \in 1..(Len(q) - c) : r[i] = IF i < a THEN q[i] ELSE q[i + c]

RowsInserted(q, r, source, a, b, c) ==
  /\ Len(r) = Len(q) + c
  /\ \A i \in 1..(Len(q) + c) :
       r[i] = IF i < a THEN q[i]
              ELSE IF i < a + c THEN source[b + (i - a)] ELSE q[i - c]

\* Insertion, and what a view reads of it.
LEMMA InsertionIs ==
  ASSUME NEW R, NEW q \in Seq(R), NEW source \in Seq(R),
         NEW a \in Nat, NEW b \in Nat, NEW c \in Nat,
         1 <= a, a <= Len(q) + 1, 1 <= b, b + c <= Len(source) + 1,
         NEW now, now = With(q, a, RowsOf(source, b, c))
  PROVE  /\ now \in Seq(R) /\ RowsInserted(q, now, source, a, b, c)
         /\ RowsOf(now, a, c) = RowsOf(source, b, c)
  <1> DEFINE new == RowsOf(source, b, c)
  <1>1. Len(q) \in Nat
    BY LenProperties
  <1>2. /\ new \in Seq(R) /\ Len(new) = c
        /\ \A i \in 1..c : new[i] = source[b + i - 1]
    BY RowsOfIs
  <1> HIDE DEF new
  <1>3. now = With(q, a, new)
    BY DEF new
  <1>4. /\ now \in Seq(R) /\ Len(now) = Len(q) + Len(new)
        /\ \A i \in 1..(Len(q) + Len(new)) :
             now[i] = IF i < a THEN q[i]
                      ELSE IF i < a + Len(new) THEN new[i - a + 1]
                      ELSE q[i - Len(new)]
    <2>1. /\ With(q, a, new) \in Seq(R) /\ Len(With(q, a, new)) = Len(q) + Len(new)
          /\ \A i \in 1..(Len(q) + Len(new)) :
               With(q, a, new)[i] = IF i < a THEN q[i]
                                    ELSE IF i < a + Len(new) THEN new[i - a + 1]
                                    ELSE q[i - Len(new)]
      <3>1. new \in Seq(R)
        BY <1>2
      <3> QED BY <3>1, WithIs
    <2> QED BY <1>3, <2>1
  <1>5. ASSUME NEW i \in 1..(Len(q) + c)
        PROVE  now[i] = IF i < a THEN q[i]
                        ELSE IF i < a + c THEN source[b + (i - a)] ELSE q[i - c]
    <2>1. CASE i < a \/ ~(i < a + c)
      BY <1>2, <1>4, <2>1
    <2>2. CASE ~(i < a) /\ i < a + c
      <3>1. i - a + 1 \in 1..c /\ b + (i - a + 1) - 1 = b + (i - a)
        BY <1>1, <2>2
      <3>2. now[i] = new[i - a + 1]
        BY <1>2, <1>4, <2>2
      <3>3. new[i - a + 1] = source[b + (i - a)]
        BY <1>2, <3>1
      <3> QED BY <2>2, <3>2, <3>3
    <2> QED BY <2>1, <2>2
  <1>6. RowsOf(now, a, c) = new
    <2>1. a + c <= Len(now) + 1
      BY <1>1, <1>2, <1>4
    <2>2. /\ RowsOf(now, a, c) \in Seq(R) /\ Len(RowsOf(now, a, c)) = c
          /\ \A i \in 1..c : RowsOf(now, a, c)[i] = now[a + i - 1]
      <3>1. now \in Seq(R)
        BY <1>4
      <3> QED BY ZenonT(60), <2>1, <3>1, RowsOfIs
    <2>3. ASSUME NEW i \in 1..c PROVE now[a + i - 1] = new[i]
      <3>1. /\ a + i - 1 \in 1..(Len(q) + Len(new)) /\ ~(a + i - 1 < a)
            /\ a + i - 1 < a + Len(new) /\ (a + i - 1) - a + 1 = i
        BY <1>1, <1>2
      <3> QED BY <1>4, <3>1
    <2> DEFINE read == RowsOf(now, a, c)
    <2> HIDE DEF read
    <2>4. read \in Seq(R) /\ Len(read) = Len(new) /\ \A i \in 1..Len(read) : read[i] = new[i]
      <3>1. Len(read) = c /\ read \in Seq(R)
        BY <2>2 DEF read
      <3>2. \A i \in 1..c : read[i] = now[a + i - 1]
        BY <2>2 DEF read
      <3> QED BY <1>2, <2>3, <3>1, <3>2
    <2>5. read = new
      BY <1>2, <2>4, SeqEqual
    <2> QED BY <2>5 DEF read
  <1>7. RowsInserted(q, now, source, a, b, c)
    BY <1>2, <1>4, <1>5 DEF RowsInserted
  <1> QED BY <1>4, <1>6, <1>7 DEF new

\* Rows are overwritten by removal and insertion.
LEMMA OverwritingIs ==
  ASSUME NEW R, NEW q \in Seq(R), NEW source \in Seq(R),
         NEW a \in Nat, NEW b \in Nat, NEW c \in Nat,
         1 <= a, a + c <= Len(q) + 1, 1 <= b, b + c <= Len(source) + 1,
         NEW now, now = With(Without(q, a, c), a, RowsOf(source, b, c))
  PROVE  /\ now \in Seq(R) /\ Overwritten(q, now, source, a, b, c)
         /\ RowsOf(now, a, c) = RowsOf(source, b, c)
  <1> DEFINE rest == Without(q, a, c)
  <1>1. Len(q) \in Nat
    BY LenProperties
  <1>2. /\ rest \in Seq(R) /\ Len(rest) = Len(q) - c
        /\ \A i \in 1..(Len(q) - c) : rest[i] = IF i < a THEN q[i] ELSE q[i + c]
    BY WithoutIs
  <1> HIDE DEF rest
  <1>3. now = With(rest, a, RowsOf(source, b, c)) /\ a <= Len(rest) + 1
    BY <1>1, <1>2 DEF rest
  <1>4. /\ now \in Seq(R) /\ RowsInserted(rest, now, source, a, b, c)
        /\ RowsOf(now, a, c) = RowsOf(source, b, c)
    BY <1>2, <1>3, InsertionIs
  <1>5. /\ Len(now) = Len(q)
        /\ \A i \in 1..Len(q) :
             now[i] = IF i < a THEN rest[i]
                      ELSE IF i < a + c THEN source[b + (i - a)] ELSE rest[i - c]
    <2>1. Len(rest) + c = Len(q)
      BY <1>1, <1>2
    <2> QED BY <1>4, <2>1 DEF RowsInserted
  <1>6. ASSUME NEW i \in 1..Len(q)
        PROVE  now[i] = IF a <= i /\ i < a + c THEN source[b + (i - a)] ELSE q[i]
    <2>1. CASE i < a
      <3>1. i \in 1..(Len(q) - c)
        BY <1>1, <2>1
      <3> QED BY <1>2, <1>5, <2>1, <3>1
    <2>2. CASE a <= i /\ i < a + c
      BY <1>5, <2>2
    <2>3. CASE a + c <= i
      <3>1. i - c \in 1..(Len(q) - c) /\ ~(i - c < a) /\ (i - c) + c = i
        BY <1>1, <2>3
      <3>2. rest[i - c] = q[i]
        BY <1>2, <3>1
      <3> QED BY <1>5, <2>3, <3>2
    <2> QED BY <2>1, <2>2, <2>3
  <1> QED BY <1>4, <1>5, <1>6 DEF Overwritten

\* Removal.
LEMMA RemovalIs ==
  ASSUME NEW R, NEW q \in Seq(R), NEW a \in Nat, NEW c \in Nat,
         1 <= a, a + c <= Len(q) + 1
  PROVE  Without(q, a, c) \in Seq(R) /\ RowsRemoved(q, Without(q, a, c), a, c)
  BY WithoutIs DEF RowsRemoved

----------------------------------------------------------------------------
(* The steps of a merge, by what they do.                                  *)

\* An update stays within the rows and its source, and a view has the rows.
Within(t) ==
  /\ t \in Transition
  /\ t.t_i \in 1..(Len(t.rows) + 1 - t.removed)
  /\ t.s_i \in 1..(Len(t.source) + 1 - t.inserted)
  /\ t.view = t.rows
  /\ t.phase = "rows" => t.removed = 0 /\ t.inserted = 0

\* The next c rows are the same as the next of the source, and become them.
AdvancedBy(t, u, c) ==
  /\ u.phase = t.phase /\ u.source = t.source /\ u.keys = t.keys
  /\ u.removed = t.removed /\ u.inserted = t.inserted
  /\ u.t_i = t.t_i + c /\ u.s_i = t.s_i + c
  /\ t.t_i + c <= Len(t.rows) + 1 /\ t.s_i + c <= Len(t.source) + 1
  /\ Overwritten(t.rows, u.rows, t.source, t.t_i, t.s_i, c)
  /\ \A i \in 0..(c - 1) : Identity(t.rows[t.t_i + i]) = Identity(t.source[t.s_i + i])

\* A row of the model at place i is at place j of the source, or both end there.
Match(q, source, i, j) ==
  \/ i = Len(q) + 1 /\ j = Len(source) + 1
  \/ i <= Len(q) /\ j <= Len(source) /\ Identity(q[i]) = Identity(source[j])

\* The merge up to the next match begins.
MatchedBy(t, u) ==
  /\ u.phase = "merge" /\ u.rows = t.rows /\ u.source = t.source /\ u.keys = t.keys
  /\ u.t_i = t.t_i /\ u.s_i = t.s_i
  /\ Match(u.rows, u.source, u.t_i + u.removed, u.s_i + u.inserted)

\* The next c rows are passed: they belong before the next of the source, and
\* the update is not about them.
KeptBy(t, u, c, rank) ==
  /\ u.phase = t.phase /\ u.rows = t.rows /\ u.source = t.source /\ u.keys = t.keys
  /\ u.removed = t.removed - c /\ u.inserted = t.inserted
  /\ u.t_i = t.t_i + c /\ u.s_i = t.s_i
  /\ c <= t.removed
  /\ \A i \in 0..(c - 1) : Before(t, i, rank) /\ ~isUpdatedRow(t.rows[t.t_i + i], t.keys)

\* The next c rows, which the update is about, are gone.
RemovedBy(t, u, c) ==
  /\ u.phase = t.phase /\ u.source = t.source /\ u.keys = t.keys
  /\ u.removed = t.removed - c /\ u.inserted = t.inserted
  /\ u.t_i = t.t_i /\ u.s_i = t.s_i
  /\ c <= t.removed
  /\ RowsRemoved(t.rows, u.rows, t.t_i, c)
  /\ \A i \in 0..(c - 1) : isUpdatedRow(t.rows[t.t_i + i], t.keys)

\* The next c rows of the source have come in before the next row; a row the
\* merge has not yet passed does not belong before them.
InsertedBy(t, u, c, rank) ==
  /\ u.phase = t.phase /\ u.source = t.source /\ u.keys = t.keys
  /\ u.removed = t.removed /\ u.inserted = t.inserted - c
  /\ u.t_i = t.t_i + c /\ u.s_i = t.s_i + c
  /\ c <= t.inserted
  /\ RowsInserted(t.rows, u.rows, t.source, t.t_i, t.s_i, c)
  /\ t.removed > 0 =>
       \A i \in 0..(c - 1) : Above(t.rows[t.t_i], t.source[t.s_i + i], rank)

\* The merge comes to its match, hangs, or is over.
WentOn(t, u, rank) ==
  \/ /\ t.removed > 0 /\ t.inserted = 0 /\ ~Before(t, 0, rank)
     /\ u = [t EXCEPT !.phase = "hangs"]
  \/ /\ t.removed = 0 /\ t.inserted = 0 /\ t.t_i > Len(t.rows)
     /\ u = Settled(t.rows, t.view)
  \/ /\ t.removed = 0 /\ t.inserted = 0 /\ t.t_i <= Len(t.rows)
     /\ u = [t EXCEPT !.phase = "rows"]

\* The same of a transition, number for number.
LEMMA PlaceIs ==
  ASSUME NEW i \in Nat, NEW left \in Nat, NEW length \in Nat
  PROVE  i \in 1..(length + 1 - left) <=> 1 <= i /\ i + left <= length + 1
  OBVIOUS

LEMMA WithinTyped ==
  ASSUME NEW t, Within(t)
  PROVE  /\ t.rows \in Seq(Row) /\ t.view \in Seq(Row) /\ t.source \in Seq(Row)
         /\ t.keys \in SUBSET Subject /\ t.phase \in {"none", "rows", "merge", "hangs"}
         /\ t.t_i \in Nat /\ t.s_i \in Nat /\ t.removed \in Nat /\ t.inserted \in Nat
         /\ Len(t.rows) \in Nat /\ Len(t.source) \in Nat
         /\ 1 <= t.t_i /\ t.t_i + t.removed <= Len(t.rows) + 1
         /\ 1 <= t.s_i /\ t.s_i + t.inserted <= Len(t.source) + 1
         /\ t.view = t.rows
  <1>1. /\ t.rows \in Seq(Row) /\ t.view \in Seq(Row) /\ t.source \in Seq(Row)
        /\ t.keys \in SUBSET Subject /\ t.phase \in {"none", "rows", "merge", "hangs"}
        /\ t.t_i \in Nat /\ t.s_i \in Nat /\ t.removed \in Nat /\ t.inserted \in Nat
    BY DEF Within, Transition
  <1>2. Len(t.rows) \in Nat /\ Len(t.source) \in Nat
    BY <1>1, LenProperties
  <1> DEFINE a == t.t_i
             b == t.s_i
             x == t.removed
             y == t.inserted
             n == Len(t.rows)
             m == Len(t.source)
  <1>3. /\ a \in Nat /\ b \in Nat /\ x \in Nat /\ y \in Nat /\ n \in Nat /\ m \in Nat
        /\ a \in 1..(n + 1 - x) /\ b \in 1..(m + 1 - y)
    BY <1>1, <1>2 DEF Within
  <1> HIDE DEF a, b, x, y, n, m
  <1>4. 1 <= a /\ a + x <= n + 1 /\ 1 <= b /\ b + y <= m + 1
    BY <1>3, PlaceIs
  <1> QED BY <1>1, <1>2, <1>4 DEF Within, a, b, x, y, n, m

\* What is within has its fields within.
LEMMA FieldsWithin ==
  ASSUME NEW u \in Transition, u.view = u.rows,
         NEW n, n = Len(u.rows), NEW m, m = Len(u.source),
         NEW a \in Nat, NEW b \in Nat, NEW x \in Nat, NEW y \in Nat,
         u.t_i = a, u.s_i = b, u.removed = x, u.inserted = y,
         1 <= a, a + x <= n + 1, 1 <= b, b + y <= m + 1,
         u.phase = "rows" => x = 0 /\ y = 0
  PROVE  Within(u)
  <1>1. n \in Nat /\ m \in Nat
    <2>1. u.rows \in Seq(Row) /\ u.source \in Seq(Row)
      BY DEF Transition
    <2> QED BY <2>1, LenProperties
  <1>2. a \in 1..(n + 1 - x) /\ b \in 1..(m + 1 - y)
    BY <1>1, PlaceIs
  <1> QED BY <1>2 DEF Within

\* Passing equal rows.
LEMMA PassEqualAdvances ==
  ASSUME NEW t, Within(t), t.phase = "rows"
  PROVE  Within(PassEqual(t)) /\ \E c \in Nat : AdvancedBy(t, PassEqual(t), c)
  <1> DEFINE u == PassEqual(t)
             q == t.rows
             source == t.source
             a == t.t_i
             b == t.s_i
             most == Pairs(t)
             equal == {i \in 0..(most - 1) : q[a + i] = source[b + i]}
             c == Run(most, equal)
  <1>1. /\ q \in Seq(Row) /\ source \in Seq(Row) /\ t.keys \in SUBSET Subject
        /\ a \in Nat /\ b \in Nat /\ t.removed = 0 /\ t.inserted = 0 /\ t.view = q
        /\ Len(q) \in Nat /\ Len(source) \in Nat
        /\ 1 <= a /\ 1 <= b /\ t \in Transition
    BY WithinTyped DEF Within
  <1>2. a <= Len(q) + 1 /\ b <= Len(source) + 1
    BY <1>1 DEF Within
  <1>3. most = IF Len(q) + 1 - a < Len(source) + 1 - b THEN Len(q) + 1 - a
               ELSE Len(source) + 1 - b
    BY DEF Pairs
  <1>4. u = [t EXCEPT !.t_i = a + c, !.s_i = b + c]
    BY DEF PassEqual
  <1> HIDE DEF u, q, source, a, b, most, c
  <1>5. most \in Nat /\ a + most <= Len(q) + 1 /\ b + most <= Len(source) + 1
    BY <1>1, <1>2, <1>3
  <1>6. c \in 0..most /\ \A i \in 0..(c - 1) : i \in equal
    BY <1>5, RunOf DEF c
  <1>7. /\ c \in Nat /\ a + c <= Len(q) + 1 /\ b + c <= Len(source) + 1
        /\ a + c \in Nat /\ b + c \in Nat
    BY <1>1, <1>5, <1>6
  <1>8. \A i \in 0..(c - 1) : q[a + i] = source[b + i]
    BY <1>6
  <1>9. /\ u \in Transition /\ u.phase = t.phase /\ u.source = source /\ u.keys = t.keys
        /\ u.removed = 0 /\ u.inserted = 0 /\ u.t_i = a + c /\ u.s_i = b + c
        /\ u.rows = q /\ u.view = q
    BY <1>1, <1>4, <1>7 DEF Transition, q, source
  <1>10. Within(u)
    <2>1. 1 <= a + c /\ 1 <= b + c
          /\ (a + c) + 0 <= Len(q) + 1 /\ (b + c) + 0 <= Len(source) + 1
      BY <1>1, <1>7
    <2> QED BY <1>7, <1>9, <2>1, FieldsWithin
  <1>11. Overwritten(q, q, source, a, b, c)
    <2>1. ASSUME NEW i \in 1..Len(q), a <= i, i < a + c
          PROVE  q[i] = source[b + (i - a)]
      <3>1. i - a \in 0..(c - 1) /\ a + (i - a) = i
        BY <1>1, <1>7, <2>1
      <3> QED BY <1>8, <3>1
    <2> QED BY <2>1 DEF Overwritten
  <1>12. AdvancedBy(t, u, c)
    BY <1>1, <1>7, <1>8, <1>9, <1>11 DEF AdvancedBy, Identity, q, source, a, b
  <1> QED BY <1>7, <1>10, <1>12 DEF u

\* Writing rows in place.
LEMMA ChangeRowsAdvances ==
  ASSUME NEW t, Within(t), t.phase = "rows", OtherData(t) > 0
  PROVE  /\ Within(ChangeRows(t, OtherData(t)))
         /\ \E c \in Nat : c > 0 /\ AdvancedBy(t, ChangeRows(t, OtherData(t)), c)
  <1> DEFINE u == ChangeRows(t, OtherData(t))
             q == t.rows
             source == t.source
             a == t.t_i
             b == t.s_i
             most == Pairs(t)
             other == {i \in 0..(most - 1) :
                         /\ Identity(q[a + i]) = Identity(source[b + i])
                         /\ q[a + i] # source[b + i]}
             c == OtherData(t)
             now == With(Without(q, a, c), a, RowsOf(source, b, c))
  <1>1. /\ q \in Seq(Row) /\ source \in Seq(Row) /\ t.keys \in SUBSET Subject
        /\ a \in Nat /\ b \in Nat /\ t.removed = 0 /\ t.inserted = 0 /\ t.view = q
        /\ Len(q) \in Nat /\ Len(source) \in Nat
        /\ 1 <= a /\ 1 <= b /\ t \in Transition
    BY WithinTyped DEF Within
  <1>2. a <= Len(q) + 1 /\ b <= Len(source) + 1
    BY <1>1 DEF Within
  <1>3. most = IF Len(q) + 1 - a < Len(source) + 1 - b THEN Len(q) + 1 - a
               ELSE Len(source) + 1 - b
    BY DEF Pairs
  <1>4. c = Run(most, other)
    BY DEF OtherData
  <1>5. u = [t EXCEPT !.rows = now,
                      !.view = With(Without(@, a, c), a, RowsOf(now, a, c)),
                      !.t_i = a + c, !.s_i = b + c]
    BY DEF ChangeRows
  <1> HIDE DEF u, q, source, a, b, most, c, now
  <1>6. most \in Nat /\ a + most <= Len(q) + 1 /\ b + most <= Len(source) + 1
    BY <1>1, <1>2, <1>3
  <1>7. c \in 0..most /\ \A i \in 0..(c - 1) : i \in other
    BY <1>4, <1>6, RunOf
  <1>8. /\ c \in Nat /\ a + c <= Len(q) + 1 /\ b + c <= Len(source) + 1
        /\ a + c \in Nat /\ b + c \in Nat
    BY <1>1, <1>6, <1>7
  <1>9. \A i \in 0..(c - 1) : Identity(q[a + i]) = Identity(source[b + i])
    BY <1>7
  <1>10. /\ now \in Seq(Row) /\ Overwritten(q, now, source, a, b, c)
         /\ RowsOf(now, a, c) = RowsOf(source, b, c)
    <2>1. now = With(Without(q, a, c), a, RowsOf(source, b, c))
      BY DEF now
    <2> QED BY <1>1, <1>8, <2>1, OverwritingIs
  <1>11. u = [t EXCEPT !.rows = now, !.view = now, !.t_i = a + c, !.s_i = b + c]
    <2>1. With(Without(t.view, a, c), a, RowsOf(now, a, c)) = now
      BY <1>1, <1>10 DEF now
    <2> QED BY <1>5, <2>1
  <1>12. /\ u \in Transition /\ u.phase = t.phase /\ u.source = source /\ u.keys = t.keys
         /\ u.removed = 0 /\ u.inserted = 0 /\ u.t_i = a + c /\ u.s_i = b + c
         /\ u.rows = now /\ u.view = now
    BY <1>1, <1>8, <1>10, <1>11 DEF Transition, source
  <1>13. Within(u)
    <2>1. /\ 1 <= a + c /\ 1 <= b + c /\ Len(now) = Len(q)
          /\ (a + c) + 0 <= Len(q) + 1 /\ (b + c) + 0 <= Len(source) + 1
      BY <1>1, <1>8, <1>10 DEF Overwritten
    <2> QED BY <1>8, <1>12, <2>1, FieldsWithin
  <1>14. AdvancedBy(t, u, c)
    BY <1>1, <1>8, <1>9, <1>10, <1>12 DEF AdvancedBy, q, source, a, b
  <1>15. c > 0
    BY DEF c
  <1> QED BY <1>8, <1>13, <1>14, <1>15 DEF u, c

\* The next match is a match, or there is none.
LEMMA NextMatchIs ==
  ASSUME NEW t, Within(t)
  PROVE  \/ NextMatch(t) = <<Len(t.rows) + 1, Len(t.source) + 1>>
         \/ NextMatch(t) \in Matches(t)
  <1> DEFINE firsts == {m[1] : m \in Matches(t)}
             R == OpToRel(<, Nat)
  <1>1. \A x, y \in Nat : x < y => <<x, y>> \in R
    BY DEF OpToRel
  <1>2. IsWellFoundedOn(R, Nat)
    BY NatLessThanWellFounded
  <1> HIDE DEF R
  <1>3. firsts \subseteq Nat
    <2>1. t.t_i \in Nat /\ Len(t.rows) \in Nat
      BY WithinTyped
    <2> DEFINE a == t.t_i
               n == Len(t.rows)
    <2>2. a \in Nat /\ n \in Nat /\ \A m \in Matches(t) : m[1] \in a..n
      BY <2>1 DEF Matches
    <2> HIDE DEF a, n
    <2> QED BY <2>2
  <1>4. SUFFICES ASSUME Matches(t) # {}
                 PROVE  NextMatch(t) \in Matches(t)
    BY DEF NextMatch
  <1>5. PICK x \in firsts : \A y \in firsts : ~ (<<y, x>> \in R)
    <2>1. firsts # {}
      BY <1>4
    <2> HIDE DEF firsts
    <2> QED BY <1>2, <1>3, <2>1, WFMin
  <1>6. PICK m \in Matches(t) : x = m[1]
    BY <1>5
  <1>7. ASSUME NEW k \in Matches(t) PROVE m[1] <= k[1]
    <2>1. k[1] \in firsts /\ k[1] \in Nat /\ m[1] \in Nat
      BY <1>3
    <2>2. ~(<<k[1], m[1]>> \in R)
      BY <1>5, <1>6, <2>1
    <2> DEFINE ki == k[1]
               mi == m[1]
    <2>3. ki \in Nat /\ mi \in Nat /\ ~(<<ki, mi>> \in R)
      BY <2>1, <2>2
    <2> HIDE DEF ki, mi
    <2>4. mi <= ki
      BY <1>1, <2>3
    <2> QED BY <2>4 DEF ki, mi
  <1>8. NextMatch(t) = CHOOSE k \in Matches(t) : \A l \in Matches(t) : k[1] <= l[1]
    BY <1>4 DEF NextMatch
  <1> QED BY <1>7, <1>8

\* The merge up to the next match begins.
LEMMA MatchBegins ==
  ASSUME NEW t, Within(t), t.phase = "rows"
  PROVE  /\ Within(MergeUpTo(t, NextMatch(t)))
         /\ MatchedBy(t, MergeUpTo(t, NextMatch(t)))
  <1> DEFINE u == MergeUpTo(t, NextMatch(t))
             q == t.rows
             source == t.source
             a == t.t_i
             b == t.s_i
             r == NextMatch(t)[1]
             s == NextMatch(t)[2]
             n == Len(q)
             m == Len(source)
  <1>1. /\ q \in Seq(Row) /\ source \in Seq(Row) /\ t.keys \in SUBSET Subject
        /\ a \in Nat /\ b \in Nat /\ t.removed = 0 /\ t.inserted = 0 /\ t.view = q
        /\ n \in Nat /\ m \in Nat
        /\ 1 <= a /\ 1 <= b /\ t \in Transition
    BY WithinTyped DEF Within
  <1>2. a <= n + 1 /\ b <= m + 1
    BY <1>1 DEF Within
  <1>3. \/ r = n + 1 /\ s = m + 1
        \/ r \in a..n /\ s \in b..m /\ Identity(q[r]) = Identity(source[s])
    BY NextMatchIs DEF Matches
  <1>4. u = [t EXCEPT !.phase = "merge", !.removed = r - a, !.inserted = s - b]
    BY DEF MergeUpTo
  <1> HIDE DEF u, q, source, a, b, r, s, n, m
  <1>5. /\ r - a \in Nat /\ s - b \in Nat /\ a + (r - a) = r /\ b + (s - b) = s
        /\ r <= n + 1 /\ s <= m + 1
    BY <1>1, <1>2, <1>3
  <1>6. /\ u \in Transition /\ u.phase = "merge" /\ u.source = source /\ u.keys = t.keys
        /\ u.removed = r - a /\ u.inserted = s - b /\ u.t_i = a /\ u.s_i = b
        /\ u.rows = q /\ u.view = q
    BY <1>1, <1>4, <1>5 DEF Transition, q, source, a, b
  <1>7. Within(u)
    <2>1. n = Len(u.rows) /\ m = Len(u.source) /\ u.phase # "rows"
      BY <1>6 DEF n, m
    <2>2. a + (r - a) <= n + 1 /\ b + (s - b) <= m + 1
      BY <1>5
    <2> QED BY <1>1, <1>5, <1>6, <2>1, <2>2, FieldsWithin
  <1>8. Match(q, source, a + (r - a), b + (s - b))
    <2>1. \/ r = n + 1 /\ s = m + 1
          \/ r <= n /\ s <= m /\ Identity(q[r]) = Identity(source[s])
      BY <1>1, <1>3
    <2> QED BY <1>5, <2>1 DEF Match, n, m
  <1>9. MatchedBy(t, u)
    BY <1>6, <1>8 DEF MatchedBy, q, source, a, b
  <1> QED BY <1>7, <1>9 DEF u

\* A step of the row by row part: equal rows are passed, and then rows are
\* written or a match begins.
LEMMA AdvanceSteps ==
  ASSUME NEW t, Within(t), t.phase = "rows"
  PROVE  /\ Within(Advance(t)) /\ Within(PassEqual(t))
         /\ \E c \in Nat : AdvancedBy(t, PassEqual(t), c)
         /\ \/ \E c \in Nat : c > 0 /\ AdvancedBy(PassEqual(t), Advance(t), c)
            \/ MatchedBy(PassEqual(t), Advance(t)) /\ ~(OtherData(PassEqual(t)) > 0)
  <1> DEFINE u == PassEqual(t)
  <1>1. Within(u) /\ \E c \in Nat : AdvancedBy(t, u, c)
    BY PassEqualAdvances
  <1>2. u.phase = "rows"
    BY <1>1 DEF AdvancedBy
  <1>3. Advance(t) = AdvancePassed(u)
    BY DEF Advance
  <1> HIDE DEF u
  <1>4. CASE OtherData(u) > 0
    BY <1>1, <1>2, <1>3, <1>4, ChangeRowsAdvances DEF AdvancePassed, u
  <1>5. CASE ~(OtherData(u) > 0)
    BY <1>1, <1>2, <1>3, <1>5, MatchBegins DEF AdvancePassed, u
  <1> QED BY <1>4, <1>5

\* Passing rows the update is not about: it ends at a row that it is about, or
\* that does not belong before the next of the source.
LEMMA PassKeptKeeps ==
  ASSUME NEW t, Within(t), t.phase = "merge", NEW rank
  PROVE  /\ Within(PassKept(t, rank))
         /\ \E c \in Nat : KeptBy(t, PassKept(t, rank), c, rank)
         /\ PassKept(t, rank).removed > 0 /\ Before(PassKept(t, rank), 0, rank) =>
              isUpdatedRow(PassKept(t, rank).rows[PassKept(t, rank).t_i],
                           PassKept(t, rank).keys)
  <1> DEFINE u == PassKept(t, rank)
             q == t.rows
             a == t.t_i
             x == t.removed
             y == t.inserted
             b == t.s_i
             n == Len(q)
             m == Len(t.source)
             good == {i \in 0..(x - 1) :
                        Before(t, i, rank) /\ ~isUpdatedRow(q[a + i], t.keys)}
             c == Run(x, good)
  <1>1. /\ a \in Nat /\ b \in Nat /\ x \in Nat /\ y \in Nat /\ t.view = q
        /\ n \in Nat /\ m \in Nat
        /\ 1 <= a /\ 1 <= b /\ a + x <= n + 1 /\ b + y <= m + 1 /\ t \in Transition
    BY WithinTyped DEF Within
  <1>2. u = [t EXCEPT !.t_i = a + c, !.removed = x - c]
    BY DEF PassKept
  <1> HIDE DEF u, q, a, x, y, b, n, m, c
  <1>3. /\ c \in 0..x /\ \A i \in 0..(c - 1) : i \in good
        /\ c < x => c \notin good
    BY <1>1, RunOf DEF c
  <1>4. c \in Nat /\ a + c \in Nat /\ x - c \in Nat /\ c <= x
    BY <1>1, <1>3
  <1>5. /\ u \in Transition /\ u.phase = "merge" /\ u.source = t.source /\ u.keys = t.keys
        /\ u.removed = x - c /\ u.inserted = y /\ u.t_i = a + c /\ u.s_i = b
        /\ u.rows = q /\ u.view = q
    BY <1>1, <1>2, <1>4 DEF Transition, q, y, b
  <1>6. Within(u)
    <2>1. n = Len(u.rows) /\ m = Len(u.source) /\ u.phase # "rows"
      BY <1>5 DEF n, m
    <2>2. 1 <= a + c /\ (a + c) + (x - c) <= n + 1
      BY <1>1, <1>4
    <2> QED BY <1>1, <1>4, <1>5, <2>1, <2>2, FieldsWithin
  <1>7. KeptBy(t, u, c, rank)
    BY <1>1, <1>3, <1>4, <1>5 DEF KeptBy, q, a, x, y, b
  <1>8. ASSUME u.removed > 0, Before(u, 0, rank)
        PROVE  isUpdatedRow(u.rows[u.t_i], u.keys)
    <2>1. c < x /\ c \in 0..(x - 1) /\ (a + c) + 0 = a + c
      <3>1. x - c > 0
        BY <1>5, <1>8
      <3> QED BY <1>1, <1>3, <1>4, <3>1
    <2>2. b > m \/ ~Above(q[(a + c) + 0], t.source[b], rank)
      BY <1>5, <1>8 DEF Before, m
    <2>3. Before(t, c, rank)
      BY <2>1, <2>2 DEF Before, m, q, a, b
    <2>4. c \notin good
      BY <1>3, <2>1
    <2> QED BY <1>5, <2>1, <2>3, <2>4
  <1> QED BY <1>4, <1>6, <1>7, <1>8 DEF u

\* Removing rows.
LEMMA RemoveRowsRemoves ==
  ASSUME NEW t, Within(t), t.phase = "merge", NEW rank
  PROVE  /\ Obsolete(t, rank) \in Nat
         /\ Within(RemoveRows(t, Obsolete(t, rank)))
         /\ RemovedBy(t, RemoveRows(t, Obsolete(t, rank)), Obsolete(t, rank))
         /\ Obsolete(t, rank) = 0 /\ t.removed > 0 /\ Before(t, 0, rank) =>
              ~isUpdatedRow(t.rows[t.t_i], t.keys)
  <1> DEFINE u == RemoveRows(t, Obsolete(t, rank))
             q == t.rows
             a == t.t_i
             x == t.removed
             y == t.inserted
             b == t.s_i
             n == Len(q)
             m == Len(t.source)
             good == {i \in 0..(x - 1) :
                        Before(t, i, rank) /\ isUpdatedRow(q[a + i], t.keys)}
             c == Obsolete(t, rank)
             now == Without(q, a, c)
  <1>1. /\ a \in Nat /\ b \in Nat /\ x \in Nat /\ y \in Nat /\ t.view = q
        /\ n \in Nat /\ m \in Nat /\ q \in Seq(Row)
        /\ 1 <= a /\ 1 <= b /\ a + x <= n + 1 /\ b + y <= m + 1 /\ t \in Transition
    BY WithinTyped DEF Within
  <1>2. u = [t EXCEPT !.rows = now, !.view = now, !.removed = x - c]
    BY <1>1 DEF RemoveRows
  <1>3. c = Run(x, good)
    BY DEF Obsolete
  <1> HIDE DEF u, q, a, x, y, b, n, m, c, now
  <1>4. /\ c \in 0..x /\ \A i \in 0..(c - 1) : i \in good
        /\ c < x => c \notin good
    BY <1>1, <1>3, RunOf
  <1>5. c \in Nat /\ x - c \in Nat /\ c <= x /\ a + c <= n + 1
    BY <1>1, <1>4
  <1>6. now \in Seq(Row) /\ RowsRemoved(q, now, a, c)
    <2>1. a + c <= Len(q) + 1
      BY <1>5 DEF n
    <2> QED BY <1>1, <1>5, <2>1, RemovalIs DEF now
  <1>7. /\ u \in Transition /\ u.phase = "merge" /\ u.source = t.source /\ u.keys = t.keys
        /\ u.removed = x - c /\ u.inserted = y /\ u.t_i = a /\ u.s_i = b
        /\ u.rows = now /\ u.view = now
    BY <1>1, <1>2, <1>5, <1>6 DEF Transition, y, b, a
  <1>8. Within(u)
    <2>1. n - c = Len(u.rows) /\ m = Len(u.source) /\ u.phase # "rows"
      BY <1>6, <1>7 DEF n, m, RowsRemoved
    <2>2. a + (x - c) <= (n - c) + 1
      BY <1>1, <1>5
    <2>3. /\ u \in Transition /\ u.view = u.rows
          /\ u.t_i = a /\ u.s_i = b /\ u.removed = x - c /\ u.inserted = y
      BY <1>7
    <2>4. 1 <= a /\ 1 <= b /\ b + y <= m + 1
      BY <1>1
    <2> QED BY <1>1, <1>5, <2>1, <2>2, <2>3, <2>4, FieldsWithin
  <1>9. RemovedBy(t, u, c)
    BY <1>1, <1>4, <1>5, <1>6, <1>7 DEF RemovedBy, q, a, x, y, b
  <1>10. ASSUME c = 0, x > 0, Before(t, 0, rank) PROVE ~isUpdatedRow(q[a], t.keys)
    <2>1. 0 \in 0..(x - 1) /\ 0 \notin good /\ a + 0 = a
      BY <1>1, <1>4, <1>10
    <2> QED BY <1>10, <2>1
  <1> QED BY <1>5, <1>8, <1>9, <1>10 DEF u, c, x, q, a

\* Inserting rows, when the next row of the model does not belong before the
\* next of the source.
LEMMA InsertRowsInserts ==
  ASSUME NEW t, Within(t), t.phase = "merge", NEW rank,
         t.removed > 0 => ~Before(t, 0, rank)
  PROVE  /\ NewRows(t, rank) \in Nat
         /\ Within(InsertRows(t, NewRows(t, rank)))
         /\ InsertedBy(t, InsertRows(t, NewRows(t, rank)), NewRows(t, rank), rank)
         /\ NewRows(t, rank) = 0 => t.inserted = 0
  <1> DEFINE u == InsertRows(t, NewRows(t, rank))
             q == t.rows
             source == t.source
             a == t.t_i
             x == t.removed
             y == t.inserted
             b == t.s_i
             n == Len(q)
             m == Len(source)
             good == {i \in 0..(y - 1) :
                        i = 0 \/ a > n \/ Above(q[a], source[b + i], rank)}
             c == NewRows(t, rank)
             now == With(q, a, RowsOf(source, b, c))
  <1>1. /\ a \in Nat /\ b \in Nat /\ x \in Nat /\ y \in Nat /\ t.view = q
        /\ n \in Nat /\ m \in Nat /\ q \in Seq(Row) /\ source \in Seq(Row)
        /\ 1 <= a /\ 1 <= b /\ a + x <= n + 1 /\ b + y <= m + 1 /\ t \in Transition
    BY WithinTyped DEF Within
  <1>2. u = [t EXCEPT !.rows = now, !.view = With(q, a, RowsOf(now, a, c)),
                      !.t_i = a + c, !.s_i = b + c, !.inserted = y - c]
    BY <1>1 DEF InsertRows
  <1>3. c = Run(y, good)
    BY DEF NewRows
  <1>4. x > 0 => ~(b > m) /\ Above(q[a + 0], source[b], rank)
    BY DEF Before
  <1> HIDE DEF u, q, source, a, x, y, b, n, m, c, now
  <1>5. /\ c \in 0..y /\ \A i \in 0..(c - 1) : i \in good
        /\ c < y => c \notin good
    <2> HIDE DEF good
    <2> QED BY <1>1, <1>3, RunOf
  <1>6. /\ c \in Nat /\ y - c \in Nat /\ c <= y /\ b + c <= m + 1 /\ a <= n + 1
        /\ a + c \in Nat /\ b + c \in Nat
    BY <1>1, <1>5
  <1>7. /\ now \in Seq(Row) /\ RowsInserted(q, now, source, a, b, c)
        /\ RowsOf(now, a, c) = RowsOf(source, b, c)
    <2>1. b + c <= Len(source) + 1 /\ a <= Len(q) + 1
      BY <1>6 DEF n, m
    <2>2. now = With(q, a, RowsOf(source, b, c))
      BY DEF now
    <2> QED BY <1>1, <1>6, <2>1, <2>2, InsertionIs
  <1>8. u = [t EXCEPT !.rows = now, !.view = now,
                      !.t_i = a + c, !.s_i = b + c, !.inserted = y - c]
    <2>1. With(q, a, RowsOf(now, a, c)) = now
      BY <1>7 DEF now
    <2> QED BY <1>2, <2>1
  <1>9. /\ u \in Transition /\ u.phase = "merge" /\ u.source = source /\ u.keys = t.keys
        /\ u.removed = x /\ u.inserted = y - c /\ u.t_i = a + c /\ u.s_i = b + c
        /\ u.rows = now /\ u.view = now
    BY <1>1, <1>6, <1>7, <1>8 DEF Transition, source, x
  <1>10. Within(u)
    <2>1. n + c = Len(u.rows) /\ m = Len(u.source) /\ u.phase # "rows"
      BY <1>7, <1>9 DEF n, m, RowsInserted
    <2>2. /\ (a + c) + x <= (n + c) + 1 /\ 1 <= a + c
          /\ (b + c) + (y - c) <= m + 1 /\ 1 <= b + c
      BY <1>1, <1>6
    <2> QED BY <1>1, <1>6, <1>9, <2>1, <2>2, FieldsWithin
  <1>11. ASSUME x > 0, NEW i \in 0..(c - 1) PROVE Above(q[a], source[b + i], rank)
    <2>1. ~(a > n) /\ a + 0 = a /\ b + 0 = b
      BY <1>1, <1>11
    <2>2. i = 0 \/ a > n \/ Above(q[a], source[b + i], rank)
      BY <1>5, <1>11
    <2>3. CASE i = 0
      BY <1>4, <1>11, <2>1, <2>3
    <2> QED BY <2>1, <2>2, <2>3
  <1>12. InsertedBy(t, u, c, rank)
    BY <1>1, <1>6, <1>7, <1>9, <1>11 DEF InsertedBy, q, source, a, x, y, b
  <1>13. ASSUME c = 0, y # 0 PROVE FALSE
    <2>1. c < y /\ 0 \in 0..(y - 1)
      BY <1>1, <1>13
    <2> QED BY <1>5, <1>13, <2>1
  <1> QED BY <1>6, <1>10, <1>12, <1>13 DEF u, c, y

\* The end of the loop.
LEMMA OnwardWent ==
  ASSUME NEW t, Within(t), t.phase = "merge", NEW rank,
         t.removed > 0 => ~Before(t, 0, rank), t.inserted = 0
  PROVE  Within(Onward(t)) /\ WentOn(t, Onward(t), rank)
  <1> DEFINE u == Onward(t)
             q == t.rows
             a == t.t_i
             b == t.s_i
             x == t.removed
             n == Len(q)
             m == Len(t.source)
  <1>1. /\ a \in Nat /\ b \in Nat /\ x \in Nat /\ t.view = q
        /\ n \in Nat /\ m \in Nat /\ q \in Seq(Row)
        /\ 1 <= a /\ 1 <= b /\ a + x <= n + 1 /\ b + 0 <= m + 1 /\ t \in Transition
    BY WithinTyped DEF Within
  <1>2. CASE x > 0
    <2>1. u = [t EXCEPT !.phase = "hangs"]
      BY <1>2 DEF Onward
    <2>2. WentOn(t, u, rank)
      BY <1>2, <2>1 DEF WentOn
    <2> HIDE DEF u
    <2>3. /\ u \in Transition /\ u.phase = "hangs" /\ u.source = t.source
          /\ u.removed = x /\ u.inserted = 0 /\ u.t_i = a /\ u.s_i = b
          /\ u.rows = q /\ u.view = q
      BY <1>1, <2>1 DEF Transition
    <2>4. n = Len(u.rows) /\ m = Len(u.source) /\ u.phase # "rows"
      BY <2>3
    <2> HIDE DEF q, a, b, x, n, m
    <2>5. Within(u)
      BY <1>1, <2>3, <2>4, FieldsWithin
    <2> QED BY <2>2, <2>5 DEF u
  <1>3. CASE ~(x > 0)
    <2>1. x = 0
      <3> HIDE DEF x
      <3> QED BY <1>1, <1>3
    <2>2. CASE a > n
      <3>1. u = Settled(q, q)
        BY <1>1, <1>3, <2>2 DEF Onward
      <3>2. WentOn(t, u, rank)
        BY <1>1, <2>1, <2>2, <3>1 DEF WentOn
      <3> HIDE DEF u
      <3>3. /\ u \in Transition /\ u.phase = "none" /\ u.source = <<>>
            /\ u.removed = 0 /\ u.inserted = 0 /\ u.t_i = 1 /\ u.s_i = 1
            /\ u.rows = q /\ u.view = q
        BY <1>1, <3>1 DEF Transition, Settled
      <3>4. n = Len(u.rows) /\ 0 = Len(u.source) /\ u.phase # "rows"
        BY <3>3
      <3> HIDE DEF q, a, b, x, n, m
      <3>5. 1 + 0 <= n + 1 /\ 1 + 0 <= 0 + 1
        BY <1>1
      <3>6. Within(u)
        BY <3>3, <3>4, <3>5, FieldsWithin
      <3> QED BY <3>2, <3>6 DEF u
    <2>3. CASE ~(a > n)
      <3>1. u = [t EXCEPT !.phase = "rows"]
        BY <1>3, <2>3 DEF Onward
      <3>2. WentOn(t, u, rank)
        <4>1. a <= n
          <5> HIDE DEF a, n
          <5> QED BY <1>1, <2>3
        <4> QED BY <2>1, <3>1, <4>1 DEF WentOn
      <3> HIDE DEF u
      <3>3. /\ u \in Transition /\ u.phase = "rows" /\ u.source = t.source
            /\ u.removed = x /\ u.inserted = 0 /\ u.t_i = a /\ u.s_i = b
            /\ u.rows = q /\ u.view = q
        BY <1>1, <3>1 DEF Transition
      <3>4. n = Len(u.rows) /\ m = Len(u.source)
        BY <3>3
      <3> HIDE DEF q, a, b, x, n, m
      <3>5. Within(u)
        BY <1>1, <2>1, <3>3, <3>4, FieldsWithin
      <3> QED BY <3>2, <3>5 DEF u
    <2> QED BY <2>2, <2>3
  <1> QED BY <1>2, <1>3

\* A step of the loop: rows are passed, and then rows are removed or inserted
\* or the loop is over.
LEMMA MergeSteps ==
  ASSUME NEW t, Within(t), t.phase = "merge", NEW rank
  PROVE  /\ Within(Merge(t, rank)) /\ Within(PassKept(t, rank))
         /\ \E c \in Nat : KeptBy(t, PassKept(t, rank), c, rank)
         /\ \/ \E c \in Nat : c > 0 /\ RemovedBy(PassKept(t, rank), Merge(t, rank), c)
            \/ \E c \in Nat :
                 c > 0 /\ InsertedBy(PassKept(t, rank), Merge(t, rank), c, rank)
            \/ WentOn(PassKept(t, rank), Merge(t, rank), rank)
  <1> DEFINE u == PassKept(t, rank)
  <1>1. /\ Within(u) /\ \E c \in Nat : KeptBy(t, u, c, rank)
        /\ u.removed > 0 /\ Before(u, 0, rank) => isUpdatedRow(u.rows[u.t_i], u.keys)
    BY PassKeptKeeps
  <1>2. u.phase = "merge"
    BY <1>1 DEF KeptBy
  <1>3. Merge(t, rank) = MergePassed(u, rank)
    BY DEF Merge
  <1> HIDE DEF u
  <1>4. /\ Obsolete(u, rank) \in Nat
        /\ Within(RemoveRows(u, Obsolete(u, rank)))
        /\ RemovedBy(u, RemoveRows(u, Obsolete(u, rank)), Obsolete(u, rank))
        /\ Obsolete(u, rank) = 0 /\ u.removed > 0 /\ Before(u, 0, rank) =>
             ~isUpdatedRow(u.rows[u.t_i], u.keys)
    BY <1>1, <1>2, RemoveRowsRemoves
  <1>5. CASE Obsolete(u, rank) > 0
    <2>1. Obsolete(u, rank) # 0
      BY <1>4, <1>5
    <2>2. Merge(t, rank) = RemoveRows(u, Obsolete(u, rank))
      BY <1>3, <1>5, <2>1 DEF MergePassed
    <2>3. \E c \in Nat : c > 0 /\ RemovedBy(u, Merge(t, rank), c)
      BY <1>4, <1>5, <2>2
    <2> QED BY <1>1, <1>4, <2>2, <2>3 DEF u
  <1>6. CASE ~(Obsolete(u, rank) > 0)
    <2>1. Obsolete(u, rank) = 0
      BY <1>4, <1>6
    <2>2. u.removed > 0 => ~Before(u, 0, rank)
      BY <1>1, <1>4, <2>1
    <2>3. /\ NewRows(u, rank) \in Nat
          /\ Within(InsertRows(u, NewRows(u, rank)))
          /\ InsertedBy(u, InsertRows(u, NewRows(u, rank)), NewRows(u, rank), rank)
          /\ NewRows(u, rank) = 0 => u.inserted = 0
      BY <1>1, <1>2, <2>2, InsertRowsInserts
    <2>4. CASE NewRows(u, rank) > 0
      <3>1. NewRows(u, rank) # 0
        BY <2>3, <2>4
      <3>2. Merge(t, rank) = InsertRows(u, NewRows(u, rank))
        BY <1>3, <1>6, <2>1, <2>4, <3>1 DEF MergePassed
      <3>3. \E c \in Nat : c > 0 /\ InsertedBy(u, Merge(t, rank), c, rank)
        BY <2>3, <2>4, <3>2
      <3> QED BY <1>1, <2>3, <3>2, <3>3 DEF u
    <2>5. CASE ~(NewRows(u, rank) > 0)
      <3>1. NewRows(u, rank) = 0
        BY <2>3, <2>5
      <3>2. Merge(t, rank) = Onward(u)
        BY <1>3, <1>6, <2>1, <2>5, <3>1 DEF MergePassed
      <3>3. Within(Onward(u)) /\ WentOn(u, Onward(u), rank)
        BY <1>1, <1>2, <2>2, <2>3, <3>1, OnwardWent
      <3> QED BY <1>1, <3>2, <3>3 DEF u
    <2> QED BY <2>4, <2>5
  <1> QED BY <1>5, <1>6

----------------------------------------------------------------------------
(* The order of rows.                                                      *)

Sorted(q) == \A i, j \in 1..Len(q) : i < j => Precedes(q[i], q[j])
Distinct(q) == \A i, j \in 1..Len(q) : i < j => q[i].id # q[j].id
RowsAbout(q, s) == {q[i] : i \in {j \in 1..Len(q) : q[j].id = s}}
Untouched(q, r, keys) == \A s : s \notin keys => RowsAbout(r, s) = RowsAbout(q, s)

\* Rows q before place a are merged with those of the source before place b:
\* both are in order; what is merged belongs before what is left of the source;
\* what is merged of the resources the update is about is what the source has of
\* them; and only rows about these may be there twice.
MergeOrder(q, source, keys, a, b) ==
  /\ Sorted(q) /\ Sorted(source) /\ Distinct(source)
  /\ \A j \in 1..Len(source) : source[j].id \in keys
  /\ \A i \in 1..Len(q), j \in 1..Len(source) :
       i < a /\ b <= j => Precedes(q[i], source[j])
  /\ \A i \in 1..Len(q) : i < a /\ q[i].id \in keys =>
       \E j \in 1..Len(source) : j < b /\ q[i] = source[j]
  /\ \A j \in 1..Len(source) : j < b =>
       \E i \in 1..Len(q) : i < a /\ q[i] = source[j]
  /\ \A i, j \in 1..Len(q) : i < j /\ q[i].id = q[j].id => q[i].id \in keys

LEMMA RowTyped ==
  ASSUME NEW x \in Row
  PROVE  x.ord \in Orders /\ x.ord \in Nat /\ x.id \in Subject /\ x.id \in Nat
  <1>1. PICK c \in Content, s \in Subject : x = [ord |-> c.ord, id |-> s, data |-> c.data]
    BY DEF Row
  <1>2. x.ord = c.ord /\ x.id = s
    BY <1>1
  <1>3. c.ord \in Nat /\ s \in Nat
    BY LiveAssumption DEF LiveAssumption
  <1> QED BY <1>2, <1>3 DEF Orders

\* Precedes orders identities.
LEMMA PrecedesOrders ==
  ASSUME NEW x \in Row, NEW y \in Row
  PROVE  /\ Precedes(x, y) => ~Precedes(y, x) /\ Identity(x) # Identity(y)
         /\ Precedes(x, y) \/ Precedes(y, x) \/ Identity(x) = Identity(y)
  <1> DEFINE xo == x.ord
             xi == x.id
             yo == y.ord
             yi == y.id
  <1>1. xo \in Nat /\ xi \in Nat /\ yo \in Nat /\ yi \in Nat
    BY RowTyped
  <1>2. /\ Precedes(x, y) <=> xo < yo \/ (xo = yo /\ xi < yi)
        /\ Precedes(y, x) <=> yo < xo \/ (yo = xo /\ yi < xi)
    BY DEF Precedes
  <1>3. Identity(x) = Identity(y) <=> xo = yo /\ xi = yi
    BY DEF Identity
  <1> HIDE DEF xo, xi, yo, yi
  <1> QED BY <1>1, <1>2, <1>3

LEMMA PrecedesTransitive ==
  ASSUME NEW x \in Row, NEW y \in Row, NEW z \in Row, Precedes(x, y), Precedes(y, z)
  PROVE  Precedes(x, z)
  <1> DEFINE xo == x.ord
             xi == x.id
             yo == y.ord
             yi == y.id
             zo == z.ord
             zi == z.id
  <1>1. /\ xo \in Nat /\ xi \in Nat /\ yo \in Nat /\ yi \in Nat
        /\ zo \in Nat /\ zi \in Nat
    BY RowTyped
  <1>2. /\ xo < yo \/ (xo = yo /\ xi < yi)
        /\ yo < zo \/ (yo = zo /\ yi < zi)
        /\ Precedes(x, z) <=> xo < zo \/ (xo = zo /\ xi < zi)
    BY DEF Precedes
  <1> HIDE DEF xo, xi, yo, yi, zo, zi
  <1> QED BY <1>1, <1>2

\* Only identities count.
LEMMA PrecedesByIdentity ==
  ASSUME NEW x, NEW y, NEW z, Identity(x) = Identity(y)
  PROVE  /\ x.id = y.id
         /\ Precedes(x, z) <=> Precedes(y, z)
         /\ Precedes(z, x) <=> Precedes(z, y)
  BY DEF Identity, Precedes

\* Overwriting rows by the same rows of the source.
LEMMA OverwritingInOrder ==
  ASSUME NEW q \in Seq(Row), NEW r \in Seq(Row), NEW source \in Seq(Row), NEW keys,
         NEW a \in Nat, NEW b \in Nat, NEW c \in Nat,
         1 <= a, a + c <= Len(q) + 1, 1 <= b, b + c <= Len(source) + 1,
         Overwritten(q, r, source, a, b, c),
         \A i \in 0..(c - 1) : Identity(q[a + i]) = Identity(source[b + i]),
         MergeOrder(q, source, keys, a, b)
  PROVE  /\ MergeOrder(r, source, keys, a + c, b + c)
         /\ Untouched(q, r, keys)
  <1> DEFINE n == Len(q)
             m == Len(source)
  <1>1. n \in Nat /\ m \in Nat /\ Len(r) = n /\ a + c <= n + 1 /\ b + c <= m + 1
    BY LenProperties DEF Overwritten
  <1>2. /\ \A i \in 1..n : q[i] \in Row
        /\ \A i \in 1..n : r[i] \in Row
        /\ \A j \in 1..m : source[j] \in Row
    BY <1>1, ElementOfSeq
  <1>3. Sorted(q) /\ Sorted(source) /\ Distinct(source)
    BY DEF MergeOrder
  <1>4. /\ \A j \in 1..m : source[j].id \in keys
        /\ \A i \in 1..n, j \in 1..m : i < a /\ b <= j => Precedes(q[i], source[j])
        /\ \A i \in 1..n : i < a /\ q[i].id \in keys =>
             \E j \in 1..m : j < b /\ q[i] = source[j]
        /\ \A j \in 1..m : j < b => \E i \in 1..n : i < a /\ q[i] = source[j]
        /\ \A i, j \in 1..n : i < j /\ q[i].id = q[j].id => q[i].id \in keys
    BY DEF MergeOrder
  <1>5. \A i \in 1..n :
          r[i] = IF a <= i /\ i < a + c THEN source[b + (i - a)] ELSE q[i]
    BY DEF Overwritten
  <1>6. \A i, j \in 1..n : i < j => Precedes(q[i], q[j])
    BY <1>3 DEF Sorted
  <1>7. \A i, j \in 1..m : i < j => Precedes(source[i], source[j])
    BY <1>3 DEF Sorted
  <1> HIDE DEF n, m
  <1>8. ASSUME NEW i \in 1..n, a <= i, i < a + c
        PROVE  /\ b + (i - a) \in 1..m /\ b + (i - a) < b + c
               /\ r[i] = source[b + (i - a)] /\ Identity(q[i]) = Identity(r[i])
    <2>1. b + (i - a) \in 1..m /\ b + (i - a) < b + c /\ i - a \in 0..(c - 1)
          /\ a + (i - a) = i
      BY <1>1, <1>8
    <2>2. r[i] = source[b + (i - a)]
      BY <1>5, <1>8
    <2> QED BY <2>1, <2>2
  <1>9. ASSUME NEW i \in 1..n, ~(a <= i /\ i < a + c) PROVE r[i] = q[i]
    BY <1>5, <1>9
  <1>10. \A i \in 1..n : Identity(q[i]) = Identity(r[i])
    BY <1>8, <1>9
  <1>11. \A i \in 1..n : q[i].id = r[i].id
    BY <1>10, PrecedesByIdentity
  <1>12. \A i, j \in 1..n : i < j => Precedes(r[i], r[j])
    BY <1>6, <1>10, PrecedesByIdentity
  <1>13. ASSUME NEW i \in 1..n, NEW j \in 1..m, i < a + c, b + c <= j
         PROVE  Precedes(r[i], source[j])
    <2>1. CASE a <= i
      <3> DEFINE k == b + (i - a)
      <3>1. k \in 1..m /\ k < b + c /\ r[i] = source[k]
        BY <1>8, <1>13, <2>1
      <3> HIDE DEF k
      <3>2. k < j
        BY <1>1, <1>13, <3>1
      <3> QED BY <1>7, <3>1, <3>2
    <2>2. CASE ~(a <= i)
      <3>1. i < a /\ b <= j
        BY SMTT(20), <1>1, <1>13, <2>2
      <3> QED BY <1>4, <1>9, <2>2, <3>1
    <2> QED BY <2>1, <2>2
  <1>14. ASSUME NEW i \in 1..n, i < a + c, r[i].id \in keys
         PROVE  \E j \in 1..m : j < b + c /\ r[i] = source[j]
    <2>1. CASE a <= i
      BY <1>8, <1>14, <2>1
    <2>2. CASE ~(a <= i)
      <3>1. i < a /\ r[i] = q[i]
        BY <1>1, <1>9, <2>2
      <3>2. PICK j \in 1..m : j < b /\ q[i] = source[j]
        BY <1>4, <1>14, <3>1
      <3> QED BY SMTT(20), <1>1, <3>1, <3>2
    <2> QED BY <2>1, <2>2
  <1>15. ASSUME NEW j \in 1..m, j < b + c
         PROVE  \E i \in 1..n : i < a + c /\ r[i] = source[j]
    <2>1. CASE b <= j
      <3>1. /\ a + (j - b) \in 1..n /\ a <= a + (j - b) /\ a + (j - b) < a + c
            /\ b + ((a + (j - b)) - a) = j
        BY <1>1, <1>15, <2>1
      <3> QED BY <1>8, <3>1
    <2>2. CASE ~(b <= j)
      <3>1. PICK i \in 1..n : i < a /\ q[i] = source[j]
        BY <1>1, <1>4, <2>2
      <3>2. ~(a <= i /\ i < a + c) /\ i < a + c
        BY SMTT(20), <1>1, <3>1
      <3> QED BY <1>9, <3>1, <3>2
    <2> QED BY <2>1, <2>2
  <1>16. \A i, j \in 1..n : i < j /\ r[i].id = r[j].id => r[i].id \in keys
    BY <1>4, <1>11
  <1>17. MergeOrder(r, source, keys, a + c, b + c)
    BY <1>1, <1>3, <1>4, <1>12, <1>13, <1>14, <1>15, <1>16 DEF MergeOrder, Sorted, n, m
  <1>18. ASSUME NEW s, s \notin keys PROVE RowsAbout(r, s) = RowsAbout(q, s)
    <2>1. ASSUME NEW i \in 1..n, r[i].id = s \/ q[i].id = s PROVE r[i] = q[i]
      <3>1. r[i].id = s
        BY <1>11, <2>1
      <3>2. ASSUME a <= i, i < a + c PROVE FALSE
        <4>1. r[i].id \in keys
          BY <1>4, <1>8, <3>2
        <4> QED BY <1>18, <3>1, <4>1
      <3> QED BY <1>9, <3>2
    <2>2. {r[i] : i \in {j \in 1..n : r[j].id = s}} = {q[i] : i \in {j \in 1..n : q[j].id = s}}
      BY <1>11, <2>1
    <2> QED BY <1>1, <2>2 DEF RowsAbout, n
  <1> QED BY <1>17, <1>18 DEF Untouched

\* Passing rows that belong before the next of the source.
LEMMA PassingInOrder ==
  ASSUME NEW q \in Seq(Row), NEW source \in Seq(Row), NEW keys,
         NEW a \in Nat, NEW b \in Nat, NEW c \in Nat,
         1 <= a, a + c <= Len(q) + 1, 1 <= b,
         \A i \in 0..(c - 1) :
           /\ b > Len(source) \/ ~Precedes(source[b], q[a + i])
           /\ q[a + i].id \notin keys,
         MergeOrder(q, source, keys, a, b)
  PROVE  MergeOrder(q, source, keys, a + c, b)
  <1> DEFINE n == Len(q)
             m == Len(source)
  <1>1. n \in Nat /\ m \in Nat /\ a + c <= n + 1
    BY LenProperties
  <1>2. /\ \A i \in 1..n : q[i] \in Row
        /\ \A j \in 1..m : source[j] \in Row
    BY <1>1, ElementOfSeq
  <1>3. /\ \A j \in 1..m : source[j].id \in keys
        /\ \A i \in 1..n, j \in 1..m : i < a /\ b <= j => Precedes(q[i], source[j])
        /\ \A i \in 1..n : i < a /\ q[i].id \in keys =>
             \E j \in 1..m : j < b /\ q[i] = source[j]
        /\ \A j \in 1..m : j < b => \E i \in 1..n : i < a /\ q[i] = source[j]
        /\ \A i, j \in 1..m : i < j => Precedes(source[i], source[j])
    BY DEF MergeOrder, Sorted
  <1>4. \A i \in 0..(c - 1) :
          /\ b > m \/ ~Precedes(source[b], q[a + i])
          /\ q[a + i].id \notin keys
    OBVIOUS
  <1> HIDE DEF n, m
  <1>5. ASSUME NEW i \in 1..n, i < a + c, ~(i < a)
        PROVE  q[i].id \notin keys /\ (b > m \/ ~Precedes(source[b], q[i]))
    <2>1. i - a \in 0..(c - 1) /\ a + (i - a) = i
      BY <1>1, <1>5
    <2> QED BY <1>4, <2>1
  <1>6. ASSUME NEW i \in 1..n, NEW j \in 1..m, i < a + c, b <= j
        PROVE  Precedes(q[i], source[j])
    <2>1. CASE i < a
      BY <1>3, <1>6, <2>1
    <2>2. CASE ~(i < a)
      <3>1. b \in 1..m /\ ~(b > m)
        BY <1>1, <1>6
      <3>2. ~Precedes(source[b], q[i]) /\ q[i].id # source[b].id
        BY <1>3, <1>5, <1>6, <2>2, <3>1
      <3>3. Precedes(q[i], source[b])
        BY <1>2, <3>1, <3>2, PrecedesOrders, PrecedesByIdentity
      <3>4. CASE b = j
        BY <3>3, <3>4
      <3>5. CASE b < j
        BY <1>2, <1>3, <3>1, <3>3, <3>5, PrecedesTransitive
      <3> QED BY <1>6, <3>4, <3>5
    <2> QED BY <2>1, <2>2
  <1>7. ASSUME NEW i \in 1..n, i < a + c, q[i].id \in keys
        PROVE  \E j \in 1..m : j < b /\ q[i] = source[j]
    BY <1>3, <1>5, <1>7
  <1>8. ASSUME NEW j \in 1..m, j < b
        PROVE  \E i \in 1..n : i < a + c /\ q[i] = source[j]
    <2>1. PICK i \in 1..n : i < a /\ q[i] = source[j]
      BY <1>3, <1>8
    <2> QED BY <1>1, <2>1
  <1> QED BY <1>6, <1>7, <1>8 DEF MergeOrder, n, m

\* The same rows, in other places.
LEMMA SameRowsAbout ==
  ASSUME NEW q, NEW r, NEW s,
         \A i \in 1..Len(q) : q[i].id = s => \E j \in 1..Len(r) : r[j] = q[i],
         \A i \in 1..Len(r) : r[i].id = s => \E j \in 1..Len(q) : q[j] = r[i]
  PROVE  RowsAbout(r, s) = RowsAbout(q, s)
  <1>1. ASSUME NEW x \in RowsAbout(q, s) PROVE x \in RowsAbout(r, s)
    <2>1. PICK i \in 1..Len(q) : q[i].id = s /\ x = q[i]
      BY <1>1 DEF RowsAbout
    <2>2. PICK j \in 1..Len(r) : r[j] = x
      BY <2>1
    <2> QED BY <2>1, <2>2 DEF RowsAbout
  <1>2. ASSUME NEW x \in RowsAbout(r, s) PROVE x \in RowsAbout(q, s)
    <2>1. PICK i \in 1..Len(r) : r[i].id = s /\ x = r[i]
      BY <1>2 DEF RowsAbout
    <2>2. PICK j \in 1..Len(q) : q[j] = x
      BY <2>1
    <2> QED BY <2>1, <2>2 DEF RowsAbout
  <1> QED BY <1>1, <1>2

\* Removing rows the update is about.
LEMMA RemovalInOrder ==
  ASSUME NEW q \in Seq(Row), NEW r \in Seq(Row), NEW source \in Seq(Row), NEW keys,
         NEW a \in Nat, NEW b \in Nat, NEW c \in Nat,
         1 <= a, a + c <= Len(q) + 1,
         RowsRemoved(q, r, a, c),
         \A i \in 0..(c - 1) : q[a + i].id \in keys,
         MergeOrder(q, source, keys, a, b)
  PROVE  /\ MergeOrder(r, source, keys, a, b)
         /\ Untouched(q, r, keys)
  <1> DEFINE n == Len(q)
             m == Len(source)
  <1>1. n \in Nat /\ m \in Nat /\ Len(r) = n - c /\ a + c <= n + 1
    BY LenProperties DEF RowsRemoved
  <1>2. /\ Sorted(source) /\ Distinct(source)
        /\ \A j \in 1..m : source[j].id \in keys
        /\ \A i \in 1..n, j \in 1..m : i < a /\ b <= j => Precedes(q[i], source[j])
        /\ \A i \in 1..n : i < a /\ q[i].id \in keys =>
             \E j \in 1..m : j < b /\ q[i] = source[j]
        /\ \A j \in 1..m : j < b => \E i \in 1..n : i < a /\ q[i] = source[j]
        /\ \A i, j \in 1..n : i < j /\ q[i].id = q[j].id => q[i].id \in keys
        /\ \A i, j \in 1..n : i < j => Precedes(q[i], q[j])
    BY DEF MergeOrder, Sorted
  <1>3. \A i \in 1..(n - c) : r[i] = IF i < a THEN q[i] ELSE q[i + c]
    BY DEF RowsRemoved
  <1> HIDE DEF n, m
  <1> DEFINE at == [i \in 1..(n - c) |-> IF i < a THEN i ELSE i + c]
  <1>4. /\ \A i \in 1..(n - c) : at[i] \in 1..n /\ r[i] = q[at[i]]
        /\ \A i \in 1..(n - c) : i < a => at[i] = i
        /\ \A i, j \in 1..(n - c) : i < j => at[i] < at[j]
    <2>1. ASSUME NEW i \in 1..(n - c) PROVE at[i] \in 1..n /\ r[i] = q[at[i]]
      <3>1. at[i] = IF i < a THEN i ELSE i + c
        OBVIOUS
      <3> HIDE DEF at
      <3>2. at[i] \in 1..n
        BY <1>1, <3>1
      <3> QED BY <1>3, <3>1, <3>2
    <2>2. ASSUME NEW i \in 1..(n - c), NEW j \in 1..(n - c), i < j PROVE at[i] < at[j]
      <3>1. at[i] = (IF i < a THEN i ELSE i + c) /\ at[j] = (IF j < a THEN j ELSE j + c)
        OBVIOUS
      <3> HIDE DEF at
      <3> QED BY <1>1, <2>2, <3>1
    <2> QED BY <2>1, <2>2
  <1>5. \A i \in 1..n : i < a => i \in 1..(n - c)
    BY <1>1
  <1> HIDE DEF at
  <1>6. ASSUME NEW i \in 1..(n - c), NEW j \in 1..(n - c), i < j PROVE Precedes(r[i], r[j])
    <2>1. /\ at[i] \in 1..n /\ at[j] \in 1..n /\ at[i] < at[j]
          /\ r[i] = q[at[i]] /\ r[j] = q[at[j]]
      BY <1>4, <1>6
    <2>2. Precedes(q[at[i]], q[at[j]])
      BY <1>2, <2>1
    <2> QED BY <2>1, <2>2
  <1>7. ASSUME NEW i \in 1..(n - c), NEW j \in 1..m, i < a, b <= j
        PROVE  Precedes(r[i], source[j])
    <2>1. i \in 1..n /\ r[i] = q[i]
      BY <1>4, <1>7
    <2> QED BY <1>2, <1>7, <2>1
  <1>8. ASSUME NEW i \in 1..(n - c), i < a, r[i].id \in keys
        PROVE  \E j \in 1..m : j < b /\ r[i] = source[j]
    <2>1. i \in 1..n /\ r[i] = q[i]
      BY <1>4, <1>8
    <2> QED BY <1>2, <1>8, <2>1
  <1>9. ASSUME NEW j \in 1..m, j < b
        PROVE  \E i \in 1..(n - c) : i < a /\ r[i] = source[j]
    <2>1. PICK i \in 1..n : i < a /\ q[i] = source[j]
      BY <1>2, <1>9
    <2>2. i \in 1..(n - c) /\ r[i] = q[i]
      BY <1>4, <1>5, <2>1
    <2> QED BY <2>1, <2>2
  <1>10. ASSUME NEW i \in 1..(n - c), NEW j \in 1..(n - c), i < j, r[i].id = r[j].id
         PROVE  r[i].id \in keys
    <2>1. /\ at[i] \in 1..n /\ at[j] \in 1..n /\ at[i] < at[j]
          /\ r[i] = q[at[i]] /\ r[j] = q[at[j]]
      BY <1>4, <1>10
    <2> QED BY <1>2, <1>10, <2>1
  <1>11. MergeOrder(r, source, keys, a, b)
    BY <1>1, <1>2, <1>6, <1>7, <1>8, <1>9, <1>10 DEF MergeOrder, Sorted, n, m
  <1>12. ASSUME NEW s, s \notin keys PROVE RowsAbout(r, s) = RowsAbout(q, s)
    <2>1. ASSUME NEW i \in 1..n, q[i].id = s
          PROVE  \E j \in 1..(n - c) : r[j] = q[i]
      <3>1. ~(a <= i /\ i < a + c)
        <4>1. ASSUME a <= i, i < a + c PROVE FALSE
          <5>1. i - a \in 0..(c - 1) /\ a + (i - a) = i
            BY <1>1, <4>1
          <5> QED BY <1>12, <2>1, <5>1
        <4> QED BY <4>1
      <3>2. CASE i < a
        BY <1>4, <1>5, <3>2
      <3>3. CASE a + c <= i
        <4>1. i - c \in 1..(n - c) /\ ~(i - c < a) /\ (i - c) + c = i
          BY <1>1, <3>3
        <4> QED BY <1>3, <4>1
      <3> QED BY <1>1, <3>1, <3>2, <3>3
    <2>2. ASSUME NEW i \in 1..(n - c) PROVE \E j \in 1..n : q[j] = r[i]
      BY <1>4
    <2>3. \A i \in 1..Len(q) : q[i].id = s => \E j \in 1..Len(r) : r[j] = q[i]
      BY <1>1, <2>1 DEF n
    <2>4. \A i \in 1..Len(r) : r[i].id = s => \E j \in 1..Len(q) : q[j] = r[i]
      BY <1>1, <2>2 DEF n
    <2> QED BY <2>3, <2>4, SameRowsAbout
  <1> QED BY <1>11, <1>12 DEF Untouched

\* Inserting rows of the source before a row that they belong before.
LEMMA InsertionInOrder ==
  ASSUME NEW q \in Seq(Row), NEW r \in Seq(Row), NEW source \in Seq(Row), NEW keys,
         NEW a \in Nat, NEW b \in Nat, NEW c \in Nat,
         1 <= a, a <= Len(q) + 1, 1 <= b, b + c <= Len(source) + 1,
         RowsInserted(q, r, source, a, b, c),
         a <= Len(q) => \A i \in 0..(c - 1) : Precedes(source[b + i], q[a]),
         MergeOrder(q, source, keys, a, b)
  PROVE  /\ MergeOrder(r, source, keys, a + c, b + c)
         /\ Untouched(q, r, keys)
  <1> DEFINE n == Len(q)
             m == Len(source)
  <1>1. /\ n \in Nat /\ m \in Nat /\ Len(r) = n + c
        /\ a <= n + 1 /\ b + c <= m + 1
    BY LenProperties DEF RowsInserted
  <1>2. /\ \A i \in 1..n : q[i] \in Row
        /\ \A j \in 1..m : source[j] \in Row
    BY <1>1, ElementOfSeq
  <1>3. /\ Sorted(source) /\ Distinct(source)
        /\ \A j \in 1..m : source[j].id \in keys
        /\ \A i \in 1..n, j \in 1..m : i < a /\ b <= j => Precedes(q[i], source[j])
        /\ \A i \in 1..n : i < a /\ q[i].id \in keys =>
             \E j \in 1..m : j < b /\ q[i] = source[j]
        /\ \A j \in 1..m : j < b => \E i \in 1..n : i < a /\ q[i] = source[j]
        /\ \A i, j \in 1..n : i < j /\ q[i].id = q[j].id => q[i].id \in keys
        /\ \A i, j \in 1..n : i < j => Precedes(q[i], q[j])
        /\ \A i, j \in 1..m : i < j => Precedes(source[i], source[j])
    BY DEF MergeOrder, Sorted
  <1>4. \A i \in 1..(n + c) :
          r[i] = IF i < a THEN q[i]
                 ELSE IF i < a + c THEN source[b + (i - a)] ELSE q[i - c]
    BY DEF RowsInserted
  <1>5. a <= n => \A i \in 0..(c - 1) : Precedes(source[b + i], q[a])
    OBVIOUS
  <1> HIDE DEF n, m
  <1> DEFINE Old(i, k) == k \in 1..n /\ r[i] = q[k]
             New(i, k) == k \in 1..m /\ r[i] = source[k]
  <1>6. ASSUME NEW i \in 1..(n + c), i < a PROVE Old(i, i)
    BY <1>1, <1>4, <1>6
  <1>7. ASSUME NEW i \in 1..(n + c), a <= i, i < a + c
        PROVE  /\ New(i, b + (i - a)) /\ b <= b + (i - a) /\ b + (i - a) < b + c
               /\ a <= n => Precedes(r[i], q[a])
    <2>1. /\ b + (i - a) \in 1..m /\ b <= b + (i - a) /\ b + (i - a) < b + c
          /\ i - a \in 0..(c - 1) /\ ~(i < a)
      BY <1>1, <1>7
    <2>2. r[i] = source[b + (i - a)]
      BY <1>4, <1>7, <2>1
    <2> QED BY <1>5, <2>1, <2>2
  <1>8. ASSUME NEW i \in 1..(n + c), a + c <= i PROVE Old(i, i - c) /\ a <= i - c
    <2>1. i - c \in 1..n /\ a <= i - c /\ ~(i < a) /\ ~(i < a + c)
      BY <1>1, <1>8
    <2> QED BY <1>4, <2>1
  <1>9. ASSUME NEW i \in 1..(n + c), NEW j \in 1..(n + c), i < j
        PROVE  Precedes(r[i], r[j])
    <2>1. CASE i < a /\ j < a
      BY <1>3, <1>6, <1>9, <2>1
    <2>2. CASE i < a /\ a <= j /\ j < a + c
      <3> DEFINE k == b + (j - a)
      <3>1. New(j, k) /\ b <= k /\ Old(i, i)
        BY <1>6, <1>7, <2>2
      <3> HIDE DEF k
      <3> QED BY <1>3, <2>2, <3>1
    <2>3. CASE i < a /\ a + c <= j
      <3> DEFINE k == j - c
      <3>1. Old(j, k) /\ a <= k /\ Old(i, i)
        BY <1>6, <1>8, <2>3
      <3> HIDE DEF k
      <3>2. i < k
        BY <1>1, <2>3, <3>1
      <3> QED BY <1>3, <3>1, <3>2
    <2>4. CASE a <= i /\ i < a + c /\ a <= j /\ j < a + c
      <3> DEFINE k == b + (i - a)
                 l == b + (j - a)
      <3>1. New(i, k) /\ New(j, l)
        BY <1>7, <2>4
      <3>2. k < l
        BY <1>1, <1>9
      <3> HIDE DEF k, l
      <3> QED BY <1>3, <3>1, <3>2
    <2>5. CASE a <= i /\ i < a + c /\ a + c <= j
      <3> DEFINE k == j - c
                 l == b + (i - a)
      <3>1. Old(j, k) /\ a <= k /\ New(i, l) /\ (a <= n => Precedes(r[i], q[a]))
        BY <1>7, <1>8, <2>5
      <3> HIDE DEF k, l
      <3>2. a \in 1..n /\ a <= n
        BY SMTT(20), <1>1, <3>1
      <3>3. Precedes(r[i], q[a]) /\ r[i] \in Row /\ q[a] \in Row /\ r[j] \in Row
        BY <1>2, <3>1, <3>2
      <3>4. CASE a = k
        BY <3>1, <3>3, <3>4
      <3>5. CASE a < k
        <4>1. Precedes(q[a], r[j])
          BY <1>3, <3>1, <3>2, <3>5
        <4> QED BY <3>3, <4>1, PrecedesTransitive
      <3> QED BY <1>1, <3>1, <3>4, <3>5
    <2>6. CASE a + c <= i /\ a + c <= j
      <3> DEFINE k == i - c
                 l == j - c
      <3>1. Old(i, k) /\ Old(j, l)
        BY <1>8, <2>6
      <3>2. k < l
        BY <1>1, <1>9
      <3> HIDE DEF k, l
      <3> QED BY <1>3, <3>1, <3>2
    <2> QED BY <1>1, <1>9, <2>1, <2>2, <2>3, <2>4, <2>5, <2>6
  <1>10. ASSUME NEW i \in 1..(n + c), NEW j \in 1..m, i < a + c, b + c <= j
         PROVE  Precedes(r[i], source[j])
    <2>1. CASE a <= i
      <3> DEFINE k == b + (i - a)
      <3>1. New(i, k) /\ k < b + c
        BY <1>7, <1>10, <2>1
      <3>2. k < j
        BY <1>1, <1>7, <1>10, <2>1
      <3> HIDE DEF k
      <3> QED BY <1>3, <3>1, <3>2
    <2>2. CASE ~(a <= i)
      <3>1. i < a /\ b <= j
        BY <1>1, <1>10, <2>2
      <3> QED BY <1>3, <1>6, <3>1
    <2> QED BY <2>1, <2>2
  <1>11. ASSUME NEW i \in 1..(n + c), i < a + c, r[i].id \in keys
         PROVE  \E j \in 1..m : j < b + c /\ r[i] = source[j]
    <2>1. CASE a <= i
      BY <1>7, <1>11, <2>1
    <2>2. CASE ~(a <= i)
      <3>1. i < a /\ Old(i, i)
        BY SMTT(20), <1>1, <1>6, <2>2
      <3>2. PICK j \in 1..m : j < b /\ q[i] = source[j]
        BY <1>3, <1>11, <3>1
      <3> QED BY <1>1, <3>1, <3>2
    <2> QED BY <2>1, <2>2
  <1>12. ASSUME NEW j \in 1..m, j < b + c
         PROVE  \E i \in 1..(n + c) : i < a + c /\ r[i] = source[j]
    <2>1. CASE b <= j
      <3>1. /\ a + (j - b) \in 1..(n + c) /\ a <= a + (j - b) /\ a + (j - b) < a + c
            /\ b + ((a + (j - b)) - a) = j
        BY <1>1, <1>12, <2>1
      <3> QED BY <1>7, <3>1
    <2>2. CASE ~(b <= j)
      <3>1. PICK i \in 1..n : i < a /\ q[i] = source[j]
        BY <1>1, <1>3, <2>2
      <3>2. i \in 1..n /\ i < a
        BY <3>1
      <3>3. i \in 1..(n + c) /\ i < a + c
        BY ONLY <1>1, <3>2, a \in Nat, c \in Nat
      <3> QED BY <1>6, <3>1, <3>3
    <2> QED BY <2>1, <2>2
  <1>13. ASSUME NEW i \in 1..(n + c), r[i].id \notin keys
         PROVE  \/ i < a /\ Old(i, i)
                \/ a + c <= i /\ Old(i, i - c)
    <2>1. ~(a <= i /\ i < a + c)
      BY <1>3, <1>7, <1>13
    <2> QED BY <1>1, <1>6, <1>8, <2>1
  <1>14. ASSUME NEW i \in 1..(n + c), NEW j \in 1..(n + c), i < j, r[i].id = r[j].id,
                r[i].id \notin keys
         PROVE  FALSE
    <2>1. PICK k \in 1..n, l \in 1..n : r[i] = q[k] /\ r[j] = q[l] /\ k < l
      <3>1. \/ i < a /\ Old(i, i) /\ j < a /\ Old(j, j)
            \/ i < a /\ Old(i, i) /\ a + c <= j /\ Old(j, j - c)
            \/ a + c <= i /\ Old(i, i - c) /\ a + c <= j /\ Old(j, j - c)
        BY <1>1, <1>13, <1>14
      <3>2. i < a /\ a + c <= j => i < j - c
        BY <1>1
      <3>3. i - c < j - c
        BY <1>1, <1>14
      <3> QED BY <1>14, <3>1, <3>2, <3>3
    <2> QED BY <1>3, <1>14, <2>1
  <1>15. MergeOrder(r, source, keys, a + c, b + c)
    BY <1>1, <1>3, <1>9, <1>10, <1>11, <1>12, <1>14 DEF MergeOrder, Sorted, n, m
  <1>16. ASSUME NEW s, s \notin keys PROVE RowsAbout(r, s) = RowsAbout(q, s)
    <2>1. ASSUME NEW i \in 1..n PROVE \E j \in 1..(n + c) : r[j] = q[i]
      <3>1. CASE i < a
        <4>1. i \in 1..(n + c)
          BY <1>1
        <4> QED BY <1>6, <3>1, <4>1
      <3>2. CASE ~(i < a)
        <4>1. i + c \in 1..(n + c) /\ a + c <= i + c /\ (i + c) - c = i
          BY <1>1, <3>2
        <4> QED BY <1>8, <4>1
      <3> QED BY <3>1, <3>2
    <2>2. ASSUME NEW i \in 1..(n + c), r[i].id = s
          PROVE  \E k \in 1..n : q[k] = r[i]
      BY <1>13, <1>16, <2>2
    <2>3. \A i \in 1..Len(q) : q[i].id = s => \E j \in 1..Len(r) : r[j] = q[i]
      BY <1>1, <2>1 DEF n
    <2>4. \A i \in 1..Len(r) : r[i].id = s => \E j \in 1..Len(q) : q[j] = r[i]
      BY <1>1, <2>2 DEF n
    <2> QED BY <2>3, <2>4, SameRowsAbout
  <1> QED BY <1>15, <1>16 DEF Untouched

----------------------------------------------------------------------------
(* A merge in order, when texts compare as the database does.              *)

Ranked(rank) == \A x, y \in Row : Above(x, y, rank) <=> Precedes(y, x)

Merging(t) == t.phase = "rows" \/ t.phase = "merge"

Ordered(t) ==
  /\ t.phase # "hangs"
  /\ t.phase = "none" => Sorted(t.rows) /\ Distinct(t.rows)
  /\ Merging(t) => MergeOrder(t.rows, t.source, t.keys, t.t_i, t.s_i)
  /\ t.phase = "merge" => Match(t.rows, t.source, t.t_i + t.removed, t.s_i + t.inserted)

\* What the model shows of a resource once the merge is over.
Showing(t, s) ==
  IF Merging(t) /\ s \in t.keys THEN RowsAbout(t.source, s) ELSE RowsAbout(t.rows, s)

\* What a step of a merge keeps.
InStep(t, u) == Ordered(u) /\ \A s : Showing(u, s) = Showing(t, s)

LEMMA InStepTransitive ==
  ASSUME NEW t, NEW u, NEW v, InStep(t, u), InStep(u, v)
  PROVE  InStep(t, v)
  BY DEF InStep

\* When both have come to their ends the rows of the model are each about
\* another resource, and those the update is about are those of the source.
LEMMA MergedIs ==
  ASSUME NEW q \in Seq(Row), NEW source \in Seq(Row), NEW keys,
         NEW a \in Nat, NEW b \in Nat, a > Len(q), b > Len(source),
         MergeOrder(q, source, keys, a, b)
  PROVE  /\ Sorted(q) /\ Distinct(q)
         /\ \A s \in keys : RowsAbout(q, s) = RowsAbout(source, s)
  <1> DEFINE n == Len(q)
             m == Len(source)
  <1>1. n \in Nat /\ m \in Nat /\ a > n /\ b > m
    BY LenProperties
  <1>2. /\ \A i \in 1..n : q[i] \in Row
        /\ \A j \in 1..m : source[j] \in Row
    BY <1>1, ElementOfSeq
  <1>3. /\ Sorted(q)
        /\ \A i \in 1..n : i < a /\ q[i].id \in keys =>
             \E j \in 1..m : j < b /\ q[i] = source[j]
        /\ \A j \in 1..m : j < b => \E i \in 1..n : i < a /\ q[i] = source[j]
        /\ \A i, j \in 1..n : i < j /\ q[i].id = q[j].id => q[i].id \in keys
        /\ \A i, j \in 1..n : i < j => Precedes(q[i], q[j])
        /\ \A i, j \in 1..m : i < j => source[i].id # source[j].id
    BY DEF MergeOrder, Sorted, Distinct
  <1> HIDE DEF n, m
  <1>4. /\ \A i \in 1..n : i < a
        /\ \A j \in 1..m : j < b
    BY <1>1
  <1>5. ASSUME NEW i \in 1..n, NEW j \in 1..n, i < j, q[i].id = q[j].id PROVE FALSE
    <2>1. q[i].id \in keys /\ q[j].id \in keys
      BY <1>3, <1>5
    <2>2. PICK k \in 1..m : q[i] = source[k]
      BY <1>3, <1>4, <2>1
    <2>3. PICK l \in 1..m : q[j] = source[l]
      BY <1>3, <1>4, <2>1
    <2>4. ~(k < l) /\ ~(l < k)
      BY <1>3, <1>5, <2>2, <2>3
    <2>5. k = l
      BY <2>4
    <2>6. q[i] = q[j] /\ Precedes(q[i], q[j])
      BY <1>3, <1>5, <2>2, <2>3, <2>5
    <2> QED BY <1>2, <2>6, PrecedesOrders
  <1>6. Distinct(q)
    BY <1>5 DEF Distinct, n
  <1>7. ASSUME NEW s \in keys PROVE RowsAbout(q, s) = RowsAbout(source, s)
    <2>1. \A i \in 1..Len(q) : q[i].id = s => \E j \in 1..Len(source) : source[j] = q[i]
      BY <1>3, <1>4, <1>7 DEF n, m
    <2>2. \A j \in 1..Len(source) : source[j].id = s => \E i \in 1..Len(q) : q[i] = source[j]
      BY <1>3, <1>4 DEF n, m
    <2> QED BY <2>1, <2>2, SameRowsAbout
  <1> QED BY <1>3, <1>6, <1>7

LEMMA AdvancedInOrder ==
  ASSUME NEW t, NEW u, Within(t), Within(u), t.phase = "rows", Ordered(t),
         NEW c \in Nat, AdvancedBy(t, u, c)
  PROVE  InStep(t, u)
  <1> DEFINE keys == t.keys
             q == t.rows
             r == u.rows
             source == t.source
             a == t.t_i
             b == t.s_i
  <1>1. /\ q \in Seq(Row) /\ r \in Seq(Row) /\ source \in Seq(Row)
        /\ a \in Nat /\ b \in Nat /\ 1 <= a /\ 1 <= b
    BY WithinTyped
  <1>2. /\ u.phase = "rows" /\ u.source = source /\ u.keys = keys
        /\ u.t_i = a + c /\ u.s_i = b + c
        /\ a + c <= Len(q) + 1 /\ b + c <= Len(source) + 1
        /\ Overwritten(q, r, source, a, b, c)
        /\ \A i \in 0..(c - 1) : Identity(q[a + i]) = Identity(source[b + i])
    BY DEF AdvancedBy
  <1>3. MergeOrder(q, source, keys, a, b)
    BY DEF Ordered, Merging
  <1> HIDE DEF keys, q, r, source, a, b
  <1>4. /\ MergeOrder(r, source, keys, a + c, b + c)
        /\ Untouched(q, r, keys)
    BY <1>1, <1>2, <1>3, OverwritingInOrder
  <1>5. Ordered(u)
    BY <1>2, <1>4 DEF Ordered, r, keys
  <1>6. \A s : Showing(u, s) = Showing(t, s)
    BY <1>2, <1>4 DEF Showing, Merging, Untouched, keys, r, q, source
  <1> QED BY <1>5, <1>6 DEF InStep

LEMMA MatchedInOrder ==
  ASSUME NEW t, NEW u, t.phase = "rows", Ordered(t), MatchedBy(t, u)
  PROVE  InStep(t, u)
  BY DEF Ordered, MatchedBy, InStep, Showing, Merging

LEMMA KeptInOrder ==
  ASSUME NEW t, NEW u, Within(t), t.phase = "merge", Ordered(t),
         NEW rank, Ranked(rank), NEW c \in Nat, KeptBy(t, u, c, rank)
  PROVE  InStep(t, u)
  <1> DEFINE q == t.rows
             source == t.source
             a == t.t_i
             b == t.s_i
             x == t.removed
             y == t.inserted
             n == Len(q)
             m == Len(source)
  <1>1. /\ q \in Seq(Row) /\ source \in Seq(Row) /\ n \in Nat /\ m \in Nat
        /\ a \in Nat /\ b \in Nat /\ x \in Nat /\ 1 <= a /\ 1 <= b /\ a + x <= n + 1
    BY WithinTyped
  <1>2. /\ u.phase = "merge" /\ u.rows = q /\ u.source = source /\ u.keys = t.keys
        /\ u.t_i = a + c /\ u.s_i = b /\ u.removed = x - c /\ u.inserted = y /\ c <= x
    BY DEF KeptBy
  <1>3. \A i \in 0..(c - 1) :
          (b > m \/ ~Above(q[a + i], source[b], rank)) /\ q[a + i].id \notin t.keys
    BY DEF KeptBy, Before, isUpdatedRow
  <1>4. MergeOrder(q, source, t.keys, a, b) /\ Match(q, source, a + x, b + y)
    BY DEF Ordered, Merging
  <1> HIDE DEF q, source, a, b, x, y, n, m
  <1>5. a + c <= n + 1 /\ (a + c) + (x - c) = a + x
    BY <1>1, <1>2
  <1>6. ASSUME NEW i \in 0..(c - 1), ~(b > m) PROVE ~Precedes(source[b], q[a + i])
    <2>1. a + i \in 1..n /\ b \in 1..m
      BY <1>1, <1>5, <1>6
    <2>2. q[a + i] \in Row /\ source[b] \in Row
      BY <1>1, <2>1, ElementOfSeq DEF n, m
    <2> QED BY <1>3, <1>6, <2>2 DEF Ranked
  <1>7. MergeOrder(q, source, t.keys, a + c, b)
    <2>1. \A i \in 0..(c - 1) :
            /\ b > Len(source) \/ ~Precedes(source[b], q[a + i])
            /\ q[a + i].id \notin t.keys
      BY <1>3, <1>6 DEF m
    <2>2. a + c <= Len(q) + 1
      BY <1>5 DEF n
    <2> QED BY <1>1, <1>4, <2>1, <2>2, PassingInOrder
  <1>8. Ordered(u)
    BY <1>2, <1>4, <1>5, <1>7 DEF Ordered
  <1>9. \A s : Showing(u, s) = Showing(t, s)
    BY <1>2 DEF Showing, Merging, q, source
  <1> QED BY <1>8, <1>9 DEF InStep

LEMMA RemovedInOrder ==
  ASSUME NEW t, NEW u, Within(t), Within(u), t.phase = "merge", Ordered(t),
         NEW c \in Nat, RemovedBy(t, u, c)
  PROVE  InStep(t, u)
  <1> DEFINE keys == t.keys
             q == t.rows
             r == u.rows
             source == t.source
             a == t.t_i
             b == t.s_i
             x == t.removed
             y == t.inserted
             n == Len(q)
             m == Len(source)
  <1>1. /\ q \in Seq(Row) /\ source \in Seq(Row) /\ r \in Seq(Row) /\ n \in Nat
        /\ m \in Nat /\ a \in Nat /\ b \in Nat /\ x \in Nat /\ 1 <= a /\ 1 <= b
        /\ a + x <= n + 1
    BY WithinTyped
  <1>2. /\ u.phase = "merge" /\ u.source = source /\ u.keys = keys
        /\ u.t_i = a /\ u.s_i = b /\ u.removed = x - c /\ u.inserted = y /\ c <= x
        /\ RowsRemoved(q, r, a, c)
        /\ \A i \in 0..(c - 1) : q[a + i].id \in keys
    BY DEF RemovedBy, isUpdatedRow
  <1>3. MergeOrder(q, source, keys, a, b) /\ Match(q, source, a + x, b + y)
    BY DEF Ordered, Merging
  <1> HIDE DEF keys, q, r, source, a, b, x, y, n, m
  <1>4. a + c <= n + 1
    BY <1>1, <1>2
  <1>5. /\ MergeOrder(r, source, keys, a, b)
        /\ Untouched(q, r, keys)
    <2>1. a + c <= Len(q) + 1
      BY <1>4 DEF n
    <2> QED BY <1>1, <1>2, <1>3, <2>1, RemovalInOrder
  <1>6. Match(r, source, a + (x - c), b + y)
    <2>1. /\ Len(r) = n - c
          /\ \A i \in 1..(n - c) : r[i] = IF i < a THEN q[i] ELSE q[i + c]
      BY <1>2 DEF RowsRemoved, n
    <2>2. CASE a + x = n + 1 /\ b + y = m + 1
      <3>1. a + (x - c) = (n - c) + 1
        <4>1. a + x = n + 1
          BY <2>2
        <4> QED BY ONLY <1>1, <4>1, c \in Nat
      <3> QED BY <2>1, <2>2, <3>1 DEF Match, m
    <2>3. CASE a + x <= n /\ b + y <= m /\ Identity(q[a + x]) = Identity(source[b + y])
      <3>1. /\ a + (x - c) <= n - c /\ a + (x - c) \in 1..(n - c) /\ ~(a + (x - c) < a)
            /\ (a + (x - c)) + c = a + x
        BY <1>1, <1>2, <2>3
      <3>2. r[a + (x - c)] = q[a + x]
        BY <2>1, <3>1
      <3> QED BY <2>1, <2>3, <3>1, <3>2 DEF Match, m
    <2> QED BY <1>3, <2>2, <2>3 DEF Match, n, m
  <1>7. Ordered(u)
    BY <1>2, <1>5, <1>6 DEF Ordered, r, keys
  <1>8. \A s : Showing(u, s) = Showing(t, s)
    BY <1>2, <1>5 DEF Showing, Merging, Untouched, keys, q, r, source
  <1> QED BY <1>7, <1>8 DEF InStep

\* The first row is inserted without being compared: if none is left to remove
\* the next row of the model is the match, which all that is inserted precedes.
LEMMA InsertedInOrder ==
  ASSUME NEW t, NEW u, Within(t), Within(u), t.phase = "merge", Ordered(t),
         NEW rank, Ranked(rank), NEW c \in Nat, InsertedBy(t, u, c, rank)
  PROVE  InStep(t, u)
  <1> DEFINE keys == t.keys
             q == t.rows
             r == u.rows
             source == t.source
             a == t.t_i
             b == t.s_i
             x == t.removed
             y == t.inserted
             n == Len(q)
             m == Len(source)
  <1>1. /\ q \in Seq(Row) /\ source \in Seq(Row) /\ r \in Seq(Row) /\ n \in Nat
        /\ m \in Nat /\ a \in Nat /\ b \in Nat /\ x \in Nat /\ y \in Nat
        /\ 1 <= a /\ 1 <= b /\ a + x <= n + 1 /\ b + y <= m + 1
    BY WithinTyped
  <1>2. /\ u.phase = "merge" /\ u.source = source /\ u.keys = keys
        /\ u.t_i = a + c /\ u.s_i = b + c /\ u.removed = x /\ u.inserted = y - c
        /\ c <= y /\ RowsInserted(q, r, source, a, b, c)
        /\ x > 0 => \A i \in 0..(c - 1) : Above(q[a], source[b + i], rank)
    BY DEF InsertedBy
  <1>3. MergeOrder(q, source, keys, a, b) /\ Match(q, source, a + x, b + y)
    BY DEF Ordered, Merging
  <1> HIDE DEF keys, q, r, source, a, b, x, y, n, m
  <1>4. /\ a <= n + 1 /\ b + c <= m + 1
        /\ (a + c) + x = (a + x) + c /\ (b + c) + (y - c) = b + y
    BY <1>1, <1>2
  <1>5. /\ \A i \in 1..n : q[i] \in Row
        /\ \A j \in 1..m : source[j] \in Row
    BY <1>1, ElementOfSeq DEF n, m
  <1>6. \A i, j \in 1..m : i < j => Precedes(source[i], source[j])
    BY <1>3 DEF MergeOrder, Sorted, m
  <1>7. ASSUME a <= n, NEW i \in 0..(c - 1) PROVE Precedes(source[b + i], q[a])
    <2>1. a \in 1..n /\ b + i \in 1..m /\ b + i < b + y
      BY <1>1, <1>2, <1>4, <1>7
    <2>2. CASE x > 0
      <3>1. Above(q[a], source[b + i], rank) /\ q[a] \in Row /\ source[b + i] \in Row
        BY <1>2, <1>5, <2>1, <2>2
      <3> QED BY <3>1 DEF Ranked
    <2>3. CASE ~(x > 0)
      <3>1. a + x = a /\ ~(a + x = n + 1)
        BY <1>1, <1>7, <2>3
      <3>2. b + y <= m /\ Identity(q[a]) = Identity(source[b + y])
        BY <1>3, <3>1 DEF Match, n, m
      <3>3. b + y \in 1..m
        BY <1>1, <3>2
      <3>4. Precedes(source[b + i], source[b + y])
        BY <1>6, <2>1, <3>3
      <3> QED BY <3>2, <3>4, PrecedesByIdentity
    <2> QED BY <2>2, <2>3
  <1>8. /\ MergeOrder(r, source, keys, a + c, b + c)
        /\ Untouched(q, r, keys)
    <2>1. a <= Len(q) + 1 /\ b + c <= Len(source) + 1
      BY <1>4 DEF n, m
    <2>2. a <= Len(q) => \A i \in 0..(c - 1) : Precedes(source[b + i], q[a])
      BY <1>7 DEF n
    <2> QED BY <1>1, <1>2, <1>3, <2>1, <2>2, InsertionInOrder
  <1>9. Match(r, source, (a + c) + x, (b + c) + (y - c))
    <2>1. /\ Len(r) = n + c
          /\ \A i \in 1..(n + c) :
               r[i] = IF i < a THEN q[i]
                      ELSE IF i < a + c THEN source[b + (i - a)] ELSE q[i - c]
      BY <1>2 DEF RowsInserted, n
    <2>2. CASE a + x = n + 1 /\ b + y = m + 1
      <3>1. (a + c) + x = (n + c) + 1
        BY <1>1, <2>2
      <3> QED BY <1>4, <2>1, <2>2, <3>1 DEF Match, m
    <2>3. CASE a + x <= n /\ b + y <= m /\ Identity(q[a + x]) = Identity(source[b + y])
      <3>1. /\ (a + c) + x <= n + c /\ (a + c) + x \in 1..(n + c)
            /\ ~((a + c) + x < a) /\ ~((a + c) + x < a + c)
            /\ ((a + c) + x) - c = a + x
        <4>1. a + x <= n
          BY <2>3
        <4> QED BY ONLY <1>1, <4>1, c \in Nat
      <3>2. r[(a + c) + x] = q[a + x]
        BY <2>1, <3>1
      <3> QED BY <1>4, <2>1, <2>3, <3>1, <3>2 DEF Match, m
    <2> QED BY <1>3, <2>2, <2>3 DEF Match, n, m
  <1>10. Ordered(u)
    BY <1>2, <1>8, <1>9 DEF Ordered, r, keys
  <1>11. \A s : Showing(u, s) = Showing(t, s)
    BY <1>2, <1>8 DEF Showing, Merging, Untouched, keys, q, r, source
  <1> QED BY <1>10, <1>11 DEF InStep

\* The loop comes to the match, and the end of it to the end of both; a row that
\* is neither removed nor passed would follow the match and precede it.
LEMMA WentOnInOrder ==
  ASSUME NEW t, NEW u, Within(t), t.phase = "merge", Ordered(t),
         NEW rank, Ranked(rank), WentOn(t, u, rank)
  PROVE  InStep(t, u)
  <1> DEFINE q == t.rows
             source == t.source
             a == t.t_i
             b == t.s_i
             x == t.removed
             y == t.inserted
             n == Len(q)
             m == Len(source)
  <1>1. /\ q \in Seq(Row) /\ source \in Seq(Row) /\ n \in Nat /\ m \in Nat
        /\ a \in Nat /\ b \in Nat /\ x \in Nat /\ y \in Nat
        /\ 1 <= a /\ 1 <= b /\ a + x <= n + 1 /\ b + y <= m + 1
        /\ t \in Transition
    BY WithinTyped DEF Within
  <1>2. MergeOrder(q, source, t.keys, a, b) /\ Match(q, source, a + x, b + y)
    BY DEF Ordered, Merging
  <1>3. \/ x > 0 /\ y = 0 /\ ~Before(t, 0, rank)
        \/ x = 0 /\ y = 0 /\ a > n /\ u = Settled(q, t.view)
        \/ x = 0 /\ y = 0 /\ a <= n /\ u = [t EXCEPT !.phase = "rows"]
    BY DEF WentOn
  <1>4. ASSUME x > 0, y = 0, ~Before(t, 0, rank) PROVE FALSE
    <2>1. ~(b > m) /\ Above(q[a + 0], source[b], rank)
      BY <1>4 DEF Before
    <2> HIDE DEF q, source, a, b, x, y, n, m
    <2>2. a \in 1..n /\ b \in 1..m /\ a + 0 = a /\ b + y = b /\ b # m + 1
      BY <1>1, <1>4, <2>1
    <2>3. q[a] \in Row /\ source[b] \in Row
      BY <1>1, <2>2, ElementOfSeq DEF n, m
    <2>4. Precedes(source[b], q[a])
      BY <2>1, <2>2, <2>3 DEF Ranked
    <2>5. a + x <= n /\ Identity(q[a + x]) = Identity(source[b])
      BY <1>2, <2>2 DEF Match, n, m
    <2>6. a + x \in 1..n /\ a < a + x
      BY <1>1, <1>4, <2>5
    <2>7. Precedes(q[a], q[a + x])
      BY <1>2, <2>2, <2>6 DEF MergeOrder, Sorted, n
    <2>8. Precedes(q[a], source[b])
      BY <2>5, <2>7, PrecedesByIdentity
    <2> QED BY <2>3, <2>4, <2>8, PrecedesOrders
  <1>5. CASE x = 0 /\ y = 0 /\ a > n /\ u = Settled(q, t.view)
    <2>1. /\ u.phase = "none" /\ u.rows = q
      BY <1>5 DEF Settled
    <2> HIDE DEF q, source, a, b, x, y, n, m
    <2>2. ~(a + x <= n) /\ b + y = b
      BY <1>1, <1>5
    <2>3. b = m + 1
      BY <1>2, <2>2 DEF Match, n, m
    <2>4. b > m
      BY <1>1, <2>3
    <2>5. a > Len(q) /\ b > Len(source)
      BY <1>5, <2>4 DEF n, m
    <2>6. /\ Sorted(q) /\ Distinct(q)
          /\ \A s \in t.keys : RowsAbout(q, s) = RowsAbout(source, s)
      BY <1>1, <1>2, <2>5, MergedIs
    <2>7. Ordered(u)
      BY <2>1, <2>6 DEF Ordered, Merging
    <2>8. \A s : Showing(u, s) = Showing(t, s)
      BY <2>1, <2>6 DEF Showing, Merging, q, source
    <2> QED BY <2>7, <2>8 DEF InStep
  <1>6. CASE x = 0 /\ y = 0 /\ a <= n /\ u = [t EXCEPT !.phase = "rows"]
    <2>1. /\ u.phase = "rows" /\ u.rows = q /\ u.source = source /\ u.keys = t.keys
          /\ u.t_i = a /\ u.s_i = b
      BY <1>1, <1>6 DEF Transition
    <2> QED BY <1>2, <2>1 DEF InStep, Ordered, Showing, Merging
  <1> QED BY <1>3, <1>4, <1>5, <1>6

\* A step of the row by row part.
LEMMA AdvanceInOrder ==
  ASSUME NEW t, Within(t), t.phase = "rows", Ordered(t)
  PROVE  InStep(t, Advance(t))
  <1> DEFINE u == PassEqual(t)
             v == Advance(t)
  <1>1. /\ Within(v) /\ Within(u)
        /\ \E c \in Nat : AdvancedBy(t, u, c)
        /\ \/ \E c \in Nat : AdvancedBy(u, v, c)
           \/ MatchedBy(u, v)
    BY AdvanceSteps
  <1> HIDE DEF u, v
  <1>2. InStep(t, u) /\ u.phase = "rows"
    BY <1>1, AdvancedInOrder DEF AdvancedBy
  <1>3. Ordered(u)
    BY <1>2 DEF InStep
  <1>4. InStep(u, v)
    BY <1>1, <1>2, <1>3, AdvancedInOrder, MatchedInOrder
  <1>5. InStep(t, v)
    BY <1>2, <1>4, InStepTransitive
  <1> QED BY <1>5 DEF v

\* A step of the loop.
LEMMA MergeInOrder ==
  ASSUME NEW t, Within(t), t.phase = "merge", Ordered(t), NEW rank, Ranked(rank)
  PROVE  InStep(t, Merge(t, rank))
  <1> DEFINE u == PassKept(t, rank)
             v == Merge(t, rank)
  <1>1. /\ Within(v) /\ Within(u)
        /\ \E c \in Nat : KeptBy(t, u, c, rank)
        /\ \/ \E c \in Nat : RemovedBy(u, v, c)
           \/ \E c \in Nat : InsertedBy(u, v, c, rank)
           \/ WentOn(u, v, rank)
    BY MergeSteps
  <1> HIDE DEF u, v
  <1>2. InStep(t, u) /\ u.phase = "merge"
    BY <1>1, KeptInOrder DEF KeptBy
  <1>3. Ordered(u)
    BY <1>2 DEF InStep
  <1>4. InStep(u, v)
    BY <1>1, <1>2, <1>3, RemovedInOrder, InsertedInOrder, WentOnInOrder
  <1>5. InStep(t, v)
    BY <1>2, <1>4, InStepTransitive
  <1> QED BY <1>5 DEF v

----------------------------------------------------------------------------
(* What a query has.                                                       *)

\* Some number is the smallest of a set.
LEMMA SmallestOf ==
  ASSUME NEW S \in SUBSET Nat, S # {}
  PROVE  \E x \in S : \A y \in S : x <= y
  <1> DEFINE R == OpToRel(<, Nat)
  <1>1. \A x, y \in Nat : x < y => <<x, y>> \in R
    BY DEF OpToRel
  <1>2. IsWellFoundedOn(R, Nat)
    BY NatLessThanWellFounded
  <1> HIDE DEF R
  <1>3. PICK x \in S : \A y \in S : ~ (<<y, x>> \in R)
    BY <1>2, WFMin
  <1>4. ASSUME NEW y \in S PROVE x <= y
    <2>1. x \in Nat /\ y \in Nat /\ ~(y < x)
      BY <1>1, <1>3
    <2> QED BY <2>1
  <1> QED BY <1>4

\* Rows of which no two are the same with other data.
OneEach(A) == \A x, y \in A : Identity(x) = Identity(y) => x = y

\* One of them comes first.
LEMMA FirstOf ==
  ASSUME NEW A \in SUBSET Row, A # {}, OneEach(A)
  PROVE  \E x \in A : \A y \in A \ {x} : Precedes(x, y)
  <1> DEFINE ords == {y.ord : y \in A}
  <1>1. \A y \in A : y \in Row /\ y.ord \in Nat /\ y.id \in Nat
    BY RowTyped
  <1>2. PICK o \in ords : \A p \in ords : o <= p
    <2>1. ords \in SUBSET Nat /\ ords # {}
      BY <1>1
    <2> HIDE DEF ords
    <2> QED BY <2>1, SmallestOf
  <1> DEFINE ids == {y.id : y \in {z \in A : z.ord = o}}
  <1>3. PICK i \in ids : \A k \in ids : i <= k
    <2>1. ids \in SUBSET Nat
      BY <1>1
    <2>2. ids # {}
      BY <1>2
    <2> HIDE DEF ids, ords
    <2> QED BY <2>1, <2>2, SmallestOf
  <1>4. PICK x \in A : x.ord = o /\ x.id = i
    BY <1>3
  <1>5. ASSUME NEW y \in A \ {x} PROVE Precedes(x, y)
    <2>1. ~Precedes(y, x)
      <3> DEFINE yo == y.ord
                 yi == y.id
      <3>1. yo \in Nat /\ yi \in Nat /\ o \in Nat /\ i \in Nat
        BY <1>1, <1>2, <1>4
      <3>2. yo \in ords
        BY <1>5
      <3>3. o <= yo
        BY <1>2, <3>2
      <3>4. yo = o => i <= yi
        BY <1>3, <1>5
      <3>5. Precedes(y, x) <=> yo < o \/ (yo = o /\ yi < i)
        BY <1>4 DEF Precedes
      <3> HIDE DEF yo, yi, ords, ids
      <3> QED BY <3>1, <3>3, <3>4, <3>5
    <2>2. x # y /\ x \in Row /\ y \in Row
      BY <1>1, <1>5
    <2>3. Identity(x) # Identity(y)
      BY <1>5, <2>2 DEF OneEach
    <2> QED BY <2>1, <2>2, <2>3, PrecedesOrders
  <1> QED BY <1>5

\* q lists the rows A in order.
Lists(q, A) ==
  /\ q \in [1..Cardinality(A) -> A]
  /\ \A i, j \in 1..Cardinality(A) : i < j => Precedes(q[i], q[j])

\* If all but the first can be listed all can.
LEMMA ListsOneMore ==
  ASSUME NEW A \in SUBSET Row, IsFiniteSet(A), NEW x \in A,
         \A y \in A \ {x} : Precedes(x, y),
         NEW q, Lists(q, A \ {x})
  PROVE  \E r : Lists(r, A)
  <1> DEFINE n == Cardinality(A)
             B == A \ {x}
             r == [i \in 1..n |-> IF i = 1 THEN x ELSE q[i - 1]]
  <1>1. n \in Nat /\ Cardinality(B) = n - 1
    BY FS_CardinalityType, FS_RemoveElement
  <1>2. n - 1 \in Nat
    <2>1. Cardinality(B) \in Nat
      BY FS_RemoveElement, FS_CardinalityType
    <2> QED BY <1>1, <2>1
  <1>3. /\ q \in [1..(n - 1) -> B]
        /\ \A i, j \in 1..(n - 1) : i < j => Precedes(q[i], q[j])
    BY <1>1 DEF Lists
  <1> HIDE DEF n
  <1>4. ASSUME NEW i \in 1..n PROVE r[i] = IF i = 1 THEN x ELSE q[i - 1]
    OBVIOUS
  <1>5. ASSUME NEW i \in 1..n, i # 1 PROVE i - 1 \in 1..(n - 1) /\ q[i - 1] \in B
    <2>1. i - 1 \in 1..(n - 1)
      BY <1>1, <1>5
    <2> QED BY <1>3, <2>1
  <1>6. r \in [1..n -> A]
    BY <1>4, <1>5
  <1>7. ASSUME NEW i \in 1..n, NEW j \in 1..n, i < j PROVE Precedes(r[i], r[j])
    <2>1. j # 1 /\ r[j] = q[j - 1] /\ q[j - 1] \in B /\ j - 1 \in 1..(n - 1)
      <3>1. j # 1
        BY <1>7
      <3> HIDE DEF r
      <3> QED BY <1>4, <1>5, <3>1
    <2>2. CASE i = 1
      BY <1>4, <2>1, <2>2
    <2>3. CASE i # 1
      <3>1. r[i] = q[i - 1] /\ i - 1 \in 1..(n - 1) /\ i - 1 < j - 1
        <4>1. i - 1 < j - 1
          BY <1>7
        <4> HIDE DEF r
        <4> QED BY <1>4, <1>5, <2>3, <4>1
      <3> HIDE DEF r
      <3> QED BY <1>3, <2>1, <3>1
    <2> QED BY <2>2, <2>3
  <1> HIDE DEF r
  <1>8. Lists(r, A)
    BY <1>6, <1>7 DEF Lists, n
  <1> QED BY <1>8

\* All finite sets of rows can be listed.
LEMMA CanBeListed ==
  ASSUME NEW A \in SUBSET Row, IsFiniteSet(A), OneEach(A)
  PROVE  \E q : Lists(q, A)
  <1> DEFINE Unlisted(B) ==
               /\ B \in SUBSET Row /\ IsFiniteSet(B) /\ OneEach(B)
               /\ \A q : ~Lists(q, B)
             Sizes == {n \in Nat : \E B : Unlisted(B) /\ Cardinality(B) = n}
  <1>1. SUFFICES ASSUME Unlisted(A) PROVE FALSE
    OBVIOUS
  <1>2. Sizes \in SUBSET Nat /\ Sizes # {}
    <2>1. Cardinality(A) \in Nat
      BY FS_CardinalityType
    <2>2. Cardinality(A) \in Sizes
      BY <1>1, <2>1
    <2> QED BY <2>2
  <1>3. PICK n \in Sizes : \A k \in Sizes : n <= k
    <2> HIDE DEF Sizes
    <2> QED BY <1>2, SmallestOf
  <1>4. PICK B : Unlisted(B) /\ Cardinality(B) = n
    BY <1>3
  <1>5. CASE B = {}
    <2> DEFINE none == [i \in 1..Cardinality(B) |-> i]
    <2>1. Cardinality(B) = 0
      BY <1>5, FS_EmptySet
    <2>2. 1..Cardinality(B) = {}
      BY <2>1
    <2>3. none \in [1..Cardinality(B) -> B]
      BY <2>2
    <2> HIDE DEF none
    <2>4. Lists(none, B)
      BY <2>2, <2>3 DEF Lists
    <2> QED BY <1>4, <2>4
  <1>6. CASE B # {}
    <2>1. PICK x \in B : \A y \in B \ {x} : Precedes(x, y)
      BY <1>4, <1>6, FirstOf
    <2> DEFINE C == B \ {x}
    <2>2. /\ C \in SUBSET Row /\ IsFiniteSet(C) /\ Cardinality(C) = n - 1
          /\ Cardinality(C) \in Nat
      BY <1>4, <2>1, FS_RemoveElement, FS_CardinalityType
    <2>3. OneEach(C)
      BY <1>4 DEF OneEach
    <2>4. \A q : ~Lists(q, C)
      BY <1>4, <2>1, ListsOneMore
    <2>5. n - 1 \in Sizes
      <3>1. Unlisted(C)
        BY <2>2, <2>3, <2>4
      <3> QED BY <2>2, <3>1
    <2>6. n \in Nat /\ n <= n - 1
      BY <1>3, <2>5
    <2> QED BY <2>6
  <1> QED BY <1>5, <1>6

\* A list has all of them.
LEMMA ListHasAll ==
  ASSUME NEW A \in SUBSET Row, IsFiniteSet(A), NEW q, Lists(q, A)
  PROVE  /\ q \in Seq(Row) /\ Sorted(q) /\ Len(q) = Cardinality(A)
         /\ \A i \in 1..Len(q) : q[i] \in A
         /\ \A x \in A : \E i \in 1..Len(q) : q[i] = x
  <1> DEFINE n == Cardinality(A)
  <1>1. n \in Nat
    BY FS_CardinalityType
  <1>2. /\ q \in [1..n -> A]
        /\ \A i, j \in 1..n : i < j => Precedes(q[i], q[j])
    BY DEF Lists
  <1>3. \A i \in 1..n : q[i] \in A /\ q[i] \in Row
    BY <1>2
  <1>4. q \in [1..n -> Row]
    BY <1>2
  <1> HIDE DEF n
  <1>5. q \in Seq(Row) /\ Len(q) = n
    <2>1. q \in Seq(Row)
      BY <1>1, <1>4, SeqDef
    <2>2. DOMAIN q = 1..Len(q) /\ Len(q) \in Nat
      BY <2>1, LenProperties
    <2>3. DOMAIN q = 1..n
      BY <1>4
    <2> DEFINE l == Len(q)
    <2>4. 1..l = 1..n /\ l \in Nat
      BY <2>2, <2>3
    <2> HIDE DEF l
    <2>5. ~(l < n)
      <3>1. ASSUME l < n PROVE n \in 1..n /\ n \notin 1..l
        BY <1>1, <2>4, <3>1
      <3> QED BY <2>4, <3>1
    <2>6. ~(n < l)
      <3>1. ASSUME n < l PROVE l \in 1..l /\ l \notin 1..n
        BY <1>1, <2>4, <3>1
      <3> QED BY <2>4, <3>1
    <2>7. l = n
      BY <1>1, <2>4, <2>5, <2>6
    <2> QED BY <2>1, <2>7 DEF l
  <1>6. q \in Injection(1..n, A)
    <2>1. ASSUME NEW i \in 1..n, NEW j \in 1..n, q[i] = q[j] PROVE i = j
      <3>1. ~(i < j) /\ ~(j < i)
        BY <1>2, <1>3, <2>1, PrecedesOrders
      <3> QED BY <3>1
    <2> QED BY <1>2, <2>1, Fun_IsInj
  <1>7. q \in Surjection(1..n, A)
    <2>1. IsFiniteSet(1..n) /\ Cardinality(1..n) = IF 1 > n THEN 0 ELSE n - 1 + 1
      BY <1>1, FS_Interval
    <2>2. Cardinality(1..n) = n
      BY <1>1, <2>1
    <2>3. Cardinality(1..n) = Cardinality(A) <=> q \in Surjection(1..n, A)
      BY <1>6, FS_Injection
    <2> QED BY <2>2, <2>3 DEF n
  <1>8. \A x \in A : \E i \in 1..n : q[i] = x
    BY <1>7 DEF Surjection
  <1> QED BY <1>2, <1>3, <1>5, <1>8 DEF Sorted, n

\* What a query about some resources has, of each what the database has.
Found(content, s) ==
  IF content[s] = Absent THEN {}
  ELSE {[ord |-> content[s].ord, id |-> s, data |-> content[s].data]}

LEMMA AnswerIs ==
  ASSUME NEW content \in [Subject -> Content \cup {Absent}], NEW about \in SUBSET Subject
  PROVE  /\ Answer(content, about) \in Seq(Row)
         /\ Sorted(Answer(content, about)) /\ Distinct(Answer(content, about))
         /\ \A i \in 1..Len(Answer(content, about)) :
              Answer(content, about)[i].id \in about
         /\ \A s \in about : RowsAbout(Answer(content, about), s) = Found(content, s)
  <1> DEFINE q == Answer(content, about)
             there == {x \in about : content[x] # Absent}
             Of(s) == [ord |-> content[s].ord, id |-> s, data |-> content[s].data]
             A == {Of(s) : s \in there}
  <1>1. ASSUME NEW s \in there PROVE content[s] \in Content /\ Of(s) \in Row /\ Of(s).id = s
    <2>1. content[s] \in Content /\ s \in Subject
      OBVIOUS
    <2> QED BY <2>1 DEF Row
  <1>2. A \in SUBSET Row
    BY <1>1
  <1>3. IsFiniteSet(A)
    <2>1. IsFiniteSet(there)
      <3>1. there \in SUBSET Subject
        OBVIOUS
      <3> QED BY <3>1, LiveAssumption, FS_Subset DEF LiveAssumption
    <2> DEFINE f == [s \in there |-> Of(s)]
    <2>2. f \in [there -> A] /\ \A x \in A : \E s \in there : f[s] = x
      OBVIOUS
    <2>3. f \in Surjection(there, A)
      <3> HIDE DEF f, A, there
      <3> QED BY <2>2, Fun_IsSurj
    <2> HIDE DEF f, A, there
    <2> QED BY <2>1, <2>3, FS_Surjection
  <1>4. ASSUME NEW x \in A, NEW y \in A, x.id = y.id PROVE x = y
    <2>1. PICK s \in there : x = Of(s)
      OBVIOUS
    <2>2. PICK t \in there : y = Of(t)
      OBVIOUS
    <2>3. s = t
      BY <1>1, <1>4, <2>1, <2>2
    <2> QED BY <2>1, <2>2, <2>3
  <1>5. OneEach(A)
    BY <1>4 DEF OneEach, Identity
  <1>6. q = CHOOSE p \in [1..Cardinality(A) -> A] :
              \A i, j \in 1..Cardinality(A) : i < j => Precedes(p[i], p[j])
    BY DEF Answer
  <1>7. Lists(q, A)
    <2> HIDE DEF q, A
    <2>1. PICK p : Lists(p, A)
      BY <1>2, <1>3, <1>5, CanBeListed
    <2>2. /\ p \in [1..Cardinality(A) -> A]
          /\ \A i, j \in 1..Cardinality(A) : i < j => Precedes(p[i], p[j])
      BY <2>1 DEF Lists
    <2>3. /\ q \in [1..Cardinality(A) -> A]
          /\ \A i, j \in 1..Cardinality(A) : i < j => Precedes(q[i], q[j])
      BY <1>6, <2>2
    <2> QED BY <2>3 DEF Lists
  <1>8. /\ q \in Seq(Row) /\ Sorted(q)
        /\ \A i \in 1..Len(q) : q[i] \in A
        /\ \A x \in A : \E i \in 1..Len(q) : q[i] = x
    <2> HIDE DEF q, A
    <2> QED BY <1>2, <1>3, <1>7, ListHasAll
  <1>9. \A i \in 1..Len(q) : q[i].id \in about
    <2>1. \A x \in A : x.id \in about
      BY <1>1
    <2> HIDE DEF q, A
    <2> QED BY <1>8, <2>1
  <1>10. Distinct(q)
    <2>1. ASSUME NEW i \in 1..Len(q), NEW j \in 1..Len(q), i < j PROVE q[i].id # q[j].id
      <3> HIDE DEF q, A
      <3>1. q[i] \in Row /\ q[j] \in Row /\ Precedes(q[i], q[j])
        BY <1>2, <1>8, <2>1 DEF Sorted
      <3>2. q[i] # q[j]
        BY <3>1, PrecedesOrders
      <3> QED BY <1>4, <1>8, <3>2
    <2> HIDE DEF q
    <2> QED BY <2>1 DEF Distinct
  <1>11. ASSUME NEW s \in about PROVE RowsAbout(q, s) = Found(content, s)
    <2>1. ASSUME NEW x \in RowsAbout(q, s) PROVE x \in Found(content, s)
      <3>1. x \in A /\ x.id = s
        <4> HIDE DEF q, A
        <4> QED BY <1>8, <2>1 DEF RowsAbout
      <3>2. PICK z \in there : x = Of(z)
        BY <3>1
      <3>3. z = s
        BY <1>1, <3>1, <3>2
      <3> QED BY <3>2, <3>3 DEF Found
    <2>2. ASSUME NEW x \in Found(content, s) PROVE x \in RowsAbout(q, s)
      <3>1. s \in there /\ x = Of(s)
        BY <2>2 DEF Found
      <3>2. x \in A /\ x.id = s
        BY <3>1
      <3> HIDE DEF q, A
      <3>3. PICK i \in 1..Len(q) : q[i] = x
        BY <1>8, <3>2
      <3> QED BY <3>2, <3>3 DEF RowsAbout
    <2> HIDE DEF q
    <2> QED BY <2>1, <2>2
  <1> HIDE DEF q
  <1>12. /\ q \in Seq(Row) /\ Sorted(q) /\ Distinct(q)
         /\ \A i \in 1..Len(q) : q[i].id \in about
         /\ \A s \in about : RowsAbout(q, s) = Found(content, s)
    BY <1>8, <1>9, <1>10, <1>11
  <1> QED BY <1>12 DEF q

----------------------------------------------------------------------------
(* The beginning and the end of an update.                                 *)

LEMMA SettledIs ==
  ASSUME NEW q \in Seq(Row)
  PROVE  /\ Within(Settled(q, q))
         /\ Sorted(q) /\ Distinct(q) => Ordered(Settled(q, q))
         /\ \A s : Showing(Settled(q, q), s) = RowsAbout(q, s)
  <1> DEFINE u == Settled(q, q)
             n == Len(q)
  <1>1. /\ u \in Transition /\ u.phase = "none" /\ u.source = <<>>
        /\ u.removed = 0 /\ u.inserted = 0 /\ u.t_i = 1 /\ u.s_i = 1
        /\ u.rows = q /\ u.view = q
    BY DEF Transition, Settled
  <1> HIDE DEF u
  <1>2. n = Len(u.rows) /\ 0 = Len(u.source) /\ u.phase # "rows" /\ n \in Nat
    BY <1>1, LenProperties
  <1> HIDE DEF n
  <1>3. 1 + 0 <= n + 1 /\ 1 + 0 <= 0 + 1
    BY <1>2
  <1>4. Within(u)
    BY <1>1, <1>2, <1>3, FieldsWithin
  <1>5. Sorted(q) /\ Distinct(q) => Ordered(u)
    BY <1>1 DEF Ordered, Merging
  <1>6. \A s : Showing(u, s) = RowsAbout(q, s)
    BY <1>1 DEF Showing, Merging
  <1> QED BY <1>4, <1>5, <1>6 DEF u

LEMMA UpdateBegins ==
  ASSUME NEW t, Within(t), t.phase = "none",
         NEW source \in Seq(Row), NEW keys \in SUBSET Subject
  PROVE  /\ Within(update(t.rows, t.view, source, keys))
         /\ /\ Ordered(t) /\ Sorted(source) /\ Distinct(source)
            /\ \A j \in 1..Len(source) : source[j].id \in keys
            => Ordered(update(t.rows, t.view, source, keys))
         /\ \A s : Showing(update(t.rows, t.view, source, keys), s) =
                     IF s \in keys THEN RowsAbout(source, s) ELSE Showing(t, s)
  <1> DEFINE q == t.rows
             u == update(t.rows, t.view, source, keys)
             n == Len(q)
             m == Len(source)
  <1>1. q \in Seq(Row) /\ t.view = q /\ n \in Nat
    BY WithinTyped
  <1>2. /\ u \in Transition /\ u.phase = "rows" /\ u.source = source /\ u.keys = keys
        /\ u.removed = 0 /\ u.inserted = 0 /\ u.t_i = 1 /\ u.s_i = 1
        /\ u.rows = q /\ u.view = q
    BY <1>1 DEF Transition, Settled, update
  <1>3. \A s : Showing(t, s) = RowsAbout(q, s)
    BY DEF Showing, Merging
  <1>4. Ordered(t) => Sorted(q) /\ Distinct(q)
    BY DEF Ordered
  <1> HIDE DEF u, q
  <1>5. n = Len(u.rows) /\ m = Len(u.source) /\ m \in Nat
    BY <1>2, LenProperties
  <1>6. Within(u)
    <2> HIDE DEF n, m
    <2>1. 1 + 0 <= n + 1 /\ 1 + 0 <= m + 1
      BY <1>1, <1>5
    <2> QED BY <1>2, <1>5, <2>1, FieldsWithin
  <1>7. ASSUME Ordered(t), Sorted(source), Distinct(source),
               \A j \in 1..Len(source) : source[j].id \in keys
        PROVE  Ordered(u)
    <2>1. Sorted(q) /\ \A i, j \in 1..Len(q) : i < j => q[i].id # q[j].id
      BY <1>4, <1>7 DEF Distinct
    <2>2. /\ \A i \in 1..Len(q) : ~(i < 1)
          /\ \A j \in 1..Len(source) : ~(j < 1)
      BY <1>1, <1>5
    <2>3. MergeOrder(q, source, keys, 1, 1)
      BY <1>7, <2>1, <2>2 DEF MergeOrder
    <2> QED BY <1>2, <2>3 DEF Ordered
  <1>8. \A s : Showing(u, s) = IF s \in keys THEN RowsAbout(source, s) ELSE Showing(t, s)
    BY <1>2, <1>3 DEF Showing, Merging
  <1> QED BY <1>6, <1>7, <1>8 DEF u

----------------------------------------------------------------------------
(* An update comes to an end, and to which.                                *)

\* Two lists of the same rows in order are the same.
SameRows(q, r) ==
  /\ \A i \in 1..Len(q) : \E j \in 1..Len(r) : r[j] = q[i]
  /\ \A j \in 1..Len(r) : \E i \in 1..Len(q) : q[i] = r[j]

LEMMA Begins ==
  ASSUME NEW q \in Seq(Row), NEW r \in Seq(Row), Sorted(q), Sorted(r), SameRows(q, r),
         NEW n \in 1..Len(q)
  PROVE  n <= Len(r) /\ q[n] = r[n]
  <1> DEFINE a == Len(q)
             b == Len(r)
             S == {i \in 1..a : ~(i <= b /\ q[i] = r[i])}
  <1>1. a \in Nat /\ b \in Nat
    BY LenProperties
  <1>2. /\ \A i \in 1..a : q[i] \in Row
        /\ \A j \in 1..b : r[j] \in Row
    BY ElementOfSeq
  <1>3. SUFFICES ASSUME S # {} PROVE FALSE
    OBVIOUS
  <1>4. PICK i \in S : \A k \in S : i <= k
    <2>1. S \in SUBSET Nat
      BY <1>1
    <2> HIDE DEF S
    <2> QED BY <1>3, <2>1, SmallestOf
  <1>5. i \in 1..a /\ i \in Nat
    BY <1>1, <1>4
  <1>6. ASSUME NEW k \in 1..a, k < i PROVE k <= b /\ q[k] = r[k] /\ k \in 1..b
    <2>1. k \notin S
      BY <1>1, <1>4, <1>5, <1>6
    <2> QED BY <1>1, <2>1
  <1>7. PICK j \in 1..b : r[j] = q[i]
    BY <1>5 DEF SameRows
  <1>8. j > i
    <2>1. ~(j < i)
      <3>1. ASSUME j < i PROVE FALSE
        <4>1. j \in 1..a
          BY <1>1, <1>5, <3>1
        <4>2. q[j] = q[i]
          BY <1>6, <1>7, <3>1, <4>1
        <4>3. Precedes(q[j], q[i])
          BY <1>5, <3>1, <4>1 DEF Sorted
        <4> QED BY <1>2, <1>5, <4>1, <4>2, <4>3, PrecedesOrders
      <3> QED BY <3>1
    <2>2. j # i
      BY <1>1, <1>4, <1>7
    <2> QED BY <1>1, <1>5, <1>7, <2>1, <2>2
  <1>9. i \in 1..b /\ Precedes(r[i], q[i])
    <2>1. i \in 1..b
      BY <1>1, <1>5, <1>7, <1>8
    <2>2. Precedes(r[i], r[j])
      BY <1>7, <1>8, <2>1 DEF Sorted
    <2> QED BY <1>7, <2>1, <2>2
  <1>10. PICK k \in 1..a : q[k] = r[i]
    BY <1>9 DEF SameRows
  <1>11. ~(i < k) /\ i # k
    <2>1. i < k => Precedes(q[i], q[k])
      BY <1>5, <1>10 DEF Sorted
    <2>2. ~Precedes(q[i], r[i]) /\ q[i] # r[i]
      BY <1>2, <1>5, <1>9, PrecedesOrders
    <2> QED BY <1>10, <2>1, <2>2
  <1>12. k < i
    BY <1>1, <1>5, <1>10, <1>11
  <1>13. r[k] = r[i] /\ k \in 1..b
    BY <1>6, <1>10, <1>12
  <1>14. Precedes(r[k], r[i])
    BY <1>9, <1>12, <1>13 DEF Sorted
  <1> QED BY <1>2, <1>9, <1>13, <1>14, PrecedesOrders

LEMMA SameInOrder ==
  ASSUME NEW q \in Seq(Row), NEW r \in Seq(Row), Sorted(q), Sorted(r), SameRows(q, r)
  PROVE  q = r
  <1> DEFINE a == Len(q)
             b == Len(r)
  <1>1. a \in Nat /\ b \in Nat
    BY LenProperties
  <1>2. SameRows(r, q)
    BY DEF SameRows
  <1>3. ASSUME NEW n \in 1..a PROVE n <= b /\ q[n] = r[n]
    BY <1>3, Begins
  <1>4. ASSUME NEW n \in 1..b PROVE n <= a
    BY <1>2, <1>4, Begins
  <1>5. a = b
    <2> HIDE DEF a, b
    <2>1. ~(b < a)
      <3>1. ASSUME b < a PROVE a \in 1..a
        BY <1>1, <3>1
      <3> QED BY <1>1, <1>3, <3>1
    <2>2. ~(a < b)
      <3>1. ASSUME a < b PROVE b \in 1..b
        BY <1>1, <3>1
      <3> QED BY <1>1, <1>4, <3>1
    <2> QED BY <1>1, <2>1, <2>2
  <1> QED BY <1>3, <1>5, SeqEqual

\* What is shown of each resource is what a database has.
ShowsAll(t, content) == \A s \in Subject : Showing(t, s) = Found(content, s)

\* Rows in order that have of each resource what the database has are the rows of
\* a query.
LEMMA RowsAreAnswer ==
  ASSUME NEW content \in [Subject -> Content \cup {Absent}],
         NEW q \in Seq(Row), Sorted(q),
         \A s \in Subject : RowsAbout(q, s) = Found(content, s)
  PROVE  q = Answer(content, Subject)
  <1> DEFINE r == Answer(content, Subject)
  <1>1. /\ r \in Seq(Row) /\ Sorted(r)
        /\ \A s \in Subject : RowsAbout(r, s) = Found(content, s)
    BY AnswerIs
  <1> HIDE DEF r
  <1>2. \A s \in Subject : RowsAbout(q, s) = RowsAbout(r, s)
    BY <1>1
  <1>3. ASSUME NEW p \in Seq(Row), NEW o \in Seq(Row),
               \A s \in Subject : RowsAbout(p, s) = RowsAbout(o, s), NEW i \in 1..Len(p)
        PROVE  \E j \in 1..Len(o) : o[j] = p[i]
    <2>1. p[i] \in Row
      BY ElementOfSeq
    <2>2. p[i].id \in Subject
      BY <2>1, RowTyped
    <2>3. p[i] \in RowsAbout(p, p[i].id)
      BY DEF RowsAbout
    <2>4. p[i] \in RowsAbout(o, p[i].id)
      BY <1>3, <2>2, <2>3
    <2> QED BY <2>4 DEF RowsAbout
  <1>4. SameRows(q, r)
    BY <1>1, <1>2, <1>3 DEF SameRows
  <1>5. q = r
    BY <1>1, <1>4, SameInOrder
  <1> QED BY <1>5 DEF r

\* Of an update that is over, in order, the rows are those of a query of what is
\* shown.
LEMMA EndIsAnswer ==
  ASSUME NEW t, Within(t), Ordered(t), t.phase = "none",
         NEW content \in [Subject -> Content \cup {Absent}], ShowsAll(t, content)
  PROVE  t.rows = Answer(content, Subject)
  <1>1. t.rows \in Seq(Row)
    BY WithinTyped
  <1>2. Sorted(t.rows)
    BY DEF Ordered
  <1>3. \A s \in Subject : RowsAbout(t.rows, s) = Found(content, s)
    BY DEF ShowsAll, Showing, Merging
  <1> QED BY <1>1, <1>2, <1>3, RowsAreAnswer

\* The model has come to a row that the source has come to as well.
AtMatch(t) ==
  /\ t.t_i <= Len(t.rows) /\ t.s_i <= Len(t.source)
  /\ Identity(t.rows[t.t_i]) = Identity(t.source[t.s_i])

\* What is left to be merged, and a step in between.
Left(t) == (Len(t.rows) + 1 - t.t_i) + (Len(t.source) + 1 - t.s_i)
Weight(t) == IF t.phase = "merge" THEN 1 ELSE IF AtMatch(t) THEN 0 ELSE 2
Measure(t) == 3 * Left(t) + Weight(t)

LEMMA MeasureIs ==
  ASSUME NEW t, Within(t)
  PROVE  Left(t) \in Nat /\ Weight(t) \in 0..2 /\ Measure(t) \in Nat
  <1> DEFINE n == Len(t.rows)
             a == t.t_i
             m == Len(t.source)
             b == t.s_i
  <1>1. /\ n \in Nat /\ a \in Nat /\ m \in Nat /\ b \in Nat
        /\ a \in 1..(n + 1 - t.removed) /\ t.removed \in Nat
        /\ b \in 1..(m + 1 - t.inserted) /\ t.inserted \in Nat
    BY WithinTyped DEF Within
  <1> DEFINE x == t.removed
             y == t.inserted
  <1>2. a \in 1..(n + 1 - x) /\ x \in Nat /\ b \in 1..(m + 1 - y) /\ y \in Nat
    BY <1>1
  <1> HIDE DEF n, a, m, b, x, y
  <1>3. (n + 1 - a) + (m + 1 - b) \in Nat
    BY <1>1, <1>2
  <1>4. Left(t) \in Nat
    BY <1>3 DEF Left, n, a, m, b
  <1>5. Weight(t) \in 0..2
    BY DEF Weight
  <1> QED BY <1>4, <1>5 DEF Measure

\* After what is equal is passed the next rows are not.
LEMMA PassEqualEnds ==
  ASSUME NEW t, Within(t), t.phase = "rows", AtMatch(PassEqual(t))
  PROVE  OtherData(PassEqual(t)) > 0
  <1> DEFINE u == PassEqual(t)
             q == t.rows
             source == t.source
             a == t.t_i
             b == t.s_i
             most == Pairs(t)
             equal == {i \in 0..(most - 1) : q[a + i] = source[b + i]}
             c == Run(most, equal)
  <1>1. /\ q \in Seq(Row) /\ source \in Seq(Row) /\ t \in Transition
        /\ a \in Nat /\ b \in Nat /\ Len(q) \in Nat /\ Len(source) \in Nat
        /\ t.removed = 0 /\ t.inserted = 0
    BY WithinTyped DEF Within
  <1>2. a <= Len(q) + 1 /\ b <= Len(source) + 1
    BY <1>1 DEF Within
  <1>3. most = IF Len(q) + 1 - a < Len(source) + 1 - b THEN Len(q) + 1 - a
               ELSE Len(source) + 1 - b
    BY DEF Pairs
  <1>4. u = [t EXCEPT !.t_i = a + c, !.s_i = b + c]
    BY DEF PassEqual
  <1> HIDE DEF u, q, source, a, b, most, c
  <1>5. most \in Nat
    BY <1>1, <1>2, <1>3
  <1>6. /\ c \in 0..most
        /\ c < most => c \notin equal
    BY <1>5, RunOf DEF c
  <1>7. /\ u.rows = q /\ u.source = source /\ u.t_i = a + c /\ u.s_i = b + c
    BY <1>1, <1>4 DEF Transition, q, source
  <1>8. /\ a + c <= Len(q) /\ b + c <= Len(source)
        /\ Identity(q[a + c]) = Identity(source[b + c])
    BY <1>7 DEF AtMatch, u
  <1> DEFINE n == Len(q)
             m == Len(source)
  <1>9. c < most /\ c \in 0..(most - 1)
    <2>1. n \in Nat /\ m \in Nat /\ a + c <= n /\ b + c <= m
      BY <1>1, <1>8
    <2>2. most = IF n + 1 - a < m + 1 - b THEN n + 1 - a ELSE m + 1 - b
      BY <1>3
    <2>3. c \in 0..most
      BY <1>6
    <2> HIDE DEF n, m
    <2>4. c < most
      BY <1>1, <1>5, <2>1, <2>2, <2>3
    <2> QED BY <1>5, <2>3, <2>4
  <1>10. q[a + c] # source[b + c]
    BY <1>6, <1>9
  <1> DEFINE left == Pairs(u)
             other == {i \in 0..(left - 1) :
                         /\ Identity(q[a + c + i]) = Identity(source[b + c + i])
                         /\ q[a + c + i] # source[b + c + i]}
  <1>11. left \in Nat /\ left > 0
    <2>1. left = IF n + 1 - (a + c) < m + 1 - (b + c) THEN n + 1 - (a + c)
                 ELSE m + 1 - (b + c)
      BY <1>7 DEF Pairs
    <2>2. n \in Nat /\ m \in Nat /\ a \in Nat /\ b \in Nat /\ a + c <= n /\ b + c <= m
          /\ c \in Nat
      BY <1>1, <1>6, <1>8
    <2> HIDE DEF n, m, left
    <2> QED BY <2>1, <2>2
  <1>12. OtherData(u) = Run(left, other)
    <2>1. \A i : (a + c) + i = a + c + i /\ (b + c) + i = b + c + i
      OBVIOUS
    <2> QED BY <1>7 DEF OtherData
  <1>13. 0 \in other
    <2>1. /\ 0 \in 0..(left - 1) /\ a + c + 0 = a + c /\ b + c + 0 = b + c
      <3>1. a + c \in Nat /\ b + c \in Nat
        BY <1>1, <1>6
      <3> HIDE DEF left
      <3> QED BY <1>11, <3>1
    <2> HIDE DEF left
    <2> QED BY <1>8, <1>10, <2>1
  <1> HIDE DEF left, other
  <1>14. Run(left, other) # 0 /\ Run(left, other) \in Nat
    BY <1>11, <1>13, RunOf
  <1> QED BY <1>12, <1>14 DEF u

\* Each step of the row by row part lowers the measure.
LEMMA AdvanceLowers ==
  ASSUME NEW t, Within(t), t.phase = "rows"
  PROVE  Measure(Advance(t)) < Measure(t)
  <1> DEFINE u == PassEqual(t)
             v == Advance(t)
  <1>1. /\ Within(v) /\ Within(u)
        /\ \E c \in Nat : AdvancedBy(t, u, c)
        /\ \/ \E c \in Nat : c > 0 /\ AdvancedBy(u, v, c)
           \/ MatchedBy(u, v) /\ ~(OtherData(u) > 0)
    BY AdvanceSteps
  <1>2. AtMatch(u) => OtherData(u) > 0
    BY PassEqualEnds
  <1> HIDE DEF u, v
  <1>3. PICK c \in Nat : AdvancedBy(t, u, c)
    BY <1>1
  <1> DEFINE n == Len(t.rows)
             m == Len(t.source)
             a == t.t_i
             b == t.s_i
  <1>4. n \in Nat /\ m \in Nat /\ a \in Nat /\ b \in Nat
    BY WithinTyped
  <1>5. /\ Len(u.rows) = n /\ Len(u.source) = m /\ u.t_i = a + c /\ u.s_i = b + c
        /\ u.phase = "rows"
    BY <1>3 DEF AdvancedBy, Overwritten
  <1>6. /\ Left(t) = (n + 1 - a) + (m + 1 - b)
        /\ Left(u) = (n + 1 - (a + c)) + (m + 1 - (b + c))
    BY <1>5 DEF Left
  <1>7. /\ Left(t) \in Nat /\ Weight(t) \in 0..2
        /\ Left(v) \in Nat /\ Weight(v) \in 0..2
    BY <1>1, MeasureIs
  <1>8. CASE \E k \in Nat : k > 0 /\ AdvancedBy(u, v, k)
    <2>1. PICK k \in Nat : k > 0 /\ AdvancedBy(u, v, k)
      BY <1>8
    <2>2. /\ Len(v.rows) = n /\ Len(v.source) = m
          /\ v.t_i = (a + c) + k /\ v.s_i = (b + c) + k
      BY <1>5, <2>1 DEF AdvancedBy, Overwritten
    <2>3. Left(v) = (n + 1 - ((a + c) + k)) + (m + 1 - ((b + c) + k))
      BY <2>2 DEF Left
    <2> HIDE DEF n, m, a, b
    <2>4. Left(v) <= Left(t) - 2
      BY <1>4, <1>6, <2>1, <2>3
    <2> DEFINE lt == Left(t)
               wt == Weight(t)
               lv == Left(v)
               wv == Weight(v)
    <2>5. lt \in Nat /\ wt \in 0..2 /\ lv \in Nat /\ wv \in 0..2 /\ lv <= lt - 2
      BY <1>7, <2>4
    <2> HIDE DEF lt, wt, lv, wv
    <2>6. 3 * lv + wv < 3 * lt + wt
      BY <2>5
    <2> QED BY <2>6 DEF Measure, v, lt, wt, lv, wv
  <1>9. CASE MatchedBy(u, v) /\ ~(OtherData(u) > 0)
    <2>1. /\ Len(v.rows) = n /\ Len(v.source) = m /\ v.t_i = a + c /\ v.s_i = b + c
          /\ v.phase = "merge"
      BY <1>5, <1>9 DEF MatchedBy
    <2>2. Left(v) = (n + 1 - (a + c)) + (m + 1 - (b + c)) /\ Weight(v) = 1
      BY <2>1 DEF Left, Weight
    <2>3. c = 0 => Weight(t) = 2
      <3>1. ASSUME c = 0, AtMatch(t) PROVE AtMatch(u)
        <4>1. u.t_i = a /\ u.s_i = b /\ u.source = t.source
          BY <1>3, <1>4, <1>5, <3>1 DEF AdvancedBy
        <4>2. a \in 1..n
          <5>1. 1 <= a /\ a <= n
            BY <3>1, WithinTyped DEF AtMatch
          <5> HIDE DEF a, n
          <5> QED BY <1>4, <5>1
        <4>3. u.rows[a] = t.rows[a]
          <5>1. u.rows[a] = IF a <= a /\ a < a + c THEN t.source[b + (a - a)] ELSE t.rows[a]
            BY <1>3, <4>2 DEF AdvancedBy, Overwritten
          <5>2. ~(a < a + c)
            BY <1>4, <3>1
          <5> QED BY <5>1, <5>2
        <4> QED BY <1>5, <3>1, <4>1, <4>3 DEF AtMatch
      <3>2. ~AtMatch(u)
        BY <1>2, <1>9
      <3> QED BY <3>1, <3>2 DEF Weight
    <2> HIDE DEF n, m, a, b
    <2>4. Left(v) = Left(t) - 2 * c
      BY <1>4, <1>6, <2>2
    <2> DEFINE lt == Left(t)
               wt == Weight(t)
               lv == Left(v)
    <2>5. lt \in Nat /\ wt \in 0..2 /\ lv \in Nat /\ lv = lt - 2 * c /\ (c = 0 => wt = 2)
      BY <1>7, <2>3, <2>4
    <2> HIDE DEF lt, wt, lv
    <2>6. 3 * lv + 1 < 3 * lt + wt
      BY <2>5
    <2> QED BY <2>2, <2>6 DEF Measure, v, lt, wt, lv
  <1> QED BY <1>1, <1>8, <1>9

\* Each step of the loop lowers it, or the update is over.
LEMMA MergeLowers ==
  ASSUME NEW t, Within(t), t.phase = "merge", Ordered(t), NEW rank, Ranked(rank),
         Merging(Merge(t, rank))
  PROVE  Measure(Merge(t, rank)) < Measure(t)
  <1> DEFINE u == PassKept(t, rank)
             v == Merge(t, rank)
  <1>1. /\ Within(v) /\ Within(u)
        /\ \E c \in Nat : KeptBy(t, u, c, rank)
        /\ \/ \E c \in Nat : c > 0 /\ RemovedBy(u, v, c)
           \/ \E c \in Nat : c > 0 /\ InsertedBy(u, v, c, rank)
           \/ WentOn(u, v, rank)
    BY MergeSteps
  <1>2. v.phase = "rows" \/ v.phase = "merge"
    BY DEF Merging
  <1> HIDE DEF u, v
  <1>3. PICK c \in Nat : KeptBy(t, u, c, rank)
    BY <1>1
  <1> DEFINE n == Len(t.rows)
             m == Len(t.source)
             a == t.t_i
             b == t.s_i
             lt == Left(t)
             lv == Left(v)
             wv == Weight(v)
  <1>4. n \in Nat /\ m \in Nat /\ a \in Nat /\ b \in Nat
    BY WithinTyped
  <1>5. /\ Len(u.rows) = n /\ Len(u.source) = m /\ u.t_i = a + c /\ u.s_i = b
        /\ u.phase = "merge"
    BY <1>3 DEF KeptBy
  <1>6. lt = (n + 1 - a) + (m + 1 - b)
    BY DEF Left
  <1>7. lt \in Nat /\ lv \in Nat /\ wv \in 0..2 /\ Weight(t) = 1
    BY <1>1, MeasureIs DEF Weight
  <1>8. CASE \E k \in Nat : k > 0 /\ RemovedBy(u, v, k)
    <2>1. PICK k \in Nat : k > 0 /\ RemovedBy(u, v, k)
      BY <1>8
    <2>2. /\ Len(v.rows) = n - k /\ Len(v.source) = m /\ v.t_i = a + c /\ v.s_i = b
          /\ v.phase = "merge"
      BY <1>5, <2>1 DEF RemovedBy, RowsRemoved
    <2>3. lv = ((n - k) + 1 - (a + c)) + (m + 1 - b) /\ wv = 1
      BY <2>2 DEF Left, Weight
    <2> HIDE DEF n, m, a, b, lt, lv, wv
    <2>4. 3 * lv + wv < 3 * lt + 1
      BY <1>4, <1>6, <2>1, <2>3
    <2> QED BY <1>7, <2>4 DEF Measure, v, lt, lv, wv
  <1>9. CASE \E k \in Nat : k > 0 /\ InsertedBy(u, v, k, rank)
    <2>1. PICK k \in Nat : k > 0 /\ InsertedBy(u, v, k, rank)
      BY <1>9
    <2>2. /\ Len(v.rows) = n + k /\ Len(v.source) = m /\ v.t_i = (a + c) + k /\ v.s_i = b + k
          /\ v.phase = "merge"
      BY <1>5, <2>1 DEF InsertedBy, RowsInserted
    <2>3. lv = ((n + k) + 1 - ((a + c) + k)) + (m + 1 - (b + k)) /\ wv = 1
      BY <2>2 DEF Left, Weight
    <2> HIDE DEF n, m, a, b, lt, lv, wv
    <2>4. 3 * lv + wv < 3 * lt + 1
      BY <1>4, <1>6, <2>1, <2>3
    <2> QED BY <1>7, <2>4 DEF Measure, v, lt, lv, wv
  <1>10. CASE WentOn(u, v, rank)
    <2>2. u \in Transition
      BY <1>1 DEF Within
    <2>1. /\ u.removed = 0 /\ u.inserted = 0 /\ u.t_i <= Len(u.rows)
          /\ v = [u EXCEPT !.phase = "rows"]
      <3>1. v # Settled(u.rows, u.view)
        BY <1>2 DEF Settled
      <3>2. v # [u EXCEPT !.phase = "hangs"]
        BY <1>2, <2>2 DEF Transition
      <3> QED BY <1>10, <3>1, <3>2 DEF WentOn
    <2>3. /\ v.phase = "rows" /\ v.rows = u.rows /\ v.source = u.source
          /\ v.t_i = u.t_i /\ v.s_i = u.s_i
      BY <2>1, <2>2 DEF Transition
    <2>4. Ordered(u)
      BY <1>3, KeptInOrder DEF InStep
    <2>5. Match(u.rows, u.source, u.t_i, u.s_i)
      <3>1. Match(u.rows, u.source, u.t_i + u.removed, u.s_i + u.inserted)
        BY <1>5, <2>4 DEF Ordered
      <3>2. u.t_i + u.removed = u.t_i /\ u.s_i + u.inserted = u.s_i
        <4>1. u.t_i \in Nat /\ u.s_i \in Nat
          BY <1>1, WithinTyped
        <4> QED BY <2>1, <4>1
      <3> QED BY <3>1, <3>2
    <2>6. AtMatch(v)
      <3>1. u.t_i # Len(u.rows) + 1
        <4>1. u.t_i \in Nat /\ Len(u.rows) \in Nat
          BY <1>1, WithinTyped
        <4> QED BY <2>1, <4>1
      <3> QED BY <2>3, <2>5, <3>1 DEF Match, AtMatch
    <2>7. lv = (n + 1 - (a + c)) + (m + 1 - b) /\ wv = 0
      BY <1>5, <2>3, <2>6 DEF Left, Weight
    <2> HIDE DEF n, m, a, b, lt, lv, wv
    <2>8. 3 * lv + wv < 3 * lt + 1
      BY <1>4, <1>6, <2>7
    <2> QED BY <1>7, <2>8 DEF Measure, v, lt, lv, wv
  <1> QED BY <1>1, <1>8, <1>9, <1>10

\* Ranks that rise with the ordering values compare rows as the database does.
LEMMA RisingRanks ==
  ASSUME NEW rank \in [Orders -> Nat], \A a, b \in Orders : a < b => rank[a] < rank[b]
  PROVE  Ranked(rank)
  <1> SUFFICES ASSUME NEW x \in Row, NEW y \in Row
               PROVE  Above(x, y, rank) <=> Precedes(y, x)
    BY DEF Ranked
  <1> DEFINE xo == x.ord
             xi == x.id
             yo == y.ord
             yi == y.id
             xt == rank[xo]
             yt == rank[yo]
  <1>1. /\ xo \in Orders /\ xo \in Nat /\ xi \in Nat
        /\ yo \in Orders /\ yo \in Nat /\ yi \in Nat
    BY RowTyped
  <1>2. xt \in Nat /\ yt \in Nat
    BY <1>1
  <1>3. (xo < yo => xt < yt) /\ (yo < xo => yt < xt) /\ (xo = yo => xt = yt)
    BY <1>1
  <1>4. /\ Above(x, y, rank) <=> (xt > yt \/ (xt = yt /\ xi > yi))
        /\ Precedes(y, x) <=> (yo < xo \/ (yo = xo /\ yi < xi))
    BY DEF Above, Precedes
  <1> HIDE DEF xo, xi, yo, yi, xt, yt
  <1> QED BY <1>1, <1>2, <1>3, <1>4

\* A step of an update, if it is not over.
StepOf(t, rank) ==
  CASE t.phase = "rows" -> Advance(t)
    [] t.phase = "merge" -> Merge(t, rank)
    [] ~Merging(t) -> t

\* An update that goes towards the rows of some database.
GoesTo(t, content) ==
  /\ Within(t) /\ Ordered(t) /\ ShowsAll(t, content)
  /\ ~Merging(t) => t = Settled(t.rows, t.rows)

LEMMA StepGoesOn ==
  ASSUME NEW content, NEW t, GoesTo(t, content), NEW rank, Ranked(rank)
  PROVE  /\ GoesTo(StepOf(t, rank), content)
         /\ Merging(t) /\ Merging(StepOf(t, rank)) =>
              Measure(StepOf(t, rank)) < Measure(t)
  <1> DEFINE v == StepOf(t, rank)
  <1>1. Within(t) /\ Ordered(t) /\ ShowsAll(t, content)
    BY DEF GoesTo
  <1>2. CASE t.phase = "rows"
    <2>1. v = Advance(t)
      BY <1>2 DEF StepOf, Merging
    <2> HIDE DEF v
    <2>2. Within(v) /\ InStep(t, v)
      BY <1>1, <1>2, <2>1, AdvanceSteps, AdvanceInOrder
    <2>3. Merging(v)
      <3>1. /\ \E c \in Nat : AdvancedBy(t, PassEqual(t), c)
            /\ \/ \E c \in Nat : AdvancedBy(PassEqual(t), v, c)
               \/ MatchedBy(PassEqual(t), v)
        BY <1>1, <1>2, <2>1, AdvanceSteps
      <3>2. PassEqual(t).phase = "rows"
        BY <1>2, <3>1 DEF AdvancedBy
      <3>3. v.phase = "rows" \/ v.phase = "merge"
        BY <3>1, <3>2 DEF AdvancedBy, MatchedBy
      <3> QED BY <3>3 DEF Merging
    <2>4. GoesTo(v, content)
      BY <1>1, <2>2, <2>3 DEF GoesTo, InStep, ShowsAll
    <2>5. Measure(v) < Measure(t)
      BY <1>1, <1>2, <2>1, AdvanceLowers
    <2> QED BY <2>4, <2>5 DEF v
  <1>3. CASE t.phase = "merge"
    <2>1. v = Merge(t, rank)
      BY <1>3 DEF StepOf, Merging
    <2> HIDE DEF v
    <2>2. Within(v) /\ InStep(t, v)
      BY <1>1, <1>3, <2>1, MergeSteps, MergeInOrder
    <2>3. ASSUME ~Merging(v) PROVE v = Settled(v.rows, v.rows)
      <3> DEFINE u == PassKept(t, rank)
      <3>1. /\ Within(u)
            /\ \E c \in Nat : KeptBy(t, u, c, rank)
            /\ \/ \E c \in Nat : RemovedBy(u, v, c)
               \/ \E c \in Nat : InsertedBy(u, v, c, rank)
               \/ WentOn(u, v, rank)
        BY <1>1, <1>3, <2>1, MergeSteps
      <3> HIDE DEF u
      <3>2. u.phase = "merge" /\ u \in Transition /\ u.view = u.rows
        BY <1>3, <3>1 DEF KeptBy, Within
      <3>3. v.phase # "merge" /\ v.phase # "rows" /\ v.phase # "hangs"
        BY <2>2, <2>3 DEF Merging, InStep, Ordered
      <3>4. WentOn(u, v, rank)
        BY <3>1, <3>2, <3>3 DEF RemovedBy, InsertedBy
      <3>5. v # [u EXCEPT !.phase = "hangs"] /\ v # [u EXCEPT !.phase = "rows"]
        BY <3>2, <3>3 DEF Transition
      <3>6. v = Settled(u.rows, u.rows)
        BY <3>2, <3>4, <3>5 DEF WentOn
      <3> QED BY <3>6 DEF Settled
    <2>4. GoesTo(v, content)
      BY <1>1, <2>2, <2>3 DEF GoesTo, InStep, ShowsAll
    <2>5. Merging(v) => Measure(v) < Measure(t)
      BY <1>1, <1>3, <2>1, MergeLowers
    <2> QED BY <2>4, <2>5 DEF v
  <1>4. CASE ~Merging(t)
    <2>1. v = t
      BY <1>4 DEF StepOf, Merging
    <2> QED BY <1>4, <2>1
  <1> QED BY <1>2, <1>3, <1>4 DEF Merging

\* It arrives there.
LEMMA Arrives ==
  ASSUME NEW content \in [Subject -> Content \cup {Absent}], NEW rank, Ranked(rank), NEW f,
         GoesTo(f[0], content), \A n \in Nat : f[n + 1] = StepOf(f[n], rank)
  PROVE  \E n \in Nat :
           f[n] = Settled(Answer(content, Subject), Answer(content, Subject))
  <1>1. \A n \in Nat : GoesTo(f[n], content)
    <2> DEFINE S == {n \in Nat : ~GoesTo(f[n], content)}
    <2>1. SUFFICES ASSUME S # {} PROVE FALSE
      OBVIOUS
    <2>2. PICK n \in S : \A k \in S : n <= k
      <3>1. S \in SUBSET Nat
        OBVIOUS
      <3> HIDE DEF S
      <3> QED BY <2>1, <3>1, SmallestOf
    <2>3. n \in Nat /\ n # 0
      OBVIOUS
    <2>4. PICK k \in Nat : n = k + 1
      <3>1. n - 1 \in Nat /\ n = (n - 1) + 1
        BY <2>3
      <3> QED BY <3>1
    <2>5. GoesTo(f[k], content)
      <3>1. ~(n <= k)
        BY <2>4
      <3>2. k \notin S
        BY <2>2, <3>1
      <3> QED BY <3>2
    <2>6. GoesTo(f[n], content)
      BY <2>4, <2>5, StepGoesOn
    <2> QED BY <2>6
  <1>2. \E n \in Nat : ~Merging(f[n])
    <2> DEFINE S == {Measure(f[n]) : n \in Nat}
    <2>1. SUFFICES ASSUME \A n \in Nat : Merging(f[n]) PROVE FALSE
      OBVIOUS
    <2>2. \A n \in Nat : Measure(f[n]) \in Nat
      BY <1>1, MeasureIs DEF GoesTo
    <2>3. PICK x \in S : \A y \in S : x <= y
      <3>1. S \in SUBSET Nat
        BY <2>2
      <3>2. S # {}
        OBVIOUS
      <3> HIDE DEF S
      <3> QED BY <3>1, <3>2, SmallestOf
    <2>4. PICK n \in Nat : x = Measure(f[n])
      BY <2>3
    <2>5. n + 1 \in Nat
      OBVIOUS
    <2>6. Measure(f[n + 1]) < Measure(f[n])
      <3>1. f[n + 1] = StepOf(f[n], rank) /\ Merging(f[n]) /\ Merging(f[n + 1])
        BY <2>1, <2>5
      <3> QED BY <1>1, <3>1, StepGoesOn
    <2>7. x <= Measure(f[n + 1])
      BY <2>3, <2>5
    <2> DEFINE y == Measure(f[n + 1])
    <2>8. x \in Nat /\ y \in Nat /\ y < x /\ x <= y
      BY <2>2, <2>4, <2>5, <2>6, <2>7
    <2> HIDE DEF y
    <2> QED BY <2>8
  <1>3. PICK n \in Nat : ~Merging(f[n])
    BY <1>2
  <1> DEFINE t == f[n]
  <1>4. /\ Within(t) /\ Ordered(t) /\ ShowsAll(t, content)
        /\ t = Settled(t.rows, t.rows)
    BY <1>1, <1>3 DEF GoesTo
  <1> HIDE DEF t
  <1>5. t.phase = "none"
    BY <1>4 DEF Settled
  <1>6. t.rows = Answer(content, Subject)
    BY <1>4, <1>5, EndIsAnswer
  <1>7. t = Settled(Answer(content, Subject), Answer(content, Subject))
    BY <1>4, <1>6
  <1> QED BY <1>7 DEF t

\* What a database has once some of it is replaced.
Replaced(old, new, keys) == [s \in Subject |-> IF s \in keys THEN new[s] ELSE old[s]]

\* Whatever rows a model has and whatever update it merges into them: when texts
\* compare as the database does, update comes to its end, and then the model, and a
\* view that follows its signals, has the rows that a query would have: of the
\* resources the update is about those of the update, of others those it had.
THEOREM UpdateMergesAll ==
  ASSUME NEW old \in [Subject -> Content \cup {Absent}],
         NEW new \in [Subject -> Content \cup {Absent}],
         NEW keys \in SUBSET Subject,
         NEW rank \in [Orders -> Nat], \A a, b \in Orders : a < b => rank[a] < rank[b],
         NEW f,
         f[0] = update(Answer(old, Subject), Answer(old, Subject), Answer(new, keys), keys),
         \A n \in Nat : f[n + 1] = StepOf(f[n], rank)
  PROVE  \E n \in Nat :
           f[n] = Settled(Answer(Replaced(old, new, keys), Subject),
                          Answer(Replaced(old, new, keys), Subject))
  <1> DEFINE q == Answer(old, Subject)
             source == Answer(new, keys)
             content == Replaced(old, new, keys)
             t == Settled(q, q)
             u == update(q, q, source, keys)
  <1>1. /\ q \in Seq(Row) /\ Sorted(q) /\ Distinct(q)
        /\ \A s \in Subject : RowsAbout(q, s) = Found(old, s)
    BY AnswerIs
  <1>2. /\ source \in Seq(Row) /\ Sorted(source) /\ Distinct(source)
        /\ \A i \in 1..Len(source) : source[i].id \in keys
        /\ \A s \in keys : RowsAbout(source, s) = Found(new, s)
    BY AnswerIs
  <1>3. content \in [Subject -> Content \cup {Absent}]
    BY DEF Replaced
  <1>4. \A s \in Subject : Found(content, s) = IF s \in keys THEN Found(new, s)
                                               ELSE Found(old, s)
    BY DEF Found, Replaced
  <1> HIDE DEF q, source, content
  <1>5. Within(t) /\ Ordered(t) /\ \A s : Showing(t, s) = RowsAbout(q, s)
    BY <1>1, SettledIs
  <1>6. t.phase = "none" /\ t.rows = q /\ t.view = q
    BY DEF Settled
  <1> HIDE DEF t
  <1>7. /\ Within(u) /\ Ordered(u)
        /\ \A s : Showing(u, s) = IF s \in keys THEN RowsAbout(source, s) ELSE Showing(t, s)
    <2>1. /\ Within(update(t.rows, t.view, source, keys))
          /\ Ordered(update(t.rows, t.view, source, keys))
          /\ \A s : Showing(update(t.rows, t.view, source, keys), s) =
                      IF s \in keys THEN RowsAbout(source, s) ELSE Showing(t, s)
      <3>1. /\ Ordered(t) /\ Sorted(source) /\ Distinct(source)
            /\ \A j \in 1..Len(source) : source[j].id \in keys
        BY <1>2, <1>5
      <3>2. Within(t) /\ t.phase = "none" /\ source \in Seq(Row)
        BY <1>2, <1>5, <1>6
      <3> QED BY <3>1, <3>2, UpdateBegins
    <2> QED BY <1>6, <2>1
  <1>8. ShowsAll(u, content)
    <2>1. ASSUME NEW s \in Subject PROVE Showing(u, s) = Found(content, s)
      <3>1. CASE s \in keys
        BY <1>2, <1>4, <1>7, <3>1
      <3>2. CASE s \notin keys
        BY <1>1, <1>4, <1>5, <1>7, <3>2
      <3> QED BY <3>1, <3>2
    <2> QED BY <2>1 DEF ShowsAll
  <1>9. Merging(u)
    BY DEF update, Settled, Merging
  <1>10. f[0] = u
    BY DEF q, source
  <1> HIDE DEF u
  <1>11. GoesTo(f[0], content)
    BY <1>7, <1>8, <1>9, <1>10 DEF GoesTo
  <1>12. Ranked(rank)
    BY RisingRanks
  <1>13. \E n \in Nat : f[n] = Settled(Answer(content, Subject), Answer(content, Subject))
    BY <1>3, <1>11, <1>12, Arrives
  <1> QED BY <1>13 DEF content

=============================================================================
