--------------------------- MODULE ChordRelayout ---------------------------
(***************************************************************************)
(* relayout() of customChordLayout                                         *)
(* (src/webapp/app/js/utils/d3.layout.chord.sort.js) as pure operators:   *)
(* from a matrix, a padding and three optional comparators to the group    *)
(* array and the chord list.                                               *)
(*                                                                         *)
(* Numbers.  The full circle 2*PI is the integer Circle and a padding is   *)
(* an integer in the same unit.  relayout() scales weights by              *)
(* k = (Circle - padding * n) / total; every angle is kept multiplied by   *)
(* total, so it is the exact integer                                       *)
(*      sweptWeight * (Circle - padding * n) + paddings * padding * total  *)
(* A zero total makes k infinite and every swept angle NaN, as in JS.      *)
(* Floating-point rounding is not modelled.                                *)
(***************************************************************************)
EXTENDS Integers, Sequences, SequencesExt, Functions, FiniteSets

CONSTANTS
    Circle,          \* 2 * PI in angle units
    Null,            \* undefined / null (no comparator, no matrix)
    NaN              \* the JS value NaN

ASSUME Circle \in Nat \ {0}

Comparators == {"ascending", "descending"}   \* d3.ascending, d3.descending

(***************************************************************************)
(* Matrices are functions [0..n-1 -> [0..n-1 -> Nat]] (JS arrays).        *)
(* n = (matrix = x) && matrix.length: an undefined matrix has no rows.     *)
(***************************************************************************)
Idx(m)  == IF m = Null THEN {} ELSE DOMAIN m
Size(m) == Cardinality(Idx(m))
\* d3.range(n) and d3.range(n).reverse()
RangeSeq(n)    == [p \in 1..n |-> p - 1]
RevRangeSeq(n) == [p \in 1..n |-> n - p]

RowSum(m, i) == SumFunction(m[i])
Total(m)     == SumFunctionOnSet([i \in Idx(m) |-> RowSum(m, i)], Idx(m))

\* d3.ascending / d3.descending on numbers
Compare(c, a, b) ==
    LET asc == IF a < b THEN -1 ELSE IF a > b THEN 1 ELSE 0
    IN  IF c = "ascending" THEN asc ELSE -asc

\* Array.prototype.sort with comparator c on key(e): a stable sort
\* (ES2019), i.e. insertion of each element after all that do not
\* compare greater than it.
StableSort(s, Key(_), c) ==
    LET Insert(sorted, x) ==
          LET after == {q \in 1..Len(sorted) :
                          Compare(c, Key(sorted[q]), Key(x)) > 0}
              at    == IF after = {} THEN Len(sorted) + 1
                       ELSE CHOOSE q \in after : \A r \in after : q <= r
          IN  InsertAt(sorted, at, x)
    IN  FoldLeft(Insert, <<>>, s)

\* resort(): order chords by the mean of their two values
ResortChords(cs, c) ==
    StableSort(cs, LAMBDA ch : ch.source.value + ch.target.value, c)

\* The chord record built for the subgroup pair (i,j), (j,i)
ChordOf(source, target) ==
    IF source.value < target.value
    THEN [source |-> target, target |-> source]
    ELSE [source |-> source, target |-> target]

\* Loop order of the chord loop: i = 0..n-1, j = i..n-1
PairOrder(n) ==
    FlattenSeq([r \in 1..n |-> [c \in 1..(n - r + 1) |-> <<r - 1, r + c - 2>>]])

\* Mutant of GroupIndex: the comparator is applied to the row indices
\* instead of groupSums[a], groupSums[b].
GroupIndexByIndex(m, sg) ==
    IF sg = Null THEN RangeSeq(Size(m))
    ELSE StableSort(RangeSeq(Size(m)), LAMBDA a : a, sg)

\* relayout(), first loop and sortGroups: the order groups are swept in
GroupIndex(m, sg) ==
    LET sums == [i \in Idx(m) |-> RowSum(m, i)]
    IN  IF sg = Null THEN RangeSeq(Size(m))
        ELSE StableSort(RangeSeq(Size(m)), LAMBDA a : sums[a], sg)

\* relayout(), first loop and sortSubgroups: per row, the order its
\* subgroups are swept in (default: reverse index order)
SubgroupIndex(m, ssg) ==
    [i \in Idx(m) |->
        IF ssg = Null THEN RevRangeSeq(Size(m))
        ELSE StableSort(RevRangeSeq(Size(m)), LAMBDA a : m[i][a], ssg)]

\* k = (doublePI - padding * n) / k, multiplied by the total weight
ScaledK(m, pad) == Circle - pad * Size(m)

\* relayout(), the angular sweep: the cursor x moves over every subgroup
\* of every group, then over the padding.  Returns the subgroup records,
\* keyed <<di, dj>>, and the group records, keyed di.
Sweep(m, pad, gi, si) ==
    LET total      == Total(m)
        Arc(x, v)  == IF x = NaN \/ total = 0 THEN NaN ELSE x + v * ScaledK(m, pad)
        Pad(x)     == IF x = NaN THEN NaN ELSE x + pad * total
        GroupStep(acc, di) ==
          LET SubStep(a, dj) ==
                LET a1 == Arc(a.x, m[di][dj])
                IN  [x   |-> a1,
                     sub |-> (<<di, dj>> :> [index |-> di, subindex |-> dj,
                                             startAngle |-> a.x, endAngle |-> a1,
                                             value |-> m[di][dj]]) @@ a.sub]
              inner == FoldLeft(SubStep, [x |-> acc.x, sub |-> acc.sub], si[di])
              value == IF inner.x = NaN \/ total = 0 THEN NaN
                       ELSE (inner.x - acc.x) \div ScaledK(m, pad)
          IN  [x      |-> Pad(inner.x),
               sub    |-> inner.sub,
               groups |-> (di :> [index |-> di, startAngle |-> acc.x,
                                  endAngle |-> inner.x, value |-> value])
                          @@ acc.groups]
        sweep == FoldLeft(GroupStep, [x |-> 0, sub |-> <<>>, groups |-> <<>>], gi)
    IN  [sub |-> sweep.sub, groups |-> [di \in Idx(m) |-> sweep.groups[di]]]

\* Mutant of ChordList: the inner loop starts at j = i + 1, so a row's
\* weight on itself never yields a chord.
ChordListNoSelf(m, sub) ==
    LET Linked(p) == p[1] # p[2] /\ (sub[p].value # 0 \/ sub[<<p[2], p[1]>>].value # 0)
        ps        == SelectSeq(PairOrder(Size(m)), Linked)
    IN  [q \in 1..Len(ps) |-> ChordOf(sub[ps[q]], sub[<<ps[q][2], ps[q][1]>>])]

\* relayout(), the chord loop: one chord per pair i <= j with a nonzero
\* subgroup value on either side
ChordList(m, sub) ==
    LET Linked(p) == sub[p].value # 0 \/ sub[<<p[2], p[1]>>].value # 0
        ps        == SelectSeq(PairOrder(Size(m)), Linked)
    IN  [q \in 1..Len(ps) |-> ChordOf(sub[ps[q]], sub[<<ps[q][2], ps[q][1]>>])]

\* relayout(): groups and chords of a configuration
Relayout(m, pad, sg, ssg, sc) ==
    LET sw  == Sweep(m, pad, GroupIndex(m, sg), SubgroupIndex(m, ssg))
        raw == ChordList(m, sw.sub)
    IN  [groups |-> sw.groups,
         chords |-> IF sc = Null THEN raw ELSE ResortChords(raw, sc)]

=============================================================================
