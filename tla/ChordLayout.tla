---------------------------- MODULE ChordLayout ----------------------------
(***************************************************************************)
(* The chord layout engine customChordLayout of                            *)
(* src/webapp/app/js/utils/d3.layout.chord.sort.js as an object: a        *)
(* configuration (matrix, padding and three optional comparators) and two  *)
(* caches (groups, chords).  Each setter is an action; a getter whose      *)
(* cache is empty runs relayout() (module ChordRelayout).                  *)
(***************************************************************************)
EXTENDS ChordRelayout

CONSTANTS
    Matrices,        \* matrices the caller may pass to chord.matrix(x)
    Paddings,        \* values the caller may pass to chord.padding(x)
    GroupSorts,      \* comparators for chord.sortGroups(x)
    SubgroupSorts,   \* comparators for chord.sortSubgroups(x)
    ChordSorts,      \* comparators for chord.sortChords(x)
    Self             \* the layout object, returned by every setter

ASSUME Paddings \subseteq Nat
ASSUME \A s \in GroupSorts \cup SubgroupSorts \cup ChordSorts :
          s \in Comparators \cup {Null}

VARIABLES
    matrix, padding, sortGroups, sortSubgroups, sortChords,
    chords,          \* cached chord list, or Null
    groups,          \* cached group array, or Null
    result           \* what the last call returned (Self for a setter)

vars == <<matrix, padding, sortGroups, sortSubgroups, sortChords,
          chords, groups, result>>

Layout == Relayout(matrix, padding, sortGroups, sortSubgroups, sortChords)

(***************************************************************************)
(* The engine as created by customChordLayout().                          *)
(***************************************************************************)
Init ==
    /\ matrix = Null
    /\ padding = 0
    /\ sortGroups = Null
    /\ sortSubgroups = Null
    /\ sortChords = Null
    /\ chords = Null
    /\ groups = Null
    /\ result = Null

\* Mutant of SetMatrix: the group cache is not dropped.
SetMatrixKeepGroups(x) ==
    /\ matrix' = x
    /\ chords' = Null
    /\ result' = Self
    /\ UNCHANGED <<padding, sortGroups, sortSubgroups, sortChords, groups>>

\* chord.matrix(x)
SetMatrix(x) ==
    /\ matrix' = x
    /\ chords' = Null
    /\ groups' = Null
    /\ result' = Self
    /\ UNCHANGED <<padding, sortGroups, sortSubgroups, sortChords>>

\* chord.padding(x)
SetPadding(x) ==
    /\ padding' = x
    /\ chords' = Null
    /\ groups' = Null
    /\ result' = Self
    /\ UNCHANGED <<matrix, sortGroups, sortSubgroups, sortChords>>

\* Mutant of SetSortGroups: like sortSubgroups, it drops only the chords.
SetSortGroupsKeepGroups(x) ==
    /\ sortGroups' = x
    /\ chords' = Null
    /\ result' = Self
    /\ UNCHANGED <<matrix, padding, sortSubgroups, sortChords, groups>>

\* chord.sortGroups(x)
SetSortGroups(x) ==
    /\ sortGroups' = x
    /\ chords' = Null
    /\ groups' = Null
    /\ result' = Self
    /\ UNCHANGED <<matrix, padding, sortSubgroups, sortChords>>

\* chord.sortSubgroups(x): only the chord cache is dropped
SetSortSubgroups(x) ==
    /\ sortSubgroups' = x
    /\ chords' = Null
    /\ result' = Self
    /\ UNCHANGED <<matrix, padding, sortGroups, sortChords, groups>>

\* chord.sortChords(x): a cached chord list is resorted in place.  With
\* x = null, resort() calls null as a function: it throws a TypeError as
\* soon as the sort compares two chords, after sortChords was assigned.
SetSortChords(x) ==
    /\ sortChords' = x
    /\ chords' = IF chords # Null /\ x # Null THEN ResortChords(chords, x)
                 ELSE chords
    /\ result' = Self
    /\ UNCHANGED <<matrix, padding, sortGroups, sortSubgroups, groups>>

\* chord.chords() and chord.groups(): relayout() on an empty cache, then
\* return the cached value
GetChords ==
    /\ IF chords = Null THEN chords' = Layout.chords /\ groups' = Layout.groups
       ELSE UNCHANGED <<chords, groups>>
    /\ result' = chords'
    /\ UNCHANGED <<matrix, padding, sortGroups, sortSubgroups, sortChords>>

GetGroups ==
    /\ IF groups = Null THEN chords' = Layout.chords /\ groups' = Layout.groups
       ELSE UNCHANGED <<chords, groups>>
    /\ result' = groups'
    /\ UNCHANGED <<matrix, padding, sortGroups, sortSubgroups, sortChords>>

Next ==
    \/ \E x \in Matrices : SetMatrix(x)
    \/ \E x \in Paddings : SetPadding(x)
    \/ \E x \in GroupSorts : SetSortGroups(x)
    \/ \E x \in SubgroupSorts : SetSortSubgroups(x)
    \/ \E x \in ChordSorts : SetSortChords(x)
    \/ GetChords
    \/ GetGroups

Spec == Init /\ [][Next]_vars

(***************************************************************************)
(* Properties                                                              *)
(***************************************************************************)
SubRec   == [index : Nat, subindex : Nat, startAngle : Int \cup {NaN},
             endAngle : Int \cup {NaN}, value : Nat]
GroupRec == [index : Nat, startAngle : Int \cup {NaN},
             endAngle : Int \cup {NaN}, value : Int \cup {NaN}]

TypeOK ==
    /\ matrix \in Matrices \cup {Null}
    /\ padding \in Paddings \cup {0}
    /\ sortGroups \in GroupSorts \cup {Null}
    /\ sortSubgroups \in SubgroupSorts \cup {Null}
    /\ sortChords \in ChordSorts \cup {Null}
    /\ chords = Null \/ chords \in Seq([source : SubRec, target : SubRec])
    /\ groups = Null \/ groups \in [Idx(matrix) -> GroupRec]
    /\ result \in {Null, Self, chords, groups}

\* The caches never go stale: whatever sequence of setters and getters the
\* caller makes, a cached groups or chords value equals what relayout()
\* would compute from the current configuration.  This is what the uneven
\* invalidation of the setters (sortSubgroups drops only chords,
\* sortChords resorts in place) has to get right.
CacheCoherent ==
    /\ groups # Null => groups = Layout.groups
    /\ chords # Null => chords = Layout.chords

\* Spec 8.1 and 8.4 of relayout()'s sweep: each group's value is its row
\* total and its arc is proportional to it; the groups follow each other
\* in the (stable) order of sortGroups on the row totals, each followed by
\* one padding; arcs plus paddings make up exactly the full circle.
GroupsTileCircle ==
    groups # Null /\ Total(matrix) > 0 =>
      LET T   == Total(matrix)
          P   == padding * T
          D   == Idx(matrix)
          Sum(d) == RowSum(matrix, d)
          Before(a, b) ==
            IF sortGroups = Null THEN a < b
            ELSE \/ Compare(sortGroups, Sum(a), Sum(b)) < 0
                 \/ Compare(sortGroups, Sum(a), Sum(b)) = 0 /\ a < b
      IN  /\ \A d \in D :
                /\ groups[d].value = Sum(d)
                /\ groups[d].endAngle - groups[d].startAngle
                      = Sum(d) * ScaledK(matrix, padding)
                /\ groups[d].startAngle >= 0
                /\ groups[d].endAngle + P <= Circle * T
          /\ \A a, b \in D : Before(a, b) =>
                groups[a].endAngle + P <= groups[b].startAngle
          /\ SumFunctionOnSet([d \in D |-> groups[d].endAngle - groups[d].startAngle], D)
               + Size(matrix) * P = Circle * T

\* Spec 8.2 of relayout()'s chord loop: exactly one chord per unordered
\* pair with a nonzero weight in either direction and none for other
\* pairs; a chord joins the subgroups (i,j) and (j,i), the heavier one as
\* source; each subgroup arc lies inside its group's arc; the list is in
\* sortChords order of the mean value.
ChordsMatchPairs ==
    chords # Null =>
      LET D      == Idx(matrix)
          Pairs  == {{p[1], p[2]} : p \in {p \in D \X D :
                        matrix[p[1]][p[2]] + matrix[p[2]][p[1]] > 0}}
          Mean(c) == c.source.value + c.target.value
          Inside(s) == /\ groups[s.index].startAngle <= s.startAngle
                       /\ s.startAngle <= s.endAngle
                       /\ s.endAngle <= groups[s.index].endAngle
      IN  /\ {{chords[q].source.index, chords[q].target.index} : q \in 1..Len(chords)} = Pairs
          /\ Len(chords) = Cardinality(Pairs)
          /\ \A q \in 1..Len(chords) :
                LET c == chords[q] IN
                /\ c.source.subindex = c.target.index
                /\ c.target.subindex = c.source.index
                /\ c.source.value = matrix[c.source.index][c.target.index]
                /\ c.source.value >= c.target.value
                /\ Total(matrix) > 0 => Inside(c.source) /\ Inside(c.target)
          /\ sortChords # Null =>
                \A q \in 1..(Len(chords) - 1) :
                   Compare(sortChords, Mean(chords[q]), Mean(chords[q + 1])) <= 0

=============================================================================
