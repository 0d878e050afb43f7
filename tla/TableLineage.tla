---------------------------- MODULE TableLineage ----------------------------
(***************************************************************************)
(* The lineage view TableLineageCtrl of                                    *)
(* src/webapp/app/js/controllers/sourceMeta.js (lines 1592-2116).          *)
(*                                                                         *)
(* State: the lineage data (tables, each with its cubes), the chart        *)
(* model built from it (items, cubeCount, matrix), the svg elements in     *)
(* #lineageChart with their click counters, click timers, and the          *)
(* TableService requests in flight.  The browser runs one callback at a    *)
(* time, so every handler is one atomic step; requests complete or fail    *)
(* in any order.  Grid rows, grid filters, tooltips and drawing are left   *)
(* out: they change nothing a later step reads.                            *)
(*                                                                         *)
(* Names: tables and cubes are integers whose order stands for the order   *)
(* of their names.  Matrix weights are scaled by Weight = 5 so that the    *)
(* blank arc emptyPerc = 0.4 of a link is a whole number.                  *)
(***************************************************************************)
EXTENDS Integers, Sequences, SequencesExt, FiniteSets, Bags, BagsExt

CONSTANTS
    Tables,          \* table names
    Cubes,           \* cube names
    Links,           \* lineage on the server: <<table, cube>> pairs
    Circle, Null, NaN,
    LayoutPadding,   \* padding(.02) in Circle units
    MaxPending,      \* bound: requests in flight
    MaxTimers        \* bound: armed click timers

ASSUME Tables \subseteq Nat /\ Cubes \subseteq Nat
ASSUME Links \subseteq Tables \X Cubes
ASSUME MaxPending \in Nat /\ MaxTimers \in Nat

VARIABLES
    selected,        \* tableModel.selectedSrcTable
    lineageData,     \* $scope.lineageData
    items,           \* $scope.lineage.items
    cubeCount,       \* $scope.lineage.config.cubeCount (Null: undefined)
    matrix,          \* $scope.lineage.matrix
    svgs,            \* svg elements of #lineageChart, in document order
    orphans,         \* armed timers of svg elements already removed
    pending,         \* bag of TableService requests in flight
    effect           \* the expansion the last step started (Null: none)

vars == <<selected, lineageData, items, cubeCount, matrix, svgs, orphans,
          pending, effect>>

Weight == 5

CubeItem(c)  == [k |-> "cube", name |-> c]
TableItem(t) == [k |-> "table", name |-> t]
Blank        == [k |-> "blank", name |-> 0]       \* the '' spacer item
Undef        == [k |-> "undefined", name |-> 0]   \* items[i] past the end
Item         == {CubeItem(c) : c \in Cubes} \cup {TableItem(t) : t \in Tables}
                  \cup {Blank}

\* items[i] with a 0-based index
At(s, i) == IF i < Len(s) THEN s[i + 1] ELSE Undef

(***************************************************************************)
(* The server (TableService.lineageTables / lineageCubes).  The order of   *)
(* names in a response is taken to be ascending.                           *)
(***************************************************************************)
TablesOf(c)  == {t \in Tables : <<t, c>> \in Links}
CubesOf(t)   == SetToSortSeq({c \in Cubes : <<t, c>> \in Links}, <)
TableInfo(t) == [name |-> t, cubes |-> CubesOf(t)]

Names(data) == {data[q].name : q \in 1..Len(data)}
Edges(data) == UNION {{<<data[q].name, c>> : c \in Range(data[q].cubes)} : q \in 1..Len(data)}

\* _.sortBy(lineageData, 'name').reverse()
SortByNameDesc(data) == SortSeq(data, LAMBDA a, b : a.name > b.name)

\* Mutant of Uniq: the _.uniq call is left out.
UniqKeepAll(s) == [q \in 1..Len(s) |-> <<q, s[q]>>]

\* _.uniq(cubes, false, name): first occurrences, in order
Uniq(s) == SelectSeq([q \in 1..Len(s) |-> <<q, s[q]>>],
                     LAMBDA e : \A p \in 1..(e[1] - 1) : s[p] # e[2])

(***************************************************************************)
(* transformChartData(orgData): the entity list and the matrix.            *)
(***************************************************************************)
\* Mutant of MatrixCell: the last row puts its blank weight in the last
\* column, as the first blank row does.
MatrixCellLastRowShift(data, cubes, stroke, n, a, b) ==
    LET C == Len(cubes)
        Related(q, c) == c \in Range(data[q].cubes)
    IN  CASE a < C /\ C < b /\ b < n - 1 ->
               IF Related(b - C, cubes[a + 1]) THEN Weight ELSE 0
          [] a = C /\ b = n - 1 -> stroke
          [] C < a /\ a < n - 1 /\ b < C ->
               IF Related(a - C, cubes[b + 1]) THEN Weight ELSE 0
          [] a = n - 1 /\ b = n - 1 -> stroke
          [] OTHER -> 0

\* One cell of the matrix (lines 1717-1771); C cubes, n items in all
MatrixCell(data, cubes, stroke, n, a, b) ==
    LET C == Len(cubes)
        Related(q, c) == c \in Range(data[q].cubes)
    IN  CASE a < C /\ C < b /\ b < n - 1 ->
               IF Related(b - C, cubes[a + 1]) THEN Weight ELSE 0
          [] a = C /\ b = n - 1 -> stroke
          [] C < a /\ a < n - 1 /\ b < C ->
               IF Related(a - C, cubes[b + 1]) THEN Weight ELSE 0
          [] a = n - 1 /\ b = C -> stroke
          [] OTHER -> 0

TransformChartData(data) ==
    LET tables == [q \in 1..Len(data) |-> data[q].name]
        firsts == Uniq(FlattenSeq([p \in 1..Len(data) |-> data[p].cubes]))
        cubes  == [q \in 1..Len(firsts) |-> firsts[q][2]]
        respondents == FoldLeft(LAMBDA acc, e : acc + Len(e.cubes), 0, data)
        \* emptyStroke: 0.4, or Math.round(respondents * 0.4), times Weight
        stroke == IF Len(tables) = 1 /\ Len(cubes) = 1 THEN 2
                  ELSE Weight * ((4 * respondents + 5) \div 10)
        its    == [q \in 1..Len(cubes) |-> CubeItem(cubes[q])] \o <<Blank>>
                    \o [q \in 1..Len(tables) |-> TableItem(tables[q])] \o <<Blank>>
        n      == Len(its)
    IN  [items     |-> its,
         cubeCount |-> Len(cubes),
         matrix    |-> [a \in 0..(n - 1) |-> [b \in 0..(n - 1) |->
                          MatrixCell(data, cubes, stroke, n, a, b)]]]

(***************************************************************************)
(* Requests.  kind "init": initLineage; "tablesByCube": getTablesByCube;   *)
(* "cubesByTable": getCubesByTable(arg, only).                             *)
(***************************************************************************)
Request == [kind : {"init", "tablesByCube", "cubesByTable"},
            arg  : Item \cup {Undef}, only : BOOLEAN]

Send(r) == pending' = BagAdd(pending, r)
Room    == BagCardinality(pending) < MaxPending

\* d3.select('#lineageChart').select('svg').remove(): the first svg goes;
\* its armed timer keeps running.
RemoveFirstSvg ==
    /\ svgs' = IF svgs = <<>> THEN <<>> ELSE Tail(svgs)
    /\ orphans' = IF svgs # <<>> /\ Head(svgs).armed # Null
                  THEN BagAdd(orphans, Head(svgs).armed) ELSE orphans

NewSvg(v) == [items |-> v.items, matrix |-> v.matrix, armed |-> Null]

\* The tail of both response handlers: remove the svg, sort the data by
\* name descending, transformChartData, draw (append a new svg),
\* transformGridData, addGridFilter.
ShowData(data) ==
    LET d == SortByNameDesc(data)
        v == TransformChartData(d)
    IN  /\ lineageData' = d
        /\ items' = v.items
        /\ cubeCount' = v.cubeCount
        /\ matrix' = v.matrix
        /\ svgs' = Append(IF svgs = <<>> THEN <<>> ELSE Tail(svgs), NewSvg(v))
        /\ orphans' = IF svgs # <<>> /\ Head(svgs).armed # Null
                      THEN BagAdd(orphans, Head(svgs).armed) ELSE orphans

(***************************************************************************)
(* Init: no table selected yet, nothing drawn.                             *)
(***************************************************************************)
Init ==
    /\ selected = Null
    /\ lineageData = <<>>
    /\ items = <<>>
    /\ cubeCount = Null
    /\ matrix = <<>>
    /\ svgs = <<>>
    /\ orphans = EmptyBag
    /\ pending = EmptyBag
    /\ effect = Null

\* $watch('tableModel.selectedSrcTable'): a new $scope.lineage, then
\* initLineage(): remove the svg and request the table's cubes.
SelectTable(t) ==
    /\ t # selected
    /\ Room
    /\ selected' = t
    /\ items' = <<>>
    /\ matrix' = <<>>
    /\ cubeCount' = Null
    /\ RemoveFirstSvg
    /\ Send([kind |-> "init", arg |-> TableItem(t), only |-> FALSE])
    /\ UNCHANGED <<lineageData>>
    /\ effect' = Null

\* initLineage's callback: the data is the one table; draw appends an svg
\* without removing any.
InitResponse(r) ==
    /\ r.kind = "init"
    /\ pending' = BagRemove(pending, r)
    /\ LET v == TransformChartData(<<TableInfo(r.arg.name)>>)
       IN  /\ lineageData' = <<TableInfo(r.arg.name)>>
           /\ items' = v.items
           /\ cubeCount' = v.cubeCount
           /\ matrix' = v.matrix
           /\ svgs' = Append(svgs, NewSvg(v))
    /\ UNCHANGED <<selected, orphans>>
    /\ effect' = Null

\* Mutant of MergeTables: a listed table already shown is replaced by a
\* record holding only this cube.
MergeTablesReplace(data, c) ==
    LET fresh == SetToSortSeq(TablesOf(c) \ Names(data), <)
    IN  [q \in 1..Len(data) |->
           IF data[q].name \in TablesOf(c)
           THEN [name |-> data[q].name, cubes |-> <<c>>]
           ELSE data[q]]
        \o [q \in 1..Len(fresh) |-> [name |-> fresh[q], cubes |-> <<c>>]]

\* Mutant of MergeTables: the cubeExist check is dropped.
MergeTablesNoCubeCheck(data, c) ==
    LET fresh == SetToSortSeq(TablesOf(c) \ Names(data), <)
    IN  [q \in 1..Len(data) |->
           IF data[q].name \in TablesOf(c)
           THEN [data[q] EXCEPT !.cubes = Append(@, c)]
           ELSE data[q]]
        \o [q \in 1..Len(fresh) |-> [name |-> fresh[q], cubes |-> <<c>>]]

\* getTablesByCube's merge (lines 2015-2036): the cube is added to every
\* listed table that lacks it; a listed table not yet shown is appended
\* with this cube alone.
MergeTables(data, c) ==
    LET fresh == SetToSortSeq(TablesOf(c) \ Names(data), <)
    IN  [q \in 1..Len(data) |->
           IF data[q].name \in TablesOf(c) /\ c \notin Range(data[q].cubes)
           THEN [data[q] EXCEPT !.cubes = Append(@, c)]
           ELSE data[q]]
        \o [q \in 1..Len(fresh) |-> [name |-> fresh[q], cubes |-> <<c>>]]

\* getTablesByCube's callback
TablesByCubeResponse(r) ==
    /\ r.kind = "tablesByCube"
    /\ pending' = BagRemove(pending, r)
    /\ ShowData(MergeTables(lineageData, r.arg.name))
    /\ UNCHANGED selected
    /\ effect' = Null

\* getCubesByTable's callback.  A shown table is replaced by the fresh
\* record; with only, the data becomes that table alone.  A table not
\* shown reaches lineageData.push(talbeInfo): a ReferenceError ends the
\* callback before anything changes.
CubesByTableResponse(r) ==
    /\ r.kind = "cubesByTable"
    /\ r.arg.k = "table"
    /\ pending' = BagRemove(pending, r)
    /\ LET t    == r.arg.name
           info == TableInfo(t)
       IN  IF t \in Names(lineageData)
           THEN ShowData(IF r.only THEN <<info>>
                         ELSE [q \in 1..Len(lineageData) |->
                                 IF lineageData[q].name = t THEN info
                                 ELSE lineageData[q]])
           ELSE UNCHANGED <<lineageData, items, cubeCount, matrix, svgs, orphans>>
    /\ UNCHANGED selected
    /\ effect' = Null

\* A request fails (or asks for '' / undefined): no error callback exists.
RequestFails(r) ==
    /\ pending' = BagRemove(pending, r)
    /\ UNCHANGED <<selected, lineageData, items, cubeCount, matrix, svgs,
                   orphans>>
    /\ effect' = Null

(***************************************************************************)
(* Clicks.  Each draw binds a click handler with its own clicks counter    *)
(* and timer: clicks = 1 exactly while the svg's timer is armed.  A        *)
(* second click on the same group within the 500 ms window is also a       *)
(* dblclick (the browser's default double-click time is 500 ms); the       *)
(* browser dispatches it right after that click.                           *)
(***************************************************************************)
Clickable(sv) == {i \in 0..(Len(sv.items) - 1) : sv.items[i + 1] # Blank}
ArmedCount == BagCardinality(orphans)
                + Cardinality({s \in 1..Len(svgs) : svgs[s].armed # Null})

\* The timer callback (lines 1969-1977): it reads $scope.lineage as it is
\* when it fires, not as it was drawn.
Expanded(i) ==
    IF cubeCount # Null /\ (i < cubeCount \/ i > cubeCount) THEN At(items, i)
    ELSE Null

TimerCallback(tm) ==
    /\ IF cubeCount # Null /\ tm.i < cubeCount
       THEN /\ lineageData' = <<>>
            /\ Send([kind |-> "tablesByCube", arg |-> At(items, tm.i), only |-> FALSE])
       ELSE /\ UNCHANGED lineageData
            /\ IF cubeCount # Null /\ tm.i > cubeCount
               THEN Send([kind |-> "cubesByTable", arg |-> At(items, tm.i), only |-> TRUE])
               ELSE UNCHANGED pending
    /\ effect' = IF Expanded(tm.i) = Null THEN Null
                 ELSE [kind |-> "single", target |-> Expanded(tm.i)]

\* First click on a group of svg s: clicks = 1, arm the timer
ClickArm(s, i) ==
    /\ svgs[s].armed = Null
    /\ ArmedCount < MaxTimers
    /\ svgs' = [svgs EXCEPT ![s].armed = [i |-> i, target |-> svgs[s].items[i + 1]]]
    /\ UNCHANGED <<selected, lineageData, items, cubeCount, matrix, orphans,
                   pending>>
    /\ effect' = Null

\* Second click on another group within the window: clearTimeout, clicks = 0
ClickCancel(s, i) ==
    /\ svgs[s].armed # Null
    /\ svgs[s].armed.i # i
    /\ svgs' = [svgs EXCEPT ![s].armed = Null]
    /\ UNCHANGED <<selected, lineageData, items, cubeCount, matrix, orphans,
                   pending>>
    /\ effect' = Null

\* Second click on the same group: clearTimeout, clicks = 0, then the
\* dblclick handler (lines 1984-1990) on the current $scope.lineage.
ClickDouble(s, i) ==
    /\ svgs[s].armed # Null
    /\ svgs[s].armed.i = i
    /\ Room
    /\ svgs' = [svgs EXCEPT ![s].armed = Null]
    /\ IF cubeCount # Null /\ i < cubeCount
       THEN Send([kind |-> "tablesByCube", arg |-> At(items, i), only |-> FALSE])
       ELSE IF cubeCount # Null /\ i > cubeCount
       THEN Send([kind |-> "cubesByTable", arg |-> At(items, i), only |-> FALSE])
       ELSE UNCHANGED pending
    /\ effect' = IF cubeCount # Null /\ i # cubeCount
                 THEN [kind |-> "double", target |-> At(items, i)] ELSE Null
    /\ UNCHANGED <<selected, lineageData, items, cubeCount, matrix, orphans>>

\* The timer of a shown svg fires: clicks = 0, then the callback
TimerFires(s) ==
    /\ svgs[s].armed # Null
    /\ Room
    /\ svgs' = [svgs EXCEPT ![s].armed = Null]
    /\ TimerCallback(svgs[s].armed)
    /\ UNCHANGED <<selected, items, cubeCount, matrix, orphans>>

\* The timer of a removed svg fires
OrphanTimerFires(tm) ==
    /\ Room
    /\ orphans' = BagRemove(orphans, tm)
    /\ TimerCallback(tm)
    /\ UNCHANGED <<selected, items, cubeCount, matrix, svgs>>

Next ==
    \/ \E t \in Tables : SelectTable(t)
    \/ \E r \in BagToSet(pending) : InitResponse(r)
    \/ \E r \in BagToSet(pending) : TablesByCubeResponse(r)
    \/ \E r \in BagToSet(pending) : CubesByTableResponse(r)
    \/ \E r \in BagToSet(pending) : RequestFails(r)
    \/ \E s \in 1..Len(svgs) : \E i \in Clickable(svgs[s]) : ClickArm(s, i)
    \/ \E s \in 1..Len(svgs) : \E i \in Clickable(svgs[s]) : ClickCancel(s, i)
    \/ \E s \in 1..Len(svgs) : \E i \in Clickable(svgs[s]) : ClickDouble(s, i)
    \/ \E s \in 1..Len(svgs) : TimerFires(s)
    \/ \E tm \in BagToSet(orphans) : OrphanTimerFires(tm)

Spec == Init /\ [][Next]_vars

(***************************************************************************)
(* Properties                                                              *)
(***************************************************************************)
Timer == [i : Nat, target : Item]

TypeOK ==
    /\ selected \in Tables \cup {Null}
    /\ lineageData \in Seq([name : Tables, cubes : Seq(Cubes)])
    /\ items \in Seq(Item)
    /\ cubeCount \in 0..Cardinality(Cubes) \cup {Null}
    /\ \A s \in 1..Len(svgs) : /\ svgs[s].items \in Seq(Item)
                              /\ svgs[s].armed \in Timer \cup {Null}
    /\ IsABag(orphans) /\ BagToSet(orphans) \subseteq Timer
    /\ IsABag(pending) /\ BagToSet(pending) \subseteq Request
    /\ effect \in {Null} \cup [kind : {"single", "double"}, target : Item \cup {Undef}]

\* Spec 8.5: however expansions, focus clicks and late responses
\* interleave, no table is listed twice and no table lists a cube twice,
\* so no edge of the diagram is doubled (getTablesByCube's tableExist and
\* cubeExist checks, getCubesByTable's in-place replacement).
NoDuplicateEdges ==
    /\ \A p, q \in 1..Len(lineageData) :
          p # q => lineageData[p].name # lineageData[q].name
    /\ \A q \in 1..Len(lineageData) : IsInjective(lineageData[q].cubes)

\* The matrix transformChartData hands to the layout: symmetric, a weight
\* only between a cube and a table that the server links, or between the
\* two spacers, and the spacer weight is emptyPerc of the links drawn.
\* The cube rows and the table rows are built by separate loops with
\* separate index arithmetic; this is where they must agree.
MatrixWellFormed ==
    cubeCount # Null =>
      LET n == Len(items)
          C == cubeCount
          D == 0..(n - 1)
          IsCube(a)  == a < C
          IsTable(a) == C < a /\ a < n - 1
          edges == {e \in D \X D : IsCube(e[1]) /\ IsTable(e[2]) /\ matrix[e[1]][e[2]] # 0}
          r     == Cardinality(edges)
      IN  /\ DOMAIN matrix = D
          /\ At(items, C) = Blank /\ At(items, n - 1) = Blank
          /\ \A a, b \in D : matrix[a][b] = matrix[b][a]
          /\ \A a, b \in D : matrix[a][b] # 0 =>
                \/ IsCube(a) /\ IsTable(b)
                \/ IsTable(a) /\ IsCube(b)
                \/ {a, b} = {C, n - 1}
          /\ \A e \in edges : /\ matrix[e[1]][e[2]] = Weight
                              /\ <<items[e[2] + 1].name, items[e[1] + 1].name>> \in Links
          /\ matrix[C][n - 1] = IF n - C - 2 = 1 /\ C = 1 THEN 2
                                ELSE Weight * ((4 * r + 5) \div 10)

\* A double-click expansion (getTablesByCube, or getCubesByTable without
\* only) adds to the diagram and never takes a shown link away, whatever
\* else happened between the request and its response.
ExpansionKeepsShownLinks ==
    [][\A r \in BagToSet(pending) :
         (TablesByCubeResponse(r) \/ (CubesByTableResponse(r) /\ ~r.only))
            => Edges(lineageData) \subseteq Edges(lineageData')]_vars

\* Spec 4.2, 8.6 and 9: the click and dblclick handlers implement the
\* two-state click machine of ClickIntent, whose single- and double-click
\* actions expand the group that was clicked.  A timer armed by a click
\* is pending until it fires or a second click clears it.
Click == INSTANCE ClickIntent
           WITH Clicks <- [i : 0..(Cardinality(Tables) + Cardinality(Cubes) + 1),
                           target : Item],
                None <- Null,
                armed  <- {svgs[s].armed : s \in {s \in 1..Len(svgs) : svgs[s].armed # Null}}
                            \cup BagToSet(orphans)
ImplementsClickIntent == Click!Spec

\* Every mutation is followed by "clear previous rendering" (spec 4.2):
\* #lineageChart never holds more than one diagram.
SingleDiagram == Len(svgs) <= 1

=============================================================================
