------------------------------ MODULE HiveTree ------------------------------
(***************************************************************************)
(* The Hive tree of the load-table dialog: ModalInstanceCtrl in            *)
(* src/webapp/app/js/controllers/sourceMeta.js (lines 280-487).  The tree  *)
(* pages the databases, and the tables of an expanded database, HiveLimit  *)
(* at a time: a page ends with a "show more" placeholder node (id 65535)   *)
(* while more remain, and an unexpanded database has one empty "loading"   *)
(* child (id 0).  Tables of a database are fetched when it is toggled      *)
(* open; the answer is applied by the callback, whenever it arrives.       *)
(*                                                                         *)
(* A database or table is its index in the server's answer: the label      *)
(* node.label + '.' + hiveTables[idx] only names it.                       *)
(***************************************************************************)
EXTENDS Integers, Sequences, FiniteSets, Bags, BagsExt

CONSTANTS
    Dbs,             \* number of databases showHiveDatabases answers
    TableCount,      \* TableCount[d]: tables showHiveTables answers for d
    HiveLimit,       \* kylinConfig.getHiveLimit()
    MaxRequests      \* bound: showHiveTables calls in flight

ASSUME HiveLimit \in Nat \ {0} /\ Dbs \in Nat
ASSUME TableCount \in [0..(Dbs - 1) -> Nat]

VARIABLES
    hive,            \* $scope.hive: tables fetched so far for each database
    hiveLoaded,      \* $scope.hiveLoaded
    dbPending,       \* showHiveDatabases in flight
    treedata,        \* $scope.treedata
    tablesPending    \* bag of showHiveTables calls in flight: [pos, d]

vars == <<hive, hiveLoaded, dbPending, treedata, tablesPending>>

\* Tree nodes.  kind "db" and "table" carry the index of what they show.
Node(kind, id, children) ==
    [kind |-> kind, id |-> id, children |-> children, expanded |-> FALSE]
Loading == Node("loading", 0, <<>>)   \* {"label":"","id":0,"children":[]}
More    == Node("more", 0, <<>>)      \* {"label":"","id":65535,...}
NewNode(kind, idx) ==
    IF kind = "db" THEN Node("db", idx, <<Loading>>) ELSE Node("table", idx, <<>>)

\* parseInt(list.length / hiveLimit) * hiveLimit: where the next page starts
PageFrom(list) == HiveLimit * (Len(list) \div HiveLimit)

\* if (!angular.isUndefined(list[from])) list.pop(): drops the LAST node
PopAt(list, from) == IF from < Len(list) THEN SubSeq(list, 1, Len(list) - 1) ELSE list

\* Push the nodes of indices from..to
Push(list, kind, from, to) ==
    list \o [k \in 1..(to - from + 1) |-> NewNode(kind, from + k - 1)]

\* Mutant of ShowMore: the "show more" placeholder is never pushed.
ShowMoreNoMore(list, n, kind) ==
    LET from == PageFrom(list)
        to   == IF from + HiveLimit > n THEN n - 1 ELSE from + HiveLimit - 1
    IN  Push(PopAt(list, from), kind, from, to)

\* Mutant of ShowMore: the placeholder of the last page is not popped.
ShowMoreNoPop(list, n, kind) ==
    LET from    == PageFrom(list)
        hasMore == ~(from + HiveLimit > n)
        to      == IF hasMore THEN from + HiveLimit - 1 ELSE n - 1
    IN  Push(list, kind, from, to) \o (IF hasMore THEN <<More>> ELSE <<>>)

\* showMoreTables / showMoreDatabases (lines 331-354, 368-394): the next
\* page of the n entities, and a placeholder if from + hiveLimit <= n.
ShowMore(list, n, kind) ==
    LET from    == PageFrom(list)
        hasMore == ~(from + HiveLimit > n)
        to      == IF hasMore THEN from + HiveLimit - 1 ELSE n - 1
    IN  Push(PopAt(list, from), kind, from, to) \o (IF hasMore THEN <<More>> ELSE <<>>)

\* showAllTables / showAllDatabases (lines 356-366, 396-411)
ShowAll(list, n, kind) ==
    LET from == PageFrom(list)
    IN  Push(PopAt(list, from), kind, from, n - 1)

ShowMoreDatabases(tree) == ShowMore(tree, Len(hive'), "db")
ShowAllDatabases(tree) == ShowAll(tree, Len(hive), "db")

IsDb(pos) == pos \in 1..Len(treedata) /\ treedata[pos].kind = "db"
HasMore(list) == \E q \in 1..Len(list) : list[q].kind = "more"

(***************************************************************************)
(* The dialog opens: $scope.hive, hiveLoaded and treedata are undefined on *)
(* its fresh scope, so they are reset and loadHive sends                   *)
(* showHiveDatabases (lines 303-306, 444-449).                             *)
(***************************************************************************)
Init ==
    /\ hive = <<>>
    /\ hiveLoaded = FALSE
    /\ dbPending = TRUE
    /\ treedata = <<>>
    /\ tablesPending = EmptyBag

\* showHiveDatabases success (lines 306-318)
DatabasesResponse ==
    /\ dbPending
    /\ dbPending' = FALSE
    /\ hive' = [i \in 1..Dbs |-> 0]
    /\ hiveLoaded' = TRUE
    /\ treedata' = ShowMoreDatabases(treedata)
    /\ UNCHANGED tablesPending

\* showHiveDatabases error (lines 318-326): an alert, hiveLoaded = true
DatabasesFail ==
    /\ dbPending
    /\ dbPending' = FALSE
    /\ hiveLoaded' = TRUE
    /\ UNCHANGED <<hive, treedata, tablesPending>>

\* showMoreClicked / showAllClicked with $parentNode == null (lines 413-427),
\* on the placeholder that ends the database list
ShowMoreDbClicked ==
    /\ HasMore(treedata)
    /\ treedata' = ShowMore(treedata, Len(hive), "db")
    /\ UNCHANGED <<hive, hiveLoaded, dbPending, tablesPending>>

ShowAllDbClicked ==
    /\ HasMore(treedata)
    /\ treedata' = ShowAllDatabases(treedata)
    /\ UNCHANGED <<hive, hiveLoaded, dbPending, tablesPending>>

\* The same on the placeholder ending the tables of database node pos;
\* hive[hiveMap[label]].tables are the tables fetched for it.
ShowMoreTablesClicked(pos) ==
    /\ IsDb(pos) /\ HasMore(treedata[pos].children)
    /\ LET d == treedata[pos].id
       IN  treedata' = [treedata EXCEPT ![pos].children =
                          ShowMore(@, hive[d + 1], "table")]
    /\ UNCHANGED <<hive, hiveLoaded, dbPending, tablesPending>>

ShowAllTablesClicked(pos) ==
    /\ IsDb(pos) /\ HasMore(treedata[pos].children)
    /\ LET d == treedata[pos].id
       IN  treedata' = [treedata EXCEPT ![pos].children =
                          ShowAll(@, hive[d + 1], "table")]
    /\ UNCHANGED <<hive, hiveLoaded, dbPending, tablesPending>>

\* showToggle (lines 429-441): a node not yet expanded sends
\* showHiveTables; node.expanded is set only by the callback, so a second
\* toggle before it answers sends again.
ShowToggle(pos) ==
    /\ IsDb(pos) /\ ~treedata[pos].expanded
    /\ BagCardinality(tablesPending) < MaxRequests
    /\ tablesPending' = BagAdd(tablesPending, [pos |-> pos, d |-> treedata[pos].id])
    /\ UNCHANGED <<hive, hiveLoaded, dbPending, treedata>>

\* showHiveTables success: hive[...].tables = tables, showMoreTables on
\* the node, node.expanded = true.  There is no error callback.
TablesResponse(r) ==
    /\ tablesPending' = BagRemove(tablesPending, r)
    /\ hive' = [hive EXCEPT ![r.d + 1] = TableCount[r.d]]
    /\ treedata' =
         IF IsDb(r.pos) /\ treedata[r.pos].id = r.d
         THEN [treedata EXCEPT ![r.pos].children = ShowMore(@, TableCount[r.d], "table"),
                               ![r.pos].expanded = TRUE]
         ELSE treedata
    /\ UNCHANGED <<hiveLoaded, dbPending>>

TablesFail(r) ==
    /\ tablesPending' = BagRemove(tablesPending, r)
    /\ UNCHANGED <<hive, hiveLoaded, dbPending, treedata>>

Next ==
    \/ DatabasesResponse
    \/ DatabasesFail
    \/ ShowMoreDbClicked
    \/ ShowAllDbClicked
    \/ \E pos \in 1..Len(treedata) : ShowMoreTablesClicked(pos)
    \/ \E pos \in 1..Len(treedata) : ShowAllTablesClicked(pos)
    \/ \E pos \in 1..Len(treedata) : ShowToggle(pos)
    \/ \E r \in BagToSet(tablesPending) : TablesResponse(r) \/ TablesFail(r)

Spec == Init /\ [][Next]_vars

(***************************************************************************)
(* Properties                                                              *)
(***************************************************************************)
Kinds == {"db", "table", "loading", "more"}

TypeOK ==
    /\ hive \in Seq(Nat) /\ Len(hive) \in {0, Dbs}
    /\ hiveLoaded \in BOOLEAN /\ dbPending \in BOOLEAN
    /\ \A q \in 1..Len(treedata) :
          /\ treedata[q].kind \in Kinds /\ treedata[q].expanded \in BOOLEAN
          /\ \A c \in 1..Len(treedata[q].children) :
                treedata[q].children[c].kind \in Kinds
    /\ IsABag(tablesPending)

\* What a list of nodes shows: the kind and index of each node
Shape(list) == [q \in 1..Len(list) |-> <<list[q].kind, list[q].id>>]
\* The first k of n entities, followed by a placeholder or not
Page(kind, k, more) ==
    [q \in 1..k |-> <<kind, q - 1>>] \o (IF more THEN <<<<"more", 0>>>> ELSE <<>>)
Pages(kind, n) == {Page(kind, k, m) : k \in 0..n, m \in BOOLEAN}
Shown(list, kind) == {q \in 1..Len(list) : list[q].kind = kind}

\* However show more, show all, toggles and late or repeated
\* showHiveTables answers interleave, the tree lists the databases, and
\* each database the tables, as a prefix of the server's list in its
\* order, at most once each, with the placeholder only at the end; a
\* database not yet expanded keeps its single loading child.
ShownPrefix ==
    /\ Shape(treedata) \in Pages("db", Len(hive))
    /\ \A q \in Shown(treedata, "db") :
          LET node == treedata[q]
          IN  \/ ~node.expanded /\ Shape(node.children) = <<<<"loading", 0>>>>
              \/ node.expanded /\ Shape(node.children) \in Pages("table", hive[node.id + 1])

\* Nothing is out of reach: while some fetched database or table is not
\* listed, its list ends with a "show more" placeholder to click.
HiddenReachable ==
    /\ Cardinality(Shown(treedata, "db")) < Len(hive) => HasMore(treedata)
    /\ \A q \in Shown(treedata, "db") :
          treedata[q].expanded /\ Cardinality(Shown(treedata[q].children, "table")) < hive[treedata[q].id + 1]
            => HasMore(treedata[q].children)

=============================================================================
