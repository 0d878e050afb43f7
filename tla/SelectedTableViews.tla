------------------------ MODULE SelectedTableViews ------------------------
(***************************************************************************)
(* The two panels of the source-table page that follow the selected table: *)
(* TableSnapshotCtrl (sourceMeta.js lines 1563-1589) lists the table's     *)
(* snapshots, and StreamConfigDisplayCtrl (2120-2134) shows the streaming  *)
(* config of a streaming table.  Both $watch tableModel.selectedSrcTable;  *)
(* a change runs both watchers in one digest.  Their requests carry no     *)
(* tag of the selection they were sent for, and neither has an error      *)
(* callback.  The data a request answers is abstracted to the table it was *)
(* sent for: snapshots = t means the snapshots of table t are listed.      *)
(***************************************************************************)
EXTENDS Naturals, Bags

CONSTANTS
    Tables,          \* source tables, by database.name
    Streaming,       \* tables whose source_type is a streaming source type
    None,            \* nothing selected or shown yet
    MaxPending       \* bound: requests of each panel in flight

ASSUME Streaming \subseteq Tables /\ None \notin Tables

VARIABLES
    selected,        \* tableModel.selectedSrcTable
    snapshots,       \* $scope.tableSnapshots: the table they were fetched for
    config,          \* $scope.currentStreamingConfig: likewise
    snapPending,     \* bag of TableService.getSnapshots calls, by table
    cfgPending       \* bag of StreamingServiceV2.getConfig calls, by table

vars == <<selected, snapshots, config, snapPending, cfgPending>>

Init ==
    /\ selected = None /\ snapshots = None /\ config = None
    /\ snapPending = EmptyBag /\ cfgPending = EmptyBag

\* The $watch of TableSnapshotCtrl calls initSnapshots (lines 1582-1587,
\* 1564-1566).
SnapshotWatch(t) == snapPending' = snapPending (+) SetToBag({t})

\* The $watch of StreamConfigDisplayCtrl sends getConfig only for a
\* streaming source type (lines 2121-2128).
ConfigWatch(t) ==
    cfgPending' = IF t \in Streaming THEN cfgPending (+) SetToBag({t}) ELSE cfgPending

\* showSelected (lines 70-76): a table node of the tree is clicked and
\* becomes tableModel.selectedSrcTable; the digest then runs both
\* watchers, which fire only on a change.
ShowSelected(t) ==
    /\ t # selected
    /\ BagCardinality(snapPending) < MaxPending
    /\ BagCardinality(cfgPending) < MaxPending
    /\ selected' = t
    /\ SnapshotWatch(t) /\ ConfigWatch(t)
    /\ UNCHANGED <<snapshots, config>>

\* getSnapshots answers: the usage info is formatted and the list replaced,
\* whatever is selected by then (lines 1566-1579).
SnapshotsResponse(t) ==
    /\ BagIn(t, snapPending)
    /\ snapshots' = t
    /\ snapPending' = snapPending (-) SetToBag({t})
    /\ UNCHANGED <<selected, config, cfgPending>>

\* getConfig answers: configs[0] is shown (lines 2128-2130).
ConfigResponse(t) ==
    /\ BagIn(t, cfgPending)
    /\ config' = t
    /\ cfgPending' = cfgPending (-) SetToBag({t})
    /\ UNCHANGED <<selected, snapshots, snapPending>>

\* A request fails: there is no error callback, nothing changes on screen.
SnapshotsFail(t) ==
    /\ BagIn(t, snapPending)
    /\ snapPending' = snapPending (-) SetToBag({t})
    /\ UNCHANGED <<selected, snapshots, config, cfgPending>>

ConfigFail(t) ==
    /\ BagIn(t, cfgPending)
    /\ cfgPending' = cfgPending (-) SetToBag({t})
    /\ UNCHANGED <<selected, snapshots, config, snapPending>>

Next ==
    \E t \in Tables :
        \/ ShowSelected(t)
        \/ SnapshotsResponse(t) \/ SnapshotsFail(t)
        \/ ConfigResponse(t) \/ ConfigFail(t)

Spec == Init /\ [][Next]_vars

(***************************************************************************)
(* Properties                                                              *)
(***************************************************************************)
\* Once the snapshots of the selected table are listed, they stay listed
\* until another table is selected: no answer for an earlier selection
\* replaces them (the getSnapshots callback writes $scope.tableSnapshots
\* without checking what is selected).
SnapshotsKeptForSelection ==
    [][snapshots = selected /\ selected' = selected => snapshots' = selected]_vars

=============================================================================
