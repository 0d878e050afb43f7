------------------------------ MODULE TableLoad ------------------------------
(***************************************************************************)
(* Loading, unloading and refreshing source tables: SourceMetaCtrl in      *)
(* src/webapp/app/js/controllers/sourceMeta.js (lines 47-83, 134-278) and  *)
(* the confirm/add handlers of its load dialog (lines 454-486).            *)
(*                                                                         *)
(* server counts the table loads and unloads the server has applied; a     *)
(* refresh of the table tree (TableModel.aceSrcTbLoaded) answers with the  *)
(* count at the time it was sent, and the tree shows the answer that       *)
(* arrived last.  loadingRequest.show()/hide() drive an overlay that       *)
(* blocks the page while a load, unload or cardinality job is submitted;   *)
(* the $scope.loading spinner of the tree is separate and does not block.  *)
(* TableModel and loadingRequest are services outside this repository;    *)
(* only the calls the controller makes on them are modelled.               *)
(***************************************************************************)
EXTENDS Naturals, Bags, BagsExt

CONSTANTS
    MaxOps,          \* bound: loads, unloads and cardinality jobs submitted
    MaxRefresh,      \* bound: tree refreshes in flight
    Empty            \* what TableModel.init() leaves in the tree

VARIABLES
    project,         \* projectModel.getSelectedProject() is truthy
    loading,         \* $scope.loading
    overlay,         \* loadingRequest shown
    dialog,          \* the open load dialog: "none", "add" or "reload"
    op,              \* the submitted call in flight: "none", "gen", "load", "unload"
    refreshes,       \* bag of tree refreshes in flight, by server count
    server,          \* loads and unloads applied by the server
    shown,           \* the server count the tree shows (Empty after init)
    ops              \* calls submitted so far

vars == <<project, loading, overlay, dialog, op, refreshes, server, shown, ops>>

\* Mutant of AceSrcTbLoaded: the $http cache is not cleared, so the
\* refresh is answered with the tree's last answer.
AceSrcTbLoadedCached(p, v) ==
    IF ~p
    THEN /\ shown' = Empty
         /\ UNCHANGED <<loading, refreshes>>
    ELSE /\ loading' = TRUE
         /\ refreshes' = BagAdd(refreshes, shown)
         /\ UNCHANGED shown

\* $scope.aceSrcTbLoaded(forceLoad) (lines 47-59): no project resets the
\* tree; otherwise spinner on and TableModel.aceSrcTbLoaded sent.  The
\* forced one clears the $http cache first, so it answers v, the server's
\* state after the step.
AceSrcTbLoaded(p, v) ==
    IF ~p
    THEN /\ shown' = Empty
         /\ UNCHANGED <<loading, refreshes>>
    ELSE /\ loading' = TRUE
         /\ refreshes' = BagAdd(refreshes, v)
         /\ UNCHANGED shown

\* A refresh the user starts (MaxRefresh bounds those in flight)
RoomToRefresh == BagCardinality(refreshes) < MaxRefresh

\* The overlay blocks the page; the project selector and buttons with it.
Idle == ~overlay /\ ops < MaxOps

\* The controller has run and its $watch fired once (lines 61-67).
Init ==
    /\ project \in BOOLEAN
    /\ overlay = FALSE /\ dialog = "none" /\ op = "none"
    /\ server = 0 /\ ops = 0
    /\ loading = project
    /\ refreshes = IF project THEN SetToBag({0}) ELSE EmptyBag
    /\ shown = Empty

\* The $watch on projectModel.selectedProject (lines 61-67)
ProjectChanged ==
    /\ ~overlay /\ RoomToRefresh
    /\ project' = ~project
    /\ AceSrcTbLoaded(~project, server)
    /\ UNCHANGED <<overlay, dialog, op, server, ops>>

\* aceSrcTbChanged (lines 79-83): the refresh button
AceSrcTbChanged ==
    /\ dialog = "none" /\ ~overlay /\ RoomToRefresh
    /\ AceSrcTbLoaded(project, server)
    /\ UNCHANGED <<project, overlay, dialog, op, server, ops>>

\* TableModel.aceSrcTbLoaded resolves: spinner off, the tree shows the
\* answer.  No rejection handler: a failed refresh leaves the spinner on.
RefreshDone(v) ==
    /\ refreshes' = BagRemove(refreshes, v)
    /\ loading' = FALSE
    /\ shown' = v
    /\ UNCHANGED <<project, overlay, dialog, op, server, ops>>

RefreshFails(v) ==
    /\ refreshes' = BagRemove(refreshes, v)
    /\ UNCHANGED <<project, loading, overlay, dialog, op, server, shown, ops>>

\* calCardinality confirmed (lines 134-165): no project, an alert
CalCardinality ==
    /\ dialog = "none" /\ Idle
    /\ IF project
       THEN overlay' = TRUE /\ op' = "gen" /\ ops' = ops + 1
       ELSE UNCHANGED <<overlay, op, ops>>
    /\ UNCHANGED <<project, loading, dialog, refreshes, server, shown>>

\* genCardinality answers, either way: loadingRequest.hide()
GenCardinalityDone ==
    /\ op = "gen"
    /\ overlay' = FALSE /\ op' = "none"
    /\ UNCHANGED <<project, loading, dialog, refreshes, server, shown, ops>>

\* openModal (lines 86-110) needs a project; openReloadModal (112-132) not
OpenDialog(kind) ==
    /\ dialog = "none" /\ ~overlay
    /\ kind = "add" => project
    /\ dialog' = kind
    /\ UNCHANGED <<project, loading, overlay, op, refreshes, server, shown, ops>>

\* add (lines 462-486): no table names or no project, an alert and the
\* dialog stays; otherwise cancel() and reloadTable (lines 193-196).
\* confirmReload (454-459) does the same without checks.
Submit(named) ==
    /\ dialog # "none" /\ Idle
    /\ IF dialog = "add" /\ ~(named /\ project)
       THEN UNCHANGED <<dialog, overlay, op, ops>>
       ELSE /\ dialog' = "none"
            /\ overlay' = TRUE /\ op' = "load" /\ ops' = ops + 1
    /\ UNCHANGED <<project, loading, refreshes, server, shown>>

CancelDialog ==
    /\ dialog # "none"
    /\ dialog' = "none"
    /\ UNCHANGED <<project, loading, overlay, op, refreshes, server, shown, ops>>

\* unloadTable confirmed (lines 230-247)
UnloadTable ==
    /\ dialog = "none" /\ Idle
    /\ IF project
       THEN overlay' = TRUE /\ op' = "unload" /\ ops' = ops + 1
       ELSE UNCHANGED <<overlay, op, ops>>
    /\ UNCHANGED <<project, loading, dialog, refreshes, server, shown>>

\* Mutant of OpFails: the error callback forgets loadingRequest.hide().
OpFailsNoHide ==
    /\ op \in {"load", "unload"}
    /\ op' = "none"
    /\ UNCHANGED <<project, loading, overlay, dialog, refreshes, server, shown, ops>>

\* loadHiveTable / unLoadHiveTable success (lines 196-214, 248-266):
\* hide, then the tree is refreshed: unloadTable calls aceSrcTbLoaded(true)
\* itself, reloadTable resolves its promise and the dialog's then-callback
\* calls it.  changed: some table was loaded or unloaded.
OpSucceeds(changed) ==
    /\ op \in {"load", "unload"}
    /\ server' = IF changed THEN server + 1 ELSE server
    /\ overlay' = FALSE /\ op' = "none"
    /\ AceSrcTbLoaded(project, server')
    /\ UNCHANGED <<project, dialog, ops>>

\* The error callbacks (lines 215-224, 267-275): an alert and hide.
\* reloadTable's never resolves its promise, so no refresh follows.
OpFails ==
    /\ op \in {"load", "unload"}
    /\ overlay' = FALSE /\ op' = "none"
    /\ UNCHANGED <<project, loading, dialog, refreshes, server, shown, ops>>

Next ==
    \/ ProjectChanged
    \/ AceSrcTbChanged
    \/ \E v \in BagToSet(refreshes) : RefreshDone(v) \/ RefreshFails(v)
    \/ CalCardinality
    \/ GenCardinalityDone
    \/ \E kind \in {"add", "reload"} : OpenDialog(kind)
    \/ \E named \in BOOLEAN : Submit(named)
    \/ CancelDialog
    \/ UnloadTable
    \/ \E changed \in BOOLEAN : OpSucceeds(changed)
    \/ OpFails

Spec == Init /\ [][Next]_vars

\* The server answers every submitted call and every refresh, one way or
\* the other; the browser runs the callbacks.
Fairness ==
    /\ WF_vars(GenCardinalityDone)
    /\ WF_vars((\E changed \in BOOLEAN : OpSucceeds(changed)) \/ OpFails)
    /\ WF_vars(\E v \in BagToSet(refreshes) : RefreshDone(v) \/ RefreshFails(v))

FairSpec == Spec /\ Fairness

(***************************************************************************)
(* Properties                                                              *)
(***************************************************************************)
TypeOK ==
    /\ project \in BOOLEAN /\ loading \in BOOLEAN /\ overlay \in BOOLEAN
    /\ dialog \in {"none", "add", "reload"}
    /\ op \in {"none", "gen", "load", "unload"}
    /\ IsABag(refreshes) /\ BagToSet(refreshes) \subseteq 0..server
    /\ server \in 0..ops /\ ops \in 0..MaxOps
    /\ shown \in 0..server \cup {Empty}

\* Every call that shows the blocking overlay hides it again on each of
\* its paths (success and both error branches), so the page is never
\* left blocked.
OverlayReleased == overlay ~> ~overlay

=============================================================================
