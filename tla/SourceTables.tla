---------------------------- MODULE SourceTables ----------------------------
(***************************************************************************)
(* The source-table page and its load dialog together.  Both               *)
(* openModal/openTreeModal and openReloadModal open a dialog run by        *)
(* ModalInstanceCtrl, whose body resets $scope.hive, hiveLoaded and        *)
(* treedata on the dialog's fresh scope and calls loadHive (sourceMeta.js  *)
(* lines 86-132, 280-449): every opening starts a new Hive tree.  The tree *)
(* is worked only while the dialog is open; answers that arrive for a      *)
(* closed dialog's scope change nothing the page shows.                    *)
(***************************************************************************)
EXTENDS Naturals, Bags

CONSTANTS MaxOps, MaxRefresh, Empty,
          Dbs, TableCount, HiveLimit, MaxRequests

VARIABLES project, loading, overlay, dialog, op, refreshes, server, shown, ops,
          hive, hiveLoaded, dbPending, treedata, tablesPending

loadVars == <<project, loading, overlay, dialog, op, refreshes, server, shown, ops>>
treeVars == <<hive, hiveLoaded, dbPending, treedata, tablesPending>>
vars     == <<loadVars, treeVars>>

Load == INSTANCE TableLoad
Tree == INSTANCE HiveTree

\* ModalInstanceCtrl's body (lines 444-449) on the new dialog scope
NewTree ==
    /\ hive' = <<>> /\ hiveLoaded' = FALSE /\ dbPending' = TRUE
    /\ treedata' = <<>> /\ tablesPending' = EmptyBag

Init == Load!Init /\ Tree!Init

\* The page's steps; opening a dialog also builds its tree
PageStep ==
    \/ \E kind \in {"add", "reload"} : Load!OpenDialog(kind) /\ NewTree
    \/ /\ \/ Load!ProjectChanged
          \/ Load!AceSrcTbChanged
          \/ \E v \in BagToSet(refreshes) : Load!RefreshDone(v) \/ Load!RefreshFails(v)
          \/ Load!CalCardinality
          \/ Load!GenCardinalityDone
          \/ \E named \in BOOLEAN : Load!Submit(named)
          \/ Load!CancelDialog
          \/ Load!UnloadTable
          \/ \E changed \in BOOLEAN : Load!OpSucceeds(changed)
          \/ Load!OpFails
       /\ UNCHANGED treeVars

\* The open dialog's tree steps
DialogStep == dialog # "none" /\ Tree!Next /\ UNCHANGED loadVars

Next == PageStep \/ DialogStep

Spec == Init /\ [][Next]_vars

\* The fairness of TableLoad: every call and refresh is answered
Fairness ==
    /\ WF_vars(Load!GenCardinalityDone /\ UNCHANGED treeVars)
    /\ WF_vars(((\E changed \in BOOLEAN : Load!OpSucceeds(changed)) \/ Load!OpFails)
                 /\ UNCHANGED treeVars)
    /\ WF_vars((\E v \in BagToSet(refreshes) : Load!RefreshDone(v) \/ Load!RefreshFails(v))
                 /\ UNCHANGED treeVars)

FairSpec == Spec /\ Fairness

(***************************************************************************)
(* Properties: those of the page and of the tree, on the composition.     *)
(***************************************************************************)
LoadTypeOK == Load!TypeOK

\* Across dialogs opened, closed and reopened while loads and refreshes
\* run, the tree of the open dialog lists a prefix of the server's
\* databases and of each expanded database's tables, placeholder last.
ShownPrefix == Tree!ShownPrefix

\* Nothing the dialog fetched is out of reach: an unlisted database or
\* table always has a "show more" placeholder before it.
HiddenReachable == Tree!HiddenReachable

\* The overlay of a load submitted from the dialog, of an unload or of a
\* cardinality job is always released.
OverlayReleased == Load!OverlayReleased

=============================================================================
