# TLA+ models of the Kylin web app: lineage, chord layout, source tables, streaming tables and cube properties

This directory holds TLA+ models of three JavaScript sources under `src/webapp/app/js/`:

- `utils/d3.layout.chord.sort.js` is `customChordLayout`. It is a chord-diagram layout object with a configuration, two caches and a `relayout()` that fills them.
- `controllers/sourceMeta.js` holds several AngularJS controllers. Six are modelled:
  - `SourceMetaCtrl` (lines 22-278) shows the project's source tables. It loads, reloads and unloads them and starts cardinality jobs.
  - `ModalInstanceCtrl` (lines 280-487) is the load dialog and its paged Hive tree.
  - `StreamingSourceCtrlV2` (lines 1101-1556) is the wizard that creates a kafka or rheos streaming table. It uses `checkColumnValType` and `flatStreamingJson` (701-741).
  - `TableSnapshotCtrl` (1563-1589) and `StreamConfigDisplayCtrl` (2120-2134) show the snapshots and the streaming config of the selected table.
  - `TableLineageCtrl` (lines 1592-2116) draws the lineage between a table and its cubes as a chord diagram. Clicking a group expands the diagram.
- `controllers/cubeOverwriteProp.js` is `CubeOverWriteCtrl`. It edits a cube's `override_kylin_properties`.

The browser runs every handler, timer callback and `$http` callback to completion. Each one is therefore a single atomic action of a model. Requests complete or fail in any order, and the server's answer is a nondeterministic choice.

## How the parts interact

**Lineage.** Selecting a table runs the `$watch` at line 1593. It resets `$scope.lineage`, removes the first svg and sends `TableService.lineageCubes`.

Every response callback follows the same chain:

1. It rewrites `$scope.lineageData`.
2. It removes the first svg. The `initLineage` callback skips this step.
3. It sorts the data.
4. `transformChartData` builds the items and the weight matrix.
5. `draw()` appends a new svg and lays it out with `customChordLayout`. The model keeps the svg's items, matrix and armed timer, not its angles.

Each svg has its own click counter and 500 ms timer. A timer, when it fires, and a `dblclick` both read the *current* `$scope.lineage`, not the svg that was clicked.

**Source tables.** The page's `aceSrcTbLoaded` refreshes the table tree through `TableModel`. Loads, unloads and cardinality jobs show the `loadingRequest` overlay, which blocks the page until the callback hides it.

`openModal` and `openReloadModal` open a dialog run by `ModalInstanceCtrl`. Its body resets the Hive tree and calls `loadHive`. The dialog's `add` or `confirmReload` closes the dialog and calls the page's `reloadTable`. On success the promise resolves, and the dialog's `then` refreshes the page's tree.

**Streaming tables.** The wizard's step 1 holds the cluster settings. `nextStep` replaces `$scope.streaming` and `$scope.tableData`. Step 2 fetches or takes a sample record. `getTableData` flattens it into columns and lists the timestamp columns in two parallel arrays: `TSColumnArr` (names) and `TSColumnMappingArr` (source paths). Adding, removing and retyping columns edit these arrays. Choosing `DateTimeParser` fetches the pattern list asynchronously. The save validates the form, asks for confirmation and sends `StreamingServiceV2.save`. On success it closes the modal and refreshes the page's table tree.

**Cube properties.** The controller body runs once. It fills in the streaming defaults, sends `TableService.get` for the rheos check, and converts the object to a list of rows, leaving the hoisted `streamingProperties` behind. The user then edits the rows. Every edit writes the object back through `refreshPropertiesObj`.

## Modules

| module | models | state / actions |
|---|---|---|
| `ChordRelayout` | `relayout()` and `resort()` (chord lines 24-95) | Pure operators: `GroupIndex`, `SubgroupIndex`, `Sweep`, `ChordList`, `ResortChords` and `Relayout`. |
| `ChordLayout` | the layout object (lines 19-136) | Variables: the configuration and the `chords`/`groups` caches. One action per setter and per getter. |
| `TableLineage` | `TableLineageCtrl` | Variables: the scope (`selected`, `lineageData`, `items`, `cubeCount`, `matrix`), `svgs` (each with its drawn items and armed timer), `orphans` (timers of removed svgs), `pending` (a bag of requests in flight) and `effect` (what the last click step expanded). Actions: `SelectTable`, `InitResponse`, `TablesByCubeResponse`, `CubesByTableResponse`, `RequestFails`, `ClickArm`, `ClickCancel`, `ClickDouble`, `TimerFires` and `OrphanTimerFires`. |
| `ClickIntent` | the promise of a group click | A single click expands the group clicked, and a double click expands it with its neighbours. |
| `TableLoad` | `SourceMetaCtrl` (lines 47-83, 134-278) and the dialog's `add`/`confirmReload` (454-486) | Variables: `project`, the spinner `loading`, the `overlay`, the open `dialog`, the call `op` in flight, the bag of `refreshes` in flight (each with the server state it will answer), `server` (changes applied), `shown` (the state the tree shows) and `ops`. |
| `HiveTree` | `ModalInstanceCtrl` (lines 280-452) | Variables: `hive` (tables fetched per database), `hiveLoaded`, `dbPending`, `treedata` (nodes with kind, index, children and `expanded`) and the bag `tablesPending` of `showHiveTables` calls. One action per handler and callback. `ShowMore` and `ShowAll` translate the paging helpers, including `parseInt(len/limit)*limit` and the `pop()` of the placeholder. |
| `StreamingSourceV2` | `StreamingSourceCtrlV2` and its helpers (lines 701-741, 1101-1556) | Variables: `open`, `sourceType`, `step`, the form (`template`, `tableName`, `columns`, `tsCols`, `tsMaps`, `tsSelected`, `parser`, `patterns`, `pattern`, `selfDefined`, `errMsg`) and counters of requests in flight (`tplPending`, `patPending`, `saves`) and page refreshes. There is one action per handler and callback, and one per input the form binds (template text, table name, TS column, self-defined pattern). `FlatObj` is the recursive `flatObj`. `SaveCheck` is the chain of early returns and throws of the save. `FieldMapping` is the `parser_info.field_mapping` it builds. |
| `SelectedTableViews` | `TableSnapshotCtrl` and `StreamConfigDisplayCtrl` | Variables: `selected`, the table whose `snapshots` and `config` are shown, and bags of requests in flight per panel. `ShowSelected` (lines 70-76) runs both `$watch`es; one action per answer and per failure. |
| `SourceTables` | page and dialog together | It instantiates `TableLoad` and `HiveTree`. Opening a dialog resets the tree (`NewTree`, lines 447-452), and the tree's steps run only while a dialog is open. |
| `MC_*` | instances for TLC | Model values, small sets and the matrices to enumerate. |

`TableLineage` does not lay out the matrix it draws. The layout of a matrix is what `ChordLayout` checks.

### Abstractions

- **Angles** are exact integers. `2*PI` is `Circle` (628) and a padding of `.02` is 2. Angles are scaled by the matrix total so that no division is needed. A total of 0 gives `NaN`, as in JavaScript.
- **`Array.prototype.sort`** is the ES2019 stable sort.
- **Lineage weights** are multiplied by 5, so that `Math.round(respondents * 0.4)` is an integer.
- **Server answers** for the lineage are the constant relation `Links`. A database or table of the Hive tree is its index in the server's answer. Its label only names it.
- **Overwrite properties.** The object is a sequence of entries in JS property order. A new key goes last, and an assignment to an existing key keeps its place.
- **Streaming samples** are parse results: a sequence of `[key, val]` entries in property order, where a value is a leaf kind (`long`, `dec`, `str`...) or a nested record. Template text `JSON.parse` rejects is the model value `Invalid`. A column comment is kept as its tokens, so that `replace(/\|/g, '.')` is modelled by what it does. Table names are character sequences, checked by `ValidateTableName` as `split('.')` and `indexOf` do.
- **The streaming modal's scope** is destroyed by `$modal` when the modal is dismissed. The model resets the form of a closed modal to one value (`Destroyed`), because nothing reads it again. Late callbacks still run, as in the code.
- **The save's confirmation dialog** blocks every input. So validation and the confirmed send are one step (`SaveStreamingSource(confirm)`).
- **`TableModel` and `loadingRequest`** are services outside this repository. A refresh is assumed to answer the server state at the time it was sent, because the forced refresh clears the `$http` cache first. `show()`/`hide()` are assumed to drive one overlay.

## Refinements

- `TableLineage` is checked against `ClickIntent` with `armed` mapped to the armed timers of all svgs and orphans (`ImplementsClickIntent`). The mapping does not hold (see `lineage_click_intent`).

## Runs

| run | cfg | expect | shows |
|---|---|---|---|
| `chord_layout` | `MC_ChordLayout.cfg` | pass | The caches stay equal to a fresh `relayout()`. The groups tile the circle. There is one chord per linked pair. |
| `lineage` | `MC_TableLineage.cfg` | pass | No table or edge is listed twice, the matrix is well formed, and an expansion never removes a shown link. |
| `cube_props` | `MC_CubeOverwriteProp.cfg` | pass | The streaming defaults survive every edit (`DefaultsKept`). Every user key of the object is a listed row (`UserKeysListed`). |
| `source_tables` | `MC_SourceTables.cfg` | pass | The dialog's tree lists a prefix of the databases and tables, with the placeholder last, across dialogs reopened during loads (`ShownPrefix`). Nothing fetched is out of reach (`HiddenReachable`). The overlay is always released (`OverlayReleased`). |
| `lineage_click_intent` | `MC_TableLineage_stale_timer.cfg` | violation | A click on an old diagram expands an entity of the current diagram (here the blank spacer). |
| `lineage_two_diagrams` | `MC_TableLineage_two_diagrams.cfg` | violation | Two quick selections leave two diagrams. |
| `streaming_source` | `MC_StreamingSourceV2.cfg` | pass | The timestamp option lists stay parallel through every column edit (`TSOptionsParallel`). The sample in the form flattens to one column per leaf, as a reference definition over leaf paths says (`FlattenMatchesLeaves`). Every confirmed save ends with the modal closed or the failure shown (`SaveSettles`). |
| `streaming_ts_mapping` | `MC_StreamingSourceV2_ts_mapping.cfg` | violation | Retyping a generated timestamp column after a column was added splices the wrong mapping (line 1385). A rheos table is then saved with its TS column mapped to another column's path (`SavedTSMapping`). |
| `streaming_pattern` | `MC_StreamingSourceV2_pattern.cfg` | violation | After a switch to `DateTimeParser`, the pattern stays `MS` until the list arrives. A save in between sends a pattern the parser does not take (`PatternFitsParser`). |
| `cube_rheos` | `MC_CubeOverwriteProp_rheos.cfg` | violation | A rheos setting the page hides is deleted by an edit of a row. |
| `table_snapshots_order` | `MC_SelectedTableViews_order.cfg` | violation | Two quick selections whose `getSnapshots` answers arrive in reverse order leave the snapshots of the earlier table listed under the later one (`SnapshotsKeptForSelection`). |
| `cube_add` | `MC_CubeOverwriteProp_add.cfg` | violation | On a streaming cube with no saved properties, the first edit after adding a row throws, and the row's key never reaches the object. |

Three behaviours are translated but no run checks them, and `PROJECT.json` lists them as hazards. The `talbeInfo` ReferenceError of `TableLineage` (line 2057) drops a table from the list, an error any unit test of that path meets. `ChordLayout` lays out a zero-total matrix, such as that of a table without cubes, with NaN angles, as `relayout()` does. The tie-break of `relayout()` makes the (i,j) subgroup the chord's source, where spec 8.3 names the (j,i) one.

Every property of a passing run is killed by a mutant of the code listed in `PROJECT.json`. Examples are a dropped cache reset, an un-popped placeholder and a `hide()` missing from an error callback.

### Bounds and why they suffice

- **ChordLayout:** the empty matrix, all 1x1 and 2x2 matrices with weights 0..2, and two 3x3 matrices. These cover ties, self-links, zero rows and a zero total. Paddings are {0, 2}, with three comparators. The run has 26,821 states and takes under a minute.
- **TableLineage:** two tables and two cubes, with a shared cube and a table with two cubes. At most 2 requests are in flight and 1 timer is armed. That is enough for every race in the findings: two selections, an expansion racing a redraw, and a late response. The run has about 97,000 states and takes about 1 minute.
- **CubeOverwriteProp:** two default keys, two rheos keys, user names {"", u, w}, values {"", v} and at most 3 rows. Saved objects hold up to 3 entries in any order. The run has 26,882 states and takes seconds.
- **StreamingSourceV2:**
  - The sample `{user: {ts: <long>}}` exercises the recursion of `flatObj` and yields one generated timestamp column. One auto-generated measure (`minute_start`, timestamp) makes a derived column. Add forms are one complete timestamp column and one incomplete form. There is one table name, and at most one request of each kind in flight.
  - `streaming_source`: rheos, `MaxColumns` 2, and columns retyped only to varchar. A rheos save runs every check of a kafka save plus the TS mapping. With two columns, a removal followed by an add reaches the removal and append edits of the option lists. Retyping a column to timestamp is left to `streaming_ts_mapping`. The run has about 617,000 states and takes 2 minutes.
  - `streaming_ts_mapping` allows both types and 3 columns, so that an added timestamp column follows the generated one. `streaming_pattern` is a kafka wizard, so Kafka's start is explored too.
- **SelectedTableViews:** two tables, one of them streaming, and at most 2 requests of each panel in flight. Two selections in flight are what reordering needs.
- **SourceTables:**
  - There are 3 databases with 2, 3 and 0 tables and a Hive limit of 2. This gives a full page, a partial page, an exact multiple, and an empty database. A limit of 1 is not checked: the loading child of an unexpanded database then counts as a page, table 0 is skipped, and TLC finds `ShownPrefix` violated (hazard at line 332).
  - At most 2 `showHiveTables` calls are in flight, so a repeated toggle is answered twice.
  - There are 3 submitted calls and at most 2 refreshes in flight, so refreshes overlap and a dialog can be reopened during a load.
  - The run has about 454,000 states and takes 1.5 minutes.

### Fairness

- **Lineage:** this run checks no liveness and assumes no fairness.
- **Source tables:** there is weak fairness on the answers to submitted calls and to refreshes. The server answers every call one way or the other, and the browser runs the callbacks. User actions have no fairness.
- **Streaming source:** there is weak fairness on the answers to the template, pattern and save requests. The server answers or fails every request, and the browser runs the callbacks. Without it, `SaveSettles` would fail on a save that is never answered.
- **Chord layout, cube properties and selected-table views:** these runs check no liveness either.

## Not modelled

- The lineage ui-grid and hover effects (presentation only).
- The other streaming wizards: `StreamingSourceCtrl` and `EditStreamingSourceCtrl` (V1, lines 489-643 and 745-1045) and `EditStreamingSourceV2Ctrl` (645-699). Also not modelled: the bootstrap server list, `_transformStreamingObj`, and `getColumns`/`getColumnInfo` of the V2 wizard, which only templates outside this repository call. The retry of a failed `EditStreamingSourceV2Ctrl` update throws after `loadingRequest.show()`. This is listed as a hazard.
- The wording of alerts, and floating-point rounding of angles.
- `TableModel`'s rejection behaviour, which lives outside this repository.
- The ordering of tree refreshes. An older refresh that answers last does leave the tree stale, and `HiveTree`'s answers are applied by position. Both are listed as hazards in `PROJECT.json`.
