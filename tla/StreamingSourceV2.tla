------------------------- MODULE StreamingSourceV2 -------------------------
(***************************************************************************)
(* The streaming-table wizard StreamingSourceCtrlV2 (sourceMeta.js lines   *)
(* 1101-1556) with the helpers it calls, checkColumnValType (701-727) and  *)
(* flatStreamingJson (729-741).  Step 1 holds the cluster settings, step 2 *)
(* the sample record, the generated columns, the timestamp column, its     *)
(* parser and pattern, and the save.                                       *)
(*                                                                         *)
(* A sample record is its parse result: a sequence of [key, val] entries   *)
(* in property order, val a leaf kind or a nested record; text that does  *)
(* not parse is Invalid.  A column name is the string base + '_' + key; a  *)
(* comment is kept as its tokens (keys and '|') so that                    *)
(* comment.replace(/\|/g, '.') is modelled by what it does.  The          *)
(* confirmation dialog of the save blocks every user input, and only the  *)
(* template and pattern answers (which the save does not read) can arrive  *)
(* while it is up, so validation and the confirmed send are one step.     *)
(***************************************************************************)
EXTENDS Integers, Sequences, SequencesExt, FiniteSets

CONSTANTS
    Kafka, Rheos,    \* tableConfig.streamingSourceType.kafka / .rheos
    SourceTypes,     \* the source types a wizard can be opened with
    Keys,            \* keys of a sample record, and words typed as a mapping
    IdKeys,          \* the keys /id/i matches
    Samples,         \* records getParserTemplate can answer or a user can type
    Blank,           \* the empty template text ''
    Invalid,         \* template text JSON.parse rejects
    AutoMeasures,    \* cubeConfig.streamingAutoGenerateMeasure: <<[name, type]>>
    DataTypes,       \* tableConfig.dataTypes offered for a column
    NameInputs,      \* table names a user can type, as character sequences
    AddInputs,       \* additionalColumn forms a user can fill in
    Undef,           \* undefined
    MaxRequests,     \* bound: each kind of request in flight
    MaxColumns       \* bound: columns of the table, and timestamp options

ASSUME "" \notin Keys /\ IdKeys \subseteq Keys /\ SourceTypes \subseteq {Kafka, Rheos}

VARIABLES
    open,            \* the modal is open
    sourceType,      \* $scope.tableData.source_type
    step,            \* $scope.steps.curStep
    template,        \* $scope.streaming.template (Blank, Invalid or a record)
    tableName,       \* $scope.tableData.name (Undef or characters)
    columns,         \* $scope.tableData.columns (Undef or a sequence)
    tsCols,          \* $scope.streaming.TSColumnArr
    tsMaps,          \* $scope.streaming.TSColumnMappingArr
    tsSelected,      \* $scope.streaming.TSColumnSelected
    parser,          \* $scope.streaming.TSParser: "", "Long", "DateTime"
    patterns,        \* $scope.streaming.TSPatternArr, as a set
    pattern,         \* $scope.streaming.TSPattern
    selfDefined,     \* $scope.selfDefinedTsPattern
    errMsg,          \* $scope.streaming.errMsg: "", "form" (a check) or "saveFail"
    tplPending,      \* getParserTemplate calls in flight
    patPending,      \* getSupportedDatetimePatterns calls in flight
    saves,           \* StreamingServiceV2.save calls in flight
    refreshes        \* scope.aceSrcTbLoaded(true) calls made on the page

ctl  == <<open, sourceType, step>>
reqs == <<tplPending, patPending, saves, refreshes>>
ts   == <<tsCols, tsMaps, tsSelected>>
pat  == <<parser, pattern, patterns, selfDefined>>
formVars == <<template, tableName, columns, ts, pat, errMsg>>
vars == <<ctl, formVars, reqs>>

(***************************************************************************)
(* checkColumnValType and flatStreamingJson                                *)
(***************************************************************************)
\* A value is [kind |-> k] for a leaf or [fields |-> entries] for an object.
\* Leaf kinds: JS numbers (integer or decimal, up to 2147483647 or above),
\* date-parseable strings, other strings, arrays, booleans and null.
Numbers == {"int", "long", "dec", "bigdec"}
Leaves  == Numbers \cup {"datestr", "str", "array", "bool", "null"}
IsObject(v) == "fields" \in DOMAIN v

\* key is the flattened name; IdName is /id/i.test(key) over its path.
CheckColumnValType(v, path) ==
    LET val == v.kind
        idName == \E k \in Range(path) : k \in IdKeys
    IN  CASE val \in Numbers ->
               IF idName /\ val \notin {"dec", "bigdec"} THEN "int"
               ELSE IF val \in {"int", "dec"}
                    THEN IF val = "dec" THEN "decimal" ELSE "int"
                    ELSE "timestamp"
          [] val = "datestr"         -> "date"
          [] val \in {"str", "array"} -> "varchar(256)"
          [] val = "bool"            -> "boolean"
          [] OTHER                   -> Undef

\* base + '_' + i over the path, and comment + '|' + i as tokens
JoinName(path) == FoldLeft(LAMBDA acc, k : IF acc = "" THEN k ELSE acc \o "_" \o k,
                           "", path)
CommentOf(path) == FoldLeft(LAMBDA acc, k : IF acc = <<>> THEN <<k>> ELSE acc \o <<"|", k>>,
                            <<>>, path)

\* createNewObj of getTableData (lines 1243-1253)
NewObj(path, val) ==
    [name |-> JoinName(path), datatype |-> CheckColumnValType(val, path),
     comment |-> CommentOf(path), mapping |-> Undef]

RECURSIVE FlatObj(_, _)

\* Mutant of FlatObj: a nested object is walked without its key.
FlatObjNoPrefix(obj, path) ==
    IF obj = <<>> THEN <<>>
    ELSE LET e == Head(obj)
         IN  (IF IsObject(e.val) THEN FlatObj(e.val.fields, path)
              ELSE <<NewObj(path \o <<e.key>>, e.val)>>)
             \o FlatObj(Tail(obj), path)

\* flatObj: nested objects are walked, every other value is one column
FlatObj(obj, path) ==
    IF obj = <<>> THEN <<>>
    ELSE LET e == Head(obj)
         IN  (IF IsObject(e.val) THEN FlatObj(e.val.fields, path \o <<e.key>>)
              ELSE <<NewObj(path \o <<e.key>>, e.val)>>)
             \o FlatObj(Tail(obj), path)

IsDerived(col) == \E q \in 1..Len(AutoMeasures) : AutoMeasures[q].name = col.name
AutoColumns == [q \in 1..Len(AutoMeasures) |->
                  [name |-> AutoMeasures[q].name, datatype |-> AutoMeasures[q].type,
                   comment |-> Undef, mapping |-> Undef]]

\* validateTableName (lines 1523-1533): non-empty, fewer than two dots,
\* not starting with one
ValidateTableName(n) ==
    /\ n # Undef /\ Len(n) > 0
    /\ Cardinality({q \in 1..Len(n) : n[q] = "."}) < 2
    /\ n[1] # "."

\* comment.replace(/\|/g, '.')
Dots(c) == [q \in DOMAIN c |-> IF c[q] = "|" THEN "." ELSE c[q]]


(***************************************************************************)
(* The wizard                                                              *)
(***************************************************************************)
\* The form fields of a fresh modal scope
NewScope ==
    /\ template = Blank /\ tableName = Undef /\ columns = Undef
    /\ tsCols = <<>> /\ tsMaps = <<>> /\ tsSelected = ""
    /\ parser = "" /\ pattern = "" /\ patterns = {} /\ selfDefined = FALSE
    /\ errMsg = ""

\* $modal destroys the modal's scope when it is dismissed: nothing reads
\* the form again, so a closed modal's form is one value.
Destroyed ==
    /\ template' = Blank /\ tableName' = Undef /\ columns' = Undef
    /\ tsCols' = <<>> /\ tsMaps' = <<>> /\ tsSelected' = ""
    /\ parser' = "" /\ pattern' = "" /\ patterns' = {} /\ selfDefined' = FALSE
    /\ errMsg' = ""

\* The controller body (lines 1101-1190): step 1, the initial streaming
\* object has no parser or pattern lists yet.
Init ==
    /\ open = TRUE
    /\ sourceType \in SourceTypes
    /\ step = 1
    /\ NewScope
    /\ tplPending = 0 /\ patPending = 0 /\ saves = 0 /\ refreshes = 0

Form == open /\ step = 2

\* previewStep (lines 1108-1110)
PreviewStep ==
    /\ open /\ step = 2
    /\ step' = 1
    /\ UNCHANGED <<open, sourceType, formVars, reqs>>

\* nextStep (lines 1112-1132): leaving step 1 replaces $scope.streaming and
\* keeps only the source type of $scope.tableData.
NextStep ==
    /\ open /\ step = 1
    /\ step' = 2
    /\ template' = Blank /\ tsCols' = <<>> /\ tsMaps' = <<>> /\ tsSelected' = ""
    /\ parser' = "Long" /\ patterns' = {"MS", "S"} /\ pattern' = "MS"
    /\ errMsg' = ""
    /\ tableName' = Undef /\ columns' = Undef
    /\ UNCHANGED <<open, sourceType, selfDefined, reqs>>

\* cancel (lines 1134-1136)
Cancel ==
    /\ open
    /\ open' = FALSE /\ Destroyed
    /\ UNCHANGED <<sourceType, step, reqs>>

\* The sample record is typed in
EditTemplate(t) ==
    /\ Form
    /\ template' = t
    /\ UNCHANGED <<ctl, tableName, columns, ts, pat, errMsg, reqs>>

\* getTemplate (lines 1192-1210) and its callbacks; the answer is written
\* into whatever $scope.streaming is when it arrives.
GetTemplate ==
    /\ Form /\ tplPending < MaxRequests
    /\ tplPending' = tplPending + 1
    /\ UNCHANGED <<ctl, formVars, patPending, saves, refreshes>>

TemplateResponse(t) ==
    /\ tplPending > 0
    /\ tplPending' = tplPending - 1
    /\ template' = t
    /\ UNCHANGED <<ctl, tableName, columns, ts, pat, errMsg, patPending, saves, refreshes>>

TemplateFails ==
    /\ tplPending > 0
    /\ tplPending' = tplPending - 1
    /\ UNCHANGED <<ctl, formVars, patPending, saves, refreshes>>

\* getTableData (lines 1212-1270).  TSColumnSelected is left as it was.
GetTableData ==
    /\ Form
    /\ IF template \in {Blank, Invalid}
       THEN /\ tableName' = Undef /\ columns' = Undef
            /\ errMsg' = "form"
            /\ tsCols' = <<>> /\ tsMaps' = <<>>
       ELSE LET flat == FlatObj(template, <<>>)
                stamp == SelectSeq(flat, LAMBDA c : c.datatype = "timestamp")
            IN  /\ tableName' = <<>>
                /\ columns' = flat \o AutoColumns
                /\ errMsg' = ""
                /\ tsCols' = [q \in DOMAIN stamp |-> stamp[q].name]
                /\ tsMaps' = [q \in DOMAIN stamp |-> stamp[q].comment]
    /\ UNCHANGED <<ctl, template, tsSelected, pat, reqs>>

\* The table name input
SetTableName(n) ==
    /\ Form
    /\ tableName' = n
    /\ UNCHANGED <<ctl, template, columns, ts, pat, errMsg, reqs>>

\* removeColumn (lines 1332-1334): the timestamp options are not touched
RemoveColumn(i) ==
    /\ Form /\ columns # Undef /\ i \in 1..Len(columns)
    /\ columns' = RemoveAt(columns, i)
    /\ UNCHANGED <<ctl, template, tableName, ts, pat, errMsg, reqs>>

\* addColumn (lines 1336-1356); initFieldMapping (1358-1360) only fills in
\* the mapping of the form, which AddInputs already ranges over.  An
\* incomplete form shows an error and adds nothing.
AddColumn(c) ==
    /\ Form /\ Len(tsCols) < MaxColumns
    /\ IF columns = Undef THEN TRUE ELSE Len(columns) < MaxColumns
    /\ IF c.name # "" /\ c.datatype # "" /\ c.mapping # <<>>
       THEN /\ columns' = Append(IF columns = Undef THEN <<>> ELSE columns,
                                 [name |-> c.name, datatype |-> c.datatype,
                                  comment |-> Undef, mapping |-> c.mapping])
            /\ IF c.datatype = "timestamp"
               THEN tsCols' = Append(tsCols, c.name) /\ tsMaps' = Append(tsMaps, c.mapping)
               ELSE UNCHANGED <<tsCols, tsMaps>>
       ELSE UNCHANGED <<columns, tsCols, tsMaps>>
    /\ UNCHANGED <<ctl, template, tableName, tsSelected, pat, errMsg, reqs>>

\* findIndex, 1-based (0 for -1)
FirstIndex(seq, x) ==
    IF x \in Range(seq) THEN CHOOSE q \in 1..Len(seq) : seq[q] = x /\ \A p \in 1..(q - 1) : seq[p] # x
    ELSE 0

\* Mutant of UpdateTSColumnOption: the mapping list is not spliced.
UpdateTSColumnOptionKeepMaps(col) ==
    IF col.datatype = "timestamp"
    THEN IF col.name \in Range(tsCols) THEN UNCHANGED <<tsCols, tsMaps, tsSelected>>
         ELSE /\ tsCols' = Append(tsCols, col.name)
              /\ tsMaps' = Append(tsMaps, IF col.mapping = Undef THEN col.mapping ELSE col.comment)
              /\ UNCHANGED tsSelected
    ELSE IF col.name \notin Range(tsCols) THEN UNCHANGED <<tsCols, tsMaps, tsSelected>>
         ELSE /\ tsCols' = RemoveAt(tsCols, FirstIndex(tsCols, col.name))
              /\ UNCHANGED tsMaps
              /\ tsSelected' = IF tsSelected = col.name THEN "" ELSE tsSelected

\* updateTSColumnOption (lines 1372-1391).  A new option gets
\* column.field_mapping when that is falsy, else column.comment.  A removed
\* option's mapping is spliced at the index of the name in the already
\* spliced TSColumnArr: -1 unless the name is there twice, and splice(-1, 1)
\* drops the last mapping.
UpdateTSColumnOption(col) ==
    IF col.datatype = "timestamp"
    THEN IF col.name \in Range(tsCols) THEN UNCHANGED <<tsCols, tsMaps, tsSelected>>
         ELSE /\ tsCols' = Append(tsCols, col.name)
              /\ tsMaps' = Append(tsMaps, IF col.mapping = Undef THEN col.mapping ELSE col.comment)
              /\ UNCHANGED tsSelected
    ELSE IF col.name \notin Range(tsCols) THEN UNCHANGED <<tsCols, tsMaps, tsSelected>>
         ELSE LET cols == RemoveAt(tsCols, FirstIndex(tsCols, col.name))
                  j    == FirstIndex(cols, col.name)
              IN  /\ tsCols' = cols
                  /\ tsMaps' = IF j # 0 THEN RemoveAt(tsMaps, j)
                               ELSE IF tsMaps = <<>> THEN tsMaps
                               ELSE RemoveAt(tsMaps, Len(tsMaps))
                  /\ tsSelected' = IF tsSelected = col.name THEN "" ELSE tsSelected

\* A column's type select changes, then ng-change calls updateTSColumnOption
ChangeColumnType(i, t) ==
    /\ Form /\ columns # Undef /\ i \in 1..Len(columns)
    /\ t # columns[i].datatype
    /\ columns' = [columns EXCEPT ![i].datatype = t]
    /\ UpdateTSColumnOption(columns'[i])
    /\ UNCHANGED <<ctl, template, tableName, pat, errMsg, reqs>>

\* The TSColumn select offers TSColumnArr
SelectTSColumn(c) ==
    /\ Form /\ c \in Range(tsCols)
    /\ tsSelected' = c
    /\ UNCHANGED <<ctl, template, tableName, columns, tsCols, tsMaps, pat, errMsg, reqs>>

\* The parser select, then updateDateTimeParserOption (lines 1393-1409)
UpdateDateTimeParserOption(p) ==
    /\ Form /\ parser # "" /\ p # parser
    /\ parser' = p
    /\ IF p = "Long"
       THEN patterns' = {"MS", "S"} /\ pattern' = "MS" /\ UNCHANGED patPending
       ELSE /\ patPending < MaxRequests
            /\ patterns' = {} /\ patPending' = patPending + 1
            /\ UNCHANGED pattern
    /\ UNCHANGED <<ctl, template, tableName, columns, ts, selfDefined, errMsg, tplPending, saves, refreshes>>

\* getSupportedDatetimePatterns answers: the server's patterns and
\* '--- Other ---', and 'yyyy-MM-dd HH:mm:ss.SSS' selected, whatever the
\* parser is by then.  The error callback only returns.
PatternsResponse ==
    /\ patPending > 0
    /\ patPending' = patPending - 1
    /\ patterns' = {"Fmt", "Other"} /\ pattern' = "Fmt"
    /\ UNCHANGED <<ctl, template, tableName, columns, ts, parser, selfDefined, errMsg, tplPending, saves, refreshes>>

PatternsFail ==
    /\ patPending > 0
    /\ patPending' = patPending - 1
    /\ UNCHANGED <<ctl, formVars, tplPending, saves, refreshes>>

\* Mutant of UpdateTsPatternOption: '--- Other ---' stays the pattern.
UpdateTsPatternOptionKeepOther(p) ==
    /\ Form /\ p \in patterns /\ p # pattern
    /\ pattern' = p
    /\ selfDefined' = (p = "Other")
    /\ UNCHANGED <<ctl, template, tableName, columns, ts, parser, patterns, errMsg, reqs>>

\* The pattern select, then updateTsPatternOption (lines 1411-1419)
UpdateTsPatternOption(p) ==
    /\ Form /\ p \in patterns /\ p # pattern
    /\ pattern' = IF p = "Other" THEN "" ELSE p
    /\ selfDefined' = (p = "Other")
    /\ UNCHANGED <<ctl, template, tableName, columns, ts, parser, patterns, errMsg, reqs>>

\* The self-defined pattern input
TypePattern ==
    /\ Form /\ selfDefined /\ pattern # "Custom"
    /\ pattern' = "Custom"
    /\ UNCHANGED <<ctl, template, tableName, columns, ts, parser, patterns, selfDefined, errMsg, reqs>>

\* parser_info.field_mapping (lines 1459-1472): every column with a
\* comment maps to it with dots, a later column of the same name winning;
\* a rheos source then maps the TS column to TSColumnMappingArr at its
\* index in TSColumnArr.
CommentMapping ==
    LET named == {c \in Range(columns) : c.comment # Undef}
        last(n) == CHOOSE q \in 1..Len(columns) :
                      /\ columns[q].name = n /\ columns[q].comment # Undef
                      /\ \A p \in (q + 1)..Len(columns) :
                            ~(columns[p].name = n /\ columns[p].comment # Undef)
    IN  [n \in {c.name : c \in named} |-> Dots(columns[last(n)].comment)]
TSIndex == FirstIndex(tsCols, tsSelected)
FieldMapping ==
    IF sourceType = Rheos
    THEN (tsSelected :> Dots(tsMaps[TSIndex])) @@ CommentMapping
    ELSE CommentMapping

\* The checks of saveStreamingSource in order; "throws" where the code
\* throws a TypeError (columns undefined; TSColumnMappingArr[index]
\* undefined, index -1 included), "" when all pass.
SaveCheck ==
    IF ~ValidateTableName(tableName) THEN "name"
    ELSE IF columns = Undef THEN "throws"
    ELSE IF columns = <<>> THEN "empty"
    ELSE IF \A q \in 1..Len(columns) : IsDerived(columns[q]) THEN "derived"
    ELSE IF tsSelected = "" THEN "ts"
    ELSE IF sourceType = Rheos /\ (TSIndex = 0 \/ tsMaps[TSIndex] = Undef) THEN "throws"
    ELSE ""

\* saveStreamingSource (lines 1421-1521) up to the confirmed send
SaveStreamingSource(confirm) ==
    /\ Form
    /\ errMsg' = CASE SaveCheck \in {"", "throws"} -> "" [] OTHER -> "form"
    /\ IF SaveCheck = "" /\ confirm
       THEN saves < MaxRequests /\ saves' = saves + 1
       ELSE UNCHANGED saves
    /\ UNCHANGED <<ctl, template, tableName, columns, ts, pat, tplPending, patPending, refreshes>>

\* StreamingServiceV2.save succeeds: $scope.cancel() closes the modal and
\* the page's tree is refreshed.
SaveResponse ==
    /\ saves > 0
    /\ saves' = saves - 1
    /\ open' = FALSE /\ Destroyed
    /\ refreshes' = refreshes + 1
    /\ UNCHANGED <<sourceType, step, tplPending, patPending>>

\* Mutant of SaveFails: no message is shown.
SaveFailsSilent ==
    /\ saves > 0
    /\ saves' = saves - 1
    /\ UNCHANGED <<ctl, formVars, tplPending, patPending, refreshes>>

\* request.successful false, or the error callback: the message is shown
SaveFails ==
    /\ saves > 0
    /\ saves' = saves - 1
    /\ errMsg' = "saveFail"
    /\ UNCHANGED <<ctl, template, tableName, columns, ts, pat, tplPending, patPending, refreshes>>

Next ==
    \/ PreviewStep \/ NextStep \/ Cancel
    \/ \E t \in Samples \cup {Blank, Invalid} : EditTemplate(t)
    \/ GetTemplate
    \/ \E t \in Samples : TemplateResponse(t)
    \/ TemplateFails
    \/ GetTableData
    \/ \E n \in NameInputs : SetTableName(n)
    \/ \E i \in 1..Len(IF columns = Undef THEN <<>> ELSE columns) :
          RemoveColumn(i) \/ \E t \in DataTypes : ChangeColumnType(i, t)
    \/ \E c \in AddInputs : AddColumn(c)
    \/ \E c \in Range(tsCols) : SelectTSColumn(c)
    \/ \E p \in {"Long", "DateTime"} : UpdateDateTimeParserOption(p)
    \/ PatternsResponse \/ PatternsFail
    \/ \E p \in patterns : UpdateTsPatternOption(p)
    \/ TypePattern
    \/ \E confirm \in BOOLEAN : SaveStreamingSource(confirm)
    \/ SaveResponse \/ SaveFails

Spec == Init /\ [][Next]_vars

\* The server answers every request; the browser runs the callbacks.
Fairness ==
    /\ WF_vars((\E t \in Samples : TemplateResponse(t)) \/ TemplateFails)
    /\ WF_vars(PatternsResponse \/ PatternsFail)
    /\ WF_vars(SaveResponse \/ SaveFails)

FairSpec == Spec /\ Fairness

(***************************************************************************)
(* Properties                                                              *)
(***************************************************************************)
Str == Seq(Keys \cup {"|", "."})
Column == [name : STRING, datatype : DataTypes \cup {"timestamp", "int", "decimal", "date", "boolean", Undef},
           comment : Str \cup {Undef}, mapping : Str \cup {Undef}]

TypeOK ==
    /\ open \in BOOLEAN /\ sourceType \in {Kafka, Rheos} /\ step \in {1, 2}
    /\ template \in Samples \cup {Blank, Invalid}
    /\ columns = Undef \/ \A q \in 1..Len(columns) : columns[q] \in Column
    /\ tsMaps \in Seq(Str \cup {Undef})
    /\ parser \in {"", "Long", "DateTime"}
    /\ pattern \in {"", "MS", "S", "Fmt", "Custom"}
    /\ patterns \subseteq {"MS", "S", "Fmt", "Other"} /\ selfDefined \in BOOLEAN
    /\ {tplPending, patPending, saves} \subseteq 0..MaxRequests

\* The rheos save reads TSColumnMappingArr at the index of the TS column in
\* TSColumnArr, so the two lists must stay the same length through every
\* generate, add, retype and re-step of the form.
TSOptionsParallel == Len(tsCols) = Len(tsMaps)

\* A reference definition of flatStreamingJson: the paths to the leaves of
\* a sample.  Every leaf of the sample in the form becomes exactly one
\* column of getTableData, named by its path joined with '_' and commented
\* by it joined with '|'.
RECURSIVE LeafPaths(_)
LeafPaths(obj) ==
    UNION {IF IsObject(obj[q].val)
           THEN {<<obj[q].key>> \o p : p \in LeafPaths(obj[q].val.fields)}
           ELSE {<<obj[q].key>>} : q \in 1..Len(obj)}
FlattenMatchesLeaves ==
    template \in Samples =>
        LET flat == FlatObj(template, <<>>)
        IN  /\ Len(flat) = Cardinality(LeafPaths(template))
            /\ {<<flat[q].name, flat[q].comment>> : q \in 1..Len(flat)}
               = {<<JoinName(p), CommentOf(p)>> : p \in LeafPaths(template)}

\* A save that fails is never silent: after every confirmed save the modal
\* eventually closes (the table was created and the page refreshed) or
\* shows the failure.
SaveSettles == saves > 0 ~> (~open \/ errMsg = "saveFail")

\* The path a column's values are read from: its comment with dots for a
\* column of the sample, the typed field_mapping for an added one.
OwnPath(col) == IF col.comment # Undef THEN Dots(col.comment) ELSE col.mapping

\* A rheos table is saved with its timestamp column mapped to that
\* column's own source path.
SavedTSMapping ==
    [][saves' > saves /\ sourceType = Rheos =>
         \A q \in 1..Len(columns) :
           columns[q].name = tsSelected => FieldMapping[tsSelected] = OwnPath(columns[q])]_vars

\* A table is saved with a timestamp pattern its parser offers: MS or S
\* for LongTimeParser, a server pattern or a typed one for DateTimeParser.
PatternFitsParser ==
    [][saves' > saves =>
         /\ parser = "Long" => pattern \in {"MS", "S"}
         /\ parser = "DateTime" => pattern \in {"Fmt", "Custom"}]_vars

=============================================================================
