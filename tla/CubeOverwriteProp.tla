-------------------------- MODULE CubeOverwriteProp --------------------------
(***************************************************************************)
(* CubeOverWriteCtrl (src/webapp/app/js/controllers/cubeOverwriteProp.js): *)
(* the cube's override_kylin_properties object, the list                  *)
(* $scope.convertedProperties the page shows and edits, and the hoisted    *)
(* variable streamingProperties the conversion loop leaves behind.         *)
(*                                                                         *)
(* The object is a sequence of [name, value] entries in JS property order  *)
(* (insertion order: a new key goes last, an assignment to an existing key *)
(* keeps its place).  The controller body runs as one step (Construct);   *)
(* the TableService.get answer arrives later, between any two user edits. *)
(***************************************************************************)
EXTENDS Integers, Sequences, SequencesExt, FiniteSets

CONSTANTS
    DefaultKeys,     \* keys given a default in lines 34-48, in that order
    Purge,           \* '...retention.policy.purge.retentionTimeInSec'
    RheosKeys,       \* <<'...rheos.consumer.name', '...rheos.bootstrap.servers'>>
    SavedProps,      \* override_kylin_properties the cube can be loaded with
    EditNames,       \* names a user can type into a property row
    Values,          \* values a user can type, "" among them
    Default,         \* a truthy default (3600, 300, 'INMEM', 'fullBuild', 86400)
    Modes,           \* $scope.state.mode
    Undefined,       \* undefined
    MaxItems         \* bound on the rows the page shows

ASSUME "" \in Values /\ Default \notin Values \cup {""}

VARIABLES
    mode,            \* $scope.state.mode
    isStreamingCube, \* storage_type === 3
    tableIsRheos,    \* what TableService.get will answer for the fact table
    phase,           \* "new" before the controller body ran, then "ready"
    props,           \* $scope.cubeMetaFrame.override_kylin_properties
    converted,       \* $scope.convertedProperties
    streamingProperties, \* the function-scoped var of the conversion loop
    isRheosCube,
    getPending       \* TableService.get in flight

vars == <<mode, isStreamingCube, tableIsRheos, phase, props, converted,
          streamingProperties, isRheosCube, getPending>>

Entry(k, v) == [name |-> k, value |-> v]
Names(p)    == {p[q].name : q \in 1..Len(p)}
Lookup(p, k) == IF k \in Names(p) THEN p[CHOOSE q \in 1..Len(p) : p[q].name = k].value
                ELSE Undefined
Truthy(v)   == v \notin {"", Undefined}
\* Mutant of Put: an assignment appends a second entry for a present key.
PutAppend(p, k, v) == Append(p, Entry(k, v))

\* obj[k] = v
Put(p, k, v) ==
    IF k \in Names(p)
    THEN [q \in 1..Len(p) |-> IF p[q].name = k THEN Entry(k, v) ELSE p[q]]
    ELSE Append(p, Entry(k, v))
\* delete obj[k]
Del(p, k) == SelectSeq(p, LAMBDA e : e.name # k)

\* The streaming keys of line 82
StreamingList == Range(DefaultKeys) \cup {Purge}

\* Lines 33-49: each streaming key with a falsy value gets its default
Defaults(p) ==
    FoldLeft(LAMBDA acc, k : IF Truthy(Lookup(acc, k)) THEN acc
                             ELSE Put(acc, k, Default),
             p, DefaultKeys)

\* One iteration of the loop of lines 79-98.  streamingProperties is
\* re-created for every key; a rheos key adds both rheos keys to it.
ConvertStep(streaming, acc, e) ==
    LET base  == IF streaming THEN StreamingList ELSE {}
        rheos == e.name \in Range(RheosKeys)
        sp    == IF rheos THEN base \cup Range(RheosKeys) ELSE base
    IN  [conv  |-> IF e.name \in sp THEN acc.conv ELSE Append(acc.conv, e),
         sp    |-> sp,
         rheos |-> acc.rheos \/ rheos]

\* The loop; sp is what streamingProperties holds after it (undefined if
\* the object had no key).
Convert(p, streaming, rheos0) ==
    FoldLeft(LAMBDA acc, e : ConvertStep(streaming, acc, e),
             [conv |-> <<>>, sp |-> Undefined, rheos |-> rheos0], p)

\* Mutant of RefreshedObj: the object is rebuilt from {} for every cube.
RefreshedObjClearAll(p, conv, sp) ==
    FoldLeft(LAMBDA acc, e : Put(acc, e.name, e.value), <<>>, conv)

\* Mutant of RefreshedObj: the streaming branch deletes nothing.
RefreshedObjNoDelete(p, conv, sp) ==
    LET base == IF isStreamingCube THEN p ELSE <<>>
    IN  FoldLeft(LAMBDA acc, e : Put(acc, e.name, e.value), base, conv)

\* refreshPropertiesObj (lines 113-127) on a non-throwing path: keep the
\* keys in streamingProperties (streaming cube) or start from {} and
\* assign every row in list order.
RefreshedObj(p, conv, sp) ==
    LET base == IF isStreamingCube THEN SelectSeq(p, LAMBDA e : e.name \in sp)
                ELSE <<>>
    IN  FoldLeft(LAMBDA acc, e : Put(acc, e.name, e.value), base, conv)

\* streamingProperties.indexOf(prop) on undefined: a TypeError at the
\* first key, before anything is deleted.
RefreshThrows(p) == isStreamingCube /\ streamingProperties = Undefined /\ p # <<>>

RefreshPropertiesObj(conv) ==
    props' = IF RefreshThrows(props) THEN props
             ELSE RefreshedObj(props, conv, streamingProperties)

(***************************************************************************)
(* Init: a cube as loaded, before the controller runs.                     *)
(***************************************************************************)
Init ==
    /\ mode \in Modes
    /\ isStreamingCube \in BOOLEAN
    /\ tableIsRheos \in BOOLEAN
    /\ phase = "new"
    /\ props \in SavedProps
    /\ converted = <<>>
    /\ streamingProperties = Undefined
    /\ isRheosCube = FALSE
    /\ getPending = FALSE

\* The controller body (lines 21-98): defaults, send TableService.get,
\* convert.
Construct ==
    LET streamingEdit == mode = "edit" /\ isStreamingCube
        p == IF streamingEdit THEN Defaults(props) ELSE props
        c == Convert(p, isStreamingCube, FALSE)
    IN  /\ phase = "new"
        /\ phase' = "ready"
        /\ props' = p
        /\ converted' = c.conv
        /\ streamingProperties' = c.sp
        /\ isRheosCube' = c.rheos
        /\ getPending' = streamingEdit
        /\ UNCHANGED <<mode, isStreamingCube, tableIsRheos>>

\* TableService.get's success callback (lines 55-64)
GetResponse ==
    /\ getPending
    /\ getPending' = FALSE
    /\ IF tableIsRheos
       THEN /\ isRheosCube' = TRUE
            /\ props' = FoldLeft(LAMBDA acc, k : IF Truthy(Lookup(acc, k)) THEN acc
                                                 ELSE Put(acc, k, ""),
                                 props, RheosKeys)
       ELSE UNCHANGED <<isRheosCube, props>>
    /\ UNCHANGED <<mode, isStreamingCube, tableIsRheos, phase, converted,
                   streamingProperties>>

\* TableService.get's error callback: an alert only
GetFails ==
    /\ getPending
    /\ getPending' = FALSE
    /\ UNCHANGED <<mode, isStreamingCube, tableIsRheos, phase, props, converted,
                   streamingProperties, isRheosCube>>

UserStep == phase = "ready"

\* addNewProperty (lines 101-111); a second empty row is refused
AddNewProperty ==
    /\ UserStep
    /\ Len(converted) < MaxItems
    /\ "" \notin Names(props)
    /\ props' = Put(props, "", "")
    /\ converted' = Append(converted, Entry("", ""))
    /\ UNCHANGED <<mode, isStreamingCube, tableIsRheos, phase,
                   streamingProperties, isRheosCube, getPending>>

\* A row edited in place, then refreshProperty (lines 130-133)
RefreshProperty(index, item) ==
    /\ UserStep
    /\ converted' = [converted EXCEPT ![index] = item]
    /\ RefreshPropertiesObj(converted')
    /\ UNCHANGED <<mode, isStreamingCube, tableIsRheos, phase,
                   streamingProperties, isRheosCube, getPending>>

\* removeProperty (lines 136-141)
RemoveProperty(index) ==
    /\ UserStep
    /\ converted' = RemoveAt(converted, index)
    /\ props' = Del(props, converted[index].name)
    /\ UNCHANGED <<mode, isStreamingCube, tableIsRheos, phase,
                   streamingProperties, isRheosCube, getPending>>

\* changeStreamingRetentionPolicy (lines 143-150), offered on the
\* streaming settings of a streaming cube
ChangeStreamingRetentionPolicy(policy) ==
    /\ UserStep
    /\ isStreamingCube
    /\ \/ policy = "fullBuild" /\ Truthy(Lookup(props, Purge))
          /\ props' = Del(props, Purge)
       \/ policy = "purge" /\ props' = Put(props, Purge, Default)
    /\ UNCHANGED <<mode, isStreamingCube, tableIsRheos, phase, converted,
                   streamingProperties, isRheosCube, getPending>>

Next ==
    \/ Construct
    \/ GetResponse
    \/ GetFails
    \/ AddNewProperty
    \/ \E i \in 1..Len(converted), it \in [name : EditNames, value : Values] :
          RefreshProperty(i, it)
    \/ \E i \in 1..Len(converted) : RemoveProperty(i)
    \/ \E policy \in {"fullBuild", "purge"} : ChangeStreamingRetentionPolicy(policy)

Spec == Init /\ [][Next]_vars

(***************************************************************************)
(* Properties                                                              *)
(***************************************************************************)
Key == Range(DefaultKeys) \cup {Purge} \cup Range(RheosKeys) \cup EditNames
       \cup UNION {Names(p) : p \in SavedProps}
Val == Values \cup {Default}

TypeOK ==
    /\ mode \in Modes
    /\ phase \in {"new", "ready"}
    /\ props \in Seq([name : Key, value : Val])
    /\ Cardinality(Names(props)) = Len(props)
    /\ converted \in Seq([name : Key, value : Val])
    /\ streamingProperties \in SUBSET Key \cup {Undefined}
    /\ isRheosCube \in BOOLEAN
    /\ getPending \in BOOLEAN

\* Editing a streaming cube: the streaming settings given a default when
\* the page opened keep a value through every later add, edit and remove
\* of a row.  refreshPropertiesObj deletes every key that is not in the
\* streamingProperties the conversion loop left behind, so this rests on
\* that leftover list still naming them.
DefaultsKept ==
    phase = "ready" /\ mode = "edit" /\ isStreamingCube =>
      \A k \in Range(DefaultKeys) : Truthy(Lookup(props, k))

\* No property the user can see is lost from the page: every key of the
\* object that is not a streaming or rheos setting is the name of a row
\* of convertedProperties, however rows are added, renamed and removed
\* (refreshPropertiesObj must drop the old name of a renamed row).
UserKeysListed ==
    phase = "ready" =>
      \A k \in Names(props) \ (StreamingList \cup Range(RheosKeys)) :
        k \in Names(converted)

\* A rheos setting of a streaming cube that the page does not list as a
\* row (the conversion loop hid it, or TableService.get added it later)
\* is kept by every step: no edit of the rows deletes it.
RheosSettingsKept ==
    [][isStreamingCube /\ phase = "ready" =>
         \A k \in Range(RheosKeys) :
           k \in Names(props) /\ k \notin Names(converted) => k \in Names(props')]_vars

=============================================================================
