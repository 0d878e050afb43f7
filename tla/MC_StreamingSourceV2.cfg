CONSTANTS
    Kafka = Kafka
    Rheos = Rheos
    SourceTypes = {Rheos}
    Keys = {"ts", "user", "id", "x"}
    IdKeys = {"id"}
    Samples <- MCSamples
    Invalid = Invalid
    Blank = Blank
    AutoMeasures <- MCAutoMeasures
    DataTypes = {"varchar(256)"}
    NameInputs <- MCNameInputs
    AddInputs <- MCAddInputs
    Undef = Undef
    MaxRequests = 1
    MaxColumns = 2
SPECIFICATION FairSpec
INVARIANTS TypeOK TSOptionsParallel FlattenMatchesLeaves
PROPERTIES SaveSettles
CHECK_DEADLOCK FALSE
