CONSTANTS
    Kafka = Kafka
    Rheos = Rheos
    SourceTypes = {Rheos}
    Keys = {"ts", "user", "id", "x"}
    IdKeys = {"id"}
    Samples <- MCSamples
    Invalid = Invalid
    Blank = Blank
    AutoMeasures <- MCAutoMeasures
    DataTypes = {"timestamp", "varchar(256)"}
    NameInputs <- MCNameInputs
    AddInputs <- MCAddInputs
    Undef = Undef
    MaxRequests = 1
    MaxColumns = 3
SPECIFICATION Spec
PROPERTY SavedTSMapping
CHECK_DEADLOCK FALSE
