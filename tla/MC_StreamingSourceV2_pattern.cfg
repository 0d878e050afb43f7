CONSTANTS
    Kafka = Kafka
    Rheos = Rheos
    SourceTypes = {Kafka}
    Keys = {"ts", "user", "id", "x"}
    IdKeys = {"id"}
    Samples <- MCSamples
    Invalid = Invalid
    Blank = Blank
    AutoMeasures <- MCAutoMeasures
    DataTypes = {"varchar(256)"}
    NameInputs <- MCNameInputs
    AddInputs <- MCAddInputs
    Undef = Undef
    MaxRequests = 1
    MaxColumns = 2
SPECIFICATION Spec
PROPERTY PatternFitsParser
CHECK_DEADLOCK FALSE
