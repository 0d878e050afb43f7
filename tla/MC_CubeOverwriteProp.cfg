CONSTANTS
    DefaultKeys <- MCDefaultKeys
    RheosKeys <- MCRheosKeys
    SavedProps <- MCSavedProps
    Purge = "purge"
    EditNames = {"", "u", "w"}
    Values = {"", "v"}
    Default = "d"
    Modes = {"edit"}
    Undefined = Undefined
    MaxItems = 3
SPECIFICATION Spec
INVARIANTS TypeOK DefaultsKept UserKeysListed
