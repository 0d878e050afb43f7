CONSTANTS
    Circle = 628
    Null = Null
    NaN = NaN
    Self = Self
    Matrices <- MCRefineMatrices
    Paddings = {0, 2}
    GroupSorts <- MCSorts
    SubgroupSorts <- MCSorts
    ChordSorts <- MCChordSorts
SPECIFICATION Spec
INVARIANTS
    TypeOK
    CacheCoherent
    GroupsTileCircle
    ChordsMatchPairs
