CONSTANTS
    Tables <- MCTables
    Cubes <- MCCubes
    Links <- MCLinks
    Circle = 628
    Null = Null
    NaN = NaN
    LayoutPadding = 2
    MaxPending = 2
    MaxTimers = 1
SPECIFICATION Spec
PROPERTY
    ImplementsClickIntent
