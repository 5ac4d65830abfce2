CONSTANTS
    Placeholders <- MCPlaceholders
    Values <- MCValues
    Definitions <- MCDefinitions
    Composites <- MCComposites
    UseCases <- MCUseCases
    MaxUseCases = 3
SPECIFICATION ClientSpec
CHECK_DEADLOCK FALSE
INVARIANTS Resolvable OverlapAgrees PlannedIsServed OneBoundary ShutdownIsNamed
