CONSTANTS
    Parts <- MCParts
    Frames <- MCFrames
    PartOf <- MCPartOf
    Contents <- PlainContents
    Budgets <- MCBudgets
    Requested <- MCRequested
    Span <- MCSpan
    MaxWindows = 2
    MaxSpan = 4
    Pool = TRUE
    Readers <- OneReader
    PruneData = TRUE
    None = None
    MaxStops = 1
SPECIFICATION Spec
INVARIANT StopIsAPause
