CONSTANTS
    Parts <- MCParts
    Frames <- MCFrames
    PartOf <- MCPartOf
    Contents <- MCContents
    Budgets <- MCBudgets
    Requested <- MCRequested
    Span <- MCSpan
    MaxWindows = 2
    MaxSpan = 4
    Pool = TRUE
    Readers <- MCReaders
    PruneData = TRUE
    None = None
    MaxStops = 2
SPECIFICATION Spec
INVARIANTS IInv ResumeContinues ReportsAlike LossIsNamed InputsOutliveTheRun
PROPERTY RunEnds
