SPECIFICATION Spec
CONSTANTS
    Indexes <- MCIndexes
    Entries <- MCEntries
    MaxDepths <- MCMaxDepths
INVARIANTS
    TypeOK
    WalkIsFreshChain
    EndingIsJustified
    CleanIffShortChain
    LoopComputesResolve
PROPERTY WalkEnds
