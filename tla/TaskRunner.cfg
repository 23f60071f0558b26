SPECIFICATION RunnerSpec
CONSTANT Approvals = {a1}

CHECK_DEADLOCK FALSE
INVARIANTS
    RunnerTypeOK
    AuthorisedEffects
    CommitsAreValidated
    CompletedIsDelivered
    FailureIsExplained
    LoopIsBounded
    StoppedIsSettled
    ObserverKeepsUp
PROPERTIES
    FailureStopsTheRun
    HistoryOnlyGrows
    ApprovalsSurvive
    KeepsThePromise
