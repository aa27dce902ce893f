SPECIFICATION SupSpec
CONSTANTS
    run = run
    fetch = fetch
    publish = publish
    w1 = w1
    w2 = w2
    nobody = nobody
    noTask = noTask
    noRun = noRun
    Runs = {run}
    Tasks = {publish}
    RunOf <- MCRunOf
    Deps <- MCDeps
    Workers = {w1, w2}
    NoWorker = nobody
    NoTask = noTask
    NoRun = noRun
    SideEffect = {publish}
    Idempotent = {}
    MayBeEmpty = {}
    OutputOptional = {}
    MaxAttempts <- MCMaxAttempts
    Retryable <- MCRetryable
    MaxGeneration = 2
    Commands = {"cancel", "confirm", "resume", "recover"}
INVARIANTS
    SupTypeOK
    SideEffectRunsOnce
    EffectNeedsConfirmation
PROPERTIES
    Spec
CHECK_DEADLOCK FALSE
