CONSTANTS
    run = run
    fetch = fetch
    derive = derive
    publish = publish
    w1 = w1
    w2 = w2
    nobody = nobody
    Runs = {run}
    Tasks = {fetch, derive, publish}
    RunOf <- MCRunOf
    Deps <- MCDeps
    Workers = {w1, w2}
    NoWorker = nobody
    SideEffect = {publish}
    Idempotent = {fetch, derive}
    MayBeEmpty = {derive}
    OutputOptional = {}
    MaxAttempts <- MCMaxAttempts
    Retryable <- MCRetryable
    MaxGeneration = 3
SPECIFICATION Spec
INVARIANT ReadyOnlyWhenConfirmed
CHECK_DEADLOCK FALSE
