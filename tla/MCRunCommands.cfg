SPECIFICATION Spec
CONSTANTS
  Processes = {api, cli}
  Servers = {api}
  NoProcess = NoProcess
  Requests = {r1, r2}
  CancelIds = {c1}
  ResumeIds = {a1}
  ConfirmIds = {k1}
  Versioned = {c1, a1}
  MaxRevision = 3
  MaxCrashes = 1
INVARIANTS CommandsTypeOK EveryAnswerIsARevision CancelledRunIsQuiet
PROPERTIES AnswersAreTrue KeepsPromise CancellingEnds
CHECK_DEADLOCK FALSE
