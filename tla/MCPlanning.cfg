SPECIFICATION Spec
CONSTANTS
  Workers = {api, cli}
  NamesRecur = {cli}
  NoWorker = NoWorker
  DeadName = DeadName
  MaxGeneration = 3
  MaxRevision = 2
  MaxTrouble = 1
INVARIANTS PlanningTypeOK NoOpenAttemptLeft CallIsRecorded PlanIsCurrent
PROPERTIES PlanningSettles
CHECK_DEADLOCK FALSE
