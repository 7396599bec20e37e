SPECIFICATION AssistedSpec
CONSTANTS
  MaxIterations = 3
  MaxCalls = 2
  MaxRetries = 1
  IntentSteps = 3
INVARIANTS
  HonestStatus
  FailureIsClassified
  PlannerMakesProgress
PROPERTIES
  PauseStops
  Termination
  ImplementsRun
