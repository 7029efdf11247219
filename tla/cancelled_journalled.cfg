\* DELETE while the run writes in sections.
SPECIFICATION Spec
CONSTANTS
  r1 = r1
  Runs = {r1}
  r2 = r2
  Kinds = {"research"}
  Deliveries = {"stream"}
  Faults = {}
  MaxConcurrent = 1
  MaxSteps = 2
  CheckpointEvery = 1
  MaxCheckpoints = 1
  MaxParseRetries = 1
  MaxDuplicateCalls = 1
  MaxReopens = 1
  MaxEmptyReportRetries = 1
  MaxRevalidationSteps = 1
  MaxRevalidationTurns = 2
  MaxCalls = 2
  Sections = 2
INVARIANTS
  CancelledIsNotJournalled
CHECK_DEADLOCK FALSE
