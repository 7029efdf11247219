\* A rewrite is streamed, abandoned as stalled, and asked for again.
SPECIFICATION Spec
CONSTANTS
  r1 = r1
  Runs = {r1}
  r2 = r2
  Kinds = {"research"}
  Deliveries = {"json"}
  Faults = {}
  MaxConcurrent = 1
  MaxSteps = 2
  CheckpointEvery = 1
  MaxCheckpoints = 1
  MaxParseRetries = 1
  MaxDuplicateCalls = 1
  MaxReopens = 1
  MaxEmptyReportRetries = 1
  MaxRevalidationSteps = 1
  MaxRevalidationTurns = 2
  MaxCalls = 2
  Sections = 2
INVARIANTS
  NothingTorn
CHECK_DEADLOCK FALSE
