SPECIFICATION TurnFairSpec
CONSTANTS
  MaxBatch = 2
  MaxIterations = 3
  MaxToolCalls = 2
  MaxTurns = 2
  MaxDamage = 1
  RetryLimit <- OnceEach
  Modes = {"chat", "workflow"}
  FillPlanBatched = FALSE
INVARIANTS TurnTypeOK ContextIsValid TurnIsSound
PROPERTY RunEnds
CHECK_DEADLOCK FALSE
