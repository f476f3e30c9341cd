SPECIFICATION Spec
CONSTANTS
  U32 = 8
  NotSent <- MCNotSent
  Pipelines <- StageNamedSeed
  Registry <- MCRegistry
  Entities <- MCEntities
  Seed <- MCSeed
  Outputs <- MCOutputs
INVARIANT
  DeclaredOrder
