SPECIFICATION Spec
CONSTANTS
  U32 = 8
  NotSent <- MCNotSent
  Pipelines <- SeedDependency
  Registry <- MCRegistry
  Entities <- MCEntities
  Seed <- MCSeed
  Outputs <- MCOutputs
INVARIANT
  PanicsOnlyWithPlugin
