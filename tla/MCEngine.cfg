SPECIFICATION FairSpec
CONSTANTS
  U32 = 8
  NotSent <- MCNotSent
  Pipelines <- AllPipelines
  Registry <- MCRegistry
  Entities <- MCEntities
  Seed <- MCSeed
  Outputs <- MCOutputs
INVARIANTS
  IInv
  DependencyOrder
  InputProvenance
  VerdictMatchesStages
  NoCircularWait
  RetriesExhausted
PROPERTIES
  BroadcastIsFinal
  ImplementsSchedule
  Terminates
  PanicPropagates
