SPECIFICATION FairRecon
CONSTANTS
  U32 = 8
  NotSent <- MCNotSent
  Pipelines <- MCPipelines
  Registry <- MCRegistry
  Entities <- MCEntities
  Seed <- MCSeed
  Outputs <- MCOutputs
  Target <- MCTarget
  Ids <- MCIds
  KeyOf <- MCKeyOf
  Kinds <- MCKinds
  Sources <- MCSources
  Reports <- MCReports
  SameName <- MCSameName
INVARIANTS
  AddedOnce
  PrintedIsComplete
  SoleInstancesLinked
  ChecksAgree
PROPERTY
  ProcessEnds
