SPECIFICATION FairSpec
CONSTANTS
  Stages <- MCStages
  Questions <- MCQuestions
  Asks <- MCAsks
  Servers <- MCServers
  Resolvers <- MCResolvers
  Ports <- MCPorts
  U16 = 6
  MaxQueries = 6
INVARIANTS
  RInv
  AnswersMatchQuestions
PROPERTY
  LookupsEnd
