SPECIFICATION FairSpec
CONSTANTS
  Values <- MCValues
  Addresses <- MCAddresses
  U16 = 8
  DEFAULT_PORTS <- MCDefaultPorts
  Inputs <- MCInputs
  Configs <- MCConfigs
INVARIANTS
  PInv
  HandshakesReported
  HostsLinkTheirPorts
PROPERTY
  ScanEnds
