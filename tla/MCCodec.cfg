SPECIFICATION Spec
CONSTANTS
  SCAN_NODE_LEN = 5
  Pwms <- MCPwms
  NodeWindows <- MCNodeWindows
  DescriptorBytes <- MCDescriptorBytes
  Identities <- MCIdentities
  HealthBytes <- MCHealthBytes
  PortLists <- MCPortLists
  Rotation <- MCRotation
INVARIANTS
  
  OneDescriptorPerRequest
  NodesLossless
  PayloadsDecoded
  CoverageOfATurn
  PreferredPort
CHECK_DEADLOCK FALSE
