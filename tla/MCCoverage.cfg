SPECIFICATION Spec
CONSTANTS
  SCAN_NODE_LEN = 5
  Pwms = {}
  NodeWindows = {}
  DescriptorBytes = {}
  Identities = {}
  HealthBytes = {}
  PortLists = {}
  Rotation <- MCWireRotation
INVARIANTS
  CoverageInRange
CHECK_DEADLOCK FALSE
