SPECIFICATION Spec
CONSTANTS
  DESCRIPTOR_LEN = 1
  DEVINFO_LEN = 2
  DEVHEALTH_LEN = 1
  SCAN_NODE_LEN = 2
  BannerLen = 1
  motor_pwm = 660
  Operations <- MCOperations
  InitialModes = {"idle", "scanning"}
  InputSize = 3
  MaxCalls = 3
  MaxInFlight = 5
INVARIANTS
  TypeOK
  
  OwnAnswer
  ScanFromQuiet
CHECK_DEADLOCK FALSE
