SPECIFICATION Spec
CONSTANTS
  DESCRIPTOR_LEN = 2
  DEVINFO_LEN = 2
  DEVHEALTH_LEN = 1
  SCAN_NODE_LEN = 2
  BannerLen = 1
  motor_pwm = 660
  Operations <- MCQueries
  InitialModes = {"idle"}
  InputSize = 4
  MaxCalls = 3
  MaxInFlight = 3
INVARIANTS
  ProtocolErrorMeansMalformed
CHECK_DEADLOCK FALSE
