SPECIFICATION FairExamples
CONSTANTS
  DESCRIPTOR_LEN = 2
  DEVINFO_LEN = 1
  DEVHEALTH_LEN = 1
  SCAN_NODE_LEN = 2
  BannerLen = 1
  motor_pwm = 660
  Operations <- MCOperations
  InitialModes = {"idle", "scanning"}
  InputSize = 3
  MaxCalls = 6
  MaxInFlight = 4
  Mains = {"info", "basic_scan", "rerun_viz", "record"}
  nodes = 1
INVARIANTS
  ProcessTypeOK
  FixturesAuthentic
  LeftIdle
PROPERTIES
  InfoAndRecordEnd
CHECK_DEADLOCK FALSE
