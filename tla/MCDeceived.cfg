SPECIFICATION LinkSpec
CONSTANTS
  SCAN_NODE_LEN = 3
  MAX_DESYNC_DISCARD = 4
  Links <- MCDeceitfulLinks
  Streams = {}
  Transports = {"replay"}
  scan_startup_timeout = 0
  response_timeout = 0
INVARIANTS
  FaultsCostOnlyThemselves
