SPECIFICATION LinkSpec
CONSTANTS
  SCAN_NODE_LEN = 3
  MAX_DESYNC_DISCARD = 4
  Links <- MCPlainLinks
  Streams = {}
  Transports = {"serial", "replay"}
  scan_startup_timeout = 0
  response_timeout = 0
INVARIANTS
  OnlyGenuineNodes
  FaultsCostOnlyThemselvesUnlessDeceived
  RotationsKeptApart
