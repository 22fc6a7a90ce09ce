SPECIFICATION FairSpec
CONSTANTS
  SCAN_NODE_LEN = 3
  MAX_DESYNC_DISCARD = 2
  Streams <- MCStreams
  Transports = {"serial"}
  scan_startup_timeout = 2
  response_timeout = 1
INVARIANTS
  FirstNodeBudget
