SPECIFICATION Spec
CONSTANTS
  Replica = {r1, r2, r3}
  Agreement = 3
  FirstLimit = 3
  Limit = 2
  Sizes <- MCSizes
  Capacity = 2
  MaxVersion = 3
  MaxLost = 2
  MaxCalls = 2
SYMMETRY Replicas
INVARIANTS TypeOK Gapless UnchangingReplyReceived RetryAgrees CacheBounded
CHECK_DEADLOCK FALSE
