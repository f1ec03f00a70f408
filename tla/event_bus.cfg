\* Two replicas, two messages, and a crash or a lost channel.
SPECIFICATION FairSpec
CONSTANTS
  c1 = c1
  c2 = c2
  m1 = m1
  m2 = m2
  Messages <- TwoMessages
  Replicas <- TwoReplicas
  Prefetch = 1
  MaxAttempts = 2
  MaxFaults = 1
INVARIANTS TypeOK  PoisonIsBounded
PROPERTIES  EveryMessageSettles
CHECK_DEADLOCK FALSE
