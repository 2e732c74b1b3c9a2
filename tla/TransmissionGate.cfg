CONSTANTS
  MinFallbackDelay = 2
  MaxFallbackDelay = 5
  Senders = {s1, s2, s3}
  RetryAfters = {0, 1, 9}
  MaxTime = 7
  MaxGeneration = 2
  NoPermit = NoPermit
SPECIFICATION GateSpec
INVARIANTS ProbeIsOneSend
PROPERTIES BackoffLiftedByLaterSend BurstEscalatesOnce
