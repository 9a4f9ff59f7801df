\* Three attempts of two ticks, delays of one and two: a call lasts nine ticks.
CONSTANTS
  c1 = c1
  c2 = c2
  Calls = {c1, c2}
  Timeout = 2
  Attempts = 3
  Delay <- MCDelay
  Left <- MCLeft
  FailureThreshold = 2
  SuccessThreshold = 2
  ResetTimeout = 10
SPECIFICATION FairSpec
INVARIANTS TypeOK
PROPERTIES QuietBeforeProbe CallsEnd Recovers
