\* The server may stop in the middle of a body.
CONSTANTS
  j1 = j1
  j2 = j2
  j3 = j3
  NoRetryAfter = NoRetryAfter
  Jobs = {j1, j2, j3}
  Concurrency = 2
  MaxRetries = 1
  MaxBackoff = 2
  DefaultBackoff = 1
  RetryAfters = {0, 3, NoRetryAfter}
  MaxForces = 1
SPECIFICATION QueueSpec
PROPERTIES QueueNeverStalls
CHECK_DEADLOCK FALSE
