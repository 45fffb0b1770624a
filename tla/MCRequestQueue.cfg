\* Four jobs for two slots, one retry each, a backoff of up to two time units asked
\* for by headers that ask for none, for more than the cap, or for nothing.
CONSTANTS
  j1 = j1
  j2 = j2
  j3 = j3
  j4 = j4
  NoRetryAfter = NoRetryAfter
  Jobs = {j1, j2, j3, j4}
  Concurrency = 2
  MaxRetries = 1
  MaxBackoff = 2
  DefaultBackoff = 1
  RetryAfters = {0, 3, NoRetryAfter}
  MaxForces = 1
SPECIFICATION SpecBodiesEnd
INVARIANTS QueueTypeOK CeilingHeld NeverIdleWithWork RetriesFirst
PROPERTIES BackoffHonoured EveryJobSettles
CHECK_DEADLOCK FALSE
