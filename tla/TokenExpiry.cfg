SPECIFICATION Spec
CONSTANTS
  Requests = {r1}
  Lifetime <- ShortLifetime
  MaxDelay = 2
INVARIANT ExpiresFirst
