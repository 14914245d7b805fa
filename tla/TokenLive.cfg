SPECIFICATION FairSpec
CONSTANTS
  Requests = {r1, r2, r3}
  Lifetime <- ShortLifetime
  MaxDelay = 2
INVARIANTS FreshTokenServes SkewInv
PROPERTY KeepsServing
