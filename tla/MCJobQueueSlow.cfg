\* Leases may run out while their holders work: what still holds, and that jobs end.
CONSTANTS
  Jobs = {j1, j2}
  Keys = {mail, mystery}
  Registered = {mail}
  Payloads = {p}
  Workers = {w1, w2}
  MaxAttempts = 2
  BatchSize = 2
  LeaseCovers = FALSE
SPECIFICATION FairSpec
INVARIANTS OneLiveJobPerKey EveryRunIsCharged
PROPERTIES EveryJobEnds
