\* Leases may run out while their holders work: a requeued job may be out of attempts.
CONSTANTS
  Jobs = {j1, j2}
  Keys = {mail, mystery}
  Registered = {mail}
  Payloads = {p}
  Workers = {w1, w2}
  MaxAttempts = 2
  BatchSize = 2
  LeaseCovers = FALSE
SPECIFICATION Spec
SYMMETRY Symmetry
INVARIANTS SpentJobIsFailed
