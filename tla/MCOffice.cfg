\* The registry, billing, compliance, levy books, health and attention queue of one scheme.
SPECIFICATION Spec
CONSTANTS
  Schemes = {s1}
  MaxEvents = 1
  UnitIds = {u1, u2}
  Whole = 3
  MaxCount = 2
  Requests = {r1, r2}
  Payers = {p1, p2}
  Calls = {c1, c2}
  MaxSent = 3
  Items = {i1}
  Officers = {o1, o2}
  Periods = {1, 2}
  Names = {jan}
  Homes = {h1, h2}
  Levy = 4
  Payments = {3, 5}
  Costs = {1, 6}
  Reserves = {0, 7}
  Months = 3
  Nearest = 5
  Admins = {a1, a2}
  Billed = 3
  MaxOpen = 2
  MaxItems = 2
  Target = 3
  MonthMarks = {0, 12, 13, 31, 32}
  FirstDays = {0, 27, 85}
  Days = 12
  Balances = {145000, 380000, 930000}
INVARIANTS QuotasFit EntitledOnProvidersWord OrderedIsCurrent EditsKept IncreaseCovers BilledOnce
PROPERTIES TrailIsKept HealthFollowsFacts UrgencyIsMonotone
SYMMETRY Alike
CHECK_DEADLOCK FALSE
