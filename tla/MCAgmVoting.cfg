\* Four members and two resolutions with one request at a time, three and one with two.
CONSTANTS
  Members = {ann, ben, cat, dan}
  Resolutions = {budget, roof}
  Requests = {r1, r2}
SPECIFICATION MeetingSpec
SYMMETRY Symmetry
INVARIANTS TotalsAreCurrent NobodyIsShutOut EachMemberCountsOnce QuorumIsReal
PROPERTIES OutcomeIsFinal
CHECK_DEADLOCK FALSE
