SPECIFICATION Spec
CONSTANTS
  Emails = {e1}
  Units = {u1}
  NoUnit = NoUnit
  Invites = {i1, i2}
  NoId = NoId
  Tokens = {1, 2}
  Requests = {r1, r2}
  Applications = {a1}
  Reviews = {v1}
INVARIANT ApprovedCanEnter
PROPERTIES StoredLinkWasMailed RevokedForGood
CHECK_DEADLOCK FALSE
SYMMETRY Alike
