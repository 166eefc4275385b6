\* Maintenance requests, the WhatsApp inbox and bank statements of one scheme.
SPECIFICATION DeskSpec
CONSTANTS
  Contractors = {c1}
  Orgs = {ours, theirs}
  Ours = ours
  Tickets = {t1, t2}
  Clerks = {k1, k2}
  ByName = ByName
  Messages = {m1, m2}
  Slots = 2
  NoTicketId = NoTicketId
  flat1 = flat1
  flat2 = flat2
  f1 = f1
  f2 = f2
  f3 = f3
  f4 = f4
  eft1 = eft1
  eft2 = eft2
  march = march
  april = april
  broken = broken
  NoParse = NoParse
  r1 = r1
  r2 = r2
  Accounts = {flat1, flat2}
  Due <- Levy
  References = {f1, f2, f3, f4, eft1, eft2}
  Batches <- TwoBatches
  Requests = {r1, r2}
  Imports = {march, april, broken}
  Statement <- Statements
  Matches <- Clicks
INVARIANTS OfferedIsAssignable ReviewedWorkWasDone DecidedOnce CountsAreHonest
INVARIANTS BooksAreExact EachPaymentHasRow OncePerAccount PaidIsBacked AppliedRowHasPayment
INVARIANT AppliedImportIsDone
PROPERTY ResolvedIsDone
SYMMETRY Alike
CHECK_DEADLOCK FALSE
