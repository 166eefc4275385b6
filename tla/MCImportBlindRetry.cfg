\* A retry that cannot list the rows of an import it has finished: the status against the rows.
CONSTANTS
  flat1 = flat1
  flat2 = flat2
  f1 = f1
  f2 = f2
  f3 = f3
  f4 = f4
  eft1 = eft1
  eft2 = eft2
  march = march
  april = april
  broken = broken
  NoParse = NoParse
  r1 = r1
  r2 = r2
  Accounts = {flat1, flat2}
  Due <- Levy
  References = {f1, f2, f3, f4, eft1, eft2}
  Batches <- OneBatch
  Requests = {r1}
  Imports = {march}
  Statement <- Statements
  Matches <- Clicks
SPECIFICATION Spec
INVARIANT StatusOutlivesRetry
