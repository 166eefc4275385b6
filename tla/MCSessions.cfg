\* Two requests at one time, three tokens, one reset link.
CONSTANTS
  Requests = {r1, r2}
  Tokens = {t1, t2, t3}
  Links = {link1}
  Passwords = {old, new}
  NoToken = NoToken
SPECIFICATION Spec
SYMMETRY Symmetry
INVARIANTS SessionHasOneToken LinkSetsOnePassword
PROPERTY NewPasswordEndsOldTokens
CHECK_DEADLOCK FALSE
