\* Two requests of one account, two passwords, two sessions or a session and its rotation.
CONSTANTS
  Requests = {r1, r2}
  Passwords = {p1, p2}
  RecoveryCodes = {k1}
  MaxRows = 3
  MaxTokens = 1
  MaxGeneration = 1
  None = None
SPECIFICATION Spec
INVARIANTS
  LiveSessionsAreCurrent
  OneTokenPerSession
  OldPasswordOpensNothing
  OneTimeTokens
  OneMemberPerInvite
SYMMETRY Symmetry
