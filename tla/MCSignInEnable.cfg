\* A password change in flight while its account is disabled and enabled again.
SPECIFICATION CrewSpec
CONSTANTS
  a1 = a1
  a2 = a2
  s1 = s1
  s2 = s2
  c1 = c1
  c2 = c2
  Accounts = {a1, a2}
  Tokens = {s1, s2}
  Clients = {c1, c2}
  Terminals = {}
  None = None
  MaxEpoch = 2
SYMMETRY Symmetry
PROPERTY EnableBringsBackNothing
