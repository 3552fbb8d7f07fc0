\* Two accounts, two sessions, and two requests or a request and a command at once.
SPECIFICATION CrewSpec
CONSTANTS
  a1 = a1
  a2 = a2
  s1 = s1
  s2 = s2
  c1 = c1
  c2 = c2
  cli = cli
  Accounts = {a1, a2}
  Tokens = {s1, s2}
  Clients = {c1, c2}
  Terminals = {cli}
  None = None
  MaxEpoch = 2
SYMMETRY Symmetry
INVARIANT TypeOK AcceptedIsCurrent OneOwner
PROPERTY AdmittedIsCurrent RebindKeepsTheChanger WebKeepsADeveloper
