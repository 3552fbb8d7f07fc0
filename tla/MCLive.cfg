\* Storage: two threads of one process and one of another, two updates.
\* Reminders: two reminders, one conversation, one open page, one time unit.
\* Stopping: two requests, one stop kept at a time.
\* Mcp: two requests to one server, a message of each kind and one more.
\* Approvals: two turns of an account, one card.
SPECIFICATION LiveSpec
CONSTANTS
  t1 = t1
  t2 = t2
  t3 = t3
  p1 = p1
  p2 = p2
  Threads = {t1, t2, t3}
  Processes = {p1, p2}
  HomeOf <- TheHome
  Updates = {u1, u2}
  MaxDamage = 2
  NoUpdate = NoUpdate
  MaxReminders = 2
  Voices = {v1}
  Tabs = {tab}
  Lengths = {1}
  MaxTime = 1
  Calls = {c1, c2}
  MaxAge = 2
  MaxPending = 1
  MaxMoments = 2
  Asking = {r1, r2}
  NoRequest = NoRequest
  MaxServers = 1
  MaxIds = 4
  MaxLines = 1
  MaxConfigs = 1
  Turns = {turn1, turn2}
  Cards = {k1}
  Accounts = {dev}
  Developers = {dev}
  None = None
INVARIANT LiveTypeOK
PROPERTIES StoreKeepsItsWord RemindersAreKept StopIsObeyed LocksAreGivenUp
\* Every update made, every reminder settled and every request answered.
CHECK_DEADLOCK FALSE
