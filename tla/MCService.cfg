\* Throttle: two requests from one address for two names. Google: two windows,
\* two people, one identity, two flows. Tiers: one chat in two configurations.
\* Models: three attempts, as in the code.  Agent: three tiers, three steps. Batches: two of two commands in two processes.
\* Mcp: two requests, a server restarted once, a message of each kind and one more.
\* Functions: two calls, a function published twice anew.
SPECIFICATION ServiceSpec
CONSTANTS
  x1 = x1
  x2 = x2
  y1 = y1
  y2 = y2
  b1 = b1
  b2 = b2
  web = web
  cli = cli
  Requests = {r1, r2}
  Addresses = {addr}
  Usernames = {u1, u2}
  Free = 2
  FirstWait = 2
  Ceiling = 4
  Tracked = 2
  HashSlots = 1
  MaxTicks = 6
  Windows = {x1, x2}
  People = {y1, y2}
  Identities = {sub1}
  Nobody = Nobody
  MaxFlows = 2
  Capacity = 2
  MaxExchanges = 1
  MaxVersion = 2
  Chats = {chat1}
  BusyCooldown = 1
  BrokenCooldown = 2
  MaxWall = 2
  Setups <- TheSetups
  HttpAttempts = 3
  TierCount = 3
  MaxSteps = 3
  Batch = {b1, b2}
  ProcessOf <- TheProcess
  Planner = planner
  Foreman = foreman
  Specialists = {planner, foreman}
  Width = 2
  MostRuns = 1
  Size = 2
  MaxRuns = 2
  Asking = {x1, x2}
  NoRequest = NoRequest
  MaxServers = 2
  MaxIds = 4
  MaxLines = 1
  MaxConfigs = 1
  Callers = {x1, x2}
  LookupEvery = 2
  MaxFunctions = 3
  MaxSeconds = 3
SYMMETRY Symmetry
INVARIANTS
  ServiceTypeOK GuessesAreThrottled GoogleLinksHold
  RepliesAreWhole WorkIsAccountedFor
PROPERTY FoundIdsAreTheNewest
\* Clocks, numbers and runs are bounded, and a run or batch ends.
CHECK_DEADLOCK FALSE
