\* The same instance: a job of the ticker is cancelled.
SPECIFICATION PartsSpec
CONSTANTS
  Sentences <- TheSentences
  Topics = {"none", "scene", "diagram", "text"}
  MostParts = 2
  MostTurns = 2
  Calls = {call1, call2}
  Devices = {here, phone}
  Local = here
  SmallBody = 1
  LargestBody = 2
  MostGuesses = 1
  GuessersTracked = 1
  KeepNewest = 1
  MaxAge = 0
  MaxClock = 1
  Budget = 4
  MinAttempt = 2
  act1 = act1
  act2 = act2
  Acts = {act1, act2}
  Wanted <- CalledTogether
  Panes = {pane1, pane2}
  Pictures = {beach, hills}
  Brightest = 1
  MaxChanges = 1
  j1 = j1
  j2 = j2
  Jobs = {j1, j2}
  web = web
  Web = web
  cli = cli
  cmd = cmd
  tick = tick
  Ticker = tick
  req = req
  Requests = {req, cmd}
  Processes <- MCProcesses
  Home <- MCHome
  None = None
INVARIANT TickerSurvives
\* A part that is over stops.
CHECK_DEADLOCK FALSE
