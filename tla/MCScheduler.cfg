\* Two jobs, the ticker, a request in the same process, and a command line in
\* another, all of which run what is due.
\* Routing: sixteen sentences, two parts, two turns, every topic.
\* Requests: two requests, this machine and a phone, bodies of up to three parts, two
\* of which are taken, one guess, one file kept.
\* Engines: every setting of every engine and every set of them that is there.
\* Outgoing: two calls, two windows, two wallpapers, two brightnesses, one change of the world.
SPECIFICATION PartsSpec
CONSTANTS
  Sentences <- TheSentences
  Topics = {"none", "scene", "diagram", "text"}
  MostParts = 2
  MostTurns = 2
  Calls = {call1, call2}
  Devices = {here, phone}
  Local = here
  SmallBody = 1
  LargestBody = 2
  MostGuesses = 1
  GuessersTracked = 1
  KeepNewest = 1
  MaxAge = 0
  MaxClock = 1
  Budget = 4
  MinAttempt = 2
  act1 = act1
  act2 = act2
  Acts = {act1, act2}
  Wanted <- CalledTogether
  Panes = {pane1, pane2}
  Pictures = {beach, hills}
  Brightest = 1
  MaxChanges = 1
  j1 = j1
  j2 = j2
  Jobs = {j1, j2}
  web = web
  Web = web
  cli = cli
  cmd = cmd
  tick = tick
  Ticker = tick
  req = req
  Requests = {req, cmd}
  Processes <- MCProcesses
  Home <- MCHome
  None = None
INVARIANTS
  TypeOK NeverTwiceAtOnce RunningIsHeld
  PartsTypeOK RequestsAreServed TheOutsideIsMetAsAgreed
PROPERTY NoRerunUnasked DueJobsRun
\* Every request is answered and the last turn is over.
CHECK_DEADLOCK FALSE
