\* Files: two turns on two paths with one journal entry.
\* Workspaces: two makers, two names, two files in each folder.
\* Memory: two processes, one fact, one note, one item.  Index: two processes.
\* Jobs: one posting, two tailorings, two resumes.
\* Voice: two replies of two sentences, two interruptions.
\* Dispatch: five commands inside each other, batches of two.
\* Daily: three days of four hours.  Mail: two turns, two providers.
\* Dates: every day of a century year, and of years with and without a 29 February.
\* Watches: two threads, two headlines, two watches, or four hours of readings.
SPECIFICATION ListsSpec
CONSTANTS
  x1 = x1
  x2 = x2
  y1 = y1
  y2 = y2
  Turns = {x1, x2}
  Paths = {y1, y2}
  MaxObjects = 3
  MaxChanges = 2
  JournalKept = 1
  Makers = {x1, x2}
  MaxFolders = 2
  PlannedFiles = 2
  Holders = {x1, x2}
  Keys = {k}
  Values = {v}
  Notes = {n}
  Items = {i}
  MaxJobs = 1
  Postings = {posting}
  JobRequests = {x1, x2}
  MaxResume = 2
  MaxDrafts = 2
  Readers = {x1, x2}
  Indexed = {indexed}
  Generated = {y1, y2}
  Cap = 1
  MaxWrites = 3
  MaxTurns = 2
  MaxSentences = 2
  MaxSessions = 2
  MaxCutIns = 2
  MaxMics = 1
  MaxFrames = 5
  MaxBegun = 5
  MostSteps = 2
  DayLength = 4
  Hour = 1
  Weekdays = 3
  OnDays = {0, 1}
  Shift = 1
  LastInstant = 12
  LongestRun = 3
  MailTurns = {x1, x2}
  Providers = {y1, y2}
  MaxGrants = 1
  MaxDamages = 1
  Years = {2100, 2024, 2027}
  EasterYears <- TheEasterYears
  Headlines = {y1, y2}
  Minders = {x1, x2}
  MaxWatches = 2
  QuietFor = 2
  MaxHours = 3
SYMMETRY Symmetry
INVARIANTS
  ListsTypeOK KeptAndForgottenAsTold TailoredToThisResume TheCalendarIsKept
  SilencedStaysSilent EveryCommandIsHeldToItsAccount
PROPERTIES NothingIsTaken WatchesKeepQuiet
\* Once every object, note, draft and message of the bounds is made, a part may stop.
CHECK_DEADLOCK FALSE
