\* Approvals: two turns, two cards, a developer, a personal account and the machine.
\* Context: one conversation of up to five turns, two of them recent, a budget of
\* fourteen hundred characters, one summary and one context kept.
\* Replies: five turns of follow-ups; three reminders, one tick.  Forms: one line of
\* every form, said by the owner or a personal account or planned by the autopilot.
\* Records: two processes, four failures and timings, three days; two who ask for a
\* sample.
SPECIFICATION TurnsSpec
CONSTANTS
  t1 = t1
  t2 = t2
  k1 = k1
  k2 = k2
  dev = dev
  guest = guest
  Turns = {t1, t2}
  Cards = {k1, k2}
  Accounts = {dev, guest}
  Developers = {dev}
  None = None
  Conversations = {c1}
  Shapes <- TheShapes
  Budgets = {14}
  RecentTurns = 2
  SummarySize = 1
  MemoSize = 1
  HeaderSize = 1
  NoteSize = 3
  OmissionSize = 1
  LeastShown = 1
  LeastLeft = 3
  MaxTurns = 5
  Subjects <- TheSubjects
  Sayings <- TheSayings
  MaxSaid = 5
  MaxSet = 3
  LastMoment = 1
  Recorders = {p1, p2}
  KeptFailures = 2
  RollupDays = 1
  SampleAskers = {q1, q2}
  SampleTtl = 2
  MaxNotes = 4
  MaxTorn = 1
  MaxDays = 3
  MaxInstants = 5
SYMMETRY Symmetry
INVARIANT TurnsTypeOK ConsentGiven CardsStayWithTheirAccount OneCardAtATime
PROPERTY ImplementsConsent TheConversationIsFollowed RecordsAreTrue
\* The bounds of the records and of the conversation are reached.
CHECK_DEADLOCK FALSE
