\* One turn that moves a file and undoes it, two paths, a user who puts another
\* file there while the card is open.
SPECIFICATION FileChangesSpec
CONSTANTS
  Turns = {t1}
  Paths = {p, q}
  MaxObjects = 2
  MaxChanges = 1
  JournalKept = 1
PROPERTY UndoActsOnItsOwn
CHECK_DEADLOCK FALSE
