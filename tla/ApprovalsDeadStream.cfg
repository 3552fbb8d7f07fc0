\* A stream of the same account whose client has gone, or whose turn is over.
SPECIFICATION Spec
CONSTANTS
  t1 = t1
  t2 = t2
  k1 = k1
  dev = dev
  guest = guest
  Turns = {t1, t2}
  Cards = {k1}
  Accounts = {dev, guest}
  Developers = {dev}
  None = None
PROPERTY DeadStreamDoesNotStopTheCard
