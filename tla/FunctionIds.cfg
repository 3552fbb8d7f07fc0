\* Two calls, a function published twice anew, one lookup in three ticks.
SPECIFICATION FunctionIdsSpec
CONSTANTS
  Callers = {c1, c2}
  LookupEvery = 2
  MaxFunctions = 3
  MaxSeconds = 3
PROPERTY RetriesOnACurrentId
\* The clock is bounded.
CHECK_DEADLOCK FALSE
