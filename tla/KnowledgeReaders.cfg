\* Two processes, one source of the user's and one generated, three documents.
SPECIFICATION KnowledgeSpec
CONSTANTS
  Readers = {p1, p2}
  Indexed = {f}
  Generated = {g}
  Cap = 1
  MaxWrites = 3
INVARIANT ReadersSeeTheFile
\* Once every write of the bound is made, nothing but reading is left.
CHECK_DEADLOCK FALSE
