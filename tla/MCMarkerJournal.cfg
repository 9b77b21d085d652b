SPECIFICATION FairSpec
CONSTANTS
  a = a
  b = b
  n1 = n1
  n2 = n2
  c1 = c1
  Home <- MCHome
  Tags = {a, b}
  Nodes = {n1, n2}
  Callers = {c1}
  Journals <- MCJournals
  KindLists <- MCKindLists
  MaxVersion = 2
  MaxOps = 2
  MaxFaults = 3
  LocalTags = 2
  StoreTags = 1
INVARIANTS JournalInv
PROPERTIES  InvalidationSpreads
CHECK_DEADLOCK FALSE
