\* One issue: two entries of two parts each, looked at one by one, two failures and a crash.
CONSTANTS
  Issues = {i1}
  Batch = 1
  MaxParts = 2
  MaxEntries = 2
  MaxFailures = 2
  MaxCrashes = 1
  None = None
SPECIFICATION FairSpec
INVARIANTS
  TypeOK
  CopiesAreExact
PROPERTIES
  HistoryIsCopied
CHECK_DEADLOCK FALSE
