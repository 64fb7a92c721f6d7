\* A root and its sub-issue, a deletion and a crash in the middle of three jobs.
CONSTANTS
  Roots = {r1}
  Reporters = {ann}
  Threads = {t1, t2}
  NoIssue = NoIssue
  NoThread = NoThread
  MaxSub = 1
  Workers = 2
  MaxJobs = 3
  MaxDeletes = 1
  MaxCrashes = 1
SPECIFICATION FairSpec
INVARIANTS
  TypeOK
  DeletedLeaveNothing
PROPERTIES
  ForgottenIsGone
  MessagesAreAnswered
CHECK_DEADLOCK FALSE
