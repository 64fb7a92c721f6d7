\* A reporter's issue and its row: a second message, his or an engineer's, an edit
\* or the row's removal, a failing call and a crash.
\* Once all of them are spent nothing is left to do: that is not a deadlock.
CONSTANTS
  ann = ann
  eng = eng
  Places = {ann, eng}
  Sender <- SenderOfPlace
  Engineers = {eng}
  Threads = {t1}
  Plans = {s1, s2}
  None = None
  Attempts = 1
  Asked = {"describe", "confirm", "reopen"}
  Pressed = {}
  HasBase = TRUE
  MaxMessages = 2
  MaxEdits = 1
  MaxFailures = 1
  MaxCrashes = 1
SPECIFICATION FairUnsending
INVARIANTS
  MirrorIsCurrent
PROPERTIES
  OnlyReporterDecides
  SheetCatchesUp
CONSTRAINT EngineerDecides
CHECK_DEADLOCK FALSE
