\* A reporter and an engineer, each with a message or a button, through a failing
\* reply, failing turns and a crash.  Once the messages are spent and answered
\* nothing is left to do: that is not a deadlock.
CONSTANTS
  ann = ann
  eng = eng
  Places = {ann, eng}
  Sender <- SenderOfPlace
  Engineers = {eng}
  Threads = {t1, t2}
  Plans = {s1}
  None = None
  Attempts = 2
  Asked = {"describe", "sub", "use", "chat", "confirm", "verify", "text"}
  Pressed = {"report", "sub", "select", "new", "use", "issue", "chat", "confirm", "reopen"}
  HasBase = FALSE
  MaxMessages = 2
  MaxEdits = 0
  MaxFailures = 1
  MaxCrashes = 1
SPECIFICATION FairSpec
INVARIANTS
  TypeOK
  QueueInOrder
  ThreadsAreSeparate
PROPERTIES
  EverythingIsAnswered
CHECK_DEADLOCK FALSE
