\* Both adapters, failures of every kind, a crash: what is promised of answers.
CONSTANTS
  a = a
  Issues = {a}
  Root <- RootOf
  Owners = {o}
  Keys = {k1}
  Calls = {d1}
  Callbacks = {c1}
  None = None
  Handlers = {h1}
  Consumers = {}
  HasFeishu = TRUE
  HasBase = TRUE
  MaxCrashes = 1
SPECIFICATION FairSpec
INVARIANTS
  ProjectedInOrder
PROPERTIES
  AcceptedIsDelivered
  AnsweredIsProjected
