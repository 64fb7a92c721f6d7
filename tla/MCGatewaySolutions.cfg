\* Two issues of one family; a handler and the card consumer race over their
\* Solutions and the worker over their deliveries, through failures and a crash.
CONSTANTS
  a = a
  Issues = {a, b}
  Root <- RootOf
  Owners = {o}
  Keys = {k1, k2}
  Calls = {d1}
  Callbacks = {c1}
  None = None
  Handlers = {h1}
  Consumers = {long}
  HasFeishu = TRUE
  HasBase = FALSE
  MaxCrashes = 1
SPECIFICATION Spec
VIEW ButAnswers
SYMMETRY KeySymmetry
INVARIANTS
  AnsweredOnce
  CardShowsCommitted
  OneTopicPerFamily
