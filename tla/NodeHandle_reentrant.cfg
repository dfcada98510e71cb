\* One caller; user callbacks may call every operation of their own node.
CONSTANTS
  c1 = c1  s1 = s1  t1 = t1
  Callers = {c1}
  Subs = {s1}
  Timers = {t1}
  CallbackOps <- Ops
  MaxMsgs = 1
  NoThread = NoThread
\* What goes wrong here ends in a state where nothing moves any more.
CHECK_DEADLOCK FALSE
SPECIFICATION FairSpec
PROPERTIES ShutdownReturnsEventually
