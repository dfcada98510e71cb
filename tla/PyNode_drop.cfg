\* The callbacks are plain functions, so the node is dropped while its workers run.
CONSTANTS
  main = main  other = other  s1 = s1  t1 = t1
  Callers = {main, other}
  NodeUsers = {main}
  CallbacksHoldNode = FALSE
  Subs = {s1}
  Timers = {t1}
  CallbackOps = {}
  MaxMsgs = 1
  NoThread = NoThread
\* What goes wrong here ends in a state where nothing moves any more.
CHECK_DEADLOCK FALSE
SPECIFICATION PyFairSpec
PROPERTIES PyShutdownReturns
