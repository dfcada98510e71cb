\* Two Python threads use the node at the same time.
CONSTANTS
  main = main  other = other  s1 = s1  t1 = t1
  Callers = {main, other}
  NodeUsers = {main, other}
  CallbacksHoldNode = TRUE
  Subs = {s1}
  Timers = {t1}
  CallbackOps = {}
  MaxMsgs = 1
  NoThread = NoThread
\* What goes wrong here ends in a state where nothing moves any more.
CHECK_DEADLOCK FALSE
SPECIFICATION PyFairSpec
PROPERTIES PyShutdownReturns
