\* Two Python threads use the node, and so do the callbacks, which are bound
\* methods: some behaviours end in the deadlocks that PyNode_two_users shows.
CONSTANTS
  main = main  other = other  s1 = s1  t1 = t1
  Callers = {main, other}
  NodeUsers = {main, other}
  CallbacksHoldNode = TRUE
  Subs = {s1}
  Timers = {t1}
  CallbackOps <- Ops
  MaxMsgs = 1
  NoThread = NoThread
SPECIFICATION PySpec
CHECK_DEADLOCK FALSE
INVARIANTS PyTypeOK GilDiscipline DestroyersNeverInCircle
