\* A timer callback and on_start subscribe through the same topic.
CONSTANTS
  main = main  s1 = s1  s2 = s2   t1 = t1  tp1 = tp1
  Main = main
  Callers = {main}
  NodeUsers = {main}
  CallbacksHoldNode = TRUE
  Subs = {s1, s2}
  Timers = {t1}
  Topics = {tp1}
  TopicOf <- OneTopic
  Guarded = TRUE
  CallbackOps = {"create"}
  MaxMsgs = 1
  NoThread = NoThread
SPECIFICATION ClassSpec
INVARIANTS TopicSubscribedOnce
