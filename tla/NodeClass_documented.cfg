\* The script of the documentation: spin, then destroy_node on the next line.
CONSTANTS
  main = main  s1 = s1   t1 = t1  tp1 = tp1
  Main = main
  Callers = {main}
  NodeUsers = {main}
  CallbacksHoldNode = TRUE
  Subs = {s1}
  Timers = {t1}
  Topics = {tp1}
  TopicOf <- OneTopic
  Guarded = FALSE
  CallbackOps = {}
  MaxMsgs = 1
  NoThread = NoThread
SPECIFICATION ClassSpec
INVARIANTS CleanExit
