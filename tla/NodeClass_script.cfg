\* A script that destroys its node when Ctrl+C ends spin; a second Python
\* thread only computes, and the callbacks stay out of the node's operations.
CONSTANTS
  main = main  other = other  s1 = s1  s2 = s2   t1 = t1  tp1 = tp1
  Main = main
  Callers = {main, other}
  NodeUsers = {main}
  CallbacksHoldNode = TRUE
  Subs = {s1, s2}
  Timers = {t1}
  Topics = {tp1}
  TopicOf <- OneTopic
  Guarded = TRUE
  CallbackOps = {}
  MaxMsgs = 1
  NoThread = NoThread
SPECIFICATION ClassFairSpec
INVARIANTS ClassTypeOK BoundBeforeCallbacks TopicMatchesNode CleanExit QuietAfterDestroy NoCyclicWait
PROPERTIES InterruptEndsScript PythonStaysResponsive
