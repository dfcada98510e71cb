\* Two callers may race each other; callbacks may call every operation, shutdown
\* of their own node included.
CONSTANTS
  c1 = c1  c2 = c2  s1 = s1  t1 = t1
  Callers = {c1, c2}
  Subs = {s1}
  Timers = {t1}
  CallbackOps <- Ops
  MaxMsgs = 2
  NoThread = NoThread
\* With callbacks that call the node it may hang (NodeHandle_reentrant).
CHECK_DEADLOCK FALSE
SPECIFICATION FairSpec
PROPERTIES SourcesAreIndependent ShutdownReturnsIfLeftAlone PoisonHangsNobody
