\* Two callers, one subscription, two timers; callbacks may call every operation.
CONSTANTS
  c1 = c1  c2 = c2  s1 = s1  t1 = t1  t2 = t2
  Callers = {c1, c2}
  Subs = {s1}
  Timers = {t1, t2}
  CallbackOps <- Ops
  MaxMsgs = 2
  NoThread = NoThread
SPECIFICATION Spec
SYMMETRY Symmetry
CHECK_DEADLOCK FALSE
INVARIANTS TypeOK InOrderDelivery NoForgottenWorker AtMostOneLateCallback
PROPERTIES ShutdownStopsWorkers ImplementsDispatch
