------------------------------- MODULE PyNode -------------------------------
(***************************************************************************)
(* PyNode, the Python face of a NodeHandle (reachpy-runtime/src/lib.rs):   *)
(* every step of NodeHandle, placed under the discipline of the GIL.       *)
(*                                                                         *)
(* create_subscription and create_timer hold the GIL from beginning to     *)
(* end, the wait for the workers mutex included.  destroy_node detaches    *)
(* for the whole of shutdown.  A worker attaches before its callback.      *)
(* Drop runs where the last reference dies, in a dealloc under the GIL.    *)
(***************************************************************************)
EXTENDS NodeHandle

CONSTANTS
  NodeUsers,         \* the callers that call the node; the others only compute
  CallbacksHoldNode  \* the callbacks keep the node alive (bound methods do)

ASSUME PyNodeAssumption ==
  /\ NodeUsers \subseteq Callers
  /\ CallbacksHoldNode \in BOOLEAN
  /\ CallbackOps # {} => CallbacksHoldNode

VARIABLES
  gil,        \* the thread that holds the GIL
  inPython,   \* workers whose callback has attached and not returned
  dropped     \* the last reference to the node is gone

pyVars  == <<gil, inPython, dropped>>
allVars == <<vars, pyVars>>

PyInit ==
  /\ Init
  /\ gil = NoThread
  /\ inPython = {}
  /\ dropped = FALSE

\* Thread t runs Python code, or waits for the GIL to do so.
WantsPython(t) == pc[t] = "user" /\ (t \in Workers => phase[t] = "callback")

-----------------------------------------------------------------------------
(* The GIL (external: CPython).                                            *)

\* Mutant: every thread that attaches counts as a callback.
AttachAll(t) ==
  /\ WantsPython(t)
  /\ gil = NoThread
  /\ gil' = t
  /\ inPython' = inPython \cup {t}
  /\ UNCHANGED <<vars, dropped>>

\* Python::attach of a callback, the end of a detached section, or a thread
\* switch back to t.
TakeGil(t) ==
  /\ WantsPython(t)
  /\ gil = NoThread
  /\ gil' = t
  /\ inPython' = inPython \cup ({t} \cap Workers)
  /\ UNCHANGED <<vars, dropped>>

\* Mutant: the main thread sleeps in spin() without detaching.
YieldInCallbacksOnly(t) ==
  /\ gil = t
  /\ WantsPython(t)
  /\ t \in Workers
  /\ gil' = NoThread
  /\ UNCHANGED <<vars, inPython, dropped>>

\* A thread switch between two bytecodes, a blocking call of user code, or the
\* detached sleep of spin().
YieldGil(t) ==
  /\ gil = t
  /\ WantsPython(t)
  /\ gil' = NoThread
  /\ UNCHANGED <<vars, inPython, dropped>>

-----------------------------------------------------------------------------
(* The methods of PyNode.                                                  *)

MayUse(t) == gil = t /\ ~dropped /\ (t \in Callers => t \in NodeUsers)

\* The begun create operation keeps the GIL.
PyCreateSubscription(t, s) == MayUse(t) /\ RawSubscribe(t, s) /\ UNCHANGED pyVars

PyCreateTimer(t, w) == MayUse(t) /\ SpawnTimer(t, w) /\ UNCHANGED pyVars

\* Mutants: destroy_node without py.detach, and one that does not wait.
DestroyAttached(t) ==
  /\ MayUse(t)
  /\ StoreStop(t)
  /\ UNCHANGED pyVars

SignalOnly(t) ==
  /\ MayUse(t)
  /\ MayCall(t, "shutdown")
  /\ running' = FALSE
  /\ gil' = NoThread
  /\ UNCHANGED <<phase, pc, late, callVars, dataVars, inPython, dropped>>

\* py.detach(|| self.inner.shutdown())
DestroyNode(t) ==
  /\ MayUse(t)
  /\ StoreStop(t)
  /\ gil' = NoThread
  /\ UNCHANGED <<inPython, dropped>>

\* Drop for NodeHandle calls shutdown from the dealloc: the GIL stays held.
\* No operation is under way, since each holds a reference.
DropNode(t) ==
  /\ MayUse(t)
  /\ t \in Callers
  /\ \A u \in Threads : pc[u] = "user"
  /\ CallbacksHoldNode => \A w \in Workers : ~Live(w)
  /\ StoreStop(t)
  /\ dropped' = TRUE
  /\ UNCHANGED <<gil, inPython>>

\* The steps of an operation under way.  A worker thread that unwinds leaves
\* Python, and the GIL if it has it.
PyContinueOp(t) ==
  /\ ContinueOp(t)
  /\ inPython' = {w \in inPython : phase'[w] = "callback"}
  /\ gil' = IF gil = t /\ t \in Workers \ inPython' THEN NoThread ELSE gil
  /\ UNCHANGED dropped

\* callback.call1 / call0 returns, or raises and the error is printed.
PyFinishCallback(w) ==
  /\ gil = w
  /\ w \in inPython
  /\ FinishCallback(w)
  /\ gil' = NoThread
  /\ inPython' = inPython \ {w}
  /\ UNCHANGED dropped

-----------------------------------------------------------------------------
PyBeginOp(t) ==
  \/ \E s \in Subs : PyCreateSubscription(t, s)
  \/ \E w \in Timers : PyCreateTimer(t, w)
  \/ DestroyNode(t)
  \/ DropNode(t)

PyNext ==
  \/ \E t \in Threads :
       TakeGil(t) \/ YieldGil(t) \/ PyBeginOp(t) \/ PyContinueOp(t)
  \/ \E w \in Workers : PyFinishCallback(w)
  \/ \E w \in Workers : WorkerLoop(w) /\ UNCHANGED pyVars
  \/ \E s \in Subs : (Deliver(s) \/ DropSender(s)) /\ UNCHANGED pyVars

PySpec == PyInit /\ [][PyNext]_allVars

\* The scheduling of NodeHandle.  A thread that runs Python is made to give the
\* GIL up from time to time; user callbacks return.  Strong fairness of a thread
\* inside an operation includes that of LockWorkers and PushWorker; a thread that
\* waits for the GIL is inside none, so one conjunct states both.
PyFairness ==
  /\ \A w \in Workers : /\ WF_allVars(WorkerLoop(w) /\ UNCHANGED pyVars)
                        /\ SF_allVars(PyFinishCallback(w))
  /\ \A t \in Threads : /\ SF_allVars(PyContinueOp(t) \/ TakeGil(t))
                        /\ WF_allVars(YieldGil(t))

PyFairSpec == PySpec /\ PyFairness

-----------------------------------------------------------------------------
(* Properties.                                                             *)

\* Every variable keeps its type.
PyTypeOK ==
  /\ TypeOK
  /\ gil \in Threads \cup {NoThread}
  /\ inPython \subseteq Workers
  /\ dropped \in BOOLEAN

\* A begun create operation holds the GIL to its end, and a detached shutdown
\* never does: only Drop waits for the workers while holding it (lib.rs).
GilDiscipline ==
  \A t \in Threads :
    /\ pc[t] \in {"spawn", "push"} => gil = t
    /\ pc[t] \in {"lock", "join"} /\ gil = t => dropped

\* With one thread using the node, destroy_node leaves nothing behind: once it
\* has returned no callback runs or will run, not even the callback of a timer
\* created afterwards (lib.rs, destroy_node; transport.rs, create_timer).
QuietAfterDestroy ==
  ~running /\ (\A t \in Threads : pc[t] \notin {"lock", "join"})
    => /\ inPython = {}
       /\ \A w \in Workers : phase[w] \in {"unborn", "subscribed", "check", "done"}

\* Thread t cannot go on before u does: it waits for the workers mutex, joins
\* another thread, or needs the GIL.
WaitsFor(t, u) ==
  \/ pc[t] \in {"push", "lock"} /\ lockHolder = u
  \/ /\ pc[t] = "join" /\ workers # <<>>
     /\ u = Head(workers) /\ u # t /\ phase[u] # "done"
  \/ WantsPython(t) /\ gil = u /\ u # t

\* No threads wait for each other in a circle through the mutex, a join and the
\* GIL: what py.detach in destroy_node is for (lib.rs, 95-97; transport.rs,
\* 157-170).  Holds where one thread uses the node and its callbacks do not.
NoCyclicWait ==
  \A S \in (SUBSET Threads) \ {{}} : \E t \in S : \A u \in S : ~WaitsFor(t, u)

\* Any number of threads may be in destroy_node at once: for a circle it takes a
\* create operation at the mutex, a callback inside an operation, or Drop
\* (lib.rs, 44-97; transport.rs, 157-170).
DestroyersNeverInCircle ==
  /\ ~dropped
  /\ \A t \in Threads : pc[t] # "push"
  /\ \A w \in Workers : pc[w] = "user"
  => NoCyclicWait

\* A begun shutdown, of destroy_node or of Drop, returns to its caller.
PyShutdownReturns ==
  \A t \in Threads : pc[t] = "lock" ~> pc[t] = "user"

\* Python threads stay responsive: each gets the GIL again and again, also
\* while another one waits in destroy_node (lib.rs, spin and destroy_node).
PythonStaysResponsive ==
  \A t \in Callers \ NodeUsers : []<>(gil = t)
=============================================================================
