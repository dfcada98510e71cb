---------------------------- MODULE PyNode_proofs ----------------------------
(***************************************************************************)
(* Proofs about PyNode: what is proved of NodeHandle holds of it, its       *)
(* operations keep the GIL discipline, one user's destroy_node leaves       *)
(* nothing running, and threads do not wait for each other in a circle.     *)
(***************************************************************************)
EXTENDS PyNode, NodeHandle_proofs

\* Every step of the binding is a step of NodeHandle.
LEMMA PyStepIsStep == [PyNext]_allVars => [Next]_vars
<1> SUFFICES ASSUME PyNext PROVE [Next]_vars
  BY DEF allVars
<1>1. ASSUME NEW t \in Threads, TakeGil(t) \/ YieldGil(t) PROVE UNCHANGED vars
  BY <1>1 DEF TakeGil, YieldGil
<1>2. ASSUME NEW t \in Threads, PyBeginOp(t) PROVE BeginOp(t)
  BY <1>2 DEF PyBeginOp, PyCreateSubscription, PyCreateTimer, DestroyNode,
              DropNode, BeginOp
<1>3. ASSUME NEW t \in Threads, PyContinueOp(t) PROVE ContinueOp(t)
  BY <1>3 DEF PyContinueOp
<1>4. ASSUME NEW w \in Workers, PyFinishCallback(w) PROVE FinishCallback(w)
  BY <1>4 DEF PyFinishCallback
<1> QED
  BY <1>1, <1>2, <1>3, <1>4 DEF PyNext, Next

\* The GIL removes behaviours of a NodeHandle, it adds none (lib.rs, 44-66 and
\* 95-97).  By this lemma what is proved of NodeHandle is proved of PyNode.
LEMMA PyNodeIsNodeHandle == PySpec => Spec
<1>1. PyInit => Init
  BY DEF PyInit
<1> QED
  BY <1>1, PyStepIsStep, PTL DEF PySpec, Spec

\* Hence under the GIL, too, shutdown stops every worker, and none is lost.
COROLLARY PyShutdownIsComplete ==
  PySpec => []NoForgottenWorker /\ ShutdownStopsWorkers
  BY PyNodeIsNodeHandle, NoWorkerForgotten, ShutdownIsComplete, PTL

-----------------------------------------------------------------------------
(* The discipline of the GIL.                                              *)

\* A worker holds the GIL only inside its callback, which has attached.
WorkersAttach ==
  /\ inPython \subseteq {w \in Workers : phase[w] = "callback"}
  /\ gil \in Workers => gil \in inPython

GilTypes == gil \in Threads \cup {NoThread}

GilInv == GilTypes /\ WorkersAttach /\ GilDiscipline

\* Nobody holds the GIL at first.
LEMMA GilInit == PyInit => GilInv
  BY NodeHandleAssumption
     DEF PyInit, Init, GilInv, GilTypes, WorkersAttach, GilDiscipline, Threads

\* The steps of an operation that is not a panic leave the callback running.
LEMMA OpStaysInCallback ==
  ASSUME Bookkeeping, NEW t \in Threads, ContinueOp(t)
  PROVE  \/ t \in Workers => phase'[t] = "callback"
         \/ pc'[t] = "user"
<1> USE DEF Bookkeeping, ThreadTypes, CallersAreInCallbacks
<1>1. CASE SpawnSubscriber(t)
  BY <1>1 DEF SpawnSubscriber, CreatorsAgree
<1>2. CASE ~SpawnSubscriber(t)
  BY <1>2 DEF ContinueOp, PushWorker, LockWorkers, JoinWorker, JoinSelf,
              ShutdownReturns, UnwrapPoisoned, Panic
<1> QED
  BY <1>1, <1>2

\* An operation goes on, with the GIL or without.
LEMMA GilContinueStep ==
  ASSUME Bookkeeping, GilInv, NEW t \in Threads, PyContinueOp(t)
  PROVE  GilInv'
<1> USE DEF PyContinueOp, GilInv
<1>1. /\ \A u \in Threads : u # t => pc'[u] = pc[u]
      /\ pc'[t] \in {"spawn", "push"} => pc[t] \in {"spawn", "push"}
      /\ pc'[t] \in {"lock", "join"} => pc[t] \in {"lock", "join"}
      /\ pc[t] # "user"
  BY DEF ContinueOp, SpawnSubscriber, PushWorker, LockWorkers, JoinWorker,
         JoinSelf, ShutdownReturns, UnwrapPoisoned, Panic, Bookkeeping, ThreadTypes
<1>2. \A u \in Workers : u # t /\ phase[u] = "callback" => phase'[u] = "callback"
  <2> USE DEF Bookkeeping, ThreadTypes
  <2>1. CASE SpawnSubscriber(t)
    BY <2>1 DEF SpawnSubscriber, CreatorsAgree
  <2>2. CASE ~SpawnSubscriber(t)
    BY <2>2 DEF ContinueOp, PushWorker, LockWorkers, JoinWorker, JoinSelf,
                ShutdownReturns, UnwrapPoisoned, Panic, Exit
  <2> QED
    BY <2>1, <2>2
<1>3. GilTypes'
  BY DEF GilTypes
<1>4. WorkersAttach'
  <2>1. inPython' \subseteq {w \in Workers : phase'[w] = "callback"}
    BY DEF WorkersAttach
  <2>2. ASSUME gil' \in Workers PROVE gil' \in inPython'
    <3>1. gil' = gil
      BY <2>2, NodeHandleAssumption DEF Threads
    <3>2. gil \in inPython /\ phase[gil] = "callback"
      BY <2>2, <3>1 DEF WorkersAttach
    <3>3. CASE gil = t
      BY <2>2, <3>1, <3>3, NodeHandleAssumption DEF Threads
    <3>4. CASE gil # t
      BY <1>2, <2>2, <3>1, <3>2, <3>4
    <3> QED
      BY <3>3, <3>4
  <2> QED
    BY <2>1, <2>2 DEF WorkersAttach
<1>5. GilDiscipline'
  <2>1. ASSUME NEW u \in Threads, pc'[u] \in {"spawn", "push"} PROVE gil' = u
    <3>1. gil = u
      BY <1>1, <2>1 DEF GilDiscipline
    <3>2. u = t /\ t \in Workers => t \in inPython'
      BY <2>1, <3>1, OpStaysInCallback DEF WorkersAttach
    <3> QED
      BY <3>1, <3>2
  <2>2. ASSUME NEW u \in Threads, pc'[u] \in {"lock", "join"}, gil' = u
        PROVE  dropped'
    <3>1. gil = u
      BY <2>2, NodeHandleAssumption
    <3>2. pc[u] \in {"lock", "join"}
      BY <1>1, <2>2
    <3> QED
      BY <3>1, <3>2 DEF GilDiscipline
  <2> QED
    BY <2>1, <2>2 DEF GilDiscipline
<1> QED
  BY <1>3, <1>4, <1>5

\* Every step keeps the discipline of the GIL.
LEMMA GilStep == Bookkeeping /\ GilInv /\ [PyNext]_allVars => GilInv'
<1> SUFFICES ASSUME Bookkeeping, GilInv, [PyNext]_allVars PROVE GilInv'
  OBVIOUS
<1> USE NodeHandleAssumption DEF GilInv, Bookkeeping, ThreadTypes, pyVars
<1>1. ASSUME NEW t \in Threads, TakeGil(t) PROVE GilInv'
  BY <1>1 DEF TakeGil, WantsPython, vars, GilTypes, WorkersAttach, GilDiscipline
<1>2. ASSUME NEW t \in Threads, YieldGil(t) PROVE GilInv'
  BY <1>2 DEF YieldGil, WantsPython, vars, GilTypes, WorkersAttach,
              GilDiscipline, Threads
<1>3. ASSUME NEW t \in Threads, NEW s \in Subs, PyCreateSubscription(t, s)
      PROVE  GilInv'
  BY <1>3 DEF PyCreateSubscription, MayUse, RawSubscribe, MayCall, GilTypes,
              WorkersAttach, GilDiscipline, Workers
<1>4. ASSUME NEW t \in Threads, NEW w \in Timers, PyCreateTimer(t, w)
      PROVE  GilInv'
  BY <1>4 DEF PyCreateTimer, MayUse, SpawnTimer, MayCall, GilTypes,
              WorkersAttach, GilDiscipline, Workers
<1>5. ASSUME NEW t \in Threads, DestroyNode(t) PROVE GilInv'
  BY <1>5 DEF DestroyNode, MayUse, StoreStop, MayCall, GilTypes, WorkersAttach,
              GilDiscipline, Threads
<1>6. ASSUME NEW t \in Threads, DropNode(t) PROVE GilInv'
  BY <1>6 DEF DropNode, MayUse, StoreStop, MayCall, GilTypes, WorkersAttach,
              GilDiscipline
<1>7. ASSUME NEW t \in Threads, PyContinueOp(t) PROVE GilInv'
  BY <1>7, GilContinueStep
<1>8. ASSUME NEW w \in Workers, PyFinishCallback(w) PROVE GilInv'
  BY <1>8 DEF PyFinishCallback, FinishCallback, GilTypes, WorkersAttach,
              GilDiscipline, Threads
<1>9. ASSUME NEW w \in Workers, WorkerLoop(w), UNCHANGED pyVars PROVE GilInv'
  <2>1. /\ phase[w] # "callback"
        /\ \A u \in Workers : u # w => phase'[u] = phase[u]
        /\ pc' = pc
    BY <1>9 DEF WorkerLoop, SubLoop, TimerLoop, CheckRunning, Receive,
                ReceiveTimeout, ReceiveDisconnected, TimerPollStops, TimerDeadline,
                TimerDue, BeginCallback, Exit
  <2> QED
    BY <1>9, <2>1 DEF GilTypes, WorkersAttach, GilDiscipline
<1>10. ASSUME NEW s \in Subs, Deliver(s) \/ DropSender(s), UNCHANGED pyVars
       PROVE  GilInv'
  BY <1>10 DEF Deliver, DropSender, GilTypes, WorkersAttach, GilDiscipline
<1>11. ASSUME UNCHANGED allVars PROVE GilInv'
  BY <1>11 DEF allVars, vars, GilTypes, WorkersAttach, GilDiscipline
<1> QED
  BY <1>1, <1>2, <1>3, <1>4, <1>5, <1>6, <1>7, <1>8, <1>9, <1>10, <1>11
     DEF PyNext, PyBeginOp

\* In every reachable state.
LEMMA GilInvHolds == PySpec => []Bookkeeping /\ []GilInv
<1>1. PySpec => []Bookkeeping
  BY PyNodeIsNodeHandle, BookkeepingHolds, PTL
<1> QED
  BY <1>1, GilInit, GilStep, PTL DEF PySpec

\* A create operation keeps the GIL to its end, and a shutdown waits without it
\* unless it is the one of Drop (lib.rs, 44-66, 95-97; transport.rs, 166-170).
THEOREM GilIsDisciplined == PySpec => []GilDiscipline
<1>1. GilInv => GilDiscipline
  BY DEF GilInv
<1> QED
  BY <1>1, GilInvHolds, PTL

-----------------------------------------------------------------------------
(* Threads that wait for each other.                                       *)

\* With no create operation at the mutex and no callback inside an operation,
\* the holder of the GIL waits for nobody, so a worker that is joined goes on.
LEMMA NoCircleOfDestroyers ==
  ASSUME Bookkeeping, GilInv
  PROVE  DestroyersNeverInCircle
<1> SUFFICES ASSUME ~dropped, \A t \in Threads : pc[t] # "push",
                    \A w \in Workers : pc[w] = "user",
                    NEW S \in SUBSET Threads, S # {},
                    \A t \in S : \E u \in S : WaitsFor(t, u)
             PROVE  FALSE
  BY DEF DestroyersNeverInCircle, NoCyclicWait
<1>1. ASSUME NEW u \in S, gil = u PROVE FALSE
  <2>1. PICK v \in S : WaitsFor(u, v)
    OBVIOUS
  <2>2. pc[u] \notin {"push", "lock", "join"}
    BY <1>1 DEF GilInv, GilDiscipline
  <2> QED
    BY <1>1, <2>1, <2>2 DEF WaitsFor
<1>2. ASSUME NEW t \in S PROVE pc[t] \in {"lock", "join"}
  <2>1. PICK u \in S : WaitsFor(t, u)
    OBVIOUS
  <2> QED
    BY <1>1, <2>1 DEF WaitsFor
<1>3. ASSUME NEW t \in S, pc[t] = "join" PROVE FALSE
  <2>1. PICK w \in S : WaitsFor(t, w)
    OBVIOUS
  <2>2. workers # <<>> /\ w = Head(workers)
    BY <1>3, <2>1 DEF WaitsFor, WantsPython
  <2>3. w \in Workers
    BY <2>2 DEF Bookkeeping, ThreadTypes
  <2> QED
    BY <1>2, <2>3
<1>4. PICK t \in S : TRUE
  OBVIOUS
<1>5. PICK u \in S : WaitsFor(t, u)
  OBVIOUS
<1>6. lockHolder = u
  BY <1>2, <1>3, <1>5 DEF WaitsFor, WantsPython
<1>7. pc[u] = "join"
  BY <1>6 DEF Bookkeeping, DrainHoldsLock
<1> QED
  BY <1>3, <1>7

\* However many threads use the node and whatever callbacks do: destroy_node
\* never takes part in a circle of waiting threads unless a create operation
\* waits for the mutex, a callback is inside an operation, or the node was
\* dropped (lib.rs, 44-97; transport.rs, 157-170).
THEOREM DestroyersStayApart == PySpec => []DestroyersNeverInCircle
  BY GilInvHolds, NoCircleOfDestroyers, PTL

-----------------------------------------------------------------------------
(* The types.                                                              *)

\* A node has been dropped or it has not.
LEMMA DroppedStep == dropped \in BOOLEAN /\ [PyNext]_allVars => (dropped \in BOOLEAN)'
  BY DEF PyNext, PyBeginOp, TakeGil, YieldGil, PyCreateSubscription, PyCreateTimer,
         DestroyNode, DropNode, PyContinueOp, PyFinishCallback, pyVars, allVars

\* Every variable of PyNode keeps its type.
THEOREM PyTypeCorrect == PySpec => []PyTypeOK
<1>1. PyInit => dropped \in BOOLEAN
  BY DEF PyInit
<1>2. TypeOK /\ GilInv /\ dropped \in BOOLEAN => PyTypeOK
  BY DEF PyTypeOK, GilInv, GilTypes, WorkersAttach
<1>3. PySpec => []TypeOK
  BY PyNodeIsNodeHandle, TypeCorrect, PTL
<1> QED
  BY <1>1, <1>2, <1>3, DroppedStep, GilInvHolds, PTL DEF PySpec

-----------------------------------------------------------------------------
(* The documented use: one thread calls the node, the callbacks do not.    *)

\* Only main is ever inside an operation, and nothing has panicked.
OnlyUser(main) ==
  /\ ~poisoned
  /\ \A t \in Threads : t # main => pc[t] = "user"

\* Phases of a worker that has no callback ahead once the flag is down.
QuietPhases == {"unborn", "subscribed", "check", "done"}

\* The flag is down and nobody is waiting for the workers any more.
Destroyed(main) == ~running /\ pc[main] \notin {"lock", "join"}

Quiet(main) ==
  OnlyUser(main) /\ (Destroyed(main) => \A w \in Workers : phase[w] \in QuietPhases)

\* What main begins.
LEMMA QuietBeginStep ==
  ASSUME NEW main \in Callers, NodeUsers = {main}, CallbackOps = {},
         Bookkeeping, Quiet(main), NEW t \in Threads, PyBeginOp(t)
  PROVE  Quiet(main)'
<1> USE NodeHandleAssumption DEF Quiet, OnlyUser, Destroyed, Bookkeeping, ThreadTypes
<1>1. t = main
  BY DEF PyBeginOp, PyCreateSubscription, PyCreateTimer, DestroyNode, DropNode,
         MayUse, RawSubscribe, SpawnTimer, StoreStop, MayCall, Threads
<1>2. ASSUME NEW s \in Subs, RawSubscribe(t, s) PROVE Quiet(main)'
  BY <1>1, <1>2 DEF RawSubscribe, MayCall, QuietPhases, Workers, Threads
<1>3. ASSUME NEW w \in Timers, SpawnTimer(t, w) PROVE Quiet(main)'
  BY <1>1, <1>3 DEF SpawnTimer, MayCall, QuietPhases, Workers, Threads
<1>4. ASSUME StoreStop(t) PROVE Quiet(main)'
  BY <1>1, <1>4 DEF StoreStop, callVars, Threads
<1> QED
  BY <1>2, <1>3, <1>4 DEF PyBeginOp, PyCreateSubscription, PyCreateTimer,
                          DestroyNode, DropNode

\* What main goes on with: when shutdown returns, no worker is forgotten and
\* none is being created, so none is left.
LEMMA QuietContinueStep ==
  ASSUME NEW main \in Callers, Bookkeeping, NoForgottenWorker, Quiet(main),
         NEW t \in Threads, ContinueOp(t)
  PROVE  Quiet(main)'
<1> USE NodeHandleAssumption DEF Quiet, OnlyUser, Destroyed, Bookkeeping, ThreadTypes
<1>1. t = main
  BY DEF ContinueOp, SpawnSubscriber, PushWorker, LockWorkers, JoinWorker, JoinSelf,
         ShutdownReturns, UnwrapPoisoned
<1>2. ASSUME SpawnSubscriber(t) PROVE Quiet(main)'
  BY <1>1, <1>2 DEF SpawnSubscriber, callVars, CreatorsAgree, QuietPhases, Workers
<1>3. ASSUME PushWorker(t) PROVE Quiet(main)'
  BY <1>1, <1>3 DEF PushWorker
<1>4. ASSUME LockWorkers(t) \/ JoinWorker(t) PROVE Quiet(main)'
  BY <1>1, <1>4 DEF LockWorkers, JoinWorker
<1>5. ~JoinSelf(t)
  <2>1. workers # <<>> => Head(workers) \in Workers
    OBVIOUS
  <2> QED
    BY <1>1, <2>1 DEF JoinSelf
<1>6. ~UnwrapPoisoned(t)
  BY DEF UnwrapPoisoned
<1>7. ASSUME ShutdownReturns(t) PROVE Quiet(main)'
  <2>1. \A w \in Workers : ~Pending(w)
    BY <1>1, <1>7 DEF ShutdownReturns, Pending
  <2>2. \A w \in Workers : ~Live(w)
    BY <1>7, <2>1 DEF ShutdownReturns, NoForgottenWorker
  <2> QED
    BY <1>1, <1>7, <2>2 DEF ShutdownReturns, Live, QuietPhases
<1> QED
  BY <1>2, <1>3, <1>4, <1>5, <1>6, <1>7 DEF ContinueOp

\* A worker that is quiet in a destroyed node stays quiet.
LEMMA QuietLoopStep ==
  ASSUME NEW main \in Callers, Bookkeeping, Quiet(main), NEW w \in Workers,
         WorkerLoop(w) \/ FinishCallback(w)
  PROVE  Quiet(main)'
<1> USE DEF Quiet, OnlyUser, Destroyed, Bookkeeping, ThreadTypes
<1>1. UNCHANGED <<running, pc, poisoned>>
  BY DEF WorkerLoop, SubLoop, TimerLoop, CheckRunning, Receive, ReceiveTimeout,
         ReceiveDisconnected, TimerPollStops, TimerDeadline, TimerDue,
         FinishCallback, callVars
<1>2. \A x \in Workers : x # w => phase'[x] = phase[x]
  BY DEF WorkerLoop, SubLoop, TimerLoop, CheckRunning, Receive, ReceiveTimeout,
         ReceiveDisconnected, TimerPollStops, TimerDeadline, TimerDue,
         FinishCallback, BeginCallback, Exit
<1>3. ~running /\ phase[w] \in QuietPhases => phase'[w] \in QuietPhases
  BY DEF WorkerLoop, SubLoop, TimerLoop, CheckRunning, Receive, ReceiveTimeout,
         ReceiveDisconnected, TimerPollStops, TimerDeadline, TimerDue,
         FinishCallback, Exit, QuietPhases
<1> QED
  BY <1>1, <1>2, <1>3

\* Every step keeps the node quiet after destroy_node.
LEMMA QuietStep ==
  ASSUME NEW main \in Callers, NodeUsers = {main}, CallbackOps = {}
  PROVE  Bookkeeping /\ NoForgottenWorker /\ Quiet(main) /\ [PyNext]_allVars
           => Quiet(main)'
<1> SUFFICES ASSUME Bookkeeping, NoForgottenWorker, Quiet(main), [PyNext]_allVars
             PROVE  Quiet(main)'
  OBVIOUS
<1>1. ASSUME UNCHANGED vars PROVE Quiet(main)'
  BY <1>1 DEF vars, callVars, Quiet, OnlyUser, Destroyed
<1>2. ASSUME NEW s \in Subs, Deliver(s) \/ DropSender(s) PROVE Quiet(main)'
  BY <1>2 DEF Deliver, DropSender, callVars, Quiet, OnlyUser, Destroyed
<1>3. ASSUME NEW t \in Threads, TakeGil(t) \/ YieldGil(t) PROVE UNCHANGED vars
  BY <1>3 DEF TakeGil, YieldGil
<1>4. ASSUME NEW t \in Threads, PyContinueOp(t) PROVE Quiet(main)'
  BY <1>4, QuietContinueStep DEF PyContinueOp
<1>5. ASSUME NEW w \in Workers, PyFinishCallback(w) PROVE Quiet(main)'
  BY <1>5, QuietLoopStep DEF PyFinishCallback
<1>6. ASSUME NEW t \in Threads, PyBeginOp(t) PROVE Quiet(main)'
  BY <1>6, QuietBeginStep
<1>7. ASSUME NEW w \in Workers, WorkerLoop(w) PROVE Quiet(main)'
  BY <1>7, QuietLoopStep
<1> QED
  BY <1>1, <1>2, <1>3, <1>4, <1>5, <1>6, <1>7 DEF PyNext, allVars

\* Before the first call.
LEMMA QuietInit == ASSUME NEW main \in Callers PROVE PyInit => Quiet(main)
  BY DEF PyInit, Init, Quiet, OnlyUser, Destroyed

\* What is kept gives what is checked.
LEMMA QuietImplies ==
  ASSUME NEW main \in Callers, Quiet(main), GilInv
  PROVE  QuietAfterDestroy
<1> SUFFICES ASSUME ~running, \A t \in Threads : pc[t] \notin {"lock", "join"}
             PROVE  /\ inPython = {}
                    /\ \A w \in Workers : phase[w] \in QuietPhases
  BY DEF QuietAfterDestroy, QuietPhases
<1>1. \A w \in Workers : phase[w] \in QuietPhases
  BY DEF Quiet, Destroyed, Threads
<1> QED
  BY <1>1 DEF GilInv, WorkersAttach, QuietPhases

\* With one thread that uses the node, nothing runs or will run after
\* destroy_node has returned (lib.rs, 95-97).
THEOREM DestroyLeavesQuiet ==
  ASSUME NEW main \in Callers, NodeUsers = {main}, CallbackOps = {}
  PROVE  PySpec => []QuietAfterDestroy
<1>1. PySpec => []NoForgottenWorker
  BY PyNodeIsNodeHandle, NoWorkerForgotten, PTL
<1>2. PyInit => Quiet(main)
  BY QuietInit
<1>3. Bookkeeping /\ NoForgottenWorker /\ Quiet(main) /\ [PyNext]_allVars
        => Quiet(main)'
  BY QuietStep
<1>4. Quiet(main) /\ GilInv => QuietAfterDestroy
  BY QuietImplies
<1> QED
  BY <1>1, <1>2, <1>3, <1>4, GilInvHolds, PTL DEF PySpec
-----------------------------------------------------------------------------
(* Nobody waits in a circle.                                               *)

\* Once the last reference is gone, no worker runs and none is being created.
DroppedIsDone ==
  dropped => /\ \A w \in Workers : ~Live(w)
             /\ \A t \in Threads : pc[t] \notin {"spawn", "push"}

\* Drop comes when the workers are done, and nobody can call the node after it.
LEMMA DroppedIsDoneStep ==
  ASSUME CallbacksHoldNode
  PROVE  Bookkeeping /\ DroppedIsDone /\ [PyNext]_allVars => DroppedIsDone'
<1> SUFFICES ASSUME Bookkeeping, DroppedIsDone, [PyNext]_allVars PROVE DroppedIsDone'
  OBVIOUS
<1> USE DEF Bookkeeping, ThreadTypes
<1>1. ASSUME UNCHANGED <<phase, pc, dropped>> PROVE DroppedIsDone'
  BY <1>1 DEF DroppedIsDone, Live
<1>2. ASSUME NEW t \in Threads, TakeGil(t) \/ YieldGil(t) PROVE DroppedIsDone'
  BY <1>1, <1>2 DEF TakeGil, YieldGil, vars
<1>3. ASSUME NEW t \in Threads, PyBeginOp(t) PROVE DroppedIsDone'
  <2>1. ~dropped
    BY <1>3 DEF PyBeginOp, PyCreateSubscription, PyCreateTimer, DestroyNode,
                DropNode, MayUse
  <2>2. ASSUME DropNode(t) PROVE DroppedIsDone'
    <3>1. phase' = phase /\ pc' = [pc EXCEPT ![t] = "lock"]
      BY <2>2 DEF DropNode, StoreStop
    <3>2. /\ \A w \in Workers : ~Live(w)
          /\ \A u \in Threads : pc[u] = "user"
      BY <2>2 DEF DropNode
    <3> QED
      BY <3>1, <3>2 DEF DroppedIsDone, Live
  <2>3. CASE ~DropNode(t)
    <3>1. dropped' = dropped
      BY <1>3, <2>3 DEF PyBeginOp, PyCreateSubscription, PyCreateTimer, DestroyNode,
                        pyVars
    <3> QED
      BY <2>1, <3>1 DEF DroppedIsDone
  <2> QED
    BY <2>2, <2>3
<1>4. ASSUME NEW t \in Threads, PyContinueOp(t) PROVE DroppedIsDone'
  <2>1. dropped' = dropped /\ ContinueOp(t)
    BY <1>4 DEF PyContinueOp
  <2>2. CASE dropped
    <3>1. pc[t] \notin {"spawn", "push"}
      BY <2>2 DEF DroppedIsDone
    <3>2. \A u \in Threads : pc'[u] = pc[u] \/ pc'[u] \in {"join", "user"}
      BY <2>1, <3>1 DEF ContinueOp, SpawnSubscriber, PushWorker, LockWorkers,
                        JoinWorker, JoinSelf, ShutdownReturns, UnwrapPoisoned, Panic
    <3>3. \A w \in Workers : phase'[w] = phase[w] \/ phase'[w] = "done"
      BY <2>1, <3>1 DEF ContinueOp, SpawnSubscriber, PushWorker, LockWorkers,
                        JoinWorker, JoinSelf, ShutdownReturns, UnwrapPoisoned, Panic, Exit
    <3> QED
      BY <2>2, <3>2, <3>3 DEF DroppedIsDone, Live
  <2>3. CASE ~dropped
    BY <2>1, <2>3 DEF DroppedIsDone
  <2> QED
    BY <2>2, <2>3
<1>5. ASSUME NEW w \in Workers, WorkerLoop(w) \/ FinishCallback(w), dropped' = dropped
      PROVE  DroppedIsDone'
  <2>1. Live(w)
    BY <1>5 DEF WorkerLoop, SubLoop, TimerLoop, CheckRunning, Receive, ReceiveTimeout,
                ReceiveDisconnected, TimerPollStops, TimerDeadline, TimerDue,
                FinishCallback, Live
  <2> QED
    BY <1>5, <2>1 DEF DroppedIsDone
<1>6. ASSUME NEW w \in Workers, PyFinishCallback(w) PROVE DroppedIsDone'
  BY <1>5, <1>6 DEF PyFinishCallback
<1>7. ASSUME NEW w \in Workers, WorkerLoop(w), UNCHANGED pyVars PROVE DroppedIsDone'
  BY <1>5, <1>7 DEF pyVars
<1>8. ASSUME NEW s \in Subs, Deliver(s) \/ DropSender(s), UNCHANGED pyVars
      PROVE  DroppedIsDone'
  BY <1>1, <1>8 DEF Deliver, DropSender, pyVars
<1>9. ASSUME UNCHANGED allVars PROVE DroppedIsDone'
  BY <1>1, <1>9 DEF allVars, vars, pyVars
<1> QED
  BY <1>2, <1>3, <1>4, <1>6, <1>7, <1>8, <1>9 DEF PyNext

\* Whoever waits for the GIL waits for a thread that waits for nobody, and a
\* worker that is joined waits for nothing but the GIL.
LEMMA NobodyInACircle ==
  ASSUME NEW main \in Callers, Bookkeeping, GilInv, OnlyUser(main), DroppedIsDone
  PROVE  NoCyclicWait
<1> SUFFICES ASSUME NEW S \in SUBSET Threads, S # {}
             PROVE  \E t \in S : \A u \in S : ~WaitsFor(t, u)
  BY DEF NoCyclicWait
<1> SUFFICES ASSUME \A t \in S : \E u \in S : WaitsFor(t, u) PROVE FALSE
  OBVIOUS
<1>1. ASSUME NEW t \in S, NEW u \in S PROVE ~(pc[t] \in {"push", "lock"} /\ lockHolder = u)
  <2>1. lockHolder = u => pc[u] = "join"
    BY DEF Bookkeeping, DrainHoldsLock
  <2>2. pc[u] = "join" => u = main
    BY DEF OnlyUser
  <2>3. pc[t] \in {"push", "lock"} => t = main
    BY DEF OnlyUser
  <2> QED
    BY <2>1, <2>2, <2>3
<1>2. ASSUME NEW t \in S, pc[t] = "join"
      PROVE  \E w \in S \cap Workers, u \in S : w # u /\ phase[w] = "callback" /\ gil = u
  <2>1. PICK w \in S : WaitsFor(t, w)
    OBVIOUS
  <2>2. /\ workers # <<>> /\ w = Head(workers) /\ w # t
    BY <1>2, <2>1 DEF WaitsFor, WantsPython
  <2>3. w \in Workers
    BY <2>2 DEF Bookkeeping, ThreadTypes
  <2>4. pc[w] = "user"
    BY <1>2, <2>2 DEF OnlyUser
  <2>5. PICK u \in S : WaitsFor(w, u)
    OBVIOUS
  <2>6. WantsPython(w) /\ gil = u /\ u # w
    BY <2>4, <2>5 DEF WaitsFor
  <2> QED
    BY <2>3, <2>6 DEF WantsPython
<1>3. ASSUME NEW u \in S, gil = u PROVE pc[u] = "join"
  <2>1. PICK v \in S : WaitsFor(u, v)
    OBVIOUS
  <2> QED
    BY <1>1, <1>3, <2>1 DEF WaitsFor
<1>4. ASSUME NEW u \in S, gil = u PROVE FALSE
  <2>1. pc[u] = "join"
    BY <1>3, <1>4
  <2>2. dropped
    BY <1>4, <2>1 DEF GilInv, GilDiscipline
  <2>3. PICK w \in S \cap Workers : phase[w] = "callback"
    BY <1>2, <2>1
  <2> QED
    BY <2>2, <2>3 DEF DroppedIsDone, Live
<1>5. PICK t \in S : TRUE
  OBVIOUS
<1>6. PICK u \in S : WaitsFor(t, u)
  OBVIOUS
<1>7. CASE pc[t] = "join"
  BY <1>2, <1>4, <1>7
<1>8. CASE pc[t] # "join"
  <2>1. gil = u
    BY <1>1, <1>6, <1>8 DEF WaitsFor
  <2> QED
    BY <1>4, <2>1
<1> QED
  BY <1>7, <1>8

\* With one thread that uses the node, callbacks that stay out of it and hold
\* it, no threads ever wait for each other in a circle: neither destroy_node nor
\* Drop can hang on the GIL or the mutex, with any number of sources and Python
\* threads (lib.rs, 44-66 and 95-97; transport.rs, 157-170).
THEOREM NobodyWaitsInACircle ==
  ASSUME NEW main \in Callers, NodeUsers = {main}, CallbackOps = {}, CallbacksHoldNode
  PROVE  PySpec => []NoCyclicWait
<1>1. PySpec => []NoForgottenWorker
  BY PyNodeIsNodeHandle, NoWorkerForgotten, PTL
<1>2. PyInit => Quiet(main) /\ DroppedIsDone
  BY QuietInit DEF PyInit, DroppedIsDone
<1>3. Bookkeeping /\ NoForgottenWorker /\ Quiet(main) /\ [PyNext]_allVars
        => Quiet(main)'
  BY QuietStep
<1>4. Bookkeeping /\ DroppedIsDone /\ [PyNext]_allVars => DroppedIsDone'
  BY DroppedIsDoneStep
<1>5. Bookkeeping /\ GilInv /\ Quiet(main) /\ DroppedIsDone => NoCyclicWait
  BY NobodyInACircle DEF Quiet
<1> QED
  BY <1>1, <1>2, <1>3, <1>4, <1>5, GilInvHolds, PTL DEF PySpec
=============================================================================
