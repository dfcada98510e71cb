----------------------------- MODULE NodeHandle -----------------------------
(***************************************************************************)
(* The concurrency core of reachpy-runtime (transport.rs): one NodeHandle, *)
(* its dedicated worker threads, the stop flag, the mutex around the list  *)
(* of join handles, and the threads that call create_subscription,         *)
(* create_timer and shutdown, user callbacks among them.                   *)
(*                                                                         *)
(* The user callback is a plain closure here, as it is in transport.rs.    *)
(* PyNode.tla adds the GIL.                                                *)
(***************************************************************************)
EXTENDS Naturals, Sequences, FiniteSets

CONSTANTS
  Callers,      \* threads outside the node that call its operations
  Subs,         \* subscriptions; each stands for one create_subscription call
  Timers,       \* timers; each stands for one create_timer call
  CallbackOps,  \* operations a user callback may call on its own node
  MaxMsgs,      \* bound: messages arriving per subscription
  NoThread      \* nobody holds the mutex

Workers == Subs \cup Timers
Threads == Callers \cup Workers
Ops     == {"create", "shutdown"}

ASSUME NodeHandleAssumption ==
  /\ Callers \cap Workers = {}
  /\ Subs \cap Timers = {}
  /\ NoThread \notin Threads
  /\ CallbackOps \subseteq Ops
  /\ MaxMsgs \in Nat

VARIABLES
  running,      \* the AtomicBool every worker polls
  workers,      \* the Vec of join handles
  lockHolder,   \* who holds the mutex around that Vec
  poisoned,     \* a thread panicked while it held that mutex
  phase,        \* where each worker is in its loop
  pc,           \* where each thread is inside a node operation
  making,       \* the worker a thread is creating
  sender,       \* subscriptions whose channel still has its Sender
  queue,        \* the mpsc channel of each subscription
  arrived,      \* messages the transport has handed to each subscription
  handled,      \* history: messages given to the callback, in that order
  late          \* history: callbacks begun after the stop flag was stored

dataVars   == <<sender, queue, arrived, handled>>
callVars   == <<workers, lockHolder, poisoned, making>>
vars       == <<running, phase, pc, late, callVars, dataVars>>

-----------------------------------------------------------------------------
(* Phases of a worker.  A subscription has a channel from "subscribed" on; *)
(* its thread runs check -> recv -> callback -> check.  A timer's thread   *)
(* runs check -> wait -> due -> callback -> check.                         *)

SubPhases   == {"unborn", "subscribed", "check", "recv", "callback", "done"}
TimerPhases == {"unborn", "check", "wait", "due", "callback", "done"}
Stages      == {"user", "spawn", "push", "lock", "join"}

\* The thread exists and has not exited.
Live(w) == phase[w] \notin {"unborn", "subscribed", "done"}

\* The worker was announced by a creating thread that has not pushed it yet.
Pending(w) == \E t \in Threads : pc[t] = "push" /\ making[t] = w

\* Thread t runs user code that may call operation op of the node.
MayCall(t, op) ==
  /\ pc[t] = "user"
  /\ t \in Workers => phase[t] = "callback" /\ op \in CallbackOps

Init ==
  /\ running = TRUE
  /\ workers = <<>>
  /\ lockHolder = NoThread
  /\ poisoned = FALSE
  /\ phase = [w \in Workers |-> "unborn"]
  /\ pc = [t \in Threads |-> "user"]
  /\ making = [t \in Threads |-> NoThread]
  /\ sender = {}
  /\ queue = [s \in Subs |-> <<>>]
  /\ arrived = [s \in Subs |-> 0]
  /\ handled = [s \in Subs |-> <<>>]
  /\ late = [w \in Workers |-> 0]

-----------------------------------------------------------------------------
(* Helpers shared by the actions.                                          *)

\* Worker w starts its callback; a message callback has taken its message.
BeginCallback(w) ==
  /\ phase' = [phase EXCEPT ![w] = "callback"]
  /\ late' = [late EXCEPT ![w] = IF running THEN @ ELSE @ + 1]

\* Worker w leaves its loop; the Receiver goes with it, and what it buffered.
Exit(w) ==
  /\ phase' = [phase EXCEPT ![w] = "done"]
  /\ queue' = [s \in Subs |-> IF s = w THEN <<>> ELSE queue[s]]

\* An operation panics: a caller gets the panic, a worker's thread unwinds.
Panic(t) ==
  /\ pc' = [pc EXCEPT ![t] = "user"]
  /\ making' = [making EXCEPT ![t] = NoThread]
  /\ IF t \in Workers THEN Exit(t) ELSE UNCHANGED <<phase, queue>>

-----------------------------------------------------------------------------
(* create_subscription and create_timer.                                   *)

\* raw_subscribe succeeds and its handle is kept: the channel exists and the
\* transport may send on it.  A rejected call returns with nothing changed.
RawSubscribe(t, s) ==
  /\ MayCall(t, "create")
  /\ phase[s] = "unborn"
  /\ \/ /\ phase' = [phase EXCEPT ![s] = "subscribed"]
        /\ sender' = sender \cup {s}
        /\ pc' = [pc EXCEPT ![t] = "spawn"]
        /\ making' = [making EXCEPT ![t] = s]
     \/ UNCHANGED <<phase, sender, pc, making>>
  /\ UNCHANGED <<running, workers, lockHolder, poisoned, queue, arrived,
                 handled, late>>

SpawnSubscriber(t) ==
  /\ pc[t] = "spawn"
  /\ phase' = [phase EXCEPT ![making[t]] = "check"]
  /\ pc' = [pc EXCEPT ![t] = "push"]
  /\ UNCHANGED <<running, late, callVars, dataVars>>

SpawnTimer(t, w) ==
  /\ MayCall(t, "create")
  /\ phase[w] = "unborn"
  /\ phase' = [phase EXCEPT ![w] = "check"]
  /\ pc' = [pc EXCEPT ![t] = "push"]
  /\ making' = [making EXCEPT ![t] = w]
  /\ UNCHANGED <<running, workers, lockHolder, poisoned, late, dataVars>>

\* Mutant: the handle is only kept while the node runs.
PushWhileRunning(t) ==
  /\ pc[t] = "push"
  /\ lockHolder = NoThread
  /\ ~poisoned
  /\ workers' = IF running THEN Append(workers, making[t]) ELSE workers
  /\ pc' = [pc EXCEPT ![t] = "user"]
  /\ making' = [making EXCEPT ![t] = NoThread]
  /\ UNCHANGED <<running, phase, late, lockHolder, poisoned, dataVars>>

\* workers.lock().unwrap().push(worker), one critical section.
PushWorker(t) ==
  /\ pc[t] = "push"
  /\ lockHolder = NoThread
  /\ ~poisoned
  /\ workers' = Append(workers, making[t])
  /\ pc' = [pc EXCEPT ![t] = "user"]
  /\ making' = [making EXCEPT ![t] = NoThread]
  /\ UNCHANGED <<running, phase, late, lockHolder, poisoned, dataVars>>

-----------------------------------------------------------------------------
(* shutdown: store the flag, lock the list, join every handle in it with   *)
(* the mutex held throughout.                                              *)

StoreStop(t) ==
  /\ MayCall(t, "shutdown")
  /\ running' = FALSE
  /\ pc' = [pc EXCEPT ![t] = "lock"]
  /\ UNCHANGED <<phase, late, callVars, dataVars>>

LockWorkers(t) ==
  /\ pc[t] = "lock"
  /\ lockHolder = NoThread
  /\ ~poisoned
  /\ lockHolder' = t
  /\ pc' = [pc EXCEPT ![t] = "join"]
  /\ UNCHANGED <<running, phase, late, workers, poisoned, making, dataVars>>

\* Mutant: the drained handle is dropped, which detaches its thread.
DetachWorker(t) ==
  /\ pc[t] = "join"
  /\ workers # <<>>
  /\ workers' = Tail(workers)
  /\ UNCHANGED <<running, phase, pc, late, lockHolder, poisoned, making,
                 dataVars>>

\* join() of the next drained handle returns once that worker has exited.
JoinWorker(t) ==
  /\ pc[t] = "join"
  /\ workers # <<>>
  /\ phase[Head(workers)] = "done"
  /\ workers' = Tail(workers)
  /\ UNCHANGED <<running, phase, pc, late, lockHolder, poisoned, making,
                 dataVars>>

\* The next drained handle is the caller's own thread: pthread_join answers
\* EDEADLK and JoinHandle::join panics.  The Drain drops the remaining
\* handles and the guard poisons the mutex.
JoinSelf(t) ==
  /\ pc[t] = "join"
  /\ workers # <<>>
  /\ Head(workers) = t
  /\ workers' = <<>>
  /\ lockHolder' = NoThread
  /\ poisoned' = TRUE
  /\ Panic(t)
  /\ UNCHANGED <<running, late, sender, arrived, handled>>

ShutdownReturns(t) ==
  /\ pc[t] = "join"
  /\ workers = <<>>
  /\ lockHolder' = NoThread
  /\ pc' = [pc EXCEPT ![t] = "user"]
  /\ UNCHANGED <<running, phase, late, workers, poisoned, making, dataVars>>

\* Mutant: try_lock again and again, whatever the error.
RetryPoisoned(t) ==
  /\ pc[t] \in {"push", "lock"}
  /\ lockHolder = NoThread
  /\ poisoned
  /\ UNCHANGED vars

\* lock().unwrap() on the poisoned mutex, in any of the three operations.
UnwrapPoisoned(t) ==
  /\ pc[t] \in {"push", "lock"}
  /\ lockHolder = NoThread
  /\ poisoned
  /\ Panic(t)
  /\ UNCHANGED <<running, workers, lockHolder, poisoned, late, sender,
                 arrived, handled>>

-----------------------------------------------------------------------------
(* The worker loops.                                                       *)

\* Mutants: a loop that never looks at the flag, one that first empties its
\* channel, and the loop of a subscription in the thread of a timer.
LoopForever(w) ==
  /\ phase[w] = "check"
  /\ phase' = [phase EXCEPT ![w] = IF w \in Subs THEN "recv" ELSE "wait"]
  /\ UNCHANGED <<running, pc, late, callVars, dataVars>>

LoopUntilEmpty(w) ==
  /\ phase[w] = "check"
  /\ IF running \/ (w \in Subs /\ queue[w] # <<>>)
     THEN /\ phase' = [phase EXCEPT ![w] = IF w \in Subs THEN "recv" ELSE "wait"]
          /\ UNCHANGED queue
     ELSE Exit(w)
  /\ UNCHANGED <<running, pc, late, callVars, sender, arrived, handled>>

OneLoopForAll(w) ==
  /\ phase[w] = "check"
  /\ IF running
     THEN phase' = [phase EXCEPT ![w] = "recv"] /\ UNCHANGED queue
     ELSE Exit(w)
  /\ UNCHANGED <<running, pc, late, callVars, sender, arrived, handled>>

\* while running.load(Relaxed), at the top of either loop.
CheckRunning(w) ==
  /\ phase[w] = "check"
  /\ IF running
     THEN /\ phase' = [phase EXCEPT ![w] = IF w \in Subs THEN "recv" ELSE "wait"]
          /\ UNCHANGED queue
     ELSE Exit(w)
  /\ UNCHANGED <<running, pc, late, callVars, sender, arrived, handled>>

\* Mutants: the newest message first, and one callback at a time in the node.
ReceiveNewest(s) ==
  /\ phase[s] = "recv"
  /\ queue[s] # <<>>
  /\ queue' = [queue EXCEPT ![s] = SubSeq(@, 1, Len(@) - 1)]
  /\ handled' = [handled EXCEPT ![s] = Append(@, queue[s][Len(queue[s])])]
  /\ BeginCallback(s)
  /\ UNCHANGED <<running, pc, callVars, sender, arrived>>

ReceiveAlone(s) ==
  /\ phase[s] = "recv"
  /\ queue[s] # <<>>
  /\ \A w \in Workers : phase[w] # "callback"
  /\ queue' = [queue EXCEPT ![s] = Tail(@)]
  /\ handled' = [handled EXCEPT ![s] = Append(@, Head(queue[s]))]
  /\ BeginCallback(s)
  /\ UNCHANGED <<running, pc, callVars, sender, arrived>>

Receive(s) ==
  /\ phase[s] = "recv"
  /\ queue[s] # <<>>
  /\ queue' = [queue EXCEPT ![s] = Tail(@)]
  /\ handled' = [handled EXCEPT ![s] = Append(@, Head(queue[s]))]
  /\ BeginCallback(s)
  /\ UNCHANGED <<running, pc, callVars, sender, arrived>>

ReceiveTimeout(s) ==
  /\ phase[s] = "recv"
  /\ queue[s] = <<>>
  /\ s \in sender
  /\ phase' = [phase EXCEPT ![s] = "check"]
  /\ UNCHANGED <<running, pc, late, callVars, dataVars>>

ReceiveDisconnected(s) ==
  /\ phase[s] = "recv"
  /\ queue[s] = <<>>
  /\ s \notin sender
  /\ Exit(s)
  /\ UNCHANGED <<running, pc, late, callVars, sender, arrived, handled>>

\* The sleeping loop of a timer sees the flag before its deadline.
TimerPollStops(w) ==
  /\ phase[w] = "wait"
  /\ ~running
  /\ Exit(w)
  /\ UNCHANGED <<running, pc, late, callVars, sender, arrived, handled>>

TimerDeadline(w) ==
  /\ phase[w] = "wait"
  /\ phase' = [phase EXCEPT ![w] = "due"]
  /\ UNCHANGED <<running, pc, late, callVars, dataVars>>

\* Mutant: the flag is not read after the deadline.
FireAtDeadline(w) ==
  /\ phase[w] = "due"
  /\ BeginCallback(w)
  /\ UNCHANGED <<running, pc, callVars, dataVars>>

\* The flag is read once more between the deadline and the callback.
TimerDue(w) ==
  /\ phase[w] = "due"
  /\ IF running
     THEN BeginCallback(w)
     ELSE /\ phase' = [phase EXCEPT ![w] = "check"]
          /\ UNCHANGED late
  /\ UNCHANGED <<running, pc, callVars, dataVars>>

\* The user callback returns; it is outside every node operation.
FinishCallback(w) ==
  /\ phase[w] = "callback"
  /\ pc[w] = "user"
  /\ phase' = [phase EXCEPT ![w] = "check"]
  /\ UNCHANGED <<running, pc, late, callVars, dataVars>>

-----------------------------------------------------------------------------
(* The transport (external): its threads run the raw callback, and it may  *)
(* drop that callback, and the Sender in it.                               *)

\* tx.send: the message is buffered, or dropped when the Receiver is gone.
Deliver(s) ==
  /\ s \in sender
  /\ arrived[s] < MaxMsgs
  /\ arrived' = [arrived EXCEPT ![s] = @ + 1]
  /\ queue' = IF phase[s] = "done"
              THEN queue
              ELSE [queue EXCEPT ![s] = Append(@, arrived[s] + 1)]
  /\ UNCHANGED <<running, phase, pc, late, callVars, sender, handled>>

DropSender(s) ==
  /\ s \in sender
  /\ sender' = sender \ {s}
  /\ UNCHANGED <<running, phase, pc, late, callVars, queue, arrived, handled>>

-----------------------------------------------------------------------------
BeginOp(t) ==
  \/ \E s \in Subs : RawSubscribe(t, s)
  \/ \E w \in Timers : SpawnTimer(t, w)
  \/ StoreStop(t)

ContinueOp(t) ==
  \/ SpawnSubscriber(t)
  \/ PushWorker(t)
  \/ LockWorkers(t)
  \/ JoinWorker(t)
  \/ JoinSelf(t)
  \/ ShutdownReturns(t)
  \/ UnwrapPoisoned(t)

SubLoop(s)   == Receive(s) \/ ReceiveTimeout(s) \/ ReceiveDisconnected(s)
TimerLoop(w) == TimerPollStops(w) \/ TimerDeadline(w) \/ TimerDue(w)

WorkerLoop(w) ==
  \/ CheckRunning(w)
  \/ w \in Subs /\ SubLoop(w)
  \/ w \in Timers /\ TimerLoop(w)

Next ==
  \/ \E t \in Threads : BeginOp(t) \/ ContinueOp(t)
  \/ \E w \in Workers : WorkerLoop(w) \/ FinishCallback(w)
  \/ \E s \in Subs : Deliver(s) \/ DropSender(s)

Spec == Init /\ [][Next]_vars

-----------------------------------------------------------------------------
(* Fairness.  Threads that can run are scheduled; a thread inside an        *)
(* operation goes on with it; the mutex is not lost to one waiter forever   *)
(* (strong fairness of LockWorkers and PushWorker).  User callbacks and     *)
(* callers are not fair: FinishCallback, BeginOp, Deliver and DropSender    *)
(* may never happen.                                                        *)

Fairness ==
  /\ \A w \in Workers : WF_vars(WorkerLoop(w))
  /\ \A t \in Threads : WF_vars(ContinueOp(t)) /\ SF_vars(LockWorkers(t))
                         /\ SF_vars(PushWorker(t))

FairSpec == Spec /\ Fairness

-----------------------------------------------------------------------------
(* Properties.                                                             *)

FlagTypes == running \in BOOLEAN /\ poisoned \in BOOLEAN

ThreadTypes ==
  /\ workers \in Seq(Workers)
  /\ lockHolder \in Threads \cup {NoThread}
  /\ phase \in [Workers -> SubPhases \cup TimerPhases]
  /\ \A s \in Subs : phase[s] \in SubPhases
  /\ \A w \in Timers : phase[w] \in TimerPhases
  /\ pc \in [Threads -> Stages]
  /\ making \in [Threads -> Workers \cup {NoThread}]
  /\ late \in [Workers -> Nat]

ChannelTypes ==
  /\ sender \subseteq Subs
  /\ queue \in [Subs -> Seq(Nat)]
  /\ arrived \in [Subs -> Nat]
  /\ handled \in [Subs -> Seq(Nat)]

\* Every variable keeps its type.
TypeOK == FlagTypes /\ ThreadTypes /\ ChannelTypes

\* Messages on one subscription reach its callback in the order they arrived,
\* none lost, doubled or overtaken, as long as its worker lives
\* (transport.rs, guarantee 1: single consumer thread, FIFO channel).
InOrderDelivery ==
  \A s \in Subs :
    LET taken == handled[s] \o queue[s]
    IN  /\ \A i \in DOMAIN taken : taken[i] = i
        /\ phase[s] # "done" => Len(taken) = arrived[s]

\* No live worker is forgotten: its handle is in the list shutdown drains, or
\* the thread that spawned it is about to push it.  Only a panic in the middle
\* of a drain gives handles up (create_*, shutdown).
NoForgottenWorker ==
  ~poisoned =>
    \A w \in Workers :
      Live(w) => Pending(w) \/ \E i \in DOMAIN workers : workers[i] = w

\* After the stop flag is stored a worker begins at most one more callback:
\* the one whose check of the flag came before the store (worker loops).
AtMostOneLateCallback ==
  \A w \in Workers : late[w] <= 1

\* When a shutdown call returns normally, every worker has exited but those
\* another thread is still creating (shutdown's contract, transport.rs).
ShutdownStopsWorkers ==
  [][\A t \in Threads :
       pc[t] = "join" /\ pc'[t] = "user" /\ ~poisoned'
         => \A w \in Workers : Live(w) => Pending(w)]_vars

\* The abstract dispatch promise, and how this module's state shows it.
SourceOf(w) ==
  CASE phase[w] = "unborn"     -> "absent"
    [] phase[w] = "subscribed" -> "open"
    [] phase[w] = "callback"   -> "busy"
    [] phase[w] = "done"       -> "gone"
    [] OTHER                   -> "idle"

Abstract == INSTANCE Dispatch WITH
  stopping <- ~running,
  source   <- [w \in Workers |-> SourceOf(w)],
  severed  <- {s \in Subs : phase[s] # "unborn" /\ s \notin sender},
  pending  <- queue

\* NodeHandle keeps the promise of the dispatch model (transport.rs, 16-27).
ImplementsDispatch == Abstract!Spec

CallbacksReturn == \A w \in Workers : WF_vars(FinishCallback(w))

\* The callback of w calls no operation of the node.
StaysOut(w) == [](pc[w] = "user")

\* A subscription or timer makes progress if its own callback returns and stays
\* out of the node, whatever the other callbacks do, even if they hang in an
\* operation or shut the node down (transport.rs, guarantee 2).
SourcesAreIndependent ==
  \A w \in Workers : WF_vars(FinishCallback(w)) /\ StaysOut(w) =>
    IF w \in Subs
    THEN \A i \in 1..MaxMsgs :
           arrived[w] >= i ~> Len(handled[w]) >= i \/ phase[w] = "done"
    ELSE phase[w] = "check" ~> phase[w] \in {"callback", "done"}

\* A node whose mutex a self-join has poisoned hangs nobody: its workers leave
\* their loops, detached or not, and whoever waits for the mutex, or comes
\* later, gets the panic (transport.rs, 114, 143 and 159).
PoisonHangsNobody ==
  CallbacksReturn =>
    /\ \A w \in Workers : poisoned /\ Live(w) ~> phase[w] = "done"
    /\ \A t \in Threads : poisoned /\ pc[t] # "user" ~> pc[t] = "user"

\* A shutdown call returns once the callbacks do (transport.rs, shutdown).
ShutdownReturnsEventually ==
  CallbacksReturn => \A t \in Threads : pc[t] = "lock" ~> pc[t] = "user"

\* It does so if in addition the callbacks stay out of the node.
ShutdownReturnsIfLeftAlone ==
  (\A w \in Workers : StaysOut(w)) => ShutdownReturnsEventually
=============================================================================
