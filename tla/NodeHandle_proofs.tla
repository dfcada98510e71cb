-------------------------- MODULE NodeHandle_proofs --------------------------
(***************************************************************************)
(* Proofs about NodeHandle for every set of callers, subscriptions and     *)
(* timers, every choice of operations callbacks may call, and every bound. *)
(***************************************************************************)
EXTENDS NodeHandle, TLAPS

(* What the properties need beyond the types is the bookkeeping of the      *)
(* operations under way: which worker a thread is creating and how far that *)
(* worker has come, that a worker inside an operation is inside its         *)
(* callback, and who holds the mutex.                                       *)

CreatorsAgree ==
  /\ \A t \in Threads :
       /\ pc[t] = "spawn" => /\ making[t] \in Subs
                             /\ phase[making[t]] = "subscribed"
       /\ pc[t] = "push"  => /\ making[t] \in Workers
                             /\ phase[making[t]] \notin {"unborn", "subscribed"}
  /\ \A t, u \in Threads :
       pc[t] = "spawn" /\ pc[u] = "spawn" /\ making[t] = making[u] => t = u

CallersAreInCallbacks ==
  \A w \in Workers : pc[w] # "user" => phase[w] = "callback"

DrainHoldsLock == \A t \in Threads : pc[t] = "join" <=> lockHolder = t

Bookkeeping ==
  ThreadTypes /\ CreatorsAgree /\ CallersAreInCallbacks /\ DrainHoldsLock

-----------------------------------------------------------------------------
\* Before the first call.
LEMMA BookkeepingInit == Init => Bookkeeping
<1> SUFFICES ASSUME Init PROVE Bookkeeping
  OBVIOUS
<1> USE NodeHandleAssumption DEF Init, Threads, Workers
<1>1. ThreadTypes
  BY DEF ThreadTypes, SubPhases, TimerPhases, Stages
<1>2. CreatorsAgree /\ CallersAreInCallbacks /\ DrainHoldsLock
  BY DEF CreatorsAgree, CallersAreInCallbacks, DrainHoldsLock
<1> QED
  BY <1>1, <1>2 DEF Bookkeeping

\* A panicking operation of thread t, in shutdown or on the poisoned mutex.
LEMMA PanicBookkeeping ==
  ASSUME Bookkeeping, NEW t \in Threads, pc[t] \in {"push", "lock", "join"},
         Panic(t), lockHolder' = NoThread, lockHolder \in {t, NoThread},
         UNCHANGED late, workers' \in Seq(Workers)
  PROVE  Bookkeeping'
<1> USE NodeHandleAssumption DEF Bookkeeping, Panic, Exit
<1>1. ThreadTypes'
  BY DEF ThreadTypes, SubPhases, TimerPhases, Stages, Threads, Workers
<1>2. CreatorsAgree'
  <2> USE DEF ThreadTypes, CreatorsAgree, Threads
  <2>1. /\ pc' = [pc EXCEPT ![t] = "user"]
        /\ making' = [making EXCEPT ![t] = NoThread]
    OBVIOUS
  <2>2. \A w \in Workers : phase'[w] = phase[w] \/ (w = t /\ phase'[w] = "done")
    OBVIOUS
  <2>3. t \in Workers => phase[t] = "callback"
    BY DEF CallersAreInCallbacks
  <2>4. \A u \in Threads : pc'[u] \in {"spawn", "push"}
          => u # t /\ pc'[u] = pc[u] /\ making'[u] = making[u]
    BY <2>1
  <2> QED
    BY <2>2, <2>3, <2>4 DEF Workers
<1>3. CallersAreInCallbacks'
  BY DEF ThreadTypes, CallersAreInCallbacks, Threads
<1>4. DrainHoldsLock'
  BY DEF ThreadTypes, DrainHoldsLock
<1> QED
  BY <1>1, <1>2, <1>3, <1>4

\* The operations, step by step.
LEMMA OpBookkeeping ==
  ASSUME Bookkeeping, NEW t \in Threads, BeginOp(t) \/ ContinueOp(t)
  PROVE  Bookkeeping'
<1> USE NodeHandleAssumption
<1>1. ASSUME NEW s \in Subs, RawSubscribe(t, s) PROVE Bookkeeping'
  <2> USE <1>1 DEF RawSubscribe, Bookkeeping
  <2>1. ThreadTypes'
    <3> USE DEF ThreadTypes
    <3>1. s \in Workers
      BY DEF Workers
    <3>2. PICK p \in SubPhases : phase' = [phase EXCEPT ![s] = p]
      <4>1. phase[s] \in SubPhases /\ phase = [phase EXCEPT ![s] = phase[s]]
        BY <3>1
      <4>2. "subscribed" \in SubPhases
        BY DEF SubPhases
      <4> QED
        BY <4>1, <4>2
    <3>3. phase' \in [Workers -> SubPhases \cup TimerPhases]
      BY <3>1, <3>2
    <3>4. \A x \in Workers : phase'[x] = IF x = s THEN p ELSE phase[x]
      BY <3>1, <3>2
    <3>5. /\ \A x \in Subs : phase'[x] \in SubPhases
          /\ \A x \in Timers : phase'[x] \in TimerPhases
      BY <3>4 DEF Workers
    <3>6. pc' \in [Threads -> Stages]
      BY DEF Stages
    <3>7. making' \in [Threads -> Workers \cup {NoThread}]
      BY <3>1
    <3> QED
      BY <3>3, <3>5, <3>6, <3>7
  <2>2. CreatorsAgree' /\ CallersAreInCallbacks' /\ DrainHoldsLock'
    BY DEF MayCall, ThreadTypes, CreatorsAgree, CallersAreInCallbacks, DrainHoldsLock,
           Threads, Workers
  <2> QED
    BY <2>1, <2>2
<1>2. ASSUME NEW w \in Timers, SpawnTimer(t, w) PROVE Bookkeeping'
  <2> USE <1>2 DEF SpawnTimer, Bookkeeping
  <2>1. ThreadTypes'
    <3> USE DEF ThreadTypes
    <3>1. /\ phase' \in [Workers -> SubPhases \cup TimerPhases]
          /\ \A x \in Subs : phase'[x] \in SubPhases
          /\ \A x \in Timers : phase'[x] \in TimerPhases
      BY DEF SubPhases, TimerPhases, Workers
    <3>2. /\ pc' \in [Threads -> Stages]
          /\ making' \in [Threads -> Workers \cup {NoThread}]
      BY DEF Stages, Workers
    <3> QED
      BY <3>1, <3>2
  <2>2. CreatorsAgree' /\ CallersAreInCallbacks' /\ DrainHoldsLock'
    BY DEF MayCall, ThreadTypes, CreatorsAgree, CallersAreInCallbacks, DrainHoldsLock,
           Threads, Workers
  <2> QED
    BY <2>1, <2>2
<1>3. ASSUME StoreStop(t) PROVE Bookkeeping'
  BY <1>3 DEF StoreStop, MayCall, callVars, Bookkeeping, ThreadTypes, Stages,
              CreatorsAgree, CallersAreInCallbacks, DrainHoldsLock, Threads
<1>4. ASSUME SpawnSubscriber(t) PROVE Bookkeeping'
  <2> USE <1>4 DEF SpawnSubscriber, callVars, Bookkeeping
  <2>1. ThreadTypes'
    <3> USE DEF ThreadTypes
    <3>1. /\ phase' \in [Workers -> SubPhases \cup TimerPhases]
          /\ \A x \in Subs : phase'[x] \in SubPhases
          /\ \A x \in Timers : phase'[x] \in TimerPhases
      BY DEF SubPhases, TimerPhases, Workers, CreatorsAgree
    <3>2. pc' \in [Threads -> Stages]
      BY DEF Stages
    <3> QED
      BY <3>1, <3>2
  <2>2. CreatorsAgree' /\ CallersAreInCallbacks' /\ DrainHoldsLock'
    BY DEF ThreadTypes, CreatorsAgree, CallersAreInCallbacks, DrainHoldsLock,
           Threads, Workers
  <2> QED
    BY <2>1, <2>2
<1>5. ASSUME PushWorker(t) PROVE Bookkeeping'
  BY <1>5 DEF PushWorker, Bookkeeping, ThreadTypes, Stages, CreatorsAgree,
              CallersAreInCallbacks, DrainHoldsLock, Threads
<1>6. ASSUME LockWorkers(t) PROVE Bookkeeping'
  BY <1>6 DEF LockWorkers, Bookkeeping, ThreadTypes, Stages, CreatorsAgree,
              CallersAreInCallbacks, DrainHoldsLock, Threads
<1>7. ASSUME JoinWorker(t) PROVE Bookkeeping'
  BY <1>7 DEF JoinWorker, Bookkeeping, ThreadTypes, CreatorsAgree,
              CallersAreInCallbacks, DrainHoldsLock
<1>8. ASSUME JoinSelf(t) PROVE Bookkeeping'
  <2>1. lockHolder = t /\ workers' \in Seq(Workers)
    BY <1>8 DEF JoinSelf, Bookkeeping, DrainHoldsLock
  <2> QED
    BY <1>8, <2>1, PanicBookkeeping DEF JoinSelf
<1>9. ASSUME ShutdownReturns(t) PROVE Bookkeeping'
  BY <1>9 DEF ShutdownReturns, Bookkeeping, ThreadTypes, Stages, CreatorsAgree,
              CallersAreInCallbacks, DrainHoldsLock, Threads
<1>10. ASSUME UnwrapPoisoned(t) PROVE Bookkeeping'
  <2>1. workers' \in Seq(Workers)
    BY <1>10 DEF UnwrapPoisoned, Bookkeeping, ThreadTypes
  <2> QED
    BY <1>10, <2>1, PanicBookkeeping DEF UnwrapPoisoned
<1> QED
  BY <1>1, <1>2, <1>3, <1>4, <1>5, <1>6, <1>7, <1>8, <1>9, <1>10
     DEF BeginOp, ContinueOp

\* The worker loops, the callbacks' returns and the transport.
LEMMA LoopBookkeeping ==
  ASSUME Bookkeeping, NEW w \in Workers, WorkerLoop(w) \/ FinishCallback(w)
  PROVE  Bookkeeping'
<1> USE NodeHandleAssumption
<1>1. /\ UNCHANGED <<workers, lockHolder, pc, making>>
      /\ phase[w] \notin {"unborn", "subscribed"}
      /\ pc[w] = "user"
  BY DEF WorkerLoop, SubLoop, TimerLoop, CheckRunning, Receive, ReceiveTimeout,
         ReceiveDisconnected, TimerPollStops, TimerDeadline, TimerDue,
         FinishCallback, callVars, Bookkeeping, CallersAreInCallbacks
<1>2. PICK p \in (IF w \in Subs THEN SubPhases ELSE TimerPhases)
                   \ {"unborn", "subscribed"} :
        phase' = [phase EXCEPT ![w] = p]
  <2>1. CASE w \in Subs /\ SubLoop(w)
    BY <2>1 DEF SubLoop, CheckRunning, Receive, ReceiveTimeout, ReceiveDisconnected,
                BeginCallback, Exit, SubPhases
  <2>2. CASE w \in Timers /\ TimerLoop(w)
    <3>1. w \notin Subs
      BY <2>2
    <3> QED
      BY <2>2, <3>1 DEF TimerLoop, TimerPollStops, TimerDeadline, TimerDue,
                        BeginCallback, Exit, TimerPhases
  <2>3. CASE FinishCallback(w)
    BY <2>3 DEF FinishCallback, SubPhases, TimerPhases
  <2>4. CASE CheckRunning(w)
    BY <2>4 DEF CheckRunning, Exit, SubPhases, TimerPhases, Workers
  <2> QED
    BY <2>1, <2>2, <2>3, <2>4 DEF WorkerLoop, Workers
<1>3. late' \in [Workers -> Nat]
  <2>1. late \in [Workers -> Nat]
    BY DEF Bookkeeping, ThreadTypes
  <2>2. UNCHANGED late \/ BeginCallback(w)
    BY DEF WorkerLoop, SubLoop, TimerLoop, CheckRunning, Receive, ReceiveTimeout,
           ReceiveDisconnected, TimerPollStops, TimerDeadline, TimerDue, FinishCallback
  <2>3. CASE BeginCallback(w)
    BY <2>1, <2>3 DEF BeginCallback
  <2> QED
    BY <2>1, <2>2, <2>3
<1>4. ThreadTypes'
  <2>1. /\ phase' \in [Workers -> SubPhases \cup TimerPhases]
        /\ \A x \in Subs : phase'[x] \in SubPhases
        /\ \A x \in Timers : phase'[x] \in TimerPhases
    BY <1>2 DEF Bookkeeping, ThreadTypes, Workers
  <2> QED
    BY <2>1, <1>1, <1>3 DEF Bookkeeping, ThreadTypes
<1>5. CreatorsAgree'
  BY <1>1, <1>2 DEF Bookkeeping, ThreadTypes, CreatorsAgree
<1>6. CallersAreInCallbacks'
  BY <1>1, <1>2 DEF Bookkeeping, ThreadTypes, CallersAreInCallbacks
<1>7. DrainHoldsLock'
  BY <1>1 DEF Bookkeeping, DrainHoldsLock
<1> QED
  BY <1>4, <1>5, <1>6, <1>7 DEF Bookkeeping

\* Every step keeps the bookkeeping of locks, workers and program counters.
LEMMA BookkeepingStep == Bookkeeping /\ [Next]_vars => Bookkeeping'
<1> SUFFICES ASSUME Bookkeeping, [Next]_vars PROVE Bookkeeping'
  OBVIOUS
<1>1. ASSUME NEW t \in Threads, BeginOp(t) \/ ContinueOp(t) PROVE Bookkeeping'
  BY <1>1, OpBookkeeping
<1>2. ASSUME NEW w \in Workers, WorkerLoop(w) \/ FinishCallback(w)
      PROVE  Bookkeeping'
  BY <1>2, LoopBookkeeping
<1>3. ASSUME NEW s \in Subs, Deliver(s) \/ DropSender(s) PROVE Bookkeeping'
  BY <1>3 DEF Deliver, DropSender, callVars, Bookkeeping, ThreadTypes,
              CreatorsAgree, CallersAreInCallbacks, DrainHoldsLock
<1>4. ASSUME UNCHANGED vars PROVE Bookkeeping'
  BY <1>4 DEF vars, callVars, Bookkeeping, ThreadTypes, CreatorsAgree,
              CallersAreInCallbacks, DrainHoldsLock
<1> QED
  BY <1>1, <1>2, <1>3, <1>4 DEF Next

\* The bookkeeping is right in every reachable state.
LEMMA BookkeepingHolds == Spec => []Bookkeeping
  BY BookkeepingInit, BookkeepingStep, PTL DEF Spec

-----------------------------------------------------------------------------
(* Type correctness.                                                       *)

\* Every step keeps the types of the flags.
LEMMA FlagStep == FlagTypes /\ [Next]_vars => FlagTypes'
<1> SUFFICES ASSUME FlagTypes, [Next]_vars PROVE FlagTypes'
  OBVIOUS
<1> USE DEF FlagTypes, callVars
<1>1. ASSUME NEW t \in Threads, BeginOp(t) PROVE FlagTypes'
  BY <1>1 DEF BeginOp, RawSubscribe, SpawnTimer, StoreStop
<1>2. ASSUME NEW t \in Threads, ContinueOp(t) PROVE FlagTypes'
  BY <1>2 DEF ContinueOp, SpawnSubscriber, PushWorker, LockWorkers, JoinWorker,
              JoinSelf, ShutdownReturns, UnwrapPoisoned
<1>3. ASSUME NEW w \in Workers, WorkerLoop(w) \/ FinishCallback(w)
      PROVE  FlagTypes'
  BY <1>3 DEF WorkerLoop, SubLoop, TimerLoop, CheckRunning, Receive,
              ReceiveTimeout, ReceiveDisconnected, TimerPollStops,
              TimerDeadline, TimerDue, FinishCallback
<1>4. ASSUME NEW s \in Subs, Deliver(s) \/ DropSender(s) PROVE FlagTypes'
  BY <1>4 DEF Deliver, DropSender
<1>5. ASSUME UNCHANGED vars PROVE FlagTypes'
  BY <1>5 DEF vars
<1> QED
  BY <1>1, <1>2, <1>3, <1>4, <1>5 DEF Next

\* Every step keeps the types of the channels.
LEMMA ChannelStep == ChannelTypes /\ [Next]_vars => ChannelTypes'
<1> SUFFICES ASSUME ChannelTypes, [Next]_vars PROVE ChannelTypes'
  OBVIOUS
<1> USE DEF ChannelTypes, dataVars
<1>0. ASSUME NEW w \in Workers, Exit(w) PROVE queue' \in [Subs -> Seq(Nat)]
  <2>1. \A s \in Subs : (IF s = w THEN <<>> ELSE queue[s]) \in Seq(Nat)
    OBVIOUS
  <2> QED
    BY <1>0, <2>1 DEF Exit
<1>1. ASSUME NEW t \in Threads, BeginOp(t) PROVE ChannelTypes'
  BY <1>1 DEF BeginOp, RawSubscribe, SpawnTimer, StoreStop
<1>2. ASSUME NEW t \in Threads, ContinueOp(t) PROVE ChannelTypes'
  <2>1. /\ UNCHANGED <<sender, arrived, handled>>
        /\ UNCHANGED queue \/ Panic(t)
    BY <1>2 DEF ContinueOp, SpawnSubscriber, PushWorker, LockWorkers, JoinWorker,
                JoinSelf, ShutdownReturns, UnwrapPoisoned
  <2>2. UNCHANGED queue \/ (t \in Workers /\ Exit(t))
    BY <2>1 DEF Panic
  <2> QED
    BY <1>0, <2>1, <2>2
<1>3. ASSUME NEW s \in Subs, Receive(s) PROVE ChannelTypes'
  BY <1>3 DEF Receive
<1>4. ASSUME NEW w \in Workers,
             \/ WorkerLoop(w) /\ (w \in Subs => ~Receive(w))
             \/ FinishCallback(w)
      PROVE  ChannelTypes'
  <2>1. /\ UNCHANGED <<sender, arrived, handled>>
        /\ UNCHANGED queue \/ Exit(w)
    BY <1>4 DEF WorkerLoop, SubLoop, TimerLoop, CheckRunning, ReceiveTimeout,
                ReceiveDisconnected, TimerPollStops, TimerDeadline, TimerDue,
                FinishCallback
  <2> QED
    BY <1>0, <2>1
<1>5. ASSUME NEW s \in Subs, Deliver(s) PROVE ChannelTypes'
  BY <1>5 DEF Deliver
<1>6. ASSUME NEW s \in Subs, DropSender(s) PROVE ChannelTypes'
  BY <1>6 DEF DropSender
<1>7. ASSUME UNCHANGED vars PROVE ChannelTypes'
  BY <1>7 DEF vars
<1> QED
  BY <1>1, <1>2, <1>3, <1>4, <1>5, <1>6, <1>7 DEF Next

\* Every variable of NodeHandle keeps its type.
THEOREM TypeCorrect == Spec => []TypeOK
<1>1. Init => FlagTypes /\ ChannelTypes
  <2>1. Init => FlagTypes
    BY DEF Init, FlagTypes
  <2>2. Init => ChannelTypes
    BY DEF Init, ChannelTypes
  <2> QED
    BY <2>1, <2>2
<1>2. Bookkeeping => ThreadTypes
  BY DEF Bookkeeping
<1>3. FlagTypes /\ ThreadTypes /\ ChannelTypes => TypeOK
  BY DEF TypeOK
<1> QED
  BY <1>1, <1>2, <1>3, BookkeepingHolds, FlagStep, ChannelStep, PTL DEF Spec

-----------------------------------------------------------------------------
(* No worker thread is forgotten.                                          *)

\* There are no workers at first.
LEMMA ForgottenInit == Init => NoForgottenWorker
  BY DEF Init, NoForgottenWorker, Live

\* A worker's phase changes without the operations knowing: it stays where it is
\* accounted for, and nothing brings a worker to life that was not alive.
LEMMA LoopForgetsNobody ==
  ASSUME Bookkeeping, NoForgottenWorker, NEW w \in Workers,
         WorkerLoop(w) \/ FinishCallback(w)
  PROVE  NoForgottenWorker'
<1>1. /\ UNCHANGED <<workers, poisoned, pc, making>>
      /\ Live(w)
  BY DEF WorkerLoop, SubLoop, TimerLoop, CheckRunning, Receive, ReceiveTimeout,
         ReceiveDisconnected, TimerPollStops, TimerDeadline, TimerDue,
         FinishCallback, callVars, Live
<1>2. \A x \in Workers : x # w => phase'[x] = phase[x]
  BY DEF WorkerLoop, SubLoop, TimerLoop, CheckRunning, Receive, ReceiveTimeout,
         ReceiveDisconnected, TimerPollStops, TimerDeadline, TimerDue,
         FinishCallback, BeginCallback, Exit, Bookkeeping, ThreadTypes
<1> QED
  BY <1>1, <1>2 DEF NoForgottenWorker, Live, Pending

\* An operation that takes a worker off the list joins it.
LEMMA OpForgetsNobody ==
  ASSUME Bookkeeping, NoForgottenWorker, NEW t \in Threads,
         BeginOp(t) \/ ContinueOp(t)
  PROVE  NoForgottenWorker'
<1> USE DEF Bookkeeping, ThreadTypes, CreatorsAgree, NoForgottenWorker, Live, Pending
<1>1. ASSUME NEW s \in Subs, RawSubscribe(t, s) PROVE NoForgottenWorker'
  <2>1. \A w \in Workers : w # s => phase'[w] = phase[w]
    BY <1>1 DEF RawSubscribe
  <2>2. ~ Live(s)'
    BY <1>1 DEF RawSubscribe, Workers
  <2>3. \A u \in Threads : pc[u] = "push" => pc'[u] = "push" /\ making'[u] = making[u]
    BY <1>1 DEF RawSubscribe, MayCall
  <2> QED
    BY <1>1, <2>1, <2>2, <2>3 DEF RawSubscribe
<1>2. ASSUME NEW w \in Timers, SpawnTimer(t, w) PROVE NoForgottenWorker'
  BY <1>2 DEF SpawnTimer, MayCall, Workers
<1>3. ASSUME StoreStop(t) PROVE NoForgottenWorker'
  BY <1>3 DEF StoreStop, MayCall, callVars
<1>4. ASSUME SpawnSubscriber(t) PROVE NoForgottenWorker'
  BY <1>4 DEF SpawnSubscriber, callVars
<1>5. ASSUME PushWorker(t) PROVE NoForgottenWorker'
  <2>1. making[t] \in Workers
    BY <1>5 DEF PushWorker
  <2>2. /\ DOMAIN workers \subseteq DOMAIN workers'
        /\ \A i \in DOMAIN workers : workers'[i] = workers[i]
        /\ \E i \in DOMAIN workers' : workers'[i] = making[t]
    <3>1. workers \in Seq(Workers) /\ workers' = Append(workers, making[t])
      BY <1>5 DEF PushWorker
    <3> HIDE DEF Bookkeeping, ThreadTypes, CreatorsAgree, NoForgottenWorker, Live, Pending
    <3>2. /\ Len(workers') = Len(workers) + 1 /\ Len(workers) \in Nat
          /\ workers'[Len(workers) + 1] = making[t]
          /\ \A i \in 1..Len(workers) : workers'[i] = workers[i]
      BY <3>1, <2>1
    <3>3. DOMAIN workers = 1..Len(workers) /\ DOMAIN workers' = 1..Len(workers')
      BY <3>1, <2>1
    <3>4. Len(workers) + 1 \in DOMAIN workers'
      BY <3>2, <3>3
    <3> QED
      BY <3>2, <3>3, <3>4
  <2>3. \A u \in Threads : u # t => pc'[u] = pc[u] /\ making'[u] = making[u]
    BY <1>5 DEF PushWorker
  <2>4. \A w \in Workers : phase'[w] = phase[w]
    BY <1>5 DEF PushWorker
  <2>5. ASSUME ~poisoned, NEW w \in Workers, Live(w)'
        PROVE  Pending(w)' \/ \E i \in DOMAIN workers' : workers'[i] = w
    <3>1. Pending(w) \/ \E i \in DOMAIN workers : workers[i] = w
      BY <2>4, <2>5
    <3>2. CASE \E i \in DOMAIN workers : workers[i] = w
      BY <2>2, <3>2
    <3>3. CASE Pending(w)
      <4>1. PICK u \in Threads : pc[u] = "push" /\ making[u] = w
        BY <3>3
      <4>2. CASE u = t
        BY <2>2, <4>1, <4>2
      <4>3. CASE u # t
        BY <2>3, <4>1, <4>3
      <4> QED
        BY <4>2, <4>3
    <3> QED
      BY <3>1, <3>2, <3>3
  <2>6. poisoned' = poisoned
    BY <1>5 DEF PushWorker
  <2> QED
    BY <2>5, <2>6
<1>6. ASSUME LockWorkers(t) PROVE NoForgottenWorker'
  BY <1>6 DEF LockWorkers
<1>7. ASSUME JoinWorker(t) PROVE NoForgottenWorker'
  <2>1. \A i \in DOMAIN workers : i # 1 => /\ i - 1 \in DOMAIN workers'
                                           /\ workers'[i - 1] = workers[i]
    BY <1>7 DEF JoinWorker
  <2>2. phase[workers[1]] = "done" /\ UNCHANGED <<phase, pc, making, poisoned>>
    BY <1>7 DEF JoinWorker
  <2>3. ASSUME NEW w \in Workers, phase[w] # "done", NEW i \in DOMAIN workers,
               workers[i] = w
        PROVE  \E j \in DOMAIN workers' : workers'[j] = w
    BY <2>1, <2>2, <2>3
  <2> QED
    BY <2>2, <2>3
<1>8. ASSUME JoinSelf(t) PROVE NoForgottenWorker'
  BY <1>8 DEF JoinSelf
<1>9. ASSUME ShutdownReturns(t) PROVE NoForgottenWorker'
  BY <1>9 DEF ShutdownReturns
<1>10. ASSUME UnwrapPoisoned(t) PROVE NoForgottenWorker'
  BY <1>10 DEF UnwrapPoisoned
<1> QED
  BY <1>1, <1>2, <1>3, <1>4, <1>5, <1>6, <1>7, <1>8, <1>9, <1>10
     DEF BeginOp, ContinueOp

\* Every step keeps every live worker accounted for.
LEMMA ForgottenStep ==
  Bookkeeping /\ NoForgottenWorker /\ [Next]_vars => NoForgottenWorker'
<1> SUFFICES ASSUME Bookkeeping, NoForgottenWorker, [Next]_vars
             PROVE  NoForgottenWorker'
  OBVIOUS
<1>1. ASSUME NEW s \in Subs, Deliver(s) \/ DropSender(s)
      PROVE  NoForgottenWorker'
  BY <1>1 DEF Deliver, DropSender, callVars, NoForgottenWorker, Live, Pending
<1>2. ASSUME UNCHANGED vars PROVE NoForgottenWorker'
  BY <1>2 DEF vars, callVars, NoForgottenWorker, Live, Pending
<1> QED
  BY <1>1, <1>2, LoopForgetsNobody, OpForgetsNobody DEF Next

\* create_subscription, create_timer and shutdown never lose the handle of a
\* worker that runs, whatever the interleaving (transport.rs, 104-162).
THEOREM NoWorkerForgotten == Spec => []NoForgottenWorker
  BY BookkeepingHolds, ForgottenInit, ForgottenStep, PTL DEF Spec

\* The one step that takes a shutdown back to its caller without a panic finds
\* the list empty.
LEMMA ShutdownStep ==
  Bookkeeping /\ NoForgottenWorker /\ [Next]_vars
    => [\A t \in Threads :
          pc[t] = "join" /\ pc'[t] = "user" /\ ~poisoned'
            => \A w \in Workers : Live(w) => Pending(w)]_vars
<1> SUFFICES ASSUME Bookkeeping, NoForgottenWorker, Next,
                    NEW t \in Threads, pc[t] = "join", pc'[t] = "user", ~poisoned'
             PROVE  \A w \in Workers : Live(w) => Pending(w)
  OBVIOUS
<1>1. ASSUME NEW u \in Threads, BeginOp(u) \/ ContinueOp(u)
      PROVE  ShutdownReturns(t)
  <2>1. u = t
    BY <1>1 DEF BeginOp, ContinueOp, RawSubscribe, SpawnTimer, StoreStop,
                SpawnSubscriber, PushWorker, LockWorkers, JoinWorker, JoinSelf,
                ShutdownReturns, UnwrapPoisoned, Panic, Bookkeeping, ThreadTypes
  <2> QED
    BY <1>1, <2>1 DEF BeginOp, ContinueOp, RawSubscribe, SpawnTimer, StoreStop,
                MayCall, SpawnSubscriber, PushWorker, LockWorkers, JoinWorker,
                JoinSelf, UnwrapPoisoned
<1>2. ASSUME NEW w \in Workers, WorkerLoop(w) \/ FinishCallback(w) PROVE FALSE
  BY <1>2 DEF WorkerLoop, SubLoop, TimerLoop, CheckRunning, Receive, ReceiveTimeout,
              ReceiveDisconnected, TimerPollStops, TimerDeadline, TimerDue,
              FinishCallback
<1>3. ASSUME NEW s \in Subs, Deliver(s) \/ DropSender(s) PROVE FALSE
  BY <1>3 DEF Deliver, DropSender
<1>4. ShutdownReturns(t)
  BY <1>1, <1>2, <1>3 DEF Next
<1>5. workers = <<>> /\ ~poisoned
  BY <1>4 DEF ShutdownReturns
<1> QED
  BY <1>5 DEF NoForgottenWorker

\* When shutdown returns normally every worker has exited, except one another
\* thread is still creating (transport.rs, shutdown).
THEOREM ShutdownIsComplete == Spec => ShutdownStopsWorkers
  BY BookkeepingHolds, NoWorkerForgotten, ShutdownStep, PTL
     DEF Spec, ShutdownStopsWorkers

-----------------------------------------------------------------------------
(* Callbacks after the stop flag.                                          *)

\* The one late callback of a worker is under way or over, and the worker does
\* not get past its check of the flag again.
LateMeansStopped ==
  \A w \in Workers :
    \/ late[w] = 0
    \/ late[w] = 1 /\ ~running /\ phase[w] \in {"callback", "check", "done"}

\* No callback has begun late before the first call.
LEMMA LateInit == Init => LateMeansStopped
  BY DEF Init, LateMeansStopped

\* An operation begins no callback.
LEMMA LateOpStep ==
  ASSUME Bookkeeping, LateMeansStopped, NEW t \in Threads,
         BeginOp(t) \/ ContinueOp(t)
  PROVE  LateMeansStopped'
<1>1. late' = late /\ (~running => ~running')
  BY DEF BeginOp, ContinueOp, RawSubscribe, SpawnTimer, StoreStop,
         SpawnSubscriber, PushWorker, LockWorkers, JoinWorker, JoinSelf,
         ShutdownReturns, UnwrapPoisoned, callVars
<1>2. ASSUME NEW w \in Workers, phase[w] \in {"callback", "check", "done"}
      PROVE  phase'[w] = phase[w] \/ phase'[w] = "done"
  <2> USE <1>2 DEF Bookkeeping, ThreadTypes
  <2>1. CASE BeginOp(t)
    BY <2>1 DEF BeginOp, RawSubscribe, SpawnTimer, StoreStop
  <2>2. CASE SpawnSubscriber(t)
    BY <2>2 DEF SpawnSubscriber, CreatorsAgree
  <2>3. CASE ContinueOp(t) /\ ~SpawnSubscriber(t)
    BY <2>3 DEF ContinueOp, PushWorker, LockWorkers, JoinWorker, JoinSelf,
                ShutdownReturns, UnwrapPoisoned, Panic, Exit
  <2> QED
    BY <2>1, <2>2, <2>3
<1> QED
  BY <1>1, <1>2 DEF LateMeansStopped

\* A worker that begins a callback late leaves its loop after it.
LEMMA LateLoopStep ==
  ASSUME Bookkeeping, LateMeansStopped, NEW w \in Workers,
         WorkerLoop(w) \/ FinishCallback(w)
  PROVE  LateMeansStopped'
<1> USE DEF Bookkeeping, ThreadTypes, LateMeansStopped
<1>1. CASE CheckRunning(w)
  BY <1>1 DEF CheckRunning, Exit
<1>2. CASE w \in Subs /\ Receive(w)
  BY <1>2 DEF Receive, BeginCallback
<1>3. CASE w \in Timers /\ TimerDue(w)
  BY <1>3 DEF TimerDue, BeginCallback
<1>4. CASE \/ w \in Subs /\ (ReceiveTimeout(w) \/ ReceiveDisconnected(w))
           \/ w \in Timers /\ (TimerPollStops(w) \/ TimerDeadline(w))
           \/ FinishCallback(w)
  BY <1>4 DEF ReceiveTimeout, ReceiveDisconnected, TimerPollStops, TimerDeadline,
              FinishCallback, Exit
<1> QED
  BY <1>1, <1>2, <1>3, <1>4 DEF WorkerLoop, SubLoop, TimerLoop

\* Every step keeps late callbacks to those of stopped nodes.
LEMMA LateStep == Bookkeeping /\ LateMeansStopped /\ [Next]_vars => LateMeansStopped'
<1> SUFFICES ASSUME Bookkeeping, LateMeansStopped, [Next]_vars
             PROVE  LateMeansStopped'
  OBVIOUS
<1>1. ASSUME NEW s \in Subs, Deliver(s) \/ DropSender(s) PROVE LateMeansStopped'
  BY <1>1 DEF Deliver, DropSender, LateMeansStopped
<1>2. ASSUME UNCHANGED vars PROVE LateMeansStopped'
  BY <1>2 DEF vars, LateMeansStopped
<1> QED
  BY <1>1, <1>2, LateOpStep, LateLoopStep DEF Next

\* However the store of the flag falls among the worker's steps, it begins at
\* most one callback afterwards (transport.rs, 106-108 and 130-139).
THEOREM OneLateCallback == Spec => []AtMostOneLateCallback
<1>1. LateMeansStopped => AtMostOneLateCallback
  BY DEF LateMeansStopped, AtMostOneLateCallback
<1> QED
  BY <1>1, BookkeepingHolds, LateInit, LateStep, PTL DEF Spec

-----------------------------------------------------------------------------
(* Order of delivery.                                                      *)

\* A Sender exists only once its subscription does.
SendersExist == \A s \in sender : phase[s] # "unborn"

\* A message in the channel comes after those handled; taking it changes nothing
\* of what has been handled and what waits, seen as one sequence.
LEMMA TakeKeepsSequence ==
  ASSUME NEW h \in Seq(Nat), NEW q \in Seq(Nat), q # <<>>
  PROVE  Append(h, Head(q)) \o Tail(q) = h \o q
BY SMTT(30)

\* A message that arrives is the last of what is seen as one sequence.
LEMMA AppendExtendsSequence ==
  ASSUME NEW h \in Seq(Nat), NEW q \in Seq(Nat), NEW n \in Nat
  PROVE  h \o Append(q, n) = Append(h \o q, n)
  OBVIOUS

\* What is numbered in order is so up to any point.
LEMMA PrefixStaysNumbered ==
  ASSUME NEW h \in Seq(Nat), NEW q \in Seq(Nat),
         \A i \in DOMAIN (h \o q) : (h \o q)[i] = i
  PROVE  \A i \in DOMAIN h : h[i] = i
<1>1. \A i \in DOMAIN h : i \in DOMAIN (h \o q) /\ (h \o q)[i] = h[i]
  OBVIOUS
<1> QED
  BY <1>1

\* The next number goes behind what is numbered in order.
LEMMA AppendStaysNumbered ==
  ASSUME NEW u \in Seq(Nat), \A i \in DOMAIN u : u[i] = i
  PROVE  LET v == Append(u, Len(u) + 1)
         IN  Len(v) = Len(u) + 1 /\ \A i \in DOMAIN v : v[i] = i
  OBVIOUS

InOrder(s) ==
  LET taken == handled[s] \o queue[s]
  IN  /\ \A i \in DOMAIN taken : taken[i] = i
      /\ phase[s] # "done" => Len(taken) = arrived[s]

\* Nothing has arrived at first.
LEMMA OrderInit == Init => InOrderDelivery
  BY DEF Init, InOrderDelivery, Workers

\* A step that leaves a subscription's data alone, without bringing its worker
\* back from the end of its loop, or that ends the loop.
LEMMA OrderKept ==
  ASSUME ChannelTypes, NEW s \in Subs, InOrder(s),
         handled'[s] = handled[s], arrived'[s] = arrived[s],
         \/ queue'[s] = queue[s] /\ (phase[s] = "done" => phase'[s] = "done")
         \/ queue'[s] = <<>> /\ phase'[s] = "done"
  PROVE  InOrder(s)'
<1>1. CASE queue'[s] = queue[s] /\ (phase[s] = "done" => phase'[s] = "done")
  BY <1>1 DEF InOrder
<1>2. CASE queue'[s] = <<>> /\ phase'[s] = "done"
  <2>1. handled[s] \in Seq(Nat) /\ queue[s] \in Seq(Nat)
    BY DEF ChannelTypes
  <2>2. (handled[s] \o queue[s])' = handled[s]
    BY <1>2, <2>1
  <2>3. \A i \in DOMAIN (handled[s] \o queue[s]) : (handled[s] \o queue[s])[i] = i
    BY DEF InOrder
  <2>4. \A i \in DOMAIN handled[s] : handled[s][i] = i
    BY <2>1, <2>3, PrefixStaysNumbered
  <2> QED
    BY <1>2, <2>2, <2>4 DEF InOrder
<1> QED
  BY <1>1, <1>2

\* Every step keeps the order of delivery.
LEMMA OrderStep ==
  Bookkeeping /\ ChannelTypes /\ InOrderDelivery /\ [Next]_vars => InOrderDelivery'
<1> SUFFICES ASSUME Bookkeeping, ChannelTypes, [Next]_vars,
                    NEW s \in Subs, InOrder(s)
             PROVE  InOrder(s)'
  BY DEF InOrderDelivery, InOrder
<1>1. ASSUME NEW t \in Threads, BeginOp(t) \/ ContinueOp(t) PROVE InOrder(s)'
  <2>1. UNCHANGED <<handled, arrived>>
    BY <1>1 DEF BeginOp, ContinueOp, RawSubscribe, SpawnTimer, StoreStop,
                SpawnSubscriber, PushWorker, LockWorkers, JoinWorker, JoinSelf,
                ShutdownReturns, UnwrapPoisoned, dataVars
  <2>2. \/ queue'[s] = queue[s] /\ (phase[s] = "done" => phase'[s] = "done")
        \/ queue'[s] = <<>> /\ phase'[s] = "done"
    <3> USE DEF Bookkeeping, ThreadTypes, Workers
    <3>1. CASE BeginOp(t)
      BY <3>1 DEF BeginOp, RawSubscribe, SpawnTimer, StoreStop, dataVars
    <3>2. CASE SpawnSubscriber(t)
      BY <3>2 DEF SpawnSubscriber, CreatorsAgree, dataVars
    <3>3. CASE ContinueOp(t) /\ ~SpawnSubscriber(t)
      BY <3>3 DEF ContinueOp, PushWorker, LockWorkers, JoinWorker, JoinSelf,
                  ShutdownReturns, UnwrapPoisoned, Panic, Exit, dataVars
    <3> QED
      BY <1>1, <3>1, <3>2, <3>3
  <2> QED
    BY <2>1, <2>2, OrderKept
<1>2. ASSUME NEW x \in Subs, Receive(x) PROVE InOrder(s)'
  <2>1. CASE x = s
    <3>1. handled[s] \in Seq(Nat) /\ queue[s] \in Seq(Nat) /\ queue[s] # <<>>
      BY <1>2, <2>1 DEF ChannelTypes, Receive
    <3>2. /\ handled'[s] = Append(handled[s], Head(queue[s]))
          /\ queue'[s] = Tail(queue[s])
          /\ arrived'[s] = arrived[s]
          /\ phase[s] # "done"
      BY <1>2, <2>1 DEF ChannelTypes, Receive
    <3>3. handled'[s] \o queue'[s] = handled[s] \o queue[s]
      BY <3>1, <3>2, TakeKeepsSequence
    <3> QED
      BY <3>2, <3>3 DEF InOrder
  <2>2. CASE x # s
    <3>1. /\ handled'[s] = handled[s] /\ queue'[s] = queue[s]
          /\ arrived'[s] = arrived[s] /\ phase'[s] = phase[s]
      BY <1>2, <2>2 DEF Receive, BeginCallback, ChannelTypes, Bookkeeping,
                        ThreadTypes, Workers
    <3> QED
      BY <3>1, OrderKept
  <2> QED
    BY <2>1, <2>2
<1>3. ASSUME NEW w \in Workers,
             \/ WorkerLoop(w) /\ (w \in Subs => ~Receive(w))
             \/ FinishCallback(w)
      PROVE  InOrder(s)'
  <2>1. UNCHANGED <<handled, arrived>>
    BY <1>3 DEF WorkerLoop, SubLoop, TimerLoop, CheckRunning, ReceiveTimeout,
                ReceiveDisconnected, TimerPollStops, TimerDeadline, TimerDue,
                FinishCallback, dataVars
  <2>2. \/ queue'[s] = queue[s] /\ (phase[s] = "done" => phase'[s] = "done")
        \/ queue'[s] = <<>> /\ phase'[s] = "done"
    BY <1>3 DEF WorkerLoop, SubLoop, TimerLoop, CheckRunning, ReceiveTimeout,
                ReceiveDisconnected, TimerPollStops, TimerDeadline, TimerDue,
                FinishCallback, BeginCallback, Exit, dataVars, Bookkeeping,
                ThreadTypes, Workers
  <2> QED
    BY <2>1, <2>2, OrderKept
<1>4. ASSUME NEW x \in Subs, Deliver(x) PROVE InOrder(s)'
  <2>1. CASE x = s /\ phase[s] # "done"
    <3>1. handled[s] \in Seq(Nat) /\ queue[s] \in Seq(Nat) /\ arrived[s] \in Nat
      BY DEF ChannelTypes
    <3>2. /\ handled'[s] = handled[s]
          /\ queue'[s] = Append(queue[s], arrived[s] + 1)
          /\ arrived'[s] = arrived[s] + 1
          /\ phase'[s] = phase[s]
      BY <1>4, <2>1 DEF Deliver, ChannelTypes
    <3> DEFINE old == handled[s] \o queue[s]
    <3>3. old \in Seq(Nat)
      BY <3>1
    <3>4. Len(old) = arrived[s] /\ \A i \in DOMAIN old : old[i] = i
      BY <2>1 DEF InOrder
    <3>5. handled'[s] \o queue'[s] = Append(old, arrived[s] + 1)
      <4>1. arrived[s] + 1 \in Nat
        BY <3>1
      <4>2. handled[s] \o Append(queue[s], arrived[s] + 1) = Append(old, arrived[s] + 1)
        BY <3>1, <4>1, AppendExtendsSequence
      <4> QED
        BY <3>2, <4>2
    <3> DEFINE new == Append(old, arrived[s] + 1)
    <3>6. Len(new) = arrived[s] + 1 /\ \A i \in DOMAIN new : new[i] = i
      <4> HIDE DEF old
      <4> QED
        BY <3>3, <3>4, AppendStaysNumbered
    <3> QED
      BY <3>2, <3>5, <3>6 DEF InOrder
  <2>2. CASE x # s
    <3>1. /\ handled'[s] = handled[s] /\ queue'[s] = queue[s]
          /\ arrived'[s] = arrived[s] /\ phase'[s] = phase[s]
      BY <1>4, <2>2 DEF Deliver, ChannelTypes
    <3> QED
      BY <3>1, OrderKept
  <2>3. CASE x = s /\ phase[s] = "done"
    BY <1>4, <2>3 DEF Deliver, InOrder
  <2> QED
    BY <2>1, <2>2, <2>3
<1>5. ASSUME NEW x \in Subs, DropSender(x) PROVE InOrder(s)'
  BY <1>5 DEF DropSender, InOrder
<1>6. ASSUME UNCHANGED vars PROVE InOrder(s)'
  BY <1>6 DEF vars, dataVars, InOrder
<1> QED
  BY <1>1, <1>2, <1>3, <1>4, <1>5, <1>6 DEF Next

\* The channels have their types in every reachable state.
LEMMA ChannelTypesHold == Spec => []ChannelTypes
<1>1. Init => ChannelTypes
  BY DEF Init, ChannelTypes
<1> QED
  BY <1>1, ChannelStep, PTL DEF Spec

\* Guarantee 1 of the dispatch model, for any number of subscriptions and any
\* number of messages (transport.rs, 21-22).
THEOREM DeliveryInOrder == Spec => []InOrderDelivery
  BY BookkeepingHolds, ChannelTypesHold, OrderInit, OrderStep, PTL DEF Spec

=============================================================================
