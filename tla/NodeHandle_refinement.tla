------------------------ MODULE NodeHandle_refinement ------------------------
(***************************************************************************)
(* NodeHandle implements Dispatch: the proof, for every value of the       *)
(* constants, that each step of the channels, polls, joins and locks is a  *)
(* step of the dispatch promise or changes nothing of it.                  *)
(***************************************************************************)
EXTENDS NodeHandle_proofs

\* What the promise sees of the workers and of the transport.
Seen   == [w \in Workers |-> SourceOf(w)]
CutOff == {s \in Subs : phase[s] # "unborn" /\ s \notin sender}

\* A thread drains the list, or died in it, only after the flag was stored.
StopFirst ==
  (poisoned \/ \E t \in Threads : pc[t] \in {"lock", "join"}) => ~running

StepInv ==
  Bookkeeping /\ ChannelTypes /\ InOrderDelivery /\ SendersExist /\ StopFirst

-----------------------------------------------------------------------------
\* Every step keeps it that only a stopped node shuts down.
LEMMA StopFirstStep == ThreadTypes /\ StopFirst /\ [Next]_vars => StopFirst'
<1> SUFFICES ASSUME ThreadTypes, StopFirst, [Next]_vars PROVE StopFirst'
  OBVIOUS
<1> USE DEF StopFirst, ThreadTypes, callVars
<1>1. ASSUME NEW t \in Threads, BeginOp(t) PROVE StopFirst'
  BY <1>1 DEF BeginOp, RawSubscribe, SpawnTimer, StoreStop
<1>2. ASSUME NEW t \in Threads, ContinueOp(t) PROVE StopFirst'
  BY <1>2 DEF ContinueOp, SpawnSubscriber, PushWorker, LockWorkers, JoinWorker,
              JoinSelf, ShutdownReturns, UnwrapPoisoned, Panic
<1>3. ASSUME NEW w \in Workers, WorkerLoop(w) \/ FinishCallback(w)
      PROVE  StopFirst'
  BY <1>3 DEF WorkerLoop, SubLoop, TimerLoop, CheckRunning, Receive,
              ReceiveTimeout, ReceiveDisconnected, TimerPollStops,
              TimerDeadline, TimerDue, FinishCallback
<1>4. ASSUME NEW s \in Subs, Deliver(s) \/ DropSender(s) PROVE StopFirst'
  BY <1>4 DEF Deliver, DropSender
<1>5. ASSUME UNCHANGED vars PROVE StopFirst'
  BY <1>5 DEF vars
<1> QED
  BY <1>1, <1>2, <1>3, <1>4, <1>5 DEF Next

\* Every step keeps it that a sender has its subscription.
LEMMA SendersStep ==
  Bookkeeping /\ ChannelTypes /\ SendersExist /\ [Next]_vars => SendersExist'
<1> SUFFICES ASSUME Bookkeeping, sender \subseteq Workers, SendersExist, [Next]_vars
             PROVE  SendersExist'
  BY DEF ChannelTypes, Workers
<1> USE DEF SendersExist, Bookkeeping, ThreadTypes, callVars, dataVars, Exit,
            BeginCallback
<1>1. ASSUME NEW t \in Threads, BeginOp(t) PROVE SendersExist'
  BY <1>1 DEF BeginOp, RawSubscribe, SpawnTimer, StoreStop, Workers
<1>2. ASSUME NEW t \in Threads, ContinueOp(t) PROVE SendersExist'
  BY <1>2 DEF ContinueOp, SpawnSubscriber, PushWorker, LockWorkers, JoinWorker,
              JoinSelf, ShutdownReturns, UnwrapPoisoned, Panic
<1>3. ASSUME NEW w \in Workers, WorkerLoop(w) \/ FinishCallback(w)
      PROVE  SendersExist'
  BY <1>3 DEF WorkerLoop, SubLoop, TimerLoop, CheckRunning, Receive,
              ReceiveTimeout, ReceiveDisconnected, TimerPollStops,
              TimerDeadline, TimerDue, FinishCallback
<1>4. ASSUME NEW s \in Subs, Deliver(s) \/ DropSender(s) PROVE SendersExist'
  BY <1>4 DEF Deliver, DropSender
<1>5. ASSUME UNCHANGED vars PROVE SendersExist'
  BY <1>5 DEF vars
<1> QED
  BY <1>1, <1>2, <1>3, <1>4, <1>5 DEF Next

\* What the steps of the refinement need holds in every reachable state.
LEMMA StepInvHolds == Spec => []StepInv
<1>1. Init => StopFirst /\ SendersExist
  BY DEF Init, StopFirst, SendersExist
<1>2. Bookkeeping => ThreadTypes
  BY DEF Bookkeeping
<1>3. []StepInv <=> /\ []Bookkeeping /\ []ChannelTypes /\ []InOrderDelivery
                    /\ []SendersExist /\ []StopFirst
  BY PTL DEF StepInv
<1> QED
  BY <1>1, <1>2, <1>3, BookkeepingHolds, ChannelTypesHold, DeliveryInOrder,
     StopFirstStep, SendersStep, PTL DEF Spec

-----------------------------------------------------------------------------
(* How the view of the promise changes with the phase of a worker.         *)

\* What the promise sees of a worker that changes its phase.
LEMMA SeenChange ==
  ASSUME ThreadTypes, NEW w \in Workers, NEW p,
         phase' = [phase EXCEPT ![w] = p]
  PROVE  /\ Seen' = [Seen EXCEPT ![w] = SourceOf(w)']
         /\ phase'[w] = p
<1>1. \A x \in Workers : x # w => SourceOf(x)' = SourceOf(x)
  BY DEF ThreadTypes, SourceOf
<1> QED
  BY <1>1 DEF ThreadTypes, Seen

\* No source is cut off by a worker's phase.
LEMMA CutOffKept ==
  ASSUME ThreadTypes, NEW w \in Workers, NEW p, phase[w] # "unborn",
         p # "unborn", phase' = [phase EXCEPT ![w] = p], UNCHANGED sender
  PROVE  UNCHANGED CutOff
  BY DEF ThreadTypes, CutOff

\* A worker enters its loop, or returns to its top.
LEMMA SeenIdle ==
  ASSUME ThreadTypes, NEW w \in Workers, phase' = [phase EXCEPT ![w] = "check"]
  PROVE  Seen' = [Seen EXCEPT ![w] = "idle"]
<1>1. Seen' = [Seen EXCEPT ![w] = SourceOf(w)'] /\ phase'[w] = "check"
  BY SeenChange
<1>2. SourceOf(w)' = "idle"
  BY <1>1 DEF SourceOf
<1> QED
  BY <1>1, <1>2

\* A worker leaves its loop: the promise's Leave, if it had a reason.
LEMMA ExitLeaves ==
  ASSUME ThreadTypes, NEW w \in Workers, SourceOf(w) \in {"idle", "busy"},
         Exit(w), UNCHANGED <<running, sender, handled>>,
         \/ ~running
         \/ w \in CutOff /\ SourceOf(w) = "idle" /\ queue[w] = <<>>
  PROVE  Abstract!Leave(w)
<1>1. phase' = [phase EXCEPT ![w] = "done"]
  BY DEF Exit
<1>2. Seen' = [Seen EXCEPT ![w] = "gone"]
  BY <1>1, SeenChange DEF SourceOf
<1>3. phase[w] # "unborn"
  BY DEF SourceOf
<1>4. UNCHANGED CutOff
  BY <1>1, <1>3, CutOffKept
<1>5. queue' = [s \in Subs |-> IF s = w THEN <<>> ELSE queue[s]]
  BY DEF Exit
<1>6. Seen[w] = SourceOf(w)
  BY DEF Seen
<1> QED
  BY <1>2, <1>4, <1>5, <1>6 DEF Abstract!Leave, Seen, CutOff

-----------------------------------------------------------------------------
(* Every step is a step of the promise, or changes nothing of it.          *)

\* A worker moves between phases the promise does not tell apart.
LEMMA MoveUnseen ==
  ASSUME ThreadTypes, NEW w \in Workers, NEW p,
         phase' = [phase EXCEPT ![w] = p],
         phase[w] \in {"check", "recv", "wait", "due"},
         p \in {"check", "recv", "wait", "due"},
         UNCHANGED <<running, sender, queue, handled>>
  PROVE  UNCHANGED Abstract!vars
<1>1. Seen' = [Seen EXCEPT ![w] = SourceOf(w)'] /\ phase'[w] = p
  BY SeenChange
<1>2. SourceOf(w)' = Seen[w]
  BY <1>1 DEF SourceOf, Seen
<1>3. Seen' = Seen
  BY <1>1, <1>2 DEF Seen
<1>4. UNCHANGED CutOff
  BY CutOffKept
<1> QED
  BY <1>3, <1>4 DEF Abstract!vars, Seen, CutOff

\* Nothing the promise sees changes.
LEMMA PhaseUnseen ==
  ASSUME UNCHANGED <<running, phase, sender, queue, handled>>
  PROVE  UNCHANGED Abstract!vars
  BY DEF Abstract!vars, SourceOf

\* A panic in shutdown is a step of the promise, or none.
LEMMA PanicRefines ==
  ASSUME StepInv, NEW t \in Threads, pc[t] # "user", ~running, Panic(t),
         UNCHANGED <<running, sender, handled>>
  PROVE  Abstract!Next \/ UNCHANGED Abstract!vars
<1>1. CASE t \in Workers
  <2>1. SourceOf(t) = "busy"
    BY <1>1 DEF StepInv, Bookkeeping, CallersAreInCallbacks, SourceOf
  <2>2. Abstract!Leave(t)
    BY <1>1, <2>1, ExitLeaves DEF Panic, StepInv, Bookkeeping
  <2> QED
    BY <1>1, <2>2 DEF Abstract!Next, Abstract!Sources, Workers
<1>2. CASE t \notin Workers
  BY <1>2, PhaseUnseen DEF Panic
<1> QED
  BY <1>1, <1>2

\* So is every step of an operation.
LEMMA OpRefines ==
  ASSUME StepInv, NEW t \in Threads, BeginOp(t) \/ ContinueOp(t)
  PROVE  Abstract!Next \/ UNCHANGED Abstract!vars
<1> USE DEF StepInv, Bookkeeping
<1>1. ASSUME NEW s \in Subs, RawSubscribe(t, s)
      PROVE  Abstract!Next \/ UNCHANGED Abstract!vars
  <2>1. CASE UNCHANGED <<phase, sender>>
    BY <1>1, <2>1, PhaseUnseen DEF RawSubscribe
  <2>2. CASE phase' = [phase EXCEPT ![s] = "subscribed"] /\ sender' = sender \cup {s}
    <3>1. Seen' = [Seen EXCEPT ![s] = "open"] /\ Seen[s] = "absent"
      BY <1>1, <2>2, SeenChange DEF RawSubscribe, SourceOf, Workers, Seen
    <3>2. UNCHANGED CutOff
      BY <1>1, <2>2 DEF RawSubscribe, CutOff, ThreadTypes, Workers
    <3>3. Abstract!Open(s)
      BY <1>1, <3>1, <3>2 DEF RawSubscribe, Abstract!Open, Seen, CutOff
    <3> QED
      BY <3>3 DEF Abstract!Next
  <2> QED
    BY <1>1, <2>1, <2>2 DEF RawSubscribe
<1>2. ASSUME NEW w \in Timers, SpawnTimer(t, w)
      PROVE  Abstract!Next
  <2>1. w \notin Subs
    BY NodeHandleAssumption
  <2>2. Seen' = [Seen EXCEPT ![w] = "idle"] /\ Seen[w] = "absent"
    BY <1>2, SeenIdle DEF SpawnTimer, SourceOf, Workers, Seen
  <2>3. UNCHANGED CutOff
    BY <1>2, <2>1 DEF SpawnTimer, dataVars, CutOff, ThreadTypes
  <2>4. Abstract!Start(w)
    BY <1>2, <2>1, <2>2, <2>3 DEF SpawnTimer, dataVars, Abstract!Start, Seen, CutOff
  <2> QED
    BY <2>4 DEF Abstract!Next, Abstract!Sources
<1>3. ASSUME StoreStop(t) PROVE Abstract!Next
  <2>1. Abstract!Stop
    BY <1>3 DEF StoreStop, dataVars, Abstract!Stop, SourceOf
  <2> QED
    BY <2>1 DEF Abstract!Next
<1>4. ASSUME SpawnSubscriber(t) PROVE Abstract!Next
  <2> DEFINE s == making[t]
  <2>1. s \in Subs /\ phase[s] = "subscribed"
    BY <1>4 DEF SpawnSubscriber, CreatorsAgree
  <2>2. Seen' = [Seen EXCEPT ![s] = "idle"] /\ Seen[s] = "open"
    BY <1>4, <2>1, SeenIdle DEF SpawnSubscriber, SourceOf, Workers, Seen
  <2>3. UNCHANGED CutOff
    BY <1>4, <2>1, CutOffKept DEF SpawnSubscriber, dataVars, Workers
  <2>4. Abstract!Start(s)
    BY <1>4, <2>1, <2>2, <2>3 DEF SpawnSubscriber, dataVars, Abstract!Start, Seen, CutOff
  <2> QED
    BY <2>1, <2>4 DEF Abstract!Next, Abstract!Sources
<1>5. ASSUME PushWorker(t) \/ LockWorkers(t) \/ JoinWorker(t) \/ ShutdownReturns(t)
      PROVE  UNCHANGED Abstract!vars
  BY <1>5, PhaseUnseen DEF PushWorker, LockWorkers, JoinWorker, ShutdownReturns, dataVars
<1>6. ASSUME JoinSelf(t) \/ UnwrapPoisoned(t)
      PROVE  Abstract!Next \/ UNCHANGED Abstract!vars
  <2>1. ~running /\ pc[t] # "user"
    BY <1>6 DEF JoinSelf, UnwrapPoisoned, StopFirst
  <2> QED
    BY <1>6, <2>1, PanicRefines DEF JoinSelf, UnwrapPoisoned
<1> QED
  BY <1>1, <1>2, <1>3, <1>4, <1>5, <1>6 DEF BeginOp, ContinueOp

\* So is every step of a worker.
LEMMA LoopRefines ==
  ASSUME StepInv, NEW w \in Workers, WorkerLoop(w) \/ FinishCallback(w)
  PROVE  Abstract!Next \/ UNCHANGED Abstract!vars
<1> USE DEF StepInv, Bookkeeping
<1>1. w \in Abstract!Sources
  BY DEF Abstract!Sources, Workers
<1>2. CASE CheckRunning(w)
  <2>1. SourceOf(w) = "idle"
    BY <1>2 DEF CheckRunning, SourceOf
  <2>2. CASE running
    BY <1>2, <2>2, MoveUnseen DEF CheckRunning
  <2>3. CASE ~running
    <3>1. Abstract!Leave(w)
      BY <1>2, <2>1, <2>3, ExitLeaves DEF CheckRunning
    <3> QED
      BY <1>1, <3>1 DEF Abstract!Next
  <2> QED
    BY <2>2, <2>3
<1>3. CASE w \in Subs /\ Receive(w)
  <2>1. Seen' = [Seen EXCEPT ![w] = "busy"] /\ Seen[w] = "idle"
    BY <1>3, SeenChange DEF Receive, BeginCallback, SourceOf, Seen
  <2>2. UNCHANGED CutOff
    BY <1>3, CutOffKept DEF Receive, BeginCallback
  <2>3. Abstract!Handle(w)
    BY <1>3, <2>1, <2>2 DEF Receive, Abstract!Handle, Seen, CutOff
  <2> QED
    BY <1>3, <2>3 DEF Abstract!Next
<1>4. CASE w \in Subs /\ ReceiveTimeout(w)
  BY <1>4, MoveUnseen DEF ReceiveTimeout, dataVars
<1>5. CASE w \in Subs /\ ReceiveDisconnected(w)
  <2>1. SourceOf(w) = "idle" /\ w \in CutOff
    BY <1>5 DEF ReceiveDisconnected, SourceOf, CutOff
  <2>2. Abstract!Leave(w)
    BY <1>5, <2>1, ExitLeaves DEF ReceiveDisconnected
  <2> QED
    BY <1>1, <2>2 DEF Abstract!Next
<1>6. CASE w \in Timers /\ TimerPollStops(w)
  <2>1. SourceOf(w) = "idle"
    BY <1>6 DEF TimerPollStops, SourceOf
  <2>2. Abstract!Leave(w)
    BY <1>6, <2>1, ExitLeaves DEF TimerPollStops
  <2> QED
    BY <1>1, <2>2 DEF Abstract!Next
<1>7. CASE w \in Timers /\ TimerDeadline(w)
  BY <1>7, MoveUnseen DEF TimerDeadline, dataVars
<1>8. CASE w \in Timers /\ TimerDue(w)
  <2>1. CASE running
    <3>1. Seen' = [Seen EXCEPT ![w] = "busy"] /\ Seen[w] = "idle"
      BY <1>8, <2>1, SeenChange DEF TimerDue, BeginCallback, SourceOf, Seen
    <3>2. UNCHANGED CutOff
      BY <1>8, <2>1, CutOffKept DEF TimerDue, BeginCallback, dataVars
    <3>3. Abstract!Fire(w)
      BY <1>8, <2>1, <3>1, <3>2 DEF TimerDue, dataVars, Abstract!Fire, Seen, CutOff
    <3> QED
      BY <1>8, <3>3 DEF Abstract!Next
  <2>2. CASE ~running
    BY <1>8, <2>2, MoveUnseen DEF TimerDue, dataVars
  <2> QED
    BY <2>1, <2>2
<1>9. CASE FinishCallback(w)
  <2>1. Seen' = [Seen EXCEPT ![w] = "idle"] /\ Seen[w] = "busy"
    BY <1>9, SeenIdle DEF FinishCallback, SourceOf, Seen
  <2>2. UNCHANGED CutOff
    BY <1>9, CutOffKept DEF FinishCallback, dataVars
  <2>3. Abstract!Return(w)
    BY <1>9, <2>1, <2>2 DEF FinishCallback, dataVars, Abstract!Return, Seen, CutOff
  <2> QED
    BY <1>1, <2>3 DEF Abstract!Next
<1> QED
  BY <1>2, <1>3, <1>4, <1>5, <1>6, <1>7, <1>8, <1>9
     DEF WorkerLoop, SubLoop, TimerLoop

\* The length of what is seen as one sequence.
LEMMA ConcatLength ==
  ASSUME NEW h \in Seq(Nat), NEW q \in Seq(Nat)
  PROVE  Len(h \o q) = Len(h) + Len(q)
  OBVIOUS

\* The number the promise gives to a message is the one it arrives with.
LEMMA DeliverRefines ==
  ASSUME StepInv, NEW s \in Subs, Deliver(s)
  PROVE  Abstract!Next \/ UNCHANGED Abstract!vars
<1>1. CASE phase[s] = "done"
  BY <1>1, PhaseUnseen DEF Deliver
<1>2. CASE phase[s] # "done"
  <2>1. handled[s] \in Seq(Nat) /\ queue[s] \in Seq(Nat)
    BY DEF StepInv, ChannelTypes
  <2>2. Len(handled[s] \o queue[s]) = arrived[s]
    BY <1>2 DEF StepInv, InOrderDelivery
  <2>3. arrived[s] = Len(handled[s]) + Len(queue[s])
    BY <2>1, <2>2, ConcatLength
  <2>4. queue' = [queue EXCEPT ![s] = Append(@, Len(handled[s]) + Len(@) + 1)]
    BY <1>2, <2>3 DEF Deliver
  <2>5. phase[s] # "unborn" /\ s \in sender
    BY DEF Deliver, StepInv, SendersExist
  <2>6. Seen[s] \notin {"absent", "gone"} /\ s \notin CutOff
    BY <1>2, <2>5 DEF Seen, SourceOf, CutOff, Workers
  <2>7. Seen' = Seen /\ UNCHANGED CutOff
    BY DEF Deliver, Seen, SourceOf, CutOff
  <2>8. Abstract!Accept(s)
    BY <2>4, <2>6, <2>7 DEF Deliver, Abstract!Accept, Seen, CutOff
  <2> QED
    BY <2>8 DEF Abstract!Next
<1> QED
  BY <1>1, <1>2

\* A transport that drops a sender severs the source.
LEMMA SeverRefines ==
  ASSUME StepInv, NEW s \in Subs, DropSender(s)
  PROVE  Abstract!Next
<1>1. phase[s] # "unborn"
  BY DEF DropSender, StepInv, SendersExist
<1>2. Seen[s] # "absent"
  BY <1>1 DEF Seen, SourceOf, Workers
<1>3. CutOff' = CutOff \cup {s}
  BY <1>1 DEF DropSender, CutOff
<1>4. Seen' = Seen
  BY DEF DropSender, Seen, SourceOf
<1>5. Abstract!Sever(s)
  BY <1>2, <1>3, <1>4 DEF DropSender, Abstract!Sever, Seen, CutOff
<1> QED
  BY <1>5 DEF Abstract!Next

\* Every step of NodeHandle is one of the promise, or a stutter.
LEMMA StepRefines == StepInv /\ [Next]_vars => [Abstract!Next]_(Abstract!vars)
<1> SUFFICES ASSUME StepInv, [Next]_vars
             PROVE  Abstract!Next \/ UNCHANGED Abstract!vars
  OBVIOUS
<1>1. CASE UNCHANGED vars
  BY <1>1, PhaseUnseen DEF vars, dataVars
<1> QED
  BY <1>1, OpRefines, LoopRefines, DeliverRefines, SeverRefines DEF Next

\* The node starts as the promise does.
LEMMA InitRefines == Init => Abstract!Init
<1> SUFFICES ASSUME Init PROVE Abstract!Init
  OBVIOUS
<1>1. (~running) = FALSE
  BY DEF Init
<1>2. Seen = [w \in Abstract!Sources |-> "absent"]
  BY DEF Init, Seen, SourceOf, Abstract!Sources, Workers
<1>3. CutOff = {}
  BY DEF Init, CutOff, Workers
<1> QED
  BY <1>1, <1>2, <1>3 DEF Init, Abstract!Init, Seen, CutOff

\* NodeHandle keeps what the module documentation of transport.rs promises:
\* one callback at a time and in order per source, no callback after a source
\* has gone, and no source gone without a reason (transport.rs, 16-27).
THEOREM DispatchImplemented == Spec => ImplementsDispatch
  BY StepInvHolds, InitRefines, StepRefines, PTL
     DEF Spec, ImplementsDispatch, Abstract!Spec
=============================================================================
