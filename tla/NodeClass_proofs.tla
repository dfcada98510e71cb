-------------------------- MODULE NodeClass_proofs --------------------------
(***************************************************************************)
(* Proofs about NodeClass: it only takes steps of PyNode, binds its topics *)
(* before any callback, and, when one thread uses the node, ends clean and *)
(* keeps the topics' flags in step with the node.                          *)
(***************************************************************************)
EXTENDS NodeClass, PyNode_proofs, FiniteSetTheorems

\* What the class leaves alone is a step of PyNode.
LEMMA BelowIsPyStep == Below => PyNext
<1> SUFFICES ASSUME Below PROVE PyNext
  OBVIOUS
<1> QED
  BY DEF Below, SwitchThread, CallbackReturns, PyNext

\* So is every step of the class, seen below it.
LEMMA ClassStepIsPyStep == [ClassNext]_nodeClassVars => [PyNext]_allVars
<1> SUFFICES ASSUME ClassNext PROVE [PyNext]_allVars
  BY DEF nodeClassVars
<1>m. Main \in Threads
  BY NodeClassAssumption, PyNodeAssumption DEF Threads
<1>1. ASSUME NEW w \in Timers, WireTimer(w) PROVE PyNext
  BY <1>1, <1>m DEF WireTimer, PyNext, PyBeginOp
<1>2. ASSUME CallDestroy PROVE PyNext
  BY <1>2, <1>m DEF CallDestroy, PyNext, PyBeginOp
<1>3. ASSUME NEW t \in Threads, Subscribe(t) PROVE [PyNext]_allVars
  BY <1>3 DEF Subscribe, SubscribeCheck, SubscribeCreate, SubscribeStore, PyNext, PyBeginOp
<1>4. ASSUME Construct PROVE [PyNext]_allVars
  BY <1>4, <1>1 DEF Construct, OpenNode, BindTopics, EnterOnStart, Spin, Raise
<1>5. ASSUME Finish PROVE [PyNext]_allVars
  BY <1>5, <1>2 DEF Finish, Interrupt, DestroyReturns
<1> QED
  BY <1>3, <1>4, <1>5, BelowIsPyStep DEF ClassNext

\* The decorated class and its topics use the node as PyNode allows.  By this
\* lemma what is proved of PyNode is proved under them (node.py, topic.py).
LEMMA ClassIsPyNode == ClassSpec => PySpec
<1>1. ClassInit => PyInit
  BY DEF ClassInit
<1> QED
  BY <1>1, ClassStepIsPyStep, PTL DEF ClassSpec, PySpec

-----------------------------------------------------------------------------
(* Topics are bound before the node has anything to call.                  *)

\* Before the topics are bound, there is no worker, and no operation begun.
NothingYet ==
  /\ bound = {}
  /\ script \in {"start", "init", "over"}
  /\ \A w \in Workers : phase[w] = "unborn"
  /\ \A t \in Threads : pc[t] = "user"
  /\ checked = {}

BindInv == bound = Topics \/ NothingYet

\* Every step keeps the topics bound before the callbacks.
LEMMA BindStep == BindInv /\ [ClassNext]_nodeClassVars => BindInv'
<1> SUFFICES ASSUME BindInv, [ClassNext]_nodeClassVars PROVE BindInv'
  OBVIOUS
<1>m. Main \in Threads
  BY NodeClassAssumption, PyNodeAssumption DEF Threads
<1>1. CASE bound = Topics
  <2>1. bound' = bound \/ bound' = Topics
    BY DEF ClassNext, Construct, Finish, Subscribe, OpenNode, BindTopics, WireTimer,
           EnterOnStart, Spin, Raise, Interrupt, CallDestroy, DestroyReturns,
           SubscribeCheck, SubscribeCreate, SubscribeStore, classVars, nodeClassVars
  <2> QED
    BY <1>1, <2>1 DEF BindInv
<1>2. CASE NothingYet
  <2> USE <1>2 DEF NothingYet, BindInv
  <2>1. CASE Construct
    <3>1. CASE OpenNode \/ BindTopics
      BY <3>1 DEF OpenNode, BindTopics, MainIn, topicVars, allVars, vars
    <3>2. CASE Raise
      BY <3>2 DEF Raise, allVars, vars
    <3> QED
      BY <2>1, <3>1, <3>2 DEF Construct, WireTimer, EnterOnStart, Spin, MainIn
  <2>2. CASE Finish
    BY <2>2 DEF Finish, Interrupt, CallDestroy, DestroyReturns, MainIn
  <2>3. ASSUME NEW t \in Threads, Subscribe(t) PROVE BindInv'
    BY <2>3 DEF Subscribe, SubscribeCheck, SubscribeCreate, SubscribeStore, allVars, vars
  <2>4. CASE Below /\ UNCHANGED classVars
    <3>1. UNCHANGED <<phase, pc>>
      BY <2>4 DEF Below, SwitchThread, TakeGil, YieldGil, PyContinueOp, ContinueOp,
                  SpawnSubscriber, PushWorker, LockWorkers, JoinWorker, JoinSelf,
                  ShutdownReturns, UnwrapPoisoned, CallbackReturns, PyFinishCallback,
                  FinishCallback, WorkerLoop, SubLoop, TimerLoop, CheckRunning, Receive,
                  ReceiveTimeout, ReceiveDisconnected, TimerPollStops, TimerDeadline,
                  TimerDue, Deliver, DropSender, vars
    <3> QED
      BY <2>4, <3>1 DEF classVars, topicVars
  <2>5. CASE UNCHANGED nodeClassVars
    BY <2>5 DEF nodeClassVars, allVars, vars, classVars, topicVars
  <2> QED
    BY <2>1, <2>2, <2>3, <2>4, <2>5 DEF ClassNext
<1> QED
  BY <1>1, <1>2 DEF BindInv

\* A callback always finds every topic of its instance bound, the callback of
\* a timer that fires during the constructor included (node.py, 87-92).
THEOREM TopicsBoundFirst == ClassSpec => []BoundBeforeCallbacks
<1>1. ClassInit => BindInv
  BY DEF ClassInit, PyInit, Init, BindInv, NothingYet
<1>2. ClassSpec => []GilInv
  BY ClassIsPyNode, GilInvHolds, PTL
<1>3. BindInv /\ GilInv => BoundBeforeCallbacks
  BY DEF BindInv, NothingYet, GilInv, WorkersAttach, BoundBeforeCallbacks
<1> QED
  BY <1>1, <1>2, <1>3, BindStep, PTL DEF ClassSpec

-----------------------------------------------------------------------------
(* The end of the script.                                                  *)

\* A script past destroy_node has stopped the node, and waits for it no more.
EndInv ==
  /\ script = "destroy" => ~running
  /\ script = "over" /\ ~failed => ~running /\ pc[Main] \notin {"lock", "join"}

\* Only a call of destroy_node stores the flag or begins to wait.
LEMMA BelowKeepsEnd ==
  ASSUME Bookkeeping, Below
  PROVE  /\ ~running => ~running'
         /\ pc[Main] \notin {"lock", "join"} => pc'[Main] \notin {"lock", "join"}
<1> USE DEF Bookkeeping, ThreadTypes
<1>m. Main \in Callers /\ Main \in Threads
  BY NodeClassAssumption, PyNodeAssumption DEF Threads
<1>1. ASSUME NEW t \in Threads, SwitchThread(t) PROVE UNCHANGED <<running, pc>>
  BY <1>1 DEF SwitchThread, TakeGil, YieldGil, vars
<1>2. ASSUME NEW t \in Threads, ContinueOp(t)
      PROVE  /\ UNCHANGED running
             /\ pc' = [pc EXCEPT ![t] = pc'[t]]
             /\ pc[t] \notin {"lock", "join"} => pc'[t] \notin {"lock", "join"}
  BY <1>2 DEF ContinueOp, SpawnSubscriber, PushWorker, LockWorkers, JoinWorker,
              JoinSelf, ShutdownReturns, UnwrapPoisoned, Panic
<1>3. ASSUME NEW w \in Workers, WorkerLoop(w) \/ FinishCallback(w)
      PROVE  UNCHANGED <<running, pc>>
  BY <1>3 DEF WorkerLoop, SubLoop, TimerLoop, CheckRunning, Receive, ReceiveTimeout,
              ReceiveDisconnected, TimerPollStops, TimerDeadline, TimerDue,
              FinishCallback
<1>4. ASSUME NEW s \in Subs, Deliver(s) \/ DropSender(s)
      PROVE  UNCHANGED <<running, pc>>
  BY <1>4 DEF Deliver, DropSender
<1> QED
  BY <1>m, <1>1, <1>2, <1>3, <1>4
     DEF Below, PyContinueOp, CallbackReturns, PyFinishCallback

\* Every step of a guarded script keeps its end clean.
LEMMA EndStep ==
  ASSUME Guarded
  PROVE  Bookkeeping /\ EndInv /\ [ClassNext]_nodeClassVars => EndInv'
<1> SUFFICES ASSUME Bookkeeping, EndInv, [ClassNext]_nodeClassVars PROVE EndInv'
  OBVIOUS
<1>1. CASE Construct
  BY <1>1 DEF Construct, OpenNode, BindTopics, WireTimer, EnterOnStart, Spin, Raise,
              MainIn, EndInv, classVars
<1>2. CASE Finish
  BY <1>2 DEF Finish, Interrupt, CallDestroy, DestroyReturns, DestroyNode, StoreStop,
              MainIn, EndInv, allVars, vars
<1>3. ASSUME NEW t \in Threads, Subscribe(t) PROVE EndInv'
  <2>1. UNCHANGED <<script, failed, running>>
    BY <1>3 DEF Subscribe, SubscribeCheck, SubscribeCreate, SubscribeStore,
                PyCreateSubscription, RawSubscribe, allVars, vars
  <2>2. pc'[Main] = pc[Main] \/ pc'[Main] = "spawn"
    BY <1>3, NodeClassAssumption, PyNodeAssumption DEF Threads, Subscribe, SubscribeCheck, SubscribeCreate, SubscribeStore,
                PyCreateSubscription, RawSubscribe, allVars, vars, Bookkeeping,
                ThreadTypes
  <2> QED
    BY <2>1, <2>2 DEF EndInv
<1>4. CASE Below /\ UNCHANGED classVars
  BY <1>4, BelowKeepsEnd DEF EndInv, classVars
<1>5. CASE UNCHANGED nodeClassVars
  BY <1>5 DEF nodeClassVars, allVars, vars, classVars, EndInv
<1> QED
  BY <1>1, <1>2, <1>3, <1>4, <1>5 DEF ClassNext

\* A script that calls destroy_node although spin has raised leaves no worker
\* with a callback ahead (node.py, 100-108; lib.rs, 78-97).
THEOREM GuardedScriptEndsClean ==
  ASSUME NodeUsers = {Main}, CallbackOps = {}, Guarded
  PROVE  ClassSpec => []CleanExit
<1>m. Main \in Callers
  BY NodeClassAssumption, PyNodeAssumption
<1>1. ClassInit => EndInv
  BY DEF ClassInit, EndInv
<1>2. ClassSpec => []Bookkeeping
  BY ClassIsPyNode, GilInvHolds, PTL
<1>3. PySpec => []NoForgottenWorker
  BY PyNodeIsNodeHandle, NoWorkerForgotten, PTL
<1>4. PyInit => Quiet(Main)
  BY <1>m, QuietInit
<1>5. Bookkeeping /\ NoForgottenWorker /\ Quiet(Main) /\ [PyNext]_allVars
        => Quiet(Main)'
  BY <1>m, QuietStep
<1>6. EndInv /\ Quiet(Main) => CleanExit
  BY DEF EndInv, Quiet, Destroyed, QuietPhases, Live, CleanExit
<1>7. Bookkeeping /\ EndInv /\ [ClassNext]_nodeClassVars => EndInv'
  BY EndStep
<1> QED
  BY <1>1, <1>2, <1>3, <1>4, <1>5, <1>6, <1>7, ClassIsPyNode, PTL
     DEF ClassSpec, PySpec

\* No thread of such a script ever waits in a circle: destroy_node of a
\* decorated class cannot hang on the GIL or the mutex, whatever the constructor
\* and the hooks raise (node.py, 85-110; lib.rs, 95-97).
THEOREM ScriptNeverDeadlocks ==
  ASSUME NodeUsers = {Main}, CallbackOps = {}
  PROVE  ClassSpec => []NoCyclicWait
<1>1. Main \in Callers /\ CallbacksHoldNode
  BY NodeClassAssumption, PyNodeAssumption
<1>2. PySpec => []NoCyclicWait
  BY <1>1, NobodyWaitsInACircle
<1> QED
  BY <1>2, ClassIsPyNode, PTL

-----------------------------------------------------------------------------
(* Topics and subscriptions, with one thread that subscribes.              *)

\* Main has at most one call of subscribe under way, for a topic without a
\* subscriber when the call was checked; a topic has its one subscription from
\* the time create_subscription has accepted it.
OneCall ==
  /\ checked \cup created \subseteq {Main} \X Topics
  /\ \A p, q \in checked \cup created : p = q
  /\ checked \cap created = {}
  /\ \A tp \in subscribed : <<Main, tp>> \notin checked

Made(tp) == tp \in subscribed \/ <<Main, tp>> \in created

SubscriptionsMade ==
  ~failed => \A tp \in Topics :
    IF Made(tp) THEN \E s \in Subs : SubscriptionsOf(tp) = {s}
                ELSE SubscriptionsOf(tp) = {}

TopicInv == OneCall /\ SubscriptionsMade

\* Below the class nothing makes a subscription.
LEMMA BelowMakesNone ==
  ASSUME Bookkeeping, OnlyUser(Main), Below
  PROVE  \A s \in Subs : phase'[s] = "unborn" <=> phase[s] = "unborn"
<1> USE NodeHandleAssumption DEF Bookkeeping, ThreadTypes
<1>m. Main \in Callers /\ Main \in Threads
  BY NodeClassAssumption, PyNodeAssumption DEF Threads
<1>1. ASSUME NEW t \in Threads, SwitchThread(t) PROVE UNCHANGED phase
  BY <1>1 DEF SwitchThread, TakeGil, YieldGil, vars
<1>2. ASSUME NEW t \in Threads, ContinueOp(t)
      PROVE  \A s \in Subs : phase'[s] = "unborn" <=> phase[s] = "unborn"
  <2>1. t = Main
    BY <1>2 DEF OnlyUser, ContinueOp, SpawnSubscriber, PushWorker, LockWorkers,
                JoinWorker, JoinSelf, ShutdownReturns, UnwrapPoisoned
  <2>2. t \notin Workers
    BY <2>1, <1>m
  <2>3. CASE SpawnSubscriber(t)
    BY <2>3 DEF SpawnSubscriber, CreatorsAgree
  <2>4. CASE ~SpawnSubscriber(t)
    BY <1>2, <2>2, <2>4 DEF ContinueOp, PushWorker, LockWorkers, JoinWorker,
                            JoinSelf, ShutdownReturns, UnwrapPoisoned, Panic
  <2> QED
    BY <2>3, <2>4
<1>3. ASSUME NEW w \in Workers, WorkerLoop(w) \/ FinishCallback(w)
      PROVE  \A s \in Subs : phase'[s] = "unborn" <=> phase[s] = "unborn"
  BY <1>3 DEF WorkerLoop, SubLoop, TimerLoop, CheckRunning, Receive, ReceiveTimeout,
              ReceiveDisconnected, TimerPollStops, TimerDeadline, TimerDue,
              FinishCallback, BeginCallback, Exit, Workers
<1>4. ASSUME NEW s \in Subs, Deliver(s) \/ DropSender(s) PROVE UNCHANGED phase
  BY <1>4 DEF Deliver, DropSender
<1> QED
  BY <1>1, <1>2, <1>3, <1>4
     DEF Below, PyContinueOp, CallbackReturns, PyFinishCallback

\* Where nothing is made, and the topics' variables stay, so do the facts.
LEMMA TopicKept ==
  ASSUME TopicInv, UNCHANGED <<failed, topicVars>>,
         \A s \in Subs : phase'[s] = "unborn" <=> phase[s] = "unborn"
  PROVE  TopicInv'
<1>1. \A tp \in Topics : SubscriptionsOf(tp)' = SubscriptionsOf(tp)
  BY DEF SubscriptionsOf
<1> QED
  BY <1>1 DEF TopicInv, OneCall, SubscriptionsMade, Made, topicVars

\* Topic.subscribe makes a subscription or keeps the one there is.
LEMMA TopicSubscribeStep ==
  ASSUME NodeUsers = {Main}, CallbackOps = {}, Bookkeeping, TopicInv,
         NEW t \in Threads, Subscribe(t)
  PROVE  TopicInv'
<1> USE NodeClassAssumption, NodeHandleAssumption
<1>1. ASSUME NEW tp \in Topics, SubscribeCheck(t, tp) PROVE TopicInv'
  <2>1. t = Main
    BY <1>1 DEF SubscribeCheck, MayReachTopics, MayCall, Threads
  <2>2. checked \cup created = {}
    BY <1>1, <2>1 DEF SubscribeCheck, InSubscribe, TopicInv, OneCall
  <2>3. /\ checked' = {<<Main, tp>>} /\ created' = {} /\ tp \notin subscribed
        /\ UNCHANGED <<created, subscribed, failed, phase>>
    BY <1>1, <2>1, <2>2 DEF SubscribeCheck, allVars, vars
  <2>4. OneCall'
    BY <2>3 DEF OneCall
  <2>5. SubscriptionsMade'
    BY <2>3 DEF TopicInv, SubscriptionsMade, SubscriptionsOf, Made
  <2> QED
    BY <2>4, <2>5 DEF TopicInv
<1>2. ASSUME NEW tp \in Topics, SubscribeStore(t, tp) PROVE TopicInv'
  <2>1. /\ t = Main /\ checked = {} /\ created = {<<Main, tp>>}
    BY <1>2 DEF SubscribeStore, TopicInv, OneCall
  <2>2. /\ checked' = {} /\ created' = {}
        /\ subscribed' = subscribed \cup {tp} /\ UNCHANGED <<failed, phase>>
    BY <1>2, <2>1 DEF SubscribeStore, allVars, vars
  <2>3. \A tq \in Topics : Made(tq)' <=> Made(tq)
    BY <2>1, <2>2 DEF Made
  <2> QED
    BY <2>2, <2>3 DEF TopicInv, OneCall, SubscriptionsMade, SubscriptionsOf
<1>3. ASSUME NEW s \in Subs, SubscribeCreate(t, s) PROVE TopicInv'
  <2> DEFINE tp == TopicOf[s]
  <2>1. /\ t = Main /\ tp \in Topics
        /\ checked = {<<Main, tp>>} /\ created = {} /\ tp \notin subscribed
    BY <1>3 DEF SubscribeCreate, TopicInv, OneCall
  <2>2. checked' = {} /\ UNCHANGED <<subscribed, failed>> /\ RawSubscribe(t, s)
    BY <1>3, <2>1 DEF SubscribeCreate, PyCreateSubscription
  <2>3. CASE phase'[s] = "unborn"
    <3>1. UNCHANGED phase /\ created' = {}
      BY <1>3, <2>1, <2>2, <2>3 DEF SubscribeCreate, RawSubscribe, Bookkeeping,
                                    ThreadTypes, Workers
    <3> QED
      BY <2>1, <2>2, <3>1 DEF TopicInv, OneCall, SubscriptionsMade, SubscriptionsOf,
                              Made
  <2>4. CASE phase'[s] # "unborn"
    <3>1. created' = {<<Main, tp>>}
      BY <1>3, <2>1, <2>4 DEF SubscribeCreate
    <3>2. phase' = [phase EXCEPT ![s] = "subscribed"] /\ phase[s] = "unborn"
      BY <2>2, <2>4 DEF RawSubscribe
    <3>3. OneCall'
      BY <2>1, <2>2, <3>1 DEF OneCall
    <3>4. ASSUME NEW tq \in Topics, ~failed
          PROVE  IF Made(tq)' THEN \E x \in Subs : SubscriptionsOf(tq)' = {x}
                              ELSE SubscriptionsOf(tq)' = {}
      <4>1. CASE tq = tp
        <5>1. SubscriptionsOf(tp) = {}
          BY <3>4, <2>1 DEF TopicInv, SubscriptionsMade, Made
        <5>2. SubscriptionsOf(tp)' = {s}
          BY <5>1, <3>2 DEF SubscriptionsOf, Bookkeeping, ThreadTypes, Workers
        <5> QED
          BY <4>1, <5>2, <3>1 DEF Made
      <4>2. CASE tq # tp
        <5>1. SubscriptionsOf(tq)' = SubscriptionsOf(tq)
          BY <4>2, <3>2 DEF SubscriptionsOf, Bookkeeping, ThreadTypes, Workers
        <5>2. Made(tq)' <=> Made(tq)
          BY <4>2, <2>1, <2>2, <3>1 DEF Made
        <5> QED
          BY <5>1, <5>2, <3>4 DEF TopicInv, SubscriptionsMade
      <4> QED
        BY <4>1, <4>2
    <3> QED
      BY <3>3, <3>4, <2>2 DEF TopicInv, SubscriptionsMade
  <2> QED
    BY <2>3, <2>4
<1> QED
  BY <1>1, <1>2, <1>3 DEF Subscribe

\* Every step keeps topics and node in agreement.
LEMMA TopicStep ==
  ASSUME NodeUsers = {Main}, CallbackOps = {}
  PROVE  Bookkeeping /\ Quiet(Main) /\ TopicInv /\ [ClassNext]_nodeClassVars
           => TopicInv'
<1> SUFFICES ASSUME Bookkeeping, Quiet(Main), TopicInv, [ClassNext]_nodeClassVars
             PROVE  TopicInv'
  OBVIOUS
<1>1. CASE Construct
  <2>1. CASE Raise
    BY <2>1 DEF Raise, TopicInv, OneCall, SubscriptionsMade
  <2>2. ASSUME NEW w \in Timers, WireTimer(w) PROVE TopicInv'
    <3>1. \A s \in Subs : phase'[s] = phase[s]
      BY <2>2, NodeHandleAssumption
         DEF WireTimer, PyCreateTimer, SpawnTimer, Bookkeeping, ThreadTypes, Workers
    <3> QED
      BY <2>2, <3>1, TopicKept DEF WireTimer, classVars
  <2>3. CASE OpenNode \/ BindTopics \/ EnterOnStart \/ Spin
    BY <2>3, TopicKept DEF OpenNode, BindTopics, EnterOnStart, Spin, allVars, vars
  <2> QED
    BY <1>1, <2>1, <2>2, <2>3 DEF Construct
<1>2. CASE Finish
  BY <1>2, TopicKept DEF Finish, Interrupt, CallDestroy, DestroyReturns, DestroyNode,
                         StoreStop, allVars, vars
<1>3. ASSUME NEW t \in Threads, Subscribe(t) PROVE TopicInv'
  BY <1>3, TopicSubscribeStep
<1>4. CASE Below /\ UNCHANGED classVars
  BY <1>4, BelowMakesNone, TopicKept DEF Quiet, classVars
<1>5. CASE UNCHANGED nodeClassVars
  BY <1>5, TopicKept DEF nodeClassVars, allVars, vars, classVars
<1> QED
  BY <1>1, <1>2, <1>3, <1>4, <1>5 DEF ClassNext

\* What is kept gives what is checked.
LEMMA TopicInvImplies == TopicInv => TopicMatchesNode
<1> SUFFICES ASSUME TopicInv, ~failed, NEW tp \in Topics,
                    \A t \in Threads : <<t, tp>> \notin checked \cup created
             PROVE  Cardinality(SubscriptionsOf(tp)) = IF tp \in subscribed THEN 1 ELSE 0
  BY DEF TopicMatchesNode
<1>1. <<Main, tp>> \notin created
  BY NodeClassAssumption, PyNodeAssumption DEF Threads
<1>2. CASE tp \in subscribed
  <2>1. PICK s \in Subs : SubscriptionsOf(tp) = {s}
    BY <1>2 DEF TopicInv, SubscriptionsMade, Made
  <2> QED
    BY <1>2, <2>1, FS_Singleton
<1>3. CASE tp \notin subscribed
  <2>1. SubscriptionsOf(tp) = {}
    BY <1>1, <1>3 DEF TopicInv, SubscriptionsMade, Made
  <2> QED
    BY <1>3, <2>1, FS_EmptySet
<1> QED
  BY <1>2, <1>3

\* With one thread that subscribes, a topic's _subscribed says whether the node
\* has its subscription, and the node never has two (topic.py, 89-98).
THEOREM TopicAgreesWithNode ==
  ASSUME NodeUsers = {Main}, CallbackOps = {}
  PROVE  ClassSpec => []TopicMatchesNode
<1>m. Main \in Callers
  BY NodeClassAssumption, PyNodeAssumption
<1>1. ClassInit => TopicInv
  BY DEF ClassInit, PyInit, Init, TopicInv, OneCall, SubscriptionsMade, Made,
         SubscriptionsOf, Workers
<1>2. ClassSpec => []Bookkeeping
  BY ClassIsPyNode, GilInvHolds, PTL
<1>3. PySpec => []NoForgottenWorker
  BY PyNodeIsNodeHandle, NoWorkerForgotten, PTL
<1>4. PyInit => Quiet(Main)
  BY <1>m, QuietInit
<1>5. Bookkeeping /\ NoForgottenWorker /\ Quiet(Main) /\ [PyNext]_allVars
        => Quiet(Main)'
  BY <1>m, QuietStep
<1>6. Bookkeeping /\ Quiet(Main) /\ TopicInv /\ [ClassNext]_nodeClassVars => TopicInv'
  BY TopicStep
<1> QED
  BY <1>1, <1>2, <1>3, <1>4, <1>5, <1>6, TopicInvImplies, ClassIsPyNode, PTL
     DEF ClassSpec, PySpec

-----------------------------------------------------------------------------
(* The types.                                                              *)

ClassTypes ==
  /\ script \in ScriptStages
  /\ failed \in BOOLEAN
  /\ bound \subseteq Topics
  /\ subscribed \subseteq Topics
  /\ checked \subseteq Threads \X Topics
  /\ created \subseteq Threads \X Topics

\* Every step keeps the types of the class's variables.
LEMMA ClassTypesStep == ClassTypes /\ [ClassNext]_nodeClassVars => ClassTypes'
<1> SUFFICES ASSUME ClassTypes, [ClassNext]_nodeClassVars PROVE ClassTypes'
  OBVIOUS
<1> USE DEF ClassTypes, ScriptStages
<1>1. CASE Construct
  BY <1>1 DEF Construct, OpenNode, BindTopics, WireTimer, EnterOnStart, Spin, Raise,
              classVars, topicVars
<1>2. CASE Finish
  BY <1>2 DEF Finish, Interrupt, CallDestroy, DestroyReturns, topicVars
<1>3. ASSUME NEW t \in Threads, Subscribe(t) PROVE ClassTypes'
  <2>1. ASSUME NEW tp \in Topics, SubscribeCheck(t, tp) PROVE ClassTypes'
    BY <2>1 DEF SubscribeCheck
  <2>2. ASSUME NEW tp \in Topics, SubscribeStore(t, tp) PROVE ClassTypes'
    BY <2>2 DEF SubscribeStore
  <2>3. ASSUME NEW s \in Subs, SubscribeCreate(t, s) PROVE ClassTypes'
    BY <2>3, NodeClassAssumption DEF SubscribeCreate
  <2> QED
    BY <1>3, <2>1, <2>2, <2>3 DEF Subscribe
<1>4. CASE UNCHANGED classVars
  BY <1>4 DEF classVars, topicVars
<1> QED
  BY <1>1, <1>2, <1>3, <1>4 DEF ClassNext, nodeClassVars

\* Every variable of the class, and of the node below it, keeps its type.
THEOREM ClassTypeCorrect == ClassSpec => []ClassTypeOK
<1>1. ClassInit => ClassTypes
  BY DEF ClassInit, ClassTypes, ScriptStages
<1>2. ClassTypes /\ PyTypeOK => ClassTypeOK
  BY DEF ClassTypes, ClassTypeOK
<1> QED
  BY <1>1, <1>2, ClassTypesStep, ClassIsPyNode, PyTypeCorrect, PTL
     DEF ClassSpec
=============================================================================
