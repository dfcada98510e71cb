----------------------------- MODULE NodeClass -----------------------------
(***************************************************************************)
(* A class decorated with @node (python/reachpy/node.py), its topics       *)
(* (topic.py) and the script that uses it: the constructor opens the node, *)
(* binds the topics, wires the timers and calls on_start; spin blocks      *)
(* until Ctrl+C; destroy_node calls on_stop and shuts the node down.       *)
(*                                                                         *)
(* Every step on the node is a step of PyNode.  Only the script's main     *)
(* thread destroys the node, and the callbacks are bound methods, which    *)
(* keep the instance, and so the node, alive.                              *)
(***************************************************************************)
EXTENDS PyNode

CONSTANTS
  Main,      \* the thread that runs the script
  Topics,    \* the Topic attributes of the class
  TopicOf,   \* the topic each subscription is made through
  Guarded    \* the script calls destroy_node although spin has raised

ASSUME NodeClassAssumption ==
  /\ Main \in NodeUsers
  /\ TopicOf \in [Subs -> Topics]
  /\ Guarded \in BOOLEAN
  /\ CallbackOps \subseteq {"create"}
  /\ CallbacksHoldNode

VARIABLES
  script,      \* how far the script has got
  failed,      \* the constructor, a hook or a bad period has raised
  bound,       \* topics with their _node set
  subscribed,  \* topics with _subscribed = True
  checked,     \* <<thread, topic>>: past the check of Topic.subscribe
  created      \* <<thread, topic>>: create_subscription is under way or over

topicVars == <<subscribed, checked, created>>
classVars == <<script, failed, bound, topicVars>>
nodeClassVars == <<allVars, classVars>>

ScriptStages == {"start", "init", "timers", "on_start", "spin", "on_stop",
                 "destroy", "over"}

ClassInit ==
  /\ PyInit
  /\ script = "start"
  /\ failed = FALSE
  /\ bound = {}
  /\ subscribed = {}
  /\ checked = {}
  /\ created = {}

\* Thread t has a call of Topic.subscribe under way.
InSubscribe(t) == \E tp \in Topics : <<t, tp>> \in checked \cup created

\* Main executes Python code of the given stage, outside any call.
MainIn(stage) ==
  /\ script = stage
  /\ gil = Main
  /\ pc[Main] = "user"
  /\ ~InSubscribe(Main)

-----------------------------------------------------------------------------
(* _ReachPyNode.__init__.                                                  *)

\* PyNode(node_name) has opened its session.
OpenNode ==
  /\ MainIn("start")
  /\ script' = "init"
  /\ UNCHANGED <<allVars, failed, bound, topicVars>>

\* Mutant: the topics are left to be bound on first use.
BindLazily ==
  /\ MainIn("init")
  /\ script' = "timers"
  /\ UNCHANGED <<allVars, failed, bound, topicVars>>

\* Mutant: _bind_topics takes every attribute it finds for a topic.
BindEverything ==
  /\ MainIn("init")
  /\ bound' = Topics \cup Timers
  /\ script' = "timers"
  /\ UNCHANGED <<allVars, failed, topicVars>>

\* The user's __init__ has returned; every topic gets its node.
BindTopics ==
  /\ MainIn("init")
  /\ bound' = Topics
  /\ script' = "timers"
  /\ UNCHANGED <<allVars, failed, topicVars>>

WireTimer(w) ==
  /\ MainIn("timers")
  /\ PyCreateTimer(Main, w)
  /\ UNCHANGED classVars

EnterOnStart ==
  /\ MainIn("timers")
  /\ \A w \in Timers : phase[w] # "unborn"
  /\ script' = "on_start"
  /\ UNCHANGED <<allVars, failed, bound, topicVars>>

\* on_start returns, and the script goes on to spin.
Spin ==
  /\ MainIn("on_start")
  /\ script' = "spin"
  /\ UNCHANGED <<allVars, failed, bound, topicVars>>

\* The session does not open, __init__ or a hook raises, a period is not one
\* Duration can hold, or Ctrl+C is noticed: the exception ends the script.
Raise ==
  /\ gil = Main
  /\ pc[Main] = "user"
  /\ script \in {"start", "init", "timers", "on_start", "on_stop"}
  /\ script' = "over"
  /\ failed' = TRUE
  /\ checked' = {p \in checked : p[1] # Main}
  /\ created' = {p \in created : p[1] # Main}
  /\ UNCHANGED <<allVars, bound, subscribed>>

-----------------------------------------------------------------------------
(* spin and destroy_node.                                                  *)

\* check_signals raises KeyboardInterrupt, the only way out of spin.
Interrupt ==
  /\ MainIn("spin")
  /\ script' = IF Guarded THEN "on_stop" ELSE "over"
  /\ UNCHANGED <<allVars, failed, bound, topicVars>>

\* on_stop has returned.
CallDestroy ==
  /\ MainIn("on_stop")
  /\ DestroyNode(Main)
  /\ script' = "destroy"
  /\ UNCHANGED <<failed, bound, topicVars>>

DestroyReturns ==
  /\ MainIn("destroy")
  /\ script' = "over"
  /\ UNCHANGED <<allVars, failed, bound, topicVars>>

-----------------------------------------------------------------------------
(* Topic.subscribe, by the hooks and the script, a callback, or another     *)
(* thread that has been given the instance.                                 *)

MayReachTopics(t) ==
  /\ gil = t
  /\ MayCall(t, "create")
  /\ t = Main => script \in {"on_start", "on_stop", "over"} /\ ~failed
  /\ t \in Callers => t \in NodeUsers

\* Mutant: the flag is stored before the subscription is made.
CheckAndStore(t, tp) ==
  /\ MayReachTopics(t)
  /\ ~InSubscribe(t)
  /\ tp \in bound \ subscribed
  /\ subscribed' = subscribed \cup {tp}
  /\ checked' = checked \cup {<<t, tp>>}
  /\ UNCHANGED <<allVars, script, failed, bound, created>>

\* _require_ready, and the check that nobody has subscribed.
SubscribeCheck(t, tp) ==
  /\ MayReachTopics(t)
  /\ ~InSubscribe(t)
  /\ tp \in bound \ subscribed
  /\ checked' = checked \cup {<<t, tp>>}
  /\ UNCHANGED <<allVars, script, failed, bound, subscribed, created>>

\* create_subscription; a subscription the session rejects raises.
SubscribeCreate(t, s) ==
  LET call == <<t, TopicOf[s]>>
  IN  /\ call \in checked
      /\ PyCreateSubscription(t, s)
      /\ checked' = checked \ {call}
      /\ created' = IF phase'[s] = "unborn" THEN created
                    ELSE created \cup {call}
      /\ UNCHANGED <<script, failed, bound, subscribed>>

\* create_subscription has returned: self._subscribed = True.
SubscribeStore(t, tp) ==
  /\ gil = t
  /\ pc[t] = "user"
  /\ <<t, tp>> \in created
  /\ subscribed' = subscribed \cup {tp}
  /\ created' = created \ {<<t, tp>>}
  /\ UNCHANGED <<allVars, script, failed, bound, checked>>

-----------------------------------------------------------------------------
(* The steps below the class: other Python threads, operations under way,   *)
(* the worker loops and the transport.                                      *)

CallbackReturns(w) == ~InSubscribe(w) /\ PyFinishCallback(w)

SwitchThread(t) == TakeGil(t) \/ YieldGil(t)

Below ==
  \/ \E t \in Threads : SwitchThread(t) \/ PyContinueOp(t)
  \/ \E w \in Workers : CallbackReturns(w)
  \/ \E w \in Workers : WorkerLoop(w) /\ UNCHANGED pyVars
  \/ \E s \in Subs : (Deliver(s) \/ DropSender(s)) /\ UNCHANGED pyVars

Construct ==
  \/ OpenNode
  \/ BindTopics
  \/ \E w \in Timers : WireTimer(w)
  \/ EnterOnStart
  \/ Spin
  \/ Raise

Finish == Interrupt \/ CallDestroy \/ DestroyReturns

Subscribe(t) ==
  \/ \E tp \in Topics : SubscribeCheck(t, tp) \/ SubscribeStore(t, tp)
  \/ \E s \in Subs : SubscribeCreate(t, s)

ClassNext ==
  \/ Construct
  \/ Finish
  \/ \E t \in Threads : Subscribe(t)
  \/ Below /\ UNCHANGED classVars

ClassSpec == ClassInit /\ [][ClassNext]_nodeClassVars

\* The threads are scheduled as in PyNode.  A call of subscribe that has begun
\* goes on, on_stop returns or raises, and the script goes on after a
\* destroy_node that has returned.  Nobody is bound to press Ctrl+C.
Going(t) ==
  \/ \E s \in Subs : SubscribeCreate(t, s)
  \/ \E tp \in Topics : SubscribeStore(t, tp)

ClassFairness ==
  /\ PyFairness
  /\ \A t \in NodeUsers : SF_nodeClassVars(Going(t))
  /\ SF_nodeClassVars(CallDestroy \/ DestroyReturns)

ClassFairSpec == ClassSpec /\ ClassFairness

-----------------------------------------------------------------------------
(* Properties.                                                             *)

\* Every variable keeps its type.
ClassTypeOK ==
  /\ PyTypeOK
  /\ script \in ScriptStages
  /\ failed \in BOOLEAN
  /\ bound \subseteq Topics
  /\ subscribed \subseteq Topics
  /\ checked \subseteq Threads \X Topics
  /\ created \subseteq Threads \X Topics

\* No callback ever runs with a topic that is not bound, although timers fire
\* while the constructor is still running (node.py, __init__).
BoundBeforeCallbacks == inPython # {} => bound = Topics

SubscriptionsOf(tp) == {s \in Subs : TopicOf[s] = tp /\ phase[s] # "unborn"}

\* With one thread subscribing, a topic's flag and the node agree outside a
\* call of subscribe, also after a rejected one (topic.py, subscribe).
TopicMatchesNode ==
  ~failed =>
    \A tp \in Topics :
      (\A t \in Threads : <<t, tp>> \notin checked \cup created)
        => Cardinality(SubscriptionsOf(tp)) = IF tp \in subscribed THEN 1 ELSE 0

\* Whoever subscribes, a topic has at most one subscriber (topic.py, subscribe).
TopicSubscribedOnce ==
  ~failed => \A tp \in Topics : Cardinality(SubscriptionsOf(tp)) <= 1

\* A script that comes to its end without an error of its constructor or hooks
\* leaves no worker behind that could call into an interpreter being torn down
\* (lib.rs, destroy_node; a worker at its first check finds the flag down).
CleanExit ==
  script = "over" /\ ~failed
    => ~running /\ \A w \in Workers : Live(w) => phase[w] = "check"

\* Once Ctrl+C has ended spin, the script comes to its end: destroy_node does
\* not hang on callbacks that wait for the GIL (node.py, destroy_node).
InterruptEndsScript == script = "on_stop" ~> script = "over"
=============================================================================
