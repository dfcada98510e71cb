# ReachPy in TLA+

This directory holds a formal model of ReachPy: the Rust runtime that moves
bytes and runs callbacks, the Rust message codec, and the Python layer that
turns classes into messages. `PROJECT.json` lists the runs, the mutants that
show each property can fail, the lines of source behind each definition, the
hazards and the theorems.

Tests of this code run one interleaving per execution and sleep between steps.
What can go wrong in it mostly needs three actors: a thread that shuts a node
down, a worker in a callback, and the GIL.

## 1. The system

| Component | Source | State | Operations | What makes it correct |
|---|---|---|---|---|
| `NodeHandle` | `crates/reachpy-runtime/src/transport.rs` | stop flag (`running`), list of join handles behind a mutex, list of subscription handles, one channel and one thread per source | `create_subscription`, `create_timer`, `shutdown`, `publish`, `Drop` | arrival order per subscription; sources independent of each other; shutdown stops and waits for every worker, and returns |
| `PyNode`, `PyPublisher` | `crates/reachpy-runtime/src/lib.rs` | an `Arc` of the above | the same, plus `spin`, `destroy_node`, under the GIL | nobody waits for a worker with the GIL held; nothing runs after `destroy_node` |
| `ZenohTransport` | `crates/reachpy-runtime/src/zenoh_transport.rs` | the Zenoh session | `open`, `publish`, `raw_subscribe` | hands each sample to the channel |
| Codec | `crates/reachpy-messages/lib.rs` 244-487 | none | write and read by field type | what was written is read back; cut payloads are rejected |
| Schema registry | `crates/reachpy-messages/lib.rs` 142-220, 489-567 | process-wide map of names to schemas | `register_schema`, `unregister_schema`, `get_schema`, `schema_exists`, `serialize`, `deserialize` | encoding and decoding depend on the fields, not on names or on the history of registrations |
| `Message` | `python/reachpy/message.py` | `_schema_name_counter`, one schema name and field list per class | class statement, `to_bytes`, `from_bytes` | each class has its own schema; instances survive the wire |
| `Topic` | `python/reachpy/topic.py` | `_node`, `_publisher`, `_subscribed` | `publish`, `subscribe` | at most one subscription per topic object; the flag agrees with the node; what is published arrives |
| `@node`, `@timer` | `python/reachpy/node.py` | the `PyNode`, the bound topics | construction, `spin`, `destroy_node` | topics are bound before any callback; nothing is left running |
| Aggregator, packaging | `crates/reachpy-python`, `__init__.py`, `pyproject.toml` | none | import | - |

How they interact: `@node` makes a `PyNode` and calls its `create_timer`;
`Topic` calls `create_publisher` and `create_subscription`; a message goes
`to_bytes` -> codec -> `PyPublisher.publish` -> Zenoh -> `raw_subscribe`'s
callback on a thread of Zenoh -> channel -> worker thread -> `Python::attach`
-> `from_bytes` -> the user's callback, which may call the node again.

The hard parts:

* Threads and locks: the workers mutex is held while workers are joined; the
  GIL is held by some callers that wait for that mutex and released by others.
* Windows between steps: flag read and callback, `thread::spawn` and the push
  of the handle, `raw_subscribe` and the spawn.
* The script around it: Ctrl+C, and errors of the constructor, of `on_start`
  and of `on_stop`, end it at different places; timers fire while the
  constructor is still running.
* Failure: a join of one's own thread panics in the middle of a drain and
  poisons the mutex; the transport may reject a subscription or drop a sender;
  `dataclass()` may reject a class after its schema was registered.
* Names: schemas are found by name at encoding and at decoding, in two
  processes, and names are reused.

## 2. Modules

| Module | Models | Uses |
|---|---|---|
| `NodeHandle` | `transport.rs`: one node, its workers, its callers | |
| `Dispatch` | what the dispatch model promises, without threads, mutexes or polling | refined by `NodeHandle` |
| `PyNode` | `lib.rs`: every step of `NodeHandle` under the GIL | extends `NodeHandle` |
| `NodeClass` | `node.py` and `Topic.subscribe`: a decorated class, its topics and the script that uses it | extends `PyNode` |
| `FieldTypes` | the field types of the codec | |
| `Codec` | the wire format, and `Meaning`, the reference definition of what a value stands for | extends `FieldTypes` |
| `TypeNames` | how programs write schemas: `from_name`, `as_name`, `parse_schema`, `get_schema` | extends `Codec` |
| `SchemaRegistry` | registries of several processes and the payloads between them | extends `TypeNames` |
| `MessageClass` | class statements and the schemas they leave behind | extends `FieldTypes` |
| `MessageWire` | `to_bytes`, `from_bytes`, and publish and subscribe of a typed `Topic` | extends `MessageClass` and `Codec` |
| `NodeHandle_proofs`, `NodeHandle_refinement`, `PyNode_proofs`, `NodeClass_proofs`, `SchemaRegistry_proofs` | theorems of the specifications | each extends its module |
| `Recursion` | induction, and functions defined by recursion, for the proofs | instantiated by `Codec_proofs` |
| `Codec_proofs` | what the codec writes is what it reads | extends `Codec` |
| `MessageWire_proofs` | theorems of the message classes and of their instances | extends `MessageWire` and `Codec_proofs` |
| `MCNodeHandle`, `MCNodeClass`, `MCSchemaRegistry`, `MCMessageWire` | values of constants and symmetry for TLC | |

`NodeHandle` <- `PyNode` <- `NodeClass` is one stack: each adds the layer of
code above it and is built of the steps of the one below. The codec and
`MessageWire`, whose code recurses, are written with recursive functions, about
which theorems can be proved, in place of recursive operators.

### NodeHandle

`phase[w]` says where a worker thread is in its loop, `pc[t]` where a thread is
inside an operation of the node, `making[t]` which worker it is creating.
Threads are the callers and the workers: a worker in its callback may call the
operations in `CallbackOps`. One subscription or timer of the constants stands
for one `create_*` call that gets that far.

| Code | Actions |
|---|---|
| `create_subscription` | `RawSubscribe` (accepted, or rejected with nothing changed), `SpawnSubscriber`, `PushWorker` |
| `create_timer` | `SpawnTimer`, `PushWorker` |
| `shutdown` | `StoreStop`, `LockWorkers`, `JoinWorker` for each handle, `ShutdownReturns` |
| a join of the caller's own thread | `JoinSelf` |
| `lock().unwrap()` on a poisoned mutex | `UnwrapPoisoned` |
| loop of a subscription | `CheckRunning`, `Receive`, `ReceiveTimeout`, `ReceiveDisconnected`, `FinishCallback` |
| loop of a timer | `CheckRunning`, `TimerDeadline`, `TimerPollStops`, `TimerDue`, `FinishCallback` |
| transport (external) | `Deliver`, `DropSender` |

Decisions:

* `running` is sequentially consistent here, although the code uses `Relaxed`.
  For one flag, stored by some threads and read by others, a relaxed read may
  be stale; but each worker reads the flag again after the 50 ms poll, and the
  wheels of this project are built for x86-64 only, where a store becomes
  visible without a fence.
* pthread_join of one's own thread answers EDEADLK; `JoinHandle::join` panics
  on it. `drain`'s destructor drops the other handles and the guard's poisons
  the mutex. This behaviour of the standard library and of glibc is taken as
  given.
* Time is abstracted: a deadline may pass at any moment (`TimerDeadline`), a
  poll may end at any moment. Periods, the 50 ms, and so the latency of
  shutdown are not modelled.
* `publish` changes no state of the node; messages arrive by `Deliver`.
* The mutex of `subscriptions` is only held for one push and cannot take part
  in a deadlock; it is part of `RawSubscribe`.
* `handled` and `late` are history variables.

### PyNode

`gil` is the thread that holds the GIL, `inPython` the workers whose callback
has attached. A worker takes its message before it attaches, as in the code, so
`Receive` happens without the GIL and `TakeGil` after it. `create_*` keeps the
GIL throughout, `destroy_node` gives it up in the step that begins `shutdown`
and asks for it again when it ends, `Drop` keeps it (`DropNode`). `YieldGil` is
a thread switch of the interpreter, a blocking call in user code, or the
detached sleep of `spin`. `CallbacksHoldNode` says whether callbacks are bound
methods: then the node cannot be dropped while a worker lives.

### NodeClass

`script` is how far the main thread has got: `start`, `init` (the user's
`__init__`), `timers`, `on_start`, `spin`, `on_stop`, `destroy`, `over`.

| Code | Actions |
|---|---|
| `PyNode(node_name)`, `ZenohTransport::open` | `OpenNode`, or `Raise` |
| `_bind_topics` | `BindTopics` |
| `_wire_timers` | `WireTimer` for each timer, `EnterOnStart` |
| `on_start`, then `spin` | `Spin`; `Interrupt` is the KeyboardInterrupt of `check_signals` |
| `destroy_node` | `CallDestroy` when `on_stop` has returned, `DestroyReturns` |
| an error of `__init__`, a hook, the session, a period | `Raise`: the script is over, the threads go on |
| `Topic.subscribe` | `SubscribeCheck`, `SubscribeCreate` (which may raise), `SubscribeStore` |

The hooks and the script, a callback (if `CallbackOps` has `"create"`), or
another thread that was given the instance, may subscribe. Between two steps of
`subscribe` the interpreter may switch threads, inside `create_subscription` it
cannot. `Guarded` is the script that wraps `spin` in `try`; without it the
script is the one of the documentation, in which nothing follows `spin`.

Only the script destroys the node, and only once; the node is not dropped,
because timers hold the instance. Which attributes of a class are topics and
timers is what `Topics` and `Timers` say: the walks over the MRO are not
modelled.

### Codec, SchemaRegistry, MessageClass, MessageWire

A byte has `Base` values, 256 in the code and 2 in the runs: widths, ranges,
two's complement and length prefixes are the code's, on smaller numbers, so
boundaries are met with small values. A float is a number below `Base^8` of
which a float32 keeps the upper half of the digits (truncation in place of
rounding, no NaN or infinity). `Utf8` gives the bytes of each text that has
some, no two texts the same; a text outside it has lone surrogates. Python
values carry their class, with `bool` an integer as PyO3 extracts it.

The functions of the code that call themselves, `write_by_type` and
`read_by_type`, are functions `Write(schemas)[d]` and `Read(schemas, bytes)[d]`
of the number of calls that the stack still allows, over the types and values
of the program (`Types`, `Values`): `d = 0` fails, and each level is one body of
the code (`WriteValue`, `ReadValue`) with the level below for what is nested.
`MaxDepth`, the stack, is 4 in the runs, more than their schemas need. An array
of arrays is one type with a rank, so that the set of types needs no recursion;
`ItemType` takes one rank off, as a call of the code does.

Programs write field types as names. In `TypeNames` a name is a sequence of
words (`array<`, `>`, `struct:`, simple types, blanks, words of schema names),
which is as far as `from_name` and `as_name` tell names apart. The two are
separate tables in the code and here (`SimpleTypes` and `SimpleName`), and
`SelfDescribing` compares them. `message.py` writes such names itself; `MessageClass` goes straight to the types.

Every function of the registry runs under the GIL from beginning to end, so it
is one step. (A value whose class defines `__index__` or `__float__` in Python
could break that; the model's values are plain.) `wire` keeps with every payload
the layout it was encoded with and what its values mean, so that the property
can compare.

`MessageClass` records for each class its schema name, its own annotations and
all annotations with those of its base. A class statement picks the name
and may raise at an annotation without a field type, which leaves the drawn
number behind; it registers if the name is free, and may then be rejected by
`dataclass()`, which leaves the schema behind as well. Annotations are objects
captured when the class statement runs; the code evaluates them again in
`from_bytes`, which differs only for annotations that are strings. A
program may unregister a name it chose itself; automatic names are private to
the class, and a name a program chooses is assumed not to look like one.

In `MessageWire`, `Publish` is the topic's class check followed by `to_bytes`,
`OnRaw` is `from_bytes` of the topic's class, whichever subclass was sent.
`FromWire[d]` is `_from_wire` with `d` nested calls left, as in the codec;
`ToWire` needs no depth, because `to_dict` does not go into nested messages.
`Samples` are values that programs put into fields of each scalar annotation,
and every instance a class can have is made of them: scalars, lists of up to
`MaxItems` items, nested instances and lists of those (`Fits`). A sample is a
value that the codec takes for its type and gives back (`Kept`): a Python float
in a float32 field, or a `True` in an integer field, comes back as another value
by design. `WireValues` is what such instances turn into on the wire. `MaxDepth`
is at least 4, what a list of messages with lists in them needs.

## 3. Runs

Passing runs and their bounds:

* `NodeHandle_safety`: two callers, one subscription, two timers, two messages,
  callbacks that may call everything. Two callers are what it takes for a
  shutdown to race a shutdown or a create; callbacks that shut down bring in
  self-joins and poisoning; with two messages an order exists, and with two
  timers a drain can be cut short. 150,000 states. Deadlock is not checked:
  the system may stop, and with reentrant callbacks it may hang
  (`NodeHandle_reentrant`).
* `NodeHandle_liveness`: two callers, one subscription, one timer, two
  messages, callbacks that may call everything. A source makes progress if its
  own callback returns and stays out of the node, whatever the other does, also
  when it hangs in an operation (`SourcesAreIndependent`). Shutdowns return if
  callbacks stay out of the node (`ShutdownReturnsIfLeftAlone`; without that
  premise it is the violation of `NodeHandle_reentrant`). Once a self-join has
  poisoned the mutex, all workers leave their loops and nobody stays at the mutex
  (`PoisonHangsNobody`). Deadlock is not checked, for the same reason as above.
  24,000 states.
* `PyNode_safety`: two threads and the callbacks use the node; who holds the GIL
  where is as stated, and a circle of waits needs a create operation at the
  mutex, a callback inside an operation, or `Drop`: threads that race to destroy
  the node make none (`DestroyersNeverInCircle`). 12,000 states.
* `NodeClass_script`: a class with one topic, one timer and two subscriptions
  that may be made through the topic, the script's thread, and another Python
  thread that only computes. Two subscriptions are what it takes for a topic to
  be subscribed twice, or again after a rejected attempt; one timer fires
  during construction. Callbacks stay out of the node. No callback runs before
  the topic is bound; flag and node agree; after Ctrl+C the script ends; nothing
  is left running; the other thread is not starved. TLC's own deadlock check
  is on, but with a thread that only computes there always is a next step: that
  nobody hangs is what `NoCyclicWait` says, of the mutex, the joins and the GIL
  together, and `InterruptEndsScript` adds that the waiting ends. 6,700 states.
* `SchemaRegistry_exchange`: two processes, three names with two or three
  schemas each that cover all field types and integer widths, nesting, arrays of
  structs and repeated names; dictionaries with boundary values, missing fields and values
  of the wrong class. One payload at a time: payloads do not influence each
  other. Descriptions with a blank, an alias, a name of no type, an array of
  arrays or an entry that is no pair are among those registered or refused.
* `MessageWire_roundtrip`: all class statements of up to two classes over one
  qualified name, one explicit schema name, two field names, two scalar types,
  one own field, inheritance, nesting and lists. Two classes are the least for
  a nested message, a subclass sent through its base's topic, a redefinition or
  a clash of names. Each scalar type has one sample, the least int32 and the
  largest uint8, and a list has at most one item: what goes wrong with a list in
  this code goes wrong with one item, and longer lists are what `RoundTripHolds`
  is proved for. A class statement that raises half-way and one that succeeds
  are enough for `OrphansStayUnused`. Bounds `MaxClasses`, `MaxDefs` and
  `MaxFields` end the runs, so deadlock is not checked. 860,000 states.

Violations, each a place where the code does not do what its own text says:

* `NodeHandle_reentrant`: "blocks until they have [stopped]" (transport.rs:146).
  One caller holds the mutex and joins a worker whose callback waits for the
  mutex.
* `PyNode_two_users`: "blocks until they've exited" (lib.rs:79-80). `create_*`
  waits for the mutex without detaching. The trace ends with three threads that
  cannot move: one has the mutex and joins a worker, the worker's callback waits
  for the GIL, and the thread in `create_*` has the GIL and waits for the mutex.
  `GilDiscipline` says how the GIL is held; this run shows that it is not enough
  with two threads.
* `PyNode_drop`: callers "MUST release" the GIL (transport.rs:152); `Drop`
  does not. The lib.rs comment on `destroy_node` warns of `Drop` for another
  reason, interpreter teardown.
* `NodeClass_documented`: `d.spin()` and `d.destroy_node()` on the next line
  (node.py:27), against a `spin` that only ends by an exception. The script ends
  with the flag still up. `CleanExit` holds in `NodeClass_script`, where the
  exception is caught.
* `NodeClass_race`: "already has a subscriber" (topic.py:92). A timer callback
  and `on_start` both pass the check before either stores the flag.
* `MessageWire_nesting`: "Nesting works" (message.py:18): one level does.

Three remarks without a run. `README.md:20` of the repository calls the bytes
"perfectly aligned"; the codec packs fields without padding, as its own comment
(lib.rs:10) says. "Each subclass gets its own CDR schema" (message.py:91-92)
is true of automatic names (`AutoNamedOwnSchema`); a class that gives a
`schema_name` already in use silently gets that schema. And a shutdown called
from a callback is not "safe to call" (transport.rs:147): it panics at the join
of its own thread and ends with other workers still running (`JoinSelf`), which
then leave by themselves (`PoisonHangsNobody`).

## 4. Fairness

`NodeHandle`: a runnable thread is scheduled (weak fairness of each worker loop
and of each thread inside an operation). A waiter for the mutex gets it in the
end if it becomes free again and again (strong fairness of `LockWorkers` and
`PushWorker`): Rust's futex mutex does not promise this, but the only critical
sections are one push per create call and one drain per shutdown, so nobody can
hold it again and again for ever. Nothing is assumed of user code, of the
transport or of callers. That callbacks return is a premise inside the
liveness properties.

`PyNode`: the same of the worker loops and of the mutex, and in addition the
interpreter makes a running thread give up the GIL from time to time (its switch
interval; 50 ms sleeps in `spin`) and a waiting thread gets it in the end;
callbacks return. `PyFairness` states the mutex and the GIL in one conjunct per
thread, `SF(PyContinueOp(t) \/ TakeGil(t))`: a thread inside an operation is at
one step of it at a time, so strong fairness of `PyContinueOp(t)` is that of
`LockWorkers` and `PushWorker` and the weak fairness of the rest; and a thread
that waits for the GIL is inside no operation, so the two do not hide each other.
(TLC's tableau doubles with each conjunct of strong fairness.)

`NodeClass`: in addition a call of `subscribe` that has begun goes on, `on_stop`
returns or raises, and the script goes on when `destroy_node` has returned
(strong fairness, because the steps need the GIL, which comes and goes). Nobody
is bound to press Ctrl+C, and the constructor is bound to nothing, as user code
runs in it.

## 5. Proofs

Checked by TLAPS for all sets of callers, subscriptions and timers, all
`CallbackOps`, all schemas and values and all bounds, unless a theorem says
otherwise. The assumptions, which TLC evaluates in the runs, are

* `NodeHandleAssumption` (the sets are disjoint, `MaxMsgs` is a natural number),
  `PyNodeAssumption`, `NodeClassAssumption` (main uses the node, callbacks create
  at most and hold the node), `MessageAssumption` (bounds are natural numbers);
* `CodecAssumption`: a byte has an even number of values, and different texts
  have different bytes, which is what UTF-8 is for;
* `DescriptionsAssumption`: `StructNames` holds the names that the descriptions
  of schemas mention; `ValuesAssumption`: the values of programs are of Python's
  classes, and no text or list is as long as 2^32 (`WellFormed`), from where on
  the length in front of it is cut and the theorems are false of the code;
* `WireAssumption`: scalar annotations are booleans, numbers, texts and bytes,
  samples are `Kept`, lists stay below 2^32 items, the stack takes four nested
  calls, and `Values` and `StructNames` hold what the classes can send and name.

* `Bookkeeping` is the inductive invariant: types, who is creating which worker
  and how far that worker has come (`CreatorsAgree`), that a worker inside an
  operation is in its callback (`CallersAreInCallbacks`), and that the mutex is
  held exactly by the thread that drains (`DrainHoldsLock`). `TypeOK` alone is
  not inductive: `Append(workers, making[t])` keeps its type because a thread
  about to push is creating a worker.
* `NoWorkerForgotten`: by induction on top of `Bookkeeping`; the delicate steps
  are the push, the join of an exited worker, and the panics.
* `ShutdownIsComplete`: an action property; with an empty list the previous
  invariant leaves only workers still being created.
* `OneLateCallback`: strengthened to say which phases a worker with a late
  callback can be in.
* `DeliveryInOrder`: the messages taken and those buffered are together the
  numbers from 1 to `arrived`.
* `DispatchImplemented` (`NodeHandle_refinement`): `NodeHandle` implements
  `Dispatch`. Besides `Bookkeeping` it needs that the flag is down whenever a
  thread is inside shutdown, and that only announced subscriptions have senders.
* `PyShutdownIsComplete`: each step of `PyNode` is a step of `NodeHandle` or
  leaves its variables alone, by the way it is written. The lemma
  `PyNodeIsNodeHandle` records that, to carry the theorems above over; this
  theorem spells one out for `destroy_node` and `Drop`.
* `GilIsDisciplined`: by induction with `Bookkeeping`; `PyTypeCorrect` adds the
  types.
* `DestroyLeavesQuiet`: for one user of the node and callbacks that stay out of
  it (the premises of the theorem, and of the run). The invariant `Quiet` says
  that only that thread is ever inside an operation, that nothing has panicked,
  and that after a shutdown each worker is in a phase with no callback ahead.
  The step where shutdown returns rests on `NoForgottenWorker`: the list is
  empty and nobody is creating a worker, so none is alive.

* `DestroyersStayApart`: for any number of users, of callbacks that use the node
  and of calls of `destroy_node` under way. Whoever joins has the mutex
  (`DrainHoldsLock`) and, unless the node was dropped, not the GIL
  (`GilDiscipline`). With nobody in a create operation at the mutex, all who wait
  for the mutex are destroyers, who do not hold the GIL either; so waits lead from
  a destroyer to the one that drains, from there to a worker, from the worker to
  the holder of the GIL, and that one waits for nobody.
* `NobodyWaitsInACircle`: for one user of the node, and callbacks that stay out
  of it and hold it. It is the part of `PyShutdownReturns` that is a safety
  property, so the prover reaches it. A circle needs somebody who has what others
  wait for and waits in turn. The mutex is held by the thread that drains
  (`DrainHoldsLock`), which is the one user (`Quiet`), so nobody waits for the
  mutex; the holder of the GIL waits for a worker only inside `Drop`
  (`GilDiscipline`), and a node is dropped when its workers are done
  (`DroppedIsDone`), which leaves nothing to wait for. Hence every set of threads
  has one that waits for none of them. With a second user of the node, or with
  callbacks that do not hold it, the property is false: the circles are those of
  `PyNode_two_users` and `PyNode_drop`. `ScriptNeverDeadlocks` states it of a
  decorated class.
* The lemma `ClassIsPyNode` does the same for `NodeClass`, so all of the above
  holds of a decorated class.
* `TopicsBoundFirst`: before the topics are bound nobody has created anything
  (`NothingYet`): every worker is unborn and every thread outside the node, so no
  callback can be in Python. The wiring order of the constructor is all it needs,
  whoever subscribes and however often.
* `GuardedScriptEndsClean`, for a script that is the only user of its node: the
  invariant `EndInv` ties the stage of the script to the node: in `destroy` the
  flag is down, and in `over`, unless something has raised, the flag is down and
  main waits for no worker any more; with `Quiet` that leaves no worker ahead of
  a callback.
* `TopicAgreesWithNode`, same premise: `TopicInv` counts. A topic has no
  subscription while main is before `create_subscription`, exactly one after.
  Cardinalities enter through `FiniteSetTheorems`.
* `AutoNamesAreOwn`, `OrphansAreNeverUsed` (`MessageWire_proofs`): `ClassInv`
  says that automatic names that exist carry numbers below the counter
  (`FreshNames`), so a new one is free even when the class statement before it
  raised half-way; hence a class with an automatic name registers its own fields,
  and takes no name that a rejected class left behind. It also says that classes
  are used only by later ones (`HintTypes`), so appending a class does not change
  what the annotations of earlier ones resolve to.

### The codec

The installed provers cannot instantiate an induction theorem with an operator
parameter. `Recursion` takes another way: `Induction` speaks of a *set* of
natural numbers, and `Unfold` proves from it, once, that a function defined by
`f[n \in Nat] == IF n = 0 THEN Start ELSE Step(f[n - 1], n)` exists and obeys its
definition. Each recursive function of the codec is an instance of that module
with its own `Start` and `Step`, so what it computes can be proved of every
input.

`SerializedIsRead` (`Codec_proofs`): if `serialize` makes bytes of a dictionary,
`deserialize` under any schema of the same layout, in any process, gives what
the dictionary means, and fails on every proper prefix of the bytes. The
argument:

* `Right(r, w, at, b, x)` relates the result `r` of a reader at place `at` of a
  payload `w` to bytes `b` and a value `x`: if `b` stands there, `x` is read and
  the reader stops behind it; if `w` ends within `b`, it fails. This is stronger
  than the property, which is about whole payloads, and it is what composes:
  `Continue` puts two readers one after the other.
* Numbers: what is left of a number and what the bytes so far add up to always
  make the number (`SumOfBytes`); with the range that `write_by_type` checked
  this gives `IntegerBack`, with two's complement, `LengthBack` and `FloatBack`.
* Structure: the codec's functions over types are opened at one type and one
  value at a time (`OneWrite`, `OneRead`, `OneMeaning`, `OneLayout`).
* Types: `BoolRight` ... `TimeRight`, one lemma per branch of the code, the
  lists and dictionaries by induction over their items and fields (`ItemsRight`,
  `FieldsRight`).
* Depth: `Faithful` says that types of one layout are written and read `Right`
  with what stack is left; one more call keeps it (`OneMoreCall`), so it holds
  at every depth (`CodecIsFaithful`). A layout resolves names to the same depth
  as the codec, so cyclic schemas need no exception.

### The registry

* `Typing`, `DescribesItself`, `ExchangeHolds`, `TruncationIsDetected`
  (`SchemaRegistry_proofs`). The properties compare a payload with registries
  that have changed since it was sent, so they are not inductive: `IInv` says in
  addition that every payload was serialized under *some* registry, which
  may be gone, with the layout and the meaning it is recorded with (`Sent`). A step
  that registers or unregisters leaves this alone; with `SerializedIsRead` it
  gives the properties in the state at hand.
* `DescribesItself` rests on `NamedType`: a type that `from_name` accepted has a
  trimmed struct name and no array in its element. Each arm of `as_name` gives a
  word that `from_name` reads as the type of that arm (`SimpleNameOf`), and so
  the whole name is read back as that type (`TypeRead`): the brackets around it are counted as they
  were written (`RankIs`), and nothing is trimmed from what was trimmed
  (`TrimTwice`). Of registered schemas no more is needed than that some
  description gave them (`Registered`).

### Instances

`RoundTripHolds` (`MessageWire_proofs`): `RoundTrip` speaks of all ways to fill
the fields of all classes of a state, so what it needs of the state is little:
`WireInv` adds to `ClassInv` and `HintTypes` that a class's own annotations are
among those `get_type_hints` gives, that every registered schema has types of
the codec, and that schema names are names a struct type may have. The rest is
about values:

* `Good(d, h, v, w)`: for the annotation `h` and with `d` calls left, the codec
  takes `w`, `w` means itself, and `_from_wire` makes `v` of it. `GoodAtLevel`
  is one level of the three recursive functions at once.
* `ScalarGood`, `ListGood`, `MessageGood`: one lemma per branch of
  `_from_wire`, each using one more call than what it is made of; `FieldsGood`
  is the part that a nested message and the message itself share.
* `PlainGood`, `NestedGood`, `NestedListGood`: what `to_dict` leaves as it is,
  and what it turns into dictionaries. Here the premise is used that messages nest
  one level: two levels down `ToDict` leaves an instance behind, and the lemma is
  false (`MessageWire_nesting`).
* The two schemas of a topic's class and of a subclass with the same fields have
  one layout, so `SerializedIsRead` gives the dictionary back.

Only model-checked: all liveness (`SourcesAreIndependent`,
`ShutdownReturnsIfLeftAlone`, `PoisonHangsNobody`, `InterruptEndsScript`,
`PythonStaysResponsive`), because temporal reasoning with fairness is out of the prover's reach.

## 6. Not modelled

* `PyPublisher` and the `publish` of node and transport: one call to the
  session, no state. (It keeps the GIL during the call: how long is the
  network's matter.)
* The walks of `_bind_topics` and `_wire_timers` over class dictionaries, among
  them the timer that a subclass overrides with a plain method and that is wired
  all the same; snake-casing of node names.
* What happens after the script is over: interpreter finalisation, and a
  `SystemExit` in a callback, which CPython turns into the end of the process.
* Several nodes in one process: they share the GIL and nothing else.
* Class statements of two threads with one explicit name; lists of lists;
  inherited fields on the wire; values with Python-level conversions.
* Time: periods, the 50 ms polls, overflow of an `Instant`.
* The aggregator crate, packaging, error texts.

## 7. Plan

Done: `NodeHandle`, `Dispatch`, `PyNode`, `NodeClass`, `MessageClass`, `Codec`,
`SchemaRegistry`, `MessageWire` and their proofs: every safety property of the
passing runs is a theorem.

Left, in order of worth:

1. Two nodes that share one GIL, one of them shutting down in a callback of the
   other.
2. Concurrent class statements, with `schema_exists` and `register_schema` as
   two steps.
