------------------------------ MODULE Dispatch ------------------------------
(***************************************************************************)
(* What the dispatch model of reachpy-runtime promises its users, without  *)
(* channels, handles, mutexes or polling (module documentation of          *)
(* transport.rs): every source of callbacks (a subscription or a timer)    *)
(* runs at most one callback at a time, a subscription handles its         *)
(* messages in the order they arrived, no source waits for another, a      *)
(* source that has stopped never runs a callback again, and it stops only  *)
(* for a reason.                                                           *)
(***************************************************************************)
EXTENDS Naturals, Sequences

CONSTANTS Subs, Timers

Sources == Subs \cup Timers

VARIABLES
  stopping,   \* the node has been told to stop
  source,     \* what each source is doing
  severed,    \* subscriptions the transport will send nothing more on
  pending,    \* messages accepted and not handled, per subscription
  handled     \* messages handled, in order, per subscription

vars == <<stopping, source, severed, pending, handled>>

Init ==
  /\ stopping = FALSE
  /\ source = [w \in Sources |-> "absent"]
  /\ severed = {}
  /\ pending = [s \in Subs |-> <<>>]
  /\ handled = [s \in Subs |-> <<>>]

\* A subscription accepts messages before it can handle them.
Open(s) ==
  /\ source[s] = "absent"
  /\ source' = [source EXCEPT ![s] = "open"]
  /\ UNCHANGED <<stopping, severed, pending, handled>>

Start(w) ==
  /\ source[w] = IF w \in Subs THEN "open" ELSE "absent"
  /\ source' = [source EXCEPT ![w] = "idle"]
  /\ UNCHANGED <<stopping, severed, pending, handled>>

\* Messages of one subscription are numbered by their arrival.
Accept(s) ==
  /\ source[s] \notin {"absent", "gone"}
  /\ s \notin severed
  /\ pending' = [pending EXCEPT
                   ![s] = Append(@, Len(handled[s]) + Len(@) + 1)]
  /\ UNCHANGED <<stopping, source, severed, handled>>

Sever(s) ==
  /\ source[s] # "absent"
  /\ severed' = severed \cup {s}
  /\ UNCHANGED <<stopping, source, pending, handled>>

Handle(s) ==
  /\ source[s] = "idle"
  /\ pending[s] # <<>>
  /\ source' = [source EXCEPT ![s] = "busy"]
  /\ pending' = [pending EXCEPT ![s] = Tail(@)]
  /\ handled' = [handled EXCEPT ![s] = Append(@, Head(pending[s]))]
  /\ UNCHANGED <<stopping, severed>>

\* A timer that may fire has not seen the order to stop.
Fire(w) ==
  /\ source[w] = "idle"
  /\ ~stopping
  /\ source' = [source EXCEPT ![w] = "busy"]
  /\ UNCHANGED <<stopping, severed, pending, handled>>

Return(w) ==
  /\ source[w] = "busy"
  /\ source' = [source EXCEPT ![w] = "idle"]
  /\ UNCHANGED <<stopping, severed, pending, handled>>

Stop ==
  /\ stopping' = TRUE
  /\ UNCHANGED <<source, severed, pending, handled>>

\* A source goes away when the node stops, or, with nothing left to handle,
\* when its subscription has been severed; what it had accepted is dropped.
Leave(w) ==
  /\ source[w] \in {"idle", "busy"}
  /\ \/ stopping
     \/ w \in severed /\ source[w] = "idle" /\ pending[w] = <<>>
  /\ source' = [source EXCEPT ![w] = "gone"]
  /\ pending' = [s \in Subs |-> IF s = w THEN <<>> ELSE pending[s]]
  /\ UNCHANGED <<stopping, severed, handled>>

Next ==
  \/ Stop
  \/ \E w \in Sources : Start(w) \/ Return(w) \/ Leave(w)
  \/ \E w \in Timers : Fire(w)
  \/ \E s \in Subs : Open(s) \/ Accept(s) \/ Sever(s) \/ Handle(s)

Spec == Init /\ [][Next]_vars
=============================================================================
