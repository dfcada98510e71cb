--------------------------- MODULE SchemaRegistry ---------------------------
(***************************************************************************)
(* The schema registry of reachpy-messages (lib.rs), one per process, and  *)
(* the payloads the processes exchange.  A payload carries no schema: who  *)
(* decodes it relies on a schema of its own.                               *)
(*                                                                         *)
(* Every function of the module runs under the GIL from beginning to end,  *)
(* so each is one step of its process.                                     *)
(***************************************************************************)
EXTENDS TypeNames, FiniteSets

CONSTANTS
  Procs,           \* the processes, publishers and subscribers
  SchemaChoices,   \* the descriptions each name may be registered with
  ValueChoices,    \* the dictionaries of values that may be serialized
  MaxPayloads      \* bound: payloads in the run

Names == DOMAIN SchemaChoices

\* What programs may pass: descriptions of pairs of a field name and a type
\* name whose parts are in StructNames, and values of Python's classes.
ASSUME DescriptionsAssumption ==
  \A name \in Names : \A entries \in SchemaChoices[name] :
    /\ entries \in Seq({entries[i] : i \in DOMAIN entries})
    /\ \A i \in 1..Len(entries) : Len(entries[i]) = 2 =>
         LET words == entries[i][2]
         IN  /\ words \in Seq(STRING)
             /\ \A k \in 1..Len(words), l \in 1..Len(words) :
                  Trim(SubSeq(words, k, l)) \in StructNames

ASSUME ValuesAssumption ==
  /\ \A dict \in ValueChoices : \A k \in DOMAIN dict : dict[k] \in Values
  /\ \A v \in Values : WellFormed(v)

VARIABLES
  registry,  \* the registered schemas of each process, by name
  wire       \* payloads sent, with the layout and the values they stand for

vars == <<registry, wire>>

Init ==
  /\ registry = [p \in Procs |-> <<>>]
  /\ wire = {}

\* Mutant: registering a name again adds to its schema.
ExtendSchema(p, name, entries) ==
  LET old    == IF name \in DOMAIN registry[p] THEN registry[p][name] ELSE <<>>
      fields == ParseSchema(entries)
  IN  /\ ~Failed(fields)
      /\ registry' = [registry EXCEPT ![p] = With(@, name, old \o fields.ok)]
      /\ UNCHANGED wire

\* A description that does not parse, and a name that is registered already,
\* are refused.
RegisterSchema(p, name, entries) ==
  LET fields == ParseSchema(entries)
  IN  /\ ~Failed(fields)
      /\ name \notin DOMAIN registry[p]
      /\ registry' = [registry EXCEPT ![p] = With(@, name, fields.ok)]
      /\ UNCHANGED wire

UnregisterSchema(p, name) ==
  /\ name \in DOMAIN registry[p]
  /\ registry' = [registry EXCEPT ![p] = [n \in DOMAIN @ \ {name} |-> @[n]]]
  /\ UNCHANGED wire

\* A message that does not serialize raises, and is not sent.
Send(p, name, dict) ==
  LET bytes == Serialize(registry[p], name, dict)
  IN  /\ Cardinality(wire) < MaxPayloads
      /\ ~Failed(bytes)
      /\ wire' = wire \cup
           {[bytes  |-> bytes.ok,
             layout |-> Layout(registry[p], name),
             meant  |-> MeaningOf(registry[p], name, dict)]}
      /\ UNCHANGED registry

Next ==
  \E p \in Procs, name \in Names :
    \/ \E entries \in SchemaChoices[name] : RegisterSchema(p, name, entries)
    \/ UnregisterSchema(p, name)
    \/ \E dict \in ValueChoices : Send(p, name, dict)

Spec == Init /\ [][Next]_vars

-----------------------------------------------------------------------------
(* Properties.                                                             *)

\* Names with schemas they were described with.
Registered(schemas) ==
  /\ DOMAIN schemas \subseteq Names
  /\ \A name \in DOMAIN schemas :
       \E entries \in SchemaChoices[name] : ParseSchema(entries) = Done(schemas[name])

\* Each process maps names to schemas they may have.
RegistryTypeOK ==
  /\ DOMAIN registry = Procs
  /\ \A p \in Procs : Registered(registry[p])

\* What get_schema says of a schema registers that schema again, with types
\* that are arrays of arrays, or written with blanks or under another name
\* (lib.rs, get_schema and register_schema).
SelfDescribing ==
  \A p \in Procs : \A name \in DOMAIN registry[p] :
    ParseSchema(Described(registry[p][name])) = Done(registry[p][name])

Readers(m) ==
  {r \in Procs \X Names : Layout(registry[r[1]], r[2]) = m.layout}

\* Whoever has a schema of the sender's layout, under whatever name and after
\* whatever registrations, reads back the values sent: no more is lost than
\* the precision of a float32 (lib.rs, serialize and deserialize).
Exchange ==
  \A m \in wire : \A r \in Readers(m) :
    Deserialize(registry[r[1]], r[2], m.bytes) = Done(m.meant)

\* A payload cut short anywhere is rejected, never read as a smaller message:
\* each field says where it ends (lib.rs, read_by_type).
TruncationDetected ==
  \A m \in wire : \A r \in Readers(m) : \A n \in 0..Len(m.bytes) - 1 :
    Failed(Deserialize(registry[r[1]], r[2], SubSeq(m.bytes, 1, n)))
=============================================================================
