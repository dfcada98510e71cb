---------------------------- MODULE MessageClass ----------------------------
(***************************************************************************)
(* Message classes (python/reachpy/message.py) and the schemas that their  *)
(* class statements leave in the registry of the process.                  *)
(*                                                                         *)
(* A class is known by its place in `classes'; a redefinition of the same  *)
(* qualified name is a new class.  An annotation is a scalar type, a       *)
(* Message class, or a list of one of these (bound: no list of lists).  A  *)
(* schema_name never has the form of an automatic name.                    *)
(***************************************************************************)
EXTENDS Naturals, Sequences, FieldTypes

CONSTANTS
  Qualnames,    \* module and qualified names of class statements
  SchemaNames,  \* values of the schema_name argument
  Scalars,      \* scalar annotations, as the codec's types
  FieldNames,
  MaxFields,    \* bound: annotations of a class statement
  MaxClasses,   \* bound: class statements that succeed
  MaxDefs       \* bound: class statements that draw an automatic name

ASSUME MessageAssumption ==
  MaxClasses \in Nat /\ MaxDefs \in Nat /\ MaxFields \in Nat

VARIABLES
  schemas,   \* the registry
  classes,   \* the Message classes, in the order of their creation
  counter    \* _schema_name_counter

vars == <<schemas, classes, counter>>

Init ==
  /\ schemas = <<>>
  /\ classes = <<>>
  /\ counter = 0

-----------------------------------------------------------------------------
(* Annotations and what they resolve to.                                   *)

Scalar(t)      == [scalar |-> t]
MessageHint(c) == [message |-> c]
ListHint(h)    == [list |-> h]

Hints ==
  LET flat == {Scalar(t) : t \in Scalars} \cup {MessageHint(c) : c \in DOMAIN classes}
  IN  flat \cup {ListHint(h) : h \in flat}

ResolveFlat(h) ==
  IF "scalar" \in DOMAIN h THEN h.scalar ELSE Struct(classes[h.message].schema)

Resolve(h) ==
  IF "list" \in DOMAIN h THEN Array(1, ResolveFlat(h.list)) ELSE ResolveFlat(h)

FieldsOf(own) == [i \in DOMAIN own |-> Field(own[i].name, Resolve(own[i].hint))]

\* All annotations of a class: its own ones over those of its base.
HintsOf(own, base) ==
  LET mine      == {own[i].name : i \in DOMAIN own}
      inherited == IF base = 0 THEN <<>> ELSE classes[base].hints
  IN  [n \in mine \cup DOMAIN inherited |->
         IF n \in mine
         THEN own[CHOOSE i \in DOMAIN own : own[i].name = n].hint
         ELSE inherited[n]]

\* Mutant: the qualified name alone.
PlainName(qualname) == [auto |-> <<qualname>>]

AutoName(qualname) == [auto |-> <<qualname, counter>>]
Explicit(name)     == [explicit |-> name]

-----------------------------------------------------------------------------
(* The class statement: __init_subclass__ picks a name, resolves the        *)
(* annotations, registers the schema of the class's own ones unless that   *)
(* name has one, and only then makes the class a dataclass.                *)

\* Mutant: the number is only used up when a class comes of it.
CountSuccesses(qualname, chosen, own, base) ==
  LET name == IF chosen = {} THEN AutoName(qualname)
                             ELSE Explicit(CHOOSE n \in chosen : TRUE)
  IN  /\ Len(classes) < MaxClasses
      /\ chosen = {} => counter < MaxDefs
      /\ schemas' = IF name \in DOMAIN schemas THEN schemas
                    ELSE With(schemas, name, FieldsOf(own))
      /\ \/ /\ classes' = Append(classes, [schema |-> name, own |-> own,
                                           hints  |-> HintsOf(own, base), base |-> base])
            /\ counter' = IF chosen = {} THEN counter + 1 ELSE counter
         \/ UNCHANGED <<classes, counter>>

\* A class statement may raise half-way: at an annotation without a field type
\* the name is drawn, and when dataclass() rejects the class body the schema is
\* registered as well.
DefineClass(qualname, chosen, own, base) ==
  LET name == IF chosen = {} THEN AutoName(qualname)
                             ELSE Explicit(CHOOSE n \in chosen : TRUE)
  IN  /\ Len(classes) < MaxClasses
      /\ chosen = {} => counter < MaxDefs
      /\ counter' = IF chosen = {} THEN counter + 1 ELSE counter
      /\ \/ UNCHANGED <<schemas, classes>>
         \/ /\ schemas' = IF name \in DOMAIN schemas THEN schemas
                          ELSE With(schemas, name, FieldsOf(own))
            /\ \/ classes' = Append(classes,
                               [schema |-> name,
                                own    |-> own,
                                hints  |-> HintsOf(own, base),
                                base   |-> base])
               \/ UNCHANGED classes

\* reachpy_messages.unregister_schema, which a program may call directly.
UnregisterSchema(name) ==
  /\ name \in DOMAIN schemas
  /\ schemas' = [n \in DOMAIN schemas \ {name} |-> schemas[n]]
  /\ UNCHANGED <<classes, counter>>

\* The annotations of a class body: each name has one.
Annotations ==
  {own \in UNION {[1..n -> [name : FieldNames, hint : Hints]] : n \in 0..MaxFields} :
     \A i, j \in DOMAIN own : own[i].name = own[j].name => i = j}

Next ==
  \/ \E qualname \in Qualnames, own \in Annotations, base \in 0..Len(classes) :
       \E chosen \in {{}} \cup {{n} : n \in SchemaNames} :
         DefineClass(qualname, chosen, own, base)
  \/ \E n \in SchemaNames : UnregisterSchema(Explicit(n))

Spec == Init /\ [][Next]_vars

-----------------------------------------------------------------------------
(* Properties.                                                             *)

\* Classes a class's fields hold instances of.
Uses(c) ==
  {d \in DOMAIN classes : \E n \in DOMAIN classes[c].hints :
     classes[c].hints[n] \in {MessageHint(d), ListHint(MessageHint(d))}}

OwnSchema(c) ==
  /\ classes[c].schema \in DOMAIN schemas
  /\ schemas[classes[c].schema] = FieldsOf(classes[c].own)

\* A class that lets ReachPy pick its schema name never meets the schema of
\* another class, not after a redefinition under the same name, nor after a
\* class statement that raised half-way (message.py, 113-117).
AutoNamedOwnSchema ==
  \A c \in DOMAIN classes :
    "auto" \in DOMAIN classes[c].schema /\ classes[c].schema \in DOMAIN schemas
      => OwnSchema(c)

\* The schema that a rejected class statement leaves behind under an automatic
\* name is never taken for that of a later class, the corrected one of the same
\* qualified name included (message.py, 113-124).
OrphansStayUnused ==
  [][\A n \in DOMAIN schemas :
       "auto" \in DOMAIN n /\ (\A c \in DOMAIN classes : classes[c].schema # n)
         => \A c \in DOMAIN classes' : classes'[c].schema # n]_vars
=============================================================================
