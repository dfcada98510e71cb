------------------------- MODULE MessageWire_proofs -------------------------
(***************************************************************************)
(* Proofs about the message classes and their instances: automatic schema  *)
(* names are fresh, so the classes that have one keep the schema of their  *)
(* own fields; classes build on earlier ones; and an instance arrives with *)
(* the fields it was published with.                                       *)
(***************************************************************************)
EXTENDS MessageWire, Codec_proofs

\* A class's annotations name classes that exist when it is made.
FlatHints(n) == {Scalar(t) : t \in Scalars} \cup {MessageHint(c) : c \in 1..n}
HintsUpTo(n) == FlatHints(n) \cup {ListHint(h) : h \in FlatHints(n)}

OwnUpTo(own, n) ==
  \E k \in Nat : own \in [1..k -> [name : FieldNames, hint : HintsUpTo(n)]]

ClassTypes ==
  /\ counter \in Nat
  /\ \E S : classes \in Seq(S)
  /\ \A c \in DOMAIN classes : OwnUpTo(classes[c].own, c - 1)

\* The names the counter has yet to give are neither registered nor taken.
FreshNames ==
  \A q \in Qualnames, k \in Nat : k >= counter =>
    /\ [auto |-> <<q, k>>] \notin DOMAIN schemas
    /\ \A c \in DOMAIN classes : classes[c].schema # [auto |-> <<q, k>>]

ClassInv == ClassTypes /\ FreshNames /\ AutoNamedOwnSchema

\* Only the names of classes decide what a class's fields resolve to.
LEMMA FieldsStay ==
  ASSUME NEW own, NEW n \in Nat, OwnUpTo(own, n), 1..n \subseteq DOMAIN classes,
         \A c \in 1..n : classes'[c].schema = classes[c].schema
  PROVE  FieldsOf(own)' = FieldsOf(own)
<1>1. ASSUME NEW h \in FlatHints(n)
      PROVE  ResolveFlat(h)' = ResolveFlat(h)
  <2>1. CASE \E t \in Scalars : h = Scalar(t)
    BY <2>1 DEF Scalar, ResolveFlat
  <2>2. CASE \E c \in 1..n : h = MessageHint(c)
    BY <2>2 DEF MessageHint, ResolveFlat, Struct
  <2> QED
    BY <2>1, <2>2 DEF FlatHints
<1>2. ASSUME NEW h \in HintsUpTo(n)
      PROVE  Resolve(h)' = Resolve(h)
  <2>1. CASE \E g \in FlatHints(n) : h = ListHint(g)
    BY <2>1, <1>1 DEF ListHint, Resolve, Array
  <2>2. CASE h \in FlatHints(n)
    BY <2>2, <1>1 DEF FlatHints, Scalar, MessageHint, Resolve
  <2> QED
    BY <2>1, <2>2 DEF HintsUpTo
<1> QED
  BY <1>2 DEF OwnUpTo, FieldsOf, Field

\* Before the first class statement.
LEMMA ClassInit == Init => ClassInv
<1> SUFFICES ASSUME Init PROVE ClassInv
  OBVIOUS
<1>1. DOMAIN classes = 1..0 /\ DOMAIN schemas = {}
  BY DEF Init
<1> QED
  BY <1>1 DEF Init, ClassInv, ClassTypes, FreshNames, AutoNamedOwnSchema

\* The annotations of a class statement name the classes there are.
LEMMA AnnotationsAreUpTo ==
  ASSUME NEW n \in Nat, DOMAIN classes = 1..n, NEW own \in Annotations
  PROVE  OwnUpTo(own, n)
<1>1. Hints = HintsUpTo(n)
  BY DEF Hints, HintsUpTo, FlatHints
<1> QED
  BY <1>1, MessageAssumption DEF Annotations, OwnUpTo

\* A class that was there keeps its schema, if its name is not registered anew.
LEMMA OldClassStays ==
  ASSUME ClassInv, NEW c \in DOMAIN classes, DOMAIN classes \subseteq DOMAIN classes',
         \A d \in DOMAIN classes : classes'[d] = classes[d],
         "auto" \in DOMAIN classes[c].schema /\ classes[c].schema \in DOMAIN schemas'
         => /\ classes[c].schema \in DOMAIN schemas
            /\ schemas'[classes[c].schema] = schemas[classes[c].schema],
         "auto" \in DOMAIN classes'[c].schema, classes'[c].schema \in DOMAIN schemas'
  PROVE  OwnSchema(c)'
<1>1. PICK own : own = classes[c].own
  OBVIOUS
<1>2. OwnUpTo(own, c - 1) /\ c - 1 \in Nat /\ 1..c - 1 \subseteq DOMAIN classes
  BY <1>1 DEF ClassInv, ClassTypes
<1>3. FieldsOf(own)' = FieldsOf(own)
  BY <1>2, FieldsStay
<1>4. schemas[classes[c].schema] = FieldsOf(own)
  BY <1>1 DEF ClassInv, AutoNamedOwnSchema, OwnSchema
<1>5. FieldsOf(classes[c].own)' = FieldsOf(own)'
  BY <1>1
<1> QED
  BY <1>3, <1>4, <1>5 DEF OwnSchema

\* unregister_schema takes a name away.
LEMMA UnregisterStep ==
  ASSUME ClassInv, NEW n \in SchemaNames, UnregisterSchema(Explicit(n))
  PROVE  ClassInv'
<1>1. ClassTypes'
  BY DEF ClassInv, ClassTypes, UnregisterSchema
<1>2. FreshNames'
  BY DEF ClassInv, FreshNames, UnregisterSchema
<1>3. AutoNamedOwnSchema'
  <2> SUFFICES ASSUME NEW c \in DOMAIN classes',
                      "auto" \in DOMAIN classes'[c].schema,
                      classes'[c].schema \in DOMAIN schemas'
               PROVE  OwnSchema(c)'
    BY DEF AutoNamedOwnSchema
  <2> QED
    BY OldClassStays DEF UnregisterSchema
<1> QED
  BY <1>1, <1>2, <1>3 DEF ClassInv

\* A class statement, whatever __init_subclass__ does with it.
LEMMA DefineStep ==
  ASSUME ClassInv, NEW qualname \in Qualnames, NEW own \in Annotations,
         NEW base \in 0..Len(classes),
         NEW chosen \in {{}} \cup {{n} : n \in SchemaNames},
         DefineClass(qualname, chosen, own, base)
  PROVE  ClassInv'
<1> DEFINE name == IF chosen = {} THEN AutoName(qualname)
                                  ELSE Explicit(CHOOSE n \in chosen : TRUE)
<1>n. PICK new : new = name
  OBVIOUS
<1>c. PICK fields : fields = FieldsOf(own)
  OBVIOUS
<1>S. PICK S : classes \in Seq(S)
  BY DEF ClassInv, ClassTypes
<1>l. PICK n \in Nat : n = Len(classes) /\ DOMAIN classes = 1..n
  BY <1>S
<1>o. OwnUpTo(own, n)
  BY <1>l, AnnotationsAreUpTo
<1>s. \/ schemas' = IF new \in DOMAIN schemas THEN schemas ELSE With(schemas, new, fields)
      \/ UNCHANGED <<schemas, classes>>
  BY <1>n, <1>c DEF DefineClass
<1>k. \/ chosen = {} /\ new = [auto |-> <<qualname, counter>>] /\ counter' = counter + 1
      \/ chosen # {} /\ "auto" \notin DOMAIN new /\ counter' = counter
  BY <1>n DEF DefineClass, AutoName, Explicit
<1>f. chosen = {} => /\ new \notin DOMAIN schemas
                     /\ \A c \in DOMAIN classes : classes[c].schema # new
  BY <1>k DEF ClassInv, ClassTypes, FreshNames
<1>g. CASE UNCHANGED classes
  <2>1. ClassTypes'
    BY <1>g, <1>k DEF ClassInv, ClassTypes
  <2>2. FreshNames'
    <3> SUFFICES ASSUME NEW q \in Qualnames, NEW k \in Nat, k >= counter'
                 PROVE  /\ [auto |-> <<q, k>>] \notin DOMAIN schemas'
                        /\ \A c \in DOMAIN classes : classes[c].schema # [auto |-> <<q, k>>]
      BY <1>g DEF FreshNames
    <3>1. k >= counter /\ [auto |-> <<q, k>>] # new
      BY <1>k DEF ClassInv, ClassTypes
    <3> QED
      BY <3>1, <1>s DEF ClassInv, FreshNames, With
  <2>3. AutoNamedOwnSchema'
    <3> SUFFICES ASSUME NEW c \in DOMAIN classes',
                        "auto" \in DOMAIN classes'[c].schema,
                        classes'[c].schema \in DOMAIN schemas'
                 PROVE  OwnSchema(c)'
      BY DEF AutoNamedOwnSchema
    <3>1. classes[c].schema # new
      BY <1>g, <1>k, <1>f
    <3>2. /\ classes[c].schema \in DOMAIN schemas
          /\ schemas'[classes[c].schema] = schemas[classes[c].schema]
      BY <1>g, <1>s, <3>1 DEF With
    <3> QED
      BY <3>2, <1>g, OldClassStays
  <2> QED
    BY <2>1, <2>2, <2>3 DEF ClassInv
<1>h. CASE ~UNCHANGED classes
  <2>s. schemas' = IF new \in DOMAIN schemas THEN schemas ELSE With(schemas, new, fields)
    BY <1>h, <1>s
  <2>r. PICK r : /\ r.schema = new /\ r.own = own
                 /\ classes' = Append(classes, r)
    BY <1>h, <1>n DEF DefineClass
  <2>a. /\ DOMAIN classes' = 1..n + 1
        /\ DOMAIN classes \subseteq DOMAIN classes'
        /\ \A c \in DOMAIN classes : classes'[c] = classes[c]
        /\ classes'[n + 1] = r
        /\ classes' \in Seq(S \cup {r})
    BY <1>S, <1>l, <2>r
  <2>1. ClassTypes'
    <3>1. ASSUME NEW c \in DOMAIN classes' PROVE OwnUpTo(classes'[c].own, c - 1)
      <4>1. CASE c = n + 1
        BY <4>1, <2>a, <2>r, <1>o
      <4>2. CASE c # n + 1
        BY <4>2, <2>a, <1>l DEF ClassInv, ClassTypes
      <4> QED
        BY <4>1, <4>2
    <3>2. counter' \in Nat
      BY <1>k DEF ClassInv, ClassTypes
    <3>3. \E R : classes' \in Seq(R)
      BY <2>a
    <3> QED
      BY <3>1, <3>2, <3>3 DEF ClassTypes
  <2>2. FreshNames'
    <3> SUFFICES ASSUME NEW q \in Qualnames, NEW k \in Nat, k >= counter'
                 PROVE  /\ [auto |-> <<q, k>>] \notin DOMAIN schemas'
                        /\ \A c \in DOMAIN classes' : classes'[c].schema # [auto |-> <<q, k>>]
      BY DEF FreshNames
    <3>1. k >= counter /\ [auto |-> <<q, k>>] # new
      BY <1>k DEF ClassInv, ClassTypes
    <3>2. [auto |-> <<q, k>>] \notin DOMAIN schemas'
      BY <3>1, <2>s DEF ClassInv, FreshNames, With
    <3>3. ASSUME NEW c \in DOMAIN classes'
          PROVE  classes'[c].schema # [auto |-> <<q, k>>]
      <4>1. c = n + 1 \/ c \in DOMAIN classes
        BY <2>a, <1>l
      <4> QED
        BY <4>1, <3>1, <2>a, <2>r DEF ClassInv, FreshNames
    <3> QED
      BY <3>2, <3>3
  <2>3. AutoNamedOwnSchema'
    <3> SUFFICES ASSUME NEW c \in DOMAIN classes',
                        "auto" \in DOMAIN classes'[c].schema,
                        classes'[c].schema \in DOMAIN schemas'
                 PROVE  OwnSchema(c)'
      BY DEF AutoNamedOwnSchema
    <3>1. CASE c = n + 1
      <4>1. new \notin DOMAIN schemas
        BY <3>1, <2>a, <2>r, <1>k, <1>f
      <4>2. schemas'[new] = fields
        BY <4>1, <2>s DEF With
      <4>3. FieldsOf(own)' = FieldsOf(own)
        BY <1>o, <1>l, <2>a, FieldsStay
      <4>4. FieldsOf(classes[c].own)' = FieldsOf(own)'
        BY <3>1, <2>a, <2>r
      <4> QED
        BY <3>1, <2>a, <2>r, <4>2, <4>3, <4>4, <1>c DEF OwnSchema
    <3>2. CASE c \in DOMAIN classes
      <4>1. classes[c].schema # new
        BY <3>2, <2>a, <1>k, <1>f
      <4>2. /\ classes[c].schema \in DOMAIN schemas
            /\ schemas'[classes[c].schema] = schemas[classes[c].schema]
        BY <3>2, <2>a, <2>s, <4>1 DEF With
      <4> QED
        BY <4>2, <3>2, <2>a, OldClassStays
    <3> QED
      BY <3>1, <3>2, <2>a, <1>l
  <2> QED
    BY <2>1, <2>2, <2>3 DEF ClassInv
<1> QED
  BY <1>g, <1>h

\* Every step keeps the invariant.
LEMMA ClassStep == ClassInv /\ [Next]_vars => ClassInv'
<1> SUFFICES ASSUME ClassInv, [Next]_vars PROVE ClassInv'
  OBVIOUS
<1>1. CASE Next
  BY <1>1, UnregisterStep, DefineStep DEF Next
<1>2. CASE UNCHANGED vars
  <2>1. classes' = classes /\ schemas' = schemas /\ counter' = counter
    BY <1>2 DEF vars
  <2>2. ClassTypes'
    BY <2>1 DEF ClassInv, ClassTypes
  <2>3. FreshNames'
    BY <2>1 DEF ClassInv, FreshNames
  <2>4. \A c : OwnSchema(c)' = OwnSchema(c)
    BY <2>1 DEF OwnSchema, FieldsOf, Resolve, ResolveFlat
  <2>5. AutoNamedOwnSchema'
    BY <2>1, <2>4 DEF ClassInv, AutoNamedOwnSchema
  <2> QED
    BY <2>2, <2>3, <2>5 DEF ClassInv
<1> QED
  BY <1>1, <1>2

\* A class that was given an automatic schema name keeps the schema of its own
\* fields, whatever is defined, redefined, rejected or unregistered under
\* explicit names (message.py, 113-124).
THEOREM AutoNamesAreOwn == Spec => []AutoNamedOwnSchema
<1>1. ClassInv => AutoNamedOwnSchema
  BY DEF ClassInv
<1> QED
  BY <1>1, ClassInit, ClassStep, PTL DEF Spec

\* A class statement that draws a name draws one that no schema has yet.
LEMMA OrphanStep ==
  ASSUME ClassInv, [Next]_vars, NEW n \in DOMAIN schemas, "auto" \in DOMAIN n,
         \A c \in DOMAIN classes : classes[c].schema # n, NEW c \in DOMAIN classes'
  PROVE  classes'[c].schema # n
<1>1. CASE UNCHANGED classes
  BY <1>1
<1>2. CASE ~UNCHANGED classes
  <2>1. PICK qualname \in Qualnames, own \in Annotations, base \in 0..Len(classes),
             chosen \in {{}} \cup {{m} : m \in SchemaNames} :
               DefineClass(qualname, chosen, own, base)
    BY <1>2 DEF Next, UnregisterSchema, vars
  <2>2. PICK name : name = IF chosen = {} THEN AutoName(qualname)
                           ELSE Explicit(CHOOSE m \in chosen : TRUE)
    OBVIOUS
  <2>3. PICK r : r.schema = name /\ classes' = Append(classes, r)
    BY <1>2, <2>1, <2>2 DEF DefineClass
  <2>4. name # n
    <3>1. CASE chosen = {}
      <4>1. name = [auto |-> <<qualname, counter>>] /\ counter \in Nat
        BY <2>2, <3>1 DEF AutoName, ClassInv, ClassTypes
      <4>2. counter >= counter
        BY <4>1
      <4> QED
        BY <4>1, <4>2 DEF ClassInv, FreshNames
    <3>2. CASE chosen # {}
      BY <2>2, <3>2 DEF Explicit
    <3> QED
      BY <3>1, <3>2
  <2>5. PICK S : classes \in Seq(S)
    BY DEF ClassInv, ClassTypes
  <2>6. c = Len(classes) + 1 \/ (c \in DOMAIN classes /\ classes'[c] = classes[c])
    BY <2>3, <2>5
  <2>7. classes'[Len(classes) + 1] = r
    BY <2>3, <2>5
  <2> QED
    BY <2>3, <2>4, <2>6, <2>7
<1> QED
  BY <1>1, <1>2

\* What a rejected class statement registered under an automatic name is never
\* the schema of a class, however often the class is defined again
\* (message.py, 113-124).
THEOREM OrphansAreNeverUsed == Spec => OrphansStayUnused
<1>1. ClassInv /\ [Next]_vars =>
        \A n \in DOMAIN schemas :
          "auto" \in DOMAIN n /\ (\A c \in DOMAIN classes : classes[c].schema # n)
            => \A c \in DOMAIN classes' : classes'[c].schema # n
  BY OrphanStep
<1> QED
  BY <1>1, ClassInit, ClassStep, PTL DEF Spec, OrphansStayUnused

-----------------------------------------------------------------------------
(* Types: classes build on earlier classes only.                           *)

\* Every annotation a class has, its inherited ones too, names earlier classes.
HintTypes ==
  /\ counter \in 0..MaxDefs
  /\ \E S : classes \in Seq(S)
  /\ \A c \in DOMAIN classes :
       /\ classes[c].base \in 0..c - 1
       /\ \A n \in DOMAIN classes[c].hints : classes[c].hints[n] \in HintsUpTo(c - 1)

\* What a class may name, the classes after it may name too.
LEMMA HintsGrow ==
  ASSUME NEW m \in Nat, NEW n \in Nat, m <= n
  PROVE  HintsUpTo(m) \subseteq HintsUpTo(n)
<1>1. FlatHints(m) \subseteq FlatHints(n)
  BY DEF FlatHints
<1> QED
  BY <1>1 DEF HintsUpTo

\* A name the class annotates itself has the type of one of its annotations.
LEMMA OwnHint ==
  ASSUME NEW own, NEW base, NEW f, \E i \in DOMAIN own : own[i].name = f
  PROVE  \E i \in DOMAIN own : HintsOf(own, base)[f] = own[i].hint
<1> DEFINE mine == {own[i].name : i \in DOMAIN own}
           first == CHOOSE i \in DOMAIN own : own[i].name = f
<1>1. f \in mine
  OBVIOUS
<1>2. first \in DOMAIN own
  OBVIOUS
<1>3. HintsOf(own, base)[f] = own[first].hint
  BY <1>1 DEF HintsOf
<1> QED
  BY <1>2, <1>3

\* Every step keeps the types.
LEMMA HintTypesStep == HintTypes /\ [Next]_vars => HintTypes'
<1> SUFFICES ASSUME HintTypes, [Next]_vars PROVE HintTypes'
  OBVIOUS
<1>1. ASSUME NEW qualname \in Qualnames, NEW own \in Annotations,
             NEW base \in 0..Len(classes),
             NEW chosen \in {{}} \cup {{n} : n \in SchemaNames},
             DefineClass(qualname, chosen, own, base)
      PROVE  HintTypes'
  <2>S. PICK S : classes \in Seq(S)
    BY DEF HintTypes
  <2>l. PICK n \in Nat : n = Len(classes) /\ DOMAIN classes = 1..n
    BY <2>S
  <2>k. counter' \in 0..MaxDefs
    BY <1>1, MessageAssumption DEF DefineClass, HintTypes
  <2>1. CASE UNCHANGED classes
    BY <2>1, <2>k DEF HintTypes
  <2>2. CASE ~UNCHANGED classes
    <3>r. PICK r : /\ r.base = base /\ r.hints = HintsOf(own, base)
                   /\ classes' = Append(classes, r)
      BY <1>1, <2>2 DEF DefineClass
    <3>a. /\ DOMAIN classes' = 1..n + 1
          /\ \A c \in DOMAIN classes : classes'[c] = classes[c]
          /\ classes'[n + 1] = r
          /\ classes' \in Seq(S \cup {r})
      BY <2>S, <2>l, <3>r
    <3>h. \A f \in DOMAIN r.hints : r.hints[f] \in HintsUpTo(n)
      <4>1. \A i \in DOMAIN own : own[i].hint \in HintsUpTo(n)
        BY <2>l, AnnotationsAreUpTo DEF OwnUpTo
      <4>2. base # 0 => \A f \in DOMAIN classes[base].hints :
                          classes[base].hints[f] \in HintsUpTo(n)
        BY <2>l, HintsGrow DEF HintTypes
      <4> SUFFICES ASSUME NEW f \in DOMAIN r.hints PROVE r.hints[f] \in HintsUpTo(n)
        OBVIOUS
      <4>3. CASE \E i \in DOMAIN own : own[i].name = f
        <5>1. PICK i \in DOMAIN own : HintsOf(own, base)[f] = own[i].hint
          BY <4>3, OwnHint
        <5> QED
          BY <3>r, <4>1, <5>1
      <4>4. CASE ~ \E i \in DOMAIN own : own[i].name = f
        <5>1. base # 0 /\ f \in DOMAIN classes[base].hints
          BY <3>r, <4>4 DEF HintsOf
        <5>2. r.hints[f] = classes[base].hints[f]
          BY <3>r, <4>4, <5>1 DEF HintsOf
        <5> QED
          BY <4>2, <5>1, <5>2
      <4> QED
        BY <4>3, <4>4
    <3>1. ASSUME NEW c \in DOMAIN classes'
          PROVE  /\ classes'[c].base \in 0..c - 1
                 /\ \A f \in DOMAIN classes'[c].hints :
                      classes'[c].hints[f] \in HintsUpTo(c - 1)
      <4>1. CASE c = n + 1
        BY <4>1, <3>a, <3>r, <3>h, <2>l
      <4>2. CASE c # n + 1
        BY <4>2, <3>a, <2>l DEF HintTypes
      <4> QED
        BY <4>1, <4>2
    <3>2. \E R : classes' \in Seq(R)
      BY <3>a
    <3> QED
      BY <2>k, <3>1, <3>2 DEF HintTypes
  <2> QED
    BY <2>1, <2>2
<1>2. ASSUME NEW n \in SchemaNames, UnregisterSchema(Explicit(n)) PROVE HintTypes'
  BY <1>2 DEF UnregisterSchema, HintTypes
<1>3. CASE UNCHANGED vars
  BY <1>3 DEF vars, HintTypes
<1> QED
  BY <1>1, <1>2, <1>3 DEF Next

-----------------------------------------------------------------------------
(* The recursive functions of the classes are what their definitions say.  *)

FromStart(x, y, z) == [h \in Hints |-> [v \in Values |-> TooDeep]]
FromStep(x, y, z, from, d) ==
  [h \in Hints |-> [v \in Values |-> FromWireValue(from, v, h)]]
FromR == INSTANCE Recursion WITH Start <- FromStart, Step <- FromStep

\* With one more nested call a value is made by FromWireValue.
LEMMA FromDef ==
  \A d \in Nat : FromWire[d + 1] =
    [h \in Hints |-> [v \in Values |-> FromWireValue(FromWire[d], v, h)]]
<1>1. FromWire = FromR!Run(0, 0, 0)
  BY DEF FromWire, FromR!Run, FromStart, FromStep
<1>2. \A d \in Nat : FromWire[d + 1] = FromStep(0, 0, 0, FromWire[d], d + 1)
  BY <1>1, FromR!Unfold, Zenon
<1> QED
  BY <1>2, Zenon DEF FromStep

FitStart(x, y, z) == [h \in Hints |-> {}]
FitStep(x, y, z, fit, d) == [h \in Hints |-> FitsHint(fit, h)]
FitR == INSTANCE Recursion WITH Start <- FitStart, Step <- FitStep

\* The values of one more level fit by FitsHint.
LEMMA FitsDef ==
  /\ Fits[0] = [h \in Hints |-> {}]
  /\ \A d \in Nat : Fits[d + 1] = [h \in Hints |-> FitsHint(Fits[d], h)]
<1>1. Fits = FitR!Run(0, 0, 0)
  BY DEF Fits, FitR!Run, FitStart, FitStep
<1>2. /\ Fits[0] = FitStart(0, 0, 0)
      /\ \A d \in Nat : Fits[d + 1] = FitStep(0, 0, 0, Fits[d], d + 1)
  BY <1>1, FitR!Unfold, Zenon
<1> QED
  BY <1>2, Zenon DEF FitStart, FitStep

\* What fits an annotation fits it by FitsHint, one level below.
LEMMA FitsIs ==
  ASSUME NEW d \in Nat, NEW h \in Hints, NEW v \in Fits[d][h]
  PROVE  d # 0 /\ d - 1 \in Nat /\ v \in FitsHint(Fits[d - 1], h)
<1>1. d # 0
  BY FitsDef
<1>2. d - 1 \in Nat /\ (d - 1) + 1 = d
  BY <1>1
<1>3. Fits[d][h] = FitsHint(Fits[d - 1], h)
  <2>1. Fits[(d - 1) + 1] = [g \in Hints |-> FitsHint(Fits[d - 1], g)]
    BY <1>2, FitsDef, Zenon
  <2>2. Fits[(d - 1) + 1][h] = FitsHint(Fits[d - 1], h)
    BY <2>1, Zenon
  <2> QED
    BY <1>2, <2>2
<1> QED
  BY <1>1, <1>2, <1>3

-----------------------------------------------------------------------------
(* What the parts of a message do together.                                *)

\* Parts that can be written can be written one after the other.
LEMMA PackedOk ==
  ASSUME NEW parts, Len(parts) \in Nat, \A i \in 1..Len(parts) : ~Failed(parts[i])
  PROVE  ~Failed(Packed(parts))
<1> DEFINE S == {n \in Nat : n <= Len(parts) => ~Failed(Pack(parts)[n])}
<1>1. 0 \in S
  BY PackDef, Results
<1>2. ASSUME NEW n \in S PROVE n + 1 \in S
  <2>1. SUFFICES ASSUME n + 1 <= Len(parts) PROVE ~Failed(Pack(parts)[n + 1])
    OBVIOUS
  <2>2. n + 1 \in 1..Len(parts) /\ ~Failed(Pack(parts)[n]) /\ ~Failed(parts[n + 1])
    BY <2>1
  <2>3. ~Failed(Joined(Pack(parts)[n], parts[n + 1]))
    BY <2>2, Results DEF Joined
  <2> QED
    BY <2>3, PackDef
<1>3. S = Nat
  <2> HIDE DEF S
  <2> QED
    BY <1>1, <1>2, PackR!Induction DEF S
<1>4. ~Failed(Pack(parts)[Len(parts)])
  <2>1. Len(parts) \in S
    BY <1>3
  <2> QED
    BY <2>1
<1>5. Packed(parts) = Pack(parts)[Len(parts)]
  BY PackDef, Zenon
<1> QED
  BY <1>4, <1>5

\* Results that are all there are collected.
LEMMA CollectedOk ==
  ASSUME NEW rs, NEW f, \A k \in DOMAIN rs : rs[k] = Done(f[k])
  PROVE  Collected(rs) = Done([k \in DOMAIN rs |-> f[k]])
<1>1. \A k \in DOMAIN rs : ~Failed(rs[k]) /\ rs[k].ok = f[k]
  BY Results
<1> QED
  BY <1>1 DEF Collected

-----------------------------------------------------------------------------
(* What the classes and the registry always are.                           *)

\* A class's own annotations are among its annotations.
OwnHints(c) ==
  \A i \in DOMAIN classes[c].own :
    /\ classes[c].own[i].name \in DOMAIN classes[c].hints
    /\ classes[c].hints[classes[c].own[i].name] = classes[c].own[i].hint

WireTypes ==
  /\ \A c \in DOMAIN classes : classes[c].schema \in StructNames /\ OwnHints(c)
  /\ SchemasOK(schemas)

WireInv == ClassInv /\ HintTypes /\ WireTypes

\* The annotations of the classes there are.
LEMMA HintsAre ==
  ASSUME NEW n \in Nat, DOMAIN classes = 1..n
  PROVE  Hints = HintsUpTo(n)
BY DEF Hints, HintsUpTo, FlatHints

\* The four forms of an annotation.
LEMMA HintCases ==
  ASSUME NEW n, NEW h \in HintsUpTo(n)
  PROVE  \/ \E t \in Scalars : h = Scalar(t)
         \/ \E t \in Scalars : h = ListHint(Scalar(t))
         \/ \E e \in 1..n : h = MessageHint(e)
         \/ \E e \in 1..n : h = ListHint(MessageHint(e))
BY DEF HintsUpTo, FlatHints

\* What the annotations resolve to.
LEMMA ResolveIs ==
  /\ \A t : Resolve(Scalar(t)) = t
  /\ \A t : Resolve(ListHint(Scalar(t))) = Array(1, t)
  /\ \A e : Resolve(MessageHint(e)) = Struct(classes[e].schema)
  /\ \A e : Resolve(ListHint(MessageHint(e))) = Array(1, Struct(classes[e].schema))
BY DEF Resolve, ResolveFlat, Scalar, ListHint, MessageHint

\* Annotations resolve to types of the codec.
LEMMA ResolveIsType ==
  ASSUME NEW n, NEW h \in HintsUpTo(n), \A e \in 1..n : classes[e].schema \in StructNames
  PROVE  Resolve(h) \in Types
<1>1. \A t \in Scalars : t \in ElementTypes
  BY WireAssumption
<1>2. \A e \in 1..n : Struct(classes[e].schema) \in ElementTypes
  BY DEF Struct, ElementTypes
<1>3. \A t \in ElementTypes : t \in Types /\ Array(1, t) \in Types
  BY DEF Types, Array
<1> HIDE DEF ElementTypes, Types, Array, Struct
<1> QED
  BY <1>1, <1>2, <1>3, HintCases, ResolveIs

\* The fields of a class body can be registered.
LEMMA FieldsAreOK ==
  ASSUME NEW n, NEW own, OwnUpTo(own, n), \A e \in 1..n : classes[e].schema \in StructNames
  PROVE  FieldsOK(FieldsOf(own))
<1>1. PICK k \in Nat : own \in [1..k -> [name : FieldNames, hint : HintsUpTo(n)]]
  BY DEF OwnUpTo
<1>2. Len(FieldsOf(own)) = k
  BY <1>1 DEF FieldsOf
<1>3. ASSUME NEW i \in 1..k PROVE FieldsOf(own)[i].type \in Types
  <2>1. FieldsOf(own)[i].type = Resolve(own[i].hint) /\ own[i].hint \in HintsUpTo(n)
    BY <1>1 DEF FieldsOf, Field
  <2> QED
    BY <2>1, ResolveIsType
<1> QED
  BY <1>2, <1>3 DEF FieldsOK

\* Before the first class statement.
LEMMA WireInit == Init => WireInv
<1> SUFFICES ASSUME Init PROVE WireInv
  OBVIOUS
<1>1. classes \in Seq({}) /\ DOMAIN classes = {} /\ counter \in 0..MaxDefs
  BY MessageAssumption DEF Init
<1>2. DOMAIN schemas = {}
  BY DEF Init
<1>3. ClassInv
  BY ClassInit
<1> QED
  BY <1>1, <1>2, <1>3 DEF WireInv, HintTypes, WireTypes, SchemasOK

\* Every step keeps what the classes and the registry are.
LEMMA WireStep == WireInv /\ [Next]_vars => WireInv'
<1> SUFFICES ASSUME WireInv, [Next]_vars PROVE WireInv'
  OBVIOUS
<1>1. ClassInv' /\ HintTypes'
  BY ClassStep, HintTypesStep DEF WireInv
<1>2. ASSUME NEW qualname \in Qualnames, NEW own \in Annotations,
             NEW base \in 0..Len(classes),
             NEW chosen \in {{}} \cup {{n} : n \in SchemaNames},
             DefineClass(qualname, chosen, own, base)
      PROVE  WireTypes'
  <2>S. PICK S : classes \in Seq(S)
    BY DEF WireInv, ClassInv, ClassTypes
  <2>l. PICK n \in Nat : n = Len(classes) /\ DOMAIN classes = 1..n
    BY <2>S
  <2>o. OwnUpTo(own, n) /\ FieldsOK(FieldsOf(own))
    BY <2>l, AnnotationsAreUpTo, FieldsAreOK DEF WireInv, WireTypes
  <2>c. PICK fields : fields = FieldsOf(own)
    OBVIOUS
  <2>n. PICK new \in StructNames :
          /\ \/ schemas' = IF new \in DOMAIN schemas THEN schemas ELSE With(schemas, new, fields)
             \/ UNCHANGED schemas
          /\ \/ UNCHANGED classes
             \/ classes' = Append(classes, [schema |-> new, own |-> own,
                                            hints |-> HintsOf(own, base), base |-> base])
    <3>1. AutoName(qualname) \in StructNames
      BY WireAssumption DEF AutoName, WireInv, HintTypes
    <3>2. chosen # {} => Explicit(CHOOSE m \in chosen : TRUE) \in StructNames
      BY WireAssumption
    <3> QED
      BY <3>1, <3>2, <2>c, <1>2 DEF DefineClass
  <2>1. SchemasOK(schemas)'
    <3>1. \A m \in DOMAIN schemas' :
            (m \in DOMAIN schemas /\ schemas'[m] = schemas[m]) \/ schemas'[m] = fields
      BY <2>n DEF With
    <3> QED
      BY <3>1, <2>o, <2>c DEF SchemasOK, WireInv, WireTypes, FieldsOK
  <2>2. ASSUME NEW c \in DOMAIN classes'
        PROVE  classes'[c].schema \in StructNames /\ OwnHints(c)'
    <3>1. CASE c \in DOMAIN classes /\ classes'[c] = classes[c]
      BY <3>1 DEF WireInv, WireTypes, OwnHints
    <3>2. CASE ~(c \in DOMAIN classes /\ classes'[c] = classes[c])
      <4>1. classes'[c].schema = new /\ classes'[c].own = own
            /\ classes'[c].hints = HintsOf(own, base)
        BY <3>2, <2>S, <2>l, <2>n
      <4>2. ASSUME NEW i \in DOMAIN own
            PROVE  /\ own[i].name \in DOMAIN HintsOf(own, base)
                   /\ HintsOf(own, base)[own[i].name] = own[i].hint
        <5>1. \A j \in DOMAIN own : own[j].name = own[i].name => j = i
          BY DEF Annotations
        <5>2. (CHOOSE j \in DOMAIN own : own[j].name = own[i].name) = i
          BY <5>1
        <5> QED
          BY <5>2 DEF HintsOf
      <4> QED
        BY <4>1, <4>2 DEF OwnHints
    <3> QED
      BY <3>1, <3>2
  <2> QED
    BY <2>1, <2>2 DEF WireTypes
<1>3. ASSUME NEW n \in SchemaNames, UnregisterSchema(Explicit(n)) PROVE WireTypes'
  BY <1>3 DEF UnregisterSchema, WireInv, WireTypes, SchemasOK, OwnHints
<1>4. ASSUME UNCHANGED vars PROVE WireTypes'
  BY <1>4 DEF vars, WireInv, WireTypes, SchemasOK, OwnHints
<1> QED
  BY <1>1, <1>2, <1>3, <1>4 DEF WireInv, Next

-----------------------------------------------------------------------------
(* Values on their way through the codec and back.                         *)

\* The codec takes w for the annotation and gives it back, and v is made of it.
Good(d, h, v, w) ==
  /\ w \in Values
  /\ ~Failed(Write(schemas)[d][Resolve(h)][w])
  /\ Meaning(schemas)[d][Resolve(h)][w] = w
  /\ FromWire[d][h][w] = Done(v)

\* A value is good if it is with the nested ones one level below.
LEMMA GoodAtLevel ==
  ASSUME NEW d \in Nat, NEW h \in Hints, Resolve(h) \in Types, NEW w \in Values, NEW v,
         ~Failed(WriteValue(schemas, Write(schemas)[d], Resolve(h), w)),
         MeaningOfValue(schemas, Meaning(schemas)[d], Resolve(h), w) = w,
         FromWireValue(FromWire[d], w, h) = Done(v)
  PROVE  Good(d + 1, h, v, w)
<1>1. /\ Write(schemas)[d + 1][Resolve(h)][w] = WriteValue(schemas, Write(schemas)[d], Resolve(h), w)
      /\ Meaning(schemas)[d + 1][Resolve(h)][w]
           = MeaningOfValue(schemas, Meaning(schemas)[d], Resolve(h), w)
  BY OneWrite, OneMeaning, Zenon
<1>2. FromWire[d + 1][h][w] = FromWireValue(FromWire[d], w, h)
  <2> DEFINE from == FromWire[d]
  <2>1. FromWire[d + 1] = [g \in Hints |-> [x \in Values |-> FromWireValue(from, x, g)]]
    BY FromDef
  <2> HIDE DEF from
  <2>2. FromWire[d + 1][h][w] = FromWireValue(from, w, h)
    BY <2>1
  <2> QED
    BY <2>2 DEF from
<1> QED
  BY <1>1, <1>2, Zenon DEF Good

\* What programs put into scalar fields has neither parts nor instances.
LEMMA SampleShape ==
  ASSUME NEW t \in Scalars, NEW v \in Samples[t]
  PROVE  /\ v \in PlainFields /\ v \in Values
         /\ ~Is(v, "object") /\ ~Is(v, "list") /\ ~Is(v, "dict")
         /\ Kept(t, v)
<1>1. v \in PlainFields /\ v \in Values /\ WellFormed(v)
  <2>1. v \in PlainFields
    BY DEF PlainFields
  <2>2. v \in WireValues
    BY <2>1 DEF WireValues
  <2> QED
    BY <2>1, <2>2, WireAssumption
<1>2. Kept(t, v)
  BY WireAssumption
<1>3. t.kind \in {"bool", "int", "float", "string", "bytes"}
  BY WireAssumption
<1>4. Is(v, "bool") \/ Is(v, "int") \/ Is(v, "float") \/ Is(v, "str") \/ Is(v, "bytes")
  <2>1. Failed(Mismatch)
    BY Results DEF Mismatch
  <2>2. ~Failed(WriteValue(<<>>, <<>>, t, v))
    BY <1>2 DEF Kept
  <2> QED
    BY <1>3, <2>1, <2>2 DEF WriteValue, IsInteger, IsNumber
<1>5. DOMAIN v \in {{"bool"}, {"int"}, {"float"}, {"str"}, {"bytes"}}
  BY <1>1, <1>4 DEF WellFormed, PyBool, PyInt, PyFloat, PyStr, PyBytes
<1> QED
  BY <1>1, <1>2, <1>5 DEF Is

\* A sample is good at every depth.
LEMMA ScalarGood ==
  ASSUME WireInv, NEW t \in Scalars, Scalar(t) \in Hints, NEW v \in Samples[t], NEW d \in Nat
  PROVE  Good(d + 1, Scalar(t), v, v)
<1>1. Resolve(Scalar(t)) = t /\ t \in Types
  BY WireAssumption, ResolveIs DEF Types
<1>2. t.kind \in {"bool", "int", "float", "string", "bytes"} /\ Kept(t, v) /\ v \in Values
  BY WireAssumption, SampleShape
<1>3. WriteValue(schemas, Write(schemas)[d], t, v) = WriteValue(<<>>, <<>>, t, v)
  BY <1>2 DEF WriteValue
<1>4. MeaningOfValue(schemas, Meaning(schemas)[d], t, v) = MeaningOfValue(<<>>, <<>>, t, v)
  BY <1>2, SMTT(30) DEF MeaningOfValue
<1>5. FromWireValue(FromWire[d], v, Scalar(t)) = Done(v)
  BY DEF FromWireValue, Scalar
<1>6. /\ ~Failed(WriteValue(schemas, Write(schemas)[d], t, v))
      /\ MeaningOfValue(schemas, Meaning(schemas)[d], t, v) = v
  BY <1>2, <1>3, <1>4, Zenon DEF Kept
<1> QED
  BY <1>1, <1>2, <1>5, <1>6, GoodAtLevel, Zenon

\* A list is good if its items are, one level below.
LEMMA ListGood ==
  ASSUME WireInv, NEW h, ListHint(h) \in Hints, Resolve(ListHint(h)) = Array(1, Resolve(h)),
         Resolve(ListHint(h)) \in Types, "message" \notin DOMAIN ListHint(h),
         NEW n \in Nat, NEW S, NEW items \in [1..n -> S],
         NEW ws \in [1..n -> Values], PyList(ws) \in Values,
         NEW d \in Nat, \A i \in 1..n : Good(d, h, items[i], ws[i])
  PROVE  Good(d + 1, ListHint(h), PyList(items), PyList(ws))
<1> DEFINE T == Resolve(ListHint(h))  t == Resolve(h)
           write == Write(schemas)[d]  means == Meaning(schemas)[d]  from == FromWire[d]
<1>1. T.kind = "array" /\ ItemType(T) = t
  BY DEF Array, ItemType
<1>2. /\ \A i \in 1..n : ~Failed(write[t][ws[i]])
      /\ \A i \in 1..n : means[t][ws[i]] = ws[i]
      /\ \A i \in 1..n : from[h][ws[i]] = Done(items[i])
  BY DEF Good
<1>3. Is(PyList(ws), "list") /\ PyList(ws).list = ws /\ Len(ws) = n
  BY DEF Is, PyList
<1> HIDE DEF T, t, write, means, from
<1>4. ~Failed(WriteValue(schemas, write, T, PyList(ws)))
  <2> DEFINE parts == [i \in 1..n |-> write[t][ws[i]]]
  <2>1. Len(parts) = n /\ \A i \in 1..n : ~Failed(parts[i])
    BY <1>2
  <2>2. WriteValue(schemas, write, T, PyList(ws))
          = Joined(Done(ToBytes(Len(ws), 4)), Packed(parts))
    BY <1>1, <1>3 DEF WriteValue, WriteItems
  <2> HIDE DEF parts
  <2>3. ~Failed(Packed(parts))
    BY <2>1, PackedOk
  <2> QED
    BY <2>2, <2>3, Results DEF Joined
<1>5. MeaningOfValue(schemas, means, T, PyList(ws)) = PyList(ws)
  <2>1. MeaningOfValue(schemas, means, T, PyList(ws)) = PyList([i \in 1..n |-> means[t][ws[i]]])
    BY <1>1, <1>3 DEF MeaningOfValue
  <2>2. [i \in 1..n |-> means[t][ws[i]]] = [i \in 1..n |-> ws[i]]
    BY <1>2
  <2> QED
    BY <2>1, <2>2
<1>6. FromWireValue(from, PyList(ws), ListHint(h)) = Done(PyList(items))
  <2> DEFINE rs == [i \in DOMAIN ws |-> from[h][ws[i]]]
  <2>1. Collected(rs) = Done(items)
    <3>1. DOMAIN rs = 1..n /\ \A i \in 1..n : rs[i] = Done(items[i])
      BY <1>2
    <3> HIDE DEF rs
    <3>2. \A i \in DOMAIN rs : rs[i] = Done(items[i])
      BY <3>1
    <3>3. Collected(rs) = Done([i \in DOMAIN rs |-> items[i]])
      BY <3>2, CollectedOk, Zenon
    <3> QED
      BY <3>1, <3>3
  <2>2. FromWireValue(from, PyList(ws), ListHint(h))
          = IF Failed(Collected(rs)) THEN Collected(rs) ELSE Done(PyList(Collected(rs).ok))
    BY <1>3 DEF FromWireValue, ListHint
  <2> QED
    BY <2>1, <2>2, Results
<1> QED
  BY <1>4, <1>5, <1>6, GoodAtLevel DEF T, write, means, from

\* The names of the first k fields.
NamesOf(fields, k) == {fields[i].name : i \in 1..k}

\* One more field adds one more name.
LEMMA OneMoreName ==
  ASSUME NEW fields, NEW n \in Nat
  PROVE  NamesOf(fields, n + 1) = NamesOf(fields, n) \cup {fields[n + 1].name}
<1>1. 1..n + 1 = 1..n \cup {n + 1}
  OBVIOUS
<1> QED
  BY <1>1, Zenon DEF NamesOf

\* A dictionary of fields that each mean themselves means itself.
LEMMA SameFields ==
  ASSUME NEW fields, NEW k \in Nat, NEW means, NEW ws
  PROVE  /\ ws \in [NamesOf(fields, k) -> Values]
         /\ Len(fields) = k
         /\ \A i \in 1..k : means[fields[i].type][ws[fields[i].name]] = ws[fields[i].name]
         => MeaningOfFields(means, fields, ws) = ws
<1> DEFINE m == FieldsMeant(means, fields, ws)
           N == {n \in Nat : n <= k => m[n] = [f \in NamesOf(fields, n) |-> ws[f]]}
<1>0. MeaningOfFields(means, fields, ws) = m[Len(fields)] /\ m[0] = <<>>
  BY MeaningOfFieldsDef
<1>1. ASSUME NEW n \in Nat
      PROVE  m[n + 1] = With(m[n], fields[n + 1].name,
                             means[fields[n + 1].type][ws[fields[n + 1].name]])
  BY OneFieldMeant
<1> HIDE DEF m
<1> SUFFICES ASSUME ws \in [NamesOf(fields, k) -> Values],
                    Len(fields) = k,
                    \A i \in 1..k :
                      means[fields[i].type][ws[fields[i].name]] = ws[fields[i].name]
             PROVE  MeaningOfFields(means, fields, ws) = ws
  OBVIOUS
<1>2. 0 \in N
  <2>1. NamesOf(fields, 0) = {}
    BY DEF NamesOf
  <2>2. [f \in NamesOf(fields, 0) |-> ws[f]] = <<>>
    BY <2>1
  <2> QED
    BY <1>0, <2>2
<1>3. ASSUME NEW n \in N PROVE n + 1 \in N
  <2>1. SUFFICES ASSUME n + 1 <= k PROVE m[n + 1] = [f \in NamesOf(fields, n + 1) |-> ws[f]]
    OBVIOUS
  <2>2. n \in Nat /\ n + 1 \in 1..k /\ m[n] = [f \in NamesOf(fields, n) |-> ws[f]]
    BY <2>1
  <2>3. m[n + 1] = With(m[n], fields[n + 1].name, ws[fields[n + 1].name])
    BY <1>1, <2>2
  <2>4. NamesOf(fields, n + 1) = NamesOf(fields, n) \cup {fields[n + 1].name}
    BY <2>2, OneMoreName
  <2> QED
    BY <2>2, <2>3, <2>4 DEF With
<1>4. N = Nat
  <2> HIDE DEF N
  <2> QED
    BY <1>2, <1>3, PackR!Induction DEF N
<1>5. m[k] = [f \in NamesOf(fields, k) |-> ws[f]]
  <2>1. k \in N
    BY <1>4
  <2> QED
    BY <2>1
<1> QED
  BY <1>0, <1>5

\* Good fields are written, and are what they mean.
LEMMA FieldsGood ==
  ASSUME WireInv, NEW own, NEW k \in Nat, DOMAIN own = 1..k,
         NEW hints, \A i \in 1..k : hints[own[i].name] = own[i].hint,
         NEW ws \in [NamesOf(own, k) -> Values],
         NEW attrs, NEW d \in Nat, \A n \in NamesOf(own, k) : Good(d, hints[n], attrs[n], ws[n])
  PROVE  /\ ~Failed(WriteFields(Write(schemas)[d], FieldsOf(own), ws))
         /\ MeaningOfFields(Meaning(schemas)[d], FieldsOf(own), ws) = ws
<1> DEFINE write == Write(schemas)[d]  means == Meaning(schemas)[d]  fields == FieldsOf(own)
<1>1. Len(fields) = k
  BY SMTT(30) DEF FieldsOf
<1>2. ASSUME NEW i \in 1..k
      PROVE  /\ fields[i].name = own[i].name /\ fields[i].name \in DOMAIN ws
             /\ ~Failed(write[fields[i].type][ws[fields[i].name]])
             /\ means[fields[i].type][ws[fields[i].name]] = ws[fields[i].name]
  <2>1. fields[i].name = own[i].name /\ fields[i].type = Resolve(own[i].hint)
    BY DEF FieldsOf, Field
  <2>2. own[i].name \in NamesOf(own, k) /\ hints[own[i].name] = own[i].hint
    BY DEF NamesOf
  <2>3. Good(d, own[i].hint, attrs[own[i].name], ws[own[i].name])
    BY <2>2
  <2> QED
    BY <2>1, <2>2, <2>3 DEF Good
<1> HIDE DEF write, means, fields
<1>3. ~Failed(WriteFields(write, fields, ws))
  <2> DEFINE parts == [i \in 1..Len(fields) |->
                         IF fields[i].name \in DOMAIN ws
                         THEN write[fields[i].type][ws[fields[i].name]]
                         ELSE Fail("missing field")]
  <2>1. Len(parts) = k /\ \A i \in 1..k : ~Failed(parts[i])
    <3>1. ASSUME NEW i \in 1..k
          PROVE  parts[i] = write[fields[i].type][ws[fields[i].name]]
      BY <1>1, <1>2
    <3>2. Len(parts) = k
      BY <1>1
    <3> HIDE DEF parts
    <3> QED
      BY <1>2, <3>1, <3>2
  <2>2. WriteFields(write, fields, ws) = Packed(parts)
    BY DEF WriteFields
  <2> HIDE DEF parts
  <2>3. Len(parts) \in Nat /\ \A i \in 1..Len(parts) : ~Failed(parts[i])
    BY <2>1
  <2>4. ~Failed(Packed(parts))
    BY <2>3, PackedOk
  <2> QED
    BY <2>2, <2>4
<1>4. MeaningOfFields(means, fields, ws) = ws
  <2>1. \A i \in 1..k : fields[i].name = own[i].name
    BY <1>2
  <2>2. NamesOf(own, k) = NamesOf(fields, k)
    BY <2>1 DEF NamesOf
  <2>3. ws \in [NamesOf(fields, k) -> Values]
    BY <2>2
  <2>4. \A i \in 1..k : means[fields[i].type][ws[fields[i].name]] = ws[fields[i].name]
    BY <1>2
  <2> QED
    BY <1>1, <2>3, <2>4, SameFields
<1> QED
  BY <1>3, <1>4 DEF write, means, fields

\* The annotations there may be, and that they resolve to types of the codec.
LEMMA AllHints ==
  ASSUME WireInv
  PROVE  /\ \A h \in Hints : Resolve(h) \in Types
         /\ \A t \in Scalars : Scalar(t) \in Hints /\ ListHint(Scalar(t)) \in Hints
         /\ \A e \in DOMAIN classes : MessageHint(e) \in Hints /\ ListHint(MessageHint(e)) \in Hints
<1>1. PICK n \in Nat : DOMAIN classes = 1..n
  BY DEF WireInv, ClassInv, ClassTypes
<1>2. \A h \in Hints : Resolve(h) \in Types
  <2>1. \A e \in 1..n : classes[e].schema \in StructNames
    BY <1>1 DEF WireInv, WireTypes
  <2> QED
    BY <1>1, <2>1, HintsAre, ResolveIsType
<1> QED
  BY <1>2 DEF Hints

\* The form of an annotation of a class.
LEMMA ClassHint ==
  ASSUME WireInv, NEW c \in DOMAIN classes, NEW n \in DOMAIN classes[c].hints
  PROVE  LET h == classes[c].hints[n]
         IN  /\ h \in Hints
             /\ \/ \E t \in Scalars : h = Scalar(t) \/ h = ListHint(Scalar(t))
                \/ \E e \in Uses(c) : h = MessageHint(e) \/ h = ListHint(MessageHint(e))
<1> DEFINE h == classes[c].hints[n]
<1>1. h \in HintsUpTo(c - 1) /\ c \in Nat /\ 1..c - 1 \subseteq DOMAIN classes
  BY DEF WireInv, ClassInv, ClassTypes, HintTypes
<1>2. \/ \E t \in Scalars : h = Scalar(t) \/ h = ListHint(Scalar(t))
      \/ \E e \in 1..c - 1 : h = MessageHint(e) \/ h = ListHint(MessageHint(e))
  BY <1>1, HintCases
<1>3. \A e \in 1..c - 1 :
        h = MessageHint(e) \/ h = ListHint(MessageHint(e)) => e \in Uses(c)
  BY <1>1 DEF Uses
<1>4. h \in Hints
  BY <1>1, <1>2, AllHints
<1> QED
  BY <1>2, <1>3, <1>4

\* The fields of a class body.
LEMMA OwnFields ==
  ASSUME WireInv, NEW c \in DOMAIN classes
  PROVE  \E k \in Nat :
           /\ DOMAIN classes[c].own = 1..k
           /\ FieldNamesOf(c) = NamesOf(classes[c].own, k)
           /\ FieldNamesOf(c) \subseteq FieldNames
           /\ \A i \in 1..k : classes[c].hints[classes[c].own[i].name] = classes[c].own[i].hint
<1>1. PICK k \in Nat : classes[c].own \in [1..k -> [name : FieldNames, hint : HintsUpTo(c - 1)]]
  BY DEF WireInv, ClassInv, ClassTypes, OwnUpTo
<1>2. OwnHints(c)
  BY DEF WireInv, WireTypes
<1>3. DOMAIN classes[c].own = 1..k /\ \A i \in 1..k : classes[c].own[i].name \in FieldNames
  BY <1>1
<1>4. FieldNamesOf(c) = NamesOf(classes[c].own, k)
  BY <1>3, Zenon DEF FieldNamesOf, NamesOf
<1>5. \A i \in 1..k : classes[c].hints[classes[c].own[i].name] = classes[c].own[i].hint
  BY <1>2, <1>3, Zenon DEF OwnHints
<1>6. FieldNamesOf(c) \subseteq FieldNames
  BY <1>3, <1>4 DEF NamesOf
<1> QED
  BY <1>3, <1>4, <1>5, <1>6, Zenon

\* An instance is good if its fields are, one level below.
LEMMA MessageGood ==
  ASSUME WireInv, NEW e \in DOMAIN classes, Plain(e),
         NEW ws \in [FieldNamesOf(e) -> Values], PyDict(ws) \in Values,
         NEW S, NEW attrs \in [FieldNamesOf(e) -> S],
         NEW d \in Nat, \A n \in FieldNamesOf(e) : Good(d, classes[e].hints[n], attrs[n], ws[n])
  PROVE  Good(d + 1, MessageHint(e), Instance(e, attrs), PyDict(ws))
<1> DEFINE T == Struct(classes[e].schema)  own == classes[e].own  hints == classes[e].hints
           write == Write(schemas)[d]  means == Meaning(schemas)[d]  from == FromWire[d]
<1>1. /\ classes[e].schema \in DOMAIN schemas
      /\ schemas[classes[e].schema] = FieldsOf(own)
      /\ DOMAIN hints = FieldNamesOf(e)
  BY DEF Plain, OwnSchema
<1>2. MessageHint(e) \in Hints /\ Resolve(MessageHint(e)) = T /\ T \in Types
  BY AllHints, ResolveIs
<1>3. T.kind = "struct" /\ T.name = classes[e].schema
  BY DEF Struct
<1>4. Is(PyDict(ws), "dict") /\ PyDict(ws).dict = ws
  BY DEF Is, PyDict
<1>5. /\ ~Failed(WriteFields(write, FieldsOf(own), ws))
      /\ MeaningOfFields(means, FieldsOf(own), ws) = ws
  <2>1. PICK k \in Nat : /\ DOMAIN own = 1..k
                         /\ FieldNamesOf(e) = NamesOf(own, k)
                         /\ \A i \in 1..k : hints[own[i].name] = own[i].hint
    BY OwnFields
  <2>2. ws \in [NamesOf(own, k) -> Values]
    BY <2>1, Zenon
  <2>3. \A n \in NamesOf(own, k) : Good(d, hints[n], attrs[n], ws[n])
    BY <2>1, Zenon
  <2> HIDE DEF own, hints
  <2> QED
    BY <2>1, <2>2, <2>3, FieldsGood
<1>6. \A n \in FieldNamesOf(e) : from[hints[n]][ws[n]] = Done(attrs[n])
  BY DEF Good
<1> HIDE DEF T, own, hints, write, means, from
<1>7. ~Failed(WriteValue(schemas, write, T, PyDict(ws)))
  <2>1. WriteValue(schemas, write, T, PyDict(ws)) = WriteFields(write, FieldsOf(own), ws)
    BY <1>1, <1>3, <1>4 DEF WriteValue
  <2> QED
    BY <1>5, <2>1
<1>8. MeaningOfValue(schemas, means, T, PyDict(ws)) = PyDict(ws)
  <2>1. MeaningOfValue(schemas, means, T, PyDict(ws))
          = PyDict(MeaningOfFields(means, FieldsOf(own), ws))
    BY <1>1, <1>3, <1>4 DEF MeaningOfValue
  <2> QED
    BY <1>5, <2>1
<1>9. FromWireValue(from, PyDict(ws), MessageHint(e)) = Done(Instance(e, attrs))
  <2> DEFINE rs == [k \in DOMAIN ws |-> IF k \in DOMAIN hints THEN from[hints[k]][ws[k]]
                                        ELSE Fail("KeyError")]
  <2>1. Collected(rs) = Done(attrs)
    <3>1. DOMAIN rs = DOMAIN attrs
      OBVIOUS
    <3>2. \A k \in DOMAIN rs : rs[k] = Done(attrs[k])
      BY <1>1, <1>6
    <3> HIDE DEF rs
    <3>3. Collected(rs) = Done([k \in DOMAIN rs |-> attrs[k]])
      BY <3>2, CollectedOk, Zenon
    <3> QED
      BY <3>1, <3>3
  <2>2. FromWireValue(from, PyDict(ws), MessageHint(e))
          = IF Failed(Collected(rs)) THEN Collected(rs) ELSE Construct(e, Collected(rs).ok)
    BY <1>4 DEF FromWireValue, MessageHint, hints
  <2>3. Construct(e, attrs) = Done(Instance(e, attrs))
    BY <1>1 DEF Construct, hints
  <2> QED
    BY <2>1, <2>2, <2>3, Results
<1> QED
  BY <1>2, <1>7, <1>8, <1>9, GoodAtLevel DEF write, means, from

-----------------------------------------------------------------------------
(* What fits an annotation comes back.                                     *)

\* The fields of an instance that fit.
LEMMA AttributesFit ==
  ASSUME NEW fit, NEW c, NEW attrs \in Attributes(fit, c)
  PROVE  /\ \E S : attrs \in [DOMAIN classes[c].hints -> S]
         /\ \A n \in DOMAIN classes[c].hints : attrs[n] \in fit[classes[c].hints[n]]
BY DEF Attributes

\* What fits in a list.
LEMMA ListFits ==
  ASSUME NEW S, NEW v \in ListsOf(S)
  PROVE  \E n \in 0..MaxItems : \E items \in [1..n -> S] : v = PyList(items)
BY DEF ListsOf

\* A list as a value.
LEMMA ListShape ==
  ASSUME NEW items
  PROVE  /\ PyList(items).list = items
         /\ Is(PyList(items), "list") /\ ~Is(PyList(items), "object")
BY DEF PyList, Is

\* A field that holds no instance goes through as it is.
LEMMA PlainGood ==
  ASSUME WireInv, NEW t \in Scalars, NEW h \in {Scalar(t), ListHint(Scalar(t))},
         NEW k \in Nat, NEW v \in Fits[k][h], NEW d \in Nat
  PROVE  v \in PlainFields /\ ToWire(v) = v /\ Good(d + 2, h, v, v)
<1>h. h \in Hints /\ Scalar(t) \in Hints /\ ListHint(Scalar(t)) \in Hints
  BY AllHints
<1>f. k # 0 /\ k - 1 \in Nat /\ v \in FitsHint(Fits[k - 1], h)
  BY <1>h, FitsIs
<1>1. CASE h = Scalar(t)
  <2>1. v \in Samples[t]
    BY <1>f, <1>1 DEF FitsHint, Scalar
  <2>2. v \in PlainFields /\ ~Is(v, "object") /\ ~Is(v, "list")
    BY <2>1, SampleShape
  <2>3. ToWire(v) = v
    BY <2>2 DEF ToWire, ItemToWire
  <2>4. d + 1 \in Nat /\ (d + 1) + 1 = d + 2
    OBVIOUS
  <2>5. Good((d + 1) + 1, Scalar(t), v, v)
    BY <1>h, <2>1, <2>4, ScalarGood
  <2> QED
    BY <1>1, <2>2, <2>3, <2>4, <2>5
<1>2. CASE h = ListHint(Scalar(t))
  <2>1. v \in ListsOf(Fits[k - 1][Scalar(t)])
    BY <1>f, <1>2 DEF FitsHint, ListHint
  <2>n. PICK n \in 0..MaxItems : \E items \in [1..n -> Fits[k - 1][Scalar(t)]] : v = PyList(items)
    BY <2>1, ListFits
  <2>2. PICK items \in [1..n -> Fits[k - 1][Scalar(t)]] : v = PyList(items)
    BY <2>n
  <2>3. \A i \in 1..n : items[i] \in Samples[t]
    <3>1. ASSUME NEW x \in Fits[k - 1][Scalar(t)] PROVE x \in Samples[t]
      <4>1. x \in FitsHint(Fits[(k - 1) - 1], Scalar(t))
        BY <1>h, <1>f, FitsIs
      <4> QED
        BY <4>1 DEF FitsHint, Scalar
    <3> QED
      BY <2>2, <3>1
  <2>4. n \in Nat /\ DOMAIN items = 1..n
    BY <2>2, WireAssumption
  <2>5. v \in PlainFields /\ v \in Values
    <3>1. items \in [1..n -> UNION {Samples[u] : u \in Scalars}]
      BY <2>2, <2>3
    <3>2. v \in ListsOf(UNION {Samples[u] : u \in Scalars})
      BY <2>2, <3>1 DEF ListsOf
    <3>3. v \in PlainFields
      BY <3>2 DEF PlainFields
    <3> QED
      BY <3>3, WireAssumption DEF WireValues
  <2>6. ToWire(v) = v
    <3>1. \A i \in 1..n : ItemToWire(items[i]) = items[i]
      BY <2>3, SampleShape DEF ItemToWire
    <3>2. ToWire(v) = PyList([i \in 1..n |-> ItemToWire(items[i])])
      BY <2>2, <2>4, ListShape DEF ToWire
    <3>3. [i \in 1..n |-> ItemToWire(items[i])] = items
      BY <2>2, <3>1
    <3> QED
      BY <2>2, <3>2, <3>3
  <2>7. /\ Resolve(ListHint(Scalar(t))) = Array(1, Resolve(Scalar(t)))
        /\ Resolve(ListHint(Scalar(t))) \in Types
        /\ "message" \notin DOMAIN ListHint(Scalar(t))
    BY <1>h, AllHints, ResolveIs DEF ListHint
  <2>8. \A i \in 1..n : Good(d + 1, Scalar(t), items[i], items[i])
    BY <1>h, <2>3, ScalarGood
  <2>9. items \in [1..n -> Values]
    BY <2>2, <2>3, SampleShape
  <2>10. d + 1 \in Nat /\ (d + 1) + 1 = d + 2
    OBVIOUS
  <2>11. Good((d + 1) + 1, ListHint(Scalar(t)), PyList(items), PyList(items))
    BY <1>h, <2>2, <2>4, <2>5, <2>7, <2>8, <2>9, <2>10, ListGood
  <2> QED
    BY <1>2, <2>2, <2>5, <2>6, <2>10, <2>11
<1> QED
  BY <1>1, <1>2

\* An instance without nested ones comes back.
LEMMA NestedGood ==
  ASSUME WireInv, NEW e \in DOMAIN classes, Plain(e), Uses(e) = {},
         NEW k \in Nat, NEW v \in Fits[k][MessageHint(e)], NEW d \in Nat
  PROVE  /\ ~Is(v, "list") /\ ItemToWire(v) \in PlainDicts
         /\ Good(d + 3, MessageHint(e), v, ItemToWire(v))
<1>h. MessageHint(e) \in Hints
  BY AllHints
<1>f. k # 0 /\ k - 1 \in Nat /\ v \in FitsHint(Fits[k - 1], MessageHint(e))
  BY <1>h, FitsIs
<1>1. PICK attrs \in Attributes(Fits[k - 1], e) : v = Instance(e, attrs)
  BY <1>f DEF FitsHint, MessageHint
<1> DEFINE hints == classes[e].hints  names == FieldNamesOf(e)
<1>2. DOMAIN hints = names
  BY DEF Plain
<1>3. PICK S : attrs \in [names -> S]
  BY <1>1, <1>2, AttributesFit
<1>4. ASSUME NEW n \in names
      PROVE  attrs[n] \in PlainFields /\ Good(d + 2, hints[n], attrs[n], attrs[n])
  <2>1. PICK t \in Scalars : hints[n] \in {Scalar(t), ListHint(Scalar(t))}
    BY <1>2, ClassHint
  <2>2. attrs[n] \in Fits[k - 1][hints[n]]
    BY <1>1, <1>2, AttributesFit
  <2> QED
    BY <1>f, <2>1, <2>2, PlainGood
<1>5. ItemToWire(v) = PyDict(attrs)
  <2>1. ItemToWire(v) = PyDict([n \in names |-> attrs[n]])
    BY <1>1 DEF ItemToWire, ToDict, Instance, Is
  <2> QED
    BY <1>3, <2>1
<1>6. ~Is(v, "list")
  BY <1>1 DEF Instance, Is
<1>7. PyDict(attrs) \in PlainDicts /\ PyDict(attrs) \in Values
  <2>1. names \in SUBSET FieldNames
    BY OwnFields
  <2>2. attrs \in [names -> PlainFields]
    BY <1>3, <1>4
  <2>3. PyDict(attrs) \in PlainDicts
    BY <2>1, <2>2 DEF PlainDicts
  <2> QED
    BY <2>3, WireAssumption DEF WireValues
<1>8. attrs \in [names -> Values]
  <2>1. PlainFields \subseteq Values
    BY WireAssumption DEF WireValues
  <2> QED
    BY <1>3, <1>4, <2>1
<1>9. d + 2 \in Nat /\ (d + 2) + 1 = d + 3
  OBVIOUS
<1>10. Good((d + 2) + 1, MessageHint(e), Instance(e, attrs), PyDict(attrs))
  BY <1>3, <1>4, <1>7, <1>8, <1>9, MessageGood
<1> QED
  BY <1>1, <1>5, <1>6, <1>7, <1>9, <1>10

\* A list of such instances comes back.
LEMMA NestedListGood ==
  ASSUME WireInv, NEW e \in DOMAIN classes, Plain(e), Uses(e) = {},
         NEW k \in Nat, NEW v \in Fits[k][ListHint(MessageHint(e))], NEW d \in Nat
  PROVE  ToWire(v) \in Values /\ Good(d + 4, ListHint(MessageHint(e)), v, ToWire(v))
<1> DEFINE h == MessageHint(e)
<1>h. h \in Hints /\ ListHint(h) \in Hints
  BY AllHints
<1>f. k # 0 /\ k - 1 \in Nat /\ v \in FitsHint(Fits[k - 1], ListHint(h))
  BY <1>h, FitsIs
<1>1. v \in ListsOf(Fits[k - 1][h])
  BY <1>f DEF FitsHint, ListHint
<1>n. PICK n \in 0..MaxItems : \E items \in [1..n -> Fits[k - 1][h]] : v = PyList(items)
  BY <1>1, ListFits
<1>2. PICK items \in [1..n -> Fits[k - 1][h]] : v = PyList(items)
  BY <1>n
<1> DEFINE ws == [i \in 1..n |-> ItemToWire(items[i])]
<1>3. ASSUME NEW i \in 1..n
      PROVE  ws[i] \in PlainDicts /\ Good(d + 3, h, items[i], ws[i])
  BY <1>2, <1>f, NestedGood
<1>4. n \in Nat /\ DOMAIN items = 1..n
  BY <1>2, WireAssumption
<1>5. ToWire(v) = PyList(ws)
  BY <1>2, <1>4, ListShape DEF ToWire
<1>6. ws \in [1..n -> PlainDicts]
  BY <1>3
<1>7. PyList(ws) \in Values
  <2>1. PyList(ws) \in ListsOf(PlainDicts)
    BY <1>6 DEF ListsOf
  <2> QED
    BY <2>1, WireAssumption DEF WireValues
<1>8. ws \in [1..n -> Values]
  <2> HIDE DEF ws
  <2>1. \A i \in 1..n : ws[i] \in Values
    BY <1>3 DEF Good
  <2> QED
    BY <1>6, <2>1
<1>9. /\ Resolve(ListHint(h)) = Array(1, Resolve(h)) /\ Resolve(ListHint(h)) \in Types
      /\ "message" \notin DOMAIN ListHint(h)
  BY <1>h, AllHints, ResolveIs DEF ListHint
<1>10. d + 3 \in Nat /\ (d + 3) + 1 = d + 4
  OBVIOUS
<1>11. Good((d + 3) + 1, ListHint(h), PyList(items), PyList(ws))
  <2> HIDE DEF ws, h
  <2> QED
    BY <1>h, <1>2, <1>3, <1>4, <1>7, <1>8, <1>9, <1>10, ListGood
<1> QED
  BY <1>2, <1>5, <1>7, <1>10, <1>11

\* Whatever fits a field comes back, if the codec may nest that deep.
LEMMA FieldGood ==
  ASSUME WireInv, NEW c \in DOMAIN classes, NEW n \in DOMAIN classes[c].hints,
         \A e \in Uses(c) : Plain(e) /\ Uses(e) = {},
         NEW k \in Nat, NEW v \in Fits[k][classes[c].hints[n]]
  PROVE  ToWire(v) \in Values /\ Good(MaxDepth, classes[c].hints[n], v, ToWire(v))
<1> DEFINE h == classes[c].hints[n]
<1>1. /\ MaxDepth - 2 \in Nat /\ (MaxDepth - 2) + 2 = MaxDepth
      /\ MaxDepth - 3 \in Nat /\ (MaxDepth - 3) + 3 = MaxDepth
      /\ MaxDepth - 4 \in Nat /\ (MaxDepth - 4) + 4 = MaxDepth
  BY WireAssumption, CodecAssumption
<1>2. CASE \E t \in Scalars : h = Scalar(t) \/ h = ListHint(Scalar(t))
  <2>1. PICK t \in Scalars : h \in {Scalar(t), ListHint(Scalar(t))}
    BY <1>2
  <2>2. v \in PlainFields /\ ToWire(v) = v /\ Good((MaxDepth - 2) + 2, h, v, v)
    BY <1>1, <2>1, PlainGood
  <2>3. PlainFields \subseteq Values
    BY WireAssumption DEF WireValues
  <2> QED
    BY <1>1, <2>2, <2>3
<1>3. CASE \E e \in Uses(c) : h = MessageHint(e)
  <2>1. PICK e \in Uses(c) : h = MessageHint(e)
    BY <1>3
  <2>2. e \in DOMAIN classes /\ Plain(e) /\ Uses(e) = {}
    BY <2>1 DEF Uses
  <2>3. /\ ~Is(v, "list") /\ ItemToWire(v) \in PlainDicts
        /\ Good((MaxDepth - 3) + 3, h, v, ItemToWire(v))
    BY <1>1, <2>1, <2>2, NestedGood
  <2>4. ToWire(v) = ItemToWire(v)
    BY <2>3 DEF ToWire
  <2> QED
    BY <1>1, <2>3, <2>4 DEF Good
<1>4. CASE \E e \in Uses(c) : h = ListHint(MessageHint(e))
  <2>1. PICK e \in Uses(c) : h = ListHint(MessageHint(e))
    BY <1>4
  <2>2. e \in DOMAIN classes /\ Plain(e) /\ Uses(e) = {}
    BY <2>1 DEF Uses
  <2>3. ToWire(v) \in Values /\ Good((MaxDepth - 4) + 4, h, v, ToWire(v))
    BY <1>1, <2>1, <2>2, NestedListGood
  <2> QED
    BY <1>1, <2>3
<1> QED
  BY <1>2, <1>3, <1>4, ClassHint

\* In every state the invariant allows, what is published arrives.
LEMMA WireInvGivesRoundTrip == WireInv => RoundTrip
<1> SUFFICES ASSUME WireInv, NEW c \in DOMAIN classes, NEW d \in DOMAIN classes,
                    IsSubclass(d, c), classes[d].own = classes[c].own,
                    \A e \in {c, d} \cup Uses(c) : Plain(e),
                    \A e \in Uses(c) : Uses(e) = {},
                    NEW attrs \in AttributesOf(d)
             PROVE  LET sent == Publish(c, Instance(d, attrs).object)
                    IN  /\ ~Failed(sent)
                        /\ OnRaw(c, sent.ok) = Done(Instance(c, attrs))
  BY DEF RoundTrip
<1> DEFINE own == classes[c].own  hints == classes[c].hints  names == FieldNamesOf(c)
           sc == classes[c].schema  sd == classes[d].schema
           dict == [n \in names |-> ToWire(attrs[n])]
           sent == Serialize(schemas, sd, dict)
<1>1. /\ sc \in DOMAIN schemas /\ sd \in DOMAIN schemas
      /\ schemas[sc] = FieldsOf(own) /\ schemas[sd] = FieldsOf(own)
      /\ DOMAIN hints = names /\ DOMAIN classes[d].hints = names
      /\ FieldNamesOf(d) = names
  BY DEF Plain, OwnSchema, FieldNamesOf
<1>2. Publish(c, Instance(d, attrs).object) = sent
  BY <1>1 DEF Publish, MessageToBytes, Instance
<1>k. PICK k \in Nat : /\ DOMAIN own = 1..k /\ names = NamesOf(own, k)
                       /\ \A i \in 1..k : hints[own[i].name] = own[i].hint
  BY OwnFields
<1>3. \A n \in names : classes[d].hints[n] = hints[n]
  <2>1. \A i \in DOMAIN own : classes[d].hints[own[i].name] = own[i].hint
                              /\ hints[own[i].name] = own[i].hint
    BY DEF WireInv, WireTypes, OwnHints
  <2> QED
    BY <2>1 DEF FieldNamesOf
<1>4. PICK S : attrs \in [names -> S]
  BY <1>1, AttributesFit DEF AttributesOf
<1>5. ASSUME NEW n \in names
      PROVE  dict[n] \in Values /\ Good(MaxDepth, hints[n], attrs[n], dict[n])
  <2>1. attrs[n] \in Fits[MaxDepth][hints[n]]
    BY <1>1, <1>3, AttributesFit DEF AttributesOf
  <2> QED
    BY <1>1, <2>1, FieldGood, CodecAssumption
<1>6. dict \in [names -> Values]
  BY <1>5
<1> HIDE DEF own, hints, names, sc, sd, dict, sent
<1>7. /\ ~Failed(WriteFields(Write(schemas)[MaxDepth], FieldsOf(own), dict))
      /\ MeaningOfFields(Meaning(schemas)[MaxDepth], FieldsOf(own), dict) = dict
  <2>1. dict \in [NamesOf(own, k) -> Values] /\ MaxDepth \in Nat
    BY <1>6, <1>k, CodecAssumption
  <2>2. \A n \in NamesOf(own, k) : Good(MaxDepth, hints[n], attrs[n], dict[n])
    BY <1>5, <1>k, SMTT(30)
  <2> QED
    BY <1>k, <2>1, <2>2, FieldsGood, SMTT(30)
<1>8. ~Failed(sent)
  BY <1>1, <1>7, Results DEF sent, Serialize, Joined
<1>9. Deserialize(schemas, sc, sent.ok) = Done(dict)
  <2>1. Layout(schemas, sd) = Layout(schemas, sc)
    BY <1>1 DEF Layout, LayoutOfSchema
  <2>2. MeaningOf(schemas, sd, dict) = dict
    BY <1>1, <1>7 DEF MeaningOf
  <2>3. SchemasOK(schemas) /\ \A v \in Values : WellFormed(v)
    BY WireAssumption DEF WireInv, WireTypes
  <2>4. \A n \in DOMAIN dict : dict[n] \in Values
    BY <1>6
  <2>5. Deserialize(schemas, sc, Serialize(schemas, sd, dict).ok) = Done(MeaningOf(schemas, sd, dict))
    BY <1>8, <2>1, <2>3, <2>4, SerializedIsRead DEF sent
  <2> QED
    BY <2>2, <2>5 DEF sent
<1>10. OnRaw(c, sent.ok) = Done(Instance(c, attrs))
  <2> DEFINE raw == Deserialize(schemas, sc, sent.ok)
             rs == [n \in names |-> IF n \in DOMAIN raw.ok
                                    THEN FromWire[MaxDepth][hints[n]][raw.ok[n]]
                                    ELSE Fail("KeyError")]
  <2>1. ~Failed(raw) /\ raw.ok = dict
    BY <1>9, Results
  <2>2. Collected(rs) = Done(attrs)
    <3>1. \A n \in DOMAIN rs : rs[n] = Done(attrs[n])
      BY <1>5, <1>6, <2>1 DEF Good
    <3>2. DOMAIN rs = names
      OBVIOUS
    <3> HIDE DEF rs
    <3>3. Collected(rs) = Done([n \in DOMAIN rs |-> attrs[n]])
      BY <3>1, CollectedOk, Zenon
    <3> QED
      BY <1>4, <3>2, <3>3
  <2>3. OnRaw(c, sent.ok)
          = IF Failed(raw) THEN raw
            ELSE IF Failed(Collected(rs)) THEN Collected(rs) ELSE Construct(c, Collected(rs).ok)
    BY DEF OnRaw, MessageFromBytes, names, hints, sc
  <2>4. Construct(c, attrs) = Done(Instance(c, attrs))
    BY <1>1, <1>4 DEF Construct, hints
  <2> HIDE DEF raw, rs
  <2> QED
    BY <2>1, <2>2, <2>3, <2>4, Results
<1> QED
  BY <1>2, <1>8, <1>10

\* An instance published through the topic of its class, or of a base whose
\* fields it repeats, arrives with equal fields, for all classes, samples and
\* sizes of the codec's numbers (topic.py, publish and subscribe; message.py,
\* to_bytes and from_bytes).
THEOREM RoundTripHolds == Spec => []RoundTrip
BY WireInit, WireStep, WireInvGivesRoundTrip, PTL DEF Spec
====
