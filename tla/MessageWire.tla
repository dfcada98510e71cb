---------------------------- MODULE MessageWire ----------------------------
(***************************************************************************)
(* Instances of the message classes and their way through a topic:         *)
(* to_bytes and from_bytes (message.py) over the codec, and the typed      *)
(* publish and subscribe of Topic (topic.py), within one process.          *)
(***************************************************************************)
EXTENDS MessageClass, Codec

CONSTANTS
  Samples,   \* values that programs put into fields of each scalar annotation
  MaxItems   \* bound: items of a list in a field

Instance(c, attrs) == [object |-> [class |-> c, attrs |-> attrs]]

ListsOf(S) == {PyList(items) : items \in UNION {[1..n -> S] : n \in 0..MaxItems}}

\* Fields of instances that hold no instance, and what they are on the wire.
PlainFields ==
  LET scalars == UNION {Samples[t] : t \in Scalars} IN scalars \cup ListsOf(scalars)

PlainDicts == {PyDict(f) : f \in UNION {[names -> PlainFields] : names \in SUBSET FieldNames}}

WireValues == PlainFields \cup PlainDicts \cup ListsOf(PlainDicts)

\* A value that the codec takes for the type and gives back: not a float that
\* a float32 would round, nor a True for an integer.
Kept(t, v) ==
  /\ ~Failed(WriteValue(<<>>, <<>>, t, v))
  /\ MeaningOfValue(<<>>, <<>>, t, v) = v

\* The annotations of _DEFAULT_TYPE_MAP, and numbers of another width.
ASSUME WireAssumption ==
  /\ Scalars \subseteq {t \in ElementTypes : t.kind \in {"bool", "int", "float", "string", "bytes"}}
  /\ \A t \in Scalars : \A v \in Samples[t] : Kept(t, v)
  /\ MaxItems \in Nat /\ MaxItems < Pow[4]
  /\ MaxDepth >= 4
  /\ WireValues \subseteq Values
  /\ \A v \in Values : WellFormed(v)
  /\ \A n \in SchemaNames : Explicit(n) \in StructNames
  /\ \A q \in Qualnames, k \in 0..MaxDefs : [auto |-> <<q, k>>] \in StructNames

-----------------------------------------------------------------------------

FieldNamesOf(c) == {classes[c].own[i].name : i \in DOMAIN classes[c].own}

\* The keyword arguments must be the fields of the dataclass, inherited ones
\* included.
Construct(c, kwargs) ==
  IF DOMAIN kwargs = DOMAIN classes[c].hints THEN Done(Instance(c, kwargs))
  ELSE Fail("TypeError")

\* A function of results as the result of a function.
Collected(rs) ==
  IF \E k \in DOMAIN rs : Failed(rs[k])
  THEN rs[CHOOSE k \in DOMAIN rs : Failed(rs[k])]
  ELSE Done([k \in DOMAIN rs |-> rs[k].ok])

\* The fields as they are: a nested instance inside stays an instance.
ToDict(m) == [n \in FieldNamesOf(m.class) |-> m.attrs[n]]

\* An item of a list is not a list itself, as there is no annotation for it.
ItemToWire(v) == IF Is(v, "object") THEN PyDict(ToDict(v.object)) ELSE v

ToWire(v) ==
  IF Is(v, "list") THEN PyList([i \in DOMAIN v.list |-> ItemToWire(v.list[i])])
  ELSE ItemToWire(v)

MessageToBytes(m) ==
  Serialize(schemas, classes[m.class].schema,
            [n \in FieldNamesOf(m.class) |-> ToWire(m.attrs[n])])

\* Mutant: a nested dict is left as it is.
LeaveDict(from, v, h) == Done(v)

\* The value v for the annotation h; `from' is for what is nested in it.
FromWireValue(from, v, h) ==
  CASE "message" \in DOMAIN h /\ Is(v, "dict") ->
         LET hints  == classes[h.message].hints
             kwargs == Collected([k \in DOMAIN v.dict |->
                                    IF k \in DOMAIN hints THEN from[hints[k]][v.dict[k]]
                                    ELSE Fail("KeyError")])
         IN  IF Failed(kwargs) THEN kwargs ELSE Construct(h.message, kwargs.ok)
    [] "list" \in DOMAIN h /\ Is(v, "list") ->
         LET items == Collected([i \in DOMAIN v.list |-> from[h.list][v.list[i]]])
         IN  IF Failed(items) THEN items ELSE Done(PyList(items.ok))
    [] OTHER -> Done(v)

FromWire ==
  LET from[d \in Nat] ==
        IF d = 0 THEN [h \in Hints |-> [v \in Values |-> TooDeep]]
        ELSE [h \in Hints |-> [v \in Values |-> FromWireValue(from[d - 1], v, h)]]
  IN  from

MessageFromBytes(c, bytes) ==
  LET raw    == Deserialize(schemas, classes[c].schema, bytes)
      kwargs == Collected([n \in FieldNamesOf(c) |->
                  IF n \in DOMAIN raw.ok
                  THEN FromWire[MaxDepth][classes[c].hints[n]][raw.ok[n]]
                  ELSE Fail("KeyError")])
  IN  IF Failed(raw) THEN raw
      ELSE IF Failed(kwargs) THEN kwargs ELSE Construct(c, kwargs.ok)

-----------------------------------------------------------------------------
(* Topic[c]: publish takes instances of c and of its subclasses, the        *)
(* subscriber makes instances of c.                                        *)

\* Whoever has d and, with a class, its base, has c.
IsSubclass(d, c) ==
  \A S \in SUBSET (DOMAIN classes) :
    d \in S /\ (\A e \in S : classes[e].base # 0 => classes[e].base \in S) => c \in S

Publish(c, m) ==
  IF IsSubclass(m.class, c) THEN MessageToBytes(m) ELSE Fail("TypeError")

OnRaw(c, bytes) == MessageFromBytes(c, bytes)

-----------------------------------------------------------------------------
(* Properties.                                                             *)

\* The fields an instance of c may have, if `fit' says which values fit the
\* annotations.
Attributes(fit, c) ==
  LET hints == classes[c].hints
  IN  {attrs \in [DOMAIN hints -> UNION {fit[hints[n]] : n \in DOMAIN hints}] :
         \A n \in DOMAIN hints : attrs[n] \in fit[hints[n]]}

FitsHint(fit, h) ==
  CASE "scalar" \in DOMAIN h  -> Samples[h.scalar]
    [] "list" \in DOMAIN h    -> ListsOf(fit[h.list])
    [] "message" \in DOMAIN h -> {Instance(h.message, attrs) : attrs \in Attributes(fit, h.message)}

\* The values that fit each annotation, of a limited depth.
Fits ==
  LET fit[d \in Nat] ==
        IF d = 0 THEN [h \in Hints |-> {}]
        ELSE [h \in Hints |-> FitsHint(fit[d - 1], h)]
  IN  fit

\* The ways to fill the fields of an instance.
AttributesOf(c) == Attributes(Fits[MaxDepth], c)

\* No annotation is inherited, and the schema is that of the class.
Plain(c) == OwnSchema(c) /\ DOMAIN classes[c].hints = FieldNamesOf(c)

\* An instance published through the topic of its class, or of a base whose
\* fields it repeats, arrives as an instance of the topic's class with equal
\* fields, if the classes involved have their own schemas, inherit no field
\* and nest one level (topic.py, publish and subscribe; message.py, to_bytes
\* and from_bytes).
RoundTrip ==
  \A c, d \in DOMAIN classes :
    /\ IsSubclass(d, c)
    /\ classes[d].own = classes[c].own
    /\ \A e \in {c, d} \cup Uses(c) : Plain(e)
    /\ \A e \in Uses(c) : Uses(e) = {}
    => \A attrs \in AttributesOf(d) :
         LET sent == Publish(c, Instance(d, attrs).object)
         IN  /\ ~Failed(sent)
             /\ OnRaw(c, sent.ok) = Done(Instance(c, attrs))

\* "Nesting works -- a Message can contain another Message" (message.py, 18).
NestingWorks ==
  \A c \in DOMAIN classes :
    (\A d \in DOMAIN classes : Plain(d)) =>
      \A attrs \in AttributesOf(c) : ~Failed(MessageToBytes(Instance(c, attrs).object))
=============================================================================
