-------------------------------- MODULE Codec --------------------------------
(***************************************************************************)
(* ReachPy Binary v1, the wire format of reachpy-messages (lib.rs): a      *)
(* format tag, then every field at its natural width, without padding.     *)
(*                                                                         *)
(* A byte has Base values (256 in the code): widths, length prefixes and   *)
(* their overflow are those of the code, on smaller numbers.               *)
(* `schemas' maps the registered names to their sequences of fields.  The  *)
(* recursive functions of the code are functions of the calls that may     *)
(* still be nested.                                                        *)
(***************************************************************************)
EXTENDS Integers, Sequences, FieldTypes

CONSTANTS
  Base,         \* the number of values of a byte
  Utf8,         \* external: the UTF-8 bytes of each text that has them
  StructNames,  \* the names a struct type may refer to
  Values,       \* the Python values of the program
  MaxDepth      \* bound: nested calls of the codec that the stack allows

Byte == 0..Base - 1

ASSUME CodecAssumption ==
  /\ Base \in Nat /\ Base >= 2 /\ Base % 2 = 0
  /\ MaxDepth \in Nat
  /\ \A text \in DOMAIN Utf8 : Utf8[text] \in Seq(Byte)
  /\ \A text, other \in DOMAIN Utf8 : Utf8[text] = Utf8[other] => text = other

-----------------------------------------------------------------------------
(* The types the codec meets.                                              *)

ElementTypes ==
  {Bool, Text, Blob, Time, Duration, Flt(4), Flt(8)} \cup
  [kind : {"int"}, width : {1, 2, 4, 8}, signed : BOOLEAN] \cup
  [kind : {"struct"}, name : StructNames]

Types == ElementTypes \cup [kind : {"array"}, rank : Nat \ {0}, of : ElementTypes]

\* What an array holds.
ItemType(t) == IF t.rank = 1 THEN t.of ELSE Array(t.rank - 1, t.of)

TimeFields == <<Field("sec", SInt(4)), Field("nanosec", UInt(4))>>

-----------------------------------------------------------------------------
(* Results.  A reader also says where it stopped.                          *)

Fail(why)  == [error |-> why]
Failed(r)  == "error" \in DOMAIN r
Done(x)    == [ok |-> x]
Got(x, at) == [ok |-> x, next |-> at]

(* Python values, as records with one field that names their class.  The   *)
(* floats are numbers of 8 bytes, of which a float32 keeps the upper half. *)

PyBool(b)  == [bool |-> b]
PyInt(n)   == [int |-> n]
PyFloat(n) == [float |-> n]
PyStr(s)   == [str |-> s]
PyBytes(b) == [bytes |-> b]
PyList(vs) == [list |-> vs]
PyDict(f)  == [dict |-> f]

Is(v, class) == class \in DOMAIN v

\* bool is a subclass of int, and a float field takes either.
IsInteger(v) == Is(v, "int") \/ Is(v, "bool")
Integer(v)   == IF Is(v, "bool") THEN v.bool ELSE v.int
IsNumber(v)  == IsInteger(v) \/ Is(v, "float")
NumberOf(v)  == IF Is(v, "float") THEN v.float ELSE Integer(v)

-----------------------------------------------------------------------------
(* Numbers and text as bytes.                                              *)

Pow[n \in Nat] == IF n = 0 THEN 1 ELSE Base * Pow[n - 1]

\* Little-endian, two's complement.
ToBytes(n, width) ==
  LET left[i \in Nat] == IF i = 0 THEN n ELSE left[i - 1] \div Base
  IN  [i \in 1..width |-> left[i - 1] % Base]

FromBytes(bytes) ==
  LET sum[i \in Nat] == IF i = 0 THEN 0 ELSE sum[i - 1] + bytes[i] * Pow[i - 1]
  IN  sum[Len(bytes)]

InRange(n, t) ==
  IF t.signed THEN -Pow[t.width] <= 2 * n /\ 2 * n < Pow[t.width]
              ELSE 0 <= n /\ n < Pow[t.width]

\* Mutant: every integer is read as unsigned.
Unsigned(n, t) == n

Signed(n, t) == IF t.signed /\ ~InRange(n, t) THEN n - Pow[t.width] ELSE n

\* What is left of a number in a float of that width.
Lost(width)       == Pow[8 - width]
Rounded(n, width) == (n \div Lost(width)) * Lost(width)

\* A string with lone surrogates has no UTF-8 form.
Encodable(text) == text \in DOMAIN Utf8
TextsOf(bytes)  == {text \in DOMAIN Utf8 : Utf8[text] = bytes}

\* A u32 in front; a longer length is cut to 32 bits.
Sized(bytes) == ToBytes(Len(bytes), 4) \o bytes

\* The values programs have: less than 2^32 bytes in a text and items in a list.
WellFormed(v) ==
  /\ Is(v, "bool")  => v = PyBool(v.bool) /\ v.bool \in {0, 1}
  /\ Is(v, "int")   => v = PyInt(v.int) /\ v.int \in Int
  /\ Is(v, "float") => v = PyFloat(v.float) /\ v.float \in Int
  /\ Is(v, "str")   => v = PyStr(v.str) /\ (Encodable(v.str) => Len(Utf8[v.str]) < Pow[4])
  /\ Is(v, "bytes") => v = PyBytes(v.bytes) /\ v.bytes \in Seq(Byte) /\ Len(v.bytes) < Pow[4]
  /\ Is(v, "list")  => v = PyList(v.list) /\ v.list \in Seq(Values) /\ Len(v.list) < Pow[4]
  /\ Is(v, "dict")  => v = PyDict(v.dict) /\ \A k \in DOMAIN v.dict : v.dict[k] \in Values

-----------------------------------------------------------------------------
(* Encoding.                                                               *)

Mismatch == Fail("type mismatch")
TooDeep  == Fail("stack overflow")

Joined(r, s) ==
  IF Failed(r) THEN r ELSE IF Failed(s) THEN s ELSE Done(r.ok \o s.ok)

\* The parts one after the other, or the first failure.
Packed(parts) ==
  LET upto[n \in Nat] == IF n = 0 THEN Done(<<>>) ELSE Joined(upto[n - 1], parts[n])
  IN  upto[Len(parts)]

WriteFields(write, fields, dict) ==
  Packed([i \in 1..Len(fields) |->
            IF fields[i].name \in DOMAIN dict
            THEN write[fields[i].type][dict[fields[i].name]]
            ELSE Fail("missing field")])

WriteItems(write, t, items) ==
  Joined(Done(ToBytes(Len(items), 4)),
         Packed([i \in 1..Len(items) |-> write[t][items[i]]]))

\* The value v as type t; `write' is for what is nested in it.
WriteValue(schemas, write, t, v) ==
  CASE t.kind = "bool" ->
         IF Is(v, "bool") THEN Done(<<v.bool>>) ELSE Mismatch
    [] t.kind = "int" ->
         IF IsInteger(v) /\ InRange(Integer(v), t)
         THEN Done(ToBytes(Integer(v), t.width)) ELSE Mismatch
    [] t.kind = "float" ->
         IF IsNumber(v) /\ InRange(NumberOf(v), SInt(8))
         THEN Done(ToBytes(NumberOf(v) \div Lost(t.width), t.width)) ELSE Mismatch
    [] t.kind = "string" ->
         IF Is(v, "str") /\ Encodable(v.str) THEN Done(Sized(Utf8[v.str])) ELSE Mismatch
    [] t.kind = "bytes" ->
         IF Is(v, "bytes") THEN Done(Sized(v.bytes)) ELSE Mismatch
    [] t.kind = "array" ->
         IF Is(v, "list") THEN WriteItems(write, ItemType(t), v.list) ELSE Mismatch
    [] t.kind = "struct" ->
         IF ~Is(v, "dict") THEN Mismatch
         ELSE IF t.name \notin DOMAIN schemas THEN Fail("unknown schema")
         ELSE WriteFields(write, schemas[t.name], v.dict)
    [] t.kind \in {"time", "duration"} ->
         IF Is(v, "dict") THEN WriteFields(write, TimeFields, v.dict) ELSE Mismatch

Write(schemas) ==
  LET write[d \in Nat] ==
        IF d = 0 THEN [t \in Types |-> [v \in Values |-> TooDeep]]
        ELSE [t \in Types |-> [v \in Values |-> WriteValue(schemas, write[d - 1], t, v)]]
  IN  write

FormatTag == 1

Serialize(schemas, name, dict) ==
  IF name \notin DOMAIN schemas THEN Fail("unknown schema")
  ELSE Joined(Done(<<FormatTag>>),
              WriteFields(Write(schemas)[MaxDepth], schemas[name], dict))

-----------------------------------------------------------------------------
(* Decoding.                                                               *)

\* Mutant: read() for read_exact(), which takes what there is.
ReadSome(bytes, at, n) ==
  LET last == IF at + n > Len(bytes) + 1 THEN Len(bytes) ELSE at + n - 1
  IN  Got(SubSeq(bytes, at, last), last + 1)

ReadBytes(bytes, at, n) ==
  IF at + n > Len(bytes) + 1 THEN Fail("payload too short")
  ELSE Got(SubSeq(bytes, at, at + n - 1), at + n)

ReadSized(bytes, at) ==
  LET len == ReadBytes(bytes, at, 4)
  IN  IF Failed(len) THEN len ELSE ReadBytes(bytes, len.next, FromBytes(len.ok))

\* What is read next is a function of the bytes read; errors stay.
Map(r, Make(_)) == IF Failed(r) THEN r ELSE Got(Make(r.ok), r.next)

\* Go on where the reader r stopped, with the next field or item.
ReadField(read, r, f) ==
  IF Failed(r) THEN r
  ELSE Map(read[f.type][r.next], LAMBDA v : With(r.ok, f.name, v))

ReadItem(read, r, t) ==
  IF Failed(r) THEN r ELSE Map(read[t][r.next], LAMBDA v : Append(r.ok, v))

ReadFields(read, fields, at) ==
  LET upto[n \in Nat] ==
        IF n = 0 THEN Got(<<>>, at) ELSE ReadField(read, upto[n - 1], fields[n])
  IN  upto[Len(fields)]

ReadItems(read, t, count, at) ==
  LET upto[n \in Nat] ==
        IF n = 0 THEN Got(<<>>, at) ELSE ReadItem(read, upto[n - 1], t)
  IN  upto[count]

\* A value of type t; `read' is for what is nested in it.
ReadValue(schemas, bytes, read, t, at) ==
  CASE t.kind = "bool" ->
         Map(ReadBytes(bytes, at, 1),
             LAMBDA b : PyBool(IF b = <<0>> THEN 0 ELSE 1))
    [] t.kind = "int" ->
         Map(ReadBytes(bytes, at, t.width),
             LAMBDA b : PyInt(Signed(FromBytes(b), t)))
    [] t.kind = "float" ->
         Map(ReadBytes(bytes, at, t.width),
             LAMBDA b : PyFloat(Signed(FromBytes(b), SInt(t.width)) * Lost(t.width)))
    [] t.kind = "string" ->
         LET r == ReadSized(bytes, at)
         IN  IF ~Failed(r) /\ TextsOf(r.ok) = {} THEN Fail("not UTF-8")
             ELSE Map(r, LAMBDA b : PyStr(CHOOSE text \in TextsOf(b) : TRUE))
    [] t.kind = "bytes" ->
         Map(ReadSized(bytes, at), PyBytes)
    [] t.kind = "array" ->
         LET len == ReadBytes(bytes, at, 4)
         IN  IF Failed(len) THEN len
             ELSE Map(ReadItems(read, ItemType(t), FromBytes(len.ok), len.next), PyList)
    [] t.kind = "struct" ->
         IF t.name \notin DOMAIN schemas THEN Fail("unknown schema")
         ELSE Map(ReadFields(read, schemas[t.name], at), PyDict)
    [] t.kind \in {"time", "duration"} ->
         Map(ReadFields(read, TimeFields, at), PyDict)

Read(schemas, bytes) ==
  LET read[d \in Nat] ==
        IF d = 0 THEN [t \in Types |-> [at \in Nat |-> TooDeep]]
        ELSE [t \in Types |-> [at \in Nat |->
                ReadValue(schemas, bytes, read[d - 1], t, at)]]
  IN  read

\* Bytes after the last field are not looked at.
Deserialize(schemas, name, bytes) ==
  IF bytes = <<>> THEN Fail("empty payload")
  ELSE IF bytes[1] # FormatTag THEN Fail("format tag")
  ELSE IF name \notin DOMAIN schemas THEN Fail("unknown schema")
  ELSE LET r == ReadFields(Read(schemas, bytes)[MaxDepth], schemas[name], 2)
       IN  IF Failed(r) THEN r ELSE Done(r.ok)

-----------------------------------------------------------------------------
(* What a value means, without bytes: the reference for the round trip.    *)

MeaningOfFields(means, fields, dict) ==
  LET upto[n \in Nat] ==
        IF n = 0 THEN <<>>
        ELSE With(upto[n - 1], fields[n].name, means[fields[n].type][dict[fields[n].name]])
  IN  upto[Len(fields)]

MeaningOfValue(schemas, means, t, v) ==
  CASE t.kind = "int"    -> PyInt(Integer(v))
    [] t.kind = "float"  -> PyFloat(Rounded(NumberOf(v), t.width))
    [] t.kind = "array"  -> PyList([i \in 1..Len(v.list) |-> means[ItemType(t)][v.list[i]]])
    [] t.kind = "struct" -> PyDict(MeaningOfFields(means, schemas[t.name], v.dict))
    [] t.kind \in {"time", "duration"} -> PyDict(MeaningOfFields(means, TimeFields, v.dict))
    [] OTHER -> v

Meaning(schemas) ==
  LET means[d \in Nat] ==
        IF d = 0 THEN [t \in Types |-> [v \in Values |-> v]]
        ELSE [t \in Types |-> [v \in Values |->
                MeaningOfValue(schemas, means[d - 1], t, v)]]
  IN  means

MeaningOf(schemas, name, dict) ==
  MeaningOfFields(Meaning(schemas)[MaxDepth], schemas[name], dict)

\* The shape of a schema with the nested names resolved, as far as the codec
\* follows them.
LayoutOfFields(layouts, fields) ==
  [i \in 1..Len(fields) |-> Field(fields[i].name, layouts[fields[i].type])]

LayoutOfSchema(schemas, layouts, name) ==
  IF name \notin DOMAIN schemas THEN [known |-> FALSE]
  ELSE [known |-> TRUE, fields |-> LayoutOfFields(layouts, schemas[name])]

LayoutOfType(schemas, layouts, t) ==
  CASE t.kind = "array"  -> [kind |-> "array", of |-> layouts[ItemType(t)]]
    [] t.kind = "struct" ->
         [kind |-> "struct", layout |-> LayoutOfSchema(schemas, layouts, t.name)]
    [] OTHER -> t

Layouts(schemas) ==
  LET layouts[d \in Nat] ==
        IF d = 0 THEN [t \in Types |-> [kind |-> t.kind]]
        ELSE [t \in Types |-> LayoutOfType(schemas, layouts[d - 1], t)]
  IN  layouts

Layout(schemas, name) == LayoutOfSchema(schemas, Layouts(schemas)[MaxDepth], name)
=============================================================================
