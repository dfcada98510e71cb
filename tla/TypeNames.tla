------------------------------ MODULE TypeNames ------------------------------
(***************************************************************************)
(* How programs write schemas (lib.rs, from_name, as_name, parse_schema    *)
(* and get_schema): a schema is described by pairs of a field name and the *)
(* name of its type.                                                       *)
(*                                                                         *)
(* A type name is a sequence of words: "array<", ">", "struct:", the names *)
(* of the simple types, blanks, and the words of schema names, which are   *)
(* sequences of words themselves.                                          *)
(***************************************************************************)
EXTENDS Codec

Blank == " "

SimpleTypes ==
  [bool    |-> Bool,
   int8    |-> SInt(1), int16  |-> SInt(2), int32  |-> SInt(4), int64  |-> SInt(8),
   uint8   |-> UInt(1), uint16 |-> UInt(2), uint32 |-> UInt(4), uint64 |-> UInt(8),
   float32 |-> Flt(4), float64 |-> Flt(8),
   string  |-> Text, bytes |-> Blob,
   time    |-> Time, duration |-> Duration]

\* Names that are read, but not written.
Aliases == [ros_string |-> Text, ros_bytes |-> Blob]

Largest(S)  == CHOOSE n \in S : \A m \in S : m <= n
Smallest(S) == CHOOSE n \in S : \A m \in S : n <= m

Trim(words) ==
  LET kept == {i \in 1..Len(words) : words[i] # Blank}
  IN  IF kept = {} THEN <<>> ELSE SubSeq(words, Smallest(kept), Largest(kept))

\* How often the name begins with "array<" and ends with ">".
Rank(words) ==
  Largest({n \in 0..Len(words) :
             /\ 2 * n <= Len(words)
             /\ \A i \in 1..n : words[i] = "array<" /\ words[Len(words) + 1 - i] = ">"})

ElementFromName(words) ==
  IF Len(words) >= 1 /\ words[1] = "struct:"
  THEN LET name == Trim(SubSeq(words, 2, Len(words)))
       IN  IF name = <<>> THEN Fail("no schema name") ELSE Done(Struct(name))
  ELSE IF Len(words) # 1 THEN Fail("unsupported field type")
  ELSE IF words[1] \in DOMAIN SimpleTypes THEN Done(SimpleTypes[words[1]])
  ELSE IF words[1] \in DOMAIN Aliases THEN Done(Aliases[words[1]])
  ELSE Fail("unsupported field type")

FromName(words) ==
  LET rank    == Rank(words)
      element == ElementFromName(SubSeq(words, rank + 1, Len(words) - rank))
  IN  IF rank = 0 \/ Failed(element) THEN element ELSE Done(Array(rank, element.ok))

\* The name each simple type is written with.
SimpleName(t) ==
  CASE t = Bool     -> <<"bool">>
    [] t = SInt(1)  -> <<"int8">>
    [] t = SInt(2)  -> <<"int16">>
    [] t = SInt(4)  -> <<"int32">>
    [] t = SInt(8)  -> <<"int64">>
    [] t = UInt(1)  -> <<"uint8">>
    [] t = UInt(2)  -> <<"uint16">>
    [] t = UInt(4)  -> <<"uint32">>
    [] t = UInt(8)  -> <<"uint64">>
    [] t = Flt(4)   -> <<"float32">>
    [] t = Flt(8)   -> <<"float64">>
    [] t = Text     -> <<"string">>
    [] t = Blob     -> <<"bytes">>
    [] t = Time     -> <<"time">>
    [] t = Duration -> <<"duration">>

\* Mutant: the arm of a duration gives the name of what it is made like.
TimeForBoth(t) ==
  IF t.kind = "struct" THEN <<"struct:">> \o t.name
  ELSE IF t = Duration THEN <<"time">> ELSE SimpleName(t)

ElementName(t) ==
  IF t.kind = "struct" THEN <<"struct:">> \o t.name ELSE SimpleName(t)

AsName(t) ==
  IF t.kind # "array" THEN ElementName(t)
  ELSE [i \in 1..t.rank |-> "array<"] \o ElementName(t.of) \o [i \in 1..t.rank |-> ">"]

\* The first entry that is not a pair, or names no type, decides.
ParseSchema(entries) ==
  LET parsed == [i \in 1..Len(entries) |->
        IF Len(entries[i]) # 2 THEN Fail("not a pair") ELSE FromName(entries[i][2])]
      bad    == {i \in 1..Len(entries) : Failed(parsed[i])}
  IN  IF bad # {} THEN parsed[Smallest(bad)]
      ELSE Done([i \in 1..Len(entries) |-> Field(entries[i][1], parsed[i].ok)])

\* What get_schema answers for a schema.
Described(fields) ==
  [i \in 1..Len(fields) |-> <<fields[i].name, AsName(fields[i].type)>>]
=============================================================================
