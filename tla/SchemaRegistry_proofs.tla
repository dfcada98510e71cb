------------------------ MODULE SchemaRegistry_proofs ------------------------
(***************************************************************************)
(* Proofs about the schema registry: what get_schema says of a schema      *)
(* registers it again, and a payload is read as it was sent, or rejected,  *)
(* by whoever has a schema of the same layout.                             *)
(***************************************************************************)
EXTENDS SchemaRegistry, Codec_proofs

-----------------------------------------------------------------------------
(* Sets of numbers.                                                        *)

\* A set of naturals has a smallest member, which is no other.
LEMMA SmallestIs ==
  ASSUME NEW T \in SUBSET Nat, T # {}
  PROVE  /\ Smallest(T) \in T /\ \A k \in T : Smallest(T) <= k
         /\ \A m \in T : (\A k \in T : m <= k) => Smallest(T) = m
<1>1. \E m \in T : \A k \in T : m <= k
  BY PowR!SmallestMember
<1>2. Smallest(T) \in T /\ \A k \in T : Smallest(T) <= k
  BY <1>1 DEF Smallest
<1>3. ASSUME NEW m \in T, \A k \in T : m <= k PROVE Smallest(T) = m
  <2>1. Smallest(T) <= m /\ m <= Smallest(T) /\ m \in Nat /\ Smallest(T) \in Nat
    BY <1>2, <1>3
  <2> QED
    BY <2>1
<1> QED
  BY <1>2, <1>3

\* A set of naturals up to a bound has a largest member, which is no other.
LEMMA LargestIs ==
  ASSUME NEW bound \in Nat, NEW T \in SUBSET (0..bound), T # {}
  PROVE  /\ Largest(T) \in T /\ \A k \in T : k <= Largest(T)
         /\ \A m \in T : (\A k \in T : k <= m) => Largest(T) = m
<1> DEFINE U == {bound - k : k \in T}
<1>0. \A k \in T : k \in 0..bound
  OBVIOUS
<1>1. U \in SUBSET Nat /\ U # {}
  <2>1. \A k \in T : bound - k \in Nat
    BY <1>0
  <2> QED
    BY <2>1
<1>2. PICK u \in U : \A l \in U : u <= l
  <2> HIDE DEF U
  <2> QED
    BY <1>1, PowR!SmallestMember
<1>3. PICK m \in T : u = bound - m
  OBVIOUS
<1>4. ASSUME NEW k \in T PROVE k <= m
  <2>1. bound - m <= bound - k
    BY <1>2, <1>3
  <2>2. m \in Nat /\ k \in Nat
    BY <1>0
  <2> QED
    BY <2>1, <2>2
<1>5. Largest(T) \in T /\ \A k \in T : k <= Largest(T)
  BY <1>4 DEF Largest
<1>6. ASSUME NEW n \in T, \A k \in T : k <= n PROVE Largest(T) = n
  <2>1. Largest(T) <= n /\ n <= Largest(T)
    BY <1>5, <1>6
  <2>2. \A k \in T : k \in Nat
    BY <1>0
  <2>3. n \in Nat /\ Largest(T) \in Nat
    BY <1>5, <2>2
  <2> QED
    BY <2>1, <2>3
<1> QED
  BY <1>5, <1>6

-----------------------------------------------------------------------------
(* Type names.                                                             *)

\* A part of a sequence, member by member.
LEMMA PartOf ==
  ASSUME NEW X, NEW s \in Seq(X), NEW m \in 1..Len(s) + 1, NEW n \in m - 1..Len(s)
  PROVE  /\ SubSeq(s, m, n) \in Seq(X) /\ Len(SubSeq(s, m, n)) = n - m + 1
         /\ \A i \in 1..n - m + 1 : SubSeq(s, m, n)[i] = s[m + i - 1]
OBVIOUS

\* Without blanks at its ends a name is left as it is.
LEMMA TrimKeeps ==
  ASSUME NEW X, NEW words \in Seq(X), Len(words) >= 1,
         words[1] # Blank, words[Len(words)] # Blank
  PROVE  Trim(words) = words
<1> DEFINE kept == {i \in 1..Len(words) : words[i] # Blank}
<1>1. Len(words) \in Nat /\ 1 \in kept /\ Len(words) \in kept
  OBVIOUS
<1>2. \A i \in kept : i \in Nat /\ 1 <= i /\ i <= Len(words)
  BY <1>1
<1>3. kept \in SUBSET Nat /\ kept \in SUBSET (0..Len(words)) /\ kept # {}
  BY <1>1, <1>2
<1>4. Trim(words) = SubSeq(words, Smallest(kept), Largest(kept))
  BY <1>3 DEF Trim
<1> HIDE DEF kept
<1>5. Smallest(kept) = 1
  BY <1>1, <1>2, <1>3, SmallestIs
<1>6. Largest(kept) = Len(words)
  BY <1>1, <1>2, <1>3, LargestIs
<1> QED
  BY <1>1, <1>4, <1>5, <1>6

\* A trimmed name has nothing to trim.
LEMMA TrimTwice ==
  ASSUME NEW X, NEW words \in Seq(X)
  PROVE  /\ Trim(words) \in Seq(X)
         /\ Trim(words) # <<>> => Trim(Trim(words)) = Trim(words)
<1> DEFINE kept == {i \in 1..Len(words) : words[i] # Blank}
           trimmed == SubSeq(words, Smallest(kept), Largest(kept))
<1>1. CASE kept = {}
  BY <1>1 DEF Trim
<1>2. CASE kept # {}
  <2>1. Trim(words) = trimmed
    BY <1>2 DEF Trim
  <2>2. kept \in SUBSET Nat /\ kept \in SUBSET (0..Len(words)) /\ Len(words) \in Nat
    OBVIOUS
  <2>3. Smallest(kept) \in kept
    <3> HIDE DEF kept
    <3> QED
      BY <1>2, <2>2, SmallestIs
  <2>4. Largest(kept) \in kept
    <3> HIDE DEF kept
    <3> QED
      BY <1>2, <2>2, LargestIs
  <2>5. Smallest(kept) <= Largest(kept)
    <3>1. \A k \in kept : Smallest(kept) <= k
      <4> HIDE DEF kept
      <4> QED
        BY <1>2, <2>2, SmallestIs
    <3> QED
      BY <2>4, <3>1
  <2> DEFINE a == Smallest(kept)  b == Largest(kept)
  <2>6. /\ a \in 1..Len(words) /\ b \in 1..Len(words) /\ a <= b
        /\ words[a] # Blank /\ words[b] # Blank
    BY <2>3, <2>4, <2>5
  <2> HIDE DEF kept, a, b
  <2>7. /\ SubSeq(words, a, b) \in Seq(X) /\ Len(SubSeq(words, a, b)) = b - a + 1
        /\ \A i \in 1..b - a + 1 : SubSeq(words, a, b)[i] = words[a + i - 1]
    BY <2>6
  <2>8. 1 \in 1..b - a + 1 /\ b - a + 1 \in 1..b - a + 1 /\ a + 1 - 1 = a /\ a + (b - a + 1) - 1 = b
    BY <2>6
  <2>9. Trim(SubSeq(words, a, b)) = SubSeq(words, a, b)
    <3> DEFINE s == SubSeq(words, a, b)
    <3>1. s \in Seq(X) /\ Len(s) >= 1 /\ s[1] = words[a] /\ s[Len(s)] = words[b]
      BY <2>6, <2>7, <2>8
    <3> HIDE DEF s
    <3>2. Trim(s) = s
      BY <2>6, <3>1, TrimKeeps
    <3> QED
      BY <3>2 DEF s
  <2> QED
    BY <2>1, <2>7, <2>9 DEF a, b
<1> QED
  BY <1>1, <1>2

\* The types that names stand for.
LEMMA SimpleTypeOf ==
  ASSUME NEW word \in DOMAIN SimpleTypes
  PROVE  /\ SimpleTypes[word] \in ElementTypes /\ SimpleTypes[word].kind # "struct"
         /\ word # "struct:" /\ word # "array<"
<1>1. /\ word # "struct:" /\ word # "array<"
      /\ SimpleTypes[word] \in {Bool, SInt(1), SInt(2), SInt(4), SInt(8), UInt(1), UInt(2), UInt(4),
                                UInt(8), Flt(4), Flt(8), Text, Blob, Time, Duration}
  BY DEF SimpleTypes
<1>2. \A n \in {1, 2, 4, 8} :
        /\ SInt(n) \in ElementTypes /\ SInt(n).kind = "int"
        /\ UInt(n) \in ElementTypes /\ UInt(n).kind = "int"
  BY DEF ElementTypes, SInt, UInt
<1>3. \A t \in {Bool, Text, Blob, Time, Duration, Flt(4), Flt(8)} :
        t \in ElementTypes /\ t.kind # "struct"
  <2>1. \A t \in {Bool, Text, Blob, Time, Duration, Flt(4), Flt(8)} : t \in ElementTypes
    BY DEF ElementTypes
  <2>2. \A t \in {Bool, Text, Blob, Time, Duration, Flt(4), Flt(8)} : t.kind # "struct"
    BY DEF Bool, Text, Blob, Time, Duration, Flt
  <2> QED
    BY <2>1, <2>2
<1>4. SimpleTypes[word] \in ElementTypes /\ SimpleTypes[word].kind # "struct"
  BY <1>1, <1>2, <1>3
<1> QED
  BY <1>1, <1>4

\* as_name gives every simple type the name from_name takes for it: the two
\* lists of the code, compared arm by arm.
LEMMA SimpleNameOf ==
  ASSUME NEW word \in DOMAIN SimpleTypes
  PROVE  SimpleName(SimpleTypes[word]) = <<word>>
<1> DEFINE T == SimpleTypes
<1>1. /\ T["bool"] = Bool /\ T["string"] = Text /\ T["bytes"] = Blob
      /\ T["time"] = Time /\ T["duration"] = Duration
      /\ T["float32"] = Flt(4) /\ T["float64"] = Flt(8)
  BY DEF SimpleTypes
<1>2. /\ T["int8"] = SInt(1) /\ T["int16"] = SInt(2) /\ T["int32"] = SInt(4)
      /\ T["int64"] = SInt(8) /\ T["uint8"] = UInt(1) /\ T["uint16"] = UInt(2)
      /\ T["uint32"] = UInt(4) /\ T["uint64"] = UInt(8)
  BY DEF SimpleTypes
<1>3. word \in {"bool", "string", "bytes", "time", "duration", "float32", "float64"} \cup
              {"int8", "int16", "int32", "int64", "uint8", "uint16", "uint32", "uint64"}
  BY DEF SimpleTypes
<1>4. /\ Bool.kind = "bool" /\ Text.kind = "string" /\ Blob.kind = "bytes"
      /\ Time.kind = "time" /\ Duration.kind = "duration"
  BY DEF Bool, Text, Blob, Time, Duration
<1>5. \A n \in {1, 2, 4, 8} :
        /\ SInt(n).kind = "int" /\ SInt(n).width = n /\ SInt(n).signed = TRUE
        /\ UInt(n).kind = "int" /\ UInt(n).width = n /\ UInt(n).signed = FALSE
        /\ Flt(n).kind = "float" /\ Flt(n).width = n
  BY DEF SInt, UInt, Flt
<1> HIDE DEF T
<1>6. CASE word \in {"bool", "string", "bytes", "time", "duration", "float32", "float64"}
  BY <1>1, <1>4, <1>5, <1>6 DEF SimpleName, T
<1>7. CASE word \in {"int8", "int16", "int32", "int64", "uint8", "uint16", "uint32", "uint64"}
  BY <1>2, <1>4, <1>5, <1>7 DEF SimpleName, T
<1> QED
  BY <1>3, <1>6, <1>7

\* The words of type names.
Word == STRING \cup DOMAIN SimpleTypes \cup {"array<", ">", "struct:"}

\* Element types that have a name: simple ones, and structs with a name that
\* has no blanks around it.
Named(e) ==
  \/ \E word \in DOMAIN SimpleTypes : e = SimpleTypes[word]
  \/ \E name \in StructNames :
       /\ e = Struct(name) /\ name \in Seq(Word) /\ name # <<>> /\ Trim(name) = name

NamedType(t) ==
  \/ Named(t)
  \/ \E rank \in Nat \ {0}, e \in ElementTypes : t = Array(rank, e) /\ Named(e)

\* Words all of whose parts are names that a struct type may have.
Wording(words) ==
  /\ words \in Seq(STRING)
  /\ \A k \in 1..Len(words), l \in 1..Len(words) : Trim(SubSeq(words, k, l)) \in StructNames

\* The names that schema descriptions hold are made of words.
LEMMA WordingHasWords ==
  ASSUME NEW words, Wording(words)
  PROVE  words \in Seq(Word)
<1>1. words \in [1..Len(words) -> STRING] /\ Len(words) \in Nat
  BY DEF Wording
<1>2. words \in [1..Len(words) -> Word]
  <2>1. STRING \subseteq Word
    BY DEF Word
  <2> HIDE DEF Word
  <2> QED
    BY <1>1, <2>1
<1> QED
  BY <1>1, <1>2, FunctionIsSequence

\* A named element type is one the codec can take.
LEMMA NamedIsElement ==
  ASSUME NEW e, Named(e)
  PROVE  e \in ElementTypes
<1>1. \A name \in StructNames : Struct(name) \in ElementTypes
  BY DEF Struct, ElementTypes
<1> QED
  BY <1>1, SimpleTypeOf DEF Named

\* A named type is one the codec can take.
LEMMA NamedTypeIsType ==
  ASSUME NEW t, NamedType(t)
  PROVE  t \in Types
BY NamedIsElement DEF NamedType, Types, Array

\* The rank of a name is the number of array brackets around it, and no other.
LEMMA RankIs ==
  ASSUME NEW words, Len(words) \in Nat
  PROVE  /\ Rank(words) \in Nat /\ 2 * Rank(words) <= Len(words)
         /\ \A r \in Nat :
              /\ 2 * r <= Len(words)
              /\ \A i \in 1..r : words[i] = "array<" /\ words[Len(words) + 1 - i] = ">"
              /\ 2 * r < Len(words) => words[r + 1] # "array<"
              => Rank(words) = r
<1> DEFINE T == {n \in 0..Len(words) :
                   /\ 2 * n <= Len(words)
                   /\ \A i \in 1..n : words[i] = "array<" /\ words[Len(words) + 1 - i] = ">"}
<1>1. T \in SUBSET (0..Len(words)) /\ 0 \in T
  OBVIOUS
<1>2. Rank(words) = Largest(T)
  BY DEF Rank
<1>3. Rank(words) \in T
  <2> HIDE DEF T
  <2> QED
    BY <1>1, <1>2, LargestIs
<1>4. ASSUME NEW r \in Nat, 2 * r <= Len(words),
             \A i \in 1..r : words[i] = "array<" /\ words[Len(words) + 1 - i] = ">",
             2 * r < Len(words) => words[r + 1] # "array<"
      PROVE  Rank(words) = r
  <2>1. r \in T
    BY <1>4
  <2>2. ASSUME NEW n \in T PROVE n <= r
    <3>1. n > r => 2 * r < Len(words) /\ r + 1 \in 1..n
      BY <1>4
    <3>2. \A i \in 1..n : words[i] = "array<"
      OBVIOUS
    <3> QED
      BY <1>4, <3>1, <3>2
  <2> HIDE DEF T
  <2> QED
    BY <1>1, <1>2, <2>1, <2>2, LargestIs
<1> QED
  BY <1>3, <1>4

\* A name that stands for a type stands for one that has a name.
LEMMA ElementIsNamed ==
  ASSUME NEW words \in Seq(Word),
         \A l \in 2..Len(words) : Trim(SubSeq(words, 2, l)) \in StructNames,
         ~Failed(ElementFromName(words))
  PROVE  /\ ElementFromName(words) = Done(ElementFromName(words).ok)
         /\ Named(ElementFromName(words).ok)
<1>1. CASE Len(words) >= 1 /\ words[1] = "struct:"
  <2> DEFINE name == Trim(SubSeq(words, 2, Len(words)))
  <2>1. name # <<>> /\ ElementFromName(words) = Done(Struct(name))
    BY <1>1, Results DEF ElementFromName
  <2>2. name \in StructNames
    <3>1. Len(words) >= 2
      <4>1. ASSUME Len(words) = 1 PROVE FALSE
        <5>1. SubSeq(words, 2, Len(words)) = <<>>
          BY <4>1
        <5>2. Trim(<<>>) = <<>>
          BY DEF Trim
        <5> QED
          BY <2>1, <5>1, <5>2
      <4>2. Len(words) \in Nat
        OBVIOUS
      <4> QED
        <5>1. Len(words) >= 1 /\ Len(words) # 1
          BY <1>1, <4>1
        <5> DEFINE n == Len(words)
        <5> HIDE DEF n
        <5>2. n >= 1 /\ n # 1 /\ n \in Nat => n >= 2
          OBVIOUS
        <5> QED
          BY <4>2, <5>1, <5>2 DEF n
    <3> QED
      BY <3>1
  <2>3. name \in Seq(Word) /\ Trim(name) = name
    <3>1. SubSeq(words, 2, Len(words)) \in Seq(Word)
      BY <1>1
    <3> QED
      BY <2>1, <3>1, TrimTwice
  <2> HIDE DEF name
  <2> QED
    BY <2>1, <2>2, <2>3, Results DEF Named
<1>2. CASE ~(Len(words) >= 1 /\ words[1] = "struct:")
  <2>1. /\ words[1] \in DOMAIN SimpleTypes \cup DOMAIN Aliases
        /\ ElementFromName(words) =
             Done(IF words[1] \in DOMAIN SimpleTypes THEN SimpleTypes[words[1]] ELSE Aliases[words[1]])
    BY <1>2, Results DEF ElementFromName
  <2>2. \A word \in DOMAIN Aliases : \E other \in DOMAIN SimpleTypes : Aliases[word] = SimpleTypes[other]
    <3>1. \A word \in DOMAIN Aliases : Aliases[word] = Text \/ Aliases[word] = Blob
      BY DEF Aliases
    <3>2. "string" \in DOMAIN SimpleTypes /\ SimpleTypes["string"] = Text
      BY DEF SimpleTypes
    <3>3. "bytes" \in DOMAIN SimpleTypes /\ SimpleTypes["bytes"] = Blob
      BY DEF SimpleTypes
    <3> QED
      BY <3>1, <3>2, <3>3
  <2> QED
    BY <2>1, <2>2, Results DEF Named
<1> QED
  BY <1>1, <1>2

\* A description that stands for a type stands for one that has a name.
LEMMA TypeIsNamed ==
  ASSUME NEW words, Wording(words), ~Failed(FromName(words))
  PROVE  FromName(words) = Done(FromName(words).ok) /\ NamedType(FromName(words).ok)
<1> DEFINE rank == Rank(words)  inner == SubSeq(words, rank + 1, Len(words) - rank)
           element == ElementFromName(inner)
<1>1. words \in Seq(Word) /\ Len(words) \in Nat /\ rank \in Nat /\ 2 * rank <= Len(words)
  <2>1. words \in Seq(Word)
    BY WordingHasWords
  <2> QED
    BY <2>1, RankIs
<1>2. FromName(words) = IF rank = 0 \/ Failed(element) THEN element ELSE Done(Array(rank, element.ok))
  BY DEF FromName
<1>3. ~Failed(element)
  BY <1>2
<1> HIDE DEF rank
<1>4. inner \in Seq(Word) /\ Len(inner) = Len(words) - 2 * rank
  <2>1. /\ rank + 1 \in 1..Len(words) + 1 /\ Len(words) - rank \in (rank + 1) - 1..Len(words)
        /\ (Len(words) - rank) - (rank + 1) + 1 = Len(words) - 2 * rank
    BY <1>1
  <2> QED
    BY <1>1, <2>1, PartOf
<1>5. \A l \in 2..Len(inner) : Trim(SubSeq(inner, 2, l)) \in StructNames
  <2> SUFFICES ASSUME NEW l \in 2..Len(inner) PROVE Trim(SubSeq(inner, 2, l)) \in StructNames
    OBVIOUS
  <2> DEFINE s == SubSeq(inner, 2, l)  o == SubSeq(words, rank + 2, rank + l)
  <2>1. rank + 2 \in 1..Len(words) /\ rank + l \in 1..Len(words)
    BY <1>1, <1>4
  <2>2. s \in Seq(Word) /\ Len(s) = l - 1 /\ \A i \in 1..l - 1 : s[i] = inner[i + 1]
    BY <1>4, SMTT(30)
  <2>3. o \in Seq(Word) /\ Len(o) = l - 1 /\ \A i \in 1..l - 1 : o[i] = words[rank + 1 + i]
    BY <1>1, <2>1
  <2>4. \A i \in 1..l - 1 : inner[i + 1] = words[rank + 1 + i]
    <3>1. /\ rank + 1 \in 1..Len(words) + 1 /\ Len(words) - rank \in (rank + 1) - 1..Len(words)
      BY <1>1
    <3>2. \A i \in 1..(Len(words) - rank) - (rank + 1) + 1 : inner[i] = words[(rank + 1) + i - 1]
      BY <1>1, <3>1, PartOf
    <3>3. \A i \in 1..l - 1 :
            /\ i + 1 \in 1..(Len(words) - rank) - (rank + 1) + 1
            /\ (rank + 1) + (i + 1) - 1 = rank + 1 + i
      BY <1>1, <1>4
    <3> HIDE DEF inner
    <3> QED
      BY <3>2, <3>3
  <2> HIDE DEF s, o, inner
  <2>5. s = o
    BY <2>2, <2>3, <2>4, SameSequence
  <2>6. Trim(o) \in StructNames
    BY <2>1 DEF o, Wording
  <2> QED
    BY <2>5, <2>6 DEF s
<1>6. element = Done(element.ok) /\ Named(element.ok)
  <2> HIDE DEF inner
  <2> QED
    BY <1>3, <1>4, <1>5, ElementIsNamed
<1> HIDE DEF element
<1>7. CASE rank = 0
  BY <1>2, <1>6, <1>7 DEF NamedType
<1>8. CASE rank # 0
  <2>1. FromName(words) = Done(Array(rank, element.ok)) /\ rank \in Nat \ {0}
    BY <1>1, <1>2, <1>3, <1>8
  <2> QED
    BY <1>6, <2>1, NamedIsElement, Results DEF NamedType
<1> QED
  BY <1>7, <1>8

\* The name of a named type stands for it.
LEMMA ElementRead ==
  ASSUME NEW e, Named(e)
  PROVE  /\ ElementName(e) \in Seq(Word) /\ Len(ElementName(e)) >= 1
         /\ ElementName(e)[1] # "array<"
         /\ ElementFromName(ElementName(e)) = Done(e)
<1>1. ASSUME NEW word \in DOMAIN SimpleTypes, e = SimpleTypes[word]
      PROVE  /\ ElementName(e) \in Seq(Word) /\ Len(ElementName(e)) >= 1
             /\ ElementName(e)[1] # "array<"
             /\ ElementFromName(ElementName(e)) = Done(e)
  <2>1. ElementName(e) = <<word>>
    BY <1>1, SimpleTypeOf, SimpleNameOf DEF ElementName
  <2>2. word \in Word
    BY DEF Word
  <2>3. word # "struct:" /\ word # "array<"
    BY SimpleTypeOf
  <2>4. ElementFromName(<<word>>) = Done(SimpleTypes[word])
    BY <2>3 DEF ElementFromName
  <2> QED
    BY <1>1, <2>1, <2>2, <2>3, <2>4
<1>2. ASSUME NEW name \in StructNames, e = Struct(name),
             name \in Seq(Word), name # <<>>, Trim(name) = name
      PROVE  /\ ElementName(e) \in Seq(Word) /\ Len(ElementName(e)) >= 1
             /\ ElementName(e)[1] # "array<"
             /\ ElementFromName(ElementName(e)) = Done(e)
  <2> DEFINE words == <<"struct:">> \o name
  <2>1. ElementName(e) = words
    BY <1>2 DEF ElementName, Struct
  <2>2. words \in Seq(Word) /\ Len(words) = Len(name) + 1 /\ words[1] = "struct:"
    <3>1. "struct:" \in Word
      BY DEF Word
    <3> QED
      BY <1>2, <3>1
  <2>3. SubSeq(words, 2, Len(words)) = name
    <3> DEFINE s == SubSeq(words, 2, Len(words))
    <3>1. s \in Seq(Word) /\ Len(s) = Len(name)
      BY <1>2, <2>2
    <3>2. \A i \in 1..Len(name) : s[i] = name[i]
      BY <1>2, <2>2
    <3> HIDE DEF s
    <3> QED
      BY <1>2, <3>1, <3>2, SameSequence DEF s
  <2> HIDE DEF words
  <2>4. ElementFromName(words) = Done(Struct(name))
    <3>1. Len(words) >= 1
      BY <1>2, <2>2
    <3> QED
      BY <1>2, <2>2, <2>3, <3>1 DEF ElementFromName
  <2> QED
    BY <1>2, <2>1, <2>2, <2>4
<1> QED
  BY <1>1, <1>2 DEF Named

\* The name that get_schema gives to a type stands for that type.
LEMMA TypeRead ==
  ASSUME NEW t, NamedType(t)
  PROVE  FromName(AsName(t)) = Done(t)
<1>1. ASSUME Named(t) PROVE FromName(AsName(t)) = Done(t)
  <2> DEFINE words == ElementName(t)
  <2>1. t.kind # "array"
    BY <1>1, SimpleTypeOf DEF Named, Struct, SimpleTypes, Bool, SInt, UInt, Flt, Text, Blob, Time, Duration
  <2>2. AsName(t) = words
    BY <2>1 DEF AsName
  <2>3. words \in Seq(Word) /\ Len(words) >= 1 /\ words[1] # "array<" /\ ElementFromName(words) = Done(t)
    BY <1>1, ElementRead
  <2> HIDE DEF words
  <2>4. Rank(words) = 0
    BY <2>3, RankIs
  <2>5. SubSeq(words, 0 + 1, Len(words) - 0) = words
    BY <2>3
  <2> QED
    BY <2>2, <2>3, <2>4, <2>5 DEF FromName
<1>2. ASSUME NEW rank \in Nat \ {0}, NEW e \in ElementTypes, t = Array(rank, e), Named(e)
      PROVE  FromName(AsName(t)) = Done(t)
  <2> DEFINE open == [i \in 1..rank |-> "array<"]  close == [i \in 1..rank |-> ">"]
             name == ElementName(e)  words == open \o name \o close
  <2>1. name \in Seq(Word) /\ Len(name) >= 1 /\ name[1] # "array<" /\ ElementFromName(name) = Done(e)
    BY <1>2, ElementRead
  <2>2. AsName(t) = words
    BY <1>2 DEF AsName, Array
  <2>3. /\ open \in Seq(Word) /\ Len(open) = rank /\ \A i \in 1..rank : open[i] = "array<"
        /\ close \in Seq(Word) /\ Len(close) = rank /\ \A i \in 1..rank : close[i] = ">"
    <3>1. "array<" \in Word /\ ">" \in Word
      BY DEF Word
    <3> QED
      BY <3>1
  <2> HIDE DEF open, close, name
  <2>4. /\ words \in Seq(Word) /\ Len(words) = rank + Len(name) + rank
        /\ \A i \in 1..rank : words[i] = "array<"
        /\ \A i \in 1..Len(name) : words[rank + i] = name[i]
        /\ \A i \in 1..rank : words[rank + Len(name) + i] = ">"
    BY <2>1, <2>3, SMTT(30)
  <2> HIDE DEF words
  <2>5. Rank(words) = rank
    <3>1. \A i \in 1..rank : words[i] = "array<" /\ words[Len(words) + 1 - i] = ">"
      <4> SUFFICES ASSUME NEW i \in 1..rank PROVE words[Len(words) + 1 - i] = ">"
        BY <2>4
      <4>1. rank + 1 - i \in 1..rank /\ Len(words) + 1 - i = rank + Len(name) + (rank + 1 - i)
        BY <2>1, <2>4
      <4> QED
        BY <2>4, <4>1
    <3>2. 2 * rank <= Len(words) /\ words[rank + 1] # "array<" /\ Len(words) \in Nat /\ rank \in Nat
      BY <2>1, <2>4
    <3> QED
      BY <3>1, <3>2, RankIs
  <2>6. SubSeq(words, rank + 1, Len(words) - rank) = name
    <3> DEFINE s == SubSeq(words, rank + 1, Len(words) - rank)
    <3>1. s \in Seq(Word) /\ Len(s) = Len(name)
      BY <2>1, <2>4
    <3>2. \A i \in 1..Len(name) : s[i] = name[i]
      BY <2>1, <2>4
    <3> HIDE DEF s
    <3> QED
      BY <2>1, <3>1, <3>2, SameSequence DEF s
  <2> QED
    BY <1>2, <2>1, <2>2, <2>5, <2>6, Results DEF FromName
<1> QED
  BY <1>1, <1>2 DEF NamedType

-----------------------------------------------------------------------------
(* Schemas.                                                                *)

\* The pairs of a description that parses have names of types.
Parsed(entries) ==
  [i \in 1..Len(entries) |->
     IF Len(entries[i]) # 2 THEN Fail("not a pair") ELSE FromName(entries[i][2])]

Fields(entries) ==
  [i \in 1..Len(entries) |-> Field(entries[i][1], Parsed(entries)[i].ok)]

\* A description is accepted if each of its entries is, and only then.
LEMMA ParseSchemaCases ==
  ASSUME NEW entries, Len(entries) \in Nat
  PROVE  /\ (\A i \in 1..Len(entries) : ~Failed(Parsed(entries)[i])) =>
              ParseSchema(entries) = Done(Fields(entries))
         /\ ~Failed(ParseSchema(entries)) =>
              \A i \in 1..Len(entries) : ~Failed(Parsed(entries)[i])
<1> DEFINE bad == {i \in 1..Len(entries) : Failed(Parsed(entries)[i])}
<1>1. ParseSchema(entries) =
        IF bad # {} THEN Parsed(entries)[Smallest(bad)] ELSE Done(Fields(entries))
  BY DEF ParseSchema, Parsed, Fields
<1>2. bad # {} => Failed(Parsed(entries)[Smallest(bad)])
  <2>1. bad \in SUBSET Nat
    OBVIOUS
  <2>2. bad # {} => Smallest(bad) \in bad
    <3> HIDE DEF bad
    <3> QED
      BY <2>1, SmallestIs
  <2> QED
    BY <2>2
<1> QED
  BY <1>1, <1>2

\* The fields that a registered description stands for.
NamedFields(fields) ==
  /\ Len(fields) \in Nat
  /\ fields = [i \in 1..Len(fields) |-> Field(fields[i].name, fields[i].type)]
  /\ \A i \in 1..Len(fields) : NamedType(fields[i].type)

\* The descriptions that are registered give fields whose types have names.
LEMMA DescriptionsAreNamed ==
  ASSUME NEW name \in Names, NEW entries \in SchemaChoices[name], ~Failed(ParseSchema(entries))
  PROVE  ParseSchema(entries) = Done(Fields(entries)) /\ NamedFields(Fields(entries))
<1> DEFINE F == Fields(entries)
<1>1. /\ Len(entries) \in Nat
      /\ \A i \in 1..Len(entries) : Len(entries[i]) = 2 => Wording(entries[i][2])
  <2>1. entries \in Seq({entries[i] : i \in DOMAIN entries})
    BY DescriptionsAssumption DEF DescriptionsAssumption
  <2>2. ASSUME NEW i \in 1..Len(entries), Len(entries[i]) = 2 PROVE Wording(entries[i][2])
    BY <2>2, DescriptionsAssumption DEF DescriptionsAssumption, Wording
  <2> DEFINE X == {entries[i] : i \in DOMAIN entries}
  <2>3. Len(entries) \in Nat
    <3>1. entries \in Seq(X)
      BY <2>1
    <3> HIDE DEF X
    <3> QED
      BY <3>1
  <2> QED
    BY <2>2, <2>3
<1>2. /\ ParseSchema(entries) = Done(F)
      /\ \A i \in 1..Len(entries) : ~Failed(Parsed(entries)[i])
  BY <1>1, ParseSchemaCases
<1>3. \A i \in 1..Len(entries) : NamedType(Parsed(entries)[i].ok)
  <2> SUFFICES ASSUME NEW i \in 1..Len(entries) PROVE NamedType(Parsed(entries)[i].ok)
    OBVIOUS
  <2>1. Len(entries[i]) = 2 /\ Parsed(entries)[i] = FromName(entries[i][2])
    BY <1>2, Results DEF Parsed
  <2> QED
    BY <1>1, <1>2, <2>1, TypeIsNamed
<1>4. Len(F) = Len(entries) /\ \A i \in 1..Len(entries) : F[i] = Field(entries[i][1], Parsed(entries)[i].ok)
  BY <1>1 DEF Fields
<1>5. \A i \in 1..Len(entries) :
        F[i] = Field(F[i].name, F[i].type) /\ F[i].type = Parsed(entries)[i].ok
  <2>1. \A x, y : Field(x, y).name = x /\ Field(x, y).type = y
    BY DEF Field
  <2> HIDE DEF F
  <2> QED
    BY <1>4, <2>1
<1>6. F = [i \in 1..Len(F) |-> Field(F[i].name, F[i].type)]
  <2>1. F = [i \in 1..Len(entries) |-> F[i]]
    BY DEF Fields
  <2> HIDE DEF F
  <2> QED
    BY <1>4, <1>5, <2>1
<1> HIDE DEF F
<1> QED
  BY <1>1, <1>2, <1>3, <1>4, <1>5, <1>6 DEF F, NamedFields

\* The description of named fields stands for them.
LEMMA DescribedIsParsed ==
  ASSUME NEW fields, NamedFields(fields)
  PROVE  ParseSchema(Described(fields)) = Done(fields)
<1> DEFINE D == Described(fields)
<1>1. Len(fields) \in Nat /\ Len(D) = Len(fields)
  BY DEF NamedFields, Described
<1>2. \A i \in 1..Len(fields) : D[i] = <<fields[i].name, AsName(fields[i].type)>>
  BY DEF Described
<1> HIDE DEF D
<1>3. \A i \in 1..Len(fields) : Parsed(D)[i] = Done(fields[i].type)
  <2> SUFFICES ASSUME NEW i \in 1..Len(fields) PROVE Parsed(D)[i] = Done(fields[i].type)
    OBVIOUS
  <2>1. Len(D[i]) = 2 /\ D[i][2] = AsName(fields[i].type)
    <3> DEFINE x == fields[i].name  y == AsName(fields[i].type)
    <3>1. D[i] = <<x, y>>
      BY <1>2
    <3> HIDE DEF x, y
    <3>2. Len(D[i]) = 2 /\ D[i][2] = y
      BY <3>1
    <3> QED
      BY <3>2 DEF y
  <2>2. FromName(AsName(fields[i].type)) = Done(fields[i].type)
    BY TypeRead DEF NamedFields
  <2> QED
    BY <1>1, <2>1, <2>2 DEF Parsed
<1>4. ParseSchema(D) = Done(Fields(D))
  BY <1>1, <1>3, ParseSchemaCases, Results
<1>5. Fields(D) = fields
  <2>1. Fields(D) = [i \in 1..Len(fields) |-> Field(D[i][1], Parsed(D)[i].ok)]
    BY <1>1 DEF Fields
  <2>2. \A i \in 1..Len(fields) : Field(D[i][1], Parsed(D)[i].ok) = Field(fields[i].name, fields[i].type)
    BY <1>2, <1>3, Results
  <2>3. Fields(D) = [i \in 1..Len(fields) |-> Field(fields[i].name, fields[i].type)]
    BY <2>1, <2>2
  <2> QED
    BY <2>3 DEF NamedFields
<1> QED
  BY <1>4, <1>5 DEF D

\* Registered schemas have named fields, which the codec can take.
LEMMA RegisteredAreNamed ==
  ASSUME NEW schemas, Registered(schemas), NEW name \in DOMAIN schemas
  PROVE  NamedFields(schemas[name])
<1>1. PICK entries \in SchemaChoices[name] : ParseSchema(entries) = Done(schemas[name])
  BY DEF Registered
<1>2. name \in Names /\ ~Failed(ParseSchema(entries))
  BY <1>1, Results DEF Registered
<1>3. ParseSchema(entries) = Done(Fields(entries)) /\ NamedFields(Fields(entries))
  BY <1>2, DescriptionsAreNamed
<1>4. schemas[name] = Fields(entries)
  BY <1>1, <1>3 DEF Done
<1> QED
  BY <1>3, <1>4

\* Registered schemas are sequences of fields of the codec's types.
LEMMA RegisteredAreOK ==
  ASSUME NEW schemas, Registered(schemas)
  PROVE  SchemasOK(schemas)
BY RegisteredAreNamed, NamedTypeIsType DEF SchemasOK, FieldsOK, NamedFields

-----------------------------------------------------------------------------
(* The registry and the payloads.                                          *)

\* Each payload was serialized under schemas that its sender had then, and may
\* have unregistered since.
Sent(m) ==
  \E schemas, name, dict :
    /\ Registered(schemas) /\ dict \in ValueChoices
    /\ Serialize(schemas, name, dict) = Done(m.bytes)
    /\ m.layout = Layout(schemas, name)
    /\ m.meant = MeaningOf(schemas, name, dict)

IInv == RegistryTypeOK /\ \A m \in wire : Sent(m)

\* The inductive invariant holds at first: nothing is registered or sent.
LEMMA IInvInit ==
  Init => IInv
BY DEF Init, IInv, RegistryTypeOK, Registered

\* Every step keeps it.
LEMMA IInvNext ==
  IInv /\ [Next]_vars => IInv'
<1> SUFFICES ASSUME IInv, [Next]_vars PROVE IInv'
  OBVIOUS
<1> USE DEF IInv
<1>1. ASSUME NEW p \in Procs, NEW name \in Names, NEW entries \in SchemaChoices[name],
             RegisterSchema(p, name, entries)
      PROVE  IInv'
  <2> DEFINE old == registry[p]  new == With(old, name, ParseSchema(entries).ok)
  <2>1. ParseSchema(entries) = Done(ParseSchema(entries).ok)
    <3>1. ParseSchema(entries) = Done(Fields(entries))
      BY <1>1, DescriptionsAreNamed DEF RegisterSchema
    <3> QED
      BY <3>1, Results
  <2>2. Registered(new)
    <3>1. DOMAIN new = DOMAIN old \cup {name}
      BY DEF With
    <3>2. new[name] = ParseSchema(entries).ok /\ \A n \in DOMAIN old : n # name => new[n] = old[n]
      BY DEF With
    <3> HIDE DEF new
    <3> QED
      BY <2>1, <3>1, <3>2 DEF RegistryTypeOK, Registered
  <2>3. /\ DOMAIN registry' = Procs /\ registry'[p] = new
        /\ \A q \in Procs : q # p => registry'[q] = registry[q]
    BY <1>1 DEF RegisterSchema, RegistryTypeOK
  <2>4. RegistryTypeOK'
    <3> HIDE DEF new
    <3>1. \A q \in Procs : Registered(registry'[q])
      BY <2>2, <2>3 DEF RegistryTypeOK
    <3> QED
      BY <2>3, <3>1 DEF RegistryTypeOK, Registered
  <2>5. wire' = wire
    BY <1>1 DEF RegisterSchema
  <2> QED
    BY <2>4, <2>5 DEF Sent, Registered
<1>2. ASSUME NEW p \in Procs, NEW name \in Names, UnregisterSchema(p, name)
      PROVE  IInv'
  <2> DEFINE old == registry[p]  new == [n \in DOMAIN old \ {name} |-> old[n]]
  <2>1. Registered(new)
    BY DEF RegistryTypeOK, Registered
  <2>2. /\ DOMAIN registry' = Procs /\ registry'[p] = new
        /\ \A q \in Procs : q # p => registry'[q] = registry[q]
    BY <1>2 DEF UnregisterSchema, RegistryTypeOK
  <2>3. RegistryTypeOK'
    <3> HIDE DEF new
    <3>1. \A q \in Procs : Registered(registry'[q])
      BY <2>1, <2>2 DEF RegistryTypeOK
    <3> QED
      BY <2>2, <3>1 DEF RegistryTypeOK, Registered
  <2>4. wire' = wire
    BY <1>2 DEF UnregisterSchema
  <2> QED
    BY <2>3, <2>4 DEF Sent, Registered
<1>3. ASSUME NEW p \in Procs, NEW name \in Names, NEW dict \in ValueChoices, Send(p, name, dict)
      PROVE  IInv'
  <2> DEFINE bytes == Serialize(registry[p], name, dict)
             m == [bytes  |-> bytes.ok,
                   layout |-> Layout(registry[p], name),
                   meant  |-> MeaningOf(registry[p], name, dict)]
  <2>1. ~Failed(bytes) /\ wire' = wire \cup {m} /\ registry' = registry
    BY <1>3 DEF Send
  <2>2. bytes = Done(bytes.ok)
    <3>1. bytes = Joined(Done(<<FormatTag>>),
                         WriteFields(Write(registry[p])[MaxDepth], registry[p][name], dict))
      BY <2>1, Results DEF Serialize
    <3>2. ~Failed(Joined(Done(<<FormatTag>>),
                         WriteFields(Write(registry[p])[MaxDepth], registry[p][name], dict)))
      BY <2>1, <3>1
    <3> QED
      BY <3>1, <3>2, JoinedOk, Results
  <2>3. Sent(m)
    BY <2>2 DEF Sent, RegistryTypeOK
  <2> HIDE DEF m
  <2> QED
    BY <2>1, <2>3 DEF RegistryTypeOK, Registered, Sent
<1>4. CASE UNCHANGED vars
  BY <1>4 DEF vars, RegistryTypeOK, Registered, Sent
<1> QED
  BY <1>1, <1>2, <1>3, <1>4 DEF Next

\* In every reachable state.
LEMMA Invariant ==
  Spec => []IInv
BY IInvInit, IInvNext, PTL DEF Spec

\* Each process maps names to schemas they may have.
THEOREM Typing ==
  Spec => []RegistryTypeOK
<1>1. IInv => RegistryTypeOK
  BY DEF IInv
<1> QED
  BY <1>1, Invariant, PTL

\* What get_schema says of a schema registers that schema again.
THEOREM DescribesItself ==
  Spec => []SelfDescribing
<1>1. IInv => SelfDescribing
  BY RegisteredAreNamed, DescribedIsParsed DEF IInv, RegistryTypeOK, SelfDescribing
<1> QED
  BY <1>1, Invariant, PTL

\* A payload and whoever has a schema of its layout.
LEMMA PayloadIsRead ==
  ASSUME NEW m, Sent(m), NEW others, Registered(others), NEW other,
         Layout(others, other) = m.layout
  PROVE  /\ Deserialize(others, other, m.bytes) = Done(m.meant)
         /\ \A n \in 0..Len(m.bytes) - 1 :
              Failed(Deserialize(others, other, SubSeq(m.bytes, 1, n)))
<1>1. PICK schemas, name, dict :
        /\ Registered(schemas) /\ dict \in ValueChoices
        /\ Serialize(schemas, name, dict) = Done(m.bytes)
        /\ m.layout = Layout(schemas, name)
        /\ m.meant = MeaningOf(schemas, name, dict)
  BY DEF Sent
<1>2. SchemasOK(schemas) /\ SchemasOK(others)
  BY <1>1, RegisteredAreOK
<1>3. (\A k \in DOMAIN dict : dict[k] \in Values) /\ \A v \in Values : WellFormed(v)
  BY <1>1, ValuesAssumption DEF ValuesAssumption
<1>4. ~Failed(Serialize(schemas, name, dict)) /\ Serialize(schemas, name, dict).ok = m.bytes
  BY <1>1, Results
<1> QED
  BY <1>1, <1>2, <1>3, <1>4, SerializedIsRead

\* Whoever has a schema of the sender's layout reads back the values sent.
THEOREM ExchangeHolds ==
  Spec => []Exchange
<1>1. IInv => Exchange
  BY PayloadIsRead DEF IInv, RegistryTypeOK, Exchange, Readers
<1> QED
  BY <1>1, Invariant, PTL

\* A payload cut short anywhere is rejected.
THEOREM TruncationIsDetected ==
  Spec => []TruncationDetected
<1>1. IInv => TruncationDetected
  BY PayloadIsRead DEF IInv, RegistryTypeOK, TruncationDetected, Readers
<1> QED
  BY <1>1, Invariant, PTL
=============================================================================
