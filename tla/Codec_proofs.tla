---------------------------- MODULE Codec_proofs ----------------------------
(***************************************************************************)
(* Proofs about the codec: what is read back from the bytes of a value is  *)
(* what the value means, wherever they stand in a payload, and nothing is  *)
(* read from bytes that were cut short.                                    *)
(***************************************************************************)
EXTENDS Codec, TLAPS

-----------------------------------------------------------------------------
(* The recursive functions of the codec are what their definitions say.    *)

PowStart(x, y, z) == 1
PowStep(x, y, z, sofar, n) == Base * sofar
PowR == INSTANCE Recursion WITH Start <- PowStart, Step <- PowStep

\* The powers of Base.
LEMMA PowDef ==
  Pow[0] = 1 /\ \A n \in Nat : Pow[n + 1] = Base * Pow[n]
<1>1. Pow = PowR!Run(0, 0, 0)
  BY DEF Pow, PowR!Run, PowStart, PowStep
<1>3. /\ PowR!Run(0, 0, 0)[0] = PowStart(0, 0, 0)
      /\ \A n \in Nat : PowR!Run(0, 0, 0)[n + 1] = PowStep(0, 0, 0, PowR!Run(0, 0, 0)[n], n + 1)
  BY PowR!Unfold
<1> QED
  BY <1>1, <1>3 DEF PowStart, PowStep

\* What is left of a number after i bytes.
Left(n) == LET left[i \in Nat] == IF i = 0 THEN n ELSE left[i - 1] \div Base IN left

LeftStart(n, y, z) == n
LeftStep(n, y, z, left, i) == left \div Base
LeftR == INSTANCE Recursion WITH Start <- LeftStart, Step <- LeftStep

\* ToBytes divides by Base, byte by byte.
LEMMA LeftDef ==
  ASSUME NEW n
  PROVE  Left(n)[0] = n /\ \A i \in Nat : Left(n)[i + 1] = Left(n)[i] \div Base
<1>1. Left(n) = LeftR!Run(n, 0, 0)
  BY DEF Left, LeftR!Run, LeftStart, LeftStep
<1>3. /\ LeftR!Run(n, 0, 0)[0] = LeftStart(n, 0, 0)
      /\ \A i \in Nat : LeftR!Run(n, 0, 0)[i + 1] = LeftStep(n, 0, 0, LeftR!Run(n, 0, 0)[i], i + 1)
  BY LeftR!Unfold
<1> QED
  BY <1>1, <1>3 DEF LeftStart, LeftStep

\* What the first i bytes add up to.
Sum(bytes) ==
  LET sum[i \in Nat] == IF i = 0 THEN 0 ELSE sum[i - 1] + bytes[i] * Pow[i - 1] IN sum

SumStart(bytes, y, z) == 0
SumStep(bytes, y, z, sum, i) == sum + bytes[i] * Pow[i - 1]
SumR == INSTANCE Recursion WITH Start <- SumStart, Step <- SumStep

\* FromBytes adds each byte at its weight.
LEMMA SumDef ==
  ASSUME NEW bytes
  PROVE  /\ Sum(bytes)[0] = 0
         /\ \A i \in Nat : Sum(bytes)[i + 1] = Sum(bytes)[i] + bytes[i + 1] * Pow[i]
<1>1. Sum(bytes) = SumR!Run(bytes, 0, 0)
  BY DEF Sum, SumR!Run, SumStart, SumStep
<1>2. \A i \in Nat : (i + 1) - 1 = i
  OBVIOUS
<1>3. /\ SumR!Run(bytes, 0, 0)[0] = SumStart(bytes, 0, 0)
      /\ \A n \in Nat : SumR!Run(bytes, 0, 0)[n + 1] = SumStep(bytes, 0, 0, SumR!Run(bytes, 0, 0)[n], n + 1)
  BY SumR!Unfold
<1> QED
  BY <1>1, <1>2, <1>3 DEF SumStart, SumStep

\* The first n parts of a message.
Pack(parts) ==
  LET upto[n \in Nat] == IF n = 0 THEN Done(<<>>) ELSE Joined(upto[n - 1], parts[n])
  IN  upto

PackStart(parts, y, z) == Done(<<>>)
PackStep(parts, y, z, sofar, n) == Joined(sofar, parts[n])
PackR == INSTANCE Recursion WITH Start <- PackStart, Step <- PackStep

\* Packed joins part after part.
LEMMA PackDef ==
  ASSUME NEW parts
  PROVE  /\ Packed(parts) = Pack(parts)[Len(parts)]
         /\ Pack(parts)[0] = Done(<<>>)
         /\ \A n \in Nat : Pack(parts)[n + 1] = Joined(Pack(parts)[n], parts[n + 1])
<1>1. Pack(parts) = PackR!Run(parts, 0, 0)
  BY DEF Pack, PackR!Run, PackStart, PackStep
<1>2. Packed(parts) = Pack(parts)[Len(parts)]
  BY DEF Packed, Pack
<1>3. /\ PackR!Run(parts, 0, 0)[0] = PackStart(parts, 0, 0)
      /\ \A n \in Nat : PackR!Run(parts, 0, 0)[n + 1] = PackStep(parts, 0, 0, PackR!Run(parts, 0, 0)[n], n + 1)
  BY PackR!Unfold
<1> QED
  BY <1>1, <1>2, <1>3 DEF PackStart, PackStep

\* What the first n fields, or items, are read as.
FieldsRead(read, fields, at) ==
  LET upto[n \in Nat] ==
        IF n = 0 THEN Got(<<>>, at) ELSE ReadField(read, upto[n - 1], fields[n])
  IN  upto

FieldsStart(read, fields, at) == Got(<<>>, at)
FieldsStep(read, fields, at, sofar, n) == ReadField(read, sofar, fields[n])
FieldsR == INSTANCE Recursion WITH Start <- FieldsStart, Step <- FieldsStep

\* ReadFields reads field after field, each where the one before it stopped.
LEMMA ReadFieldsDef ==
  ASSUME NEW read, NEW fields, NEW at
  PROVE  LET r == FieldsRead(read, fields, at)
         IN  /\ ReadFields(read, fields, at) = r[Len(fields)]
             /\ r[0] = Got(<<>>, at)
             /\ \A n \in Nat : r[n + 1] = ReadField(read, r[n], fields[n + 1])
<1>1. FieldsRead(read, fields, at) = FieldsR!Run(read, fields, at)
  BY DEF FieldsRead, FieldsR!Run, FieldsStart, FieldsStep
<1>2. ReadFields(read, fields, at) = FieldsRead(read, fields, at)[Len(fields)]
  BY DEF ReadFields, FieldsRead
<1>3. /\ FieldsR!Run(read, fields, at)[0] = FieldsStart(read, fields, at)
      /\ \A n \in Nat : FieldsR!Run(read, fields, at)[n + 1] = FieldsStep(read, fields, at, FieldsR!Run(read, fields, at)[n], n + 1)
  BY FieldsR!Unfold
<1> QED
  BY <1>1, <1>2, <1>3 DEF FieldsStart, FieldsStep

ItemsRead(read, t, at) ==
  LET upto[n \in Nat] ==
        IF n = 0 THEN Got(<<>>, at) ELSE ReadItem(read, upto[n - 1], t)
  IN  upto

ItemsStart(read, t, at) == Got(<<>>, at)
ItemsStep(read, t, at, sofar, n) == ReadItem(read, sofar, t)
ItemsR == INSTANCE Recursion WITH Start <- ItemsStart, Step <- ItemsStep

\* ReadItems reads item after item, each where the one before it stopped.
LEMMA ReadItemsDef ==
  ASSUME NEW read, NEW t, NEW at
  PROVE  LET r == ItemsRead(read, t, at)
         IN  /\ \A count : ReadItems(read, t, count, at) = r[count]
             /\ r[0] = Got(<<>>, at)
             /\ \A n \in Nat : r[n + 1] = ReadItem(read, r[n], t)
<1>1. ItemsRead(read, t, at) = ItemsR!Run(read, t, at)
  BY DEF ItemsRead, ItemsR!Run, ItemsStart, ItemsStep
<1>2. \A count : ReadItems(read, t, count, at) = ItemsRead(read, t, at)[count]
  BY DEF ReadItems, ItemsRead
<1>3. /\ ItemsR!Run(read, t, at)[0] = ItemsStart(read, t, at)
      /\ \A n \in Nat : ItemsR!Run(read, t, at)[n + 1] = ItemsStep(read, t, at, ItemsR!Run(read, t, at)[n], n + 1)
  BY ItemsR!Unfold
<1> QED
  BY <1>1, <1>2, <1>3 DEF ItemsStart, ItemsStep

\* What the first n fields mean.
FieldsMeant(means, fields, dict) ==
  LET upto[n \in Nat] ==
        IF n = 0 THEN <<>>
        ELSE With(upto[n - 1], fields[n].name, means[fields[n].type][dict[fields[n].name]])
  IN  upto

MeantStart(means, fields, dict) == <<>>
MeantStep(means, fields, dict, sofar, n) ==
  With(sofar, fields[n].name, means[fields[n].type][dict[fields[n].name]])
MeantR == INSTANCE Recursion WITH Start <- MeantStart, Step <- MeantStep

\* The meaning of a dictionary grows field by field.
LEMMA MeaningOfFieldsDef ==
  ASSUME NEW means, NEW fields, NEW dict
  PROVE  LET m == FieldsMeant(means, fields, dict)
         IN  /\ MeaningOfFields(means, fields, dict) = m[Len(fields)]
             /\ m[0] = <<>>
             /\ \A n \in Nat : m[n + 1] =
                  With(m[n], fields[n + 1].name,
                       means[fields[n + 1].type][dict[fields[n + 1].name]])
<1>1. FieldsMeant(means, fields, dict) = MeantR!Run(means, fields, dict)
  BY DEF FieldsMeant, MeantR!Run, MeantStart, MeantStep
<1>2. MeaningOfFields(means, fields, dict) = FieldsMeant(means, fields, dict)[Len(fields)]
  BY DEF MeaningOfFields, FieldsMeant
<1>3. /\ MeantR!Run(means, fields, dict)[0] = MeantStart(means, fields, dict)
      /\ \A n \in Nat : MeantR!Run(means, fields, dict)[n + 1] = MeantStep(means, fields, dict, MeantR!Run(means, fields, dict)[n], n + 1)
  BY MeantR!Unfold
<1> QED
  BY <1>1, <1>2, <1>3 DEF MeantStart, MeantStep

\* The meaning of a dictionary with one more field.
LEMMA OneFieldMeant ==
  ASSUME NEW means, NEW fields, NEW dict, NEW n \in Nat
  PROVE  FieldsMeant(means, fields, dict)[n + 1]
           = With(FieldsMeant(means, fields, dict)[n], fields[n + 1].name,
                  means[fields[n + 1].type][dict[fields[n + 1].name]])
BY MeaningOfFieldsDef

\* The codec with one more nested call.
WriteStart(schemas, y, z) == [t \in Types |-> [v \in Values |-> TooDeep]]
WriteStep(schemas, y, z, write, d) ==
  [t \in Types |-> [v \in Values |-> WriteValue(schemas, write, t, v)]]
WriteR == INSTANCE Recursion WITH Start <- WriteStart, Step <- WriteStep

\* With no nested call left nothing is written.
LEMMA WriteDef ==
  ASSUME NEW schemas
  PROVE  Write(schemas)[0] = [t \in Types |-> [v \in Values |-> TooDeep]]
<1>1. Write(schemas) = WriteR!Run(schemas, 0, 0)
  BY DEF Write, WriteR!Run, WriteStart, WriteStep
<1>2. WriteR!Run(schemas, 0, 0)[0] = WriteStart(schemas, 0, 0)
  BY WriteR!Unfold
<1> QED
  BY <1>1, <1>2 DEF WriteStart

\* With one more nested call a value is written by WriteValue.
LEMMA OneWrite ==
  ASSUME NEW schemas, NEW d \in Nat, NEW t \in Types, NEW v \in Values
  PROVE  Write(schemas)[d + 1][t][v] = WriteValue(schemas, Write(schemas)[d], t, v)
<1>1. Write(schemas) = WriteR!Run(schemas, 0, 0)
  BY DEF Write, WriteR!Run, WriteStart, WriteStep
<1>2. WriteR!Run(schemas, 0, 0)[d + 1]
        = WriteStep(schemas, 0, 0, WriteR!Run(schemas, 0, 0)[d], d + 1)
  BY WriteR!Unfold
<1>3. ASSUME NEW write
      PROVE  WriteStep(schemas, 0, 0, write, d + 1)[t][v] = WriteValue(schemas, write, t, v)
  BY DEF WriteStep
<1> QED
  BY <1>1, <1>2, <1>3

ReadStart(schemas, bytes, z) == [t \in Types |-> [at \in Nat |-> TooDeep]]
ReadStep(schemas, bytes, z, read, d) ==
  [t \in Types |-> [at \in Nat |-> ReadValue(schemas, bytes, read, t, at)]]
ReadR == INSTANCE Recursion WITH Start <- ReadStart, Step <- ReadStep

\* With one more nested call a value is read by ReadValue.
LEMMA OneRead ==
  ASSUME NEW schemas, NEW bytes, NEW d \in Nat, NEW t \in Types, NEW at \in Nat
  PROVE  Read(schemas, bytes)[d + 1][t][at]
           = ReadValue(schemas, bytes, Read(schemas, bytes)[d], t, at)
<1>1. Read(schemas, bytes) = ReadR!Run(schemas, bytes, 0)
  BY DEF Read, ReadR!Run, ReadStart, ReadStep
<1>2. ReadR!Run(schemas, bytes, 0)[d + 1]
        = ReadStep(schemas, bytes, 0, ReadR!Run(schemas, bytes, 0)[d], d + 1)
  BY ReadR!Unfold
<1>3. ASSUME NEW read
      PROVE  ReadStep(schemas, bytes, 0, read, d + 1)[t][at]
               = ReadValue(schemas, bytes, read, t, at)
  BY DEF ReadStep
<1> QED
  BY <1>1, <1>2, <1>3

MeansStart(schemas, y, z) == [t \in Types |-> [v \in Values |-> v]]
MeansStep(schemas, y, z, means, d) ==
  [t \in Types |-> [v \in Values |-> MeaningOfValue(schemas, means, t, v)]]
MeansR == INSTANCE Recursion WITH Start <- MeansStart, Step <- MeansStep

\* With one more nested call the meaning is that of MeaningOfValue.
LEMMA OneMeaning ==
  ASSUME NEW schemas, NEW d \in Nat, NEW t \in Types, NEW v \in Values
  PROVE  Meaning(schemas)[d + 1][t][v] = MeaningOfValue(schemas, Meaning(schemas)[d], t, v)
<1>1. Meaning(schemas) = MeansR!Run(schemas, 0, 0)
  BY DEF Meaning, MeansR!Run, MeansStart, MeansStep
<1>2. MeansR!Run(schemas, 0, 0)[d + 1]
        = MeansStep(schemas, 0, 0, MeansR!Run(schemas, 0, 0)[d], d + 1)
  BY MeansR!Unfold
<1>3. ASSUME NEW means
      PROVE  MeansStep(schemas, 0, 0, means, d + 1)[t][v] = MeaningOfValue(schemas, means, t, v)
  BY DEF MeansStep
<1> QED
  BY <1>1, <1>2, <1>3

LayoutsStart(schemas, y, z) == [t \in Types |-> [kind |-> t.kind]]
LayoutsStep(schemas, y, z, layouts, d) ==
  [t \in Types |-> LayoutOfType(schemas, layouts, t)]
LayoutsR == INSTANCE Recursion WITH Start <- LayoutsStart, Step <- LayoutsStep

\* With no nested call left the layout of a type is its kind.
LEMMA LayoutsDef ==
  ASSUME NEW schemas
  PROVE  Layouts(schemas)[0] = [t \in Types |-> [kind |-> t.kind]]
<1>1. Layouts(schemas) = LayoutsR!Run(schemas, 0, 0)
  BY DEF Layouts, LayoutsR!Run, LayoutsStart, LayoutsStep
<1>2. LayoutsR!Run(schemas, 0, 0)[0] = LayoutsStart(schemas, 0, 0)
  BY LayoutsR!Unfold
<1> QED
  BY <1>1, <1>2 DEF LayoutsStart

\* With one more nested call the layout is that of LayoutOfType.
LEMMA OneLayout ==
  ASSUME NEW schemas, NEW d \in Nat, NEW t \in Types
  PROVE  Layouts(schemas)[d + 1][t] = LayoutOfType(schemas, Layouts(schemas)[d], t)
<1>1. Layouts(schemas) = LayoutsR!Run(schemas, 0, 0)
  BY DEF Layouts, LayoutsR!Run, LayoutsStart, LayoutsStep
<1>2. LayoutsR!Run(schemas, 0, 0)[d + 1]
        = LayoutsStep(schemas, 0, 0, LayoutsR!Run(schemas, 0, 0)[d], d + 1)
  BY LayoutsR!Unfold
<1>3. ASSUME NEW layouts
      PROVE  LayoutsStep(schemas, 0, 0, layouts, d + 1)[t] = LayoutOfType(schemas, layouts, t)
  BY DEF LayoutsStep
<1> QED
  BY <1>1, <1>2, <1>3

\* ToBytes and FromBytes in terms of Left and Sum.
LEMMA BytesDef ==
  /\ \A n, width : ToBytes(n, width) = [i \in 1..width |-> Left(n)[i - 1] % Base]
  /\ \A bytes : FromBytes(bytes) = Sum(bytes)[Len(bytes)]
BY DEF ToBytes, Left, FromBytes, Sum

-----------------------------------------------------------------------------
(* Numbers come back from their bytes.                                     *)

\* Quotient and remainder make the number.
LEMMA DivMod ==
  ASSUME NEW n \in Int, NEW d \in Nat \ {0}
  PROVE  /\ n \div d \in Int /\ n % d \in 0..d - 1
         /\ n = d * (n \div d) + (n % d)
OBVIOUS

\* The last byte of a number, and the number without it.
LEMMA Digit ==
  ASSUME NEW n \in Int
  PROVE  /\ n \div Base \in Int /\ n % Base \in Byte
         /\ n = Base * (n \div Base) + (n % Base)
<1>1. Base \in Nat \ {0} /\ Byte = 0..Base - 1
  BY CodecAssumption DEF CodecAssumption, Byte
<1> QED
  BY <1>1, DivMod

\* The powers of Base are positive.
LEMMA PowType ==
  \A n \in Nat : Pow[n] \in Nat \ {0}
<1> DEFINE S == {n \in Nat : Pow[n] \in Nat \ {0}}
<1>1. 0 \in S /\ \A n \in S : n + 1 \in S
  <2>1. \A p \in Nat \ {0} : Base * p \in Nat \ {0}
    BY CodecAssumption DEF CodecAssumption
  <2> QED
    BY <2>1, PowDef
<1>2. S = Nat
  <2> HIDE DEF S
  <2> QED
    BY <1>1, PowR!Induction DEF S
<1> QED
  BY <1>2

\* What is left of an integer is an integer.
LEMMA LeftType ==
  ASSUME NEW n \in Int
  PROVE  \A i \in Nat : Left(n)[i] \in Int
<1> DEFINE S == {i \in Nat : Left(n)[i] \in Int}
<1>1. 0 \in S /\ \A i \in S : i + 1 \in S
  BY LeftDef, Digit
<1>2. S = Nat
  <2> HIDE DEF S
  <2> QED
    BY <1>1, PowR!Induction DEF S
<1> QED
  BY <1>2

\* A number of that width is as many bytes.
LEMMA ToBytesType ==
  ASSUME NEW n \in Int, NEW width \in Nat
  PROVE  ToBytes(n, width) \in Seq(Byte) /\ Len(ToBytes(n, width)) = width
<1>1. \A i \in 1..width : Left(n)[i - 1] % Base \in Byte
  BY LeftType, Digit
<1> QED
  BY <1>1, BytesDef

\* Products that the provers do not multiply out.
LEMMA Distribute ==
  ASSUME NEW a \in Int, NEW b \in Int, NEW c \in Int, NEW p \in Int
  PROVE  (a * b + c) * p = b * (a * p) + c * p
OBVIOUS

\* A product grows with its factor.
LEMMA Times ==
  ASSUME NEW a \in Nat, NEW b \in Nat, NEW p \in Nat, a <= b
  PROVE  a * p <= b * p
OBVIOUS

\* After i bytes, what they add up to and what is left make the number.
LEMMA SumOfBytes ==
  ASSUME NEW n \in Int, NEW width \in Nat
  PROVE  LET b == ToBytes(n, width)
         IN  \A i \in 0..width :
               /\ Sum(b)[i] \in 0..Pow[i] - 1
               /\ n = Left(n)[i] * Pow[i] + Sum(b)[i]
<1> DEFINE b == ToBytes(n, width)
           S == {i \in Nat : i <= width =>
                   Sum(b)[i] \in 0..Pow[i] - 1 /\ n = Left(n)[i] * Pow[i] + Sum(b)[i]}
<1>1. 0 \in S
  BY PowDef, SumDef, LeftDef
<1>2. ASSUME NEW i \in S PROVE i + 1 \in S
  <2> SUFFICES ASSUME i + 1 <= width
               PROVE  /\ Sum(b)[i + 1] \in 0..Pow[i + 1] - 1
                      /\ n = Left(n)[i + 1] * Pow[i + 1] + Sum(b)[i + 1]
    OBVIOUS
  <2> DEFINE p == Pow[i]  left == Left(n)[i]  sum == Sum(b)[i]  digit == left % Base
             rest == left \div Base
  <2>1. sum \in 0..p - 1 /\ n = left * p + sum
    OBVIOUS
  <2>2. i + 1 \in 1..width /\ (i + 1) - 1 = i
    OBVIOUS
  <2>3. b[i + 1] = digit
    BY <2>2, BytesDef
  <2>4. Pow[i + 1] = Base * p /\ Left(n)[i + 1] = rest /\ Sum(b)[i + 1] = sum + digit * p
    BY <2>3, PowDef, LeftDef, SumDef
  <2>5. p \in Nat \ {0} /\ left \in Int /\ Base \in Nat
    BY PowType, LeftType, CodecAssumption DEF CodecAssumption
  <2>6. digit \in 0..Base - 1 /\ rest \in Int /\ left = Base * rest + digit
    BY <2>5, Digit DEF Byte
  <2> HIDE DEF p, left, sum, digit, rest
  <2>7. n = rest * (Base * p) + (sum + digit * p)
    <3>1. left * p = rest * (Base * p) + digit * p
      BY <2>5, <2>6, Distribute
    <3> QED
      BY <2>1, <2>5, <2>6, <3>1
  <2>8. sum + digit * p \in 0..(Base * p) - 1
    <3>1. digit * p <= (Base - 1) * p /\ digit * p \in Nat
      BY <2>5, <2>6
    <3>2. (Base - 1) * p = Base * p - p
      BY <2>5
    <3> QED
      BY <2>1, <2>5, <3>1, <3>2
  <2> QED
    BY <2>4, <2>7, <2>8
<1>3. S = Nat
  <2> HIDE DEF S
  <2> QED
    BY <1>1, <1>2, PowR!Induction DEF S
<1> QED
  BY <1>3

\* Equal products of positive factors.
LEMMA Between ==
  ASSUME NEW q \in Int, NEW p \in Nat \ {0}, NEW r \in 0..p - 1
  PROVE  /\ 0 <= q * p + r /\ q * p + r < p => q = 0
         /\ -p <= q * p + r /\ q * p + r < 0 => q = -1
<1>1. q >= 1 => q * p >= p
  OBVIOUS
<1>2. q <= -1 => q * p <= -p
  OBVIOUS
<1>3. q <= -2 => q * p <= -2 * p
  OBVIOUS
<1> QED
  BY <1>1, <1>2, <1>3

\* An integer in the range of its type is read as it was written.
LEMMA IntegerBack ==
  ASSUME NEW n \in Int, NEW t, t.width \in Nat, t.signed \in BOOLEAN, InRange(n, t)
  PROVE  Signed(FromBytes(ToBytes(n, t.width)), t) = n
<1> DEFINE w == t.width  p == Pow[w]  q == Left(n)[w]  r == FromBytes(ToBytes(n, w))
<1>1. p \in Nat \ {0} /\ q \in Int
  BY PowType, LeftType
<1>2. r \in 0..p - 1 /\ n = q * p + r
  <2>1. r = Sum(ToBytes(n, w))[w]
    BY BytesDef, ToBytesType
  <2> QED
    BY <2>1, SumOfBytes
<1> HIDE DEF q, r
<1>3. CASE 0 <= n
  <2>1. n < p
    BY <1>1, <1>3 DEF InRange
  <2>2. q = 0
    BY <2>1, <1>1, <1>2, <1>3, Between
  <2>3. r = n
    BY <2>2, <1>1, <1>2
  <2> QED
    BY <2>3 DEF Signed, r
<1>4. CASE n < 0
  <2>1. t.signed /\ -p <= 2 * n
    BY <1>1, <1>4 DEF InRange
  <2>2. q = -1
    BY <2>1, <1>1, <1>2, <1>4, Between
  <2>3. r = n + p
    BY <2>2, <1>1, <1>2
  <2>4. ~InRange(r, t)
    BY <2>1, <2>3, <1>1 DEF InRange
  <2> QED
    BY <2>1, <2>3, <2>4, <1>1 DEF Signed, r
<1> QED
  BY <1>3, <1>4

\* A length below 2^32 is read as it was written.
LEMMA LengthBack ==
  ASSUME NEW n \in Nat, n < Pow[4]
  PROVE  FromBytes(ToBytes(n, 4)) = n
<1> DEFINE t == UInt(4)
<1>1. t.width = 4 /\ t.signed = FALSE
  BY DEF UInt
<1> HIDE DEF t
<1>2. Signed(FromBytes(ToBytes(n, t.width)), t) = n
  <2>1. InRange(n, t) /\ n \in Int /\ t.width \in Nat /\ t.signed \in BOOLEAN
    <3>1. ~t.signed /\ t.signed \in BOOLEAN
      BY <1>1, Zenon
    <3> QED
      BY <1>1, <3>1 DEF InRange
  <2> QED
    BY <1>1, <2>1, IntegerBack
<1> QED
  BY <1>1, <1>2 DEF Signed

\* The powers of Base that FloatBack and the lengths need.
LEMMA PowersOfHalf ==
  Pow[8] = Pow[4] * Pow[4] /\ Pow[0] = 1 /\ \E half \in Nat : Pow[4] = 2 * half
<1>1. /\ Pow[1] = Base * Pow[0] /\ Pow[2] = Base * Pow[1] /\ Pow[3] = Base * Pow[2]
      /\ Pow[4] = Base * Pow[3] /\ Pow[5] = Base * Pow[4] /\ Pow[6] = Base * Pow[5]
      /\ Pow[7] = Base * Pow[6] /\ Pow[8] = Base * Pow[7] /\ Pow[0] = 1
  BY PowDef
<1> DEFINE p == Pow[4]
<1>2. p \in Nat /\ Base \in Nat /\ Pow[3] \in Nat
  BY PowType, CodecAssumption DEF CodecAssumption
<1>3. p = Base * (Base * (Base * Base))
  BY <1>1, <1>2
<1>4. Pow[8] = Base * (Base * (Base * (Base * p)))
  BY <1>1
<1>5. Pow[8] = p * p
  <2>1. Base * (Base * (Base * (Base * p))) = (Base * (Base * (Base * Base))) * p
    BY <1>2
  <2> QED
    BY <2>1, <1>3, <1>4
<1>6. PICK k \in Nat : Base = 2 * k
  <2>1. Base = 2 * (Base \div 2) /\ Base \div 2 \in Nat
    BY CodecAssumption DEF CodecAssumption
  <2> QED
    BY <2>1
<1>7. p = 2 * (k * Pow[3]) /\ k * Pow[3] \in Nat
  BY <1>1, <1>2, <1>6
<1> QED
  BY <1>1, <1>5, <1>7

\* A float is read as what its width keeps of it.
LEMMA FloatBack ==
  ASSUME NEW n \in Int, NEW w \in {4, 8}, InRange(n, SInt(8))
  PROVE  /\ n \div Lost(w) \in Int
         /\ Signed(FromBytes(ToBytes(n \div Lost(w), w)), SInt(w)) * Lost(w) = Rounded(n, w)
<1> DEFINE q == n \div Lost(w)
<1>1. Lost(w) \in Nat \ {0}
  BY PowType DEF Lost
<1>2. q \in Int
  BY <1>1
<1>3. InRange(q, SInt(w))
  <2>1. CASE w = 8
    <3>1. q = n
      BY <2>1, PowersOfHalf DEF Lost
    <3> QED
      BY <3>1, <2>1
  <2>2. CASE w = 4
    <3> DEFINE p == Pow[4]
    <3>1. Lost(w) = p /\ p \in Nat \ {0}
      BY <2>2, PowType DEF Lost
    <3>2. PICK r \in 0..p - 1 : n = p * q + r
      <4> HIDE DEF p
      <4>1. n % p \in 0..p - 1 /\ n = p * (n \div p) + (n % p)
        BY <3>1, DivMod
      <4> QED
        BY <4>1, <3>1
    <3>3. PICK half \in Nat : p = 2 * half
      BY PowersOfHalf
    <3>4. -(p * p) <= 2 * n /\ 2 * n < p * p
      BY PowersOfHalf DEF InRange, SInt
    <3> HIDE DEF p, q
    <3>5. -half <= q
      <4>1. ASSUME q <= -half - 1 PROVE FALSE
        <5>1. p * q <= p * (-half - 1)
          BY <4>1, <3>1, <1>2
        <5>2. p * (-half - 1) = -(p * half) - p
          BY <3>1
        <5>3. 2 * (p * half) = p * p
          BY <3>1, <3>3
        <5> QED
          BY <5>1, <5>2, <5>3, <3>1, <3>2, <3>4, <1>2
      <4> QED
        BY <4>1, <1>2
    <3>6. q < half
      <4>1. ASSUME q >= half PROVE FALSE
        <5>1. p * q >= p * half
          BY <4>1, <3>1, <1>2
        <5>2. 2 * (p * half) = p * p
          BY <3>1, <3>3
        <5> QED
          BY <5>1, <5>2, <3>1, <3>2, <3>4, <1>2
      <4> QED
        BY <4>1, <1>2
    <3>7. -p <= 2 * q /\ 2 * q < p
      BY <3>3, <3>5, <3>6, <1>2
    <3> QED
      BY <3>7, <2>2 DEF InRange, SInt, p
  <2> QED
    BY <2>1, <2>2
<1> DEFINE t == SInt(w)
<1>4. t.width = w /\ t.signed = TRUE /\ w \in Nat
  BY DEF SInt
<1>5. Signed(FromBytes(ToBytes(q, t.width)), t) = q
  <2> HIDE DEF q, t
  <2> QED
    BY <1>2, <1>3, <1>4, IntegerBack DEF t
<1>6. Signed(FromBytes(ToBytes(q, w)), t) = q
  <2> HIDE DEF q, t
  <2> QED
    BY <1>4, <1>5
<1> QED
  BY <1>2, <1>6 DEF Rounded

-----------------------------------------------------------------------------
(* Results.                                                                *)

\* A failure has failed, and a success holds what it was made of.
LEMMA Results ==
  /\ \A x : Failed(Fail(x))
  /\ \A x : ~Failed(Done(x)) /\ Done(x).ok = x
  /\ \A x, n : ~Failed(Got(x, n)) /\ Got(x, n).ok = x /\ Got(x, n).next = n
BY DEF Failed, Fail, Done, Got

\* What two writers make is the bytes of both, if neither fails.
LEMMA JoinedOk ==
  ASSUME NEW r, NEW s, ~Failed(Joined(r, s))
  PROVE  ~Failed(r) /\ ~Failed(s) /\ Joined(r, s) = Done(r.ok \o s.ok)
BY DEF Joined

-----------------------------------------------------------------------------
(* Bytes in a payload, and what a reader that starts there must answer.    *)

\* The bytes b are in the payload w from `at' on, or as far as w goes.
Matches(w, at, b) ==
  /\ at - 1 + Len(b) <= Len(w)
  /\ \A i \in 1..Len(b) : w[at - 1 + i] = b[i]

CutOff(w, at, b) ==
  /\ at - 1 <= Len(w) /\ Len(w) < at - 1 + Len(b)
  /\ \A i \in 1..Len(b) : at - 1 + i <= Len(w) => w[at - 1 + i] = b[i]

\* The result r of reading the bytes b, which mean x.
Right(r, w, at, b, x) ==
  /\ Matches(w, at, b) => r = Got(x, at + Len(b))
  /\ CutOff(w, at, b) => Failed(r)

\* Bytes that stand in a payload, or are cut off by its end, part by part.
LEMMA MatchesConcat ==
  ASSUME NEW w \in Seq(Byte), NEW at \in Nat \ {0},
         NEW b \in Seq(Byte), NEW c \in Seq(Byte)
  PROVE  /\ Matches(w, at, b \o c) => Matches(w, at, b) /\ Matches(w, at + Len(b), c)
         /\ CutOff(w, at, b \o c) =>
              CutOff(w, at, b) \/ (Matches(w, at, b) /\ CutOff(w, at + Len(b), c))
         /\ Len(b \o c) = Len(b) + Len(c) /\ b \o c \in Seq(Byte)
<1> DEFINE bc == b \o c
<1>1. /\ bc \in Seq(Byte) /\ Len(bc) = Len(b) + Len(c)
      /\ Len(b) \in Nat /\ Len(c) \in Nat /\ Len(w) \in Nat
  OBVIOUS
<1>2. \A i \in 1..Len(b) : i \in 1..Len(bc) /\ bc[i] = b[i]
  BY <1>1
<1>3. \A i \in 1..Len(c) : Len(b) + i \in 1..Len(bc) /\ bc[Len(b) + i] = c[i]
  BY <1>1
<1> HIDE DEF bc
<1>4. \A i \in 1..Len(c) : (at + Len(b)) - 1 + i = at - 1 + (Len(b) + i)
  BY <1>1
<1>5. ASSUME Matches(w, at, bc) PROVE Matches(w, at, b) /\ Matches(w, at + Len(b), c)
  BY <1>1, <1>2, <1>3, <1>4, <1>5 DEF Matches
<1>6. ASSUME CutOff(w, at, bc)
      PROVE  CutOff(w, at, b) \/ (Matches(w, at, b) /\ CutOff(w, at + Len(b), c))
  <2>1. \A i \in 1..Len(b) : at - 1 + i <= Len(w) => w[at - 1 + i] = b[i]
    BY <1>2, <1>6 DEF CutOff
  <2>2. CASE Len(w) < at - 1 + Len(b)
    <3>1. at - 1 <= Len(w)
      BY <1>6 DEF CutOff
    <3>2. CutOff(w, at, b)
      BY <2>1, <2>2, <3>1 DEF CutOff
    <3> QED
      BY <3>2
  <2>3. CASE at - 1 + Len(b) <= Len(w)
    <3>1. Matches(w, at, b)
      BY <1>1, <2>1, <2>3 DEF Matches
    <3>2. CutOff(w, at + Len(b), c)
      <4>1. \A i \in 1..Len(c) :
              (at + Len(b)) - 1 + i <= Len(w) => w[(at + Len(b)) - 1 + i] = c[i]
        BY <1>1, <1>3, <1>4, <1>6 DEF CutOff
      <4>2. (at + Len(b)) - 1 <= Len(w) /\ Len(w) < (at + Len(b)) - 1 + Len(c)
        BY <1>1, <1>6, <2>3 DEF CutOff
      <4> QED
        BY <4>1, <4>2 DEF CutOff
    <3> QED
      BY <3>1, <3>2
  <2> QED
    BY <1>1, <2>2, <2>3
<1> QED
  BY <1>1, <1>5, <1>6 DEF bc

\* A reader that goes on where another one stopped.
LEMMA Continue ==
  ASSUME NEW w \in Seq(Byte), NEW at \in Nat \ {0},
         NEW b \in Seq(Byte), NEW c \in Seq(Byte),
         NEW r, NEW x, Right(r, w, at, b, x),
         NEW s, NEW y, Right(s, w, at + Len(b), c, y),
         NEW q, NEW z,
         Failed(r) => Failed(q),
         r = Got(x, at + Len(b)) /\ Failed(s) => Failed(q),
         /\ r = Got(x, at + Len(b))
         /\ s = Got(y, at + Len(b) + Len(c))
         => q = Got(z, at + Len(b) + Len(c))
  PROVE  Right(q, w, at, b \o c, z)
<1>1. at + Len(b \o c) = at + Len(b) + Len(c)
  BY MatchesConcat
<1> QED
  BY <1>1, MatchesConcat DEF Right

\* A function on an interval from 1 is a sequence.
LEMMA FunctionIsSequence ==
  ASSUME NEW X, NEW m \in Nat, NEW f \in [1..m -> X]
  PROVE  f \in Seq(X) /\ Len(f) = m
<1>1. \A i \in 1..m : f[i] \in X
  OBVIOUS
<1>2. f = [i \in 1..m |-> f[i]]
  OBVIOUS
<1> DEFINE g == [i \in 1..m |-> f[i]]
<1>3. g \in Seq(X) /\ Len(g) = m
  BY <1>1
<1> QED
  BY <1>2, <1>3

\* Sequences with the same members are the same.
LEMMA SameSequence ==
  ASSUME NEW S, NEW s \in Seq(S), NEW t \in Seq(S), Len(s) = Len(t),
         \A i \in 1..Len(s) : s[i] = t[i]
  PROVE  s = t
<1>1. s = [i \in 1..Len(s) |-> s[i]] /\ t = [i \in 1..Len(t) |-> t[i]]
  OBVIOUS
<1>2. [i \in 1..Len(s) |-> s[i]] = [i \in 1..Len(t) |-> t[i]]
  OBVIOUS
<1> QED
  BY <1>1, <1>2, Zenon

\* As many bytes as were written are the bytes that were written.
LEMMA ReadBytesRight ==
  ASSUME NEW w \in Seq(Byte), NEW at \in Nat \ {0}, NEW b \in Seq(Byte)
  PROVE  Right(ReadBytes(w, at, Len(b)), w, at, b, b)
<1> USE DEF ReadBytes
<1>0. Len(w) \in Nat /\ Len(b) \in Nat
  OBVIOUS
<1>1. ASSUME Matches(w, at, b) PROVE ReadBytes(w, at, Len(b)) = Got(b, at + Len(b))
  <2>1. at + Len(b) <= Len(w) + 1
    BY <1>1 DEF Matches
  <2>2. SubSeq(w, at, at + Len(b) - 1) = b
    <3> DEFINE sub == SubSeq(w, at, at + Len(b) - 1)
    <3>1. sub \in Seq(Byte) /\ Len(sub) = Len(b)
      BY <2>1
    <3>2. \A i \in 1..Len(b) : sub[i] = b[i]
      BY <2>1, <1>1 DEF Matches
    <3> HIDE DEF sub
    <3> QED
      BY <3>1, <3>2, SameSequence DEF sub
  <2> QED
    <3>1. ~(at + Len(b) > Len(w) + 1)
      BY <1>0, <2>1
    <3> QED
      BY <3>1, <2>2
<1>2. ASSUME CutOff(w, at, b) PROVE Failed(ReadBytes(w, at, Len(b)))
  <2>1. at + Len(b) > Len(w) + 1
    BY <1>0, <1>2 DEF CutOff
  <2> QED
    BY <2>1, Results
<1> QED
  BY <1>1, <1>2 DEF Right

-----------------------------------------------------------------------------
(* Sequences of fields and of items.                                       *)

\* Whatever is written by `write' is read by `read' as what it means, from
\* wherever it stands in w, by whoever gives it a type of the same layout.
Faithful(write, means, layouts, read, layouts2, w) ==
  \A t \in Types, u \in Types, v \in Values :
    layouts[t] = layouts2[u] /\ ~Failed(write[t][v]) =>
      /\ write[t][v].ok \in Seq(Byte)
      /\ \A at \in Nat \ {0} :
           Right(read[u][at], w, at, write[t][v].ok, means[t][v])

\* What Faithful says of one value, written with one type and read with another.
LEMMA OneFaithful ==
  ASSUME NEW write, NEW means, NEW layouts, NEW read, NEW layouts2, NEW w,
         Faithful(write, means, layouts, read, layouts2, w),
         NEW t \in Types, NEW u \in Types, NEW v \in Values, NEW at \in Nat \ {0},
         layouts[t] = layouts2[u], ~Failed(write[t][v])
  PROVE  /\ write[t][v].ok \in Seq(Byte)
         /\ Right(read[u][at], w, at, write[t][v].ok, means[t][v])
BY Zenon DEF Faithful

FieldsOK(fields) ==
  /\ Len(fields) \in Nat
  /\ \A i \in 1..Len(fields) : fields[i].type \in Types

\* A field is not read after a failure, and is added to what was read.
LEMMA ReadFieldCases ==
  ASSUME NEW read, NEW f, NEW r
  PROVE  /\ Failed(r) => Failed(ReadField(read, r, f))
         /\ \A x, at : r = Got(x, at) =>
              LET s == read[f.type][at]
              IN  /\ Failed(s) => Failed(ReadField(read, r, f))
                  /\ \A y, next : s = Got(y, next) =>
                       ReadField(read, r, f) = Got(With(x, f.name, y), next)
<1>1. Failed(r) => Failed(ReadField(read, r, f))
  BY DEF ReadField
<1>2. ASSUME NEW x, NEW at, r = Got(x, at)
      PROVE  ReadField(read, r, f) =
               IF Failed(read[f.type][at]) THEN read[f.type][at]
               ELSE Got(With(x, f.name, read[f.type][at].ok), read[f.type][at].next)
  BY <1>2, Results DEF ReadField, Map
<1> QED
  BY <1>1, <1>2, Results

\* An item is not read after a failure, and is added to what was read.
LEMMA ReadItemCases ==
  ASSUME NEW read, NEW t, NEW r
  PROVE  /\ Failed(r) => Failed(ReadItem(read, r, t))
         /\ \A x, at : r = Got(x, at) =>
              LET s == read[t][at]
              IN  /\ Failed(s) => Failed(ReadItem(read, r, t))
                  /\ \A y, next : s = Got(y, next) =>
                       ReadItem(read, r, t) = Got(Append(x, y), next)
<1>1. Failed(r) => Failed(ReadItem(read, r, t))
  BY DEF ReadItem
<1>2. ASSUME NEW x, NEW at, r = Got(x, at)
      PROVE  ReadItem(read, r, t) =
               IF Failed(read[t][at]) THEN read[t][at]
               ELSE Got(Append(x, read[t][at].ok), read[t][at].next)
  BY <1>2, Results DEF ReadItem, Map
<1> QED
  BY <1>1, <1>2, Results

\* Fields of the same layout have, one by one, the same name and layout.
LEMMA SameLayoutOfFields ==
  ASSUME NEW layouts, NEW layouts2, NEW fields, NEW others,
         FieldsOK(fields), FieldsOK(others),
         LayoutOfFields(layouts, fields) = LayoutOfFields(layouts2, others)
  PROVE  /\ Len(fields) = Len(others)
         /\ \A i \in 1..Len(fields) :
              /\ fields[i].name = others[i].name
              /\ layouts[fields[i].type] = layouts2[others[i].type]
<1> DEFINE F == LayoutOfFields(layouts, fields)
           G == LayoutOfFields(layouts2, others)
<1>1. DOMAIN F = 1..Len(fields) /\ DOMAIN G = 1..Len(others)
  BY DEF LayoutOfFields
<1>2. Len(fields) = Len(others)
  BY <1>1 DEF FieldsOK
<1>3. ASSUME NEW i \in 1..Len(fields)
      PROVE  /\ fields[i].name = others[i].name
             /\ layouts[fields[i].type] = layouts2[others[i].type]
  <2>1. F[i] = Field(fields[i].name, layouts[fields[i].type])
    BY DEF LayoutOfFields
  <2>2. G[i] = Field(others[i].name, layouts2[others[i].type])
    BY <1>2 DEF LayoutOfFields
  <2> QED
    BY <2>1, <2>2 DEF Field
<1> QED
  BY <1>2, <1>3

\* The fields that were written are read back one after the other.
LEMMA FieldsRight ==
  ASSUME NEW write, NEW means, NEW layouts, NEW read, NEW layouts2, NEW w \in Seq(Byte),
         Faithful(write, means, layouts, read, layouts2, w),
         NEW fields, FieldsOK(fields), NEW others, FieldsOK(others),
         LayoutOfFields(layouts, fields) = LayoutOfFields(layouts2, others),
         NEW dict, \A k \in DOMAIN dict : dict[k] \in Values,
         ~Failed(WriteFields(write, fields, dict)),
         NEW at \in Nat \ {0}
  PROVE  LET b == WriteFields(write, fields, dict).ok
         IN  /\ b \in Seq(Byte)
             /\ Right(ReadFields(read, others, at), w, at, b,
                      MeaningOfFields(means, fields, dict))
<1> DEFINE parts == [i \in 1..Len(fields) |->
              IF fields[i].name \in DOMAIN dict
              THEN write[fields[i].type][dict[fields[i].name]]
              ELSE Fail("missing field")]
           P(n) == Pack(parts)[n]
           R(n) == FieldsRead(read, others, at)[n]
           M(n) == FieldsMeant(means, fields, dict)[n]
           Holds(n) == P(n).ok \in Seq(Byte) /\ Right(R(n), w, at, P(n).ok, M(n))
           S == {n \in Nat : n <= Len(fields) /\ ~Failed(P(n)) => Holds(n)}
<1>0. Len(fields) \in Nat /\ Len(others) = Len(fields)
  <2>1. Len(fields) = Len(others)
    BY SameLayoutOfFields
  <2> QED
    BY <2>1 DEF FieldsOK
<1>1. Len(parts) = Len(fields) /\ WriteFields(write, fields, dict) = Packed(parts)
  <2>1. Len(parts) = Len(fields)
    BY <1>0
  <2>2. WriteFields(write, fields, dict) = Packed(parts)
    BY DEF WriteFields
  <2> QED
    BY <2>1, <2>2
<1>2. /\ P(0) = Done(<<>>) /\ P(Len(fields)) = WriteFields(write, fields, dict)
      /\ \A n \in Nat : P(n + 1) = Joined(P(n), parts[n + 1])
  <2> HIDE DEF parts
  <2>1. P(0) = Done(<<>>) /\ \A n \in Nat : P(n + 1) = Joined(P(n), parts[n + 1])
    BY PackDef
  <2>2. Packed(parts) = P(Len(parts))
    BY PackDef
  <2> QED
    BY <1>1, <2>1, <2>2
<1>3. /\ R(0) = Got(<<>>, at) /\ R(Len(fields)) = ReadFields(read, others, at)
      /\ \A n \in Nat : R(n + 1) = ReadField(read, R(n), others[n + 1])
  BY <1>0, ReadFieldsDef
<1>4. /\ M(0) = <<>> /\ M(Len(fields)) = MeaningOfFields(means, fields, dict)
      /\ \A n \in Nat : M(n + 1) =
           With(M(n), fields[n + 1].name, means[fields[n + 1].type][dict[fields[n + 1].name]])
  <2>1. /\ FieldsMeant(means, fields, dict)[0] = <<>>
        /\ MeaningOfFields(means, fields, dict) = FieldsMeant(means, fields, dict)[Len(fields)]
    BY MeaningOfFieldsDef
  <2>2. \A n \in Nat : FieldsMeant(means, fields, dict)[n + 1] =
          With(FieldsMeant(means, fields, dict)[n], fields[n + 1].name,
               means[fields[n + 1].type][dict[fields[n + 1].name]])
    BY MeaningOfFieldsDef
  <2> QED
    BY <2>1, <2>2, Zenon
<1>5. \A i \in 1..Len(fields) :
        /\ fields[i].type \in Types /\ others[i].type \in Types
        /\ fields[i].name = others[i].name
        /\ layouts[fields[i].type] = layouts2[others[i].type]
        /\ ~Failed(parts[i]) =>
             /\ fields[i].name \in DOMAIN dict /\ dict[fields[i].name] \in Values
             /\ parts[i] = write[fields[i].type][dict[fields[i].name]]
  <2>1. \A i \in 1..Len(fields) :
          /\ fields[i].name = others[i].name
          /\ layouts[fields[i].type] = layouts2[others[i].type]
    BY SameLayoutOfFields
  <2>2. \A i \in 1..Len(fields) : fields[i].type \in Types /\ others[i].type \in Types
    BY <1>0 DEF FieldsOK
  <2>3. ASSUME NEW i \in 1..Len(fields), ~Failed(parts[i])
        PROVE  /\ fields[i].name \in DOMAIN dict /\ dict[fields[i].name] \in Values
               /\ parts[i] = write[fields[i].type][dict[fields[i].name]]
    BY <2>3, Results
  <2> HIDE DEF parts
  <2> QED
    BY <2>1, <2>2, <2>3
<1> HIDE DEF parts, P, R, M
<1>6. 0 \in S
  <2>1. P(0).ok = <<>> /\ <<>> \in Seq(Byte) /\ Len(<<>>) = 0 /\ at + 0 = at
    BY <1>2, Results
  <2>2. Right(R(0), w, at, P(0).ok, M(0))
    <3>1. ~CutOff(w, at, <<>>)
      BY <2>1 DEF CutOff
    <3> QED
      BY <1>3, <1>4, <2>1, <3>1 DEF Right
  <2> QED
    BY <2>1, <2>2
<1>7. ASSUME NEW n \in S PROVE n + 1 \in S
  <2> SUFFICES ASSUME n + 1 <= Len(fields), ~Failed(P(n + 1)) PROVE Holds(n + 1)
    OBVIOUS
  <2> DEFINE f == fields[n + 1]  g == others[n + 1]  v == dict[f.name]
             b == P(n).ok  c == parts[n + 1].ok
  <2>1. ~Failed(P(n)) /\ ~Failed(parts[n + 1]) /\ P(n + 1).ok = b \o c
    <3>1. P(n + 1) = Joined(P(n), parts[n + 1])
      BY <1>2
    <3>2. ~Failed(Joined(P(n), parts[n + 1]))
      BY <3>1
    <3>3. /\ ~Failed(P(n)) /\ ~Failed(parts[n + 1])
          /\ Joined(P(n), parts[n + 1]) = Done(P(n).ok \o parts[n + 1].ok)
      BY <3>2, JoinedOk
    <3> QED
      BY <3>1, <3>3, Results
  <2>2. Holds(n) /\ n + 1 \in 1..Len(fields)
    BY <1>1, <2>1
  <2>3. /\ f.type \in Types /\ g.type \in Types /\ v \in Values /\ f.name = g.name
        /\ layouts[f.type] = layouts2[g.type] /\ parts[n + 1] = write[f.type][v]
    BY <1>5, <2>1, <2>2
  <2>4. at + Len(b) \in Nat \ {0} /\ b \in Seq(Byte)
    BY <2>2
  <2>5. /\ c \in Seq(Byte)
        /\ Right(read[g.type][at + Len(b)], w, at + Len(b), c, means[f.type][v])
    <3> HIDE DEF f, g, v, b
    <3>1. ~Failed(write[f.type][v]) /\ c = write[f.type][v].ok
      BY <2>1, <2>3
    <3>2. /\ write[f.type][v].ok \in Seq(Byte)
          /\ Right(read[g.type][at + Len(b)], w, at + Len(b),
                   write[f.type][v].ok, means[f.type][v])
      <4> HIDE DEF c, parts, P, R, M, Holds, S
      <4> QED
        BY <2>3, <2>4, <3>1, OneFaithful
    <3> QED
      BY <3>1, <3>2
  <2>6. R(n + 1) = ReadField(read, R(n), g) /\ M(n + 1) = With(M(n), g.name, means[f.type][v])
    BY <1>3, <1>4, <2>3
  <2>7. Right(R(n + 1), w, at, b \o c, M(n + 1))
    <3> HIDE DEF f, g, v, b, c, Holds
    <3>1. Right(R(n), w, at, b, M(n))
      BY <2>2 DEF Holds, b
    <3>2. Failed(R(n)) => Failed(R(n + 1))
      BY <2>6, ReadFieldCases
    <3>3. R(n) = Got(M(n), at + Len(b)) /\ Failed(read[g.type][at + Len(b)]) => Failed(R(n + 1))
      BY <2>6, ReadFieldCases
    <3>4. /\ R(n) = Got(M(n), at + Len(b))
          /\ read[g.type][at + Len(b)] = Got(means[f.type][v], at + Len(b) + Len(c))
          => R(n + 1) = Got(M(n + 1), at + Len(b) + Len(c))
      BY <2>6, ReadFieldCases
    <3>5. b \in Seq(Byte) /\ c \in Seq(Byte)
      BY <2>4, <2>5
    <3>6. Right(read[g.type][at + Len(b)], w, at + Len(b), c, means[f.type][v])
      BY <2>5
    <3> QED
      BY <3>1, <3>2, <3>3, <3>4, <3>5, <3>6, Continue
  <2>8. b \o c \in Seq(Byte)
    BY <2>4, <2>5
  <2> QED
    BY <2>1, <2>7, <2>8
<1>8. S = Nat
  <2> HIDE DEF S
  <2> QED
    BY <1>6, <1>7, PackR!Induction DEF S
<1>9. Holds(Len(fields))
  <2>1. Len(fields) \in S /\ ~Failed(P(Len(fields)))
    BY <1>0, <1>2, <1>8
  <2> QED
    BY <1>0, <2>1
<1> QED
  BY <1>2, <1>3, <1>4, <1>9

ItemsWritten(write, t, items) == [i \in 1..Len(items) |-> write[t][items[i]]]
ItemsMeant(means, t, items)   == [i \in 1..Len(items) |-> means[t][items[i]]]

\* The items that were written are read back one after the other.
LEMMA ItemsRight ==
  ASSUME NEW write, NEW means, NEW layouts, NEW read, NEW layouts2, NEW w \in Seq(Byte),
         Faithful(write, means, layouts, read, layouts2, w),
         NEW t \in Types, NEW u \in Types, layouts[t] = layouts2[u],
         NEW items \in Seq(Values),
         ~Failed(Packed(ItemsWritten(write, t, items))),
         NEW at \in Nat \ {0}
  PROVE  LET b == Packed(ItemsWritten(write, t, items)).ok
         IN  /\ b \in Seq(Byte)
             /\ Right(ReadItems(read, u, Len(items), at), w, at, b, ItemsMeant(means, t, items))
<1> USE DEF ItemsWritten, ItemsMeant
<1> DEFINE parts == [i \in 1..Len(items) |-> write[t][items[i]]]
           P(n) == Pack(parts)[n]
           R(n) == ItemsRead(read, u, at)[n]
           M(n) == [i \in 1..n |-> means[t][items[i]]]
           Holds(n) == P(n).ok \in Seq(Byte) /\ Right(R(n), w, at, P(n).ok, M(n))
           S == {n \in Nat : n <= Len(items) /\ ~Failed(P(n)) => Holds(n)}
<1>1. Len(items) \in Nat /\ Len(parts) = Len(items)
  OBVIOUS
<1>2. /\ P(0) = Done(<<>>) /\ P(Len(items)) = Packed(parts)
      /\ \A n \in Nat : P(n + 1) = Joined(P(n), parts[n + 1])
  <2> HIDE DEF parts
  <2>1. P(0) = Done(<<>>) /\ \A n \in Nat : P(n + 1) = Joined(P(n), parts[n + 1])
    BY PackDef
  <2>2. Packed(parts) = P(Len(parts))
    BY PackDef
  <2> QED
    BY <1>1, <2>1, <2>2
<1>3. /\ R(0) = Got(<<>>, at) /\ R(Len(items)) = ReadItems(read, u, Len(items), at)
      /\ \A n \in Nat : R(n + 1) = ReadItem(read, R(n), u)
  <2>1. ReadItems(read, u, Len(items), at) = R(Len(items)) /\ R(0) = Got(<<>>, at)
    BY ReadItemsDef
  <2>2. \A n \in Nat : R(n + 1) = ReadItem(read, R(n), u)
    BY ReadItemsDef
  <2> QED
    BY <2>1, <2>2
<1>4. /\ M(0) = <<>>
      /\ \A n \in Nat : M(n + 1) = Append(M(n), means[t][items[n + 1]])
  <2>1. ASSUME NEW n \in Nat PROVE M(n + 1) = Append(M(n), means[t][items[n + 1]])
    <3> DEFINE X == {means[t][items[i]] : i \in 1..n + 1}  x == means[t][items[n + 1]]
    <3>1. \A m \in Nat : m <= n + 1 => M(m) \in Seq(X) /\ Len(M(m)) = m
      <4> SUFFICES ASSUME NEW m \in Nat, m <= n + 1 PROVE M(m) \in Seq(X) /\ Len(M(m)) = m
        OBVIOUS
      <4>1. \A i \in 1..m : means[t][items[i]] \in X
        OBVIOUS
      <4>2. M(m) \in [1..m -> X]
        BY <4>1
      <4> HIDE DEF M, X
      <4> QED
        BY <4>2, FunctionIsSequence
    <3>0. n + 1 \in Nat /\ x \in X
      OBVIOUS
    <3>2. \A i \in 1..n + 1 : M(n + 1)[i] = IF i = n + 1 THEN x ELSE M(n)[i]
      OBVIOUS
    <3> HIDE DEF M, X, x
    <3>6. M(n) \in Seq(X) /\ Len(M(n)) = n /\ M(n + 1) \in Seq(X) /\ Len(M(n + 1)) = n + 1
      BY <3>0, <3>1
    <3>3. /\ Append(M(n), x) \in Seq(X) /\ Len(Append(M(n), x)) = n + 1
          /\ \A i \in 1..n + 1 : Append(M(n), x)[i] = IF i = n + 1 THEN x ELSE M(n)[i]
      BY <3>0, <3>6
    <3>4. \A i \in 1..n + 1 : Append(M(n), x)[i] = M(n + 1)[i]
      BY <3>2, <3>3
    <3>5. Append(M(n), x) = M(n + 1)
      BY <3>3, <3>4, <3>6, SameSequence
    <3> QED
      BY <3>5 DEF x
  <2> QED
    BY <2>1
<1>5. \A i \in 1..Len(items) : items[i] \in Values /\ parts[i] = write[t][items[i]]
  OBVIOUS
<1> HIDE DEF parts, P, R, M
<1>6. 0 \in S
  <2>1. P(0).ok = <<>> /\ <<>> \in Seq(Byte) /\ Len(<<>>) = 0 /\ at + 0 = at
    BY <1>2, Results
  <2>2. Right(R(0), w, at, P(0).ok, M(0))
    <3>1. ~CutOff(w, at, <<>>)
      BY <2>1 DEF CutOff
    <3> QED
      BY <1>3, <1>4, <2>1, <3>1 DEF Right
  <2> QED
    BY <2>1, <2>2
<1>7. ASSUME NEW n \in S PROVE n + 1 \in S
  <2> SUFFICES ASSUME n + 1 <= Len(items), ~Failed(P(n + 1)) PROVE Holds(n + 1)
    OBVIOUS
  <2> DEFINE v == items[n + 1]  b == P(n).ok  c == parts[n + 1].ok
  <2>1. ~Failed(P(n)) /\ ~Failed(parts[n + 1]) /\ P(n + 1).ok = b \o c
    <3>1. P(n + 1) = Joined(P(n), parts[n + 1])
      BY <1>2
    <3>2. ~Failed(Joined(P(n), parts[n + 1]))
      BY <3>1
    <3>3. /\ ~Failed(P(n)) /\ ~Failed(parts[n + 1])
          /\ Joined(P(n), parts[n + 1]) = Done(P(n).ok \o parts[n + 1].ok)
      BY <3>2, JoinedOk
    <3> QED
      BY <3>1, <3>3, Results
  <2>2. Holds(n) /\ n + 1 \in 1..Len(items)
    BY <1>1, <2>1
  <2>3. v \in Values /\ parts[n + 1] = write[t][v]
    BY <1>5, <2>2
  <2>4. at + Len(b) \in Nat \ {0} /\ b \in Seq(Byte)
    BY <2>2
  <2>5. /\ c \in Seq(Byte)
        /\ Right(read[u][at + Len(b)], w, at + Len(b), c, means[t][v])
    <3> HIDE DEF v, b
    <3> QED
      BY <2>1, <2>3, <2>4 DEF Faithful
  <2>6. R(n + 1) = ReadItem(read, R(n), u) /\ M(n + 1) = Append(M(n), means[t][v])
    BY <1>3, <1>4
  <2>7. Right(R(n + 1), w, at, b \o c, M(n + 1))
    <3> HIDE DEF v, b, c, Holds
    <3>1. Right(R(n), w, at, b, M(n))
      BY <2>2 DEF Holds, b
    <3>2. Failed(R(n)) => Failed(R(n + 1))
      BY <2>6, ReadItemCases
    <3>3. R(n) = Got(M(n), at + Len(b)) /\ Failed(read[u][at + Len(b)]) => Failed(R(n + 1))
      BY <2>6, ReadItemCases
    <3>4. /\ R(n) = Got(M(n), at + Len(b))
          /\ read[u][at + Len(b)] = Got(means[t][v], at + Len(b) + Len(c))
          => R(n + 1) = Got(M(n + 1), at + Len(b) + Len(c))
      <4> SUFFICES ASSUME R(n) = Got(M(n), at + Len(b)),
                          read[u][at + Len(b)] = Got(means[t][v], at + Len(b) + Len(c))
                   PROVE  R(n + 1) = Got(M(n + 1), at + Len(b) + Len(c))
        OBVIOUS
      <4>1. ReadItem(read, R(n), u) = Got(Append(M(n), means[t][v]), at + Len(b) + Len(c))
        BY ReadItemCases
      <4> QED
        BY <2>6, <4>1
    <3> QED
      BY <2>4, <2>5, <3>1, <3>2, <3>3, <3>4, Continue
  <2>8. b \o c \in Seq(Byte)
    BY <2>4, <2>5
  <2> QED
    BY <2>1, <2>7, <2>8
<1>8. S = Nat
  <2> HIDE DEF S
  <2> QED
    BY <1>6, <1>7, PackR!Induction DEF S
<1>9. Holds(Len(items))
  <2>1. Len(items) \in S /\ ~Failed(P(Len(items)))
    BY <1>1, <1>2, <1>8 DEF parts
  <2> QED
    BY <1>1, <2>1
<1> QED
  BY <1>2, <1>3, <1>9 DEF parts, M

-----------------------------------------------------------------------------
(* Values.                                                                 *)

\* A reader that only makes something of what another one read.
LEMMA Onward ==
  ASSUME NEW w, NEW at, NEW b, NEW r, NEW x, Right(r, w, at, b, x), NEW q, NEW y,
         Failed(r) => Failed(q),
         r = Got(x, at + Len(b)) => q = Got(y, at + Len(b))
  PROVE  Right(q, w, at, b, y)
BY DEF Right

\* Bytes behind their length are read back.
LEMMA ReadSizedRight ==
  ASSUME NEW w \in Seq(Byte), NEW at \in Nat \ {0}, NEW b \in Seq(Byte), Len(b) < Pow[4]
  PROVE  Sized(b) \in Seq(Byte) /\ Right(ReadSized(w, at), w, at, Sized(b), b)
<1> DEFINE len == ToBytes(Len(b), 4)  r == ReadBytes(w, at, 4)
           s == ReadBytes(w, at + Len(len), Len(b))  q == ReadSized(w, at)
<1>1. Len(b) \in Nat
  OBVIOUS
<1>2. len \in Seq(Byte) /\ Len(len) = 4 /\ FromBytes(len) = Len(b)
  <2>1. Len(b) \in Int /\ 4 \in Nat
    BY <1>1
  <2>2. len \in Seq(Byte) /\ Len(len) = 4
    BY <2>1, ToBytesType
  <2>3. FromBytes(len) = Len(b)
    BY <1>1, LengthBack
  <2> QED
    BY <2>2, <2>3
<1> HIDE DEF len
<1>3. at + Len(len) \in Nat \ {0} /\ at + Len(len) = at + 4
  BY <1>2
<1>4. Right(r, w, at, len, len)
  BY <1>2, ReadBytesRight
<1>5. Right(s, w, at + Len(len), b, b)
  BY <1>3, ReadBytesRight
<1>6. Failed(r) => Failed(q)
  BY DEF ReadSized
<1>7. r = Got(len, at + Len(len)) => q = s
  BY <1>2, Results DEF ReadSized
<1>8. Right(q, w, at, len \o b, b)
  <2> HIDE DEF r, s, q
  <2> QED
    BY <1>2, <1>4, <1>5, <1>6, <1>7, Continue
<1> QED
  BY <1>2, <1>8 DEF Sized, len

\* What a type is made of.
LEMMA TypeCases ==
  ASSUME NEW t \in Types
  PROVE  /\ t.kind \in {"bool", "int", "float", "string", "bytes", "array", "struct", "time", "duration"}
         /\ t.kind = "int" => t.width \in {1, 2, 4, 8} /\ t.signed \in BOOLEAN
         /\ t.kind = "float" => t.width \in {4, 8}
         /\ t.kind = "struct" => t.name \in StructNames
         /\ t.kind = "array" => t.rank \in Nat \ {0} /\ t.of \in ElementTypes /\ ItemType(t) \in Types
<1> USE DEF ElementTypes, Bool, Text, Blob, Time, Duration, Flt
<1>1. CASE t \in ElementTypes
  BY <1>1
<1>2. CASE t \in [kind : {"array"}, rank : Nat \ {0}, of : ElementTypes]
  <2>1. t.kind = "array" /\ t.rank \in Nat \ {0} /\ t.of \in ElementTypes
    BY <1>2
  <2>2. ItemType(t) \in Types
    <3>1. t.rank # 1 => t.rank - 1 \in Nat \ {0}
      BY <2>1
    <3> HIDE DEF ElementTypes
    <3> QED
      BY <2>1, <3>1 DEF ItemType, Array, Types
  <2> QED
    BY <2>1, <2>2
<1> QED
  BY <1>1, <1>2 DEF Types

\* A layout says which kind of type it is of.
LEMMA LayoutKind ==
  ASSUME NEW schemas, NEW layouts, NEW t \in Types
  PROVE  LayoutOfType(schemas, layouts, t).kind = t.kind
<1>1. CASE t.kind = "array"
  BY <1>1 DEF LayoutOfType
<1>2. CASE t.kind = "struct"
  BY <1>2 DEF LayoutOfType
<1>3. CASE t.kind # "array" /\ t.kind # "struct"
  BY <1>3 DEF LayoutOfType
<1> QED
  BY <1>1, <1>2, <1>3

\* The values whose types hold no others.
LEMMA BoolRight ==
  ASSUME NEW schemas, NEW others, NEW write, NEW means, NEW read,
         NEW w \in Seq(Byte), NEW at \in Nat \ {0},
         NEW t, t.kind = "bool", NEW v, WellFormed(v),
         ~Failed(WriteValue(schemas, write, t, v))
  PROVE  LET b == WriteValue(schemas, write, t, v).ok
         IN  /\ b \in Seq(Byte)
             /\ Right(ReadValue(others, w, read, t, at), w, at, b,
                      MeaningOfValue(schemas, means, t, v))
<1> DEFINE b == <<v.bool>>  r == ReadBytes(w, at, 1)  q == ReadValue(others, w, read, t, at)
<1>1. /\ Is(v, "bool") /\ v = PyBool(v.bool) /\ v.bool \in {0, 1}
      /\ WriteValue(schemas, write, t, v) = Done(b)
  <2>1. Is(v, "bool")
    BY Results DEF WriteValue, Mismatch
  <2> QED
    BY <2>1 DEF WriteValue, WellFormed
<1>2. b \in Seq(Byte) /\ Len(b) = 1
  BY <1>1, CodecAssumption DEF CodecAssumption, Byte
<1>3. Right(r, w, at, b, b)
  BY <1>2, ReadBytesRight
<1>4. q = IF Failed(r) THEN r ELSE Got(PyBool(IF r.ok = <<0>> THEN 0 ELSE 1), r.next)
  BY DEF ReadValue, Map
<1>5. Failed(r) => Failed(q)
  BY <1>4
<1>6. r = Got(b, at + Len(b)) => q = Got(v, at + Len(b))
  <2>1. PyBool(IF b = <<0>> THEN 0 ELSE 1) = v
    <3>1. CASE v.bool = 0
      BY <1>1, <3>1
    <3>2. CASE v.bool = 1
      <4>1. <<1>> # <<0>>
        OBVIOUS
      <4> QED
        BY <1>1, <3>2, <4>1
    <3> QED
      BY <1>1, <3>1, <3>2
  <2> HIDE DEF b, r, q
  <2> SUFFICES ASSUME r = Got(b, at + Len(b)) PROVE q = Got(v, at + Len(b))
    OBVIOUS
  <2>2. ~Failed(r) /\ r.ok = b /\ r.next = at + Len(b)
    BY Results
  <2> QED
    BY <1>4, <2>1, <2>2
<1>7. MeaningOfValue(schemas, means, t, v) = v
  BY DEF MeaningOfValue
<1>8. Right(q, w, at, b, v)
  <2> HIDE DEF b, r, q
  <2> QED
    BY <1>3, <1>5, <1>6, Onward
<1> QED
  BY <1>1, <1>2, <1>7, <1>8, Results

\* An integer is read back.
LEMMA IntRight ==
  ASSUME NEW schemas, NEW others, NEW write, NEW means, NEW read,
         NEW w \in Seq(Byte), NEW at \in Nat \ {0},
         NEW t \in Types, t.kind = "int", NEW v, WellFormed(v),
         ~Failed(WriteValue(schemas, write, t, v))
  PROVE  LET b == WriteValue(schemas, write, t, v).ok
         IN  /\ b \in Seq(Byte)
             /\ Right(ReadValue(others, w, read, t, at), w, at, b,
                      MeaningOfValue(schemas, means, t, v))
<1> DEFINE n == Integer(v)  b == ToBytes(n, t.width)
           r == ReadBytes(w, at, t.width)  q == ReadValue(others, w, read, t, at)
<1>1. IsInteger(v) /\ InRange(n, t) /\ WriteValue(schemas, write, t, v) = Done(b)
  <2>1. IsInteger(v) /\ InRange(n, t)
    BY Results DEF WriteValue, Mismatch
  <2> QED
    BY <2>1 DEF WriteValue
<1>2. n \in Int /\ t.width \in Nat /\ t.signed \in BOOLEAN
  <2>1. n \in Int
    BY <1>1 DEF IsInteger, Integer, WellFormed
  <2> QED
    BY <2>1, TypeCases
<1>3. b \in Seq(Byte) /\ Len(b) = t.width
  BY <1>2, ToBytesType
<1>4. Signed(FromBytes(b), t) = n
  BY <1>1, <1>2, IntegerBack
<1>5. q = IF Failed(r) THEN r ELSE Got(PyInt(Signed(FromBytes(r.ok), t)), r.next)
  BY DEF ReadValue, Map
<1>6. MeaningOfValue(schemas, means, t, v) = PyInt(n)
  BY DEF MeaningOfValue
<1> HIDE DEF b, n, q
<1>7. Right(r, w, at, b, b)
  BY <1>3, ReadBytesRight
<1> HIDE DEF r
<1>8. r = Got(b, at + Len(b)) => q = Got(PyInt(n), at + Len(b))
  <2> SUFFICES ASSUME r = Got(b, at + Len(b)) PROVE q = Got(PyInt(n), at + Len(b))
    OBVIOUS
  <2>1. ~Failed(r) /\ r.ok = b /\ r.next = at + Len(b)
    BY Results
  <2> QED
    BY <1>4, <1>5, <2>1
<1>9. Right(q, w, at, b, PyInt(n))
  BY <1>5, <1>7, <1>8, Onward
<1> QED
  BY <1>1, <1>3, <1>6, <1>9, Results DEF b, n, q

\* A float is read back, rounded to its width.
LEMMA FloatRight ==
  ASSUME NEW schemas, NEW others, NEW write, NEW means, NEW read,
         NEW w \in Seq(Byte), NEW at \in Nat \ {0},
         NEW t \in Types, t.kind = "float", NEW v, WellFormed(v),
         ~Failed(WriteValue(schemas, write, t, v))
  PROVE  LET b == WriteValue(schemas, write, t, v).ok
         IN  /\ b \in Seq(Byte)
             /\ Right(ReadValue(others, w, read, t, at), w, at, b,
                      MeaningOfValue(schemas, means, t, v))
<1> DEFINE n == NumberOf(v)  b == ToBytes(n \div Lost(t.width), t.width)
           r == ReadBytes(w, at, t.width)  q == ReadValue(others, w, read, t, at)
           x == PyFloat(Rounded(n, t.width))
<1>1. IsNumber(v) /\ InRange(n, SInt(8)) /\ WriteValue(schemas, write, t, v) = Done(b)
  <2>1. IsNumber(v) /\ InRange(n, SInt(8))
    BY Results DEF WriteValue, Mismatch
  <2> QED
    BY <2>1 DEF WriteValue
<1>2. n \in Int /\ t.width \in {4, 8}
  <2>1. n \in Int
    BY <1>1 DEF IsNumber, IsInteger, NumberOf, Integer, WellFormed
  <2> QED
    BY <2>1, TypeCases
<1>3. /\ n \div Lost(t.width) \in Int
      /\ Signed(FromBytes(b), SInt(t.width)) * Lost(t.width) = Rounded(n, t.width)
  BY <1>1, <1>2, FloatBack
<1>4. b \in Seq(Byte) /\ Len(b) = t.width
  <2>1. t.width \in Nat
    BY <1>2
  <2> QED
    BY <2>1, <1>3, ToBytesType
<1>5. q = IF Failed(r) THEN r
          ELSE Got(PyFloat(Signed(FromBytes(r.ok), SInt(t.width)) * Lost(t.width)), r.next)
  BY DEF ReadValue, Map
<1>6. MeaningOfValue(schemas, means, t, v) = x
  BY DEF MeaningOfValue
<1>10. PyFloat(Signed(FromBytes(b), SInt(t.width)) * Lost(t.width)) = x
  BY <1>3
<1> HIDE DEF b, n, q, x
<1>7. Right(r, w, at, b, b)
  BY <1>4, ReadBytesRight
<1> HIDE DEF r
<1>8. r = Got(b, at + Len(b)) => q = Got(x, at + Len(b))
  <2> SUFFICES ASSUME r = Got(b, at + Len(b)) PROVE q = Got(x, at + Len(b))
    OBVIOUS
  <2>1. ~Failed(r) /\ r.ok = b /\ r.next = at + Len(b)
    BY Results
  <2> QED
    BY <1>5, <1>10, <2>1
<1>9. Right(q, w, at, b, x)
  BY <1>5, <1>7, <1>8, Onward
<1> QED
  BY <1>1, <1>4, <1>6, <1>9, Results DEF b, n, q

\* A byte string is read back.
LEMMA BytesRight ==
  ASSUME NEW schemas, NEW others, NEW write, NEW means, NEW read,
         NEW w \in Seq(Byte), NEW at \in Nat \ {0},
         NEW t, t.kind = "bytes", NEW v, WellFormed(v),
         ~Failed(WriteValue(schemas, write, t, v))
  PROVE  LET b == WriteValue(schemas, write, t, v).ok
         IN  /\ b \in Seq(Byte)
             /\ Right(ReadValue(others, w, read, t, at), w, at, b,
                      MeaningOfValue(schemas, means, t, v))
<1> DEFINE b == Sized(v.bytes)  r == ReadSized(w, at)  q == ReadValue(others, w, read, t, at)
<1>1. /\ v = PyBytes(v.bytes) /\ v.bytes \in Seq(Byte) /\ Len(v.bytes) < Pow[4]
      /\ WriteValue(schemas, write, t, v) = Done(b)
  <2>1. Is(v, "bytes")
    BY Results DEF WriteValue, Mismatch
  <2> QED
    BY <2>1 DEF WriteValue, WellFormed
<1>2. b \in Seq(Byte) /\ Right(r, w, at, b, v.bytes)
  BY <1>1, ReadSizedRight
<1>3. q = IF Failed(r) THEN r ELSE Got(PyBytes(r.ok), r.next)
  BY DEF ReadValue, Map
<1>4. MeaningOfValue(schemas, means, t, v) = v
  BY DEF MeaningOfValue
<1> HIDE DEF b, r, q
<1>5. r = Got(v.bytes, at + Len(b)) => q = Got(v, at + Len(b))
  <2> SUFFICES ASSUME r = Got(v.bytes, at + Len(b)) PROVE q = Got(v, at + Len(b))
    OBVIOUS
  <2>1. ~Failed(r) /\ r.ok = v.bytes /\ r.next = at + Len(b)
    BY Results
  <2> QED
    BY <1>1, <1>3, <2>1
<1>6. Right(q, w, at, b, v)
  BY <1>2, <1>3, <1>5, Onward
<1> QED
  BY <1>1, <1>2, <1>4, <1>6, Results DEF q

\* A text is read back: no other has its UTF-8 form.
LEMMA TextRight ==
  ASSUME NEW schemas, NEW others, NEW write, NEW means, NEW read,
         NEW w \in Seq(Byte), NEW at \in Nat \ {0},
         NEW t, t.kind = "string", NEW v, WellFormed(v),
         ~Failed(WriteValue(schemas, write, t, v))
  PROVE  LET b == WriteValue(schemas, write, t, v).ok
         IN  /\ b \in Seq(Byte)
             /\ Right(ReadValue(others, w, read, t, at), w, at, b,
                      MeaningOfValue(schemas, means, t, v))
<1> DEFINE utf8 == Utf8[v.str]  b == Sized(utf8)
           r == ReadSized(w, at)  q == ReadValue(others, w, read, t, at)
<1>1. /\ v = PyStr(v.str) /\ v.str \in DOMAIN Utf8 /\ Len(utf8) < Pow[4]
      /\ WriteValue(schemas, write, t, v) = Done(b)
  <2>1. Is(v, "str") /\ Encodable(v.str)
    BY Results DEF WriteValue, Mismatch
  <2> QED
    BY <2>1 DEF WriteValue, WellFormed, Encodable
<1>2. utf8 \in Seq(Byte) /\ TextsOf(utf8) = {v.str}
  BY <1>1, CodecAssumption DEF CodecAssumption, TextsOf
<1>3. b \in Seq(Byte) /\ Right(r, w, at, b, utf8)
  BY <1>1, <1>2, ReadSizedRight
<1>4. q = IF ~Failed(r) /\ TextsOf(r.ok) = {} THEN Fail("not UTF-8")
          ELSE IF Failed(r) THEN r ELSE Got(PyStr(CHOOSE text \in TextsOf(r.ok) : TRUE), r.next)
  BY DEF ReadValue, Map
<1>5. MeaningOfValue(schemas, means, t, v) = v
  BY DEF MeaningOfValue
<1>6. (CHOOSE text \in TextsOf(utf8) : TRUE) = v.str
  BY <1>2
<1> HIDE DEF b, r, q, utf8
<1>7. r = Got(utf8, at + Len(b)) => q = Got(v, at + Len(b))
  <2> SUFFICES ASSUME r = Got(utf8, at + Len(b)) PROVE q = Got(v, at + Len(b))
    OBVIOUS
  <2>1. ~Failed(r) /\ r.ok = utf8 /\ r.next = at + Len(b)
    BY Results
  <2>2. TextsOf(utf8) # {}
    BY <1>2
  <2>3. q = Got(PyStr(CHOOSE text \in TextsOf(utf8) : TRUE), at + Len(b))
    BY <1>4, <2>1, <2>2
  <2> QED
    BY <1>1, <1>6, <2>3
<1>8. Right(q, w, at, b, v)
  <2>1. Failed(r) => Failed(q)
    BY <1>4
  <2> QED
    BY <1>3, <1>7, <2>1, Onward
<1> QED
  BY <1>1, <1>3, <1>5, <1>8, Results DEF q

\* The values whose types hold others.
LEMMA ArrayRight ==
  ASSUME NEW schemas, NEW others,
         NEW write, NEW means, NEW layouts, NEW read, NEW layouts2, NEW w \in Seq(Byte),
         Faithful(write, means, layouts, read, layouts2, w), NEW at \in Nat \ {0},
         NEW t \in Types, t.kind = "array", NEW u \in Types, u.kind = "array",
         layouts[ItemType(t)] = layouts2[ItemType(u)],
         NEW v, WellFormed(v), ~Failed(WriteValue(schemas, write, t, v))
  PROVE  LET b == WriteValue(schemas, write, t, v).ok
         IN  /\ b \in Seq(Byte)
             /\ Right(ReadValue(others, w, read, u, at), w, at, b,
                      MeaningOfValue(schemas, means, t, v))
<1> DEFINE it == ItemType(t)  iu == ItemType(u)  items == v.list
           len == ToBytes(Len(items), 4)
           packed == Packed(ItemsWritten(write, it, items))
           b == packed.ok
           r == ReadBytes(w, at, 4)
           s == ReadItems(read, iu, Len(items), at + Len(len))
           q == ReadValue(others, w, read, u, at)
           x == ItemsMeant(means, it, items)
<1>1. /\ items \in Seq(Values) /\ Len(items) < Pow[4]
      /\ WriteValue(schemas, write, t, v) = Joined(Done(len), packed)
  <2>1. Is(v, "list")
    BY Results DEF WriteValue, Mismatch
  <2> QED
    BY <2>1 DEF WriteValue, WriteItems, WellFormed, ItemsWritten
<1>2. ~Failed(packed) /\ Joined(Done(len), packed) = Done(len \o b)
  <2>1. ~Failed(Joined(Done(len), packed))
    BY <1>1
  <2> HIDE DEF len, packed
  <2>2. ~Failed(packed) /\ Joined(Done(len), packed) = Done(Done(len).ok \o packed.ok)
    BY <2>1, JoinedOk
  <2> QED
    BY <2>2, Results
<1>3. it \in Types /\ iu \in Types /\ layouts[it] = layouts2[iu]
  BY TypeCases
<1>4. len \in Seq(Byte) /\ Len(len) = 4 /\ FromBytes(len) = Len(items)
  <2>1. Len(items) \in Nat /\ Len(items) \in Int /\ 4 \in Nat
    BY <1>1
  <2>2. len \in Seq(Byte) /\ Len(len) = 4
    BY <2>1, ToBytesType
  <2>3. FromBytes(len) = Len(items)
    BY <1>1, <2>1, LengthBack
  <2> QED
    BY <2>2, <2>3
<1>5. b \in Seq(Byte) /\ Right(s, w, at + Len(len), b, x)
  <2>1. at + Len(len) \in Nat \ {0}
    <3> HIDE DEF len
    <3> QED
      BY <1>4
  <2>2. ~Failed(packed) /\ items \in Seq(Values)
    BY <1>1, <1>2
  <2> HIDE DEF it, iu, items, len
  <2>3. \A a \in Nat \ {0} :
          b \in Seq(Byte) /\ Right(ReadItems(read, iu, Len(items), a), w, a, b, x)
    BY <1>3, <2>2, ItemsRight
  <2> QED
    BY <2>1, <2>3
<1>6. q = IF Failed(r) THEN r
          ELSE LET l == ReadItems(read, iu, FromBytes(r.ok), r.next)
               IN  IF Failed(l) THEN l ELSE Got(PyList(l.ok), l.next)
  BY DEF ReadValue, Map
<1>7. MeaningOfValue(schemas, means, t, v) = PyList(x)
  BY DEF MeaningOfValue, ItemsMeant
<1> HIDE DEF len, r, q, b, x, items
<1>8. Right(r, w, at, len, len)
  BY <1>4, ReadBytesRight DEF r
<1>9. r = Got(len, at + Len(len)) => q = IF Failed(s) THEN s ELSE Got(PyList(s.ok), s.next)
  <2> SUFFICES ASSUME r = Got(len, at + Len(len))
               PROVE  q = IF Failed(s) THEN s ELSE Got(PyList(s.ok), s.next)
    OBVIOUS
  <2>1. ~Failed(r) /\ FromBytes(r.ok) = Len(items) /\ r.next = at + Len(len)
    BY <1>4, Results
  <2> QED
    BY <1>6, <2>1
<1> HIDE DEF s
<1>10. Right(q, w, at, len \o b, PyList(x))
  <2>1. Failed(r) => Failed(q)
    BY <1>6
  <2>2. r = Got(len, at + Len(len)) /\ Failed(s) => Failed(q)
    BY <1>9
  <2>3. r = Got(len, at + Len(len)) /\ s = Got(x, at + Len(len) + Len(b))
        => q = Got(PyList(x), at + Len(len) + Len(b))
    <3> SUFFICES ASSUME r = Got(len, at + Len(len)), s = Got(x, at + Len(len) + Len(b))
                 PROVE  q = Got(PyList(x), at + Len(len) + Len(b))
      OBVIOUS
    <3>1. ~Failed(s) /\ s.ok = x /\ s.next = at + Len(len) + Len(b)
      BY Results
    <3> QED
      BY <1>9, <3>1
  <2> QED
    BY <1>4, <1>5, <1>8, <2>1, <2>2, <2>3, Continue
<1>11. len \o b \in Seq(Byte)
  BY <1>4, <1>5
<1> QED
  BY <1>1, <1>2, <1>7, <1>10, <1>11, Results DEF q

\* A dictionary, whose fields are those of a struct, a time or a duration.
LEMMA DictRight ==
  ASSUME NEW write, NEW means, NEW layouts, NEW read, NEW layouts2, NEW w \in Seq(Byte),
         Faithful(write, means, layouts, read, layouts2, w), NEW at \in Nat \ {0},
         NEW fields, FieldsOK(fields), NEW others, FieldsOK(others),
         LayoutOfFields(layouts, fields) = LayoutOfFields(layouts2, others),
         NEW v, WellFormed(v), Is(v, "dict"), ~Failed(WriteFields(write, fields, v.dict))
  PROVE  LET b == WriteFields(write, fields, v.dict).ok
             r == ReadFields(read, others, at)
         IN  /\ b \in Seq(Byte)
             /\ Right(IF Failed(r) THEN r ELSE Got(PyDict(r.ok), r.next), w, at, b,
                      PyDict(MeaningOfFields(means, fields, v.dict)))
<1> DEFINE b == WriteFields(write, fields, v.dict).ok
           r == ReadFields(read, others, at)
           x == MeaningOfFields(means, fields, v.dict)
           q == IF Failed(r) THEN r ELSE Got(PyDict(r.ok), r.next)
<1>1. \A k \in DOMAIN v.dict : v.dict[k] \in Values
  BY DEF WellFormed
<1>2. b \in Seq(Byte) /\ Right(r, w, at, b, x)
  BY <1>1, FieldsRight
<1>3. Failed(r) => Failed(q)
  OBVIOUS
<1> HIDE DEF b, r, x
<1>4. r = Got(x, at + Len(b)) => q = Got(PyDict(x), at + Len(b))
  <2> SUFFICES ASSUME r = Got(x, at + Len(b)) PROVE q = Got(PyDict(x), at + Len(b))
    OBVIOUS
  <2>1. ~Failed(r) /\ r.ok = x /\ r.next = at + Len(b)
    BY Results
  <2> QED
    BY <2>1
<1>5. Right(q, w, at, b, PyDict(x))
  <2> HIDE DEF q
  <2> QED
    BY <1>2, <1>3, <1>4, Onward
<1> QED
  BY <1>2, <1>5 DEF b, r, x

SchemasOK(schemas) ==
  \A name \in DOMAIN schemas : FieldsOK(schemas[name])

\* Who has a schema of the same layout has one with these fields.
LEMMA SameSchema ==
  ASSUME NEW schemas, NEW name \in DOMAIN schemas, NEW layouts, NEW others, NEW other, NEW layouts2,
         LayoutOfSchema(schemas, layouts, name) = LayoutOfSchema(others, layouts2, other)
  PROVE  /\ other \in DOMAIN others
         /\ LayoutOfFields(layouts, schemas[name]) = LayoutOfFields(layouts2, others[other])
<1>1. LayoutOfSchema(others, layouts2, other)
        = [known |-> TRUE, fields |-> LayoutOfFields(layouts, schemas[name])]
  BY DEF LayoutOfSchema
<1>2. other \in DOMAIN others
  <2>1. [known |-> TRUE, fields |-> LayoutOfFields(layouts, schemas[name])] # [known |-> FALSE]
    OBVIOUS
  <2> QED
    BY <1>1, <2>1 DEF LayoutOfSchema
<1> QED
  BY <1>1, <1>2 DEF LayoutOfSchema

\* A struct is read back under a schema of the same layout.
LEMMA StructRight ==
  ASSUME NEW schemas, SchemasOK(schemas), NEW others, SchemasOK(others),
         NEW write, NEW means, NEW layouts, NEW read, NEW layouts2, NEW w \in Seq(Byte),
         Faithful(write, means, layouts, read, layouts2, w), NEW at \in Nat \ {0},
         NEW t, t.kind = "struct", NEW u, u.kind = "struct",
         LayoutOfSchema(schemas, layouts, t.name) = LayoutOfSchema(others, layouts2, u.name),
         NEW v, WellFormed(v), ~Failed(WriteValue(schemas, write, t, v))
  PROVE  LET b == WriteValue(schemas, write, t, v).ok
         IN  /\ b \in Seq(Byte)
             /\ Right(ReadValue(others, w, read, u, at), w, at, b,
                      MeaningOfValue(schemas, means, t, v))
<1>1. /\ Is(v, "dict") /\ t.name \in DOMAIN schemas
      /\ WriteValue(schemas, write, t, v) = WriteFields(write, schemas[t.name], v.dict)
  <2>1. Is(v, "dict") /\ t.name \in DOMAIN schemas
    BY Results DEF WriteValue, Mismatch
  <2> QED
    BY <2>1 DEF WriteValue
<1>2. /\ u.name \in DOMAIN others
      /\ LayoutOfFields(layouts, schemas[t.name]) = LayoutOfFields(layouts2, others[u.name])
  BY <1>1, SameSchema
<1> DEFINE r == ReadFields(read, others[u.name], at)
<1>3. ReadValue(others, w, read, u, at) = IF Failed(r) THEN r ELSE Got(PyDict(r.ok), r.next)
  BY <1>2 DEF ReadValue, Map
<1>4. MeaningOfValue(schemas, means, t, v) = PyDict(MeaningOfFields(means, schemas[t.name], v.dict))
  BY DEF MeaningOfValue
<1>5. FieldsOK(schemas[t.name]) /\ FieldsOK(others[u.name])
  BY <1>1, <1>2 DEF SchemasOK
<1> QED
  BY <1>1, <1>2, <1>3, <1>4, <1>5, DictRight

\* A time, or a duration, is read back.
LEMMA TimeRight ==
  ASSUME NEW schemas, NEW others,
         NEW write, NEW means, NEW layouts, NEW read, NEW layouts2, NEW w \in Seq(Byte),
         Faithful(write, means, layouts, read, layouts2, w), NEW at \in Nat \ {0},
         NEW t, t.kind \in {"time", "duration"},
         layouts[SInt(4)] = layouts2[SInt(4)], layouts[UInt(4)] = layouts2[UInt(4)],
         NEW v, WellFormed(v), ~Failed(WriteValue(schemas, write, t, v))
  PROVE  LET b == WriteValue(schemas, write, t, v).ok
         IN  /\ b \in Seq(Byte)
             /\ Right(ReadValue(others, w, read, t, at), w, at, b,
                      MeaningOfValue(schemas, means, t, v))
<1>1. /\ Is(v, "dict")
      /\ WriteValue(schemas, write, t, v) = WriteFields(write, TimeFields, v.dict)
  <2>1. Is(v, "dict")
    BY Results DEF WriteValue, Mismatch
  <2> QED
    BY <2>1 DEF WriteValue
<1>2. /\ Len(TimeFields) = 2
      /\ TimeFields[1].type = SInt(4) /\ TimeFields[2].type = UInt(4)
  BY DEF TimeFields, Field
<1>3. FieldsOK(TimeFields)
  <2>1. SInt(4) \in Types /\ UInt(4) \in Types
    BY DEF SInt, UInt, Types, ElementTypes
  <2> QED
    BY <1>2, <2>1 DEF FieldsOK
<1>4. LayoutOfFields(layouts, TimeFields) = LayoutOfFields(layouts2, TimeFields)
  <2>1. \A i \in 1..Len(TimeFields) : layouts[TimeFields[i].type] = layouts2[TimeFields[i].type]
    BY <1>2
  <2> QED
    BY <2>1 DEF LayoutOfFields
<1> DEFINE r == ReadFields(read, TimeFields, at)
<1>5. ReadValue(others, w, read, t, at) = IF Failed(r) THEN r ELSE Got(PyDict(r.ok), r.next)
  BY DEF ReadValue, Map
<1>6. MeaningOfValue(schemas, means, t, v) = PyDict(MeaningOfFields(means, TimeFields, v.dict))
  BY DEF MeaningOfValue
<1> QED
  BY <1>1, <1>3, <1>4, <1>5, <1>6, DictRight

-----------------------------------------------------------------------------
(* The codec.                                                              *)

\* With one more nested call the codec is as good as with one less.
LEMMA OneMoreCall ==
  ASSUME NEW schemas, SchemasOK(schemas), NEW others, SchemasOK(others),
         NEW write, NEW means, NEW layouts, NEW read, NEW layouts2, NEW w \in Seq(Byte),
         Faithful(write, means, layouts, read, layouts2, w),
         layouts[SInt(4)] = layouts2[SInt(4)], layouts[UInt(4)] = layouts2[UInt(4)],
         NEW t \in Types, NEW u \in Types,
         LayoutOfType(schemas, layouts, t) = LayoutOfType(others, layouts2, u),
         NEW v, WellFormed(v), ~Failed(WriteValue(schemas, write, t, v)),
         NEW at \in Nat \ {0}
  PROVE  LET b == WriteValue(schemas, write, t, v).ok
         IN  /\ b \in Seq(Byte)
             /\ Right(ReadValue(others, w, read, u, at), w, at, b,
                      MeaningOfValue(schemas, means, t, v))
<1>1. t.kind = u.kind
  BY LayoutKind
<1>2. CASE t.kind = "array"
  <2>1. layouts[ItemType(t)] = layouts2[ItemType(u)]
    BY <1>1, <1>2 DEF LayoutOfType
  <2> QED
    BY <1>1, <1>2, <2>1, ArrayRight
<1>3. CASE t.kind = "struct"
  <2>1. LayoutOfSchema(schemas, layouts, t.name) = LayoutOfSchema(others, layouts2, u.name)
    BY <1>1, <1>3 DEF LayoutOfType
  <2> QED
    BY <1>1, <1>3, <2>1, StructRight
<1>4. CASE t.kind # "array" /\ t.kind # "struct"
  <2>1. t = u
    BY <1>1, <1>4 DEF LayoutOfType
  <2>2. CASE t.kind = "bool"
    BY <2>1, <2>2, BoolRight
  <2>3. CASE t.kind = "int"
    BY <2>1, <2>3, IntRight
  <2>4. CASE t.kind = "float"
    BY <2>1, <2>4, FloatRight
  <2>5. CASE t.kind = "string"
    BY <2>1, <2>5, TextRight
  <2>6. CASE t.kind = "bytes"
    BY <2>1, <2>6, BytesRight
  <2>7. CASE t.kind \in {"time", "duration"}
    BY <2>1, <2>7, TimeRight
  <2> QED
    BY <1>4, <2>2, <2>3, <2>4, <2>5, <2>6, <2>7, TypeCases
<1> QED
  BY <1>2, <1>3, <1>4

\* The types without parts look the same in every process.
LEMMA SameNumbers ==
  ASSUME NEW schemas, NEW others
  PROVE  \A d \in Nat :
           /\ Layouts(schemas)[d][SInt(4)] = Layouts(others)[d][SInt(4)]
           /\ Layouts(schemas)[d][UInt(4)] = Layouts(others)[d][UInt(4)]
<1>1. /\ SInt(4) \in Types /\ UInt(4) \in Types
      /\ SInt(4).kind = "int" /\ UInt(4).kind = "int"
  BY DEF SInt, UInt, Types, ElementTypes
<1>2. ASSUME NEW s, NEW d \in Nat
      PROVE  /\ Layouts(s)[d][SInt(4)] = IF d = 0 THEN [kind |-> "int"] ELSE SInt(4)
             /\ Layouts(s)[d][UInt(4)] = IF d = 0 THEN [kind |-> "int"] ELSE UInt(4)
  <2>1. CASE d = 0
    <3>1. Layouts(s)[0] = [t \in Types |-> [kind |-> t.kind]]
      BY LayoutsDef
    <3> QED
      BY <1>1, <2>1, <3>1
  <2>2. CASE d # 0
    <3>1. PICK e \in Nat : d = e + 1
      <4>1. d - 1 \in Nat /\ d = (d - 1) + 1
        BY <2>2
      <4> QED
        BY <4>1
    <3>2. \A t \in Types : Layouts(s)[e + 1][t] = LayoutOfType(s, Layouts(s)[e], t)
      BY OneLayout
    <3>3. \A t : t.kind = "int" => LayoutOfType(s, Layouts(s)[e], t) = t
      BY DEF LayoutOfType
    <3> QED
      BY <1>1, <2>2, <3>1, <3>2, <3>3
  <2> QED
    BY <2>1, <2>2
<1> QED
  BY <1>2

\* What one process writes is read as what it means by each whose types have
\* the same layouts, at every depth.
LEMMA CodecIsFaithful ==
  ASSUME NEW schemas, SchemasOK(schemas), NEW others, SchemasOK(others),
         NEW w \in Seq(Byte), \A v \in Values : WellFormed(v)
  PROVE  \A d \in Nat : Faithful(Write(schemas)[d], Meaning(schemas)[d], Layouts(schemas)[d],
                                 Read(others, w)[d], Layouts(others)[d], w)
<1> DEFINE F(d) == Faithful(Write(schemas)[d], Meaning(schemas)[d], Layouts(schemas)[d],
                            Read(others, w)[d], Layouts(others)[d], w)
           S == {d \in Nat : F(d)}
<1>1. 0 \in S
  <2>1. \A t \in Types, v \in Values : Failed(Write(schemas)[0][t][v])
    <3>1. Write(schemas)[0] = [t \in Types |-> [v \in Values |-> TooDeep]]
      BY WriteDef
    <3>2. \A t \in Types, v \in Values : Write(schemas)[0][t][v] = TooDeep
      BY <3>1
    <3> QED
      BY <3>2, Results DEF TooDeep
  <2> QED
    BY <2>1 DEF Faithful
<1>2. ASSUME NEW d \in S PROVE d + 1 \in S
  <2> DEFINE write == Write(schemas)[d]  means == Meaning(schemas)[d]
             layouts == Layouts(schemas)[d]  read == Read(others, w)[d]
             layouts2 == Layouts(others)[d]
  <2>1. d \in Nat /\ Faithful(write, means, layouts, read, layouts2, w)
    OBVIOUS
  <2>2. /\ layouts[SInt(4)] = layouts2[SInt(4)] /\ layouts[UInt(4)] = layouts2[UInt(4)]
    BY <2>1, SameNumbers
  <2>3. \A t \in Types, v \in Values :
          /\ Write(schemas)[d + 1][t][v] = WriteValue(schemas, write, t, v)
          /\ Meaning(schemas)[d + 1][t][v] = MeaningOfValue(schemas, means, t, v)
    BY <2>1, OneWrite, OneMeaning
  <2>5. \A t \in Types :
          /\ Layouts(schemas)[d + 1][t] = LayoutOfType(schemas, layouts, t)
          /\ Layouts(others)[d + 1][t] = LayoutOfType(others, layouts2, t)
    BY <2>1, OneLayout
  <2>6. \A t \in Types, at \in Nat :
          Read(others, w)[d + 1][t][at] = ReadValue(others, w, read, t, at)
    BY <2>1, OneRead
  <2> HIDE DEF write, means, layouts, read, layouts2
  <2>7. ASSUME NEW t \in Types, NEW u \in Types, NEW v \in Values,
               Layouts(schemas)[d + 1][t] = Layouts(others)[d + 1][u],
               ~Failed(Write(schemas)[d + 1][t][v]),
               NEW at \in Nat \ {0}
        PROVE  /\ Write(schemas)[d + 1][t][v].ok \in Seq(Byte)
               /\ Right(Read(others, w)[d + 1][u][at], w, at, Write(schemas)[d + 1][t][v].ok,
                        Meaning(schemas)[d + 1][t][v])
    <3>1. LayoutOfType(schemas, layouts, t) = LayoutOfType(others, layouts2, u)
      BY <2>5, <2>7
    <3>2. ~Failed(WriteValue(schemas, write, t, v)) /\ WellFormed(v)
      BY <2>3, <2>7
    <3>3. /\ WriteValue(schemas, write, t, v).ok \in Seq(Byte)
          /\ Right(ReadValue(others, w, read, u, at), w, at, WriteValue(schemas, write, t, v).ok,
                   MeaningOfValue(schemas, means, t, v))
      BY <2>1, <2>2, <3>1, <3>2, OneMoreCall
    <3>4. at \in Nat
      OBVIOUS
    <3>5. /\ Write(schemas)[d + 1][t][v] = WriteValue(schemas, write, t, v)
          /\ Meaning(schemas)[d + 1][t][v] = MeaningOfValue(schemas, means, t, v)
      BY <2>3
    <3>6. Read(others, w)[d + 1][u][at] = ReadValue(others, w, read, u, at)
      BY <2>6, <3>4
    <3> QED
      BY <3>3, <3>5, <3>6, Zenon
  <2> DEFINE write1 == Write(schemas)[d + 1]  means1 == Meaning(schemas)[d + 1]
             layouts1 == Layouts(schemas)[d + 1]  read1 == Read(others, w)[d + 1]
             layouts3 == Layouts(others)[d + 1]
  <2>8. Faithful(write1, means1, layouts1, read1, layouts3, w)
    <3>1. ASSUME NEW t \in Types, NEW u \in Types, NEW v \in Values,
                 layouts1[t] = layouts3[u], ~Failed(write1[t][v])
          PROVE  /\ write1[t][v].ok \in Seq(Byte)
                 /\ \A at \in Nat \ {0} :
                      Right(read1[u][at], w, at, write1[t][v].ok, means1[t][v])
      <4>1. 1 \in Nat \ {0}
        OBVIOUS
      <4>2. ASSUME NEW at \in Nat \ {0}
            PROVE  /\ write1[t][v].ok \in Seq(Byte)
                   /\ Right(read1[u][at], w, at, write1[t][v].ok, means1[t][v])
        BY <3>1, <2>7
      <4> QED
        BY <4>1, <4>2
    <3> HIDE DEF write1, means1, layouts1, read1, layouts3
    <3> QED
      BY <3>1 DEF Faithful
  <2> QED
    BY <2>1, <2>8
<1>3. S = Nat
  <2> HIDE DEF S
  <2> QED
    BY <1>1, <1>2, PackR!Induction DEF S
<1> QED
  BY <1>3

\* What is serialized under one schema, whole or cut short after n bytes, and
\* read under a schema of the same layout.
THEOREM SerializedIsRead ==
  ASSUME \A v \in Values : WellFormed(v),
         NEW schemas, SchemasOK(schemas), NEW name,
         NEW dict, \A k \in DOMAIN dict : dict[k] \in Values,
         ~Failed(Serialize(schemas, name, dict)),
         NEW others, SchemasOK(others), NEW other,
         Layout(schemas, name) = Layout(others, other)
  PROVE  LET bytes == Serialize(schemas, name, dict).ok
         IN  /\ Deserialize(others, other, bytes) = Done(MeaningOf(schemas, name, dict))
             /\ \A n \in 0..Len(bytes) - 1 :
                  Failed(Deserialize(others, other, SubSeq(bytes, 1, n)))
<1> DEFINE write == Write(schemas)[MaxDepth]  means == Meaning(schemas)[MaxDepth]
           layouts == Layouts(schemas)[MaxDepth]  layouts2 == Layouts(others)[MaxDepth]
           written == WriteFields(write, schemas[name], dict)
           b == written.ok  bytes == Serialize(schemas, name, dict).ok
           x == MeaningOf(schemas, name, dict)
           read(w) == Read(others, w)[MaxDepth]
           r(w) == ReadFields(read(w), others[other], 2)
<1>1. name \in DOMAIN schemas /\ Serialize(schemas, name, dict) = Joined(Done(<<FormatTag>>), written)
  <2>1. name \in DOMAIN schemas
    BY Results DEF Serialize
  <2> QED
    BY <2>1 DEF Serialize
<1>2. ~Failed(written) /\ bytes = <<FormatTag>> \o b
  <2>1. ~Failed(Joined(Done(<<FormatTag>>), written))
    BY <1>1
  <2> HIDE DEF written
  <2>2. /\ ~Failed(written)
        /\ Joined(Done(<<FormatTag>>), written) = Done(Done(<<FormatTag>>).ok \o written.ok)
    BY <2>1, JoinedOk
  <2> QED
    BY <1>1, <2>2, Results
<1>3. /\ other \in DOMAIN others
      /\ LayoutOfFields(layouts, schemas[name]) = LayoutOfFields(layouts2, others[other])
      /\ FieldsOK(schemas[name]) /\ FieldsOK(others[other])
  BY <1>1, SameSchema DEF Layout, SchemasOK
<1>5. ASSUME NEW w \in Seq(Byte)
      PROVE  b \in Seq(Byte) /\ Right(r(w), w, 2, b, x)
  <2>1. Faithful(write, means, layouts, read(w), layouts2, w)
    BY CodecIsFaithful, CodecAssumption DEF CodecAssumption
  <2>2. x = MeaningOfFields(means, schemas[name], dict) /\ 2 \in Nat \ {0}
    BY DEF MeaningOf
  <2> HIDE DEF write, means, layouts, layouts2, read, x
  <2> QED
    BY <1>2, <1>3, <2>1, <2>2, FieldsRight
<1>6. b \in Seq(Byte) /\ bytes \in Seq(Byte) /\ Len(bytes) = Len(b) + 1 /\ bytes[1] = FormatTag
      /\ \A i \in 1..Len(b) : bytes[i + 1] = b[i]
  <2>1. <<>> \in Seq(Byte)
    OBVIOUS
  <2>2. b \in Seq(Byte)
    BY <1>5, <2>1
  <2>3. <<FormatTag>> \in Seq(Byte)
    BY CodecAssumption DEF CodecAssumption, FormatTag, Byte
  <2> HIDE DEF b, bytes
  <2> QED
    BY <1>2, <2>2, <2>3
<1> HIDE DEF b, bytes, written
<1>7. ASSUME NEW w \in Seq(Byte), w # <<>>, w[1] = FormatTag
      PROVE  Deserialize(others, other, w) = IF Failed(r(w)) THEN r(w) ELSE Done(r(w).ok)
  BY <1>3, <1>7 DEF Deserialize
<1> HIDE DEF r, x
<1>8. Deserialize(others, other, bytes) = Done(x)
  <2>1. Matches(bytes, 2, b)
    BY <1>6 DEF Matches
  <2>2. r(bytes) = Got(x, 2 + Len(b))
    BY <1>5, <1>6, <2>1 DEF Right
  <2>3. bytes # <<>>
    BY <1>6
  <2> QED
    BY <1>6, <1>7, <2>2, <2>3, Results
<1>9. ASSUME NEW n \in 0..Len(bytes) - 1
      PROVE  Failed(Deserialize(others, other, SubSeq(bytes, 1, n)))
  <2> DEFINE w == SubSeq(bytes, 1, n)
  <2>1. w \in Seq(Byte) /\ Len(w) = n /\ \A i \in 1..n : w[i] = bytes[i]
    BY <1>6
  <2> HIDE DEF w
  <2>2. CASE n = 0
    <3>1. w = <<>>
      BY <2>1, <2>2
    <3> QED
      BY <3>1, Results DEF Deserialize, w
  <2>3. CASE n # 0
    <3>1. w # <<>> /\ w[1] = FormatTag
      BY <1>6, <2>1, <2>3
    <3>2. CutOff(w, 2, b)
      BY <1>6, <2>1, <2>3 DEF CutOff
    <3>3. Failed(r(w))
      BY <1>5, <2>1, <3>2 DEF Right
    <3> QED
      BY <1>7, <2>1, <3>1, <3>3 DEF w
  <2> QED
    BY <2>2, <2>3
<1> QED
  BY <1>8, <1>9 DEF bytes, x
=============================================================================
