---------------------------- MODULE MCMessageWire ----------------------------
(* Finite instances of MessageWire for TLC. *)
EXTENDS MessageWire

MCScalars == {SInt(4), UInt(1)}

\* The least number of four bytes, and the largest of one.
MCSamples ==
  [t \in MCScalars |-> IF t = UInt(1) THEN {PyInt(1)} ELSE {PyInt(-8)}]

MCUtf8 == <<>>

MCNames ==
  {[auto |-> name] : name \in (Qualnames \X (0..MaxDefs)) \cup {<<q>> : q \in Qualnames}} \cup
  {Explicit(n) : n \in SchemaNames}

\* What reaches the wire, and the instances that do although they should not.
MCNestedValues ==
  LET instances == {Instance(c, v.dict) : c \in 1..MaxClasses, v \in PlainDicts}
      fields    == PlainFields \cup instances \cup ListsOf(instances)
      dicts     == {PyDict(f) : f \in UNION {[names -> fields] : names \in SUBSET FieldNames}}
  IN  WireValues \cup fields \cup dicts \cup ListsOf(dicts)
=============================================================================
