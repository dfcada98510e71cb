----------------------------- MODULE FieldTypes -----------------------------
(***************************************************************************)
(* The field types of reachpy-messages (lib.rs, FieldType).  A schema is a *)
(* sequence of fields.  Arrays of arrays are one array, with their depth   *)
(* as its rank.                                                            *)
(***************************************************************************)

Bool     == [kind |-> "bool"]
SInt(n)  == [kind |-> "int", width |-> n, signed |-> TRUE]
UInt(n)  == [kind |-> "int", width |-> n, signed |-> FALSE]
Flt(n)   == [kind |-> "float", width |-> n]
Text     == [kind |-> "string"]
Blob     == [kind |-> "bytes"]
Struct(name) == [kind |-> "struct", name |-> name]
Time     == [kind |-> "time"]
Duration == [kind |-> "duration"]
Array(rank, t) == [kind |-> "array", rank |-> rank, of |-> t]

Field(name, type) == [name |-> name, type |-> type]

\* The dictionary, or registry, with one more entry.
With(dict, name, v) ==
  [k \in DOMAIN dict \cup {name} |-> IF k = name THEN v ELSE dict[k]]
=============================================================================
