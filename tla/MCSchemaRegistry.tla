-------------------------- MODULE MCSchemaRegistry --------------------------
(* Finite instances of SchemaRegistry for TLC. *)
EXTENDS SchemaRegistry, TLC

Pose  == <<"Pose">>
Other == <<"Other">>
Path  == <<"Path", "2">>

MCSchemas ==
  Pose :> {<<<<"x", <<"float64">>>>, <<"on", <<"bool">>>>>>,
           <<<<"x", <<"float32">>>>, <<"n", <<"int16">>>>, <<"n", <<"uint32">>>>>>} @@
  Other :> {<<<<"x", <<"float64">>>>, <<"on", <<"bool">>>>>>,
            <<<<"label", <<"ros_string">>>>, <<"n", <<"uint8">>>>, <<"n", <<"int64">>>>,
             <<"n", <<"uint16">>>>, <<"n", <<"uint64">>>>>>,
            <<<<"x", <<"float64">>>>, <<"on", <<"struct:", " ">>>>>>,
            <<<<"x", <<"array<", "double", ">">>>>>>,
            <<<<"x", <<"float64">>>>, <<"on">>>>} @@
  Path :> {<<<<"poses", <<"array<", "struct:", "Pose", ">">>>>, <<"blob", <<"bytes">>>>>>,
           <<<<"pose", <<"struct:", " ", "Pose">>>>, <<"label", <<"string">>>>>>,
           <<<<"stamp", <<"time">>>>, <<"for", <<"duration">>>>, <<"sign", <<"int8">>>>,
             <<"ns", <<"array<", "array<", "int32", ">", ">">>>>>>}

MCNames == Seq(STRING)

MCUtf8 == "" :> <<>> @@ "an" :> <<0, 0>> @@ "\"a\"" :> <<1, 0, 0>>

Pose1 == [x |-> PyFloat(21), on |-> PyBool(1), n |-> PyInt(1)]
Pose2 == [x |-> PyInt(16), on |-> PyBool(0), n |-> PyInt(0)]

MCDicts ==
  {Pose1 @@ [poses |-> PyList(<<PyDict(Pose1), PyDict(Pose2)>>),
             pose  |-> PyDict(Pose2),
             blob  |-> PyBytes(<<1, 0, 1>>),
             label |-> PyStr("\"a\""),
             stamp |-> PyDict([sec |-> PyInt(-3), nanosec |-> PyInt(9)]),
             sign  |-> PyInt(-1),
             for   |-> PyDict([sec |-> PyInt(7), nanosec |-> PyInt(0)]),
             ns    |-> PyList(<<PyList(<<PyInt(-8), PyInt(7)>>), PyList(<<>>)>>)],
   Pose2 @@ [poses |-> PyList(<<>>),
             pose  |-> PyDict([x |-> PyFloat(0)]),
             blob  |-> PyStr("an"),
             label |-> PyStr(""),
             stamp |-> PyDict([sec |-> PyInt(1), nanosec |-> PyInt(-1)]),
             sign  |-> PyInt(1),
             for   |-> PyDict([sec |-> PyInt(8), nanosec |-> PyInt(0)]),
             ns    |-> PyList(<<PyList(<<PyBool(1)>>), PyInt(8)>>)]}

\* The values in a set of values.
Parts(S) ==
  S \cup UNION {{v.list[i] : i \in DOMAIN v.list} : v \in {u \in S : Is(u, "list")}}
    \cup UNION {{v.dict[k] : k \in DOMAIN v.dict} : v \in {u \in S : Is(u, "dict")}}

MCValues == Parts(Parts(Parts({PyDict(dict) : dict \in MCDicts})))
=============================================================================
