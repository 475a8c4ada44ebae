---------------------------- MODULE HdcMessages ----------------------------
(***************************************************************************)
(* common/serial_struct.h: the descriptors of the structures hdc sends,    *)
(* and instances of them with the values that are delicate for the bytes   *)
(* they become.                                                            *)
(***************************************************************************)
EXTENDS SerialStruct

Text == {<<>>, <<1>>, [i \in 1..(2^Group + 1) |-> i % 2^Group]}   \* short ones, a long one

\* The structures of the program, field by field.
TransferConfig ==
    <<Field(1, uint64("plain")),       \* fileSize
      Field(2, uint64("plain")),       \* atime
      Field(3, uint64("plain")),       \* mtime
      Field(4, string),                \* options
      Field(5, string),                \* path
      Field(6, string),                \* optionalName
      Field(7, bool),                  \* updateIfNew
      Field(8, uint8),                 \* compressType
      Field(9, bool),                  \* holdTimestamp
      Field(10, string),               \* functionName
      Field(11, string),               \* clientCwd
      Field(12, string),               \* reserve1
      Field(13, string)>>              \* reserve2

FileMode ==
    <<Field(1, uint64("plain")),       \* perm
      Field(2, uint64("plain")),       \* uId
      Field(3, uint64("plain")),       \* gId
      Field(4, string),                \* context
      Field(5, string)>>               \* fullName

TransferPayload ==
    <<Field(1, uint64("plain")),       \* index
      Field(2, uint8),                 \* compressType
      Field(3, uint32("plain")),       \* compressSize
      Field(4, uint32("plain"))>>      \* uncompressSize

SessionHandShake ==
    <<Field(1, string),                \* banner
      Field(2, uint8),                 \* authType
      Field(3, uint32("plain")),       \* sessionId
      Field(4, string),                \* connectKey
      Field(5, string),                \* buf
      Field(6, string)>>               \* version

PayloadProtect ==
    <<Field(1, uint32("plain")),       \* channelId
      Field(2, uint32("plain")),       \* commandFlag
      Field(3, uint8),                 \* checkSum
      Field(4, uint8)>>                \* vCode

HeartbeatMsg ==
    <<Field(1, uint64("plain")),       \* heartbeatCount
      Field(2, string)>>               \* reserved

Messages == {TransferConfig, FileMode, TransferPayload, SessionHandShake, PayloadProtect, HeartbeatMsg}

\* What else the templates offer, in one structure of two levels.
Inner == <<Field(1, int32("plain")), Optional(2, int64("zigzag"))>>
Everything ==
    <<Vector(1, int32("zigzag")), Vector(2, uint32("fixed")), Vector(3, string), Vector(4, Struct(Inner)),
      Optional(5, int64("fixed")), Optional(6, string), Field(7, Struct(Inner)),
      OneofField(20, 8, 0, int32("fixed")), OneofField(20, 9, 1, string),
      MapField(10, uint32("plain"), int64("plain")), Field(11, float), Field(12, double),
      Field(13, uint64("fixed"))>>

-----------------------------------------------------------------------------
ScalarKinds ==
    {int32(c) : c \in {"plain", "zigzag", "fixed"}} \cup {int64(c) : c \in {"plain", "zigzag", "fixed"}}
    \cup {uint32(c) : c \in {"plain", "fixed"}} \cup {uint64(c) : c \in {"plain", "fixed"}}
    \cup {uint8, bool, float, double}

Values(k) ==
    CASE k.t = "bool" -> 0..1
      [] k.t = "narrow" -> 0..(2^Narrow - 1)
      [] k.t = "int" /\ k.signed -> (-(2^(k.bits - 1)))..(2^(k.bits - 1) - 1)
      [] OTHER -> 0..(2^k.bits - 1)

\* Values at the edges of a width and of a group.
Edges(k) == {v \in {-(2^(k.bits - 1)), -1, 0, 1, More, 2^Narrow - 1, 2^(k.bits - 1) - 1, 2^k.bits - 1} :
                v \in Values(k)}

One(k) ==
    IF k.t = "string" THEN Text
    ELSE IF k.t = "struct"
    THEN {[DefaultOf(k) EXCEPT ![1] = v, ![2] = o] : v \in Edges(k.fields[1].kind),
                                                     o \in {<<>>, <<0>>, <<-1>>}}
    ELSE Edges(k) \ (IF k.t = "float" THEN {2^(k.bits - 1)} ELSE {})   \* -0.0 reads as 0.0

Several(k) == {<<>>} \cup {<<a>> : a \in One(k)} \cup {<<a, b>> : a, b \in One(k)}

Samples(f) ==
    CASE f.card = "one" -> One(f.kind)
      [] f.card = "optional" -> {<<>>} \cup {<<a>> : a \in One(f.kind)}
      [] f.card = "repeated" -> Several(f.kind)
      [] f.card = "oneof" -> {<<f.index, a>> : a \in One(f.kind)}
      [] f.card = "map" -> {<<>>} \cup UNION {[d -> One(f.kind)] : d \in {{0}, {1, More}}}

\* A structure with something in every member, and those that differ from it
\* or from the default in one.
Full(fields) ==
    [m \in DOMAIN DefaultOf(Struct(fields)) |->
        LET f == CHOOSE f \in Range(fields) : f.member = m IN
        CHOOSE a \in Samples(f) : a \notin {DefaultOf(Struct(fields))[m]}]

Instances(fields) ==
    UNION {{[b EXCEPT ![f.member] = a] : a \in Samples(f),
                                         b \in {DefaultOf(Struct(fields)), Full(fields)}} : f \in Range(fields)}

\* What is left of a structure when only the given members are kept.
Kept(v, d, members) == [m \in DOMAIN d |-> IF m \in members THEN v[m] ELSE d[m]]
=============================================================================
