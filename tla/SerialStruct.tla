---------------------------- MODULE SerialStruct ----------------------------
(***************************************************************************)
(* common/serial_struct_define.h: how the program's structures become the  *)
(* bytes of a message.  A structure has a descriptor, a sequence of fields *)
(* with a tag and a kind; SerializeToString writes the fields in order and *)
(* ParseFromString reads whatever fields come, into a structure that holds *)
(* its defaults.                                                           *)
(*                                                                         *)
(* A byte carries a group of Group bits and the bit that says another one  *)
(* follows, as in the code (7 and 1); the two widths of integers are Word  *)
(* and Long bits (32 and 64), a narrow one (uint8_t) Narrow bits.          *)
(* Floating point numbers are their bit patterns.  The code is modelled as *)
(* it is: a field whose reading fails is left behind half read, and the    *)
(* loop goes on with the next byte.                                        *)
(***************************************************************************)
EXTENDS Integers, Sequences, SequencesExt, FiniteSetsExt

CONSTANTS Group, Word, Long, Narrow

ASSUME WidthsAssumption ==
    /\ {Group, Word, Long, Narrow} \subseteq Nat \ {0}
    /\ Narrow < Word /\ Word < Long
    /\ Word % (Group + 1) = 0 /\ Long % (Group + 1) = 0

Byte == 0..(2^(Group + 1) - 1)
Bytes(bits) == (bits + Group - 1) \div Group      \* 5 and 10 in the code

-----------------------------------------------------------------------------
(* Integers of a width.                                                      *)

Unsigned(v, bits) == v % 2^bits
Signed(u, bits) == IF u >= 2^(bits - 1) THEN u - 2^bits ELSE u

MakeZigzagValue(v) == IF v >= 0 THEN 2 * v ELSE -2 * v - 1
ReadZigzagValue(u) == IF u % 2 = 0 THEN u \div 2 ELSE -((u + 1) \div 2)

-----------------------------------------------------------------------------
(* Bytes.  A reading is whether it succeeded, the value that is left in the  *)
(* variable and what remains to be read.                                     *)

Reading(ok, value, rest) == [ok |-> ok, value |-> value, rest |-> rest]
Skip(in, n) == SubSeq(in, n + 1, Len(in))
Within(in, n) == SubSeq(in, 1, IF n < Len(in) THEN n ELSE Len(in))

More == 2^Group      \* the bit of a byte that another one follows

\* The first n groups of v, the lowest first.
Groups(v, n) ==
    [i \in 1..n |-> ((v \div 2^(Group * (i - 1))) % 2^Group) + (IF i < n THEN More ELSE 0)]

\* Mutant of WriteVarint: a value of exactly one more group is cut.
WriteVarintShort(v) == Groups(v, Min({n \in 1..Bytes(Long) : v <= 2^(Group * n)}))

WriteVarint(v) == Groups(v, Min({n \in 1..Bytes(Long) : v < 2^(Group * n)}))

\* The groups of b, the first the lowest.
Collected(b, bits) ==
    MapThenSumSet(LAMBDA i : (b[i] % More) * 2^(Group * (i - 1)), DOMAIN b) % 2^bits

\* last is the first byte without that bit, 0 if there is none where it may be.
ReadGroups(bits, in, last) ==
    IF last = 0
    THEN Reading(FALSE, Collected(Within(in, Bytes(bits)), bits), Skip(in, Bytes(bits)))
    ELSE Reading(TRUE, Collected(Within(in, last), bits), Skip(in, last))

ReadVarint(bits, in) ==
    ReadGroups(bits, in, SelectInSeq(Within(in, Bytes(bits)), LAMBDA b : b < More))

WriteFixed(v, bits) ==
    [i \in 1..(bits \div (Group + 1)) |-> (v \div 2^((Group + 1) * (i - 1))) % 2^(Group + 1)]

\* in.Read copies what there is, also when it is too little.
ReadBytes(wanted, in) ==
    Reading(wanted <= Len(in),
            MapThenSumSet(LAMBDA i : in[i] * 2^((Group + 1) * (i - 1)),
                          DOMAIN Within(in, wanted)),
            Skip(in, wanted))

ReadFixed(bits, in) == ReadBytes(bits \div (Group + 1), in)

-----------------------------------------------------------------------------
(* Kinds of values.                                                          *)

VARINT == 0
FIXED64 == 1
LENGTH_DELIMETED == 2
FIXED32 == 5

Integer(bits, signed, code) == [t |-> "int", bits |-> bits, signed |-> signed, code |-> code]
int32(code)  == Integer(Word, TRUE, code)
uint32(code) == Integer(Word, FALSE, code)
int64(code)  == Integer(Long, TRUE, code)
uint64(code) == Integer(Long, FALSE, code)
\* These go through uint32_t, or an enumeration through its underlying type.
uint8 == [t |-> "narrow", bits |-> Word, signed |-> FALSE, code |-> "plain"]
bool  == [t |-> "bool", bits |-> Word, signed |-> FALSE, code |-> "plain"]
float  == [t |-> "float", bits |-> Word, signed |-> FALSE, code |-> "fixed"]
double == [t |-> "float", bits |-> Long, signed |-> FALSE, code |-> "fixed"]
string == [t |-> "string"]
Struct(fields) == [t |-> "struct", fields |-> fields]

IsScalar(k) == k.t \notin {"string", "struct"}

WireType(k) ==
    IF ~IsScalar(k) THEN LENGTH_DELIMETED
    ELSE IF k.code # "fixed" THEN VARINT
    ELSE IF k.bits = Word THEN FIXED32 ELSE FIXED64

\* What a number is written as, and what a number read is taken for.
Raw(k, v) == IF k.code = "zigzag" THEN MakeZigzagValue(v) ELSE Unsigned(v, k.bits)

Cast(k, u) ==
    CASE k.code = "zigzag" -> ReadZigzagValue(u)
      [] k.signed /\ k.code # "zigzag" -> Signed(u, k.bits)
      [] k.t = "narrow" -> u % 2^Narrow
      [] k.t = "bool" -> IF u = 0 THEN 0 ELSE 1
      [] OTHER -> u

WriteScalar(k, v) ==
    IF k.code = "fixed" THEN WriteFixed(Raw(k, v), k.bits) ELSE WriteVarint(Raw(k, v))

\* A uint is read in place, so that what a failed read had collected stays in
\* it; the other kinds are read through a variable of their own.
Taken(k, old, r) ==
    IF r.ok THEN Reading(TRUE, Cast(k, r.value), r.rest)
    ELSE Reading(FALSE, IF k.t = "int" /\ ~k.signed THEN r.value ELSE old, r.rest)

ReadScalar(k, old, in) ==
    Taken(k, old, IF k.code = "fixed" THEN ReadFixed(k.bits, in) ELSE ReadVarint(k.bits, in))

IsZero(k, v) ==
    \/ k.t = "float" /\ v % 2^(k.bits - 1) = 0        \* FP_ZERO: of either sign
    \/ k.t = "int" /\ ~k.signed /\ k.code = "fixed" /\ k.bits = Long /\ v = 0

-----------------------------------------------------------------------------
(* Fields and structures.  A structure is a function from the names of its   *)
(* members; a field names its member, its tag and its kind, and how often it *)
(* comes: once, at most once, any number of times, as one alternative of a   *)
(* member or as the entries of a map.                                        *)

Field(tag, kind) ==
    [member |-> tag, tag |-> tag, kind |-> kind, card |-> "one"]
Vector(tag, kind) == [Field(tag, kind) EXCEPT !.card = "repeated"]
Optional(tag, kind) == [Field(tag, kind) EXCEPT !.card = "optional"]
OneofField(member, tag, index, kind) ==
    [member |-> member, tag |-> tag, kind |-> kind, card |-> "oneof", index |-> index]
MapField(tag, key, kind) ==
    [member |-> tag, tag |-> tag, kind |-> kind, card |-> "map", key |-> key]

RECURSIVE DefaultOf(_), Serialize(_, _, _, _), WriteMessage(_, _), ReadMessage(_, _, _)

\* T{}: zero, the empty string, a structure of defaults.
DefaultOf(k) ==
    IF k.t = "string" THEN <<>>
    ELSE IF k.t # "struct" THEN 0
    ELSE [m \in {f.member : f \in Range(k.fields)} |->
            LET f == CHOOSE f \in Range(k.fields) :
                        f.member = m /\ (f.card = "oneof" => f.index = 0)
            IN  CASE f.card = "one" -> DefaultOf(f.kind)
                  [] f.card = "oneof" -> <<0, DefaultOf(f.kind)>>
                  [] OTHER -> <<>>]

WriteTagWriteType(tag, wire) == WriteVarint(8 * tag + wire)

Delimited(tag, body) ==
    WriteTagWriteType(tag, LENGTH_DELIMETED) \o WriteVarint(Len(body)) \o body

\* Serializer<T>::Serialize for every T.
Serialize(tag, k, v, force) ==
    IF k.t = "string" THEN Delimited(tag, v)
    ELSE IF k.t = "struct"
    THEN LET body == WriteMessage(k.fields, v) IN
         IF body = <<>> /\ ~force THEN <<>> ELSE Delimited(tag, body)
    ELSE IF IsZero(k, v) /\ ~force THEN <<>>
    ELSE WriteTagWriteType(tag, WireType(k)) \o WriteScalar(k, v)

\* A vector of numbers is packed; one of strings or structures is not.
WriteRepeated(f, v) ==
    IF v = <<>> THEN <<>>
    ELSE IF IsScalar(f.kind)
    THEN Delimited(f.tag, FlattenSeq([i \in DOMAIN v |-> WriteScalar(f.kind, v[i])]))
    ELSE FlattenSeq([i \in DOMAIN v |-> Serialize(f.tag, f.kind, v[i], FALSE)])

\* The entries of a map, by key.
WriteMap(f, v) ==
    LET keys == SetToSortSeq(DOMAIN v, <) IN
    FlattenSeq([i \in DOMAIN keys |->
        Delimited(f.tag, Serialize(1, f.key, keys[i], TRUE)
                         \o Serialize(2, f.kind, v[keys[i]], TRUE))])

WriteField(f, v) ==
    CASE f.card = "one"      -> Serialize(f.tag, f.kind, v, FALSE)
      [] f.card = "optional" -> IF v = <<>> THEN <<>> ELSE Serialize(f.tag, f.kind, v[1], FALSE)
      [] f.card = "repeated" -> WriteRepeated(f, v)
      [] f.card = "oneof"    -> IF v[1] # f.index THEN <<>>
                                ELSE Serialize(f.tag, f.kind, v[2], FALSE)
      [] f.card = "map"      -> WriteMap(f, v)

WriteMessage(fields, v) ==
    FlattenSeq([i \in DOMAIN fields |-> WriteField(fields[i], v[fields[i].member])])

-----------------------------------------------------------------------------
\* A LimitedReader: the size it was made with, what it can read and what is behind.
Limited(size) ==
    [ok |-> size.ok, size |-> size.value, body |-> Within(size.rest, size.value),
     behind |-> IF size.ok THEN Skip(size.rest, size.value) ELSE size.rest]

LimitedTo(in) == Limited(ReadVarint(Long, in))

\* What a read of a part has come to; r is what was read of the body.
ReadDelimited(d, old, r) ==
    IF d.ok THEN Reading(r.ok, r.value, r.rest \o d.behind) ELSE Reading(FALSE, old, d.behind)

ReadString(d) ==
    Reading(Len(d.body) = d.size, d.body \o [i \in 1..(d.size - Len(d.body)) |-> 0], <<>>)

ReadBody(k, old, d) ==
    ReadDelimited(d, old, IF k.t = "string" THEN ReadString(d)
                          ELSE ReadMessage(k.fields, old, d.body))

\* Serializer<T>::Parse for every T, into a variable that holds old.
Parse(wire, k, old, in) ==
    IF wire # WireType(k) THEN Reading(FALSE, old, in)
    ELSE IF IsScalar(k) THEN ReadScalar(k, old, in)
    ELSE ReadBody(k, old, LimitedTo(in))

\* The numbers of a packed vector, until one cannot be read.
TakeNumber(all, r) ==
    IF ~all.ok \/ all.rest = <<>> THEN all
    ELSE Reading(r.ok, IF r.ok THEN Append(all.value, r.value) ELSE all.value, r.rest)

Packed(k, old, body) ==
    FoldLeft(LAMBDA all, b : TakeNumber(all, ReadScalar(k, 0, all.rest)),
             Reading(TRUE, old, body), body)

AddNumbers(d, all) == Reading(all.ok /\ d.size = Len(d.body), all.value, all.rest)
ReadNumbers(k, old, d) == ReadDelimited(d, old, AddNumbers(d, Packed(k, old, d.body)))

AddElement(old, r) == Reading(r.ok, IF r.ok THEN Append(old, r.value) ELSE old, r.rest)

ReadRepeated(f, wire, old, in) ==
    IF ~IsScalar(f.kind) THEN AddElement(old, Parse(wire, f.kind, DefaultOf(f.kind), in))
    ELSE IF wire # LENGTH_DELIMETED THEN Reading(FALSE, old, in)
    ELSE ReadNumbers(f.kind, old, LimitedTo(in))

\* One entry, a structure of key and value; the first entry of a key stays.
AddEntry(old, r) == Reading(TRUE, old @@ (r.value[1] :> r.value[2]), r.rest)
Pair(f) == <<Field(1, f.key), Field(2, f.kind)>>

ReadEntry(f, old, d) ==
    ReadDelimited(d, old,
        IF d.size = 0 THEN Reading(TRUE, old, <<>>)
        ELSE AddEntry(old, ReadMessage(Pair(f), DefaultOf(Struct(Pair(f))), d.body)))

ReadMap(f, wire, old, in) ==
    IF wire # LENGTH_DELIMETED THEN Reading(FALSE, old, in) ELSE ReadEntry(f, old, LimitedTo(in))

Alternative(f, r) ==
    [r EXCEPT !.value = IF f.card = "optional" THEN <<@>> ELSE <<f.index, @>>]

ReadField(f, wire, old, in) ==
    CASE f.card = "repeated" -> ReadRepeated(f, wire, old, in)
      [] f.card = "map" -> ReadMap(f, wire, old, in)
      [] f.card = "one" -> Parse(wire, f.kind, old, in)
      [] OTHER -> Alternative(f, Parse(wire, f.kind, DefaultOf(f.kind), in))

\* Key by key, as long as one can be read; a key no field has, or whose field
\* cannot be read, is no reason to stop, nor is what belongs to it skipped.
ReadOn(fields, v, f, r) == ReadMessage(fields, [v EXCEPT ![f.member] = r.value], r.rest)

ReadFieldOf(fields, v, f, wire, in) == ReadOn(fields, v, f, ReadField(f, wire, v[f.member], in))

ReadNext(fields, v, key) ==
    IF ~key.ok THEN Reading(TRUE, v, key.rest)
    ELSE IF \A f \in Range(fields) : f.tag # key.value \div 8
    THEN ReadMessage(fields, v, key.rest)
    ELSE ReadFieldOf(fields, v, CHOOSE f \in Range(fields) : f.tag = key.value \div 8,
                     key.value % 8, key.rest)

ReadMessage(fields, v, in) == ReadNext(fields, v, ReadVarint(Word, in))

SerializeToString(fields, v) == WriteMessage(fields, v)
ParseFromString(fields, in) == ReadMessage(fields, DefaultOf(Struct(fields)), in)
=============================================================================
