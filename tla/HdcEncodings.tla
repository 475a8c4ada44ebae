---------------------------- MODULE HdcEncodings ----------------------------
(***************************************************************************)
(* What hdc hands on as bytes or as text, from the one who writes it to    *)
(* the one who reads it: the numbers and structures of SerialStruct, the   *)
(* entries of a TLV buffer, the arguments of a command.  A job is written, *)
(* perhaps damaged on its way, and read.                                   *)
(***************************************************************************)
EXTENDS HdcMessages, Tlv, HdcCommandLine

CONSTANTS
    Tails,         \* what may follow a number in its buffer
    TlvMaps,       \* contents of a TLV buffer
    Shells,        \* arguments of `shell' that begin with an option
    Alphabet,      \* characters of a typed command line
    MaxLine,       \* bound: its length
    RemoteWords    \* the arguments that Remote stands for

VARIABLES
    job,      \* what is to be handed on
    stage,    \* "given", "written", "damaged", "read"
    bytes,    \* what was written
    got       \* what was read

vars == <<job, stage, bytes, got>>

Nothing == "nothing"

ScalarJob ==
    \E k \in ScalarKinds : \E v \in Values(k) : \E tail \in Tails :
        job = [what |-> "scalar", kind |-> k, value |-> v, tail |-> tail]

\* A structure and the fields its writer and its reader know; the peer may be
\* older, without the last field.
MessageJob ==
    \E fields \in Messages : \E v \in Instances(fields) : \E n \in {Len(fields) - 1, Len(fields)} :
        job = [what |-> "message", written |-> SubSeq(fields, 1, n), read |-> fields, value |-> v]

TemplateJob ==
    \E v \in Instances(Everything) :
        job = [what |-> "message", written |-> Everything, read |-> Everything, value |-> v]

TlvJob == \E m \in TlvMaps : job = [what |-> "tlv", map |-> m]
FeaturesJob == \E m \in TlvMaps : job = [what |-> "features", map |-> m]
ShellJob == \E args \in Shells : job = [what |-> "shell", args |-> args]

LineJob ==
    \E n \in 1..MaxLine : \E line \in [1..n -> Alphabet] :
        /\ CommandAt(parseCommandLine(line)) = 1
        /\ job = [what |-> "line", line |-> line]

Init ==
    /\ ScalarJob \/ MessageJob \/ TemplateJob \/ TlvJob \/ FeaturesJob \/ ShellJob \/ LineJob
    /\ stage = "given" /\ bytes = Nothing /\ got = Nothing

Features(m) ==
    LET tags == SetToSortSeq(DOMAIN m, <) IN
    FoldLeft(LAMBDA tlv, tag : TlvAppend(tlv, tag, m[tag]), <<>>, tags)

Write ==
    /\ stage = "given" /\ stage' = "written"
    /\ bytes' = CASE job.what = "scalar" -> WriteScalar(job.kind, job.value) \o job.tail
                  [] job.what = "message" -> SerializeToString(job.written, job.value)
                  [] job.what = "tlv" -> CopyToBuf(job.map)
                  [] job.what = "features" -> Features(job.map)
                  [] job.what = "shell" -> FormatParametersToTlv(job.args).sent
                  [] job.what = "line" -> SplitOptionAndCommand(parseCommandLine(job.line)).command
    /\ UNCHANGED <<job, got>>

\* The end of a TLV buffer is lost, or one of its cells is another.
Damage ==
    /\ stage = "written" /\ stage' = "damaged"
    /\ job.what = "tlv"
    /\ \/ \E n \in 0..Len(bytes) : bytes' = SubSeq(bytes, 1, n)
       \/ \E i \in DOMAIN bytes : \E cell \in 0..3 : bytes' = [bytes EXCEPT ![i] = cell]
    /\ UNCHANGED <<job, got>>

Read ==
    /\ stage \in {"written", "damaged"} /\ stage' = "read"
    /\ got' = CASE job.what = "scalar" -> ReadScalar(job.kind, 0, bytes)
                [] job.what = "message" -> ParseFromString(job.read, bytes)
                [] job.what \in {"tlv", "shell"} -> TlvBuf(bytes)
                [] job.what = "features" -> TlvToStringMap(bytes)
                [] job.what = "line" -> SplitCommandToArgs(bytes)
    /\ UNCHANGED <<job, bytes>>

Next == Write \/ Damage \/ Read

Spec == Init /\ [][Next]_vars

HasRead(what) == stage = "read" /\ job.what = what

-----------------------------------------------------------------------------
\* A TLV buffer is read whole or not at all: a damaged one never gives a part
\* of its entries, and one that was not damaged gives them all.  The features
\* of a handshake, read by another function, do not differ.
TlvIsWhole ==
    /\ HasRead("tlv") =>
         /\ got = NoTlv \/ GetBufSize(got) = Len(bytes)
         /\ bytes = CopyToBuf(job.map) => got = job.map
    /\ HasRead("features") => got.ok = (job.map # NoTlv) /\ got.map = job.map

\* Every number of every kind reads back as it was written, whatever follows
\* it, and takes no more bytes than its width allows; every structure of the
\* program and every template survives being written and read, and what an
\* older peer does not write has its default: the groups, the sign, the zigzag,
\* the sizes and the defaults of serial_struct_define.h agree on both sides.
\* So it is with TLV entries, which a damaged buffer gives whole or not at all.
ReadsWhatWasWritten ==
    /\ HasRead("scalar") =>
         /\ got = Reading(TRUE, job.value, job.tail)
         /\ Len(bytes) - Len(job.tail) <= Bytes(job.kind.bits)
    /\ HasRead("message") =>
         got.value = Kept(job.value, DefaultOf(Struct(job.read)), {f.member : f \in Range(job.written)})
    /\ TlvIsWhole

\* A typed line that begins with a command: the words of the command and its
\* other arguments.
Typed(line) ==
    LET args == parseCommandLine(line)
        next == IF Len(args) = 1 THEN <<>> ELSE args[2]
        n    == IsRegisterCommand(args[1], next)
    IN  [name |-> IF n = 2 THEN args[1] \o <<Space>> \o next ELSE args[1],
         rest |-> SubSeq(args, n + 1, Len(args))]
Appended(name) == IF name \in Transfers THEN RemoteWords ELSE <<>>

\* The words of a text in which a tab separates them as a space does.
Words(text) == parseCommandLine([i \in DOMAIN text |-> IF text[i] = Tab THEN Space ELSE text[i]])

\* What the user typed, and no more and no less, is what the one who executes
\* the command takes for its arguments: quoted or not, after `remote -cwd' for
\* a transfer, and for a `shell' with options as tags the daemon knows.  Only
\* an argument with a tab or a line feed and no space comes as its words
\* (Quoted looks at the space alone).
ArgumentsArrive ==
    /\ HasRead("line") =>
         LET typed == Typed(job.line)
             Arrives(arg) == IF Space \in Range(arg) THEN <<arg>> ELSE Words(arg)
         IN  got = Words(typed.name) \o Appended(typed.name)
                   \o FlattenSeq([i \in DOMAIN typed.rest |-> Arrives(typed.rest[i])])
    /\ HasRead("shell") =>
         LET bundle == FindTlv(got, TAG_SHELL_BUNDLE) IN
         /\ ~ContainInvalidTag(got, REGISTERD_TAG_SET)
         /\ IF bytes = <<>> THEN FormatParametersToTlv(job.args).err # "none"
            ELSE job.args = (IF bundle = <<>> THEN <<>> ELSE <<OptionBundle>> \o bundle)
                            \o FindTlv(got, TAG_SHELL_CMD)

\* An argument is one for the one who executes the command as it is for the
\* one who splits the line first.  The code does not keep this for a tab.
ArgumentsStayWhole ==
    HasRead("line") =>
        LET typed == Typed(job.line) IN
        got = parseCommandLine(typed.name) \o Appended(typed.name) \o typed.rest

\* A message that lost its end is noticed: file.cpp:434 refuses the transfer
\* when ParseFromString says no.  It never does.
TruncatedIsNoticed ==
    HasRead("message") =>
        \A n \in 0..(Len(bytes) - 1) : ~ParseFromString(job.read, SubSeq(bytes, 1, n)).ok

\* A field the reader does not know is passed over, so that a newer peer's
\* message reads as far as the reader knows it.  Its content is read as keys.
UnknownIsSkipped ==
    HasRead("message") =>
        LET known == SubSeq(job.written, 1, Len(job.written) - 1) IN
        ParseFromString(known, bytes).value =
            Kept(job.value, DefaultOf(Struct(known)), {f.member : f \in Range(known)})
=============================================================================
