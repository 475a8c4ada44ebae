-------------------------------- MODULE Tlv --------------------------------
(***************************************************************************)
(* common/tlv.cpp, a map from tags to values and its bytes, and the two    *)
(* texts built that way: the options of `shell -b' (host_shell_option.cpp) *)
(* and the features in a handshake (TlvAppend, TlvToStringMap of           *)
(* base.cpp).  A buffer is a sequence of cells; the tag and the length     *)
(* take one each (four bytes in the one, sixteen characters in the other). *)
(***************************************************************************)
EXTENDS Integers, Sequences, SequencesExt, FiniteSetsExt, TLC

CONSTANTS
    TLV_VALUE_MAX_LEN,
    Bundles,              \* the names CheckBundleName accepts
    Options               \* other arguments that begin with a dash

NoTlv == <<>>
HEAD == 2

\* Appending to the map: whether it was done, and the map.
AppendTlv(m, tag, val) ==
    IF Len(val) = 0 \/ Len(val) > TLV_VALUE_MAX_LEN \/ tag \in DOMAIN m
    THEN [ok |-> FALSE, map |-> m]
    ELSE [ok |-> TRUE, map |-> m @@ (tag :> val)]

\* The constructor: entry by entry; whatever is wrong leaves nothing.
TlvBuf(buf) ==
    LET size == Len(buf)
        Step[n \in 0..size] ==
            IF n = 0 THEN [pos |-> 0, map |-> NoTlv]
            ELSE LET s   == Step[n - 1]
                     at  == s.pos + HEAD
                     len == buf[at]
                     a   == AppendTlv(s.map, buf[at - 1], SubSeq(buf, at + 1, at + len))
                 IN  IF s.pos = size THEN s
                     ELSE IF size < at \/ len <= 0 \/ len > size - at \/ ~a.ok
                     THEN [pos |-> size, map |-> NoTlv]
                     ELSE [pos |-> at + len, map |-> a.map]
    IN  Step[size].map

\* Found in the map: the value, or nothing.
FindTlv(m, tag) == IF tag \in DOMAIN m THEN m[tag] ELSE <<>>

ContainInvalidTag(m, valid) == valid # {} /\ ~(DOMAIN m \subseteq valid)

GetBufSize(m) == MapThenSumSet(LAMBDA tag : HEAD + Len(m[tag]), DOMAIN m)

CopyToBuf(m) ==
    LET tags == SetToSortSeq(DOMAIN m, <) IN
    FlattenSeq([i \in DOMAIN tags |-> <<tags[i], Len(m[tags[i]])>> \o m[tags[i]]])

-----------------------------------------------------------------------------
(* base.cpp: features and the authentication type in a handshake.            *)

TlvAppend(tlv, tag, val) == tlv \o <<tag, Len(val)>> \o val

\* The loop goes on as long as a head fits; an entry that comes twice counts
\* the last time, and what an error finds read stays in the map.
TlvToStringMap(tlv) ==
    LET size == Len(tlv)
        Step[n \in 0..size] ==
            IF n = 0 THEN [pos |-> 0, map |-> NoTlv, ok |-> size >= HEAD]
            ELSE LET s  == Step[n - 1]
                     at == s.pos + HEAD
                     len == tlv[at]
                 IN  IF ~s.ok \/ size < at THEN s
                     ELSE IF len < 0 \/ size - at < len THEN [s EXCEPT !.ok = FALSE]
                     ELSE [s EXCEPT !.pos = at + len,
                                    !.map = (tlv[at - 1] :> SubSeq(tlv, at + 1, at + len)) @@ @]
    IN  Step[size]

-----------------------------------------------------------------------------
(* host_shell_option.cpp: `shell -b bundle command'.                         *)

TAG_SHELL_BUNDLE == 1
TAG_SHELL_CMD == 0
REGISTERD_TAG_SET == {TAG_SHELL_BUNDLE, TAG_SHELL_CMD}
OptionBundle == "-b"

Wrong(err) == [err |-> err, map |-> NoTlv]

ConstructShellCommand(args, i) == SubSeq(args, i, Len(args))

\* -b and the name of a bundle may come once; the first argument that is no
\* option begins the command.
ParameterToTlv(args) ==
    LET bundle == args[1] = OptionBundle
        first  == IF bundle THEN 3 ELSE 1
        named  == IF bundle THEN TAG_SHELL_BUNDLE :> <<args[2]>> ELSE NoTlv
        cmd    == AppendTlv(named, TAG_SHELL_CMD, ConstructShellCommand(args, first))
        missing == "E003005"
        invalid == "E003001"
    IN  IF bundle /\ Len(args) = 1 THEN Wrong(missing)
        ELSE IF bundle /\ args[2] \notin Bundles THEN Wrong(invalid)
        ELSE IF bundle /\ Len(args) = 2 THEN Wrong("E003002")
        ELSE IF args[first] = OptionBundle
        THEN Wrong(IF first = Len(args) THEN missing
                   ELSE IF args[first + 1] \notin Bundles THEN invalid ELSE "E003008")
        ELSE IF args[first] \in Options THEN Wrong("E003003")
        ELSE IF cmd.ok THEN [err |-> "none", map |-> cmd.map] ELSE Wrong("E003008")

\* The parameters sent to the daemon; empty with an error.
FormatParametersToTlv(args) ==
    IF args = <<>> THEN [err |-> "E003007", sent |-> <<>>]
    ELSE LET r == ParameterToTlv(args) IN
         [err |-> r.err, sent |-> IF r.err = "none" THEN CopyToBuf(r.map) ELSE <<>>]
=============================================================================
