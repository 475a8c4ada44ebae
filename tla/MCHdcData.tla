----------------------------- MODULE MCHdcData -----------------------------
(***************************************************************************)
(* Two machines that share nothing, side by side: an installation, or one  *)
(* piece of data on its way.  A behaviour is of the one or of the other.   *)
(***************************************************************************)
EXTENDS HdcInstall, SerialStruct

CONSTANTS
    TLV_VALUE_MAX_LEN, Bundles, Options,
    Alphabet, MaxLine

VARIABLES job, stage, bytes, got

Line(s) == s    \* a command or a directory, character by character

MCTails == {<<>>, <<2^Group, 1>>}
MCTlvMaps == UNION {[d -> {<<1>>, <<2, 1>>, <<0, 3>>}] : d \in SUBSET {1, 2, 3}}
MCShells ==
    LET words == {"-b", "-x", "pkg", "ls", "badpkg"} IN
    UNION {[1..n -> words] : n \in 0..4}

MCRegistered == {Line(<<"x">>), Line(<<"y", "_", "y">>)}
MCTransfers == {Line(<<"y", "_", "y">>)}
MCWaitFor == Line(<<"w">>)
MCRemote == Line(<<"r", "_", "c", "_", "q", "x", "_", "q">>)
MCRemoteWords == <<<<"r">>, <<"c">>, <<"x", "_">>>>

Encodings ==
    INSTANCE HdcEncodings WITH
        Tails <- MCTails, TlvMaps <- MCTlvMaps, Shells <- MCShells,
        Registered <- MCRegistered, Transfers <- MCTransfers, WaitFor <- MCWaitFor,
        Remote <- MCRemote, RemoteWords <- MCRemoteWords

-----------------------------------------------------------------------------
File(n) == [kind |-> "file", size |-> n, content |-> [i \in 1..n |-> i]]
Dir == [kind |-> "dir"]
Package(c) == [kind |-> "package", content |-> c]
Directory(tree) == [kind |-> "dir", tree |-> tree]

\* Names that just fit, that are cut in two, a hidden file and a hidden
\* directory; files of every fill of a block and of a buffer, and one that is
\* too large; names one too long for both fields, and too long for any.
Trees ==
    {(<<"a">> :> File(n)) @@ (<<".", "h">> :> File(2)) @@ (<<"d">> :> Dir)
     @@ (<<"d", "/", "b">> :> File(m)) @@ (<<"d", "/", "b", "c">> :> File(1))
     @@ (<<"d", "/", "a", "b", "c", "d">> :> File(3))
     @@ (<<"d", "/", ".", "i">> :> Dir) @@ (<<"d", "/", ".", "i", "/", "j">> :> File(1)) :
        n \in {0, 1, 3, 6, 8}, m \in {2, 5, 12, 16}}
    \cup {(<<"d">> :> Dir) @@ (<<"d", "/">> \o name :> File(n)) @@ (<<"e">> :> File(1)) :
             name \in {<<"a", "b", "c", "d", "e">>, <<"a", "b", "c", "d", "e", "f", "g", "h">>}, n \in {0, 2}}
    \cup {<<>>}

MCDisks ==
    {("a.hap" :> Package(<<1>>)) @@ ("b.hsp" :> Package(<<2>>)) @@ ("d" :> Directory(t)) : t \in Trees}

Request(mode, args) == [mode |-> mode, args |-> args]
MCRequests ==
    {Request("install", args) : args \in {<<"a.hap">>, <<"a.hap", "b.hsp", "a.hap">>, <<"a.hap", "d", "b.hsp">>,
                                          <<"d", "d">>, <<"x.txt">>, <<"c.hap", "a.hap">>}}
    \cup {Request("sideload", <<"a.hap">>), Request("uninstall", <<"com.a">>)}

InstallIdle ==
    /\ request = Request("none", <<>>) /\ disk = <<>> /\ tmp = <<>> /\ taskQueue = <<>>
    /\ localPath = User(None) /\ originLocalDir = None /\ phase = "ended" /\ told = <<>> /\ sent = <<>>

DataIdle == job = [what |-> "none"] /\ stage = "read" /\ bytes = "nothing" /\ got = "nothing"

MCInit ==
    \/ Init(MCRequests, MCDisks) /\ DataIdle
    \/ Encodings!Init /\ InstallIdle

MCNext ==
    \/ Next /\ UNCHANGED <<job, stage, bytes, got>>
    \/ Encodings!Next /\ UNCHANGED vars

MCSpec == MCInit /\ [][MCNext]_<<vars, job, stage, bytes, got>>

\* Whatever is encoded to go to the daemon, a structure, a buffer of entries or a typed
\* line, is there after its decoding what it was, an argument with a tab or a line feed apart
\* (see HdcEncodings).
DataArrives == Encodings!ReadsWhatWasWritten /\ Encodings!ArgumentsArrive

\* These fail.
ArgumentsStayWhole == Encodings!ArgumentsStayWhole
TruncatedIsNoticed == Encodings!TruncatedIsNoticed
UnknownIsSkipped == Encodings!UnknownIsSkipped
=============================================================================
