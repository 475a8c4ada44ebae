----------------------------- MODULE HdcArchive -----------------------------
(***************************************************************************)
(* How a directory becomes one file for an installation: compress.cpp and  *)
(* entry.cpp write it as a tar file with the headers of header.cpp, and    *)
(* decompress.cpp unpacks one.                                             *)
(*                                                                         *)
(* A path is a sequence of characters, relative to the directory.  A node  *)
(* is what lstat says of it and what reading it gives: a file has its      *)
(* content and its length, a link the content of its target and the length *)
(* of its own text.  A tar file is a sequence of cells, a header block a   *)
(* cell that holds the header and HEADER_LEN - 1 empty ones.               *)
(***************************************************************************)
EXTENDS Integers, Sequences, SequencesExt, FiniteSetsExt, TLC

CONSTANTS
    HEADER_LEN, HEADER_NAME_LEN, HEADER_MAX_FILE_LEN,
    HEADER_SIZE_LEN,         \* octal digits of a size, and one
    ENTRY_FILE_BUFSIZE,      \* a multiple of HEADER_LEN
    ENTRY_MAX_FILE_SIZE

ASSUME LengthsAssumption ==
    /\ {HEADER_LEN, HEADER_NAME_LEN, HEADER_SIZE_LEN, ENTRY_FILE_BUFSIZE} \subseteq Nat \ {0}
    /\ HEADER_NAME_LEN <= HEADER_MAX_FILE_LEN
    /\ ENTRY_FILE_BUFSIZE % HEADER_LEN = 0
    /\ ENTRY_MAX_FILE_SIZE \in Nat

AtMost(a, b) == IF a < b THEN a ELSE b
First(s, n) == SubSeq(s, 1, AtMost(n, Len(s)))
After(s, n) == SubSeq(s, n + 1, Len(s))

-----------------------------------------------------------------------------
(* header.cpp.                                                               *)

NoHeader == [prefix |-> <<>>, name |-> <<>>, size |-> <<>>, typeflage |-> "INVALID"]

\* Mutant of UpdataName: the name keeps one character too many for its field.
UpdataNameLong(h, fileName) ==
    LET cut == Len(fileName) - HEADER_NAME_LEN IN
    IF Len(fileName) >= HEADER_MAX_FILE_LEN THEN h
    ELSE IF Len(fileName) < HEADER_NAME_LEN THEN [h EXCEPT !.name = fileName]
    ELSE [h EXCEPT !.name = First(After(fileName, cut), HEADER_NAME_LEN - 1),
                   !.prefix = First(fileName, AtMost(cut, HEADER_NAME_LEN - 1))]

\* A long name is cut in two, its end in the one field, its beginning in the
\* other; snprintf_s leaves HEADER_NAME_LEN - 1 characters of either.  A name
\* that is too long leaves the header without one.
UpdataName(h, fileName) ==
    LET cut == Len(fileName) - (HEADER_NAME_LEN - 1) IN
    IF Len(fileName) >= HEADER_MAX_FILE_LEN THEN h
    ELSE IF Len(fileName) < HEADER_NAME_LEN THEN [h EXCEPT !.name = fileName]
    ELSE [h EXCEPT !.name = First(After(fileName, cut), HEADER_NAME_LEN - 1),
                   !.prefix = First(First(fileName, cut), HEADER_NAME_LEN - 1)]

Name(h) == h.prefix \o h.name

\* The digits of n, the highest first, with zeros before them.
DecimalToOctalString(n, length) ==
    LET digits == Max({length} \cup {d \in 1..11 : n >= 8^(d - 1)}) IN
    [i \in 1..digits |-> (n \div 8^(digits - i)) % 8]

UpdataSize(h, fileLen) ==
    [h EXCEPT !.size = First(DecimalToOctalString(fileLen, HEADER_SIZE_LEN - 1), HEADER_SIZE_LEN - 1)]

Size(h) == FoldLeft(LAMBDA num, digit : 8 * num + digit, 0, h.size)

UpdataFileType(h, fileType) == [h EXCEPT !.typeflage = fileType]

-----------------------------------------------------------------------------
(* compress.cpp and the writing half of entry.cpp.                           *)

\* The bits of st_mode decide: a link has that of a regular file.  A file of
\* the maximal size or more keeps a header of no type.
EntryOf(path, node) ==
    LET h == IF node.kind = "dir" THEN UpdataSize(UpdataFileType(NoHeader, "DIRECTORY"), 0)
             ELSE IF node.size < ENTRY_MAX_FILE_SIZE
             THEN UpdataFileType(UpdataSize(NoHeader, node.size), "ORDINARYFILE")
             ELSE NoHeader
    IN  [header |-> UpdataName(h, path), path |-> path]

Hidden(path) == \E i \in DOMAIN path : path[i] = "." /\ (i = 1 \/ path[i - 1] = "/")

\* AddPath, for the directory itself: every path under it but the hidden ones,
\* a directory before what is in it, until there are more than maxcount (0:
\* no limit).  The first one over the limit ends the walk.
AddPath(fs, maxcount) ==
    LET paths == SetToSortSeq({p \in DOMAIN fs : ~Hidden(p)}, LAMBDA p, q : Len(p) < Len(q))
        kept  == IF maxcount > 0 THEN First(paths, maxcount + 1) ELSE paths
    IN  [i \in DOMAIN kept |-> EntryOf(kept[i], fs[kept[i]])]

Empty(n) == [i \in 1..n |-> [cell |-> "empty"]]
Cells(content) == [i \in DOMAIN content |-> [cell |-> "data", value |-> content[i]]]
GetBytes(h) == <<[cell |-> "header", header |-> h]>> \o Empty(HEADER_LEN - 1)

Padding(size) == (HEADER_LEN - (size % HEADER_LEN)) % HEADER_LEN

\* What is read of a file, by the name in its header: nothing if there is no
\* such file (a name that was cut) or it cannot be read.
ContentOf(fs, h) == IF Name(h) \in DOMAIN fs THEN fs[Name(h)].content ELSE <<>>

\* Mutant of WriteToTar: a block is filled up although it is full.
WriteToTarPadded(file, fs, entry) ==
    LET h == entry.header
        content == ContentOf(fs, h)
        headed  == file.cells \o GetBytes(h)
    IN  IF h.typeflage = "INVALID" \/ ~file.good THEN file
        ELSE IF h.typeflage = "DIRECTORY" \/ Size(h) = 0 THEN [file EXCEPT !.cells = headed]
        ELSE [cells |-> headed \o Cells(content) \o Empty(HEADER_LEN - (Size(h) % HEADER_LEN)), good |-> TRUE]

\* The content is read now; the size was taken when the path was added.  When
\* nothing can be read the stream of the tar file fails, and nothing more is
\* written to it.
WriteToTar(file, fs, entry) ==
    LET h == entry.header
        content == ContentOf(fs, h)
        headed  == file.cells \o GetBytes(h)
    IN  IF h.typeflage = "INVALID" \/ ~file.good THEN file
        ELSE IF h.typeflage = "DIRECTORY" \/ Size(h) = 0 THEN [file EXCEPT !.cells = headed]
        ELSE IF content = <<>> THEN [cells |-> headed, good |-> FALSE]
        ELSE [file EXCEPT !.cells = headed \o Cells(content) \o Empty(Padding(Size(h)))]

SaveToFile(fs, entrys) ==
    FoldLeft(LAMBDA file, entry : WriteToTar(file, fs, entry), [cells |-> <<>>, good |-> TRUE], entrys).cells

-----------------------------------------------------------------------------
(* decompress.cpp and the reading half of entry.cpp.                         *)

\* CheckPath: a tar file is some whole number of blocks.
CheckPath(tar) == tar # <<>> /\ Len(tar) % HEADER_LEN = 0

\* PayloadToFile: whole buffers, then the rest with its padding; what could
\* be read before the tar file ended.
PayloadToFile(size, rest) ==
    LET whole == (size \div ENTRY_FILE_BUFSIZE) * ENTRY_FILE_BUFSIZE
        last  == size - whole
        taken == whole + (IF last = 0 THEN 0 ELSE last + Padding(last))
    IN  [ok   |-> taken <= Len(rest),
         data |-> IF taken <= Len(rest) THEN First(rest, size)
                  ELSE First(rest, AtMost(whole, (Len(rest) \div ENTRY_FILE_BUFSIZE) * ENTRY_FILE_BUFSIZE)),
         rest |-> After(rest, taken)]

MkDir == [kind |-> "dir"]
MkFile(data) == [kind |-> "file", data |-> data]

\* Header by header; a block that is none, or one without a name, ends it.
\* A file that is there already is written on (std::ios::app).
DecompressToLocal(tar) ==
    LET Step[n \in 0..Len(tar)] ==
            IF n = 0 THEN [rest |-> tar, out |-> <<>>]
            ELSE LET s    == Step[n - 1]
                     cell == s.rest[1]
                     h    == cell.header
                     r    == PayloadToFile(Size(h), After(s.rest, HEADER_LEN))
                     old  == IF Name(h) \in DOMAIN s.out THEN s.out[Name(h)].data ELSE <<>>
                 IN  IF s.rest = <<>> THEN s
                     ELSE IF cell.cell # "header" \/ Len(s.rest) < HEADER_LEN THEN [s EXCEPT !.rest = <<>>]
                     ELSE IF h.typeflage = "DIRECTORY"
                     THEN [rest |-> After(s.rest, HEADER_LEN), out |-> (Name(h) :> MkDir) @@ s.out]
                     ELSE IF Name(h) = <<>> THEN [s EXCEPT !.rest = <<>>]
                     ELSE [rest |-> IF r.ok THEN r.rest ELSE <<>>,
                           out  |-> (Name(h) :> MkFile(old \o r.data)) @@ s.out]
    IN  IF CheckPath(tar) THEN Step[Len(tar)].out ELSE <<>>
=============================================================================
