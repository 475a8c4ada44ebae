----------------------------- MODULE HdcInstall -----------------------------
(***************************************************************************)
(* The HdcHostApp task of an hdc client: `install', with a queue of        *)
(* packages and of directories that go as tar files, `sideload' and        *)
(* `uninstall' (host_app.cpp).  The task runs on the loop of the client;   *)
(* a file is opened by a thread of the pool, and what is sent is taken by  *)
(* a daemon that answers each package with CMD_APP_FINISH.  How one file   *)
(* is transferred is HdcTransfer's, what a tar file holds HdcArchive's.    *)
(*                                                                         *)
(* On the disk a path is a package with its content or a directory with    *)
(* its tree.  The user may remove a package while the task runs.           *)
(***************************************************************************)
EXTENDS HdcArchive, FiniteSets

CONSTANTS
    Packages,       \* paths MatchPackageExtendName accepts
    NamedTar,       \* the user's paths with ".tar" somewhere in them
    MaxCounts,      \* what Compress::maxcount may be: nothing initialises it
    Vanishing       \* packages that may be removed while the task runs

ASSUME PathsAssumption == {Packages, NamedTar, Vanishing} \subseteq SUBSET STRING

None == "none"
\* A path of the queue: one of the user, or the random name of a tar file.
User(name) == [tar |-> 0, name |-> name]
Tar(n) == [tar |-> n, name |-> ".tar"]
IsTar(path) == path.tar > 0

VARIABLES
    request,     \* the command: its mode and its arguments that are no options
    disk,        \* the files of the user
    tmp,         \* the tar files in the directory for temporary files
    taskQueue, localPath, originLocalDir,
    phase,       \* "new", "opening", "checked" (CMD_APP_CHECK sent), "answered", "ended"
    told,        \* what LogMsg has told the user, MSG_INFO apart
    sent         \* what the daemon got, in order

vars == <<request, disk, tmp, taskQueue, localPath, originLocalDir, phase, told, sent>>

Found(path) == IF IsTar(path) THEN path.tar \in DOMAIN tmp ELSE path.name \in DOMAIN disk
ContentAt(path) == IF IsTar(path) THEN tmp[path.tar] ELSE disk[path.name].content
IsDir(name) == name \in DOMAIN disk /\ disk[name].kind = "dir"

Init(requests, disks) ==
    /\ request \in requests
    /\ disk \in disks
    /\ tmp = <<>>
    /\ taskQueue = <<>> /\ localPath = User(None) /\ originLocalDir = None
    /\ phase = "new"
    /\ told = <<>>
    /\ sent = <<>>

-----------------------------------------------------------------------------
\* Dir2Tar: a directory becomes a tar file, whatever AddPath and SaveToFile say.
Dir2Tar(name, maxcount) == SaveToFile(disk[name].tree, AddPath(disk[name].tree, maxcount))

\* RunQueue: the last one of the queue is opened.
RunQueue(queue) ==
    /\ localPath' = Last(queue)
    /\ phase' = "opening"

\* Mutant of Queues: a package that is named twice is queued twice.
QueuesRepeated(paths) == {paths}

\* sort and unique; where the random name of a tar file comes is open.
Queues(paths) == SetToSeqs(Range(paths))

\* The packages, and the directories as tar files; another argument counts
\* for nothing.
BeginInstall ==
    /\ phase = "new" /\ request.mode = "install"
    /\ LET args == request.args
           dirs == {i \in DOMAIN args : args[i] \notin Packages /\ IsDir(args[i])}
           kept == SelectSeq([i \in DOMAIN args |-> IF i \in dirs THEN Tar(i) ELSE User(args[i])],
                             LAMBDA p : IsTar(p) \/ p.name \in Packages)
       IN  \E maxcount \in MaxCounts :
           /\ tmp' = [i \in dirs |-> Dir2Tar(args[i], maxcount)]
           /\ originLocalDir' = IF dirs = {} THEN None ELSE args[Max(dirs)]
           /\ IF kept = <<>>
              THEN /\ told' = Append(told, "fail")
                   /\ phase' = "ended"
                   /\ UNCHANGED <<taskQueue, localPath>>
              ELSE \E queue \in Queues(kept) :
                     /\ taskQueue' = queue
                     /\ RunQueue(queue)
                     /\ UNCHANGED told
    /\ UNCHANGED <<request, disk, sent>>

BeginSideload ==
    /\ phase = "new" /\ request.mode = "sideload"
    /\ taskQueue' = <<User(request.args[1])>>
    /\ RunQueue(taskQueue')
    /\ UNCHANGED <<request, disk, tmp, originLocalDir, told, sent>>

\* The name goes to the daemon, and into the queue for CheckInstallContinue.
Uninstall ==
    /\ phase = "new" /\ request.mode = "uninstall"
    /\ sent' = <<[path |-> User(request.args[1]), content |-> <<>>]>>
    /\ taskQueue' = <<User(request.args[1])>>
    /\ phase' = "answered"
    /\ UNCHANGED <<request, disk, tmp, localPath, originLocalDir, told>>

\* CheckMaster asks the daemon; without the file the task is over, and what is
\* queued stays where it is.
OnFileOpen ==
    /\ phase = "opening"
    /\ IF Found(localPath)
       THEN phase' = "checked" /\ UNCHANGED told
       ELSE phase' = "ended" /\ told' = Append(told, "fail")
    /\ UNCHANGED <<request, disk, tmp, taskQueue, localPath, originLocalDir, sent>>

\* The daemon begins, gets the file, which is open, and answers.
DaemonTakes ==
    /\ phase = "checked"
    /\ Found(localPath)
    /\ sent' = Append(sent, [path |-> localPath, content |-> ContentAt(localPath)])
    /\ phase' = "answered"
    /\ UNCHANGED <<request, disk, tmp, taskQueue, localPath, originLocalDir, told>>

\* A path with ".tar" in it is taken for one of the task's own.
Unlinked(mode, path) == mode = "install" /\ (IsTar(path) \/ path.name \in NamedTar)

\* StopTask of HdcTransferBase does nothing, so an HdcHostApp is never told to stop.
singalStop == FALSE

\* CMD_APP_FINISH: what it says of the result is passed on in its text only.
CheckInstallContinue ==
    /\ phase = "answered"
    /\ LET done == Last(taskQueue)
           gone == Unlinked(request.mode, done)
       IN  /\ tmp' = [i \in DOMAIN tmp \ (IF gone /\ IsTar(done) THEN {done.tar} ELSE {}) |-> tmp[i]]
           /\ disk' = [p \in DOMAIN disk \ (IF gone /\ ~IsTar(done) THEN {done.name} ELSE {}) |-> disk[p]]
    /\ taskQueue' = Front(taskQueue)
    /\ IF singalStop \/ taskQueue' = <<>>
       THEN told' = Append(told, "finish") /\ phase' = "ended" /\ UNCHANGED localPath
       ELSE RunQueue(taskQueue') /\ UNCHANGED told
    /\ UNCHANGED <<request, originLocalDir, sent>>

\* A file that is open can be read to its end, so it is not removed then.
Vanish(path) ==
    /\ path \in DOMAIN disk /\ phase # "ended" /\ ~(phase = "checked" /\ path = localPath.name)
    /\ disk' = [p \in DOMAIN disk \ {path} |-> disk[p]]
    /\ UNCHANGED <<request, tmp, taskQueue, localPath, originLocalDir, phase, told, sent>>

Step ==
    \/ BeginInstall \/ BeginSideload \/ Uninstall
    \/ OnFileOpen \/ DaemonTakes \/ CheckInstallContinue

Next == Step \/ \E path \in Vanishing : Vanish(path)

-----------------------------------------------------------------------------
SentTo(path) == Cardinality({i \in DOMAIN sent : sent[i].path = path})

\* "AppMod finish" comes when every package of the command, and the tar file
\* of every directory, has been sent once, however often it was named, in
\* whatever order the queue was, and no tar file is left behind.
FinishIsComplete ==
    "finish" \in Range(told) =>
        /\ tmp = <<>>
        /\ \A i \in DOMAIN request.args :
              LET arg == request.args[i] IN
              IF arg \in Packages \/ request.mode # "install" THEN SentTo(User(arg)) = 1
              ELSE SentTo(Tar(i)) <= 1 /\ (IsDir(arg) => SentTo(Tar(i)) = 1)

\* What the daemon makes of the tar file of the i-th argument, and what of the
\* directory it should be, the given paths of it: a file that is too large is
\* left out, and the user is warned of it.
Unpacked(i) == LET s == CHOOSE s \in Range(sent) : s.path = Tar(i) IN DecompressToLocal(s.content)
PartOf(i, paths) ==
    LET tree == disk[request.args[i]].tree IN
    [p \in {q \in paths : tree[q].kind = "dir" \/ tree[q].size < ENTRY_MAX_FILE_SIZE} |->
        IF tree[p].kind = "dir" THEN MkDir ELSE MkFile(Cells(tree[p].content))]
VisibleIn(i) == {p \in DOMAIN disk[request.args[i]].tree : ~Hidden(p)}
SentTars == {i \in DOMAIN request.args : SentTo(Tar(i)) > 0}

\* The two fields of a header have room for the name.
NameFits(path) == Len(path) <= 2 * (HEADER_NAME_LEN - 1)

\* What the daemon unpacks from the i-th tar file is the directory it was made of, but for the
\* hidden files: their names, and what is in them.  Only the number of its files may be one that
\* maxcount happened to allow.
IsUnpackedWhole(i) ==
    \E paths \in SUBSET VisibleIn(i) :
        /\ paths = VisibleIn(i) \/ Cardinality(paths) - 1 \in MaxCounts \ {0}
        /\ Unpacked(i) = PartOf(i, paths)

\* A command that is reported as finished has sent what was named, the packages once and the
\* directories as they are, whatever the fill of a block or a buffer and wherever a name is cut
\* in two (RunQueue, CheckMaster, UpdataName, WriteToTar, PayloadToFile).  A directory with a
\* name that is too long for both fields is left to LongNamesArrive.
InstallIsWhole ==
    /\ FinishIsComplete
    /\ \A i \in SentTars : (\A p \in VisibleIn(i) : NameFits(p)) => IsUnpackedWhole(i)

\* Long names arrive as well.  The code does not keep this: UpdataName drops what is between
\* the two fields, and the file is then looked for under the name in the header.
LongNamesArrive == \A i \in SentTars : IsUnpackedWhole(i)

\* Nothing of the directory is missing, whatever maxcount happened to be.
NothingIsMissing == \A i \in SentTars : Unpacked(i) = PartOf(i, VisibleIn(i))

\* The task removes nothing but its own tar files.  The code does not keep this: see Unlinked.
KeepsUserFiles == [][\A p \in DOMAIN disk \ Vanishing : p \in DOMAIN disk']_vars

\* No tar file outlives the task.
NoTarIsLeft == phase = "ended" => tmp = <<>>
=============================================================================
