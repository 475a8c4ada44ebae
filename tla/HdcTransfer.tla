------------------------------ MODULE HdcTransfer ------------------------------
(***************************************************************************)
(* `hdc file send` and `hdc file recv`: two HdcFile tasks, one in the hdc  *)
(* client of this process and one in the daemon, copy one file or one      *)
(* directory (common/file.cpp, common/transfer.cpp).  The one that reads   *)
(* is the master.  Between them the hdc server passes packets on until it  *)
(* frees the channel.  Every file operation is a libuv request: a thread   *)
(* of the pool performs it, the loop of the task sees it later.            *)
(*                                                                         *)
(* A file is a number of blocks, one block is what one request reads.  The *)
(* source may be cut short while it is copied.  That the daemon runs the   *)
(* same classes is taken from the code here, which serves both sides.      *)
(***************************************************************************)
EXTENDS Naturals, Sequences, FiniteSets, SequencesExt

CONSTANTS Files,      \* names of the files that may be copied
          MaxBlocks,  \* bound: length of a file
          Jobs,       \* what a command may name: the entries of a directory, or one file alone
          None        \* no file

\* GetSubFilesRecursively: the files below a directory in the order its entries are
\* found.  An entry is a file or, for a directory, the sequence of its own entries; one
\* that cannot be read is passed over without a word and is not in Jobs.
RECURSIVE GetSubFilesRecursively(_)
GetSubFilesRecursively(d) ==
    FlattenSeq([i \in DOMAIN d |-> IF d[i] \in Files THEN <<d[i]>> ELSE GetSubFilesRecursively(d[i])])

\* What it adds to dirMode: a mode for each directory, itself included.
RECURSIVE DirModes(_)
DirModes(d) ==
    FoldSeq(LAMBDA e, n : n + (IF e \in Files THEN 0 ELSE DirModes(e)), 1, d)

ASSUME TransferAssumption ==
    /\ IsFiniteSet(Files) /\ Files # {} /\ MaxBlocks \in Nat /\ None \notin Files
    /\ \A j \in Jobs :
          LET q == GetSubFilesRecursively(j) IN q \in Seq(Files) /\ IsInjective(q)

Sides == {"master", "slave"}
Other(s) == IF s = "master" THEN "slave" ELSE "master"
Fds == 1..2     \* descriptor numbers; the second is used only if the first is still open

VARIABLES
    job,        \* the file alone, or the entries of the directory, that the command names
    size,       \* their lengths when it is given
    client,     \* the side that runs in this process, as a task of the client's channel
    source,     \* the length of each file of the master
    dest,       \* for each file of the slave None, or the blocks written since it was opened
    isDir,      \* CtxFile.isDir of both sides
    modeSync,   \* CtxFile.fileModeSync of the master: option -m
    dirMode,    \* how many directory modes the master has still to send
    taskQueue,  \* the files the master has still to open
    ctx,        \* CtxFile of each side
    fdTable,    \* the file behind each descriptor number of a side
    io,         \* libuv requests of each side
    net,        \* packets: to the server from the daemon, to the client, to the daemon
    relay,      \* the server's channel: "open", "closing" (its freeing is asked for), "freed"
    life,       \* each task: "none", "run", "stopping", "gone"
    report,     \* how TransferSummary of a side has judged the transfer
    failLogged  \* LogMsg(MSG_FAIL) has told the user of a failure

vars == <<job, size, client, source, dest, isDir, modeSync, dirMode, taskQueue, ctx, fdTable, io, net,
          relay, life, report, failLogged>>
config == <<job, size, client, isDir, modeSync>>

--------------------------------------------------------------------------------
(* Packets and requests. *)

Begin            == [type |-> "BEGIN"]
Mode             == [type |-> "MODE"]
DirMode          == [type |-> "DIR_MODE"]
Check(f, n)      == [type |-> "CHECK", file |-> f, size |-> n]
Data(f, i, n)    == [type |-> "DATA", file |-> f, index |-> i, bytes |-> n]
Finish(flag)     == [type |-> "FINISH", flag |-> flag]
Close(flag)      == [type |-> "CLOSE", flag |-> flag]

Packets ==
    {Begin, Mode, DirMode} \cup {Finish(b) : b \in {0, 1}} \cup {Close(b) : b \in {0, 1}}
      \cup {Check(f, n) : f \in Files, n \in 0..MaxBlocks}
      \cup {Data(f, i, n) : f \in Files, i \in 0..MaxBlocks, n \in {0, 1}}

\* `file` of a read or a write is the file it was meant for; the code knows `fd` only.
\* `res` is "none" until the pool has run the request, then what it returns.
Request == [op : {"open", "read", "write"}, fd : 0..2, file : Files, index : 0..MaxBlocks,
            bytes : {0, 1}, res : {"none", "ok", "failed"}]

OpenReq(f)           == [op |-> "open", fd |-> 0, file |-> f, index |-> 0, bytes |-> 0, res |-> "none"]
ReadReq(fd, f, i)    == [op |-> "read", fd |-> fd, file |-> f, index |-> i, bytes |-> 0, res |-> "none"]
WriteReq(fd, f, i, n) == [op |-> "write", fd |-> fd, file |-> f, index |-> i, bytes |-> n, res |-> "none"]

NoCtx == [file |-> None, fileSize |-> 0, indexIO |-> 0, ioFinish |-> FALSE, failed |-> FALSE,
          closeNotify |-> FALSE, isFdOpen |-> FALSE, openFd |-> 0]

TypeOK ==
    /\ job \in Jobs /\ size \in [Files -> 0..MaxBlocks]
    /\ client \in Sides
    /\ source \in [Files -> 0..MaxBlocks]
    /\ dest \in [Files -> {None} \cup SUBSET (1..MaxBlocks)]
    /\ isDir \in BOOLEAN /\ modeSync \in BOOLEAN /\ dirMode \in Nat
    /\ taskQueue \in Seq(Files)
    /\ ctx \in [Sides -> [file : Files \cup {None}, fileSize : 0..MaxBlocks, indexIO : Nat,
                          ioFinish : BOOLEAN, failed : BOOLEAN, closeNotify : BOOLEAN,
                          isFdOpen : BOOLEAN, openFd : 0..2]]
    /\ fdTable \in [Sides -> [Fds -> Files \cup {None}]]
    /\ io \in [Sides -> SUBSET Request]
    /\ net \in [{"server", "client", "daemon"} -> Seq(Packets)]
    /\ relay \in {"open", "closing", "freed"}
    /\ life \in [Sides -> {"none", "run", "stopping", "gone"}]
    /\ report \in [Sides -> {"none", "ok", "fail"}]
    /\ failLogged \in BOOLEAN

Init ==
    /\ client \in Sides
    /\ isDir \in BOOLEAN
    /\ job \in {j \in Jobs : ~isDir => Len(j) = 1 /\ j[1] \in Files}
    /\ size \in [Files -> 0..MaxBlocks]
    /\ source = size
    /\ dest = [f \in Files |-> None]
    /\ modeSync \in BOOLEAN
    /\ dirMode = 0
    /\ taskQueue = <<>>
    /\ ctx = [s \in Sides |-> NoCtx]
    /\ fdTable = [s \in Sides |-> [n \in Fds |-> None]]
    /\ io = [s \in Sides |-> {}]
    /\ net = [q \in {"server", "client", "daemon"} |-> <<>>]
    /\ relay = "open"
    /\ life = [s \in Sides |-> "none"]
    /\ report = [s \in Sides |-> "none"]
    /\ failLogged = FALSE

--------------------------------------------------------------------------------
(* What the handlers are made of. *)

\* Where a packet of side s enters the network.
Out(s) == IF s = client THEN "daemon" ELSE "server"
In(s)  == IF s = client THEN "client" ELSE "daemon"

\* SendToAnother: a stopped task sends nothing; what the client sends after the server has
\* freed the channel is lost.
CanSend(s) == IF s = client THEN relay # "freed" ELSE life[s] \in {"none", "run"}
SendAll(n, s, ps) == IF CanSend(s) THEN [n EXCEPT ![Out(s)] = @ \o ps] ELSE n

\* The network after side s has taken its packet and has answered with ps.
Answer(s, ps) == net' = SendAll([net EXCEPT ![In(s)] = Tail(@)], s, ps)

\* CloseCtxFd.
CloseCtxFd(c) == [c EXCEPT !.isFdOpen = FALSE]
ClosedTable(s) ==
    IF ctx[s].isFdOpen THEN [fdTable EXCEPT ![s][ctx[s].openFd] = None] ELSE fdTable

\* Summary is the verdict of TransferSummary.
Summary(c) == IF c.indexIO >= c.fileSize \/ ~c.failed THEN "ok" ELSE "fail"

Receives(s, type) ==
    /\ life[s] \in {"none", "run"}
    /\ net[In(s)] # <<>>
    /\ Head(net[In(s)]).type = type

Packet(s) == Head(net[In(s)])

\* The task exists from its first packet on.
Alive(s) == life' = [life EXCEPT ![s] = "run"]
--------------------------------------------------------------------------------
(* Opening files. *)

\* SetMasterParameters: the directory is read once, and may be empty.
SetMasterParameters == GetSubFilesRecursively(job) # <<>>

\* CMD_FILE_INIT reaches the master: BeginTransfer.  The parameters may be wrong, or the
\* directory empty; then nothing is opened.
BeginTransfer ==
    /\ life["master"] = "none"
    /\ Alive("master")
    /\ \/ /\ failLogged' = TRUE
          /\ net' = SendAll(net, "master", <<Close(1)>>)
          /\ UNCHANGED <<ctx, taskQueue, dirMode, io>>
       \/ /\ SetMasterParameters
          /\ LET q == GetSubFilesRecursively(job)
             IN  /\ ctx' = [ctx EXCEPT !["master"].file = Last(q)]
                 /\ taskQueue' = Front(q)
                 /\ io' = [io EXCEPT !["master"] = @ \cup {OpenReq(Last(q))}]
          /\ dirMode' = IF isDir THEN DirModes(job) ELSE 0
          /\ UNCHANGED <<net, failLogged>>
    /\ UNCHANGED <<config, source, dest, fdTable, relay, report>>

\* What CMD_FILE_FINISH with flag 1 does at s: the next file (TransferNext), or the end of
\* this side.  n and i are the network and the requests before what it adds to them.
FinishOne(s, n, i) ==
    LET q == IF s = "master" THEN taskQueue ELSE <<>>
        closed == CloseCtxFd(ctx[s])
    IN  /\ fdTable' = ClosedTable(s)
        /\ \/ /\ isDir /\ q # <<>>
              /\ ctx' = [ctx EXCEPT ![s] = [closed EXCEPT !.file = Last(q)]]
              /\ taskQueue' = Front(q)
              /\ io' = [i EXCEPT ![s] = @ \cup {OpenReq(Last(q))}]
              /\ net' = n
           \/ /\ ~(isDir /\ q # <<>>)
              /\ ctx' = [ctx EXCEPT ![s] = [closed EXCEPT !.ioFinish = TRUE]]
              /\ net' = SendAll(n, s, <<Finish(0)>>)
              /\ io' = i
              /\ UNCHANGED taskQueue

\* OnFileOpen of a file that cannot be opened, and OnFileOpenFailed.
OpenFails(s, r) ==
    LET rest == [io EXCEPT ![s] = @ \ {r}]
    IN  /\ r.op = "open" /\ r.res = "failed"
        /\ failLogged' = TRUE
        /\ \/ isDir /\ s = "master" /\ FinishOne(s, net, rest)
           \/ /\ ~(isDir /\ s = "master")
              /\ io' = rest
              /\ net' = SendAll(net, s, IF isDir THEN <<Finish(1)>> ELSE <<Close(1)>>)
              /\ UNCHANGED <<ctx, taskQueue, fdTable>>
        /\ UNCHANGED <<config, source, dest, dirMode, relay, life, report>>

\* OnFileOpen of a file that is open: ResetCtx, then CheckMaster or CMD_FILE_BEGIN.
Opened(s, r) ==
    /\ r.op = "open" /\ r.res = "ok"
    /\ io' = [io EXCEPT ![s] = @ \ {r}]
    /\ ctx' = [ctx EXCEPT ![s] =
                  [@ EXCEPT !.indexIO = 0, !.ioFinish = FALSE, !.failed = FALSE,
                            !.closeNotify = FALSE, !.isFdOpen = TRUE, !.openFd = r.fd,
                            !.fileSize = IF s = "master" THEN source[r.file] ELSE @]]
    /\ net' = SendAll(net, s, IF s = "slave" THEN <<Begin>>
                              ELSE IF modeSync THEN <<Mode>>
                              ELSE <<Check(ctx[s].file, source[r.file])>>)
    /\ UNCHANGED <<config, source, dest, dirMode, taskQueue, fdTable, relay, life, report, failLogged>>

\* FileModeSync: the master answers a MODE with the next directory's mode, or with the CHECK
\* that the modes have put off; the slave acknowledges each.
FileModeSync(s) ==
    /\ Receives(s, "MODE") \/ Receives(s, "DIR_MODE")
    /\ Alive(s)
    /\ \/ /\ s = "master"
          /\ dirMode' = IF dirMode > 0 THEN dirMode - 1 ELSE 0
          /\ Answer(s, IF dirMode > 0 THEN <<DirMode>>
                       ELSE <<Check(ctx[s].file, ctx[s].fileSize)>>)
       \/ /\ s = "slave"
          /\ Answer(s, <<Mode>>)
          /\ UNCHANGED dirMode
    /\ UNCHANGED <<config, source, dest, taskQueue, ctx, fdTable, io, relay, report, failLogged>>

\* CheckLocalPath, CheckFilename, SmartSlavePath: a directory of the target may be missing
\* and may not be made, the target may be newer.
PathsGood == BOOLEAN

\* SlaveCheck: it may refuse, else it opens the file, which truncates it.
SlaveCheck ==
    /\ Receives("slave", "CHECK")
    /\ Alive("slave")
    /\ ctx' = [ctx EXCEPT !["slave"].file = Packet("slave").file,
                          !["slave"].fileSize = Packet("slave").size]
    /\ \/ /\ FALSE \in PathsGood
          /\ failLogged' = TRUE
          /\ Answer("slave", <<Close(1)>>)
          /\ UNCHANGED io
       \/ /\ TRUE \in PathsGood
          /\ io' = [io EXCEPT !["slave"] = @ \cup {OpenReq(Packet("slave").file)}]
          /\ Answer("slave", <<>>)
          /\ UNCHANGED failLogged
    /\ UNCHANGED <<config, source, dest, dirMode, taskQueue, fdTable, relay, report>>

--------------------------------------------------------------------------------
(* Reading, writing and closing. *)

\* CMD_FILE_BEGIN at the master: the first SimpleFileIO.
BeginRead ==
    /\ Receives("master", "BEGIN")
    /\ Alive("master")
    /\ \/ /\ ctx["master"].ioFinish
          /\ Answer("master", <<Close(1)>>)
          /\ UNCHANGED io
       \/ /\ ~ctx["master"].ioFinish
          /\ io' = [io EXCEPT !["master"] = @ \cup
                       {ReadReq(ctx["master"].openFd, ctx["master"].file, ctx["master"].indexIO)}]
          /\ Answer("master", <<>>)
    /\ UNCHANGED <<config, source, dest, dirMode, taskQueue, ctx, fdTable, relay, report, failLogged>>

\* CMD_FILE_DATA at the slave: RecvIOPayload starts a write at the offset in the packet.
\* It does not wait for the writes before it.
RecvIOPayload ==
    /\ Receives("slave", "DATA")
    /\ Alive("slave")
    /\ \/ /\ ctx["slave"].ioFinish
          /\ ctx' = [ctx EXCEPT !["slave"] = CloseCtxFd(@)]
          /\ fdTable' = ClosedTable("slave")
          /\ Answer("slave", <<Close(1)>>)
          /\ UNCHANGED io
       \/ /\ ~ctx["slave"].ioFinish
          /\ io' = [io EXCEPT !["slave"] = @ \cup
                       {WriteReq(ctx["slave"].openFd, Packet("slave").file,
                                 Packet("slave").index, Packet("slave").bytes)}]
          /\ Answer("slave", <<>>)
          /\ UNCHANGED <<ctx, fdTable>>
    /\ UNCHANGED <<config, source, dest, dirMode, taskQueue, relay, report, failLogged>>

\* OnFileClose, of a callback without an error: WhenTransferFinish sends FINISH when it is
\* to notify.
OnFileClose(c) == IF c.closeNotify THEN <<Finish(1)>> ELSE <<>>

\* ProcressFileIOFinish: the descriptor is closed whatever else is in flight.  c is the
\* context of s as the callback leaves it, ps what the callback has sent.
FileIOFinish(s, c, ps) ==
    /\ ctx' = [ctx EXCEPT ![s] = CloseCtxFd([c EXCEPT !.ioFinish = TRUE])]
    /\ fdTable' = ClosedTable(s)
    /\ net' = SendAll(net, s, ps \o IF c.failed THEN <<Finish(1)>> ELSE OnFileClose(c))

\* OnFileIO of a read.  Only a block that was read is sent with a length.
ReadDone(r) ==
    LET c == ctx["master"]
        next == [c EXCEPT !.indexIO = @ + r.bytes]
        data == Data(r.file, c.indexIO, r.bytes)
    IN  /\ r.op = "read" /\ r.res # "none"
        /\ \/ /\ c.ioFinish
              /\ FileIOFinish("master", c, <<>>)
              /\ io' = [io EXCEPT !["master"] = @ \ {r}]
           \/ /\ ~c.ioFinish /\ r.res = "failed"
              /\ FileIOFinish("master", [c EXCEPT !.failed = TRUE, !.closeNotify = TRUE], <<>>)
              /\ io' = [io EXCEPT !["master"] = @ \ {r}]
           \/ /\ ~c.ioFinish /\ r.res = "ok"
              /\ \/ ~CanSend("master") /\ client # "master"
                 \/ r.bytes = 0
                 \/ next.indexIO >= c.fileSize
              /\ FileIOFinish("master", next, <<data>>)
              /\ io' = [io EXCEPT !["master"] = @ \ {r}]
           \/ /\ ~c.ioFinish /\ r.res = "ok" /\ r.bytes > 0 /\ next.indexIO < c.fileSize
              /\ CanSend("master") \/ client = "master"
              /\ ctx' = [ctx EXCEPT !["master"] = next]
              /\ net' = SendAll(net, "master", <<data>>)
              /\ io' = [io EXCEPT !["master"] = (@ \ {r}) \cup
                           {ReadReq(c.openFd, c.file, next.indexIO)}]
              /\ UNCHANGED fdTable
    /\ UNCHANGED <<config, source, dest, dirMode, taskQueue, relay, life, report, failLogged>>

\* Mutant of WriteEnds: done when the last block may have been handed out.
WriteEndsEarly(c, r) == c.indexIO + 1 >= c.fileSize \/ r.bytes = 0

\* ProcressFileIOWrite: all bytes are written, or the source had no more.
WriteEnds(c, r) == c.indexIO >= c.fileSize \/ r.bytes = 0

\* Mutant of WriteDone: a failed write does not end the task.
WriteDoneGoesOn(r) ==
    LET c == ctx["slave"]
        next == [c EXCEPT !.indexIO = @ + r.bytes]
        lost == [c EXCEPT !.failed = TRUE, !.closeNotify = TRUE]
    IN  /\ r.op = "write" /\ r.res # "none"
        /\ io' = [io EXCEPT !["slave"] = @ \ {r}]
        /\ \/ /\ c.ioFinish
              /\ FileIOFinish("slave", c, <<>>)
              /\ UNCHANGED <<report, failLogged>>
           \/ /\ ~c.ioFinish /\ r.res = "failed"
              /\ UNCHANGED <<report, failLogged>>
              /\ FileIOFinish("slave", lost, <<>>)
           \/ /\ ~c.ioFinish /\ r.res = "ok"
              /\ \/ /\ WriteEnds(next, r)
                    /\ FileIOFinish("slave", [next EXCEPT !.closeNotify = TRUE], <<>>)
                 \/ /\ ~WriteEnds(next, r)
                    /\ ctx' = [ctx EXCEPT !["slave"] = next]
                    /\ UNCHANGED <<net, fdTable>>
              /\ UNCHANGED <<report, failLogged>>
        /\ UNCHANGED <<config, source, dest, dirMode, taskQueue, relay, life>>

\* OnFileIO of a write.  A failed one dispatches FINISH with flag 0 to its own task.
WriteDone(r) ==
    LET c == ctx["slave"]
        next == [c EXCEPT !.indexIO = @ + r.bytes]
        lost == [c EXCEPT !.failed = TRUE, !.closeNotify = TRUE]
    IN  /\ r.op = "write" /\ r.res # "none"
        /\ io' = [io EXCEPT !["slave"] = @ \ {r}]
        /\ \/ /\ c.ioFinish
              /\ FileIOFinish("slave", c, <<>>)
              /\ UNCHANGED <<report, failLogged>>
           \/ /\ ~c.ioFinish /\ r.res = "failed"
              /\ report' = [report EXCEPT !["slave"] = Summary(lost)]
              /\ failLogged' = (failLogged \/ Summary(lost) = "fail")
              /\ FileIOFinish("slave", lost, <<Close(1)>>)
           \/ /\ ~c.ioFinish /\ r.res = "ok"
              /\ \/ /\ WriteEnds(next, r)
                    /\ FileIOFinish("slave", [next EXCEPT !.closeNotify = TRUE], <<>>)
                 \/ /\ ~WriteEnds(next, r)
                    /\ ctx' = [ctx EXCEPT !["slave"] = next]
                    /\ UNCHANGED <<net, fdTable>>
              /\ UNCHANGED <<report, failLogged>>
        /\ UNCHANGED <<config, source, dest, dirMode, taskQueue, relay, life>>

\* CMD_FILE_FINISH.
RecvFinish(s) ==
    /\ Receives(s, "FINISH")
    /\ Alive(s)
    /\ \/ /\ Packet(s).flag = 1
          /\ FinishOne(s, [net EXCEPT ![In(s)] = Tail(@)], io)
          /\ UNCHANGED <<report, failLogged>>
       \/ /\ Packet(s).flag = 0
          /\ report' = [report EXCEPT ![s] = Summary(ctx[s])]
          /\ failLogged' = (failLogged \/ Summary(ctx[s]) = "fail")
          /\ Answer(s, <<Close(1)>>)
          /\ UNCHANGED <<ctx, taskQueue, fdTable, io>>
    /\ UNCHANGED <<config, source, dest, dirMode, relay>>

--------------------------------------------------------------------------------
(* The thread pool and the file system. *)

LowestFree(s) == CHOOSE n \in Fds : fdTable[s][n] = None /\ \A m \in 1..(n - 1) : fdTable[s][m] # None

\* To write nothing to an open file, and to read behind its end, does not fail.
CanFail(s, r) ==
    r.op # "open" /\ fdTable[s][r.fd] # None =>
        IF r.op = "write" THEN r.bytes > 0 ELSE r.index < source[fdTable[s][r.fd]]

\* A thread of the pool performs a request.
PoolRuns(s, r) ==
    /\ r.res = "none"
    /\ \/ /\ CanFail(s, r)
          /\ io' = [io EXCEPT ![s] = (@ \ {r}) \cup {[r EXCEPT !.res = "failed"]}]
          /\ UNCHANGED <<fdTable, dest>>
       \/ /\ r.op = "open" /\ \E n \in Fds : fdTable[s][n] = None
          /\ fdTable' = [fdTable EXCEPT ![s][LowestFree(s)] = r.file]
          /\ dest' = IF s = "slave" THEN [dest EXCEPT ![r.file] = {}] ELSE dest
          /\ io' = [io EXCEPT ![s] = (@ \ {r}) \cup {[r EXCEPT !.res = "ok", !.fd = LowestFree(s)]}]
       \/ /\ r.op = "read" /\ r.fd # 0 /\ fdTable[s][r.fd] # None
          /\ io' = [io EXCEPT ![s] = (@ \ {r}) \cup
                       {[r EXCEPT !.res = "ok",
                                  !.bytes = IF r.index < source[fdTable[s][r.fd]] THEN 1 ELSE 0]}]
          /\ UNCHANGED <<fdTable, dest>>
       \/ /\ r.op = "write" /\ r.fd # 0 /\ fdTable[s][r.fd] # None
          /\ io' = [io EXCEPT ![s] = (@ \ {r}) \cup {[r EXCEPT !.res = "ok"]}]
          /\ dest' = IF r.bytes = 0 THEN dest
                     ELSE [dest EXCEPT ![fdTable[s][r.fd]] = @ \cup {r.index + 1}]
          /\ UNCHANGED fdTable
    /\ UNCHANGED <<config, source, dirMode, taskQueue, ctx, net, relay, life, report, failLogged>>

\* Another program cuts a source file short.
Truncate(f) ==
    /\ source[f] > 0
    /\ source' = [source EXCEPT ![f] = @ - 1]
    /\ UNCHANGED <<config, dest, dirMode, taskQueue, ctx, fdTable, io, net, relay, life, report, failLogged>>

--------------------------------------------------------------------------------
(* The way between the two tasks, and their ends. *)

\* Mutant of RelayPacket: a CLOSE is not answered.
RelayPacketSilent ==
    LET p == Head(net["server"])
        rest == [net EXCEPT !["server"] = Tail(@)]
    IN  /\ net["server"] # <<>>
        /\ \/ /\ relay = "freed"
              /\ net' = [rest EXCEPT !["daemon"] = Append(@, Close(0))]
              /\ UNCHANGED relay
           \/ /\ relay # "freed" /\ p.type = "CLOSE"
              /\ relay' = "closing"
              /\ net' = rest
           \/ /\ relay # "freed" /\ p.type # "CLOSE"
              /\ net' = [rest EXCEPT !["client"] = Append(@, p)]
              /\ UNCHANGED relay
        /\ UNCHANGED <<config, source, dest, dirMode, taskQueue, ctx, fdTable, io, life, report, failLogged>>

\* FetchCommand of the server passes a packet to the client (SendCommandToClient).  A CLOSE
\* frees the channel, in the server's main loop and later, and is answered if it asks for it.
RelayPacket ==
    LET p == Head(net["server"])
        rest == [net EXCEPT !["server"] = Tail(@)]
    IN  /\ net["server"] # <<>>
        /\ \/ /\ relay = "freed"
              /\ net' = [rest EXCEPT !["daemon"] = Append(@, Close(0))]
              /\ UNCHANGED relay
           \/ /\ relay # "freed" /\ p.type = "CLOSE"
              /\ relay' = "closing"
              /\ net' = IF p.flag = 1 THEN [rest EXCEPT !["daemon"] = Append(@, Close(0))] ELSE rest
           \/ /\ relay # "freed" /\ p.type # "CLOSE"
              /\ net' = [rest EXCEPT !["client"] = Append(@, p)]
              /\ UNCHANGED relay
        /\ UNCHANGED <<config, source, dest, dirMode, taskQueue, ctx, fdTable, io, life, report, failLogged>>

\* The server frees the channel.
RelayFreed ==
    /\ relay = "closing"
    /\ relay' = "freed"
    /\ UNCHANGED <<config, source, dest, dirMode, taskQueue, ctx, fdTable, io, net, life, report, failLogged>>

\* The client has read everything and sees the end of its connection.
ClientEnds ==
    /\ relay = "freed" /\ net["client"] = <<>>
    /\ life[client] \in {"none", "run"}
    /\ life' = [life EXCEPT ![client] = "stopping"]
    /\ UNCHANGED <<config, source, dest, dirMode, taskQueue, ctx, fdTable, io, net, relay, report, failLogged>>

\* A CLOSE reaches the daemon: ClearOwnTasks stops the task, and CLOSE is answered.
DaemonCloses ==
    LET s == Other(client)
        p == Head(net["daemon"])
        rest == [net EXCEPT !["daemon"] = Tail(@)]
    IN  /\ net["daemon"] # <<>> /\ p.type = "CLOSE"
        /\ life' = [life EXCEPT ![s] = IF @ \in {"none", "run"} THEN "stopping" ELSE @]
        /\ net' = IF p.flag = 1 THEN [rest EXCEPT !["server"] = Append(@, Close(0))] ELSE rest
        /\ UNCHANGED <<config, source, dest, dirMode, taskQueue, ctx, fdTable, io, relay, report, failLogged>>

\* A packet for a task that is stopped is dropped.
Dropped ==
    LET s == Other(client)
    IN  /\ life[s] \in {"stopping", "gone"}
        /\ net["daemon"] # <<>> /\ Head(net["daemon"]).type # "CLOSE"
        /\ net' = [net EXCEPT !["daemon"] = Tail(@)]
        /\ UNCHANGED <<config, source, dest, dirMode, taskQueue, ctx, fdTable, io, relay, life, report, failLogged>>

\* Mutant of TaskGone: only an error makes the destructor close the file.
TaskGoneLeaks(s) ==
    /\ life[s] = "stopping" /\ io[s] = {}
    /\ life' = [life EXCEPT ![s] = "gone"]
    /\ \/ /\ ctx[s].isFdOpen /\ ctx[s].failed
          /\ ctx' = [ctx EXCEPT ![s] = CloseCtxFd(@)]
          /\ fdTable' = ClosedTable(s)
       \/ /\ ~(ctx[s].isFdOpen /\ ctx[s].failed)
          /\ UNCHANGED <<ctx, fdTable>>
    /\ UNCHANGED <<config, source, dest, dirMode, taskQueue, io, net, relay, report, failLogged>>

\* ReadyForRelease, and the destructor: it closes the descriptor of a transfer cut off.
TaskGone(s) ==
    /\ life[s] = "stopping" /\ io[s] = {}
    /\ life' = [life EXCEPT ![s] = "gone"]
    /\ \/ /\ ctx[s].isFdOpen /\ (ctx[s].failed \/ ~ctx[s].ioFinish)
          /\ ctx' = [ctx EXCEPT ![s] = CloseCtxFd(@)]
          /\ fdTable' = ClosedTable(s)
       \/ /\ ~(ctx[s].isFdOpen /\ (ctx[s].failed \/ ~ctx[s].ioFinish))
          /\ UNCHANGED <<ctx, fdTable>>
    /\ UNCHANGED <<config, source, dest, dirMode, taskQueue, io, net, relay, report, failLogged>>

Next ==
    \/ BeginTransfer \/ SlaveCheck \/ BeginRead \/ RecvIOPayload
    \/ RelayPacket \/ RelayFreed \/ ClientEnds \/ DaemonCloses \/ Dropped
    \/ \E s \in Sides : FileModeSync(s) \/ RecvFinish(s) \/ TaskGone(s)
    \/ \E s \in Sides : \E r \in io[s] : OpenFails(s, r) \/ Opened(s, r) \/ PoolRuns(s, r)
    \/ \E r \in io["master"] : ReadDone(r)
    \/ \E r \in io["slave"] : WriteDone(r)
    \/ \E f \in Files : Truncate(f)

\* Loops and pool threads run what is ready; nobody has to cut a file.
Progress == Next /\ UNCHANGED source
Spec == Init /\ [][Next]_vars /\ WF_vars(Progress)

--------------------------------------------------------------------------------
(* Properties. *)

Asked == ToSet(GetSubFilesRecursively(job))
Cut == {f \in Files : source[f] < size[f]}
Succeeded == ~failLogged /\ \E s \in Sides : report[s] = "ok"

\* A transfer that is reported as finished, with no failure told before, has copied every
\* block of every file it was asked for, if nobody cut a file meanwhile: although writes
\* complete in any order and may be lost with the task (TransferSummary).
SuccessIsComplete ==
    Succeeded /\ Cut = {} => \A f \in Asked : dest[f] = 1..size[f]

\* What is written to a file is never another file's block, whatever fails.
NoForeignWrite ==
    Cut = {} =>
    \A r \in io["slave"] : r.op = "write" /\ r.res = "none" => fdTable["slave"][r.fd] \in {r.file, None}

\* The slave asks for the next file when the one before is written: "you can't make Finish
\* first, because Slave may not end" (transfer.cpp:279).
FinishComesLast ==
    ~ctx["slave"].failed /\ (\E i \in DOMAIN net[Out("slave")] : net[Out("slave")][i] = Finish(1)) =>
        \A r \in io["slave"] : r.op # "write"

\* A task that is gone has closed what it opened (CloseCtxFd, ~HdcTransferBase).
NothingLeaks ==
    Cut = {} => \A s \in Sides : life[s] = "gone" => \A n \in Fds : fdTable[s][n] = None

\* Descriptors and what is written through them stay together: none is left open by a task
\* that is gone, and none is written to for a file it is no longer open for (CloseCtxFd).
FilesAreKept == NoForeignWrite /\ NothingLeaks

\* Whatever fails, both tasks end: TaskFinish of one reaches the other.
BothEnd == <>(life[client] = "gone" /\ life[Other(client)] \in {"none", "gone"})
================================================================================
