------------------------------ MODULE HdcForward ------------------------------
(***************************************************************************)
(* `hdc fport` and `hdc rport` (common/forward.cpp): an HdcForwardBase     *)
(* task at each end of a session.  The master listens; for each connection *)
(* it accepts the slave connects to the target, and the session carries    *)
(* the bytes both ways.  A context stands for one of these sockets; it is  *)
(* known to both ends by one number.                                       *)
(*                                                                         *)
(* The host is this code's server; the daemon runs the same task class.    *)
(* A task runs on the loop of its session's thread: its handlers and the   *)
(* callbacks of libuv exclude one another.  The session delivers in order  *)
(* until it is lost.  What a socket carries is counted in pieces.          *)
(***************************************************************************)
EXTENDS Naturals, Sequences, FiniteSets

CONSTANTS Scenarios,  \* the instances: see Init
          Listen,     \* the context of the listening socket, and of the check at the slave
          MaxLink     \* bound: packets on the way when a socket is read

Ends == {"host", "daemon"}
Other(e) == IF e = "host" THEN "daemon" ELSE "host"

Faults == {"removed", "lost", "refused", "early"}

ASSUME ScenariosAssumption ==
    /\ \A s \in Scenarios :
          /\ s.master \in Ends /\ IsFiniteSet(s.conns) /\ Listen \notin s.conns
          /\ s.kind \in {"tcp", "abstract", "unknown"} /\ s.faults \subseteq Faults
          /\ s.pieces \in [Ends -> Nat]
    /\ MaxLink \in Nat

VARIABLES
    sc,        \* master: the end that listens; conns: its clients; kind: of the target;
               \* pieces: what each end's socket has to say; faults: what may happen
    ctx,       \* the ContextForward of an end: st is "none", "live", "closing" (uv_close is
               \* called), "next" (its deletion waits for DoNextLoop), "deleted";
               \* io is "none" (no handle yet), "made" or "open"; inMap: it is in mapCtxPoint
    said,      \* pieces read from each socket
    pending,   \* pieces handed to uv_write
    heard,     \* pieces the peer of each socket has received
    refCount,  \* HdcTaskBase.refCount of each end
    task,      \* "none", "run", "told" (taskStop), "stopped" (StopTask has run), "gone"
    link,      \* packets on their way to each end
    up,        \* the session is there
    chan,      \* the host's channel: "up", "asked" (to be freed), "dead" (isDead), "gone"
    listed     \* mapForward of the server has an entry

vars == <<sc, ctx, said, pending, heard, refCount, task, link, up, chan, listed>>
sockets == <<said, pending, heard>>

Master == sc.master
Slave  == Other(sc.master)
Conns  == sc.conns
Ids    == Conns \cup {Listen}

--------------------------------------------------------------------------------
(* Packets. *)

Wakeup      == [type |-> "WAKEUP"]
Close(n)    == [type |-> "CLOSE", count |-> n]
Check       == [type |-> "CHECK", id |-> Listen]
CheckResult == [type |-> "CHECK_RESULT", id |-> Listen]
ActiveSlave(i)  == [type |-> "ACTIVE_SLAVE", id |-> i]
ActiveMaster(i) == [type |-> "ACTIVE_MASTER", id |-> i]
Data(i, n)      == [type |-> "DATA", id |-> i, piece |-> n]
Success         == [type |-> "FORWARD_SUCCESS"]
FreeCtx(i)      == [type |-> "FREE_CONTEXT", id |-> i]

Packets(cs, n) ==
    [type : {"WAKEUP", "FORWARD_SUCCESS"}] \cup [type : {"CLOSE"}, count : {0, 1}]
      \cup [type : {"CHECK", "CHECK_RESULT", "FREE_CONTEXT"}, id : cs \cup {Listen}]
      \cup [type : {"ACTIVE_SLAVE", "ACTIVE_MASTER"}, id : cs]
      \cup [type : {"DATA"}, id : cs, piece : 1..n]

Context == [st : {"none", "live", "closing", "next", "deleted"}, io : {"none", "made", "open"},
            ready : BOOLEAN, inMap : BOOLEAN]
NoCtx == [st |-> "none", io |-> "none", ready |-> FALSE, inMap |-> FALSE]

Most == sc.pieces["host"] + sc.pieces["daemon"]
TypeOK ==
    /\ sc \in Scenarios
    /\ ctx \in [Ends -> [Ids -> Context]]
    /\ said \in [Ends -> [Conns -> 0..Most]]
    /\ pending \in [Ends -> [Conns -> Seq(1..Most)]]
    /\ heard \in [Ends -> [Conns -> Seq(1..Most)]]
    /\ refCount \in [Ends -> 0..Cardinality(Ids)]
    /\ task \in [Ends -> {"none", "run", "told", "stopped", "gone"}]
    /\ link \in [Ends -> Seq(Packets(Conns, Most))]
    /\ up \in BOOLEAN /\ listed \in BOOLEAN
    /\ chan \in {"up", "asked", "dead", "gone"}

\* The command has reached the master, whose task is made.
Init ==
    /\ sc \in Scenarios
    /\ ctx = [e \in Ends |-> [i \in Ids |-> NoCtx]]
    /\ said = [e \in Ends |-> [c \in Conns |-> 0]]
    /\ pending = [e \in Ends |-> [c \in Conns |-> <<>>]]
    /\ heard = [e \in Ends |-> [c \in Conns |-> <<>>]]
    /\ refCount = [e \in Ends |-> 0]
    /\ task = [e \in Ends |-> IF e = Master THEN "run" ELSE "none"]
    /\ link = [e \in Ends |-> IF e = Master THEN <<>> ELSE <<Wakeup>>]
    /\ up = TRUE /\ chan = "up" /\ listed = FALSE

--------------------------------------------------------------------------------
(* What the handlers are made of. *)

\* SendToAnother: StopTask of a forward does not set singalStop, so only the end of the
\* session keeps a task from sending.
Sent(l, e, ps) == IF up THEN [l EXCEPT ![Other(e)] = @ \o ps] ELSE l

\* The links after end e has taken its packet and has sent ps.
Answer(e, ps) == link' = Sent([link EXCEPT ![e] = Tail(@)], e, ps)

Receives(e, type) ==
    /\ link[e] # <<>> /\ Head(link[e]).type = type
    /\ e = "host" => chan \in {"up", "asked"}
Packet(e) == Head(link[e])

\* A task's own packets: it is in mapTask and not stopped.
Dispatches(e, type) == Receives(e, type) /\ task[e] = "run"

\* AdminContext(OP_QUERY): a finished context is known until it is deleted.
Known(e, i) == ctx[e][i].inMap

\* MallocContext at end e.
MallocContext(e, i) ==
    /\ ctx[e][i].st = "none"
    /\ refCount' = [refCount EXCEPT ![e] = @ + 1]
Malloced(io) == [st |-> "live", io |-> io, ready |-> FALSE, inMap |-> TRUE]

\* FreeContext: a handle that was never initialised has no close callback to wait for
\* (TryCloseHandle with alwaysCallback).
Freed(x) == IF x.st # "live" THEN x
            ELSE [x EXCEPT !.st = IF x.io = "none" THEN "next" ELSE "closing"]
\* What it sends when it notifies the other end.
Notice(e, i) == IF ctx[e][i].st = "live" THEN <<FreeCtx(i)>> ELSE <<>>

\* TaskFinish.
Finish == <<Close(1)>>

--------------------------------------------------------------------------------
(* The listening end. *)

\* CheckNodeInfo, SetupTCPPoint and SetupFilePoint of the master: what BeginForward leaves
\* of the socket if it fails, wrong parameters or a port that is taken.
SetupFails == IF "refused" \in sc.faults THEN {"none", "made"} ELSE {}

\* BeginForward: a context that fails is left to StopTask; else it sends the check.
BeginForward ==
    /\ task[Master] = "run" /\ ctx[Master][Listen].st = "none"
    /\ MallocContext(Master, Listen)
    /\ \/ /\ \E io \in SetupFails :
                ctx' = [ctx EXCEPT ![Master][Listen] = Malloced(io)]
          /\ link' = Sent(link, Master, Finish)
       \/ /\ ctx' = [ctx EXCEPT ![Master][Listen] = Malloced("open")]
          /\ link' = Sent(link, Master, <<Check>>)
    /\ UNCHANGED <<sc, sockets, task, up, chan, listed>>

\* ListenCallback: a client that comes before the check has been answered ends the forward.
\* OnAccept may fail.
ListenCallback(c) ==
    /\ ctx[Master][Listen].st = "live" /\ ctx[Master][Listen].io = "open"
    /\ ctx[Master][c].st = "none"
    /\ \/ /\ ~ctx[Master][Listen].ready
          /\ "early" \in sc.faults
          /\ ctx' = [ctx EXCEPT ![Master][Listen] = Freed(@)]
          /\ link' = Sent(link, Master, Finish)
          /\ UNCHANGED refCount
       \/ /\ ctx[Master][Listen].ready
          /\ MallocContext(Master, c)
          /\ \/ /\ "refused" \in sc.faults
                /\ ctx' = [ctx EXCEPT ![Master][c] = Freed(Malloced("open"))]
                /\ UNCHANGED link
             \/ /\ ctx' = [ctx EXCEPT ![Master][c] = Malloced("open")]
                /\ link' = Sent(link, Master, <<ActiveSlave(c)>>)
    /\ UNCHANGED <<sc, sockets, task, up, chan, listed>>

\* CommandForwardCheckResult: the answer is good whatever it says, since the code tests the
\* pointer to it.  ServerCommand tells the server, from the daemon with a packet.
CheckResultArrives ==
    /\ Dispatches(Master, "CHECK_RESULT")
    /\ \/ /\ Known(Master, Listen)
          /\ ctx' = [ctx EXCEPT ![Master][Listen].ready = TRUE]
          /\ listed' = (listed \/ Master = "host")
          /\ Answer(Master, IF Master = "host" THEN <<>> ELSE <<Success>>)
       \/ /\ ~Known(Master, Listen)
          /\ Answer(Master, <<>>)
          /\ UNCHANGED <<ctx, listed>>
    /\ UNCHANGED <<sc, sockets, refCount, task, up, chan>>

\* CMD_FORWARD_SUCCESS of a daemon: AdminForwardMap lists the forward.
SuccessArrives ==
    /\ Receives("host", "FORWARD_SUCCESS")
    /\ listed' = TRUE
    /\ Answer("host", <<>>)
    /\ UNCHANGED <<sc, ctx, sockets, refCount, task, up, chan>>

\* DoForwardBegin at the master.
ActiveMasterArrives ==
    /\ Dispatches(Master, "ACTIVE_MASTER")
    /\ LET i == Packet(Master).id IN
         ctx' = [ctx EXCEPT ![Master][i].ready = @ \/ Known(Master, i)]
    /\ Answer(Master, <<>>)
    /\ UNCHANGED <<sc, sockets, refCount, task, up, chan, listed>>

--------------------------------------------------------------------------------
(* The connecting end. *)

\* WAKEUP makes the task of the slave.
WakeupArrives ==
    /\ Receives(Slave, "WAKEUP")
    /\ task' = [task EXCEPT ![Slave] = "run"]
    /\ Answer(Slave, <<>>)
    /\ UNCHANGED <<sc, ctx, sockets, refCount, up, chan, listed>>

\* DetechForwardType: what may be connected to.
KindKnown == sc.kind \in {"tcp", "abstract"}

\* SlaveConnect of a check: nothing is connected.  A target of an unknown kind is refused,
\* which ends the task as well.
CheckArrives ==
    /\ Dispatches(Slave, "CHECK")
    /\ MallocContext(Slave, Listen)
    /\ ctx' = [ctx EXCEPT ![Slave][Listen] = Freed(Malloced("none"))]
    /\ Answer(Slave, IF KindKnown THEN <<CheckResult>> ELSE <<FreeCtx(Listen)>> \o Finish)
    /\ UNCHANGED <<sc, sockets, task, up, chan, listed>>

\* SetupPointContinue after a connect: the master is told, or the context is freed.
SetupPointContinue(x, ok) ==
    IF ok THEN [x EXCEPT !.io = "open", !.ready = TRUE] ELSE Freed(x)

\* SetupTCPPoint at the slave begins to connect.
SetupTCPPoint(i) ==
    /\ ctx' = [ctx EXCEPT ![Slave][i] = Malloced("made")]
    /\ Answer(Slave, <<>>)

\* SetupFilePoint connects an abstract socket at once (LocalAbstractConnect); a failure
\* ends the task too.
SetupFilePoint(i) ==
    \E ok \in BOOLEAN :
       /\ ctx' = [ctx EXCEPT ![Slave][i] = SetupPointContinue(Malloced("made"), ok)]
       /\ Answer(Slave, IF ok THEN <<ActiveMaster(i)>> ELSE <<FreeCtx(i)>> \o Finish)

\* SlaveConnect of a connection.
ActiveSlaveArrives ==
    /\ Dispatches(Slave, "ACTIVE_SLAVE")
    /\ LET i == Packet(Slave).id IN
         /\ MallocContext(Slave, i)
         /\ \/ sc.kind = "tcp" /\ SetupTCPPoint(i)
            \/ sc.kind = "abstract" /\ SetupFilePoint(i)
    /\ UNCHANGED <<sc, sockets, task, up, chan, listed>>

\* ConnectTarget, the callback of uv_tcp_connect: a failure, of the connect or of the send,
\* frees this context alone.
ConnectTarget(c) ==
    /\ ctx[Slave][c].st = "live" /\ ctx[Slave][c].io = "made"
    /\ \E ok \in BOOLEAN :
         /\ ctx' = [ctx EXCEPT ![Slave][c] = SetupPointContinue(@, ok /\ up)]
         /\ link' = Sent(link, Slave, IF ok THEN <<ActiveMaster(c)>> ELSE <<FreeCtx(c)>>)
    /\ UNCHANGED <<sc, sockets, refCount, task, up, chan, listed>>

--------------------------------------------------------------------------------
(* The stream, at either end. *)

\* ReadForwardBuf: a piece of the socket goes to the other end.
ReadForwardBuf(e, c) ==
    /\ ctx[e][c].st = "live" /\ ctx[e][c].ready /\ said[e][c] < sc.pieces[e]
    /\ Len(link[Other(e)]) < MaxLink
    /\ said' = [said EXCEPT ![e][c] = @ + 1]
    /\ link' = Sent(link, e, <<Data(c, said'[e][c])>>)
    /\ UNCHANGED <<sc, ctx, pending, heard, refCount, task, up, chan, listed>>

\* The socket ends or fails.
ReadEnds(e, c) ==
    /\ ctx[e][c].st = "live" /\ ctx[e][c].ready
    /\ link' = Sent(link, e, Notice(e, c))
    /\ ctx' = [ctx EXCEPT ![e][c] = Freed(@)]
    /\ UNCHANGED <<sc, sockets, refCount, task, up, chan, listed>>

\* Mutant of DataArrives: what cannot be written is dropped.
DataArrivesDropping(e) ==
    /\ Dispatches(e, "DATA")
    /\ LET i == Packet(e).id IN
         \/ /\ Known(e, i) /\ ctx[e][i].st = "live"
            /\ pending' = [pending EXCEPT ![e][i] = Append(@, Packet(e).piece)]
            /\ Answer(e, <<>>)
            /\ UNCHANGED ctx
         \/ /\ Answer(e, <<>>)
            /\ UNCHANGED <<ctx, pending>>
    /\ UNCHANGED <<sc, said, heard, refCount, task, up, chan, listed>>

\* SendForwardBuf: the piece is queued; if that fails the context is freed.  A context that
\* is finished, or unknown, takes nothing.
DataArrives(e) ==
    /\ Dispatches(e, "DATA")
    /\ LET i == Packet(e).id IN
         \/ /\ Known(e, i) /\ ctx[e][i].st = "live"
            /\ pending' = [pending EXCEPT ![e][i] = Append(@, Packet(e).piece)]
            /\ Answer(e, <<>>)
            /\ UNCHANGED ctx
         \/ /\ Known(e, i) /\ ctx[e][i].st = "live"
            /\ "refused" \in sc.faults
            /\ ctx' = [ctx EXCEPT ![e][i] = Freed(@)]
            /\ Answer(e, Notice(e, i))
            /\ UNCHANGED pending
         \/ /\ ~(Known(e, i) /\ ctx[e][i].st = "live")
            /\ Answer(e, <<>>)
            /\ UNCHANGED <<ctx, pending>>
    /\ UNCHANGED <<sc, said, heard, refCount, task, up, chan, listed>>

\* libuv has written the oldest piece.
WriteDone(e, c) ==
    /\ ctx[e][c].st = "live" /\ pending[e][c] # <<>>
    /\ heard' = [heard EXCEPT ![e][c] = Append(@, Head(pending[e][c]))]
    /\ pending' = [pending EXCEPT ![e][c] = Tail(@)]
    /\ UNCHANGED <<sc, ctx, said, refCount, task, link, up, chan, listed>>

\* SendCallbackForwardBuf with an error: libuv drops what was queued.
WriteFails(e, c) ==
    /\ ctx[e][c].st = "live" /\ pending[e][c] # <<>>
    /\ pending' = [pending EXCEPT ![e][c] = <<>>]
    /\ link' = Sent(link, e, Notice(e, c))
    /\ ctx' = [ctx EXCEPT ![e][c] = Freed(@)]
    /\ UNCHANGED <<sc, said, heard, refCount, task, up, chan, listed>>

--------------------------------------------------------------------------------
(* The end of a context. *)

\* CMD_FORWARD_FREE_CONTEXT.
FreeContextArrives(e) ==
    /\ Dispatches(e, "FREE_CONTEXT")
    /\ LET i == Packet(e).id IN
         ctx' = [ctx EXCEPT ![e][i] = IF Known(e, i) THEN Freed(@) ELSE @]
    /\ Answer(e, <<>>)
    /\ UNCHANGED <<sc, sockets, refCount, task, up, chan, listed>>

\* The close callback, after those of the writes that are cancelled: FreeContextCallBack.
HandleClosed(e, i) ==
    /\ ctx[e][i].st = "closing"
    /\ ctx' = [ctx EXCEPT ![e][i].st = "next"]
    /\ pending' = IF i \in Conns THEN [pending EXCEPT ![e][i] = <<>>] ELSE pending
    /\ UNCHANGED <<sc, said, heard, refCount, task, link, up, chan, listed>>

\* Mutant of FreeContextCallBack: the context is given up where its closing begins, too.
FreeContextCallBackTwice(e, i) ==
    /\ ctx[e][i].st = "next"
    /\ ctx' = [ctx EXCEPT ![e][i].st = "deleted", ![e][i].inMap = FALSE]
    /\ refCount' = [refCount EXCEPT ![e] = IF @ > 1 THEN @ - 2 ELSE 0]
    /\ UNCHANGED <<sc, sockets, task, link, up, chan, listed>>

\* The next loop deletes it.
FreeContextCallBack(e, i) ==
    /\ ctx[e][i].st = "next"
    /\ ctx' = [ctx EXCEPT ![e][i].st = "deleted", ![e][i].inMap = FALSE]
    /\ refCount' = [refCount EXCEPT ![e] = IF @ > 0 THEN @ - 1 ELSE 0]
    /\ UNCHANGED <<sc, sockets, task, link, up, chan, listed>>

--------------------------------------------------------------------------------
(* The end of a task. *)

\* BeginRemoveTask: it is out of mapTask at once.
Told(e) == [task EXCEPT ![e] = IF @ = "run" THEN "told" ELSE @]

\* Mutant of StopTask: only what listens is freed.
StopTaskListenerOnly(e) ==
    /\ task[e] = "told"
    /\ task' = [task EXCEPT ![e] = "stopped"]
    /\ ctx' = [ctx EXCEPT ![e] = [i \in Ids |->
                  [(IF i = Listen THEN Freed(ctx[e][i]) ELSE ctx[e][i]) EXCEPT !.inMap = FALSE]]]
    /\ UNCHANGED <<sc, sockets, refCount, link, up, chan, listed>>

\* StopTask, from the task's timer: the map is emptied, then all in it are freed.
StopTask(e) ==
    /\ task[e] = "told"
    /\ task' = [task EXCEPT ![e] = "stopped"]
    /\ ctx' = [ctx EXCEPT ![e] = [i \in Ids |->
                  [(IF Known(e, i) THEN Freed(ctx[e][i]) ELSE ctx[e][i]) EXCEPT !.inMap = FALSE]]]
    /\ UNCHANGED <<sc, sockets, refCount, link, up, chan, listed>>

\* TryRemoveTask, ReadyForRelease: the task is deleted.
TaskGone(e) ==
    /\ task[e] = "stopped" /\ refCount[e] = 0
    /\ task' = [task EXCEPT ![e] = "gone"]
    /\ UNCHANGED <<sc, ctx, sockets, refCount, link, up, chan, listed>>

\* CMD_KERNEL_CHANNEL_CLOSE: the host also has its channel freed by the main loop.
CloseArrives(e) ==
    /\ Receives(e, "CLOSE")
    /\ task' = Told(e)
    /\ Answer(e, IF Packet(e).count = 1 THEN <<Close(0)>> ELSE <<>>)
    /\ chan' = IF e = "host" /\ chan = "up" THEN "asked" ELSE chan
    /\ UNCHANGED <<sc, ctx, sockets, refCount, up, listed>>

\* FreeChannel, in the main loop.
FreeChannel ==
    /\ chan = "asked"
    /\ chan' = "dead"
    /\ UNCHANGED <<sc, ctx, sockets, refCount, task, link, up, listed>>

\* DeatchChannel, in the work thread: the daemon is told.
DeatchChannel ==
    /\ chan = "dead"
    /\ chan' = "gone"
    /\ task' = Told("host")
    /\ link' = Sent(link, "host", <<Close(0)>>)
    /\ UNCHANGED <<sc, ctx, sockets, refCount, up, listed>>

\* RemoveFportkey, for `fport rm`: the entry goes, the task and the channel are told.
RemoveFportkey ==
    /\ "removed" \in sc.faults
    /\ listed
    /\ listed' = FALSE
    /\ \/ /\ up
          /\ task' = Told("host")
          /\ chan' = IF chan = "up" THEN "asked" ELSE chan
       \/ /\ ~up
          /\ UNCHANGED <<task, chan>>
    /\ UNCHANGED <<sc, ctx, sockets, refCount, link, up>>

\* A packet for a task that is not there, or is stopped, is dropped; so is one for a channel
\* that is being freed, even a CLOSE.  The host answers for a channel that is gone.
Dropped(e) ==
    /\ link[e] # <<>>
    /\ \/ e = "host" /\ chan \in {"dead", "gone"}
       \/ Packet(e).type \notin {"WAKEUP", "CLOSE", "FORWARD_SUCCESS"} /\ task[e] # "run"
    /\ Answer(e, IF e = "host" /\ chan = "gone" THEN <<Close(0)>> ELSE <<>>)
    /\ UNCHANGED <<sc, ctx, sockets, refCount, task, up, chan, listed>>

\* The session is lost: both ends clear its tasks, the host the entry as well
\* (NotifyInstanceSessionFree, CleanForwardMap).
SessionLost ==
    /\ "lost" \in sc.faults /\ up
    /\ up' = FALSE
    /\ link' = [e \in Ends |-> <<>>]
    /\ task' = [e \in Ends |-> IF task[e] = "run" THEN "told" ELSE task[e]]
    /\ listed' = FALSE
    /\ chan' = IF chan = "up" THEN "asked" ELSE chan
    /\ UNCHANGED <<sc, ctx, sockets, refCount>>

Loops ==
    \/ BeginForward \/ CheckResultArrives \/ SuccessArrives \/ ActiveMasterArrives
    \/ WakeupArrives \/ CheckArrives \/ ActiveSlaveArrives
    \/ \E c \in Conns : ConnectTarget(c)
    \/ \E e \in Ends : \/ DataArrives(e) \/ FreeContextArrives(e) \/ CloseArrives(e)
                       \/ StopTask(e) \/ TaskGone(e) \/ Dropped(e)
    \/ \E e \in Ends, i \in Ids : HandleClosed(e, i) \/ FreeContextCallBack(e, i)
    \/ FreeChannel \/ DeatchChannel

Outside ==
    \/ RemoveFportkey \/ SessionLost
    \/ \E c \in Conns : ListenCallback(c)
    \/ \E e \in Ends, c \in Conns :
          ReadForwardBuf(e, c) \/ ReadEnds(e, c) \/ WriteDone(e, c) \/ WriteFails(e, c)

Next == Loops \/ Outside

\* The loops run what is ready.  Clients and targets may do nothing.
Spec == Init /\ [][Next]_vars /\ WF_vars(Loops)

--------------------------------------------------------------------------------
(* Properties. *)

\* The peer of each socket receives the pieces that the peer of its counterpart has sent, in
\* order, without a gap: a piece that cannot be written ends the connection
\* (ReadForwardBuf, SendForwardBuf, ForwardCommandDispatch).
StreamIsPrefix ==
    \A e \in Ends, c \in Conns : heard[e][c] = [k \in 1..Len(heard[e][c]) |-> k]

\* A task that is deleted has left no context behind, whose callbacks would use it, and no
\* port that listens (FreeContextCallBack, ReadyForRelease).
GoneIsEmpty ==
    \A e \in Ends : task[e] = "gone" => \A i \in Ids : ctx[e][i].st \in {"none", "deleted"}

\* A forward that stands ends only when it is removed or its session is lost: a refused
\* connection, or one that breaks, costs that connection alone, if the target is a port
\* (ConnectTarget, FreeContext).
StandingStays ==
    listed /\ sc.kind = "tcp" /\ ctx[Master][Listen].st = "live" => \A e \in Ends : task[e] = "run"

\* A connection that ends at one side ends at the other (FreeContext with bNotifyRemote,
\* StopTask), and all of it is given back.
BothEnd ==
    <>[](\A e, f \in Ends : \A c \in Conns :
           ctx[e][c].st \notin {"none", "live"} => ctx[f][c].st \in {"none", "deleted"})
================================================================================
