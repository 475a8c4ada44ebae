----------------------------- MODULE HdcSession -----------------------------
(***************************************************************************)
(* The life of the hdc server's TCP sessions: CreateConnect and Connect on *)
(* the main loop, the work thread of each session on its child loop, the   *)
(* control pipe from one to the other, and the long way from FreeSession   *)
(* to the delete in FreeSessionFinally (common/session.cpp, tcp.cpp,       *)
(* host/host_tcp.cpp); with them the daemon map (hdctools/server.cpp),     *)
(* whose entries both kinds of thread copy, change and write back.         *)
(*                                                                         *)
(* How the tasks of a stopped session end is HdcTaskClear's: here a thread *)
(* that clears goes on to the end.                                         *)
(***************************************************************************)
EXTENDS Integers, Sequences, FiniteSets

CONSTANTS
    Session,
    None,
    Key,
    keyOf,         \* keyOf[s] is the connect key of session s
    PoolSize,      \* threads in libuv's pool (128 in this build)
    StartMayFail   \* may uv_tcp_open fail in the work thread?

ASSUME NoneAssumption == None \notin Session
ASSUME KeyAssumption == keyOf \in [Session -> Key]
ASSUME PoolAssumption == PoolSize \in Nat /\ PoolSize > 0
ASSUME StartAssumption == StartMayFail \in BOOLEAN

VARIABLES
    main,          \* what the main thread is in the middle of (Main below)
    stage,         \* per session: how far it is on its way (Stage below)
    conn,          \* per session: its uv_connect_t
    uvHandleRef,   \* per session: its handles on the main loop
    asyncFree,     \* per session: its ASYNC_FREE_SESSION messages
    thread,        \* per session: where SessionWorkThread is (Thread below)
    childCleared,
    ctrl,          \* per session: what is in the control pipe
    batch,         \* per session: commands read and not yet dispatched
    polling,       \* per session: the thread polls the pipe
    tcp,           \* per session: hChildWorkTCP
    uvChildRef,
    ref,
    sending,       \* sessions whose thread is inside Send
    writing,       \* those of them that WriteUvTcpFd has been called for
    writer,        \* the one of these that holds writeTCPMutex, None if nobody
    full,          \* its socket takes nothing: its daemon does not read
    entry,         \* mapDaemon, per key
    copy           \* per session: diNew of UpdateHdiInfo, None outside it

mainVars == <<main, stage, conn, uvHandleRef>>
workVars == <<thread, childCleared, batch, polling, tcp, uvChildRef>>
wire == <<writing, writer, full>>
vars == <<mainVars, asyncFree, workVars, ctrl, ref, sending, wire, entry, copy>>

Entry == [connStatus : {"unknown", "connected", "offline"}, hSession : Session \cup {None}]
NoEntry == [connStatus |-> "unknown", hSession |-> None]

\* "spin" waits for the thread to come up; "create" and "notify" hold diNew.
Idle == [at |-> "idle", s |-> None, diNew |-> NoEntry]
Main == [at : {"idle", "spin", "create", "notify"}, s : Session \cup {None}, diNew : Entry]

\* "refs" and "child" are the timers of FreeSessionOpeate, "handles" is after
\* FreeSessionContinue and "gone" after FreeSessionFinally.
StageOrder == <<"none", "open", "refs", "child", "handles", "gone">>
Stage == {StageOrder[i] : i \in 1..6}

\* "cleared" has set childCleared and has one log line to write.
Thread == {"none", "queued", "loop", "clear", "cleared", "over"}

InMap(s) == stage[s] \notin {"none", "gone"}
IsDead(s) == stage[s] \in {"refs", "child", "handles", "gone"}

Init ==
    /\ main = Idle
    /\ stage = [s \in Session |-> "none"] /\ conn = [s \in Session |-> "none"]
    /\ uvHandleRef = [s \in Session |-> 0] /\ asyncFree = [s \in Session |-> 0]
    /\ thread = [s \in Session |-> "none"]
    /\ childCleared = [s \in Session |-> FALSE]
    /\ ctrl = [s \in Session |-> <<>>] /\ batch = [s \in Session |-> <<>>]
    /\ polling = [s \in Session |-> FALSE]
    /\ tcp = [s \in Session |-> "null"] /\ uvChildRef = [s \in Session |-> 0]
    /\ ref = [s \in Session |-> 0] /\ sending = {}
    /\ writing = {} /\ writer = None /\ full = FALSE
    /\ entry = [k \in Key |-> NoEntry] /\ copy = [s \in Session |-> NoEntry]

Put(s, command) == ctrl' = [ctrl EXCEPT ![s] = Append(@, command)]

-----------------------------------------------------------------------------
(* Connecting, on the main thread.                                           *)

\* CreateConnect up to its second OP_QUERY: only a connected key is refused.
CreateConnect(s) ==
    /\ main = Idle /\ stage[s] = "none"
    /\ entry[keyOf[s]].connStatus # "connected"
    /\ stage' = [stage EXCEPT ![s] = "open"]
    /\ conn' = [conn EXCEPT ![s] = "pending"]
    /\ uvHandleRef' = [uvHandleRef EXCEPT ![s] = 3]
    /\ main' = [at |-> "create", s |-> s, diNew |-> entry[keyOf[s]]]
    /\ UNCHANGED <<asyncFree, workVars, ctrl, ref, sending, wire, entry, copy>>

\* The OP_UPDATE at its end.
CreateUpdate ==
    /\ main.at = "create"
    /\ entry' = [entry EXCEPT ![keyOf[main.s]] = [main.diNew EXCEPT !.hSession = main.s]]
    /\ main' = Idle
    /\ UNCHANGED <<stage, conn, uvHandleRef, asyncFree, workVars, ctrl, ref, sending, wire, copy>>

\* Connect: the work thread is queued in libuv's pool and the main thread
\* sleeps until it polls.  A session freed meanwhile is started all the same.
Connect(s) ==
    /\ main = Idle /\ conn[s] = "pending" /\ stage[s] \in {"open", "refs"}
    /\ conn' = [conn EXCEPT ![s] = "done"]
    /\ thread' = [thread EXCEPT ![s] = "queued"]
    /\ main' = [Idle EXCEPT !.at = "spin", !.s = s]
    /\ UNCHANGED <<stage, uvHandleRef, asyncFree, childCleared, batch, polling, tcp,
                   uvChildRef, ctrl, ref, sending, wire, entry, copy>>

ThreadUp(s) ==
    /\ main.at = "spin" /\ thread[main.s] = "loop"
    /\ s = main.s
    /\ Put(s, "START")
    /\ main' = Idle
    /\ UNCHANGED <<stage, conn, uvHandleRef, asyncFree, workVars, ref, sending, wire, entry, copy>>

\* Mutant of FreeSession: isDead is not looked at.
FreeSessionAgain(s) ==
    IF InMap(s)
    THEN /\ stage' = [stage EXCEPT ![s] = "refs"]
         /\ main' = [at |-> "notify", s |-> s, diNew |-> entry[keyOf[s]]]
    ELSE UNCHANGED <<stage, main>>

\* FreeSession on the main thread, into the copy of NotifyInstanceSessionFree.
FreeSession(s) ==
    IF InMap(s) /\ ~IsDead(s)
    THEN /\ stage' = [stage EXCEPT ![s] = "refs"]
         /\ main' = [at |-> "notify", s |-> s, diNew |-> entry[keyOf[s]]]
    ELSE UNCHANGED <<stage, main>>

\* The OP_UPDATE of NotifyInstanceSessionFree, by connect key.
NotifyUpdate ==
    /\ main.at = "notify"
    /\ entry' = [entry EXCEPT ![keyOf[main.s]] =
                    [main.diNew EXCEPT !.connStatus = "offline", !.hSession = None]]
    /\ main' = Idle
    /\ UNCHANGED <<stage, conn, uvHandleRef, asyncFree, workVars, ctrl, ref, sending, wire, copy>>

\* Connect with an error status, or no descriptor for the child loop.  When
\* hWorkTCP is closed first libuv cancels the request.
ConnectFails(s) ==
    /\ main = Idle /\ conn[s] = "pending"
    /\ conn' = [conn EXCEPT ![s] = "done"]
    /\ childCleared' = [childCleared EXCEPT ![s] = TRUE]
    /\ FreeSession(s)
    /\ UNCHANGED <<uvHandleRef, asyncFree, thread, batch, polling, tcp, uvChildRef,
                   ctrl, ref, sending, wire, entry, copy>>

\* CommandRemoveSession frees the session its key's entry points to.
RemoveSession(k) ==
    /\ main = Idle /\ entry[k].hSession # None
    /\ FreeSession(entry[k].hSession)
    /\ UNCHANGED <<conn, uvHandleRef, asyncFree, workVars, ctrl, ref, sending, wire, entry, copy>>

\* AsyncMainLoopTask.
AsyncFree(s) ==
    /\ main = Idle /\ asyncFree[s] > 0
    /\ asyncFree' = [asyncFree EXCEPT ![s] = @ - 1]
    /\ FreeSession(s)
    /\ UNCHANGED <<conn, uvHandleRef, workVars, ctrl, ref, sending, wire, entry, copy>>

-----------------------------------------------------------------------------
(* The end of a session, on the main thread.                                 *)

\* Mutant of FreeSessionOpeate: SP_STOP_SESSION is sent, its end not awaited.
FreeSessionOpeateUnawaited(s) ==
    /\ main = Idle /\ stage[s] = "refs" /\ ref[s] = 0
    /\ stage' = [stage EXCEPT ![s] = "handles"]
    /\ IF polling[s] THEN Put(s, "STOP") ELSE UNCHANGED ctrl
    /\ UNCHANGED <<main, conn, uvHandleRef, asyncFree, workVars, ref, sending, wire, entry, copy>>

\* The repeated timer, until nobody holds a reference; a session whose thread
\* never started goes straight to FreeSessionContinue.
FreeSessionOpeate(s) ==
    /\ main = Idle /\ stage[s] = "refs" /\ ref[s] = 0
    /\ IF polling[s]
       THEN Put(s, "STOP") /\ stage' = [stage EXCEPT ![s] = "child"]
       ELSE UNCHANGED ctrl /\ stage' = [stage EXCEPT ![s] = "handles"]
    /\ UNCHANGED <<main, conn, uvHandleRef, asyncFree, workVars, ref, sending, wire, entry, copy>>

\* callbackCheckFreeSessionContinue and FreeSessionContinue.
FreeSessionContinue(s) ==
    /\ main = Idle /\ stage[s] = "child" /\ childCleared[s]
    /\ stage' = [stage EXCEPT ![s] = "handles"]
    /\ UNCHANGED <<main, conn, uvHandleRef, asyncFree, workVars, ctrl, ref, sending, wire, entry, copy>>

\* closeSessionTCPHandle; the cancelled connect request is answered before.
HandleClosed(s) ==
    /\ main = Idle /\ stage[s] = "handles" /\ uvHandleRef[s] > 0 /\ conn[s] # "pending"
    /\ uvHandleRef' = [uvHandleRef EXCEPT ![s] = @ - 1]
    /\ UNCHANGED <<main, stage, conn, asyncFree, workVars, ctrl, ref, sending, wire, entry, copy>>

FreeSessionFinally(s) ==
    /\ main = Idle /\ stage[s] = "handles" /\ uvHandleRef[s] = 0
    /\ stage' = [stage EXCEPT ![s] = "gone"]
    /\ UNCHANGED <<main, conn, uvHandleRef, asyncFree, workVars, ctrl, ref, sending, wire, entry, copy>>

-----------------------------------------------------------------------------
(* The work thread of a session.                                             *)

InPool == {s \in Session : thread[s] \in {"loop", "clear", "cleared"}}

ThreadStart(s) ==
    /\ thread[s] = "queued" /\ Cardinality(InPool) < PoolSize
    /\ thread' = [thread EXCEPT ![s] = "loop"]
    /\ polling' = [polling EXCEPT ![s] = TRUE]
    /\ UNCHANGED <<mainVars, asyncFree, childCleared, batch, tcp, uvChildRef,
                   ctrl, ref, sending, wire, entry, copy>>

\* The thread is not inside Send or UpdateHdiInfo.
Free(s) == s \notin sending /\ copy[s] = NoEntry

\* It is between two callbacks of its loop.
Waits(s) == thread[s] = "loop" /\ Free(s) /\ batch[s] = <<>>

\* ReadCtrlFromMain takes all there is.
ReadCtrl(s) ==
    /\ Waits(s) /\ polling[s] /\ ctrl[s] # <<>>
    /\ batch' = [batch EXCEPT ![s] = ctrl[s]]
    /\ ctrl' = [ctrl EXCEPT ![s] = <<>>]
    /\ UNCHANGED <<mainVars, asyncFree, thread, childCleared, polling, tcp, uvChildRef,
                   ref, sending, wire, entry, copy>>

\* AdminSession(OP_QUERY_REF) at the begin of Send.
BeginSend(s) == /\ ref' = [ref EXCEPT ![s] = @ + 1]
                /\ sending' = sending \cup {s}

\* SP_START_SESSION: WorkThreadStartSession, which sends the handshake.
DispatchStart(s) ==
    /\ thread[s] = "loop" /\ Free(s) /\ batch[s] # <<>> /\ Head(batch[s]) = "START"
    /\ batch' = [batch EXCEPT ![s] = Tail(@)]
    /\ tcp' = [tcp EXCEPT ![s] = "open"]
    /\ BeginSend(s)
    /\ UNCHANGED <<mainVars, asyncFree, thread, childCleared, polling, uvChildRef,
                   ctrl, wire, entry, copy>>

\* WorkThreadStartSession fails: nothing reads the socket, and ReadCtrlFromMain
\* drops what else it has read.
DispatchStartFails(s) ==
    /\ StartMayFail
    /\ thread[s] = "loop" /\ Free(s) /\ batch[s] # <<>> /\ Head(batch[s]) = "START"
    /\ batch' = [batch EXCEPT ![s] = <<>>]
    /\ tcp' = [tcp EXCEPT ![s] = "unread"]
    /\ UNCHANGED <<mainVars, asyncFree, thread, childCleared, polling, uvChildRef,
                   ctrl, ref, sending, wire, entry, copy>>

\* SP_STOP_SESSION.  Of uvChildRef what is left when TryCloseHandle returns:
\* the poll handle, and the TCP handle unless it is null or closing.
DispatchStop(s) ==
    /\ thread[s] = "loop" /\ Free(s) /\ batch[s] # <<>> /\ Head(batch[s]) = "STOP"
    /\ batch' = [batch EXCEPT ![s] = Tail(@)]
    /\ polling' = [polling EXCEPT ![s] = FALSE]
    /\ uvChildRef' = [uvChildRef EXCEPT ![s] = IF tcp[s] \in {"open", "unread"} THEN 2 ELSE 1]
    /\ tcp' = [tcp EXCEPT ![s] = IF @ = "null" THEN @ ELSE "closed"]
    /\ UNCHANGED <<mainVars, asyncFree, thread, childCleared, ctrl, ref, sending, wire, entry, copy>>

\* closeSessionChildThreadTCPHandle: the last one stops the loop.
CloseCallback(s) ==
    /\ Waits(s) /\ uvChildRef[s] > 0
    /\ uvChildRef' = [uvChildRef EXCEPT ![s] = @ - 1]
    /\ thread' = [thread EXCEPT ![s] = IF uvChildRef[s] = 1 THEN "clear" ELSE @]
    /\ UNCHANGED <<mainVars, asyncFree, childCleared, batch, polling, tcp, ctrl, ref,
                   sending, wire, entry, copy>>

\* Mutant of ReadFails: the handle is closed and the session left alone.
ReadFailsUnreported(s) ==
    /\ Waits(s) /\ tcp[s] = "open"
    /\ tcp' = [tcp EXCEPT ![s] = "closed"]
    /\ UNCHANGED <<mainVars, asyncFree, thread, childCleared, batch, polling, uvChildRef,
                   ctrl, ref, sending, wire, entry, copy>>

\* ReadStream on an error or a bad packet; on a lost heartbeat FetchIOBuf has
\* posted one message already.
ReadFails(s) ==
    /\ Waits(s) /\ tcp[s] = "open"
    /\ tcp' = [tcp EXCEPT ![s] = "closed"]
    /\ \E n \in 1..2 : asyncFree' = [asyncFree EXCEPT ![s] = n]
    /\ UNCHANGED <<mainVars, thread, childCleared, batch, polling, uvChildRef,
                   ctrl, ref, sending, wire, entry, copy>>

\* Tasks, heartbeats and handshakes send, also while the tasks are cleared.
Send(s) ==
    /\ InMap(s) /\ (Waits(s) \/ (thread[s] = "clear" /\ Free(s)))
    /\ BeginSend(s)
    /\ UNCHANGED <<mainVars, asyncFree, workVars, ctrl, wire, entry, copy>>

\* SendByProtocol looks at isDead, here only; of all sessions over TCP one
\* writer at a time has the mutex.
SendByProtocol(s) ==
    /\ s \in sending \ writing /\ ~IsDead(s)
    /\ writing' = writing \cup {s}
    /\ writer' = IF writer = None THEN s ELSE writer
    /\ UNCHANGED <<mainVars, asyncFree, workVars, ctrl, ref, sending, full, entry, copy>>

\* The daemon has stopped reading: send() answers EAGAIN, which WriteUvTcpFd
\* tries again without a limit.
Fills ==
    /\ writer # None /\ ~full
    /\ tcp[writer] \in {"open", "unread"}
    /\ full' = TRUE
    /\ UNCHANGED <<mainVars, asyncFree, workVars, ctrl, ref, sending, writing, writer, entry, copy>>

\* All is written, an error ends the write, or isDead has refused it; of a full
\* socket, once its daemon reads again or its connection breaks.  The mutex goes
\* to one that waits.
SendReturns(s) ==
    /\ s \in sending
    /\ IF s \in writing THEN writer = s ELSE IsDead(s)
    /\ ref' = [ref EXCEPT ![s] = @ - 1]
    /\ sending' = sending \ {s} /\ writing' = writing \ {s}
    /\ writer' \in CASE writer # s -> {writer}
                      [] writing = {s} -> {None}
                      [] OTHER -> writing \ {s}
    /\ full' = (full /\ writer # s)
    /\ UNCHANGED <<mainVars, asyncFree, workVars, ctrl, entry, copy>>

\* ServerSessionHandshake with AUTH_OK: UpdateHdiInfo copies the entry ...
Handshake(s) ==
    /\ Waits(s) /\ tcp[s] = "open" /\ entry[keyOf[s]] # NoEntry
    /\ copy' = [copy EXCEPT ![s] = entry[keyOf[s]]]
    /\ UNCHANGED <<mainVars, asyncFree, workVars, ctrl, ref, sending, wire, entry>>

\* ... and writes it back.
HandshakeUpdate(s) ==
    /\ copy[s] # NoEntry
    /\ entry' = [entry EXCEPT ![keyOf[s]] = [copy[s] EXCEPT !.connStatus = "connected"]]
    /\ copy' = [copy EXCEPT ![s] = NoEntry]
    /\ UNCHANGED <<mainVars, asyncFree, workVars, ctrl, ref, sending, wire>>

\* ReChildLoopForSessionClear returns.
ClearEnds(s) ==
    /\ thread[s] = "clear" /\ Free(s)
    /\ thread' = [thread EXCEPT ![s] = "cleared"]
    /\ childCleared' = [childCleared EXCEPT ![s] = TRUE]
    /\ UNCHANGED <<mainVars, asyncFree, batch, polling, tcp, uvChildRef, ctrl, ref,
                   sending, wire, entry, copy>>

\* The last log line reads hSession->sessionId; the pool has the thread back.
ThreadEnds(s) ==
    /\ thread[s] = "cleared"
    /\ thread' = [thread EXCEPT ![s] = "over"]
    /\ UNCHANGED <<mainVars, asyncFree, childCleared, batch, polling, tcp, uvChildRef,
                   ctrl, ref, sending, wire, entry, copy>>

-----------------------------------------------------------------------------
\* What the main thread is in the middle of it ends before anything else.
MainEnds == CreateUpdate \/ NotifyUpdate \/ \E s \in Session : ThreadUp(s)

ConnectReturns(s) == Connect(s) \/ ConnectFails(s)

Teardown(s) == FreeSessionContinue(s) \/ HandleClosed(s) \/ FreeSessionFinally(s)

\* What a work thread is in the middle of.
WorkEnds(s) ==
    \/ ThreadStart(s) \/ DispatchStart(s) \/ DispatchStartFails(s) \/ DispatchStop(s)
    \/ SendByProtocol(s) \/ (SendReturns(s) /\ ~(writer = s /\ full))
    \/ HandshakeUpdate(s) \/ ThreadEnds(s)

\* Events its loop serves.
WorkServes(s) == ReadCtrl(s) \/ CloseCallback(s) \/ ClearEnds(s)

Next ==
    \/ MainEnds \/ Fills
    \/ \E s \in Session :
          \/ CreateConnect(s) \/ ConnectReturns(s) \/ AsyncFree(s)
          \/ FreeSessionOpeate(s) \/ Teardown(s)
          \/ WorkEnds(s) \/ WorkServes(s) \/ SendReturns(s)
          \/ ReadFails(s) \/ Send(s) \/ Handshake(s)
    \/ \E k \in Key : RemoveSession(k)

Spec == Init /\ [][Next]_vars

\* Threads run; a loop serves whatever stays ready.  Of a work thread that is
\* busy with sends again and again, strong fairness says that it comes back to
\* its loop, which polls every descriptor, and that the 250 ms timer of
\* FreeSessionOpeate does not find it inside Send each time.  A Send to a daemon
\* that does not read need not return.
FairSpec ==
    /\ Spec
    /\ WF_vars(MainEnds)
    /\ \A s \in Session :
          /\ WF_vars(ConnectReturns(s)) /\ WF_vars(AsyncFree(s))
          /\ SF_vars(FreeSessionOpeate(s)) /\ WF_vars(Teardown(s))
          /\ WF_vars(WorkEnds(s)) /\ SF_vars(WorkServes(s))

-----------------------------------------------------------------------------
TypeOK ==
    /\ main \in Main /\ stage \in [Session -> Stage]
    /\ conn \in [Session -> {"none", "pending", "done"}]
    /\ uvHandleRef \in [Session -> 0..3] /\ asyncFree \in [Session -> 0..2]
    /\ thread \in [Session -> Thread] /\ childCleared \in [Session -> BOOLEAN]
    /\ ctrl \in [Session -> Seq({"START", "STOP"})]
    /\ batch \in [Session -> Seq({"START", "STOP"})]
    /\ polling \in [Session -> BOOLEAN]
    /\ tcp \in [Session -> {"null", "open", "unread", "closed"}]
    /\ uvChildRef \in [Session -> 0..2]
    /\ ref \in [Session -> Nat] /\ sending \subseteq Session
    /\ writing \subseteq Session /\ writer \in Session \cup {None} /\ full \in BOOLEAN
    /\ entry \in [Key -> Entry] /\ copy \in [Session -> Entry]

\* Nothing of a session is closed or deleted (FreeSessionContinue and on) while
\* its thread still runs callbacks, holds a reference, or may start.
TornDownIsQuiet ==
    \A s \in Session : stage[s] \in {"handles", "gone"} =>
        /\ thread[s] \in {"none", "cleared", "over"}
        /\ ref[s] = 0 /\ uvChildRef[s] = 0 /\ batch[s] = <<>> /\ Free(s)

\* A key listed as connected has a session that exists: FindAliveSession-
\* FromDaemonMap, to "avoid session dead", reads hdi->hSession->isDead.
ConnectedExists ==
    \A k \in Key : entry[k].hSession # None => stage[entry[k].hSession] # "gone"

Rank(x) == CHOOSE i \in 1..6 : StageOrder[i] = x

\* However often and from whichever thread a session is freed, it passes each
\* stage of its end once: no timer, command or delete comes twice.
EndsOnce == [][\A s \in Session : Rank(stage'[s]) >= Rank(stage[s])]_vars

Lost(s) == IsDead(s) \/ tcp[s] = "closed"

\* Once the daemons read, a session that is freed, or whose thread sees its peer
\* go and may only ask for it to be freed, is deleted: reference, mutex, STOP
\* command, clear loop and close callbacks wait for one another on two threads,
\* in no cycle.  Only a START that fails may drop the STOP behind it.
LostIsRemoved ==
    []<>~full => \A s \in Session : Lost(s) ~> (stage[s] = "gone" \/ tcp[s] = "unread")

\* A daemon that stops reading holds up no session but its own: this fails, the
\* mutex is one for all sessions and is held while send() is tried again.
OthersAreRemoved ==
    \A s \in Session : Lost(s) ~> (stage[s] = "gone" \/ tcp[s] = "unread" \/ (writer = s /\ full))
=============================================================================
