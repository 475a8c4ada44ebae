----------------------------- MODULE HdcChannel -----------------------------
(***************************************************************************)
(* The life of the channels of the hdc server: a client's connection is    *)
(* accepted on the main loop, handed over to the work thread of the        *)
(* session it names (BindChannelToSession, SP_ATTACH_CHANNEL), served      *)
(* there, and given back (SP_DEATCH_CHANNEL) before FreeChannelFinally     *)
(* deletes it (common/channel.cpp, hdctools/server_for_client.cpp,         *)
(* hdctools/server.cpp).                                                   *)
(*                                                                         *)
(* One session, of which only what channels see is kept: HdcSession has    *)
(* the whole of it.  Clients connect by TCP, and one whose handshake was   *)
(* refused does not send a good one after it.                              *)
(***************************************************************************)
EXTENDS Integers, Sequences, FiniteSets

CONSTANTS
    Channel,
    None,
    MaxWrites      \* bound: writes to one client that are under way

ASSUME NoneAssumption == None \notin Channel
ASSUME WritesAssumption == MaxWrites \in Nat

VARIABLES
    session,       \* "up", "dead" (isDead) or "stopping" (SP_STOP_SESSION sent)
    ctrl,          \* its control pipe
    stage,         \* per channel: how far it is on its way (Stage below)
    hWork,         \* per channel: hWorkTCP, on the main loop
    bind,          \* per channel: its handshake and BindChannelToSession
    mainWrite,     \* channels whose banner is being written
    trying,        \* channels with a timer of NewConnectTry
    asyncFree,     \* channels with an ASYNC_FREE_CHANNEL message
    forward,       \* channels in mapForward
    loop,          \* the child loop of the session (Loop below)
    batch,         \* commands read from ctrl and not yet dispatched
    fetch,         \* the packet FetchCommand is at
    hChild,        \* per channel: hChildWorkTCP, on the child loop
    childCleared,
    clearing,      \* per channel: what is to set childCleared
    writes,        \* per channel: writes on hChild under way
    task,          \* channels with a task in the session's mapTask
    ref

mainVars == <<stage, hWork, bind, mainWrite, trying>>
workVars == <<loop, batch, hChild, clearing, writes>>
vars == <<session, ctrl, mainVars, asyncFree, forward, workVars, fetch, childCleared,
          task, ref>>

\* "refs" and "child" are the timers of FreeChannelOpeate, "handles" is after
\* FreeChannelContinue and "gone" after FreeChannelFinally.
Stage == {"none", "open", "refs", "child", "handles", "gone"}

\* "closing" has dispatched SP_STOP_SESSION, "clear" is ReChildLoopForSession-
\* Clear, "drain" the TryCloseChildLoop at its end.
Loop == {"run", "closing", "clear", "drain", "over"}

Command == [command : {"ATTACH", "DETACH"}, c : Channel] \cup [command : {"STOP"}, c : {None}]
Handle == {"null", "open", "closing", "closed"}
NoFetch == [c |-> None, live |-> FALSE]

InMap(c) == stage[c] \notin {"none", "gone"}
Put(command, c) == ctrl' = Append(ctrl, [command |-> command, c |-> c])

Init ==
    /\ session = "up" /\ ctrl = <<>> /\ loop = "run" /\ batch = <<>> /\ fetch = NoFetch
    /\ stage = [c \in Channel |-> "none"] /\ bind = [c \in Channel |-> "none"]
    /\ hWork = [c \in Channel |-> "null"] /\ hChild = [c \in Channel |-> "null"]
    /\ mainWrite = {} /\ trying = {} /\ asyncFree = {} /\ forward = {} /\ task = {}
    /\ childCleared = [c \in Channel |-> FALSE] /\ clearing = [c \in Channel |-> "no"]
    /\ writes = [c \in Channel |-> 0] /\ ref = [c \in Channel |-> 0]

-----------------------------------------------------------------------------
(* The main loop: clients before they are attached.                          *)

\* MallocChannel: hWorkTCP is initialised and the channel is in mapChannel.
MallocChannel(c) ==
    /\ stage' = [stage EXCEPT ![c] = "open"]
    /\ hWork' = [hWork EXCEPT ![c] = "open"]

\* AcceptClient, up to the banner it sends.
AcceptClient(c) ==
    /\ stage[c] = "none"
    /\ MallocChannel(c)
    /\ mainWrite' = mainWrite \cup {c}
    /\ ref' = [ref EXCEPT ![c] = 1]
    /\ UNCHANGED <<session, ctrl, bind, trying, asyncFree, forward, workVars, fetch,
                   childCleared, task>>

\* FreeChannel on the main thread.
FreeChannel(c) == stage' = IF stage[c] = "open" THEN [stage EXCEPT ![c] = "refs"] ELSE stage

\* WriteCallback of the banner; a handle that closes cancels it.
MainWriteDone(c, ok) ==
    /\ c \in mainWrite
    /\ ok => hWork[c] = "open"
    /\ mainWrite' = mainWrite \ {c}
    /\ ref' = [ref EXCEPT ![c] = @ - 1]
    /\ IF ok
       THEN UNCHANGED <<stage, hWork>>
       ELSE /\ hWork' = [hWork EXCEPT ![c] = "closing"]
            /\ IF ref[c] = 1 THEN FreeChannel(c) ELSE UNCHANGED stage
    /\ UNCHANGED <<session, ctrl, bind, trying, asyncFree, forward, workVars, fetch,
                   childCleared, task>>

\* The close callbacks, at the end of the loop iteration: the one of
\* BindChannelToSession gives its reference up.
HWorkClosed(c) ==
    /\ hWork[c] = "closing" /\ c \notin mainWrite
    /\ hWork' = [hWork EXCEPT ![c] = "closed"]
    /\ ref' = [ref EXCEPT ![c] = IF bind[c] = "next" THEN @ - 1 ELSE @]
    /\ UNCHANGED <<session, ctrl, stage, bind, mainWrite, trying, asyncFree, forward,
                   workVars, fetch, childCleared, task>>

\* ReadStream: the client has gone (and the handle is closed), or what it sent
\* is refused or was a local command and is done.
ReadMain(c, eof) ==
    /\ hWork[c] = "open" /\ (eof \/ stage[c] = "open")
    /\ hWork' = [hWork EXCEPT ![c] = IF eof THEN "closing" ELSE @]
    /\ FreeChannel(c)
    /\ UNCHANGED <<session, ctrl, bind, mainWrite, trying, asyncFree, forward, workVars,
                   fetch, childCleared, task, ref>>

\* A handshake that names no target, and the command tconn.
NewConnectTry(c) ==
    /\ hWork[c] = "open" /\ stage[c] = "open" /\ bind[c] = "none"
    /\ bind' = [bind EXCEPT ![c] = "local"]
    /\ trying' = trying \cup {c}
    /\ UNCHANGED <<session, ctrl, stage, hWork, mainWrite, asyncFree, forward, workVars,
                   fetch, childCleared, task, ref>>

\* OrderConnecTargetResult, the time it gives its answer.
OrderConnecTargetResult(c) ==
    /\ c \in trying /\ stage[c] # "gone"
    /\ trying' = trying \ {c}
    /\ FreeChannel(c)
    /\ UNCHANGED <<session, ctrl, hWork, bind, mainWrite, asyncFree, forward, workVars,
                   fetch, childCleared, task, ref>>

\* BindChannelToSession: its reference keeps cancelled writes from freeing it.
BindChannelToSession(c) ==
    /\ hWork[c] = "open" /\ stage[c] = "open" /\ bind[c] = "none"
    /\ session = "up"
    /\ bind' = [bind EXCEPT ![c] = "next"]
    /\ hWork' = [hWork EXCEPT ![c] = "closing"]
    /\ ref' = [ref EXCEPT ![c] = @ + 1]
    /\ UNCHANGED <<session, ctrl, stage, mainWrite, trying, asyncFree, forward, workVars,
                   fetch, childCleared, task>>

\* Its DoNextLoop: a session that has died meanwhile leaves the channel as it is.
NextLoop(c) ==
    /\ bind[c] = "next" /\ hWork[c] = "closed"
    /\ IF session = "up"
       THEN Put("ATTACH", c) /\ bind' = [bind EXCEPT ![c] = "sent"]
       ELSE UNCHANGED ctrl /\ bind' = [bind EXCEPT ![c] = "failed"]
    /\ UNCHANGED <<session, stage, hWork, mainWrite, trying, asyncFree, forward, workVars,
                   fetch, childCleared, task, ref>>

-----------------------------------------------------------------------------
(* The main loop: the end of a channel.                                      *)

\* FreeChannelContinue.
Continue(c) ==
    /\ stage' = [stage EXCEPT ![c] = "handles"]
    /\ hWork' = [hWork EXCEPT ![c] = IF @ = "open" THEN "closing" ELSE @]

\* The repeated timer, until nobody holds a reference.
FreeChannelOpeate(c) ==
    /\ stage[c] = "refs" /\ ref[c] = 0 /\ hWork[c] # "closing"
    /\ IF hChild[c] = "null"
       THEN Continue(c) /\ UNCHANGED <<ctrl, childCleared>>
       ELSE /\ stage' = [stage EXCEPT ![c] = "child"]
            /\ IF session = "up"
               THEN Put("DETACH", c) /\ UNCHANGED childCleared
               ELSE childCleared' = [childCleared EXCEPT ![c] = TRUE] /\ UNCHANGED ctrl
            /\ UNCHANGED hWork
    /\ UNCHANGED <<session, bind, mainWrite, trying, asyncFree, forward, workVars, fetch,
                   task, ref>>

\* callbackCheckFreeChannelContinue.
FreeChannelContinue(c) ==
    /\ stage[c] = "child" /\ childCleared[c] /\ hWork[c] # "closing"
    /\ Continue(c)
    /\ UNCHANGED <<session, ctrl, bind, mainWrite, trying, asyncFree, forward, workVars,
                   fetch, childCleared, task, ref>>

\* FreeChannelFinally closes hChildWorkTCP itself if nobody has.
FreeChannelFinally(c) ==
    /\ stage[c] = "handles" /\ hWork[c] = "closed"
    /\ stage' = [stage EXCEPT ![c] = "gone"]
    /\ hChild' = [hChild EXCEPT ![c] = IF @ = "open" THEN "closing" ELSE @]
    /\ UNCHANGED <<session, ctrl, hWork, bind, mainWrite, trying, asyncFree, forward, loop,
                   batch, clearing, writes, fetch, childCleared, task, ref>>

\* AsyncMainLoopTask.  Messages for one channel are not counted.
AsyncFree(c) ==
    /\ c \in asyncFree
    /\ asyncFree' = asyncFree \ {c}
    /\ FreeChannel(c)
    /\ UNCHANGED <<session, ctrl, hWork, bind, mainWrite, trying, forward, workVars, fetch,
                   childCleared, task, ref>>

\* RemoveFportkey, for another client: without a session only the entry goes.
RemoveFportkey(c) ==
    /\ c \in forward
    /\ forward' = forward \ {c}
    /\ \/ /\ FreeChannel(c) /\ task' = task \ {c}
       \/ /\ loop = "over" /\ UNCHANGED <<stage, task>>
    /\ UNCHANGED <<session, ctrl, hWork, bind, mainWrite, trying, asyncFree, workVars,
                   fetch, childCleared, ref>>

\* FreeSession, with CleanForwardMap ...
SessionDies ==
    /\ session = "up"
    /\ session' = "dead"
    /\ forward' = {}
    /\ UNCHANGED <<ctrl, mainVars, asyncFree, workVars, fetch, childCleared, task, ref>>

\* ... and the SP_STOP_SESSION of FreeSessionOpeate.
StopSession ==
    /\ session = "dead"
    /\ session' = "stopping"
    /\ Put("STOP", None)
    /\ UNCHANGED <<mainVars, asyncFree, forward, workVars, fetch, childCleared, task, ref>>

-----------------------------------------------------------------------------
(* The work thread of the session.                                           *)

\* It is between two callbacks.
Turn == fetch = NoFetch /\ batch = <<>>
Reads == Turn /\ loop \in {"run", "closing", "clear"}

\* ReadCtrlFromMain.
ReadCtrl ==
    /\ Turn /\ loop = "run" /\ ctrl # <<>>
    /\ batch' = ctrl
    /\ ctrl' = <<>>
    /\ UNCHANGED <<session, mainVars, asyncFree, forward, loop, hChild, clearing, writes,
                   fetch, childCleared, task, ref>>

Dispatch(command, c) ==
    /\ batch # <<>> /\ Head(batch) = [command |-> command, c |-> c]
    /\ batch' = Tail(batch)

\* AttachChannelInnerForTcp.
DispatchAttach(c) ==
    /\ Dispatch("ATTACH", c)
    /\ hChild' = [hChild EXCEPT ![c] = IF InMap(c) THEN "open" ELSE @]
    /\ UNCHANGED <<session, ctrl, mainVars, asyncFree, forward, loop, clearing, writes, fetch,
                   childCleared, task, ref>>

\* Mutant of DispatchDetach: childCleared is set at once.
DispatchDetachAtOnce(c) ==
    /\ Dispatch("DETACH", c)
    /\ task' = IF childCleared[c] /\ InMap(c) THEN task ELSE task \ {c}
    /\ childCleared' = [childCleared EXCEPT ![c] = TRUE]
    /\ hChild' = [hChild EXCEPT ![c] = IF @ = "open" THEN "closing" ELSE @]
    /\ UNCHANGED <<session, ctrl, mainVars, asyncFree, forward, loop, clearing, writes, fetch,
                   ref>>

\* DeatchChannelInnerForTcp: childCleared is set by the close callback, or by
\* DoNextLoop if somebody has closed the handle before.
DispatchDetach(c) ==
    /\ Dispatch("DETACH", c)
    /\ task' = IF childCleared[c] /\ InMap(c) THEN task ELSE task \ {c}
    /\ IF InMap(c) /\ ~childCleared[c]
       THEN /\ clearing' = [clearing EXCEPT ![c] =
                               IF hChild[c] = "open" THEN "callback" ELSE "next"]
            /\ hChild' = [hChild EXCEPT ![c] = IF @ = "open" THEN "closing" ELSE @]
       ELSE UNCHANGED <<clearing, hChild>>
    /\ UNCHANGED <<session, ctrl, mainVars, asyncFree, forward, loop, writes, fetch,
                   childCleared, ref>>

DispatchStop ==
    /\ Dispatch("STOP", None)
    /\ loop' = "closing"
    /\ UNCHANGED <<session, ctrl, mainVars, asyncFree, forward, hChild, clearing, writes,
                   fetch, childCleared, task, ref>>

\* ReChildLoopForSessionClear.
ClearStarts ==
    /\ Turn /\ loop = "closing"
    /\ loop' = "clear"
    /\ task' = {}
    /\ UNCHANGED <<session, ctrl, mainVars, asyncFree, forward, batch, hChild, clearing,
                   writes, fetch, childCleared, ref>>

\* TryCloseChildLoop closes what is open.  The callbacks of a DETACH are due in
\* the next iteration, its own timer is 120 ms away.
ClearEnds ==
    /\ Turn /\ loop = "clear"
    /\ \A c \in Channel : clearing[c] = "no"
    /\ loop' = "drain"
    /\ hChild' = [c \in Channel |-> IF hChild[c] = "open" THEN "closing" ELSE hChild[c]]
    /\ UNCHANGED <<session, ctrl, mainVars, asyncFree, forward, batch, clearing, writes,
                   fetch, childCleared, task, ref>>

ThreadEnds ==
    /\ Turn /\ loop = "drain"
    /\ \A c \in Channel : hChild[c] # "closing"
    /\ loop' = "over"
    /\ UNCHANGED <<session, ctrl, mainVars, asyncFree, forward, batch, hChild, clearing,
                   writes, fetch, childCleared, task, ref>>

\* ReadStream on the child loop: the client has gone ...
ReadEof(c) ==
    /\ Reads /\ hChild[c] = "open"
    /\ hChild' = [hChild EXCEPT ![c] = "closing"]
    /\ asyncFree' = asyncFree \cup {c}
    /\ UNCHANGED <<session, ctrl, mainVars, forward, loop, batch, clearing, writes, fetch,
                   childCleared, task, ref>>

\* ... or has sent a command, which starts a task or is refused.
ReadCommand(c) ==
    /\ Reads /\ hChild[c] = "open"
    /\ \/ task' = task \cup {c} /\ UNCHANGED asyncFree
       \/ asyncFree' = asyncFree \cup {c} /\ UNCHANGED task
    /\ UNCHANGED <<session, ctrl, mainVars, forward, workVars, fetch, childCleared, ref>>

\* FetchCommand, for a packet of the daemon: AdminChannel(OP_QUERY_REF) and the
\* look at isDead.
FetchCommand(c) ==
    /\ Turn /\ loop = "run" /\ InMap(c) /\ hChild[c] # "null"
    /\ fetch' = [c |-> c, live |-> stage[c] = "open"]
    /\ ref' = [ref EXCEPT ![c] = @ + 1]
    /\ UNCHANGED <<session, ctrl, mainVars, asyncFree, forward, workVars, childCleared, task>>

\* The reference is given up; what went between is the caller's.
FetchReturns(c) ==
    /\ fetch.c = c
    /\ fetch' = NoFetch

\* isDead, or nothing that changes the channel.
FetchNothing(c) ==
    /\ FetchReturns(c)
    /\ ref' = [ref EXCEPT ![c] = @ - 1]
    /\ UNCHANGED <<session, ctrl, mainVars, asyncFree, forward, workVars, childCleared, task>>

\* CMD_KERNEL_ECHO and others: SendChannel, whose write takes a reference.
FetchEcho(c) ==
    /\ FetchReturns(c) /\ fetch.live /\ hChild[c] = "open" /\ writes[c] < MaxWrites
    /\ writes' = [writes EXCEPT ![c] = @ + 1]
    /\ UNCHANGED <<session, ctrl, mainVars, asyncFree, forward, loop, batch, hChild, clearing,
                   childCleared, task, ref>>

\* CMD_KERNEL_CHANNEL_CLOSE.
FetchClose(c) ==
    /\ FetchReturns(c) /\ fetch.live
    /\ task' = task \ {c}
    /\ asyncFree' = asyncFree \cup {c}
    /\ ref' = [ref EXCEPT ![c] = @ - 1]
    /\ UNCHANGED <<session, ctrl, mainVars, forward, workVars, childCleared>>

\* CMD_FORWARD_SUCCESS detaches the client and keeps the channel.
FetchForward(c) ==
    /\ FetchReturns(c) /\ fetch.live
    /\ forward' = forward \cup {c}
    /\ hChild' = [hChild EXCEPT ![c] = IF @ = "open" THEN "closing" ELSE @]
    /\ ref' = [ref EXCEPT ![c] = @ - 1]
    /\ UNCHANGED <<session, ctrl, mainVars, asyncFree, loop, batch, clearing, writes,
                   childCleared, task>>

\* Mutant of WriteDone: ref is looked at before it is given up.
WriteDoneHeld(c, ok) ==
    /\ Turn /\ writes[c] > 0
    /\ ok => hChild[c] = "open"
    /\ writes' = [writes EXCEPT ![c] = @ - 1]
    /\ ref' = [ref EXCEPT ![c] = @ - 1]
    /\ hChild' = [hChild EXCEPT ![c] = IF ok THEN @ ELSE "closing"]
    /\ asyncFree' = IF ~ok /\ stage[c] = "open" /\ ref[c] = 0
                    THEN asyncFree \cup {c} ELSE asyncFree
    /\ UNCHANGED <<session, ctrl, mainVars, forward, loop, batch, clearing, fetch,
                   childCleared, task>>

\* WriteCallback; a handle that closes cancels its writes.
WriteDone(c, ok) ==
    /\ Turn /\ writes[c] > 0
    /\ ok => hChild[c] = "open"
    /\ writes' = [writes EXCEPT ![c] = @ - 1]
    /\ ref' = [ref EXCEPT ![c] = @ - 1]
    /\ hChild' = [hChild EXCEPT ![c] = IF ok THEN @ ELSE "closing"]
    /\ asyncFree' = IF ~ok /\ stage[c] = "open" /\ ref[c] = 1
                    THEN asyncFree \cup {c} ELSE asyncFree
    /\ UNCHANGED <<session, ctrl, mainVars, forward, loop, batch, clearing, fetch,
                   childCleared, task>>

\* The close callbacks of hChildWorkTCP: one does nothing, one is a DETACH's.
ChildClosed(c) ==
    /\ Turn /\ hChild[c] = "closing" /\ writes[c] = 0
    /\ hChild' = [hChild EXCEPT ![c] = "closed"]
    /\ IF clearing[c] = "callback"
       THEN /\ childCleared' = [childCleared EXCEPT ![c] = TRUE]
            /\ clearing' = [clearing EXCEPT ![c] = "no"]
       ELSE UNCHANGED <<childCleared, clearing>>
    /\ UNCHANGED <<session, ctrl, mainVars, asyncFree, forward, loop, batch, writes, fetch,
                   task, ref>>

\* "Childchannel free direct".
ChildCleared(c) ==
    /\ Turn /\ clearing[c] = "next" /\ hChild[c] = "closed"
    /\ childCleared' = [childCleared EXCEPT ![c] = TRUE]
    /\ clearing' = [clearing EXCEPT ![c] = "no"]
    /\ UNCHANGED <<session, ctrl, mainVars, asyncFree, forward, loop, batch, hChild, writes,
                   fetch, task, ref>>

-----------------------------------------------------------------------------
\* What comes from outside.
Client(c) ==
    \/ AcceptClient(c) \/ (\E eof \in BOOLEAN : ReadMain(c, eof))
    \/ NewConnectTry(c) \/ BindChannelToSession(c) \/ RemoveFportkey(c)
    \/ ReadEof(c) \/ ReadCommand(c) \/ FetchCommand(c)

\* What the main loop goes on with.
MainLoop(c) ==
    \/ (\E ok \in BOOLEAN : MainWriteDone(c, ok)) \/ HWorkClosed(c) \/ NextLoop(c)
    \/ OrderConnecTargetResult(c) \/ FreeChannelContinue(c) \/ FreeChannelFinally(c)
    \/ AsyncFree(c)

FetchEnds(c) ==
    \/ FetchNothing(c) \/ FetchEcho(c) \/ FetchClose(c) \/ FetchForward(c)

DispatchAny(c) == DispatchAttach(c) \/ DispatchDetach(c)

Callback(c) == (\E ok \in BOOLEAN : WriteDone(c, ok)) \/ ChildClosed(c) \/ ChildCleared(c)

ThreadLoop == ClearStarts \/ ClearEnds \/ ThreadEnds

Next ==
    \/ \E c \in Channel :
          \/ Client(c) \/ MainLoop(c) \/ FreeChannelOpeate(c)
          \/ FetchEnds(c) \/ DispatchAny(c) \/ Callback(c)
    \/ SessionDies \/ StopSession \/ ReadCtrl \/ DispatchStop \/ ThreadLoop

Spec == Init /\ [][Next]_vars

\* Threads run, and a loop serves whatever stays ready although packets keep it
\* busy; a client reads what it is sent or goes away.
FairSpec ==
    /\ Spec
    /\ WF_vars(StopSession) /\ WF_vars(DispatchStop) /\ SF_vars(ReadCtrl) /\ SF_vars(ThreadLoop)
    /\ \A c \in Channel :
          /\ WF_vars(MainLoop(c)) /\ SF_vars(FreeChannelOpeate(c))
          /\ WF_vars(FetchEnds(c)) /\ WF_vars(DispatchAny(c)) /\ SF_vars(Callback(c))

-----------------------------------------------------------------------------
TypeOK ==
    /\ session \in {"up", "dead", "stopping"} /\ loop \in Loop
    /\ ctrl \in Seq(Command) /\ batch \in Seq(Command)
    /\ fetch \in [c : Channel \cup {None}, live : BOOLEAN]
    /\ stage \in [Channel -> Stage]
    /\ hWork \in [Channel -> Handle] /\ hChild \in [Channel -> Handle]
    /\ bind \in [Channel -> {"none", "local", "next", "sent", "failed"}]
    /\ mainWrite \subseteq Channel /\ trying \subseteq Channel /\ asyncFree \subseteq Channel
    /\ forward \subseteq Channel /\ task \subseteq Channel
    /\ childCleared \in [Channel -> BOOLEAN]
    /\ clearing \in [Channel -> {"no", "callback", "next"}]
    /\ writes \in [Channel -> 0..MaxWrites] /\ ref \in [Channel -> Nat]

TornDown(c) == stage[c] \in {"handles", "gone"}
Mentions(q, c) == \E i \in 1..Len(q) : q[i].c = c

\* While its session lives, a channel is taken apart only after the work thread
\* has let it go: no open handle, write, task or command of it is left there.
TornDownIsQuiet ==
    \A c \in Channel : TornDown(c) /\ session = "up" =>
        /\ hChild[c] \in {"null", "closed"} /\ clearing[c] = "no"
        /\ writes[c] = 0 /\ c \notin task \cup mainWrite
        /\ ~Mentions(ctrl, c) /\ ~Mentions(batch, c)

\* "childCleared has not set, no need OP_QUERY_REF" (server.cpp): whatever frees
\* a channel, and however often, a DETACH on its way finds it still waiting.
DetachFinds ==
    \A q \in {ctrl, batch} : \A i \in 1..Len(q) : q[i].command = "DETACH" =>
        /\ stage[q[i].c] = "child"
        /\ ~childCleared[q[i].c] /\ clearing[q[i].c] = "no"

\* Whoever took a channel with OP_QUERY_REF may use it until the reference is
\* given up: it is not deleted before ("childCleared has not set, no need
\* OP_QUERY_REF" says what the reference is for).
ReferencedExists == \A c \in Channel : ref[c] > 0 => stage[c] # "gone"

\* "work when libuv-handle at struct of HdcSession has all callback finished"
\* (channel.cpp): no timer of a deleted channel is left.
FinallyAfterCallbacks == \A c \in trying : stage[c] # "gone"

\* Whoever asks for a channel's end gets it: the reference count, the DETACH
\* that queues behind other commands, the session's own end and the close
\* callbacks of two loops never wait for one another for good.
AskedIsGone ==
    \A c \in Channel : (c \in asyncFree \/ stage[c] = "refs") ~> stage[c] = "gone"

\* A client that is lost, also one seen only by a failing write, costs no channel
\* for good: it goes, unless it holds a forward or its session has died.
ClosedIsGone ==
    \A c \in Channel :
        hChild[c] = "closed" ~> (stage[c] = "gone" \/ c \in forward \/ session # "up")
=============================================================================
