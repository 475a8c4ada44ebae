------------------------------ MODULE HdcClient ------------------------------
(***************************************************************************)
(* One command from end to end: cmd() runs an hdc client (hdctools/        *)
(* main.cpp, host/main.cpp, host/client.cpp) that connects to the hdc      *)
(* server of the same process (hdctools/server_for_client.cpp), shakes     *)
(* hands, sends its command and prints the answer until the server closes. *)
(* The daemon behind the server is the environment; how the server frees a *)
(* channel is in HdcChannel and how a file is copied in HdcTransfer.       *)
(***************************************************************************)
EXTENDS Naturals, Sequences, SequencesExt

CONSTANTS
    Scenarios,    \* what a run starts from (Scenario below)
    MaxRetry,     \* TCP_CONNECT_MAX_RETRY_COUNT
    MaxWait,      \* maxWaitRetry: ticks of CommandWorker without a handshake
    MaxWrites     \* bound: writes of the client under way when it reads more

\* "offline" is keygen and hilog parse, "confirm" erase, format or flash without -f,
\* "unknown" what String2FormatCommand answers itself, "info" what the server answers.
Commands == {"offline", "confirm", "unknown", "info", "list", "wait", "tconn", "kill",
             "shell", "file"}
\* `server`: listening, to listen later, never, or listening with a main loop that is held.
\* `listed`: an earlier command of the process has filled g_lists.  `option`: -t names the
\* device of a command that goes to one, -v asks `list` for every device.
Scenario == [command : Commands, server : {"up", "late", "down", "held"},
             device : {"none", "comes", "up", "leaves"}, answers : Nat, listed : BOOLEAN,
             option : BOOLEAN]

ASSUME ClientAssumption == Scenarios \subseteq Scenario /\ MaxRetry \in Nat /\ MaxWait \in Nat
                           /\ MaxWrites \in Nat

VARIABLES
    sc,           \* the scenario
    phase,        \* of cmd(): "start", "run", "returned", "exited" (_exit), "asks" (for a yes)
    why,          \* what made the client leave: "", "refused", "eof", "reset", "write", "limit"
    tcp,          \* hWorkTCP of the client: "idle", "connecting", "retry", "open", "closed"
    retries,      \* tcpConnectRetryCount
    ticks,        \* debugRetryCount
    worker,       \* the timer of CommandWorker runs
    stage,        \* the client's channel: "live", "dead" (isDead), "handles", "gone"
    ioBuf,        \* what the client has read of a frame that is not complete
    ch,           \* what ReadChannel of the client changes (Channel below)
    writes,       \* writes of the client under way: its ref
    listen,       \* the server listens
    c2s, s2c,     \* frames to the server; halves of frames to the client
    reset,        \* the connection was reset
    srv,          \* the server's channel (Server below)
    dev,          \* the device: "none", "up", "dead" (its session isDead), "gone"
    said,         \* history: what the server has sent, the banner and "no target" apart
    ran           \* history: the loops the command was run on, if it is not `wait`

clientVars == <<phase, why, tcp, retries, ticks, worker, stage, ioBuf, ch, writes>>
vars == <<sc, clientVars, listen, c2s, s2c, reset, srv, dev, said, ran>>

Channel == [handshakeOK : BOOLEAN, out : Seq(STRING), send : Seq(STRING), exit : BOOLEAN]

\* `at`: the loop that serves it ("orphan": none will); `timer`: that of NewConnectTry;
\* `daemon`: packets still to come from the daemon, its CLOSE the last of them.
Server == [at : {"none", "main", "moving", "attach", "child", "orphan"}, handshakeOK : BOOLEAN,
           life : {"open", "asked", "closed"}, remote : BOOLEAN, timer : BOOLEAN, daemon : Nat,
           say : Seq(STRING), ran : Seq({"main", "child"})]

\* AutoConnectKey: these go to no device; the others go to whichever there is.
NoTarget == {"unknown", "info", "list", "wait", "tconn", "kill"}

TypeOK ==
    /\ sc \in Scenarios
    /\ phase \in {"start", "run", "returned", "exited", "asks"}
    /\ why \in {"", "refused", "eof", "reset", "write", "limit"}
    /\ tcp \in {"idle", "connecting", "retry", "open", "closed"}
    /\ retries \in 0..MaxRetry /\ ticks \in 0..MaxWait /\ worker \in BOOLEAN
    /\ stage \in {"live", "dead", "handles", "gone"} /\ Len(ioBuf) <= 1
    /\ ch \in Channel /\ ch.send = <<>> /\ writes \in Nat
    /\ listen \in BOOLEAN /\ reset \in BOOLEAN
    /\ c2s \in Seq({"handshake", "command", "data", "close"})
    /\ srv \in Server /\ srv.say = <<>> /\ srv.ran = <<>>
    /\ dev \in {"none", "up", "dead", "gone"}

Init ==
    /\ sc \in Scenarios
    /\ phase = "start" /\ why = "" /\ tcp = "idle" /\ retries = 0 /\ ticks = 0
    /\ worker = FALSE /\ stage = "live" /\ ioBuf = <<>> /\ writes = 0
    /\ ch = [handshakeOK |-> FALSE, out |-> <<>>, send |-> <<>>, exit |-> FALSE]
    /\ listen = (sc.server \in {"up", "held"})
    /\ c2s = <<>> /\ s2c = <<>> /\ reset = FALSE
    /\ srv = [at |-> "none", handshakeOK |-> FALSE, life |-> "open", remote |-> FALSE,
              timer |-> FALSE, daemon |-> 0, say |-> <<>>, ran |-> <<>>]
    /\ dev = (IF sc.device \in {"up", "leaves"} THEN "up" ELSE "none")
    /\ said = <<>> /\ ran = <<>>

--------------------------------------------------------------------------------
(* The client: connecting. *)

ConnectServerForClient == tcp' = "connecting" /\ UNCHANGED retries

\* It starts to connect and the timer of CommandWorker, and runs the loop.
ExecuteCommand == phase' = "run" /\ ConnectServerForClient /\ worker' = TRUE

\* A command that needs no server returns at once.
RunClientMode ==
    /\ phase = "start"
    /\ \/ sc.command = "offline" /\ phase' = "returned" /\ UNCHANGED <<tcp, retries, worker>>
       \/ sc.command # "offline" /\ ExecuteCommand
    /\ UNCHANGED <<sc, why, ticks, stage, ioBuf, ch, writes, listen, c2s, s2c, reset, srv,
                   dev, said, ran>>

\* FreeChannel: a channel that isDead is not freed again.
FreeChannel(cause) ==
    IF stage = "live" THEN stage' = "dead" /\ why' = cause ELSE UNCHANGED <<stage, why>>

Connect ==
    /\ phase = "run" /\ tcp = "connecting"
    /\ CASE listen -> tcp' = "open" /\ UNCHANGED <<retries, stage, why>>
         [] ~listen /\ retries < MaxRetry -> tcp' = "retry" /\ retries' = retries + 1
                                             /\ UNCHANGED <<stage, why>>
         [] OTHER -> tcp' = "closed" /\ FreeChannel("refused") /\ UNCHANGED retries
    /\ UNCHANGED <<sc, phase, ticks, worker, ioBuf, ch, writes, listen, c2s, s2c, reset, srv, dev,
                   said, ran>>

RetryTcpConnectWorker ==
    /\ phase = "run" /\ tcp = "retry" /\ tcp' = "connecting"
    /\ UNCHANGED <<sc, phase, why, retries, ticks, worker, stage, ioBuf, ch, writes, listen, c2s, s2c,
                   reset, srv, dev, said, ran>>

\* Send, SendChannel: not from a channel that isDead nor on a handle that is closing.
Writable == stage = "live" /\ tcp = "open"

\* What a closed peer gets makes it reset the connection.
Send(frames) ==
    LET sent == IF Writable THEN frames ELSE <<>> IN
    /\ writes' = writes + Len(sent)
    /\ c2s' = IF srv.life = "closed" THEN c2s ELSE c2s \o sent
    /\ reset' = (reset \/ (srv.life = "closed" /\ sent # <<>>))

\* CommandWorker, every 10 ms: the count is looked at before the handshake is.
CommandLimit ==
    /\ phase = "run" /\ worker /\ ticks = MaxWait
    /\ worker' = FALSE /\ phase' = "returned" /\ why' = IF why = "" THEN "limit" ELSE why
    /\ UNCHANGED <<sc, tcp, retries, ticks, stage, ioBuf, ch, writes, listen, c2s, s2c, reset, srv,
                   dev, said, ran>>

CommandWait ==
    /\ phase = "run" /\ worker /\ ticks < MaxWait /\ ~ch.handshakeOK
    /\ ticks' = ticks + 1
    /\ UNCHANGED <<sc, phase, why, tcp, retries, worker, stage, ioBuf, ch, writes, listen, c2s, s2c,
                   reset, srv, dev, said, ran>>

\* It reads its answer with getchar; a standard input that is at its end never gives it
\* one, and it goes on asking for the next character.
ConfirmCommand == sc.command # "confirm"

CommandWorker ==
    /\ phase = "run" /\ worker /\ ticks < MaxWait /\ ch.handshakeOK
    /\ worker' = FALSE
    /\ IF ConfirmCommand
       THEN Send(<<"command">>) /\ UNCHANGED phase
       ELSE phase' = "asks" /\ UNCHANGED <<writes, c2s, reset>>
    /\ UNCHANGED <<sc, why, tcp, retries, ticks, stage, ioBuf, ch, listen, s2c, srv, dev, said, ran>>

--------------------------------------------------------------------------------
(* The client: reading. *)

\* WaitFor: `wait` asks again as long as there is no target, and then ends the process.
WaitFor(c, f) ==
    IF f = "noTarget" THEN [c EXCEPT !.send = Append(@, "command")] ELSE [c EXCEPT !.exit = TRUE]

\* ListTargetsAll: with devices from an earlier list, [Empty] is not printed.
Swallowed(f) == sc.command = "list" /\ sc.listed /\ f = "empty"

\* ListTargetsAll makes the text of `list targets -v` longer, and ReadChannel prints the frame
\* with that length: the text as it was sent, and what lies behind it in ioBuf up to the first
\* zero byte, if that is not the first.
Lengthened(f) == sc.command = "list" /\ sc.option /\ f = "answer"
Printed(f, behind) == IF Lengthened(f) /\ behind THEN <<f, "stray">> ELSE <<f>>

\* HdcFile::CommandDispatch: the task begins to copy, or it fails and TaskFinish sends a
\* CHANNEL_CLOSE.
FileTask(c, works) == [c EXCEPT !.send = Append(@, IF works THEN "data" ELSE "close")]

PreHandshake(c) == [c EXCEPT !.handshakeOK = TRUE, !.send = Append(@, "handshake")]

\* One frame, with something or nothing behind it.
ReadChannel(c, f, works, behind) ==
    IF c.exit THEN c
    ELSE IF ~c.handshakeOK THEN PreHandshake(c)
    ELSE IF f = "fileInit" THEN FileTask(c, works)
    ELSE IF sc.command = "wait" THEN WaitFor(c, f)
    ELSE IF Swallowed(f) THEN c ELSE [c EXCEPT !.out = @ \o Printed(f, behind)]

\* Each frame arrives in two halves.  What is left of the buffer stays for the next read.
FramesOf(p) == [i \in 1..(Len(p) \div 2) |-> p[2 * i]]
\* Mutant of RestOf: a frame that is not complete is thrown away.
RestOfNothing(p) == <<>>

RestOf(p) == IF Len(p) % 2 = 1 THEN <<p[Len(p)]>> ELSE <<>>

\* ReadStream: any number of bytes that have arrived.
ReadStream ==
    /\ phase = "run" /\ tcp = "open" /\ s2c # <<>> /\ writes <= MaxWrites
    /\ \E n \in 1..Len(s2c), works \in BOOLEAN, behind \in BOOLEAN :
         LET p == ioBuf \o SubSeq(s2c, 1, n)
             c == FoldLeft(LAMBDA x, f : ReadChannel(x, f, works, behind), ch, FramesOf(p)) IN
         /\ ioBuf' = RestOf(p)
         /\ s2c' = SubSeq(s2c, n + 1, Len(s2c))
         /\ ch' = [c EXCEPT !.send = <<>>]
         /\ Send(c.send)
         /\ phase' = IF c.exit THEN "exited" ELSE phase
    /\ UNCHANGED <<sc, why, tcp, retries, ticks, worker, stage, listen, srv, dev, said, ran>>

ReadEnd ==
    /\ phase = "run" /\ tcp = "open"
    /\ (s2c = <<>> /\ srv.life = "closed") \/ reset
    /\ tcp' = "closed" /\ FreeChannel(IF reset THEN "reset" ELSE "eof")
    /\ UNCHANGED <<sc, phase, retries, ticks, worker, ioBuf, ch, writes, listen, c2s, s2c, reset, srv,
                   dev, said, ran>>

WriteCallback ==
    /\ phase = "run" /\ writes > 0 /\ (tcp = "open" \/ stage # "live")
    /\ writes' = writes - 1
    /\ UNCHANGED <<sc, phase, why, tcp, retries, ticks, worker, stage, ioBuf, ch, listen, c2s, s2c,
                   reset, srv, dev, said, ran>>

\* Mutant of WriteFails: a write that fails only closes the handle.
WriteFailsQuietly ==
    /\ phase = "run" /\ writes > 0 /\ (reset \/ tcp = "closed")
    /\ writes' = writes - 1 /\ tcp' = "closed" /\ UNCHANGED <<stage, why>>
    /\ UNCHANGED <<sc, phase, retries, ticks, worker, ioBuf, ch, listen, c2s, s2c, reset, srv, dev,
                   said, ran>>

\* A write that fails closes the handle; the last one under way frees the channel.
WriteFails ==
    /\ phase = "run" /\ writes > 0 /\ (reset \/ tcp = "closed")
    /\ writes' = writes - 1 /\ tcp' = "closed"
    /\ IF writes = 1 THEN FreeChannel("write") ELSE UNCHANGED <<stage, why>>
    /\ UNCHANGED <<sc, phase, retries, ticks, worker, ioBuf, ch, listen, c2s, s2c, reset, srv, dev,
                   said, ran>>

FreeChannelOpeate ==
    /\ phase = "run" /\ stage = "dead" /\ writes = 0
    /\ stage' = "handles" /\ tcp' = "closed"
    /\ UNCHANGED <<sc, phase, why, retries, ticks, worker, ioBuf, ch, writes, listen, c2s, s2c, reset,
                   srv, dev, said, ran>>

\* FreeChannelFinally of a client stops the loop; RunClientMode returns.
FreeChannelFinally ==
    /\ phase = "run" /\ stage = "handles"
    /\ stage' = "gone" /\ phase' = "returned"
    /\ UNCHANGED <<sc, why, tcp, retries, ticks, worker, ioBuf, ch, writes, listen, c2s, s2c, reset,
                   srv, dev, said, ran>>

--------------------------------------------------------------------------------
(* The server. *)

Serving == sc.server # "held" /\ phase # "exited"

\* EchoClient, SendChannelWithCmd, on the loop the caller is on; a handle that is closing
\* sends nothing.
Say(s, f) == [s EXCEPT !.say = Append(@, f)]
\* ReadChannel returns less than 0: ReadStream asks for the channel to be freed.
Leave(s) == [s EXCEPT !.life = "asked"]

\* What a step of the server comes to for the client.
Becomes(s) ==
    /\ srv' = [s EXCEPT !.say = <<>>, !.ran = <<>>]
    /\ said' = said \o SelectSeq(s.say, LAMBDA f : f # "noTarget")
    /\ ran' = ran \o s.ran
    /\ s2c' = s2c \o FlattenSeq([i \in 1..Len(s.say) |-> <<s.say[i], s.say[i]>>])

\* FreeSession makes a session isDead and its device OFFLINE in one step: what is CONNECTED
\* has a session, and what is not is listed by -v alone.
GetDaemonMapOnlyOne == dev = "up"
AdminDaemonMapForWait == dev = "up"
GetDaemonMapList == IF sc.option THEN dev # "none" ELSE dev = "up"

\* A device that is named is taken at its name.
CheckAutoFillTarget == sc.command \notin NoTarget /\ (sc.option \/ GetDaemonMapOnlyOne)
FindAliveSession == dev = "up"

\* hWorkTCP is closed here already; the work thread is to take the socket over.
BindChannelToSession(s) ==
    IF FindAliveSession THEN [s EXCEPT !.at = "moving"] ELSE Leave(Say(s, "fail"))

ChannelHandShake(s) ==
    LET t == [s EXCEPT !.handshakeOK = TRUE] IN
    IF CheckAutoFillTarget THEN BindChannelToSession(t) ELSE t

WaitForAny(s) == IF AdminDaemonMapForWait THEN Leave(Say(s, "answer")) ELSE Say(s, "noTarget")

NewConnectTry(s) ==
    IF dev = "up" THEN Leave(Say(s, "answer")) ELSE [s EXCEPT !.timer = TRUE]

GetTargetList(s) == Leave(Say(s, IF GetDaemonMapList THEN "answer" ELSE "empty"))

DoCommandLocal(s) ==
    CASE sc.command = "list"  -> GetTargetList(s)
      [] sc.command = "wait"  -> WaitForAny(s)
      [] sc.command = "tconn" -> NewConnectTry(s)
      [] sc.command = "info"  -> Leave(Say(s, "answer"))
      [] OTHER                -> Leave(Say(s, "fail"))

\* TaskCommand for a file: the client is to copy it.  What it returns is not looked at.
TaskCommand(s) ==
    LET t == [s EXCEPT !.remote = TRUE] IN IF dev = "up" THEN Say(t, "fileInit") ELSE t

DoCommandRemote(s) ==
    IF sc.command = "file" THEN TaskCommand(s)
    ELSE IF dev = "up" THEN [s EXCEPT !.daemon = sc.answers + 1]
    ELSE Leave(Say(s, "fail"))

\* DoCommand: until AttachChannel has made hChildWorkTCP, commands are run on the main loop.
DoCommand(s) ==
    LET on == IF s.at = "child" THEN "child" ELSE "main"
        t == IF sc.command = "wait" THEN s ELSE [s EXCEPT !.ran = Append(@, on)] IN
    IF on = "child" THEN DoCommandRemote(t) ELSE DoCommandLocal(t)

\* SendToDaemon of what the file task of the client sends; a CLOSE is answered by a CLOSE.
PassThrough(s, f) ==
    IF dev = "up" THEN [s EXCEPT !.daemon = IF f = "close" THEN 1 ELSE sc.answers + 1] ELSE s

ServerReadChannel(s, f) ==
    IF ~s.handshakeOK THEN ChannelHandShake(s)
    ELSE IF s.remote THEN PassThrough(s, f)
    ELSE IF sc.command = "unknown" THEN Leave(Say(s, "fail"))
    ELSE DoCommand(s)

AcceptClient ==
    /\ Serving /\ srv.at = "none" /\ tcp = "open" /\ phase = "run"
    /\ srv' = [srv EXCEPT !.at = "main"]
    /\ s2c' = s2c \o <<"hello", "hello">>
    /\ UNCHANGED <<sc, clientVars, listen, c2s, reset, dev, said, ran>>

\* Mutant of FirstRecv: a read takes what there is.
FirstRecvAll == Len(c2s)

\* funcChannelHeaderAlloc: a read of the main loop takes no more than the handshake.
FirstRecv == 1

\* A read of the server's main loop, or of the work thread once it has the channel.
ServerRead ==
    /\ Serving /\ c2s # <<>> /\ srv.life # "closed" /\ srv.at \in {"main", "child"}
    /\ ~(sc.command = "kill" /\ srv.handshakeOK)
    /\ LET n == IF srv.at = "main" THEN FirstRecv ELSE Len(c2s) IN
       /\ Becomes(FoldLeft(ServerReadChannel, srv, SubSeq(c2s, 1, n)))
       /\ c2s' = SubSeq(c2s, n + 1, Len(c2s))
    /\ UNCHANGED <<sc, clientVars, listen, reset, dev>>

\* CMD_SERVER_KILL: _exit(0) ends the process of the server, which is that of the client.
KillServer ==
    /\ Serving /\ c2s # <<>> /\ srv.at = "main" /\ srv.handshakeOK /\ sc.command = "kill"
    /\ phase' = "exited" /\ ran' = Append(ran, "main")
    /\ UNCHANGED <<sc, why, tcp, retries, ticks, worker, stage, ioBuf, ch, writes, listen, c2s, s2c,
                   reset, srv, dev, said>>

\* DoNextLoop in BindChannelToSession: a session that died meanwhile leaves the channel with
\* its handle closed and nobody to attach it.
NextLoop ==
    /\ Serving /\ srv.at = "moving"
    /\ srv' = [srv EXCEPT !.at = IF FindAliveSession THEN "attach" ELSE "orphan"]
    /\ UNCHANGED <<sc, clientVars, listen, c2s, s2c, reset, dev, said, ran>>

AttachChannel ==
    /\ Serving /\ srv.at = "attach"
    /\ srv' = [srv EXCEPT !.at = "child"]
    /\ UNCHANGED <<sc, clientVars, listen, c2s, s2c, reset, dev, said, ran>>

\* FetchCommand on the work thread: an echo, or the CLOSE after the last of them.
FetchCommand ==
    /\ Serving /\ srv.daemon > 0 /\ srv.life # "closed" /\ dev = "up"
    /\ LET s == [srv EXCEPT !.daemon = @ - 1] IN
       Becomes(IF s.daemon = 0 THEN Leave(s) ELSE Say(s, "answer"))
    /\ UNCHANGED <<sc, clientVars, listen, c2s, reset, dev>>

OrderConnecTargetResult ==
    /\ Serving /\ srv.timer
    /\ LET s == [srv EXCEPT !.timer = FALSE] IN
       Becomes(Leave(Say(s, IF dev = "up" THEN "answer" ELSE "fail")))
    /\ UNCHANGED <<sc, clientVars, listen, c2s, reset, dev>>

\* The channel's handle is closed: by FreeChannelOpeate and what follows, or by the child
\* loop when its session ends.  What is not read yet makes it a reset.
Closes == srv' = [srv EXCEPT !.life = "closed"] /\ reset' = (reset \/ c2s # <<>>) /\ c2s' = <<>>

ServerCloses ==
    /\ Serving /\ srv.life = "asked" /\ Closes
    /\ UNCHANGED <<sc, clientVars, listen, s2c, dev, said, ran>>

ServerStarts ==
    /\ sc.server = "late" /\ ~listen /\ listen' = TRUE
    /\ UNCHANGED <<sc, clientVars, c2s, s2c, reset, srv, dev, said, ran>>

--------------------------------------------------------------------------------
(* The device. *)

DeviceComes ==
    /\ sc.device = "comes" /\ dev = "none" /\ dev' = "up"
    /\ UNCHANGED <<sc, clientVars, listen, c2s, s2c, reset, srv, said, ran>>

SessionDies ==
    /\ sc.device = "leaves" /\ dev = "up" /\ dev' = "dead"
    /\ UNCHANGED <<sc, clientVars, listen, c2s, s2c, reset, srv, said, ran>>

\* The commands in the control pipe come before its end: an ATTACH is still done.
SessionEnds ==
    /\ dev = "dead" /\ srv.at # "attach" /\ dev' = "gone"
    /\ IF srv.at = "child" /\ srv.life # "closed" THEN Closes ELSE UNCHANGED <<srv, reset, c2s>>
    /\ UNCHANGED <<sc, clientVars, listen, s2c, said, ran>>

--------------------------------------------------------------------------------
Client == \/ RunClientMode \/ Connect \/ RetryTcpConnectWorker \/ CommandLimit \/ CommandWait
          \/ CommandWorker \/ ReadStream \/ ReadEnd \/ WriteCallback \/ WriteFails
          \/ FreeChannelOpeate \/ FreeChannelFinally
ServerStep == \/ AcceptClient \/ ServerRead \/ KillServer \/ NextLoop \/ AttachChannel
              \/ FetchCommand \/ OrderConnecTargetResult \/ ServerCloses
Device == DeviceComes \/ SessionEnds

Next == Client \/ ServerStep \/ Device \/ ServerStarts \/ SessionDies

Spec == Init /\ [][Next]_vars
          /\ WF_vars(Client) /\ WF_vars(ServerStep) /\ WF_vars(Device)

--------------------------------------------------------------------------------
(* Properties. *)

\* When the client leaves because the server has closed the connection, it has printed
\* every text the server sent, in order and once, however the bytes were cut into reads
\* (ReadStream, ReadChannel); [Empty] after an earlier list is the one text it keeps.  What is
\* printed beside the texts is left to PrintsNothingElse.
PrintsAll ==
    (phase = "returned" /\ why = "eof") =>
        SelectSeq(ch.out, LAMBDA f : f # "stray") =
            SelectSeq(said, LAMBDA f : f # "fileInit" /\ ~Swallowed(f))

\* The client prints nothing that it was not sent.  The code does not keep this: see Printed.
PrintsNothingElse == "stray" \notin Range(ch.out)

\* A command is run once, `wait` apart, and never on the main loop once its channel is on
\* the way to a session (AcceptClient limits the first read for this).
RunsOnceWhereBound ==
    /\ Len(ran) <= 1
    /\ srv.at \in {"moving", "attach", "child", "orphan"} => "main" \notin Range(ran)

\* cmd() comes to an end, whatever the server and the device do, but for a command that
\* asks for a yes, a wait for a device that never comes or leaves, and a channel bound to a session
\* that died before it was attached.
Returns ==
    <>(\/ phase \in {"returned", "exited", "asks"}
       \/ sc.command = "wait" /\ sc.device \in {"none", "leaves"}
       \/ srv.at = "orphan")

\* cmd() tells a caller by a value other than 0 that the connection failed.
ExitCode == IF "fail" \in Range(ch.out) THEN 1 ELSE 0
FailureIsTold == phase = "returned" /\ why \in {"refused", "limit"} => ExitCode # 0

================================================================================
