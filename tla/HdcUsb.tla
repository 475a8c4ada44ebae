-------------------------------- MODULE HdcUsb --------------------------------
(***************************************************************************)
(* The USB transport of the hdc server (host/host_usb.cpp, common/usb.cpp, *)
(* hdctools/server.cpp): the timer that finds a device and makes a session *)
(* of it, the pool thread that empties the channel of what an earlier      *)
(* session left, the reader and the senders over one transfer for each     *)
(* direction, and the way a session gives all this up.                     *)
(*                                                                         *)
(* One device, which gets a new address each time it is plugged in.  The   *)
(* daemon is outside: it serves one session, may hold packets of an        *)
(* earlier one (Old), and sends a packet as a head and its pieces.         *)
(***************************************************************************)
EXTENDS Integers, Sequences, FiniteSets

CONSTANTS
    Session,
    Old,          \* a session of an earlier server
    None,
    Scenarios     \* bounds, and what may happen: see ScenarioType

\* sessions: those there may be.  old: the daemon still serves an earlier one.  plugs,
\* unplugs: how often.  said: pieces the daemon sends for one session.  sends: packets the
\* server sends in one.  tries: openings that fail although they could succeed.  fails:
\* sessions may end by themselves.  memory: what an HdcUSB may begin with.
ScenarioType ==
    [sessions : SUBSET Session, old : BOOLEAN, plugs : Nat, unplugs : Nat, said : Nat, sends : Nat,
     tries : Nat, fails : BOOLEAN, memory : SUBSET [payload : Nat, resetIO : BOOLEAN]]

\* What is asked of the constants.
ConstantsAreSound ==
    /\ Old \notin Session /\ None \notin Session \cup {Old}
    /\ Scenarios \subseteq ScenarioType

VARIABLES
    sc,           \* the scenario
    node,         \* the device's address, 0 while it is unplugged
    plugs,        \* the addresses given so far
    wire,         \* what the device has sent and nobody has read
    serves,       \* the session the daemon serves
    said,         \* [Session \cup {Old} -> Nat]: the pieces it has sent
    ignore,       \* mapIgnoreDevice
    delayed,      \* [address -> DelayDo timers that are to take it out of there]
    entry,        \* the device's entry in mapDaemon
    ses,          \* [Session -> HdcSession], as far as it matters here
    usb,          \* [Session -> HdcUSB]
    cleaner,      \* [Session -> how far ClearUsbChannel is]
    reader,       \* [Session -> how far the thread of BeginUsbRead is]
    reading,      \* [Session -> what its transfer has brought]
    out,          \* [Session -> the block that is being sent]
    cancelled,    \* transfers libusb_cancel_transfer was called for
    async,        \* sessions with an ASYNC_FREE_SESSION message
    got,          \* [Session -> what was written to its dataPipe]
    sends, tries  \* packets sent, devices refused

device == <<node, plugs, wire, serves, said>>
finder == <<ignore, delayed, entry>>
io == <<usb, reader, reading, out, cancelled, got>>
vars == <<sc, device, finder, ses, io, cleaner, async, sends, tries>>

Node == 1..sc.plugs
Ids == Session \cup {Old}

Heading(s, n) == [s |-> s, kind |-> "head", n |-> n]
Piece(s, n) == [s |-> s, kind |-> "piece", n |-> n]
NoItem == [s |-> None, kind |-> "none", n |-> 0]

NoEntry == [node |-> 0, status |-> "none", session |-> None]

\* HdcSession() and HdcUSB(): nobody sets payloadSize and resetIO.
NoSession == [stage |-> "none", dead |-> FALSE, freeing |-> "no", child |-> "none"]
NewUsb(memory) ==
    [handle |-> 0, mount |-> 0, inShut |-> TRUE, outShut |-> TRUE, inDone |-> TRUE, outDone |-> TRUE,
     payload |-> memory.payload, began |-> memory.payload, resetIO |-> memory.resetIO]
NoBlock == [parts |-> <<>>, by |-> "nobody", submitted |-> FALSE, failed |-> FALSE]

Init ==
    /\ sc \in Scenarios
    /\ node = 0 /\ plugs = 0 /\ serves = IF sc.old THEN Old ELSE None
    /\ wire = <<>> /\ said = [s \in Ids |-> 0]
    /\ ignore = [n \in Node |-> "none"] /\ delayed = [n \in Node |-> 0] /\ entry = NoEntry
    /\ ses = [s \in Session |-> NoSession]
    /\ usb = [s \in Session |-> NewUsb([payload |-> 0, resetIO |-> FALSE])]
    /\ cleaner = [s \in Session |-> "no"] /\ reader = [s \in Session |-> "off"]
    /\ reading = [s \in Session |-> NoItem] /\ out = [s \in Session |-> NoBlock]
    /\ cancelled = {} /\ async = {} /\ got = [s \in Session |-> <<>>]
    /\ sends = [s \in Session |-> 0] /\ tries = 0

-----------------------------------------------------------------------------
(* The device.                                                               *)

Plug ==
    /\ node = 0 /\ plugs < sc.plugs
    /\ plugs' = plugs + 1 /\ node' = plugs + 1
    /\ UNCHANGED <<wire, serves, said, finder, ses, io, cleaner, async, sends, tries>>

Unplug ==
    /\ node # 0 /\ plugs <= sc.unplugs
    /\ node' = 0 /\ wire' = <<>>
    /\ serves' \in {serves, None}
    /\ UNCHANGED <<plugs, said, finder, ses, io, cleaner, async, sends, tries>>

\* A packet of the daemon.
DaemonSends ==
    /\ node # 0 /\ serves # None
    /\ \E n \in 1..2 :
          /\ said[serves] + n <= sc.said
          /\ said' = [said EXCEPT ![serves] = @ + n]
          /\ wire' = wire \o <<Heading(serves, n)>> \o [k \in 1..n |-> Piece(serves, said[serves] + k)]
    /\ UNCHANGED <<node, plugs, serves, finder, ses, io, cleaner, async, sends, tries>>

\* The session it serves when it has got a part of the server's: a reset names a
\* session, or the one that is served.
DaemonTakes(part) ==
    CASE part.kind = "body" -> part.s
      [] part.kind = "reset" /\ part.s \in {None, serves} -> None
      [] OTHER -> serves

-----------------------------------------------------------------------------
(* Freeing a session.                                                        *)

\* NotifyInstanceSessionFree, step 1: of whatever session the entry is.
Offline(e) == [e EXCEPT !.status = "OFFLINE", !.session = None]

\* FreeSession on the main thread.
Freed(x) == IF x.dead THEN x ELSE [x EXCEPT !.dead = TRUE, !.freeing = "cancel"]
Told(s, e) == IF ses[s].dead THEN e ELSE Offline(e)

FreeSession(s) ==
    /\ ses' = [ses EXCEPT ![s] = Freed(@)]
    /\ entry' = Told(s, entry)

\* hUSB is not deleted yet.
Lives(s) == ses[s].freeing \notin {"final", "gone"}

\* Mutant of Shut: a transfer that is complete is cancelled like one under way.
ShutNever(u) == u

\* What CancelUsbIo does to a session's endpoints: an idle one is shut.
Shut(u) == [u EXCEPT !.inShut = @ \/ u.inDone, !.outShut = @ \/ u.outDone]

\* CancelUsbIo: those that are under way are cancelled.
ToCancel(s) ==
    {<<s, d>> : d \in {x \in {"in"} : ~usb[s].inShut /\ ~usb[s].inDone /\ reader[s] = "wait"}
                 \cup {x \in {"out"} : ~usb[s].outShut /\ ~usb[s].outDone /\ out[s].submitted}}

\* HdcSession.ref: the reader, and a transfer that is sent.
Ref(s) == Cardinality({x \in {"in"} : reader[s] \in {"top", "submit", "wait", "got", "reset", "resetting"}}
                 \cup {x \in {"out"} : out[s].submitted \/ out[s].failed})

\* FreeSessionContinue, with FreeSessionByConnectType: the handle is closed, hUSB deleted.
Deleted(u) == NewUsb([payload |-> u.began, resetIO |-> FALSE])
Continued(x) == [x EXCEPT !.freeing = "final"]

\* The repeated timer, until both endpoints are shut and no reference is left.
FreeSessionOpeate(s) ==
    /\ ses[s].freeing = "cancel"
    /\ \/ /\ ~usb[s].inShut \/ ~usb[s].outShut
          /\ usb' = [usb EXCEPT ![s] = Shut(@)]
          /\ cancelled' = cancelled \cup ToCancel(s)
          /\ UNCHANGED ses
       \/ /\ usb[s].inShut /\ usb[s].outShut /\ Ref(s) = 0
          /\ IF ses[s].child = "none"
             THEN /\ ses' = [ses EXCEPT ![s] = Continued(@)]
                  /\ usb' = [usb EXCEPT ![s] = Deleted(@)]
             ELSE /\ ses' = [ses EXCEPT ![s].freeing = "child"]
                  /\ UNCHANGED usb
          /\ UNCHANGED cancelled
    /\ UNCHANGED <<device, finder, reader, reading, out, got, cleaner, async, sends, tries>>

\* SP_STOP_SESSION is dispatched, when the thread is back in its loop, and that is cleared.
ChildStops(s) ==
    /\ ses[s].freeing = "child" /\ ses[s].child = "started" /\ out[s].by # "child"
    /\ ses' = [ses EXCEPT ![s].child = "cleared"]
    /\ UNCHANGED <<device, finder, io, cleaner, async, sends, tries>>

FreeSessionContinue(s) ==
    /\ ses[s].freeing = "child" /\ ses[s].child = "cleared"
    /\ ses' = [ses EXCEPT ![s] = Continued(@)]
    /\ usb' = [usb EXCEPT ![s] = Deleted(@)]
    /\ UNCHANGED <<device, finder, reader, reading, out, cancelled, got, cleaner, async, sends, tries>>

\* NotifyInstanceSessionFree, step 2: the device the entry names now may be found
\* again after a while.
FreeSessionFinally(s) ==
    /\ ses[s].freeing = "final"
    /\ ses' = [ses EXCEPT ![s].freeing = "gone"]
    /\ delayed' = [delayed EXCEPT ![entry.node] = @ + 1]
    /\ UNCHANGED <<device, ignore, entry, io, cleaner, async, sends, tries>>

AsyncFree(s) ==
    /\ s \in async
    /\ async' = async \ {s}
    /\ FreeSession(s)
    /\ UNCHANGED <<device, ignore, delayed, io, cleaner, sends, tries>>


-----------------------------------------------------------------------------
(* Finding the device, on the main thread.                                   *)

Online(s) == node # 0 /\ usb[s].handle = node
Claimed(n) == \E s \in Session : Lives(s) /\ usb[s].handle = n

\* A DelayDo of ReviewUsbNodeLater or of NotifyInstanceSessionFree.
RemoveIgnoreDevice(n) ==
    /\ delayed[n] > 0
    /\ delayed' = [delayed EXCEPT ![n] = @ - 1]
    /\ ignore' = [ignore EXCEPT ![n] = "none"]
    /\ UNCHANGED <<device, entry, ses, io, cleaner, async, sends, tries>>

\* KickoutZombie looks at one session.
KickoutZombie(s) == ses[s].stage # "none" /\ Lives(s) /\ usb[s].handle \notin {0, node}

\* UpdateUSBDaemonInfo.
Entry(n, status, s) == [node |-> n, status |-> status, session |-> s]

\* MallocSession: one that has not been.
NewSession == CHOOSE s \in sc.sessions : ses[s].stage = "none"

\* DetectMyNeed: the new session tries to connect in the next round of the loop.
DetectMyNeed(known) ==
    /\ ~Claimed(node)
    /\ \E s \in sc.sessions : ses[s].stage = "none"
    /\ ses' = [known EXCEPT ![NewSession].stage = "pre"]
    /\ \E memory \in sc.memory : usb' = [usb EXCEPT ![NewSession] = NewUsb(memory)]
    /\ entry' = Entry(node, "READY", None)
    /\ ignore' = [ignore EXCEPT ![node] = "REGISTER"]
    /\ UNCHANGED <<delayed, tries>>

\* A device that is held cannot be claimed, and is put off for as long as it is; so
\* is, here, one for which no session is left.  Others may fail to open, too, at most
\* sc.tries times.
ReviewUsbNodeLater(known, e) ==
    /\ \/ (Claimed(node) \/ \A s \in sc.sessions : ses[s].stage # "none") /\ UNCHANGED tries
       \/ tries < sc.tries /\ tries' = tries + 1
    /\ ignore' = [ignore EXCEPT ![node] = "IGNORE"]
    /\ delayed' = [delayed EXCEPT ![node] = @ + 1]
    /\ ses' = known /\ entry' = e
    /\ UNCHANGED usb

WatchUsbNodeChange ==
    /\ \A s \in Session : ses[s].stage # "pre"
    /\ \E kicked \in SUBSET {s \in Session : KickoutZombie(s)} :
          LET known == [s \in Session |-> IF s \in kicked THEN Freed(ses[s]) ELSE ses[s]]
              e == IF \E s \in kicked : ~ses[s].dead THEN Offline(entry) ELSE entry
          IN /\ Cardinality(kicked) <= 1
             /\ IF node = 0 \/ ignore[node] # "none"
                THEN ses' = known /\ entry' = e /\ UNCHANGED <<ignore, delayed, usb, tries>>
                ELSE DetectMyNeed(known) \/ ReviewUsbNodeLater(known, e)
    /\ UNCHANGED <<device, reader, reading, out, cancelled, got, cleaner, async, sends>>

\* FindDeviceByID: the address of the entry is looked for and opened, which may fail as well.
FindDeviceByID(found) ==
    \/ found /\ entry.node = node /\ ~Claimed(node) /\ UNCHANGED tries
    \/ ~found /\ (entry.node # node \/ Claimed(node)) /\ UNCHANGED tries
    \/ ~found /\ tries < sc.tries /\ tries' = tries + 1

ConnectDetectDaemon(s) ==
    /\ \/ /\ FindDeviceByID(TRUE)
          /\ usb' = [usb EXCEPT ![s].handle = node, ![s].mount = node]
          /\ entry' = Entry(node, "CONNECTED", s)
          /\ ses' = [ses EXCEPT ![s].stage = "clear"]
          /\ cleaner' = [cleaner EXCEPT ![s] = "reset"]
          /\ UNCHANGED ignore
       \/ /\ FindDeviceByID(FALSE)
          /\ usb' = [usb EXCEPT ![s].mount = entry.node]
          /\ entry' = Told(s, entry)
          /\ ses' = [ses EXCEPT ![s] = [Freed(@) EXCEPT !.stage = "clear"]]
          /\ ignore' = [ignore EXCEPT ![entry.node] = "none"]
          /\ UNCHANGED cleaner
    /\ UNCHANGED <<device, delayed, reader, reading, out, cancelled, got, async, sends>>

\* The entry is there: DetectMyNeed has made it.
UsbPreConnect(s) ==
    /\ ses[s].stage = "pre"
    /\ ConnectDetectDaemon(s)

-----------------------------------------------------------------------------
(* Emptying the channel, in the pool, with nothing that holds the session.   *)

\* The reset may be lost.
SendSoftResetToDaemonSync(s) ==
    /\ cleaner[s] = "reset" /\ Lives(s)
    /\ serves' \in {serves} \cup {DaemonTakes(p) : p \in {x \in {[kind |-> "reset", s |-> None]} : Online(s)}}
    /\ cleaner' = [cleaner EXCEPT ![s] = "read"]
    /\ UNCHANGED <<node, plugs, wire, said, finder, ses, io, async, sends, tries>>

\* A lot of data makes it send the reset once more.
ClearUsbChannel(s) ==
    /\ cleaner[s] = "read" /\ Lives(s)
    /\ \/ /\ Online(s) /\ wire # <<>>
          /\ wire' = Tail(wire) /\ serves' \in {serves, None}
          /\ UNCHANGED cleaner
       \/ /\ cleaner' = [cleaner EXCEPT ![s] = IF Online(s) THEN "done" ELSE "failed"]
          /\ UNCHANGED <<wire, serves>>
    /\ UNCHANGED <<node, plugs, said, finder, ses, io, async, sends, tries>>

\* With BeginUsbRead, on the main thread.
ClearUsbChannelFinished(s) ==
    /\ cleaner[s] \in {"done", "failed"} /\ Lives(s)
    /\ cleaner' = [cleaner EXCEPT ![s] = "over"]
    /\ IF cleaner[s] = "failed"
       THEN /\ FreeSession(s)
            /\ ignore' = [ignore EXCEPT ![usb[s].mount] = "none"]
            /\ UNCHANGED <<usb, reader>>
       ELSE /\ usb' = [usb EXCEPT ![s].inShut = FALSE, ![s].outShut = FALSE, ![s].mount = entry.node]
            /\ reader' = [reader EXCEPT ![s] = "top"]
            /\ ses' = [ses EXCEPT ![s].stage = "run", ![s].child = "up"]
            /\ UNCHANGED <<entry, ignore>>
    /\ UNCHANGED <<device, delayed, reading, out, cancelled, got, async, sends, tries>>

-----------------------------------------------------------------------------
(* The thread of BeginUsbRead.                                               *)

ReaderGoes(s, to) == reader' = [reader EXCEPT ![s] = to]

\* It looks at isDead, and submits a transfer without asking whether the endpoint is shut.
ReaderTop(s) ==
    /\ reader[s] = "top"
    /\ ReaderGoes(s, IF ses[s].dead THEN "exit" ELSE "submit")
    /\ UNCHANGED <<device, finder, ses, usb, reading, out, cancelled, got, cleaner, async, sends, tries>>

ReaderSubmits(s) ==
    /\ reader[s] = "submit"
    /\ usb' = [usb EXCEPT ![s].inDone = FALSE]
    /\ ReaderGoes(s, IF Online(s) THEN "wait" ELSE "exit")
    /\ UNCHANGED <<device, finder, ses, reading, out, cancelled, got, cleaner, async, sends, tries>>

\* USBBulkCallback; the transfer has no timeout.
ReaderWakes(s) ==
    /\ reader[s] = "wait"
    /\ \/ /\ Online(s) /\ wire # <<>>
          /\ reading' = [reading EXCEPT ![s] = Head(wire)] /\ wire' = Tail(wire)
          /\ ReaderGoes(s, "got")
       \/ /\ ~Online(s) \/ <<s, "in">> \in cancelled
          /\ ReaderGoes(s, "exit")
          /\ UNCHANGED <<reading, wire>>
    /\ usb' = [usb EXCEPT ![s].inDone = TRUE]
    /\ cancelled' = cancelled \ {<<s, "in">>}
    /\ UNCHANGED <<node, plugs, serves, said, finder, ses, out, got, cleaner, async, sends, tries>>

\* Mutant of TakesPiece: what no head has announced is taken as well.
TakesAnyPiece(s) == reading[s].kind = "piece"

\* A head of this session has announced it, as far as payloadSize tells.
TakesPiece(s) == reading[s].kind = "piece" /\ usb[s].payload > 0

\* UsbToHdcProtocol writes it to dataPipe, and may fail.
Piped(s) ==
    \/ /\ got' = [got EXCEPT ![s] = Append(@, reading[s])]
       /\ usb' = [usb EXCEPT ![s].payload = IF @ = 0 THEN 0 ELSE @ - 1]
       /\ ReaderGoes(s, "top")
    \/ ReaderGoes(s, "exit") /\ UNCHANGED <<got, usb>>

\* With IsUsbPacketHeader and CheckPacketOption.
SendToHdcStream(s) ==
    /\ reader[s] = "got"
    /\ \/ /\ reading[s].kind = "head" /\ reading[s].s = s
          /\ usb' = [usb EXCEPT ![s].payload = reading[s].n]
          /\ ReaderGoes(s, "top") /\ UNCHANGED got
       \/ TakesPiece(s) /\ Piped(s)
       \/ /\ ~TakesPiece(s) /\ ~(reading[s].kind = "head" /\ reading[s].s = s)
          /\ ReaderGoes(s, IF usb[s].resetIO THEN "top" ELSE "reset")
          /\ UNCHANGED <<usb, got>>
    /\ reading' = [reading EXCEPT ![s] = IF reader'[s] = "reset" THEN @ ELSE NoItem]
    /\ UNCHANGED <<device, finder, ses, out, cancelled, cleaner, async, sends, tries>>

\* The session of a head is reset, or the one that is served.
PreSendUsbSoftReset(s) ==
    /\ reader[s] = "reset" /\ out[s] = NoBlock
    /\ LET old == IF reading[s].kind = "head" THEN reading[s].s ELSE None
       IN out' = [out EXCEPT ![s] = [NoBlock EXCEPT !.parts = <<[kind |-> "reset", s |-> old]>>, !.by = "reader"]]
    /\ ReaderGoes(s, "resetting")
    /\ reading' = [reading EXCEPT ![s] = NoItem]
    /\ UNCHANGED <<device, finder, ses, usb, cancelled, got, cleaner, async, sends, tries>>

\* The reference is given up before; what follows uses the session nevertheless.
ReaderEnds(s) ==
    /\ reader[s] = "exit" /\ Lives(s)
    /\ usb' = [usb EXCEPT ![s].inShut = TRUE]
    /\ async' = async \cup {s}
    /\ ReaderGoes(s, "remove")
    /\ UNCHANGED <<device, finder, ses, reading, out, cancelled, got, cleaner, sends, tries>>

ReaderRemoves(s) ==
    /\ reader[s] = "remove" /\ Lives(s)
    /\ ignore' = [ignore EXCEPT ![usb[s].mount] = "none"]
    /\ ReaderGoes(s, "off")
    /\ UNCHANGED <<device, delayed, entry, ses, usb, reading, out, cancelled, got, cleaner, async, sends, tries>>

-----------------------------------------------------------------------------
(* Sending.                                                                  *)

\* SP_START_SESSION.
ChildStarts(s) ==
    /\ ses[s].child = "up"
    /\ ses' = [ses EXCEPT ![s].child = "started"]
    /\ UNCHANGED <<device, finder, io, cleaner, async, sends, tries>>

\* The handshake, and other packets: SendUSBBlock has lockSendUsbBlock until they are sent.
SendUSBBlock(s) ==
    /\ ses[s].child = "started" /\ ~ses[s].dead /\ out[s] = NoBlock
    /\ sends[s] < sc.sends /\ sends' = [sends EXCEPT ![s] = @ + 1]
    /\ out' = [out EXCEPT ![s] = [NoBlock EXCEPT !.by = "child",
                  !.parts = <<[kind |-> "head", s |-> s], [kind |-> "body", s |-> s]>>]]
    /\ UNCHANGED <<device, finder, ses, usb, reader, reading, cancelled, got, cleaner, async, tries>>

SubmitUsbBio(s) ==
    /\ out[s].parts # <<>> /\ ~out[s].submitted /\ ~out[s].failed
    /\ usb' = [usb EXCEPT ![s].outDone = FALSE]
    /\ out' = [out EXCEPT ![s].submitted = Online(s), ![s].failed = ~Online(s)]
    /\ UNCHANGED <<device, finder, ses, reader, reading, cancelled, got, cleaner, async, sends, tries>>

\* The block is sent, or given up: its thread goes on.
BlockEnds(s, parts) ==
    IF parts # <<>>
    THEN /\ out' = [out EXCEPT ![s] = [@ EXCEPT !.parts = parts, !.submitted = FALSE]]
         /\ UNCHANGED reader
    ELSE /\ out' = [out EXCEPT ![s] = NoBlock]
         /\ IF out[s].by = "reader" THEN ReaderGoes(s, "top") ELSE UNCHANGED reader

\* resetIO is set whether the reset was sent or not.
AfterBlock(s, u, parts) ==
    [u EXCEPT !.resetIO = @ \/ (parts = <<>> /\ out[s].by = "reader")]

\* USBBulkCallback: the daemon has the part, or it was cancelled, lost or too late.
PartIsSent(s) ==
    /\ out[s].submitted
    /\ cancelled' = cancelled \ {<<s, "out">>}
    /\ \/ /\ Online(s)
          /\ serves' = DaemonTakes(Head(out[s].parts))
          /\ BlockEnds(s, Tail(out[s].parts))
          /\ usb' = [usb EXCEPT ![s] = AfterBlock(s, [@ EXCEPT !.outDone = TRUE], Tail(out[s].parts))]
       \/ /\ out' = [out EXCEPT ![s].submitted = FALSE, ![s].failed = TRUE]
          /\ usb' = [usb EXCEPT ![s].outDone = TRUE]
          /\ UNCHANGED <<serves, reader>>
    /\ UNCHANGED <<node, plugs, wire, said, finder, ses, reading, got, cleaner, async, sends, tries>>

\* SendUSBRaw: CancelUsbIo, and the session is freed.
SendUSBRawFails(s) ==
    /\ out[s].failed
    /\ usb' = [usb EXCEPT ![s] = AfterBlock(s, [Shut(@) EXCEPT !.outShut = TRUE], <<>>)]
    /\ cancelled' = cancelled \cup ToCancel(s)
    /\ async' = async \cup {s}
    /\ BlockEnds(s, <<>>)
    /\ UNCHANGED <<device, finder, ses, reading, got, cleaner, sends, tries>>

\* ReadUSB cannot use what it reads, or the session ends for another reason.
SessionFails(s) ==
    /\ sc.fails
    /\ ses[s].child = "started" /\ ~ses[s].dead /\ s \notin async
    /\ async' = async \cup {s}
    /\ UNCHANGED <<device, finder, ses, io, cleaner, sends, tries>>

-----------------------------------------------------------------------------
MainRuns ==
    \E s \in Session : \/ UsbPreConnect(s) \/ ClearUsbChannelFinished(s) \/ AsyncFree(s)
                      \/ FreeSessionOpeate(s) \/ FreeSessionContinue(s) \/ FreeSessionFinally(s)

ThreadsRun ==
    \E s \in Session :
        \/ SendSoftResetToDaemonSync(s) \/ ClearUsbChannel(s)
        \/ ReaderTop(s) \/ ReaderSubmits(s) \/ ReaderWakes(s) \/ SendToHdcStream(s)
        \/ PreSendUsbSoftReset(s) \/ ReaderEnds(s) \/ ReaderRemoves(s)
        \/ ChildStarts(s) \/ ChildStops(s) \/ SubmitUsbBio(s) \/ PartIsSent(s) \/ SendUSBRawFails(s)

Loops == (MainRuns \/ ThreadsRun) /\ UNCHANGED sc

\* The main thread's timers, which a held device keeps busy for ever.
TimersRun ==
    (WatchUsbNodeChange \/ \E n \in Node : RemoveIgnoreDevice(n)) /\ UNCHANGED sc

Next ==
    \/ Loops
    \/ TimersRun
    \/ (Plug \/ Unplug \/ DaemonSends) /\ UNCHANGED sc
    \/ \E s \in Session : (SendUSBBlock(s) \/ SessionFails(s)) /\ UNCHANGED sc

Spec == Init /\ [][Next]_vars /\ WF_vars(Loops) /\ WF_vars(TimersRun)

-----------------------------------------------------------------------------
Addresses == 0..sc.plugs
TypeOK ==
    /\ sc \in ScenarioType
    /\ node \in Addresses /\ plugs \in Addresses
    /\ wire \in Seq([s : Ids, kind : {"head", "piece"}, n : Nat])
    /\ serves \in Ids \cup {None} /\ said \in [Ids -> 0..sc.said]
    /\ ignore \in [Node -> {"none", "IGNORE", "REGISTER"}] /\ delayed \in [Node -> Nat]
    /\ entry \in [node : Addresses, status : {"none", "READY", "CONNECTED", "OFFLINE"}, session : Session \cup {None}]
    /\ ses \in [Session -> [stage : {"none", "pre", "clear", "run"}, dead : BOOLEAN,
                             freeing : {"no", "cancel", "child", "final", "gone"},
                             child : {"none", "up", "started", "cleared"}]]
    /\ usb \in [Session -> [handle : Addresses, mount : Addresses, inShut : BOOLEAN, outShut : BOOLEAN,
                             inDone : BOOLEAN, outDone : BOOLEAN, payload : Nat, began : Nat, resetIO : BOOLEAN]]
    /\ cleaner \in [Session -> {"no", "reset", "read", "done", "failed", "over"}]
    /\ reader \in [Session -> {"off", "top", "submit", "wait", "got", "reset", "resetting", "exit", "remove"}]
    /\ reading \in [Session -> [s : Ids \cup {None}, kind : {"none", "head", "piece"}, n : Nat]]
    /\ out \in [Session -> [parts : Seq([kind : {"head", "body", "reset"}, s : Ids \cup {None}]),
                             by : {"nobody", "child", "reader"}, submitted : BOOLEAN, failed : BOOLEAN]]
    /\ cancelled \subseteq Session \X {"in", "out"} /\ async \subseteq Session
    /\ got \in [Session -> Seq([s : Ids, kind : {"piece"}, n : Nat])]
    /\ sends \in [Session -> 0..sc.sends] /\ tries \in 0..sc.tries

\* What the session reads is what the daemon sent for it, from the first piece on and
\* without a gap (CheckPacketOption and SendToHdcStream), provided the memory of the new
\* HdcUSB happens to hold 0 in payloadSize.
OwnStream ==
    \A s \in Session :
        usb[s].began = 0 => \A k \in DOMAIN got[s] : got[s][k] = Piece(s, k)

\* A device is not forgotten: a mark that keeps the timer from looking at it is taken away
\* again (ReviewUsbNodeLater), or there is a session whose end does so
\* (NotifyInstanceSessionFree).
MarkIsOwed ==
    /\ \A n \in Node : ignore[n] = "IGNORE" => delayed[n] > 0
    /\ node # 0 /\ ignore[node] = "REGISTER" =>
          /\ entry.node = node
          /\ \/ delayed[node] > 0
             \/ \E s \in Session : ses[s].stage # "none" /\ ses[s].freeing # "gone"

\* The handle is closed only when no transfer of the session is under way
\* (FreeSessionOpeate waits for both endpoints and for the references).
ClosedIsIdle ==
    \A s \in Session : Lives(s) \/ (reader[s] # "wait" /\ ~out[s].submitted)

\* The device's stream, its mark and its handle are in order.
UsbIsSound == OwnStream /\ MarkIsOwed /\ ClosedIsIdle

\* A transfer that was submitted after CancelUsbIo has shut the endpoint: nobody cancels it.
Stranded(s) == reader[s] = "wait" /\ usb[s].inShut

\* A session that is freed comes to its end (FreeSessionOpeate), unless its reader is
\* stranded.
FreedIsGone == \A s \in Session : ses[s].dead ~> (ses[s].freeing = "gone" \/ Stranded(s))

\* These fail, see the README.  The first says of every session what OwnStream says.
NothingStale == \A s \in Session : \A k \in DOMAIN got[s] : got[s][k] = Piece(s, k)
NobodyIsStranded == \A s \in Session : ~Stranded(s)
NobodyUsesTheDeleted ==
    \A s \in Session : Lives(s) \/ (cleaner[s] \in {"no", "over"} /\ reader[s] \in {"off"})
ConnectedIsListed ==
    \A s \in Session : ses[s].stage = "run" /\ ~ses[s].dead => entry.session = s
=============================================================================
