------------------------------ MODULE HdcUart ------------------------------
(***************************************************************************)
(* The link layer of hdc's serial transport: common/uart.cpp and           *)
(* host/host_uart.cpp.  Each session has a port of its own; the host keeps *)
(* the packages of all its sessions in one list, outPkgs, which one send   *)
(* thread goes through.  A package is kept until its acknowledgement comes *)
(* and is sent again when none has come in a second; each port has a read  *)
(* thread, each session a work thread that splits messages into packages.  *)
(*                                                                         *)
(* The daemon runs the same base class with one session; the class it      *)
(* derives is not in the repository, so what its sessions do when they end *)
(* is taken to be the least of what the host does.                         *)
(*                                                                         *)
(* The line loses and damages packages but keeps their order.  A damaged   *)
(* or cut package costs everything that was read with it.                  *)
(***************************************************************************)
EXTENDS Naturals, Sequences, FiniteSets

CONSTANTS Sessions,   \* the host's serial sessions
          Old,        \* the id of a session that an earlier host left behind
          Scenarios   \* records: which sessions are connected, the lengths
                      \* in packages of each end's messages, and the daemons
                      \* that still serve Old (stale); noise bounds the
                      \* packages the lines lose or damage and retry how
                      \* often one is sent again (4 times in the code)

Ends == {"host", "daemon"} \X Sessions
Side(e) == e[1]
Sid(e) == e[2]
Peer(e) == <<IF Side(e) = "host" THEN "daemon" ELSE "host", Sid(e)>>

\* One HdcUARTBase for the host, one for each daemon.
Bases == {"host"} \cup Sessions
Base(e) == IF Side(e) = "host" THEN "host" ELSE Sid(e)
EndOf(b, s) == <<IF b = "host" THEN "host" ELSE "daemon", s>>

ASSUME UartAssumption ==
  /\ Old \notin Sessions \cup {"host"}
  /\ "host" \notin Sessions
  /\ Scenarios \subseteq [messages : [Ends -> Seq(Nat \ {0})],
                          connected : SUBSET Sessions, stale : SUBSET Sessions,
                          noise : Nat, retry : Nat]

VARIABLES out,         \* [Bases -> Seq]: outPkgs
          slots,       \* [Bases -> SUBSET Sessions]: slots.hasWaitPkg
          asleep,      \* ends whose work thread sleeps in slots.cv.wait
          requested,   \* bases whose transfer.requested is set
          armed,       \* bases whose transfer.timeout is set
          alive,       \* [Ends -> "live", "dead" (isDead), "gone"]
          open,        \* sessions whose host port is open
          pc,          \* [Ends]: where the work thread is in SendUARTData
          todo,        \* [Ends -> Nat]: packages left of its message
          head,        \* [Ends -> Nat]: the index of the package at hand
          queue,       \* [Ends -> Seq(Nat)]: messages it has yet to send
          index,       \* [Ends -> Nat]: hUART->packageIndex
          dispatched,  \* [Ends -> Nat]: hUART->dispatchedPackageIndex
          line,        \* [Ends -> Seq]: on the wire, away from the end
          buf,         \* [Ends -> Seq]: dataReadBuf
          sent, delivered, broken,  \* what ReliableStream speaks of
          resetIO,     \* sessions that have asked for a soft reset
          stale,       \* the daemons that begin with an old session
          noise,       \* packages that may yet be lost or damaged
          chances      \* retryChance of a new package

transfer == <<requested, armed>>
worker == <<pc, todo, head, queue>>
history == <<sent, delivered, broken>>
vars == <<out, slots, asleep, transfer, alive, open, worker, index, dispatched, line,
          buf, history, resetIO, stale, noise, chances>>

(***************************************************************************)
(* Packages.  key is ToPkgIdentityString: the same for a package and its   *)
(* acknowledgement on the wire; n numbers the payloads of an end.          *)
(***************************************************************************)
Response(p) == p.kind = "ack"
Package(kind, s, i, n) == [kind |-> kind, s |-> s, idx |-> i, n |-> n]
OnWire(p, bad) == [kind |-> p.kind, s |-> p.s, idx |-> p.idx, n |-> p.n,
                   bad |-> bad]
Queued(p) == [kind |-> p.kind, s |-> p.s, idx |-> p.idx, n |-> p.n,
              status |-> "send", retry |-> chances]
SameKey(p, q) == /\ p.s = q.s /\ p.idx = q.idx
                 /\ Response(p) <=> Response(q)

\* The elements of a sequence at the places in K, in their order.
Kept(s, K) ==
  LET F[i \in 0 .. Len(s)] ==
        IF i = 0 THEN <<>>
        ELSE IF i \in K THEN Append(F[i - 1], s[i]) ELSE F[i - 1]
  IN  F[Len(s)]

Init ==
  /\ \E sc \in Scenarios :
       /\ queue = sc.messages /\ stale = sc.stale
       /\ noise = sc.noise /\ chances = sc.retry
       /\ alive = [e \in Ends |->
                     IF Sid(e) \in sc.connected THEN "live" ELSE "gone"]
       /\ open = sc.connected
  /\ out = [b \in Bases |-> <<>>]
  /\ slots = [b \in Bases |-> {}] /\ asleep = {}
  /\ requested = {} /\ armed = {}
  /\ pc = [e \in Ends |-> "idle"]
  /\ todo = [e \in Ends |-> 0]
  /\ head = [e \in Ends |-> 0]
  /\ index = [e \in Ends |-> 0]
  /\ dispatched = [e \in Ends |-> 0]
  /\ line = [e \in Ends |->
               IF Side(e) = "daemon" /\ Sid(e) \in stale
               THEN <<OnWire(Package("data", Old, 1, 0), FALSE)>> ELSE <<>>]
  /\ buf = [e \in Ends |-> <<>>]
  /\ sent = [e \in Ends |-> 0]
  /\ delivered = [e \in Ends |-> <<>>]
  /\ broken = {}
  /\ resetIO = {}

\* RequestSendPackage once the slot is taken: a key already listed is dropped.
Add(o, p) == IF \E i \in DOMAIN o : SameKey(o[i], p) THEN o
             ELSE Append(o, Queued(p))

\* ClearUARTOutMap: everything of session s goes, and its slot with data.
Clear(o, s) == Kept(o, {i \in DOMAIN o : o[i].s # s})

\* Mutant of ClearSlots: ClearUARTOutMap keeps the slots.
ClearSlotsKept(o, sl, s) == sl
ClearSlots(o, sl, s) ==
  IF \E i \in DOMAIN o : o[i].s = s /\ ~Response(o[i]) THEN sl \ {s} ELSE sl

\* The packages of s whose clearing or acknowledgement calls slots.Free.
Holders(o, s) == {i \in DOMAIN o : o[i].s = s /\ ~Response(o[i])}

\* Mutant of Notify: notify_one is forgotten.
NotifyNobody(b, K) == asleep' = asleep

\* slots.Free for each package in K: notify_one wakes any one of the threads
\* that sleep on the base's only condition variable, whatever slot it waits
\* for; one that finds its own taken may be asleep again at the next call.
Notify(b, K) ==
  LET here == {e \in asleep : Base(e) = b}
  IN  \E W \in SUBSET here :
        /\ Cardinality(W) <= Cardinality(K)
        /\ W = {} => K = {} \/ here = {}
        /\ asleep' = asleep \ W

\* AdminSession(OP_QUERY): the session is in the map until it is gone.
Found(b, s) == s \in Sessions /\ alive[EndOf(b, s)] # "gone"

(***************************************************************************)
(* The work thread: SendUARTData.                                          *)
(***************************************************************************)
\* Send refuses a dead session; the index is in the head before the slot is
\* taken, and a package of the read thread may take the next one meanwhile.
StartMessage(e) ==
  /\ pc[e] = "idle" /\ queue[e] # <<>> /\ alive[e] = "live"
  /\ pc' = [pc EXCEPT ![e] = "slot"]
  /\ todo' = [todo EXCEPT ![e] = Head(queue[e])]
  /\ queue' = [queue EXCEPT ![e] = Tail(@)]
  /\ index' = [index EXCEPT ![e] = @ + 1]
  /\ head' = [head EXCEPT ![e] = index[e] + 1]
  /\ UNCHANGED <<out, slots, asleep, transfer, alive, open, dispatched, line, buf,
                 history, resetIO, stale, noise, chances>>

\* slots.Wait: the slot is taken when it is free, and slept for when it is
\* not.  A sleeper looks again only when it has been woken.
TakeSlot(e) ==
  /\ pc[e] = "slot" /\ e \notin asleep /\ Sid(e) \notin slots[Base(e)]
  /\ slots' = [slots EXCEPT ![Base(e)] = @ \cup {Sid(e)}]
  /\ pc' = [pc EXCEPT ![e] = "add"]
  /\ UNCHANGED <<out, asleep, transfer, alive, open, todo, head, queue, index,
                 dispatched, line, buf, history, resetIO, stale, noise, chances>>

Sleep(e) ==
  /\ pc[e] = "slot" /\ e \notin asleep /\ Sid(e) \in slots[Base(e)]
  /\ asleep' = asleep \cup {e}
  /\ UNCHANGED <<out, slots, transfer, alive, open, worker, index, dispatched,
                 line, buf, history, resetIO, stale, noise, chances>>

\* RequestSendPackage under mapOutPkgsMutex, then the loop of SendUARTData.
AddPackage(e) ==
  /\ pc[e] = "add"
  /\ out' = [out EXCEPT ![Base(e)] =
               Add(@, Package("data", Sid(e), head[e], sent[e] + 1))]
  /\ requested' = requested \cup {Base(e)}
  /\ sent' = [sent EXCEPT ![e] = @ + 1]
  /\ todo' = [todo EXCEPT ![e] = @ - 1]
  /\ IF todo[e] > 1
     THEN /\ pc' = [pc EXCEPT ![e] = "slot"]
          /\ index' = [index EXCEPT ![e] = @ + 1]
          /\ head' = [head EXCEPT ![e] = index[e] + 1]
     ELSE /\ pc' = [pc EXCEPT ![e] = "idle"]
          /\ UNCHANGED <<index, head>>
  /\ UNCHANGED <<slots, asleep, armed, alive, open, queue, dispatched, line, buf,
                 delivered, broken, resetIO, stale, noise, chances>>

(***************************************************************************)
(* The send thread.  It wakes on a request or when a second has passed     *)
(* since the last package it sent (TransferStateMachine::Wait), and goes   *)
(* through outPkgs once.  X: the packages that have waited for a second;   *)
(* they stay "late".                                                       *)
(***************************************************************************)
\* A package may go when no earlier one of its session is still listed.
Sendable(o, i) ==
  /\ o[i].status = "send"
  /\ Response(o[i]) \/ \A j \in 1 .. i - 1 : Response(o[j]) \/ o[j].s # o[i].s

Waiting(o) == {i \in DOMAIN o : o[i].status \in {"wait", "late"}}
Late(o) == {i \in DOMAIN o : o[i].status = "late"}

\* SendUARTRaw: only a daemon answers without a session; a closed port fails.
CanWrite(b, p) == \/ b # "host" /\ (Response(p) \/ Found(b, p.s))
                  \/ b = "host" /\ Found(b, p.s) /\ p.s \in open

\* Where the loop breaks off: a package to be sent again, or one that fails.
Breaks(b, o, X, i) == i \in X \/ (Sendable(o, i) /\ ~CanWrite(b, o[i]))
BreaksAt(b, o, X) ==
  {i \in DOMAIN o : Breaks(b, o, X, i) /\ \A j \in 1 .. i - 1 : ~Breaks(b, o, X, j)}

\* What is written before that.
Goes(b, o, X) ==
  {i \in DOMAIN o : Sendable(o, i) /\ \A j \in 1 .. i : ~Breaks(b, o, X, j)}

\* What is sent again, and the sessions of what is not.
Again(o, K) == {i \in K : o[i].status # "send" /\ o[i].retry > 0}
Failed(b, o, K) == {o[i].s : i \in {k \in K \ Again(o, K) : Found(b, o[k].s)}}

\* The packages after the loop: those that were written begin to wait.
Marked(o, goes, again, X) ==
  [i \in DOMAIN o |->
     IF i \in goes
     THEN [o[i] EXCEPT !.status = "wait"]
     ELSE IF i \in again
     THEN [o[i] EXCEPT !.status = "send", !.retry = @ - 1]
     ELSE IF i \in X THEN [o[i] EXCEPT !.status = "late"]
     ELSE o[i]]

\* OnTransferError: the session is freed on the main thread, its port closed
\* and its packages dropped.
TransferError(b, o, failed) ==
  LET s == CHOOSE x \in failed : TRUE
  IN  IF failed = {}
      THEN /\ out' = [out EXCEPT ![b] = o]
           /\ UNCHANGED <<slots, asleep, alive, open>>
      ELSE /\ out' = [out EXCEPT ![b] = Clear(o, s)]
           /\ Notify(b, Holders(o, s))
           /\ slots' = [slots EXCEPT ![b] = ClearSlots(o, @, s)]
           /\ alive' = [alive EXCEPT ![EndOf(b, s)] =
                          IF @ = "live" THEN "dead" ELSE @]
           /\ open' = IF b = "host" THEN open \ {s} ELSE open

\* Wait drops the timer when it runs out, Sent starts it again.
WaitOver(b) == IF b \in requested THEN armed ELSE armed \ {b}

\* Mutant of TimerAfter: Sent is forgotten.
TimerAfterForgets(b, data) == WaitOver(b)
TimerAfter(b, data) == IF data # {} THEN armed \cup {b} ELSE WaitOver(b)

WriteUartDev(e, ps) ==
  line[e] \o [i \in DOMAIN ps |-> OnWire(ps[i], FALSE)]

\* Answers leave the list when they are written.
SendPkgInUARTOutMap(b, X) ==
  LET o == out[b]
      K == BreaksAt(b, o, X)
      goes == Goes(b, o, X)
      stay == {i \in DOMAIN o : i \in goes => ~Response(o[i])}
  IN  /\ TransferError(b, Kept(Marked(o, goes, Again(o, K), X), stay), Failed(b, o, K))
      /\ line' = [e \in Ends |->
                    IF Base(e) = b
                    THEN WriteUartDev(e, Kept(o, {i \in goes : o[i].s = Sid(e)}))
                    ELSE line[e]]
      /\ requested' = IF Again(o, K) \cup Failed(b, o, K) # {} THEN requested \cup {b}
                      ELSE requested \ {b}
      /\ armed' = TimerAfter(b, {i \in goes : ~Response(o[i])})

SendPass(b) ==
  /\ \/ b \in requested /\ \E X \in SUBSET Waiting(out[b]) :
                             SendPkgInUARTOutMap(b, X \cup Late(out[b]))
     \/ b \in armed \ requested /\ SendPkgInUARTOutMap(b, Waiting(out[b]))
  /\ UNCHANGED <<worker, index, dispatched, buf, history, resetIO, stale, noise,
                 chances>>

(***************************************************************************)
(* The read thread.  One read takes what has come; PackageProcess goes     *)
(* through it package by package.                                          *)
(***************************************************************************)
Reads(e) == Side(e) = "daemon" \/ (alive[e] # "gone" /\ Sid(e) \in open)

ReadUartDev(e) ==
  /\ Reads(e) /\ buf[e] = <<>>
  /\ \E n \in DOMAIN line[Peer(e)] :
       /\ buf' = [buf EXCEPT ![e] = SubSeq(line[Peer(e)], 1, n)]
       /\ line' = [line EXCEPT ![Peer(e)] = SubSeq(@, n + 1, Len(@))]
  /\ UNCHANGED <<out, slots, asleep, transfer, alive, open, worker, index, dispatched,
                 history, resetIO, stale, noise, chances>>

\* The port is unplugged or was closed: every read fails.
ReadFails(e) ==
  /\ Side(e) = "host" /\ alive[e] # "gone" /\ buf[e] = <<>>
  /\ TransferError("host", out["host"], {Sid(e)})
  /\ requested' = requested \cup {"host"}
  /\ UNCHANGED <<armed, worker, index, dispatched, line, buf, history, resetIO,
                 stale, noise, chances>>

\* What came is at the head of the buffer.
Comes(e, kind) == /\ buf[e] # <<>> /\ ~Head(buf[e]).bad
                  /\ Head(buf[e]).kind = kind
                  /\ buf' = [buf EXCEPT ![e] = Tail(@)]

\* Validation fails: the whole buffer is dropped.
Damaged(e) ==
  /\ buf[e] # <<>> /\ Head(buf[e]).bad
  /\ buf' = [buf EXCEPT ![e] = <<>>]
  /\ UNCHANGED <<out, slots, asleep, transfer, alive, open, worker, index, dispatched,
                 line, history, resetIO, stale, noise, chances>>

\* ProcessResponsePackage: the package is done with and its slot free.
Acknowledged(e) ==
  /\ Comes(e, "ack")
  /\ LET b == Base(e)
         Answers(p) == ~Response(p) /\ p.s = Head(buf[e]).s
                                    /\ p.idx = Head(buf[e]).idx
     IN  /\ out' = [out EXCEPT ![b] = Kept(@, {i \in DOMAIN @ : ~Answers(@[i])})]
         /\ slots' = [slots EXCEPT ![b] =
                        IF \E i \in DOMAIN out[b] : Answers(out[b][i])
                        THEN @ \ {Head(buf[e]).s} ELSE @]
         /\ Notify(b, {i \in DOMAIN out[b] : Answers(out[b][i])})
         /\ requested' = requested \cup {b}
  /\ UNCHANGED <<armed, alive, open, worker, index, dispatched, line, history,
                 resetIO, stale, noise, chances>>

\* ResponseUartTrans: the answer to the package at the head of the buffer.
AddAck(e, o) == Add(o, Package("ack", Head(buf[e]).s, Head(buf[e]).idx, 0))
AddFree(e, o) == Add(o, Package("free", Sid(e), index[e] + 1, 0))

\* The other side asks for the session's end: Restartession, then the answer.
Freed(e) ==
  /\ Comes(e, "free")
  /\ LET b == Base(e)
         o == out[b]
         s == Sid(e)
     IN  /\ out' = [out EXCEPT ![b] =
                      AddAck(e, IF Found(b, s) THEN Clear(o, s) ELSE o)]
         /\ slots' = [slots EXCEPT ![b] =
                        IF Found(b, s) THEN ClearSlots(o, @, s) ELSE @]
         /\ Notify(b, IF Found(b, s) THEN Holders(o, s) ELSE {})
         /\ alive' = [alive EXCEPT ![e] = IF @ = "live" THEN "dead" ELSE @]
         /\ open' = IF b = "host" THEN open \ {s} ELSE open
         /\ requested' = requested \cup {b}
  /\ UNCHANGED <<armed, worker, index, dispatched, line, history, resetIO,
                 stale, noise, chances>>

\* A package that was passed on before is answered once more.
Duplicate(e) ==
  /\ Comes(e, "data")
  /\ alive[e] = "gone" \/ dispatched[e] = Head(buf[e]).idx
  /\ out' = [out EXCEPT ![Base(e)] = AddAck(e, @)]
  /\ requested' = requested \cup {Base(e)}
  /\ UNCHANGED <<slots, asleep, armed, alive, open, worker, index, dispatched, line,
                 history, resetIO, stale, noise, chances>>

\* A new package: it counts as dispatched before it is.
New(e) == /\ Comes(e, "data")
          /\ alive[e] # "gone" /\ dispatched[e] # Head(buf[e]).idx
          /\ dispatched' = [dispatched EXCEPT ![e] = Head(buf[e]).idx]
          /\ requested' = requested \cup {Base(e)}

\* Mutant of Dispatched: only what could be passed on counts as dispatched.
DispatchedUnmarked(e) ==
  /\ Comes(e, "data")
  /\ alive[e] # "gone" /\ Head(buf[e]).s = Sid(e)
  /\ UNCHANGED dispatched
  /\ requested' = requested \cup {Base(e)}
  /\ out' = [out EXCEPT ![Base(e)] = AddAck(e, @)]
  /\ delivered' = [delivered EXCEPT ![e] = Append(@, Head(buf[e]).n)]
  /\ UNCHANGED <<slots, asleep, armed, alive, open, worker, index, line, sent, broken,
                 resetIO, stale, noise, chances>>
Dispatched(e) ==
  /\ New(e) /\ Head(buf[e]).s = Sid(e)
  /\ out' = [out EXCEPT ![Base(e)] = AddAck(e, @)]
  /\ delivered' = [delivered EXCEPT ![e] = Append(@, Head(buf[e]).n)]
  /\ UNCHANGED <<slots, asleep, armed, alive, open, worker, index, line, sent, broken,
                 resetIO, stale, noise, chances>>

\* The work thread takes nothing for three seconds: the other side is asked
\* to end the session.
DispatchFails(e) ==
  /\ New(e) /\ Head(buf[e]).s = Sid(e)
  /\ pc[e] # "idle"
  /\ index' = [index EXCEPT ![e] = @ + 1]
  /\ out' = [out EXCEPT ![Base(e)] = AddFree(e, AddAck(e, @))]
  /\ broken' = broken \cup {e}
  /\ UNCHANGED <<slots, asleep, armed, alive, open, worker, line, sent, delivered,
                 resetIO, stale, noise, chances>>

\* A package of another session: a reset is asked for once, and its dispatch
\* fails.
Foreign(e) ==
  /\ New(e) /\ Head(buf[e]).s # Sid(e)
  /\ LET acked == AddAck(e, out[Base(e)])
         Reset == Package("reset", Head(buf[e]).s, 0, 0)
     IN  IF Sid(e) \in resetIO
         THEN /\ out' = [out EXCEPT ![Base(e)] = acked]
              /\ UNCHANGED <<index, broken>>
         ELSE /\ index' = [index EXCEPT ![e] = @ + 1]
              /\ out' = [out EXCEPT ![Base(e)] = AddFree(e, Add(acked, Reset))]
              /\ broken' = broken \cup {e}
  /\ resetIO' = resetIO \cup {Sid(e)}
  /\ UNCHANGED <<slots, asleep, armed, alive, open, worker, line, sent, delivered,
                 stale, noise, chances>>

(***************************************************************************)
(* Sessions end: the work thread finds nonsense in the stream, or the user *)
(* disconnects; once it has finished, the read thread is joined and the    *)
(* session's packages are dropped (FreeSessionContinue, StopSession).      *)
(***************************************************************************)
NotUnderstood(e) ==
  /\ e \in broken /\ alive[e] = "live" /\ pc[e] = "idle"
  /\ index' = [index EXCEPT ![e] = @ + 1]
  /\ out' = [out EXCEPT ![Base(e)] = AddFree(e, @)]
  /\ requested' = requested \cup {Base(e)}
  /\ alive' = [alive EXCEPT ![e] = "dead"]
  /\ UNCHANGED <<slots, asleep, armed, open, worker, dispatched, line, buf, history,
                 resetIO, stale, noise, chances>>

Disconnect(s) ==
  /\ alive[<<"host", s>>] = "live"
  /\ alive' = [alive EXCEPT ![<<"host", s>>] = "dead"]
  /\ UNCHANGED <<out, slots, asleep, transfer, open, worker, index, dispatched, line,
                 buf, history, resetIO, stale, noise, chances>>

FreeSessionContinue(e) ==
  /\ alive[e] = "dead" /\ pc[e] = "idle" /\ buf[e] = <<>>
  /\ alive' = [alive EXCEPT ![e] = "gone"]
  /\ out' = [out EXCEPT ![Base(e)] = Clear(@, Sid(e))]
  /\ slots' = [slots EXCEPT ![Base(e)] = ClearSlots(out[Base(e)], @, Sid(e))]
  /\ Notify(Base(e), Holders(out[Base(e)], Sid(e)))
  /\ requested' = requested \cup {Base(e)}
  /\ UNCHANGED <<armed, open, worker, index, dispatched, line, buf, history,
                 resetIO, stale, noise, chances>>

\* The line loses a package or damages one.
Noise(e) ==
  /\ noise > 0
  /\ \E i \in DOMAIN line[e] :
       \/ line' = [line EXCEPT ![e] = Kept(@, DOMAIN @ \ {i})]
       \/ ~line[e][i].bad /\ line' = [line EXCEPT ![e][i].bad = TRUE]
  /\ noise' = noise - 1
  /\ UNCHANGED <<out, slots, asleep, transfer, alive, open, worker, index, dispatched,
                 buf, history, resetIO, stale, chances>>

Work(e) == StartMessage(e) \/ TakeSlot(e) \/ Sleep(e) \/ AddPackage(e)
Process(e) == \/ Damaged(e) \/ Acknowledged(e) \/ Freed(e) \/ Duplicate(e)
              \/ Dispatched(e) \/ DispatchFails(e) \/ Foreign(e)

Next == \/ \E b \in Bases : SendPass(b)
        \/ \E e \in Ends : \/ Work(e) \/ ReadUartDev(e) \/ ReadFails(e)
                           \/ Process(e) \/ NotUnderstood(e)
                           \/ FreeSessionContinue(e) \/ Noise(e)
        \/ \E s \in Sessions : Disconnect(s)

\* Every thread runs; nobody need disconnect and no port need fail, but once
\* a port is closed its reader's reads fail.
Fairness ==
  /\ \A b \in Bases : WF_vars(SendPass(b))
  /\ \A e \in Ends : WF_vars(Work(e)) /\ WF_vars(ReadUartDev(e) \/ Process(e))
  /\ WF_vars(\E e \in Ends : FreeSessionContinue(e))

Spec == Init /\ [][Next]_vars /\ Fairness

-----------------------------------------------------------------------------
Kinds == {"data", "ack", "free", "reset"}
Ids == Sessions \cup {Old}

\* Packages in a list, and on a line or in a buffer.
QPkg == [kind : Kinds, s : Ids, idx : Nat, n : Nat,
         status : {"send", "wait", "late"}, retry : Nat]
WPkg == [kind : Kinds, s : Ids, idx : Nat, n : Nat, bad : BOOLEAN]

\* The variables keep their types.
TypeOK ==
  /\ out \in [Bases -> Seq(QPkg)]
  /\ line \in [Ends -> Seq(WPkg)] /\ buf \in [Ends -> Seq(WPkg)]
  /\ slots \in [Bases -> SUBSET Sessions] /\ asleep \subseteq Ends
  /\ requested \subseteq Bases /\ armed \subseteq Bases
  /\ alive \in [Ends -> {"live", "dead", "gone"}]
  /\ open \subseteq Sessions
  /\ pc \in [Ends -> {"idle", "slot", "add"}]
  /\ todo \in [Ends -> Nat] /\ head \in [Ends -> Nat] /\ queue \in [Ends -> Seq(Nat \ {0})]
  /\ \A e \in Ends : todo[e] > 0 <=> pc[e] # "idle"
  /\ index \in [Ends -> Nat] /\ dispatched \in [Ends -> Nat]
  /\ sent \in [Ends -> Nat] /\ delivered \in [Ends -> Seq(Nat)]
  /\ broken \subseteq Ends /\ resetIO \subseteq Sessions /\ stale \subseteq Sessions
  /\ noise \in Nat /\ chances \in Nat

\* A slot is never lost: whoever holds it is about to list a package, or has
\* one listed whose acknowledgement, error or clearing will free it.  The
\* slot is taken, used and freed under different locks by three threads.
SlotIsHeld ==
  \A e \in Ends :
    Sid(e) \in slots[Base(e)] =>
      \/ pc[e] = "add"
      \/ \E i \in DOMAIN out[Base(e)] :
           /\ out[Base(e)][i].s = Sid(e) /\ ~Response(out[Base(e)][i])

Stream == INSTANCE ReliableStream WITH Other <- Peer,
            ended <- {e \in Ends : alive[e] # "live"},
            Lingering <- {e \in Ends : Side(e) = "daemon"}

\* The link keeps its promise: in order, at most once, without gaps, over a
\* line that loses and damages packages (uart.cpp:616-658).
StreamSafe == Stream!Safe

\* Every package for which the slot was taken arrives, or its session ends.
\* Taken for granted is that no daemon still serves an earlier host.
Delivers == []<>(stale = {} => Stream!AllIsThere)

\* A work thread that waits for its slot comes by it, although notify_one may
\* wake another session's thread in its place, which finds its own slot taken
\* and sleeps on (uart.h:325-337).
SlotComes == \A e \in Ends : []<>(stale = {} => pc[e] # "slot")

\* A session that was given up is freed: its work thread is not left in
\* slots.Wait, which the main thread would wait for.
DeadAreFreed == []<>(\A e \in Ends : alive[e] # "dead")

\* "response package always send nowait noorder" (uart.cpp:730): an answer
\* does not stay in the list.
AnswersGo ==
  \A b \in Bases : \A s \in Ids : \A n \in 1 .. 2 :
    LET Listed == \E i \in DOMAIN out[b] : /\ Response(out[b][i])
                                           /\ out[b][i].s = s
                                           /\ out[b][i].idx = n
    IN  Listed ~> ~Listed
=============================================================================
