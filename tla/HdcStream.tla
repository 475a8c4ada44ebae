----------------------------- MODULE HdcStream -----------------------------
(***************************************************************************)
(* One hdc session over TCP, as the server sees it: the packets the daemon *)
(* sends arrive cut and merged as TCP likes (ReadStream, FetchIOBuf,       *)
(* OnRead), the handshake they carry (ServerSessionHandshake) may switch   *)
(* the connection to TLS in the middle of it (ServerSSLHandshake, Decrypt, *)
(* Encrypt), and the session's work thread and the main thread both send   *)
(* (Send, WriteUvTcpFd).  A packet is cut into units: the first stands for *)
(* its PayloadHead, the others for the rest; so is a TLS record.           *)
(* The daemon is not in the repository: it answers each message of the     *)
(* server with those a scenario gives.                                     *)
(***************************************************************************)
EXTENDS Naturals, Sequences

CONSTANTS Scenarios,  \* see ScenarioType
          BUF_SIZE_DEFAULT16,  \* units of a full TLS record
          bufSize,    \* units of ioBuf
          sizeWanted, \* the most units libuv reads at a time
          MaxBeats    \* heartbeats sent

Least(a, b) == IF a < b THEN a ELSE b

ASSUME SizesAssumption ==
  /\ BUF_SIZE_DEFAULT16 \in Nat \ {0} /\ bufSize \in Nat /\ sizeWanted \in Nat \ {0}
  /\ MaxBeats \in Nat

Threads == {"child", "main"}

\* SessionHandShake.authType of what the server sends, and its other packets.
HostKinds == {"none", "publickey", "signature", "clientHello", "finished",
              "alert", "command", "heartbeat"}
\* What the daemon sends; a bad one is what the server cannot use.
DaemonKinds == {"AUTH_PUBLICKEY", "AUTH_SIGNATURE", "PSK", "badPSK", "serverHello",
                "badHello", "tickets", "AUTH_OK", "HANDSHAKE_FAILED", "data"}

\* answers: what the daemon sends after each message; "close" ends the
\* connection.  keys: the files of the server's key pair, as a generation
\* that was killed may have left them.  beats: the daemon supports
\* heartbeats.  commands: how many the clients give.
KeyFiles == [public : {"none", "empty", "whole"}, private : {"none", "empty", "whole"}]
ScenarioType ==
  [answers : [HostKinds -> Seq(DaemonKinds \cup {"close"})], keys : KeyFiles, beats : BOOLEAN,
   commands : Nat]

ASSUME ScenariosAssumption == Scenarios \subseteq ScenarioType

VARIABLES scenario,
          keyFiles,    \* hdckey and hdckey.pub
          handshakeOK, sslHandshake, isDead,  \* of HdcSession
          tls,         \* classSSL: "none", "started", "finished"
          support,     \* heartbeat.supportHeartbeat
          timer,       \* heartbeatTimer runs
          beats,       \* heartbeats sent
          wire,        \* units on their way to the server
          closed,      \* the daemon has closed the connection
          ioBuf,       \* units 1 .. availTailIndex
          inBIO,       \* TLS units not decrypted yet, SSL's own buffer included
          fault,       \* why ReadStream ended the session
          pc,          \* [Threads -> where the thread is]
          out,         \* [Threads -> the message it sends]
          writer,      \* who holds writeTCPMutex, or "nobody"
          sealed,      \* TLS records the server has made
          toDaemon,    \* messages on their way to the daemon
          daemonTLS,   \* the daemon has switched
          opened,      \* records the daemon has read
          confused,    \* the daemon got a message it cannot read
          answers,     \* what the daemon is about to send
          sent,        \* kinds of the packets the daemon has sent
          got          \* numbers of those the server has handled

session == <<handshakeOK, sslHandshake, isDead, tls, support>>
reading == <<ioBuf, inBIO, fault, got>>
sending == <<pc, out, writer, sealed>>
daemon == <<daemonTLS, opened, confused, answers, sent, closed>>
vars == <<scenario, keyFiles, session, timer, beats, wire, reading, sending, toDaemon, daemon>>

NoMessage == [kind |-> "none", tls |-> FALSE, number |-> 0, room |-> FALSE]
MessageType == [kind : HostKinds, tls : BOOLEAN, number : Nat, room : BOOLEAN]
UnitType == [packet : Nat, at : Nat, tls : BOOLEAN, last : BOOLEAN]

PacketSize(kind) == IF kind = "data" THEN 3 ELSE 2

(***************************************************************************)
(* Send and WriteUvTcpFd: the buffer is allocated, with room for TLS if    *)
(* sslHandshake is set (Send); then, under writeTCPMutex, it is encrypted, *)
(* if sslHandshake is set, and written (WriteUvTcpFd).                     *)
(***************************************************************************)
\* Thread t begins to send; afterwards it goes on at next.
SendFrom(t, kind) ==
  /\ pc' = [pc EXCEPT ![t] = "send"]
  /\ out' = [out EXCEPT ![t] = [NoMessage EXCEPT !.kind = kind]]

Send(t) ==
  /\ pc[t] = "send"
  /\ out' = [out EXCEPT ![t].room = sslHandshake]
  /\ pc' = [pc EXCEPT ![t] = "protocol"]
  /\ UNCHANGED <<scenario, keyFiles, session, timer, beats, wire, reading, writer, sealed,
                 toDaemon, daemon>>

\* The work thread answers a packet from its read callback, between two
\* packets of one read.
After(t) == IF t = "child" /\ out[t].kind \notin {"none", "heartbeat"} THEN "parse"
            ELSE "idle"

\* SendByProtocol drops what is for a dead session.
SendByProtocol(t) ==
  /\ pc[t] = "protocol"
  /\ pc' = [pc EXCEPT ![t] = IF isDead THEN After(t) ELSE "lock"]
  /\ UNCHANGED <<scenario, keyFiles, session, timer, beats, wire, reading, out, writer, sealed,
                 toDaemon, daemon>>

\* Encrypt: the number of the next record.
Encrypt == IF sslHandshake THEN sealed + 1 ELSE sealed

\* Mutant of WriteUvSslFd: the mutex is taken only for the write.
WriteUvSslFdUnlocked(t) ==
  /\ pc[t] = "lock"
  /\ writer' = writer
  /\ sealed' = Encrypt
  /\ out' = [out EXCEPT ![t].tls = sslHandshake, ![t].number = sealed']
  /\ pc' = [pc EXCEPT ![t] = "write"]
  /\ UNCHANGED <<scenario, keyFiles, session, timer, beats, wire, reading, toDaemon, daemon>>

WriteUvSslFd(t) ==
  /\ pc[t] = "lock" /\ writer = "nobody"
  /\ writer' = t
  /\ sealed' = Encrypt
  /\ out' = [out EXCEPT ![t].tls = sslHandshake, ![t].number = sealed']
  /\ pc' = [pc EXCEPT ![t] = "write"]
  /\ UNCHANGED <<scenario, keyFiles, session, timer, beats, wire, reading, toDaemon, daemon>>

WriteUvTcpFd(t) ==
  /\ pc[t] = "write"
  /\ toDaemon' = IF closed THEN toDaemon ELSE Append(toDaemon, out[t])
  /\ writer' = "nobody"
  /\ out' = [out EXCEPT ![t] = NoMessage]
  /\ pc' = [pc EXCEPT ![t] = After(t)]
  /\ UNCHANGED <<scenario, keyFiles, session, timer, beats, wire, reading, sealed, daemon>>

(***************************************************************************)
(* The handshake.                                                          *)
(***************************************************************************)
\* WorkThreadStartSession: handshake step 1.
WorkThreadStartSession ==
  /\ pc["child"] = "start"
  /\ SendFrom("child", "none")
  /\ UNCHANGED <<scenario, keyFiles, session, timer, beats, wire, reading, writer, sealed,
                 toDaemon, daemon>>

\* GenerateKeyPair: both files are written.
GenerateKeyPair == [public |-> "whole", private |-> "whole"]

Handled == [ok |-> TRUE, reply |-> "", tls |-> tls, ssl |-> sslHandshake]
Reply(kind) == [Handled EXCEPT !.reply = kind]
Refused == [Handled EXCEPT !.ok = FALSE]

\* TryLoadPublicKey: without a private key a new pair is generated.
TryLoadPublicKey == IF keyFiles.private = "none" THEN GenerateKeyPair ELSE keyFiles

\* LoadPublicKey and LoadPrivateKey: a file that is not there or not whole
\* cannot be read.
LoadPublicKey(files) == files.public = "whole"
LoadPrivateKey(files) == files.private = "whole"

\* GetPublicKeyinfo.
GetPublicKeyinfo == IF LoadPublicKey(TryLoadPublicKey) THEN Reply("publickey") ELSE Refused

\* RsaSignAndBase64.
RsaSignAndBase64 == IF LoadPrivateKey(keyFiles) THEN Reply("signature") ELSE Refused

\* ServerSessionSSLInit and RsaPrikeyDecryptPsk: the key the daemon has made
\* is decrypted and TLS set up.
ServerSessionSSLInit(kind) == kind = "PSK" /\ LoadPrivateKey(keyFiles)

\* PerformHandshake with what the daemon has sent last: the state of TLS
\* afterwards and what there is to send.  One that fails leaves an alert.
PerformHandshake(kind) ==
  CASE tls = "none" -> [Reply("clientHello") EXCEPT !.tls = "started"]
    [] tls = "started" /\ kind = "serverHello" -> [Reply("finished") EXCEPT !.tls = "finished"]
    [] tls = "started" /\ kind # "serverHello" -> Reply("alert")
    [] tls = "finished" -> Handled

\* SetHandshakeLabel is called with the first message after the one that has
\* completed the handshake.
SetHandshakeLabel(after) == tls = "finished" \/ sslHandshake

ServerSSLHandshake(kind) ==
  LET after == PerformHandshake(kind)
  IN [after EXCEPT !.ssl = SetHandshakeLabel(after)]

HandServerAuth(kind) ==
  CASE kind = "AUTH_PUBLICKEY" -> GetPublicKeyinfo
    [] kind = "AUTH_SIGNATURE" -> RsaSignAndBase64
    [] kind \in {"PSK", "badPSK", "serverHello", "badHello", "tickets"} ->
         IF tls = "none" /\ ~ServerSessionSSLInit(kind) THEN Refused
         ELSE ServerSSLHandshake(kind)

\* UpdateHdiInfo and ParsePeerSupportFeatures.
UpdateHdiInfo == support' = scenario.beats

\* ReadStream ends the session.
EndSession(why) == /\ fault' = why /\ isDead' = TRUE
                   /\ pc' = [pc EXCEPT !["child"] = "idle"]

\* FetchCommand of packet n: FALSE is an error that ends the session.
FetchCommand(n, kind) ==
  \/ /\ kind = "data"
     /\ got' = Append(got, n)
     /\ UNCHANGED <<keyFiles, session, fault, pc, out>>
  \/ /\ kind = "AUTH_OK" /\ UpdateHdiInfo /\ handshakeOK' = TRUE
     /\ got' = Append(got, n)
     /\ UNCHANGED <<keyFiles, sslHandshake, isDead, tls, fault, pc, out>>
  \/ /\ kind = "HANDSHAKE_FAILED" /\ EndSession("refused")
     /\ UNCHANGED <<keyFiles, handshakeOK, sslHandshake, tls, support, out, got>>
  \/ /\ kind \notin {"data", "AUTH_OK", "HANDSHAKE_FAILED"}
     /\ LET h == HandServerAuth(kind)
        IN /\ tls' = h.tls /\ sslHandshake' = h.ssl
           /\ keyFiles' = IF kind = "AUTH_PUBLICKEY" THEN TryLoadPublicKey ELSE keyFiles
           /\ IF h.ok THEN got' = Append(got, n) /\ UNCHANGED <<fault, isDead>>
              ELSE got' = got /\ EndSession("refused") /\ out' = out
           /\ h.ok => IF h.reply # "" THEN SendFrom("child", h.reply)
                      ELSE UNCHANGED <<pc, out>>
     /\ UNCHANGED <<handshakeOK, support>>

(***************************************************************************)
(* Reading.                                                                *)
(***************************************************************************)
\* How many units a read may bring (AllocCallback).
ReadSizes == 1 .. Least(Len(wire), Least(bufSize - Len(ioBuf), sizeWanted))

\* The records that are complete at the end of the units u.
Complete(u) == LET ends == {i \in DOMAIN u : u[i].last}
               IN IF ends = {} THEN 0 ELSE CHOOSE i \in ends : \A j \in ends : j <= i

\* Decrypt and DoSSLRead: a record that is not complete makes the read end
\* with ERR_DECRYPT_WANT_READ, unless a good deal is decrypted.
WantsMore(plain, rest) == rest # <<>> /\ Len(plain) <= BUF_SIZE_DEFAULT16

Opened(units) == [i \in DOMAIN units |-> [units[i] EXCEPT !.tls = FALSE]]

\* Mutant of Decrypt: SSL_read is called once.
DecryptOnce(units) ==
  LET bio == inBIO \o units
      ends == {i \in DOMAIN bio : bio[i].last}
      n == IF ends = {} THEN 0 ELSE CHOOSE i \in ends : \A j \in ends : i <= j
      plain == ioBuf \o Opened(SubSeq(bio, 1, n))
      rest == SubSeq(bio, n + 1, Len(bio))
  IN IF \E i \in DOMAIN bio : ~bio[i].tls
     THEN EndSession("parse") /\ UNCHANGED <<ioBuf, inBIO>>
     ELSE /\ ioBuf' = plain /\ inBIO' = rest
          /\ pc' = [pc EXCEPT !["child"] = IF n = 0 THEN "idle" ELSE "parse"]
          /\ UNCHANGED <<fault, isDead>>

\* Decrypt and its use in FetchIOBuf(encrypt): every record that is complete
\* is decrypted, behind what ioBuf holds.
Decrypt(units) ==
  LET bio == inBIO \o units
      n == Complete(bio)
      plain == ioBuf \o Opened(SubSeq(bio, 1, n))
      rest == SubSeq(bio, n + 1, Len(bio))
  IN IF \E i \in DOMAIN bio : ~bio[i].tls
     THEN EndSession("parse") /\ UNCHANGED <<ioBuf, inBIO>>
     ELSE /\ ioBuf' = plain /\ inBIO' = rest
          /\ pc' = [pc EXCEPT !["child"] = IF WantsMore(plain, rest) THEN "idle" ELSE "parse"]
          /\ UNCHANGED <<fault, isDead>>

\* FetchIOBuf without encryption, up to its loop.
Receive(units) == /\ ioBuf' = ioBuf \o units
                  /\ pc' = [pc EXCEPT !["child"] = "parse"]
                  /\ UNCHANGED <<inBIO, fault, isDead>>

ReadStream ==
  /\ pc["child"] = "idle" /\ ~isDead
  /\ \E k \in ReadSizes :
       /\ wire' = SubSeq(wire, k + 1, Len(wire))
       /\ IF sslHandshake THEN Decrypt(SubSeq(wire, 1, k)) ELSE Receive(SubSeq(wire, 1, k))
  /\ UNCHANGED <<scenario, keyFiles, handshakeOK, sslHandshake, tls, support, timer, beats,
                 got, out, writer, sealed, toDaemon, daemon>>

\* The connection has ended.
ReadStreamEnds ==
  /\ pc["child"] = "idle" /\ ~isDead /\ closed /\ wire = <<>>
  /\ EndSession("closed")
  /\ UNCHANGED <<scenario, keyFiles, handshakeOK, sslHandshake, tls, support, timer, beats,
                 wire, ioBuf, inBIO, got, out, writer, sealed, toDaemon, daemon>>

\* OnRead: the packet that begins here has arrived as a whole.
PacketIsHere(buf) == Len(buf) >= PacketSize(sent[buf[1].packet])

\* Mutant of MovedUp: what is behind the first packet is not kept.
MovedUpLost(buf, packet) == <<>>

\* What is left in ioBuf behind a packet is moved to its beginning.
MovedUp(buf, packet) == SubSeq(buf, PacketSize(sent[packet]) + 1, Len(buf))

\* The head of a packet is here, and in the clear (PACKET_FLAG).
BeginsPacket(buf) == buf[1].at = 1 /\ ~buf[1].tls

\* The loop of FetchIOBuf and OnRead: one packet at a time.
FetchIOBuf ==
  /\ pc["child"] = "parse"
  /\ IF isDead \/ Len(ioBuf) <= 1
     THEN /\ pc' = [pc EXCEPT !["child"] = "idle"]
          /\ UNCHANGED <<keyFiles, session, ioBuf, fault, got, out>>
     ELSE IF ~BeginsPacket(ioBuf)
     THEN /\ EndSession("parse")
          /\ UNCHANGED <<keyFiles, handshakeOK, sslHandshake, tls, support, ioBuf, got, out>>
     ELSE IF ~PacketIsHere(ioBuf)
     THEN /\ pc' = [pc EXCEPT !["child"] = "idle"]
          /\ UNCHANGED <<keyFiles, session, ioBuf, fault, got, out>>
     ELSE LET packet == ioBuf[1].packet
          IN /\ ioBuf' = MovedUp(ioBuf, packet)
             /\ FetchCommand(packet, sent[packet])
  /\ UNCHANGED <<scenario, timer, beats, wire, inBIO, writer, sealed, toDaemon, daemon>>
(***************************************************************************)
(* Heartbeats, the clients' commands, and the daemon.                      *)
(***************************************************************************)
SendHeartbeatMsg ==
  /\ pc["child"] = "idle" /\ timer
  /\ \/ /\ ~support
        /\ timer' = ~handshakeOK
        /\ UNCHANGED <<beats, pc, out>>
     \/ /\ support /\ beats < MaxBeats
        /\ beats' = beats + 1 /\ timer' = timer
        /\ SendFrom("child", "heartbeat")
  /\ UNCHANGED <<scenario, keyFiles, session, wire, reading, writer, sealed, toDaemon, daemon>>

\* FindAliveSessionFromDaemonMap.
FindAliveSession == handshakeOK /\ ~isDead

\* A client's command is sent to the daemon by the main thread.
DoCommandRemote ==
  /\ pc["main"] = "idle" /\ scenario.commands > 0 /\ FindAliveSession
  /\ scenario' = [scenario EXCEPT !.commands = @ - 1]
  /\ SendFrom("main", "command")
  /\ UNCHANGED <<keyFiles, session, timer, beats, wire, reading, writer, sealed, toDaemon,
                 daemon>>

\* The daemon reads a message: one in the wrong mode or a record out of
\* order is beyond it.
DaemonReads ==
  /\ toDaemon # <<>> /\ ~closed
  /\ LET m == Head(toDaemon)
     IN IF m.tls = daemonTLS /\ (m.tls => m.number = opened + 1)
        THEN /\ answers' = answers \o scenario.answers[m.kind]
             /\ opened' = m.number
             /\ UNCHANGED <<confused, closed>>
        ELSE /\ confused' = TRUE /\ closed' = TRUE
             /\ UNCHANGED <<answers, opened>>
  /\ toDaemon' = Tail(toDaemon)
  /\ UNCHANGED <<scenario, keyFiles, session, timer, beats, wire, reading, sending,
                 daemonTLS, sent>>

\* The units of packet n; sealed ones form records.
Units(n, kind, tls0) ==
  [i \in 1 .. PacketSize(kind) |->
     [packet |-> n, at |-> i, tls |-> tls0,
      last |-> tls0 /\ (i % BUF_SIZE_DEFAULT16 = 0 \/ i = PacketSize(kind))]]

\* The daemon sends a packet or closes the connection; after the tickets,
\* with which its handshake ends, it goes on in TLS.
DaemonSends ==
  /\ answers # <<>> /\ ~closed
  /\ LET kind == Head(answers)
     IN IF kind = "close"
        THEN closed' = TRUE /\ UNCHANGED <<wire, sent, daemonTLS>>
        ELSE /\ wire' = wire \o Units(Len(sent) + 1, kind, daemonTLS)
             /\ sent' = Append(sent, kind)
             /\ daemonTLS' = (daemonTLS \/ kind = "tickets")
             /\ closed' = closed
  /\ answers' = Tail(answers)
  /\ UNCHANGED <<scenario, keyFiles, session, timer, beats, reading, sending, toDaemon,
                 opened, confused>>

-----------------------------------------------------------------------------
Init ==
  /\ scenario \in Scenarios /\ keyFiles = scenario.keys
  /\ handshakeOK = FALSE /\ sslHandshake = FALSE /\ isDead = FALSE
  /\ tls = "none" /\ support = FALSE /\ timer = TRUE /\ beats = 0
  /\ wire = <<>> /\ closed = FALSE
  /\ ioBuf = <<>> /\ inBIO = <<>> /\ fault = "none" /\ got = <<>>
  /\ pc = [t \in Threads |-> IF t = "child" THEN "start" ELSE "idle"]
  /\ out = [t \in Threads |-> NoMessage]
  /\ writer = "nobody" /\ sealed = 0 /\ toDaemon = <<>>
  /\ daemonTLS = FALSE /\ opened = 0 /\ confused = FALSE /\ answers = <<>> /\ sent = <<>>

\* What goes on by itself.
Progress ==
  \/ \E t \in Threads : Send(t) \/ SendByProtocol(t) \/ WriteUvSslFd(t) \/ WriteUvTcpFd(t)
  \/ WorkThreadStartSession
  \/ ReadStream \/ ReadStreamEnds \/ FetchIOBuf
  \/ DaemonReads \/ DaemonSends

Next == Progress \/ SendHeartbeatMsg \/ DoCommandRemote

\* Threads run, and the network and the daemon go on; clients and the timer
\* need not.
Spec == Init /\ [][Next]_vars /\ WF_vars(Progress)

-----------------------------------------------------------------------------
TypeOK ==
  /\ scenario \in ScenarioType /\ keyFiles \in KeyFiles
  /\ handshakeOK \in BOOLEAN /\ sslHandshake \in BOOLEAN /\ isDead \in BOOLEAN
  /\ tls \in {"none", "started", "finished"}
  /\ support \in BOOLEAN /\ timer \in BOOLEAN /\ beats \in 0 .. MaxBeats
  /\ wire \in Seq(UnitType) /\ ioBuf \in Seq(UnitType) /\ inBIO \in Seq(UnitType)
  /\ closed \in BOOLEAN /\ fault \in {"none", "parse", "refused", "closed"}
  /\ pc \in [Threads -> {"start", "idle", "parse", "send", "protocol", "lock", "write"}]
  /\ out \in [Threads -> MessageType]
  /\ writer \in Threads \cup {"nobody"} /\ sealed \in Nat
  /\ toDaemon \in Seq(MessageType)
  /\ daemonTLS \in BOOLEAN /\ opened \in Nat /\ confused \in BOOLEAN
  /\ answers \in Seq(DaemonKinds \cup {"close"})
  /\ sent \in Seq(DaemonKinds) /\ got \in Seq(Nat)

\* However the daemon's packets are cut and merged, in the clear or in TLS
\* records, no packet is taken for garbage: a session ends because a step of
\* the handshake was refused or the connection closed (OnRead, Decrypt).
\* The code does not keep this: see BothCanRead of MCHdcStream.
NothingIsGarbage == fault # "parse"

\* A message that is encrypted was given a buffer with room for it, although
\* the switch may come between the two looks at sslHandshake.
SealedFits == \A t \in Threads : pc[t] = "write" => (out[t].tls => out[t].room)

\* Between reads ioBuf has room for a whole record.
RoomForRecord ==
  /\ Len(ioBuf) <= bufSize
  /\ pc["child"] = "idle" => Len(ioBuf) + BUF_SIZE_DEFAULT16 <= bufSize

\* Encryption is never given a buffer without room for what TLS adds (Send
\* and WriteUvSslFd look at sslHandshake apart), nor decryption one too small
\* for a record, which the loop of Decrypt could not handle.
BuffersFit == SealedFits /\ RoomForRecord

\* The stream from the daemon to the server, as ReliableStream has it.
Stream == INSTANCE ReliableStream WITH
            Ends <- {"server", "daemon"},
            Other <- LAMBDA e : IF e = "server" THEN "daemon" ELSE "server",
            sent <- [e \in {"server", "daemon"} |-> IF e = "daemon" THEN Len(sent) ELSE 0],
            delivered <- [e \in {"server", "daemon"} |-> IF e = "server" THEN got ELSE <<>>],
            broken <- {},
            ended <- IF isDead THEN {"server"} ELSE {},
            Lingering <- {}

\* The server handles the packets of the daemon in order, each of them once
\* and none left out, through the switch as well.
StreamSafe == Stream!Safe

\* Every packet is handled or the session ends: none stays in ioBuf or in
\* TLS behind a read that has asked for more.
Delivers == Stream!Arrives
=============================================================================
