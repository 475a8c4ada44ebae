---------------------------- MODULE MCHdcStream ----------------------------
(***************************************************************************)
(* Daemons of every kind: an old one that accepts at once, one that asks   *)
(* for a signature, one that switches to TLS, and those that fail at some  *)
(* step; with data of its own, in answer to a command and on its own.      *)
(* Beside them a device on USB: a behaviour is of the one transport or of  *)
(* the other.                                                              *)
(***************************************************************************)
EXTENDS HdcStream, TLC

CONSTANTS
    s1, s2, Old, None,
    UsbSession, UsbScenarios  \* Session and Scenarios of HdcUsb

VARIABLES
    transport, \* "tcp" or "usb"
    merged,    \* a read over TCP has brought units of both modes
    sc, node, plugs, usbWire, serves, said, ignore, delayed, entry, ses, usb, cleaner,
    reader, usbReading, usbOut, cancelled, async, usbGot, sends, tries

usbVars == <<sc, node, plugs, usbWire, serves, said, ignore, delayed, entry, ses, usb, cleaner,
             reader, usbReading, usbOut, cancelled, async, usbGot, sends, tries>>

Silent == [k \in HostKinds |-> <<>>]
Auth == ("none" :> <<"AUTH_PUBLICKEY">>) @@ ("publickey" :> <<"AUTH_SIGNATURE">>)
TLSUpTo(hello) == Auth @@ ("signature" :> <<"PSK">>) @@ ("clientHello" :> <<hello>>)
Answers(f) == f @@ Silent

Keys(public, private) == [public |-> public, private |-> private]
Pair == Keys("whole", "whole")

Scenario(f, k, b, n) == [answers |-> Answers(f), keys |-> k, beats |-> b, commands |-> n]

MCScenarios ==
  {Scenario("none" :> <<"AUTH_OK", "data">>, Pair, FALSE, 1),
   Scenario(Auth @@ ("signature" :> <<"AUTH_OK">>) @@ ("command" :> <<"data", "data">>),
            Keys("empty", "none"), TRUE, 2),
   Scenario(Auth, Keys("whole", "empty"), FALSE, 0),
   Scenario("none" :> <<"HANDSHAKE_FAILED", "close">>, Pair, FALSE, 0),
   Scenario(Auth @@ ("signature" :> <<"badPSK">>), Pair, FALSE, 0),
   Scenario(TLSUpTo("badHello") @@ ("alert" :> <<"close">>), Pair, FALSE, 0),
   Scenario(TLSUpTo("serverHello") @@ ("finished" :> <<"tickets", "AUTH_OK", "data">>) @@
            ("command" :> <<"data", "data", "data">>) @@ ("heartbeat" :> <<"data">>), Pair, TRUE, 2)}

Memory(payload, reset) == [payload |-> payload, resetIO |-> reset]
Zero == {Memory(0, FALSE)}

Plugged(n, m, ss) ==
  [sessions |-> ss, old |-> FALSE, plugs |-> n, unplugs |-> m, said |-> 0, sends |-> 0, tries |-> 0,
   fails |-> TRUE, memory |-> Zero]

\* What an earlier server left; a device that comes back; one that does not open at once; a
\* session after another on a device that stays.
MCUsbSession == {s1, s2}
MCUsbScenarios ==
  {[Plugged(1, 1, {s1}) EXCEPT !.old = TRUE, !.said = 2, !.sends = 1, !.fails = FALSE,
                               !.memory = {Memory(0, FALSE), Memory(1, TRUE)}],
   Plugged(2, 1, {s1, s2}),
   [Plugged(1, 1, {s1, s2}) EXCEPT !.tries = 1],
   [Plugged(1, 0, {s1, s2}) EXCEPT !.said = 1, !.sends = 1]}

Usb == INSTANCE HdcUsb WITH
         Session <- UsbSession, Scenarios <- UsbScenarios,
         wire <- usbWire, reading <- usbReading, out <- usbOut, got <- usbGot

ASSUME UsbAssumption == Usb!ConstantsAreSound

MCInit ==
  /\ transport \in {"tcp", "usb"} /\ merged = FALSE /\ Init /\ Usb!Init
  /\ transport = "tcp" => sc = CHOOSE x \in UsbScenarios : TRUE
  /\ transport = "usb" => scenario = CHOOSE x \in Scenarios : TRUE

\* This step reads the end of what the daemon has sent in the clear and the beginning of what
\* it has sent in TLS.
MixedRead ==
  /\ Len(wire') < Len(wire)
  /\ \E i, j \in 1 .. (Len(wire) - Len(wire')) : wire[i].tls # wire[j].tls

Tcp(step) ==
  /\ transport = "tcp" /\ step /\ merged' = (merged \/ MixedRead)
  /\ UNCHANGED <<transport, usbVars>>
OnUsb(step) == transport = "usb" /\ step /\ UNCHANGED <<transport, merged, vars>>

MCNext == Tcp(Next) \/ OnUsb(Usb!Next)

MCSpec ==
  /\ MCInit /\ [][MCNext]_<<transport, merged, vars, usbVars>>
  /\ WF_<<transport, merged, vars, usbVars>>(Tcp(Progress))
  /\ WF_<<transport, merged, vars, usbVars>>(OnUsb(Usb!Loops))
  /\ WF_<<transport, merged, vars, usbVars>>(OnUsb(Usb!TimersRun))

\* Each side can read what the other sends.  The daemon gets what the two threads of the server
\* send in the mode it expects and, in TLS, record after record (WriteUvTcpFd).  The server takes
\* a packet of the daemon for garbage in one case only: the switch to TLS lies inside one read,
\* for which ReadStream looks at sslHandshake once; then the session ends (NothingIsGarbage).
BothCanRead == ~confused /\ (fault = "parse" => merged)

\* What a session on USB reads is its own, the device is never forgotten, and its handle is
\* closed only when it is idle (see HdcUsb).
UsbIsSound == Usb!UsbIsSound

\* A session on USB that is freed comes to its end (see HdcUsb).
FreedIsGone == Usb!FreedIsGone

\* These fail.
NothingStale == Usb!NothingStale
NobodyIsStranded == Usb!NobodyIsStranded
NobodyUsesTheDeleted == Usb!NobodyUsesTheDeleted
ConnectedIsListed == Usb!ConnectedIsListed
=============================================================================
