--------------------------- MODULE HdcStreamProofs ---------------------------
EXTENDS MCHdcStream, FiniteSetTheorems, SequenceTheorems, WellFoundedInduction, TLAPS

Item == [s : Usb!Ids, kind : {"head", "piece"}, n : Nat]
Part == [kind : {"head", "body", "reset"}, s : Usb!Ids \cup {None}]

Address(m) == 0..m
UsbType(m) ==
    [handle : Address(m), mount : Address(m), inShut : BOOLEAN, outShut : BOOLEAN, inDone : BOOLEAN,
     outDone : BOOLEAN, payload : Nat, began : Nat, resetIO : BOOLEAN]
SesType ==
    [stage : {"none", "pre", "clear", "run"}, dead : BOOLEAN,
     freeing : {"no", "cancel", "child", "final", "gone"}, child : {"none", "up", "started", "cleared"}]
EntryType(m) ==
    [node : Address(m), status : {"none", "READY", "CONNECTED", "OFFLINE"}, session : UsbSession \cup {None}]
OutType ==
    [parts : Seq(Part), by : {"nobody", "child", "reader"}, submitted : BOOLEAN, failed : BOOLEAN]
GotType == [s : Usb!Ids, kind : {"piece"}, n : Nat]

\* TypeOK; what a transfer has brought is what the device has sent.
Typed ==
    /\ sc \in Usb!ScenarioType
    /\ node \in Address(sc.plugs) /\ plugs \in Address(sc.plugs)
    /\ usbWire \in Seq(Item)
    /\ serves \in Usb!Ids \cup {None} /\ said \in [Usb!Ids -> 0..sc.said]
    /\ ignore \in [1..sc.plugs -> {"none", "IGNORE", "REGISTER"}]
    /\ delayed \in [1..sc.plugs -> Nat]
    /\ entry \in EntryType(sc.plugs)
    /\ ses \in [UsbSession -> SesType]
    /\ usb \in [UsbSession -> UsbType(sc.plugs)]
    /\ cleaner \in [UsbSession -> {"no", "reset", "read", "done", "failed", "over"}]
    /\ reader \in [UsbSession -> {"off", "top", "submit", "wait", "got", "reset", "resetting", "exit", "remove"}]
    /\ usbReading \in [UsbSession -> Item \cup {Usb!NoItem}]
    /\ usbOut \in [UsbSession -> OutType]
    /\ cancelled \subseteq UsbSession \X {"in", "out"} /\ async \subseteq UsbSession
    /\ usbGot \in [UsbSession -> Seq(GotType)]
    /\ sends \in [UsbSession -> 0..sc.sends] /\ tries \in 0..sc.tries

\* The reader holds a reference from its first turn to its last.
Reading(s) == reader[s] \in {"top", "submit", "wait", "got", "reset", "resetting"}

\* Who sends a block, and when a session that is taken down has nobody left who does.
TakenOf(s) ==
    /\ usbOut[s].by = "nobody" <=> usbOut[s].parts = <<>>
    /\ usbOut[s].by = "nobody" => usbOut[s] = Usb!NoBlock
    /\ usbOut[s].by = "reader" <=> reader[s] = "resetting"
    /\ usbOut[s].by = "child" => ses[s].child = "started"
    /\ ses[s].child # "none" \/ reader[s] # "off" => cleaner[s] = "over"
    /\ ses[s].freeing \in {"child", "final", "gone"} => ~Reading(s)
    /\ ses[s].freeing = "child" => ses[s].child # "none"
    /\ ~Usb!Lives(s) => usbOut[s] = Usb!NoBlock /\ ses[s].child \in {"none", "cleared"} /\ usb[s].handle = 0
    /\ ses[s].dead <=> ses[s].freeing # "no"
    /\ reader[s] = "got" <=> usbReading[s] # Usb!NoItem /\ reader[s] # "reset"
    /\ reader[s] = "reset" => usbReading[s] # Usb!NoItem

\* How far a session is before it has a device, and that it has the device alone.
HeldOf(s) ==
    /\ ses[s].stage \in {"none", "pre"} =>
          /\ usb[s].handle = 0 /\ ~ses[s].dead /\ cleaner[s] = "no"
          /\ ses[s].child = "none" /\ s \notin async
    /\ usb[s].handle <= plugs
    /\ \A t \in UsbSession : usb[s].handle = usb[t].handle /\ usb[s].handle # 0 => s = t
Attached == node \in {0, plugs} /\ (node = 0 => usbWire = <<>>)

Marks ==
    /\ \A n \in 1..sc.plugs : ignore[n] = "IGNORE" => delayed[n] > 0
    /\ \A n \in 1..sc.plugs : n > plugs => ignore[n] = "none"
    /\ node # 0 /\ ignore[node] = "REGISTER" =>
          /\ entry.node = node
          /\ \/ delayed[node] > 0
             \/ \E s \in UsbSession : ses[s].stage # "none" /\ ses[s].freeing # "gone"

\* Nothing is sent for a session before it has sent something itself.
FreshOf(s) ==
    /\ ses[s].child = "none" =>
          /\ serves # s /\ said[s] = 0 /\ usbGot[s] = <<>> /\ usb[s].payload = usb[s].began
          /\ \A i \in DOMAIN usbWire : usbWire[i].s # s
          /\ reader[s] = "off"
    /\ \A i \in DOMAIN usbOut[s].parts : usbOut[s].parts[i].kind # "reset" => usbOut[s].parts[i].s = s

IsPiece(x, s) == x.kind = "piece" /\ x.s = s
IsHead(x, s) == x.kind = "head" /\ x.s = s

\* What the reader of s is still to look at.
Coming(s) ==
    (IF reader[s] = "got" THEN <<usbReading[s]>> ELSE <<>>) \o (IF Usb!Online(s) THEN usbWire ELSE <<>>)

\* The pieces of s in c go on behind the first g, in their order and without a gap, none is
\* beyond the m-th, and each has its head: before it in c, or it is one of the p that are
\* expected.
Follows(c, s, g, p, m) ==
    /\ \A i \in DOMAIN c : IsPiece(c[i], s) =>
          /\ c[i].n > g /\ c[i].n <= m
          /\ c[i].n = g + 1 \/ \E j \in DOMAIN c : j < i /\ IsPiece(c[j], s) /\ c[j].n + 1 = c[i].n
          /\ i <= p \/ \E j \in DOMAIN c : j < i /\ IsHead(c[j], s) /\ i <= j + c[j].n
    /\ \A i, j \in DOMAIN c : i < j /\ IsPiece(c[i], s) /\ IsPiece(c[j], s) => c[i].n < c[j].n
    /\ \A j \in DOMAIN c : IsHead(c[j], s) =>
          \A k \in DOMAIN c : j < k /\ k <= j + c[j].n => IsPiece(c[k], s)
    /\ \A k \in DOMAIN c : k <= p => IsPiece(c[k], s)

\* While the device is there none of the m is missing at the end.
Whole(c, s, g, p, m) ==
    /\ g = m \/ \E j \in DOMAIN c : IsPiece(c[j], s) /\ c[j].n = m
    /\ \A j \in DOMAIN c : IsHead(c[j], s) => j + c[j].n <= Len(c)
    /\ p <= Len(c)

StreamOf(s) ==
    usb[s].began = 0 =>
        /\ \A k \in DOMAIN usbGot[s] : usbGot[s][k] = Usb!Piece(s, k)
        /\ Reading(s) =>
              /\ Len(usbGot[s]) <= said[s]
              /\ Follows(Coming(s), s, Len(usbGot[s]), usb[s].payload, said[s])
              /\ Usb!Online(s) => Whole(Coming(s), s, Len(usbGot[s]), usb[s].payload, said[s])

UsbInv ==
    /\ Typed /\ Attached /\ Marks
    /\ \A s \in UsbSession : TakenOf(s) /\ HeldOf(s) /\ FreshOf(s) /\ StreamOf(s)

-----------------------------------------------------------------------------
(* What is to come.                                                          *)

\* A reading that is cut off.
LEMMA FollowsCut ==
    ASSUME NEW c \in Seq(Item), NEW d \in Seq(Item), NEW s, NEW g \in Nat, NEW p \in Nat, NEW m \in Nat,
           Len(d) <= Len(c), \A i \in 1..Len(d) : d[i] = c[i], Follows(c, s, g, p, m)
    PROVE  Follows(d, s, g, p, m)
<1>1. /\ DOMAIN d = 1..Len(d) /\ DOMAIN c = 1..Len(c) /\ Len(d) \in Nat /\ Len(c) \in Nat
      /\ \A i \in DOMAIN d : i \in DOMAIN c /\ c[i] = d[i] /\ \A j \in DOMAIN c : j < i => j \in DOMAIN d
  OBVIOUS
<1>2. \A i \in DOMAIN d : IsPiece(d[i], s) =>
          /\ d[i].n > g /\ d[i].n <= m
          /\ d[i].n = g + 1 \/ \E j \in DOMAIN d : j < i /\ IsPiece(d[j], s) /\ d[j].n + 1 = d[i].n
          /\ i <= p \/ \E j \in DOMAIN d : j < i /\ IsHead(d[j], s) /\ i <= j + d[j].n
  BY <1>1 DEF Follows
<1> QED
  BY <1>1, <1>2 DEF Follows

\* What is read is off what is to come; i - 1 is where the i-th is then.
LEMMA TailFacts ==
    ASSUME NEW c \in Seq(Item), c # <<>>
    PROVE  /\ Len(c) \in Nat \ {0} /\ DOMAIN c = 1..Len(c) /\ 1 \in DOMAIN c
           /\ Tail(c) \in Seq(Item) /\ Len(Tail(c)) = Len(c) - 1 /\ DOMAIN Tail(c) = 1..(Len(c) - 1)
           /\ \A i \in DOMAIN Tail(c) : i + 1 \in DOMAIN c /\ Tail(c)[i] = c[i + 1] /\ i \in Nat
           /\ \A i \in DOMAIN c : i \in Nat /\ (i = 1 \/ (i - 1 \in DOMAIN Tail(c) /\ Tail(c)[i - 1] = c[i]))
           /\ \A i \in DOMAIN c : c[i] \in Item /\ c[i].n \in Nat
<1> DEFINE d == Tail(c)
<1>1. /\ Len(c) \in Nat \ {0} /\ DOMAIN c = 1..Len(c) /\ 1 \in DOMAIN c
      /\ d \in Seq(Item) /\ Len(d) = Len(c) - 1 /\ DOMAIN d = 1..(Len(c) - 1)
      /\ \A i \in DOMAIN c : c[i] \in Item
  OBVIOUS
<1>2. \A i \in 1..(Len(c) - 1) : d[i] = c[i + 1]
  OBVIOUS
<1> HIDE DEF d
<1>3. \A i \in DOMAIN d : i + 1 \in DOMAIN c /\ d[i] = c[i + 1] /\ i \in Nat
  BY <1>1, <1>2
<1>4. \A i \in DOMAIN c : i \in Nat /\ (i = 1 \/ (i - 1 \in DOMAIN d /\ d[i - 1] = c[i]))
  <2> TAKE i \in DOMAIN c
  <2>1. i \in Nat
    BY <1>1
  <2>2. CASE i # 1
    <3>1. i - 1 \in 1..(Len(c) - 1) /\ (i - 1) + 1 = i
      BY <1>1, <2>2
    <3> QED
      BY <1>1, <1>2, <2>1, <3>1
  <2> QED
    BY <2>1, <2>2
<1>5. \A i \in DOMAIN c : c[i].n \in Nat
  BY <1>1 DEF Item
<1> QED
  BY <1>1, <1>3, <1>4, <1>5 DEF d

\* A piece that is expected is the next one.
LEMMA PieceComes ==
    ASSUME NEW c \in Seq(Item), c # <<>>, NEW s, NEW g \in Nat, NEW p \in Nat, NEW m \in Nat,
           Follows(c, s, g, p, m), IsPiece(c[1], s)
    PROVE  p > 0 /\ c[1].n = g + 1 /\ g + 1 <= m
<1> QED
  BY TailFacts DEF Follows

LEMMA PieceTaken ==
    ASSUME NEW c \in Seq(Item), c # <<>>, NEW s, NEW g \in Nat, NEW p \in Nat \ {0}, NEW m \in Nat,
           Follows(c, s, g, p, m)
    PROVE  /\ IsPiece(c[1], s)
           /\ Follows(Tail(c), s, g + 1, p - 1, m)
           /\ Whole(c, s, g, p, m) => Whole(Tail(c), s, g + 1, p - 1, m)
<1> DEFINE d == Tail(c)
<1>0. /\ Len(c) \in Nat \ {0} /\ DOMAIN c = 1..Len(c) /\ 1 \in DOMAIN c
      /\ Len(d) = Len(c) - 1 /\ DOMAIN d = 1..(Len(c) - 1)
      /\ \A i \in DOMAIN d : i + 1 \in DOMAIN c /\ d[i] = c[i + 1] /\ i \in Nat
      /\ \A i \in DOMAIN c : i \in Nat /\ (i = 1 \/ (i - 1 \in DOMAIN d /\ d[i - 1] = c[i]))
      /\ \A i \in DOMAIN c : c[i].n \in Nat
  BY TailFacts
<1> HIDE DEF d
<1>1. IsPiece(c[1], s) /\ c[1].n = g + 1
  <2>1. IsPiece(c[1], s)
    BY <1>0 DEF Follows
  <2> QED
    BY <2>1, PieceComes
<1>2. \A i \in DOMAIN d : IsPiece(d[i], s) =>
          /\ d[i].n > g + 1 /\ d[i].n <= m
          /\ d[i].n = g + 1 + 1 \/ \E j \in DOMAIN d : j < i /\ IsPiece(d[j], s) /\ d[j].n + 1 = d[i].n
          /\ i <= p - 1 \/ \E j \in DOMAIN d : j < i /\ IsHead(d[j], s) /\ i <= j + d[j].n
  <2> SUFFICES ASSUME NEW i \in DOMAIN d, IsPiece(d[i], s)
               PROVE  /\ d[i].n > g + 1 /\ d[i].n <= m
                      /\ d[i].n = g + 1 + 1 \/ \E j \in DOMAIN d : j < i /\ IsPiece(d[j], s) /\ d[j].n + 1 = d[i].n
                      /\ i <= p - 1 \/ \E j \in DOMAIN d : j < i /\ IsHead(d[j], s) /\ i <= j + d[j].n
    OBVIOUS
  <2>1. i + 1 \in DOMAIN c /\ d[i] = c[i + 1] /\ IsPiece(c[i + 1], s) /\ i \in Nat /\ c[i + 1].n \in Nat
    BY <1>0
  <2>2. d[i].n > g + 1 /\ d[i].n <= m
    <3>1. 1 < i + 1 /\ 1 \in DOMAIN c
      BY <1>0, <2>1
    <3>2. c[1].n < c[i + 1].n /\ c[i + 1].n <= m
      BY <1>1, <2>1, <3>1 DEF Follows
    <3> QED
      BY <1>1, <2>1, <3>2
  <2>3. d[i].n = g + 1 + 1 \/ \E j \in DOMAIN d : j < i /\ IsPiece(d[j], s) /\ d[j].n + 1 = d[i].n
    <3>1. c[i + 1].n # g + 1
      BY <2>1, <2>2
    <3>2. PICK j \in DOMAIN c : j < i + 1 /\ IsPiece(c[j], s) /\ c[j].n + 1 = c[i + 1].n
      BY <2>1, <3>1 DEF Follows
    <3>3. CASE j = 1
      BY <1>1, <2>1, <3>2, <3>3
    <3>4. CASE j # 1
      <4>1. j - 1 \in DOMAIN d /\ d[j - 1] = c[j] /\ j - 1 < i
        BY <2>1, <3>2, <3>4, <1>0
      <4> QED
        BY <2>1, <3>2, <4>1
    <3> QED
      BY <3>3, <3>4
  <2>4. i <= p - 1 \/ \E j \in DOMAIN d : j < i /\ IsHead(d[j], s) /\ i <= j + d[j].n
    <3>1. CASE i + 1 <= p
      BY <2>1, <3>1
    <3>2. CASE ~(i + 1 <= p)
      <4>1. PICK j \in DOMAIN c : j < i + 1 /\ IsHead(c[j], s) /\ i + 1 <= j + c[j].n
        BY <2>1, <3>2 DEF Follows
      <4>2. j # 1
        BY <1>1, <4>1 DEF IsPiece, IsHead
      <4>3. j - 1 \in DOMAIN d /\ d[j - 1] = c[j] /\ j - 1 < i /\ i <= (j - 1) + c[j].n
        <5>1. j \in Nat /\ c[j].n \in Nat /\ j - 1 \in DOMAIN d /\ d[j - 1] = c[j]
          BY <1>0, <4>1, <4>2
        <5> QED
          BY ONLY <2>1, <4>1, <5>1
      <4> QED
        BY <4>1, <4>3
    <3> QED
      BY <3>1, <3>2
  <2> QED
    BY <2>2, <2>3, <2>4
<1>3. \A i, j \in DOMAIN d : i < j /\ IsPiece(d[i], s) /\ IsPiece(d[j], s) => d[i].n < d[j].n
  <2> SUFFICES ASSUME NEW i \in DOMAIN d, NEW j \in DOMAIN d, i < j, IsPiece(d[i], s), IsPiece(d[j], s)
               PROVE  d[i].n < d[j].n
    OBVIOUS
  <2>1. /\ i + 1 \in DOMAIN c /\ j + 1 \in DOMAIN c /\ i + 1 < j + 1
        /\ d[i] = c[i + 1] /\ d[j] = c[j + 1]
    BY <1>0
  <2> QED
    BY <2>1 DEF Follows
<1>4. /\ \A j \in DOMAIN d : IsHead(d[j], s) =>
             \A k \in DOMAIN d : j < k /\ k <= j + d[j].n => IsPiece(d[k], s)
      /\ \A k \in DOMAIN d : k <= p - 1 => IsPiece(d[k], s)
  <2>0. \A j \in DOMAIN c : IsHead(c[j], s) =>
           \A k \in DOMAIN c : j < k /\ k <= j + c[j].n => IsPiece(c[k], s)
    BY DEF Follows
  <2>1. ASSUME NEW j \in DOMAIN d, IsHead(d[j], s), NEW k \in DOMAIN d, j < k, k <= j + d[j].n
        PROVE  IsPiece(d[k], s)
    <3>1. j + 1 \in DOMAIN c /\ k + 1 \in DOMAIN c /\ d[j] = c[j + 1] /\ d[k] = c[k + 1]
      BY <1>0, <2>1
    <3>2. j + 1 < k + 1 /\ k + 1 <= (j + 1) + c[j + 1].n
      <4>1. j \in Nat /\ k \in Nat /\ c[j + 1].n \in Nat
        BY <1>0, <3>1
      <4> QED
        BY ONLY <2>1, <3>1, <4>1
    <3>3. IsHead(c[j + 1], s)
      BY ONLY <2>1, <3>1
    <3>4. IsPiece(c[k + 1], s)
      BY ONLY <2>0, <3>1, <3>2, <3>3
    <3> QED
      BY ONLY <3>1, <3>4
  <2>2. ASSUME NEW k \in DOMAIN d, k <= p - 1
        PROVE  IsPiece(d[k], s)
    <3>1. k + 1 \in DOMAIN c /\ d[k] = c[k + 1] /\ k \in Nat
      BY <1>0
    <3> QED
      BY <1>0, <1>1, <2>2, <3>1 DEF Follows
  <2> QED
    BY <2>1, <2>2
<1>5. ASSUME Whole(c, s, g, p, m) PROVE Whole(d, s, g + 1, p - 1, m)
  <2>1. g + 1 = m \/ \E j \in DOMAIN d : IsPiece(d[j], s) /\ d[j].n = m
    <3>1. g # m
      BY <1>1, <1>0 DEF Follows
    <3>2. PICK j \in DOMAIN c : IsPiece(c[j], s) /\ c[j].n = m
      BY <1>5, <3>1 DEF Whole
    <3> QED
      BY <1>1, <3>2, <1>0
  <2>2. \A j \in DOMAIN d : IsHead(d[j], s) => j + d[j].n <= Len(d)
    BY <1>0, <1>5 DEF Whole
  <2>3. p - 1 <= Len(d)
    BY <1>0, <1>5 DEF Whole
  <2> QED
    BY <2>1, <2>2, <2>3 DEF Whole
<1> QED
  BY <1>1, <1>2, <1>3, <1>4, <1>5 DEF Follows, d

\* Nothing is expected, and a head comes, or what is of another session.
LEMMA OtherTaken ==
    ASSUME NEW c \in Seq(Item), c # <<>>, NEW s, NEW g \in Nat, NEW p \in Nat, NEW m \in Nat,
           Follows(c, s, g, p, m), ~IsPiece(c[1], s), NEW q \in Nat,
           q = IF IsHead(c[1], s) THEN c[1].n ELSE 0
    PROVE  /\ p = 0
           /\ Follows(Tail(c), s, g, q, m)
           /\ Whole(c, s, g, p, m) => Whole(Tail(c), s, g, q, m)
<1> DEFINE d == Tail(c)
<1>0. /\ Len(c) \in Nat \ {0} /\ DOMAIN c = 1..Len(c) /\ 1 \in DOMAIN c
      /\ Len(d) = Len(c) - 1 /\ DOMAIN d = 1..(Len(c) - 1)
      /\ \A i \in DOMAIN d : i + 1 \in DOMAIN c /\ d[i] = c[i + 1] /\ i \in Nat
      /\ \A i \in DOMAIN c : i \in Nat /\ (i = 1 \/ (i - 1 \in DOMAIN d /\ d[i - 1] = c[i]))
      /\ \A i \in DOMAIN c : c[i].n \in Nat
  BY TailFacts
<1> HIDE DEF d
<1>1. p = 0
  BY <1>0 DEF Follows
<1>2. \A i \in DOMAIN d : IsPiece(d[i], s) =>
          /\ d[i].n > g /\ d[i].n <= m
          /\ d[i].n = g + 1 \/ \E j \in DOMAIN d : j < i /\ IsPiece(d[j], s) /\ d[j].n + 1 = d[i].n
          /\ i <= q \/ \E j \in DOMAIN d : j < i /\ IsHead(d[j], s) /\ i <= j + d[j].n
  <2> SUFFICES ASSUME NEW i \in DOMAIN d, IsPiece(d[i], s)
               PROVE  /\ d[i].n > g /\ d[i].n <= m
                      /\ d[i].n = g + 1 \/ \E j \in DOMAIN d : j < i /\ IsPiece(d[j], s) /\ d[j].n + 1 = d[i].n
                      /\ i <= q \/ \E j \in DOMAIN d : j < i /\ IsHead(d[j], s) /\ i <= j + d[j].n
    OBVIOUS
  <2>1. i + 1 \in DOMAIN c /\ d[i] = c[i + 1] /\ IsPiece(c[i + 1], s) /\ i \in Nat /\ c[i + 1].n \in Nat
    BY <1>0
  <2>2. d[i].n > g /\ d[i].n <= m
    BY <2>1 DEF Follows
  <2>3. d[i].n = g + 1 \/ \E j \in DOMAIN d : j < i /\ IsPiece(d[j], s) /\ d[j].n + 1 = d[i].n
    <3>1. CASE c[i + 1].n = g + 1
      BY <2>1, <3>1
    <3>2. CASE c[i + 1].n # g + 1
      <4>1. PICK j \in DOMAIN c : j < i + 1 /\ IsPiece(c[j], s) /\ c[j].n + 1 = c[i + 1].n
        BY <2>1, <3>2 DEF Follows
      <4>2. j # 1
        BY <4>1
      <4>3. j - 1 \in DOMAIN d /\ d[j - 1] = c[j] /\ j - 1 < i
        BY <2>1, <4>1, <4>2, <1>0
      <4> QED
        BY <2>1, <4>1, <4>3
    <3> QED
      BY <3>1, <3>2
  <2>4. i <= q \/ \E j \in DOMAIN d : j < i /\ IsHead(d[j], s) /\ i <= j + d[j].n
    <3>1. PICK j \in DOMAIN c : j < i + 1 /\ IsHead(c[j], s) /\ i + 1 <= j + c[j].n
      BY <1>1, <2>1 DEF Follows
    <3>2. CASE j = 1
      BY <2>1, <3>1, <3>2, <1>0
    <3>3. CASE j # 1
      <4>0. j \in Nat /\ c[j].n \in Nat /\ j - 1 \in DOMAIN d /\ d[j - 1] = c[j]
        BY <1>0, <3>3
      <4>1. j - 1 \in DOMAIN d /\ d[j - 1] = c[j] /\ j - 1 < i /\ i <= (j - 1) + c[j].n
        BY ONLY <2>1, <3>1, <4>0
      <4>2. IsHead(d[j - 1], s) /\ i <= (j - 1) + d[j - 1].n
        BY <3>1, <4>1
      <4> QED
        BY ONLY <4>1, <4>2
    <3> QED
      BY <3>2, <3>3
  <2> QED
    BY <2>2, <2>3, <2>4
<1>3. \A i, j \in DOMAIN d : i < j /\ IsPiece(d[i], s) /\ IsPiece(d[j], s) => d[i].n < d[j].n
  <2> SUFFICES ASSUME NEW i \in DOMAIN d, NEW j \in DOMAIN d, i < j, IsPiece(d[i], s), IsPiece(d[j], s)
               PROVE  d[i].n < d[j].n
    OBVIOUS
  <2>1. /\ i + 1 \in DOMAIN c /\ j + 1 \in DOMAIN c /\ i + 1 < j + 1
        /\ d[i] = c[i + 1] /\ d[j] = c[j + 1]
    BY <1>0
  <2> QED
    BY <2>1 DEF Follows
<1>4. /\ \A j \in DOMAIN d : IsHead(d[j], s) =>
             \A k \in DOMAIN d : j < k /\ k <= j + d[j].n => IsPiece(d[k], s)
      /\ \A k \in DOMAIN d : k <= q => IsPiece(d[k], s)
  <2>0. \A j \in DOMAIN c : IsHead(c[j], s) =>
           \A k \in DOMAIN c : j < k /\ k <= j + c[j].n => IsPiece(c[k], s)
    BY DEF Follows
  <2>1. ASSUME NEW j \in DOMAIN d, IsHead(d[j], s), NEW k \in DOMAIN d, j < k, k <= j + d[j].n
        PROVE  IsPiece(d[k], s)
    <3>1. j + 1 \in DOMAIN c /\ k + 1 \in DOMAIN c /\ d[j] = c[j + 1] /\ d[k] = c[k + 1]
      BY <1>0, <2>1
    <3>2. j + 1 < k + 1 /\ k + 1 <= (j + 1) + c[j + 1].n
      <4>1. j \in Nat /\ k \in Nat /\ c[j + 1].n \in Nat
        BY <1>0, <3>1
      <4> QED
        BY ONLY <2>1, <3>1, <4>1
    <3>3. IsHead(c[j + 1], s)
      BY ONLY <2>1, <3>1
    <3>4. IsPiece(c[k + 1], s)
      BY ONLY <2>0, <3>1, <3>2, <3>3
    <3> QED
      BY ONLY <3>1, <3>4
  <2>2. ASSUME NEW k \in DOMAIN d, k <= q
        PROVE  IsPiece(d[k], s)
    <3>1. k + 1 \in DOMAIN c /\ d[k] = c[k + 1] /\ k \in Nat
      BY <1>0
    <3> QED
      <4>1. IsHead(c[1], s) /\ 1 \in DOMAIN c /\ 1 < k + 1 /\ k + 1 <= 1 + c[1].n
        BY <1>0, <2>2, <3>1
      <4> QED
        BY <3>1, <4>1 DEF Follows
  <2> QED
    BY <2>1, <2>2
<1>5. ASSUME Whole(c, s, g, p, m) PROVE Whole(d, s, g, q, m)
  <2>1. g = m \/ \E j \in DOMAIN d : IsPiece(d[j], s) /\ d[j].n = m
    <3>1. CASE g # m
      <4>1. PICK j \in DOMAIN c : IsPiece(c[j], s) /\ c[j].n = m
        BY <1>5, <3>1 DEF Whole
      <4>2. j # 1
        BY <4>1
      <4> QED
        BY <1>0, <4>1, <4>2
    <3> QED
      BY <3>1
  <2>2. q <= Len(d)
    BY <1>0, <1>5 DEF Whole
  <2>3. \A j \in DOMAIN d : IsHead(d[j], s) => j + d[j].n <= Len(d)
    BY <1>0, <1>5 DEF Whole
  <2> QED
    BY <2>1, <2>2, <2>3 DEF Whole
<1> QED
  BY <1>1, <1>2, <1>3, <1>4, <1>5 DEF Follows, d

Packet(x, a, n) == <<Usb!Heading(x, n)>> \o [k \in 1..n |-> Usb!Piece(x, a + k)]

\* What is to come with a packet more.
Extends(d, c, x, a, n) ==
    /\ d \in Seq(Item) /\ Len(d) = Len(c) + 1 + n /\ DOMAIN d = 1..(Len(c) + 1 + n)
    /\ Len(c) \in Nat /\ DOMAIN c = 1..Len(c)
    /\ \A i \in DOMAIN d :
          \/ i \in DOMAIN c /\ d[i] = c[i]
          \/ i = Len(c) + 1 /\ d[i] = Usb!Heading(x, n)
          \/ \E k \in 1..n : i = Len(c) + 1 + k /\ d[i] = Usb!Piece(x, a + k)
    /\ \A i \in DOMAIN c : i \in DOMAIN d /\ d[i] = c[i]
    /\ d[Len(c) + 1] = Usb!Heading(x, n)
    /\ \A k \in 1..n : Len(c) + 1 + k \in DOMAIN d /\ d[Len(c) + 1 + k] = Usb!Piece(x, a + k)

LEMMA PacketFacts ==
    ASSUME NEW c \in Seq(Item), NEW x \in Usb!Ids, NEW a \in Nat, NEW n \in Nat
    PROVE  Extends(c \o Packet(x, a, n), c, x, a, n)
<1> DEFINE h == Usb!Heading(x, n)
           b == [k \in 1..n |-> Usb!Piece(x, a + k)]
           e == <<h>> \o b
           d == c \o e
<1>1. h \in Item /\ \A k \in 1..n : Usb!Piece(x, a + k) \in Item
  BY DEF Usb!Heading, Usb!Piece, Item
<1>2. b \in Seq(Item) /\ Len(b) = n /\ \A k \in 1..n : b[k] = Usb!Piece(x, a + k)
  BY <1>1
<1> HIDE DEF h, b
<1>3. e \in Seq(Item) /\ Len(e) = n + 1 /\ e[1] = h /\ \A k \in 1..n : e[k + 1] = Usb!Piece(x, a + k)
  BY <1>1, <1>2
<1> HIDE DEF e
<1>4. /\ d \in Seq(Item) /\ Len(d) = Len(c) + (n + 1) /\ Len(c) \in Nat
      /\ \A i \in 1..Len(c) : d[i] = c[i]
      /\ \A k \in 1..(n + 1) : d[Len(c) + k] = e[k]
  BY <1>3
<1>5. \A k \in 1..n : Len(c) + 1 + k \in 1..Len(d) /\ d[Len(c) + 1 + k] = Usb!Piece(x, a + k)
  <2> TAKE k \in 1..n
  <2>1. k + 1 \in 1..(n + 1) /\ Len(c) + (k + 1) = Len(c) + 1 + k
    BY <1>4
  <2> QED
    BY <1>3, <1>4, <2>1
<1>6. d[Len(c) + 1] = h
  BY <1>3, <1>4
<1>0. d = c \o Packet(x, a, n)
  BY DEF d, e, h, b, Packet
<1> HIDE DEF d
<1>7. \A i \in 1..Len(d) :
         \/ i \in 1..Len(c) /\ d[i] = c[i]
         \/ i = Len(c) + 1 /\ d[i] = h
         \/ \E k \in 1..n : i = Len(c) + 1 + k /\ d[i] = Usb!Piece(x, a + k)
  <2> TAKE i \in 1..Len(d)
  <2>1. CASE i > Len(c) + 1
    <3>1. i - Len(c) - 1 \in 1..n /\ i = Len(c) + 1 + (i - Len(c) - 1)
      BY <1>4, <2>1
    <3> QED
      BY <1>5, <3>1
  <2>2. CASE i = Len(c) + 1
    BY <1>6, <2>2
  <2>3. CASE i < Len(c) + 1
    <3>1. i \in 1..Len(c)
      BY <1>4, <2>3
    <3> QED
      BY <1>4, <3>1
  <2>4. i \in Int /\ Len(c) \in Nat
    BY <1>4
  <2> QED
    BY ONLY <2>1, <2>2, <2>3, <2>4
<1>8. DOMAIN d = 1..Len(d) /\ DOMAIN c = 1..Len(c)
  BY <1>4
<1>9. Len(c) + (n + 1) = Len(c) + 1 + n
  BY <1>4
<1>10. /\ Len(d) = Len(c) + 1 + n /\ 1..Len(d) = 1..(Len(c) + 1 + n) /\ h = Usb!Heading(x, n)
       /\ \A i \in 1..Len(c) : i \in 1..Len(d)
  BY <1>4, <1>9 DEF h
<1> QED
  BY <1>0, <1>4, <1>5, <1>6, <1>7, <1>8, <1>9, <1>10 DEF Extends

\* A packet of the session itself: its pieces follow what there is.
LEMMA OwnComes ==
    ASSUME NEW c \in Seq(Item), NEW s \in Usb!Ids, NEW g \in Nat, NEW p \in Nat, NEW m \in Nat, NEW n \in Nat \ {0},
           g <= m, Follows(c, s, g, p, m), Whole(c, s, g, p, m)
    PROVE  /\ Follows(c \o Packet(s, m, n), s, g, p, m + n)
           /\ Whole(c \o Packet(s, m, n), s, g, p, m + n)
<1> DEFINE d == c \o Packet(s, m, n)
           L == Len(c)
<1>0. Extends(d, c, s, m, n)
  BY PacketFacts
<1> HIDE DEF d
<1>1. /\ d \in Seq(Item) /\ Len(d) = L + 1 + n /\ DOMAIN d = 1..(L + 1 + n)
      /\ L \in Nat /\ DOMAIN c = 1..L
      /\ \A i \in DOMAIN d :
            \/ i \in DOMAIN c /\ d[i] = c[i]
            \/ i = L + 1 /\ d[i] = Usb!Heading(s, n)
            \/ \E k \in 1..n : i = L + 1 + k /\ d[i] = Usb!Piece(s, m + k)
      /\ \A i \in DOMAIN c : i \in DOMAIN d /\ d[i] = c[i]
      /\ d[L + 1] = Usb!Heading(s, n)
      /\ \A k \in 1..n : L + 1 + k \in DOMAIN d /\ d[L + 1 + k] = Usb!Piece(s, m + k)
  BY <1>0 DEF Extends
<1> HIDE DEF L
<1>2. /\ IsHead(Usb!Heading(s, n), s) /\ ~IsPiece(Usb!Heading(s, n), s) /\ Usb!Heading(s, n).n = n
      /\ \A k : IsPiece(Usb!Piece(s, k), s) /\ ~IsHead(Usb!Piece(s, k), s) /\ Usb!Piece(s, k).n = k
  BY DEF IsHead, IsPiece, Usb!Heading, Usb!Piece
<1>3. \A i \in DOMAIN c : c[i].n \in Nat /\ i \in Nat
  <2>1. \A i \in DOMAIN c : c[i] \in Item /\ i \in Nat
    BY <1>1
  <2>2. \A x \in Item : x.n \in Nat
    BY ONLY DEF Item
  <2> QED
    BY ONLY <2>1, <2>2
<1>4. ASSUME NEW i \in DOMAIN d, IsPiece(d[i], s)
      PROVE  /\ d[i].n > g /\ d[i].n <= m + n
             /\ d[i].n = g + 1 \/ \E j \in DOMAIN d : j < i /\ IsPiece(d[j], s) /\ d[j].n + 1 = d[i].n
             /\ i <= p \/ \E j \in DOMAIN d : j < i /\ IsHead(d[j], s) /\ i <= j + d[j].n
  <2>1. CASE i \in DOMAIN c /\ d[i] = c[i]
    <3>1. /\ c[i].n > g /\ c[i].n <= m
          /\ c[i].n = g + 1 \/ \E j \in DOMAIN c : j < i /\ IsPiece(c[j], s) /\ c[j].n + 1 = c[i].n
          /\ i <= p \/ \E j \in DOMAIN c : j < i /\ IsHead(c[j], s) /\ i <= j + c[j].n
      BY <1>4, <2>1 DEF Follows
    <3>2. c[i].n <= m + n
      BY <1>3, <2>1, <3>1
    <3>3. d[i].n = g + 1 \/ \E j \in DOMAIN d : j < i /\ IsPiece(d[j], s) /\ d[j].n + 1 = d[i].n
      BY <1>1, <2>1, <3>1
    <3>4. i <= p \/ \E j \in DOMAIN d : j < i /\ IsHead(d[j], s) /\ i <= j + d[j].n
      BY <1>1, <2>1, <3>1
    <3> QED
      BY <2>1, <3>1, <3>2, <3>3, <3>4
  <2>2. ASSUME NEW k \in 1..n, i = L + 1 + k, d[i] = Usb!Piece(s, m + k)
        PROVE  /\ d[i].n > g /\ d[i].n <= m + n
               /\ d[i].n = g + 1 \/ \E j \in DOMAIN d : j < i /\ IsPiece(d[j], s) /\ d[j].n + 1 = d[i].n
               /\ \E j \in DOMAIN d : j < i /\ IsHead(d[j], s) /\ i <= j + d[j].n
    <3>1. d[i].n = m + k
      BY <1>2, <2>2
    <3>2. d[i].n = g + 1 \/ \E j \in DOMAIN d : j < i /\ IsPiece(d[j], s) /\ d[j].n + 1 = d[i].n
      <4>1. CASE k = 1 /\ g # m
        <5>1. PICK j \in DOMAIN c : IsPiece(c[j], s) /\ c[j].n = m
          BY <4>1 DEF Whole
        <5>2. j \in DOMAIN d /\ j < i /\ IsPiece(d[j], s) /\ d[j].n + 1 = d[i].n
          BY <1>1, <2>2, <3>1, <4>1, <5>1
        <5> QED
          BY <5>2
      <4>2. CASE k # 1
        <5>1. k - 1 \in 1..n /\ L + 1 + (k - 1) < i /\ (m + (k - 1)) + 1 = m + k
          <6>1. L \in Nat /\ m \in Nat /\ n \in Nat /\ k \in 1..n /\ k # 1 /\ i = L + 1 + k
            BY <1>1, <2>2, <4>2
          <6> QED
            BY ONLY <6>1
        <5>2. /\ L + 1 + (k - 1) \in DOMAIN d /\ IsPiece(d[L + 1 + (k - 1)], s)
              /\ d[L + 1 + (k - 1)].n = m + (k - 1)
          BY <1>1, <1>2, <5>1
        <5>3. d[L + 1 + (k - 1)].n + 1 = d[i].n
          BY <3>1, <5>1, <5>2
        <5> QED
          BY ONLY <5>1, <5>2, <5>3
      <4> QED
        BY <3>1, <4>1, <4>2
    <3>3. L + 1 \in DOMAIN d /\ L + 1 < i /\ IsHead(d[L + 1], s) /\ i <= (L + 1) + d[L + 1].n
      <4>1. L + 1 \in DOMAIN d /\ L + 1 < i /\ i <= (L + 1) + n
        BY ONLY <1>1, <2>2, n \in Nat \ {0}
      <4>2. IsHead(d[L + 1], s) /\ d[L + 1].n = n
        BY <1>1, <1>2
      <4> QED
        BY ONLY <4>1, <4>2
    <3> QED
      BY <3>1, <3>2, <3>3
  <2> QED
    BY <1>1, <1>2, <1>4, <2>1, <2>2
<1>5. ASSUME NEW i \in DOMAIN d, NEW j \in DOMAIN d, i < j, IsPiece(d[i], s), IsPiece(d[j], s)
      PROVE  d[i].n < d[j].n
  <2>1. CASE j \in DOMAIN c
    <3>1. i \in DOMAIN c /\ d[i] = c[i] /\ d[j] = c[j]
      BY <1>1, <1>5, <2>1
    <3> QED
      BY <1>5, <2>1, <3>1 DEF Follows
  <2>2. CASE j \notin DOMAIN c
    <3>1. PICK k \in 1..n : j = L + 1 + k /\ d[j] = Usb!Piece(s, m + k)
      BY <1>1, <1>2, <1>5, <2>2
    <3>2. CASE i \in DOMAIN c
      <4>1. d[i].n <= m /\ d[i].n \in Nat
        BY <1>1, <1>3, <1>5, <3>2 DEF Follows
      <4> QED
        BY <1>2, <3>1, <4>1
    <3>3. CASE i \notin DOMAIN c
      <4>1. PICK l \in 1..n : i = L + 1 + l /\ d[i] = Usb!Piece(s, m + l)
        BY <1>1, <1>2, <1>5, <3>3
      <4> QED
        BY <1>1, <1>2, <1>5, <3>1, <4>1
    <3> QED
      BY <3>2, <3>3
  <2> QED
    BY <2>1, <2>2
<1>6. ASSUME NEW j \in DOMAIN d, IsHead(d[j], s)
      PROVE  /\ j + d[j].n <= Len(d)
             /\ \A k \in DOMAIN d : j < k /\ k <= j + d[j].n => IsPiece(d[k], s)
  <2>1. CASE j \in DOMAIN c
    <3>1. d[j] = c[j] /\ j + c[j].n <= L
      BY <1>1, <1>6, <2>1 DEF Whole, L
    <3>2. ASSUME NEW k \in DOMAIN d, j < k, k <= j + d[j].n PROVE IsPiece(d[k], s)
      <4>0. /\ k \in 1..(L + 1 + n) /\ L \in Nat /\ j \in Nat /\ c[j].n \in Nat
            /\ k <= j + c[j].n /\ j + c[j].n <= L
        BY <1>1, <1>3, <2>1, <3>1, <3>2
      <4>1. k \in Nat /\ k <= L /\ k >= 1
        BY ONLY <4>0, n \in Nat \ {0}
      <4>2. k \in DOMAIN c
        BY <1>1, <4>1
      <4>3. d[k] = c[k]
        BY <1>1, <1>3, <4>2
      <4> QED
        BY <1>6, <2>1, <3>1, <3>2, <4>2, <4>3 DEF Follows
    <3>3. j + d[j].n <= Len(d)
      <4>1. c[j].n \in Nat /\ j \in Nat
        BY <1>3, <2>1
      <4> QED
        BY ONLY <1>1, <3>1, <4>1, n \in Nat \ {0}
    <3> QED
      BY ONLY <3>2, <3>3
  <2>2. CASE j \notin DOMAIN c
    <3>1. j = L + 1 /\ d[j].n = n
      BY <1>1, <1>2, <1>6, <2>2
    <3>2. ASSUME NEW k \in DOMAIN d, j < k PROVE IsPiece(d[k], s)
      <4>1. k - (L + 1) \in 1..n /\ k = L + 1 + (k - (L + 1))
        BY ONLY <1>1, <3>1, <3>2, n \in Nat \ {0}
      <4>2. d[k] = Usb!Piece(s, m + (k - (L + 1)))
        BY <1>1, <4>1
      <4> QED
        BY <1>2, <4>2
    <3>3. j + d[j].n <= Len(d)
      BY ONLY <1>1, <3>1, n \in Nat \ {0}
    <3> QED
      BY ONLY <3>2, <3>3
  <2> QED
    BY <2>1, <2>2
<1>7. p <= L /\ \A k \in DOMAIN d : k <= p => IsPiece(d[k], s)
  <2>1. p <= L
    BY DEF Whole, L
  <2> QED
    BY <1>1, <2>1 DEF Follows
<1>8. L + 1 + n \in DOMAIN d /\ IsPiece(d[L + 1 + n], s) /\ d[L + 1 + n].n = m + n
  BY <1>1, <1>2
<1>9. Follows(d, s, g, p, m + n)
  BY <1>4, <1>5, <1>6, <1>7 DEF Follows
<1>10. /\ \E j \in DOMAIN d : IsPiece(d[j], s) /\ d[j].n = m + n
       /\ p <= Len(d)
  <2>1. p <= Len(d)
    BY <1>1, <1>7
  <2> QED
    BY <1>8, <2>1
<1>11. Whole(d, s, g, p, m + n)
  BY <1>6, <1>10 DEF Whole
<1> QED
  BY <1>9, <1>11 DEF d

\* A packet of another session.
LEMMA OtherComes ==
    ASSUME NEW c \in Seq(Item), NEW s, NEW g \in Nat, NEW p \in Nat, NEW m \in Nat,
           NEW x \in Usb!Ids, NEW a \in Nat, NEW n \in Nat, x # s,
           Follows(c, s, g, p, m), Whole(c, s, g, p, m)
    PROVE  /\ Follows(c \o Packet(x, a, n), s, g, p, m)
           /\ Whole(c \o Packet(x, a, n), s, g, p, m)
<1> DEFINE d == c \o Packet(x, a, n)
           L == Len(c)
<1>0. Extends(d, c, x, a, n)
  BY PacketFacts
<1> HIDE DEF d
<1>1. /\ d \in Seq(Item) /\ Len(d) = L + 1 + n /\ DOMAIN d = 1..(L + 1 + n)
      /\ L \in Nat /\ DOMAIN c = 1..L
      /\ \A i \in DOMAIN d :
            \/ i \in DOMAIN c /\ d[i] = c[i]
            \/ i = L + 1 /\ d[i] = Usb!Heading(x, n)
            \/ \E k \in 1..n : i = L + 1 + k /\ d[i] = Usb!Piece(x, a + k)
      /\ \A i \in DOMAIN c : i \in DOMAIN d /\ d[i] = c[i]
  BY <1>0 DEF Extends
<1> HIDE DEF L
<1>2. /\ ~IsHead(Usb!Heading(x, n), s) /\ ~IsPiece(Usb!Heading(x, n), s)
      /\ \A k : ~IsPiece(Usb!Piece(x, k), s) /\ ~IsHead(Usb!Piece(x, k), s)
  BY DEF IsHead, IsPiece, Usb!Heading, Usb!Piece
<1>3. \A i \in DOMAIN d : IsPiece(d[i], s) \/ IsHead(d[i], s) => i \in DOMAIN c /\ d[i] = c[i]
  BY <1>1, <1>2
<1>4. p <= L /\ \A j \in DOMAIN c : IsHead(c[j], s) => j + c[j].n <= L
  BY DEF Whole, L
<1>5. ASSUME NEW i \in DOMAIN d, IsPiece(d[i], s)
      PROVE  /\ d[i].n > g /\ d[i].n <= m
             /\ d[i].n = g + 1 \/ \E j \in DOMAIN d : j < i /\ IsPiece(d[j], s) /\ d[j].n + 1 = d[i].n
             /\ i <= p \/ \E j \in DOMAIN d : j < i /\ IsHead(d[j], s) /\ i <= j + d[j].n
  <2>1. i \in DOMAIN c /\ d[i] = c[i]
    BY <1>3, <1>5
  <2>2. /\ c[i].n > g /\ c[i].n <= m
        /\ c[i].n = g + 1 \/ \E j \in DOMAIN c : j < i /\ IsPiece(c[j], s) /\ c[j].n + 1 = c[i].n
        /\ i <= p \/ \E j \in DOMAIN c : j < i /\ IsHead(c[j], s) /\ i <= j + c[j].n
    BY <1>5, <2>1 DEF Follows
  <2> QED
    BY <1>1, <2>1, <2>2
<1>6. \A i, j \in DOMAIN d : i < j /\ IsPiece(d[i], s) /\ IsPiece(d[j], s) => d[i].n < d[j].n
  BY <1>3 DEF Follows
<1>7. ASSUME NEW j \in DOMAIN d, IsHead(d[j], s)
      PROVE  /\ j + d[j].n <= Len(d)
             /\ \A k \in DOMAIN d : j < k /\ k <= j + d[j].n => IsPiece(d[k], s)
  <2>1. j \in DOMAIN c /\ d[j] = c[j] /\ j + c[j].n <= L /\ j + c[j].n \in Nat
    <3>1. j \in DOMAIN c /\ d[j] = c[j] /\ c[j] \in Item
      BY <1>3, <1>7
    <3> QED
      BY <1>1, <1>4, <1>7, <3>1 DEF Item
  <2>2. ASSUME NEW k \in DOMAIN d, j < k, k <= j + d[j].n PROVE IsPiece(d[k], s)
    <3>1. k \in DOMAIN c /\ d[k] = c[k]
      BY <1>1, <2>1, <2>2
    <3> QED
      BY <1>7, <2>1, <2>2, <3>1 DEF Follows
  <2> QED
    BY <1>1, <2>1, <2>2
<1>8. \A k \in DOMAIN d : k <= p => IsPiece(d[k], s)
  BY <1>1, <1>4 DEF Follows
<1>9. Follows(d, s, g, p, m)
  BY <1>5, <1>6, <1>7, <1>8 DEF Follows
<1>10. g = m \/ \E j \in DOMAIN d : IsPiece(d[j], s) /\ d[j].n = m
  BY <1>1 DEF Whole
<1>11. Whole(d, s, g, p, m)
  BY <1>1, <1>4, <1>7, <1>10 DEF Whole
<1> QED
  BY <1>9, <1>11 DEF d

\* What may come may be more.
LEMMA FollowsMore ==
    ASSUME NEW c \in Seq(Item), NEW s, NEW g \in Nat, NEW p \in Nat, NEW m \in Nat, NEW n \in Nat,
           m <= n, Follows(c, s, g, p, m)
    PROVE  Follows(c, s, g, p, n)
<1>1. \A i \in DOMAIN c : c[i].n \in Nat
  <2>1. \A i \in DOMAIN c : c[i] \in Item
    OBVIOUS
  <2> QED
    BY <2>1 DEF Item
<1> QED
  BY <1>1 DEF Follows

-----------------------------------------------------------------------------
(* What a step leaves alone.                                                 *)

LEMMA TakenStays ==
    ASSUME NEW t, TakenOf(t), usbOut'[t] = usbOut[t], reader'[t] = reader[t], usbReading'[t] = usbReading[t],
           cleaner'[t] = cleaner[t], ses'[t] = ses[t], usb'[t].handle = usb[t].handle
    PROVE  TakenOf(t)'
  BY DEF TakenOf, Reading, Usb!Lives

LEMMA HeldStays ==
    ASSUME NEW t, HeldOf(t), plugs' = plugs, ses'[t].stage = ses[t].stage,
           ses[t].stage \in {"none", "pre"} =>
               /\ ses'[t].dead = ses[t].dead /\ ses'[t].child = ses[t].child
               /\ cleaner'[t] = cleaner[t] /\ (t \in async' => t \in async),
           \A x \in UsbSession : usb'[x].handle = usb[x].handle, t \in UsbSession
    PROVE  HeldOf(t)'
  BY DEF HeldOf

\* That a transfer is done, or under way, is no matter of where it is open and what it expects.
LEMMA DoneIsMarked ==
    ASSUME NEW s \in UsbSession, NEW b \in BOOLEAN, usb \in [UsbSession -> UsbType(sc.plugs)],
           usb' = [usb EXCEPT ![s].inDone = b] \/ usb' = [usb EXCEPT ![s].outDone = b]
    PROVE  /\ usb' \in [UsbSession -> UsbType(sc.plugs)]
           /\ \A t \in UsbSession : /\ usb'[t].handle = usb[t].handle
                                    /\ usb'[t].payload = usb[t].payload /\ usb'[t].began = usb[t].began
<1>1. usb[s] \in UsbType(sc.plugs)
  OBVIOUS
<1>2. PICK w \in UsbType(sc.plugs) : /\ w.handle = usb[s].handle
                                     /\ w.payload = usb[s].payload /\ w.began = usb[s].began
                                     /\ usb' = [usb EXCEPT ![s] = w]
  <2>1. CASE usb' = [usb EXCEPT ![s].inDone = b]
    <3>1. PICK w : w = [usb[s] EXCEPT !.inDone = b]
      OBVIOUS
    <3>2. w \in UsbType(sc.plugs) /\ w.handle = usb[s].handle
          /\ w.payload = usb[s].payload /\ w.began = usb[s].began
      BY ONLY <1>1, <3>1, b \in BOOLEAN DEF UsbType
    <3> QED
      BY ONLY <2>1, <3>1, <3>2
  <2>2. CASE usb' = [usb EXCEPT ![s].outDone = b]
    <3>1. PICK w : w = [usb[s] EXCEPT !.outDone = b]
      OBVIOUS
    <3>2. w \in UsbType(sc.plugs) /\ w.handle = usb[s].handle
          /\ w.payload = usb[s].payload /\ w.began = usb[s].began
      BY ONLY <1>1, <3>1, b \in BOOLEAN DEF UsbType
    <3> QED
      BY ONLY <2>2, <3>1, <3>2
  <2> QED
    BY <2>1, <2>2
<1> QED
  BY ONLY <1>2, s \in UsbSession, usb \in [UsbSession -> UsbType(sc.plugs)]

LEMMA MarksStay ==
    ASSUME Marks, UNCHANGED <<sc, plugs, node, ignore, delayed, entry>>,
           \A t \in UsbSession : ses'[t].stage = ses[t].stage /\ (ses'[t].freeing = "gone" => ses[t].freeing = "gone")
    PROVE  Marks'
  BY DEF Marks

LEMMA FreshStays ==
    ASSUME NEW t \in UsbSession, FreshOf(t), ses'[t].child = ses[t].child, serves' \in {serves, None},
           UNCHANGED <<said, usbGot, usbWire, reader>>,
           usb'[t].payload = usb[t].payload, usb'[t].began = usb[t].began, usbOut'[t].parts = usbOut[t].parts
    PROVE  FreshOf(t)'
  BY UsbAssumption DEF FreshOf, Usb!ConstantsAreSound

LEMMA StreamStays ==
    ASSUME NEW t, StreamOf(t), usbGot'[t] = usbGot[t], said'[t] = said[t], usb'[t].began = usb[t].began,
           Reading(t)' => Reading(t) /\ usb'[t].payload = usb[t].payload /\ Coming(t)' = Coming(t),
           Usb!Online(t)' => Usb!Online(t)
    PROVE  StreamOf(t)'
<1>1. UNCHANGED Len(usbGot[t]) 
  OBVIOUS
<1> QED
  BY <1>1 DEF StreamOf

LEMMA ComingStays ==
    ASSUME NEW t, reader'[t] = reader[t], usbReading'[t] = usbReading[t], usbWire' = usbWire, node' = node,
           usb'[t].handle = usb[t].handle
    PROVE  Coming(t)' = Coming(t) /\ Usb!Online(t)' = Usb!Online(t) /\ Reading(t)' = Reading(t)
  BY DEF Coming, Usb!Online, Reading

-----------------------------------------------------------------------------
(* One step of each action.                                                  *)

\* The device that has not been plugged in has no mark yet.
LEMMA StepPlug ==
    ASSUME UsbInv, Usb!Plug, UNCHANGED sc
    PROVE  UsbInv'
<1>1. /\ node = 0 /\ usbWire = <<>> /\ plugs + 1 <= sc.plugs /\ plugs \in Nat /\ sc.plugs \in Nat
      /\ plugs' = plugs + 1 /\ node' = plugs + 1
      /\ UNCHANGED <<sc, usbWire, serves, said, Usb!finder, ses, Usb!io, cleaner, async, sends, tries>>
      /\ \A t \in UsbSession : usb[t].handle \in Nat /\ usb[t].handle <= plugs
  BY DEF UsbInv, Typed, Attached, HeldOf, Usb!Plug, Usb!ScenarioType, Address, UsbType
<1> USE DEF Usb!finder, Usb!io
<1>2. Typed'
  BY <1>1 DEF UsbInv, Typed, Address
<1>3. Attached' /\ Marks'
  BY <1>1 DEF UsbInv, Attached, Marks
<1>4. ASSUME NEW t \in UsbSession
      PROVE  TakenOf(t)' /\ HeldOf(t)' /\ FreshOf(t)' /\ StreamOf(t)'
  <2>1. TakenOf(t)'
    BY <1>1, TakenStays DEF UsbInv
  <2>2. HeldOf(t)'
    BY <1>1 DEF UsbInv, HeldOf
  <2>3. FreshOf(t)'
    BY <1>1, FreshStays DEF UsbInv
  <2>4. ~Usb!Online(t)' /\ (Reading(t)' => Reading(t) /\ Coming(t)' = Coming(t))
    BY <1>1 DEF Usb!Online, Reading, Coming
  <2>5. StreamOf(t)'
    BY <1>1, <2>4, StreamStays DEF UsbInv
  <2> QED
    BY <2>1, <2>2, <2>3, <2>5
<1> QED
  BY <1>2, <1>3, <1>4 DEF UsbInv

LEMMA StepUnplug ==
    ASSUME UsbInv, Usb!Unplug, UNCHANGED sc
    PROVE  UsbInv'
<1>1. /\ node' = 0 /\ usbWire' = <<>> /\ serves' \in {serves, None}
      /\ UNCHANGED <<sc, plugs, said, Usb!finder, ses, Usb!io, cleaner, async, sends, tries>>
  BY DEF Usb!Unplug
<1> USE DEF Usb!finder, Usb!io
<1>2. Typed'
  <2>1. 0 \in Address(sc.plugs)
    BY DEF UsbInv, Typed, Address, Usb!ScenarioType
  <2>2. serves' \in Usb!Ids \cup {None} /\ usbWire' \in Seq(Item)
    BY <1>1 DEF UsbInv, Typed
  <2> QED
    BY <1>1, <2>1, <2>2 DEF UsbInv, Typed
<1>3. Attached' /\ Marks'
  BY <1>1 DEF UsbInv, Attached, Marks
<1>4. ASSUME NEW t \in UsbSession
      PROVE  TakenOf(t)' /\ HeldOf(t)' /\ FreshOf(t)' /\ StreamOf(t)'
  <2>1. TakenOf(t)'
    BY <1>1, TakenStays DEF UsbInv
  <2>2. HeldOf(t)'
    BY <1>1, HeldStays DEF UsbInv
  <2>3. FreshOf(t)'
    BY <1>1, UsbAssumption DEF UsbInv, FreshOf, Usb!ConstantsAreSound
  <2>4. ~Usb!Online(t)' /\ Reading(t)' = Reading(t)
    BY <1>1 DEF Usb!Online, Reading
  <2>5. StreamOf(t)'
    <3>1. CASE usb[t].began = 0 /\ Reading(t)
      <4>1. /\ Follows(Coming(t), t, Len(usbGot[t]), usb[t].payload, said[t])
            /\ Len(usbGot[t]) <= said[t]
            /\ \A k \in DOMAIN usbGot[t] : usbGot[t][k] = Usb!Piece(t, k)
        BY <3>1 DEF UsbInv, StreamOf
      <4>2. /\ Len(usbGot[t]) \in Nat /\ usb[t].payload \in Nat /\ said[t] \in Nat
            /\ usbWire \in Seq(Item) /\ (reader[t] = "got" => usbReading[t] \in Item)
        <5>1. /\ usbGot \in [UsbSession -> Seq(GotType)] /\ usb \in [UsbSession -> UsbType(sc.plugs)]
              /\ said \in [Usb!Ids -> 0..sc.said] /\ sc.said \in Nat /\ t \in Usb!Ids
              /\ usbWire \in Seq(Item)
          BY DEF UsbInv, Typed, Usb!Ids, Usb!ScenarioType
        <5>2. Len(usbGot[t]) \in Nat /\ said[t] \in Nat
          BY <5>1
        <5>3. usb[t].payload \in Nat
          BY <5>1 DEF UsbType
        <5>4. reader[t] = "got" => usbReading[t] \in Item
          BY DEF UsbInv, Typed, TakenOf
        <5> QED
          BY <5>1, <5>2, <5>3, <5>4
      <4> DEFINE e == IF reader[t] = "got" THEN <<usbReading[t]>> ELSE <<>>
                 w == IF Usb!Online(t) THEN usbWire ELSE <<>>
      <4>3. e \in Seq(Item) /\ w \in Seq(Item) /\ Coming(t) = e \o w /\ Coming(t)' = e
        BY <1>1, <2>4, <4>2 DEF Coming
      <4> HIDE DEF e, w
      <4>4. Len(e) <= Len(e \o w) /\ (e \o w) \in Seq(Item) /\ \A i \in 1..Len(e) : e[i] = (e \o w)[i]
        BY <4>3
      <4>5. Follows(Coming(t)', t, Len(usbGot[t]), usb[t].payload, said[t])
        BY <4>1, <4>2, <4>3, <4>4, FollowsCut
      <4>6. usbGot'[t] = usbGot[t] /\ usb'[t] = usb[t] /\ said'[t] = said[t]
        BY <1>1
      <4> QED
        BY <2>4, <4>1, <4>5, <4>6 DEF StreamOf
    <3>2. CASE ~(usb[t].began = 0 /\ Reading(t))
      BY <1>1, <2>4, <3>2 DEF UsbInv, StreamOf
    <3> QED
      BY <3>1, <3>2
  <2> QED
    BY <2>1, <2>2, <2>3, <2>5
<1> QED
  BY <1>2, <1>3, <1>4 DEF UsbInv

\* A packet goes to the session that is served; others see it pass.
LEMMA StepDaemonSends ==
    ASSUME UsbInv, Usb!DaemonSends, UNCHANGED sc
    PROVE  UsbInv'
<1>0. PICK n \in 1..2 :
          /\ said[serves] + n <= sc.said
          /\ said' = [said EXCEPT ![serves] = @ + n]
          /\ usbWire' = usbWire \o <<Usb!Heading(serves, n)>> \o [k \in 1..n |-> Usb!Piece(serves, said[serves] + k)]
  BY DEF Usb!DaemonSends
<1>1. /\ node # 0 /\ serves \in Usb!Ids /\ n \in Nat \ {0} /\ usbWire \in Seq(Item)
      /\ UNCHANGED <<sc, node, plugs, serves, Usb!finder, ses, Usb!io, cleaner, async, sends, tries>>
      /\ \A x \in Usb!Ids : said[x] \in Nat /\ said[x] <= sc.said
      /\ sc.said \in Nat /\ said \in [Usb!Ids -> 0..sc.said]
  <2>1. /\ node # 0 /\ serves # None
        /\ UNCHANGED <<node, plugs, serves, Usb!finder, ses, Usb!io, cleaner, async, sends, tries>>
    BY DEF Usb!DaemonSends
  <2>2. /\ usbWire \in Seq(Item) /\ serves \in Usb!Ids \cup {None}
        /\ sc.said \in Nat /\ said \in [Usb!Ids -> 0..sc.said]
    BY DEF UsbInv, Typed, Usb!ScenarioType
  <2>3. \A x \in Usb!Ids : said[x] \in Nat /\ said[x] <= sc.said
    BY ONLY <2>2
  <2>4. serves \in Usb!Ids
    BY <2>1, <2>2 DEF Usb!Ids
  <2> QED
    BY <2>1, <2>2, <2>3, <2>4
<1> DEFINE p == Packet(serves, said[serves], n)
<1>2. usbWire' = usbWire \o p /\ p \in Seq(Item)
  <2> DEFINE h == <<Usb!Heading(serves, n)>>
             b == [k \in 1..n |-> Usb!Piece(serves, said[serves] + k)]
  <2>1. h \in Seq(Item) /\ b \in Seq(Item)
    BY <1>1 DEF Usb!Heading, Usb!Piece, Item
  <2>2. p = h \o b /\ usbWire' = (usbWire \o h) \o b
    BY <1>0 DEF Packet
  <2> HIDE DEF h, b, p
  <2>3. (usbWire \o h) \o b = usbWire \o (h \o b)
    BY <1>1, <2>1, ConcatAssociative
  <2>4. h \o b \in Seq(Item)
    BY <2>1, ConcatProperties
  <2> QED
    BY <2>2, <2>3, <2>4
<1>3. Extends(usbWire', usbWire, serves, said[serves], n)
  BY <1>1, <1>2, PacketFacts
<1> HIDE DEF p
<1> USE DEF Usb!finder, Usb!io
<1>4. Typed'
  <2>1. usbWire' \in Seq(Item) /\ said' \in [Usb!Ids -> 0..sc.said]
    BY <1>0, <1>1, <1>3 DEF Extends
  <2> QED
    BY <1>1, <2>1 DEF UsbInv, Typed
<1>5. Attached' /\ Marks'
  BY <1>1 DEF UsbInv, Attached, Marks
<1>6. ASSUME NEW t \in UsbSession
      PROVE  TakenOf(t)' /\ HeldOf(t)' /\ FreshOf(t)' /\ StreamOf(t)'
  <2>1. TakenOf(t)'
    BY <1>1, TakenStays DEF UsbInv
  <2>2. HeldOf(t)'
    BY <1>1, HeldStays DEF UsbInv
  <2>3. t \in Usb!Ids /\ said[t] \in Nat /\ said'[t] = (IF t = serves THEN said[t] + n ELSE said[t])
    BY <1>0, <1>1 DEF Usb!Ids
  <2>4. FreshOf(t)'
    <3>1. ASSUME serves # t, \A i \in DOMAIN usbWire : usbWire[i].s # t
          PROVE  \A i \in DOMAIN usbWire' : usbWire'[i].s # t
      BY <1>3, <3>1 DEF Extends, Usb!Heading, Usb!Piece
    <3> QED
      BY <1>1, <2>3, <3>1 DEF UsbInv, FreshOf
  <2>5. StreamOf(t)'
    <3> SUFFICES ASSUME usb[t].began = 0, Reading(t)
                 PROVE  StreamOf(t)'
      BY <1>1 DEF UsbInv, StreamOf, Reading
    <3> DEFINE c == Coming(t)
               g == Len(usbGot[t])
    <3>1. /\ Follows(c, t, g, usb[t].payload, said[t])
          /\ g <= said[t]
          /\ Usb!Online(t) => Whole(c, t, g, usb[t].payload, said[t])
          /\ \A k \in DOMAIN usbGot[t] : usbGot[t][k] = Usb!Piece(t, k)
      BY DEF UsbInv, StreamOf
    <3>2. g \in Nat /\ usb[t].payload \in Nat /\ (reader[t] = "got" => usbReading[t] \in Item)
      BY DEF UsbInv, Typed, UsbType, TakenOf
    <3>3. /\ c \in Seq(Item) /\ Usb!Online(t)' = Usb!Online(t) /\ Reading(t)' = Reading(t)
          /\ Usb!Online(t) => Coming(t)' = c \o p
          /\ ~Usb!Online(t) => Coming(t)' = c
      <4>1. Usb!Online(t)' = Usb!Online(t) /\ Reading(t)' = Reading(t)
        BY <1>1 DEF Usb!Online, Reading
      <4> DEFINE e == IF reader[t] = "got" THEN <<usbReading[t]>> ELSE <<>>
      <4>2. /\ e \in Seq(Item)
            /\ c = e \o (IF Usb!Online(t) THEN usbWire ELSE <<>>)
            /\ Coming(t)' = e \o (IF Usb!Online(t) THEN usbWire' ELSE <<>>)
        BY <1>1, <3>2, <4>1 DEF Coming
      <4> HIDE DEF e, c
      <4>3. e \o (usbWire \o p) = (e \o usbWire) \o p /\ e \o usbWire \in Seq(Item)
        <5>1. usbWire \in Seq(Item) /\ p \in Seq(Item) /\ e \in Seq(Item)
          BY ONLY <1>1, <1>2, <4>2
        <5>2. (e \o usbWire) \o p = e \o (usbWire \o p)
          BY ONLY <5>1, ConcatAssociative
        <5>3. e \o usbWire \in Seq(Item)
          BY ONLY <5>1, ConcatProperties
        <5> QED
          BY ONLY <5>2, <5>3
      <4>4. e \o <<>> = e /\ <<>> \in Seq(Item)
        BY <4>2
      <4> QED
        BY <1>2, <4>1, <4>2, <4>3, <4>4
    <3>4. usbGot'[t] = usbGot[t] /\ usb'[t] = usb[t] /\ Len(usbGot'[t]) = g
      BY <1>1
    <3> HIDE DEF c, g
    <3>5. CASE Usb!Online(t) /\ t = serves
      <4>1. /\ Follows(c \o p, t, g, usb[t].payload, said[t] + n)
            /\ Whole(c \o p, t, g, usb[t].payload, said[t] + n)
        BY <1>1, <2>3, <3>1, <3>2, <3>3, <3>5, OwnComes DEF p
      <4>2. said'[t] = said[t] + n /\ g <= said'[t]
        BY <1>1, <2>3, <3>1, <3>2, <3>5
      <4> QED
        BY <3>1, <3>3, <3>4, <3>5, <4>1, <4>2 DEF StreamOf
    <3>6. CASE Usb!Online(t) /\ t # serves
      <4>1. /\ Follows(c \o p, t, g, usb[t].payload, said[t])
            /\ Whole(c \o p, t, g, usb[t].payload, said[t])
        BY <1>1, <2>3, <3>1, <3>2, <3>3, <3>6, OtherComes DEF p
      <4> QED
        BY <1>1, <2>3, <3>1, <3>2, <3>3, <3>4, <3>6, <4>1 DEF StreamOf
    <3>7. CASE ~Usb!Online(t)
      <4>1. said'[t] \in Nat /\ said[t] <= said'[t]
        BY <1>1, <2>3
      <4>2. Follows(c, t, g, usb[t].payload, said'[t])
        BY <2>3, <3>1, <3>2, <3>3, <4>1, FollowsMore
      <4> QED
        BY <2>3, <3>1, <3>2, <3>3, <3>4, <3>7, <4>1, <4>2 DEF StreamOf
    <3> QED
      BY <3>5, <3>6, <3>7
  <2> QED
    BY <2>1, <2>2, <2>4, <2>5
<1> QED
  BY <1>4, <1>5, <1>6 DEF UsbInv

\* Timers of a mark.
LEMMA CountedUp ==
    ASSUME NEW D, NEW f \in [D -> Nat], NEW x
    PROVE  /\ [f EXCEPT ![x] = @ + 1] \in [D -> Nat]
           /\ \A n \in D : [f EXCEPT ![x] = @ + 1][n] = IF n = x THEN f[n] + 1 ELSE f[n]
<1> DEFINE g == [f EXCEPT ![x] = @ + 1]
<1>1. CASE x \in D
  <2>1. f[x] + 1 \in Nat
    BY <1>1
  <2> QED
    BY <1>1, <2>1
<1>2. CASE x \notin D
  <2>1. \A n \in D : g[n] = f[n]
    BY <1>2
  <2>2. g = [n \in D |-> f[n]]
    BY <1>2
  <2> QED
    BY <1>2, <2>1, <2>2
<1> QED
  BY <1>1, <1>2

LEMMA CountedDown ==
    ASSUME NEW D, NEW f \in [D -> Nat], NEW x \in D, f[x] > 0
    PROVE  /\ [f EXCEPT ![x] = @ - 1] \in [D -> Nat]
           /\ \A n \in D : n # x => [f EXCEPT ![x] = @ - 1][n] = f[n]
<1>1. f[x] - 1 \in Nat
  OBVIOUS
<1> QED
  BY <1>1

\* Taking a session down begins with a mark in it and in the entry of its device.
LEMMA FreeingFacts ==
    ASSUME UsbInv, NEW s \in UsbSession, Usb!FreeSession(s)
    PROVE  /\ ses' \in [UsbSession -> SesType] /\ entry' \in EntryType(sc.plugs)
           /\ entry'.node = entry.node
           /\ \A t \in UsbSession : t # s => ses'[t] = ses[t]
           /\ ses'[s].stage = ses[s].stage /\ ses'[s].child = ses[s].child /\ ses'[s].dead
           /\ ses'[s].freeing = IF ses[s].dead THEN ses[s].freeing ELSE "cancel"
<1>1. /\ ses \in [UsbSession -> SesType] /\ entry \in EntryType(sc.plugs)
      /\ ses' = [ses EXCEPT ![s] = Usb!Freed(@)] /\ entry' = Usb!Told(s, entry)
  BY DEF UsbInv, Typed, Usb!FreeSession
<1>2. /\ Usb!Freed(ses[s]) \in SesType
      /\ Usb!Freed(ses[s]).stage = ses[s].stage /\ Usb!Freed(ses[s]).child = ses[s].child
      /\ Usb!Freed(ses[s]).dead
      /\ Usb!Freed(ses[s]).freeing = IF ses[s].dead THEN ses[s].freeing ELSE "cancel"
  BY <1>1 DEF Usb!Freed, SesType
<1>3. Usb!Told(s, entry) \in EntryType(sc.plugs) /\ Usb!Told(s, entry).node = entry.node
  BY <1>1 DEF Usb!Told, Usb!Offline, EntryType
<1> QED
  BY <1>1, <1>2, <1>3

\* What FreeSession means for what is known of the session.
LEMMA FreedStays ==
    ASSUME UsbInv, NEW s \in UsbSession, Usb!FreeSession(s), ses[s].stage \notin {"none", "pre"},
           usbOut' = usbOut, reader' = reader, usbReading' = usbReading, usb' = usb, plugs' = plugs, async' \subseteq async,
           \A t \in UsbSession : t # s \/ reader[t] # "off" \/ ses[t].child # "none" => cleaner'[t] = cleaner[t]
    PROVE  \A t \in UsbSession : TakenOf(t)' /\ HeldOf(t)'
<1>1. /\ \A t \in UsbSession : t # s => ses'[t] = ses[t]
      /\ ses'[s].stage = ses[s].stage /\ ses'[s].child = ses[s].child /\ ses'[s].dead
      /\ ses'[s].freeing = IF ses[s].dead THEN ses[s].freeing ELSE "cancel"
  BY FreeingFacts
<1>2. ASSUME NEW t \in UsbSession, t # s
      PROVE  TakenOf(t)' /\ HeldOf(t)'
  BY <1>1, <1>2, TakenStays, HeldStays DEF UsbInv
<1>3. TakenOf(s)'
  BY <1>1 DEF UsbInv, TakenOf, Reading, Usb!Lives
<1>4. HeldOf(s)'
  BY <1>1, HeldStays DEF UsbInv
<1> QED
  BY <1>2, <1>3, <1>4

LEMMA StepAsyncFree ==
    ASSUME UsbInv, NEW s \in UsbSession, Usb!AsyncFree(s), UNCHANGED sc
    PROVE  UsbInv'
<1> USE DEF Usb!io, Usb!device
<1>1. /\ s \in async /\ async' = async \ {s} /\ Usb!FreeSession(s)
      /\ UNCHANGED <<sc, Usb!device, ignore, delayed, Usb!io, cleaner, sends, tries>>
  BY DEF Usb!AsyncFree
<1>2. /\ ses' \in [UsbSession -> SesType] /\ entry' \in EntryType(sc.plugs)
      /\ entry'.node = entry.node
      /\ \A t \in UsbSession : t # s => ses'[t] = ses[t]
      /\ ses'[s].stage = ses[s].stage /\ ses'[s].child = ses[s].child /\ ses'[s].dead
      /\ ses'[s].freeing = IF ses[s].dead THEN ses[s].freeing ELSE "cancel"
  BY <1>1, FreeingFacts
<1>3. Typed'
  BY <1>1, <1>2 DEF UsbInv, Typed
<1>4. Attached' /\ Marks'
  BY <1>1, <1>2 DEF UsbInv, Attached, Marks
<1>5. ses[s].stage \notin {"none", "pre"}
  BY <1>1 DEF UsbInv, HeldOf
<1>6. \A t \in UsbSession : TakenOf(t)' /\ HeldOf(t)'
  <2>1. /\ usbOut' = usbOut /\ reader' = reader /\ usbReading' = usbReading /\ usb' = usb
        /\ plugs' = plugs
        /\ async' \subseteq async /\ cleaner' = cleaner
    BY <1>1
  <2> QED
    BY <1>1, <1>5, <2>1, FreedStays
<1>7. ASSUME NEW t \in UsbSession
      PROVE  FreshOf(t)' /\ StreamOf(t)'
  BY <1>1, <1>2, FreshStays, ComingStays, StreamStays DEF UsbInv
<1> QED
  BY <1>3, <1>4, <1>6, <1>7 DEF UsbInv

LEMMA StepChildStops ==
    ASSUME UsbInv, NEW s \in UsbSession, Usb!ChildStops(s), UNCHANGED sc
    PROVE  UsbInv'
<1> USE DEF Usb!io, Usb!device, Usb!finder
<1>1. /\ ses[s].freeing = "child" /\ ses[s].child = "started" /\ usbOut[s].by # "child"
      /\ ses' = [ses EXCEPT ![s].child = "cleared"]
      /\ UNCHANGED <<sc, Usb!device, Usb!finder, Usb!io, cleaner, async, sends, tries>>
  BY DEF Usb!ChildStops
<1>2. /\ ses' \in [UsbSession -> SesType]
      /\ \A t \in UsbSession : t # s => ses'[t] = ses[t]
      /\ ses'[s].stage = ses[s].stage /\ ses'[s].child = "cleared" /\ ses'[s].dead = ses[s].dead
      /\ ses'[s].freeing = ses[s].freeing
  BY <1>1 DEF UsbInv, Typed, SesType
<1>3. Typed'
  BY <1>1, <1>2 DEF UsbInv, Typed
<1>4. Attached' /\ Marks'
  BY <1>1, <1>2 DEF UsbInv, Attached, Marks
<1>5. ASSUME NEW t \in UsbSession
      PROVE  TakenOf(t)' /\ HeldOf(t)' /\ FreshOf(t)' /\ StreamOf(t)'
  <2>1. TakenOf(t)'
    BY <1>1, <1>2 DEF UsbInv, TakenOf, Reading, Usb!Lives
  <2>2. HeldOf(t)'
    BY <1>1, <1>2 DEF UsbInv, HeldOf
  <2>3. FreshOf(t)'
    BY <1>1, <1>2 DEF UsbInv, FreshOf
  <2>4. StreamOf(t)'
    BY <1>1, ComingStays, StreamStays DEF UsbInv
  <2> QED
    BY <2>1, <2>2, <2>3, <2>4
<1> QED
  BY <1>3, <1>4, <1>5 DEF UsbInv

\* The modules count in the same way.
LEMMA SameCount ==
    ASSUME NEW S
    PROVE  Usb!Cardinality(S) = Cardinality(S)
  BY DEF Usb!Cardinality, Cardinality

\* No reference is left: the reader is out, and nothing is being sent.
LEMMA NoReference ==
    ASSUME NEW s \in UsbSession, Usb!Ref(s) = 0
    PROVE  ~Reading(s) /\ ~usbOut[s].submitted /\ ~usbOut[s].failed
<1> DEFINE R == {x \in {"in"} : reader[s] \in {"top", "submit", "wait", "got", "reset", "resetting"}}
                \cup {x \in {"out"} : usbOut[s].submitted \/ usbOut[s].failed}
<1>1. IsFiniteSet({"in", "out"})
  <2>1. IsFiniteSet({"in"}) /\ {"in", "out"} = {"in"} \cup {"out"}
    BY FS_Singleton
  <2> QED
    BY <2>1, FS_AddElement
<1>2. R \subseteq {"in", "out"}
  OBVIOUS
<1>3. IsFiniteSet(R) /\ Cardinality(R) = 0
  BY <1>1, <1>2, FS_Subset, SameCount DEF Usb!Ref
<1>4. R = {}
  BY <1>3, FS_EmptySet
<1> QED
  BY <1>4 DEF Reading

\* What CancelUsbIo and the end of a session do to a transport.
LEMMA TransportFacts ==
    ASSUME NEW m, NEW u \in UsbType(m), 0 \in Address(m)
    PROVE  /\ Usb!Shut(u) \in UsbType(m) /\ Usb!Deleted(u) \in UsbType(m)
           /\ Usb!Shut(u).handle = u.handle /\ Usb!Shut(u).payload = u.payload
           /\ Usb!Shut(u).began = u.began
           /\ Usb!Deleted(u).handle = 0 /\ Usb!Deleted(u).payload = u.began
           /\ Usb!Deleted(u).began = u.began
  BY DEF Usb!Shut, Usb!Deleted, Usb!NewUsb, UsbType

LEMMA ContinuedFacts ==
    ASSUME NEW x \in SesType
    PROVE  /\ Usb!Continued(x) \in SesType
           /\ Usb!Continued(x).stage = x.stage /\ Usb!Continued(x).child = x.child
           /\ Usb!Continued(x).dead = x.dead
           /\ Usb!Continued(x).freeing = "final"
  BY DEF Usb!Continued, SesType

\* The session is deleted when nobody is left who uses it.
LEMMA ContinueStays ==
    ASSUME UsbInv, NEW s \in UsbSession, ses' = [ses EXCEPT ![s] = Usb!Continued(@)],
           usb' = [usb EXCEPT ![s] = Usb!Deleted(@)],
           ses[s].freeing \notin {"no", "final", "gone"}, ~Reading(s), ses[s].child \in {"none", "cleared"},
           UNCHANGED <<sc, Usb!device, Usb!finder, reader, usbReading, usbOut, usbGot, cleaner,
                       async, sends, tries>>,
           cancelled' \subseteq UsbSession \X {"in", "out"}
    PROVE  UsbInv'
<1> USE DEF Usb!device, Usb!finder
<1>1. /\ ses' \in [UsbSession -> SesType]
      /\ \A t \in UsbSession : t # s => ses'[t] = ses[t]
      /\ ses'[s].stage = ses[s].stage /\ ses'[s].child = ses[s].child /\ ses'[s].dead = ses[s].dead
      /\ ses'[s].freeing = "final"
  BY ContinuedFacts DEF UsbInv, Typed
<1>2. 0 \in Address(sc.plugs)
  BY DEF UsbInv, Typed, Usb!ScenarioType, Address
<1>3. /\ usb' \in [UsbSession -> UsbType(sc.plugs)]
      /\ \A t \in UsbSession : t # s => usb'[t] = usb[t]
      /\ usb'[s].handle = 0 /\ usb'[s].payload = usb[s].began /\ usb'[s].began = usb[s].began
  BY <1>2, TransportFacts DEF UsbInv, Typed
<1>4. Typed'
  BY <1>1, <1>3 DEF UsbInv, Typed
<1>5. Attached'
  BY DEF UsbInv, Attached
<1>6. Marks'
  BY <1>1 DEF UsbInv, Marks
<1>7. ASSUME NEW t \in UsbSession
      PROVE  TakenOf(t)' /\ HeldOf(t)' /\ FreshOf(t)' /\ StreamOf(t)'
  <2>1. TakenOf(t)'
    <3>1. CASE t = s
      <4>1. usbOut[s] = Usb!NoBlock
        BY DEF UsbInv, TakenOf, Reading, Typed, OutType
      <4> QED
        BY <1>1, <1>3, <3>1, <4>1 DEF UsbInv, TakenOf, Reading, Usb!Lives
    <3>2. CASE t # s
      BY <1>1, <1>3, <3>2, TakenStays DEF UsbInv
    <3> QED
      BY <3>1, <3>2
  <2>2. HeldOf(t)'
    <3>1. HeldOf(t) /\ HeldOf(s) /\ plugs \in Nat
      BY DEF UsbInv, Typed, Address, Usb!ScenarioType
    <3>2. ses[s].stage \notin {"none", "pre"}
      BY <3>1 DEF HeldOf, UsbInv, TakenOf
    <3> QED
      BY <1>1, <1>3, <3>1, <3>2 DEF HeldOf
  <2>3. FreshOf(t)'
    BY <1>1, <1>3 DEF UsbInv, FreshOf
  <2>4. StreamOf(t)'
    <3>1. CASE t = s
      BY <1>3, <3>1 DEF UsbInv, StreamOf, Reading
    <3>2. CASE t # s
      <4>1. usb'[t] = usb[t]
        BY <1>3, <3>2
      <4> QED
        BY <4>1, ComingStays, StreamStays DEF UsbInv
    <3> QED
      BY <3>1, <3>2
  <2> QED
    BY <2>1, <2>2, <2>3, <2>4
<1> QED
  BY <1>4, <1>5, <1>6, <1>7 DEF UsbInv

LEMMA StepFreeSessionContinue ==
    ASSUME UsbInv, NEW s \in UsbSession, Usb!FreeSessionContinue(s), UNCHANGED sc
    PROVE  UsbInv'
<1>1. ~Reading(s) /\ cancelled' \subseteq UsbSession \X {"in", "out"}
  BY DEF UsbInv, Typed, TakenOf, Usb!FreeSessionContinue
<1> QED
  BY <1>1, ContinueStays DEF Usb!FreeSessionContinue

\* Endpoints are shut, or the session goes on to its end once they are.
LEMMA StepFreeSessionOpeate ==
    ASSUME UsbInv, NEW s \in UsbSession, Usb!FreeSessionOpeate(s), UNCHANGED sc
    PROVE  UsbInv'
<1> USE DEF Usb!device, Usb!finder
<1>1. /\ ses[s].freeing = "cancel"
      /\ UNCHANGED <<sc, Usb!device, Usb!finder, reader, usbReading, usbOut, usbGot, cleaner, async, sends, tries>>
  BY DEF Usb!FreeSessionOpeate
<1>2. CASE usb' = [usb EXCEPT ![s] = Usb!Shut(@)] /\ cancelled' = cancelled \cup Usb!ToCancel(s) /\ UNCHANGED ses
  <2>1. 0 \in Address(sc.plugs)
    BY DEF UsbInv, Typed, Usb!ScenarioType, Address
  <2>2. /\ usb' \in [UsbSession -> UsbType(sc.plugs)]
        /\ \A t \in UsbSession : /\ usb'[t].handle = usb[t].handle
                                 /\ usb'[t].payload = usb[t].payload /\ usb'[t].began = usb[t].began
    BY <1>2, <2>1, TransportFacts DEF UsbInv, Typed
  <2>3. cancelled' \subseteq UsbSession \X {"in", "out"}
    BY <1>2 DEF UsbInv, Typed, Usb!ToCancel
  <2>4. Typed'
    BY <1>1, <1>2, <2>2, <2>3 DEF UsbInv, Typed
  <2>5. Attached' /\ Marks'
    BY <1>1, <1>2 DEF UsbInv, Attached, Marks
  <2>6. ASSUME NEW t \in UsbSession
        PROVE  TakenOf(t)' /\ HeldOf(t)' /\ FreshOf(t)' /\ StreamOf(t)'
    BY <1>1, <1>2, <2>2, TakenStays, HeldStays, FreshStays, ComingStays, StreamStays DEF UsbInv
  <2> QED
    BY <2>4, <2>5, <2>6 DEF UsbInv
<1>3. CASE Usb!Ref(s) = 0 /\ UNCHANGED cancelled
           /\ ses[s].child = "none" /\ ses' = [ses EXCEPT ![s] = Usb!Continued(@)]
           /\ usb' = [usb EXCEPT ![s] = Usb!Deleted(@)]
  <2>1. ~Reading(s) /\ cancelled' \subseteq UsbSession \X {"in", "out"}
    BY <1>3, NoReference DEF UsbInv, Typed
  <2> QED
    BY <1>1, <1>3, <2>1, ContinueStays
<1>4. CASE Usb!Ref(s) = 0 /\ UNCHANGED cancelled
           /\ ses[s].child # "none" /\ ses' = [ses EXCEPT ![s].freeing = "child"] /\ UNCHANGED usb
  <2>1. ~Reading(s)
    BY <1>4, NoReference
  <2>2. /\ ses' \in [UsbSession -> SesType]
        /\ \A t \in UsbSession : t # s => ses'[t] = ses[t]
        /\ ses'[s].stage = ses[s].stage /\ ses'[s].child = ses[s].child
        /\ ses'[s].dead = ses[s].dead
        /\ ses'[s].freeing = "child"
    <3>1. ses \in [UsbSession -> SesType] /\ ses' = [ses EXCEPT ![s].freeing = "child"]
      BY <1>4 DEF UsbInv, Typed
    <3> QED
      BY ONLY <3>1, s \in UsbSession DEF SesType
  <2>3. Typed'
    BY <1>1, <1>4, <2>2 DEF UsbInv, Typed
  <2>4. Attached' /\ Marks'
    BY <1>1, <2>2 DEF UsbInv, Attached, Marks
  <2>5. ASSUME NEW t \in UsbSession
        PROVE  TakenOf(t)' /\ HeldOf(t)' /\ FreshOf(t)' /\ StreamOf(t)'
    <3>1. TakenOf(t)'
      BY <1>1, <1>4, <2>1, <2>2 DEF UsbInv, TakenOf, Reading, Usb!Lives
    <3>2. HeldOf(t)'
      BY <1>1, <1>4, <2>2 DEF UsbInv, HeldOf
    <3>3. FreshOf(t)'
      BY <1>1, <1>4, <2>2 DEF UsbInv, FreshOf
    <3>4. StreamOf(t)'
      BY <1>1, <1>4, ComingStays, StreamStays DEF UsbInv
    <3> QED
      BY <3>1, <3>2, <3>3, <3>4
  <2> QED
    BY <2>3, <2>4, <2>5 DEF UsbInv
<1> QED
  BY <1>2, <1>3, <1>4 DEF Usb!FreeSessionOpeate

\* The device may be found again after a while.
LEMMA StepFreeSessionFinally ==
    ASSUME UsbInv, NEW s \in UsbSession, Usb!FreeSessionFinally(s), UNCHANGED sc
    PROVE  UsbInv'
<1> USE DEF Usb!io, Usb!device
<1>1. /\ ses[s].freeing = "final" /\ ses' = [ses EXCEPT ![s].freeing = "gone"]
      /\ delayed' = [delayed EXCEPT ![entry.node] = @ + 1]
      /\ UNCHANGED <<sc, Usb!device, ignore, entry, Usb!io, cleaner, async, sends, tries>>
  BY DEF Usb!FreeSessionFinally
<1>2. /\ ses' \in [UsbSession -> SesType]
      /\ \A t \in UsbSession : t # s => ses'[t] = ses[t]
      /\ ses'[s].stage = ses[s].stage /\ ses'[s].child = ses[s].child /\ ses'[s].dead = ses[s].dead
      /\ ses'[s].freeing = "gone"
  <2>1. ses \in [UsbSession -> SesType]
    BY DEF UsbInv, Typed
  <2>2. PICK r : r = [ses[s] EXCEPT !.freeing = "gone"]
    OBVIOUS
  <2>3. r \in SesType /\ r.stage = ses[s].stage /\ r.child = ses[s].child /\ r.dead = ses[s].dead
        /\ r.freeing = "gone"
    BY ONLY <2>1, <2>2, s \in UsbSession DEF SesType
  <2>4. ses' = [ses EXCEPT ![s] = r]
    BY ONLY <1>1, <2>2
  <2> QED
    BY ONLY <2>1, <2>3, <2>4, s \in UsbSession
<1>3. /\ delayed \in [1..sc.plugs -> Nat] /\ delayed' \in [1..sc.plugs -> Nat]
      /\ \A n \in 1..sc.plugs : delayed[n] > 0 => delayed'[n] > 0
      /\ entry.node \in 1..sc.plugs => delayed'[entry.node] > 0
  <2>1. delayed \in [1..sc.plugs -> Nat] /\ delayed' = [delayed EXCEPT ![entry.node] = @ + 1]
    BY <1>1 DEF UsbInv, Typed
  <2>2. \A n \in 1..sc.plugs :
            delayed[n] \in Nat /\ delayed'[n] = IF n = entry.node THEN delayed[n] + 1 ELSE delayed[n]
    BY <2>1, CountedUp
  <2>3. delayed' \in [1..sc.plugs -> Nat]
    BY <2>1, CountedUp
  <2> QED
    BY ONLY <2>1, <2>2, <2>3
<1>4. Typed'
  BY <1>1, <1>2, <1>3 DEF UsbInv, Typed
<1>5. Attached' /\ Marks'
  <2>1. node \in 0..sc.plugs /\ sc.plugs \in Nat
    BY DEF UsbInv, Typed, Usb!ScenarioType, Address
  <2> QED
    BY <1>1, <1>3, <2>1 DEF UsbInv, Attached, Marks
<1>6. ASSUME NEW t \in UsbSession
      PROVE  TakenOf(t)' /\ HeldOf(t)' /\ FreshOf(t)' /\ StreamOf(t)'
  <2>1. TakenOf(t)'
    BY <1>1, <1>2 DEF UsbInv, TakenOf, Reading, Usb!Lives
  <2>2. HeldOf(t)'
    BY <1>1, <1>2, HeldStays DEF UsbInv
  <2>3. FreshOf(t)'
    BY <1>1, <1>2 DEF UsbInv, FreshOf
  <2>4. StreamOf(t)'
    BY <1>1, ComingStays, StreamStays DEF UsbInv
  <2> QED
    BY <2>1, <2>2, <2>3, <2>4
<1> QED
  BY <1>4, <1>5, <1>6 DEF UsbInv

\* The timer of an earlier mark.
LEMMA StepRemoveIgnoreDevice ==
    ASSUME UsbInv, NEW n \in Usb!Node, Usb!RemoveIgnoreDevice(n), UNCHANGED sc
    PROVE  UsbInv'
<1> USE DEF Usb!io, Usb!device
<1>1. /\ n \in 1..sc.plugs /\ delayed[n] > 0
      /\ delayed' = [delayed EXCEPT ![n] = @ - 1] /\ ignore' = [ignore EXCEPT ![n] = "none"]
      /\ UNCHANGED <<sc, Usb!device, entry, ses, Usb!io, cleaner, async, sends, tries>>
  BY DEF Usb!RemoveIgnoreDevice, Usb!Node
<1>2. /\ delayed \in [1..sc.plugs -> Nat]
      /\ ignore \in [1..sc.plugs -> {"none", "IGNORE", "REGISTER"}]
      /\ \A x \in 1..sc.plugs : x # n => delayed'[x] = delayed[x] /\ ignore'[x] = ignore[x]
      /\ ignore'[n] = "none" /\ delayed' \in [1..sc.plugs -> Nat]
      /\ ignore' \in [1..sc.plugs -> {"none", "IGNORE", "REGISTER"}]
  <2>1. delayed \in [1..sc.plugs -> Nat] /\ ignore \in [1..sc.plugs -> {"none", "IGNORE", "REGISTER"}]
    BY DEF UsbInv, Typed
  <2>2. /\ delayed' \in [1..sc.plugs -> Nat]
        /\ \A x \in 1..sc.plugs : x # n => delayed'[x] = delayed[x]
    BY <1>1, <2>1, CountedDown
  <2>3. /\ \A x \in 1..sc.plugs : x # n => ignore'[x] = ignore[x]
        /\ ignore'[n] = "none" /\ ignore' \in [1..sc.plugs -> {"none", "IGNORE", "REGISTER"}]
    BY <1>1, <2>1
  <2> QED
    BY <2>1, <2>2, <2>3
<1>3. Typed'
  BY <1>1, <1>2 DEF UsbInv, Typed
<1>4. Attached' /\ Marks'
  <2>1. node \in 0..sc.plugs
    BY DEF UsbInv, Typed, Address
  <2> QED
    BY <1>1, <1>2, <2>1 DEF UsbInv, Attached, Marks
<1>5. ASSUME NEW t \in UsbSession
      PROVE  TakenOf(t)' /\ HeldOf(t)' /\ FreshOf(t)' /\ StreamOf(t)'
  BY <1>1, TakenStays, HeldStays, FreshStays, ComingStays, StreamStays DEF UsbInv
<1> QED
  BY <1>3, <1>4, <1>5 DEF UsbInv

\* Zombies that are kicked out, and what of the session of the entry.
KnownAfter(kicked) == [s \in UsbSession |-> IF s \in kicked THEN Usb!Freed(ses[s]) ELSE ses[s]]
EntryAfter(kicked) == IF \E s \in kicked : ~ses[s].dead THEN Usb!Offline(entry) ELSE entry

LEMMA Kicked ==
    ASSUME UsbInv, NEW kicked \in SUBSET {s \in UsbSession : Usb!KickoutZombie(s)}, NEW known, NEW e,
           known = KnownAfter(kicked), e = EntryAfter(kicked)
    PROVE  /\ known \in [UsbSession -> SesType] /\ e \in EntryType(sc.plugs) /\ e.node = entry.node
           /\ \A s \in UsbSession :
                 /\ known[s] = ses[s] \/ (ses[s].stage # "none" /\ Usb!Lives(s) /\ usb[s].handle # 0)
                 /\ known[s].stage = ses[s].stage /\ known[s].child = ses[s].child
                 /\ known[s] = ses[s] \/
                       (known[s].dead /\ known[s].freeing = IF ses[s].dead THEN ses[s].freeing ELSE "cancel")
<1>1. ses \in [UsbSession -> SesType] /\ entry \in EntryType(sc.plugs)
  BY DEF UsbInv, Typed
<1>2. \A x \in SesType :
          /\ Usb!Freed(x) \in SesType /\ Usb!Freed(x).stage = x.stage
          /\ Usb!Freed(x).child = x.child /\ Usb!Freed(x).dead
          /\ Usb!Freed(x).freeing = IF x.dead THEN x.freeing ELSE "cancel"
  BY DEF Usb!Freed, SesType
<1>3. Usb!Offline(entry) \in EntryType(sc.plugs) /\ Usb!Offline(entry).node = entry.node
  BY <1>1 DEF Usb!Offline, EntryType
<1>4. \A s \in kicked : s \in UsbSession /\ ses[s].stage # "none" /\ Usb!Lives(s) /\ usb[s].handle # 0
  BY DEF Usb!KickoutZombie
<1> QED
  BY <1>1, <1>2, <1>3, <1>4 DEF KnownAfter, EntryAfter

\* What the kicking out means, whether a device is found or not.
LEMMA KickedStays ==
    ASSUME UsbInv, NEW t \in UsbSession,
           ses'[t].stage = ses[t].stage, ses'[t].child = ses[t].child,
           \/ ses'[t] = ses[t]
           \/ /\ ses[t].stage # "none" /\ Usb!Lives(t) /\ usb[t].handle # 0
              /\ ses'[t].dead /\ ses'[t].freeing = IF ses[t].dead THEN ses[t].freeing ELSE "cancel",
           \A x \in UsbSession : usb'[x].handle = usb[x].handle,
           usb'[t].payload = usb[t].payload, usb'[t].began = usb[t].began,
           UNCHANGED <<node, plugs, usbWire, serves, said, reader, usbReading, usbOut, usbGot,
                       cleaner, async>>
    PROVE  TakenOf(t)' /\ HeldOf(t)' /\ FreshOf(t)' /\ StreamOf(t)'
<1>1. TakenOf(t)'
  BY DEF UsbInv, TakenOf, Reading, Usb!Lives
<1>2. HeldOf(t)'
  <2>1. ses[t].stage \in {"none", "pre"} => ses'[t] = ses[t]
    BY DEF UsbInv, HeldOf
  <2> QED
    BY <2>1, HeldStays DEF UsbInv
<1>3. FreshOf(t)'
  BY FreshStays DEF UsbInv
<1>4. StreamOf(t)'
  BY ComingStays, StreamStays DEF UsbInv
<1> QED
  BY <1>1, <1>2, <1>3, <1>4

LEMMA StepWatchUsbNodeChange ==
    ASSUME UsbInv, Usb!WatchUsbNodeChange, UNCHANGED sc
    PROVE  UsbInv'
<1> USE DEF Usb!device
<1>1. UNCHANGED <<sc, Usb!device, reader, usbReading, usbOut, cancelled, usbGot, cleaner, async,
                  sends>>
  BY DEF Usb!WatchUsbNodeChange
<1>2. PICK kicked \in SUBSET {s \in UsbSession : Usb!KickoutZombie(s)} :
          LET known == [s \in UsbSession |-> IF s \in kicked THEN Usb!Freed(ses[s]) ELSE ses[s]]
              e == IF \E s \in kicked : ~ses[s].dead THEN Usb!Offline(entry) ELSE entry
          IN IF node = 0 \/ ignore[node] # "none"
             THEN ses' = known /\ entry' = e /\ UNCHANGED <<ignore, delayed, usb, tries>>
             ELSE Usb!DetectMyNeed(known) \/ Usb!ReviewUsbNodeLater(known, e)
  BY DEF Usb!WatchUsbNodeChange
<1>0. PICK known, e : known = KnownAfter(kicked) /\ e = EntryAfter(kicked)
  OBVIOUS
<1>3. \/ ses' = known /\ entry' = e /\ UNCHANGED <<ignore, delayed, usb, tries>>
      \/ node # 0 /\ ignore[node] = "none" /\ Usb!DetectMyNeed(known)
      \/ node # 0 /\ Usb!ReviewUsbNodeLater(known, e)
  BY <1>0, <1>2 DEF KnownAfter, EntryAfter
<1>4. /\ known \in [UsbSession -> SesType] /\ e \in EntryType(sc.plugs) /\ e.node = entry.node
      /\ \A s \in UsbSession :
            /\ known[s] = ses[s] \/ (ses[s].stage # "none" /\ Usb!Lives(s) /\ usb[s].handle # 0)
            /\ known[s].stage = ses[s].stage /\ known[s].child = ses[s].child
            /\ known[s] = ses[s] \/
                  (known[s].dead /\ known[s].freeing = IF ses[s].dead THEN ses[s].freeing ELSE "cancel")
  BY <1>0, Kicked
<1>5. /\ node \in 0..sc.plugs /\ sc.plugs \in Nat /\ plugs \in 0..sc.plugs
      /\ delayed \in [1..sc.plugs -> Nat]
      /\ ignore \in [1..sc.plugs -> {"none", "IGNORE", "REGISTER"}]
      /\ tries \in 0..sc.tries /\ sc.tries \in Nat /\ node \in {0, plugs}
      /\ usb \in [UsbSession -> UsbType(sc.plugs)]
      /\ sc.sessions \subseteq UsbSession /\ sc.memory \subseteq [payload : Nat, resetIO : BOOLEAN]
  BY DEF UsbInv, Typed, Usb!ScenarioType, Address, Attached
<1>6. Attached'
  BY <1>1 DEF UsbInv, Attached
\* No session goes away here.
<1>7. \A s \in UsbSession : ses[s].stage # "none" /\ ses[s].freeing # "gone" => known[s].freeing # "gone"
  BY <1>4
<1>8. CASE ses' = known /\ entry' = e /\ UNCHANGED <<ignore, delayed, usb, tries>>
  <2>1. Typed'
    BY <1>1, <1>4, <1>8 DEF UsbInv, Typed
  <2>2. Marks'
    BY <1>1, <1>4, <1>7, <1>8 DEF UsbInv, Marks
  <2>3. ASSUME NEW t \in UsbSession
        PROVE  TakenOf(t)' /\ HeldOf(t)' /\ FreshOf(t)' /\ StreamOf(t)'
    BY <1>1, <1>4, <1>8, KickedStays
  <2> QED
    BY <1>6, <2>1, <2>2, <2>3 DEF UsbInv
<1>9. CASE node # 0 /\ Usb!ReviewUsbNodeLater(known, e)
  <2>1. /\ (tries' = tries \/ (tries < sc.tries /\ tries' = tries + 1)) /\ ses' = known /\ entry' = e /\ usb' = usb
        /\ ignore' = [ignore EXCEPT ![node] = "IGNORE"]
        /\ delayed' = [delayed EXCEPT ![node] = @ + 1] /\ node \in 1..sc.plugs
    <3>1. /\ tries' = tries \/ (tries < sc.tries /\ tries' = tries + 1)
          /\ ses' = known /\ entry' = e /\ usb' = usb
          /\ ignore' = [ignore EXCEPT ![node] = "IGNORE"]
          /\ delayed' = [delayed EXCEPT ![node] = @ + 1]
      BY ONLY <1>9 DEF Usb!ReviewUsbNodeLater
    <3>2. node \in 1..sc.plugs
      BY ONLY <1>5, <1>9
    <3> QED
      BY ONLY <3>1, <3>2
  <2>2. /\ tries' \in 0..sc.tries /\ delayed' \in [1..sc.plugs -> Nat]
        /\ ignore' \in [1..sc.plugs -> {"none", "IGNORE", "REGISTER"}]
        /\ delayed'[node] > 0 /\ ignore'[node] = "IGNORE"
        /\ \A n \in 1..sc.plugs : n # node => delayed'[n] = delayed[n] /\ ignore'[n] = ignore[n]
    <3>1. tries' \in 0..sc.tries
      BY ONLY <1>5, <2>1
    <3>2. delayed[node] \in Nat /\ delayed[node] + 1 \in Nat /\ delayed[node] + 1 > 0
      <4>1. delayed \in [1..sc.plugs -> Nat] /\ node \in 1..sc.plugs
        BY ONLY <1>5, <2>1
      <4>2. PICK k : k = delayed[node] /\ k \in Nat
        BY ONLY <4>1, Zenon
      <4>3. k + 1 \in Nat /\ k + 1 > 0
        BY ONLY <4>2
      <4> QED
        BY ONLY <4>2, <4>3, Zenon
    <3>3. delayed' \in [1..sc.plugs -> Nat] /\ delayed'[node] > 0
          /\ \A n \in 1..sc.plugs : n # node => delayed'[n] = delayed[n]
      BY ONLY <1>5, <2>1, <3>2
    <3>4. /\ ignore' \in [1..sc.plugs -> {"none", "IGNORE", "REGISTER"}] /\ ignore'[node] = "IGNORE"
          /\ \A n \in 1..sc.plugs : n # node => ignore'[n] = ignore[n]
      BY ONLY <1>5, <2>1
    <3> QED
      BY ONLY <3>1, <3>3, <3>4
  <2>3. Typed'
    BY <1>1, <1>4, <2>1, <2>2 DEF UsbInv, Typed
  <2>4. Marks'
    BY <1>1, <1>5, <2>1, <2>2 DEF UsbInv, Marks
  <2>5. ASSUME NEW t \in UsbSession
        PROVE  TakenOf(t)' /\ HeldOf(t)' /\ FreshOf(t)' /\ StreamOf(t)'
    BY <1>1, <1>4, <2>1, KickedStays
  <2> QED
    BY <1>6, <2>3, <2>4, <2>5 DEF UsbInv
<1>10. CASE node # 0 /\ ignore[node] = "none" /\ Usb!DetectMyNeed(known)
  <2>0. PICK new : new = Usb!NewSession
    OBVIOUS
  <2>1. /\ new \in UsbSession /\ ses[new].stage = "none" /\ node \in 1..sc.plugs
        /\ ses' = [known EXCEPT ![new].stage = "pre"]
        /\ entry' = Usb!Entry(node, "READY", None)
        /\ ignore' = [ignore EXCEPT ![node] = "REGISTER"]
        /\ UNCHANGED <<delayed, tries>>
    BY <1>5, <1>10, <2>0 DEF Usb!DetectMyNeed, Usb!NewSession
  <2>2. PICK memory \in sc.memory : usb' = [usb EXCEPT ![new] = Usb!NewUsb(memory)]
    BY <1>10, <2>0 DEF Usb!DetectMyNeed
  <2>3. /\ Usb!NewUsb(memory) \in UsbType(sc.plugs) /\ Usb!NewUsb(memory).handle = 0
        /\ Usb!NewUsb(memory).payload = Usb!NewUsb(memory).began
    BY <1>5 DEF Usb!NewUsb, UsbType, Address
  <2>4. /\ usb' \in [UsbSession -> UsbType(sc.plugs)]
        /\ \A t \in UsbSession : t # new => usb'[t] = usb[t]
        /\ usb'[new].handle = 0 /\ usb'[new].payload = usb'[new].began
    BY <1>5, <2>1, <2>2, <2>3
  <2>5. /\ usb[new].handle = 0 /\ ~ses[new].dead /\ ses[new].child = "none" /\ known[new] = ses[new]
        /\ cleaner[new] = "no" /\ new \notin async /\ reader[new] = "off" /\ usbGot[new] = <<>>
        /\ ses[new].freeing = "no"
    BY <1>4, <2>1 DEF UsbInv, HeldOf, FreshOf, TakenOf
  <2>6. /\ ses' \in [UsbSession -> SesType]
        /\ \A t \in UsbSession : t # new => ses'[t] = known[t]
        /\ ses'[new].stage = "pre" /\ ses'[new].dead = ses[new].dead
        /\ ses'[new].child = ses[new].child
        /\ ses'[new].freeing = ses[new].freeing
    BY <1>4, <2>1, <2>5 DEF SesType
  <2>7. entry' \in EntryType(sc.plugs) /\ entry'.node = node
    BY <1>5, <2>1 DEF Usb!Entry, EntryType, Address
  <2>8. Typed'
    BY <1>1, <1>5, <2>1, <2>4, <2>6, <2>7 DEF UsbInv, Typed
  <2>9. Marks'
    <3>1. \E s \in UsbSession : ses'[s].stage # "none" /\ ses'[s].freeing # "gone"
      BY <2>1, <2>5, <2>6
    <3>2. \A n \in 1..sc.plugs : n # node => ignore'[n] = ignore[n]
      BY <1>5, <2>1
    <3>3. ignore'[node] = "REGISTER"
      BY <1>5, <2>1
    <3> QED
      BY <1>1, <1>5, <2>1, <2>7, <3>1, <3>2, <3>3 DEF UsbInv, Marks
  <2>10. ASSUME NEW t \in UsbSession
         PROVE  TakenOf(t)' /\ HeldOf(t)' /\ FreshOf(t)' /\ StreamOf(t)'
    <3>1. \A x \in UsbSession : usb'[x].handle = usb[x].handle
      BY <2>4, <2>5
    <3>2. CASE t # new
      BY <1>1, <1>4, <2>4, <2>6, <3>1, <3>2, KickedStays
    <3>3. CASE t = new
      <4>1. TakenOf(new)'
        BY <1>1, <2>1, <2>4, <2>5, <2>6, TakenStays DEF UsbInv, TakenOf, Reading, Usb!Lives
      <4>2. HeldOf(new)'
        BY <1>1, <1>5, <2>1, <2>4, <2>5, <2>6 DEF UsbInv, HeldOf
      <4>3. FreshOf(new)'
        BY <1>1, <2>1, <2>4, <2>5, <2>6 DEF UsbInv, FreshOf
      <4>4. StreamOf(new)'
        BY <1>1, <2>5 DEF StreamOf, Reading
      <4> QED
        BY <3>3, <4>1, <4>2, <4>3, <4>4
    <3> QED
      BY <3>2, <3>3
  <2> QED
    BY <1>6, <2>8, <2>9, <2>10 DEF UsbInv
<1> QED
  BY <1>3, <1>8, <1>9, <1>10

\* Nobody else has the device of an entry.
LEMMA StepUsbPreConnect ==
    ASSUME UsbInv, NEW s \in UsbSession, Usb!UsbPreConnect(s), UNCHANGED sc
    PROVE  UsbInv'
<1> USE DEF Usb!device
<1>1. /\ ses[s].stage = "pre" /\ usb[s].handle = 0 /\ ~ses[s].dead /\ cleaner[s] = "no"
      /\ ses[s].child = "none" /\ s \notin async /\ reader[s] = "off" /\ ses[s].freeing = "no"
      /\ UNCHANGED <<sc, Usb!device, delayed, reader, usbReading, usbOut, cancelled, usbGot, async, sends>>
  BY DEF Usb!UsbPreConnect, Usb!ConnectDetectDaemon, UsbInv, HeldOf, FreshOf, TakenOf
<1>2. /\ node \in 0..sc.plugs /\ sc.plugs \in Nat /\ plugs \in 0..sc.plugs
      /\ ignore \in [1..sc.plugs -> {"none", "IGNORE", "REGISTER"}]
      /\ tries \in 0..sc.tries /\ sc.tries \in Nat /\ node \in {0, plugs}
      /\ usb \in [UsbSession -> UsbType(sc.plugs)] /\ ses \in [UsbSession -> SesType]
      /\ entry \in EntryType(sc.plugs) /\ entry.node \in 0..sc.plugs
  BY DEF UsbInv, Typed, Usb!ScenarioType, Address, Attached, EntryType
<1>3. Attached'
  BY <1>1 DEF UsbInv, Attached
<1>4. CASE /\ Usb!FindDeviceByID(TRUE)
           /\ usb' = [usb EXCEPT ![s].handle = node, ![s].mount = node]
           /\ entry' = Usb!Entry(node, "CONNECTED", s)
           /\ ses' = [ses EXCEPT ![s].stage = "clear"]
           /\ cleaner' = [cleaner EXCEPT ![s] = "reset"]
           /\ UNCHANGED ignore
  <2>1. entry.node = node /\ ~Usb!Claimed(node) /\ tries' = tries
    BY <1>4 DEF Usb!FindDeviceByID
  <2>2. /\ usb' \in [UsbSession -> UsbType(sc.plugs)]
        /\ \A t \in UsbSession : /\ usb'[t].handle = IF t = s THEN node ELSE usb[t].handle
                                 /\ usb'[t].payload = usb[t].payload /\ usb'[t].began = usb[t].began
    <3>1. usb \in [UsbSession -> UsbType(sc.plugs)] /\ node \in Address(sc.plugs)
          /\ usb' = [usb EXCEPT ![s].handle = node, ![s].mount = node]
      BY <1>2, <1>4 DEF Address
    <3>2. PICK u : u = [usb[s] EXCEPT !.handle = node, !.mount = node]
      OBVIOUS
    <3>3. u \in UsbType(sc.plugs) /\ u.handle = node
          /\ u.payload = usb[s].payload /\ u.began = usb[s].began
      BY ONLY <3>1, <3>2, s \in UsbSession DEF UsbType
    <3>4. usb' = [usb EXCEPT ![s] = u]
      BY ONLY <3>1, <3>2
    <3> QED
      BY ONLY <3>1, <3>3, <3>4, s \in UsbSession
  <2>3. /\ ses' \in [UsbSession -> SesType]
        /\ \A t \in UsbSession : t # s => ses'[t] = ses[t]
        /\ ses'[s].stage = "clear" /\ ses'[s].child = ses[s].child /\ ses'[s].dead = ses[s].dead
        /\ ses'[s].freeing = ses[s].freeing
    <3>1. ses \in [UsbSession -> SesType] /\ ses' = [ses EXCEPT ![s].stage = "clear"]
      BY <1>2, <1>4
    <3> QED
      BY ONLY <3>1, s \in UsbSession DEF SesType
  <2>4. entry' \in EntryType(sc.plugs) /\ entry'.node = node
    BY <1>2, <1>4 DEF Usb!Entry, EntryType, Address
  <2>5. /\ cleaner' \in [UsbSession -> {"no", "reset", "read", "done", "failed", "over"}]
        /\ \A t \in UsbSession : t # s => cleaner'[t] = cleaner[t]
    BY <1>4 DEF UsbInv, Typed
  <2>6. Typed'
    BY <1>1, <1>4, <2>1, <2>2, <2>3, <2>4, <2>5 DEF UsbInv, Typed
  <2>7. Marks'
    BY <1>1, <1>4, <2>1, <2>3, <2>4 DEF UsbInv, Marks
  <2>8. \A t \in UsbSession : node # 0 => usb[t].handle # node
    BY <2>1 DEF Usb!Claimed, UsbInv, TakenOf
  <2>9. ASSUME NEW t \in UsbSession
        PROVE  TakenOf(t)' /\ HeldOf(t)' /\ FreshOf(t)' /\ StreamOf(t)'
    <3>1. TakenOf(t)'
      BY <1>1, <2>2, <2>3, <2>5 DEF UsbInv, TakenOf, Reading, Usb!Lives
    <3>2. HeldOf(t)'
      <4>1. HeldOf(t) /\ HeldOf(s)
        BY DEF UsbInv
      <4>2. /\ ses'[t].stage \in {"none", "pre"} => t # s /\ ses'[t] = ses[t] /\ cleaner'[t] = cleaner[t]
            /\ async' = async /\ plugs' = plugs
        BY <1>1, <2>3, <2>5
      <4>3. /\ ses'[t].stage \in {"none", "pre"} =>
                  /\ usb'[t].handle = 0 /\ ~ses'[t].dead /\ cleaner'[t] = "no"
                  /\ ses'[t].child = "none" /\ t \notin async'
        BY <2>2, <4>1, <4>2 DEF HeldOf
      <4>4. usb'[t].handle <= plugs'
        BY <1>2, <2>2, <4>1, <4>2 DEF HeldOf
      <4>5. ASSUME NEW x \in UsbSession, usb'[t].handle = usb'[x].handle, usb'[t].handle # 0
            PROVE  t = x
        <5>1. CASE t = s \/ x = s
          BY <2>2, <2>8, <4>5, <5>1
        <5>2. CASE t # s /\ x # s
          BY <2>2, <4>1, <4>5, <5>2 DEF HeldOf
        <5> QED
          BY <5>1, <5>2
      <4> QED
        BY <4>3, <4>4, <4>5 DEF HeldOf
    <3>3. FreshOf(t)'
      BY <1>1, <2>2, <2>3, FreshStays DEF UsbInv
    <3>4. StreamOf(t)'
      <4>1. CASE t = s
        BY <1>1, <2>2, <4>1 DEF UsbInv, StreamOf, Reading
      <4>2. CASE t # s
        BY <1>1, <2>2, <4>2, ComingStays, StreamStays DEF UsbInv
      <4> QED
        BY <4>1, <4>2
    <3> QED
      BY <3>1, <3>2, <3>3, <3>4
  <2> QED
    BY <1>3, <2>6, <2>7, <2>9 DEF UsbInv
<1>5. CASE /\ Usb!FindDeviceByID(FALSE)
           /\ usb' = [usb EXCEPT ![s].mount = entry.node]
           /\ entry' = Usb!Told(s, entry)
           /\ ses' = [ses EXCEPT ![s] = [Usb!Freed(@) EXCEPT !.stage = "clear"]]
           /\ ignore' = [ignore EXCEPT ![entry.node] = "none"]
           /\ UNCHANGED cleaner
  <2>1. tries' \in 0..sc.tries
    BY <1>2, <1>5 DEF Usb!FindDeviceByID
  <2>2. /\ usb' \in [UsbSession -> UsbType(sc.plugs)]
        /\ \A t \in UsbSession : /\ usb'[t].handle = usb[t].handle
                                 /\ usb'[t].payload = usb[t].payload /\ usb'[t].began = usb[t].began
    <3>1. usb \in [UsbSession -> UsbType(sc.plugs)] /\ entry.node \in Address(sc.plugs)
          /\ usb' = [usb EXCEPT ![s].mount = entry.node]
      BY <1>2, <1>5 DEF Address
    <3> QED
      BY ONLY <3>1, s \in UsbSession DEF UsbType
  <2>3. /\ ses' \in [UsbSession -> SesType]
        /\ \A t \in UsbSession : t # s => ses'[t] = ses[t]
        /\ ses'[s].stage = "clear" /\ ses'[s].child = ses[s].child /\ ses'[s].dead
        /\ ses'[s].freeing = "cancel"
    <3>1. \A x \in SesType : ~x.dead =>
              LET y == [Usb!Freed(x) EXCEPT !.stage = "clear"] IN
              y \in SesType /\ y.stage = "clear" /\ y.child = x.child /\ y.dead /\ y.freeing = "cancel"
      BY DEF Usb!Freed, SesType
    <3> QED
      BY <1>1, <1>2, <1>5, <3>1
  <2>4. entry' \in EntryType(sc.plugs) /\ entry'.node = entry.node
    BY <1>2, <1>5 DEF Usb!Told, Usb!Offline, EntryType
  <2>5. /\ ignore' \in [1..sc.plugs -> {"none", "IGNORE", "REGISTER"}]
        /\ \A n \in 1..sc.plugs : ignore'[n] \in {ignore[n], "none"}
    BY <1>2, <1>5
  <2>6. Typed'
    BY <1>1, <1>5, <2>1, <2>2, <2>3, <2>4, <2>5 DEF UsbInv, Typed
  <2>7. Marks'
    BY <1>1, <1>2, <2>3, <2>4, <2>5 DEF UsbInv, Marks
  <2>8. ASSUME NEW t \in UsbSession
        PROVE  TakenOf(t)' /\ HeldOf(t)' /\ FreshOf(t)' /\ StreamOf(t)'
    <3>1. TakenOf(t)'
      BY <1>1, <1>5, <2>2, <2>3 DEF UsbInv, TakenOf, Reading, Usb!Lives
    <3>2. HeldOf(t)'
      BY <1>1, <1>5, <2>2, <2>3 DEF UsbInv, HeldOf
    <3>3. FreshOf(t)'
      BY <1>1, <2>2, <2>3, FreshStays DEF UsbInv
    <3>4. StreamOf(t)'
      BY <1>1, <2>2, ComingStays, StreamStays DEF UsbInv
    <3> QED
      BY <3>1, <3>2, <3>3, <3>4
  <2> QED
    BY <1>3, <2>6, <2>7, <2>8 DEF UsbInv
<1> QED
  BY <1>4, <1>5 DEF Usb!UsbPreConnect, Usb!ConnectDetectDaemon

LEMMA StepSendSoftReset ==
    ASSUME UsbInv, NEW s \in UsbSession, Usb!SendSoftResetToDaemonSync(s), UNCHANGED sc
    PROVE  UsbInv'
<1> USE DEF Usb!finder, Usb!io
<1>1. /\ cleaner[s] = "reset" /\ cleaner' = [cleaner EXCEPT ![s] = "read"]
      /\ serves' \in {serves, None}
      /\ UNCHANGED <<sc, node, plugs, usbWire, said, Usb!finder, ses, Usb!io, async, sends, tries>>
  BY DEF Usb!SendSoftResetToDaemonSync, Usb!DaemonTakes
<1>2. /\ cleaner' \in [UsbSession -> {"no", "reset", "read", "done", "failed", "over"}]
      /\ \A t \in UsbSession : t # s => cleaner'[t] = cleaner[t]
  BY <1>1 DEF UsbInv, Typed
<1>3. Typed'
  BY <1>1, <1>2 DEF UsbInv, Typed
<1>4. Attached' /\ Marks'
  BY <1>1 DEF UsbInv, Attached, Marks
<1>5. ASSUME NEW t \in UsbSession
      PROVE  TakenOf(t)' /\ HeldOf(t)' /\ FreshOf(t)' /\ StreamOf(t)'
  <2>1. TakenOf(t)'
    BY <1>1, <1>2 DEF UsbInv, TakenOf, Reading, Usb!Lives
  <2>2. HeldOf(t)'
    BY <1>1, <1>2 DEF UsbInv, HeldOf
  <2>3. FreshOf(t)' /\ StreamOf(t)'
    BY <1>1, FreshStays, ComingStays, StreamStays DEF UsbInv
  <2> QED
    BY <2>1, <2>2, <2>3
<1> QED
  BY <1>3, <1>4, <1>5 DEF UsbInv

\* What is read to empty the channel is nobody's: who holds the device does not read yet.
LEMMA StepClearUsbChannel ==
    ASSUME UsbInv, NEW s \in UsbSession, Usb!ClearUsbChannel(s), UNCHANGED sc
    PROVE  UsbInv'
<1> USE DEF Usb!finder, Usb!io
<1>1. /\ cleaner[s] = "read" /\ ses[s].child = "none" /\ reader[s] = "off"
      /\ UNCHANGED <<sc, node, plugs, said, Usb!finder, ses, Usb!io, async, sends, tries>>
  BY DEF Usb!ClearUsbChannel, UsbInv, TakenOf
<1>2. CASE Usb!Online(s) /\ usbWire # <<>> /\ usbWire' = Tail(usbWire) /\ serves' \in {serves, None} /\ UNCHANGED cleaner
  <2>1. usbWire \in Seq(Item) /\ node # 0 /\ usb[s].handle = node
    BY <1>2 DEF UsbInv, Typed, Usb!Online
  <2>2. /\ usbWire' \in Seq(Item)
        /\ \A i \in DOMAIN usbWire' : i + 1 \in DOMAIN usbWire /\ usbWire'[i] = usbWire[i + 1]
    BY <1>2, <2>1, TailFacts
  <2>3. Typed'
    BY <1>1, <1>2, <2>2 DEF UsbInv, Typed
  <2>4. Attached' /\ Marks'
    BY <1>1, <2>1 DEF UsbInv, Attached, Marks
  <2>5. ASSUME NEW t \in UsbSession
        PROVE  TakenOf(t)' /\ HeldOf(t)' /\ FreshOf(t)' /\ StreamOf(t)'
    <3>1. TakenOf(t)' /\ HeldOf(t)'
      BY <1>1, <1>2, TakenStays, HeldStays DEF UsbInv
    <3>2. FreshOf(t)'
      BY <1>1, <1>2, <2>2, UsbAssumption DEF UsbInv, FreshOf, Usb!ConstantsAreSound
    <3>3. Reading(t) => ~Usb!Online(t)
      BY <1>1, <2>1 DEF UsbInv, HeldOf, Usb!Online, Reading
    <3>4. StreamOf(t)'
      <4>1. Reading(t)' = Reading(t) /\ Usb!Online(t)' = Usb!Online(t) /\ (Reading(t) => Coming(t)' = Coming(t))
        BY <1>1, <3>3 DEF Reading, Usb!Online, Coming
      <4> QED
        BY <1>1, <4>1, StreamStays DEF UsbInv
    <3> QED
      BY <3>1, <3>2, <3>4
  <2> QED
    BY <2>3, <2>4, <2>5 DEF UsbInv
<1>3. CASE cleaner' = [cleaner EXCEPT ![s] = IF Usb!Online(s) THEN "done" ELSE "failed"] /\ UNCHANGED <<usbWire, serves>>
  <2>1. /\ cleaner' \in [UsbSession -> {"no", "reset", "read", "done", "failed", "over"}]
        /\ \A t \in UsbSession : t # s => cleaner'[t] = cleaner[t]
    BY <1>3 DEF UsbInv, Typed
  <2>2. Typed'
    BY <1>1, <1>3, <2>1 DEF UsbInv, Typed
  <2>3. Attached' /\ Marks'
    BY <1>1, <1>3 DEF UsbInv, Attached, Marks
  <2>4. ASSUME NEW t \in UsbSession
        PROVE  TakenOf(t)' /\ HeldOf(t)' /\ FreshOf(t)' /\ StreamOf(t)'
    <3>1. TakenOf(t)'
      BY <1>1, <1>3, <2>1 DEF UsbInv, TakenOf, Reading, Usb!Lives
    <3>2. HeldOf(t)'
      BY <1>1, <1>3, <2>1 DEF UsbInv, HeldOf
    <3>3. FreshOf(t)' /\ StreamOf(t)'
      BY <1>1, <1>3, FreshStays, ComingStays, StreamStays DEF UsbInv
    <3> QED
      BY <3>1, <3>2, <3>3
  <2> QED
    BY <2>2, <2>3, <2>4 DEF UsbInv
<1> QED
  BY <1>2, <1>3 DEF Usb!ClearUsbChannel

\* The session begins: nothing of it is on its way yet.
LEMMA StepClearUsbChannelFinished ==
    ASSUME UsbInv, NEW s \in UsbSession, Usb!ClearUsbChannelFinished(s), UNCHANGED sc
    PROVE  UsbInv'
<1> USE DEF Usb!device
<1>1. /\ cleaner[s] \in {"done", "failed"} /\ Usb!Lives(s) /\ ses[s].child = "none"
      /\ reader[s] = "off"
      /\ ses[s].stage \notin {"none", "pre"} /\ ses[s].freeing \in {"no", "cancel"}
      /\ cleaner' = [cleaner EXCEPT ![s] = "over"]
      /\ UNCHANGED <<sc, Usb!device, delayed, usbReading, usbOut, cancelled, usbGot, async, sends, tries>>
  <2>1. cleaner[s] \in {"done", "failed"} /\ Usb!Lives(s)
    BY DEF Usb!ClearUsbChannelFinished
  <2>2. ses[s].child = "none" /\ reader[s] = "off" /\ ses[s].stage \notin {"none", "pre"}
    BY <2>1 DEF UsbInv, TakenOf, HeldOf
  <2>3. ses[s].freeing \in {"no", "cancel"}
    BY <2>1, <2>2 DEF UsbInv, TakenOf, Usb!Lives, Typed, SesType
  <2> QED
    BY <2>1, <2>2, <2>3 DEF Usb!ClearUsbChannelFinished
<1>2. /\ cleaner' \in [UsbSession -> {"no", "reset", "read", "done", "failed", "over"}]
      /\ cleaner'[s] = "over" /\ \A t \in UsbSession : t # s => cleaner'[t] = cleaner[t]
  BY <1>1 DEF UsbInv, Typed
<1>3. Attached'
  BY <1>1 DEF UsbInv, Attached
<1>4. CASE /\ Usb!FreeSession(s)
           /\ ignore' = [ignore EXCEPT ![usb[s].mount] = "none"]
           /\ UNCHANGED <<usb, reader>>
  <2>1. /\ ses' \in [UsbSession -> SesType] /\ entry' \in EntryType(sc.plugs)
        /\ entry'.node = entry.node
        /\ \A t \in UsbSession : t # s => ses'[t] = ses[t]
        /\ ses'[s].stage = ses[s].stage /\ ses'[s].child = ses[s].child /\ ses'[s].dead
        /\ ses'[s].freeing = IF ses[s].dead THEN ses[s].freeing ELSE "cancel"
    BY <1>4, FreeingFacts
  <2>2. /\ ignore' \in [1..sc.plugs -> {"none", "IGNORE", "REGISTER"}]
        /\ \A n \in 1..sc.plugs : ignore'[n] \in {ignore[n], "none"}
    BY <1>4 DEF UsbInv, Typed
  <2>3. Typed'
    BY <1>1, <1>2, <1>4, <2>1, <2>2 DEF UsbInv, Typed
  <2>4. Marks'
    <3>1. node \in 0..sc.plugs
      BY DEF UsbInv, Typed, Address
    <3> QED
      BY <1>1, <2>1, <2>2, <3>1 DEF UsbInv, Marks
  <2>5. \A t \in UsbSession : TakenOf(t)' /\ HeldOf(t)'
    <3>1. /\ usbOut' = usbOut /\ reader' = reader /\ usbReading' = usbReading /\ usb' = usb
          /\ plugs' = plugs
          /\ async' \subseteq async
          /\ \A t \in UsbSession : t # s \/ reader[t] # "off" \/ ses[t].child # "none" => cleaner'[t] = cleaner[t]
      BY <1>1, <1>2, <1>4
    <3> QED
      BY <1>1, <1>4, <3>1, FreedStays
  <2>6. ASSUME NEW t \in UsbSession
        PROVE  FreshOf(t)' /\ StreamOf(t)'
    BY <1>1, <1>4, <2>1, FreshStays, ComingStays, StreamStays DEF UsbInv
  <2> QED
    BY <1>3, <2>3, <2>4, <2>5, <2>6 DEF UsbInv
<1>5. CASE /\ usb' = [usb EXCEPT ![s].inShut = FALSE, ![s].outShut = FALSE, ![s].mount = entry.node]
           /\ reader' = [reader EXCEPT ![s] = "top"]
           /\ ses' = [ses EXCEPT ![s].stage = "run", ![s].child = "up"]
           /\ UNCHANGED <<entry, ignore>>
  <2>1. /\ usb' \in [UsbSession -> UsbType(sc.plugs)]
        /\ \A t \in UsbSession : /\ usb'[t].handle = usb[t].handle
                                 /\ usb'[t].payload = usb[t].payload /\ usb'[t].began = usb[t].began
    <3>1. /\ usb \in [UsbSession -> UsbType(sc.plugs)] /\ entry.node \in Address(sc.plugs)
          /\ usb' = [usb EXCEPT ![s].inShut = FALSE, ![s].outShut = FALSE, ![s].mount = entry.node]
      BY <1>5 DEF UsbInv, Typed, EntryType
    <3>2. /\ \A t \in UsbSession : t # s => usb'[t] = usb[t]
          /\ usb'[s] = [usb[s] EXCEPT !.inShut = FALSE, !.outShut = FALSE, !.mount = entry.node]
          /\ usb' = [t \in UsbSession |-> usb'[t]]
      BY ONLY <3>1, s \in UsbSession
    <3>3. usb'[s] \in UsbType(sc.plugs) /\ usb'[s].handle = usb[s].handle
          /\ usb'[s].payload = usb[s].payload /\ usb'[s].began = usb[s].began
      <4>1. PICK u : u = usb[s] /\ u \in UsbType(sc.plugs)
        BY <3>1
      <4>2. PICK a : a = entry.node /\ a \in Address(sc.plugs)
        BY <3>1
      <4>3. [u EXCEPT !.inShut = FALSE, !.outShut = FALSE, !.mount = a] \in UsbType(sc.plugs)
        BY ONLY <4>1, <4>2 DEF UsbType
      <4>4. /\ [u EXCEPT !.inShut = FALSE, !.outShut = FALSE, !.mount = a].handle = u.handle
            /\ [u EXCEPT !.inShut = FALSE, !.outShut = FALSE, !.mount = a].payload = u.payload
            /\ [u EXCEPT !.inShut = FALSE, !.outShut = FALSE, !.mount = a].began = u.began
        BY ONLY <4>1, <4>2 DEF UsbType
      <4> QED
        BY <3>2, <4>1, <4>2, <4>3, <4>4
    <3> QED
      BY ONLY <3>1, <3>2, <3>3, s \in UsbSession
  <2>2. /\ ses' \in [UsbSession -> SesType]
        /\ \A t \in UsbSession : t # s => ses'[t] = ses[t]
        /\ ses'[s].stage = "run" /\ ses'[s].child = "up" /\ ses'[s].dead = ses[s].dead
        /\ ses'[s].freeing = ses[s].freeing
    <3>1. ses \in [UsbSession -> SesType] /\ ses' = [ses EXCEPT ![s].stage = "run", ![s].child = "up"]
      BY <1>5 DEF UsbInv, Typed
    <3>2. PICK r : r = [ses[s] EXCEPT !.stage = "run", !.child = "up"]
      OBVIOUS
    <3>3. r \in SesType /\ r.stage = "run" /\ r.child = "up" /\ r.dead = ses[s].dead
          /\ r.freeing = ses[s].freeing
      BY ONLY <3>1, <3>2, s \in UsbSession DEF SesType
    <3>4. ses' = [ses EXCEPT ![s] = r]
      BY ONLY <3>1, <3>2
    <3> QED
      BY ONLY <3>1, <3>3, <3>4, s \in UsbSession
  <2>3. /\ reader \in [UsbSession -> {"off", "top", "submit", "wait", "got", "reset", "resetting", "exit", "remove"}]
        /\ reader' \in [UsbSession -> {"off", "top", "submit", "wait", "got", "reset", "resetting", "exit", "remove"}]
        /\ reader'[s] = "top" /\ \A t \in UsbSession : t # s => reader'[t] = reader[t]
    BY <1>5 DEF UsbInv, Typed
  <2>4. Typed'
    BY <1>1, <1>2, <1>5, <2>1, <2>2, <2>3 DEF UsbInv, Typed
  <2>5. Marks'
    BY <1>1, <1>5, <2>2 DEF UsbInv, Marks
  <2>6. ASSUME NEW t \in UsbSession
        PROVE  TakenOf(t)' /\ HeldOf(t)' /\ FreshOf(t)' /\ StreamOf(t)'
    <3>1. TakenOf(t)'
      <4>1. CASE t = s
        <5>1. usbOut[s].by # "reader" /\ usbOut[s].by # "child" /\ usbReading[s] = Usb!NoItem
          BY <1>1 DEF UsbInv, TakenOf
        <5> QED
          BY <1>1, <1>2, <2>1, <2>2, <2>3, <4>1, <5>1 DEF UsbInv, TakenOf, Reading, Usb!Lives
      <4>2. CASE t # s
        BY <1>1, <1>2, <2>1, <2>2, <2>3, <4>2, TakenStays DEF UsbInv
      <4> QED
        BY <4>1, <4>2
    <3>2. HeldOf(t)'
      BY <1>1, <1>2, <2>1, <2>2 DEF UsbInv, HeldOf
    <3>3. FreshOf(t)'
      BY <1>1, <2>1, <2>2, <2>3 DEF UsbInv, FreshOf
    <3>4. CASE t # s
      BY <1>1, <2>1, <2>3, <3>1, <3>2, <3>3, <3>4, ComingStays, StreamStays DEF UsbInv
    <3>5. CASE t = s
      <4>1. /\ usbGot[s] = <<>> /\ said[s] = 0 /\ usb[s].payload = usb[s].began
            /\ \A i \in DOMAIN usbWire : usbWire[i].s # s
        BY <1>1 DEF UsbInv, FreshOf
      <4>2. Coming(s)' = IF Usb!Online(s)' THEN usbWire ELSE <<>>
        <5>1. usbWire \in Seq(Item)
          BY DEF UsbInv, Typed
        <5> QED
          BY <1>1, <2>3, <5>1 DEF Coming
      <4>3. \A i \in DOMAIN Coming(s)' : ~IsPiece(Coming(s)'[i], s) /\ ~IsHead(Coming(s)'[i], s)
        BY <4>1, <4>2 DEF IsPiece, IsHead
      <4>4. Coming(s)' \in Seq(Item)
        BY <4>2 DEF UsbInv, Typed
      <4>5. \A k \in DOMAIN Coming(s)' : ~(k <= 0)
        BY <4>4
      <4>6. Follows(Coming(s)', s, 0, 0, 0) /\ Whole(Coming(s)', s, 0, 0, 0)
        BY <4>3, <4>4, <4>5 DEF Follows, Whole
      <4>7. usbGot'[s] = <<>> /\ said'[s] = 0 /\ Len(usbGot'[s]) = 0
        BY <1>1, <4>1
      <4>8. StreamOf(s)'
        BY <2>1, <4>1, <4>6, <4>7 DEF StreamOf
      <4> QED
        BY <3>1, <3>2, <3>3, <3>5, <4>8
    <3> QED
      BY <3>4, <3>5
  <2> QED
    BY <1>3, <2>4, <2>5, <2>6 DEF UsbInv
<1> QED
  BY <1>4, <1>5 DEF Usb!ClearUsbChannelFinished

-----------------------------------------------------------------------------
(* The reader.                                                               *)

ReaderStates == {"off", "top", "submit", "wait", "got", "reset", "resetting", "exit", "remove"}

\* A turn of the reader that only moves it on, and perhaps its transport.
LEMMA ReaderMoves ==
    ASSUME UsbInv, NEW s \in UsbSession, NEW to \in ReaderStates, Usb!ReaderGoes(s, to),
           reader[s] # "resetting", to \notin {"off", "resetting", "reset", "got"}, reader[s] \notin {"off", "got", "reset"},
           to \in {"top", "submit", "wait"} => Reading(s),
           usb' \in [UsbSession -> UsbType(sc.plugs)],
           \A t \in UsbSession : /\ usb'[t].handle = usb[t].handle
                                 /\ usb'[t].payload = usb[t].payload
                                 /\ usb'[t].began = usb[t].began,
           cancelled' \subseteq UsbSession \X {"in", "out"}, async' \in {async, async \cup {s}},
           sc' = sc, node' = node, plugs' = plugs, usbWire' = usbWire, serves' = serves, said' = said,
           ignore' = ignore, delayed' = delayed, entry' = entry, ses' = ses, usbReading' = usbReading,
           usbOut' = usbOut, usbGot' = usbGot, cleaner' = cleaner, sends' = sends, tries' = tries
    PROVE  UsbInv'
<1>1. /\ reader' \in [UsbSession -> ReaderStates] /\ reader'[s] = to
      /\ \A t \in UsbSession : t # s => reader'[t] = reader[t]
  BY DEF UsbInv, Typed, Usb!ReaderGoes, ReaderStates
<1>2. Typed'
  BY <1>1 DEF UsbInv, Typed, ReaderStates
<1>3. Attached' /\ Marks'
  BY DEF UsbInv, Attached, Marks
<1>4. ses[s].child # "none" /\ ses[s].stage \notin {"none", "pre"}
  BY DEF UsbInv, FreshOf, HeldOf
<1>5. ASSUME NEW t \in UsbSession
      PROVE  TakenOf(t)' /\ HeldOf(t)' /\ FreshOf(t)' /\ StreamOf(t)'
  <2>1. TakenOf(t)'
    BY <1>1, <1>4 DEF UsbInv, TakenOf, Reading, Usb!Lives
  <2>2. HeldOf(t)'
    BY <1>4 DEF UsbInv, HeldOf
  <2>3. FreshOf(t)'
    BY <1>1, <1>4 DEF UsbInv, FreshOf
  <2>4. StreamOf(t)'
    <3>1. Usb!Online(t)' = Usb!Online(t)
      BY DEF Usb!Online
    <3>2. Reading(t)' => Reading(t)
      BY <1>1 DEF Reading
    <3>3. (reader'[t] = "got") = (reader[t] = "got")
      BY <1>1
    <3>4. Coming(t)' = Coming(t)
      BY <3>1, <3>3 DEF Coming
    <3> QED
      BY <3>1, <3>2, <3>4, StreamStays DEF UsbInv
  <2> QED
    BY <2>1, <2>2, <2>3, <2>4
<1> QED
  BY <1>2, <1>3, <1>5 DEF UsbInv

LEMMA StepReaderTop ==
    ASSUME UsbInv, NEW s \in UsbSession, Usb!ReaderTop(s), UNCHANGED sc
    PROVE  UsbInv'
<1> USE DEF Usb!device, Usb!finder
<1>1. PICK to \in {"exit", "submit"} : Usb!ReaderGoes(s, to)
  BY DEF Usb!ReaderTop
<1>2. /\ reader[s] = "top" /\ to \in ReaderStates
      /\ UNCHANGED <<sc, node, plugs, usbWire, serves, said, ignore, delayed, entry, ses, usb, usbReading, usbOut, cancelled, usbGot,
                     cleaner, async, sends, tries>>
      /\ usb' \in [UsbSession -> UsbType(sc.plugs)]
      /\ cancelled' \subseteq UsbSession \X {"in", "out"}
  BY <1>1 DEF Usb!ReaderTop, UsbInv, Typed, ReaderStates
<1> QED
  BY <1>1, <1>2, ReaderMoves DEF Reading

LEMMA StepReaderSubmits ==
    ASSUME UsbInv, NEW s \in UsbSession, Usb!ReaderSubmits(s), UNCHANGED sc
    PROVE  UsbInv'
<1> USE DEF Usb!device, Usb!finder
<1>1. PICK to \in {"exit", "wait"} : Usb!ReaderGoes(s, to)
  BY DEF Usb!ReaderSubmits
<1>2. /\ reader[s] = "submit" /\ to \in ReaderStates /\ usb' = [usb EXCEPT ![s].inDone = FALSE]
      /\ UNCHANGED <<sc, node, plugs, usbWire, serves, said, ignore, delayed, entry, ses, usbReading, usbOut, cancelled, usbGot,
                     cleaner, async, sends, tries>>
      /\ usb \in [UsbSession -> UsbType(sc.plugs)]
      /\ cancelled' \subseteq UsbSession \X {"in", "out"}
  BY <1>1 DEF Usb!ReaderSubmits, UsbInv, Typed, ReaderStates
<1>3. /\ usb' \in [UsbSession -> UsbType(sc.plugs)]
      /\ \A t \in UsbSession : /\ usb'[t].handle = usb[t].handle
                               /\ usb'[t].payload = usb[t].payload /\ usb'[t].began = usb[t].began
  BY <1>2, DoneIsMarked
<1> QED
  BY <1>1, <1>2, <1>3, ReaderMoves DEF Reading

LEMMA StepReaderEnds ==
    ASSUME UsbInv, NEW s \in UsbSession, Usb!ReaderEnds(s), UNCHANGED sc
    PROVE  UsbInv'
<1> USE DEF Usb!device, Usb!finder
<1>2. /\ reader[s] = "exit" /\ Usb!ReaderGoes(s, "remove") /\ "remove" \in ReaderStates
      /\ usb' = [usb EXCEPT ![s].inShut = TRUE] /\ async' = async \cup {s}
      /\ UNCHANGED <<sc, node, plugs, usbWire, serves, said, ignore, delayed, entry, ses, usbReading, usbOut, cancelled, usbGot,
                     cleaner, sends, tries>>
      /\ usb \in [UsbSession -> UsbType(sc.plugs)]
      /\ cancelled' \subseteq UsbSession \X {"in", "out"}
  BY DEF Usb!ReaderEnds, UsbInv, Typed, ReaderStates
<1>3. /\ usb' \in [UsbSession -> UsbType(sc.plugs)]
      /\ \A t \in UsbSession : /\ usb'[t].handle = usb[t].handle
                               /\ usb'[t].payload = usb[t].payload /\ usb'[t].began = usb[t].began
  BY ONLY <1>2, s \in UsbSession, ZenonT(30) DEF UsbType
<1> QED
  BY <1>2, <1>3, ReaderMoves DEF Reading

LEMMA StepReaderRemoves ==
    ASSUME UsbInv, NEW s \in UsbSession, Usb!ReaderRemoves(s), UNCHANGED sc
    PROVE  UsbInv'
<1> USE DEF Usb!device
<1>1. /\ reader[s] = "remove" /\ reader' = [reader EXCEPT ![s] = "off"]
      /\ ignore' = [ignore EXCEPT ![usb[s].mount] = "none"]
      /\ UNCHANGED <<sc, Usb!device, delayed, entry, ses, usb, usbReading, usbOut, cancelled, usbGot, cleaner, async, sends, tries>>
  BY DEF Usb!ReaderRemoves, Usb!ReaderGoes
<1>2. /\ reader \in [UsbSession -> ReaderStates] /\ reader' \in [UsbSession -> ReaderStates]
      /\ reader'[s] = "off"
      /\ \A t \in UsbSession : t # s => reader'[t] = reader[t]
  BY <1>1 DEF UsbInv, Typed, ReaderStates
<1>3. /\ ignore' \in [1..sc.plugs -> {"none", "IGNORE", "REGISTER"}]
      /\ \A n \in 1..sc.plugs : ignore'[n] \in {ignore[n], "none"}
  BY <1>1 DEF UsbInv, Typed
<1>4. Typed'
  BY <1>1, <1>2, <1>3 DEF UsbInv, Typed, ReaderStates
<1>5. Attached' /\ Marks'
  <2>1. node \in 0..sc.plugs
    BY DEF UsbInv, Typed, Address
  <2> QED
    BY <1>1, <1>3, <2>1 DEF UsbInv, Attached, Marks
<1>6. ASSUME NEW t \in UsbSession
      PROVE  TakenOf(t)' /\ HeldOf(t)' /\ FreshOf(t)' /\ StreamOf(t)'
  <2>1. TakenOf(t)'
    BY <1>1, <1>2 DEF UsbInv, TakenOf, Reading, Usb!Lives
  <2>2. HeldOf(t)'
    BY <1>1 DEF UsbInv, HeldOf
  <2>3. FreshOf(t)'
    BY <1>1, <1>2 DEF UsbInv, FreshOf
  <2>4. StreamOf(t)'
    <3>1. Usb!Online(t)' = Usb!Online(t)
      BY <1>1 DEF Usb!Online
    <3>2. Reading(t)' => Reading(t) /\ Coming(t)' = Coming(t)
      BY <1>1, <1>2, <3>1 DEF Reading, Coming
    <3> QED
      BY <1>1, <3>1, <3>2, StreamStays DEF UsbInv
  <2> QED
    BY <2>1, <2>2, <2>3, <2>4
<1> QED
  BY <1>4, <1>5, <1>6 DEF UsbInv

\* What the device has sent next is in the reader's hands, and still to come for it.
LEMMA StepReaderWakes ==
    ASSUME UsbInv, NEW s \in UsbSession, Usb!ReaderWakes(s), UNCHANGED sc
    PROVE  UsbInv'
<1> USE DEF Usb!finder
<1>1. /\ reader[s] = "wait" /\ usb' = [usb EXCEPT ![s].inDone = TRUE]
      /\ cancelled' = cancelled \ {<<s, "in">>}
      /\ UNCHANGED <<sc, node, plugs, serves, said, Usb!finder, ses, usbOut, usbGot, cleaner, async, sends, tries>>
      /\ usb \in [UsbSession -> UsbType(sc.plugs)]
      /\ cancelled' \subseteq UsbSession \X {"in", "out"}
  BY DEF Usb!ReaderWakes, UsbInv, Typed
<1>2. /\ usb' \in [UsbSession -> UsbType(sc.plugs)]
      /\ \A t \in UsbSession : /\ usb'[t].handle = usb[t].handle
                               /\ usb'[t].payload = usb[t].payload /\ usb'[t].began = usb[t].began
  BY <1>1, DoneIsMarked
<1>3. CASE Usb!ReaderGoes(s, "exit") /\ UNCHANGED <<usbReading, usbWire>>
  <2>1. "exit" \in ReaderStates
    BY DEF ReaderStates
  <2> QED
    BY <1>1, <1>2, <1>3, <2>1, ReaderMoves DEF Reading
<1>4. CASE /\ Usb!Online(s) /\ usbWire # <<>>
           /\ usbReading' = [usbReading EXCEPT ![s] = Head(usbWire)] /\ usbWire' = Tail(usbWire)
           /\ Usb!ReaderGoes(s, "got")
  <2>1. usbWire \in Seq(Item) /\ node # 0 /\ usb[s].handle = node
    BY <1>4 DEF UsbInv, Typed, Usb!Online
  <2>2. /\ usbWire' \in Seq(Item) /\ Head(usbWire) \in Item
        /\ usbWire = <<Head(usbWire)>> \o usbWire'
        /\ \A i \in DOMAIN usbWire' : i + 1 \in DOMAIN usbWire /\ usbWire'[i] = usbWire[i + 1]
    BY <1>4, <2>1, TailFacts
  <2>3. Head(usbWire) # Usb!NoItem
    BY <2>2 DEF Item, Usb!NoItem
  <2>4. /\ reader \in [UsbSession -> ReaderStates] /\ reader' \in [UsbSession -> ReaderStates]
        /\ reader'[s] = "got"
        /\ \A t \in UsbSession : t # s => reader'[t] = reader[t]
    BY <1>4 DEF UsbInv, Typed, ReaderStates, Usb!ReaderGoes
  <2>5. /\ usbReading' \in [UsbSession -> Item \cup {Usb!NoItem}] /\ usbReading'[s] = Head(usbWire)
        /\ \A t \in UsbSession : t # s => usbReading'[t] = usbReading[t]
    BY <1>4, <2>2 DEF UsbInv, Typed
  <2>6. Typed'
    BY <1>1, <1>2, <2>2, <2>4, <2>5 DEF UsbInv, Typed, ReaderStates
  <2>7. Attached' /\ Marks'
    BY <1>1, <2>1 DEF UsbInv, Attached, Marks
  <2>8. ses[s].child # "none"
    BY <1>1 DEF UsbInv, FreshOf
  <2>9. ASSUME NEW t \in UsbSession
        PROVE  TakenOf(t)' /\ HeldOf(t)' /\ FreshOf(t)' /\ StreamOf(t)'
    <3>1. TakenOf(t)'
      BY <1>1, <1>2, <2>3, <2>4, <2>5 DEF UsbInv, TakenOf, Reading, Usb!Lives
    <3>2. HeldOf(t)'
      BY <1>1, <1>2 DEF UsbInv, HeldOf
    <3>3. FreshOf(t)'
      BY <1>1, <1>2, <2>2, <2>4, <2>8 DEF UsbInv, FreshOf
    <3>4. Usb!Online(t)' = Usb!Online(t) /\ Reading(t)' = Reading(t)
      BY <1>1, <1>2, <2>4 DEF Usb!Online, Reading
    <3>5. Coming(t)' = Coming(t)
      <4>1. CASE t = s
        <5>1. Coming(s) = usbWire /\ Coming(s)' = <<Head(usbWire)>> \o usbWire'
          BY <1>1, <1>4, <2>1, <2>4, <2>5, <3>4, <4>1 DEF Coming
        <5> QED
          BY <2>2, <4>1, <5>1
      <4>2. CASE t # s
        <5>1. ~Usb!Online(t)
          BY <2>1, <4>2 DEF UsbInv, HeldOf, Usb!Online
        <5> QED
          BY <2>4, <2>5, <3>4, <4>2, <5>1 DEF Coming
      <4> QED
        BY <4>1, <4>2
    <3>6. StreamOf(t)'
      BY <1>1, <1>2, <3>4, <3>5, StreamStays DEF UsbInv
    <3> QED
      BY <3>1, <3>2, <3>3, <3>6
  <2> QED
    BY <2>6, <2>7, <2>9 DEF UsbInv
<1> QED
  BY <1>3, <1>4 DEF Usb!ReaderWakes

\* What the reader has is written to the pipe, taken for a head, or dropped.
LEMMA StepSendToHdcStream ==
    ASSUME UsbInv, NEW s \in UsbSession, Usb!SendToHdcStream(s), UNCHANGED sc
    PROVE  UsbInv'
<1> USE DEF Usb!device, Usb!finder
<1> DEFINE x == usbReading[s]
           g == Len(usbGot[s])
           p == usb[s].payload
           own == x.kind = "head" /\ x.s = s
<1>1. /\ reader[s] = "got" /\ x \in Item /\ usbGot[s] \in Seq(GotType) /\ g \in Nat /\ p \in Nat
      /\ UNCHANGED <<sc, Usb!device, Usb!finder, ses, usbOut, cancelled, cleaner, async, sends, tries>>
      /\ usbReading' = [usbReading EXCEPT ![s] = IF reader'[s] = "reset" THEN @ ELSE Usb!NoItem]
      /\ usb \in [UsbSession -> UsbType(sc.plugs)] /\ usbGot \in [UsbSession -> Seq(GotType)]
      /\ reader \in [UsbSession -> ReaderStates]
      /\ usbReading \in [UsbSession -> Item \cup {Usb!NoItem}]
  BY DEF Usb!SendToHdcStream, UsbInv, Typed, TakenOf, UsbType, ReaderStates
<1>2. PICK to \in {"top", "exit", "reset"} :
          /\ Usb!ReaderGoes(s, to)
          /\ \/ /\ own /\ to = "top" /\ usbGot' = usbGot
                /\ usb' = [usb EXCEPT ![s].payload = x.n]
             \/ /\ x.kind = "piece" /\ p > 0 /\ to = "top"
                /\ usbGot' = [usbGot EXCEPT ![s] = Append(@, x)]
                /\ usb' = [usb EXCEPT ![s].payload = p - 1]
             \/ to = "exit" /\ usbGot' = usbGot /\ usb' = usb
             \/ ~own /\ ~(x.kind = "piece" /\ p > 0) /\ to \in {"top", "reset"} /\ usbGot' = usbGot /\ usb' = usb
  BY <1>1 DEF Usb!SendToHdcStream, Usb!TakesPiece, Usb!Piped
<1>3. /\ reader' \in [UsbSession -> ReaderStates] /\ reader'[s] = to
      /\ \A t \in UsbSession : t # s => reader'[t] = reader[t]
      /\ usbReading' \in [UsbSession -> Item \cup {Usb!NoItem}]
      /\ usbReading'[s] = IF to = "reset" THEN x ELSE Usb!NoItem
      /\ \A t \in UsbSession : t # s => usbReading'[t] = usbReading[t]
  BY <1>1, <1>2 DEF Usb!ReaderGoes, ReaderStates
<1> HIDE DEF x, g, p, own
<1>4. /\ x.n \in Nat /\ x # Usb!NoItem
      /\ x.kind = "piece" => x \in GotType
      /\ p > 0 => p - 1 \in Nat
      /\ own = IsHead(x, s)
  BY <1>1 DEF Item, Usb!NoItem, GotType, own, IsHead
<1>5. /\ usb' \in [UsbSession -> UsbType(sc.plugs)]
      /\ \A t \in UsbSession : /\ usb'[t].handle = usb[t].handle /\ usb'[t].began = usb[t].began
                               /\ t # s => usb'[t].payload = usb[t].payload
  <2>1. ASSUME NEW n \in Nat, usb' = [usb EXCEPT ![s].payload = n]
        PROVE  /\ usb' \in [UsbSession -> UsbType(sc.plugs)]
               /\ \A t \in UsbSession : /\ usb'[t].handle = usb[t].handle /\ usb'[t].began = usb[t].began
                                        /\ t # s => usb'[t].payload = usb[t].payload
    <3>1. usb \in [UsbSession -> UsbType(sc.plugs)]
      BY <1>1
    <3> QED
      BY ONLY <2>1, <3>1, n \in Nat, s \in UsbSession DEF UsbType
  <2> QED
    BY <1>1, <1>2, <1>4, <2>1
<1>6. usbGot' \in [UsbSession -> Seq(GotType)] /\ \A t \in UsbSession : t # s => usbGot'[t] = usbGot[t]
  <2>1. CASE usbGot' = usbGot
    BY <1>1, <2>1
  <2>2. CASE x.kind = "piece" /\ usbGot' = [usbGot EXCEPT ![s] = Append(@, x)]
    <3>1. x \in GotType /\ usbGot[s] \in Seq(GotType)
      BY <1>1, <1>4, <2>2
    <3>2. Append(usbGot[s], x) \in Seq(GotType)
      BY <3>1
    <3> QED
      BY <1>1, <2>2, <3>2
  <2> QED
    BY <1>2, <2>1, <2>2
<1>7. Typed'
  BY <1>1, <1>3, <1>5, <1>6 DEF UsbInv, Typed, ReaderStates
<1>8. Attached' /\ Marks'
  BY <1>1 DEF UsbInv, Attached, Marks
<1>9. ses[s].child # "none"
  BY <1>1 DEF UsbInv, FreshOf
<1>10. ASSUME NEW t \in UsbSession
       PROVE  TakenOf(t)' /\ HeldOf(t)' /\ FreshOf(t)'
  <2>1. TakenOf(t)'
    BY <1>1, <1>2, <1>3, <1>4, <1>5 DEF UsbInv, TakenOf, Reading, Usb!Lives
  <2>2. HeldOf(t)'
    <3>1. HeldOf(t) /\ ses' = ses /\ plugs' = plugs /\ cleaner' = cleaner /\ async' = async
      BY <1>1 DEF UsbInv
    <3> QED
      BY <1>5, <3>1, HeldStays
  <2>3. FreshOf(t)'
    BY <1>1, <1>3, <1>5, <1>6, <1>9 DEF UsbInv, FreshOf
  <2> QED
    BY <2>1, <2>2, <2>3
<1>11. ASSUME NEW t \in UsbSession, t # s
       PROVE  StreamOf(t)'
  <2>1. Usb!Online(t)' = Usb!Online(t) /\ Reading(t)' = Reading(t) /\ Coming(t)' = Coming(t)
    BY <1>1, <1>3, <1>5, <1>11, ComingStays
  <2> QED
    BY <1>1, <1>5, <1>6, <1>11, <2>1, StreamStays DEF UsbInv
<1>12. StreamOf(s)'
  <2> SUFFICES ASSUME usb[s].began = 0
               PROVE  StreamOf(s)'
    BY <1>5 DEF StreamOf
  <2> DEFINE c == Coming(s)
  <2>1. /\ \A k \in DOMAIN usbGot[s] : usbGot[s][k] = Usb!Piece(s, k)
        /\ g <= said[s] /\ said[s] \in Nat
        /\ Follows(c, s, g, p, said[s])
        /\ Usb!Online(s) => Whole(c, s, g, p, said[s])
    BY <1>1 DEF UsbInv, StreamOf, Reading, g, p, Typed, Usb!Ids, Usb!ScenarioType
  <2>2. Usb!Online(s)' = Usb!Online(s)
    BY <1>1, <1>5 DEF Usb!Online
  <2>3. c \in Seq(Item) /\ c # <<>> /\ c[1] = x /\ Coming(s)' = Tail(c)
    <3>1. (IF Usb!Online(s) THEN usbWire ELSE <<>>) \in Seq(Item)
      BY DEF UsbInv, Typed
    <3>2. c = <<x>> \o (IF Usb!Online(s) THEN usbWire ELSE <<>>)
      BY <1>1 DEF Coming, x
    <3>3. Coming(s)' = IF Usb!Online(s) THEN usbWire ELSE <<>>
      <4>1. reader'[s] # "got" /\ usbWire' = usbWire
        BY <1>1, <1>2, <1>3
      <4>2. Coming(s)' = <<>> \o (IF Usb!Online(s) THEN usbWire ELSE <<>>)
        BY <2>2, <4>1 DEF Coming
      <4> QED
        BY <3>1, <4>2
    <3> HIDE DEF c
    <3> QED
      BY <1>1, <3>1, <3>2, <3>3
  <2> HIDE DEF c
  <2>4. said'[s] = said[s] /\ usb'[s].began = 0
    BY <1>1, <1>5
  <2>5. CASE to = "exit"
    BY <1>2, <1>3, <2>1, <2>5 DEF StreamOf, Reading, own, p
  <2>6. CASE own /\ usbGot' = usbGot /\ usb' = [usb EXCEPT ![s].payload = x.n]
    <3>1. /\ Follows(Tail(c), s, g, x.n, said[s])
          /\ Whole(c, s, g, p, said[s]) => Whole(Tail(c), s, g, x.n, said[s])
      <4>1. ~IsPiece(x, s) /\ x.n = IF IsHead(x, s) THEN x.n ELSE 0
        BY <1>4, <2>6 DEF own, IsPiece
      <4> QED
        BY <1>1, <1>4, <2>1, <2>3, <4>1, OtherTaken
    <3>2. usb'[s].payload = x.n /\ usbGot'[s] = usbGot[s] /\ Len(usbGot'[s]) = g
      BY <1>1, <2>6 DEF UsbType, g
    <3> QED
      BY <2>1, <2>2, <2>3, <2>4, <3>1, <3>2 DEF StreamOf
  <2>7. CASE x.kind = "piece" /\ p > 0 /\ usbGot' = [usbGot EXCEPT ![s] = Append(@, x)]
             /\ usb' = [usb EXCEPT ![s].payload = p - 1]
    <3>1. p \in Nat \ {0}
      BY <1>1, <2>7
    <3>2. /\ IsPiece(x, s)
          /\ Follows(Tail(c), s, g + 1, p - 1, said[s])
          /\ Whole(c, s, g, p, said[s]) => Whole(Tail(c), s, g + 1, p - 1, said[s])
      BY <1>1, <2>1, <2>3, <3>1, PieceTaken
    <3>3. x.n = g + 1 /\ g + 1 <= said[s]
      BY <1>1, <2>1, <2>3, <3>2, PieceComes
    <3>4. x = Usb!Piece(s, g + 1)
      BY <1>1, <3>2, <3>3 DEF Item, Usb!Piece, IsPiece
    <3>5. /\ usbGot'[s] = Append(usbGot[s], x) /\ Len(usbGot'[s]) = g + 1
          /\ \A k \in DOMAIN usbGot'[s] : usbGot'[s][k] = Usb!Piece(s, k)
      <4>1. usbGot'[s] = Append(usbGot[s], x) /\ Len(usbGot[s]) = g
        BY <1>1, <2>7 DEF g
      <4> QED
        BY <1>1, <2>1, <3>4, <4>1
    <3>6. usb'[s].payload = p - 1
      BY <1>1, <2>7 DEF UsbType
    <3> QED
      BY <2>1, <2>2, <2>3, <2>4, <3>2, <3>3, <3>5, <3>6 DEF StreamOf
  <2>8. CASE ~own /\ ~(x.kind = "piece" /\ p > 0) /\ usbGot' = usbGot /\ usb' = usb
    <3>1. ~IsPiece(x, s)
      <4>1. IsPiece(x, s) => p > 0
        BY <1>1, <2>1, <2>3, PieceComes
      <4> QED
        BY <2>8, <4>1 DEF IsPiece
    <3>2. 0 = IF IsHead(x, s) THEN x.n ELSE 0
      BY <1>4, <2>8
    <3>3. /\ p = 0
          /\ Follows(Tail(c), s, g, 0, said[s])
          /\ Whole(c, s, g, p, said[s]) => Whole(Tail(c), s, g, 0, said[s])
      BY <1>1, <2>1, <2>3, <3>1, <3>2, OtherTaken
    <3>4. usb'[s].payload = 0 /\ usbGot'[s] = usbGot[s] /\ Len(usbGot'[s]) = g
      BY <2>8, <3>3 DEF g, p
    <3> QED
      BY <2>1, <2>2, <2>3, <2>4, <3>3, <3>4 DEF StreamOf
  <2> QED
    BY <1>2, <2>5, <2>6, <2>7, <2>8 DEF x, own, p
<1> QED
  BY <1>7, <1>8, <1>10, <1>11, <1>12 DEF UsbInv

\* The reader sends a reset itself.
LEMMA StepPreSendUsbSoftReset ==
    ASSUME UsbInv, NEW s \in UsbSession, Usb!PreSendUsbSoftReset(s), UNCHANGED sc
    PROVE  UsbInv'
<1> USE DEF Usb!device, Usb!finder
<1> DEFINE old == IF usbReading[s].kind = "head" THEN usbReading[s].s ELSE None
           block == [Usb!NoBlock EXCEPT !.parts = <<[kind |-> "reset", s |-> old]>>, !.by = "reader"]
<1>1. /\ reader[s] = "reset" /\ usbOut[s] = Usb!NoBlock /\ usbOut' = [usbOut EXCEPT ![s] = block]
      /\ reader' = [reader EXCEPT ![s] = "resetting"]
      /\ usbReading' = [usbReading EXCEPT ![s] = Usb!NoItem]
      /\ UNCHANGED <<sc, Usb!device, Usb!finder, ses, usb, cancelled, usbGot, cleaner, async, sends, tries>>
  BY DEF Usb!PreSendUsbSoftReset, Usb!ReaderGoes
<1>2. usbReading[s] \in Item /\ ses[s].child # "none"
  BY <1>1 DEF UsbInv, Typed, TakenOf, FreshOf
<1>3. old \in Usb!Ids \cup {None}
  BY <1>2 DEF Item
<1> HIDE DEF old
<1>4. /\ block \in OutType /\ block.by = "reader" /\ block.parts = <<[kind |-> "reset", s |-> old]>>
      /\ block.parts # <<>> /\ \A i \in DOMAIN block.parts : block.parts[i].kind = "reset"
  <2>1. [kind |-> "reset", s |-> old] \in Part
    BY <1>3 DEF Part
  <2> DEFINE part == [kind |-> "reset", s |-> old]
  <2> HIDE DEF part
  <2>2. <<part>> \in Seq(Part) /\ <<part>> # <<>> /\ DOMAIN <<part>> = {1} /\ <<part>>[1] = part
    BY <2>1 DEF part
  <2>3. /\ block.parts = <<part>> /\ block.by = "reader" /\ ~block.submitted /\ ~block.failed
        /\ block = [parts |-> <<part>>, by |-> "reader", submitted |-> FALSE, failed |-> FALSE]
    <3>1. PICK q : q = <<part>>
      OBVIOUS
    <3>2. block = [Usb!NoBlock EXCEPT !.parts = q, !.by = "reader"]
      BY <3>1 DEF part
    <3> HIDE DEF block
    <3>3. block = [parts |-> q, by |-> "reader", submitted |-> FALSE, failed |-> FALSE]
      BY ONLY <3>2 DEF Usb!NoBlock
    <3> QED
      BY <3>1, <3>3
  <2>4. part.kind = "reset"
    BY DEF part
  <2> HIDE DEF block
  <2> QED
    BY <2>2, <2>3, <2>4 DEF OutType, part
<1> HIDE DEF block
<1>5. /\ reader \in [UsbSession -> ReaderStates] /\ reader' \in [UsbSession -> ReaderStates]
      /\ reader'[s] = "resetting"
      /\ \A t \in UsbSession : t # s => reader'[t] = reader[t]
      /\ usbReading' \in [UsbSession -> Item \cup {Usb!NoItem}] /\ usbReading'[s] = Usb!NoItem
      /\ \A t \in UsbSession : t # s => usbReading'[t] = usbReading[t]
      /\ usbOut' \in [UsbSession -> OutType] /\ usbOut'[s] = block
      /\ \A t \in UsbSession : t # s => usbOut'[t] = usbOut[t]
  BY <1>1, <1>4 DEF UsbInv, Typed, ReaderStates
<1>6. Typed'
  BY <1>1, <1>5 DEF UsbInv, Typed, ReaderStates
<1>7. Attached' /\ Marks'
  BY <1>1 DEF UsbInv, Attached, Marks
<1>8. ASSUME NEW t \in UsbSession
      PROVE  TakenOf(t)' /\ HeldOf(t)' /\ FreshOf(t)' /\ StreamOf(t)'
  <2>1. TakenOf(t)'
    <3>1. CASE t = s
      BY <1>1, <1>2, <1>4, <1>5, <3>1 DEF UsbInv, TakenOf, Reading, Usb!Lives
    <3>2. CASE t # s
      BY <1>1, <1>5, <3>2, TakenStays DEF UsbInv
    <3> QED
      BY <3>1, <3>2
  <2>2. HeldOf(t)'
    BY <1>1 DEF UsbInv, HeldOf
  <2>3. FreshOf(t)'
    BY <1>1, <1>2, <1>4, <1>5 DEF UsbInv, FreshOf
  <2>4. StreamOf(t)'
    <3>1. Usb!Online(t)' = Usb!Online(t)
      BY <1>1 DEF Usb!Online
    <3>2. Reading(t)' => Reading(t)
      BY <1>1, <1>5 DEF Reading
    <3>3. Coming(t)' = Coming(t)
      BY <1>1, <1>5, <3>1 DEF Coming
    <3> QED
      BY <1>1, <3>1, <3>2, <3>3, StreamStays DEF UsbInv
  <2> QED
    BY <2>1, <2>2, <2>3, <2>4
<1> QED
  BY <1>6, <1>7, <1>8 DEF UsbInv

-----------------------------------------------------------------------------
(* The senders.                                                              *)

LEMMA StepChildStarts ==
    ASSUME UsbInv, NEW s \in UsbSession, Usb!ChildStarts(s), UNCHANGED sc
    PROVE  UsbInv'
<1> USE DEF Usb!io, Usb!device, Usb!finder
<1>1. /\ ses[s].child = "up" /\ ses' = [ses EXCEPT ![s].child = "started"]
      /\ UNCHANGED <<sc, Usb!device, Usb!finder, Usb!io, cleaner, async, sends, tries>>
  BY DEF Usb!ChildStarts
<1>2. /\ ses' \in [UsbSession -> SesType]
      /\ \A t \in UsbSession : t # s => ses'[t] = ses[t]
      /\ ses'[s].stage = ses[s].stage /\ ses'[s].child = "started" /\ ses'[s].dead = ses[s].dead
      /\ ses'[s].freeing = ses[s].freeing
  <2>1. ses \in [UsbSession -> SesType] /\ ses' = [ses EXCEPT ![s].child = "started"]
    BY <1>1 DEF UsbInv, Typed
  <2> QED
    BY ONLY <2>1, s \in UsbSession DEF SesType
<1>3. Typed'
  BY <1>1, <1>2 DEF UsbInv, Typed
<1>4. Attached' /\ Marks'
  BY <1>1, <1>2 DEF UsbInv, Attached, Marks
<1>5. ASSUME NEW t \in UsbSession
      PROVE  TakenOf(t)' /\ HeldOf(t)' /\ FreshOf(t)' /\ StreamOf(t)'
  <2>1. TakenOf(t)'
    BY <1>1, <1>2 DEF UsbInv, TakenOf, Reading, Usb!Lives
  <2>2. HeldOf(t)'
    BY <1>1, <1>2 DEF UsbInv, HeldOf
  <2>3. FreshOf(t)'
    BY <1>1, <1>2 DEF UsbInv, FreshOf
  <2>4. StreamOf(t)'
    BY <1>1, ComingStays, StreamStays DEF UsbInv
  <2> QED
    BY <2>1, <2>2, <2>3, <2>4
<1> QED
  BY <1>3, <1>4, <1>5 DEF UsbInv

\* A block that is begun, or goes on: who sends it stays.
LEMMA BlockStays ==
    ASSUME UsbInv, NEW s \in UsbSession, NEW block \in OutType, usbOut' = [usbOut EXCEPT ![s] = block],
           block.parts # <<>>, block.by # "nobody", block.by = "reader" <=> reader[s] = "resetting",
           block.by = "child" => ses[s].child = "started",
           \A i \in DOMAIN block.parts : block.parts[i].kind # "reset" => block.parts[i].s = s,
           usb' \in [UsbSession -> UsbType(sc.plugs)],
           \A t \in UsbSession : /\ usb'[t].handle = usb[t].handle
                                 /\ usb'[t].payload = usb[t].payload
                                 /\ usb'[t].began = usb[t].began,
           cancelled' \subseteq UsbSession \X {"in", "out"}, sends' \in [UsbSession -> 0..sc.sends],
           serves' \in {serves, None, s}, Usb!Lives(s),
           sc' = sc, node' = node, plugs' = plugs, usbWire' = usbWire, said' = said, reader' = reader,
           ignore' = ignore, delayed' = delayed, entry' = entry, ses' = ses, usbReading' = usbReading,
           usbGot' = usbGot, cleaner' = cleaner, async' = async, tries' = tries
    PROVE  UsbInv'
<1>1. /\ usbOut' \in [UsbSession -> OutType] /\ usbOut'[s] = block
      /\ \A t \in UsbSession : t # s => usbOut'[t] = usbOut[t]
  BY DEF UsbInv, Typed
<1>2. ses[s].child # "none"
  <2>1. block.by \in {"child", "reader"}
    BY DEF OutType
  <2> QED
    BY <2>1 DEF UsbInv, FreshOf
<1>3. Typed'
  BY <1>1 DEF UsbInv, Typed, Usb!Ids
<1>4. Attached' /\ Marks'
  BY DEF UsbInv, Attached, Marks
<1>5. ASSUME NEW t \in UsbSession
      PROVE  TakenOf(t)' /\ HeldOf(t)' /\ FreshOf(t)' /\ StreamOf(t)'
  <2>1. TakenOf(t)'
    <3>1. CASE t = s
      BY <1>1, <3>1 DEF UsbInv, TakenOf, Reading, Usb!Lives
    <3>2. CASE t # s
      BY <1>1, <3>2, TakenStays DEF UsbInv
    <3> QED
      BY <3>1, <3>2
  <2>2. HeldOf(t)'
    BY HeldStays DEF UsbInv
  <2>3. FreshOf(t)'
    BY <1>1, <1>2, UsbAssumption DEF UsbInv, FreshOf, Usb!ConstantsAreSound
  <2>4. StreamOf(t)'
    BY ComingStays, StreamStays DEF UsbInv
  <2> QED
    BY <2>1, <2>2, <2>3, <2>4
<1> QED
  BY <1>3, <1>4, <1>5 DEF UsbInv

\* The block is over: its thread goes on, the reader for the next transfer.
LEMMA BlockOver ==
    ASSUME UsbInv, NEW s \in UsbSession, Usb!BlockEnds(s, <<>>), usbOut[s].parts # <<>>,
           usb' \in [UsbSession -> UsbType(sc.plugs)],
           \A t \in UsbSession : /\ usb'[t].handle = usb[t].handle
                                 /\ usb'[t].payload = usb[t].payload
                                 /\ usb'[t].began = usb[t].began,
           cancelled' \subseteq UsbSession \X {"in", "out"}, async' \in {async, async \cup {s}},
           serves' \in {serves, None, s}, Usb!Lives(s),
           sc' = sc, node' = node, plugs' = plugs, usbWire' = usbWire, said' = said,
           ignore' = ignore, delayed' = delayed, entry' = entry, ses' = ses, usbReading' = usbReading,
           usbGot' = usbGot, cleaner' = cleaner, sends' = sends, tries' = tries
    PROVE  UsbInv'
<1>1. /\ usbOut' = [usbOut EXCEPT ![s] = Usb!NoBlock]
      /\ IF usbOut[s].by = "reader" THEN reader' = [reader EXCEPT ![s] = "top"] ELSE reader' = reader
  BY DEF Usb!BlockEnds, Usb!ReaderGoes
<1>2. Usb!NoBlock \in OutType
  BY DEF Usb!NoBlock, OutType
<1>3. /\ usbOut' \in [UsbSession -> OutType] /\ usbOut'[s] = Usb!NoBlock
      /\ \A t \in UsbSession : t # s => usbOut'[t] = usbOut[t]
  BY <1>1, <1>2 DEF UsbInv, Typed
<1>4. /\ reader \in [UsbSession -> ReaderStates] /\ reader' \in [UsbSession -> ReaderStates]
      /\ \A t \in UsbSession : t # s => reader'[t] = reader[t]
      /\ reader'[s] = IF usbOut[s].by = "reader" THEN "top" ELSE reader[s]
  BY <1>1 DEF UsbInv, Typed, ReaderStates
<1>5. /\ usbOut[s].by \in {"child", "reader"} /\ ses[s].child # "none"
      /\ usbOut[s].by = "reader" <=> reader[s] = "resetting"
  <2>1. usbOut[s].by \in {"child", "reader"}
    BY DEF UsbInv, Typed, OutType, TakenOf
  <2> QED
    BY <2>1 DEF UsbInv, TakenOf, FreshOf
<1>6. Usb!NoBlock.parts = <<>> /\ Usb!NoBlock.by = "nobody"
  BY DEF Usb!NoBlock
<1>7. Typed'
  BY <1>3, <1>4 DEF UsbInv, Typed, Usb!Ids, ReaderStates
<1>8. Attached' /\ Marks'
  BY DEF UsbInv, Attached, Marks
<1>9. ASSUME NEW t \in UsbSession
      PROVE  TakenOf(t)' /\ HeldOf(t)' /\ FreshOf(t)' /\ StreamOf(t)'
  <2>1. TakenOf(t)'
    <3>1. CASE t = s
      BY <1>3, <1>4, <1>5, <1>6, <3>1 DEF UsbInv, TakenOf, Reading, Usb!Lives
    <3>2. CASE t # s
      BY <1>3, <1>4, <3>2, TakenStays DEF UsbInv
    <3> QED
      BY <3>1, <3>2
  <2>2. HeldOf(t)'
    <3>1. ses[s].stage \notin {"none", "pre"}
      BY <1>5 DEF UsbInv, HeldOf
    <3> QED
      BY <3>1, HeldStays DEF UsbInv
  <2>3. FreshOf(t)'
    BY <1>3, <1>4, <1>5, <1>6, UsbAssumption DEF UsbInv, FreshOf, Usb!ConstantsAreSound
  <2>4. StreamOf(t)'
    <3>1. Usb!Online(t)' = Usb!Online(t)
      BY DEF Usb!Online
    <3>2. Reading(t)' => Reading(t)
      BY <1>4, <1>5 DEF Reading
    <3>3. (reader'[t] = "got") = (reader[t] = "got")
      BY <1>4, <1>5
    <3>4. Coming(t)' = Coming(t)
      BY <3>1, <3>3 DEF Coming
    <3> QED
      BY <3>1, <3>2, <3>4, StreamStays DEF UsbInv
  <2> QED
    BY <2>1, <2>2, <2>3, <2>4
<1> QED
  BY <1>7, <1>8, <1>9 DEF UsbInv

\* A session that sends has not been deleted.
LEMMA SenderLives ==
    ASSUME UsbInv, NEW s \in UsbSession, usbOut[s] # Usb!NoBlock
    PROVE  Usb!Lives(s)
  BY DEF UsbInv, TakenOf

LEMMA StepSendUSBBlock ==
    ASSUME UsbInv, NEW s \in UsbSession, Usb!SendUSBBlock(s), UNCHANGED sc
    PROVE  UsbInv'
<1> USE DEF Usb!device, Usb!finder
<1> DEFINE parts == <<[kind |-> "head", s |-> s], [kind |-> "body", s |-> s]>>
           block == [Usb!NoBlock EXCEPT !.by = "child", !.parts = parts]
<1>1. /\ ses[s].child = "started" /\ ~ses[s].dead /\ usbOut[s] = Usb!NoBlock
      /\ sends[s] < sc.sends /\ sends' = [sends EXCEPT ![s] = @ + 1]
      /\ usbOut' = [usbOut EXCEPT ![s] = block]
      /\ UNCHANGED <<sc, Usb!device, Usb!finder, ses, usb, reader, usbReading, cancelled, usbGot, cleaner, async, tries>>
  BY DEF Usb!SendUSBBlock
<1>2. parts \in Seq(Part) /\ parts # <<>> /\ \A i \in DOMAIN parts : parts[i].s = s
  BY DEF Part, Usb!Ids
<1>3. block \in OutType /\ block.parts = parts /\ block.by = "child"
  <2>1. PICK q : q = parts
    OBVIOUS
  <2>2. block = [Usb!NoBlock EXCEPT !.by = "child", !.parts = q]
    BY <2>1
  <2> HIDE DEF block, parts
  <2>3. block = [parts |-> q, by |-> "child", submitted |-> FALSE, failed |-> FALSE]
    BY ONLY <2>2 DEF Usb!NoBlock
  <2> QED
    BY <1>2, <2>1, <2>3 DEF OutType
<1> HIDE DEF parts, block
<1>4. sends' \in [UsbSession -> 0..sc.sends]
  <2>1. sends \in [UsbSession -> 0..sc.sends] /\ sc.sends \in Nat
    BY DEF UsbInv, Typed, Usb!ScenarioType
  <2>2. sends[s] + 1 \in 0..sc.sends
    BY <1>1, <2>1
  <2> QED
    BY <1>1, <2>1, <2>2
<1>5. Usb!Lives(s) /\ reader[s] # "resetting"
  BY <1>1 DEF UsbInv, TakenOf, Usb!Lives, Usb!NoBlock
<1>6. usb \in [UsbSession -> UsbType(sc.plugs)] /\ cancelled \subseteq UsbSession \X {"in", "out"}
  BY DEF UsbInv, Typed
<1>7. /\ usbOut' = [usbOut EXCEPT ![s] = block] /\ block \in OutType /\ block.parts # <<>>
      /\ block.by # "nobody"
      /\ block.by = "reader" <=> reader[s] = "resetting"
      /\ block.by = "child" => ses[s].child = "started"
      /\ \A i \in DOMAIN block.parts : block.parts[i].kind # "reset" => block.parts[i].s = s
  BY <1>1, <1>2, <1>3, <1>5
<1>8. /\ cancelled' \subseteq UsbSession \X {"in", "out"} /\ sends' \in [UsbSession -> 0..sc.sends]
      /\ serves' \in {serves, None, s} /\ Usb!Lives(s)
      /\ sc' = sc /\ node' = node /\ plugs' = plugs /\ usbWire' = usbWire /\ said' = said
      /\ reader' = reader
      /\ ignore' = ignore /\ delayed' = delayed /\ entry' = entry /\ ses' = ses
      /\ usbReading' = usbReading
      /\ usbGot' = usbGot /\ cleaner' = cleaner /\ async' = async /\ tries' = tries
  BY <1>1, <1>4, <1>5, <1>6
<1> QED
  BY <1>7, <1>8, <1>1, <1>6, BlockStays

\* The fields of a block that is under way.
LEMMA BlockFacts ==
    ASSUME NEW b \in OutType, NEW x \in BOOLEAN, NEW y \in BOOLEAN, NEW q \in Seq(Part)
    PROVE  /\ [b EXCEPT !.submitted = x, !.failed = y] \in OutType
           /\ [b EXCEPT !.submitted = x, !.failed = y].parts = b.parts
           /\ [b EXCEPT !.submitted = x, !.failed = y].by = b.by
           /\ [b EXCEPT !.parts = q, !.submitted = x] \in OutType
           /\ [b EXCEPT !.parts = q, !.submitted = x].parts = q
           /\ [b EXCEPT !.parts = q, !.submitted = x].by = b.by
  BY DEF OutType

\* The sender's block as it stands, and what a change of its marks alone means.
LEMMA Sending ==
    ASSUME UsbInv, NEW s \in UsbSession, usbOut[s].parts # <<>>
    PROVE  /\ usbOut[s] \in OutType /\ usbOut[s].by \in {"child", "reader"} /\ Usb!Lives(s)
           /\ usbOut[s].by = "reader" <=> reader[s] = "resetting"
           /\ usbOut[s].by = "child" => ses[s].child = "started"
           /\ \A i \in DOMAIN usbOut[s].parts : usbOut[s].parts[i].kind # "reset" => usbOut[s].parts[i].s = s
<1>1. usbOut[s] \in OutType /\ usbOut[s] # Usb!NoBlock
  BY DEF UsbInv, Typed, Usb!NoBlock
<1>2. usbOut[s].by \in {"child", "reader"}
  BY <1>1 DEF UsbInv, TakenOf, OutType
<1> QED
  BY <1>1, <1>2, SenderLives DEF UsbInv, TakenOf, FreshOf

LEMMA StepSubmitUsbBio ==
    ASSUME UsbInv, NEW s \in UsbSession, Usb!SubmitUsbBio(s), UNCHANGED sc
    PROVE  UsbInv'
<1> USE DEF Usb!device, Usb!finder
<1>1. /\ usbOut[s].parts # <<>> /\ usb' = [usb EXCEPT ![s].outDone = FALSE]
      /\ usbOut' = [usbOut EXCEPT ![s].submitted = Usb!Online(s), ![s].failed = ~Usb!Online(s)]
      /\ UNCHANGED <<sc, Usb!device, Usb!finder, ses, reader, usbReading, cancelled, usbGot, cleaner, async, sends, tries>>
      /\ usb \in [UsbSession -> UsbType(sc.plugs)]
      /\ cancelled \subseteq UsbSession \X {"in", "out"}
      /\ usbOut \in [UsbSession -> OutType] /\ sends \in [UsbSession -> 0..sc.sends]
  BY DEF Usb!SubmitUsbBio, UsbInv, Typed
<1>2. /\ usb' \in [UsbSession -> UsbType(sc.plugs)]
      /\ \A t \in UsbSession : /\ usb'[t].handle = usb[t].handle
                               /\ usb'[t].payload = usb[t].payload /\ usb'[t].began = usb[t].began
  BY <1>1, DoneIsMarked
<1>3. /\ usbOut[s] \in OutType /\ usbOut[s].by \in {"child", "reader"} /\ Usb!Lives(s)
      /\ usbOut[s].by = "reader" <=> reader[s] = "resetting"
      /\ usbOut[s].by = "child" => ses[s].child = "started"
      /\ \A i \in DOMAIN usbOut[s].parts : usbOut[s].parts[i].kind # "reset" => usbOut[s].parts[i].s = s
  BY <1>1, Sending
<1>4. PICK block : block = [usbOut[s] EXCEPT !.submitted = Usb!Online(s), !.failed = ~Usb!Online(s)]
  OBVIOUS
<1>5. Usb!Online(s) \in BOOLEAN /\ (~Usb!Online(s)) \in BOOLEAN /\ <<>> \in Seq(Part)
  BY DEF Usb!Online
<1>6. block \in OutType /\ block.parts = usbOut[s].parts /\ block.by = usbOut[s].by
  BY <1>3, <1>4, <1>5, BlockFacts
<1>7. usbOut' = [usbOut EXCEPT ![s] = block]
  BY <1>1, <1>4
<1>8. /\ usbOut' = [usbOut EXCEPT ![s] = block] /\ block \in OutType /\ block.parts # <<>>
      /\ block.by # "nobody"
      /\ block.by = "reader" <=> reader[s] = "resetting"
      /\ block.by = "child" => ses[s].child = "started"
      /\ \A i \in DOMAIN block.parts : block.parts[i].kind # "reset" => block.parts[i].s = s
  BY <1>1, <1>3, <1>6, <1>7
<1>9. /\ cancelled' \subseteq UsbSession \X {"in", "out"} /\ sends' \in [UsbSession -> 0..sc.sends]
      /\ serves' \in {serves, None, s} /\ Usb!Lives(s)
      /\ sc' = sc /\ node' = node /\ plugs' = plugs /\ usbWire' = usbWire /\ said' = said
      /\ reader' = reader
      /\ ignore' = ignore /\ delayed' = delayed /\ entry' = entry /\ ses' = ses
      /\ usbReading' = usbReading
      /\ usbGot' = usbGot /\ cleaner' = cleaner /\ async' = async /\ tries' = tries
  BY <1>1, <1>3
<1> QED
  BY <1>8, <1>9, <1>2, BlockStays

\* What remains of the transport when a block is over.
LEMMA AfterBlockFacts ==
    ASSUME NEW s, NEW m, NEW u \in UsbType(m), NEW parts
    PROVE  /\ Usb!AfterBlock(s, u, parts) \in UsbType(m)
           /\ Usb!AfterBlock(s, u, parts).handle = u.handle
           /\ Usb!AfterBlock(s, u, parts).payload = u.payload
           /\ Usb!AfterBlock(s, u, parts).began = u.began
<1>1. PICK b : b = (u.resetIO \/ (parts = <<>> /\ usbOut[s].by = "reader"))
  OBVIOUS
<1>2. u.resetIO \in BOOLEAN /\ b \in BOOLEAN
  BY <1>1 DEF UsbType
<1>3. PICK v : v = [u EXCEPT !.resetIO = b]
  OBVIOUS
<1>4. v \in UsbType(m) /\ v.handle = u.handle /\ v.payload = u.payload /\ v.began = u.began
  BY ONLY <1>2, <1>3, u \in UsbType(m) DEF UsbType
<1>5. Usb!AfterBlock(s, u, parts) = v
  BY <1>1, <1>3 DEF Usb!AfterBlock
<1> QED
  BY <1>4, <1>5

\* A part has gone, the last one or not, or is given up.
LEMMA StepPartIsSent ==
    ASSUME UsbInv, NEW s \in UsbSession, Usb!PartIsSent(s), UNCHANGED sc
    PROVE  UsbInv'
<1> USE DEF Usb!finder
<1>1. /\ usbOut[s].submitted /\ cancelled' = cancelled \ {<<s, "out">>}
      /\ UNCHANGED <<sc, node, plugs, usbWire, said, Usb!finder, ses, usbReading, usbGot, cleaner, async, sends, tries>>
      /\ usb \in [UsbSession -> UsbType(sc.plugs)]
      /\ cancelled' \subseteq UsbSession \X {"in", "out"}
      /\ usbOut \in [UsbSession -> OutType] /\ sends \in [UsbSession -> 0..sc.sends]
  BY DEF Usb!PartIsSent, UsbInv, Typed
<1>2. usbOut[s].parts # <<>>
  BY <1>1 DEF UsbInv, TakenOf, Usb!NoBlock
<1>3. /\ usbOut[s] \in OutType /\ usbOut[s].by \in {"child", "reader"} /\ Usb!Lives(s)
      /\ usbOut[s].by = "reader" <=> reader[s] = "resetting"
      /\ usbOut[s].by = "child" => ses[s].child = "started"
      /\ \A i \in DOMAIN usbOut[s].parts : usbOut[s].parts[i].kind # "reset" => usbOut[s].parts[i].s = s
  BY <1>2, Sending
<1>4. CASE /\ usbOut' = [usbOut EXCEPT ![s].submitted = FALSE, ![s].failed = TRUE]
           /\ usb' = [usb EXCEPT ![s].outDone = TRUE]
           /\ UNCHANGED <<serves, reader>>
  <2>1. /\ usb' \in [UsbSession -> UsbType(sc.plugs)]
        /\ \A t \in UsbSession : /\ usb'[t].handle = usb[t].handle
                                 /\ usb'[t].payload = usb[t].payload /\ usb'[t].began = usb[t].began
    BY <1>1, <1>4, DoneIsMarked
  <2>2. PICK block : block = [usbOut[s] EXCEPT !.submitted = FALSE, !.failed = TRUE]
    OBVIOUS
  <2>3. block \in OutType /\ block.parts = usbOut[s].parts /\ block.by = usbOut[s].by
    <3>1. TRUE \in BOOLEAN /\ FALSE \in BOOLEAN /\ <<>> \in Seq(Part)
      OBVIOUS
    <3> QED
      BY <1>3, <2>2, <3>1, BlockFacts
  <2>4. usbOut' = [usbOut EXCEPT ![s] = block]
    BY <1>1, <1>4, <2>2
  <2>5. /\ usbOut' = [usbOut EXCEPT ![s] = block] /\ block \in OutType /\ block.parts # <<>>
        /\ block.by # "nobody"
        /\ block.by = "reader" <=> reader[s] = "resetting"
        /\ block.by = "child" => ses[s].child = "started"
        /\ \A i \in DOMAIN block.parts : block.parts[i].kind # "reset" => block.parts[i].s = s
    BY <1>2, <1>3, <2>3, <2>4
  <2>6. /\ cancelled' \subseteq UsbSession \X {"in", "out"}
        /\ sends' \in [UsbSession -> 0..sc.sends]
        /\ serves' \in {serves, None, s} /\ Usb!Lives(s)
        /\ sc' = sc /\ node' = node /\ plugs' = plugs /\ usbWire' = usbWire /\ said' = said
        /\ reader' = reader
        /\ ignore' = ignore /\ delayed' = delayed /\ entry' = entry /\ ses' = ses
        /\ usbReading' = usbReading
        /\ usbGot' = usbGot /\ cleaner' = cleaner /\ async' = async /\ tries' = tries
    BY <1>1, <1>3, <1>4
  <2> QED
    BY <2>5, <2>6, <2>1, BlockStays
<1>5. CASE /\ serves' = Usb!DaemonTakes(Head(usbOut[s].parts))
           /\ Usb!BlockEnds(s, Tail(usbOut[s].parts))
           /\ usb' = [usb EXCEPT ![s] = Usb!AfterBlock(s, [@ EXCEPT !.outDone = TRUE], Tail(usbOut[s].parts))]
  <2>1. usbOut[s].parts \in Seq(Part)
    BY <1>3 DEF OutType
  <2>2. PICK q : q = Tail(usbOut[s].parts)
    OBVIOUS
  <2>3. /\ q \in Seq(Part) /\ Head(usbOut[s].parts) = usbOut[s].parts[1]
        /\ 1 \in DOMAIN usbOut[s].parts
        /\ \A i \in DOMAIN q : i + 1 \in DOMAIN usbOut[s].parts /\ q[i] = usbOut[s].parts[i + 1]
    BY <1>2, <2>1, <2>2
  <2>4. serves' \in {serves, None, s}
    BY <1>3, <1>5, <2>3 DEF Usb!DaemonTakes
  <2>5. /\ usb' \in [UsbSession -> UsbType(sc.plugs)]
        /\ \A t \in UsbSession : /\ usb'[t].handle = usb[t].handle
                                 /\ usb'[t].payload = usb[t].payload /\ usb'[t].began = usb[t].began
    <3>1. PICK v : v = [usb[s] EXCEPT !.outDone = TRUE]
      OBVIOUS
    <3>2. usb[s] \in UsbType(sc.plugs)
      BY <1>1
    <3>3. /\ v \in UsbType(sc.plugs) /\ v.handle = usb[s].handle
          /\ v.payload = usb[s].payload /\ v.began = usb[s].began
      BY ONLY <3>1, <3>2 DEF UsbType
    <3>4. usb' = [usb EXCEPT ![s] = Usb!AfterBlock(s, v, q)]
      BY <1>1, <1>5, <2>2, <3>1
    <3> QED
      BY <1>1, <3>3, <3>4, AfterBlockFacts
  <2>6. CASE q # <<>>
    <3>1. PICK block : block = [usbOut[s] EXCEPT !.parts = q, !.submitted = FALSE]
      OBVIOUS
    <3>2. block \in OutType /\ block.parts = q /\ block.by = usbOut[s].by
      <4>1. FALSE \in BOOLEAN
        OBVIOUS
      <4> QED
        BY <1>3, <2>3, <3>1, <4>1, BlockFacts
    <3>3. usbOut' = [usbOut EXCEPT ![s] = block] /\ reader' = reader
      BY <1>5, <2>2, <2>6, <3>1 DEF Usb!BlockEnds
    <3>4. \A i \in DOMAIN block.parts : block.parts[i].kind # "reset" => block.parts[i].s = s
      BY <1>3, <2>3, <3>2
    <3>5. /\ usbOut' = [usbOut EXCEPT ![s] = block] /\ block \in OutType /\ block.parts # <<>>
          /\ block.by # "nobody"
          /\ block.by = "reader" <=> reader[s] = "resetting"
          /\ block.by = "child" => ses[s].child = "started"
          /\ \A i \in DOMAIN block.parts : block.parts[i].kind # "reset" => block.parts[i].s = s
      BY <1>3, <2>6, <3>2, <3>3, <3>4
    <3>6. /\ cancelled' \subseteq UsbSession \X {"in", "out"}
          /\ sends' \in [UsbSession -> 0..sc.sends]
          /\ serves' \in {serves, None, s} /\ Usb!Lives(s)
          /\ sc' = sc /\ node' = node /\ plugs' = plugs /\ usbWire' = usbWire /\ said' = said
          /\ reader' = reader
          /\ ignore' = ignore /\ delayed' = delayed /\ entry' = entry /\ ses' = ses
          /\ usbReading' = usbReading
          /\ usbGot' = usbGot /\ cleaner' = cleaner /\ async' = async /\ tries' = tries
      BY <1>1, <1>3, <2>4, <3>3
    <3> QED
      BY <3>5, <3>6, <2>5, BlockStays
  <2>7. CASE q = <<>>
    <3>1. Usb!BlockEnds(s, <<>>)
      BY <1>5, <2>2, <2>7
    <3> QED
      BY <1>1, <1>2, <1>3, <2>4, <2>5, <3>1, BlockOver
  <2> QED
    BY <2>6, <2>7
<1> QED
  BY <1>4, <1>5 DEF Usb!PartIsSent

LEMMA StepSendUSBRawFails ==
    ASSUME UsbInv, NEW s \in UsbSession, Usb!SendUSBRawFails(s), UNCHANGED sc
    PROVE  UsbInv'
<1> USE DEF Usb!device, Usb!finder
<1>1. /\ usbOut[s].failed /\ cancelled' = cancelled \cup Usb!ToCancel(s) /\ async' = async \cup {s}
      /\ Usb!BlockEnds(s, <<>>)
      /\ usb' = [usb EXCEPT ![s] = Usb!AfterBlock(s, [Usb!Shut(@) EXCEPT !.outShut = TRUE], <<>>)]
      /\ UNCHANGED <<sc, Usb!device, Usb!finder, ses, usbReading, usbGot, cleaner, sends, tries>>
      /\ usb \in [UsbSession -> UsbType(sc.plugs)]
      /\ cancelled \subseteq UsbSession \X {"in", "out"}
  BY DEF Usb!SendUSBRawFails, UsbInv, Typed
<1>2. usbOut[s].parts # <<>>
  BY <1>1 DEF UsbInv, TakenOf, Usb!NoBlock
<1>3. Usb!Lives(s)
  BY <1>2, Sending
<1>4. cancelled' \subseteq UsbSession \X {"in", "out"}
  BY <1>1 DEF Usb!ToCancel
<1>5. /\ usb' \in [UsbSession -> UsbType(sc.plugs)]
      /\ \A t \in UsbSession : /\ usb'[t].handle = usb[t].handle
                               /\ usb'[t].payload = usb[t].payload /\ usb'[t].began = usb[t].began
  <2>1. PICK u : u = Usb!Shut(usb[s])
    OBVIOUS
  <2>2. 0 \in Address(sc.plugs)
    BY DEF UsbInv, Typed, Usb!ScenarioType, Address
  <2>3. /\ u \in UsbType(sc.plugs) /\ u.handle = usb[s].handle
        /\ u.payload = usb[s].payload /\ u.began = usb[s].began
    BY <1>1, <2>1, <2>2, TransportFacts
  <2>4. PICK v : v = [u EXCEPT !.outShut = TRUE]
    OBVIOUS
  <2>5. /\ v \in UsbType(sc.plugs) /\ v.handle = u.handle
        /\ v.payload = u.payload /\ v.began = u.began
    BY ONLY <2>3, <2>4 DEF UsbType
  <2>6. usb' = [usb EXCEPT ![s] = Usb!AfterBlock(s, v, <<>>)]
    BY <1>1, <2>1, <2>4
  <2>7. PICK w : w = Usb!AfterBlock(s, v, <<>>)
    OBVIOUS
  <2>8. /\ w \in UsbType(sc.plugs) /\ w.handle = v.handle
        /\ w.payload = v.payload /\ w.began = v.began
    BY <2>5, <2>7, AfterBlockFacts
  <2>9. usb' = [usb EXCEPT ![s] = w]
    BY <2>6, <2>7
  <2> HIDE DEF Usb!device, Usb!finder
  <2> QED
    BY <1>1, <2>3, <2>5, <2>8, <2>9
<1> QED
  BY <1>1, <1>2, <1>3, <1>4, <1>5, BlockOver

LEMMA StepSessionFails ==
    ASSUME UsbInv, NEW s \in UsbSession, Usb!SessionFails(s), UNCHANGED sc
    PROVE  UsbInv'
<1> USE DEF Usb!io, Usb!device, Usb!finder
<1>1. /\ ses[s].child = "started" /\ async' = async \cup {s}
      /\ UNCHANGED <<sc, Usb!device, Usb!finder, ses, Usb!io, cleaner, sends, tries>>
  BY DEF Usb!SessionFails
<1>2. Typed'
  BY <1>1 DEF UsbInv, Typed
<1>3. Attached' /\ Marks'
  BY <1>1 DEF UsbInv, Attached, Marks
<1>4. ASSUME NEW t \in UsbSession
      PROVE  TakenOf(t)' /\ HeldOf(t)' /\ FreshOf(t)' /\ StreamOf(t)'
  <2>1. HeldOf(t)'
    BY <1>1 DEF UsbInv, HeldOf
  <2>2. TakenOf(t)' /\ FreshOf(t)' /\ StreamOf(t)'
    BY <1>1, TakenStays, FreshStays, ComingStays, StreamStays DEF UsbInv
  <2> QED
    BY <2>1, <2>2
<1> QED
  BY <1>2, <1>3, <1>4 DEF UsbInv

-----------------------------------------------------------------------------
(* The invariant holds, and says what is asked.                              *)

\* Nothing is found, read or sent yet.
LEMMA InitUsb ==
    ASSUME Usb!Init
    PROVE  UsbInv
<1> DEFINE fresh == Usb!NewUsb([payload |-> 0, resetIO |-> FALSE])
<1>1. /\ sc \in Usb!ScenarioType /\ node = 0 /\ plugs = 0 /\ serves \in {Old, None}
      /\ usbWire = <<>> /\ said = [s \in Usb!Ids |-> 0]
      /\ ignore = [n \in Usb!Node |-> "none"] /\ delayed = [n \in Usb!Node |-> 0]
      /\ entry = Usb!NoEntry
      /\ ses = [s \in UsbSession |-> Usb!NoSession] /\ usb = [s \in UsbSession |-> fresh]
      /\ cleaner = [s \in UsbSession |-> "no"] /\ reader = [s \in UsbSession |-> "off"]
      /\ usbReading = [s \in UsbSession |-> Usb!NoItem]
      /\ usbOut = [s \in UsbSession |-> Usb!NoBlock]
      /\ cancelled = {} /\ async = {} /\ usbGot = [s \in UsbSession |-> <<>>]
      /\ sends = [s \in UsbSession |-> 0] /\ tries = 0
  BY UsbAssumption DEF Usb!Init, Usb!ConstantsAreSound
<1>2. sc.plugs \in Nat /\ sc.said \in Nat /\ sc.sends \in Nat /\ sc.tries \in Nat
  BY <1>1 DEF Usb!ScenarioType
<1>3. fresh \in UsbType(sc.plugs) /\ fresh.handle = 0 /\ fresh.payload = fresh.began
  BY <1>2 DEF Usb!NewUsb, UsbType, Address
<1> HIDE DEF fresh
<1>4. Usb!NoSession \in SesType /\ Usb!NoBlock \in OutType /\ Usb!NoEntry \in EntryType(sc.plugs)
  BY <1>2 DEF Usb!NoSession, SesType, Usb!NoBlock, OutType, Usb!NoEntry, EntryType, Address
<1>5. Typed
  BY <1>1, <1>2, <1>3, <1>4 DEF Typed, Usb!Node, Usb!Ids, Address
<1>6. Attached /\ Marks
  BY <1>1, <1>2 DEF Attached, Marks, Usb!Node
<1>7. ASSUME NEW s \in UsbSession
      PROVE  TakenOf(s) /\ HeldOf(s) /\ FreshOf(s) /\ StreamOf(s)
  <2>1. /\ reader[s] = "off" /\ usbReading[s] = Usb!NoItem /\ usbOut[s] = Usb!NoBlock
        /\ cleaner[s] = "no"
        /\ ses[s] = Usb!NoSession /\ usb[s] = fresh /\ usbGot[s] = <<>> /\ said[s] = 0
    BY <1>1 DEF Usb!Ids
  <2>2. TakenOf(s)
    BY <1>3, <2>1 DEF TakenOf, Usb!NoBlock, Usb!NoSession, Reading, Usb!Lives
  <2>3. HeldOf(s)
    BY <1>1, <1>3, <2>1 DEF HeldOf, Usb!NoSession
  <2>4. FreshOf(s)
    BY <1>1, <1>3, <2>1, UsbAssumption DEF FreshOf, Usb!NoBlock, Usb!ConstantsAreSound
  <2>5. StreamOf(s)
    BY <2>1 DEF StreamOf, Reading
  <2> QED
    BY <2>2, <2>3, <2>4, <2>5
<1> QED
  BY <1>5, <1>6, <1>7 DEF UsbInv

LEMMA UsbStutters ==
    ASSUME UsbInv, UNCHANGED Usb!vars
    PROVE  UsbInv'
<1> USE DEF Usb!vars, Usb!device, Usb!finder, Usb!io
<1>1. Typed' /\ Attached' /\ Marks'
  BY DEF UsbInv, Typed, Attached, Marks
<1>2. ASSUME NEW t \in UsbSession
      PROVE  TakenOf(t)' /\ HeldOf(t)' /\ FreshOf(t)' /\ StreamOf(t)'
  <2>1. TakenOf(t)' /\ FreshOf(t)'
    BY TakenStays, FreshStays DEF UsbInv
  <2>2. HeldOf(t)'
    BY HeldStays DEF UsbInv
  <2>3. StreamOf(t)'
    BY ComingStays, StreamStays DEF UsbInv
  <2> QED
    BY <2>1, <2>2, <2>3
<1> QED
  BY <1>1, <1>2 DEF UsbInv

LEMMA StepUsb ==
    ASSUME UsbInv, [Usb!Next]_(Usb!vars)
    PROVE  UsbInv'
<1>1. CASE (Usb!MainRuns /\ UNCHANGED sc) \/ Usb!TimersRun
  BY <1>1, StepWatchUsbNodeChange, StepRemoveIgnoreDevice, StepUsbPreConnect,
     StepClearUsbChannelFinished, StepAsyncFree, StepFreeSessionOpeate,
     StepFreeSessionContinue, StepFreeSessionFinally DEF Usb!MainRuns, Usb!TimersRun
<1>2. CASE Usb!ThreadsRun /\ UNCHANGED sc
  BY <1>2, StepSendSoftReset, StepClearUsbChannel, StepReaderTop, StepReaderSubmits,
     StepReaderWakes, StepSendToHdcStream, StepPreSendUsbSoftReset, StepReaderEnds,
     StepReaderRemoves, StepChildStarts, StepChildStops, StepSubmitUsbBio, StepPartIsSent,
     StepSendUSBRawFails DEF Usb!ThreadsRun
<1>3. CASE (Usb!Plug \/ Usb!Unplug \/ Usb!DaemonSends) /\ UNCHANGED sc
  BY <1>3, StepPlug, StepUnplug, StepDaemonSends
<1>4. CASE \E s \in UsbSession : (Usb!SendUSBBlock(s) \/ Usb!SessionFails(s)) /\ UNCHANGED sc
  BY <1>4, StepSendUSBBlock, StepSessionFails
<1>5. CASE UNCHANGED Usb!vars
  BY <1>5, UsbStutters
<1> QED
  BY <1>1, <1>2, <1>3, <1>4, <1>5 DEF Usb!Next, Usb!Loops

LEMMA UsbInvIsSound ==
    ASSUME UsbInv
    PROVE  Usb!UsbIsSound
<1>1. Usb!OwnStream
  BY DEF UsbInv, StreamOf, Usb!OwnStream
<1>2. Usb!MarkIsOwed
  BY DEF UsbInv, Marks, Usb!MarkIsOwed, Usb!Node
<1>3. ASSUME NEW s \in UsbSession, ~Usb!Lives(s)
      PROVE  reader[s] # "wait" /\ ~usbOut[s].submitted
  BY <1>3 DEF UsbInv, TakenOf, Reading, Usb!Lives, Usb!NoBlock
<1> QED
  BY <1>1, <1>2, <1>3 DEF Usb!UsbIsSound, Usb!ClosedIsIdle

LEMMA UsbInvIsTyped ==
    ASSUME UsbInv
    PROVE  Usb!TypeOK
<1>1. /\ Usb!NoItem \in [s : Usb!Ids \cup {None}, kind : {"none", "head", "piece"}, n : Nat]
      /\ Item \subseteq [s : Usb!Ids \cup {None}, kind : {"none", "head", "piece"}, n : Nat]
  BY DEF Usb!NoItem, Item
<1>2. usbReading \in [UsbSession -> [s : Usb!Ids \cup {None}, kind : {"none", "head", "piece"}, n : Nat]]
  BY <1>1 DEF UsbInv, Typed
<1>3. Item = [s : Usb!Ids, kind : {"head", "piece"}, n : Nat]
  BY DEF Item
<1> QED
  BY <1>2, <1>3 DEF UsbInv, Typed, Usb!TypeOK, Usb!Addresses, Address, Usb!Node, SesType, UsbType,
     EntryType,
     OutType, Part, GotType

-----------------------------------------------------------------------------
(* The device beside the session over TCP.                                   *)

\* A step is of the device, or leaves it alone.
LEMMA UsbStays ==
    ASSUME UsbInv, [MCNext]_<<transport, merged, vars, usbVars>>
    PROVE  UsbInv'
<1>1. CASE UNCHANGED usbVars
  <2>1. UNCHANGED Usb!vars
    BY <1>1 DEF usbVars, Usb!vars, Usb!device, Usb!finder, Usb!io
  <2> QED
    BY <2>1, UsbStutters
<1>2. CASE Usb!Next
  BY <1>2, StepUsb
<1> QED
  BY <1>1, <1>2 DEF MCNext, Tcp, OnUsb

\* What a session on USB reads is the daemon's for it, without a gap; a device that is marked
\* is looked at again; a handle is closed only when nothing is under way (CheckPacketOption,
\* NotifyInstanceSessionFree, FreeSessionOpeate).
THEOREM UsbSound == MCSpec => [](Usb!TypeOK /\ UsbIsSound)
<1>1. MCInit => UsbInv
  BY InitUsb DEF MCInit
<1>2. UsbInv => Usb!TypeOK /\ UsbIsSound
  BY UsbInvIsTyped, UsbInvIsSound DEF UsbIsSound
<1> QED
  BY <1>1, UsbStays, <1>2, PTL DEF MCSpec

-----------------------------------------------------------------------------
(* The session over TCP.                                                     *)

\* The units c are those of the packets behind the n-th, to the last that was sent.
Chain(c, n) ==
    /\ c = <<>> => n = Len(sent)
    /\ c # <<>> =>
          /\ c[1].packet = n + 1 /\ c[1].at = 1
          /\ c[Len(c)].packet = Len(sent) /\ c[Len(c)].at = PacketSize(sent[Len(sent)])
    /\ \A i \in DOMAIN c : /\ c[i].packet \in 1..Len(sent)
                           /\ c[i].at \in 1..PacketSize(sent[c[i].packet])
    /\ \A i \in DOMAIN c : i + 1 \in DOMAIN c =>
          \/ /\ c[i].at < PacketSize(sent[c[i].packet])
             /\ c[i + 1].packet = c[i].packet /\ c[i + 1].at = c[i].at + 1
          \/ /\ c[i].at = PacketSize(sent[c[i].packet])
             /\ c[i + 1].packet = c[i].packet + 1 /\ c[i + 1].at = 1

\* The prover is kept from looking into concatenations.
Joined(a, b) == a \o b

\* The units that are on their way to OnRead, in the order in which it gets them.
Arriving == Joined(Joined(ioBuf, inBIO), wire)

\* The packets were handled in their order, and while the session lives what is on its way
\* begins with the next one; nothing waits for SSL_read before TLS is on.
StreamInv ==
    /\ TypeOK
    /\ \A k \in DOMAIN got : got[k] = k
    /\ Len(got) <= Len(sent)
    /\ ~isDead => Chain(Arriving, Len(got))
    /\ ~sslHandshake => inBIO = <<>>

\* The same units, in TLS or not.
Same(c, d) ==
    /\ d \in Seq(UnitType) /\ Len(d) = Len(c)
    /\ \A i \in DOMAIN c : d[i].packet = c[i].packet /\ d[i].at = c[i].at

LEMMA ChainSame ==
    ASSUME NEW c \in Seq(UnitType), NEW d, NEW n, Chain(c, n), Same(c, d)
    PROVE  Chain(d, n)
<1>1. /\ DOMAIN d = DOMAIN c /\ Len(d) = Len(c) /\ DOMAIN c = 1..Len(c) /\ Len(c) \in Nat
      /\ d = <<>> <=> c = <<>>
      /\ \A i \in DOMAIN c : d[i].packet = c[i].packet /\ d[i].at = c[i].at
  BY DEF Same
<1>2. c # <<>> => 1 \in DOMAIN c /\ Len(c) \in DOMAIN c
  BY <1>1
<1>3. /\ d = <<>> => n = Len(sent)
      /\ d # <<>> =>
            /\ d[1].packet = n + 1 /\ d[1].at = 1
            /\ d[Len(d)].packet = Len(sent) /\ d[Len(d)].at = PacketSize(sent[Len(sent)])
  BY <1>1, <1>2 DEF Chain
<1>4. \A i \in DOMAIN d : /\ d[i].packet \in 1..Len(sent)
                          /\ d[i].at \in 1..PacketSize(sent[d[i].packet])
  <2>1. \A i \in DOMAIN c : /\ c[i].packet \in 1..Len(sent)
                            /\ c[i].at \in 1..PacketSize(sent[c[i].packet])
    BY DEF Chain
  <2> QED
    BY ONLY <1>1, <2>1
<1>5. ASSUME NEW i \in DOMAIN d, i + 1 \in DOMAIN d
      PROVE  \/ /\ d[i].at < PacketSize(sent[d[i].packet])
                /\ d[i + 1].packet = d[i].packet /\ d[i + 1].at = d[i].at + 1
             \/ /\ d[i].at = PacketSize(sent[d[i].packet])
                /\ d[i + 1].packet = d[i].packet + 1 /\ d[i + 1].at = 1
  BY <1>1, <1>5 DEF Chain
<1> QED
  BY ONLY <1>3, <1>4, <1>5 DEF Chain

LEMMA SizeFacts ==
    ASSUME NEW k
    PROVE  PacketSize(k) \in {2, 3} /\ PacketSize(k) \in Nat
  BY DEF PacketSize

\* What follows a unit.
LEMMA ChainNext ==
    ASSUME NEW c, NEW n, Chain(c, n), NEW i \in DOMAIN c, NEW j \in DOMAIN c, j = i + 1
    PROVE  \/ /\ c[i].at < PacketSize(sent[c[i].packet])
              /\ c[j].packet = c[i].packet /\ c[j].at = c[i].at + 1
           \/ /\ c[i].at = PacketSize(sent[c[i].packet])
              /\ c[j].packet = c[i].packet + 1 /\ c[j].at = 1
  BY DEF Chain

\* The first packet is taken off.
LEMMA ChainDrops ==
    ASSUME NEW c \in Seq(UnitType), NEW d \in Seq(UnitType), NEW n \in Nat, Chain(c, n), c # <<>>,
           sent \in Seq(DaemonKinds), NEW z, z = PacketSize(sent[n + 1]),
           Len(c) >= z, Len(d) = Len(c) - z, \A i \in 1..Len(d) : d[i] = c[i + z]
    PROVE  Chain(d, n + 1) /\ n + 1 <= Len(sent)
<1>1. /\ DOMAIN d = 1..Len(d) /\ DOMAIN c = 1..Len(c) /\ Len(c) \in Nat /\ Len(d) \in Nat /\ Len(sent) \in Nat
      /\ z \in {2, 3}
  BY SizeFacts
<1>2. 1 \in DOMAIN c /\ 2 \in DOMAIN c /\ z \in DOMAIN c /\ (z = 3 => 3 \in DOMAIN c)
  BY <1>1
<1>3. c[1].packet = n + 1 /\ c[1].at = 1 /\ n + 1 \in 1..Len(sent)
  BY <1>2 DEF Chain
<1>4. c[2].packet = n + 1 /\ c[2].at = 2
  <2>1. 2 = 1 + 1 /\ 1 < z
    BY <1>1
  <2> QED
    BY <1>2, <1>3, <2>1, ChainNext
<1>5. z = 3 => c[3].packet = n + 1 /\ c[3].at = 3
  <2> SUFFICES ASSUME z = 3
               PROVE  c[3].packet = n + 1 /\ c[3].at = 3
    OBVIOUS
  <2>1. 3 = 2 + 1 /\ 2 < z /\ 3 \in DOMAIN c
    BY <1>2
  <2>2. c[2].at = 2 /\ PacketSize(sent[c[2].packet]) = 3
    BY <1>4, <2>1
  <2>3. /\ c[3].packet = c[2].packet /\ c[3].at = c[2].at + 1
    BY <1>2, <2>1, <2>2, ChainNext
  <2> QED
    BY <1>4, <2>3
<1>6. c[z].packet = n + 1 /\ c[z].at = z
  BY <1>1, <1>4, <1>5
<1>7. CASE d = <<>>
  <2>1. Len(c) = z
    BY <1>1, <1>7
  <2>2. n + 1 = Len(sent)
    BY <1>6, <2>1 DEF Chain
  <2> QED
    BY <1>3, <1>7, <2>2 DEF Chain
<1>8. CASE d # <<>>
  <2>1. Len(d) >= 1 /\ 1 \in DOMAIN d /\ z + 1 \in DOMAIN c /\ d[1] = c[z + 1]
    <3>1. Len(d) # 0
      BY <1>8
    <3>2. Len(d) >= 1 /\ 1 \in 1..Len(d) /\ z + 1 \in 1..Len(c) /\ 1 + z = z + 1
      BY <1>1, <3>1
    <3> QED
      BY <1>1, <3>2
  <2>2. d[1].packet = (n + 1) + 1 /\ d[1].at = 1
    <3>1. ~(c[z].at < z) /\ sent[c[z].packet] = sent[n + 1]
      BY <1>1, <1>6
    <3> QED
      BY <1>2, <1>6, <2>1, <3>1, ChainNext
  <2>3. d[Len(d)] = c[Len(c)]
    <3>1. Len(d) \in 1..Len(d) /\ Len(d) + z = Len(c)
      BY ONLY <1>1, <2>1, Len(d) = Len(c) - z
    <3> QED
      BY <3>1
  <2>4. \A i \in DOMAIN d : i + z \in DOMAIN c /\ d[i] = c[i + z] /\ i \in Nat
    BY <1>1
  <2>5. \A i \in DOMAIN d : i + 1 \in DOMAIN d => (i + z) + 1 \in DOMAIN c /\ d[i + 1] = c[(i + z) + 1]
    <3>1. ASSUME NEW i \in DOMAIN d, i + 1 \in DOMAIN d
          PROVE  (i + z) + 1 \in DOMAIN c /\ d[i + 1] = c[(i + z) + 1]
      <4>0. i \in Nat /\ z \in Nat
        <5>1. z \in Nat
          BY SizeFacts
        <5> QED
          BY ONLY <2>4, <3>1, <5>1
      <4>1. (i + 1) + z = (i + z) + 1
        BY ONLY <4>0
      <4> QED
        BY ONLY <2>4, <3>1, <4>1
    <3> QED
      BY ONLY <3>1
  <2>6. \A i \in DOMAIN d : /\ d[i].packet \in 1..Len(sent)
                             /\ d[i].at \in 1..PacketSize(sent[d[i].packet])
    BY <2>4 DEF Chain
  <2>7. ASSUME NEW i \in DOMAIN d, i + 1 \in DOMAIN d
        PROVE  \/ /\ d[i].at < PacketSize(sent[d[i].packet])
                  /\ d[i + 1].packet = d[i].packet /\ d[i + 1].at = d[i].at + 1
               \/ /\ d[i].at = PacketSize(sent[d[i].packet])
                  /\ d[i + 1].packet = d[i].packet + 1 /\ d[i + 1].at = 1
    <3>1. PICK x, y : x = i + z /\ y = x + 1
      OBVIOUS
    <3>2. x \in DOMAIN c /\ y \in DOMAIN c /\ d[i] = c[x] /\ d[i + 1] = c[y]
      BY <2>4, <2>5, <2>7, <3>1
    <3> QED
      BY <3>1, <3>2, ChainNext
  <2>8. c[Len(c)].packet = Len(sent) /\ c[Len(c)].at = PacketSize(sent[Len(sent)])
    BY DEF Chain
  <2> QED
    BY <1>3, <1>8, <2>2, <2>3, <2>6, <2>7, <2>8 DEF Chain
<1> QED
  BY <1>3, <1>7, <1>8

\* The daemon's next packet follows.
LEMMA ChainGrows ==
    ASSUME NEW c \in Seq(UnitType), NEW d, NEW n \in Nat, NEW kind \in DaemonKinds, NEW u,
           n <= Len(sent), Chain(c, n), sent \in Seq(DaemonKinds), sent' = Append(sent, kind),
           d = c \o u, u \in Seq(UnitType), Len(u) = PacketSize(kind),
           \A i \in 1..Len(u) : u[i].packet = Len(sent) + 1 /\ u[i].at = i
    PROVE  Chain(d, n)'
<1> DEFINE L == Len(c)
           z == PacketSize(kind)
           m == Len(sent)
<1>1. /\ L \in Nat /\ m \in Nat /\ z \in {2, 3} /\ DOMAIN c = 1..L /\ DOMAIN u = 1..z /\ DOMAIN sent = 1..m
  BY SizeFacts
<1>2. /\ d \in Seq(UnitType) /\ Len(d) = L + z /\ DOMAIN d = 1..(L + z)
      /\ \A i \in 1..L : d[i] = c[i]
      /\ \A k \in 1..z : d[L + k] = u[k]
  <2>1. c \in Seq(UnitType) /\ u \in Seq(UnitType) /\ d = c \o u /\ L = Len(c) /\ Len(u) = z /\ L \in Nat /\ z \in Nat
    BY SizeFacts
  <2> HIDE DEF L, z
  <2>2. /\ d \in Seq(UnitType) /\ Len(d) = L + z
        /\ \A i \in 1..L + z : d[i] = IF i <= L THEN c[i] ELSE u[i - L]
    BY ONLY <2>1, ConcatProperties
  <2>3. \A i \in 1..L : i \in 1..L + z /\ i <= L
    BY ONLY <2>1
  <2>4. \A k \in 1..z : L + k \in 1..L + z /\ ~(L + k <= L) /\ (L + k) - L = k
    BY ONLY <2>1
  <2>5. DOMAIN d = 1..(L + z)
    BY ONLY <2>2
  <2> QED
    BY ONLY <2>2, <2>3, <2>4, <2>5
<1>3. /\ Len(sent') = m + 1 /\ sent'[m + 1] = kind
      /\ \A p \in 1..m : sent'[p] = sent[p]
  OBVIOUS
<1> HIDE DEF L, z, m
<1>4. \A k \in 1..z : d[L + k].packet = m + 1 /\ d[L + k].at = k
  <2>1. \A k \in 1..z : u[k].packet = m + 1 /\ u[k].at = k
    BY DEF m, z
  <2>2. \A k \in 1..z : d[L + k] = u[k]
    BY <1>2
  <2> QED
    BY ONLY <2>1, <2>2
<1>5. \A i \in DOMAIN d : i \in 1..L \/ \E k \in 1..z : i = L + k
  <2> SUFFICES ASSUME NEW i \in DOMAIN d, i \notin 1..L
               PROVE  \E k \in 1..z : i = L + k
    OBVIOUS
  <2>1. i - L \in 1..z /\ i = L + (i - L)
    BY <1>1, <1>2
  <2> QED
    BY <2>1
<1>6. d # <<>> /\ 1 \in 1..z /\ z \in 1..z
  BY <1>1, <1>2
<1>7. d[1].packet = n + 1 /\ d[1].at = 1
  <2>1. CASE L = 0
    <3>1. n = m /\ d[1] = d[L + 1]
      BY <2>1, <1>1 DEF Chain, L, m
    <3> QED
      BY <3>1, <1>4, <1>6
  <2>2. CASE L # 0
    <3>1. 1 \in 1..L /\ c # <<>>
      BY <1>1, <2>2
    <3> QED
      BY <3>1, <1>2 DEF Chain
  <2> QED
    BY <2>1, <2>2
<1>8. d[Len(d)].packet = m + 1 /\ d[Len(d)].at = z
  BY <1>2, <1>4, <1>6
<1>9. ASSUME NEW i \in DOMAIN d
      PROVE  d[i].packet \in 1..(m + 1) /\ d[i].at \in 1..PacketSize(sent'[d[i].packet])
  <2>1. CASE i \in 1..L
    <3>1. c[i].packet \in 1..m /\ c[i].at \in 1..PacketSize(sent[c[i].packet]) /\ d[i] = c[i]
      BY <1>1, <1>2, <2>1 DEF Chain, m
    <3> QED
      BY <1>1, <1>3, <3>1
  <2>2. ASSUME NEW k \in 1..z, i = L + k
        PROVE  d[i].packet \in 1..(m + 1) /\ d[i].at \in 1..PacketSize(sent'[d[i].packet])
    <3>1. d[i].packet = m + 1 /\ d[i].at = k /\ sent'[d[i].packet] = kind
      BY <1>3, <1>4, <2>2
    <3> QED
      BY <1>1, <3>1 DEF z
  <2> QED
    BY <1>5, <2>1, <2>2
<1>10. ASSUME NEW i \in DOMAIN d, i + 1 \in DOMAIN d
       PROVE  \/ /\ d[i].at < PacketSize(sent'[d[i].packet])
                 /\ d[i + 1].packet = d[i].packet /\ d[i + 1].at = d[i].at + 1
              \/ /\ d[i].at = PacketSize(sent'[d[i].packet])
                 /\ d[i + 1].packet = d[i].packet + 1 /\ d[i + 1].at = 1
  <2>1. CASE i \in 1..L /\ i # L
    <3>1. i \in DOMAIN c /\ i + 1 \in DOMAIN c /\ d[i] = c[i] /\ d[i + 1] = c[i + 1]
      BY <1>1, <1>2, <2>1
    <3>2. c[i].packet \in 1..m
      BY <3>1 DEF Chain, m
    <3>3. sent'[d[i].packet] = sent[c[i].packet]
      BY <1>3, <3>1, <3>2
    <3> QED
      BY <3>1, <3>3 DEF Chain
  <2>2. CASE i = L /\ L # 0
    <3>1. c # <<>> /\ L \in 1..L
      BY <1>1, <2>2
    <3>2. c[L].packet = m /\ c[L].at = PacketSize(sent[m]) /\ m \in 1..m
      BY <1>1, <3>1 DEF Chain, m, L
    <3>3. d[i] = c[L] /\ d[i + 1].packet = m + 1 /\ d[i + 1].at = 1
      BY <1>2, <1>4, <1>6, <2>2, <3>1
    <3> QED
      BY <1>3, <3>2, <3>3
  <2>3. ASSUME NEW k \in 1..z, i = L + k
        PROVE  \/ /\ d[i].at < PacketSize(sent'[d[i].packet])
                  /\ d[i + 1].packet = d[i].packet /\ d[i + 1].at = d[i].at + 1
               \/ /\ d[i].at = PacketSize(sent'[d[i].packet])
                  /\ d[i + 1].packet = d[i].packet + 1 /\ d[i + 1].at = 1
    <3>1. d[i].packet = m + 1 /\ d[i].at = k /\ sent'[d[i].packet] = kind
      BY <1>3, <1>4, <2>3
    <3>2. k + 1 \in 1..z /\ i + 1 = L + (k + 1) /\ k < z
      <4>1. L \in Nat /\ z \in Nat /\ k \in 1..z /\ i = L + k /\ i + 1 \in 1..(L + z)
        BY <1>1, <1>2, <1>10, <2>3
      <4> QED
        BY ONLY <4>1
    <3>3. d[i + 1].packet = m + 1 /\ d[i + 1].at = k + 1
      BY <1>4, <3>2
    <3> QED
      BY <3>1, <3>2, <3>3 DEF z
  <2>4. i \in 1..L => (i \in 1..L /\ i # L) \/ (i = L /\ L # 0)
    BY <1>1
  <2> QED
    BY <1>5, <2>1, <2>2, <2>3, <2>4
<1> QED
  BY <1>3, <1>6, <1>7, <1>8, <1>9, <1>10 DEF Chain, z

\* The last of the units that end a record.
LEMMA CompleteFacts ==
    ASSUME NEW u \in Seq(UnitType)
    PROVE  Complete(u) \in 0..Len(u)
<1> DEFINE ends == {i \in DOMAIN u : u[i].last}
           gaps == {Len(u) - i : i \in ends}
<1>1. CASE ends = {}
  BY <1>1 DEF Complete
<1>2. CASE ends # {}
  <2>1. gaps \subseteq Nat /\ gaps # {}
    BY <1>2
  <2>2. PICK x \in gaps : \A y \in gaps : ~(<<y, x>> \in OpToRel(<, Nat))
    BY <2>1, WFMin, NatLessThanWellFounded
  <2>3. \A y \in gaps : ~(y < x)
    BY <2>1, <2>2 DEF OpToRel
  <2>4. PICK i \in ends : x = Len(u) - i
    BY <2>2
  <2>5. ASSUME NEW j \in ends
        PROVE  j <= i
    <3>1. Len(u) - j \in gaps
      BY <2>5
    <3>2. ~(Len(u) - j < Len(u) - i)
      BY <2>3, <2>4, <3>1
    <3> QED
      BY <3>2, i \in 1..Len(u), j \in 1..Len(u)
  <2>6. \E k \in ends : \A j \in ends : j <= k
    BY <2>4, <2>5
  <2>7. Complete(u) \in ends
    BY <1>2, <2>6 DEF Complete
  <2> QED
    BY <2>7
<1> QED
  BY <1>1, <1>2

-----------------------------------------------------------------------------
(* Units that are moved from one buffer to the next stay in their order.     *)

LEMMA Reassociate == \A a, b, c \in Seq(UnitType) : (a \o b) \o c = a \o (b \o c)
  OBVIOUS

LEMMA SameConcat ==
    ASSUME NEW a \in Seq(UnitType), NEW b \in Seq(UnitType),
           NEW x \in Seq(UnitType), NEW y \in Seq(UnitType), Same(a, x), Same(b, y)
    PROVE  Same(a \o b, x \o y)
<1>1. /\ Len(x) = Len(a) /\ Len(y) = Len(b) /\ DOMAIN a = 1..Len(a) /\ DOMAIN b = 1..Len(b)
      /\ \A i \in 1..Len(a) : x[i].packet = a[i].packet /\ x[i].at = a[i].at
      /\ \A i \in 1..Len(b) : y[i].packet = b[i].packet /\ y[i].at = b[i].at
      /\ Len(a) \in Nat /\ Len(b) \in Nat
  <2>1. DOMAIN a = 1..Len(a) /\ DOMAIN b = 1..Len(b) /\ Len(a) \in Nat /\ Len(b) \in Nat
    OBVIOUS
  <2>2. Len(x) = Len(a) /\ \A i \in DOMAIN a : x[i].packet = a[i].packet /\ x[i].at = a[i].at
    BY DEF Same
  <2>3. Len(y) = Len(b) /\ \A i \in DOMAIN b : y[i].packet = b[i].packet /\ y[i].at = b[i].at
    BY DEF Same
  <2> QED
    BY <2>1, <2>2, <2>3
<1>2. PICK c, d : c = a \o b /\ d = x \o y
  OBVIOUS
<1>3. /\ c \in Seq(UnitType) /\ Len(c) = Len(a) + Len(b)
      /\ \A i \in 1..Len(a) + Len(b) : c[i] = IF i <= Len(a) THEN a[i] ELSE b[i - Len(a)]
  BY <1>2, ConcatProperties
<1>4. /\ d \in Seq(UnitType) /\ Len(d) = Len(x) + Len(y)
      /\ \A i \in 1..Len(x) + Len(y) : d[i] = IF i <= Len(x) THEN x[i] ELSE y[i - Len(x)]
  BY <1>2, ConcatProperties
<1>5. ASSUME NEW i \in 1..Len(a) + Len(b)
      PROVE  d[i].packet = c[i].packet /\ d[i].at = c[i].at
  <2>1. CASE i <= Len(a)
    <3>1. i \in 1..Len(a)
      BY <1>1, <2>1
    <3> QED
      BY <1>1, <1>3, <1>4, <2>1, <3>1
  <2>2. CASE ~(i <= Len(a))
    <3>1. i - Len(a) \in 1..Len(b)
      BY <1>1, <2>2
    <3> QED
      BY <1>1, <1>3, <1>4, <2>2, <3>1
  <2> QED
    BY <2>1, <2>2
<1>6. Same(c, d)
  <2>1. DOMAIN c = 1..Len(a) + Len(b)
    BY <1>3
  <2> QED
    BY <1>1, <1>3, <1>4, <1>5, <2>1 DEF Same
<1> QED
  BY <1>2, <1>6

LEMMA SameItself ==
    ASSUME NEW a \in Seq(UnitType)
    PROVE  Same(a, a)
  BY DEF Same

\* A sequence is cut.
LEMMA CutFacts ==
    ASSUME NEW w \in Seq(UnitType), NEW k \in 0..Len(w), NEW n, n = Len(w)
    PROVE  /\ SubSeq(w, 1, k) \in Seq(UnitType) /\ Len(SubSeq(w, 1, k)) = k
           /\ SubSeq(w, k + 1, n) \in Seq(UnitType) /\ Len(SubSeq(w, k + 1, n)) = n - k
           /\ Joined(SubSeq(w, 1, k), SubSeq(w, k + 1, n)) = w
           /\ \A i \in 1..(n - k) : SubSeq(w, k + 1, n)[i] = w[i + k]
<1>1. n \in Nat /\ k \in Nat /\ k <= n /\ DOMAIN w = 1..n /\ \A i \in 1..n : w[i] \in UnitType
  OBVIOUS
<1>2. SubSeq(w, 1, k) \in Seq(UnitType) /\ Len(SubSeq(w, 1, k)) = k
  <2>1. \A i \in 1..k : w[i] \in UnitType
    BY <1>1
  <2>2. /\ SubSeq(w, 1, k) \in Seq(UnitType)
        /\ Len(SubSeq(w, 1, k)) = IF 1 <= k THEN k - 1 + 1 ELSE 0
    BY <1>1, <2>1, SubSeqProperties
  <2> QED
    BY <1>1, <2>2
<1>3. /\ SubSeq(w, k + 1, n) \in Seq(UnitType) /\ Len(SubSeq(w, k + 1, n)) = n - k
      /\ \A i \in 1..(n - k) : SubSeq(w, k + 1, n)[i] = w[i + k]
  <2>1. \A i \in (k + 1)..n : w[i] \in UnitType
    BY <1>1
  <2>2. PICK m : m = k + 1 /\ m \in Int
    BY <1>1
  <2>3. /\ SubSeq(w, m, n) \in Seq(UnitType)
        /\ Len(SubSeq(w, m, n)) = IF m <= n THEN n - m + 1 ELSE 0
        /\ \A i \in 1..(n - m + 1) : SubSeq(w, m, n)[i] = w[m + i - 1]
    BY <1>1, <2>1, <2>2, SubSeqProperties
  <2>4. n - m + 1 = n - k /\ \A i \in 1..(n - k) : m + i - 1 = i + k
    BY <1>1, <2>2
  <2>5. Len(SubSeq(w, m, n)) = n - k
    BY <1>1, <2>2, <2>3
  <2> QED
    BY <2>2, <2>3, <2>4, <2>5
<1>4. SubSeq(w, 1, k) \o SubSeq(w, k + 1, n) = w
  <2>1. SubSeq(w, 1, k) \o SubSeq(w, k + 1, n) = SubSeq(w, 1, n)
    <3>1. 1 \in 1..Len(w) + 1 /\ k \in 1 - 1..Len(w) /\ n \in k..Len(w)
      BY <1>1
    <3> QED
      BY <3>1, ConcatAdjacentSubSeq
  <2>2. SubSeq(w, 1, n) = w
    BY SubSeqFull
  <2> QED
    BY <2>1, <2>2
<1> QED
  BY <1>2, <1>3, <1>4 DEF Joined

\* What SSL_read gives is what it was given.
LEMMA OpenedFacts ==
    ASSUME NEW u \in Seq(UnitType)
    PROVE  Opened(u) \in Seq(UnitType) /\ Same(u, Opened(u))
<1>1. /\ DOMAIN u = 1..Len(u) /\ Len(u) \in Nat /\ \A i \in 1..Len(u) : u[i] \in UnitType
  OBVIOUS
<1>2. PICK F : F = [i \in DOMAIN u |-> [u[i] EXCEPT !.tls = FALSE]]
  OBVIOUS
<1>3. Opened(u) = F
  BY <1>2 DEF Opened
<1>4. DOMAIN F = 1..Len(u) /\ \A i \in 1..Len(u) : F[i] = [u[i] EXCEPT !.tls = FALSE]
  BY <1>1, <1>2
<1>5. \A x \in UnitType : LET y == [x EXCEPT !.tls = FALSE] IN y \in UnitType /\ y.packet = x.packet /\ y.at = x.at
  BY DEF UnitType
<1>6. \A i \in 1..Len(u) : F[i] \in UnitType /\ F[i].packet = u[i].packet /\ F[i].at = u[i].at
  BY <1>1, <1>4, <1>5
<1>7. F \in [1..Len(u) -> UnitType]
  BY <1>1, <1>2, <1>6
<1>8. F \in Seq(UnitType) /\ Len(F) = Len(u)
  BY <1>1, <1>4, <1>7
<1> QED
  BY <1>1, <1>3, <1>6, <1>8 DEF Same

LEMMA JoinedFacts ==
    /\ \A a, b \in Seq(UnitType) : Joined(a, b) \in Seq(UnitType)
    /\ \A a, b, c \in Seq(UnitType) : Joined(Joined(a, b), c) = Joined(a, Joined(b, c))
    /\ \A a \in Seq(UnitType) : Joined(a, <<>>) = a
<1>1. \A a, b \in Seq(UnitType) : Joined(a, b) \in Seq(UnitType)
  BY ConcatProperties DEF Joined
<1>2. \A a, b, c \in Seq(UnitType) : Joined(Joined(a, b), c) = Joined(a, Joined(b, c))
  BY Reassociate DEF Joined
<1>3. \A a \in Seq(UnitType) : Joined(a, <<>>) = a
  BY ConcatEmptySeq DEF Joined
<1> QED
  BY <1>1, <1>2, <1>3

LEMMA SameJoined ==
    ASSUME NEW a \in Seq(UnitType), NEW b \in Seq(UnitType),
           NEW x \in Seq(UnitType), NEW y \in Seq(UnitType), Same(a, x), Same(b, y)
    PROVE  Same(Joined(a, b), Joined(x, y))
  BY SameConcat DEF Joined

\* A read in the clear.
LEMMA ReadInClear ==
    ASSUME NEW b \in Seq(UnitType), NEW u \in Seq(UnitType), NEW r \in Seq(UnitType)
    PROVE  /\ Joined(b, u) \in Seq(UnitType)
           /\ Joined(Joined(Joined(b, u), <<>>), r) = Joined(Joined(b, <<>>), Joined(u, r))
  BY JoinedFacts

\* A read that is decrypted as far as its records are complete.
LEMMA ReadInTLS ==
    ASSUME NEW b \in Seq(UnitType), NEW n \in Seq(UnitType),
           NEW u \in Seq(UnitType), NEW r \in Seq(UnitType),
           NEW p \in Seq(UnitType), NEW rest \in Seq(UnitType), Joined(p, rest) = Joined(n, u),
           NEW o \in Seq(UnitType), Same(p, o)
    PROVE  /\ Joined(b, o) \in Seq(UnitType)
           /\ Same(Joined(Joined(b, n), Joined(u, r)), Joined(Joined(Joined(b, o), rest), r))
<1>1. PICK x, y : /\ x = Joined(p, rest) /\ x \in Seq(UnitType)
                  /\ y = Joined(o, rest) /\ y \in Seq(UnitType)
  BY JoinedFacts
<1>2. Same(x, y)
  BY <1>1, SameItself, SameJoined
<1>3. Joined(Joined(b, n), Joined(u, r)) = Joined(b, Joined(x, r))
  <2>1. Joined(n, Joined(u, r)) = Joined(x, r)
    BY <1>1, JoinedFacts
  <2>2. Joined(u, r) \in Seq(UnitType)
    BY JoinedFacts
  <2> QED
    BY <2>1, <2>2, JoinedFacts
<1>4. Joined(Joined(Joined(b, o), rest), r) = Joined(b, Joined(y, r))
  <2>1. Joined(Joined(b, o), rest) = Joined(b, y)
    BY <1>1, JoinedFacts
  <2> QED
    BY <1>1, <2>1, JoinedFacts
<1>5. PICK c, d : /\ c = Joined(x, r) /\ c \in Seq(UnitType)
                  /\ d = Joined(y, r) /\ d \in Seq(UnitType)
  BY <1>1, JoinedFacts
<1>6. Same(c, d)
  BY <1>1, <1>2, <1>5, SameItself, SameJoined
<1>7. Same(Joined(b, c), Joined(b, d))
  BY <1>5, <1>6, SameItself, SameJoined
<1>8. Joined(b, o) \in Seq(UnitType)
  BY JoinedFacts
<1> QED
  BY <1>3, <1>4, <1>5, <1>7, <1>8

-----------------------------------------------------------------------------
(* The types.                                                                *)

KindsOfFiles == {"none", "empty", "whole"}
Places == {"start", "idle", "parse", "send", "protocol", "lock", "write"}

LEMMA MessageFacts ==
    ASSUME NEW kind \in HostKinds
    PROVE  [NoMessage EXCEPT !.kind = kind] \in MessageType /\ NoMessage \in MessageType
  BY DEF NoMessage, MessageType, HostKinds

LEMMA AfterFacts ==
    ASSUME NEW t
    PROVE  After(t) \in Places
  BY DEF After, Places

\* What the handshake does with a message of the daemon: TLS stays on once it is.
LEMMA HandFacts ==
    ASSUME TypeOK, NEW kind \in DaemonKinds \ {"data", "AUTH_OK", "HANDSHAKE_FAILED"},
           NEW h, h = HandServerAuth(kind)
    PROVE  /\ h.ok \in BOOLEAN /\ h.ssl \in BOOLEAN /\ h.tls \in {"none", "started", "finished"}
           /\ h.reply \in HostKinds \cup {""}
           /\ sslHandshake => h.ssl
<1> DEFINE Good(x) == /\ x.ok \in BOOLEAN /\ x.ssl \in BOOLEAN /\ x.tls \in {"none", "started", "finished"}
                      /\ x.reply \in HostKinds \cup {""}
                      /\ sslHandshake => x.ssl
<1>1. tls \in {"none", "started", "finished"} /\ sslHandshake \in BOOLEAN
  BY DEF TypeOK
<1>2. Good(Refused) /\ \A k \in HostKinds : Good(Reply(k))
  BY <1>1 DEF Refused, Reply, Handled
<1>3. Good(GetPublicKeyinfo) /\ Good(RsaSignAndBase64)
  <2>1. "publickey" \in HostKinds /\ "signature" \in HostKinds
    BY DEF HostKinds
  <2> QED
    BY <1>2, <2>1 DEF GetPublicKeyinfo, RsaSignAndBase64
<1>4. ASSUME NEW k
      PROVE  Good(ServerSSLHandshake(k))
  <2> DEFINE M(r, s) == [ok |-> TRUE, reply |-> r, tls |-> s, ssl |-> sslHandshake]
  <2>1. PICK a : a = PerformHandshake(k)
    OBVIOUS
  <2>2. /\ [Reply("clientHello") EXCEPT !.tls = "started"] = M("clientHello", "started")
        /\ [Reply("finished") EXCEPT !.tls = "finished"] = M("finished", "finished")
        /\ Reply("alert") = M("alert", tls)
        /\ Handled = M("", tls)
    <3>1. PICK b : b = Handled
      OBVIOUS
    <3>2. b = [ok |-> TRUE, reply |-> "", tls |-> tls, ssl |-> sslHandshake]
      BY <3>1 DEF Handled
    <3>3. \A r : Reply(r) = [b EXCEPT !.reply = r]
      BY <3>1 DEF Reply
    <3>4. \A r : Reply(r) = M(r, tls)
      BY <3>2, <3>3
    <3>5. ASSUME NEW r, NEW t
          PROVE  [M(r, tls) EXCEPT !.tls = t] = M(r, t)
      <4>1. PICK m, w : w = TRUE /\ m = [ok |-> w, reply |-> r, tls |-> tls, ssl |-> sslHandshake]
        OBVIOUS
      <4>2. m = [ok |-> w, reply |-> r, tls |-> tls, ssl |-> sslHandshake]
        BY <4>1
      <4>3. [m EXCEPT !.tls = t] = [ok |-> w, reply |-> r, tls |-> t, ssl |-> sslHandshake]
        BY ONLY <4>2
      <4>4. m = M(r, tls) /\ [ok |-> w, reply |-> r, tls |-> t, ssl |-> sslHandshake] = M(r, t)
        BY <4>1
      <4> HIDE DEF M
      <4> QED
        BY ONLY <4>3, <4>4
    <3> HIDE DEF M
    <3> QED
      BY <3>1, <3>2, <3>4, <3>5 DEF M
  <2>3. tls = "none" => a = M("clientHello", "started")
    BY <2>1, <2>2 DEF PerformHandshake
  <2>4. tls = "started" /\ k = "serverHello" => a = M("finished", "finished")
    BY <2>1, <2>2 DEF PerformHandshake
  <2>5. tls = "started" /\ k # "serverHello" => a = M("alert", "started")
    BY <2>1, <2>2 DEF PerformHandshake
  <2>6. tls = "finished" => a = M("", "finished")
    BY <2>1, <2>2 DEF PerformHandshake
  <2>7. \E r \in HostKinds \cup {""}, s \in {"none", "started", "finished"} : a = M(r, s)
    <3> HIDE DEF M
    <3>1. {"clientHello", "finished", "alert", ""} \subseteq HostKinds \cup {""}
      BY DEF HostKinds
    <3> QED
      BY <1>1, <2>3, <2>4, <2>5, <2>6, <3>1
  <2>8. PICK v : v = SetHandshakeLabel(a) /\ v \in BOOLEAN /\ (sslHandshake => v)
    BY <1>1 DEF SetHandshakeLabel
  <2>9. PICK r \in HostKinds \cup {""}, s \in {"none", "started", "finished"} : a = M(r, s)
    BY <2>7
  <2>10. ServerSSLHandshake(k) = [a EXCEPT !.ssl = v]
    BY <2>1, <2>8 DEF ServerSSLHandshake
  <2>11. ServerSSLHandshake(k) = [ok |-> TRUE, reply |-> r, tls |-> s, ssl |-> v]
    BY <2>9, <2>10
  <2>12. Good([ok |-> TRUE, reply |-> r, tls |-> s, ssl |-> v])
    BY <2>8, <2>9
  <2> HIDE DEF Good
  <2> QED
    BY <2>11, <2>12
<1>5. h \in {GetPublicKeyinfo, RsaSignAndBase64, Refused, ServerSSLHandshake(kind)}
  BY DEF HandServerAuth, DaemonKinds
<1>6. Good(h)
  BY <1>2, <1>3, <1>4, <1>5
<1> QED
  BY <1>6

LEMMA KeyFacts ==
    ASSUME TypeOK
    PROVE  TryLoadPublicKey \in KeyFiles
  BY DEF TypeOK, TryLoadPublicKey, GenerateKeyPair, KeyFiles

\* A thread that sends.
LEMMA SendFromFacts ==
    ASSUME TypeOK, NEW t \in Threads, NEW kind \in HostKinds, SendFrom(t, kind)
    PROVE  pc' \in [Threads -> Places] /\ out' \in [Threads -> MessageType]
<1>1. pc \in [Threads -> Places] /\ out \in [Threads -> MessageType]
  BY DEF TypeOK, Places
<1>2. [NoMessage EXCEPT !.kind = kind] \in MessageType
  BY MessageFacts
<1>3. pc' = [pc EXCEPT ![t] = "send"] /\ "send" \in Places
  BY DEF SendFrom, Places
<1>4. PICK m \in MessageType : m = [NoMessage EXCEPT !.kind = kind]
  BY <1>2
<1>5. out' = [out EXCEPT ![t] = m]
  BY <1>4 DEF SendFrom
<1> QED
  BY <1>1, <1>3, <1>4, <1>5

\* ReadStream ends the session.
LEMMA EndFacts ==
    ASSUME TypeOK, NEW why \in {"none", "parse", "refused", "closed"}, EndSession(why)
    PROVE  pc' \in [Threads -> Places] /\ isDead' = TRUE /\ fault' \in {"none", "parse", "refused", "closed"}
<1>1. pc \in [Threads -> Places] /\ "idle" \in Places
  BY DEF TypeOK, Places
<1> QED
  BY <1>1 DEF EndSession

\* What a read or a packet leaves alone, and what else TypeOK asks for.
LEMMA TypesOf ==
    ASSUME TypeOK, scenario' \in ScenarioType, keyFiles' \in KeyFiles,
           handshakeOK' \in BOOLEAN, sslHandshake' \in BOOLEAN, isDead' \in BOOLEAN,
           tls' \in {"none", "started", "finished"},
           support' \in BOOLEAN, timer' \in BOOLEAN, beats' \in 0 .. MaxBeats,
           wire' \in Seq(UnitType), ioBuf' \in Seq(UnitType), inBIO' \in Seq(UnitType),
           fault' \in {"none", "parse", "refused", "closed"},
           pc' \in [Threads -> Places], out' \in [Threads -> MessageType],
           got' \in Seq(Nat), UNCHANGED <<writer, sealed, toDaemon, daemon>>
    PROVE  TypeOK'
  BY DEF TypeOK, daemon, Places

-----------------------------------------------------------------------------
(* What is sent.                                                             *)

LEMMA ChainHere ==
    ASSUME NEW c, NEW n, Chain(c, n)', c = Arriving', n = Len(got')
    PROVE  Chain(Arriving, Len(got))'
  BY DEF Chain

\* Nothing that arrives has changed.
LEMMA StreamStill ==
    ASSUME StreamInv, TypeOK', UNCHANGED <<ioBuf, inBIO, wire, sent, got>>,
           isDead => isDead', sslHandshake => sslHandshake'
    PROVE  StreamInv'
<1>1. PICK c, n : c = Arriving /\ n = Len(got)
  OBVIOUS
<1>2. c = Arriving' /\ n = Len(got')
  BY <1>1 DEF Arriving, Joined
<1>3. ~isDead' => ~isDead
  BY DEF StreamInv, TypeOK
<1>4. ~isDead' => Chain(c, n)'
  BY <1>1, <1>3 DEF StreamInv, Chain
<1>5. (~isDead => Chain(Arriving, Len(got)))'
  BY <1>2, <1>4, ChainHere
<1>6. (~sslHandshake => inBIO = <<>>)'
  BY DEF StreamInv, TypeOK
<1>7. (\A k \in DOMAIN got : got[k] = k)' /\ (Len(got) <= Len(sent))'
  BY DEF StreamInv
<1> QED
  BY <1>5, <1>6, <1>7 DEF StreamInv

LEMMA FieldFacts ==
    ASSUME NEW m \in MessageType
    PROVE  /\ \A b \in BOOLEAN : [m EXCEPT !.room = b] \in MessageType
           /\ \A b \in BOOLEAN : [m EXCEPT !.tls = b] \in MessageType
           /\ \A n \in Nat : [m EXCEPT !.number = n] \in MessageType
           /\ m.kind \in HostKinds /\ m.number \in Nat /\ m.tls \in BOOLEAN
  BY DEF MessageType

LEMMA SendKeeps ==
    ASSUME StreamInv, NEW t \in Threads, Send(t)
    PROVE  StreamInv'
<1>1. TypeOK /\ out \in [Threads -> MessageType] /\ pc \in [Threads -> Places] /\ sslHandshake \in BOOLEAN
  BY DEF StreamInv, TypeOK, Places
<1>2. PICK m \in MessageType : m = [out[t] EXCEPT !.room = sslHandshake]
  BY <1>1, FieldFacts
<1>3. out' = [out EXCEPT ![t] = m]
  BY <1>1, <1>2 DEF Send
<1>4. pc' \in [Threads -> Places] /\ out' \in [Threads -> MessageType]
  BY <1>1, <1>3 DEF Send, Places
<1>5. UNCHANGED <<scenario, keyFiles, session, timer, beats, wire, reading, writer, sealed, toDaemon, daemon>>
  BY DEF Send
<1>6. TypeOK'
  BY <1>1, <1>4, <1>5 DEF TypeOK, Places, session, reading, daemon
<1> QED
  BY <1>5, <1>6, StreamStill DEF session, reading, daemon

LEMMA SendByProtocolKeeps ==
    ASSUME StreamInv, NEW t \in Threads, SendByProtocol(t)
    PROVE  StreamInv'
<1>1. TypeOK /\ pc \in [Threads -> Places]
  BY DEF StreamInv, TypeOK, Places
<1>2. (IF isDead THEN After(t) ELSE "lock") \in Places
  BY AfterFacts DEF Places
<1>3. pc' \in [Threads -> Places]
  BY <1>1, <1>2 DEF SendByProtocol
<1>4. UNCHANGED <<scenario, keyFiles, session, timer, beats, wire, reading, out, writer, sealed, toDaemon, daemon>>
  BY DEF SendByProtocol
<1>5. TypeOK'
  BY <1>1, <1>3, <1>4 DEF TypeOK, Places, session, reading, daemon
<1> QED
  BY <1>4, <1>5, StreamStill DEF session, reading, daemon

LEMMA WriteUvSslFdKeeps ==
    ASSUME StreamInv, NEW t \in Threads, WriteUvSslFd(t)
    PROVE  StreamInv'
<1>1. /\ TypeOK /\ out \in [Threads -> MessageType] /\ pc \in [Threads -> Places] /\ sslHandshake \in BOOLEAN
      /\ sealed \in Nat
  BY DEF StreamInv, TypeOK, Places
<1>2. sealed' \in Nat /\ writer' = t /\ pc' \in [Threads -> Places]
  BY <1>1 DEF WriteUvSslFd, Encrypt, Places
<1>3. PICK m \in MessageType : m = [out[t] EXCEPT !.tls = sslHandshake]
  BY <1>1, FieldFacts
<1>4. PICK n \in MessageType : n = [m EXCEPT !.number = sealed']
  BY <1>2, FieldFacts
<1>5. PICK o : o = [out EXCEPT ![t] = m]
  OBVIOUS
<1>6. o \in [Threads -> MessageType] /\ o[t] = m
  BY <1>1, <1>5
<1>7. out' = [o EXCEPT ![t] = n]
  <2>1. out' = [out EXCEPT ![t].tls = sslHandshake, ![t].number = sealed']
    BY DEF WriteUvSslFd
  <2>2. [out EXCEPT ![t].tls = sslHandshake] = o
    BY <1>1, <1>3, <1>5
  <2> QED
    BY <1>1, <1>3, <1>4, <1>5, <1>6, <2>1, <2>2
<1>8. out' \in [Threads -> MessageType]
  BY <1>6, <1>7
<1>9. UNCHANGED <<scenario, keyFiles, session, timer, beats, wire, reading, toDaemon, daemon>>
  BY DEF WriteUvSslFd
<1>10. TypeOK'
  BY <1>1, <1>2, <1>8, <1>9 DEF TypeOK, Places, session, reading, daemon
<1> QED
  BY <1>9, <1>10, StreamStill DEF session, reading, daemon

LEMMA WriteUvTcpFdKeeps ==
    ASSUME StreamInv, NEW t \in Threads, WriteUvTcpFd(t)
    PROVE  StreamInv'
<1>1. /\ TypeOK /\ out \in [Threads -> MessageType] /\ pc \in [Threads -> Places]
      /\ toDaemon \in Seq(MessageType)
  BY DEF StreamInv, TypeOK, Places
<1>2. pc' \in [Threads -> Places]
  BY <1>1, AfterFacts DEF WriteUvTcpFd
<1>3. out' \in [Threads -> MessageType]
  <2>1. NoMessage \in MessageType
    BY DEF NoMessage, MessageType, HostKinds
  <2>2. out' = [out EXCEPT ![t] = NoMessage]
    BY DEF WriteUvTcpFd
  <2> QED
    BY <1>1, <2>1, <2>2
<1>4. toDaemon' \in Seq(MessageType)
  BY <1>1 DEF WriteUvTcpFd
<1>5. UNCHANGED <<scenario, keyFiles, session, timer, beats, wire, reading, sealed, daemon>> /\ writer' = "nobody"
  BY DEF WriteUvTcpFd
<1>6. TypeOK'
  BY <1>1, <1>2, <1>3, <1>4, <1>5 DEF TypeOK, Places, session, reading, daemon
<1> QED
  BY <1>5, <1>6, StreamStill DEF session, reading, daemon

LEMMA StartKeeps ==
    ASSUME StreamInv, WorkThreadStartSession
    PROVE  StreamInv'
<1>1. TypeOK /\ "child" \in Threads /\ "none" \in HostKinds
  BY DEF StreamInv, Threads, HostKinds
<1>2. SendFrom("child", "none")
  BY DEF WorkThreadStartSession
<1>3. pc' \in [Threads -> Places] /\ out' \in [Threads -> MessageType]
  BY <1>1, <1>2, SendFromFacts
<1>4. UNCHANGED <<scenario, keyFiles, session, timer, beats, wire, reading, writer, sealed, toDaemon, daemon>>
  BY DEF WorkThreadStartSession
<1>5. TypeOK'
  BY <1>1, <1>3, <1>4 DEF TypeOK, Places, session, reading, daemon
<1> QED
  BY <1>4, <1>5, StreamStill DEF session, reading, daemon

LEMMA HeartbeatKeeps ==
    ASSUME StreamInv, SendHeartbeatMsg
    PROVE  StreamInv'
<1>1. /\ TypeOK /\ "child" \in Threads /\ "heartbeat" \in HostKinds /\ handshakeOK \in BOOLEAN
      /\ beats \in 0..MaxBeats /\ MaxBeats \in Nat /\ timer \in BOOLEAN
  BY SizesAssumption DEF StreamInv, Threads, HostKinds, TypeOK
<1>2. pc' \in [Threads -> Places] /\ out' \in [Threads -> MessageType]
  <2>1. CASE UNCHANGED <<beats, pc, out>>
    BY <1>1, <2>1 DEF TypeOK, Places
  <2>2. CASE SendFrom("child", "heartbeat")
    BY <1>1, <2>2, SendFromFacts
  <2> QED
    BY <2>1, <2>2 DEF SendHeartbeatMsg
<1>3. timer' \in BOOLEAN /\ beats' \in 0..MaxBeats
  <2>1. timer' \in BOOLEAN
    BY <1>1, Zenon DEF SendHeartbeatMsg
  <2>2. beats' = beats \/ (beats < MaxBeats /\ beats' = beats + 1)
    BY DEF SendHeartbeatMsg
  <2> QED
    BY <1>1, <2>1, <2>2
<1>4. UNCHANGED <<scenario, keyFiles, session, wire, reading, writer, sealed, toDaemon, daemon>>
  BY DEF SendHeartbeatMsg
<1>5. TypeOK'
  BY <1>1, <1>2, <1>3, <1>4 DEF TypeOK, Places, session, reading, daemon
<1> QED
  BY <1>4, <1>5, StreamStill DEF session, reading, daemon

LEMMA CommandKeeps ==
    ASSUME StreamInv, DoCommandRemote
    PROVE  StreamInv'
<1>1. /\ TypeOK /\ "main" \in Threads /\ "command" \in HostKinds /\ scenario \in ScenarioType
      /\ scenario.commands > 0
  BY DEF StreamInv, Threads, HostKinds, TypeOK, DoCommandRemote
<1>2. SendFrom("main", "command")
  BY DEF DoCommandRemote
<1>3. pc' \in [Threads -> Places] /\ out' \in [Threads -> MessageType]
  BY <1>1, <1>2, SendFromFacts
<1>4. scenario' \in ScenarioType
  <2>1. scenario.commands \in Nat
    BY <1>1 DEF ScenarioType
  <2>2. scenario' = [scenario EXCEPT !.commands = scenario.commands - 1] /\ scenario.commands - 1 \in Nat
    BY <1>1, <2>1 DEF DoCommandRemote
  <2> QED
    BY <1>1, <2>2 DEF ScenarioType
<1>5. UNCHANGED <<keyFiles, session, timer, beats, wire, reading, writer, sealed, toDaemon, daemon>>
  BY DEF DoCommandRemote
<1>6. TypeOK'
  BY <1>1, <1>3, <1>4, <1>5 DEF TypeOK, Places, session, reading, daemon
<1> QED
  BY <1>5, <1>6, StreamStill DEF session, reading, daemon

LEMMA DaemonReadsKeeps ==
    ASSUME StreamInv, DaemonReads
    PROVE  StreamInv'
<1>1. /\ TypeOK /\ toDaemon \in Seq(MessageType) /\ toDaemon # <<>> /\ scenario \in ScenarioType
      /\ opened \in Nat /\ answers \in Seq(DaemonKinds \cup {"close"})
  BY DEF StreamInv, TypeOK, DaemonReads
<1>2. PICK m \in MessageType : m = Head(toDaemon)
  BY <1>1
<1>3. m.kind \in HostKinds /\ m.number \in Nat
  BY FieldFacts
<1>4. scenario.answers[m.kind] \in Seq(DaemonKinds \cup {"close"})
  BY <1>1, <1>3 DEF ScenarioType
<1>5. /\ answers' \in Seq(DaemonKinds \cup {"close"}) /\ opened' \in Nat /\ confused' \in BOOLEAN /\ closed' \in BOOLEAN
  <2>1. CASE m.tls = daemonTLS /\ (m.tls => m.number = opened + 1)
    <3>1. answers' = answers \o scenario.answers[m.kind] /\ opened' = m.number /\ UNCHANGED <<confused, closed>>
      BY <1>2, <2>1 DEF DaemonReads
    <3>2. PICK a \in Seq(DaemonKinds \cup {"close"}) : a = scenario.answers[m.kind]
      BY <1>4
    <3>3. answers \o a \in Seq(DaemonKinds \cup {"close"})
      BY <1>1, <3>2, ConcatProperties
    <3> QED
      BY <1>1, <1>3, <3>1, <3>2, <3>3 DEF TypeOK
  <2>2. CASE ~(m.tls = daemonTLS /\ (m.tls => m.number = opened + 1))
    <3>1. confused' = TRUE /\ closed' = TRUE /\ UNCHANGED <<answers, opened>>
      BY <1>2, <2>2 DEF DaemonReads
    <3> QED
      BY <1>1, <3>1
  <2> QED
    BY <2>1, <2>2
<1>6. toDaemon' \in Seq(MessageType)
  BY <1>1 DEF DaemonReads
<1>7. UNCHANGED <<scenario, keyFiles, session, timer, beats, wire, reading, sending, daemonTLS, sent>>
  BY DEF DaemonReads
<1>8. TypeOK'
  BY <1>1, <1>5, <1>6, <1>7 DEF TypeOK, session, reading, sending
<1> QED
  BY <1>7, <1>8, StreamStill DEF session, reading

-----------------------------------------------------------------------------
(* What is read.                                                             *)

LEMMA ArrivingType ==
    ASSUME TypeOK
    PROVE  Arriving \in Seq(UnitType)
<1>1. ioBuf \in Seq(UnitType) /\ inBIO \in Seq(UnitType) /\ wire \in Seq(UnitType)
  BY DEF TypeOK
<1>2. Joined(ioBuf, inBIO) \in Seq(UnitType)
  BY <1>1, JoinedFacts
<1> QED
  BY <1>1, <1>2, JoinedFacts DEF Arriving

\* Units have moved on towards OnRead.
LEMMA StreamMoves ==
    ASSUME StreamInv, TypeOK', UNCHANGED <<sent, got>>, isDead => isDead', sslHandshake' = sslHandshake,
           sslHandshake \/ inBIO' = <<>>,
           NEW c, NEW d, c = Arriving, d = Arriving', isDead' \/ Same(c, d)
    PROVE  StreamInv'
<1>1. PICK n : n = Len(got)
  OBVIOUS
<1>2. n = Len(got') /\ c \in Seq(UnitType)
  BY <1>1, ArrivingType DEF StreamInv
<1>3. ~isDead' => Chain(c, n)
  BY <1>1 DEF StreamInv, TypeOK
<1>4. ~isDead' => Chain(d, n)
  BY <1>2, <1>3, ChainSame
<1>5. ~isDead' => Chain(d, n)'
  BY <1>4 DEF Chain
<1>6. (~isDead => Chain(Arriving, Len(got)))'
  BY <1>2, <1>5, ChainHere
<1>7. (~sslHandshake => inBIO = <<>>)'
  BY DEF StreamInv, TypeOK
<1>8. (\A k \in DOMAIN got : got[k] = k)' /\ (Len(got) <= Len(sent))'
  BY DEF StreamInv
<1> QED
  BY <1>6, <1>7, <1>8 DEF StreamInv

LEMMA ReadStreamKeeps ==
    ASSUME StreamInv, ReadStream
    PROVE  StreamInv'
<1>1. /\ TypeOK /\ ~isDead /\ wire \in Seq(UnitType) /\ ioBuf \in Seq(UnitType) /\ inBIO \in Seq(UnitType)
      /\ sslHandshake \in BOOLEAN /\ pc \in [Threads -> Places] /\ fault \in {"none", "parse", "refused", "closed"}
      /\ "idle" \in Places /\ "parse" \in Places
  BY DEF StreamInv, TypeOK, ReadStream, Places
<1>2. PICK k \in ReadSizes :
         /\ wire' = SubSeq(wire, k + 1, Len(wire))
         /\ IF sslHandshake THEN Decrypt(SubSeq(wire, 1, k)) ELSE Receive(SubSeq(wire, 1, k))
  BY DEF ReadStream
<1>3. k \in 0..Len(wire)
  <2>1. k \in 1..Least(Len(wire), Least(bufSize - Len(ioBuf), sizeWanted))
    BY <1>2 DEF ReadSizes
  <2>2. Len(wire) \in Nat /\ Least(bufSize - Len(ioBuf), sizeWanted) \in Int
    BY <1>1, SizesAssumption DEF Least
  <2> QED
    BY <2>1, <2>2 DEF Least
<1>4. PICK u, r : u = SubSeq(wire, 1, k) /\ r = SubSeq(wire, k + 1, Len(wire))
  OBVIOUS
<1>5. u \in Seq(UnitType) /\ r \in Seq(UnitType) /\ Joined(u, r) = wire
  BY <1>1, <1>3, <1>4, CutFacts
<1>6. UNCHANGED <<scenario, keyFiles, handshakeOK, sslHandshake, tls, support, timer, beats,
                  got, out, writer, sealed, toDaemon, daemon>>
  BY DEF ReadStream
<1>7. PICK b, n : b = ioBuf /\ n = inBIO /\ b \in Seq(UnitType) /\ n \in Seq(UnitType)
  BY <1>1
<1>8. ASSUME ioBuf' \in Seq(UnitType), inBIO' \in Seq(UnitType), pc' \in [Threads -> Places], isDead' \in BOOLEAN,
             fault' \in {"none", "parse", "refused", "closed"}
      PROVE  TypeOK'
  BY <1>1, <1>2, <1>4, <1>5, <1>6, <1>8 DEF TypeOK, Places, daemon
<1>9. PICK c, d : c = Arriving /\ d = Arriving'
  OBVIOUS
<1>10. c = Joined(Joined(b, n), Joined(u, r))
  BY <1>5, <1>7, <1>9 DEF Arriving
<1>11. CASE ~sslHandshake
  <2>1. ioBuf' = ioBuf \o u /\ pc' = [pc EXCEPT !["child"] = "parse"] /\ UNCHANGED <<inBIO, fault, isDead>>
    BY <1>2, <1>4, <1>11 DEF Receive
  <2>2. n = <<>>
    BY <1>7, <1>11 DEF StreamInv
  <2>3. ioBuf' = Joined(b, u)
    BY <1>7, <2>1 DEF Joined
  <2>4. Joined(b, u) \in Seq(UnitType) /\ d = c
    <3>1. /\ Joined(b, u) \in Seq(UnitType)
          /\ Joined(Joined(Joined(b, u), <<>>), r) = Joined(Joined(b, <<>>), Joined(u, r))
      BY <1>5, <1>7, ReadInClear
    <3>2. d = Joined(Joined(ioBuf', inBIO'), wire')
      BY <1>9 DEF Arriving, Joined
    <3>3. inBIO' = <<>> /\ wire' = r
      BY <1>2, <1>4, <1>7, <2>1, <2>2
    <3> QED
      BY <1>10, <2>2, <2>3, <3>1, <3>2, <3>3
  <2>5. TypeOK'
    <3>1. pc' \in [Threads -> Places]
      BY <1>1, <2>1
    <3>2. ioBuf' \in Seq(UnitType)
      BY <2>3, <2>4
    <3>3. inBIO' \in Seq(UnitType) /\ isDead' \in BOOLEAN /\ fault' \in {"none", "parse", "refused", "closed"}
      BY <1>1, <2>1 DEF TypeOK
    <3> QED
      BY <1>8, <3>1, <3>2, <3>3
  <2>6. Same(c, d)
    BY <1>1, <1>9, <2>4, ArrivingType, SameItself
  <2> QED
    BY <1>1, <1>6, <1>7, <1>9, <2>1, <2>2, <2>5, <2>6, StreamMoves DEF daemon
<1>12. CASE sslHandshake
  <2>1. Decrypt(u)
    BY <1>2, <1>4, <1>12
  <2>2. PICK x : x = inBIO \o u
    OBVIOUS
  <2>3. x = Joined(n, u) /\ x \in Seq(UnitType)
    BY <1>5, <1>7, <2>2, JoinedFacts DEF Joined
  <2>4. PICK i, p, rest : i = Complete(x) /\ p = SubSeq(x, 1, i) /\ rest = SubSeq(x, i + 1, Len(x))
    OBVIOUS
  <2>5. p \in Seq(UnitType) /\ rest \in Seq(UnitType) /\ Joined(p, rest) = Joined(n, u)
    BY <2>3, <2>4, CompleteFacts, CutFacts
  <2>6. PICK o : o = Opened(p)
    OBVIOUS
  <2>7. o \in Seq(UnitType) /\ Same(p, o)
    BY <2>5, <2>6, OpenedFacts
  <2>8. /\ Joined(b, o) \in Seq(UnitType)
        /\ Same(Joined(Joined(b, n), Joined(u, r)), Joined(Joined(Joined(b, o), rest), r))
    BY <1>5, <1>7, <2>5, <2>7, ReadInTLS
  <2>9. CASE \E j \in DOMAIN x : ~x[j].tls
    <3>1. EndSession("parse") /\ UNCHANGED <<ioBuf, inBIO>>
      BY <2>1, <2>2, <2>9 DEF Decrypt
    <3>2. pc' \in [Threads -> Places] /\ isDead' = TRUE /\ fault' \in {"none", "parse", "refused", "closed"}
      BY <1>1, <3>1, EndFacts
    <3>3. TypeOK'
      BY <1>1, <1>8, <3>1, <3>2
    <3> QED
      BY <1>1, <1>6, <1>9, <1>12, <3>2, <3>3, StreamMoves DEF daemon
  <2>10. CASE ~(\E j \in DOMAIN x : ~x[j].tls)
    <3>1. /\ ioBuf' = ioBuf \o Opened(p) /\ inBIO' = rest
          /\ \E w \in Places : pc' = [pc EXCEPT !["child"] = w]
          /\ UNCHANGED <<fault, isDead>>
      BY <1>1, <2>1, <2>2, <2>4, <2>10 DEF Decrypt
    <3>2. ioBuf' = Joined(b, o)
      BY <1>7, <2>6, <3>1 DEF Joined
    <3>3. pc' \in [Threads -> Places]
      BY <1>1, <3>1
    <3>4. TypeOK'
      <4>1. ioBuf' \in Seq(UnitType) /\ inBIO' \in Seq(UnitType)
        BY <2>5, <2>8, <3>1, <3>2
      <4>2. isDead' \in BOOLEAN /\ fault' \in {"none", "parse", "refused", "closed"}
        BY <1>1, <3>1 DEF TypeOK
      <4> QED
        BY <1>8, <3>3, <4>1, <4>2
    <3>5. d = Joined(Joined(Joined(b, o), rest), r)
      <4>1. d = Joined(Joined(ioBuf', inBIO'), wire')
        BY <1>9 DEF Arriving, Joined
      <4> QED
        BY <1>2, <1>4, <3>1, <3>2, <4>1
    <3>6. Same(c, d)
      BY <1>10, <2>8, <3>5
    <3> QED
      BY <1>1, <1>6, <1>9, <1>12, <3>1, <3>4, <3>6, StreamMoves DEF daemon
  <2> QED
    BY <2>9, <2>10
<1> QED
  BY <1>1, <1>11, <1>12

LEMMA EndsKeeps ==
    ASSUME StreamInv, ReadStreamEnds
    PROVE  StreamInv'
<1>1. TypeOK /\ EndSession("closed")
  BY DEF StreamInv, ReadStreamEnds
<1>2. pc' \in [Threads -> Places] /\ isDead' = TRUE /\ fault' \in {"none", "parse", "refused", "closed"}
  BY <1>1, EndFacts
<1>3. UNCHANGED <<scenario, keyFiles, handshakeOK, sslHandshake, tls, support, timer, beats,
                  wire, ioBuf, inBIO, got, out, writer, sealed, toDaemon, daemon>>
  BY DEF ReadStreamEnds
<1>4. TypeOK'
  BY <1>1, <1>2, <1>3 DEF TypeOK, Places, daemon
<1> QED
  BY <1>2, <1>3, <1>4, StreamStill DEF daemon

\* FetchCommand handles a packet, or ends the session.
LEMMA FetchCommandFacts ==
    ASSUME TypeOK, NEW n \in Nat, NEW kind \in DaemonKinds, FetchCommand(n, kind)
    PROVE  /\ keyFiles' \in KeyFiles /\ handshakeOK' \in BOOLEAN /\ sslHandshake' \in BOOLEAN
           /\ tls' \in {"none", "started", "finished"} /\ support' \in BOOLEAN
           /\ fault' \in {"none", "parse", "refused", "closed"}
           /\ pc' \in [Threads -> Places] /\ out' \in [Threads -> MessageType]
           /\ sslHandshake => sslHandshake'
           /\ \/ got' = Append(got, n) /\ isDead' = isDead
              \/ got' = got /\ isDead' = TRUE
<1>1. /\ keyFiles \in KeyFiles /\ handshakeOK \in BOOLEAN /\ sslHandshake \in BOOLEAN
      /\ tls \in {"none", "started", "finished"} /\ support \in BOOLEAN
      /\ fault \in {"none", "parse", "refused", "closed"}
      /\ pc \in [Threads -> Places] /\ out \in [Threads -> MessageType]
      /\ isDead \in BOOLEAN
  BY DEF TypeOK, Places
<1>2. scenario.beats \in BOOLEAN
  BY DEF TypeOK, ScenarioType
<1>3. CASE kind = "data"
  <2>1. UNCHANGED <<keyFiles, session, fault, pc, out>> /\ got' = Append(got, n)
    BY <1>3 DEF FetchCommand
  <2> QED
    BY <1>1, <2>1 DEF session
<1>4. CASE kind = "AUTH_OK"
  <2>1. /\ support' = scenario.beats /\ handshakeOK' = TRUE /\ got' = Append(got, n)
        /\ UNCHANGED <<keyFiles, sslHandshake, isDead, tls, fault, pc, out>>
    BY <1>4 DEF FetchCommand, UpdateHdiInfo
  <2> QED
    BY <1>1, <1>2, <2>1
<1>5. CASE kind = "HANDSHAKE_FAILED"
  <2>1. /\ EndSession("refused")
        /\ UNCHANGED <<keyFiles, handshakeOK, sslHandshake, tls, support, out, got>>
    BY <1>5 DEF FetchCommand
  <2>2. pc' \in [Threads -> Places] /\ isDead' = TRUE /\ fault' \in {"none", "parse", "refused", "closed"}
    BY <2>1, EndFacts
  <2> QED
    BY <1>1, <2>1, <2>2
<1>6. CASE kind \notin {"data", "AUTH_OK", "HANDSHAKE_FAILED"}
  <2>1. PICK h : h = HandServerAuth(kind)
    OBVIOUS
  <2>2. /\ h.ok \in BOOLEAN /\ h.ssl \in BOOLEAN /\ h.tls \in {"none", "started", "finished"}
        /\ h.reply \in HostKinds \cup {""}
        /\ sslHandshake => h.ssl
    BY <1>6, <2>1, HandFacts
  <2>3. /\ tls' = h.tls /\ sslHandshake' = h.ssl
        /\ keyFiles' = IF kind = "AUTH_PUBLICKEY" THEN TryLoadPublicKey ELSE keyFiles
        /\ IF h.ok THEN got' = Append(got, n) /\ UNCHANGED <<fault, isDead>>
           ELSE got' = got /\ EndSession("refused") /\ out' = out
        /\ h.ok => IF h.reply # "" THEN SendFrom("child", h.reply)
                   ELSE UNCHANGED <<pc, out>>
        /\ UNCHANGED <<handshakeOK, support>>
    BY <1>6, <2>1 DEF FetchCommand
  <2>4. keyFiles' \in KeyFiles
    BY <1>1, <2>3, KeyFacts
  <2>5. CASE h.ok
    <3>1. got' = Append(got, n) /\ UNCHANGED <<fault, isDead>>
      BY <2>3, <2>5
    <3>2. pc' \in [Threads -> Places] /\ out' \in [Threads -> MessageType]
      <4>1. CASE h.reply # ""
        <5>1. h.reply \in HostKinds /\ "child" \in Threads /\ SendFrom("child", h.reply)
          BY <2>2, <2>3, <2>5, <4>1 DEF Threads
        <5> QED
          BY <5>1, SendFromFacts
      <4>2. CASE h.reply = ""
        BY <1>1, <2>3, <2>5, <4>2
      <4> QED
        BY <4>1, <4>2
    <3> QED
      BY <1>1, <2>2, <2>3, <2>4, <3>1, <3>2
  <2>6. CASE ~h.ok
    <3>1. got' = got /\ EndSession("refused") /\ out' = out
      BY <2>3, <2>6
    <3>2. pc' \in [Threads -> Places] /\ isDead' = TRUE /\ fault' \in {"none", "parse", "refused", "closed"}
      BY <3>1, EndFacts
    <3> QED
      BY <1>1, <2>2, <2>3, <2>4, <3>1, <3>2
  <2> QED
    BY <2>2, <2>5, <2>6
<1> QED
  BY <1>3, <1>4, <1>5, <1>6

\* The next packet is taken from ioBuf.
Taken == /\ ~isDead /\ Len(ioBuf) > 1 /\ PacketIsHere(ioBuf)
         /\ ioBuf' = MovedUp(ioBuf, ioBuf[1].packet)
         /\ FetchCommand(ioBuf[1].packet, sent[ioBuf[1].packet])

LEMMA FetchIOBufCases ==
    ASSUME FetchIOBuf
    PROVE  \/ /\ pc' = [pc EXCEPT !["child"] = "idle"]
              /\ UNCHANGED <<keyFiles, session, ioBuf, fault, got, out>>
           \/ /\ EndSession("parse")
              /\ UNCHANGED <<keyFiles, handshakeOK, sslHandshake, tls, support, ioBuf, got, out>>
           \/ ~(Len(ioBuf) <= 1) /\ ~isDead /\ PacketIsHere(ioBuf)
              /\ ioBuf' = MovedUp(ioBuf, ioBuf[1].packet)
              /\ FetchCommand(ioBuf[1].packet, sent[ioBuf[1].packet])
  BY DEF FetchIOBuf

\* It is the one that is due, and what is behind it begins with the next.
LEMMA TakenFacts ==
    ASSUME StreamInv, Taken
    PROVE  /\ ioBuf[1].packet = Len(got) + 1 /\ Len(got) + 1 \in 1..Len(sent)
           /\ ioBuf' \in Seq(UnitType)
           /\ Chain(Joined(Joined(ioBuf', inBIO), wire), Len(got) + 1)
<1>1. /\ TypeOK /\ ~isDead /\ Len(ioBuf) > 1 /\ ioBuf \in Seq(UnitType) /\ inBIO \in Seq(UnitType)
      /\ wire \in Seq(UnitType) /\ sent \in Seq(DaemonKinds) /\ got \in Seq(Nat)
  BY DEF StreamInv, TypeOK, Taken
<1>2. PICK b, n : b = ioBuf /\ n = Len(got) /\ n \in Nat /\ b \in Seq(UnitType)
  <2>1. ioBuf \in Seq(UnitType) /\ Len(got) \in Nat
    BY ONLY <1>1
  <2> QED
    BY ONLY <2>1, Zenon
<1>3. PICK y : y = Joined(inBIO, wire) /\ y \in Seq(UnitType)
  BY <1>1, JoinedFacts
<1>4. PICK c : c = Joined(b, y)
  OBVIOUS
<1>5. c = Arriving
  BY <1>1, <1>2, <1>3, <1>4, JoinedFacts DEF Arriving
<1>6. c \in Seq(UnitType) /\ Chain(c, n)
  BY <1>1, <1>2, <1>5, ArrivingType DEF StreamInv
<1>7. c # <<>> /\ c[1] = b[1] /\ Len(b) \in Nat /\ Len(b) > 1
  <2>1. /\ Len(b \o y) = Len(b) + Len(y) /\ Len(b) \in Nat /\ Len(y) \in Nat
        /\ \A i \in 1..Len(b) + Len(y) : (b \o y)[i] = IF i <= Len(b) THEN b[i] ELSE y[i - Len(b)]
    BY <1>2, <1>3, ConcatProperties
  <2>2. Len(b) > 1
    BY <1>1, <1>2
  <2>3. 1 \in 1..Len(b) + Len(y) /\ 1 <= Len(b)
    BY <2>1, <2>2
  <2>4. (b \o y)[1] = b[1] /\ Len(b \o y) # 0
    BY <2>1, <2>3
  <2>5. Len(c) # 0 /\ c[1] = b[1]
    BY <2>4, <1>4 DEF Joined
  <2> QED
    BY <2>1, <2>2, <2>5
<1>8. b[1].packet = n + 1 /\ n + 1 \in 1..Len(sent)
  <2>1. c[1].packet = n + 1 /\ 1 \in DOMAIN c
    BY <1>6, <1>7 DEF Chain
  <2>2. c[1].packet \in 1..Len(sent)
    BY <1>6, <2>1 DEF Chain
  <2> QED
    BY <1>7, <2>1, <2>2
<1>9. PICK z : z = PacketSize(sent[n + 1]) /\ z \in Nat
  BY SizeFacts
<1>10. Len(b) >= z
  BY <1>2, <1>8, <1>9 DEF Taken, PacketIsHere
<1>11. PICK f, m : f = SubSeq(b, 1, z) /\ m = SubSeq(b, z + 1, Len(b))
  OBVIOUS
<1>12. f \in Seq(UnitType) /\ Len(f) = z /\ m \in Seq(UnitType) /\ Joined(f, m) = b
  <2>1. z \in 0..Len(b)
    BY <1>7, <1>9, <1>10
  <2> QED
    BY <1>2, <1>11, <2>1, CutFacts
<1>13. ioBuf' = m
  BY <1>2, <1>8, <1>9, <1>11 DEF Taken, MovedUp
<1>14. PICK d : d = Joined(m, y) /\ d \in Seq(UnitType)
  BY <1>3, <1>12, JoinedFacts
<1>15. c = Joined(f, d)
  BY <1>3, <1>4, <1>12, <1>14, JoinedFacts
<1>16. Len(d) = Len(c) - z /\ Len(c) >= z /\ \A i \in 1..Len(d) : d[i] = c[i + z]
  <2>1. /\ Len(f \o d) = Len(f) + Len(d) /\ Len(d) \in Nat
        /\ \A i \in 1..Len(f) + Len(d) : (f \o d)[i] = IF i <= Len(f) THEN f[i] ELSE d[i - Len(f)]
    <3>1. f \in Seq(UnitType) /\ d \in Seq(UnitType)
      BY <1>12, <1>14
    <3> QED
      BY <3>1, ConcatProperties
  <2>2. c = f \o d
    BY <1>15 DEF Joined
  <2>3. Len(c) = z + Len(d)
    BY <1>12, <2>1, <2>2
  <2>4. \A i \in 1..z + Len(d) : c[i] = IF i <= z THEN f[i] ELSE d[i - z]
    BY <1>12, <2>1, <2>2
  <2>5. ASSUME NEW i \in 1..Len(d)
        PROVE  d[i] = c[i + z]
    <3>1. i + z \in 1..z + Len(d) /\ ~(i + z <= z) /\ (i + z) - z = i
      BY <1>9, <2>1
    <3> QED
      BY <2>4, <3>1
  <2>6. Len(d) \in Nat
    BY <1>14
  <2>7. Len(d) = Len(c) - z /\ Len(c) >= z
    BY <1>9, <2>3, <2>6
  <2> QED
    BY <2>5, <2>7
<1>17. Chain(d, n + 1)
  BY <1>1, <1>2, <1>6, <1>7, <1>9, <1>14, <1>16, ChainDrops
<1>18. Joined(Joined(ioBuf', inBIO), wire) = d
  BY <1>1, <1>3, <1>12, <1>13, <1>14, JoinedFacts
<1> QED
  BY <1>2, <1>8, <1>12, <1>13, <1>17, <1>18

LEMMA FetchKeeps ==
    ASSUME StreamInv, FetchIOBuf
    PROVE  StreamInv'
<1>1. /\ TypeOK /\ isDead \in BOOLEAN /\ pc \in [Threads -> Places] /\ "idle" \in Places
      /\ sent \in Seq(DaemonKinds) /\ got \in Seq(Nat) /\ inBIO \in Seq(UnitType) /\ wire \in Seq(UnitType)
  BY DEF StreamInv, TypeOK, Places
<1>2. UNCHANGED <<scenario, timer, beats, wire, inBIO, writer, sealed, toDaemon, daemon>>
  BY DEF FetchIOBuf
<1>3. CASE /\ pc' = [pc EXCEPT !["child"] = "idle"]
           /\ UNCHANGED <<keyFiles, session, ioBuf, fault, got, out>>
  <2>1. pc' \in [Threads -> Places]
    BY <1>1, <1>3
  <2>2. TypeOK'
    BY <1>1, <1>2, <1>3, <2>1 DEF TypeOK, Places, session, daemon
  <2> QED
    BY <1>2, <1>3, <2>2, StreamStill DEF session, daemon
<1>4. CASE /\ EndSession("parse")
           /\ UNCHANGED <<keyFiles, handshakeOK, sslHandshake, tls, support, ioBuf, got, out>>
  <2>1. pc' \in [Threads -> Places] /\ isDead' = TRUE /\ fault' \in {"none", "parse", "refused", "closed"}
    BY <1>1, <1>4, EndFacts
  <2>2. TypeOK'
    BY <1>1, <1>2, <1>4, <2>1 DEF TypeOK, Places, daemon
  <2> QED
    BY <1>2, <1>4, <2>1, <2>2, StreamStill DEF daemon
<1>5. CASE Taken
  <2>1. PICK n : n = Len(got) + 1 /\ n \in Nat
    BY <1>1
  <2>2. /\ ioBuf[1].packet = n /\ n \in 1..Len(sent) /\ ioBuf' \in Seq(UnitType)
        /\ Chain(Joined(Joined(ioBuf', inBIO), wire), n)
    BY <1>5, <2>1, TakenFacts
  <2>3. PICK kind \in DaemonKinds : kind = sent[n]
    BY <1>1, <2>2
  <2>4. FetchCommand(n, kind)
    BY <1>5, <2>2, <2>3 DEF Taken
  <2>5. /\ keyFiles' \in KeyFiles /\ handshakeOK' \in BOOLEAN /\ sslHandshake' \in BOOLEAN
        /\ tls' \in {"none", "started", "finished"} /\ support' \in BOOLEAN
        /\ fault' \in {"none", "parse", "refused", "closed"}
        /\ pc' \in [Threads -> Places] /\ out' \in [Threads -> MessageType]
        /\ sslHandshake => sslHandshake'
        /\ \/ got' = Append(got, n) /\ isDead' = isDead
           \/ got' = got /\ isDead' = TRUE
    BY <1>1, <2>1, <2>4, FetchCommandFacts
  <2>6. TypeOK'
    <3>1. got' \in Seq(Nat) /\ isDead' \in BOOLEAN
      <4>1. Append(got, n) \in Seq(Nat)
        BY <1>1, <2>1
      <4>2. got' = Append(got, n) \/ got' = got
        BY <2>5
      <4>3. isDead' = isDead \/ isDead' = TRUE
        BY <2>5
      <4> QED
        BY <1>1, <4>1, <4>2, <4>3
    <3> QED
      BY <1>1, <1>2, <2>2, <2>5, <3>1 DEF TypeOK, Places, daemon
  <2>7. (~sslHandshake => inBIO = <<>>)'
    BY <1>2, <2>5 DEF StreamInv, TypeOK
  <2>8. CASE got' = got /\ isDead' = TRUE
    <3>1. (\A k \in DOMAIN got : got[k] = k)' /\ (Len(got) <= Len(sent))'
      BY <1>2, <2>8 DEF StreamInv, daemon
    <3> QED
      BY <2>6, <2>7, <2>8, <3>1 DEF StreamInv
  <2>9. CASE got' = Append(got, n) /\ isDead' = isDead
    <3>1. /\ DOMAIN got = 1..(n - 1) /\ DOMAIN got' = 1..n /\ Len(got') = n
          /\ got'[n] = n /\ \A k \in 1..(n - 1) : got'[k] = got[k]
      BY <1>1, <2>1, <2>9
    <3>2. \A k \in DOMAIN got' : got'[k] = k
      <4>1. \A k \in 1..(n - 1) : got'[k] = k
        BY <3>1 DEF StreamInv
      <4>2. \A k \in 1..n : k = n \/ k \in 1..(n - 1)
        BY <2>1
      <4> QED
        BY <3>1, <4>1, <4>2
    <3>3. (Len(got) <= Len(sent))'
      BY <1>1, <1>2, <2>2, <3>1 DEF daemon
    <3>4. PICK c : c = Arriving'
      OBVIOUS
    <3>5. c = Joined(Joined(ioBuf', inBIO), wire)
      <4>1. c = Joined(Joined(ioBuf', inBIO'), wire')
        BY <3>4 DEF Arriving, Joined
      <4> QED
        BY <1>2, <4>1
    <3>6. Chain(c, n)
      BY <2>2, <3>5
    <3>7. Chain(c, n)'
      BY <1>2, <3>6 DEF Chain, daemon
    <3>8. Chain(Arriving, Len(got))'
      BY <3>1, <3>4, <3>7, ChainHere
    <3> QED
      BY <2>6, <2>7, <3>2, <3>3, <3>8 DEF StreamInv
  <2> QED
    BY <2>5, <2>8, <2>9
<1> QED
  <2>1. ~(Len(ioBuf) <= 1) => Len(ioBuf) > 1
    BY DEF StreamInv, TypeOK
  <2> QED
    BY <1>3, <1>4, <1>5, <2>1, FetchIOBufCases DEF Taken

LEMMA UnitsFacts ==
    ASSUME NEW n \in Nat, NEW kind \in DaemonKinds, NEW mode \in BOOLEAN, NEW u, u = Units(n, kind, mode)
    PROVE  /\ u \in Seq(UnitType) /\ Len(u) = PacketSize(kind)
           /\ \A i \in 1..Len(u) : u[i].packet = n /\ u[i].at = i
<1>1. PICK z : z = PacketSize(kind) /\ z \in Nat
  BY SizeFacts
<1> DEFINE F(i) == [packet |-> n, at |-> i, tls |-> mode,
                    last |-> mode /\ (i % BUF_SIZE_DEFAULT16 = 0 \/ i = z)]
<1>2. u = [i \in 1..z |-> F(i)]
  BY <1>1 DEF Units
<1>3. \A i \in 1..z : F(i) \in UnitType /\ F(i).packet = n /\ F(i).at = i
  BY <1>1 DEF UnitType
<1> HIDE DEF F
<1>4. u \in [1..z -> UnitType]
  BY <1>2, <1>3
<1>5. u \in Seq(UnitType) /\ Len(u) = z
  BY <1>1, <1>4
<1> QED
  BY <1>1, <1>2, <1>3, <1>5

LEMMA DaemonSendsKeeps ==
    ASSUME StreamInv, DaemonSends
    PROVE  StreamInv'
<1>1. /\ TypeOK /\ answers \in Seq(DaemonKinds \cup {"close"}) /\ answers # <<>> /\ daemonTLS \in BOOLEAN
      /\ sent \in Seq(DaemonKinds) /\ got \in Seq(Nat) /\ isDead \in BOOLEAN
      /\ wire \in Seq(UnitType) /\ ioBuf \in Seq(UnitType) /\ inBIO \in Seq(UnitType)
  BY DEF StreamInv, TypeOK, DaemonSends
<1>2. UNCHANGED <<scenario, keyFiles, session, timer, beats, reading, sending, toDaemon, opened, confused>>
  BY DEF DaemonSends
<1>3. answers' \in Seq(DaemonKinds \cup {"close"})
  BY <1>1 DEF DaemonSends
<1>4. PICK kind \in DaemonKinds \cup {"close"} : kind = Head(answers)
  BY <1>1
<1>5. CASE kind = "close"
  <2>1. closed' = TRUE /\ UNCHANGED <<wire, sent, daemonTLS>>
    BY <1>4, <1>5 DEF DaemonSends
  <2>2. TypeOK'
    BY <1>1, <1>2, <1>3, <2>1 DEF TypeOK, session, reading, sending
  <2> QED
    BY <1>2, <2>1, <2>2, StreamStill DEF session, reading
<1>6. CASE kind # "close"
  <2>1. PICK u : u = Units(Len(sent) + 1, kind, daemonTLS)
    OBVIOUS
  <2>2. /\ wire' = wire \o u /\ sent' = Append(sent, kind) /\ closed' = closed
        /\ daemonTLS' = (daemonTLS \/ kind = "tickets")
    BY <1>4, <1>6, <2>1 DEF DaemonSends
  <2>3. kind \in DaemonKinds
    BY <1>6
  <2>4. /\ u \in Seq(UnitType) /\ Len(u) = PacketSize(kind)
        /\ \A i \in 1..Len(u) : u[i].packet = Len(sent) + 1 /\ u[i].at = i
    <3>1. PICK p \in Nat : p = Len(sent) + 1
      BY <1>1
    <3>2. PICK mode \in BOOLEAN : mode = daemonTLS
      BY <1>1
    <3>3. u = Units(p, kind, mode)
      BY <2>1, <3>1, <3>2
    <3>4. /\ u \in Seq(UnitType) /\ Len(u) = PacketSize(kind)
          /\ \A i \in 1..Len(u) : u[i].packet = p /\ u[i].at = i
      BY <2>3, <3>3, UnitsFacts
    <3> QED
      BY <3>1, <3>4
  <2>5. wire' = Joined(wire, u) /\ Joined(wire, u) \in Seq(UnitType)
    BY <1>1, <2>2, <2>4, JoinedFacts DEF Joined
  <2>6. sent' \in Seq(DaemonKinds) /\ Len(sent') = Len(sent) + 1 /\ daemonTLS' \in BOOLEAN /\ Len(sent) \in Nat
    BY <1>1, <2>2, <2>3
  <2>7. TypeOK'
    BY <1>1, <1>2, <1>3, <2>2, <2>5, <2>6 DEF TypeOK, session, reading, sending
  <2>8. PICK c, d, n : c = Arriving /\ d = Joined(c, u) /\ n = Len(got)
    OBVIOUS
  <2>9. c \in Seq(UnitType) /\ n \in Nat /\ n <= Len(sent) /\ (~isDead => Chain(c, n))
    BY <1>1, <2>8, ArrivingType DEF StreamInv
  <2>10. ~isDead => Chain(d, n)'
    <3>1. d = c \o u
      BY <2>8 DEF Joined
    <3> QED
      BY <1>1, <2>2, <2>3, <2>4, <2>9, <3>1, ChainGrows
  <2>11. d = Arriving'
    <3>1. Arriving' = Joined(Joined(ioBuf, inBIO), wire')
      BY <1>2 DEF Arriving, Joined, reading
    <3>2. PICK b : b = Joined(ioBuf, inBIO) /\ b \in Seq(UnitType)
      BY <1>1, JoinedFacts
    <3>3. Joined(Joined(b, wire), u) = Joined(b, Joined(wire, u))
      BY <1>1, <2>4, <3>2, JoinedFacts
    <3>4. c = Joined(b, wire)
      BY <2>8, <3>2 DEF Arriving
    <3> QED
      BY <2>5, <2>8, <3>1, <3>2, <3>3, <3>4
  <2>12. n = Len(got') /\ isDead' = isDead /\ got' = got /\ inBIO' = inBIO /\ sslHandshake' = sslHandshake
    BY <1>2, <2>8 DEF session, reading
  <2>13. (~isDead => Chain(Arriving, Len(got)))'
    BY <2>10, <2>11, <2>12, ChainHere
  <2>14. (Len(got) <= Len(sent))'
    BY <2>6, <2>8, <2>9, <2>12
  <2>15. (\A k \in DOMAIN got : got[k] = k)' /\ (~sslHandshake => inBIO = <<>>)'
    BY <2>12 DEF StreamInv
  <2> QED
    BY <2>7, <2>13, <2>14, <2>15 DEF StreamInv
<1> QED
  BY <1>5, <1>6

LEMMA InitStream == Init => StreamInv
<1> SUFFICES ASSUME Init
             PROVE  StreamInv
  OBVIOUS
<1>1. scenario \in ScenarioType
  BY ScenariosAssumption DEF Init
<1>2. keyFiles \in KeyFiles
  BY <1>1 DEF Init, ScenarioType
<1>3. out \in [Threads -> MessageType]
  BY DEF Init, NoMessage, MessageType, HostKinds
<1>4. pc \in [Threads -> {"start", "idle", "parse", "send", "protocol", "lock", "write"}]
  BY DEF Init
<1>5. beats \in 0..MaxBeats
  BY SizesAssumption DEF Init
<1>6. TypeOK
  <2>1. /\ <<>> \in Seq(UnitType) /\ <<>> \in Seq(MessageType) /\ <<>> \in Seq(DaemonKinds \cup {"close"})
        /\ <<>> \in Seq(DaemonKinds) /\ <<>> \in Seq(Nat)
    OBVIOUS
  <2>2. /\ handshakeOK \in BOOLEAN /\ sslHandshake \in BOOLEAN /\ isDead \in BOOLEAN
        /\ tls \in {"none", "started", "finished"}
        /\ support \in BOOLEAN /\ timer \in BOOLEAN /\ closed \in BOOLEAN
        /\ fault \in {"none", "parse", "refused", "closed"}
        /\ writer \in Threads \cup {"nobody"} /\ sealed \in Nat
        /\ daemonTLS \in BOOLEAN /\ opened \in Nat /\ confused \in BOOLEAN
    BY DEF Init
  <2>3. /\ wire = <<>> /\ ioBuf = <<>> /\ inBIO = <<>> /\ toDaemon = <<>> /\ answers = <<>>
        /\ sent = <<>> /\ got = <<>>
    BY DEF Init
  <2> QED
    BY <1>1, <1>2, <1>3, <1>4, <1>5, <2>1, <2>2, <2>3, Zenon DEF TypeOK
<1>7. Arriving = <<>>
  BY DEF Arriving, Joined, Init
<1>8. Chain(Arriving, Len(got))
  BY <1>7 DEF Init, Chain
<1> QED
  BY <1>6, <1>8 DEF StreamInv, Init

LEMMA NextStream == StreamInv /\ [Next]_vars => StreamInv'
<1> SUFFICES ASSUME StreamInv, [Next]_vars
             PROVE  StreamInv'
  OBVIOUS
<1>1. CASE \E t \in Threads : Send(t) \/ SendByProtocol(t) \/ WriteUvSslFd(t) \/ WriteUvTcpFd(t)
  BY <1>1, SendKeeps, SendByProtocolKeeps, WriteUvSslFdKeeps, WriteUvTcpFdKeeps
<1>2. CASE WorkThreadStartSession \/ SendHeartbeatMsg \/ DoCommandRemote
  BY <1>2, StartKeeps, HeartbeatKeeps, CommandKeeps
<1>3. CASE ReadStream \/ ReadStreamEnds \/ FetchIOBuf
  BY <1>3, ReadStreamKeeps, EndsKeeps, FetchKeeps
<1>4. CASE DaemonReads \/ DaemonSends
  BY <1>4, DaemonReadsKeeps, DaemonSendsKeeps
<1>5. CASE UNCHANGED vars
  <2>1. UNCHANGED <<scenario, keyFiles, session, timer, beats, wire, reading, sending, toDaemon, daemon>>
    BY <1>5 DEF vars
  <2>2. TypeOK'
    BY <2>1 DEF StreamInv, TypeOK, session, reading, sending, daemon
  <2> QED
    BY <2>1, <2>2, StreamStill DEF session, reading, daemon
<1> QED
  BY <1>1, <1>2, <1>3, <1>4, <1>5 DEF Next, Progress

-----------------------------------------------------------------------------
(* The session implements the stream.                                        *)

LEMMA InitMapsStream == Init => Stream!Init
<1> SUFFICES ASSUME Init
             PROVE  Stream!Init
  OBVIOUS
<1>1. got = <<>> /\ sent = <<>> /\ isDead = FALSE /\ Len(sent) = 0
  BY DEF Init
<1> QED
  BY <1>1 DEF Stream!Init

LEMMA SentMaps ==
    ASSUME StreamInv, DaemonSends
    PROVE  Stream!Next \/ UNCHANGED Stream!vars
<1>1. UNCHANGED <<got, isDead>> /\ sent \in Seq(DaemonKinds)
  BY DEF DaemonSends, reading, session, StreamInv, TypeOK
<1>2. CASE sent' = sent
  BY <1>1, <1>2 DEF Stream!vars
<1>3. CASE \E kind : sent' = Append(sent, kind)
  <2>1. Len(sent') = Len(sent) + 1 /\ Len(sent) \in Nat
    BY <1>1, <1>3
  <2>2. Stream!Send("daemon")
    BY <1>1, <2>1 DEF Stream!Send
  <2> QED
    BY <2>2 DEF Stream!Next
<1> QED
  BY <1>2, <1>3 DEF DaemonSends

\* A packet is handled: it is the next one.
LEMMA TakenMaps ==
    ASSUME StreamInv, Taken, UNCHANGED daemon
    PROVE  Stream!Next \/ UNCHANGED Stream!vars
<1>1. /\ TypeOK /\ sent \in Seq(DaemonKinds) /\ got \in Seq(Nat) /\ sent' = sent /\ isDead = FALSE
      /\ \A k \in DOMAIN got : got[k] = k
  BY DEF daemon, StreamInv, TypeOK, Taken
<1>2. PICK n : n = Len(got) + 1 /\ n \in Nat
  BY <1>1
<1>3. ioBuf[1].packet = n /\ n \in 1..Len(sent)
  BY <1>2, TakenFacts
<1>4. \/ got' = Append(got, n) /\ isDead' = isDead
      \/ got' = got /\ isDead' = TRUE
  <2>1. PICK kind \in DaemonKinds : kind = sent[n]
    BY <1>1, <1>3
  <2>2. FetchCommand(n, kind)
    BY <1>3, <2>1 DEF Taken
  <2> QED
    BY <1>1, <1>2, <2>2, FetchCommandFacts
<1>5. CASE got' = got /\ isDead' = TRUE
  <2>1. Stream!End({"server"})
    BY <1>1, <1>5 DEF Stream!End
  <2>2. {"server"} \in SUBSET {"server", "daemon"}
    OBVIOUS
  <2> QED
    BY <2>1, <2>2 DEF Stream!Next
<1>6. CASE got' = Append(got, n) /\ isDead' = isDead
  <2>1. Stream!Newest(got) = n - 1
    <3>1. got # <<>> => Len(got) \in DOMAIN got
      BY <1>1
    <3>2. got = <<>> => Len(got) = 0
      OBVIOUS
    <3> QED
      BY <1>1, <1>2, <3>1, <3>2 DEF Stream!Newest
  <2>2. n \in Stream!Newest(got) + 1 .. Len(sent) /\ n = Stream!Newest(got) + 1
    BY <1>2, <1>3, <2>1
  <2>3. Stream!Deliver("server")
    BY <1>1, <1>6, <2>2 DEF Stream!Deliver
  <2> QED
    BY <2>3 DEF Stream!Next
<1> QED
  BY <1>4, <1>5, <1>6

\* Nothing is sent or handled; the session may end.
LEMMA OtherMaps ==
    ASSUME UNCHANGED <<sent, got>>, isDead \in BOOLEAN, isDead' \in BOOLEAN, isDead => isDead'
    PROVE  Stream!Next \/ UNCHANGED Stream!vars
<1>1. CASE isDead' = isDead
  BY <1>1 DEF Stream!vars
<1>2. CASE isDead' # isDead
  <2>1. isDead = FALSE /\ isDead' = TRUE
    BY <1>2
  <2>2. Stream!End({"server"})
    BY <2>1 DEF Stream!End
  <2>3. {"server"} \in SUBSET {"server", "daemon"}
    OBVIOUS
  <2> QED
    BY <2>2, <2>3 DEF Stream!Next
<1> QED
  BY <1>1, <1>2

LEMMA NextMapsStream == StreamInv /\ StreamInv' /\ [Next]_vars => [Stream!Next]_(Stream!vars)
<1> SUFFICES ASSUME StreamInv, StreamInv', [Next]_vars
             PROVE  Stream!Next \/ UNCHANGED Stream!vars
  OBVIOUS
<1>1. isDead \in BOOLEAN /\ isDead' \in BOOLEAN
  BY DEF StreamInv, TypeOK
<1>2. CASE \/ \E t \in Threads : Send(t) \/ SendByProtocol(t) \/ WriteUvSslFd(t) \/ WriteUvTcpFd(t)
           \/ WorkThreadStartSession \/ SendHeartbeatMsg \/ DoCommandRemote \/ DaemonReads \/ UNCHANGED vars
  <2>1. UNCHANGED <<sent, got, isDead>>
    BY <1>2 DEF Send, SendByProtocol, WriteUvSslFd, WriteUvTcpFd, WorkThreadStartSession, SendHeartbeatMsg,
         DoCommandRemote, DaemonReads, vars, session, reading, daemon
  <2> QED
    BY <1>1, <2>1, OtherMaps
<1>3. CASE ReadStream \/ ReadStreamEnds
  <2>1. UNCHANGED <<sent, got>> /\ (isDead => isDead')
    BY <1>3 DEF ReadStream, ReadStreamEnds, daemon
  <2> QED
    BY <1>1, <2>1, OtherMaps
<1>4. CASE FetchIOBuf
  <2>1. UNCHANGED daemon
    BY <1>4 DEF FetchIOBuf
  <2>2. CASE UNCHANGED <<keyFiles, session, ioBuf, fault, got, out>>
    BY <1>1, <2>1, <2>2, OtherMaps DEF session, daemon
  <2>3. CASE EndSession("parse") /\ got' = got
    BY <1>1, <2>1, <2>3, OtherMaps DEF EndSession, daemon
  <2>4. CASE Taken
    BY <2>1, <2>4, TakenMaps
  <2>5. ~(Len(ioBuf) <= 1) => Len(ioBuf) > 1
    BY DEF StreamInv, TypeOK
  <2> QED
    BY <1>4, <2>2, <2>3, <2>4, <2>5, FetchIOBufCases DEF Taken
<1>5. CASE DaemonSends
  BY <1>5, SentMaps
<1> QED
  BY <1>2, <1>3, <1>4, <1>5 DEF Next, Progress

\* A step is of the session, or leaves it alone.
LEMMA TcpStays ==
    ASSUME [MCNext]_<<transport, merged, vars, usbVars>>
    PROVE  [Next]_vars
  BY DEF MCNext, Tcp, OnUsb

\* Whatever the daemon answers and however the network cuts and merges what it sends, the
\* server handles its packets in their order, each once, until the session ends, through the
\* switch to TLS as well (FetchIOBuf, OnRead, Decrypt).
THEOREM StreamSound == MCSpec => []TypeOK /\ StreamSafe
<1>1. MCInit => StreamInv /\ Stream!Init
  BY InitStream, InitMapsStream DEF MCInit
<1>2. StreamInv /\ [MCNext]_<<transport, merged, vars, usbVars>> => StreamInv'
  BY TcpStays, NextStream
<1>3. StreamInv /\ StreamInv' /\ [MCNext]_<<transport, merged, vars, usbVars>> => [Stream!Next]_(Stream!vars)
  BY TcpStays, NextMapsStream
<1>4. StreamInv => TypeOK
  BY DEF StreamInv
<1> QED
  BY <1>1, <1>2, <1>3, <1>4, PTL DEF MCSpec, StreamSafe, Stream!Safe
=============================================================================
