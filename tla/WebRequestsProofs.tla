------------------------- MODULE WebRequestsProofs -------------------------
(***************************************************************************)
(* The requests of the local web server: one answer each, and the right    *)
(* one, and uploads that leave what was sent, for any connections, files   *)
(* and limits, and however TCP cuts the requests up.                       *)
(***************************************************************************)
EXTENDS WebRequests, TLAPS

Content == Seq(Conn \cup {Old, Hole})

Allowed(r) == Calls(r) \cup Refusals(r)

\* What is known of a connection before its request is complete.
Underway(c) ==
    LET s == state[c]  r == req[c]
    IN  ~s.closed =>
          /\ answers[c] = <<>> /\ download[c] = None /\ reply[c] = "none"
          /\ ~s.meta => pointer[c] = 0 /\ s.bodyReceived = 0 /\ s.uploadFile = None
          /\ s.meta =>
                /\ s.headerLength >= r.head /\ r.op \notin {"malformed", "chunked"}
                /\ r.length <= MaxTransfer
                /\ pointer[c] = s.bodyReceived /\ s.bodyReceived < r.length
                /\ s.uploadFile # None => /\ r.op = "upload" /\ s.uploadFile = r.path
                                          /\ disk[r.path] \in Content

\* What is known of it once it is answered, or while its file is sent.
Answered(c) ==
    LET r == req[c]
    IN  /\ state[c].closed => state[c].uploadFile = None
        /\ socket[c] = "closed" => state[c].closed /\ download[c] = None
        /\ answers[c] # <<>> => Len(answers[c]) = 1 /\ answers[c][1] \in Allowed(r)
        /\ download[c] # None =>
              /\ r.op \in {"get", "post"} /\ r.path \in File /\ {200, 500} \subseteq Allowed(r)
              /\ disk[download[c].file] \in Content
              /\ reply[c] = "none" /\ (download[c].pending = 0 => answers[c] = <<>>)

\* A connection has written no unit beyond its place in its file.
Wrote(c) == \A f \in File : disk[f] \in Content =>
                \A i \in DOMAIN disk[f] : disk[f][i] = c => i <= pointer[c]

Known(c) == /\ IF socket[c] = "new" THEN req[c] = None /\ state[c] = FreshState ELSE req[c] \in Request
            /\ Underway(c) /\ Answered(c) /\ Wrote(c)

IInv == TypeOK /\ \A c \in Conn : Known(c)

LEMMA InitHolds == Init => IInv
<1> SUFFICES ASSUME Init
             PROVE  IInv
  OBVIOUS
<1>1. FreshState \in ConnState
  BY DEF FreshState, ConnState
<1>2. \A n \in {1, MaxTransfer + 1} : n \in Nat
  BY LimitAssumption
<1>3. InitialFile \subseteq Content \cup {None}
  <2>1. \A n \in Nat : [i \in 1..n |-> Old] \in Content
    BY DEF Content
  <2> QED
    BY <1>2, <2>1 DEF InitialFile
<1>4. disk \in [File -> Content \cup {None}]
  BY <1>3 DEF Init
<1>5. TypeOK
  <2>1. req \in [Conn -> Request \cup {None}] /\ state \in [Conn -> ConnState] /\ pointer \in [Conn -> Nat]
    BY <1>1 DEF Init
  <2>2. answers \in [Conn -> Seq(Code)]
    BY DEF Init
  <2>3. download \in [Conn -> Download]
    BY DEF Init, Download
  <2>4. /\ reply \in [Conn -> {"none", "head", "body", "sent", "lost"}]
        /\ socket \in [Conn -> {"new", "open", "closed", "gone"}]
        /\ limited \subseteq File /\ accessed \subseteq limited /\ served \in [File -> Nat]
    BY DEF Init
  <2> QED
    BY <1>4, <2>1, <2>2, <2>3, <2>4 DEF TypeOK, Content
<1>6. ASSUME NEW c \in Conn
      PROVE  Known(c)
  <2>1. /\ socket[c] = "new" /\ req[c] = None /\ state[c] = FreshState /\ pointer[c] = 0
        /\ answers[c] = <<>> /\ download[c] = None /\ reply[c] = "none"
    BY DEF Init
  <2>2. Underway(c) /\ Answered(c)
    BY <2>1 DEF Underway, Answered, FreshState
  <2>3. Wrote(c)
    <3> SUFFICES ASSUME NEW f \in File, disk[f] \in Content, NEW i \in DOMAIN disk[f]
                 PROVE  disk[f][i] # c
      BY DEF Wrote
    <3>1. disk[f] \in InitialFile
      BY DEF Init
    <3>2. PICK n \in {1, MaxTransfer + 1} : disk[f] = [j \in 1..n |-> Old]
      BY <3>1, NameAssumption DEF InitialFile, Content
    <3> QED
      BY <3>2, NameAssumption
  <2> QED
    BY <2>1, <2>2, <2>3 DEF Known
<1> QED
  BY <1>5, <1>6 DEF IInv

(***************************************************************************)
(* A step of connection c.  e are the files after a step that began with   *)
(* the files d, q the place of c in its file.                              *)
(***************************************************************************)
Keeps(c, d, e, q) ==
    /\ e \in [File -> Content \cup {None}]
    /\ \A f \in File :
          /\ d[f] \in Content => e[f] \in Content
          /\ e[f] \in Content => \A i \in DOMAIN e[f] :
                /\ e[f][i] = c => i <= q
                /\ e[f][i] \in Conn \ {c} => d[f] \in Content /\ i \in DOMAIN d[f] /\ d[f][i] = e[f][i]

\* Its request is complete or refused: the answer begins, or a download.
Replied(c, code) ==
    /\ answers' = [answers EXCEPT ![c] = <<code>>] /\ reply' = [reply EXCEPT ![c] = "head"]
    /\ UNCHANGED download

Started(c, total) ==
    /\ req[c].op \in {"get", "post"} /\ req[c].path \in File /\ {200, 500} \subseteq Allowed(req[c])
    /\ disk'[req[c].path] \in Content
    /\ UNCHANGED <<answers, reply, socket>>
    /\ \E counts \in BOOLEAN : download' = [download EXCEPT ![c] =
          [file |-> req[c].path, total |-> total, sent |-> 0, pending |-> 0, counts |-> counts]]

Handled(c) ==
    /\ accessed' \subseteq limited
    /\ socket' = socket \/ socket' = [socket EXCEPT ![c] = "closed"]
    /\ \/ \E code \in Code \cap Allowed(req[c]) : Replied(c, code)
       \/ \E total \in Nat : Started(c, total)

Ended(c) ==
    /\ \E t \in ConnState : t.closed /\ t.uploadFile = None /\ state' = [state EXCEPT ![c] = t]
    /\ Handled(c)

\* Or more of it is waited for, in state t.
Ready(c, t, q) ==
    LET r == req[c]
    IN  /\ t \in ConnState /\ ~t.closed
        /\ ~t.meta => q = 0 /\ t.bodyReceived = 0 /\ t.uploadFile = None
        /\ t.meta =>
              /\ t.headerLength >= r.head /\ r.op \notin {"malformed", "chunked"} /\ r.length <= MaxTransfer
              /\ q = t.bodyReceived /\ t.bodyReceived < r.length
              /\ t.uploadFile # None => /\ r.op = "upload" /\ t.uploadFile = r.path
                                        /\ disk'[r.path] \in Content

\* If all its file holds in e is from c, these are q units.
Whole(c, e, q) ==
    LET s == e[req[c].path]
    IN  (\A i \in 1..Len(s) : s[i] = c) => Len(s) = q

Exact(c) ==
    req[c].op = "upload" /\ answers'[c] = <<200>> => Whole(c, disk', req[c].length)

Result(c) ==
    /\ \E q \in Nat : /\ pointer' = [pointer EXCEPT ![c] = q] /\ Keeps(c, disk, disk', q)
                      /\ Ended(c) \/ \E t : Wait(c, t) /\ Ready(c, t, q)
    /\ Exact(c)

\* Connection c has an unanswered request.
Asks(c) ==
    /\ TypeOK /\ c \in Conn /\ req[c] \in Request
    /\ answers[c] = <<>> /\ download[c] = None /\ reply[c] = "none"

LEMMA RequestFacts ==
    ASSUME NEW r \in Request
    PROVE  /\ r.op \in {"upload", "post", "get", "other", "malformed", "chunked"}
           /\ r.path \in Path /\ r.head \in Nat \ {0} /\ r.grows \in Nat /\ r.length \in Nat /\ r.body \in Nat
  BY RequestAssumption DEF RequestType

LEMMA Responds ==
    ASSUME NEW c, Asks(c), NEW code \in Code \cap Allowed(req[c]), Respond(c, code)
    PROVE  /\ answers' = [answers EXCEPT ![c] = <<code>>] /\ reply' = [reply EXCEPT ![c] = "head"]
           /\ answers'[c] = <<code>>
<1>1. answers \in [Conn -> Seq(Code)] /\ answers[c] = <<>> /\ c \in Conn
  BY DEF Asks, TypeOK
<1>2. answers' = [answers EXCEPT ![c] = Append(@, code)] /\ reply' = [reply EXCEPT ![c] = "head"]
  BY DEF Respond
<1>3. Append(answers[c], code) = <<code>>
  BY <1>1
<1> QED
  BY <1>1, <1>2, <1>3

LEMMA WriteFacts ==
    ASSUME NEW s \in Content, NEW c \in Conn, NEW p \in Nat, NEW n \in Nat
    PROVE  LET w == Write(s, c, p, n)
           IN  /\ w \in Content /\ DOMAIN w = 1..Len(w)
               /\ Len(w) = IF p + n > Len(s) THEN p + n ELSE Len(s)
               /\ \A i \in DOMAIN w : \/ w[i] = c /\ i \in (p + 1)..(p + n)
                                      \/ w[i] = Hole
                                      \/ i \in DOMAIN s /\ w[i] = s[i]
<1> DEFINE l == IF p + n > Len(s) THEN p + n ELSE Len(s)
           v(i) == IF i \in (p + 1)..(p + n) THEN c ELSE IF i <= Len(s) THEN s[i] ELSE Hole
           w == Write(s, c, p, n)
<1>1. Len(s) \in Nat /\ DOMAIN s = 1..Len(s) /\ \A i \in 1..Len(s) : s[i] \in Conn \cup {Old, Hole}
  BY DEF Content
<1>2. l \in Nat
  BY <1>1
<1>3. \A i \in 1..l : v(i) \in Conn \cup {Old, Hole}
  BY <1>1
<1>4. w = [i \in 1..l |-> v(i)]
  BY DEF Write
<1> HIDE DEF l, v, w
<1>5. w \in Content /\ DOMAIN w = 1..l /\ Len(w) = l
  <2>1. w \in [1..l -> Conn \cup {Old, Hole}]
    BY <1>3, <1>4
  <2> QED
    BY <1>2, <2>1 DEF Content
<1>6. \A i \in 1..l : \/ v(i) = c /\ i \in (p + 1)..(p + n)
                      \/ v(i) = Hole
                      \/ i \in DOMAIN s /\ v(i) = s[i]
  BY <1>1 DEF v
<1> QED
  BY <1>4, <1>5, <1>6 DEF l, w

LEMMA Elsewhere ==
    ASSUME IInv, NEW c, NEW d \in Conn \ {c},
           req'[d] = req[d], state'[d] = state[d], pointer'[d] = pointer[d], answers'[d] = answers[d],
           reply'[d] = reply[d], download'[d] = download[d], socket'[d] = socket[d],
           NEW q, Keeps(c, disk, disk', q)
    PROVE  Known(d)'
<1>0. Known(d) /\ disk \in [File -> Content \cup {None}] /\ req \in [Conn -> Request \cup {None}]
      /\ download \in [Conn -> Download]
  BY DEF IInv, TypeOK, Content
<1>1. \A f \in File : disk[f] \in Content => disk'[f] \in Content
  BY DEF Keeps
<1>3. Wrote(d)'
  <2> SUFFICES ASSUME NEW f \in File, disk'[f] \in Content, NEW i \in DOMAIN disk'[f], disk'[f][i] = d
               PROVE  i <= pointer[d]
    BY DEF Wrote
  <2>1. disk[f] \in Content /\ i \in DOMAIN disk[f] /\ disk[f][i] = d
    BY DEF Keeps
  <2> QED
    BY <1>0, <2>1 DEF Known, Wrote
<1>4. Underway(d)'
  <2>1. Underway(d) /\ state[d] \in ConnState
    BY <1>0 DEF Known, IInv, TypeOK
  <2>2. state[d].uploadFile # None => state[d].uploadFile \in File
    BY <2>1 DEF ConnState
  <2> QED
    BY <1>1, <2>1, <2>2 DEF Underway
<1>5. Answered(d)'
  <2>1. Answered(d)
    BY <1>0 DEF Known
  <2>2. download[d] # None => download[d].file \in File
    BY <1>0 DEF Download
  <2> QED
    BY <1>1, <2>1, <2>2 DEF Answered
<1> QED
  BY <1>0, <1>3, <1>4, <1>5 DEF Known

\* What connection c has done leaves the invariant: the files are written at
\* its place, and it waits for more, or is answered, or its file is sent.
LEMMA ResultKeeps ==
    ASSUME IInv, NEW c \in Conn, Asks(c), socket[c] = "open", Result(c),
           UNCHANGED <<req, limited, served>>
    PROVE  IInv'
<1>1. PICK q \in Nat : /\ pointer' = [pointer EXCEPT ![c] = q] /\ Keeps(c, disk, disk', q)
                       /\ Ended(c) \/ \E t : Wait(c, t) /\ Ready(c, t, q)
  BY DEF Result
<1>2. PICK t \in ConnState :
         /\ state' = [state EXCEPT ![c] = t]
         /\ t.closed => t.uploadFile = None
         /\ ~t.closed => Ready(c, t, q)
         /\ t.closed => Handled(c)
         /\ ~t.closed => UNCHANGED <<answers, reply, download, socket, accessed>>
  BY <1>1 DEF Ended, Wait, Ready
<1>3. TypeOK /\ Known(c)
  BY DEF IInv
<1>4. \/ /\ \E code \in Code \cap Allowed(req[c]) : Replied(c, code)
         /\ t.closed
      \/ /\ \E total \in Nat : Started(c, total)
         /\ t.closed
      \/ ~t.closed /\ UNCHANGED <<answers, reply, download>>
  BY <1>2 DEF Handled
<1>5. TypeOK'
  <2>1. /\ req' \in [Conn -> Request \cup {None}] /\ state' \in [Conn -> ConnState]
        /\ pointer' \in [Conn -> Nat] /\ disk' \in [File -> Content \cup {None}]
        /\ limited' \subseteq File /\ served' \in [File -> Nat]
    BY <1>1, <1>2, <1>3 DEF TypeOK, Keeps
  <2>2. /\ accessed' \subseteq limited'
        /\ socket' \in [Conn -> {"new", "open", "closed", "gone"}]
    BY <1>2, <1>3 DEF TypeOK, Handled
  <2>3. /\ answers' \in [Conn -> Seq(Code)] /\ download' \in [Conn -> Download]
        /\ reply' \in [Conn -> {"none", "head", "body", "sent", "lost"}]
    <3>1. CASE \E code \in Code \cap Allowed(req[c]) : Replied(c, code)
      <4>1. PICK code \in Code : Replied(c, code)
        BY <3>1
      <4>2. <<code>> \in Seq(Code)
        OBVIOUS
      <4> QED
        BY <1>3, <4>1, <4>2 DEF TypeOK, Replied
    <3>2. CASE \E total \in Nat : Started(c, total)
      <4>1. PICK total \in Nat, counts \in BOOLEAN :
               /\ UNCHANGED <<answers, reply>> /\ req[c].path \in File
               /\ download' = [download EXCEPT ![c] = [file |-> req[c].path, total |-> total,
                                                     sent |-> 0, pending |-> 0, counts |-> counts]]
        BY <3>2 DEF Started
      <4>2. [file |-> req[c].path, total |-> total, sent |-> 0, pending |-> 0, counts |-> counts] \in Download
        BY <4>1 DEF Download
      <4> QED
        BY <1>3, <4>1, <4>2 DEF TypeOK
    <3>3. CASE UNCHANGED <<answers, reply, download>>
      BY <1>3, <3>3 DEF TypeOK
    <3> QED
      BY <1>4, <3>1, <3>2, <3>3
  <2> QED
    BY <2>1, <2>2, <2>3 DEF TypeOK, Content
<1>6. \A d \in Conn \ {c} : Known(d)'
  <2> TAKE d \in Conn \ {c}
  <2>1. /\ state'[d] = state[d] /\ pointer'[d] = pointer[d] /\ req'[d] = req[d]
    BY <1>1, <1>2, <1>3 DEF TypeOK
  <2>2. /\ answers'[d] = answers[d] /\ reply'[d] = reply[d] /\ download'[d] = download[d]
    BY <1>3, <1>4 DEF TypeOK, Replied, Started
  <2>3. socket'[d] = socket[d]
    BY <1>2, <1>3 DEF TypeOK, Handled
  <2> QED
    BY <1>1, <2>1, <2>2, <2>3, Elsewhere
<1>7. Known(c)'
  <2>1. /\ state'[c] = t /\ pointer'[c] = q /\ req'[c] = req[c] /\ req[c] \in Request
        /\ answers[c] = <<>> /\ download[c] = None /\ reply[c] = "none"
    BY <1>1, <1>2, <1>3 DEF TypeOK, Asks
  <2>2. socket'[c] # "new"
    BY <1>2, <1>3 DEF TypeOK, Handled
  <2>3. Wrote(c)'
    BY <1>1, <2>1 DEF Wrote, Keeps
  <2>4. Underway(c)'
    <3>1. CASE t.closed
      BY <2>1, <3>1 DEF Underway
    <3>2. CASE ~t.closed
      BY <1>2, <2>1, <3>2 DEF Underway, Ready
    <3> QED
      BY <3>1, <3>2
  <2>5. Answered(c)'
    <3>1. CASE \E code \in Code \cap Allowed(req[c]) : Replied(c, code)
      <4>1. PICK code \in Allowed(req[c]) : answers' = [answers EXCEPT ![c] = <<code>>] /\ UNCHANGED download
        BY <3>1 DEF Replied
      <4>2. answers'[c] = <<code>> /\ download'[c] = None
        BY <1>3, <2>1, <4>1 DEF TypeOK
      <4>3. Len(<<code>>) = 1 /\ <<code>>[1] = code
        OBVIOUS
      <4> QED
        BY <1>2, <2>1, <4>1, <4>2, <4>3 DEF Answered
    <3>2. CASE t.closed /\ \E total \in Nat : Started(c, total)
      <4>1. PICK total \in Nat, counts \in BOOLEAN :
               /\ UNCHANGED <<answers, reply, socket>>
               /\ download' = [download EXCEPT ![c] = [file |-> req[c].path, total |-> total,
                                                     sent |-> 0, pending |-> 0, counts |-> counts]]
        BY <3>2 DEF Started
      <4>2. /\ answers'[c] = <<>> /\ reply'[c] = "none"
            /\ download'[c].file = req[c].path
        BY <1>3, <2>1, <4>1 DEF TypeOK
      <4>3. /\ req[c].op \in {"get", "post"} /\ req[c].path \in File /\ disk'[req[c].path] \in Content
            /\ {200, 500} \subseteq Allowed(req[c])
        BY <3>2 DEF Started
      <4>4. socket'[c] # "closed"
        BY <4>1
      <4> QED
        BY <1>2, <2>1, <4>2, <4>3, <4>4 DEF Answered
    <3>3. CASE ~t.closed /\ UNCHANGED <<answers, reply, download>>
      BY <1>2, <2>1, <3>3 DEF Answered
    <3> QED
      BY <1>4, <3>1, <3>2, <3>3
  <2> QED
    BY <2>1, <2>2, <2>3, <2>4, <2>5 DEF Known
<1> QED
  BY <1>5, <1>6, <1>7 DEF IInv

(***************************************************************************)
(* The handlers of a segment.                                              *)
(***************************************************************************)
\* What the request is once its header has been accepted.
Accepted(c) == req[c].op \notin {"malformed", "chunked"} /\ req[c].length <= MaxTransfer

LEMMA AllowedFacts ==
    ASSUME NEW c, req[c] \in Request
    PROVE  /\ req[c].head > HeaderLimit => 431 \in Allowed(req[c])
           /\ req[c].op = "malformed" => 400 \in Allowed(req[c])
           /\ req[c].op = "chunked" => 411 \in Allowed(req[c])
           /\ req[c].op \notin {"malformed", "chunked"} /\ req[c].length > MaxTransfer => 413 \in Allowed(req[c])
           /\ Accepted(c) =>
                /\ req[c].body > MaxTransfer => 413 \in Allowed(req[c])
                /\ req[c].op = "other" => 405 \in Allowed(req[c])
                /\ req[c].op # "other" /\ req[c].path = Unsafe => 403 \in Allowed(req[c])
                /\ req[c].op = "upload" /\ req[c].path # Unsafe => {200, 500} \subseteq Allowed(req[c])
                /\ req[c].op = "post" /\ req[c].path # Unsafe => 200 \in Allowed(req[c])
                /\ req[c].op \in {"get", "post"} /\ req[c].path \in File =>
                      {200, 413, 429, 500} \subseteq Allowed(req[c])
                /\ req[c].op = "get" /\ req[c].path \in File => 404 \in Allowed(req[c])
                /\ req[c].op = "get" /\ req[c].path = Dir => {200, 500} \subseteq Allowed(req[c])
<1> DEFINE r == req[c]
<1>1. /\ r.op \in {"upload", "post", "get", "other", "malformed", "chunked"}
      /\ r.path \in Path /\ r.head \in Nat \ {0} /\ r.grows \in Nat /\ r.length \in Nat /\ r.body \in Nat
  BY RequestFacts
<1> HIDE DEF r
<1>2. Dir \notin File /\ Unsafe \notin File /\ Dir # Unsafe /\ Path = File \cup {Dir, Unsafe}
  BY NameAssumption DEF Path
<1>3. MaxTransfer \in Nat
  BY LimitAssumption
<1>4. CASE r.op = "malformed"
  BY <1>1, <1>2, <1>3, <1>4 DEF Allowed, Calls, Refusals, Accepted, r
<1>5. CASE r.op = "chunked"
  BY <1>1, <1>2, <1>3, <1>5 DEF Allowed, Calls, Refusals, Accepted, r
<1>6. CASE r.op \notin {"malformed", "chunked"} /\ r.length > MaxTransfer
  <2>1. r.op # "malformed" /\ r.op # "chunked" /\ ~(r.length <= MaxTransfer)
    BY <1>1, <1>3, <1>6
  <2>2. 413 \in Allowed(r)
    BY <1>6, <2>1 DEF Allowed, Calls, Refusals
  <2>3. r.head > HeaderLimit => 431 \in Allowed(r)
    BY DEF Allowed, Calls, Refusals
  <2> QED
    BY <2>1, <2>2, <2>3 DEF Accepted, r
<1>7. CASE r.op \notin {"malformed", "chunked"} /\ r.length <= MaxTransfer
  <2>1. r.op \in {"upload", "post", "get", "other"} /\ ~(r.length > MaxTransfer)
    BY <1>1, <1>3, <1>7
  <2>2. r.op # "malformed" /\ r.op # "chunked"
    BY <1>7
  <2>3. CASE r.op = "other"
    BY <1>2, <2>1, <2>2, <2>3 DEF Allowed, Calls, Refusals, Accepted, r
  <2>4. CASE r.op # "other" /\ r.path = Unsafe
    BY <1>2, <2>1, <2>2, <2>4 DEF Allowed, Calls, Refusals, Accepted, r
  <2>5. CASE r.op = "upload" /\ r.path # Unsafe
    BY <1>2, <2>1, <2>2, <2>5 DEF Allowed, Calls, Refusals, Accepted, r
  <2>6. CASE r.op = "post" /\ r.path # Unsafe
    BY <1>1, <1>2, <2>1, <2>2, <2>6 DEF Allowed, Calls, Refusals, Accepted, r
  <2>7. CASE r.op = "get" /\ r.path # Unsafe
    BY <1>1, <1>2, <2>1, <2>2, <2>7 DEF Allowed, Calls, Refusals, Accepted, r
  <2> QED
    BY <2>1, <2>3, <2>4, <2>5, <2>6, <2>7
<1> QED
  BY <1>1, <1>3, <1>4, <1>5, <1>6, <1>7

LEMMA Fails ==
    ASSUME NEW c, Asks(c), NEW s \in ConnState, NEW code \in Code \cap Allowed(req[c]),
           failConnection(c, s, code)
    PROVE  Ended(c) /\ answers'[c] = <<code>>
<1> DEFINE t == closeUpload([s EXCEPT !.closed = TRUE])
<1>1. t \in ConnState /\ t.closed /\ t.uploadFile = None
  BY DEF closeUpload, ConnState
<1>2. /\ state' = [state EXCEPT ![c] = t] /\ Respond(c, code) /\ UNCHANGED <<download, socket, accessed>>
  BY DEF failConnection
<1> HIDE DEF t
<1>3. Replied(c, code) /\ answers'[c] = <<code>>
  BY <1>2, Responds DEF Replied
<1>4. accessed' \subseteq limited
  BY <1>2 DEF Asks, TypeOK
<1> QED
  BY <1>1, <1>2, <1>3, <1>4 DEF Ended, Handled

\* An answer, and its socket left alone or closed under it.
LEMMA AnswerHandled ==
    ASSUME NEW c, Asks(c), NEW code \in Code \cap Allowed(req[c]), Respond(c, code), UNCHANGED <<download, accessed>>,
           socket' = socket \/ socket' = [socket EXCEPT ![c] = "closed"]
    PROVE  Handled(c)
<1>1. Replied(c, code)
  BY Responds DEF Replied
<1>2. accessed' \subseteq limited
  BY DEF Asks, TypeOK
<1> QED
  BY <1>1, <1>2 DEF Handled

LEMMA SendHandled ==
    ASSUME NEW c, Asks(c), Accepted(c), req[c].op \in {"get", "post"}, req[c].path \in File,
           NEW d, d[req[c].path] \in Content, disk' = d, sendFileAsync(c, req[c].path, d)
    PROVE  Handled(c)
<1> DEFINE f == req[c].path
<1>1. {200, 413, 429, 500} \subseteq Code \cap Allowed(req[c])
  BY AllowedFacts DEF Asks, Code
<1>2. Len(d[f]) \in Nat
  BY DEF Content
<1>3. UNCHANGED accessed
  BY DEF sendFileAsync
<1>4. CASE Respond(c, 429) /\ UNCHANGED <<download, socket>>
  BY <1>1, <1>3, <1>4, AnswerHandled
<1>5. CASE /\ \E code \in {500} \cup (IF Len(d[f]) > MaxTransfer THEN {413} ELSE {}) : Respond(c, code)
           /\ socket' = [socket EXCEPT ![c] = "closed"] /\ UNCHANGED download
  <2>1. PICK code \in {413, 500} : Respond(c, code)
    BY <1>5
  <2>2. code \in Code \cap Allowed(req[c])
    BY <1>1
  <2>3. UNCHANGED <<download, accessed>> /\ socket' = [socket EXCEPT ![c] = "closed"]
    BY <1>3, <1>5
  <2> QED
    BY ONLY Asks(c), <2>1, <2>2, <2>3, AnswerHandled
<1>6. CASE /\ download' = [download EXCEPT ![c] =
                [file |-> f, total |-> Len(d[f]), sent |-> 0, pending |-> 0, counts |-> f \in limited]]
           /\ UNCHANGED <<answers, reply, socket>>
  <2>1. \E counts \in BOOLEAN : download' = [download EXCEPT ![c] =
            [file |-> f, total |-> Len(d[f]), sent |-> 0, pending |-> 0, counts |-> counts]]
    <3> HIDE DEF f
    <3> WITNESS (f \in limited) \in BOOLEAN
    <3> QED
      BY <1>6, Zenon
  <2>2. {200, 500} \subseteq Allowed(req[c]) /\ disk'[f] \in Content
    BY <1>1
  <2>3. Started(c, Len(d[f]))
    BY <1>6, <2>1, <2>2 DEF Started
  <2>4. accessed' \subseteq limited
    BY <1>3 DEF Asks, TypeOK
  <2> QED
    BY <1>2, <1>6, <2>3, <2>4 DEF Handled
<1> QED
  BY <1>4, <1>5, <1>6 DEF sendFileAsync

LEMMA Finishes ==
    ASSUME NEW c, Asks(c), Accepted(c), NEW s \in ConnState,
           s.uploadFile # None => req[c].op = "upload" /\ req[c].path \in File,
           NEW d \in [File -> Content \cup {None}], disk' = d, finishRequest(c, s, d)
    PROVE  Ended(c) /\ (req[c].op = "upload" => s.uploadFile # None)
<1> DEFINE r == req[c]
<1>0. /\ r.op \in {"upload", "post", "get", "other", "malformed", "chunked"}
      /\ r.path \in Path /\ Path = File \cup {Dir, Unsafe} /\ Unsafe \notin File /\ Dir \notin File /\ Dir # Unsafe
      /\ None \notin Content
  BY RequestFacts, NameAssumption DEF Asks, Path, Content
<1>1. Finished(s) \in ConnState /\ Finished(s).closed /\ Finished(s).uploadFile = None
  BY DEF Finished, closeUpload, ConnState
<1>2. state' = [state EXCEPT ![c] = Finished(s)]
  BY DEF finishRequest
<1>3. CASE s.uploadFile # None
  <2>1. Respond(c, 200) /\ UNCHANGED <<download, socket>> /\ recordAccess(s.uploadFile)
    BY <1>3 DEF finishRequest
  <2>2. 200 \in Code \cap Allowed(r)
    BY <1>0, <1>3, AllowedFacts DEF Asks, Code
  <2>3. Replied(c, 200)
    BY <2>1, <2>2, Responds DEF Replied
  <2>4. accessed' \subseteq limited
    BY <2>1 DEF recordAccess, Asks, TypeOK
  <2>5. Handled(c)
    BY <2>1, <2>2, <2>3, <2>4 DEF Handled
  <2> QED
    BY <1>1, <1>2, <1>3, <2>5 DEF Ended
<1>4. CASE s.uploadFile = None
  <2>1. \/ r.op = "post" /\ handlePostRequest(c, r.path, d)
        \/ r.op = "get" /\ handleGetRequest(c, r.path, d)
        \/ r.op = "other" /\ Answer(c, 405)
    BY <1>4 DEF finishRequest
  <2>2. ASSUME NEW code \in Code \cap Allowed(r), Answer(c, code)
        PROVE  Handled(c)
    BY <2>2, AnswerHandled DEF Answer
  <2>3. ASSUME isFile(r.path, d), sendFileAsync(c, r.path, d), r.op \in {"get", "post"}
        PROVE  Handled(c)
    <3>1. r.path \in File /\ d[r.path] \in Content
      BY <2>3 DEF isFile
    <3> QED
      BY <2>3, <3>1, SendHandled
  <2>4. Handled(c)
    <3>1. CASE r.op = "post" /\ handlePostRequest(c, r.path, d)
      <4>1. r.path = Unsafe => 403 \in Code \cap Allowed(r)
        BY <3>1, AllowedFacts DEF Asks, Code
      <4>2. r.path # Unsafe => 200 \in Code \cap Allowed(r)
        BY <3>1, AllowedFacts DEF Asks, Code
      <4> QED
        BY <2>2, <2>3, <3>1, <4>1, <4>2 DEF handlePostRequest
    <3>2. CASE r.op = "get" /\ handleGetRequest(c, r.path, d)
      <4>1. r.path = Unsafe => 403 \in Code \cap Allowed(r)
        BY <3>2, AllowedFacts DEF Asks, Code
      <4>2. r.path \in File => 404 \in Code \cap Allowed(r) /\ 500 \in Code \cap Allowed(r)
        BY <3>2, AllowedFacts DEF Asks, Code
      <4>3. r.path = Dir => 200 \in Code \cap Allowed(r) /\ 500 \in Code \cap Allowed(r)
        BY <3>2, AllowedFacts DEF Asks, Code
      <4>4. isFile(r.path, d) => r.path \in File
        BY DEF isFile
      <4> QED
        BY <1>0, <2>2, <2>3, <3>2, <4>1, <4>2, <4>3, <4>4 DEF handleGetRequest, handleDirectoryListing
    <3>3. CASE r.op = "other" /\ Answer(c, 405)
      <4>1. 405 \in Code \cap Allowed(r)
        BY <3>3, AllowedFacts DEF Asks, Code
      <4> QED
        BY <2>2, <3>3, <4>1
    <3> QED
      BY <2>1, <3>1, <3>2, <3>3
  <2> QED
    BY <1>1, <1>2, <2>1, <2>4 DEF Ended
<1> QED
  BY <1>3, <1>4

\* c takes n units of its body: the files are d, its place p, its state s.
Body(c, s, d, p, n) ==
    LET r == req[c]
    IN  /\ Asks(c) /\ Accepted(c) /\ s \in ConnState /\ ~s.closed /\ s.meta /\ s.headerLength >= r.head
        /\ n \in Nat /\ p \in Nat /\ p = s.bodyReceived /\ (p < r.length \/ p = 0)
        /\ s.bodyReceived + n <= r.body
        /\ s.uploadFile # None => /\ r.op = "upload" /\ s.uploadFile = r.path /\ d[r.path] \in Content
        /\ Keeps(c, disk, d, p)

\* What c writes at its place it wrote last.
LEMMA BodyWrites ==
    ASSUME NEW c, NEW s, NEW d, NEW p, NEW n, Body(c, s, d, p, n), s.uploadFile # None,
           NEW u \in Nat
    PROVE  LET r == req[c]
               e == [d EXCEPT ![s.uploadFile] = Write(@, c, p, u)]
           IN  Keeps(c, disk, e, p + u) /\ e[r.path] \in Content /\ Whole(c, e, p + u)
<1> DEFINE f == s.uploadFile
           w == Write(d[f], c, p, u)
           e == [d EXCEPT ![f] = w]
<1>1. f \in File /\ f = req[c].path /\ d[f] \in Content /\ p \in Nat /\ c \in Conn
  BY DEF Body, ConnState, Asks
<1>2. /\ d \in [File -> Content \cup {None}]
      /\ \A g \in File :
           /\ disk[g] \in Content => d[g] \in Content
           /\ d[g] \in Content => \A i \in DOMAIN d[g] :
                 /\ d[g][i] = c => i <= p
                 /\ d[g][i] \in Conn \ {c} => disk[g] \in Content /\ i \in DOMAIN disk[g] /\ disk[g][i] = d[g][i]
  BY DEF Body, Keeps
<1>3. /\ w \in Content /\ DOMAIN w = 1..Len(w)
      /\ Len(w) = IF p + u > Len(d[f]) THEN p + u ELSE Len(d[f])
      /\ \A i \in DOMAIN w : \/ w[i] = c /\ i \in (p + 1)..(p + u)
                             \/ w[i] = Hole
                             \/ i \in DOMAIN d[f] /\ w[i] = d[f][i]
  BY <1>1, WriteFacts
<1> HIDE DEF w, f
<1>4. e \in [File -> Content \cup {None}] /\ e[f] = w /\ \A g \in File : g # f => e[g] = d[g]
  BY <1>1, <1>2, <1>3
<1> HIDE DEF e
<1>5. Hole \notin Conn
  BY NameAssumption
<1>6. \A i \in DOMAIN w : w[i] = c => i <= p + u
  <2> SUFFICES ASSUME NEW i \in DOMAIN w, w[i] = c
               PROVE  i <= p + u
    OBVIOUS
  <2>1. i \in Nat
    BY <1>3
  <2>2. CASE i \in (p + 1)..(p + u)
    BY <1>1, <2>2
  <2>3. CASE i \in DOMAIN d[f] /\ w[i] = d[f][i]
    <3>1. i <= p
      BY <1>1, <1>2, <2>3
    <3> QED
      BY <1>1, <2>1, <3>1
  <2> QED
    BY <1>1, <1>3, <1>5, <2>2, <2>3
<1>7. Keeps(c, disk, e, p + u)
  <2> SUFFICES ASSUME NEW g \in File
               PROVE  /\ disk[g] \in Content => e[g] \in Content
                      /\ e[g] \in Content => \A i \in DOMAIN e[g] :
                           /\ e[g][i] = c => i <= p + u
                           /\ e[g][i] \in Conn \ {c} => /\ disk[g] \in Content /\ i \in DOMAIN disk[g]
                                                        /\ disk[g][i] = e[g][i]
    BY <1>4 DEF Keeps
  <2>1. CASE g = f
    <3>1. \A i \in DOMAIN w : w[i] \in Conn \ {c} => /\ disk[g] \in Content /\ i \in DOMAIN disk[g]
                                                     /\ disk[g][i] = w[i]
      BY <1>1, <1>2, <1>3, <1>5, <2>1
    <3> QED
      BY <1>3, <1>4, <1>6, <2>1, <3>1
  <2>2. CASE g # f
    <3>1. d[g] \in Content => \A i \in DOMAIN d[g] : i \in Nat
      BY DEF Content
    <3> QED
      BY <1>1, <1>2, <1>4, <2>2, <3>1
  <2> QED
    BY <2>1, <2>2
<1>8. (\A i \in 1..Len(w) : w[i] = c) => Len(w) = p + u
  <2> SUFFICES ASSUME \A i \in 1..Len(w) : w[i] = c
               PROVE  Len(w) = p + u
    OBVIOUS
  <2>1. Len(d[f]) \in Nat /\ Len(w) \in Nat /\ Len(w) >= p + u
    BY <1>1, <1>3 DEF Content
  <2>2. CASE Len(w) > 0
    <3>1. w[Len(w)] = c /\ Len(w) \in DOMAIN w
      BY <1>3, <2>1, <2>2
    <3> QED
      BY <1>1, <1>6, <2>1, <3>1
  <2> QED
    BY <1>1, <2>1, <2>2
<1> QED
  BY <1>1, <1>3, <1>4, <1>7, <1>8 DEF Whole, e, w, f

LEMMA Bodies ==
    ASSUME NEW c, NEW s, NEW d, NEW p, NEW n, Body(c, s, d, p, n), onBody(c, s, d, p, n)
    PROVE  Result(c)
<1> DEFINE r == req[c]
           u == Usable(s, r, n)
           s1 == [s EXCEPT !.bodyReceived = @ + n]
           s2 == IF s.uploadFile = None /\ u > 0 THEN Echo(s1, u) ELSE s1
           d2 == IF s.uploadFile = None THEN d ELSE [d EXCEPT ![s.uploadFile] = Write(@, c, p, u)]
           q == p + u
<1>0. /\ Asks(c) /\ Accepted(c) /\ s \in ConnState /\ ~s.closed /\ s.meta /\ s.headerLength >= r.head
      /\ n \in Nat /\ p \in Nat /\ p = s.bodyReceived /\ (p < r.length \/ p = 0) /\ p + n <= r.body
      /\ s.uploadFile # None => r.op = "upload" /\ s.uploadFile = r.path
      /\ r.length \in Nat /\ r.body \in Nat /\ MaxTransfer \in Nat /\ req[c] \in Request
      /\ Keeps(c, disk, d, p) /\ pointer \in [Conn -> Nat]
  BY RequestFacts, LimitAssumption DEF Body, Asks, TypeOK
<1>1. u \in Nat /\ q \in Nat /\ (p + n < r.length => q = p + n) /\ (p + n >= r.length => q = r.length)
  BY <1>0 DEF Usable, Least, ConnState
<1>2. /\ s1 \in ConnState /\ s1.bodyReceived = p + n /\ s1.uploadFile = s.uploadFile
      /\ ~s1.closed /\ s1.meta /\ s1.headerLength >= r.head
  BY <1>0 DEF ConnState
<1> HIDE DEF u, s1
<1>3. /\ s2 \in ConnState /\ s2.bodyReceived = p + n /\ s2.uploadFile = s.uploadFile
      /\ ~s2.closed /\ s2.meta /\ s2.headerLength >= r.head
  <2> DEFINE take == Least(EchoLimit - s1.echoLength, u)
  <2>1. CASE s.uploadFile = None /\ u > 0
    <3> DEFINE b == s1.echoOverflow \/ take < u
               l == s1.echoLength + take
    <3>1. s2 = [s1 EXCEPT !.echoLength = l, !.echoOverflow = b]
      BY <2>1 DEF Echo
    <3>2. b \in BOOLEAN
      OBVIOUS
    <3>3. l \in Nat
      BY <1>1, <1>2, LimitAssumption DEF Least, ConnState
    <3> HIDE DEF b, l
    <3> QED
      BY <1>2, <3>1, <3>2, <3>3 DEF ConnState
  <2> QED
    BY <1>2, <2>1
<1>4. /\ Keeps(c, disk, d2, q)
      /\ s.uploadFile # None =>
            /\ d2[r.path] \in Content
            /\ Whole(c, d2, q)
  <2>1. CASE s.uploadFile = None
    <3>1. \A f \in File : d[f] \in Content => \A i \in DOMAIN d[f] : i \in Nat
      BY DEF Content
    <3> QED
      BY <1>0, <1>1, <2>1, <3>1 DEF Keeps
  <2>2. CASE s.uploadFile # None
    BY <1>0, <1>1, <2>2, BodyWrites
  <2> QED
    BY <2>1, <2>2
<1> HIDE DEF s2, d2, q
<1>5. \/ /\ s1.bodyReceived > MaxTransfer
         /\ failConnection(c, s1, 413) /\ disk' = d /\ pointer' = [pointer EXCEPT ![c] = p]
      \/ /\ s1.bodyReceived <= MaxTransfer /\ s.uploadFile # None /\ u > 0
         /\ failConnection(c, s1, 500) /\ disk' = d /\ pointer' = [pointer EXCEPT ![c] = p]
      \/ /\ s1.bodyReceived <= MaxTransfer
         /\ disk' = d2 /\ pointer' = [pointer EXCEPT ![c] = p + u]
         /\ IF BodyComplete(s1, r) THEN finishRequest(c, s2, d2) ELSE Wait(c, s2)
  BY DEF onBody, u, s1, s2, d2
<1>6. ASSUME NEW code \in {413, 500}, code \in Allowed(r), failConnection(c, s1, code),
             disk' = d, pointer' = [pointer EXCEPT ![c] = p]
      PROVE  Result(c)
  <2>1. Ended(c) /\ answers'[c] = <<code>>
    BY <1>0, <1>2, <1>6, Fails DEF Code
  <2>2. <<code>> # <<200>>
    <3>1. <<code>>[1] = code /\ <<200>>[1] = 200
      OBVIOUS
    <3> QED
      BY <3>1
  <2> QED
    BY <1>0, <1>6, <2>1, <2>2 DEF Result, Exact
<1>7. CASE s1.bodyReceived > MaxTransfer /\ failConnection(c, s1, 413) /\ disk' = d /\ pointer' = [pointer EXCEPT ![c] = p]
  <2>1. 413 \in Allowed(r)
    BY <1>0, <1>2, <1>7, AllowedFacts
  <2> QED
    BY <1>6, <1>7, <2>1
<1>8. CASE s.uploadFile # None /\ failConnection(c, s1, 500) /\ disk' = d /\ pointer' = [pointer EXCEPT ![c] = p]
  <2>1. r.path # Unsafe
    BY <1>0, <1>8, NameAssumption DEF ConnState
  <2>2. 500 \in Allowed(r)
    BY <1>0, <1>8, <2>1, AllowedFacts
  <2> QED
    BY <1>6, <1>8, <2>2
<1>9. CASE /\ disk' = d2 /\ pointer' = [pointer EXCEPT ![c] = q]
           /\ IF BodyComplete(s1, r) THEN finishRequest(c, s2, d2) ELSE Wait(c, s2)
  <2>1. CASE BodyComplete(s1, r)
    <3>1. p + n >= r.length /\ q = r.length
      BY <1>0, <1>1, <1>2, <2>1 DEF BodyComplete, q
    <3>2. d2 \in [File -> Content \cup {None}]
      BY <1>4 DEF Keeps
    <3>3. finishRequest(c, s2, d2)
      BY <1>9, <2>1
    <3>4. s2.uploadFile # None => req[c].op = "upload" /\ req[c].path \in File
      BY <1>0, <1>3 DEF ConnState
    <3>5. Ended(c) /\ (r.op = "upload" => s2.uploadFile # None)
      BY <1>0, <1>3, <1>9, <3>2, <3>3, <3>4, Finishes
    <3>6. Exact(c)
      <4> SUFFICES ASSUME r.op = "upload"
                   PROVE  Whole(c, d2, r.length)
        BY <1>9 DEF Exact
      <4>1. s.uploadFile # None
        BY <1>3, <3>5
      <4> QED
        BY <1>4, <3>1, <4>1
    <3> QED
      BY <1>1, <1>4, <1>9, <3>5, <3>6 DEF Result
  <2>2. CASE ~BodyComplete(s1, r)
    <3>1. p + n < r.length /\ q = p + n
      BY <1>0, <1>1, <1>2, <2>2 DEF BodyComplete, q
    <3>2. Wait(c, s2)
      BY <1>9, <2>2
    <3>3. Ready(c, s2, q)
      BY <1>0, <1>3, <1>4, <1>9, <3>1 DEF Ready, Accepted
    <3>4. Exact(c)
      <4>1. answers'[c] = <<>>
        BY <1>0, <3>2 DEF Wait, Asks
      <4>2. <<>> # <<200>>
        OBVIOUS
      <4> QED
        BY <4>1, <4>2 DEF Exact
    <3> QED
      BY <1>1, <1>4, <1>9, <3>2, <3>3, <3>4 DEF Result
  <2> QED
    BY <2>1, <2>2
<1> QED
  BY <1>5, <1>7, <1>8, <1>9 DEF q

LEMMA Leftovers ==
    ASSUME NEW c, NEW s, NEW d, NEW n, Body(c, s, d, 0, n), Leftover(c, s, d, n)
    PROVE  Result(c)
<1>0. n \in Nat /\ req[c].length \in Nat
  BY RequestFacts DEF Body, Asks
<1>1. CASE n > 0
  BY <1>1, Bodies DEF Leftover
<1>2. CASE n = 0
  <2>1. /\ disk' = d /\ pointer' = [pointer EXCEPT ![c] = 0]
        /\ IF req[c].length = 0 THEN finishRequest(c, s, d) ELSE Wait(c, s)
    BY <1>2 DEF Leftover
  <2>2. /\ Asks(c) /\ Accepted(c) /\ s \in ConnState /\ ~s.closed /\ s.meta /\ s.headerLength >= req[c].head
        /\ s.bodyReceived = 0 /\ Keeps(c, disk, d, 0) /\ d \in [File -> Content \cup {None}]
        /\ s.uploadFile # None => /\ req[c].op = "upload" /\ s.uploadFile = req[c].path
                                  /\ d[req[c].path] \in Content /\ req[c].path \in File
    BY DEF Body, Keeps, ConnState
  <2>3. CASE req[c].length = 0
    <3>1. Ended(c) /\ (req[c].op = "upload" => s.uploadFile # None)
      BY <2>1, <2>2, <2>3, Finishes
    <3>2. Exact(c)
      <4> SUFFICES ASSUME req[c].op = "upload"
                   PROVE  Whole(c, d, 0)
        BY <2>1, <2>3 DEF Exact
      <4> DEFINE w == d[req[c].path]
      <4>1. w \in Content /\ \A i \in DOMAIN w : w[i] = c => i <= 0
        BY <2>2, <3>1 DEF Keeps
      <4>2. Len(w) \in Nat /\ DOMAIN w = 1..Len(w)
        BY <4>1 DEF Content
      <4> HIDE DEF w
      <4>3. (\A i \in 1..Len(w) : w[i] = c) => Len(w) = 0
        <5> SUFFICES ASSUME \A i \in 1..Len(w) : w[i] = c, Len(w) # 0
                     PROVE  FALSE
          OBVIOUS
        <5>1. Len(w) \in 1..Len(w)
          BY <4>2
        <5> QED
          BY <4>1, <4>2, <5>1
      <4> QED
        BY <4>3 DEF Whole, w
    <3>3. Keeps(c, disk, disk', 0) /\ 0 \in Nat
      BY <2>1, <2>2
    <3> QED
      BY <2>1, <3>1, <3>2, <3>3 DEF Result
  <2>4. CASE req[c].length # 0
    <3>1. Ready(c, s, 0)
      BY <1>0, <2>1, <2>2, <2>4 DEF Ready, Accepted
    <3>2. Wait(c, s)
      BY <2>1, <2>4
    <3>3. Exact(c)
      <4>1. answers'[c] = <<>> /\ <<>> # <<200>>
        BY <2>2, <3>2 DEF Wait, Asks
      <4> QED
        BY <4>1 DEF Exact
    <3>4. Keeps(c, disk, disk', 0) /\ 0 \in Nat
      BY <2>1, <2>2
    <3> QED
      BY <2>1, <3>1, <3>2, <3>3, <3>4 DEF Result
  <2> QED
    BY <2>3, <2>4
<1> QED
  BY <1>0, <1>1, <1>2

\* The request is refused before anything is written.
LEMMA Refused ==
    ASSUME NEW c, Asks(c), Keeps(c, disk, disk, pointer[c]), NEW s \in ConnState,
           NEW code \in Code \cap Allowed(req[c]),
           code # 200, failConnection(c, s, code), UNCHANGED <<disk, pointer>>
    PROVE  Result(c)
<1>1. Ended(c) /\ answers'[c] = <<code>>
  BY Fails
<1>2. Exact(c)
  <2>1. <<code>>[1] = code /\ <<200>>[1] = 200
    OBVIOUS
  <2> QED
    BY <1>1, <2>1 DEF Exact
<1>3. pointer[c] \in Nat /\ pointer' = [pointer EXCEPT ![c] = pointer[c]]
  BY DEF Asks, TypeOK
<1> QED
  BY <1>1, <1>2, <1>3 DEF Result

LEMMA Headers ==
    ASSUME NEW c, Asks(c), NEW s \in ConnState, ~s.closed, s.headerLength >= req[c].head,
           s.bodyReceived = 0, s.uploadFile = None,
           pointer[c] = 0, Keeps(c, disk, disk, 0), NEW n \in Nat, n <= req[c].body, onHeader(c, s, n)
    PROVE  Result(c)
<1> DEFINE r == req[c]
           s1 == [s EXCEPT !.meta = TRUE]
           d1 == [disk EXCEPT ![r.path] = <<>>]
<1>0. /\ r.op \in {"upload", "post", "get", "other", "malformed", "chunked"}
      /\ r \in Request /\ r.length \in Nat /\ r.body \in Nat /\ MaxTransfer \in Nat
      /\ disk \in [File -> Content \cup {None}]
  BY RequestFacts, LimitAssumption DEF Asks, TypeOK, Content
<1>1. /\ s1 \in ConnState /\ ~s1.closed /\ s1.meta /\ s1.headerLength >= r.head
      /\ s1.bodyReceived = 0 /\ s1.uploadFile = None
  BY DEF ConnState
<1>2. \/ parseRequestMeta(r) # 0 /\ failConnection(c, s, parseRequestMeta(r)) /\ UNCHANGED <<disk, pointer>>
      \/ /\ parseRequestMeta(r) = 0 /\ r.length > MaxTransfer
         /\ failConnection(c, s1, 413) /\ UNCHANGED <<disk, pointer>>
      \/ /\ r.op = "upload" /\ r.length <= MaxTransfer
         /\ failConnection(c, s1, UploadRefusal(r)) /\ UNCHANGED <<disk, pointer>>
      \/ /\ r.op = "upload" /\ r.length <= MaxTransfer
         /\ r.path \in File /\ Leftover(c, prepareUpload(s1, r), d1, n)
      \/ r.op \in {"post", "get", "other"} /\ r.length <= MaxTransfer /\ Leftover(c, s1, disk, n)
  BY DEF onHeader
<1>3. CASE parseRequestMeta(r) # 0 /\ failConnection(c, s, parseRequestMeta(r)) /\ UNCHANGED <<disk, pointer>>
  <2>1. parseRequestMeta(r) \in {400, 411} /\ parseRequestMeta(r) \in Allowed(r)
    BY <1>0, <1>3, AllowedFacts DEF parseRequestMeta
  <2> QED
    BY <1>3, <2>1, Refused DEF Code
<1>4. CASE /\ parseRequestMeta(r) = 0 /\ r.length > MaxTransfer
           /\ failConnection(c, s1, 413) /\ UNCHANGED <<disk, pointer>>
  <2>1. r.op \notin {"malformed", "chunked"}
    BY <1>4 DEF parseRequestMeta
  <2>2. 413 \in Allowed(r)
    BY <1>0, <1>4, <2>1, AllowedFacts
  <2> HIDE DEF s1
  <2> QED
    BY <1>1, <1>4, <2>2, Refused DEF Code
<1>5. CASE /\ r.op = "upload" /\ r.length <= MaxTransfer
           /\ failConnection(c, s1, UploadRefusal(r)) /\ UNCHANGED <<disk, pointer>>
  <2>1. UploadRefusal(r) \in {403, 500} /\ UploadRefusal(r) \in Allowed(r)
    BY <1>0, <1>5, AllowedFacts DEF UploadRefusal, Accepted
  <2> HIDE DEF s1
  <2> QED
    BY <1>1, <1>5, <2>1, Refused DEF Code
<1>6. CASE /\ r.op = "upload" /\ r.length <= MaxTransfer
           /\ r.path \in File /\ Leftover(c, prepareUpload(s1, r), d1, n)
  <2> DEFINE s2 == prepareUpload(s1, r)
  <2>1. /\ s2 \in ConnState /\ ~s2.closed /\ s2.meta /\ s2.headerLength >= r.head
        /\ s2.bodyReceived = 0 /\ s2.uploadFile = r.path
    BY <1>1, <1>6 DEF prepareUpload, ConnState
  <2>2. <<>> \in Content /\ DOMAIN <<>> = {}
    BY DEF Content
  <2>3. /\ d1 \in [File -> Content \cup {None}] /\ d1[r.path] = <<>>
        /\ \A f \in File : f # r.path => d1[f] = disk[f]
    BY <1>0, <1>6, <2>2
  <2>4. \A f \in File : d1[f] \in Content => \A i \in DOMAIN d1[f] : f # r.path
    BY <2>2, <2>3
  <2> HIDE DEF s2, d1
  <2>5. Keeps(c, disk, d1, 0)
    BY <2>2, <2>3, <2>4 DEF Keeps
  <2>6. Body(c, s2, d1, 0, n)
    BY <1>0, <1>6, <2>1, <2>2, <2>3, <2>5 DEF Body, Accepted
  <2> QED
    BY <1>6, <2>6, Leftovers DEF s2
<1>7. CASE r.op \in {"post", "get", "other"} /\ r.length <= MaxTransfer /\ Leftover(c, s1, disk, n)
  <2> HIDE DEF s1
  <2>1. Body(c, s1, disk, 0, n)
    BY <1>0, <1>1, <1>7 DEF Body, Accepted
  <2> QED
    BY <1>7, <2>1, Leftovers
<1> QED
  BY <1>2, <1>3, <1>4, <1>5, <1>6, <1>7

\* Every segment leaves its connection in order, and other connections alone.
LEMMA Segments ==
    ASSUME IInv, NEW c \in Conn, onData(c)
    PROVE  Asks(c) /\ Result(c)
<1> DEFINE s == state[c]
           r == req[c]
<1>0. /\ TypeOK /\ Known(c) /\ Underway(c) /\ socket[c] = "open" /\ ~s.closed
      /\ s \in ConnState /\ pointer[c] \in Nat
  BY DEF IInv, TypeOK, Known, onData
<1>1. Asks(c)
  BY <1>0 DEF Asks, Known, Underway
<1>2. r.head \in Nat \ {0} /\ r.grows \in Nat /\ r.length \in Nat /\ r.body \in Nat /\ s.headerLength \in Nat /\ s.bodyReceived \in Nat
  BY <1>0, <1>1, RequestFacts DEF Asks, ConnState
<1>3. PICK k \in 1..(req[c].head + req[c].body - Arrived(c)) :
          IF state[c].meta THEN onBody(c, state[c], disk, pointer[c], k)
          ELSE IF state[c].headerLength + k >= req[c].head
          THEN LET n    == state[c].headerLength + k - req[c].head
                   skip == Skipped(req[c], n)
               IN  onHeader(c, [state[c] EXCEPT !.headerLength = req[c].head + skip], n - skip)
          ELSE /\ IF state[c].headerLength + k > HeaderLimit THEN failConnection(c, state[c], 431)
                  ELSE Wait(c, [state[c] EXCEPT !.headerLength = @ + k])
               /\ UNCHANGED <<disk, pointer>>
  BY DEF onData
<1>4. k \in Nat \ {0} /\ s.headerLength + s.bodyReceived + k <= r.head + r.body
  BY <1>2, <1>3 DEF Arrived
<1>5. Keeps(c, disk, disk, pointer[c])
  BY <1>0 DEF Keeps, Known, Wrote, TypeOK, Content
<1>6. CASE s.meta
  <2>1. /\ s.headerLength >= r.head /\ r.op \notin {"malformed", "chunked"}
        /\ r.length <= MaxTransfer /\ pointer[c] = s.bodyReceived /\ s.bodyReceived < r.length
        /\ s.uploadFile # None => /\ r.op = "upload" /\ s.uploadFile = r.path /\ disk[r.path] \in Content
    BY <1>0, <1>6 DEF Underway
  <2>2. Body(c, s, disk, pointer[c], k)
    BY <1>0, <1>1, <1>2, <1>4, <1>5, <1>6, <2>1 DEF Body, Accepted
  <2>3. onBody(c, s, disk, pointer[c], k)
    BY <1>3, <1>6
  <2> HIDE DEF s
  <2> QED
    BY <1>1, <2>2, <2>3, Bodies
<1>7. CASE ~s.meta
  <2>0. pointer[c] = 0 /\ s.bodyReceived = 0 /\ s.uploadFile = None
    BY <1>0, <1>7 DEF Underway
  <2>1. CASE s.headerLength + k >= r.head
    <3> DEFINE m == s.headerLength + k - r.head
               skip == Skipped(r, m)
               t == [s EXCEPT !.headerLength = r.head + skip]
               n == m - skip
    <3>1. onHeader(c, t, n)
      BY <1>3, <1>7, <2>1
    <3>2. m \in Nat /\ m <= r.body
      BY <1>2, <1>4, <2>0, <2>1
    <3> HIDE DEF m
    <3>3. skip \in Nat /\ skip <= m
      BY <1>2, <3>2 DEF Skipped, Least
    <3> HIDE DEF skip
    <3>4. /\ t \in ConnState /\ ~t.closed /\ t.headerLength >= r.head
          /\ t.bodyReceived = 0 /\ t.uploadFile = None
      BY <1>0, <1>2, <2>0, <3>3 DEF ConnState
    <3>5. n \in Nat /\ n <= r.body
      BY <1>2, <3>2, <3>3
    <3> HIDE DEF t, n, s
    <3> QED
      BY <1>1, <1>5, <2>0, <3>1, <3>4, <3>5, Headers
  <2>2. CASE ~(s.headerLength + k >= r.head) /\ s.headerLength + k > HeaderLimit
    <3>1. failConnection(c, s, 431) /\ UNCHANGED <<disk, pointer>>
      BY <1>3, <1>7, <2>2
    <3>2. 431 \in Allowed(r)
      <4>1. r.head > HeaderLimit
        BY <1>2, <1>4, <2>2, LimitAssumption
      <4> QED
        BY <1>1, <4>1, AllowedFacts DEF Asks
    <3> HIDE DEF s
    <3> QED
      BY <1>0, <1>1, <1>5, <3>1, <3>2, Refused DEF Code
  <2>3. CASE ~(s.headerLength + k >= r.head) /\ ~(s.headerLength + k > HeaderLimit)
    <3> DEFINE t == [s EXCEPT !.headerLength = s.headerLength + k]
    <3>1. Wait(c, t) /\ UNCHANGED <<disk, pointer>>
      BY <1>3, <1>7, <2>3
    <3>2. t \in ConnState /\ ~t.closed /\ ~t.meta /\ t.bodyReceived = 0 /\ t.uploadFile = None
      BY <1>0, <1>2, <1>4, <1>7, <2>0 DEF ConnState
    <3> HIDE DEF t, s
    <3>3. Ready(c, t, 0)
      BY <3>2 DEF Ready
    <3>4. Exact(c)
      <4>1. answers'[c] = <<>> /\ <<>> # <<200>>
        BY <1>1, <3>1 DEF Wait, Asks
      <4> QED
        BY <4>1 DEF Exact
    <3>5. pointer' = [pointer EXCEPT ![c] = 0] /\ Keeps(c, disk, disk', 0)
      BY <1>0, <1>5, <2>0, <3>1 DEF TypeOK
    <3> QED
      BY <1>1, <3>1, <3>3, <3>4, <3>5 DEF Result
  <2> QED
    BY <2>1, <2>2, <2>3
<1> QED
  BY <1>1, <1>6, <1>7

(***************************************************************************)
(* The other steps, and the theorems.                                      *)
(***************************************************************************)
\* Nothing that is known of connection d changes.
Same(d) ==
    /\ req'[d] = req[d] /\ state'[d] = state[d] /\ pointer'[d] = pointer[d]
    /\ answers'[d] = answers[d] /\ reply'[d] = reply[d] /\ download'[d] = download[d]
    /\ ((socket'[d] = "new") <=> (socket[d] = "new"))
    /\ (socket'[d] = "closed" => socket[d] = "closed")

LEMMA SameKnown ==
    ASSUME NEW d, Known(d), Same(d), UNCHANGED disk
    PROVE  Known(d)'
<1>1. Underway(d)'
  BY DEF Underway, Known, Same
<1>2. Answered(d)'
  BY DEF Answered, Known, Same
<1>3. Wrote(d)'
  BY DEF Wrote, Known, Same
<1> QED
  BY <1>1, <1>2, <1>3 DEF Known, Same

LEMMA AcceptKeeps ==
    ASSUME IInv, NEW c \in Conn, Accept(c)
    PROVE  IInv'
<1>0. TypeOK /\ Known(c)
  BY DEF IInv
<1>1. PICK r \in Request : req' = [req EXCEPT ![c] = r]
  BY DEF Accept
<1>2. /\ socket[c] = "new" /\ socket' = [socket EXCEPT ![c] = "open"]
      /\ UNCHANGED <<state, pointer, disk, answers, reply, download, limited, accessed, served>>
  BY DEF Accept
<1>3. TypeOK'
  BY <1>0, <1>1, <1>2 DEF TypeOK
<1>4. \A d \in Conn \ {c} : Known(d)'
  BY <1>0, <1>1, <1>2, SameKnown DEF IInv, Same, TypeOK
<1>5. Known(c)'
  <2>1. state[c] = FreshState /\ Underway(c) /\ Answered(c) /\ Wrote(c)
    BY <1>0, <1>2 DEF Known
  <2>2. /\ answers[c] = <<>> /\ download[c] = None /\ reply[c] = "none" /\ pointer[c] = 0
    BY <2>1 DEF Underway, FreshState
  <2>3. req'[c] \in Request /\ socket'[c] # "new"
    BY <1>0, <1>1, <1>2 DEF TypeOK
  <2>4. Underway(c)' /\ Answered(c)'
    BY <1>2, <2>1, <2>2 DEF Underway, Answered, FreshState
  <2>5. Wrote(c)'
    BY <1>2, <2>1 DEF Wrote
  <2> QED
    BY <2>3, <2>4, <2>5 DEF Known
<1> QED
  BY <1>3, <1>4, <1>5 DEF IInv

LEMMA SegmentKeeps ==
    ASSUME IInv, NEW c \in Conn, onData(c)
    PROVE  IInv'
<1>1. Asks(c) /\ Result(c)
  BY Segments
<1>2. socket[c] = "open" /\ UNCHANGED <<req, limited, served>>
  BY DEF onData
<1> QED
  BY <1>1, <1>2, ResultKeeps

\* The sends of a response.
LEMMA ReplyKeeps ==
    ASSUME IInv, NEW c \in Conn, ReplySent(c) \/ ReplyFails(c)
    PROVE  IInv'
<1>0. TypeOK /\ Known(c)
  BY DEF IInv
<1>1. PICK r \in {"body", "sent", "lost"} : reply' = [reply EXCEPT ![c] = r]
  BY DEF ReplySent, ReplyFails
<1>2. /\ reply[c] \in {"head", "body"}
      /\ socket' = socket \/ socket' = [socket EXCEPT ![c] = "closed"]
      /\ UNCHANGED <<req, state, pointer, disk, answers, download, limited, accessed, served>>
  BY DEF ReplySent, ReplyFails
<1>3. TypeOK'
  BY <1>0, <1>1, <1>2 DEF TypeOK
<1>4. \A d \in Conn \ {c} : Known(d)'
  BY <1>0, <1>1, <1>2, SameKnown DEF IInv, Same, TypeOK
<1>5. Known(c)'
  <2>1. state[c].closed /\ download[c] = None /\ socket[c] # "new"
    BY <1>0, <1>2 DEF Known, Underway, Answered, FreshState
  <2>2. socket'[c] # "new" /\ req[c] \in Request
    BY <1>0, <1>2, <2>1 DEF TypeOK, Known
  <2>3. Underway(c)' /\ Answered(c)'
    BY <1>0, <1>2, <2>1 DEF Known, Underway, Answered
  <2>4. Wrote(c)'
    BY <1>0, <1>2 DEF Known, Wrote
  <2> QED
    BY <1>2, <2>2, <2>3, <2>4 DEF Known
<1> QED
  BY <1>3, <1>4, <1>5 DEF IInv

LEMMA LeaveKeeps ==
    ASSUME IInv, NEW c \in Conn, ClientLeaves(c)
    PROVE  IInv'
<1>1. /\ socket[c] = "open" /\ socket' = [socket EXCEPT ![c] = "gone"]
      /\ UNCHANGED <<req, state, pointer, disk, answers, reply, download, limited, accessed, served>>
  BY DEF ClientLeaves
<1>2. TypeOK'
  BY <1>1 DEF IInv, TypeOK
<1>3. \A d \in Conn : Known(d)'
  BY <1>1, SameKnown DEF IInv, Same, TypeOK
<1> QED
  BY <1>2, <1>3 DEF IInv

LEMMA LimitKeeps ==
    ASSUME IInv, NEW f \in File, LimitEnds(f) \/ \E on \in BOOLEAN : setRateLimit(f, on)
    PROVE  IInv'
<1>1. UNCHANGED <<req, state, pointer, disk, answers, reply, download, socket>>
  BY DEF LimitEnds, setRateLimit
<1>2. TypeOK'
  <2>1. /\ limited' \subseteq File /\ accessed' \subseteq limited' /\ served' \in [File -> Nat]
    <3>1. CASE LimitEnds(f)
      BY <3>1 DEF IInv, TypeOK, LimitEnds
    <3>2. ASSUME NEW on \in BOOLEAN, setRateLimit(f, on)
          PROVE  /\ limited' \subseteq File /\ accessed' \subseteq limited' /\ served' \in [File -> Nat]
      <4>1. CASE on = TRUE
        BY <3>2, <4>1 DEF IInv, TypeOK, setRateLimit
      <4>2. CASE on = FALSE
        BY <3>2, <4>2 DEF IInv, TypeOK, setRateLimit
      <4> QED
        BY <4>1, <4>2
    <3> QED
      BY <3>1, <3>2
  <2> QED
    BY <1>1, <2>1 DEF IInv, TypeOK
<1>3. \A d \in Conn : Known(d)'
  BY <1>1, SameKnown DEF IInv, Same
<1> QED
  BY <1>2, <1>3 DEF IInv

\* The download of c becomes e, its answers a, and its response and socket r
\* and k.
One(code) == <<code>>
More(c, a) == \/ a = answers[c]
              \/ download[c].pending = 0 /\ \E code \in {200, 500} : a = Append(answers[c], code)
Moves(c, e, a, r, k) ==
    /\ download' = [download EXCEPT ![c] = e] /\ answers' = [answers EXCEPT ![c] = a]
    /\ reply' = [reply EXCEPT ![c] = r] /\ socket' = [socket EXCEPT ![c] = k]

LEMMA OneFacts ==
    ASSUME NEW code \in Code
    PROVE  Append(<<>>, code) = One(code) /\ One(code) \in Seq(Code) /\ Len(One(code)) = 1 /\ One(code)[1] = code
  BY DEF One

\* A step of connection c that sends its file: the download goes on or ends.
LEMMA DownloadKeeps ==
    ASSUME IInv, NEW c \in Conn, DownloadSent(c) \/ DownloadFails(c)
    PROVE  IInv'
<1> DEFINE d == download[c]
<1>0. /\ TypeOK /\ Known(c) /\ d # None /\ d \in Download \ {None} /\ disk[d.file] \in Content
      /\ req[c].op \in {"get", "post"} /\ req[c].path \in File /\ {200, 500} \subseteq Allowed(req[c])
      /\ reply[c] = "none" /\ (d.pending = 0 => answers[c] = <<>>)
      /\ answers[c] # <<>> => Len(answers[c]) = 1 /\ answers[c][1] \in Allowed(req[c])
      /\ state[c].closed /\ state[c].uploadFile = None /\ socket[c] \notin {"new", "closed"} /\ req[c] \in Request
  BY DEF IInv, TypeOK, Known, Underway, Answered, DownloadSent, DownloadFails, FreshState
<1>1. /\ d.file \in File /\ d.total \in Nat /\ d.sent \in Nat /\ d.pending \in Nat /\ d.counts \in BOOLEAN
      /\ Len(disk[d.file]) \in Nat
  BY <1>0 DEF Download, Content
<1>2. UNCHANGED <<req, state, pointer, disk, limited>>
  BY DEF DownloadSent, DownloadFails
<1>3. PICK e, a, r, k :
         /\ Moves(c, e, a, r, k)
         /\ e \in Download /\ r \in {"none", "head"} /\ (k = socket[c] \/ (k = "closed" /\ e = None))
         /\ e # None => r = "none" /\ e.file = d.file /\ e.pending # 0
         /\ More(c, a)
  <2>0. /\ answers = [answers EXCEPT ![c] = answers[c]] /\ reply = [reply EXCEPT ![c] = reply[c]]
        /\ socket = [socket EXCEPT ![c] = socket[c]] /\ None \in Download
    BY <1>0 DEF TypeOK, Download
  <2>1. CASE DownloadSent(c)
    <3> DEFINE sent == d.sent + d.pending
               size == Len(disk[d.file])
               read == IF size > sent THEN Least(SendChunk, Least(d.total, size) - sent) ELSE 0
               e == [d EXCEPT !.sent = sent, !.pending = read]
               a == IF d.pending = 0 THEN Append(answers[c], 200) ELSE answers[c]
    <3>1. answers' = [answers EXCEPT ![c] = a] /\ More(c, a)
      BY <2>0, <2>1 DEF DownloadSent, More
    <3>2. IF sent < d.total /\ read > 0
          THEN download' = [download EXCEPT ![c].sent = sent, ![c].pending = read] /\ UNCHANGED <<socket, accessed, served>>
          ELSE EndDownload(c)
      BY <2>1 DEF DownloadSent
    <3>3. UNCHANGED reply
      BY <2>1 DEF DownloadSent
    <3>4. sent < d.total /\ read > 0 => read \in Nat /\ sent \in Nat
      <4>1. size \in Nat /\ sent \in Nat /\ d.total \in Nat
        BY <1>1
      <4> HIDE DEF d, size, sent
      <4> QED
        BY <4>1, LimitAssumption DEF Least
    <3> HIDE DEF sent, read, a
    <3>5. CASE sent < d.total /\ read > 0
      <4>1. download' = [download EXCEPT ![c] = e]
        BY <1>0, <3>2, <3>5 DEF TypeOK
      <4>2. e \in Download /\ e.file = d.file /\ e.pending # 0
        <5>1. d \in Download \ {None} /\ sent \in Nat /\ read \in Nat /\ read # 0
          BY <1>0, <3>4, <3>5
        <5> HIDE DEF d
        <5>2. d \in [file : File, total : Nat, sent : Nat, pending : Nat, counts : BOOLEAN]
          BY <5>1 DEF Download
        <5>3. e \in Download /\ e.file = d.file /\ e.pending = read
          BY <5>1, <5>2 DEF Download
        <5> QED
          BY <5>1, <5>3
      <4> HIDE DEF e
      <4>3. Moves(c, e, a, reply[c], socket[c])
        BY <2>0, <3>1, <3>2, <3>3, <3>5, <4>1 DEF Moves
      <4> QED
        BY <1>0, <3>1, <4>2, <4>3
    <3>6. CASE ~(sent < d.total /\ read > 0)
      <4>1. Moves(c, None, a, reply[c], "closed")
        BY <2>0, <3>1, <3>2, <3>3, <3>6 DEF Moves, EndDownload
      <4> QED
        BY <1>0, <2>0, <3>1, <4>1
    <3> QED
      BY <3>5, <3>6
  <2>2. CASE DownloadFails(c)
    <3>1. EndDownload(c) /\ IF d.pending = 0 THEN Respond(c, 500) ELSE UNCHANGED <<answers, reply>>
      BY <2>2 DEF DownloadFails
    <3>2. CASE d.pending = 0
      <4> DEFINE a == Append(answers[c], 500)
      <4>1. Moves(c, None, a, "head", "closed")
        BY <3>1, <3>2 DEF Moves, EndDownload, Respond
      <4>2. More(c, a)
        BY <3>2 DEF More
      <4> HIDE DEF a
      <4> QED
        BY <2>0, <3>2, <4>1, <4>2
    <3>3. CASE d.pending # 0
      <4>1. Moves(c, None, answers[c], reply[c], "closed")
        BY <2>0, <3>1, <3>3 DEF Moves, EndDownload
      <4> QED
        BY <1>0, <2>0, <4>1 DEF More
    <3> QED
      BY <3>2, <3>3
  <2> QED
    BY <2>1, <2>2
<1>4. /\ accessed' \subseteq limited' /\ served' \in [File -> Nat]
  <2>0. accessed \subseteq limited /\ served \in [File -> Nat]
    BY <1>0 DEF TypeOK
  <2>1. CASE DownloadSent(c)
    <3>1. accessed' = accessed \/ recordAccess(d.file)
      BY <2>1 DEF DownloadSent
    <3>2. served' = served \/ served' = [served EXCEPT ![d.file] = @ + 1]
      BY <2>1 DEF DownloadSent
    <3>3. served' \in [File -> Nat]
      BY <1>1, <2>0, <3>2
    <3> QED
      BY <1>2, <2>0, <3>1, <3>3 DEF recordAccess
  <2>2. CASE DownloadFails(c)
    BY <1>2, <2>0, <2>2 DEF DownloadFails
  <2> QED
    BY <2>1, <2>2
<1>5. a = answers[c] \/ (answers[c] = <<>> /\ \E code \in {200, 500} : a = One(code))
  <2>1. d.pending = 0 => answers[c] = <<>>
    BY <1>0
  <2>2. a = answers[c] \/ (d.pending = 0 /\ \E code \in {200, 500} : a = Append(answers[c], code))
    BY <1>3 DEF More
  <2>3. \A code \in {200, 500} : Append(<<>>, code) = One(code)
    BY OneFacts DEF Code
  <2> HIDE DEF d
  <2> QED
    BY <2>1, <2>2, <2>3
<1>6. answers[c] \in Seq(Code) /\ a \in Seq(Code)
  <2>1. \A code \in {200, 500} : One(code) \in Seq(Code)
    BY OneFacts DEF Code
  <2>2. answers[c] \in Seq(Code)
    BY <1>0 DEF TypeOK
  <2> QED
    BY <1>5, <2>1, <2>2
<1> HIDE DEF d
<1>7. TypeOK'
  <2>0. TypeOK
    BY <1>0
  <2>1. answers' \in [Conn -> Seq(Code)]
    BY <1>3, <1>6, <2>0 DEF Moves, TypeOK
  <2>2. /\ reply' \in [Conn -> {"none", "head", "body", "sent", "lost"}]
        /\ download' \in [Conn -> Download]
        /\ socket' \in [Conn -> {"new", "open", "closed", "gone"}]
    <3>1. socket[c] \in {"new", "open", "closed", "gone"}
      BY <2>0 DEF TypeOK
    <3> QED
      BY <1>3, <2>0, <3>1 DEF Moves, TypeOK
  <2> QED
    BY <1>2, <1>4, <2>0, <2>1, <2>2 DEF TypeOK
<1>8. \A x \in Conn \ {c} : Known(x)'
  <2> TAKE x \in Conn \ {c}
  <2>0. TypeOK /\ Known(x)
    BY <1>0 DEF IInv
  <2>1. /\ answers'[x] = answers[x] /\ download'[x] = download[x]
        /\ reply'[x] = reply[x] /\ socket'[x] = socket[x]
    BY <1>3, <2>0 DEF Moves, TypeOK
  <2>2. Same(x)
    BY <1>2, <2>1 DEF Same
  <2> QED
    BY <1>2, <2>0, <2>2, SameKnown
<1>9. Known(c)'
  <2>1. /\ socket'[c] # "new" /\ answers'[c] = a /\ download'[c] = e /\ reply'[c] = r
    BY <1>0, <1>3 DEF Moves, TypeOK
  <2>2. Underway(c)'
    BY <1>0, <1>2 DEF Underway
  <2>3. a # <<>> => Len(a) = 1 /\ a[1] \in Allowed(req[c])
    <3>1. CASE a = answers[c]
      BY <1>0, <3>1
    <3>2. ASSUME NEW code \in {200, 500}, a = One(code)
          PROVE  Len(a) = 1 /\ a[1] \in Allowed(req[c])
      <4>1. Len(a) = 1 /\ a[1] = code
        BY <3>2, OneFacts DEF Code
      <4>2. code \in Allowed(req[c])
        BY <1>0
      <4> QED
        BY ONLY <4>1, <4>2
    <3> QED
      BY <1>5, <3>1, <3>2
  <2>4. socket'[c] = "closed" => state'[c].closed /\ download'[c] = None
    <3>1. socket'[c] = k
      BY <1>0, <1>3 DEF Moves, TypeOK
    <3>2. k = "closed" => e = None
      BY <1>0, <1>3
    <3> QED
      BY <1>0, <1>2, <2>1, <3>1, <3>2
  <2>5. state'[c].closed => state'[c].uploadFile = None
    BY <1>0, <1>2
  <2>6. download'[c] # None =>
           /\ req'[c].op \in {"get", "post"} /\ req'[c].path \in File /\ {200, 500} \subseteq Allowed(req'[c])
           /\ disk'[download'[c].file] \in Content
           /\ reply'[c] = "none" /\ (download'[c].pending = 0 => answers'[c] = <<>>)
    BY <1>0, <1>2, <1>3, <2>1
  <2>7. Answered(c)'
    BY <1>2, <2>1, <2>3, <2>4, <2>5, <2>6 DEF Answered
  <2>8. Wrote(c)'
    BY <1>0, <1>2 DEF Known, Wrote
  <2> QED
    BY <1>0, <1>2, <2>1, <2>2, <2>7, <2>8 DEF Known
<1> QED
  BY <1>7, <1>8, <1>9 DEF IInv

LEMMA NextKeeps == IInv /\ [Next]_vars => IInv'
<1> SUFFICES ASSUME IInv, [Next]_vars
             PROVE  IInv'
  OBVIOUS
<1>1. CASE \E c \in Conn : Accept(c)
  BY <1>1, AcceptKeeps
<1>2. CASE \E c \in Conn : ServerStep(c)
  BY <1>2, SegmentKeeps, ReplyKeeps, DownloadKeeps DEF ServerStep
<1>3. CASE \E c \in Conn : ClientLeaves(c)
  BY <1>3, LeaveKeeps
<1>4. CASE \E f \in File : LimitEnds(f) \/ \E on \in BOOLEAN : setRateLimit(f, on)
  BY <1>4, LimitKeeps
<1>5. CASE UNCHANGED vars
  <2>1. TypeOK'
    BY <1>5 DEF IInv, TypeOK, vars
  <2>2. \A d \in Conn : Known(d)'
    BY <1>5, SameKnown DEF IInv, Same, vars
  <2> QED
    BY <2>1, <2>2 DEF IInv
<1> QED
  BY <1>1, <1>2, <1>3, <1>4, <1>5 DEF Next

LEMMA Invariant == Spec => []IInv
<1>1. Init => IInv
  BY InitHolds
<1>2. IInv /\ [Next]_vars => IInv'
  BY NextKeeps
<1> QED
  BY <1>1, <1>2, PTL DEF Spec

\* The variables of the web server keep their types.
THEOREM Types == Spec => []TypeOK
<1>1. IInv => TypeOK
  BY DEF IInv
<1> QED
  BY <1>1, Invariant, PTL

\* A request gets one answer, and within the limits one its text calls for,
\* however TCP cuts it up: the turns of onData, sendResponse and sendFileAsync may
\* come in any order, and clients may leave at any time.
THEOREM OneAnswer == Spec => []AnswerFits
<1>1. IInv => AnswerFits
  BY DEF IInv, Known, Answered, AnswerFits, Allowed
<1> QED
  BY <1>1, Invariant, PTL

\* No descriptor of a file outlives the socket it was opened for, whichever of
\* the response and the download closes that first (finally of sendFileAsync).
THEOREM NoneLeaks == Spec => []DescriptorsClosed
<1>1. IInv => DescriptorsClosed
  BY DEF IInv, Known, Answered, DescriptorsClosed
<1> QED
  BY <1>1, Invariant, PTL

\* An upload that is answered 200 has left exactly its Content-Length in its
\* file, unless another connection has opened it meanwhile (onBody,
\* finishRequest).
THEOREM Uploads == Spec => UploadIsExact
<1> DEFINE Step == \A c \in Conn :
                      req'[c] # None /\ req'[c].op = "upload" /\ answers[c] = <<>> /\ answers'[c] = <<200>> =>
                         LET s == disk'[req'[c].path]
                         IN  (\A i \in 1..Len(s) : s[i] = c) => Len(s) = req'[c].length
<1>1. IInv /\ [Next]_vars => [Step]_vars
  <2> SUFFICES ASSUME IInv, Next, NEW c \in Conn, req'[c] # None, req'[c].op = "upload",
                      answers[c] = <<>>, answers'[c] = << 200 >>
               PROVE  LET s == disk'[req'[c].path]
                      IN  (\A i \in 1..Len(s) : s[i] = c) => Len(s) = req'[c].length
    OBVIOUS
  <2> HIDE DEF Step
  <2>0. TypeOK /\ Known(c)
    BY DEF IInv
  <2>00. answers' # answers /\ answers'[c] # answers[c]
    <3>1. Len(answers'[c]) = 1 /\ Len(answers[c]) = 0
      OBVIOUS
    <3>2. ASSUME answers'[c] = answers[c]
          PROVE  Len(answers'[c]) = Len(answers[c])
      BY ONLY <3>2, Zenon
    <3>3. answers'[c] # answers[c]
      BY ONLY <3>1, <3>2
    <3> QED
      BY ONLY <3>3, Zenon
  <2>1. CASE onData(c)
    <3>1. Exact(c) /\ UNCHANGED req
      BY <2>1, Segments DEF Result, onData
    <3> QED
      BY <3>1 DEF Exact, Whole
  <2>2. ASSUME NEW d \in Conn \ {c}, ServerStep(d)
        PROVE  answers'[c] = answers[c]
    <3>1. \/ answers' = answers
          \/ \E a : answers' = [answers EXCEPT ![d] = a]
      <4>1. CASE onData(d)
        <5>1. Result(d)
          BY <4>1, Segments
        <5> QED
          BY <5>1 DEF Result, Ended, Handled, Replied, Started, Wait
      <4>2. CASE DownloadSent(d) \/ DownloadFails(d) \/ ReplySent(d) \/ ReplyFails(d)
        BY <4>2 DEF DownloadSent, DownloadFails, ReplySent, ReplyFails, Respond
      <4> QED
        BY <2>2, <4>1, <4>2 DEF ServerStep
    <3> QED
      BY <2>0, <3>1 DEF TypeOK
  <2>3. ~(ReplySent(c) \/ ReplyFails(c))
    BY <2>00 DEF ReplySent, ReplyFails
  <2>4. ~(DownloadSent(c) \/ DownloadFails(c))
    <3> SUFFICES ASSUME DownloadSent(c) \/ DownloadFails(c)
                 PROVE  FALSE
      OBVIOUS
    <3>1. download[c] # None /\ UNCHANGED req
      BY DEF DownloadSent, DownloadFails
    <3> QED
      BY <2>0, <3>1 DEF Known, Answered
  <2>5. ~ \E d \in Conn : Accept(d) \/ ClientLeaves(d)
    BY <2>00 DEF Accept, ClientLeaves
  <2>6. ~ \E f \in File : LimitEnds(f) \/ \E on \in BOOLEAN : setRateLimit(f, on)
    BY <2>00 DEF LimitEnds, setRateLimit
  <2> QED
    BY <2>00, <2>1, <2>2, <2>3, <2>4, <2>5, <2>6 DEF Next, ServerStep
<1>2. IInv /\ [Next]_vars => [Step]_vars
  BY <1>1
<1> QED
  BY <1>2, Invariant, PTL DEF Spec, UploadIsExact
=============================================================================
