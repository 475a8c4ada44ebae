----------------------------- MODULE WebRequests -----------------------------
(***************************************************************************)
(* The requests of utils/WebServerUtil.ets: a ConnState per connection fed *)
(* by TCP segments of any size, uploads written straight to their file,    *)
(* downloads streamed across awaits, and the rate limit of a file.         *)
(*                                                                         *)
(* Bytes are counted in units.  What a file holds is, per unit, the        *)
(* connection that wrote it.  A segment is handled in one turn of the      *)
(* event loop; a response or a download takes one turn per send.           *)
(***************************************************************************)
EXTENDS Naturals, Sequences, FiniteSets

CONSTANTS
    Conn,          \* connections ever accepted
    File,          \* paths that resolve inside the root and can be files
    Dir, Unsafe,   \* a directory without index.html; a path resolveSafePath refuses
    None,
    Old, Hole,     \* a unit that was there before; a unit never written
    Request,       \* requests the clients may send
    HeaderLimit, MaxTransfer, EchoLimit, SendChunk   \* the limits, in units

Path == File \cup {Dir, Unsafe}

\* head and body are the units the client sends, length its Content-Length;
\* grows is what decoding and encoding add to a head that is not UTF-8.
RequestType ==
    [op : {"upload", "post", "get", "other", "malformed", "chunked"},
     path : Path, head : Nat \ {0}, grows : Nat, length : Nat, body : Nat]

ASSUME RequestAssumption == Request \subseteq RequestType
ASSUME LimitAssumption ==
    HeaderLimit \in Nat /\ MaxTransfer \in Nat /\ EchoLimit \in Nat /\ SendChunk \in Nat \ {0}
ASSUME NameAssumption ==
    /\ None \notin Conn \cup File \cup Request \cup Seq(Conn \cup {Old, Hole})
    /\ {Old, Hole} \cap Conn = {} /\ {Dir, Unsafe} \cap File = {} /\ Dir # Unsafe

VARIABLES
    req,       \* per connection: its request, None before it is accepted
    state,     \* per connection: the ConnState
    pointer,   \* per connection: the file pointer of uploadFile
    disk,      \* per file: the writer of each unit, or None if there is no file
    answers,   \* per connection: the status codes it has been sent
    reply,     \* per connection: how far sendResponse is
    download,  \* per connection: its sendFileAsync between two awaits, or None
    socket,    \* per connection: open, closed by us, or gone (by the client)
    limited,   \* rateLimits: the files that have one
    accessed,  \* the limited files whose last access is less than their limit ago
    served     \* per file: full downloads since its limit last ran out

vars == <<req, state, pointer, disk, answers, reply, download, socket, limited, accessed, served>>

Least(a, b) == IF a < b THEN a ELSE b

ConnState ==
    [headerLength : Nat, meta : BOOLEAN, bodyReceived : Nat, uploadFile : File \cup {None},
     echoLength : Nat, echoOverflow : BOOLEAN, closed : BOOLEAN]

FreshState ==
    [headerLength |-> 0, meta |-> FALSE, bodyReceived |-> 0, uploadFile |-> None,
     echoLength |-> 0, echoOverflow |-> FALSE, closed |-> FALSE]

\* No file, a small one, and one that is too large to be sent.
InitialFile == {None} \cup {[i \in 1..n |-> Old] : n \in {1, MaxTransfer + 1}}

Init ==
    /\ req = [c \in Conn |-> None] /\ state = [c \in Conn |-> FreshState]
    /\ pointer = [c \in Conn |-> 0] /\ disk \in [File -> InitialFile]
    /\ answers = [c \in Conn |-> <<>>] /\ reply = [c \in Conn |-> "none"]
    /\ download = [c \in Conn |-> None] /\ socket = [c \in Conn |-> "new"]
    /\ limited \in SUBSET File /\ accessed = {} /\ served = [f \in File |-> 0]

Accept(c) ==
    /\ socket[c] = "new"
    /\ socket' = [socket EXCEPT ![c] = "open"]
    /\ \E r \in Request : req' = [req EXCEPT ![c] = r]
    /\ UNCHANGED <<state, pointer, disk, answers, reply, download, limited, accessed, served>>

-----------------------------------------------------------------------------
(* Responses.                                                                *)

\* sendResponse starts the first of its two sends.
Respond(c, code) ==
    /\ answers' = [answers EXCEPT ![c] = Append(@, code)]
    /\ reply' = [reply EXCEPT ![c] = "head"]

\* The sends and the close of sendResponse, one per turn.
ReplySent(c) ==
    /\ socket[c] = "open" /\ reply[c] \in {"head", "body"}
    /\ IF reply[c] = "head"
       THEN reply' = [reply EXCEPT ![c] = "body"] /\ UNCHANGED socket
       ELSE /\ reply' = [reply EXCEPT ![c] = "sent"]
            /\ socket' = [socket EXCEPT ![c] = "closed"]
    /\ UNCHANGED <<req, state, pointer, disk, answers, download, limited, accessed, served>>

\* A send that is rejected ends in close, too.
ReplyFails(c) ==
    /\ reply[c] \in {"head", "body"}
    /\ reply' = [reply EXCEPT ![c] = "lost"]
    /\ socket' = [socket EXCEPT ![c] = "closed"]
    /\ UNCHANGED <<req, state, pointer, disk, answers, download, limited, accessed, served>>

\* No handler is registered for a connection that the client closes.
ClientLeaves(c) ==
    /\ socket[c] = "open"
    /\ socket' = [socket EXCEPT ![c] = "gone"]
    /\ UNCHANGED <<req, state, pointer, disk, answers, reply, download, limited, accessed, served>>

-----------------------------------------------------------------------------
(* Segments.                                                                 *)

closeUpload(s) == [s EXCEPT !.uploadFile = None]

\* failConnection in state s.
failConnection(c, s, code) ==
    /\ state' = [state EXCEPT ![c] = closeUpload([s EXCEPT !.closed = TRUE])]
    /\ Respond(c, code)
    /\ UNCHANGED <<download, socket, accessed>>

recordAccess(f) == accessed' = IF f \in limited THEN accessed \cup {f} ELSE accessed

checkRateLimit(f) == f \notin limited \/ f \notin accessed

\* The synchronous first part of sendFileAsync, up to the await of the header.
\* After 413 and 500 `finally' closes the socket under the response.
sendFileAsync(c, f, d) ==
    /\ \/ /\ ~checkRateLimit(f)
          /\ Respond(c, 429) /\ UNCHANGED <<download, socket>>
       \/ /\ checkRateLimit(f)
          /\ \E code \in {500} \cup (IF Len(d[f]) > MaxTransfer THEN {413} ELSE {}) : Respond(c, code)
          /\ socket' = [socket EXCEPT ![c] = "closed"] /\ UNCHANGED download
       \/ /\ checkRateLimit(f) /\ Len(d[f]) <= MaxTransfer
          /\ download' = [download EXCEPT ![c] =
                [file |-> f, total |-> Len(d[f]), sent |-> 0, pending |-> 0, counts |-> f \in limited]]
          /\ UNCHANGED <<answers, reply, socket>>
    /\ UNCHANGED accessed

Answer(c, code) == Respond(c, code) /\ UNCHANGED <<download, socket, accessed>>

isFile(f, d) == f \in File /\ d[f] # None

\* A POST that names no file, or one that cannot be looked at (the exception
\* is swallowed), is answered with its echo.
handlePostRequest(c, f, d) ==
    \/ f = Unsafe /\ Answer(c, 403)
    \/ isFile(f, d) /\ sendFileAsync(c, f, d)
    \/ f # Unsafe /\ Answer(c, 200)

\* The page, or "Listing Failed".
handleDirectoryListing(c) == \E code \in {200, 500} : Answer(c, code)

handleGetRequest(c, f, d) ==
    \/ f = Unsafe /\ Answer(c, 403)
    \/ f \in File /\ ~isFile(f, d) /\ Answer(c, 404)
    \/ isFile(f, d) /\ sendFileAsync(c, f, d)
    \/ f # Unsafe /\ Answer(c, 500)
    \/ f = Dir /\ handleDirectoryListing(c)

\* Mutant of Finished: `closed' is set by the response only.
FinishedOpen(s) == closeUpload(s)

Finished(s) == closeUpload([s EXCEPT !.closed = TRUE])

\* finishRequest in state s, with the files in state d.
finishRequest(c, s, d) ==
    /\ state' = [state EXCEPT ![c] = Finished(s)]
    /\ IF s.uploadFile # None
       THEN recordAccess(s.uploadFile) /\ Respond(c, 200) /\ UNCHANGED <<download, socket>>
       ELSE \/ req[c].op = "post" /\ handlePostRequest(c, req[c].path, d)
            \/ req[c].op = "get" /\ handleGetRequest(c, req[c].path, d)
            \/ req[c].op = "other" /\ Answer(c, 405)

Wait(c, s) ==
    state' = [state EXCEPT ![c] = s] /\ UNCHANGED <<answers, reply, download, socket, accessed>>

\* n units of connection c in a file from position p on.
Write(content, c, p, n) ==
    [i \in 1..(IF p + n > Len(content) THEN p + n ELSE Len(content)) |->
        IF i \in (p + 1)..(p + n) THEN c ELSE IF i <= Len(content) THEN content[i] ELSE Hole]

\* Mutant of Usable: what follows the body in the segment is taken, too.
UsableAll(s, r, n) == n

\* How many of the n units that have arrived belong to the body.
Usable(s, r, n) ==
    IF r.length > s.bodyReceived THEN Least(n, r.length - s.bodyReceived) ELSE 0

\* n units, not none, kept for the echo of a POST.
Echo(s, n) ==
    LET take == Least(EchoLimit - s.echoLength, n)
    IN  [s EXCEPT !.echoLength = @ + take, !.echoOverflow = @ \/ take < n]

\* Mutant of BodyComplete: one unit more is waited for.
BodyCompleteLate(s, r) == s.bodyReceived > r.length

BodyComplete(s, r) == s.bodyReceived >= r.length

\* onBody with n units, in state s, with the files in state d.
onBody(c, s, d, p, n) ==
    LET r      == req[c]
        usable == Usable(s, r, n)
        s1     == [s EXCEPT !.bodyReceived = @ + n]
        s2     == IF s.uploadFile = None /\ usable > 0 THEN Echo(s1, usable) ELSE s1
        d2     == IF s.uploadFile = None THEN d
                  ELSE [d EXCEPT ![s.uploadFile] = Write(@, c, p, usable)]
    IN  \/ /\ s1.bodyReceived > MaxTransfer
           /\ failConnection(c, s1, 413) /\ disk' = d /\ pointer' = [pointer EXCEPT ![c] = p]
        \/ /\ s1.bodyReceived <= MaxTransfer /\ s.uploadFile # None /\ usable > 0
           /\ failConnection(c, s1, 500) /\ disk' = d /\ pointer' = [pointer EXCEPT ![c] = p]
        \/ /\ s1.bodyReceived <= MaxTransfer
           /\ disk' = d2 /\ pointer' = [pointer EXCEPT ![c] = p + usable]
           /\ IF BodyComplete(s1, r) THEN finishRequest(c, s2, d2) ELSE Wait(c, s2)

\* The errorCode of parseRequestMeta once the header is complete.
parseRequestMeta(r) == CASE r.op = "malformed" -> 400 [] r.op = "chunked" -> 411 [] OTHER -> 0

\* The state after prepareUpload has opened (and emptied) the file r names; it
\* may be refused (403), and opening it or its directories may fail (500).
prepareUpload(s, r) == [s EXCEPT !.uploadFile = r.path]
UploadRefusal(r) == IF r.path = Unsafe THEN 403 ELSE 500

\* n units of body have come with the end of the header.
Leftover(c, s, d, n) ==
    IF n > 0 THEN onBody(c, s, d, 0, n)
    ELSE /\ disk' = d /\ pointer' = [pointer EXCEPT ![c] = 0]
         /\ IF req[c].length = 0 THEN finishRequest(c, s, d) ELSE Wait(c, s)

\* The header is complete, and n units of body are taken to have come with it.
onHeader(c, s, n) ==
    LET r == req[c]  s1 == [s EXCEPT !.meta = TRUE]  refused == UNCHANGED <<disk, pointer>>
    IN  \/ parseRequestMeta(r) # 0 /\ failConnection(c, s, parseRequestMeta(r)) /\ refused
        \/ /\ parseRequestMeta(r) = 0 /\ r.length > MaxTransfer
           /\ failConnection(c, s1, 413) /\ refused
        \/ /\ r.op = "upload" /\ r.length <= MaxTransfer
           /\ \/ failConnection(c, s1, UploadRefusal(r)) /\ refused
              \/ /\ r.path \in File
                 /\ Leftover(c, prepareUpload(s1, r), [disk EXCEPT ![r.path] = <<>>], n)
        \/ r.op \in {"post", "get", "other"} /\ r.length <= MaxTransfer /\ Leftover(c, s1, disk, n)

Arrived(c) == state[c].headerLength + state[c].bodyReceived

\* Of n units behind the end of the header, those that are taken for a part of
\* it: parseRequestMeta measures the header encoded again.
Skipped(r, n) == Least(n, r.grows)

\* A segment of k units arrives.  Once the header is complete headerLength is
\* of no more use: it is kept at what the header took.
onData(c) ==
    /\ socket[c] = "open" /\ ~state[c].closed
    /\ \E k \in 1..(req[c].head + req[c].body - Arrived(c)) :
          IF state[c].meta THEN onBody(c, state[c], disk, pointer[c], k)
          ELSE IF state[c].headerLength + k >= req[c].head
          THEN LET n    == state[c].headerLength + k - req[c].head
                   skip == Skipped(req[c], n)
               IN  onHeader(c, [state[c] EXCEPT !.headerLength = req[c].head + skip], n - skip)
          ELSE /\ IF state[c].headerLength + k > HeaderLimit THEN failConnection(c, state[c], 431)
                  ELSE Wait(c, [state[c] EXCEPT !.headerLength = @ + k])
               /\ UNCHANGED <<disk, pointer>>
    /\ UNCHANGED <<req, limited, served>>

-----------------------------------------------------------------------------
(* Downloads.                                                                *)

\* The end of sendFileAsync: the file and the socket are closed.
EndDownload(c) ==
    /\ download' = [download EXCEPT ![c] = None]
    /\ socket' = [socket EXCEPT ![c] = "closed"]

\* A send is done (of the header, if nothing is pending); the next read.
DownloadSent(c) ==
    /\ download[c] # None /\ socket[c] = "open"
    /\ LET d    == download[c]
           sent == d.sent + d.pending
           size == Len(disk[d.file])
           read == IF size > sent THEN Least(SendChunk, Least(d.total, size) - sent) ELSE 0
       IN  /\ answers' = IF d.pending = 0 THEN [answers EXCEPT ![c] = Append(@, 200)] ELSE answers
           /\ IF sent < d.total /\ read > 0
              THEN /\ download' = [download EXCEPT ![c].sent = sent, ![c].pending = read]
                   /\ UNCHANGED <<socket, accessed, served>>
              ELSE /\ EndDownload(c) /\ recordAccess(d.file)
                   /\ served' = IF d.counts /\ d.file \in limited
                                THEN [served EXCEPT ![d.file] = @ + 1] ELSE served
    /\ UNCHANGED <<req, state, pointer, disk, reply, limited>>

\* A send or a read fails; before the header is sent 500 is tried.
DownloadFails(c) ==
    /\ download[c] # None /\ EndDownload(c)
    /\ IF download[c].pending = 0 THEN Respond(c, 500) ELSE UNCHANGED <<answers, reply>>
    /\ UNCHANGED <<req, state, pointer, disk, limited, accessed, served>>

setRateLimit(f, on) ==
    /\ limited' = IF on THEN limited \cup {f} ELSE limited \ {f}
    /\ accessed' = IF on THEN accessed ELSE accessed \ {f}
    /\ served' = IF on THEN served ELSE [served EXCEPT ![f] = 0]
    /\ UNCHANGED <<req, state, pointer, disk, answers, reply, download, socket>>

\* The limit of f has run out since the last access.
LimitEnds(f) ==
    /\ f \in accessed
    /\ accessed' = accessed \ {f} /\ served' = [served EXCEPT ![f] = 0]
    /\ UNCHANGED <<req, state, pointer, disk, answers, reply, download, socket, limited>>

-----------------------------------------------------------------------------
ServerStep(c) ==
    onData(c) \/ ReplySent(c) \/ ReplyFails(c) \/ DownloadSent(c) \/ DownloadFails(c)

Next ==
    \/ \E c \in Conn : Accept(c) \/ ServerStep(c) \/ ClientLeaves(c)
    \/ \E f \in File : LimitEnds(f) \/ \E on \in BOOLEAN : setRateLimit(f, on)

Spec == Init /\ [][Next]_vars

\* A client that stays sends all it has, and every send is answered.
FairSpec == Spec /\ \A c \in Conn : WF_vars(ServerStep(c))

-----------------------------------------------------------------------------
Code == {200, 400, 403, 404, 405, 411, 413, 429, 431, 500}

Download ==
    [file : File, total : Nat, sent : Nat, pending : Nat, counts : BOOLEAN] \cup {None}

TypeOK ==
    /\ req \in [Conn -> Request \cup {None}] /\ state \in [Conn -> ConnState]
    /\ pointer \in [Conn -> Nat] /\ answers \in [Conn -> Seq(Code)]
    /\ disk \in [File -> Seq(Conn \cup {Old, Hole}) \cup {None}]
    /\ reply \in [Conn -> {"none", "head", "body", "sent", "lost"}]
    /\ download \in [Conn -> Download]
    /\ socket \in [Conn -> {"new", "open", "closed", "gone"}]
    /\ limited \subseteq File /\ accessed \subseteq limited /\ served \in [File -> Nat]

\* The answers a request calls for that keeps within the limits, and one whose
\* stated length does not.
Calls(r) ==
    CASE r.op = "malformed" -> {400}
      [] r.op = "chunked" -> {411}
      [] r.op \notin {"malformed", "chunked"} /\ r.length > MaxTransfer -> {413}
      [] OTHER ->
           CASE r.op = "other" -> {405}
             [] r.op # "other" /\ r.path = Unsafe -> {403}
             [] r.op = "upload" /\ r.path # Unsafe -> {200, 500}
             [] r.op = "post" /\ r.path = Dir -> {200}
             [] r.op = "get" /\ r.path = Dir -> {200, 500}
             [] r.op = "post" /\ r.path \in File -> {200, 413, 429, 500}
             [] r.op = "get" /\ r.path \in File -> {200, 404, 413, 429, 500}

\* What a head or a body is refused with that is itself over its limit.
Refusals(r) ==
    (IF r.head > HeaderLimit THEN {431} ELSE {}) \cup (IF r.body > MaxTransfer THEN {413} ELSE {})

\* A request gets one answer.  If head and body keep within their limits, it is
\* one its text calls for, whatever the segments are in which they arrive; if
\* they do not, it may be the refusal instead.
AnswerFits ==
    \A c \in Conn : answers[c] # <<>> =>
        Len(answers[c]) = 1 /\ answers[c][1] \in Calls(req[c]) \cup Refusals(req[c])

\* What is over a limit is refused.  Not so: the length of a head is compared
\* only when a segment ends inside it, that of a body only with what has come
\* before the request is complete, so that it depends on how TCP cuts the bytes.
OverLimitIsRefused ==
    \A c \in Conn : answers[c] # <<>> /\ Refusals(req[c]) # {} => answers[c][1] \in Refusals(req[c])

\* An upload that is answered 200 has left exactly its Content-Length in its
\* file, unless another connection has opened the same file meanwhile.  (Behind
\* a head that is not UTF-8 these may be later units than the first.)
UploadIsExact ==
    [][\A c \in Conn :
          req'[c] # None /\ req'[c].op = "upload" /\ answers[c] = <<>> /\ answers'[c] = <<200>> =>
             LET s == disk'[req'[c].path]
             IN  (\A i \in 1..Len(s) : s[i] = c) => Len(s) = req'[c].length]_vars

\* No descriptor of a file outlives the socket it was opened for.
DescriptorsClosed ==
    \A c \in Conn : socket[c] = "closed" =>
        state[c].uploadFile = None /\ download[c] = None

\* A request that has come in whole behind a head in UTF-8 ends with its socket
\* closed.
CompleteIsAnswered ==
    \A c \in Conn : req[c] # None /\ req[c].grows = 0 /\ req[c].body >= req[c].length ~> socket[c] # "open"

\* Any request that has come in whole does.  Not so: behind another head the
\* first units of the body are skipped, and then waited for.
EveryHeadIsAnswered ==
    \A c \in Conn : req[c] # None /\ req[c].body >= req[c].length ~> socket[c] # "open"

\* "Limit 1 minute, 1 time" (docs/knowledge-base.md, 6.9): a file with a rate limit is downloaded at most
\* once until its limit has run out.
RateLimited == \A f \in File : served[f] <= 1
=============================================================================
