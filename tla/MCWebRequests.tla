--------------------------- MODULE MCWebRequests ---------------------------
(***************************************************************************)
(* Two connections and one file: an upload against a download, two         *)
(* downloads, and every kind of request against every way to cut it up.    *)
(***************************************************************************)
EXTENDS WebRequests

CONSTANTS c1, c2, f1

TwoConns == {c1, c2}
OneFile == {f1}

\* A request of each kind; lengths at the limits, below and above them;
\* the last has a head that is not UTF-8.
Requests ==
    {[op |-> "upload", path |-> f1, head |-> 2, grows |-> 0, length |-> 2, body |-> 2],
     [op |-> "upload", path |-> f1, head |-> 1, grows |-> 0, length |-> 1, body |-> 2],
     [op |-> "upload", path |-> f1, head |-> 1, grows |-> 0, length |-> 1, body |-> 3],
     [op |-> "upload", path |-> Unsafe, head |-> 1, grows |-> 0, length |-> 1, body |-> 1],
     [op |-> "post", path |-> f1, head |-> 1, grows |-> 0, length |-> 3, body |-> 3],
     [op |-> "post", path |-> Dir, head |-> 2, grows |-> 0, length |-> 2, body |-> 2],
     [op |-> "post", path |-> Dir, head |-> 1, grows |-> 0, length |-> 1, body |-> 2],
     [op |-> "get", path |-> f1, head |-> 2, grows |-> 0, length |-> 0, body |-> 0],
     [op |-> "get", path |-> Dir, head |-> 3, grows |-> 0, length |-> 0, body |-> 0],
     [op |-> "get", path |-> Unsafe, head |-> 1, grows |-> 0, length |-> 1, body |-> 0],
     [op |-> "malformed", path |-> f1, head |-> 2, grows |-> 0, length |-> 0, body |-> 1],
     [op |-> "chunked", path |-> f1, head |-> 1, grows |-> 0, length |-> 0, body |-> 1],
     [op |-> "other", path |-> f1, head |-> 2, grows |-> 0, length |-> 0, body |-> 0],
     [op |-> "upload", path |-> f1, head |-> 1, grows |-> 1, length |-> 2, body |-> 2]}
=============================================================================
