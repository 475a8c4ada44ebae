--------------------------- MODULE ReliableStream ---------------------------
(***************************************************************************)
(* What the serial link layer of hdc promises to the two ends of each      *)
(* session (the comment before RequestSendPackage, uart.cpp:616-658):      *)
(* packages arrive in the order in which they were sent and at most once;  *)
(* none is left out unless the receiver could not pass one on, or the      *)
(* sender gave its session up and goes on to the end of its message; and   *)
(* each of them arrives or its session ends.                               *)
(***************************************************************************)
EXTENDS Naturals, Sequences

CONSTANT Ends,      \* the two ends of every session
         Other(_),  \* the end at the other side
         Lingering  \* the ends whose port stays open when they give up

VARIABLES sent,       \* [Ends -> Nat]: packages this end has handed over
          delivered,  \* [Ends -> Seq(Nat)]: the other end's packages passed on
          broken,     \* ends that could not pass a package on
          ended       \* ends whose session is over

vars == <<sent, delivered, broken, ended>>

Newest(s) == IF s = <<>> THEN 0 ELSE s[Len(s)]

Init ==  /\ sent = [e \in Ends |-> 0]
        /\ delivered = [e \in Ends |-> <<>>]
        /\ broken = {}
        /\ ended \in SUBSET Ends

\* An end hands over its next package.
Send(e) == /\ sent' = [sent EXCEPT ![e] = @ + 1]
           /\ UNCHANGED <<delivered, broken, ended>>

\* The next package arrives; a broken end may have lost some before it, and a
\* sender that has given up may have dropped some.
Deliver(e) ==
  /\ \E n \in Newest(delivered[e]) + 1 .. sent[Other(e)] :
       /\ e \in broken \/ Other(e) \in ended \cap Lingering \/ n = Newest(delivered[e]) + 1
       /\ delivered' = [delivered EXCEPT ![e] = Append(@, n)]
  /\ UNCHANGED <<sent, broken, ended>>

\* An end cannot pass a package on: from here on it may miss some.
Break(e) == /\ broken' = broken \cup {e}
            /\ UNCHANGED <<sent, delivered, ended>>

End(E) == /\ ended' = ended \cup E
          /\ UNCHANGED <<sent, delivered, broken>>

Next == \/ \E e \in Ends : Send(e) \/ Deliver(e) \/ Break(e)
        \/ \E E \in SUBSET Ends : End(E)

Safe == Init /\ [][Next]_vars

\* Everything has arrived, but for the ends that are over or broken; and so
\* it is again and again.
AllIsThere == \A e \in Ends : \/ sent[e] = Newest(delivered[Other(e)])
                              \/ {e, Other(e)} \cap (ended \cup broken) # {}

Arrives == []<>AllIsThere

Spec == Safe /\ Arrives
=============================================================================
