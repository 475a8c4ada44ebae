---------------------------- MODULE MCHdcCommand ----------------------------
(* Two commands: one that outlives its promise and one that follows it, in  *)
(* the same process or, after the kill, among the directories it has left.  *)
EXTENDS HdcCommand

CONSTANTS c1, c2

MCCmd == {c1, c2}
=============================================================================
