----------------------------- MODULE MCHdcClient -----------------------------
(***************************************************************************)
(* HdcClient for TLC: every command with a server that is up and every     *)
(* behaviour of the device, and two commands with a server that is late,   *)
(* absent or held.  Two answers arrive in four halves, so that a read ends *)
(* in any place of either.                                                 *)
(***************************************************************************)
EXTENDS HdcClient

MCScenarios ==
    {s \in [command : Commands, server : {"up", "late", "down", "held"},
            device : {"none", "comes", "up", "leaves"}, answers : {0, 2}, listed : BOOLEAN,
            option : BOOLEAN] :
       /\ s.server # "up" => s.command \in {"info", "shell"} /\ s.device = "up"
       /\ s.answers = 2 <=> (s.command = "shell")
       /\ s.listed => s.command = "list"
       /\ s.option => s.command \in {"list", "shell"}}

================================================================================
