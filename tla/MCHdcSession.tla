---------------------------- MODULE MCHdcSession ----------------------------
(***************************************************************************)
(* HdcSession with two sessions to one device, which reach its daemon map  *)
(* entry together, and its fairness.                                       *)
(***************************************************************************)
EXTENDS HdcSession

CONSTANTS s1, s2

MCSession == {s1, s2}

MCKey == {"k"}
MCKeyOf == [s \in Session |-> "k"]
=============================================================================
