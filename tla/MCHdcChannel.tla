---------------------------- MODULE MCHdcChannel ----------------------------
(***************************************************************************)
(* HdcChannel with one client on the session.                              *)
(***************************************************************************)
EXTENDS HdcChannel, TLC

CONSTANTS c1, c2

OneChannel == {c1}
=============================================================================
