----------------------------- MODULE MCHdcUart -----------------------------
(***************************************************************************)
(* Two sessions of the host, in five scenarios: a message of two packages, *)
(* one package each way, two on each session, whose work threads sleep on  *)
(* one condition variable, one to a daemon that still has a session with   *)
(* an earlier host, and two of a daemon that may give up.                  *)
(***************************************************************************)
EXTENDS HdcUart, TLC

CONSTANTS s1, s2

Scenario(h1, d1, h2, old, lost, again) ==
  [messages |-> (<<"host", s1>> :> h1) @@ (<<"daemon", s1>> :> d1) @@
                (<<"host", s2>> :> h2) @@ (<<"daemon", s2>> :> <<>>),
   connected |-> IF h2 = <<>> THEN {s1} ELSE {s1, s2},
   stale |-> old, noise |-> lost, retry |-> again]

MCScenarios ==
  {Scenario(<<2>>, <<>>, <<>>, {}, 2, 1), Scenario(<<1>>, <<1>>, <<>>, {}, 0, 0),
   Scenario(<<2>>, <<>>, <<2>>, {}, 0, 0), Scenario(<<>>, <<>>, <<1>>, {s1}, 0, 1),
   Scenario(<<>>, <<2>>, <<>>, {}, 1, 0)}
=============================================================================
