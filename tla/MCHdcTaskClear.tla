--------------------------- MODULE MCHdcTaskClear ---------------------------
(***************************************************************************)
(* HdcTaskClear with two sessions, one of them with three tasks, of which  *)
(* two are for one channel; taskCount wraps to MCModulus - 1 and the clear *)
(* loop gives up after three ticks.                                        *)
(***************************************************************************)
EXTENDS HdcTaskClear

MCSession == {"s1", "s2"}
MCTask == {"t1", "t2", "t3", "t4"}
MCOwner == [t \in MCTask |-> IF t = "t4" THEN "s2" ELSE "s1"]
MCChannelId == [t \in MCTask |-> IF t = "t3" THEN 2 ELSE 1]
MCModulus == 5
MCMaxTimes == 3
=============================================================================
