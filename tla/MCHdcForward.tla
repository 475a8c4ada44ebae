----------------------------- MODULE MCHdcForward -----------------------------
(***************************************************************************)
(* Instances of HdcForward for TLC, and beside them a point that is a      *)
(* device.  A behaviour is of the one or of the other: a point sees of its *)
(* forward the packets that come, at any time.                             *)
(***************************************************************************)
EXTENDS HdcForward, TLC

CONSTANTS c1, c2, MaxSaid, MaxArrived

VARIABLES
    point, frees, fd, object, workContinue, refIO, reader, pieces, writer, writeMutex,
    writeQueue, writing, wants, arrived, written, stray

deviceVars == <<point, frees, fd, object, workContinue, refIO, reader, pieces, writer, writeMutex,
                writeQueue, writing, wants, arrived, written, stray>>

Device == INSTANCE HdcDevicePoint WITH said <- pieces

Scenario(m, cs, k, h, d, fs) ==
    [master |-> m, conns |-> cs, kind |-> k, faults |-> fs,
     pieces |-> ("host" :> h) @@ ("daemon" :> d)]

MCScenarios ==
    {Scenario("host", {c1}, "tcp", 2, 0, {"removed", "lost", "refused"}),
     Scenario("daemon", {c1}, "tcp", 1, 1, {"removed", "early"}),
     Scenario("host", {c1, c2}, "tcp", 0, 0, {}),
     Scenario("host", {c1, c2}, "abstract", 0, 0, {}),
     Scenario("daemon", {c1}, "unknown", 0, 0, {"early", "lost"})}

\* The one scenario in which, before the forward begins, a device point may begin instead.
NotBegun ==
    /\ sc.kind = "unknown" /\ up
    /\ link = [e \in Ends |-> IF e = Master THEN <<>> ELSE <<Wakeup>>]
    /\ \A e \in Ends : ctx[e][Listen].st = "none"
DeviceBegun == point # "none"

MCInit == Init /\ Device!Init

Forward(step) == ~DeviceBegun /\ step /\ UNCHANGED deviceVars
OfDevice(step) == NotBegun /\ step /\ UNCHANGED vars

MCNext == Forward(Next) \/ OfDevice(Device!Next)

MCSpec ==
    /\ MCInit /\ [][MCNext]_<<vars, deviceVars>>
    /\ WF_<<vars, deviceVars>>(Forward(Loops))
    /\ WF_<<vars, deviceVars>>(OfDevice(Device!LoopRuns))
    /\ WF_<<vars, deviceVars>>(OfDevice(Device!ReaderRuns))
    /\ WF_<<vars, deviceVars>>(OfDevice(Device!WriterRuns))

\* A device gets the pieces in their order, none twice, and a device point that is freed
\* is deleted (see HdcDevicePoint).
DeviceInOrder == Device!DeviceInOrder
PointIsFreed == Device!PointIsFreed

\* These fail.
NobodyUsesTheDeleted == Device!NobodyUsesTheDeleted
UsesItsDevice == Device!UsesItsDevice
OpenIsNeeded == Device!OpenIsNeeded
DeviceHasNoGap == Device!DeviceHasNoGap
===============================================================================
