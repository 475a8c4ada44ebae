---------------------------- MODULE HdcDevicePoint ----------------------------
(***************************************************************************)
(* The end of a forward that is a device node (common/forward.cpp,         *)
(* common/file_descriptor.cpp): one context of HdcForward whose handle is  *)
(* an HdcFileDescriptor.  Three threads share it: the loop of the session, *)
(* a thread that reads the device and a thread that writes to it.          *)
(*                                                                         *)
(* The point is the slave's: it is set up by the ACTIVE_SLAVE of the other *)
(* end, which then sends pieces and may free it.  Each free of ctx's fd,   *)
(* and each use the threads make of the number they keep, is a step.       *)
(***************************************************************************)
EXTENDS Naturals, Sequences

CONSTANTS
    MaxSaid,     \* bound: pieces the device says
    MaxArrived   \* bound: pieces the other end sends

VARIABLES
    point,        \* ContextForward: "none", "live", "finish" (its idle task waits for the
                  \* reader), "closing" (the idle's handle), "next", "deleted"
    frees,        \* history: how often FreeJDWP has begun to free it
    fd,           \* the number both threads keep: "none" (-1), "open", "closed", "other" (the
                  \* system has given it to another file)
    object,       \* the HdcFileDescriptor: "none", "alive", "dying" (in its destructor), "deleted"
    workContinue, refIO,
    reader,       \* FileIOOnThread: "none", "check", "select", "call" (callbackRead), "out"
                  \* (refIO is given back), "gone"
    said,         \* pieces the reader has read from the device
    writer,       \* IOWriteThread: "none", "top", "pop", "lock", "write", "wait", "gone"
    writeMutex,   \* who holds it while it writes: "free", "writer"
    writeQueue, writing,
    wants,        \* the piece the loop is pushing, 0 if none: PushWrite waits for writeMutex
    arrived,      \* pieces that have come from the other end
    written,      \* history: pieces the device has taken
    stray         \* history: a thread has used the number of another file

loopVars == <<point, frees, wants, arrived>>
readerVars == <<refIO, reader, said>>
writerVars == <<writer, writeMutex, writing, written>>
vars == <<loopVars, fd, object, workContinue, readerVars, writerVars, writeQueue, stray>>

TypeOK ==
    /\ point \in {"none", "live", "finish", "closing", "next", "deleted"}
    /\ frees \in Nat
    /\ fd \in {"none", "open", "closed", "other"}
    /\ object \in {"none", "alive", "dying", "deleted"}
    /\ workContinue \in BOOLEAN /\ refIO \in Nat
    /\ reader \in {"none", "check", "select", "call", "out", "gone"}
    /\ said \in Nat
    /\ writer \in {"none", "top", "pop", "lock", "write", "wait", "gone"}
    /\ writeMutex \in {"free", "writer"}
    /\ writeQueue \in Seq(Nat) /\ writing \in Nat /\ wants \in Nat /\ arrived \in Nat
    /\ written \in Seq(Nat)
    /\ stray \in BOOLEAN

Init ==
    /\ point = "none" /\ frees = 0 /\ fd = "none" /\ object = "none"
    /\ workContinue = FALSE /\ refIO = 0 /\ reader = "none" /\ said = 0
    /\ writer = "none" /\ writeMutex = "free" /\ writeQueue = <<>> /\ writing = 0 /\ wants = 0
    /\ arrived = 0 /\ written = <<>> /\ stray = FALSE

--------------------------------------------------------------------------------
(* What both the loop and the reader call. *)

\* StopWorkOnThread(false, nullptr): the threads are told, and not waited for.
StopWorkOnThread == workContinue' = FALSE

\* Mutant of FreeJDWP: the threads are not told.
FreeJDWPUntold ==
    /\ fd' = IF fd = "open" THEN "closed" ELSE fd
    /\ frees' = frees + 1
    /\ workContinue' = (workContinue /\ reader # "out")

\* FreeJDWP: ctx's fd is closed first; an idle task is to see to the rest.
FreeJDWP ==
    /\ fd' = IF fd = "open" THEN "closed" ELSE fd
    /\ frees' = frees + 1
    /\ StopWorkOnThread

\* FreeContext, under ctxFreeMutex: the first call of any thread does it.
FreeContext ==
    IF point = "live" THEN point' = "finish" /\ FreeJDWP
    ELSE UNCHANGED <<point, fd, frees>>

--------------------------------------------------------------------------------
(* The loop of the session. *)

LoopIsFree == wants = 0 /\ object # "dying"

\* StartWorkOnThread: LoopReadOnThread.
StartWorkOnThread == refIO' = refIO + 1 /\ reader' = "check"

\* A device that does not open leaves -1 in a flag of type uint8_t: to SetupPointContinue
\* that is 255, and it goes on.  A session that is lost refuses the ACTIVE_MASTER.
SetupDevicePoint ==
    /\ point = "none" /\ LoopIsFree
    /\ object' = "alive" /\ writer' = "top"
    /\ \E opened \in {"open", "none"}, sent \in BOOLEAN :
         IF sent
         THEN /\ point' = "live" /\ fd' = opened /\ workContinue' = TRUE
              /\ StartWorkOnThread /\ UNCHANGED frees
         ELSE /\ point' = "finish" /\ fd' = (IF opened = "open" THEN "closed" ELSE opened)
              /\ frees' = frees + 1 /\ StopWorkOnThread /\ UNCHANGED <<refIO, reader>>
    /\ UNCHANGED <<said, writeMutex, writeQueue, writing, wants, arrived, written, stray>>

\* CMD_FORWARD_DATA, SendForwardBuf, WriteWithMem: it is for the write thread.
DataArrives ==
    /\ point = "live" /\ LoopIsFree /\ arrived < MaxArrived
    /\ arrived' = arrived + 1 /\ wants' = arrived + 1
    /\ UNCHANGED <<point, frees, fd, object, workContinue, readerVars, writerVars, writeQueue,
                   stray>>

\* PushWrite and NotifyWrite: the mutex may be held for as long as the device takes.
PushWrite ==
    /\ wants # 0 /\ writeMutex = "free"
    /\ writeQueue' = Append(writeQueue, wants) /\ wants' = 0
    /\ UNCHANGED <<point, frees, arrived, fd, object, workContinue, readerVars, writerVars, stray>>

\* CMD_FORWARD_FREE_CONTEXT, StopTask.
FreeContextArrives ==
    /\ point = "live" /\ LoopIsFree
    /\ FreeContext
    /\ UNCHANGED <<wants, arrived, object, readerVars, writerVars, writeQueue, stray>>

ReadyForRelease == refIO = 0

\* funcReqClose, an idle task: in every turn of the loop until it can delete the object.
DeleteBegins ==
    /\ point = "finish" /\ LoopIsFree /\ object = "alive" /\ ReadyForRelease
    /\ object' = "dying" /\ workContinue' = FALSE
    /\ UNCHANGED <<loopVars, fd, readerVars, writerVars, writeQueue, stray>>

\* ~HdcFileDescriptor sleeps for 10 ms and does not look whether the write thread has left.
DeleteEnds ==
    /\ object = "dying"
    /\ object' = "deleted" /\ point' = "closing"
    /\ UNCHANGED <<frees, wants, arrived, fd, workContinue, readerVars, writerVars, writeQueue,
                   stray>>

FreeContextCallBack ==
    /\ LoopIsFree
    /\ \/ point = "closing" /\ point' = "next"
       \/ point = "next" /\ point' = "deleted"
    /\ UNCHANGED <<frees, wants, arrived, fd, object, workContinue, readerVars, writerVars,
                   writeQueue, stray>>

--------------------------------------------------------------------------------
(* The thread that reads.  What it does with an object that is deleted is not modelled. *)

\* The last steps of FileIOOnThread: the reference is given back before callbackFinish.
Out == refIO' = refIO - 1 /\ reader' = "out"

ReaderChecks ==
    /\ reader = "check"
    /\ IF workContinue THEN reader' = "select" /\ UNCHANGED refIO ELSE Out
    /\ UNCHANGED <<said, loopVars, fd, object, workContinue, writerVars, writeQueue, stray>>

\* select ends within 5 seconds: nothing to read or an interrupt, an error or the end of
\* the device, or a piece.
Selected ==
    /\ reader = "select"
    /\ \/ reader' = "check" /\ UNCHANGED <<refIO, said, stray>>
       \/ Out /\ UNCHANGED <<said, stray>>
       \/ /\ fd \in {"open", "other"} /\ said < MaxSaid
          /\ reader' = "call" /\ said' = said + 1 /\ stray' = (stray \/ fd = "other")
          /\ UNCHANGED refIO
    /\ UNCHANGED <<loopVars, fd, object, workContinue, writerVars, writeQueue>>

\* callbackRead: SendToTask for the context; it fails when the session is lost.
ReadReturns ==
    /\ reader = "call"
    /\ \/ reader' = "check" /\ UNCHANGED refIO
       \/ Out
    /\ UNCHANGED <<said, loopVars, fd, object, workContinue, writerVars, writeQueue, stray>>

\* The work ends, and callbackFinish frees the context.
ReaderFinishes ==
    /\ reader = "out" /\ object # "deleted"
    /\ reader' = "gone" /\ workContinue' = FALSE /\ FreeContext
    /\ UNCHANGED <<wants, arrived, object, refIO, said, writerVars, writeQueue, stray>>

--------------------------------------------------------------------------------
(* The thread that writes: IOWriteThread, HandleWrite, WaitWrite. *)

WriterTop ==
    /\ writer = "top" /\ object # "deleted"
    /\ writer' = IF workContinue THEN "pop" ELSE "gone"
    /\ UNCHANGED <<loopVars, fd, object, workContinue, readerVars, writeMutex, writeQueue, writing,
                   written, stray>>

PopWrite ==
    /\ writer = "pop" /\ object # "deleted"
    /\ IF writeQueue = <<>>
       THEN writer' = "wait" /\ UNCHANGED <<writeQueue, writing>>
       ELSE /\ writer' = "lock" /\ writing' = Head(writeQueue)
            /\ writeQueue' = Tail(writeQueue)
    /\ UNCHANGED <<loopVars, fd, object, workContinue, readerVars, writeMutex, written, stray>>

\* CtxFileIOWrite holds the mutex of the queue for as long as it writes.
WriteBegins ==
    /\ writer = "lock" /\ object # "deleted"
    /\ writer' = "write" /\ writeMutex' = "writer"
    /\ UNCHANGED <<loopVars, fd, object, workContinue, readerVars, writeQueue, writing, written,
                   stray>>

\* Mutant of WriteEnds: a piece that could not be written is queued again.
WriteEndsRequeue ==
    /\ writer = "write" /\ object # "deleted"
    /\ writer' = "pop" /\ writeMutex' = "free" /\ writing' = 0
    /\ \/ fd = "open" /\ written' = Append(written, writing) /\ UNCHANGED writeQueue
       \/ writeQueue' = Append(writeQueue, writing) /\ UNCHANGED written
    /\ stray' = (stray \/ fd = "other")
    /\ UNCHANGED <<loopVars, fd, object, workContinue, readerVars>>

\* The whole piece is written, or an error drops it and the next is tried.
WriteEnds ==
    /\ writer = "write" /\ object # "deleted"
    /\ writer' = "pop" /\ writeMutex' = "free" /\ writing' = 0
    /\ written' \in {written} \cup (IF fd = "open" THEN {Append(written, writing)} ELSE {})
    /\ stray' = (stray \/ fd = "other")
    /\ UNCHANGED <<loopVars, fd, object, workContinue, readerVars, writeQueue>>

\* It wakes when there is a piece or the work ends, and every 30 seconds.
WaitWrite ==
    /\ writer = "wait" /\ object # "deleted"
    /\ writer' = "top"
    /\ UNCHANGED <<loopVars, fd, object, workContinue, readerVars, writeMutex, writeQueue, writing,
                   written, stray>>

\* Another part of the process opens a file.
Reopened ==
    /\ fd = "closed" /\ fd' = "other"
    /\ UNCHANGED <<loopVars, object, workContinue, readerVars, writerVars, writeQueue, stray>>

--------------------------------------------------------------------------------
LoopRuns == PushWrite \/ DeleteBegins \/ DeleteEnds \/ FreeContextCallBack
ReaderRuns == ReaderChecks \/ Selected \/ ReadReturns \/ ReaderFinishes
WriterRuns == WriterTop \/ PopWrite \/ WriteBegins \/ WaitWrite

Next ==
    \/ SetupDevicePoint \/ DataArrives \/ FreeContextArrives \/ LoopRuns
    \/ ReaderRuns \/ WriterRuns \/ WriteEnds \/ Reopened

\* The threads run.  A device may never take what is written to it.
Fairness == WF_vars(LoopRuns) /\ WF_vars(ReaderRuns) /\ WF_vars(WriterRuns)

Spec == Init /\ [][Next]_vars /\ Fairness

--------------------------------------------------------------------------------
(* Properties. *)

\* The device gets the pieces in their order, none twice, whatever the loop, the thread
\* that writes and the end of the point do meanwhile, and whichever pieces a write that
\* fails drops (WriteWithMem, PushWrite, HandleWrite, CtxFileIOWrite).
DeviceInOrder == \A i, j \in DOMAIN written : i < j => written[i] < written[j]

\* A point that is freed is deleted, although nobody wakes the reader and a descriptor
\* that is closed may not end its select (FileIOOnThread looks at workContinue every
\* 5 seconds), unless a device that takes nothing holds up the loop for ever.
PointIsFreed == point = "finish" ~> (point = "deleted" \/ wants # 0)

\* Nobody uses what is deleted: between `--refIO` and callbackFinish the reader still
\* does, and so does a write thread that needs more than 10 ms.  This fails.
NobodyUsesTheDeleted == object = "deleted" => reader # "out" /\ writer \in {"none", "gone"}

\* The threads use their own device: the number is closed under them.  This fails.
UsesItsDevice == ~stray

\* "Open unix-dev failed" (forward.cpp:448) ends the point.  This fails.
OpenIsNeeded == point = "live" => fd # "none"

\* No piece is left out between two that are written.  This fails.
DeviceHasNoGap == written = [i \in 1..Len(written) |-> i]

================================================================================
