-------------------------- MODULE HdcCommandProofs --------------------------
(***************************************************************************)
(* Safety of HdcCommand for every set of commands and every bound.  None   *)
(* of the properties is inductive alone: what a command's file holds       *)
(* depends on who may write to descriptor 1, that on who holds the mutex,  *)
(* and that no other command removes or truncates the file depends on the  *)
(* numbers of the living threads being distinct.  IInv says so.            *)
(***************************************************************************)
EXTENDS HdcCommand, TLAPS

\* The holder of g_cmdMutex is the one thread that is past try_lock_for.
LockHeld == \A c \in Cmd : mutex = c <=> worker[c] \in {"locked", "redirected", "unredirected"}

\* A redirection saved the process's own stdout, not another command's.
SavedIsProcess == \A c \in Cmd : worker[c] = "redirected" => saved[c] = None

\* Since the process started no two threads were given the same number.
Numbered ==
    /\ \A c \in Cmd : worker[c] # "none" => seq[c] < nextSeq
    /\ \A c, d \in Cmd : worker[c] # "none" /\ worker[d] # "none" /\ seq[c] = seq[d] => c = d

\* The queue holds each of its commands once, and none that has begun.
QueueInv ==
    /\ \A i \in 1..Len(queue) : phase[queue[i]] = "queued"
    /\ \A i, j \in 1..Len(queue) : queue[i] = queue[j] => i = j

\* Which commands have a thread, and for which it has ended.
ThreadInv ==
    \A c \in Cmd :
        /\ phase[c] \in {"new", "queued", "past"} => worker[c] = "none"
        /\ phase[c] \in Active => worker[c] # "none"
        /\ phase[c] = "reading" => worker[c] = "done"
        /\ phase[c] \in {"unlinking", "removing", "settled"} /\ result[c].by = "callback"
              => worker[c] = "done"

\* Until its promise is settled a command has its directory, its thread was
\* able to redirect into it, and nobody else wrote to or removed the file.
FileInv ==
    \A c \in Cmd : phase[c] \in {"running", "reading"} =>
        /\ seq[c] \in dir
        /\ worker[c] # "unredirected"
        /\ worker[c] = "redirected" => out[seq[c]].of = c
        /\ worker[c] \in {"posted", "done"} /\ ret[c] # "busy"
              => out[seq[c]] = [of |-> c, full |-> TRUE]

\* A file unlinked for a command whose thread has ended does not come back.
UnlinkedStays ==
    \A c \in Cmd : phase[c] = "removing" /\ result[c].by = "callback" => out[seq[c]] = NoOut

Threads == LockHeld /\ SavedIsProcess /\ StdoutIsOwn
Stages  == Numbered /\ QueueInv /\ ThreadInv /\ RunningIsCurrent
Files   == FileInv /\ UnlinkedStays /\ CallbackCleansUp /\ OutputIsOwn
IInv    == TypeOK /\ Threads /\ Stages /\ Files

-----------------------------------------------------------------------------
LEMMA NoOutType == NoOut \in Content
  BY DEF NoOut, Content

LEMMA OwnOutType ==
    /\ \A c \in Cmd, b \in BOOLEAN : [of |-> c, full |-> b] \in Content
    /\ \A c \in Cmd, b \in BOOLEAN : [of |-> c, full |-> b] # NoOut
  BY NoneAssumption DEF NoOut, Content, NoneAssumption

LEMMA ResultType ==
    \A b \in {"none", "callback", "throw", "timeout", "cancel"}, r \in Ret, o \in Content :
        [by |-> b, ret |-> r, out |-> o] \in Result
  BY DEF Result

LEMMA WrittenType == TypeOK => \A c \in Cmd : Written(c) \in [RunSeq -> Content]
<1> SUFFICES ASSUME TypeOK, NEW c \in Cmd PROVE Written(c) \in [RunSeq -> Content]
  OBVIOUS
<1>1. [of |-> c, full |-> TRUE] \in Content
  BY OwnOutType
<1> QED
  BY <1>1 DEF Written, TypeOK

LEMMA InitInv == Init => IInv
<1> SUFFICES ASSUME Init PROVE IInv
  OBVIOUS
<1>1. TypeOK
  <2>1. NoResult \in Result
    BY NoOutType DEF NoResult, Result, Ret
  <2>2. 0 \in RunSeq /\ 0 \in 0..(MaxSeq + 1) /\ 0 \in 0..MaxCrashes
    BY BoundAssumption DEF BoundAssumption, RunSeq
  <2> QED
    BY <2>1, <2>2, NoOutType DEF Init, TypeOK, Phase, Worker, Ret
<1>2. Threads /\ Stages
  BY NoneAssumption DEF NoneAssumption, Init, Threads, Stages, LockHeld, SavedIsProcess,
     StdoutIsOwn, Numbered, QueueInv, ThreadInv, RunningIsCurrent, Active
<1>3. Files
  BY DEF Init, Files, FileInv, UnlinkedStays, CallbackCleansUp, OutputIsOwn, NoResult
<1> QED
  BY <1>1, <1>2, <1>3 DEF IInv

-----------------------------------------------------------------------------
(* Types.                                                                    *)

LEMMA JsType == TypeOK /\ (cancel \/ \E c \in Cmd : execCommand(c) \/ JsStep(c)) => TypeOK'
<1> SUFFICES ASSUME TypeOK, cancel \/ \E c \in Cmd : execCommand(c) \/ JsStep(c) PROVE TypeOK'
  OBVIOUS
<1>1. CASE cancel
  <2>1. running \in Cmd
    BY <1>1 DEF cancel, TypeOK
  <2>2. [by |-> "cancel", ret |-> "failed", out |-> out[seq[running]]] \in Result
    BY <2>1, ResultType DEF TypeOK, Ret
  <2> QED
    BY <1>1, <2>1, <2>2 DEF TypeOK, cancel, Settle, clearState, Phase, native, disk
<1>2. ASSUME NEW c \in Cmd, execCommand(c) PROVE TypeOK'
  BY <1>2 DEF TypeOK, execCommand, Phase, native, disk
<1>3. ASSUME NEW c \in Cmd, execute(c) PROVE TypeOK'
  <2>1. nextSeq + 1 \in 0..(MaxSeq + 1)
    BY <1>3, BoundAssumption DEF BoundAssumption, execute, RunSeq
  <2>2. Tail(queue) \in Seq(Cmd)
    BY <1>3 DEF TypeOK, execute, AtHead
  <2> QED
    BY <1>3, <2>1, <2>2 DEF TypeOK, execute, Phase, Worker
<1>4. ASSUME NEW c \in Cmd, executeThrows(c) PROVE TypeOK'
  <2>1. Tail(queue) \in Seq(Cmd)
    BY <1>4 DEF TypeOK, executeThrows, AtHead
  <2>2. [by |-> "throw", ret |-> "failed", out |-> NoOut] \in Result
    BY ResultType, NoOutType DEF Ret
  <2> QED
    BY <1>4, <2>1, <2>2 DEF TypeOK, executeThrows, Phase, native, disk
<1>5. ASSUME NEW c \in Cmd, Callback(c) PROVE TypeOK'
  BY <1>5 DEF TypeOK, Callback, clearState, Phase, Worker, disk
<1>6. ASSUME NEW c \in Cmd, finishWithFiles(c) PROVE TypeOK'
  <2>1. PICK o \in {out[seq[c]], NoOut} :
            Settle(c, [by |-> "callback", ret |-> ret[c], out |-> o])
    BY <1>6 DEF finishWithFiles
  <2>2. [by |-> "callback", ret |-> ret[c], out |-> o] \in Result
    BY NoOutType, ResultType DEF TypeOK
  <2> QED
    BY <1>6, <2>1, <2>2 DEF TypeOK, finishWithFiles, Settle, Phase, native, disk
<1>7. ASSUME NEW c \in Cmd, Timeout(c) PROVE TypeOK'
  <2>1. [by |-> "timeout", ret |-> "failed", out |-> NoOut] \in Result
    BY NoOutType, ResultType DEF Ret
  <2> QED
    BY <1>7, <2>1 DEF TypeOK, Timeout, Settle, clearState, Phase, native, disk
<1>8. ASSUME NEW c \in Cmd, Unlink(c) \/ Rmdir(c) PROVE TypeOK'
  BY <1>8, NoOutType DEF TypeOK, Unlink, Rmdir, Phase, native, disk
<1> QED
  BY <1>1, <1>2, <1>3, <1>4, <1>5, <1>6, <1>7, <1>8 DEF JsStep

LEMMA WorkerType == TypeOK /\ (Crash \/ \E c \in Cmd : WorkerStep(c)) => TypeOK'
<1> SUFFICES ASSUME TypeOK, Crash \/ \E c \in Cmd : WorkerStep(c) PROVE TypeOK'
  OBVIOUS
<1>1. CASE Crash
  <2>1. crashes' \in 0..MaxCrashes /\ nextSeq' \in 0..(MaxSeq + 1)
    BY <1>1, BoundAssumption DEF BoundAssumption, Crash, TypeOK
  <2> QED
    BY <1>1, <2>1 DEF TypeOK, Crash, Phase, Worker, disk
<1>2. ASSUME NEW c \in Cmd, TakeLock(c) \/ GiveUp(c) PROVE TypeOK'
  BY <1>2 DEF TypeOK, TakeLock, GiveUp, js, disk, Worker, Ret
<1>3. ASSUME NEW c \in Cmd, Redirect(c) PROVE TypeOK'
  <2>1. [of |-> c, full |-> FALSE] \in Content
    BY OwnOutType
  <2>2. out' \in [RunSeq -> Content]
    BY <1>3, <2>1 DEF TypeOK, Redirect
  <2> QED
    BY <1>3, <2>2 DEF TypeOK, Redirect, js, Worker
<1>4. ASSUME NEW c \in Cmd, Return(c) PROVE TypeOK'
  BY <1>4, WrittenType DEF TypeOK, Return, js, Worker, Ret
<1> QED
  BY <1>1, <1>2, <1>3, <1>4 DEF WorkerStep

LEMMA NextType == TypeOK /\ [Next]_vars => TypeOK'
<1>1. TypeOK /\ UNCHANGED vars => TypeOK'
  BY DEF TypeOK, vars, js, native, disk
<1> QED
  BY JsType, WorkerType, <1>1 DEF Next

-----------------------------------------------------------------------------
(* The mutex and descriptor 1.                                               *)

\* A command at the head of the queue has not begun.
LEMMA HeadIsNew ==
    ASSUME TypeOK, Stages, NEW c \in Cmd, AtHead(c)
    PROVE  /\ phase[c] = "queued" /\ worker[c] = "none"
           /\ \A d \in Cmd : phase[d] \notin Active
<1>1. queue \in Seq(Cmd) /\ queue # <<>> /\ c = queue[1] /\ 1 \in 1..Len(queue)
  BY DEF TypeOK, AtHead
<1>2. phase[c] = "queued"
  BY <1>1 DEF Stages, QueueInv
<1> QED
  BY <1>2 DEF Stages, ThreadInv, AtHead

LEMMA ThreadsInv == TypeOK /\ Threads /\ Stages /\ [Next]_vars => Threads'
<1> SUFFICES ASSUME TypeOK, Threads, Stages, [Next]_vars PROVE Threads'
  OBVIOUS
<1> USE NoneAssumption DEF NoneAssumption, TypeOK, Threads, LockHeld, SavedIsProcess,
        StdoutIsOwn
<1>1. CASE cancel \/ UNCHANGED vars
  BY <1>1 DEF cancel, Settle, vars, native
<1>2. CASE Crash
  BY <1>2 DEF Crash
<1>3. ASSUME NEW c \in Cmd,
             execCommand(c) \/ executeThrows(c) \/ finishWithFiles(c) \/ Timeout(c)
                \/ Unlink(c) \/ Rmdir(c)
      PROVE Threads'
  BY <1>3 DEF execCommand, executeThrows, finishWithFiles, Timeout, Settle, Unlink, Rmdir, native
<1>4. ASSUME NEW c \in Cmd, execute(c) PROVE Threads'
  <2>1. worker[c] = "none"
    BY <1>4, HeadIsNew DEF execute
  <2> QED
    BY <1>4, <2>1 DEF execute
<1>5. ASSUME NEW c \in Cmd, Callback(c) \/ GiveUp(c) PROVE Threads'
  BY <1>5 DEF Callback, GiveUp
<1>6. ASSUME NEW c \in Cmd, TakeLock(c) PROVE Threads'
  BY <1>6 DEF TakeLock
<1>7. ASSUME NEW c \in Cmd, Redirect(c) PROVE Threads'
  BY <1>7 DEF Redirect
<1>8. ASSUME NEW c \in Cmd, Return(c) PROVE Threads'
  BY <1>8 DEF Return, InCmd
<1> QED
  BY <1>1, <1>2, <1>3, <1>4, <1>5, <1>6, <1>7, <1>8 DEF Next, JsStep, WorkerStep

-----------------------------------------------------------------------------
(* The queue, the numbers and the lives of the threads.                      *)

LEMMA NumberedInv == TypeOK /\ Stages /\ [Next]_vars => Numbered'
<1> SUFFICES ASSUME TypeOK, Stages, [Next]_vars PROVE Numbered'
  OBVIOUS
<1>1. \A c \in Cmd : seq[c] \in Nat /\ nextSeq \in Nat
  BY BoundAssumption DEF BoundAssumption, TypeOK, RunSeq
<1> USE DEF TypeOK, Stages, Numbered
<1>2. CASE cancel \/ UNCHANGED vars
  BY <1>2 DEF cancel, Settle, vars, native
<1>3. CASE Crash
  BY <1>3 DEF Crash
<1>4. ASSUME NEW c \in Cmd,
             execCommand(c) \/ executeThrows(c) \/ finishWithFiles(c) \/ Timeout(c)
                \/ Unlink(c) \/ Rmdir(c)
      PROVE Numbered'
  BY <1>4 DEF execCommand, executeThrows, finishWithFiles, Timeout, Settle, Unlink, Rmdir, native
<1>5. ASSUME NEW c \in Cmd, execute(c) PROVE Numbered'
  BY <1>5, <1>1 DEF execute
<1>6. ASSUME NEW c \in Cmd, Callback(c) \/ WorkerStep(c) PROVE Numbered'
  <2>1. UNCHANGED <<seq, nextSeq>> /\ worker[c] # "none"
    BY <1>6 DEF Callback, WorkerStep, TakeLock, GiveUp, Redirect, Return, InCmd
  <2>2. \A d \in Cmd : worker'[d] # "none" => worker[d] # "none"
    BY <1>6, <2>1 DEF Callback, WorkerStep, TakeLock, GiveUp, Redirect, Return
  <2> QED
    BY <2>1, <2>2
<1> QED
  BY <1>2, <1>3, <1>4, <1>5, <1>6 DEF Next, JsStep

LEMMA QueueStays == TypeOK /\ Stages /\ [Next]_vars => QueueInv'
<1> SUFFICES ASSUME TypeOK, Stages, [Next]_vars PROVE QueueInv'
  OBVIOUS
<1>1. queue \in Seq(Cmd) /\ phase \in [Cmd -> Phase] /\ QueueInv
  BY DEF TypeOK, Stages
\* The head leaves the queue, and with it its only entry.
<1>2. ASSUME NEW c \in Cmd, AtHead(c), queue' = Tail(queue),
             NEW p \in Phase, phase' = [phase EXCEPT ![c] = p]
      PROVE  QueueInv'
  <2>1. queue # <<>> /\ c = queue[1] /\ Len(queue) \in Nat /\ Len(queue) > 0
    BY <1>1, <1>2 DEF AtHead
  <2>2. Len(queue') = Len(queue) - 1 /\ \A i \in 1..Len(queue') : queue'[i] = queue[i + 1]
    BY <1>1, <1>2, <2>1
  <2>3. \A i \in 1..Len(queue') : i + 1 \in 1..Len(queue) /\ i + 1 # 1 /\ queue[i + 1] \in Cmd
    BY <1>1, <2>1, <2>2
  <2>4. \A i \in 1..Len(queue') : queue'[i] # c /\ phase'[queue'[i]] = "queued"
    BY <1>1, <1>2, <2>1, <2>2, <2>3 DEF QueueInv
  <2>5. \A i, j \in 1..Len(queue') : queue'[i] = queue'[j] => i = j
    BY <1>1, <2>1, <2>2, <2>3 DEF QueueInv
  <2> QED
    BY <2>4, <2>5 DEF QueueInv
\* A command that is not queued changes its phase.
<1>3. ASSUME NEW c \in Cmd, phase[c] # "queued", UNCHANGED queue,
             NEW p \in Phase, phase' = [phase EXCEPT ![c] = p]
      PROVE  QueueInv'
  <2>1. \A i \in 1..Len(queue) : queue[i] \in Cmd /\ queue[i] # c
    BY <1>1, <1>3 DEF QueueInv
  <2> QED
    BY <1>1, <1>3, <2>1 DEF QueueInv
<1>4. CASE UNCHANGED <<queue, phase>>
  BY <1>1, <1>4 DEF QueueInv
<1>5. CASE Crash
  BY <1>5 DEF Crash, QueueInv
<1>6. ASSUME NEW c \in Cmd, execCommand(c) PROVE QueueInv'
  <2>1. \A i \in 1..Len(queue) : queue[i] \in Cmd /\ queue[i] # c /\ queue'[i] = queue[i]
    BY <1>1, <1>6 DEF execCommand, QueueInv
  <2>2. Len(queue') = Len(queue) + 1 /\ queue'[Len(queue) + 1] = c /\ phase'[c] = "queued"
    BY <1>1, <1>6 DEF execCommand
  <2>3. \A i \in 1..Len(queue) : phase'[queue'[i]] = "queued"
    BY <1>1, <1>6, <2>1 DEF execCommand, QueueInv
  <2>4. \A i \in 1..Len(queue') : i \in 1..Len(queue) \/ i = Len(queue) + 1
    BY <1>1, <2>2
  <2> QED
    BY <1>1, <2>1, <2>2, <2>3, <2>4 DEF QueueInv
<1>7. ASSUME NEW c \in Cmd, execute(c) \/ executeThrows(c) PROVE QueueInv'
  BY <1>2, <1>7 DEF execute, executeThrows, Phase
<1>8. ASSUME NEW c \in Cmd,
             Callback(c) \/ finishWithFiles(c) \/ Timeout(c) \/ Unlink(c) \/ Rmdir(c)
      PROVE  QueueInv'
  BY <1>3, <1>4, <1>8
  DEF Callback, finishWithFiles, Timeout, Settle, Unlink, Rmdir, Phase
<1>9. CASE cancel
  <2>1. running \in Cmd /\ phase[running] # "queued"
    BY <1>9 DEF cancel, TypeOK, Stages, RunningIsCurrent
  <2> QED
    BY <1>3, <1>9, <2>1 DEF cancel, Settle, Phase
<1>10. CASE UNCHANGED vars \/ \E c \in Cmd : WorkerStep(c)
  BY <1>4, <1>10 DEF vars, js, WorkerStep, TakeLock, GiveUp, Redirect, Return
<1> QED
  BY <1>5, <1>6, <1>7, <1>8, <1>9, <1>10 DEF Next, JsStep

LEMMA ThreadStays == TypeOK /\ Stages /\ [Next]_vars => ThreadInv' /\ RunningIsCurrent'
<1> SUFFICES ASSUME TypeOK, Stages, [Next]_vars PROVE ThreadInv' /\ RunningIsCurrent'
  OBVIOUS
<1> USE NoneAssumption DEF NoneAssumption, TypeOK, ThreadInv, RunningIsCurrent, Active
<1>1. ThreadInv /\ RunningIsCurrent
  BY DEF Stages
<1>2. CASE cancel
  BY <1>1, <1>2 DEF cancel, clearState, Settle, native
<1>3. CASE Crash
  BY <1>1, <1>3 DEF Crash
<1>4. ASSUME NEW c \in Cmd, execCommand(c) PROVE ThreadInv' /\ RunningIsCurrent'
  BY <1>1, <1>4 DEF execCommand, native
<1>5. ASSUME NEW c \in Cmd, execute(c) PROVE ThreadInv' /\ RunningIsCurrent'
  BY <1>1, <1>5, HeadIsNew DEF execute
<1>6. ASSUME NEW c \in Cmd, executeThrows(c) PROVE ThreadInv' /\ RunningIsCurrent'
  BY <1>1, <1>6, HeadIsNew DEF executeThrows, native
<1>7. ASSUME NEW c \in Cmd, Callback(c) PROVE ThreadInv' /\ RunningIsCurrent'
  BY <1>1, <1>7 DEF Callback, clearState
<1>8. ASSUME NEW c \in Cmd, finishWithFiles(c) PROVE ThreadInv' /\ RunningIsCurrent'
  BY <1>1, <1>8 DEF finishWithFiles, Settle, native
<1>9. ASSUME NEW c \in Cmd, Timeout(c) PROVE ThreadInv' /\ RunningIsCurrent'
  BY <1>1, <1>9 DEF Timeout, clearState, Settle, native
<1>10. ASSUME NEW c \in Cmd, Unlink(c) \/ Rmdir(c) PROVE ThreadInv' /\ RunningIsCurrent'
  BY <1>1, <1>10 DEF Unlink, Rmdir, native
<1>11. ASSUME NEW c \in Cmd, WorkerStep(c) PROVE ThreadInv' /\ RunningIsCurrent'
  BY <1>1, <1>11 DEF WorkerStep, TakeLock, GiveUp, Redirect, Return, InCmd, js
<1>12. CASE UNCHANGED vars
  BY <1>1, <1>12 DEF vars, js, native
<1> QED
  BY <1>2, <1>3, <1>4, <1>5, <1>6, <1>7, <1>8, <1>9, <1>10, <1>11, <1>12 DEF Next, JsStep

LEMMA StagesInv == TypeOK /\ Stages /\ [Next]_vars => Stages'
  BY NumberedInv, QueueStays, ThreadStays DEF Stages

-----------------------------------------------------------------------------
(* The files.                                                                *)

\* One command's system calls leave every other living thread's file alone.
LEMMA OthersFile ==
    ASSUME TypeOK, Stages, NEW c \in Cmd, NEW d \in Cmd,
           worker[c] # "none", worker[d] # "none", c # d
    PROVE  seq[c] # seq[d]
  BY DEF Stages, Numbered

LEMMA FilesJs ==
    TypeOK /\ Stages /\ Files /\ (cancel \/ \E c \in Cmd : execCommand(c) \/ JsStep(c))
      => Files'
<1> SUFFICES ASSUME TypeOK, Stages, Files,
                    cancel \/ \E c \in Cmd : execCommand(c) \/ JsStep(c)
             PROVE  Files'
  OBVIOUS
<1>0. ThreadInv /\ RunningIsCurrent
  BY DEF Stages
<1> USE DEF TypeOK, Files, FileInv, UnlinkedStays, CallbackCleansUp, OutputIsOwn, ThreadInv, Active
<1>1. CASE cancel
  BY <1>0, <1>1 DEF cancel, Settle, native, disk
<1>2. ASSUME NEW c \in Cmd, execCommand(c) PROVE Files'
  BY <1>0, <1>2 DEF execCommand, native, disk
<1>3. ASSUME NEW c \in Cmd, execute(c) PROVE Files'
  <2>1. \A d \in Cmd : worker[d] # "none" => seq[d] # nextSeq
    BY BoundAssumption DEF BoundAssumption, Stages, Numbered, RunSeq
  <2> QED
    BY <1>0, <1>3, <2>1, HeadIsNew DEF execute
<1>4. ASSUME NEW c \in Cmd, executeThrows(c) PROVE Files'
  BY <1>0, <1>4, HeadIsNew DEF executeThrows, native, disk
<1>5. ASSUME NEW c \in Cmd, Callback(c) PROVE Files'
  BY <1>0, <1>5 DEF Callback, disk
<1>6. ASSUME NEW c \in Cmd, finishWithFiles(c) PROVE Files'
  <2>1. PICK o \in {out[seq[c]], NoOut} :
            Settle(c, [by |-> "callback", ret |-> ret[c], out |-> o])
    BY <1>6 DEF finishWithFiles
  <2>2. ret[c] # "busy" => o \in {[of |-> c, full |-> TRUE], NoOut}
    BY <1>0, <1>6 DEF finishWithFiles
  <2>3. /\ phase' = [phase EXCEPT ![c] = "unlinking"]
        /\ result'[c].by = "callback" /\ result'[c].ret = ret[c] /\ result'[c].out = o
        /\ \A d \in Cmd : d # c => result'[d] = result[d]
        /\ UNCHANGED <<seq, worker, ret, dir, out>>
    BY <2>1 DEF Settle, native, disk
  <2>4. FileInv' /\ UnlinkedStays' /\ CallbackCleansUp'
    BY <2>3
  <2>5. OutputIsOwn'
    BY <2>2, <2>3
  <2> QED
    BY <2>4, <2>5
<1>7. ASSUME NEW c \in Cmd, Timeout(c) PROVE Files'
  BY <1>0, <1>7 DEF Timeout, Settle, native, disk
<1>8. ASSUME NEW c \in Cmd, Unlink(c) PROVE Files'
  <2>1. \A d \in Cmd : d # c /\ worker[d] # "none" => seq[d] # seq[c]
    BY <1>0, <1>8, OthersFile DEF Unlink
  <2> QED
    BY <1>0, <1>8, <2>1 DEF Unlink, native
<1>9. ASSUME NEW c \in Cmd, Rmdir(c) PROVE Files'
  <2>1. \A d \in Cmd : d # c /\ worker[d] # "none" => seq[d] # seq[c]
    BY <1>0, <1>9, OthersFile DEF Rmdir
  <2> QED
    BY <1>0, <1>9, <2>1 DEF Rmdir, native
<1> QED
  BY <1>1, <1>2, <1>3, <1>4, <1>5, <1>6, <1>7, <1>8, <1>9 DEF JsStep

LEMMA FilesWorker ==
    TypeOK /\ Threads /\ Stages /\ Files
      /\ (Crash \/ UNCHANGED vars \/ \E c \in Cmd : WorkerStep(c)) => Files'
<1> SUFFICES ASSUME TypeOK, Threads, Stages, Files,
                    Crash \/ UNCHANGED vars \/ \E c \in Cmd : WorkerStep(c)
             PROVE  Files'
  OBVIOUS
<1>0. ThreadInv
  BY DEF Stages
<1> USE DEF TypeOK, Files, FileInv, UnlinkedStays, CallbackCleansUp, OutputIsOwn, ThreadInv, Active
<1>1. CASE Crash
  BY <1>0, <1>1 DEF Crash, disk
<1>2. CASE UNCHANGED vars
  BY <1>2 DEF vars, js, native, disk
<1>3. ASSUME NEW c \in Cmd, TakeLock(c) \/ GiveUp(c) PROVE Files'
  BY <1>0, <1>3 DEF TakeLock, GiveUp, js, disk
<1>4. ASSUME NEW c \in Cmd, Redirect(c) PROVE Files'
  <2>1. \A d \in Cmd : d # c /\ worker[d] # "none" => seq[d] # seq[c]
    BY <1>4, OthersFile DEF Redirect
  <2> QED
    BY <1>0, <1>4, <2>1 DEF Redirect, js
<1>5. ASSUME NEW c \in Cmd, Return(c) PROVE Files'
  \* Descriptor 1 is c's file or, if c could not redirect, nobody's.
  <2>1. stdout = (IF worker[c] = "redirected" THEN c ELSE None)
    BY <1>5, NoneAssumption
    DEF NoneAssumption, Return, InCmd, Threads, StdoutIsOwn, LockHeld
  <2>2. \A d \in Cmd : d # c /\ worker[d] # "none" => out'[seq[d]] = out[seq[d]]
    <3> SUFFICES ASSUME NEW d \in Cmd, d # c, worker[d] # "none"
                 PROVE  out'[seq[d]] = out[seq[d]]
      OBVIOUS
    <3>1. seq[d] # seq[c]
      BY <1>5, OthersFile DEF Return, InCmd
    <3> QED
      BY <1>5, <2>1, <3>1 DEF Return, Written
  <2>3. phase[c] \in {"running", "reading"} => out'[seq[c]] = [of |-> c, full |-> TRUE]
    BY <1>5, <2>1, NoneAssumption DEF NoneAssumption, Return, InCmd, Written
  <2>4. /\ worker[c] \in {"redirected", "unredirected"}
        /\ worker' = [worker EXCEPT ![c] = "posted"]
        /\ \A d \in Cmd : d # c => ret'[d] = ret[d]
        /\ UNCHANGED <<phase, result, seq, dir>>
    BY <1>5 DEF Return, InCmd, js
  <2>5. FileInv'
    <3> SUFFICES ASSUME NEW d \in Cmd, (phase[d] \in {"running", "reading"})'
                 PROVE  (/\ seq[d] \in dir
                         /\ worker[d] # "unredirected"
                         /\ worker[d] = "redirected" => out[seq[d]].of = d
                         /\ worker[d] \in {"posted", "done"} /\ ret[d] # "busy"
                               => out[seq[d]] = [of |-> d, full |-> TRUE])'
      BY DEF FileInv
    <3>1. CASE d = c
      BY <1>0, <2>3, <2>4, <3>1
    <3>2. CASE d # c
      BY <1>0, <2>2, <2>4, <3>2
    <3> QED
      BY <3>1, <3>2
  <2>6. UnlinkedStays'
    BY <1>0, <2>2, <2>4
  <2>7. CallbackCleansUp' /\ OutputIsOwn'
    BY <2>4
  <2> QED
    BY <2>5, <2>6, <2>7
<1> QED
  BY <1>1, <1>2, <1>3, <1>4, <1>5 DEF WorkerStep

-----------------------------------------------------------------------------
LEMMA Inductive == Spec => []IInv
<1>1. IInv /\ [Next]_vars => IInv'
  BY NextType, ThreadsInv, StagesInv, FilesJs, FilesWorker DEF IInv, Next
<1> QED
  BY InitInv, <1>1, PTL DEF Spec

\* Every reachable state is well typed.
THEOREM TypeCorrect == Spec => []TypeOK
<1>1. IInv => TypeOK
  BY DEF IInv
<1> QED
  BY Inductive, <1>1, PTL

\* However many commands outlive their promises, what a redirected command
\* prints goes to its own file, and descriptor 1 is given back.
THEOREM StdoutKept == Spec => []StdoutIsOwn
<1>1. IInv => StdoutIsOwn
  BY DEF IInv, Threads
<1> QED
  BY Inductive, <1>1, PTL

\* A command settled by its callback is resolved with its own whole output,
\* after any number of restarts among the directories of killed processes.
THEOREM OutputKept == Spec => []OutputIsOwn
<1>1. IInv => OutputIsOwn
  BY DEF IInv, Files
<1> QED
  BY Inductive, <1>1, PTL

\* A command settled by its callback leaves no run directory behind.
THEOREM CleanedUp == Spec => []CallbackCleansUp
<1>1. IInv => CallbackCleansUp
  BY DEF IInv, Files
<1> QED
  BY Inductive, <1>1, PTL

\* cancel() acts on the one command that is executing.
THEOREM CancelHitsCurrent == Spec => []RunningIsCurrent
<1>1. IInv => RunningIsCurrent
  BY DEF IInv, Stages
<1> QED
  BY Inductive, <1>1, PTL

\* No callback, timer or cancel touches a promise that is settled.
THEOREM SettledForGood == Spec => SettlesOnce
<1> DEFINE Kept == \A c \in Cmd : phase[c] = "settled" =>
                       phase'[c] \in {"settled", "past"} /\ result'[c] = result[c]
<1>1. IInv /\ Next => Kept
  <2> SUFFICES ASSUME IInv, Next PROVE Kept
    OBVIOUS
  <2> USE DEF TypeOK, Active
  <2>0. TypeOK /\ Stages
    BY DEF IInv
  <2>1. CASE Crash
    BY <2>0, <2>1 DEF Crash
  <2>2. CASE cancel
    <3>1. phase[running] = "running"
      BY <2>0, <2>2 DEF cancel, Stages, RunningIsCurrent
    <3> QED
      BY <2>0, <2>2, <3>1 DEF cancel, Settle
  <2>3. ASSUME NEW c \in Cmd, execute(c) \/ executeThrows(c) PROVE Kept
    <3>1. phase[c] = "queued"
      BY <2>0, <2>3, HeadIsNew DEF execute, executeThrows
    <3> QED
      BY <2>0, <2>3, <3>1 DEF execute, executeThrows
  <2>4. ASSUME NEW c \in Cmd, execCommand(c) \/ Callback(c) \/ Unlink(c) \/ Rmdir(c) PROVE Kept
    BY <2>0, <2>4 DEF execCommand, Callback, Unlink, Rmdir
  <2>5. ASSUME NEW c \in Cmd, finishWithFiles(c) \/ Timeout(c) PROVE Kept
    BY <2>0, <2>5 DEF finishWithFiles, Timeout, Settle
  <2>6. ASSUME NEW c \in Cmd, WorkerStep(c) PROVE Kept
    BY <2>0, <2>6 DEF WorkerStep, TakeLock, GiveUp, Redirect, Return, js
  <2> QED
    BY <2>1, <2>2, <2>3, <2>4, <2>5, <2>6 DEF Next, JsStep
<1>2. IInv /\ [Next]_vars => [Kept]_vars
  BY <1>1
<1>3. [][Kept]_vars => SettlesOnce
  BY DEF SettlesOnce
<1> QED
  BY Inductive, <1>2, <1>3, PTL DEF Spec
=============================================================================
