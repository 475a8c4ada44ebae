----------------------------- MODULE HdcCommand -----------------------------
(***************************************************************************)
(* One hdc command from HdcService.execCommand to its settled promise:     *)
(* the promise queue and per-command ExecState of utils/HdcService.ets,    *)
(* the detached worker thread and timed mutex of hdctools/napi.cpp, the    *)
(* process-wide stdout redirection of cmd() in hdctools/main.cpp, and the  *)
(* run_<seq> directories, which outlive the process while <seq> does not.  *)
(*                                                                         *)
(* hdc.err is opened, read and removed right beside hdc.out in every step  *)
(* and is left out.  A file's content is the command whose output it holds *)
(* and whether that output is complete.                                    *)
(***************************************************************************)
EXTENDS Naturals, Sequences

CONSTANTS
    Cmd,         \* the commands ever given to execCommand
    None,
    MaxSeq,      \* bound on run_<seq> numbers
    MaxCrashes   \* bound on kills of the app process

ASSUME NoneAssumption == None \notin Cmd
ASSUME BoundAssumption == MaxSeq \in Nat /\ MaxCrashes \in Nat

VARIABLES
    queue,     \* commands chained on queueTail whose execute has not begun
    phase,     \* per command: where its promise is (Phase below)
    running,   \* this.running
    result,    \* per command: what its promise is resolved with
    seq,       \* per command: the number in its runDir
    nextSeq,   \* g_cmdSeq
    worker,    \* per command: where its detached thread is (Worker below)
    mutex,     \* the holder of g_cmdMutex
    ret,       \* per command: what its thread returns
    stdout,    \* whose file descriptor 1 writes to; None: the process's own
    saved,     \* per command: savedStdout
    dir,       \* the run directories on disk, by number
    out,       \* per number: the content of run_<seq>/hdc.out
    crashes

js     == <<queue, phase, running, result>>
native == <<seq, nextSeq, worker, mutex, ret, stdout, saved>>
disk   == <<dir, out>>
vars   == <<js, native, disk, crashes>>

RunSeq  == 0..MaxSeq
Content == [of : Cmd \cup {None}, full : BOOLEAN]
NoOut   == [of |-> None, full |-> FALSE]   \* absent, unreadable or empty

Ret    == {"ok", "failed", "busy", "none"}
Result == [by : {"none", "callback", "throw", "timeout", "cancel"}, ret : Ret, out : Content]
NoResult == [by |-> "none", ret |-> "none", out |-> NoOut]

\* "unlinking" and "removing" are the two system calls of cleanupRunDir;
\* "past" is a command of a process that has been killed.
Phase  == {"new", "queued", "running", "reading", "unlinking", "removing", "settled", "past"}
Worker == {"none", "waiting", "locked", "redirected", "unredirected", "posted", "done"}

Active == {"running", "reading", "unlinking", "removing"}
InCmd  == {"redirected", "unredirected"}

\* The ArkTS thread is between two turns of its event loop.
TurnOver == \A c \in Cmd : phase[c] \notin {"unlinking", "removing"}

Init ==
    /\ queue = <<>> /\ running = None
    /\ phase = [c \in Cmd |-> "new"] /\ result = [c \in Cmd |-> NoResult]
    /\ seq = [c \in Cmd |-> 0] /\ nextSeq = 0
    /\ worker = [c \in Cmd |-> "none"] /\ mutex = None
    /\ ret = [c \in Cmd |-> "none"]
    /\ stdout = None /\ saved = [c \in Cmd |-> None]
    /\ dir = {} /\ out = [k \in RunSeq |-> NoOut]
    /\ crashes = 0

-----------------------------------------------------------------------------
(* HdcService, on the ArkTS thread.                                          *)

execCommand(c) ==
    /\ TurnOver /\ phase[c] = "new"
    /\ queue' = Append(queue, c)
    /\ phase' = [phase EXCEPT ![c] = "queued"]
    /\ UNCHANGED <<running, result, native, disk, crashes>>

\* Mutant of AtHead: a command waits for the thread of the one before, too.
AtHeadAwaitingThread(c) ==
    /\ TurnOver /\ queue # <<>> /\ c = Head(queue)
    /\ \A d \in Cmd : phase[d] \notin Active /\ worker[d] \in {"none", "done"}

\* The head of queueTail runs once the promise before it has settled.
AtHead(c) ==
    /\ TurnOver /\ queue # <<>> /\ c = Head(queue)
    /\ \A d \in Cmd : phase[d] \notin Active

\* execute, and HdcCmd on the same thread: mkdir keeps a directory that is there.
execute(c) ==
    /\ AtHead(c) /\ nextSeq \in RunSeq
    /\ queue' = Tail(queue)
    /\ phase' = [phase EXCEPT ![c] = "running"]
    /\ running' = c
    /\ seq' = [seq EXCEPT ![c] = nextSeq]
    /\ nextSeq' = nextSeq + 1
    /\ dir' = dir \cup {nextSeq}
    /\ worker' = [worker EXCEPT ![c] = "waiting"]
    /\ UNCHANGED <<result, mutex, ret, stdout, saved, out, crashes>>

\* hdcCmd throws before it starts a thread.
executeThrows(c) ==
    /\ AtHead(c)
    /\ queue' = Tail(queue)
    /\ phase' = [phase EXCEPT ![c] = "settled"]
    /\ running' = None
    /\ result' = [result EXCEPT ![c] = [by |-> "throw", ret |-> "failed", out |-> NoOut]]
    /\ UNCHANGED <<native, disk, crashes>>

clearState(c) == running' = IF running = c THEN None ELSE running

\* Mutant of Callback: `settled' is not tested.
CallbackUnchecked(c) ==
    /\ TurnOver /\ worker[c] = "posted"
    /\ worker' = [worker EXCEPT ![c] = "done"]
    /\ clearState(c) /\ phase' = [phase EXCEPT ![c] = "reading"]
    /\ UNCHANGED <<queue, result, seq, nextSeq, mutex, ret, stdout, saved, disk, crashes>>

\* The callback of hdcCmd.  A command already settled ignores it.
Callback(c) ==
    /\ TurnOver /\ worker[c] = "posted"
    /\ worker' = [worker EXCEPT ![c] = "done"]
    /\ IF phase[c] = "running"
       THEN clearState(c) /\ phase' = [phase EXCEPT ![c] = "reading"]
       ELSE UNCHANGED <<running, phase>>
    /\ UNCHANGED <<queue, result, seq, nextSeq, mutex, ret, stdout, saved, disk, crashes>>

\* The promise is to be resolved with res when cleanupRunDir is done.
Settle(c, res) ==
    /\ phase' = [phase EXCEPT ![c] = "unlinking"]
    /\ result' = [result EXCEPT ![c] = res]
    /\ UNCHANGED <<queue, native, disk, crashes>>

\* The await of finishWithFiles; a read that fails counts as no output.
finishWithFiles(c) ==
    /\ TurnOver /\ phase[c] = "reading"
    /\ \E o \in {out[seq[c]], NoOut} :
          Settle(c, [by |-> "callback", ret |-> ret[c], out |-> o])
    /\ UNCHANGED running

Timeout(c) ==
    /\ TurnOver /\ phase[c] = "running"
    /\ clearState(c)
    /\ Settle(c, [by |-> "timeout", ret |-> "failed", out |-> NoOut])

\* cancel, which destroy calls too; what the file holds so far is returned.
cancel ==
    /\ TurnOver /\ running # None
    /\ clearState(running)
    /\ Settle(running, [by |-> "cancel", ret |-> "failed", out |-> out[seq[running]]])

\* cleanupRunDir: unlinkSync, then rmdirSync, which fails on a directory that
\* the worker has put a file in meanwhile.
Unlink(c) ==
    /\ phase[c] = "unlinking"
    /\ out' = [out EXCEPT ![seq[c]] = NoOut]
    /\ phase' = [phase EXCEPT ![c] = "removing"]
    /\ UNCHANGED <<queue, running, result, native, dir, crashes>>

Rmdir(c) ==
    /\ phase[c] = "removing"
    /\ dir' = IF out[seq[c]] = NoOut THEN dir \ {seq[c]} ELSE dir
    /\ phase' = [phase EXCEPT ![c] = "settled"]
    /\ UNCHANGED <<queue, running, result, native, out, crashes>>

-----------------------------------------------------------------------------
(* The worker thread of HdcCmd, and cmd().                                   *)

TakeLock(c) ==
    /\ worker[c] = "waiting" /\ mutex = None
    /\ mutex' = c
    /\ worker' = [worker EXCEPT ![c] = "locked"]
    /\ UNCHANGED <<js, seq, nextSeq, ret, stdout, saved, disk, crashes>>

\* try_lock_for ends after CMD_LOCK_WAIT_MS.
GiveUp(c) ==
    /\ worker[c] = "waiting" /\ mutex # None
    /\ ret' = [ret EXCEPT ![c] = "busy"]
    /\ worker' = [worker EXCEPT ![c] = "posted"]
    /\ UNCHANGED <<js, seq, nextSeq, mutex, stdout, saved, disk, crashes>>

\* Mutant of Redirect: O_EXCL, so a file that is already there is not opened.
RedirectExclusive(c) ==
    /\ worker[c] = "locked"
    /\ IF seq[c] \in dir /\ out[seq[c]] = NoOut
       THEN /\ out' = [out EXCEPT ![seq[c]] = [of |-> c, full |-> FALSE]]
            /\ saved' = [saved EXCEPT ![c] = stdout]
            /\ stdout' = c
            /\ worker' = [worker EXCEPT ![c] = "redirected"]
       ELSE /\ worker' = [worker EXCEPT ![c] = "unredirected"]
            /\ UNCHANGED <<out, saved, stdout>>
    /\ UNCHANGED <<js, seq, nextSeq, mutex, ret, dir, crashes>>

\* open(O_CREAT | O_TRUNC) and dup2; without the run directory open fails and
\* the command runs on the process's own stdout.
Redirect(c) ==
    /\ worker[c] = "locked"
    /\ IF seq[c] \in dir
       THEN /\ out' = [out EXCEPT ![seq[c]] = [of |-> c, full |-> FALSE]]
            /\ saved' = [saved EXCEPT ![c] = stdout]
            /\ stdout' = c
            /\ worker' = [worker EXCEPT ![c] = "redirected"]
       ELSE /\ worker' = [worker EXCEPT ![c] = "unredirected"]
            /\ UNCHANGED <<out, saved, stdout>>
    /\ UNCHANGED <<js, seq, nextSeq, mutex, ret, dir, crashes>>

\* What command c has printed is in the file descriptor 1 names, if that file
\* still has a name.
Written(c) ==
    [k \in RunSeq |-> IF stdout # None /\ k = seq[stdout] /\ out[k].of = stdout
                      THEN [of |-> c, full |-> TRUE] ELSE out[k]]

\* RunClientMode returns, if it ever does; stdout is put back, the output is
\* searched for [Fail], the mutex is released and the callback posted.
Return(c) ==
    /\ worker[c] \in InCmd
    /\ \E r \in {"ok", "failed"} : ret' = [ret EXCEPT ![c] = r]
    /\ out' = Written(c)
    /\ stdout' = IF worker[c] = "redirected" THEN saved[c] ELSE stdout
    /\ mutex' = None
    /\ worker' = [worker EXCEPT ![c] = "posted"]
    /\ UNCHANGED <<js, seq, nextSeq, saved, dir, crashes>>

\* The process is killed and started again: threads, queue and g_cmdSeq go,
\* the files stay.
Crash ==
    /\ crashes < MaxCrashes
    /\ crashes' = crashes + 1
    /\ queue' = <<>> /\ running' = None
    /\ phase' = [c \in Cmd |-> IF phase[c] = "new" THEN "new" ELSE "past"]
    /\ nextSeq' = 0 /\ mutex' = None /\ stdout' = None
    /\ worker' = [c \in Cmd |-> "none"]
    /\ UNCHANGED <<result, seq, ret, saved, disk>>

-----------------------------------------------------------------------------
JsStep(c) ==
    \/ execute(c) \/ executeThrows(c) \/ Callback(c) \/ finishWithFiles(c)
    \/ Timeout(c) \/ Unlink(c) \/ Rmdir(c)

WorkerStep(c) == TakeLock(c) \/ GiveUp(c) \/ Redirect(c) \/ Return(c)

Next ==
    \/ \E c \in Cmd : execCommand(c) \/ JsStep(c) \/ WorkerStep(c)
    \/ cancel
    \/ Crash

Spec == Init /\ [][Next]_vars

\* The ArkTS event loop runs every ready turn and every timer fires.  Nothing
\* is assumed of the native threads: a client may never return.
FairSpec == Spec /\ WF_vars(\E c \in Cmd : JsStep(c))

-----------------------------------------------------------------------------
TypeOK ==
    /\ queue \in Seq(Cmd) /\ running \in Cmd \cup {None}
    /\ phase \in [Cmd -> Phase] /\ result \in [Cmd -> Result]
    /\ seq \in [Cmd -> RunSeq] /\ nextSeq \in 0..(MaxSeq + 1)
    /\ worker \in [Cmd -> Worker] /\ mutex \in Cmd \cup {None}
    /\ ret \in [Cmd -> Ret]
    /\ stdout \in Cmd \cup {None} /\ saved \in [Cmd -> Cmd \cup {None}]
    /\ dir \subseteq RunSeq /\ out \in [RunSeq -> Content]
    /\ crashes \in 0..MaxCrashes

\* cmd() swaps the stdout of the whole process.  A command that runs with its
\* output redirected writes to its own file, and when none does descriptor 1
\* is the process's own again, although a command that was cancelled or timed
\* out goes on running under the commands that follow it.
StdoutIsOwn ==
    /\ \A c \in Cmd : worker[c] = "redirected" => stdout = c
    /\ stdout # None => worker[stdout] = "redirected"

\* A promise settled by the callback of a command that did run is resolved
\* with nothing but that command's complete output (or none, if the read
\* failed), whatever a killed process left in a directory of the same number.
OutputIsOwn ==
    \A c \in Cmd : result[c].by = "callback" /\ result[c].ret # "busy" =>
        result[c].out \in {[of |-> c, full |-> TRUE], NoOut}

\* "Each command gets its own run directory + output files" (napi.cpp): no
\* promise is ever resolved with what another command printed.
OutputIsolated == \A c \in Cmd : result[c].out.of \in {c, None}

\* A command settled by its callback leaves no run directory behind.
CallbackCleansUp ==
    \A c \in Cmd : phase[c] = "settled" /\ result[c].by = "callback" => seq[c] \notin dir

\* cancel() hits the command that is executing and no other: `running' is the
\* one command whose promise is open and whose thread may still answer.
RunningIsCurrent == \A c \in Cmd : running = c <=> phase[c] = "running"

\* A promise settles once: the callback that comes after a timeout or a
\* cancel neither changes the result nor settles or cleans up anything again.
SettlesOnce ==
    [][\A c \in Cmd : phase[c] = "settled" =>
          phase'[c] \in {"settled", "past"} /\ result'[c] = result[c]]_vars

\* The queue never wedges: every command given to execCommand settles even if
\* the native client of an earlier one never returns.
EveryCommandSettles ==
    \A c \in Cmd : phase[c] = "queued" ~> phase[c] \in {"settled", "past"}
=============================================================================
