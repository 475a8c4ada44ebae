---------------------------- MODULE HdcTaskClear ----------------------------
(***************************************************************************)
(* The end of the tasks (file transfers, forwards, installs) of the hdc    *)
(* server's sessions: ClearOwnTasks hands each task to a retry timer on    *)
(* the child loop of its session (common/session.cpp), and a work thread   *)
(* that was told to stop runs its loop once more until taskCount is 0 or   *)
(* 50 ticks have passed.  taskCount is one uint32 for all sessions, that   *)
(* every call of ClearOwnTasks sets to the size of one session's map.      *)
(***************************************************************************)
EXTENDS Integers, FiniteSets

CONSTANTS
    Session,
    Task,
    owner,      \* owner[t] is the session task t runs in
    channelId,  \* channelId[t] is the channel that task t is for
    Modulus,    \* taskCount is a number modulo this (2^32 in the code)
    MaxTimes    \* the clear loop gives up at this tick (50 in the code)

ASSUME OwnerAssumption == owner \in [Task -> Session]
ASSUME ChannelAssumption == DOMAIN channelId = Task
ASSUME TaskAssumption == IsFiniteSet(Task)
ASSUME ModulusAssumption == Modulus \in Nat /\ Modulus > 1
ASSUME TimesAssumption == MaxTimes \in Nat /\ MaxTimes > 0

VARIABLES
    thread,     \* per session: where SessionWorkThread is
    task,       \* per task: where it is
    busy,       \* tasks with an operation in flight: ReadyForRelease is false
    stopped,    \* tasks whose StopTask was called
    taskCount,
    times       \* per session: clearTaskTimes

vars == <<thread, task, busy, stopped, taskCount, times>>

\* "stopping": the handles that hold the loop of a stopped session are closing.
Thread == {"running", "stopping", "clearing", "over"}

\* "mapped" is in mapTask, "removing" is with its retry timer; of a "replaced"
\* task the TaskInformation is deleted and the object is left.
TaskState == {"none", "mapped", "removing", "freed", "replaced"}

Mapped(s) == {t \in Task : owner[t] = s /\ task[t] = "mapped"}
Removing(s) == {t \in Task : owner[t] = s /\ task[t] = "removing"}

\* The child loop still runs callbacks.
LoopRuns(s) == thread[s] # "over"

Init ==
    /\ thread = [s \in Session |-> "running"]
    /\ task = [t \in Task |-> "none"]
    /\ busy = {} /\ stopped = {}
    /\ taskCount = 0
    /\ times = [s \in Session |-> 0]

SameChannel(t, u) == owner[t] = owner[u] /\ channelId[t] = channelId[u]

\* DispatchTaskData of an init command or of the daemon's wake-up; most tasks
\* start an operation at once.  AdminTask's OP_ADD deletes what the map has for
\* the channel, whatever the task is doing.
NewTask(t) ==
    /\ thread[owner[t]] = "running" /\ task[t] = "none"
    /\ task' = [u \in Task |-> CASE u = t -> "mapped"
                              [] task[u] = "mapped" /\ SameChannel(t, u) -> "replaced"
                              [] OTHER -> task[u]]
    /\ \E b \in {busy, busy \cup {t}} : busy' = b
    /\ UNCHANGED <<thread, stopped, taskCount, times>>

\* An operation of the task ends, in a callback of the child loop.  What the
\* callback does that finds its TaskInformation deleted is not followed.
OperationEnds(t) ==
    /\ t \in busy /\ task[t] # "replaced" /\ LoopRuns(owner[t])
    /\ busy' = busy \ {t}
    /\ UNCHANGED <<thread, task, stopped, taskCount, times>>

-----------------------------------------------------------------------------
\* ClearOwnTasks(s, .) for the tasks gone of the session: BeginRemoveTask
\* starts the timer of each.  The count is taken before they leave the map.
ClearOwnTasks(s, gone) ==
    /\ taskCount' = Cardinality(Mapped(s)) % Modulus
    /\ task' = [t \in Task |-> IF t \in gone THEN "removing" ELSE task[t]]

\* A channel is closed by the daemon or detached (work thread), or its forward
\* is removed (main thread, at any time until the session is deleted).  The
\* channel may have no task left.
ClearChannel(s) ==
    /\ \E gone \in {{t} : t \in Mapped(s)} \cup {{}} : ClearOwnTasks(s, gone)
    /\ UNCHANGED <<thread, busy, stopped, times>>

\* SP_STOP_SESSION; the loop ends when its handles have closed.
StopSession(s) ==
    /\ thread[s] = "running"
    /\ thread' = [thread EXCEPT ![s] = "stopping"]
    /\ UNCHANGED <<task, busy, stopped, taskCount, times>>

\* uv_run returns and ReChildLoopForSessionClear clears what there is.
BeginClear(s) ==
    /\ thread[s] = "stopping"
    /\ thread' = [thread EXCEPT ![s] = "clearing"]
    /\ ClearOwnTasks(s, Mapped(s))
    /\ UNCHANGED <<busy, stopped, times>>

\* taskClassDeleteRetry: StopTask the first time, which may end the operation
\* in flight (a closed file) or not; delete once ReadyForRelease.
TryRemove(t) ==
    /\ task[t] = "removing" /\ LoopRuns(owner[t])
    /\ stopped' = stopped \cup {t}
    /\ \E b \in {busy} \cup (IF t \in stopped THEN {} ELSE {busy \ {t}}) :
          /\ busy' = b
          /\ IF t \in b
             THEN UNCHANGED <<task, taskCount>>
             ELSE /\ task' = [task EXCEPT ![t] = "freed"]
                  /\ taskCount' = (taskCount + Modulus - 1) % Modulus
    /\ UNCHANGED <<thread, times>>

\* Mutant of Finished: the clear loop has no limit.
FinishedUnlimited(s) == taskCount = 0

\* The test of clearTaskForSessionFinish in its tick number times[s] + 1.
Finished(s) == taskCount = 0 \/ times[s] + 1 >= MaxTimes

\* Every tick of the clear loop comes after the retry timers of the same tick,
\* which started before it; what they could not free they try again next tick.
ClearTick(s) ==
    /\ thread[s] = "clearing"
    /\ Removing(s) \subseteq stopped
    /\ times' = [times EXCEPT ![s] = IF @ < MaxTimes THEN @ + 1 ELSE @]
    /\ thread' = [thread EXCEPT ![s] = IF Finished(s) THEN "over" ELSE @]
    /\ UNCHANGED <<task, busy, stopped, taskCount>>

-----------------------------------------------------------------------------
TaskStep(t) == NewTask(t) \/ OperationEnds(t) \/ TryRemove(t)
SessionStep(s) == ClearChannel(s) \/ StopSession(s) \/ BeginClear(s) \/ ClearTick(s)

Next == (\E t \in Task : TaskStep(t)) \/ (\E s \in Session : SessionStep(s))

Spec == Init /\ [][Next]_vars

\* A child loop runs its due timers and close callbacks.  Nothing is assumed of
\* the operations of tasks: a forward's peer may never answer.
FairSpec ==
    /\ Spec
    /\ \A s \in Session : WF_vars(BeginClear(s) \/ ClearTick(s))
    /\ \A t \in Task : WF_vars(TryRemove(t))

-----------------------------------------------------------------------------
TypeOK ==
    /\ thread \in [Session -> Thread] /\ task \in [Task -> TaskState]
    /\ busy \subseteq Task /\ stopped \subseteq Task
    /\ taskCount \in 0..(Modulus - 1)
    /\ times \in [Session -> 0..MaxTimes]

\* What a task is made of is not deleted under an operation in flight: this
\* fails.  The retry timer asks ReadyForRelease first; a second init command for
\* a channel deletes the TaskInformation of its task without asking.
FreedIsQuiet == \A t \in busy : task[t] \notin {"freed", "replaced"}

\* A stopped session's thread ends, although taskCount may be overwritten by
\* another session's, wrap below zero, or count a task that never gets ready.
StopEnds == \A s \in Session : thread[s] = "stopping" ~> thread[s] = "over"
=============================================================================
