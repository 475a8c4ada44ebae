-------------------------- MODULE HdcSessionProofs --------------------------
(***************************************************************************)
(* Safety of HdcSession for any number of sessions, keys and pool threads. *)
(* TornDownIsQuiet is not inductive: that a session whose thread polls     *)
(* nothing has no thread rests on the STOP command, which only             *)
(* FreeSessionOpeate sends and only while it is the thread that polls, and *)
(* that childCleared is the end of a thread on how a connect can fail.     *)
(***************************************************************************)
EXTENDS HdcSession, FiniteSetTheorems, TLAPS

\* The tasks of the sessions, and how those of a stopped session end.
CONSTANTS Task, owner, channelId, Modulus, MaxTimes
VARIABLES taskThread, task, busy, stopped, taskCount, times

Tasks == INSTANCE HdcTaskClear WITH thread <- taskThread


Command == {"START", "STOP"}

Stopless(commands) == \A i \in 1..Len(commands) : commands[i] # "STOP"

\* A reference is held exactly by the thread that is inside Send.
Referenced(s) == ref[s] = IF s \in sending THEN 1 ELSE 0

\* Before its thread starts a session has nothing on its child loop, and the
\* main thread waits for a thread in the pool's queue.
Unstarted(s) ==
    /\ thread[s] \in {"none", "queued"} =>
          ~polling[s] /\ batch[s] = <<>> /\ uvChildRef[s] = 0 /\ s \notin sending /\ copy[s] = NoEntry
    /\ thread[s] = "queued" => main.at = "spin" /\ main.s = s
    /\ thread[s] # "none" => conn[s] = "done"

\* Until FreeSessionOpeate has sent it no STOP is on its way, and the thread polls.
Undisturbed(s) ==
    stage[s] \in {"none", "open", "refs"} =>
        /\ thread[s] \in {"none", "queued", "loop"} /\ uvChildRef[s] = 0
        /\ Stopless(ctrl[s]) /\ Stopless(batch[s])
        /\ thread[s] = "loop" => polling[s]

\* childCleared is set by the end of the thread, or when there will be none.
Cleared(s) == childCleared[s] => conn[s] = "done" /\ thread[s] \in {"none", "cleared", "over"}

\* A loop that has ended has served its commands and closed its handles.
Ended(s) ==
    /\ thread[s] \in {"clear", "cleared", "over"} =>
          batch[s] = <<>> /\ uvChildRef[s] = 0 /\ copy[s] = NoEntry
    /\ thread[s] \in {"cleared", "over"} => s \notin sending

Staged(s) ==
    /\ stage[s] = "none" => conn[s] = "none" /\ thread[s] = "none" /\ ~childCleared[s]
    /\ stage[s] = "child" => thread[s] \notin {"none", "queued"}
    /\ stage[s] \in {"handles", "gone"} => thread[s] \in {"none", "cleared", "over"}

Safe(s) == Referenced(s) /\ Unstarted(s) /\ Undisturbed(s) /\ Cleared(s) /\ Ended(s) /\ Staged(s)

IInv == TypeOK /\ \A s \in Session : Safe(s)

LEMMA StageType == Stage = {"none", "open", "refs", "child", "handles", "gone"}
<1>1. /\ StageOrder[1] = "none" /\ StageOrder[2] = "open" /\ StageOrder[3] = "refs"
      /\ StageOrder[4] = "child" /\ StageOrder[5] = "handles" /\ StageOrder[6] = "gone"
  BY DEF StageOrder
<1>2. 1..6 = {1, 2, 3, 4, 5, 6}
  OBVIOUS
<1> QED
  BY <1>1, <1>2 DEF Stage

\* The two copies of a daemon map entry are written back as entries.
LEMMA EntryType ==
    /\ NoEntry \in Entry /\ Idle \in Main
    /\ \A e \in Entry :
          /\ e.hSession \in Session \cup {None}
          /\ \A s \in Session \cup {None} : [e EXCEPT !.hSession = s] \in Entry
          /\ [e EXCEPT !.connStatus = "connected"] \in Entry
          /\ [e EXCEPT !.connStatus = "offline", !.hSession = None] \in Entry
          /\ \A s \in Session : [at |-> "notify", s |-> s, diNew |-> e] \in Main
          /\ \A s \in Session : [at |-> "create", s |-> s, diNew |-> e] \in Main
    /\ \A s \in Session : [Idle EXCEPT !.at = "spin", !.s = s] \in Main
<1>1. NoEntry \in Entry
  BY DEF NoEntry, Entry
<1>2. Idle \in Main
  BY <1>1 DEF Idle, Main
<1>3. ASSUME NEW e \in Entry
      PROVE  /\ e.hSession \in Session \cup {None}
             /\ \A s \in Session \cup {None} : [e EXCEPT !.hSession = s] \in Entry
             /\ [e EXCEPT !.connStatus = "connected"] \in Entry
             /\ [e EXCEPT !.connStatus = "offline", !.hSession = None] \in Entry
  BY DEF Entry
<1>4. ASSUME NEW e \in Entry, NEW s \in Session
      PROVE  /\ [at |-> "notify", s |-> s, diNew |-> e] \in Main
             /\ [at |-> "create", s |-> s, diNew |-> e] \in Main
  BY DEF Main
<1>5. ASSUME NEW s \in Session PROVE [Idle EXCEPT !.at = "spin", !.s = s] \in Main
  BY <1>1 DEF Idle, Main
<1> QED
  BY <1>1, <1>2, <1>3, <1>4, <1>5

LEMMA InitInv == Init => IInv
<1> SUFFICES ASSUME Init PROVE IInv
  OBVIOUS
<1>1. TypeOK
  <2>1. main \in Main /\ entry \in [Key -> Entry] /\ copy \in [Session -> Entry]
    BY EntryType DEF Init
  <2>2. stage \in [Session -> Stage] /\ thread \in [Session -> Thread]
    BY StageType DEF Init, Thread
  <2>3. ctrl \in [Session -> Seq(Command)] /\ batch \in [Session -> Seq(Command)]
    BY DEF Init
  <2>4. writing \subseteq Session /\ writer \in Session \cup {None} /\ full \in BOOLEAN
    BY DEF Init
  <2> QED
    BY <2>1, <2>2, <2>3, <2>4 DEF Init, TypeOK, Command
<1>2. \A s \in Session : Safe(s)
  BY DEF Init, Safe, Referenced, Unstarted, Undisturbed, Cleared, Ended, Staged, Stopless
<1> QED
  BY <1>1, <1>2 DEF IInv

\* While the main thread is at its loop no thread is in the pool's queue.
LEMMA IdleHasNoQueue == ASSUME IInv, main = Idle PROVE \A s \in Session : thread[s] # "queued"
  BY DEF IInv, Safe, Unstarted, Idle

\* FreeSession only marks a session that is open.
LEMMA FreeSessionMarks ==
    ASSUME IInv, main = Idle, NEW s \in Session, FreeSession(s)
    PROVE  /\ main' \in Main /\ stage' \in [Session -> Stage]
           /\ \A x \in Session : \/ stage'[x] = stage[x]
                                 \/ stage[x] = "open" /\ stage'[x] = "refs"
<1>1. CASE InMap(s) /\ ~IsDead(s)
  <2>1. stage' = [stage EXCEPT ![s] = "refs"]
        /\ main' = [at |-> "notify", s |-> s, diNew |-> entry[keyOf[s]]]
    BY <1>1 DEF FreeSession
  <2>2. entry[keyOf[s]] \in Entry
    BY KeyAssumption DEF IInv, TypeOK, KeyAssumption
  <2>3. main' \in Main
    BY <2>1, <2>2, EntryType
  <2>4. stage[s] = "open"
    BY <1>1, StageType DEF InMap, IsDead, IInv, TypeOK
  <2> QED
    BY <2>1, <2>3, <2>4, StageType DEF IInv, TypeOK
<1>2. CASE ~(InMap(s) /\ ~IsDead(s))
  BY <1>2, EntryType DEF FreeSession, IInv, TypeOK
<1> QED
  BY <1>1, <1>2

\* CreateConnect and Connect, on the main thread.
LEMMA CreateConnectInv == ASSUME IInv, NEW s \in Session, CreateConnect(s) PROVE IInv'
<1>1. TypeOK'
  <2>1. main' \in Main
    <3>1. entry[keyOf[s]] \in Entry
      BY KeyAssumption DEF IInv, TypeOK, KeyAssumption
    <3> QED
      BY <3>1, EntryType DEF CreateConnect
  <2>2. stage' \in [Session -> Stage]
    BY StageType DEF CreateConnect, IInv, TypeOK
  <2>3. conn' \in [Session -> {"none", "pending", "done"}]
    BY DEF CreateConnect, IInv, TypeOK
  <2>4. uvHandleRef' \in [Session -> 0..3]
    BY DEF CreateConnect, IInv, TypeOK
  <2> QED
    BY <2>1, <2>2, <2>3, <2>4 DEF wire, CreateConnect, workVars, IInv, TypeOK
<1>2. \A x \in Session : Safe(x)'
  <2>1. \A x \in Session : thread[x] # "queued"
    BY IdleHasNoQueue DEF CreateConnect
  <2> QED
    BY <2>1 DEF CreateConnect, workVars, IInv, TypeOK,
       Safe, Referenced, Unstarted, Undisturbed, Cleared, Ended, Staged
<1> QED
  BY <1>1, <1>2 DEF IInv

LEMMA CreateUpdateInv == ASSUME IInv, CreateUpdate PROVE IInv'
<1>1. TypeOK'
  <2>1. main' \in Main
    BY EntryType DEF CreateUpdate
  <2>2. entry' \in [Key -> Entry]
    <3>1. main.s \in Session \cup {None} /\ main.diNew \in Entry
      BY DEF IInv, TypeOK, Main
    <3> QED
      BY <3>1, EntryType DEF CreateUpdate, IInv, TypeOK
  <2> QED
    BY <2>1, <2>2 DEF wire, CreateUpdate, workVars, IInv, TypeOK
<1>2. \A x \in Session : Safe(x)'
  <2>1. \A x \in Session : thread[x] # "queued"
    BY DEF CreateUpdate, IInv, Safe, Unstarted
  <2> QED
    BY <2>1 DEF CreateUpdate, workVars, IInv, TypeOK,
       Safe, Referenced, Unstarted, Undisturbed, Cleared, Ended, Staged
<1> QED
  BY <1>1, <1>2 DEF IInv

LEMMA ConnectInv == ASSUME IInv, NEW s \in Session, Connect(s) PROVE IInv'
<1>1. TypeOK'
  <2>1. main' \in Main
    BY EntryType DEF Connect
  <2>2. conn' \in [Session -> {"none", "pending", "done"}]
    BY DEF Connect, IInv, TypeOK
  <2>3. thread' \in [Session -> Thread]
    BY DEF Connect, Thread, IInv, TypeOK
  <2> QED
    BY <2>1, <2>2, <2>3 DEF wire, Connect, IInv, TypeOK
<1>2. \A x \in Session : Safe(x)'
  <2>1. \A x \in Session : thread[x] # "queued"
    BY IdleHasNoQueue DEF Connect
  <2>2. thread[s] = "none" /\ ~childCleared[s]
    BY DEF Connect, IInv, Safe, Unstarted, Cleared
  <2>3. main'.at = "spin" /\ main'.s = s
    BY DEF Connect, Idle
  <2> QED
    BY <2>1, <2>2, <2>3 DEF Connect, IInv, TypeOK,
       Safe, Referenced, Unstarted, Undisturbed, Cleared, Ended, Staged
<1> QED
  BY <1>1, <1>2 DEF IInv

LEMMA ThreadUpInv == ASSUME IInv, NEW s \in Session, ThreadUp(s) PROVE IInv'
<1>1. TypeOK'
  <2>1. main' \in Main
    BY EntryType DEF ThreadUp
  <2>2. ctrl' \in [Session -> Seq({"START", "STOP"})]
    BY DEF ThreadUp, Put, IInv, TypeOK
  <2> QED
    BY <2>1, <2>2 DEF wire, ThreadUp, workVars, IInv, TypeOK
<1>2. \A x \in Session : Safe(x)'
  <2>1. \A x \in Session : thread[x] # "queued"
    BY DEF ThreadUp, IInv, Safe, Unstarted
  <2>2. ctrl' = [ctrl EXCEPT ![s] = Append(ctrl[s], "START")] /\ ctrl[s] \in Seq(Command)
    BY DEF ThreadUp, Put, IInv, TypeOK, Command
  <2>3. Stopless(ctrl[s]) => Stopless(Append(ctrl[s], "START"))
    BY <2>2 DEF Stopless
  <2> QED
    BY <2>1, <2>2, <2>3 DEF ThreadUp, workVars, IInv, TypeOK,
       Safe, Referenced, Unstarted, Undisturbed, Cleared, Ended, Staged
<1> QED
  BY <1>1, <1>2 DEF IInv

LEMMA NotifyUpdateInv == ASSUME IInv, NotifyUpdate PROVE IInv'
<1>1. TypeOK'
  <2>1. main' \in Main
    BY EntryType DEF NotifyUpdate
  <2>2. entry' \in [Key -> Entry]
    <3>1. main.diNew \in Entry
      BY DEF IInv, TypeOK, Main
    <3> QED
      BY <3>1, EntryType DEF NotifyUpdate, IInv, TypeOK
  <2> QED
    BY <2>1, <2>2 DEF wire, NotifyUpdate, workVars, IInv, TypeOK
<1>2. \A x \in Session : Safe(x)'
  <2>1. \A x \in Session : thread[x] # "queued"
    BY DEF NotifyUpdate, IInv, Safe, Unstarted
  <2> QED
    BY <2>1 DEF NotifyUpdate, workVars, IInv, TypeOK,
       Safe, Referenced, Unstarted, Undisturbed, Cleared, Ended, Staged
<1> QED
  BY <1>1, <1>2 DEF IInv

\* FreeSession and the timers and callbacks that follow it.
LEMMA ConnectFailsInv == ASSUME IInv, NEW s \in Session, ConnectFails(s) PROVE IInv'
<1>1. TypeOK'
  <2>1. main' \in Main /\ stage' \in [Session -> Stage]
    BY FreeSessionMarks DEF ConnectFails
  <2>2. conn' \in [Session -> {"none", "pending", "done"}]
    BY DEF ConnectFails, IInv, TypeOK
  <2>3. childCleared' \in [Session -> BOOLEAN]
    BY DEF wire, ConnectFails, IInv, TypeOK
  <2> QED
    BY <2>1, <2>2, <2>3 DEF wire, ConnectFails, IInv, TypeOK
<1>2. \A x \in Session : Safe(x)'
  <2>1. \A x \in Session : thread[x] # "queued"
    BY IdleHasNoQueue DEF ConnectFails
  <2>2. \A x \in Session : stage'[x] = stage[x] \/ (stage[x] = "open" /\ stage'[x] = "refs")
    BY FreeSessionMarks DEF ConnectFails
  <2>3. thread[s] = "none" /\ stage[s] # "none"
    BY DEF ConnectFails, IInv, Safe, Unstarted, Staged
  <2> QED
    BY <2>1, <2>2, <2>3 DEF ConnectFails, IInv, TypeOK,
       Safe, Referenced, Unstarted, Undisturbed, Cleared, Ended, Staged
<1> QED
  BY <1>1, <1>2 DEF IInv

LEMMA AsyncFreeInv == ASSUME IInv, NEW s \in Session, AsyncFree(s) PROVE IInv'
<1>1. TypeOK'
  <2>1. main' \in Main /\ stage' \in [Session -> Stage]
    BY FreeSessionMarks DEF AsyncFree
  <2>2. asyncFree' \in [Session -> 0..2]
    BY DEF AsyncFree, IInv, TypeOK
  <2> QED
    BY <2>1, <2>2 DEF wire, AsyncFree, workVars, IInv, TypeOK
<1>2. \A x \in Session : Safe(x)'
  <2>1. \A x \in Session : thread[x] # "queued"
    BY IdleHasNoQueue DEF AsyncFree
  <2>2. \A x \in Session : stage'[x] = stage[x] \/ (stage[x] = "open" /\ stage'[x] = "refs")
    BY FreeSessionMarks DEF AsyncFree
  <2> QED
    BY <2>1, <2>2 DEF AsyncFree, workVars, IInv, TypeOK,
       Safe, Referenced, Unstarted, Undisturbed, Cleared, Ended, Staged
<1> QED
  BY <1>1, <1>2 DEF IInv

LEMMA RemoveSessionInv == ASSUME IInv, NEW k \in Key, RemoveSession(k) PROVE IInv'
<1>1. PICK s \in Session : FreeSession(s)
  BY EntryType DEF RemoveSession, IInv, TypeOK
<1>2. /\ main' \in Main /\ stage' \in [Session -> Stage]
      /\ \A x \in Session : stage'[x] = stage[x] \/ (stage[x] = "open" /\ stage'[x] = "refs")
  BY <1>1, FreeSessionMarks DEF RemoveSession
<1>3. TypeOK'
  BY <1>2 DEF wire, RemoveSession, workVars, IInv, TypeOK
<1>4. \A x \in Session : thread[x] # "queued"
  BY IdleHasNoQueue DEF RemoveSession
<1>5. \A x \in Session : Safe(x)'
  BY <1>2, <1>4 DEF RemoveSession, workVars, IInv, TypeOK,
     Safe, Referenced, Unstarted, Undisturbed, Cleared, Ended, Staged
<1> QED
  BY <1>3, <1>5 DEF IInv

LEMMA FreeSessionOpeateInv == ASSUME IInv, NEW s \in Session, FreeSessionOpeate(s) PROVE IInv'
<1>1. TypeOK'
  <2>1. stage' \in [Session -> Stage] /\ ctrl' \in [Session -> Seq({"START", "STOP"})]
    <3>1. CASE polling[s]
      <4>1. /\ ctrl' = [ctrl EXCEPT ![s] = Append(ctrl[s], "STOP")]
            /\ stage' = [stage EXCEPT ![s] = "child"]
        BY <3>1 DEF FreeSessionOpeate, Put
      <4>2. Append(ctrl[s], "STOP") \in Seq({"START", "STOP"})
        BY DEF IInv, TypeOK
      <4> QED
        BY <4>1, <4>2, StageType DEF IInv, TypeOK
    <3>2. CASE ~polling[s]
      BY <3>2, StageType DEF FreeSessionOpeate, IInv, TypeOK
    <3> QED
      BY <3>1, <3>2
  <2> QED
    BY <2>1 DEF wire, FreeSessionOpeate, workVars, IInv, TypeOK
<1>2. \A x \in Session : Safe(x)'
  <2>1. CASE polling[s]
    <3>1. ASSUME NEW x \in Session, x # s PROVE stage'[x] = stage[x] /\ ctrl'[x] = ctrl[x]
      BY <2>1, <3>1 DEF FreeSessionOpeate, Put, IInv, TypeOK
    <3>2. stage'[s] = "child" /\ thread[s] \notin {"none", "queued"}
      BY <2>1 DEF FreeSessionOpeate, IInv, TypeOK, Safe, Unstarted
    <3> QED
      BY <3>1, <3>2 DEF FreeSessionOpeate, workVars, IInv,
         Safe, Referenced, Unstarted, Undisturbed, Cleared, Ended, Staged
  <2>2. CASE ~polling[s]
    <3>1. \A x \in Session : thread[x] # "queued"
      BY IdleHasNoQueue DEF wire, FreeSessionOpeate
    <3>2. stage' = [stage EXCEPT ![s] = "handles"] /\ ctrl' = ctrl /\ stage[s] = "refs"
      BY <2>2 DEF FreeSessionOpeate
    <3> QED
      BY <2>2, <3>1, <3>2 DEF FreeSessionOpeate, workVars, IInv, TypeOK,
         Safe, Referenced, Unstarted, Undisturbed, Cleared, Ended, Staged
  <2> QED
    BY <2>1, <2>2
<1> QED
  BY <1>1, <1>2 DEF IInv

LEMMA FreeSessionContinueInv == ASSUME IInv, NEW s \in Session, FreeSessionContinue(s) PROVE IInv'
<1>1. TypeOK'
  <2>1. stage' \in [Session -> Stage]
    BY StageType DEF FreeSessionContinue, IInv, TypeOK
  <2> QED
    BY <2>1 DEF wire, FreeSessionContinue, workVars, IInv, TypeOK
<1>2. \A x \in Session : Safe(x)'
  BY DEF IInv, TypeOK, FreeSessionContinue, workVars, 
     Safe, Referenced, Unstarted, Undisturbed, Cleared, Ended, Staged
<1> QED
  BY <1>1, <1>2 DEF IInv

LEMMA HandleClosedInv == ASSUME IInv, NEW s \in Session, HandleClosed(s) PROVE IInv'
<1>1. TypeOK'
  <2>1. uvHandleRef' \in [Session -> 0..3]
    BY DEF HandleClosed, IInv, TypeOK
  <2> QED
    BY <2>1 DEF wire, HandleClosed, workVars, IInv, TypeOK
<1>2. \A x \in Session : Safe(x)'
  BY DEF IInv, TypeOK, HandleClosed, workVars, 
     Safe, Referenced, Unstarted, Undisturbed, Cleared, Ended, Staged
<1> QED
  BY <1>1, <1>2 DEF IInv

LEMMA FreeSessionFinallyInv == ASSUME IInv, NEW s \in Session, FreeSessionFinally(s) PROVE IInv'
<1>1. TypeOK'
  <2>1. stage' \in [Session -> Stage]
    BY StageType DEF FreeSessionFinally, IInv, TypeOK
  <2> QED
    BY <2>1 DEF wire, FreeSessionFinally, workVars, IInv, TypeOK
<1>2. \A x \in Session : Safe(x)'
  BY DEF IInv, TypeOK, FreeSessionFinally, workVars, 
     Safe, Referenced, Unstarted, Undisturbed, Cleared, Ended, Staged
<1> QED
  BY <1>1, <1>2 DEF IInv

\* The work thread and what its loop serves.
LEMMA ThreadStartInv == ASSUME IInv, NEW s \in Session, ThreadStart(s) PROVE IInv'
<1>1. TypeOK'
  <2>1. thread' \in [Session -> Thread]
    BY DEF ThreadStart, Thread, IInv, TypeOK
  <2>2. polling' \in [Session -> BOOLEAN]
    BY DEF ThreadStart, IInv, TypeOK
  <2> QED
    BY <2>1, <2>2 DEF wire, ThreadStart, mainVars, IInv, TypeOK
<1>2. \A x \in Session : Safe(x)'
  BY DEF IInv, TypeOK, ThreadStart, mainVars, 
     Safe, Referenced, Unstarted, Undisturbed, Cleared, Ended, Staged
<1> QED
  BY <1>1, <1>2 DEF IInv

LEMMA ReadCtrlInv == ASSUME IInv, NEW s \in Session, ReadCtrl(s) PROVE IInv'
<1>1. TypeOK'
  <2>1. batch' \in [Session -> Seq({"START", "STOP"})] /\ ctrl' \in [Session -> Seq({"START", "STOP"})]
    BY DEF ReadCtrl, IInv, TypeOK
  <2> QED
    BY <2>1 DEF wire, ReadCtrl, mainVars, IInv, TypeOK
<1>2. \A x \in Session : Safe(x)'
  BY DEF IInv, TypeOK, ReadCtrl, Waits, Free, mainVars, Stopless, 
     Safe, Referenced, Unstarted, Undisturbed, Cleared, Ended, Staged
<1> QED
  BY <1>1, <1>2 DEF IInv

LEMMA DispatchStartInv == ASSUME IInv, NEW s \in Session, DispatchStart(s) PROVE IInv'
<1>1. TypeOK'
  <2>1. batch' \in [Session -> Seq({"START", "STOP"})]
    BY DEF DispatchStart, IInv, TypeOK
  <2>2. tcp' \in [Session -> {"null", "open", "unread", "closed"}]
    BY DEF DispatchStart, IInv, TypeOK
  <2>3. ref' \in [Session -> Nat]
    BY DEF DispatchStart, BeginSend, IInv, TypeOK
  <2>4. sending' \subseteq Session
    BY DEF DispatchStart, BeginSend, IInv, TypeOK
  <2> QED
    BY <2>1, <2>2, <2>3, <2>4 DEF wire, DispatchStart, mainVars, IInv, TypeOK
<1>2. \A x \in Session : Safe(x)'
  <2>1. Stopless(batch[s]) => Stopless(batch'[s])
    BY DEF DispatchStart, IInv, TypeOK, Stopless
  <2> QED
    BY <2>1 DEF DispatchStart, Free, BeginSend, mainVars, IInv, TypeOK,
       Safe, Referenced, Unstarted, Undisturbed, Cleared, Ended, Staged
<1> QED
  BY <1>1, <1>2 DEF IInv

LEMMA DispatchStartFailsInv == ASSUME IInv, NEW s \in Session, DispatchStartFails(s) PROVE IInv'
<1>1. TypeOK'
  <2>1. batch' \in [Session -> Seq({"START", "STOP"})]
    BY DEF DispatchStartFails, IInv, TypeOK
  <2>2. tcp' \in [Session -> {"null", "open", "unread", "closed"}]
    BY DEF DispatchStartFails, IInv, TypeOK
  <2> QED
    BY <2>1, <2>2 DEF wire, DispatchStartFails, mainVars, IInv, TypeOK
<1>2. \A x \in Session : Safe(x)'
  BY DEF IInv, TypeOK, DispatchStartFails, Free, mainVars, Stopless, 
     Safe, Referenced, Unstarted, Undisturbed, Cleared, Ended, Staged
<1> QED
  BY <1>1, <1>2 DEF IInv

LEMMA DispatchStopInv == ASSUME IInv, NEW s \in Session, DispatchStop(s) PROVE IInv'
<1>1. TypeOK'
  <2>1. batch' \in [Session -> Seq({"START", "STOP"})]
    BY DEF DispatchStop, IInv, TypeOK
  <2>2. polling' \in [Session -> BOOLEAN]
    BY DEF DispatchStop, IInv, TypeOK
  <2>3. uvChildRef' \in [Session -> 0..2]
    BY DEF DispatchStop, IInv, TypeOK
  <2>4. tcp' \in [Session -> {"null", "open", "unread", "closed"}]
    BY DEF DispatchStop, IInv, TypeOK
  <2> QED
    BY <2>1, <2>2, <2>3, <2>4 DEF wire, DispatchStop, mainVars, IInv, TypeOK
<1>2. \A x \in Session : Safe(x)'
  <2>1. ~Stopless(batch[s]) /\ batch[s] # <<>>
    BY DEF DispatchStop, IInv, TypeOK, Stopless
  <2> QED
    BY <2>1 DEF DispatchStop, Free, mainVars, IInv, TypeOK,
       Safe, Referenced, Unstarted, Undisturbed, Cleared, Ended, Staged
<1> QED
  BY <1>1, <1>2 DEF IInv

LEMMA CloseCallbackInv == ASSUME IInv, NEW s \in Session, CloseCallback(s) PROVE IInv'
<1>1. TypeOK'
  <2>1. uvChildRef' \in [Session -> 0..2]
    BY DEF CloseCallback, IInv, TypeOK
  <2>2. thread' \in [Session -> Thread]
    BY DEF CloseCallback, Thread, IInv, TypeOK
  <2> QED
    BY <2>1, <2>2 DEF wire, CloseCallback, mainVars, IInv, TypeOK
<1>2. \A x \in Session : Safe(x)'
  BY DEF IInv, TypeOK, CloseCallback, Waits, Free, mainVars, 
     Safe, Referenced, Unstarted, Undisturbed, Cleared, Ended, Staged
<1> QED
  BY <1>1, <1>2 DEF IInv

LEMMA ReadFailsInv == ASSUME IInv, NEW s \in Session, ReadFails(s) PROVE IInv'
<1>1. TypeOK'
  <2>1. asyncFree' \in [Session -> 0..2]
    BY DEF ReadFails, IInv, TypeOK
  <2>2. tcp' \in [Session -> {"null", "open", "unread", "closed"}]
    BY DEF ReadFails, IInv, TypeOK
  <2> QED
    BY <2>1, <2>2 DEF wire, ReadFails, mainVars, IInv, TypeOK
<1>2. \A x \in Session : Safe(x)'
  BY DEF IInv, TypeOK, ReadFails, Waits, Free, mainVars, 
     Safe, Referenced, Unstarted, Undisturbed, Cleared, Ended, Staged
<1> QED
  BY <1>1, <1>2 DEF IInv

LEMMA SendInv == ASSUME IInv, NEW s \in Session, Send(s) PROVE IInv'
<1>1. TypeOK'
  <2>1. ref' \in [Session -> Nat]
    BY DEF Send, BeginSend, IInv, TypeOK
  <2>2. sending' \subseteq Session
    BY DEF Send, BeginSend, IInv, TypeOK
  <2> QED
    BY <2>1, <2>2 DEF wire, Send, mainVars, workVars, IInv, TypeOK
<1>2. \A x \in Session : Safe(x)'
  BY DEF IInv, TypeOK, Send, Waits, Free, BeginSend, mainVars, workVars, 
     Safe, Referenced, Unstarted, Undisturbed, Cleared, Ended, Staged
<1> QED
  BY <1>1, <1>2 DEF IInv

LEMMA SendReturnsInv == ASSUME IInv, NEW s \in Session, SendReturns(s) PROVE IInv'
<1>1. TypeOK'
  <2>1. ref' \in [Session -> Nat]
    <3>1. ref[s] = 1
      BY DEF SendReturns, IInv, Safe, Referenced
    <3> QED
      BY <3>1 DEF SendReturns, IInv, TypeOK
  <2>2. sending' \subseteq Session
    BY DEF SendReturns, IInv, TypeOK
  <2>3. writing' \subseteq Session /\ writer' \in Session \cup {None} /\ full' \in BOOLEAN
    <3>1. CASE writer # s
      BY <3>1 DEF SendReturns, IInv, TypeOK
    <3>2. CASE writer = s /\ writing = {s}
      BY <3>2 DEF SendReturns, IInv, TypeOK
    <3>3. CASE writer = s /\ writing # {s}
      BY <3>3 DEF SendReturns, IInv, TypeOK
    <3> QED
      BY <3>1, <3>2, <3>3
  <2> QED
    BY <2>1, <2>2, <2>3 DEF SendReturns, mainVars, workVars, IInv, TypeOK
<1>2. \A x \in Session : Safe(x)'
  BY DEF IInv, TypeOK, SendReturns, mainVars, workVars, 
     Safe, Referenced, Unstarted, Undisturbed, Cleared, Ended, Staged
<1> QED
  BY <1>1, <1>2 DEF IInv

\* Who has the mutex changes nothing else.
LEMMA WireInv == ASSUME IInv, Fills \/ \E s \in Session : SendByProtocol(s) PROVE IInv'
<1>1. /\ writing' \subseteq Session /\ writer' \in Session \cup {None} /\ full' \in BOOLEAN
      /\ UNCHANGED <<mainVars, asyncFree, workVars, ctrl, ref, sending, entry, copy>>
  BY DEF Fills, SendByProtocol, IInv, TypeOK
<1>2. TypeOK'
  BY <1>1 DEF mainVars, workVars, IInv, TypeOK
<1>3. \A x \in Session : Safe(x)'
  BY <1>1 DEF mainVars, workVars, IInv, Safe, Referenced, Unstarted, Undisturbed, Cleared, Ended, Staged
<1> QED
  BY <1>2, <1>3 DEF IInv

LEMMA HandshakeInv == ASSUME IInv, NEW s \in Session, Handshake(s) PROVE IInv'
<1>1. TypeOK'
  <2>1. copy' \in [Session -> Entry]
    BY KeyAssumption DEF KeyAssumption, Handshake, IInv, TypeOK
  <2> QED
    BY <2>1 DEF wire, Handshake, mainVars, workVars, IInv, TypeOK
<1>2. \A x \in Session : Safe(x)'
  BY DEF IInv, TypeOK, Handshake, Waits, Free, mainVars, workVars, 
     Safe, Referenced, Unstarted, Undisturbed, Cleared, Ended, Staged
<1> QED
  BY <1>1, <1>2 DEF IInv

LEMMA HandshakeUpdateInv == ASSUME IInv, NEW s \in Session, HandshakeUpdate(s) PROVE IInv'
<1>1. TypeOK'
  <2>1. copy' \in [Session -> Entry]
    BY EntryType DEF HandshakeUpdate, IInv, TypeOK
  <2>2. entry' \in [Key -> Entry]
    BY EntryType DEF HandshakeUpdate, IInv, TypeOK
  <2> QED
    BY <2>1, <2>2 DEF wire, HandshakeUpdate, mainVars, workVars, IInv, TypeOK
<1>2. \A x \in Session : Safe(x)'
  BY DEF IInv, TypeOK, HandshakeUpdate, mainVars, workVars, 
     Safe, Referenced, Unstarted, Undisturbed, Cleared, Ended, Staged
<1> QED
  BY <1>1, <1>2 DEF IInv

LEMMA ClearEndsInv == ASSUME IInv, NEW s \in Session, ClearEnds(s) PROVE IInv'
<1>1. TypeOK'
  <2>1. thread' \in [Session -> Thread]
    BY DEF ClearEnds, Thread, IInv, TypeOK
  <2>2. childCleared' \in [Session -> BOOLEAN]
    BY DEF ClearEnds, IInv, TypeOK
  <2> QED
    BY <2>1, <2>2 DEF wire, ClearEnds, mainVars, IInv, TypeOK
<1>2. \A x \in Session : Safe(x)'
  <2>1. conn[s] = "done" /\ stage[s] \notin {"none", "open", "refs"}
    BY DEF ClearEnds, IInv, Safe, Unstarted, Undisturbed
  <2> QED
    BY <2>1 DEF ClearEnds, Free, mainVars, IInv, TypeOK,
       Safe, Referenced, Unstarted, Undisturbed, Cleared, Ended, Staged
<1> QED
  BY <1>1, <1>2 DEF IInv

LEMMA ThreadEndsInv == ASSUME IInv, NEW s \in Session, ThreadEnds(s) PROVE IInv'
<1>1. TypeOK'
  <2>1. thread' \in [Session -> Thread]
    BY DEF ThreadEnds, Thread, IInv, TypeOK
  <2> QED
    BY <2>1 DEF wire, ThreadEnds, mainVars, IInv, TypeOK
<1>2. \A x \in Session : Safe(x)'
  BY DEF IInv, TypeOK, ThreadEnds, mainVars, 
     Safe, Referenced, Unstarted, Undisturbed, Cleared, Ended, Staged
<1> QED
  BY <1>1, <1>2 DEF IInv

LEMMA NextInv == IInv /\ [Next]_vars => IInv'
<1> SUFFICES ASSUME IInv, [Next]_vars PROVE IInv'
  OBVIOUS
<1>1. CASE UNCHANGED vars
  <2>1. TypeOK'
    BY <1>1 DEF wire, vars, mainVars, workVars, IInv, TypeOK
  <2>2. \A x \in Session : Safe(x)'
    BY <1>1 DEF vars, mainVars, workVars, IInv, Safe, Referenced, Unstarted, Undisturbed, Cleared, Ended, Staged
  <2> QED
    BY <2>1, <2>2 DEF IInv
<1>2. CASE Next
  BY <1>2, CreateUpdateInv, NotifyUpdateInv, RemoveSessionInv, CreateConnectInv, ConnectInv,
     ConnectFailsInv, AsyncFreeInv, ThreadUpInv, FreeSessionOpeateInv,
     FreeSessionContinueInv, HandleClosedInv, FreeSessionFinallyInv, ThreadStartInv,
     ReadCtrlInv, DispatchStartInv, DispatchStartFailsInv, DispatchStopInv,
     CloseCallbackInv, ReadFailsInv, SendInv, SendReturnsInv, WireInv, HandshakeInv,
     HandshakeUpdateInv, ClearEndsInv, ThreadEndsInv DEF Next, MainEnds, ConnectReturns,
     Teardown, WorkEnds, WorkServes
<1> QED
  BY <1>1, <1>2

LEMMA Invariant == Spec => []IInv
  BY InitInv, NextInv, PTL DEF Spec

\* Every reachable state is well typed, for any sessions and keys.
THEOREM TypeCorrect == Spec => []TypeOK
<1>1. IInv => TypeOK
  BY DEF IInv
<1> QED
  BY <1>1, Invariant, PTL

\* FreeSessionContinue and FreeSessionFinally never take a session apart while its
\* work thread runs callbacks, holds a reference or may start.
THEOREM TornDownQuietly == Spec => []TornDownIsQuiet
<1>1. IInv => TornDownIsQuiet
  BY DEF IInv, TornDownIsQuiet, Free, Safe, Referenced, Unstarted, Undisturbed, Cleared, Ended, Staged
<1> QED
  BY <1>1, Invariant, PTL

LEMMA RankValue ==
    /\ Rank("none") = 1 /\ Rank("open") = 2 /\ Rank("refs") = 3
    /\ Rank("child") = 4 /\ Rank("handles") = 5 /\ Rank("gone") = 6
<1>1. /\ StageOrder[1] = "none" /\ StageOrder[2] = "open" /\ StageOrder[3] = "refs"
      /\ StageOrder[4] = "child" /\ StageOrder[5] = "handles" /\ StageOrder[6] = "gone"
  BY DEF StageOrder
<1>2. \A i \in 1..6 : i = 1 \/ i = 2 \/ i = 3 \/ i = 4 \/ i = 5 \/ i = 6
  OBVIOUS
<1>3. \A i, j \in 1..6 : StageOrder[i] = StageOrder[j] => i = j
  BY <1>1, <1>2
<1>4. \A i \in 1..6 : Rank(StageOrder[i]) = i
  BY <1>3 DEF Rank
<1> QED
  BY <1>1, <1>4

\* A step takes each session forward on its way, or leaves it where it is.
LEMMA StepForward ==
    IInv /\ [Next]_vars => \A x \in Session :
        \/ stage'[x] = stage[x]
        \/ stage[x] = "none" /\ stage'[x] = "open"
        \/ stage[x] = "open" /\ stage'[x] = "refs"
        \/ stage[x] = "refs" /\ stage'[x] \in {"child", "handles"}
        \/ stage[x] = "child" /\ stage'[x] = "handles"
        \/ stage[x] = "handles" /\ stage'[x] = "gone"
<1> SUFFICES ASSUME IInv, [Next]_vars, NEW x \in Session
             PROVE  \/ stage'[x] = stage[x]
                    \/ stage[x] = "none" /\ stage'[x] = "open"
                    \/ stage[x] = "open" /\ stage'[x] = "refs"
                    \/ stage[x] = "refs" /\ stage'[x] \in {"child", "handles"}
                    \/ stage[x] = "child" /\ stage'[x] = "handles"
                    \/ stage[x] = "handles" /\ stage'[x] = "gone"
  OBVIOUS
<1>1. ASSUME NEW s \in Session, ConnectFails(s) \/ AsyncFree(s)
      PROVE  stage'[x] = stage[x] \/ (stage[x] = "open" /\ stage'[x] = "refs")
  BY <1>1, FreeSessionMarks DEF ConnectFails, AsyncFree
<1>2. ASSUME NEW k \in Key, RemoveSession(k)
      PROVE  stage'[x] = stage[x] \/ (stage[x] = "open" /\ stage'[x] = "refs")
  <2>1. PICK s \in Session : FreeSession(s)
    BY <1>2, EntryType DEF RemoveSession, IInv, TypeOK
  <2> QED
    BY <1>2, <2>1, FreeSessionMarks DEF RemoveSession
<1>3. ASSUME NEW s \in Session, CreateConnect(s)
      PROVE  stage'[x] = stage[x] \/ (stage[x] = "none" /\ stage'[x] = "open")
  BY <1>3 DEF CreateConnect, IInv, TypeOK
<1>4. ASSUME NEW s \in Session, FreeSessionOpeate(s)
      PROVE  stage'[x] = stage[x] \/ (stage[x] = "refs" /\ stage'[x] \in {"child", "handles"})
  BY <1>4 DEF FreeSessionOpeate, IInv, TypeOK
<1>5. ASSUME NEW s \in Session, Teardown(s)
      PROVE  \/ stage'[x] = stage[x]
             \/ stage[x] = "child" /\ stage'[x] = "handles"
             \/ stage[x] = "handles" /\ stage'[x] = "gone"
  BY <1>5 DEF Teardown, FreeSessionContinue, HandleClosed, FreeSessionFinally, IInv, TypeOK
<1>6. ASSUME MainEnds \/ Fills \/ (\E s \in Session : Connect(s) \/ WorkEnds(s) \/ WorkServes(s)
                                      \/ ReadFails(s) \/ Send(s) \/ SendReturns(s) \/ Handshake(s))
      PROVE  stage' = stage
  <2>1. CASE MainEnds \/ Fills
    BY <2>1 DEF MainEnds, CreateUpdate, NotifyUpdate, ThreadUp, Fills, mainVars
  <2>2. ASSUME NEW s \in Session, WorkEnds(s) \/ SendReturns(s)
        PROVE  stage' = stage
    BY <2>2 DEF WorkEnds, ThreadStart, DispatchStart, DispatchStartFails, DispatchStop,
       SendByProtocol, SendReturns, HandshakeUpdate, ThreadEnds, mainVars
  <2>3. ASSUME NEW s \in Session, Connect(s) \/ WorkServes(s) \/ ReadFails(s) \/ Send(s) \/ Handshake(s)
        PROVE  stage' = stage
    BY <2>3 DEF Connect, WorkServes, ReadFails, Send, Handshake, ReadCtrl, CloseCallback, ClearEnds,
       mainVars
  <2> QED
    BY <1>6, <2>1, <2>2, <2>3
<1>7. CASE UNCHANGED vars
  BY <1>7 DEF vars, mainVars
<1> QED
  BY <1>1, <1>2, <1>3, <1>4, <1>5, <1>6, <1>7 DEF Next, ConnectReturns

\* However often and from whichever thread a session is freed, each stage of its
\* end, with its timer, command or delete, comes once.
THEOREM EndsOnlyOnce == Spec => EndsOnce
<1>1. IInv /\ [Next]_vars => [\A s \in Session : Rank(stage'[s]) >= Rank(stage[s])]_vars
  <2> SUFFICES ASSUME IInv, [Next]_vars, NEW s \in Session
               PROVE  Rank(stage'[s]) >= Rank(stage[s])
    OBVIOUS
  <2>1. Rank(stage[s]) \in Nat
    <3>1. stage[s] \in {"none", "open", "refs", "child", "handles", "gone"}
      BY StageType DEF IInv, TypeOK
    <3> QED
      BY <3>1, RankValue
  <2> QED
    BY <2>1, StepForward, RankValue
<1> QED
  BY <1>1, Invariant, PTL DEF Spec, EndsOnce

-----------------------------------------------------------------------------
(* The tasks, for any finite set of them, any number of sessions and any      *)
(* width of taskCount.                                                        *)

\* What HdcTaskClear asks of its constants.
TasksAreSound == Tasks!TaskAssumption /\ Tasks!ModulusAssumption /\ Tasks!TimesAssumption

TasksInv == TasksAreSound /\ Tasks!TypeOK

\* FiniteSets as HdcTaskClear has it.
LEMMA SameFiniteSets ==
    /\ \A S : Tasks!IsFiniteSet(S) <=> IsFiniteSet(S)
    /\ \A S : Tasks!Cardinality(S) = Cardinality(S)
  BY DEF Tasks!IsFiniteSet, IsFiniteSet, Tasks!Cardinality, Cardinality

\* A number of tasks fits a uint32 once it is truncated.
LEMMA CountType ==
    ASSUME TasksAreSound, NEW s \in Session
    PROVE  Tasks!Cardinality(Tasks!Mapped(s)) % Modulus \in 0..(Modulus - 1)
<1>1. Tasks!Mapped(s) \subseteq Task
  BY DEF Tasks!Mapped
<1>2. IsFiniteSet(Tasks!Mapped(s))
  BY <1>1, FS_Subset, SameFiniteSets DEF TasksAreSound, Tasks!TaskAssumption
<1>3. Tasks!Cardinality(Tasks!Mapped(s)) \in Nat
  BY <1>2, FS_CardinalityType, SameFiniteSets
<1> QED
  BY <1>3 DEF TasksAreSound, Tasks!ModulusAssumption

\* taskCount-- stays a uint32: below 0 it wraps.
LEMMA DecrementType ==
    TasksAreSound /\ Tasks!TypeOK => (taskCount + Modulus - 1) % Modulus \in 0..(Modulus - 1)
  BY DEF TasksAreSound, Tasks!ModulusAssumption, Tasks!TypeOK

LEMMA InitTasks == TasksAreSound /\ Tasks!Init => TasksInv
  BY DEF TasksAreSound, Tasks!ModulusAssumption, Tasks!TimesAssumption, Tasks!Init, TasksInv,
         Tasks!TypeOK, Tasks!Thread, Tasks!TaskState

\* ClearOwnTasks moves tasks of the map to their timers, whichever it is asked for.
LEMMA ClearKeeps ==
    ASSUME TasksInv, NEW s \in Session, NEW gone \in SUBSET Tasks!Mapped(s),
           Tasks!ClearOwnTasks(s, gone)
    PROVE  /\ task' \in [Task -> Tasks!TaskState]
           /\ taskCount' \in 0..(Modulus - 1)
<1>1. task' = [t \in Task |-> IF t \in gone THEN "removing" ELSE task[t]]
  BY DEF Tasks!ClearOwnTasks
<1>2. task' \in [Task -> Tasks!TaskState]
  BY <1>1 DEF TasksInv, Tasks!TypeOK, Tasks!TaskState
<1>3. taskCount' \in 0..(Modulus - 1)
  BY CountType DEF TasksInv, Tasks!ClearOwnTasks
<1> QED
  BY <1>2, <1>3

LEMMA NextTasks == TasksInv /\ [Tasks!Next]_(Tasks!vars) => TasksInv'
<1> SUFFICES ASSUME TasksInv, [Tasks!Next]_(Tasks!vars) PROVE TasksInv'
  OBVIOUS
<1> USE DEF TasksInv, Tasks!TypeOK
<1>1. CASE UNCHANGED Tasks!vars
  BY <1>1 DEF Tasks!vars
<1>2. ASSUME NEW t \in Task, Tasks!NewTask(t) PROVE TasksInv'
  <2>1. busy' \subseteq Task
    BY <1>2 DEF Tasks!NewTask
  <2>2. task' \in [Task -> Tasks!TaskState]
    BY <1>2 DEF Tasks!NewTask, Tasks!TaskState
  <2> QED
    BY <1>2, <2>1, <2>2 DEF Tasks!NewTask
<1>3. ASSUME NEW t \in Task, Tasks!OperationEnds(t) PROVE TasksInv'
  BY <1>3 DEF Tasks!OperationEnds
<1>4. ASSUME NEW t \in Task, Tasks!TryRemove(t) PROVE TasksInv'
  <2>1. PICK b \in {busy} \cup (IF t \in stopped THEN {} ELSE {busy \ {t}}) :
          /\ busy' = b
          /\ IF t \in b
             THEN UNCHANGED <<task, taskCount>>
             ELSE /\ task' = [task EXCEPT ![t] = "freed"]
                  /\ taskCount' = (taskCount + Modulus - 1) % Modulus
    BY <1>4 DEF Tasks!TryRemove
  <2>2. b \subseteq busy
    OBVIOUS
  <2>3. /\ stopped' \subseteq Task
        /\ UNCHANGED <<taskThread, times>>
    BY <1>4 DEF Tasks!TryRemove
  <2>4. CASE t \in b
    BY <2>1, <2>2, <2>3, <2>4
  <2>5. CASE t \notin b
    <3>1. task' = [task EXCEPT ![t] = "freed"] /\ taskCount' = (taskCount + Modulus - 1) % Modulus
      BY <2>1, <2>5
    <3>2. task' \in [Task -> Tasks!TaskState]
      BY <3>1 DEF Tasks!TaskState
    <3>3. taskCount' \in 0..(Modulus - 1)
      BY <3>1, DecrementType
    <3> QED
      BY <2>1, <2>2, <2>3, <3>2, <3>3
  <2> QED
    BY <2>4, <2>5
<1>5. ASSUME NEW s \in Session, Tasks!ClearChannel(s) PROVE TasksInv'
  <2>1. PICK gone \in {{t} : t \in Tasks!Mapped(s)} \cup {{}} : Tasks!ClearOwnTasks(s, gone)
    BY <1>5 DEF Tasks!ClearChannel
  <2>2. gone \in SUBSET Tasks!Mapped(s)
    OBVIOUS
  <2>3. UNCHANGED <<taskThread, busy, stopped, times>>
    BY <1>5 DEF Tasks!ClearChannel
  <2> QED
    BY <2>1, <2>2, <2>3, ClearKeeps
<1>6. ASSUME NEW s \in Session, Tasks!StopSession(s) PROVE TasksInv'
  BY <1>6 DEF Tasks!StopSession, Tasks!Thread
<1>7. ASSUME NEW s \in Session, Tasks!BeginClear(s) PROVE TasksInv'
  <2>1. /\ taskThread' \in [Session -> Tasks!Thread]
        /\ Tasks!ClearOwnTasks(s, Tasks!Mapped(s))
        /\ UNCHANGED <<busy, stopped, times>>
    BY <1>7 DEF Tasks!BeginClear, Tasks!Thread
  <2> QED
    BY <2>1, ClearKeeps
<1>8. ASSUME NEW s \in Session, Tasks!ClearTick(s) PROVE TasksInv'
  <2>1. taskThread' \in [Session -> Tasks!Thread]
    BY <1>8 DEF Tasks!ClearTick, Tasks!Thread
  <2>2. times' \in [Session -> 0..MaxTimes]
    BY <1>8 DEF Tasks!ClearTick, TasksAreSound, Tasks!TimesAssumption
  <2> QED
    BY <1>8, <2>1, <2>2 DEF Tasks!ClearTick
<1> QED
  BY <1>1, <1>2, <1>3, <1>4, <1>5, <1>6, <1>7, <1>8 DEF Tasks!Next, Tasks!TaskStep, Tasks!SessionStep

LEMMA TasksInvariant == ASSUME TasksAreSound PROVE Tasks!Spec => []TasksInv
  BY InitTasks, NextTasks, PTL DEF Tasks!Spec

\* Every reachable state is well typed; taskCount is always a uint32.
THEOREM TasksTyped == ASSUME TasksAreSound PROVE Tasks!Spec => []Tasks!TypeOK
<1>1. TasksInv => Tasks!TypeOK
  BY DEF TasksInv
<1> QED
  BY <1>1, TasksInvariant, PTL
=============================================================================
