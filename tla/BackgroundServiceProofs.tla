---------------------- MODULE BackgroundServiceProofs ----------------------
(***************************************************************************)
(* Safety of BackgroundService for every set of service texts and every    *)
(* queue bound.  ConvergedWhenSettled is not inductive: while a refresh    *)
(* runs, what it is converging to may already be out of date.  IInv adds   *)
(* that then another refresh is queued behind it, and says, for each point *)
(* at which a refresh is suspended, what the system and the manager's      *)
(* belief about it are.                                                    *)
(***************************************************************************)
EXTENDS MCBackgroundService, TLAPS

Agree == taskActive = (osTask # NoMode) /\ currentMode = osTask

\* A refresh out of date with the intent has another refresh queued behind it.
StaleIsRequeued ==
    /\ pc # "idle" /\ pending = 0 => targetMode = getTargetMode
    /\ pc \in {"publishing", "posting"} /\ pending = 0 => text = NotificationText
    /\ pc = "posting" /\ pending = 0 => label = NotificationLabel

\* What is true at each await of the refresh.
AtAwait ==
    /\ pc \notin {"stopped", "switched", "started"} => Agree
    /\ pc \in {"stopped", "switched", "agent", "starting", "cancelling"} => osTask = NoMode
    /\ pc \in {"stopping", "switching"} => osTask # NoMode
    /\ pc \in {"started", "publishing", "posting"} => osTask = targetMode
    /\ pc \in {"stopping", "stopped", "cancelling"} => targetMode = NoMode
    /\ pc \in {"asking", "switching", "switched", "agent", "starting", "started", "publishing",
              "posting"} => targetMode # NoMode
    /\ pc # "idle" => outcome = "ok"

IInv == TypeOK /\ StaleIsRequeued /\ AtAwait /\ ConvergedWhenSettled

\* What the intent asks for is always a mode or none.
LEMMA TargetModeType == TypeOK => getTargetMode \in Mode \cup {NoMode}
  BY DEF TypeOK, getTargetMode, Mode, NoMode

LEMMA NotificationTextType == TypeOK => NotificationText \in Text
  BY DEF TypeOK, NotificationText, Text

LEMMA NotificationLabelType == NotificationLabel \in Label
  BY DEF NotificationLabel, Label

\* The values the system shows are typed.
LEMMA NotifType ==
    /\ NoNotif \in Notif
    /\ \A t \in Text, l \in Label : [text |-> t, label |-> l] \in Notif
<1>1. NoText \in Text
  BY DEF Text
<1>2. NoLabel \in Label
  BY DEF Label
<1> QED
  BY <1>1, <1>2 DEF NoNotif, Notif

LEMMA InitInv == Init => IInv
<1> SUFFICES ASSUME Init PROVE IInv
  OBVIOUS
<1>1. TypeOK
  <2>1. NoText \in Text
    BY DEF Text
  <2>2. 0 \in 0..MaxPending
    BY MaxPendingAssumption DEF MaxPendingAssumption
  <2>3. NoLabel \in Label
    BY DEF Label
  <2> QED
    BY <2>1, <2>2, <2>3, NotifType DEF Init, TypeOK, PC
<1>2. StaleIsRequeued /\ AtAwait
  BY DEF Init, StaleIsRequeued, AtAwait, Agree, NoMode
<1>3. ConvergedWhenSettled
  BY DEF Init, ConvergedWhenSettled, Settled, getTargetMode
<1> QED
  BY <1>1, <1>2, <1>3 DEF IInv

\* A call changes only the intent, and queues a refresh for it.
LEMMA CallInv == IInv /\ Call => IInv'
<1> SUFFICES ASSUME IInv, Call PROVE IInv'
  OBVIOUS
<1>1. pending' = pending + 1 /\ pending' \in 0..MaxPending /\ pending' # 0
  BY MaxPendingAssumption
  DEF IInv, TypeOK, Call, startWebServer, stopWebServer, startRecordingTask,
      stopRecordingTask, enqueueRefresh
<1>2. UNCHANGED <<belief, pc, targetMode, text, label, outcome, os>>
  BY DEF Call, startWebServer, stopWebServer, startRecordingTask, stopRecordingTask,
         RefreshUntouched
<1>3. isServerRunning' \in BOOLEAN /\ isRecording' \in BOOLEAN /\ currentServiceInfo' \in Info
  BY DEF IInv, TypeOK, Call, startWebServer, stopWebServer, startRecordingTask,
         stopRecordingTask, RefreshUntouched
<1>4. TypeOK'
  BY <1>1, <1>2, <1>3 DEF IInv, TypeOK, belief, os
<1>5. StaleIsRequeued' /\ ConvergedWhenSettled'
  BY <1>1 DEF StaleIsRequeued, ConvergedWhenSettled, Settled
<1>6. AtAwait'
  BY <1>2 DEF IInv, AtAwait, Agree, belief, os
<1> QED
  BY <1>4, <1>5, <1>6 DEF IInv

\* Each step of a refresh, and each answer of the system, keeps the invariant.
LEMMA RefreshInv == IInv /\ Refresh => IInv'
<1> SUFFICES ASSUME IInv, Refresh PROVE IInv'
  OBVIOUS
<1> USE DEF IInv, TypeOK, StaleIsRequeued, AtAwait, ConvergedWhenSettled, Settled, Agree,
            intent, belief, os, PC
<1>1. CASE RefreshBegin
  <2>1. UNCHANGED <<getTargetMode, NotificationText, NotificationLabel>>
    BY <1>1 DEF RefreshBegin, getTargetMode, NotificationText, NotificationLabel
  <2>2. pending' \in 0..MaxPending
    BY <1>1, MaxPendingAssumption DEF RefreshBegin
  <2> QED
    BY <1>1, <2>1, <2>2, TargetModeType DEF RefreshBegin, NoMode, Mode
<1>2. CASE RefreshAsked
  <2>1. UNCHANGED <<getTargetMode, NotificationText, NotificationLabel>>
    BY <1>2 DEF RefreshAsked, getTargetMode, NotificationText,
        NotificationLabel
  <2> QED
    BY <1>2, <2>1, NotificationTextType DEF RefreshAsked
<1>3. CASE RefreshStopped \/ RefreshSwitched
  <2>1. UNCHANGED <<getTargetMode, NotificationText, NotificationLabel>>
    BY <1>3 DEF RefreshStopped, RefreshSwitched, getTargetMode, NotificationText,
        NotificationLabel
  <2> QED
    BY <1>3, <2>1 DEF RefreshStopped, RefreshSwitched, ForgetTask
<1>4. CASE RefreshAgent
  <2>1. UNCHANGED <<getTargetMode, NotificationText, NotificationLabel>>
    BY <1>4 DEF RefreshAgent, Throw, getTargetMode, NotificationText,
        NotificationLabel
  <2> QED
    BY <1>4, <2>1 DEF RefreshAgent, Throw
<1>5. CASE RefreshStarted
  <2>1. UNCHANGED <<getTargetMode, NotificationText, NotificationLabel>>
    BY <1>5 DEF RefreshStarted, getTargetMode, NotificationText,
        NotificationLabel
  <2> QED
    BY <1>5, <2>1, NotificationTextType DEF RefreshStarted
<1>6. CASE OSStop \/ OSStopFails \/ OSStartFails
  <2>1. UNCHANGED <<getTargetMode, NotificationText, NotificationLabel>>
    BY <1>6 DEF OSStop, OSStopFails, OSStartFails, Throw, getTargetMode, NotificationText,
        NotificationLabel
  <2> QED
    BY <1>6, <2>1 DEF OSStop, OSStopFails, OSStartFails, Throw
<1>7. CASE OSStart
  <2>1. UNCHANGED <<getTargetMode, NotificationText, NotificationLabel>>
    BY <1>7 DEF OSStart, getTargetMode, NotificationText,
        NotificationLabel
  <2> QED
    BY <1>7, <2>1 DEF OSStart
<1>8. CASE RefreshComposed
  <2>1. UNCHANGED <<getTargetMode, NotificationText, NotificationLabel>>
    BY <1>8 DEF RefreshComposed, getTargetMode, NotificationText, NotificationLabel
  <2> QED
    BY <1>8, <2>1, NotificationLabelType DEF RefreshComposed, Muted
<1>9. CASE OSPublish \/ OSCancel
  <2>1. UNCHANGED <<getTargetMode, NotificationText, NotificationLabel>>
    BY <1>9 DEF OSPublish, OSCancel, getTargetMode, NotificationText, NotificationLabel
  <2>2. [text |-> text, label |-> label] \in Notif
    BY NotifType
  <2> QED
    BY <1>9, <2>1, <2>2, NotifType DEF OSPublish, OSCancel, Muted
<1> QED
  BY <1>1, <1>2, <1>3, <1>4, <1>5, <1>6, <1>7, <1>8, <1>9 DEF Refresh

LEMMA StutterInv == IInv /\ UNCHANGED vars => IInv'
  BY DEF IInv, TypeOK, StaleIsRequeued, AtAwait, ConvergedWhenSettled, Settled, Agree,
         getTargetMode, NotificationText, NotificationLabel, vars, intent, belief, os

LEMMA Inductive == Spec => []IInv
<1>1. IInv /\ [Next]_vars => IInv'
  BY CallInv, RefreshInv, StutterInv DEF Next
<1> QED
  BY InitInv, <1>1, PTL DEF Spec

\* Every reachable state is well typed.
THEOREM TypeCorrect == Spec => []TypeOK
<1>1. IInv => TypeOK
  BY DEF IInv
<1> QED
  BY Inductive, <1>1, PTL

\* No switch of the recorder or the web server is ever lost: once the queue has
\* drained without an error, the task and its notification are the intended ones.
THEOREM Convergence == Spec => []ConvergedWhenSettled
<1>1. IInv => ConvergedWhenSettled
  BY DEF IInv
<1> QED
  BY Inductive, <1>1, PTL

\* Between refreshes taskActive and currentMode are the system's real state.
THEOREM BeliefCorrect == Spec => []BeliefMatchesSystem
<1>1. IInv => BeliefMatchesSystem
  BY DEF IInv, AtAwait, Agree, BeliefMatchesSystem
<1> QED
  BY Inductive, <1>1, PTL

\* The system is never asked to start a second task or to stop a missing one.
THEOREM LegalCalls == Spec => []CallsAreLegal
<1>1. IInv => CallsAreLegal
  BY DEF IInv, AtAwait, CallsAreLegal
<1> QED
  BY Inductive, <1>1, PTL
-----------------------------------------------------------------------------
(* The callers of the coordinator.                                           *)

\* What WebServerUtil believes is what it has told the coordinator.
ListenerIsIntended == listening => isServerRunning

\* A start tells the coordinator, or leaves it alone and listens first.
LEMMA StartedCalls ==
    ASSUME NEW w, Started(w)
    PROVE  Call /\ isServerRunning'
  BY DEF Started, Call, startWebServer

LEMMA StartCalls ==
    ASSUME NEW w, start(w)
    PROVE  /\ Call \/ UNCHANGED vars
           /\ isServerRunning' \/ (UNCHANGED isServerRunning /\ UNCHANGED listening)
  BY StartedCalls DEF start, vars, intent

\* A step of the application calls the coordinator once, is one of its own
\* steps, or leaves it alone; who listens has said so.
LEMMA AppStep ==
    ASSUME [AppNext]_<<vars, app>>, ListenerIsIntended
    PROVE  [Next]_vars /\ ListenerIsIntended'
<1> USE DEF ListenerIsIntended, Next
<1>1. CASE restoreSavedState \/ saveUserAgreement
  <2>1. CASE start("restore")
    BY <2>1, StartCalls
  <2>2. CASE UNCHANGED <<WEB_SERVER_ON, page, listening, starting, vars>>
    BY <2>2 DEF vars, intent
  <2> QED
    BY <1>1, <2>1, <2>2 DEF restoreSavedState, saveUserAgreement
<1>2. CASE openPage \/ leavePage
  BY <1>2 DEF openPage, leavePage, vars, intent
<1>3. CASE toggleServerOff
  BY <1>3 DEF toggleServerOff, stop, Call
<1>4. CASE toggleServerOn
  BY <1>4, StartCalls DEF toggleServerOn
<1>5. CASE autoStartSwitch
  BY <1>5 DEF autoStartSwitch, stop, vars, intent
<1>6. CASE \E w \in Waiter : ListenSucceeds(w) \/ ListenFails(w)
  <2> PICK w \in Waiter : ListenSucceeds(w) \/ ListenFails(w)
    BY <1>6
  <2>1. CASE ListenSucceeds(w)
    BY <2>1, StartedCalls DEF ListenSucceeds
  <2>2. CASE ListenFails(w)
    BY <2>2 DEF ListenFails, vars, intent
  <2> QED
    BY <2>1, <2>2
<1>7. CASE recorder
  BY <1>7 DEF recorder, Call, startRecordingTask, stopRecordingTask, app
<1>8. CASE Refresh /\ UNCHANGED app
  <2>1. UNCHANGED isServerRunning
    BY <1>8
    DEF Refresh, RefreshBegin, RefreshAsked, RefreshStopped, RefreshSwitched, RefreshAgent,
        RefreshStarted, RefreshComposed, OSStop, OSStopFails, OSStart, OSStartFails, OSPublish,
        OSCancel, Throw, intent
  <2> QED
    BY <1>8, <2>1 DEF app
<1>9. CASE UNCHANGED <<vars, app>>
  BY <1>9 DEF vars, intent, app
<1> QED
  BY <1>1, <1>2, <1>3, <1>4, <1>5, <1>6, <1>7, <1>8, <1>9 DEF AppNext

LEMMA AppInductive == AppSpec => Spec /\ []ListenerIsIntended
<1>1. AppInit => Init /\ ListenerIsIntended
  BY DEF AppInit, ListenerIsIntended
<1> QED
  BY <1>1, AppStep, PTL DEF AppSpec, Spec

\* The pages and the ability use the coordinator as it is meant to be used:
\* whatever they do is a behaviour of BackgroundService, so that all that is
\* proved of it holds with them.
THEOREM CallersRefine == AppSpec => Spec
  BY AppInductive, PTL

\* Nothing freezes a server that listens: at rest and without an error the
\* system runs a task, and its notification shows where the server is, however
\* many starts were in flight.
THEOREM KeptAlive == AppSpec => []ListenerIsKeptAlive
<1>1. IInv /\ ListenerIsIntended => ListenerIsKeptAlive
  BY DEF IInv, TypeOK, ConvergedWhenSettled, ListenerIsIntended, ListenerIsKeptAlive, Settled,
         getTargetMode, NotificationText, NoMode
<1> QED
  BY AppInductive, Inductive, <1>1, PTL
-----------------------------------------------------------------------------
(* The recorder beside it.                                                   *)

\* Somebody is still to take the flags back: a stop, the rest of a cleanUp or
\* the end of the audio session is under way.
IsEnding ==
    \/ deactivating > 0
    \/ \E t \in Take : stopping[t] > 0 \/ releasing[t] > 0

\* A take that the background task has been asked for and that does not hold
\* the object yet.
IsComing == \E t \in Take : stage[t] \in {"delayed", "creating"}

\* The capture the object holds is that of a take under way.
HolderIsActive ==
    screenCapture \in Take /\ stage[screenCapture] \in {"initing", "starting", "recording"}

\* Why the flags are set: a set flag has a take behind it or an end before it.
\* A take whose file was closed by another's cleanUp goes without telling; then
\* the task has been taken back as well, or asked for by a take still delayed.
FlagsHaveReason ==
    ~failed =>
        /\ wanted => IsEnding \/ IsComing \/ HolderIsActive
        /\ wanted /\ file = None => IsEnding \/ \E t \in Take : stage[t] = "delayed"
        /\ isInRecording =>
              \E t \in Take : stage[t] = "recording" \/ stopping[t] > 0 \/ releasing[t] > 0
        /\ file # None =>
              HolderIsActive \/ \E t \in Take : stage[t] = "creating" \/ releasing[t] > 0

RecorderInv == Recorder!TypeOK /\ FlagsHaveReason

\* What is added to the list is a take, and what is left after a deletion is a
\* part of the list.
LEMMA Listed ==
    ASSUME Recorder!TypeOK, Recorder!addRecordTask
    PROVE  recordings' \in Seq(Take)
  BY DEF Recorder!addRecordTask, Recorder!Unlisted, Recorder!TypeOK

LEMMA Deleted ==
    ASSUME Recorder!TypeOK, NEW t \in Take, Recorder!deleteFile(t)
    PROVE  recordings' \in Seq(Take)
<1>1. recordings \in Seq(Take) /\ DOMAIN recordings = 1..Len(recordings)
  BY DEF Recorder!TypeOK
<1>2. Len(recordings) > 0
  BY <1>1 DEF Recorder!deleteFile, Recorder!Contains
<1>3. recordings' = SubSeq(recordings, 1, Len(recordings) - 1)
  BY DEF Recorder!deleteFile, Recorder!Front
<1> QED
  BY <1>1, <1>2, <1>3

LEMMA RecorderInitInv == Recorder!Init => RecorderInv
<1> SUFFICES ASSUME Recorder!Init PROVE RecorderInv
  OBVIOUS
<1>1. Recorder!TypeOK
  <2> USE DEF Recorder!Init
  <2>1. stage \in [Take -> Recorder!Stage]
    BY DEF Recorder!Stage
  <2>2. stopping \in [Take -> 0..MaxJobs] /\ releasing \in [Take -> 0..MaxJobs]
        /\ deactivating \in 0..MaxJobs
    BY RecorderAssumption
  <2>3. recordings \in Seq(Take)
    OBVIOUS
  <2>4. {screenCapture, fileName, file} \subseteq Take \cup {None}
        /\ isInRecording \in BOOLEAN /\ wanted \in BOOLEAN /\ failed \in BOOLEAN
    OBVIOUS
  <2> QED
    BY <2>1, <2>2, <2>3, <2>4 DEF Recorder!TypeOK
<1>2. FlagsHaveReason
  BY DEF Recorder!Init, FlagsHaveReason
<1> QED
  BY <1>1, <1>2 DEF RecorderInv

\* The list's part of every step of the recorder.
LEMMA ListStep ==
    ASSUME Recorder!TypeOK, Recorder!Next
    PROVE  recordings' \in Seq(Take)
<1>1. CASE Recorder!addRecordTask
  BY <1>1, Listed
<1>2. CASE \E t \in Take : Recorder!deleteFile(t)
  BY <1>2, Deleted
<1>3. CASE recordings' = recordings
  BY <1>3 DEF Recorder!TypeOK
<1>4. Recorder!addRecordTask \/ (\E t \in Take : Recorder!deleteFile(t)) \/ recordings' = recordings
  BY DEF Recorder!Next, Recorder!pressStop, Recorder!Deactivated, Recorder!pressStart,
         Recorder!Activated, Recorder!ActivateFails, Recorder!Stopped, Recorder!StopFails,
         Recorder!startRecording, Recorder!Created, Recorder!CreateFails, Recorder!Initialised,
         Recorder!StartFails, Recorder!STARTED, Recorder!STOPPED_BY_USER, Recorder!CANCELED,
         Recorder!Released, Recorder!ReleaseFails, Recorder!model
<1> QED
  BY <1>1, <1>2, <1>3, <1>4

\* A job less and a job more keep the counters within their bound.
LEMMA LessJobs ==
    ASSUME NEW f \in [Take -> 0..MaxJobs], NEW t \in Take, f[t] > 0
    PROVE  [f EXCEPT ![t] = @ - 1] \in [Take -> 0..MaxJobs]
  BY RecorderAssumption

LEMMA MoreJobs ==
    ASSUME NEW f \in [Take -> 0..MaxJobs], NEW t \in Take, f[t] < MaxJobs
    PROVE  [f EXCEPT ![t] = @ + 1] \in [Take -> 0..MaxJobs]
  BY RecorderAssumption

\* cleanUp has begun a release and left the rest to it, or has ended.
LEMMA CleanedUp ==
    ASSUME Recorder!TypeOK, NEW flag \in BOOLEAN, Recorder!cleanUp(flag)
    PROVE  /\ releasing' \in [Take -> 0..MaxJobs] /\ file' \in Take \cup {None}
           /\ isInRecording' \in BOOLEAN /\ wanted' \in BOOLEAN
           /\ \/ screenCapture \in Take /\ releasing'[screenCapture] > 0
              \/ ~isInRecording' /\ ~wanted' /\ file' = None
<1>1. CASE screenCapture # None
  <2>1. screenCapture \in Take /\ releasing[screenCapture] \in 0..MaxJobs
    BY <1>1 DEF Recorder!TypeOK
  <2>2. releasing' = [releasing EXCEPT ![screenCapture] = @ + 1] /\ releasing[screenCapture] < MaxJobs
    BY <1>1 DEF Recorder!cleanUp, Recorder!More
  <2>3. releasing' \in [Take -> 0..MaxJobs] /\ releasing'[screenCapture] = releasing[screenCapture] + 1
    BY <2>1, <2>2, MoreJobs DEF Recorder!TypeOK
  <2> QED
    BY <1>1, <2>1, <2>3, RecorderAssumption DEF Recorder!cleanUp, Recorder!TypeOK
<1>2. CASE screenCapture = None
  BY <1>2 DEF Recorder!cleanUp, Recorder!TypeOK
<1> QED
  BY <1>1, <1>2

LEMMA RecorderTypeStep ==
    ASSUME RecorderInv, Recorder!Next
    PROVE  Recorder!TypeOK'
<1> USE DEF RecorderInv
<1> DEFINE Job == [Take -> 0..MaxJobs]
           Held == Take \cup {None}
<1>1. recordings' \in Seq(Take)
  BY ListStep
<1>2. SUFFICES /\ stage' \in [Take -> Recorder!Stage]
               /\ screenCapture' \in Held /\ fileName' \in Held /\ file' \in Held
               /\ isInRecording' \in BOOLEAN
               /\ stopping' \in Job /\ releasing' \in Job /\ deactivating' \in 0..MaxJobs
               /\ wanted' \in BOOLEAN /\ failed' \in BOOLEAN
  BY <1>1 DEF Recorder!TypeOK
<1>3. /\ stage \in [Take -> Recorder!Stage]
      /\ screenCapture \in Held /\ fileName \in Held /\ file \in Held
      /\ isInRecording \in BOOLEAN
      /\ stopping \in Job /\ releasing \in Job /\ deactivating \in 0..MaxJobs
      /\ wanted \in BOOLEAN /\ failed \in BOOLEAN
  BY DEF Recorder!TypeOK
<1> USE DEF Recorder!capture, Recorder!model, Recorder!jobs
<1>4. ASSUME NEW t \in Take, NEW s \in Recorder!Stage, Recorder!To(t, s)
      PROVE  stage' \in [Take -> Recorder!Stage]
  BY <1>3, <1>4 DEF Recorder!To
<1>5. {"activating", "delayed", "creating", "initing", "starting", "recording", "over"}
        \subseteq Recorder!Stage
  BY DEF Recorder!Stage
<1>6. ASSUME NEW t \in Take, Recorder!Ended(t)
      PROVE  stage' \in [Take -> Recorder!Stage]
  BY <1>3, <1>4, <1>5, <1>6 DEF Recorder!Ended
<1>7. (isInRecording /\ ~Recorder!Unlisted) \in BOOLEAN
  OBVIOUS
<1>8. CASE Recorder!pressStop
  <2>1. deactivating < MaxJobs => deactivating + 1 \in 0..MaxJobs
    BY <1>3, RecorderAssumption
  <2>2. ASSUME screenCapture # None, Recorder!More(stopping, screenCapture)
        PROVE  stopping' \in Job
    BY <1>3, <2>2, MoreJobs DEF Recorder!More
  <2> QED
    BY <1>3, <1>7, <1>8, <2>1, <2>2 DEF Recorder!pressStop, Recorder!FlagAfterListing
<1>9. CASE Recorder!Deactivated
  <2>1. deactivating > 0 => deactivating - 1 \in 0..MaxJobs
    BY <1>3, RecorderAssumption
  <2> QED
    BY <1>3, <1>9, <2>1 DEF Recorder!Deactivated
<1>10. ASSUME NEW t \in Take, Recorder!Stopped(t)
       PROVE  <1>2!1
  <2>1. deactivating' \in 0..MaxJobs
    BY <1>3, <1>10, RecorderAssumption DEF Recorder!Stopped
  <2>2. stopping' \in Job
    BY <1>3, <1>10, LessJobs DEF Recorder!Stopped, Recorder!Less
  <2> QED
    BY <1>3, <1>6, <1>7, <1>10, <2>1, <2>2, CleanedUp DEF Recorder!Stopped, Recorder!FlagAfterListing
<1>11. ASSUME NEW t \in Take, Recorder!StopFails(t) \/ Recorder!ReleaseFails(t)
       PROVE  <1>2!1
  <2>1. CASE Recorder!StopFails(t)
    BY <1>3, <2>1, LessJobs DEF Recorder!StopFails, Recorder!Less
  <2>2. CASE Recorder!ReleaseFails(t)
    BY <1>3, <2>2, LessJobs DEF Recorder!ReleaseFails, Recorder!Less
  <2> QED
    BY <1>11, <2>1, <2>2
<1>12. ASSUME NEW t \in Take, Recorder!Released(t)
       PROVE  <1>2!1
  BY <1>3, <1>6, <1>12, LessJobs DEF Recorder!Released, Recorder!Less
<1>13. ASSUME NEW t \in Take, Recorder!STOPPED_BY_USER(t) \/ Recorder!CANCELED(t)
       PROVE  <1>2!1
  BY <1>3, <1>4, <1>5, <1>7, <1>13, CleanedUp
  DEF Recorder!STOPPED_BY_USER, Recorder!CANCELED, Recorder!FlagAfterListing
<1>14. ASSUME NEW t \in Take,
              Recorder!pressStart(t) \/ Recorder!Activated(t) \/ Recorder!ActivateFails(t)
              \/ Recorder!StartFails(t) \/ Recorder!STARTED(t) \/ Recorder!Initialised(t)
       PROVE  <1>2!1
  BY <1>3, <1>4, <1>5, <1>14
  DEF Recorder!pressStart, Recorder!Activated, Recorder!ActivateFails, Recorder!StartFails,
      Recorder!STARTED, Recorder!Initialised
<1>15. ASSUME NEW t \in Take,
              Recorder!startRecording(t) \/ Recorder!Created(t) \/ Recorder!CreateFails(t)
              \/ Recorder!deleteFile(t)
       PROVE  <1>2!1
  BY <1>3, <1>4, <1>5, <1>15
  DEF Recorder!startRecording, Recorder!Created, Recorder!CreateFails, Recorder!deleteFile
<1> QED
  BY <1>8, <1>9, <1>10, <1>11, <1>12, <1>13, <1>14, <1>15 DEF Recorder!Next

LEMMA RecorderReasonStep ==
    ASSUME RecorderInv, Recorder!Next
    PROVE  FlagsHaveReason'
<1> SUFFICES ASSUME ~failed'
             PROVE  /\ (wanted => IsEnding \/ IsComing \/ HolderIsActive)'
                    /\ (wanted /\ file = None => IsEnding \/ \E t \in Take : stage[t] = "delayed")'
                    /\ (isInRecording => \E t \in Take :
                            stage[t] = "recording" \/ stopping[t] > 0 \/ releasing[t] > 0)'
                    /\ (file # None => HolderIsActive \/ \E t \in Take :
                            stage[t] = "creating" \/ releasing[t] > 0)'
  BY DEF FlagsHaveReason
<1> DEFINE Goal == /\ (wanted => IsEnding \/ IsComing \/ HolderIsActive)'
                   /\ (wanted /\ file = None => IsEnding \/ \E t \in Take : stage[t] = "delayed")'
                   /\ (isInRecording => \E t \in Take :
                            stage[t] = "recording" \/ stopping[t] > 0 \/ releasing[t] > 0)'
                    /\ (file # None => HolderIsActive \/ \E t \in Take :
                            stage[t] = "creating" \/ releasing[t] > 0)'
<1> USE DEF RecorderInv, IsEnding, IsComing, HolderIsActive, Recorder!To,
            Recorder!capture, Recorder!model, Recorder!jobs
<1>1. /\ stage \in [Take -> Recorder!Stage]
      /\ {screenCapture, fileName, file} \subseteq Take \cup {None}
      /\ stopping \in [Take -> 0..MaxJobs] /\ releasing \in [Take -> 0..MaxJobs]
      /\ deactivating \in 0..MaxJobs
  BY DEF Recorder!TypeOK
<1>2. ~failed => /\ wanted => IsEnding \/ IsComing \/ HolderIsActive
                 /\ wanted /\ file = None => IsEnding \/ \E t \in Take : stage[t] = "delayed"
                 /\ isInRecording => \E t \in Take :
                        stage[t] = "recording" \/ stopping[t] > 0 \/ releasing[t] > 0
                 /\ file # None => HolderIsActive \/ \E t \in Take :
                        stage[t] = "creating" \/ releasing[t] > 0
  BY DEF FlagsHaveReason
<1>3. CASE Recorder!pressStop
  <2>1. /\ ~failed /\ stage' = stage /\ releasing' = releasing /\ wanted' = wanted
        /\ file' = file /\ screenCapture' = screenCapture
    BY <1>3 DEF Recorder!pressStop
  <2>2. IsEnding' /\ \A t \in Take : stopping[t] > 0 => stopping'[t] > 0
    <3>1. CASE screenCapture # None /\ Recorder!More(stopping, screenCapture)
      BY <1>1, <3>1 DEF Recorder!More
    <3>2. CASE deactivating' = deactivating + 1 /\ stopping' = stopping
      BY <1>1, <3>2
    <3> QED
      BY <1>3, <3>1, <3>2 DEF Recorder!pressStop
  <2>3. isInRecording
    BY <1>3 DEF Recorder!pressStop
  <2> QED
    BY <1>2, <2>1, <2>2, <2>3
<1>4. CASE Recorder!Deactivated
  BY <1>2, <1>4 DEF Recorder!Deactivated
<1>5. ASSUME NEW t \in Take, Recorder!Stopped(t)
      PROVE  Goal
  <2>1. deactivating' > 0
    BY <1>1, <1>5 DEF Recorder!Stopped
  <2>2. (screenCapture \in Take /\ releasing'[screenCapture] > 0) \/ (~isInRecording' /\ ~wanted' /\ file' = None)
    BY <1>5, CleanedUp DEF Recorder!Stopped, Recorder!FlagAfterListing
  <2> QED
    BY <2>1, <2>2
<1>6. ASSUME NEW t \in Take, Recorder!STOPPED_BY_USER(t) \/ Recorder!CANCELED(t)
      PROVE  Goal
  <2>1. (screenCapture \in Take /\ releasing'[screenCapture] > 0) \/ (~isInRecording' /\ ~wanted' /\ file' = None)
    BY <1>6, CleanedUp
    DEF Recorder!STOPPED_BY_USER, Recorder!CANCELED, Recorder!FlagAfterListing, Recorder!TypeOK
  <2> QED
    BY <2>1
<1>7. ASSUME NEW t \in Take, Recorder!Released(t)
      PROVE  Goal
  BY <1>7 DEF Recorder!Released
<1>8. ASSUME NEW t \in Take, Recorder!pressStart(t) \/ Recorder!Activated(t)
      PROVE  Goal
  BY <1>1, <1>2, <1>8 DEF Recorder!pressStart, Recorder!Activated
<1>9. ASSUME NEW t \in Take, Recorder!deleteFile(t)
      PROVE  Goal
  BY <1>2, <1>9 DEF Recorder!deleteFile
<1>10. ASSUME NEW t \in Take, Recorder!startRecording(t)
       PROVE  Goal
  BY <1>1, <1>2, <1>10, RecorderAssumption DEF Recorder!startRecording
<1>11. ASSUME NEW t \in Take, Recorder!Created(t)
       PROVE  Goal
  <2>1. CASE file = None
    BY <1>1, <1>2, <1>11, <2>1 DEF Recorder!Created
  <2>2. CASE file # None
    BY <1>1, <1>2, <1>11, <2>2 DEF Recorder!Created
  <2> QED
    BY <2>1, <2>2
<1>12. ASSUME NEW t \in Take, Recorder!Initialised(t)
       PROVE  Goal
  BY <1>1, <1>2, <1>12 DEF Recorder!Initialised
<1>13. ASSUME NEW t \in Take, Recorder!STARTED(t)
       PROVE  Goal
  BY <1>1, <1>2, <1>13 DEF Recorder!STARTED
<1>14. ASSUME NEW t \in Take,
              Recorder!ActivateFails(t) \/ Recorder!CreateFails(t) \/ Recorder!StartFails(t)
              \/ Recorder!StopFails(t) \/ Recorder!ReleaseFails(t)
       PROVE  Goal
  BY <1>14
  DEF Recorder!ActivateFails, Recorder!CreateFails, Recorder!StartFails, Recorder!StopFails,
      Recorder!ReleaseFails
<1> QED
  BY <1>3, <1>4, <1>5, <1>6, <1>7, <1>8, <1>9, <1>10, <1>11, <1>12, <1>13, <1>14 DEF Recorder!Next

\* The application and the recorder take turns, so what holds of the one and of
\* the other holds of both together.
LEMMA Together == MCSpec => AppSpec /\ []RecorderInv
<1> DEFINE all == <<vars, app, recorderVars>>
<1>1. MCInit => AppInit /\ RecorderInv
  BY RecorderInitInv DEF MCInit
<1>2. [MCNext]_all => [AppNext]_<<vars, app>>
  BY DEF MCNext
<1>3. RecorderInv /\ [MCNext]_all => RecorderInv'
  <2> SUFFICES ASSUME RecorderInv, [MCNext]_all
               PROVE  RecorderInv'
    OBVIOUS
  <2>1. CASE Recorder!Next
    BY <2>1, RecorderTypeStep, RecorderReasonStep, ListStep DEF RecorderInv
  <2>2. CASE UNCHANGED recorderVars
    BY <2>2
    DEF recorderVars, RecorderInv, Recorder!TypeOK, FlagsHaveReason, IsEnding, IsComing,
        HolderIsActive
  <2> QED
    BY <2>1, <2>2 DEF MCNext
<1> QED
  BY <1>1, <1>2, <1>3, PTL DEF MCSpec, AppSpec

\* However takes overlapped and whoever ended them, once none is under way and
\* the system has rejected nothing, the background task is not asked for, the
\* button offers to start and the object holds no file.
THEOREM OffAtRest == MCSpec => []RestIsOff
<1>1. RecorderInv => RestIsOff
  BY DEF RecorderInv, FlagsHaveReason, IsEnding, IsComing, HolderIsActive, RestIsOff,
         Recorder!RestIsOff, Recorder!AtRest, Recorder!TypeOK
<1> QED
  BY Together, <1>1, PTL

\* The coordinator's and the callers' theorems hold beside the recorder too.
THEOREM BesideRecorder ==
    MCSpec => [](ConvergedWhenSettled /\ BeliefMatchesSystem /\ ListenerIsKeptAlive)
  BY Together, CallersRefine, Convergence, BeliefCorrect, KeptAlive, PTL
=============================================================================
