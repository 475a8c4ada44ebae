------------------------------ MODULE Recorder ------------------------------
(***************************************************************************)
(* The screen recorder: ScreenRecordPage's button, RecordViewModel's list  *)
(* and MyAVScreenCapture, one object that holds the capture and the file   *)
(* of the recording under way.                                             *)
(*                                                                         *)
(* A take is one press of the button that starts a recording.  Nothing     *)
(* holds a second press back before the capture reports STARTED, three     *)
(* seconds and several awaits later, so takes overlap: the object's fields *)
(* are then those of the last one, and whoever cleans up takes what he     *)
(* finds there.  A file is named by the time of its take.                  *)
(***************************************************************************)
EXTENDS Naturals, Sequences, SequencesExt, FiniteSets

CONSTANTS
    Take,         \* presses of the button that start
    None,         \* undefined, null
    MaxJobs       \* bound on continuations of one kind that are under way

VARIABLES
    stage,            \* of each take, see Stage
    screenCapture,    \* the capture the object holds
    fileName, file,   \* the name and the open file the object holds
    isInRecording,    \* RecordViewModel's flag, the button's picture
    recordings,       \* RecordViewModel's list, newest first
    stopping,         \* stopRecording() under way, by capture
    releasing,        \* release() inside cleanUp() under way, by capture
    deactivating,     \* presses that stop, waiting for the audio session
    wanted,           \* BackgroundServiceManager.isRecording
    failed            \* a call of the system has been rejected

capture == <<screenCapture, fileName, file>>
model   == <<isInRecording, recordings>>
jobs    == <<stopping, releasing, deactivating>>
vars    == <<stage, capture, model, jobs, wanted, failed>>

\* not pressed; waiting for the audio session; for the timer; for the capture
\* object; for its init; started, and asked or not asked of the user; recording;
\* over, or never going to be.
Stage == {"none", "activating", "delayed", "creating", "initing", "starting", "recording", "over"}

Init ==
    /\ stage = [t \in Take |-> "none"]
    /\ screenCapture = None /\ fileName = None /\ file = None
    /\ isInRecording = FALSE /\ recordings = <<>>
    /\ stopping = [t \in Take |-> 0] /\ releasing = [t \in Take |-> 0] /\ deactivating = 0
    /\ wanted = FALSE /\ failed = FALSE

To(t, s) == stage' = [stage EXCEPT ![t] = s]
More(f, t) == f[t] < MaxJobs /\ f' = [f EXCEPT ![t] = @ + 1]
Less(f, t) == f[t] > 0 /\ f' = [f EXCEPT ![t] = @ - 1]

-----------------------------------------------------------------------------
(* RecordViewModel and the end of a recording.                               *)

Unlisted == fileName # None /\ ~Contains(recordings, fileName)

addRecordTask ==
    recordings' = IF Unlisted THEN <<fileName>> \o recordings ELSE recordings

\* What addRecordTask leaves in isInRecording: it ends what it lists.
FlagAfterListing == isInRecording /\ ~Unlisted

\* Mutant of cleanUp: without a capture there is nothing to clean up.
cleanUpHeld(flag) ==
    IF screenCapture # None
    THEN More(releasing, screenCapture) /\ isInRecording' = flag /\ UNCHANGED <<file, wanted>>
    ELSE isInRecording' = flag /\ UNCHANGED <<releasing, file, wanted>>

\* cleanUp, called with isInRecording at `flag': up to its first await, or to
\* its end when no capture is held.
cleanUp(flag) ==
    IF screenCapture # None
    THEN More(releasing, screenCapture) /\ isInRecording' = flag /\ UNCHANGED <<file, wanted>>
    ELSE file' = None /\ isInRecording' = FALSE /\ wanted' = FALSE /\ UNCHANGED releasing

-----------------------------------------------------------------------------
(* The button.                                                               *)

\* toggleRecordAction while nothing is recorded, up to its await.
pressStart(t) ==
    /\ ~isInRecording /\ stage[t] = "none"
    /\ To(t, "activating")
    /\ UNCHANGED <<capture, model, jobs, wanted, failed>>

Activated(t) ==
    /\ stage[t] = "activating"
    /\ To(t, "delayed") /\ wanted' = TRUE
    /\ UNCHANGED <<capture, model, jobs, failed>>

ActivateFails(t) ==
    /\ stage[t] = "activating"
    /\ To(t, "over") /\ failed' = TRUE
    /\ UNCHANGED <<capture, model, jobs, wanted>>

\* toggleRecordAction while something is recorded.  Without a capture
\* stopRecording returns, and the rest goes on in the same turn.
pressStop ==
    /\ isInRecording
    /\ \/ /\ screenCapture # None
          /\ More(stopping, screenCapture)
          /\ UNCHANGED <<model, deactivating>>
       \/ /\ screenCapture = None /\ deactivating < MaxJobs
          /\ addRecordTask /\ isInRecording' = FlagAfterListing
          /\ deactivating' = deactivating + 1
          /\ UNCHANGED stopping
    /\ UNCHANGED <<stage, capture, releasing, wanted, failed>>

Ended(t) == IF stage[t] \in {"starting", "recording"} THEN To(t, "over") ELSE UNCHANGED stage

\* The capture has stopped: cleanUp is begun and not awaited, then the take is
\* listed under the name the object has now.
Stopped(t) ==
    /\ Less(stopping, t)
    /\ deactivating < MaxJobs /\ deactivating' = deactivating + 1
    /\ addRecordTask
    /\ cleanUp(FlagAfterListing)
    /\ Ended(t)
    /\ UNCHANGED <<screenCapture, fileName, failed>>

StopFails(t) ==
    /\ Less(stopping, t)
    /\ failed' = TRUE
    /\ UNCHANGED <<stage, capture, model, releasing, deactivating, wanted>>

Deactivated ==
    /\ deactivating > 0 /\ deactivating' = deactivating - 1
    /\ \/ wanted' = FALSE /\ UNCHANGED failed
       \/ UNCHANGED wanted /\ failed' = TRUE
    /\ UNCHANGED <<stage, capture, model, stopping, releasing>>

\* RecordCard: the file is deleted, and findIndex, whose callback returns
\* nothing, answers -1: splice removes the last entry, whichever was chosen.
deleteFile(t) ==
    /\ Contains(recordings, t)
    /\ recordings' = Front(recordings)
    /\ UNCHANGED <<stage, capture, isInRecording, jobs, wanted, failed>>

-----------------------------------------------------------------------------
(* MyAVScreenCapture.startRecording and the capture's callbacks.             *)

\* The timer: the file is opened, over whichever was open.
startRecording(t) ==
    /\ stage[t] = "delayed"
    /\ To(t, "creating")
    /\ fileName' = t /\ file' = t
    /\ UNCHANGED <<screenCapture, model, jobs, wanted, failed>>

\* The recorder object; its configuration takes the descriptor of the file,
\* which somebody's cleanUp may have closed: the call then throws.
Created(t) ==
    /\ stage[t] = "creating"
    /\ screenCapture' = t
    /\ To(t, IF file = None THEN "over" ELSE "initing")
    /\ UNCHANGED <<fileName, file, model, jobs, wanted, failed>>

\* The promise is rejected, or there is no recorder.
CreateFails(t) ==
    /\ stage[t] = "creating"
    /\ screenCapture' \in {screenCapture, None}
    /\ To(t, "over") /\ failed' = TRUE
    /\ UNCHANGED <<fileName, file, model, jobs, wanted>>

\* After init the capture the object holds by now is started: this one, none
\* any more, or another take's, which answers for itself.
Initialised(t) ==
    /\ stage[t] = "initing"
    /\ To(t, IF screenCapture = t THEN "starting" ELSE "over")
    /\ UNCHANGED <<capture, model, jobs, wanted, failed>>

\* init, or startRecording after it, is rejected.
StartFails(t) ==
    /\ stage[t] \in {"initing", "starting"}
    /\ To(t, "over") /\ failed' = TRUE
    /\ UNCHANGED <<capture, model, jobs, wanted>>

STARTED(t) ==
    /\ stage[t] = "starting"
    /\ To(t, "recording") /\ isInRecording' = TRUE
    /\ UNCHANGED <<capture, recordings, jobs, wanted, failed>>

\* The user stops the recording from the system's capsule.
STOPPED_BY_USER(t) ==
    /\ stage[t] = "recording"
    /\ To(t, "over")
    /\ addRecordTask
    /\ cleanUp(FlagAfterListing)
    /\ UNCHANGED <<screenCapture, fileName, stopping, deactivating, failed>>

\* The user does not allow the capture, or the system ends it.
CANCELED(t) ==
    /\ stage[t] \in {"starting", "recording"}
    /\ To(t, "over")
    /\ cleanUp(isInRecording)
    /\ UNCHANGED <<screenCapture, fileName, recordings, stopping, deactivating, failed>>

\* The rest of cleanUp; the capture that was released may not be the one held.
Released(t) ==
    /\ Less(releasing, t)
    /\ screenCapture' = None
    /\ file' = None /\ isInRecording' = FALSE /\ wanted' = FALSE
    /\ Ended(t)
    /\ UNCHANGED <<fileName, recordings, stopping, deactivating, failed>>

ReleaseFails(t) ==
    /\ Less(releasing, t)
    /\ failed' = TRUE
    /\ UNCHANGED <<stage, capture, model, stopping, deactivating, wanted>>

-----------------------------------------------------------------------------
Next ==
    \/ pressStop \/ Deactivated
    \/ \E t \in Take :
        \/ pressStart(t) \/ Activated(t) \/ ActivateFails(t)
        \/ Stopped(t) \/ StopFails(t) \/ deleteFile(t)
        \/ startRecording(t) \/ Created(t) \/ CreateFails(t)
        \/ Initialised(t) \/ StartFails(t)
        \/ STARTED(t) \/ STOPPED_BY_USER(t) \/ CANCELED(t)
        \/ Released(t) \/ ReleaseFails(t)

Spec == Init /\ [][Next]_vars

-----------------------------------------------------------------------------
TypeOK ==
    /\ stage \in [Take -> Stage]
    /\ {screenCapture, fileName, file} \subseteq Take \cup {None}
    /\ isInRecording \in BOOLEAN /\ recordings \in Seq(Take)
    /\ stopping \in [Take -> 0..MaxJobs] /\ releasing \in [Take -> 0..MaxJobs]
    /\ deactivating \in 0..MaxJobs
    /\ wanted \in BOOLEAN /\ failed \in BOOLEAN

AtRest ==
    /\ \A t \in Take : stage[t] \in {"none", "over"} /\ stopping[t] = 0 /\ releasing[t] = 0
    /\ deactivating = 0

\* However takes overlapped and whoever ended them, once none is under way and
\* the system has rejected nothing, the background task is not asked for, the
\* button offers to start and the object holds no file.
RestIsOff == AtRest /\ ~failed => ~wanted /\ ~isInRecording /\ file = None

\* Nor does it hold a capture: this fails, the late rest of one take's cleanUp
\* closes the file of the next, whose capture is then held and not released.
RestHoldsNothing == AtRest /\ ~failed => screenCapture = None

\* What the end of a take lists is that take: this fails.  The name is read
\* after the await, when a take pressed meanwhile has put its own there.
ListsItsOwn ==
    [][\A t \in Take : Stopped(t) \/ STOPPED_BY_USER(t) =>
          recordings' \in {recordings, <<t>> \o recordings}]_vars

\* A recording runs under the background task.  The end of one take, or the
\* late rest of its cleanUp, takes the task from the next: this fails.
RecordingIsWanted == (\E t \in Take : stage[t] = "recording") => wanted

\* At rest, also after a rejected call, the task is not asked for: this fails,
\* a start that is rejected tells nobody.
FailureIsOff == AtRest => ~wanted

\* Deleting a recording removes it from the list and nothing else: this fails.
DeletesTheChosen ==
    [][\A t \in Take : deleteFile(t) => recordings' = SelectSeq(recordings, LAMBDA r : r # t)]_vars
=============================================================================
