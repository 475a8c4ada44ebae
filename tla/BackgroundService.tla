------------------------- MODULE BackgroundService -------------------------
(***************************************************************************)
(* utils/BackgroundServiceManager.ets: the one owner of the system's       *)
(* continuous background task, shared by the web server and the screen     *)
(* recorder.  Callers flip an intent flag synchronously and queue one      *)
(* refresh on a promise chain; refreshes run one at a time, each a         *)
(* sequence of awaits during which callers may flip the flags again.       *)
(*                                                                         *)
(* An await on a system service is two steps: the service acts (OS...) and *)
(* the continuation runs (Refresh...).  `osTask' and `notif' belong to the *)
(* system; everything else is the manager's static state.                  *)
(***************************************************************************)
EXTENDS Naturals

CONSTANTS
    Info,         \* the texts a caller may pass to startWebServer
    MaxPending    \* bound on refreshes queued behind the running one

ASSUME InfoAssumption == Info # {}
ASSUME MaxPendingAssumption == MaxPending \in Nat \ {0}

VARIABLES
    isServerRunning, isRecording, currentServiceInfo,   \* the intent
    taskActive, currentMode,                            \* what the manager believes
    pending,      \* refreshes queued on transitionQueue, not yet begun
    pc,           \* where the running refresh is suspended; "idle" if none runs
    targetMode,   \* the local targetMode of the running refresh
    text,         \* title and text, chosen on entry to publishNotification
    label,        \* additionalText, chosen after its first await
    outcome,      \* how the last refresh ended: "ok", "threw" or "muted" (a
                  \* notification error caught and logged)
    osTask,       \* the continuous task the system really runs
    notif         \* the notification the system really shows

intent == <<isServerRunning, isRecording, currentServiceInfo>>
belief == <<taskActive, currentMode>>
os     == <<osTask, notif>>
vars   == <<intent, belief, pending, pc, targetMode, text, label, outcome, os>>

NoMode == "none"            \* the code's -1
Mode   == {"DATA_TRANSFER", "AUDIO_RECORDING"}
NoText == [kind |-> "none"]
NoLabel == "none"
Label  == {"recording", "transfer", NoLabel}

\* The three texts publishNotification can choose, by what they show.
Text == [kind : {"server", "both"}, info : Info] \cup {[kind |-> "recording"], NoText}
Notif == [text : Text, label : Label]
NoNotif == [text |-> NoText, label |-> NoLabel]

PC == {"idle", "stopping", "stopped", "cancelling", "asking", "switching", "switched",
       "agent", "starting", "started", "publishing", "posting"}

getTargetMode ==
    IF isRecording THEN "AUDIO_RECORDING"
    ELSE IF isServerRunning THEN "DATA_TRANSFER" ELSE NoMode

\* title and text of the request, chosen before the first await.
NotificationText ==
    IF isRecording
    THEN IF isServerRunning
         THEN [kind |-> "both", info |-> currentServiceInfo]
         ELSE [kind |-> "recording"]
    ELSE [kind |-> "server", info |-> currentServiceInfo]

NotificationLabel == IF isRecording THEN "recording" ELSE "transfer"

Init ==
    /\ isServerRunning = FALSE /\ isRecording = FALSE
    /\ currentServiceInfo \in Info
    /\ taskActive = FALSE /\ currentMode = NoMode
    /\ pending = 0 /\ pc = "idle" /\ targetMode = NoMode
    /\ text = NoText /\ label = NoLabel /\ outcome = "ok"
    /\ osTask = NoMode /\ notif = NoNotif

-----------------------------------------------------------------------------
(* The callers.  Each sets the intent and enqueues, in one synchronous turn. *)

\* Mutant of enqueueRefresh: a refresh already in progress is taken to be enough.
enqueueRefreshIfIdle ==
    /\ pending < MaxPending
    /\ pending' = IF pc = "idle" THEN pending + 1 ELSE pending

enqueueRefresh ==
    /\ pending < MaxPending
    /\ pending' = pending + 1

RefreshUntouched == UNCHANGED <<belief, pc, targetMode, text, label, outcome, os>>

startWebServer(info) ==
    /\ isServerRunning' = TRUE
    /\ currentServiceInfo' = info
    /\ enqueueRefresh
    /\ UNCHANGED isRecording /\ RefreshUntouched

stopWebServer ==
    /\ isServerRunning' = FALSE
    /\ enqueueRefresh
    /\ UNCHANGED <<isRecording, currentServiceInfo>> /\ RefreshUntouched

startRecordingTask ==
    /\ isRecording' = TRUE
    /\ enqueueRefresh
    /\ UNCHANGED <<isServerRunning, currentServiceInfo>> /\ RefreshUntouched

stopRecordingTask ==
    /\ isRecording' = FALSE
    /\ enqueueRefresh
    /\ UNCHANGED <<isServerRunning, currentServiceInfo>> /\ RefreshUntouched

-----------------------------------------------------------------------------
(* One refresh.                                                              *)

\* Mutant of RefreshBegin: the next refresh is chained on the rejected promise.
RefreshBeginWedged ==
    /\ pc = "idle" /\ pending > 0 /\ outcome # "threw"
    /\ pending' = pending - 1
    /\ targetMode' = getTargetMode
    /\ outcome' = "ok"
    /\ pc' = IF getTargetMode # NoMode THEN "asking"
             ELSE IF taskActive THEN "stopping" ELSE "cancelling"
    /\ UNCHANGED <<intent, belief, text, label, os>>

\* The synchronous prefix of refreshBackgroundState, up to its first await.
RefreshBegin ==
    /\ pc = "idle" /\ pending > 0
    /\ pending' = pending - 1
    /\ targetMode' = getTargetMode
    /\ outcome' = "ok"
    /\ pc' = IF getTargetMode # NoMode THEN "asking"
             ELSE IF taskActive THEN "stopping" ELSE "cancelling"
    /\ UNCHANGED <<intent, belief, text, label, os>>

\* ensureNotificationPermission returns, whether the user agrees, refuses or
\* the request throws.
RefreshAsked ==
    /\ pc = "asking"
    /\ pc' = IF taskActive /\ currentMode # targetMode THEN "switching"
             ELSE IF ~taskActive THEN "agent" ELSE "publishing"
    /\ text' = IF taskActive /\ currentMode = targetMode THEN NotificationText ELSE text
    /\ UNCHANGED <<intent, belief, pending, targetMode, label, outcome, os>>

\* A rejected system call ends the refresh; the queue swallows the error.
Throw ==
    /\ pc' = "idle"
    /\ outcome' = "threw"
    /\ UNCHANGED <<intent, belief, pending, targetMode, text, label, os>>

\* The system stops the task it runs, for either of the two callers.
OSStop ==
    /\ \/ pc = "stopping"  /\ pc' = "stopped"
       \/ pc = "switching" /\ pc' = "switched"
    /\ osTask' = NoMode
    /\ UNCHANGED <<intent, belief, pending, targetMode, text, label, outcome, notif>>

OSStopFails == pc \in {"stopping", "switching"} /\ Throw

ForgetTask == taskActive' = FALSE /\ currentMode' = NoMode

RefreshStopped ==
    /\ pc = "stopped"
    /\ ForgetTask
    /\ pc' = "cancelling"
    /\ UNCHANGED <<intent, pending, targetMode, text, label, outcome, os>>

RefreshSwitched ==
    /\ pc = "switched"
    /\ ForgetTask
    /\ pc' = "agent"
    /\ UNCHANGED <<intent, pending, targetMode, text, label, outcome, os>>

\* createWantAgent inside refreshBackgroundState; its error is not caught there.
RefreshAgent ==
    \/ /\ pc = "agent"
       /\ pc' = "starting"
       /\ UNCHANGED <<intent, belief, pending, targetMode, text, label, outcome, os>>
    \/ pc = "agent" /\ Throw

OSStart ==
    /\ pc = "starting" /\ osTask = NoMode
    /\ osTask' = targetMode
    /\ pc' = "started"
    /\ UNCHANGED <<intent, belief, pending, targetMode, text, label, outcome, notif>>

\* The system may refuse; it always refuses a second task of the ability.
OSStartFails == pc = "starting" /\ Throw

\* Mutant of RefreshStarted: the mode is read again from the intent after the await.
RefreshStartedRereading ==
    /\ pc = "started"
    /\ taskActive' = TRUE
    /\ currentMode' = getTargetMode
    /\ text' = NotificationText
    /\ pc' = "publishing"
    /\ UNCHANGED <<intent, pending, targetMode, label, outcome, os>>

RefreshStarted ==
    /\ pc = "started"
    /\ taskActive' = TRUE
    /\ currentMode' = targetMode
    /\ text' = NotificationText
    /\ pc' = "publishing"
    /\ UNCHANGED <<intent, pending, targetMode, label, outcome, os>>

\* publishNotification and cancelNotification catch their own errors.
Muted == outcome' = "muted" /\ UNCHANGED notif

\* createWantAgent inside publishNotification; the request is completed with
\* a label read from the intent as it is after that await.
RefreshComposed ==
    /\ pc = "publishing"
    /\ \/ pc' = "posting" /\ label' = NotificationLabel /\ UNCHANGED <<outcome, notif>>
       \/ pc' = "idle" /\ label' = label /\ Muted
    /\ UNCHANGED <<intent, belief, pending, targetMode, text, osTask>>

OSPublish ==
    /\ pc = "posting" /\ pc' = "idle"
    /\ \/ notif' = [text |-> text, label |-> label] /\ outcome' = outcome
       \/ Muted
    /\ UNCHANGED <<intent, belief, pending, targetMode, text, label, osTask>>

OSCancel ==
    /\ pc = "cancelling" /\ pc' = "idle"
    /\ \/ notif' = NoNotif /\ outcome' = outcome
       \/ Muted
    /\ UNCHANGED <<intent, belief, pending, targetMode, text, label, osTask>>

Call ==
    \/ \E info \in Info : startWebServer(info)
    \/ stopWebServer
    \/ startRecordingTask
    \/ stopRecordingTask

Refresh ==
    \/ RefreshBegin \/ RefreshAsked \/ RefreshStopped \/ RefreshSwitched
    \/ RefreshAgent \/ RefreshStarted \/ RefreshComposed
    \/ OSStop \/ OSStopFails \/ OSStart \/ OSStartFails \/ OSPublish \/ OSCancel

Next == Call \/ Refresh

Spec == Init /\ [][Next]_vars

\* The event loop runs every ready continuation and the system answers every call.
FairSpec == Spec /\ WF_vars(Refresh)

-----------------------------------------------------------------------------
TypeOK ==
    /\ isServerRunning \in BOOLEAN /\ isRecording \in BOOLEAN
    /\ currentServiceInfo \in Info
    /\ taskActive \in BOOLEAN /\ currentMode \in Mode \cup {NoMode}
    /\ pending \in 0..MaxPending
    /\ pc \in PC /\ targetMode \in Mode \cup {NoMode}
    /\ text \in Text /\ label \in Label /\ outcome \in {"ok", "threw", "muted"}
    /\ osTask \in Mode \cup {NoMode} /\ notif \in Notif

Settled == pc = "idle" /\ pending = 0

\* Whatever the order in which the recorder and the web server switch on and
\* off, and whatever they change while a refresh is awaiting, once the queue
\* has drained without an error the system runs exactly the task the last
\* intent calls for and shows exactly its notification: no update is lost.
ConvergedWhenSettled ==
    Settled /\ outcome = "ok" =>
        /\ osTask = getTargetMode
        /\ notif = IF getTargetMode = NoMode THEN NoNotif
                    ELSE [text |-> NotificationText, label |-> NotificationLabel]

\* taskActive and currentMode are "the real state of the system's task":
\* between refreshes they agree with the system, also after any step failed.
BeliefMatchesSystem ==
    pc = "idle" => taskActive = (osTask # NoMode) /\ currentMode = osTask

\* The manager never asks for a task while the system still runs one, and
\* never stops one the system does not run (the system answers 9800005).
CallsAreLegal ==
    /\ pc = "starting" => osTask = NoMode
    /\ pc \in {"stopping", "switching"} => osTask # NoMode

\* When the callers stop calling, the queue drains for good, even if every
\* system call fails: one failed refresh never wedges the chain.
QueueDrains == <>[][~Call]_vars => <>[]Settled
=============================================================================
