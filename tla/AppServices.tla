---------------------------- MODULE AppServices ----------------------------
(***************************************************************************)
(* The callers of BackgroundService: MainAbility, PrivacyPage, HomePage    *)
(* and LocalWebPage, which start and stop the web server, and the starting *)
(* and stopping of WebServerUtil, which listens by a callback.             *)
(*                                                                         *)
(* Everything here runs on the one ArkTS thread; what a promise that       *)
(* WebServerUtil resolves does next is part of the step that resolves it.  *)
(* The screen recorder's calls come at any time (its own steps are in      *)
(* Recorder).  Floating windows are left out.                              *)
(***************************************************************************)
EXTENDS BackgroundService

CONSTANTS
    WEB_SERVER_AUTO_START,   \* of TargetConstants: TRUE in the dev target
    MaxStarts                \* bound on listen() calls in flight

ASSUME TargetAssumption == WEB_SERVER_AUTO_START \in BOOLEAN

VARIABLES
    launched,         \* onCreate has run
    PRIVACY_AGREE, AUTO_START_ENABLED, WEB_SERVER_ON,   \* the preferences; one
                      \* that is not set reads as its default
    page,             \* LocalWebPage: closed, or what its switch shows
    listening,        \* WebServerUtil._isRunning
    starting          \* listen() calls in flight, by who waits for them

app == <<launched, PRIVACY_AGREE, AUTO_START_ENABLED, WEB_SERVER_ON, page, listening, starting>>

\* Who waits: the ability or the privacy page, LocalWebPage, or a LocalWebPage
\* that has been left.
Waiter == {"restore", "page", "left"}

AppInit ==
    /\ Init
    /\ launched = FALSE
    /\ PRIVACY_AGREE \in BOOLEAN /\ AUTO_START_ENABLED \in BOOLEAN
    /\ WEB_SERVER_ON \in BOOLEAN
    /\ page = "closed" /\ listening = FALSE
    /\ starting = [w \in Waiter |-> 0]

Preferences == <<PRIVACY_AGREE, AUTO_START_ENABLED, WEB_SERVER_ON>>

\* A switch is saved only while services are started automatically.
PutWebServerOn(value) ==
    WEB_SERVER_ON' = IF AUTO_START_ENABLED THEN value ELSE WEB_SERVER_ON

-----------------------------------------------------------------------------
(* WebServerUtil.                                                            *)

InFlight == starting["restore"] + starting["page"] + starting["left"]

\* What whoever called start() does when the promise resolves.
Started(w) ==
    /\ IF w = "restore" THEN UNCHANGED WEB_SERVER_ON ELSE PutWebServerOn(TRUE)
    /\ page' = IF w = "page" THEN "running" ELSE page
    /\ \E ip \in Info : startWebServer(ip)

\* start(): a server that listens resolves at once, another one listens.
start(w) ==
    \/ /\ listening
       /\ Started(w)
       /\ UNCHANGED <<listening, starting>>
    \/ /\ ~listening /\ InFlight < MaxStarts
       /\ starting' = [starting EXCEPT ![w] = @ + 1]
       /\ UNCHANGED <<WEB_SERVER_ON, page, listening, vars>>

Answered(w) == starting[w] > 0 /\ starting' = [starting EXCEPT ![w] = @ - 1]

ListenSucceeds(w) ==
    /\ Answered(w)
    /\ listening' = TRUE
    /\ Started(w)
    /\ UNCHANGED <<launched, PRIVACY_AGREE, AUTO_START_ENABLED>>

\* The port is taken, or the instance has been closed: the caller only logs.
ListenFails(w) ==
    /\ Answered(w)
    /\ UNCHANGED <<launched, Preferences, page, listening, vars>>

\* Whatever off and close do, the server is marked stopped.
stop == listening' = FALSE

-----------------------------------------------------------------------------
(* The ability and the pages.                                                *)

restoreSavedState ==
    LET restored == IF AUTO_START_ENABLED THEN WEB_SERVER_ON ELSE WEB_SERVER_AUTO_START IN
    /\ ~launched /\ launched' = TRUE
    /\ IF PRIVACY_AGREE /\ restored THEN start("restore")
       ELSE UNCHANGED <<WEB_SERVER_ON, page, listening, starting, vars>>
    /\ UNCHANGED <<PRIVACY_AGREE, AUTO_START_ENABLED>>

\* The privacy page is the first page until the user agrees.
saveUserAgreement ==
    /\ launched /\ ~PRIVACY_AGREE
    /\ PRIVACY_AGREE' = TRUE
    /\ IF WEB_SERVER_AUTO_START THEN start("restore")
       ELSE UNCHANGED <<WEB_SERVER_ON, page, listening, starting, vars>>
    /\ UNCHANGED <<launched, AUTO_START_ENABLED>>

Home == launched /\ PRIVACY_AGREE /\ page = "closed"

\* A new view model takes the state over, but only when the server listens.
openPage ==
    /\ Home
    /\ page' = IF listening THEN "running" ELSE "stopped"
    /\ UNCHANGED <<launched, Preferences, listening, starting, vars>>

leavePage ==
    /\ page # "closed" /\ page' = "closed"
    /\ starting' = [starting EXCEPT !["page"] = 0, !["left"] = @ + starting["page"]]
    /\ UNCHANGED <<launched, Preferences, listening, vars>>

\* Mutant of toggleServerOff: the background task is told and the server left.
toggleServerOffHalf ==
    /\ page = "running" /\ page' = "stopped"
    /\ PutWebServerOn(FALSE)
    /\ stopWebServer
    /\ UNCHANGED <<launched, PRIVACY_AGREE, AUTO_START_ENABLED, listening, starting>>

toggleServerOff ==
    /\ page = "running" /\ page' = "stopped"
    /\ stop
    /\ PutWebServerOn(FALSE)
    /\ stopWebServer
    /\ UNCHANGED <<launched, PRIVACY_AGREE, AUTO_START_ENABLED, starting>>

toggleServerOn ==
    /\ page = "stopped"
    /\ start("page")
    /\ UNCHANGED <<launched, PRIVACY_AGREE, AUTO_START_ENABLED>>

\* HomePage's switch for starting services automatically.  Switched off, it
\* stops the server and leaves the background task and the saved switch.
autoStartSwitch ==
    /\ Home
    /\ AUTO_START_ENABLED' = ~AUTO_START_ENABLED
    /\ IF AUTO_START_ENABLED THEN stop ELSE UNCHANGED listening
    /\ UNCHANGED <<launched, PRIVACY_AGREE, WEB_SERVER_ON, page, starting, vars>>

recorder ==
    /\ launched
    /\ startRecordingTask \/ stopRecordingTask
    /\ UNCHANGED app

AppNext ==
    \/ restoreSavedState \/ saveUserAgreement
    \/ openPage \/ leavePage \/ toggleServerOff \/ toggleServerOn \/ autoStartSwitch
    \/ \E w \in Waiter : ListenSucceeds(w) \/ ListenFails(w)
    \/ recorder
    \/ Refresh /\ UNCHANGED app

AppSpec == AppInit /\ [][AppNext]_<<vars, app>>
AppFairSpec == AppSpec /\ WF_vars(Refresh)

-----------------------------------------------------------------------------
AppTypeOK ==
    /\ {launched, PRIVACY_AGREE, AUTO_START_ENABLED, WEB_SERVER_ON, listening} \subseteq BOOLEAN
    /\ page \in {"closed", "stopped", "running"}
    /\ starting \in [Waiter -> 0..MaxStarts]

\* Nothing freezes a server that listens: whoever started it, however starts
\* that were in flight, stops and recordings overlapped, once the coordinator
\* has come to rest without an error the system runs a task for the
\* application and its notification shows where the server is.
ListenerIsKeptAlive ==
    listening /\ Settled /\ outcome = "ok" =>
        /\ osTask # NoMode
        /\ notif.text.kind \in {"server", "both"}
        /\ notif.text.info = currentServiceInfo

\* "all services stopped" (HomePage.ets): no task is left for a server that
\* is not there.  The switch does not tell the coordinator, so this fails.
TaskEndsWithServer ==
    ~listening /\ InFlight = 0 /\ ~isRecording /\ Settled /\ outcome = "ok" => osTask = NoMode

\* What the next launch restores is what runs, while services are started
\* automatically and no start is under way.  The switch stops the server and
\* leaves WEB_SERVER_ON, and a listen that fails does too, so this fails.
SavedIsRunning ==
    launched /\ PRIVACY_AGREE /\ AUTO_START_ENABLED /\ InFlight = 0 =>
        (WEB_SERVER_ON => listening)

\* An open page's switch shows whether the server listens.  A start that was
\* waited for by a page that has been left is unknown to the next one: fails.
SwitchShowsServer ==
    page # "closed" /\ InFlight = 0 => (page = "running") = listening
=============================================================================
