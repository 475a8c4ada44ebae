------------------------ MODULE MCBackgroundService ------------------------
(***************************************************************************)
(* BackgroundService under its callers (AppServices), with one address and *)
(* two starts in flight, and beside it the recorder with two presses of    *)
(* its button.  A behaviour is of the one or of the other: what AppServices *)
(* sees of the recorder are calls that come at any time.                   *)
(***************************************************************************)
EXTENDS AppServices, Sequences

CONSTANTS i1, Take, None, MaxJobs

ASSUME RecorderAssumption == None \notin Take /\ MaxJobs \in Nat

VARIABLES
    stage, screenCapture, fileName, file, isInRecording, recordings,
    stopping, releasing, deactivating, wanted, failed

MCInfo == {i1}

Recorder == INSTANCE Recorder

recorderVars == <<stage, screenCapture, fileName, file, isInRecording, recordings,
                  stopping, releasing, deactivating, wanted, failed>>

\* The recorder's behaviours begin where the application's have not begun.
Recording == \E t \in Take : stage[t] # "none"
NotBegun == ~launched /\ ~PRIVACY_AGREE /\ ~AUTO_START_ENABLED /\ ~WEB_SERVER_ON

MCInit == AppInit /\ Recorder!Init

MCNext ==
    \/ ~Recording /\ AppNext /\ UNCHANGED recorderVars
    \/ NotBegun /\ Recorder!Next /\ UNCHANGED <<vars, app>>

MCSpec == MCInit /\ [][MCNext]_<<vars, app, recorderVars>> /\ WF_vars(Refresh)

RestIsOff == Recorder!RestIsOff
RecordingIsWanted == Recorder!RecordingIsWanted
FailureIsOff == Recorder!FailureIsOff
RestHoldsNothing == Recorder!RestHoldsNothing
ListsItsOwn == Recorder!ListsItsOwn
DeletesTheChosen == Recorder!DeletesTheChosen
=============================================================================
