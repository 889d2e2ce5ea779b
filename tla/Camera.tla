------------------------------- MODULE Camera -------------------------------
(***************************************************************************)
(* The camera of the web page (site/app.js).  camStart asks for a stream,  *)
(* plays and tunes it and opens the dialog, with an await before each;     *)
(* camLoop reads a frame, handles what it decodes and starts a timer for   *)
(* the next one; camStop can come between any two of these steps.  Streams *)
(* and loops are named by the call of camStart that began them.            *)
(***************************************************************************)
EXTENDS Integers

CONSTANTS
    MaxStarts,   \* bound on the calls of camStart
    OneStart     \* whether the user waits for a start to end before the next

ASSUME MaxStartsAssumption == MaxStarts \in Nat
ASSUME OneStartAssumption == OneStart \in BOOLEAN

VARIABLES
    tab,         \* the tab on show
    camMode,     \* "parts" for tab 2, "single" for the text box of tab 1
    starts,      \* how many calls of camStart there were
    start,       \* each call: "idle", or the await it waits at
    live,        \* the streams whose tracks run
    camStream,   \* the stream, or 0
    dialog,      \* dlgCam.open
    loop,        \* each loop: "idle", "timer", or the await it waits at: "busy"
                 \* with a frame, "adding" the share it held to tab 2
    camTimer,    \* the loop that the last timer of camLoop is for, or 0
    camCloseTimer, \* the stream (0 for none) when it was started, or NoTimer
    recovered    \* recOutcome holds a main set that is recovered

camVars == <<tab, camMode, starts, start, live, camStream, dialog, loop, camTimer,
             camCloseTimer, recovered>>

Calls == 1 .. MaxStarts
NoTimer == -1

CamInit ==
    /\ tab = "split"
    /\ camMode = "parts"
    /\ starts = 0
    /\ start = [c \in Calls |-> "idle"]
    /\ live = {}
    /\ camStream = 0
    /\ dialog = FALSE
    /\ loop = [c \in Calls |-> "idle"]
    /\ camTimer = 0
    /\ camCloseTimer = NoTimer
    /\ recovered = FALSE

Starting == \E c \in Calls : start[c] # "idle"

\* Fault: the timer that closes the dialog runs on.
StopLate(loops) ==
    /\ loop' = [c \in Calls |-> IF c = camTimer /\ loops[c] = "timer" THEN "idle" ELSE loops[c]]
    /\ live' = live \ {camStream}
    /\ camStream' = 0
    /\ dialog' = FALSE
    /\ UNCHANGED camCloseTimer

\* Fault: the stream is forgotten before its tracks are stopped.
StopForgotten(loops) ==
    /\ loop' = [c \in Calls |-> IF c = camTimer /\ loops[c] = "timer" THEN "idle" ELSE loops[c]]
    /\ camCloseTimer' = NoTimer
    /\ camStream' = 0
    /\ dialog' = FALSE
    /\ UNCHANGED live

(* camStop, with the loops as they are by then: the two timers are         *)
(* cleared, the stream is stopped and the dialog closed.  The close event  *)
(* of the dialog calls it once more, which changes nothing.                *)
Stop(loops) ==
    /\ loop' = [c \in Calls |-> IF c = camTimer /\ loops[c] = "timer" THEN "idle" ELSE loops[c]]
    /\ camCloseTimer' = NoTimer
    /\ live' = live \ {camStream}
    /\ camStream' = 0
    /\ dialog' = FALSE

-----------------------------------------------------------------------------
(* What the user does.  The dialog is modal: while it is open only its own *)
(* buttons and the Escape key work.                                        *)

CamStart(mode) ==
    /\ ~dialog
    /\ tab = IF mode = "parts" THEN "recover" ELSE "split"
    /\ OneStart => ~Starting
    /\ starts < MaxStarts
    /\ starts' = starts + 1
    /\ camMode' = mode
    /\ start' = [start EXCEPT ![starts + 1] = "ask"]
    /\ UNCHANGED <<tab, live, camStream, dialog, loop, camTimer, camCloseTimer, recovered>>

\* The Stop button and the Escape key.
Close == /\ dialog
         /\ Stop(loop)
         /\ UNCHANGED <<tab, camMode, starts, start, camTimer, recovered>>

\* switchTab.
SwitchTab(to) ==
    /\ ~dialog
    /\ to # tab
    /\ tab' = to
    /\ IF to = "recover" THEN UNCHANGED <<live, camStream, dialog, loop, camCloseTimer>>
       ELSE Stop(loop)
    /\ UNCHANGED <<camMode, starts, start, camTimer, recovered>>

-----------------------------------------------------------------------------
(* camStart, one step between two awaits *)

\* getUserMedia fails.
Denied(c) ==
    /\ start[c] = "ask"
    /\ start' = [start EXCEPT ![c] = "idle"]
    /\ UNCHANGED <<tab, camMode, starts, live, camStream, dialog, loop, camTimer,
                   camCloseTimer, recovered>>

Granted(c) ==
    /\ start[c] = "ask"
    /\ start' = [start EXCEPT ![c] = "play"]
    /\ live' = live \cup {c}
    /\ camStream' = c
    /\ UNCHANGED <<tab, camMode, starts, dialog, loop, camTimer, camCloseTimer, recovered>>

\* Without a stream any more, reading its tracks throws.
Played(c) ==
    /\ start[c] = "play"
    /\ start' = [start EXCEPT ![c] = IF camStream = 0 THEN "idle" ELSE "tune"]
    /\ UNCHANGED <<tab, camMode, starts, live, camStream, dialog, loop, camTimer,
                   camCloseTimer, recovered>>

\* The dialog opens, and camLoop begins if there is still a stream.
Tuned(c) ==
    /\ start[c] = "tune"
    /\ start' = [start EXCEPT ![c] = "idle"]
    /\ dialog' = TRUE
    /\ loop' = [loop EXCEPT ![c] = IF camStream = 0 THEN "idle" ELSE "busy"]
    /\ UNCHANGED <<tab, camMode, starts, live, camStream, camTimer, camCloseTimer, recovered>>

-----------------------------------------------------------------------------
(* camLoop *)

\* Fault: without a stream the loop tries again instead of coming to its end.
NextFrameAgain(c) ==
    /\ loop[c] \in {"busy", "adding"}
    /\ IF camStream = 0
       THEN loop' = [loop EXCEPT ![c] = "busy"] /\ UNCHANGED camTimer
       ELSE loop' = [loop EXCEPT ![c] = "timer"] /\ camTimer' = c
    /\ UNCHANGED <<tab, camMode, starts, start, live, camStream, dialog, camCloseTimer, recovered>>

\* Nothing was decoded, or a share that is in tab 2 by now.
NextFrame(c) ==
    /\ loop[c] \in {"busy", "adding"}
    /\ IF camStream = 0
       THEN loop' = [loop EXCEPT ![c] = "idle"] /\ UNCHANGED camTimer
       ELSE loop' = [loop EXCEPT ![c] = "timer"] /\ camTimer' = c
    /\ UNCHANGED <<tab, camMode, starts, start, live, camStream, dialog, camCloseTimer, recovered>>

(* handleScan of a code for tab 1: the camera stops before the text goes   *)
(* to the tab it belongs to, and a share goes to tab 2 in an await.        *)
ScanSingle(c, to) ==
    /\ loop[c] = "busy"
    /\ camMode = "single"
    /\ Stop([loop EXCEPT ![c] = IF to = "recover" THEN "adding" ELSE "idle"])
    /\ tab' = to
    /\ UNCHANGED <<camMode, starts, start, camTimer, recovered>>

\* The 150 ms to the next frame are over.
Tick(c) ==
    /\ loop[c] = "timer"
    /\ loop' = [loop EXCEPT ![c] = IF camStream = 0 THEN "idle" ELSE "busy"]
    /\ UNCHANGED <<tab, camMode, starts, start, live, camStream, dialog, camTimer,
                   camCloseTimer, recovered>>

-----------------------------------------------------------------------------
(* Closing the camera when the main set is recovered *)

(* The end of updateRec: maybeCloseCamera starts a timer of 700 ms when    *)
(* the camera reads plates for tab 2 and the main set is recovered.        *)
Update(done) ==
    /\ recovered' = done
    /\ camCloseTimer' = IF camMode = "parts" /\ dialog /\ done /\ camCloseTimer = NoTimer
                        THEN camStream ELSE camCloseTimer
    /\ UNCHANGED <<tab, camMode, starts, start, live, camStream, dialog, loop, camTimer>>

CloseRecovered ==
    /\ camCloseTimer # NoTimer
    /\ Stop(loop)
    /\ UNCHANGED <<tab, camMode, starts, start, camTimer, recovered>>

-----------------------------------------------------------------------------
StartStep(c) == Denied(c) \/ Granted(c) \/ Played(c) \/ Tuned(c)
LoopStep(c) == NextFrame(c) \/ Tick(c) \/ \E to \in {"split", "recover"} : ScanSingle(c, to)

CamNext ==
    \/ \E mode \in {"parts", "single"} : CamStart(mode)
    \/ Close
    \/ \E to \in {"split", "recover"} : SwitchTab(to)
    \/ \E c \in Calls : StartStep(c) \/ LoopStep(c)
    \/ \E done \in BOOLEAN : Update(done)
    \/ CloseRecovered

(* The browser answers every call and fires every timer.                   *)
CamSpec ==
    /\ CamInit /\ [][CamNext]_camVars
    /\ \A c \in Calls : WF_camVars(StartStep(c)) /\ WF_camVars(LoopStep(c))
    /\ WF_camVars(CloseRecovered)

-----------------------------------------------------------------------------
(* Properties *)

CamTypeOK ==
    /\ tab \in {"split", "recover"} /\ camMode \in {"parts", "single"}
    /\ starts \in 0 .. MaxStarts
    /\ start \in [Calls -> {"idle", "ask", "play", "tune"}]
    /\ live \subseteq 1 .. starts
    /\ camStream \in 0 .. starts
    /\ dialog \in BOOLEAN /\ recovered \in BOOLEAN
    /\ loop \in [Calls -> {"idle", "busy", "adding", "timer"}]
    /\ camTimer \in 0 .. starts /\ camCloseTimer \in {NoTimer} \cup 0 .. starts

(* No camera is left on: a stream whose tracks run is the one that camStop *)
(* would stop, and once no start is under way the dialog shows it, so that *)
(* the user can stop it.  Tabs may change and the camera may be stopped at *)
(* any await of camStart.                                                  *)
OffWhenClosed ==
    /\ live \subseteq {camStream} \ {0}
    /\ ~Starting /\ ~dialog => live = {}

(* The timer that closes the camera belongs to the camera on show: it      *)
(* never closes one that was opened after the set was recovered.           *)
ClosesItsOwn == camCloseTimer # NoTimer => camCloseTimer = camStream /\ dialog

(* A stopped camera reads no more frames: each loop of it comes to its end. *)
LoopsEnd == [](camStream = 0 => <>(camStream # 0 \/ \A c \in Calls : loop[c] = "idle"))

(* app.js:1104: maybeCloseCamera "closes the camera once the main set is   *)
(* recovered".                                                             *)
RecoveryClosesCamera == [][CloseRecovered => live' = {}]_camVars
=============================================================================
