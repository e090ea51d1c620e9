----------------------------- MODULE SystemSource -----------------------------
(***************************************************************************)
(* How the capture helper acquires system audio: a Core Audio tap set up   *)
(* on a thread of its own, ScreenCaptureKit as another source or as the    *)
(* fallback, two watchdogs, and the stop task                              *)
(* (native/standby-capture-helper/main.swift, runCapture).                 *)
(*                                                                         *)
(* systemSettled is flipped once, by whoever decides what becomes of the   *)
(* lane.  Atomic loads, stores and exchanges are steps of their own.  A    *)
(* watchdog fires at any time after it was armed; tap.start and            *)
(* capture.start may never return.                                         *)
(***************************************************************************)
EXTENDS Naturals, FiniteSets

CONSTANTS
  Choices, \* values of STANDBY_SYSTEM_SOURCE that are tried
  Mics     \* whether the capture wants the microphone too

ASSUME ConstantsAssumption ==
  /\ Choices \subseteq {"auto", "tap", "sck"}
  /\ Mics \subseteq BOOLEAN

VARIABLES
  choice,    \* systemSource
  mic,       \* wantsMic
  settled,   \* systemSettled
  tapDone,
  acq,       \* where the acquisition thread is
  setupDog,  \* the watchdog of tap.start
  framesDog, \* the watchdog of the tap's first frames
  sck,       \* ScreenCaptureKit, by the function that starts it
  running,   \* sources that capture
  heard,     \* lane.framesReceived > 0
  box,       \* systemTeardownBox
  reported,  \* number of source.failed events of the lane
  stop       \* the stop task, and the helper's end

config == <<choice, mic>>
dogs == <<setupDog, framesDog>>
end == <<reported, stop>>
vars == <<config, settled, tapDone, acq, dogs, sck, running, heard, box, end>>

(* startScreenCaptureKit looks at systemSettled when the capture runs,     *)
(* startScreenCaptureKit_settledBypass is for those who flipped it.        *)
Start == {"checked", "bypass"}

Init ==
  /\ choice \in Choices
  /\ mic \in Mics
  /\ settled = FALSE
  /\ tapDone = FALSE
  /\ acq = "lane"
  /\ setupDog = "off"
  /\ framesDog = "off"
  /\ sck = [s \in Start |-> "none"]
  /\ running = {}
  /\ heard = FALSE
  /\ box = "nothing"
  /\ reported = 0
  /\ stop = "no"

Up == stop # "exited"

-----------------------------------------------------------------------------
(* Slips the properties must notice; the runs never use them: a tap that   *)
(* is kept although the lane is settled, watchdogs that do nothing or      *)
(* leave the tap running, and a stop task that waits for the tap.          *)
TapSettlesAnyway ==
  /\ Up /\ acq = "settle"
  /\ settled' = TRUE
  /\ acq' = "keep"
  /\ UNCHANGED <<config, tapDone, dogs, sck, running, heard, box, end>>

SetupDogSleeps ==
  /\ Up /\ setupDog = "armed"
  /\ setupDog' = "off"
  /\ UNCHANGED <<config, settled, tapDone, acq, framesDog, sck, running, heard,
                 box, end>>

FramesDogLeavesTap ==
  /\ Up /\ framesDog = "armed"
  /\ framesDog' = IF heard THEN "off" ELSE "replace"
  /\ UNCHANGED <<config, settled, tapDone, acq, setupDog, sck, running, heard,
                 box, end>>

StopWaits ==
  /\ stop = "requested" /\ acq \in {"kept", "over"}
  /\ stop' = "draining"
  /\ running' = running \ {box}
  /\ UNCHANGED <<config, settled, tapDone, acq, dogs, sck, heard, box, reported>>

-----------------------------------------------------------------------------
(* settleSystemFailure: whoever settles the lane first reports; without a  *)
(* microphone there is nothing else to record and the helper exits.        *)
SettleFailure ==
  /\ settled' = TRUE
  /\ reported' = reported + (IF settled THEN 0 ELSE 1)
  /\ stop' = IF ~settled /\ ~mic THEN "exited" ELSE stop

-----------------------------------------------------------------------------
(* The acquisition thread.                                                 *)

(* The lane's transcriber starts; sck starts ScreenCaptureKit right away,  *)
(* the others arm the watchdog and set the tap up.                         *)
SetUpLane ==
  /\ Up /\ acq = "lane"
  /\ \/ /\ choice = "sck"
        /\ sck' = [sck EXCEPT !["checked"] = "starting"]
        /\ acq' = "over"
        /\ UNCHANGED setupDog
     \/ /\ choice # "sck"
        /\ acq' = "starting"
        /\ setupDog' = "armed"
        /\ UNCHANGED sck
  /\ UNCHANGED <<config, settled, tapDone, framesDog, running, heard, box, end>>

TranscriberFails ==
  /\ Up /\ acq = "lane"
  /\ SettleFailure
  /\ acq' = "over"
  /\ UNCHANGED <<config, tapDone, dogs, sck, running, heard, box>>

(* tap.start returns, or tears down what it made and throws. *)
TapStarts ==
  /\ Up /\ acq = "starting"
  /\ \/ acq' = "started" /\ running' = running \cup {"tap"}
     \/ acq' = "thrown" /\ UNCHANGED running
  /\ UNCHANGED <<config, settled, tapDone, dogs, sck, heard, box, end>>

StoreTapDone ==
  /\ Up /\ acq \in {"started", "thrown"}
  /\ tapDone' = TRUE
  /\ acq' = IF acq = "started" THEN "settle" ELSE "fall_back"
  /\ UNCHANGED <<config, settled, dogs, sck, running, heard, box, end>>

TapSettles ==
  /\ Up /\ acq = "settle"
  /\ settled' = TRUE
  /\ acq' = IF settled THEN "drop" ELSE "keep"
  /\ UNCHANGED <<config, tapDone, dogs, sck, running, heard, box, end>>

(* The tap is the source; auto watches for its first frames. *)
KeepTap ==
  /\ Up /\ acq = "keep"
  /\ box' = "tap"
  /\ framesDog' = IF choice = "auto" THEN "armed" ELSE framesDog
  /\ acq' = "kept"
  /\ UNCHANGED <<config, settled, tapDone, setupDog, sck, running, heard, end>>

DropTap ==
  /\ Up /\ acq = "drop"
  /\ running' = running \ {"tap"}
  /\ acq' = "over"
  /\ UNCHANGED <<config, settled, tapDone, dogs, sck, heard, box, end>>

(* Both catch branches: auto falls back while the lane is not settled, the *)
(* rest is a failure.                                                      *)
FallBack ==
  /\ Up /\ acq = "fall_back"
  /\ acq' = "over"
  /\ \/ /\ choice = "auto" /\ ~settled
        /\ sck' = [sck EXCEPT !["checked"] = "starting"]
        /\ UNCHANGED <<settled, end>>
     \/ /\ choice # "auto" \/ settled
        /\ SettleFailure
        /\ UNCHANGED sck
  /\ UNCHANGED <<config, tapDone, dogs, running, heard, box>>

-----------------------------------------------------------------------------
(* The watchdogs.                                                          *)

SetupDogFires ==
  /\ Up /\ setupDog = "armed"
  /\ setupDog' = IF tapDone THEN "off" ELSE "fired"
  /\ UNCHANGED <<config, settled, tapDone, acq, framesDog, sck, running, heard,
                 box, end>>

SetupDogSettles ==
  /\ Up /\ setupDog = "fired"
  /\ setupDog' = "off"
  /\ \/ /\ choice = "auto" /\ ~settled
        /\ settled' = TRUE
        /\ sck' = [sck EXCEPT !["bypass"] = "starting"]
        /\ UNCHANGED end
     \/ /\ choice # "auto" \/ settled
        /\ SettleFailure
        /\ UNCHANGED sck
  /\ UNCHANGED <<config, tapDone, acq, framesDog, running, heard, box>>

(* The tap gave no frames: it is stopped, then replaced. *)
FramesDogFires ==
  /\ Up /\ framesDog = "armed"
  /\ \/ heard /\ framesDog' = "off" /\ UNCHANGED running
     \/ ~heard /\ framesDog' = "replace" /\ running' = running \ {"tap"}
  /\ UNCHANGED <<config, settled, tapDone, acq, setupDog, sck, heard, box, end>>

FramesDogReplaces ==
  /\ Up /\ framesDog = "replace"
  /\ framesDog' = "off"
  /\ sck' = [sck EXCEPT !["bypass"] = "starting"]
  /\ UNCHANGED <<config, settled, tapDone, acq, setupDog, running, heard, box,
                 end>>

-----------------------------------------------------------------------------
(* ScreenCaptureKit.                                                       *)

SckStarts(s) ==
  /\ Up /\ sck[s] = "starting"
  /\ sck' = [sck EXCEPT ![s] = IF s = "checked" THEN "settle" ELSE "keep"]
  /\ running' = running \cup {s}
  /\ UNCHANGED <<config, settled, tapDone, acq, dogs, heard, box, end>>

(* The bypass only logs its failure. *)
SckThrows(s) ==
  /\ Up /\ sck[s] = "starting"
  /\ sck' = [sck EXCEPT ![s] = "over"]
  /\ IF s = "checked" THEN SettleFailure ELSE UNCHANGED <<settled, end>>
  /\ UNCHANGED <<config, tapDone, acq, dogs, running, heard, box>>

SckSettles(s) ==
  /\ Up /\ sck[s] = "settle"
  /\ settled' = TRUE
  /\ sck' = [sck EXCEPT ![s] = IF settled THEN "drop" ELSE "keep"]
  /\ UNCHANGED <<config, tapDone, acq, dogs, running, heard, box, end>>

KeepSck(s) ==
  /\ Up /\ sck[s] = "keep"
  /\ box' = s
  /\ sck' = [sck EXCEPT ![s] = "over"]
  /\ UNCHANGED <<config, settled, tapDone, acq, dogs, running, heard, end>>

DropSck(s) ==
  /\ Up /\ sck[s] = "drop"
  /\ running' = running \ {s}
  /\ sck' = [sck EXCEPT ![s] = "over"]
  /\ UNCHANGED <<config, settled, tapDone, acq, dogs, heard, box, end>>

(* A source delivers frames to the lane. *)
Hear ==
  /\ Up /\ running # {} /\ ~heard
  /\ heard' = TRUE
  /\ UNCHANGED <<config, settled, tapDone, acq, dogs, sck, running, box, end>>

-----------------------------------------------------------------------------
(* The stop task.  A request that comes during set-up waits in StopSignal. *)

StopRequested ==
  /\ stop = "no" /\ acq # "lane"
  /\ stop' = "requested"
  /\ UNCHANGED <<config, settled, tapDone, acq, dogs, sck, running, heard, box,
                 reported>>

(* take()?(), then the inputs are finished.  ScreenCaptureKit is stopped   *)
(* by a task, at the latest by the end of the process.                     *)
StopTakes ==
  /\ stop = "requested"
  /\ stop' = "draining"
  /\ running' = running \ {box}
  /\ UNCHANGED <<config, settled, tapDone, acq, dogs, sck, heard, box, reported>>

(* The consumers return, the transcribers finish, the process ends. *)
Exit ==
  /\ stop = "draining"
  /\ stop' = "exited"
  /\ UNCHANGED <<config, settled, tapDone, acq, dogs, sck, running, heard, box,
                 reported>>

-----------------------------------------------------------------------------
Acquire == SetUpLane \/ StoreTapDone \/ TapSettles \/ KeepTap \/ DropTap \/ FallBack
Watch == SetupDogFires \/ SetupDogSettles \/ FramesDogFires \/ FramesDogReplaces
SckSteps(s) == SckSettles(s) \/ KeepSck(s) \/ DropSck(s)
StopStep == StopTakes \/ Exit

Next ==
  \/ Acquire \/ TranscriberFails \/ TapStarts
  \/ Watch
  \/ \E s \in Start : SckStarts(s) \/ SckThrows(s) \/ SckSteps(s)
  \/ Hear
  \/ StopRequested \/ StopStep

Spec == Init /\ [][Next]_vars

(* The helper's own steps happen and timers fire.  tap.start and           *)
(* capture.start may hang (main.swift says both were seen to), so nothing  *)
(* is assumed of them, nor of frames and stop requests.                    *)
Fairness ==
  /\ WF_vars(Acquire)
  /\ WF_vars(SetupDogFires \/ SetupDogSettles)
  /\ WF_vars(FramesDogFires \/ FramesDogReplaces)
  /\ \A s \in Start : WF_vars(SckSteps(s))
  /\ WF_vars(StopStep)

FairSpec == Spec /\ Fairness

-----------------------------------------------------------------------------
(* Properties.                                                             *)

TypeOK ==
  /\ choice \in Choices
  /\ mic \in Mics
  /\ settled \in BOOLEAN
  /\ tapDone \in BOOLEAN
  /\ acq \in {"lane", "starting", "started", "thrown", "settle", "keep", "kept",
              "drop", "fall_back", "over"}
  /\ setupDog \in {"off", "armed", "fired"}
  /\ framesDog \in {"off", "armed", "replace"}
  /\ sck \in [Start -> {"none", "starting", "settle", "keep", "drop", "over"}]
  /\ running \subseteq {"tap"} \cup Start
  /\ heard \in BOOLEAN
  /\ box \in {"nothing", "tap"} \cup Start
  /\ reported \in 0..1
  /\ stop \in {"no", "requested", "draining", "exited"}

(* Nothing is on its way any more. *)
Quiet ==
  /\ acq \in {"kept", "over"}
  /\ setupDog = "off" /\ framesDog = "off"
  /\ \A s \in Start : sck[s] \in {"none", "over"}

(* However the tap, its watchdogs and the fallbacks race, at most one      *)
(* source is left feeding the lane, and it is the one the stop task finds  *)
(* (systemSettled, systemTeardownBox).                                     *)
OneSourceInBox ==
  Quiet /\ Up => /\ Cardinality(running) <= 1
                 /\ running \subseteq {box}

(* What the helper says of the lane is true, and it says so.  A lane that  *)
(* was reported failed is not captured after all: no source that comes     *)
(* late is kept (settleSystemFailure).  A lane without a source was        *)
(* reported, unless the fallback of a wedged or silent tap failed too,     *)
(* which is only logged.  A tap.start that outlasts its watchdog has lost  *)
(* the lane.                                                               *)
ReportIsTrue ==
  /\ Up /\ Quiet =>
       /\ reported > 0 => running = {}
       /\ running = {} /\ stop = "no" => reported > 0 \/ sck["bypass"] = "over"
  /\ acq = "starting" /\ setupDog = "off" => settled

(* The box never loses a source that runs: what it held before is stopped  *)
(* when another teardown is set (TeardownBox.set replaces, it does not     *)
(* call).                                                                  *)
ReplacedIsStopped == [][box' # box /\ box # "nothing" => box \notin running]_box

(* A tap.start that hangs blocks no shutdown: a stop request ends the      *)
(* helper whatever hangs.                                                  *)
StopEndsHelper == stop = "requested" ~> stop = "exited"

-----------------------------------------------------------------------------
(* The inductive invariant: who has settled the lane, and what each source *)
(* that runs is waiting for.                                               *)

(* The four outcomes of a lane.  The bypass is the outcome of the setup    *)
(* watchdog; the frames watchdog starts it for a tap that was kept.        *)
TapHolds == acq \in {"keep", "kept"}
CheckedHolds == sck["checked"] = "keep" \/ box = "checked"
BypassHolds == sck["bypass"] # "none" /\ acq # "kept"
FailureHolds == reported # 0

OneHolds ==
  /\ settled <=> TapHolds \/ CheckedHolds \/ BypassHolds \/ FailureHolds
  /\ TapHolds => ~CheckedHolds /\ ~BypassHolds /\ ~FailureHolds
  /\ CheckedHolds => ~BypassHolds /\ ~FailureHolds
  /\ BypassHolds => ~FailureHolds

(* The acquisition thread and ScreenCaptureKit take turns, and those who   *)
(* end without the lane leave it settled.                                  *)
PhasesInv ==
  /\ acq \in {"lane", "starting", "started", "thrown"} => ~tapDone
  /\ acq = "lane" => setupDog = "off"
  /\ acq = "starting" /\ setupDog = "off" => settled
  /\ acq = "drop" => settled
  /\ acq = "over" /\ sck["checked"] = "none" => settled
  /\ sck["checked"] # "none" => acq = "over"
  /\ sck["checked"] \in {"drop", "over"} => settled
  /\ sck["bypass"] \in {"none", "starting", "keep", "over"}

(* The frames watchdog guards a tap that was kept, and replaces it once.   *)
WatchInv ==
  /\ framesDog # "off" => acq = "kept" /\ sck["bypass"] = "none"
  /\ framesDog = "replace" => "tap" \notin running
  /\ acq = "kept" /\ sck["bypass"] # "none" => "tap" \notin running

BoxInv ==
  /\ box = "tap" => acq = "kept"
  /\ box = "checked" => sck["checked"] = "over"
  /\ box = "bypass" => sck["bypass"] = "over"
  /\ acq = "kept" => box \in {"tap", "bypass"}

(* A source that runs was kept or is about to be kept or dropped; one that *)
(* was kept runs until somebody stops it.                                  *)
RunningInv ==
  /\ "tap" \in running => acq \in {"started", "settle", "keep", "kept", "drop"}
  /\ "checked" \in running =>
       sck["checked"] \in {"settle", "keep", "drop"} \/ box = "checked"
  /\ "bypass" \in running => sck["bypass"] = "keep" \/ box = "bypass"
  /\ stop = "no" =>
       /\ acq \in {"started", "settle", "keep"} => "tap" \in running
       /\ acq = "kept" /\ framesDog # "replace" /\ sck["bypass"] = "none" =>
            "tap" \in running
       /\ sck["checked"] \in {"settle", "keep"} \/ box = "checked" =>
            "checked" \in running

IInv ==
  /\ TypeOK /\ OneHolds /\ PhasesInv /\ WatchInv /\ BoxInv /\ RunningInv

=============================================================================
