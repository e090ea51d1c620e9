------------------------- MODULE SystemSource_proofs -------------------------
(***************************************************************************)
(* Proofs about SystemSource, for every set of source choices and with or  *)
(* without a microphone: the lane is settled by one of four outcomes, and  *)
(* whatever the other racers do afterwards, they leave it alone.           *)
(***************************************************************************)
EXTENDS SystemSource, FiniteSetTheorems, TLAPS

LEMMA InitIInv == Init => IInv
<1> SUFFICES ASSUME Init PROVE IInv
  OBVIOUS
<1>1. /\ sck = [s \in {"checked", "bypass"} |-> "none"]
      /\ sck["checked"] = "none" /\ sck["bypass"] = "none"
  BY DEF Init, Start
<1>2. TypeOK
  <2>1. sck \in [Start -> {"none", "starting", "settle", "keep", "drop", "over"}]
    BY <1>1 DEF Start
  <2>2. running \subseteq {"tap"} \cup Start
    BY DEF Init
  <2>3. reported \in 0..1
    BY DEF Init
  <2>4. settled \in BOOLEAN /\ tapDone \in BOOLEAN /\ heard \in BOOLEAN
    BY DEF Init
  <2> QED
    BY <2>1, <2>2, <2>3, <2>4 DEF Init, TypeOK
<1>3. OneHolds
  BY <1>1 DEF Init, OneHolds, TapHolds, CheckedHolds, BypassHolds, FailureHolds
<1>4. PhasesInv /\ WatchInv /\ BoxInv /\ RunningInv
  BY <1>1 DEF Init, PhasesInv, WatchInv, BoxInv, RunningInv
<1> QED
  BY <1>2, <1>3, <1>4 DEF IInv

-----------------------------------------------------------------------------
(* Only a lane that is not settled is reported.                            *)

LEMMA FailureSettles ==
  ASSUME IInv, SettleFailure
  PROVE  /\ settled' = TRUE
         /\ reported' = IF settled THEN reported ELSE 1
         /\ stop' \in {stop, "exited"}
<1>1. reported \in Nat /\ settled \in BOOLEAN /\ (~settled => reported = 0)
  BY DEF IInv, TypeOK, OneHolds, FailureHolds
<1> QED
  BY <1>1 DEF SettleFailure

-----------------------------------------------------------------------------
(* The acquisition thread.                                                 *)

LEMMA SetUpLaneKeeps ==
  ASSUME IInv, SetUpLane
  PROVE  IInv'
<1> USE DEF IInv, TypeOK, Start, config, dogs, end
<1>1. /\ sck'["bypass"] = sck["bypass"] /\ sck["checked"] = "none"
      /\ acq = "lane"
      /\ \/ (acq' = "starting" /\ sck'["checked"] = "none" /\ setupDog' = "armed")
         \/ (acq' = "over" /\ sck'["checked"] = "starting" /\ setupDog' = setupDog)
      /\ UNCHANGED <<settled, tapDone, framesDog, box, running, stop, reported>>
  BY DEF SetUpLane, PhasesInv
<1>2. TypeOK'
  BY <1>1 DEF SetUpLane
<1>3. OneHolds'
  BY <1>1 DEF OneHolds, TapHolds, CheckedHolds, BypassHolds, FailureHolds
<1>4. PhasesInv'
  BY <1>1 DEF PhasesInv
<1>5. WatchInv'
  BY <1>1 DEF WatchInv, PhasesInv
<1>6. BoxInv'
  BY <1>1 DEF BoxInv, PhasesInv
<1>7. RunningInv'
  BY <1>1 DEF RunningInv
<1> QED
  BY <1>2, <1>3, <1>4, <1>5, <1>6, <1>7

LEMMA TranscriberFailsKeeps ==
  ASSUME IInv, TranscriberFails
  PROVE  IInv'
<1> USE DEF IInv, TypeOK, Start, config, dogs, end
<1>1. /\ settled' = TRUE
      /\ reported' = IF settled THEN reported ELSE 1
      /\ stop' = stop \/ stop' = "exited"
      /\ acq = "lane" /\ acq' = "over"
      /\ UNCHANGED <<sck, tapDone, setupDog, framesDog, box, running>>
  BY DEF TranscriberFails, SettleFailure, OneHolds, FailureHolds
<1>2. TypeOK'
  BY <1>1 DEF TranscriberFails, SettleFailure, OneHolds, FailureHolds
<1>3. OneHolds'
  BY <1>1 DEF OneHolds, TapHolds, CheckedHolds, BypassHolds, FailureHolds
<1>4. PhasesInv'
  BY <1>1 DEF PhasesInv
<1>5. WatchInv'
  BY <1>1 DEF WatchInv
<1>6. BoxInv'
  BY <1>1 DEF BoxInv
<1>7. RunningInv'
  BY <1>1 DEF RunningInv
<1> QED
  BY <1>2, <1>3, <1>4, <1>5, <1>6, <1>7

LEMMA TapStartsKeeps ==
  ASSUME IInv, TapStarts
  PROVE  IInv'
<1> USE DEF IInv, TypeOK, Start, config, dogs, end
<1>1. /\ acq = "starting"
      /\ \/ acq' = "started" /\ running' = running \cup {"tap"}
         \/ acq' = "thrown" /\ running' = running
      /\ UNCHANGED <<settled, sck, tapDone, setupDog, framesDog, box, stop, reported>>
  BY DEF TapStarts
<1>2. TypeOK'
  <2>1. running' \subseteq {"tap"} \cup Start
    BY <1>1
  <2> QED
    BY <1>1, <2>1 DEF TapStarts
<1>3. OneHolds'
  BY <1>1 DEF OneHolds, TapHolds, CheckedHolds, BypassHolds, FailureHolds
<1>4. PhasesInv'
  BY <1>1 DEF PhasesInv
<1>5. WatchInv'
  BY <1>1 DEF WatchInv
<1>6. BoxInv'
  BY <1>1 DEF BoxInv
<1>7. RunningInv'
  BY <1>1 DEF RunningInv, PhasesInv
<1> QED
  BY <1>2, <1>3, <1>4, <1>5, <1>6, <1>7

LEMMA StoreTapDoneKeeps ==
  ASSUME IInv, StoreTapDone
  PROVE  IInv'
<1> USE DEF IInv, TypeOK, Start, config, dogs, end
<1>1. /\ \/ acq = "started" /\ acq' = "settle"
         \/ acq = "thrown" /\ acq' = "fall_back"
      /\ UNCHANGED <<settled, sck, setupDog, framesDog, running, box, stop, reported>>
  BY DEF StoreTapDone
<1>2. TypeOK'
  BY <1>1 DEF StoreTapDone
<1>3. OneHolds'
  BY <1>1 DEF OneHolds, TapHolds, CheckedHolds, BypassHolds, FailureHolds
<1>4. PhasesInv'
  BY <1>1 DEF PhasesInv
<1>5. WatchInv'
  BY <1>1 DEF WatchInv
<1>6. BoxInv'
  BY <1>1 DEF BoxInv
<1>7. RunningInv'
  BY <1>1 DEF RunningInv
<1> QED
  BY <1>2, <1>3, <1>4, <1>5, <1>6, <1>7

LEMMA TapSettlesKeeps ==
  ASSUME IInv, TapSettles
  PROVE  IInv'
<1> USE DEF IInv, TypeOK, Start, config, dogs, end
<1>1. /\ acq = "settle" /\ settled' = TRUE
      /\ acq' = IF settled THEN "drop" ELSE "keep"
      /\ UNCHANGED <<tapDone, sck, setupDog, framesDog, running, box, stop, reported>>
  BY DEF TapSettles
<1>2. TypeOK'
  BY <1>1 DEF TapSettles
<1>3. OneHolds'
  BY <1>1 DEF OneHolds, TapHolds, CheckedHolds, BypassHolds, FailureHolds
<1>4. PhasesInv'
  BY <1>1 DEF PhasesInv
<1>5. WatchInv'
  BY <1>1 DEF WatchInv
<1>6. BoxInv'
  BY <1>1 DEF BoxInv
<1>7. RunningInv'
  BY <1>1 DEF RunningInv
<1> QED
  BY <1>2, <1>3, <1>4, <1>5, <1>6, <1>7

LEMMA KeepTapKeeps ==
  ASSUME IInv, KeepTap
  PROVE  IInv'
<1> USE DEF IInv, TypeOK, Start, config, dogs, end
<1>1. /\ acq = "keep" /\ acq' = "kept" /\ box' = "tap"
      /\ framesDog' \in {"armed", framesDog}
      /\ UNCHANGED <<settled, tapDone, sck, setupDog, running, stop, reported>>
  BY DEF KeepTap
<1>2. TypeOK'
  BY <1>1 DEF KeepTap
<1>3. OneHolds'
  BY <1>1 DEF OneHolds, TapHolds, CheckedHolds, BypassHolds, FailureHolds
<1>4. PhasesInv'
  BY <1>1 DEF PhasesInv
<1>5. WatchInv'
  BY <1>1 DEF WatchInv, OneHolds, TapHolds, CheckedHolds, BypassHolds, PhasesInv, BoxInv
<1>6. BoxInv'
  BY <1>1 DEF BoxInv, OneHolds, TapHolds, CheckedHolds, BypassHolds, PhasesInv, BoxInv
<1>7. RunningInv'
  BY <1>1 DEF RunningInv, OneHolds, TapHolds, CheckedHolds, BypassHolds, PhasesInv, BoxInv
<1> QED
  BY <1>2, <1>3, <1>4, <1>5, <1>6, <1>7

LEMMA DropTapKeeps ==
  ASSUME IInv, DropTap
  PROVE  IInv'
<1> USE DEF IInv, TypeOK, Start, config, dogs, end
<1>1. /\ acq = "drop" /\ acq' = "over" /\ running' = running \ {"tap"}
      /\ UNCHANGED <<settled, tapDone, sck, setupDog, framesDog, box, stop, reported>>
  BY DEF DropTap
<1>2. TypeOK'
  BY <1>1 DEF DropTap
<1>3. OneHolds'
  BY <1>1 DEF OneHolds, TapHolds, CheckedHolds, BypassHolds, FailureHolds, PhasesInv
<1>4. PhasesInv'
  BY <1>1 DEF PhasesInv
<1>5. WatchInv'
  BY <1>1 DEF WatchInv
<1>6. BoxInv'
  BY <1>1 DEF BoxInv
<1>7. RunningInv'
  BY <1>1 DEF RunningInv
<1> QED
  BY <1>2, <1>3, <1>4, <1>5, <1>6, <1>7

LEMMA FallBackKeeps ==
  ASSUME IInv, FallBack
  PROVE  IInv'
<1> USE DEF IInv, TypeOK, Start, config, dogs, end
<1>1. /\ acq = "fall_back" /\ acq' = "over"
      /\ sck["checked"] = "none"
      /\ UNCHANGED <<tapDone, setupDog, framesDog, running, box>>
  BY DEF FallBack, PhasesInv
<1>2. CASE ~settled /\ choice = "auto" /\ UNCHANGED <<settled, end>>
           /\ sck' = [sck EXCEPT !["checked"] = "starting"]
  <2>1. sck'["checked"] = "starting" /\ sck'["bypass"] = sck["bypass"]
    BY <1>2
  <2>2. TypeOK'
    BY <1>1, <1>2 DEF FallBack
  <2>3. OneHolds'
    BY <1>1, <1>2, <2>1 DEF OneHolds, TapHolds, CheckedHolds, BypassHolds, FailureHolds
  <2>4. PhasesInv' /\ WatchInv'
    BY <1>1, <1>2, <2>1 DEF PhasesInv, WatchInv
  <2>5. BoxInv' /\ RunningInv'
    BY <1>1, <1>2, <2>1 DEF BoxInv, RunningInv
  <2> QED
    BY <2>2, <2>3, <2>4, <2>5
<1>3. CASE SettleFailure /\ UNCHANGED sck
  <2>1. /\ settled' = TRUE /\ reported' = IF settled THEN reported ELSE 1
        /\ stop' \in {stop, "exited"}
    BY <1>3, FailureSettles
  <2>2. TypeOK'
    BY <1>1, <1>3, <2>1 DEF FallBack
  <2>3. OneHolds'
    BY <1>1, <1>3, <2>1 DEF OneHolds, TapHolds, CheckedHolds, BypassHolds, FailureHolds
  <2>4. PhasesInv' /\ WatchInv'
    BY <1>1, <1>3, <2>1 DEF PhasesInv, WatchInv
  <2>5. BoxInv' /\ RunningInv'
    BY <1>1, <1>3, <2>1 DEF BoxInv, RunningInv
  <2> QED
    BY <2>2, <2>3, <2>4, <2>5
<1> QED
  BY <1>2, <1>3 DEF FallBack

-----------------------------------------------------------------------------
(* The watchdogs.                                                          *)

LEMMA SetupDogFiresKeeps ==
  ASSUME IInv, SetupDogFires
  PROVE  IInv'
<1> USE DEF IInv, TypeOK, Start, config, dogs, end
<1>1. /\ setupDog = "armed"
      /\ setupDog' = IF tapDone THEN "off" ELSE "fired"
      /\ UNCHANGED <<settled, acq, tapDone, sck, framesDog, running, box, stop, reported>>
  BY DEF SetupDogFires
<1>2. TypeOK'
  BY <1>1 DEF SetupDogFires
<1>3. OneHolds'
  BY <1>1 DEF OneHolds, TapHolds, CheckedHolds, BypassHolds, FailureHolds
<1>4. PhasesInv'
  BY <1>1 DEF PhasesInv
<1>5. WatchInv'
  BY <1>1 DEF WatchInv
<1>6. BoxInv'
  BY <1>1 DEF BoxInv
<1>7. RunningInv'
  BY <1>1 DEF RunningInv
<1> QED
  BY <1>2, <1>3, <1>4, <1>5, <1>6, <1>7

LEMMA SetupDogSettlesKeeps ==
  ASSUME IInv, SetupDogSettles
  PROVE  IInv'
<1> USE DEF IInv, TypeOK, Start, config, dogs, end
<1>1. /\ setupDog = "fired" /\ setupDog' = "off" /\ settled' = TRUE
      /\ UNCHANGED <<acq, tapDone, framesDog, running, box>>
  BY DEF SetupDogSettles, SettleFailure
<1>2. CASE ~settled /\ sck' = [sck EXCEPT !["bypass"] = "starting"] /\ UNCHANGED end
  <2>1. sck'["bypass"] = "starting" /\ sck'["checked"] = sck["checked"]
    BY <1>2
  <2>2. TypeOK'
    BY <1>1, <1>2 DEF SetupDogSettles
  <2>3. sck["bypass"] = "none" /\ acq # "kept" /\ reported = 0
    BY <1>2 DEF OneHolds, TapHolds, BypassHolds, FailureHolds
  <2>4. OneHolds'
    BY <1>1, <1>2, <2>1, <2>3
    DEF OneHolds, TapHolds, CheckedHolds, BypassHolds, FailureHolds
  <2>5. PhasesInv' /\ WatchInv'
    BY <1>1, <1>2, <2>1, <2>3 DEF PhasesInv, WatchInv
  <2>6. BoxInv' /\ RunningInv'
    BY <1>1, <1>2, <2>1, <2>3 DEF BoxInv, RunningInv
  <2> QED
    BY <2>2, <2>4, <2>5, <2>6
<1>3. CASE SettleFailure /\ UNCHANGED sck
  <2>1. reported' = (IF settled THEN reported ELSE 1) /\ stop' \in {stop, "exited"}
    BY <1>3, FailureSettles
  <2>2. TypeOK'
    BY <1>1, <1>3, <2>1 DEF SetupDogSettles
  <2>3. OneHolds'
    BY <1>1, <1>3, <2>1 DEF OneHolds, TapHolds, CheckedHolds, BypassHolds, FailureHolds
  <2>4. PhasesInv' /\ WatchInv'
    BY <1>1, <1>3, <2>1 DEF PhasesInv, WatchInv
  <2>5. BoxInv' /\ RunningInv'
    BY <1>1, <1>3, <2>1 DEF BoxInv, RunningInv
  <2> QED
    BY <2>2, <2>3, <2>4, <2>5
<1> QED
  BY <1>2, <1>3 DEF SetupDogSettles

LEMMA FramesDogFiresKeeps ==
  ASSUME IInv, FramesDogFires
  PROVE  IInv'
<1> USE DEF IInv, TypeOK, Start, config, dogs, end
<1>1. /\ framesDog = "armed"
      /\ \/ framesDog' = "off" /\ running' = running
         \/ framesDog' = "replace" /\ running' = running \ {"tap"}
      /\ UNCHANGED <<settled, acq, tapDone, sck, setupDog, box, stop, reported>>
  BY DEF FramesDogFires
<1>2. TypeOK'
  <2>1. running' \subseteq {"tap"} \cup Start
    BY <1>1
  <2> QED
    BY <1>1, <2>1 DEF FramesDogFires
<1>3. OneHolds'
  BY <1>1 DEF OneHolds, TapHolds, CheckedHolds, BypassHolds, FailureHolds
<1>4. PhasesInv'
  BY <1>1 DEF PhasesInv
<1>5. WatchInv'
  BY <1>1 DEF WatchInv
<1>6. BoxInv'
  BY <1>1 DEF BoxInv
<1>7. RunningInv'
  BY <1>1 DEF RunningInv, WatchInv
<1> QED
  BY <1>2, <1>3, <1>4, <1>5, <1>6, <1>7

LEMMA FramesDogReplacesKeeps ==
  ASSUME IInv, FramesDogReplaces
  PROVE  IInv'
<1> USE DEF IInv, TypeOK, Start, config, dogs, end
<1>1. /\ framesDog = "replace" /\ framesDog' = "off"
      /\ sck'["checked"] = sck["checked"]
      /\ sck["bypass"] = "none" /\ sck'["bypass"] = "starting"
      /\ acq = "kept"
      /\ UNCHANGED <<settled, acq, tapDone, running, setupDog, box, stop, reported>>
  BY DEF FramesDogReplaces, WatchInv
<1>2. TypeOK'
  BY <1>1 DEF FramesDogReplaces
<1>3. OneHolds'
  BY <1>1 DEF OneHolds, TapHolds, CheckedHolds, BypassHolds, FailureHolds
<1>4. PhasesInv'
  BY <1>1 DEF PhasesInv
<1>5. WatchInv'
  BY <1>1 DEF WatchInv
<1>6. BoxInv'
  BY <1>1 DEF BoxInv
<1>7. RunningInv'
  BY <1>1 DEF RunningInv
<1> QED
  BY <1>2, <1>3, <1>4, <1>5, <1>6, <1>7

-----------------------------------------------------------------------------
(* ScreenCaptureKit.                                                       *)

LEMMA SckStartsKeeps ==
  ASSUME IInv, NEW s \in Start, SckStarts(s)
  PROVE  IInv'
<1> USE DEF IInv, TypeOK, Start, config, dogs, end
<1>1. /\ sck[s] = "starting" /\ sck'[s] = IF s = "checked" THEN "settle" ELSE "keep"
      /\ \A o \in Start \ {s} : sck'[o] = sck[o]
      /\ running' = running \cup {s}
      /\ UNCHANGED <<settled, acq, tapDone, setupDog, framesDog, box, stop, reported>>
  BY DEF SckStarts
<1>2. TypeOK'
  BY <1>1 DEF SckStarts
<1>3. OneHolds'
  BY <1>1 DEF OneHolds, TapHolds, CheckedHolds, BypassHolds, FailureHolds
<1>4. PhasesInv'
  BY <1>1 DEF PhasesInv
<1>5. WatchInv'
  BY <1>1 DEF WatchInv
<1>6. BoxInv'
  BY <1>1 DEF BoxInv
<1>7. RunningInv'
  BY <1>1 DEF RunningInv
<1> QED
  BY <1>2, <1>3, <1>4, <1>5, <1>6, <1>7

LEMMA SckThrowsKeeps ==
  ASSUME IInv, NEW s \in Start, SckThrows(s)
  PROVE  IInv'
<1> USE DEF IInv, TypeOK, Start, config, dogs, end
<1>1. /\ sck[s] = "starting" /\ sck'[s] = "over"
      /\ \A o \in Start \ {s} : sck'[o] = sck[o]
      /\ UNCHANGED <<acq, tapDone, setupDog, framesDog, box, running>>
  BY DEF SckThrows
<1>2. CASE s = "checked"
  <2>1. SettleFailure
    BY <1>2 DEF SckThrows
  <2>2. /\ settled' = TRUE /\ reported' = IF settled THEN reported ELSE 1
        /\ stop' \in {stop, "exited"}
    BY <2>1, FailureSettles
  <2>3. sck'["checked"] = "over" /\ sck'["bypass"] = sck["bypass"] /\ sck["checked"] = "starting"
    BY <1>1, <1>2
  <2>4. TypeOK'
    BY <1>1, <2>2 DEF SckThrows
  <2>5. OneHolds'
    BY <1>1, <2>2, <2>3 DEF OneHolds, TapHolds, CheckedHolds, BypassHolds, FailureHolds
  <2>6. PhasesInv' /\ WatchInv'
    BY <1>1, <2>2, <2>3 DEF PhasesInv, WatchInv
  <2>7. BoxInv' /\ RunningInv'
    BY <1>1, <2>2, <2>3 DEF BoxInv, RunningInv
  <2> QED
    BY <2>4, <2>5, <2>6, <2>7
<1>3. CASE s = "bypass"
  <2>1. UNCHANGED <<settled, reported, stop>>
    BY <1>3 DEF SckThrows
  <2>2. sck'["bypass"] = "over" /\ sck'["checked"] = sck["checked"] /\ sck["bypass"] = "starting"
    BY <1>1, <1>3
  <2>3. TypeOK'
    BY <1>1, <2>1 DEF SckThrows
  <2>4. OneHolds'
    BY <1>1, <2>1, <2>2 DEF OneHolds, TapHolds, CheckedHolds, BypassHolds, FailureHolds
  <2>5. PhasesInv' /\ WatchInv'
    BY <1>1, <2>1, <2>2 DEF PhasesInv, WatchInv
  <2>6. BoxInv' /\ RunningInv'
    BY <1>1, <2>1, <2>2 DEF BoxInv, RunningInv
  <2> QED
    BY <2>3, <2>4, <2>5, <2>6
<1> QED
  BY <1>2, <1>3

LEMMA SckSettlesKeeps ==
  ASSUME IInv, NEW s \in Start, SckSettles(s)
  PROVE  IInv'
<1> USE DEF IInv, TypeOK, Start, config, dogs, end
<1>1. /\ s = "checked" /\ sck[s] = "settle" /\ settled' = TRUE
      /\ sck'[s] = IF settled THEN "drop" ELSE "keep"
      /\ \A o \in Start \ {s} : sck'[o] = sck[o]
      /\ UNCHANGED <<acq, tapDone, setupDog, framesDog, running, box, stop, reported>>
  BY DEF SckSettles, PhasesInv
<1>2. TypeOK'
  BY <1>1 DEF SckSettles
<1>3. OneHolds'
  BY <1>1 DEF OneHolds, TapHolds, CheckedHolds, BypassHolds, FailureHolds
<1>4. PhasesInv'
  BY <1>1 DEF PhasesInv
<1>5. WatchInv'
  BY <1>1 DEF WatchInv
<1>6. BoxInv'
  BY <1>1 DEF BoxInv
<1>7. RunningInv'
  BY <1>1 DEF RunningInv
<1> QED
  BY <1>2, <1>3, <1>4, <1>5, <1>6, <1>7

LEMMA KeepSckKeeps ==
  ASSUME IInv, NEW s \in Start, KeepSck(s)
  PROVE  IInv'
<1> USE DEF IInv, TypeOK, Start, config, dogs, end
<1>1. /\ sck[s] = "keep" /\ sck'[s] = "over" /\ box' = s
      /\ \A o \in Start \ {s} : sck'[o] = sck[o]
      /\ UNCHANGED <<settled, acq, tapDone, setupDog, framesDog, running, stop, reported>>
  BY DEF KeepSck
<1>2. TypeOK'
  BY <1>1 DEF KeepSck
<1>3. OneHolds'
  BY <1>1 DEF OneHolds, TapHolds, CheckedHolds, BypassHolds, FailureHolds, PhasesInv,
     BoxInv, WatchInv
<1>4. PhasesInv'
  BY <1>1 DEF PhasesInv, OneHolds, TapHolds, CheckedHolds, BypassHolds
<1>5. WatchInv'
  BY <1>1 DEF WatchInv
<1>6. BoxInv'
  BY <1>1 DEF BoxInv, PhasesInv, WatchInv, OneHolds, TapHolds, CheckedHolds, BypassHolds
<1>7. RunningInv'
  BY <1>1 DEF RunningInv, PhasesInv, BoxInv, WatchInv, OneHolds, TapHolds, CheckedHolds,
     BypassHolds
<1> QED
  BY <1>2, <1>3, <1>4, <1>5, <1>6, <1>7

LEMMA DropSckKeeps ==
  ASSUME IInv, NEW s \in Start, DropSck(s)
  PROVE  IInv'
<1> USE DEF IInv, TypeOK, Start, config, dogs, end
<1>1. /\ s = "checked" /\ sck[s] = "drop" /\ sck'[s] = "over"
      /\ \A o \in Start \ {s} : sck'[o] = sck[o]
      /\ running' = running \ {s}
      /\ UNCHANGED <<settled, acq, tapDone, setupDog, framesDog, box, stop, reported>>
  BY DEF DropSck, PhasesInv
<1>2. TypeOK'
  BY <1>1 DEF DropSck
<1>3. OneHolds'
  BY <1>1 DEF OneHolds, TapHolds, CheckedHolds, BypassHolds, FailureHolds
<1>4. PhasesInv'
  BY <1>1 DEF PhasesInv
<1>5. WatchInv'
  BY <1>1 DEF WatchInv
<1>6. BoxInv'
  BY <1>1 DEF BoxInv
<1>7. RunningInv'
  BY <1>1 DEF RunningInv, BoxInv
<1> QED
  BY <1>2, <1>3, <1>4, <1>5, <1>6, <1>7

-----------------------------------------------------------------------------
(* Frames, and the stop task.                                              *)

LEMMA HearKeeps ==
  ASSUME IInv, Hear
  PROVE  IInv'
<1> USE DEF IInv, TypeOK, Start, config, dogs, end
<1>1. /\ UNCHANGED <<settled, acq, tapDone, setupDog, framesDog, sck, running, box, stop,
                  reported>>
  BY DEF Hear
<1>2. TypeOK'
  BY <1>1 DEF Hear
<1>3. OneHolds'
  BY <1>1 DEF OneHolds, TapHolds, CheckedHolds, BypassHolds, FailureHolds
<1>4. PhasesInv'
  BY <1>1 DEF PhasesInv
<1>5. WatchInv'
  BY <1>1 DEF WatchInv
<1>6. BoxInv'
  BY <1>1 DEF BoxInv
<1>7. RunningInv'
  BY <1>1 DEF RunningInv
<1> QED
  BY <1>2, <1>3, <1>4, <1>5, <1>6, <1>7

LEMMA StopRequestedKeeps ==
  ASSUME IInv, StopRequested
  PROVE  IInv'
<1> USE DEF IInv, TypeOK, Start, config, dogs, end
<1>1. /\ stop' = "requested"
      /\ UNCHANGED <<settled, acq, tapDone, setupDog, framesDog, sck, running, box,
                  reported>>
  BY DEF StopRequested
<1>2. TypeOK'
  BY <1>1 DEF StopRequested
<1>3. OneHolds'
  BY <1>1 DEF OneHolds, TapHolds, CheckedHolds, BypassHolds, FailureHolds
<1>4. PhasesInv'
  BY <1>1 DEF PhasesInv
<1>5. WatchInv'
  BY <1>1 DEF WatchInv
<1>6. BoxInv'
  BY <1>1 DEF BoxInv
<1>7. RunningInv'
  BY <1>1 DEF RunningInv
<1> QED
  BY <1>2, <1>3, <1>4, <1>5, <1>6, <1>7

LEMMA StopTakesKeeps ==
  ASSUME IInv, StopTakes
  PROVE  IInv'
<1> USE DEF IInv, TypeOK, Start, config, dogs, end
<1>1. /\ stop' = "draining" /\ running' \subseteq running
      /\ UNCHANGED <<settled, acq, tapDone, setupDog, framesDog, sck, box, reported>>
  BY DEF StopTakes
<1>2. TypeOK'
  BY <1>1 DEF StopTakes
<1>3. OneHolds'
  BY <1>1 DEF OneHolds, TapHolds, CheckedHolds, BypassHolds, FailureHolds
<1>4. PhasesInv'
  BY <1>1 DEF PhasesInv
<1>5. WatchInv'
  BY <1>1 DEF WatchInv
<1>6. BoxInv'
  BY <1>1 DEF BoxInv
<1>7. RunningInv'
  BY <1>1 DEF RunningInv
<1> QED
  BY <1>2, <1>3, <1>4, <1>5, <1>6, <1>7

LEMMA ExitKeeps ==
  ASSUME IInv, Exit
  PROVE  IInv'
<1> USE DEF IInv, TypeOK, Start, config, dogs, end
<1>1. /\ stop' = "exited"
      /\ UNCHANGED <<settled, acq, tapDone, setupDog, framesDog, sck, running, box,
                  reported>>
  BY DEF Exit
<1>2. TypeOK'
  BY <1>1 DEF Exit
<1>3. OneHolds'
  BY <1>1 DEF OneHolds, TapHolds, CheckedHolds, BypassHolds, FailureHolds
<1>4. PhasesInv'
  BY <1>1 DEF PhasesInv
<1>5. WatchInv'
  BY <1>1 DEF WatchInv
<1>6. BoxInv'
  BY <1>1 DEF BoxInv
<1>7. RunningInv'
  BY <1>1 DEF RunningInv
<1> QED
  BY <1>2, <1>3, <1>4, <1>5, <1>6, <1>7

-----------------------------------------------------------------------------
(* The invariant is one, and the types are part of it.                     *)

LEMMA StutterKeeps ==
  ASSUME IInv, UNCHANGED vars
  PROVE  IInv'
<1>1. UNCHANGED <<choice, mic, settled, tapDone, acq, setupDog, framesDog, sck,
                  running, heard, box, reported, stop>>
  BY DEF vars, config, dogs, end
<1> QED
  BY <1>1 DEF IInv, TypeOK, OneHolds, TapHolds, CheckedHolds, BypassHolds, FailureHolds,
     PhasesInv, WatchInv, BoxInv, RunningInv

LEMMA NextKeeps ==
  ASSUME IInv, [Next]_vars
  PROVE  IInv'
<1>1. CASE Acquire
  BY <1>1, SetUpLaneKeeps, StoreTapDoneKeeps, TapSettlesKeeps, KeepTapKeeps, DropTapKeeps,
     FallBackKeeps DEF Acquire
<1>2. CASE TranscriberFails \/ TapStarts
  BY <1>2, TranscriberFailsKeeps, TapStartsKeeps
<1>3. CASE Watch
  BY <1>3, SetupDogFiresKeeps, SetupDogSettlesKeeps, FramesDogFiresKeeps,
     FramesDogReplacesKeeps DEF Watch
<1>4. ASSUME NEW s \in Start, SckStarts(s) \/ SckThrows(s) \/ SckSteps(s)
      PROVE  IInv'
  BY <1>4, SckStartsKeeps, SckThrowsKeeps, SckSettlesKeeps, KeepSckKeeps, DropSckKeeps
     DEF SckSteps
<1>5. CASE Hear \/ StopRequested \/ StopStep
  BY <1>5, HearKeeps, StopRequestedKeeps, StopTakesKeeps, ExitKeeps DEF StopStep
<1>6. CASE UNCHANGED vars
  BY <1>6, StutterKeeps
<1> QED
  BY <1>1, <1>2, <1>3, <1>4, <1>5, <1>6 DEF Next

(* Every reachable state satisfies the inductive invariant: a settled lane *)
(* has one outcome, and every source that runs belongs to somebody.        *)
THEOREM Invariance == Spec => []IInv
<1>1. Init => IInv
  BY InitIInv
<1>2. IInv /\ [Next]_vars => IInv'
  BY NextKeeps
<1> QED
  BY <1>1, <1>2, PTL DEF Spec

(* Every variable keeps its type; in particular a lane is reported at most *)
(* once, whoever fails (settleSystemFailure).                              *)
THEOREM TypeCorrect == Spec => []TypeOK
<1>1. IInv => TypeOK
  BY DEF IInv
<1> QED
  BY <1>1, Invariance, PTL

-----------------------------------------------------------------------------
(* What the runs check.                                                    *)

LEMMA QuietRuns ==
  ASSUME IInv, Quiet
  PROVE  \A source \in running : source = box
<1>1. /\ sck["checked"] \in {"none", "over"} /\ sck["bypass"] \in {"none", "over"}
      /\ acq \in {"kept", "over"}
  BY DEF Quiet, Start
<1>2. "tap" \in running => box = "tap"
  BY <1>1 DEF IInv, RunningInv, WatchInv, BoxInv
<1>3. "checked" \in running => box = "checked"
  BY <1>1 DEF IInv, RunningInv
<1>4. "bypass" \in running => box = "bypass"
  BY <1>1 DEF IInv, RunningInv
<1> QED
  BY <1>2, <1>3, <1>4 DEF IInv, TypeOK, Start

(* However the tap, its watchdogs and the fallbacks race, a lane at rest   *)
(* has at most one source, and the stop task finds it in the box.          *)
THEOREM OneSourceInBoxAlways == Spec => []OneSourceInBox
<1>1. ASSUME IInv PROVE OneSourceInBox
  <2>1. SUFFICES ASSUME Quiet PROVE Cardinality(running) <= 1 /\ running \subseteq {box}
    BY DEF OneSourceInBox
  <2>2. running \subseteq {box}
    BY <1>1, <2>1, QuietRuns
  <2>3. IsFiniteSet({box}) /\ Cardinality({box}) = 1
    BY FS_Singleton
  <2>4. Cardinality(running) <= Cardinality({box})
    BY <2>2, <2>3, FS_Subset
  <2> QED
    BY <2>2, <2>3, <2>4
<1> QED
  BY <1>1, Invariance, PTL

(* A lane that was reported failed is not captured after all, one without  *)
(* a source was reported (or its bypass failed, which is only logged), and *)
(* a tap.start that outlasts its watchdog has lost the lane.               *)
THEOREM ReportIsTrueAlways == Spec => []ReportIsTrue
<1>1. ASSUME IInv PROVE ReportIsTrue
  <2>1. acq = "starting" /\ setupDog = "off" => settled
    BY <1>1 DEF IInv, PhasesInv
  <2>2. ASSUME Quiet, reported > 0 PROVE running = {}
    <3>1. reported # 0
      BY <1>1, <2>2 DEF IInv, TypeOK
    <3>2. acq # "kept" /\ box # "checked" /\ sck["bypass"] = "none"
      BY <1>1, <3>1 DEF IInv, OneHolds, TapHolds, CheckedHolds, BypassHolds, FailureHolds
    <3>3. box = "nothing"
      BY <1>1, <3>2 DEF IInv, TypeOK, Start, BoxInv
    <3>4. running \subseteq {"tap", "checked", "bypass"}
      BY <1>1 DEF IInv, TypeOK, Start
    <3> QED
      BY <1>1, <2>2, <3>3, <3>4, QuietRuns
  <2>3. ASSUME Quiet, running = {}, stop = "no", sck["bypass"] # "over"
        PROVE  reported > 0
    <3>1. /\ sck["checked"] \in {"none", "over"} /\ sck["bypass"] = "none"
          /\ acq \in {"kept", "over"} /\ framesDog = "off"
      BY <2>3 DEF Quiet, Start
    <3>2. acq = "over" /\ box # "checked"
      BY <1>1, <2>3, <3>1 DEF IInv, RunningInv
    <3>3. settled
      BY <1>1, <3>1, <3>2 DEF IInv, PhasesInv
    <3>4. reported # 0
      BY <1>1, <3>1, <3>2, <3>3
      DEF IInv, OneHolds, TapHolds, CheckedHolds, BypassHolds, FailureHolds
    <3> QED
      BY <1>1, <3>4 DEF IInv, TypeOK
  <2> QED
    BY <2>1, <2>2, <2>3 DEF ReportIsTrue
<1> QED
  BY <1>1, Invariance, PTL

(* Whoever sets the teardown box either finds it empty or has stopped what *)
(* it holds: a box that is replaced never loses a source that runs.        *)
THEOREM ReplacedIsStoppedAlways == Spec => ReplacedIsStopped
<1>1. ASSUME IInv, [Next]_vars, box' # box, box # "nothing"
      PROVE  box \notin running
  <2>1. CASE KeepTap
    <3>1. acq = "keep"
      BY <2>1 DEF KeepTap
    <3>2. box # "checked" /\ sck["bypass"] = "none"
      BY <1>1, <3>1 DEF IInv, OneHolds, TapHolds, CheckedHolds, BypassHolds
    <3> QED
      BY <1>1, <3>1, <3>2 DEF IInv, TypeOK, Start, BoxInv
  <2>2. ASSUME KeepSck("checked") PROVE box \notin running
    <3>1. sck["checked"] = "keep"
      BY <2>2 DEF KeepSck
    <3>2. acq # "kept" /\ sck["bypass"] = "none" /\ box # "checked"
      BY <1>1, <3>1
      DEF IInv, OneHolds, TapHolds, CheckedHolds, BypassHolds, BoxInv
    <3> QED
      BY <1>1, <3>2 DEF IInv, TypeOK, Start, BoxInv
  <2>3. ASSUME KeepSck("bypass") PROVE box \notin running
    <3>1. sck["bypass"] = "keep"
      BY <2>3 DEF KeepSck
    <3>2. box = "tap"
      BY <1>1, <3>1
      DEF IInv, TypeOK, Start, OneHolds, TapHolds, CheckedHolds, BypassHolds, BoxInv
    <3> QED
      BY <1>1, <3>1, <3>2 DEF IInv, BoxInv, WatchInv
  <2>4. KeepTap \/ \E s \in Start : KeepSck(s)
    BY <1>1 DEF Next, Acquire, Watch, SckSteps, StopStep, SetUpLane, TranscriberFails,
       TapStarts, StoreTapDone, TapSettles, DropTap, FallBack, SetupDogFires,
       SetupDogSettles, FramesDogFires, FramesDogReplaces, SckStarts, SckThrows,
       SckSettles, DropSck, Hear, StopRequested, StopTakes, Exit, vars
  <2> QED
    BY <2>1, <2>2, <2>3, <2>4 DEF Start
<1>2. IInv /\ [Next]_vars => [box' # box /\ box # "nothing" => box \notin running]_box
  BY <1>1
<1> QED
  BY <1>2, Invariance, PTL DEF Spec, ReplacedIsStopped

=============================================================================
