----------------------------- MODULE SourceState -----------------------------
(***************************************************************************)
(* The capture source of a meeting as EventStore::projection folds it from *)
(* the ledger (crates/standby-core/src/event_log.rs).  Pure operators: one *)
(* per event type that touches the source, and derive_source_status on     *)
(* top.  Loudness figures, drop counts and texts are left out: no status   *)
(* depends on them beyond "a level was reported" and "it was loud".  The   *)
(* meeting holds no demo segments.                                         *)
(***************************************************************************)
EXTENDS FiniteSets

Lane == {"mic", "system"}
Mode == {"mic", "system", "mic+system"}

(* CaptureMode::lanes *)
Lanes(mode) == {l \in Lane : mode \in {l, "mic+system"}}

LiveStatus == {"capturing", "transcribing", "no_mic_audio", "no_system_audio"}

(* SourceState: sets of lanes stand for the flags of the two LaneStates,   *)
(* heard for level_events > 0; failure tells only who reported it, the     *)
(* helper or the daemon on its behalf.                                     *)
Source == [mode : Mode \cup {"none"},
           started : BOOLEAN,
           stopped : BOOLEAN,
           failure : {"none", "reported", "crashed"},
           status : {"idle", "capturing", "transcribing", "failed", "stopped"},
           expected : SUBSET Lane,
           heard : SUBSET Lane,
           active : SUBSET Lane,
           failed : SUBSET Lane,
           partial : Lane \cup {"none"}]

NoSource == [mode |-> "none", started |-> FALSE, stopped |-> FALSE,
             failure |-> "none", status |-> "idle", expected |-> {},
             heard |-> {}, active |-> {}, failed |-> {}, partial |-> "none"]

(* A slip the properties must notice; the runs never use it: a stop that   *)
(* masks a failure.                                                        *)
SourceStoppedAlways(s) ==
  [s EXCEPT !.stopped = TRUE, !.partial = "none", !.status = "stopped"]

MeetingStarted(s, mode) == [s EXCEPT !.mode = mode]

(* A new run clears failure and stopped, not what the lanes remember. *)
SourceStarted(s, mode) ==
  [s EXCEPT !.mode = mode, !.expected = Lanes(mode), !.started = TRUE,
            !.stopped = FALSE, !.failure = "none", !.status = "capturing"]

LevelReported(s, lane, loud) ==
  [s EXCEPT !.expected = @ \cup {lane}, !.heard = @ \cup {lane},
            !.active = IF loud THEN @ \cup {lane} ELSE @]

Heard(status) == IF status = "capturing" THEN "transcribing" ELSE status

SegmentPartial(s, lane) ==
  [s EXCEPT !.partial = lane, !.status = Heard(@)]

(* A final clears the partial of its own lane only. *)
SegmentFinal(s, lane) ==
  [s EXCEPT !.partial = IF @ = lane THEN "none" ELSE @, !.status = Heard(@)]

(* The system lane alone failed: the microphone keeps capturing. *)
SystemLaneOnly(s, lane) == lane = "system" /\ "mic" \in s.expected

SourceFailed(s, who, lane) ==
  LET whole == ~SystemLaneOnly(s, lane) IN
  [s EXCEPT !.failed = @ \cup ({lane} \cap Lane),
            !.failure = who,
            !.status = IF whole THEN "failed" ELSE @,
            !.partial = IF whole THEN "none" ELSE @]

SourceStopped(s) ==
  [s EXCEPT !.stopped = TRUE, !.partial = "none",
            !.status = IF @ = "failed" THEN @ ELSE "stopped"]

(* derive_source_status: what the operator sees. *)
Silent(s, lane) == lane \in (s.expected \cap s.heard) \ s.active

Shown(s) ==
  IF ~s.started /\ s.failure = "none"
  THEN IF s.mode = "none" THEN s.status ELSE "waiting_permission"
  ELSE IF s.stopped \/ s.failure # "none" \/ s.status \notin LiveStatus
  THEN s.status
  ELSE CASE Silent(s, "system") /\ ~Silent(s, "mic") -> "no_system_audio"
         [] Silent(s, "mic") /\ ~Silent(s, "system") -> "no_mic_audio"
         [] OTHER -> s.status

(* The condition of reconcile_stopped_if_orphaned. *)
LooksLive(s) == s.started /\ ~s.stopped /\ s.status # "failed"

(* The condition of the check after a helper was reaped. *)
Unexplained(s) == s.started /\ ~s.stopped /\ s.failure = "none"

=============================================================================
