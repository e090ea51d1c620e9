-------------------------- MODULE CaptureSupervisor --------------------------
(***************************************************************************)
(* Start, supervision and stop of the capture helper for one meeting       *)
(* (crates/standbyd/src/capture.rs and reconcile_orphaned_captures).       *)
(*                                                                         *)
(* A session is one call of start_capture together with the reader task it *)
(* spawns.  The handler, the reader and stop_capture take the captures     *)
(* mutex and the store mutex separately, so each critical section is a     *)
(* step.  The helper process is the environment: what it writes, in which  *)
(* order, is taken from native/standby-capture-helper/main.swift.          *)
(***************************************************************************)
EXTENDS SourceState, Naturals, Sequences

CONSTANTS
  Session,     \* start requests of the meeting
  Stopper,     \* stop requests of the meeting
  NoSession,
  RunMode,     \* modes the operator may ask for
  Reports,     \* kinds of optional events a live helper writes
  PipeSize,    \* bound: events written and not read yet
  MaxStarting, \* bound: start requests handled at the same time
  MaxCrashes,  \* bound: daemon exits
  MaxFaults    \* bound: failed appends, reads and kills

ASSUME ConstantsAssumption ==
  /\ NoSession \notin Session
  /\ RunMode \subseteq Mode
  /\ Reports \subseteq {"quiet", "loud", "partial", "final"}
  /\ PipeSize \in Nat \ {0}
  /\ MaxStarting \in Nat
  /\ MaxCrashes \in Nat
  /\ MaxFaults \in Nat

VARIABLES
  source,   \* ledger: the folded capture source
  captures, \* the meeting's entry in AppState.captures, by session
  at,       \* where a session is
  mode,     \* the mode a session was asked for
  helper,   \* state of a session's helper process
  termed,   \* the helper was sent SIGTERM
  laneLost, \* the helper reported its system lane failed
  pipe,     \* the helper's stdout
  stop,     \* where a stop request is, and the session whose pid it read
  serving,
  crashes,
  faults

session == <<at, mode>>
process == <<helper, termed, laneLost, pipe>>
daemon == <<serving, crashes>>
vars == <<source, captures, session, process, stop, daemon, faults>>

Event == [kind : {"started", "quiet", "loud", "partial", "final", "failed",
                  "stopped"},
          lane : Lane \cup {"none"}]

Starting == {"spawn", "record", "insert"}
Supervised == {"read", "reap", "check", "remove"}
InProgress(s) == at[s] \in Starting \cup Supervised
Alive(s) == helper[s] \in {"booting", "acquiring", "live", "finishing"}

Init ==
  /\ source = NoSource
  /\ captures = NoSession
  /\ at = [s \in Session |-> "unused"]
  /\ mode \in [Session -> RunMode]
  /\ helper = [s \in Session |-> "none"]
  /\ termed = [s \in Session |-> FALSE]
  /\ laneLost = [s \in Session |-> FALSE]
  /\ pipe = [s \in Session |-> <<>>]
  /\ stop = [k \in Stopper |-> [step |-> "idle", pid |-> NoSession]]
  /\ serving = FALSE
  /\ crashes = 0
  /\ faults = 0

(* One more failure of the environment, while the bound allows it. *)
Fault ==
  /\ faults < MaxFaults
  /\ faults' = faults + 1

-----------------------------------------------------------------------------
(* Slips of the code that the properties below must tell from it; the runs *)
(* never use them.                                                         *)

(* start_capture does not look at the map, or never fills it. *)
StartUnchecked(s) ==
  /\ serving /\ at[s] = "unused"
  /\ Cardinality({t \in Session : at[t] \in Starting}) < MaxStarting
  /\ at' = [at EXCEPT ![s] = "spawn"]
  /\ UNCHANGED <<source, captures, mode, process, stop, daemon, faults>>

InsertNothing(s) ==
  /\ at[s] = "insert"
  /\ at' = [at EXCEPT ![s] = "read"]
  /\ UNCHANGED <<source, captures, mode, process, stop, daemon, faults>>

(* The reader waits for source.stopped. *)
ReadUntilStopped(s) ==
  /\ at[s] = "read" /\ pipe[s] = <<>> /\ source.stopped
  /\ at' = [at EXCEPT ![s] = "reap"]
  /\ UNCHANGED <<source, captures, mode, process, stop, daemon, faults>>

(* A crash is not recorded, or the entry not removed. *)
CheckNothing(s) ==
  /\ at[s] = "check"
  /\ at' = [at EXCEPT ![s] = "remove"]
  /\ UNCHANGED <<source, captures, mode, process, stop, daemon, faults>>

(* The helper hears SIGTERM only while it sets up. *)
StopsInSetUp(s) ==
  /\ helper[s] = "acquiring" /\ termed[s]
  /\ helper' = [helper EXCEPT ![s] = "exited"]
  /\ UNCHANGED <<source, captures, session, termed, laneLost, pipe, stop,
                 daemon, faults>>

-----------------------------------------------------------------------------
(* start_capture.                                                          *)

(* The mutex is dropped after the look-up.  With an entry the request      *)
(* returns at once and changes nothing.                                    *)
StartCheck(s) ==
  /\ serving
  /\ at[s] = "unused"
  /\ Cardinality({t \in Session : at[t] \in Starting}) < MaxStarting
  /\ captures = NoSession
  /\ at' = [at EXCEPT ![s] = "spawn"]
  /\ UNCHANGED <<source, captures, mode, process, stop, daemon, faults>>

(* A helper that cannot be spawned leaves no trace. *)
Spawn(s) ==
  /\ at[s] = "spawn"
  /\ \/ /\ helper' = [helper EXCEPT ![s] = "booting"]
        /\ at' = [at EXCEPT ![s] = "record"]
     \/ /\ at' = [at EXCEPT ![s] = "done"]
        /\ UNCHANGED helper
  /\ UNCHANGED <<source, captures, mode, termed, laneLost, pipe, stop, daemon,
                 faults>>

Record(s) ==
  /\ at[s] = "record"
  /\ source' = MeetingStarted(source, mode[s])
  /\ at' = [at EXCEPT ![s] = "insert"]
  /\ UNCHANGED <<captures, mode, process, stop, daemon, faults>>

(* The request fails; the helper runs on, its stdout has no reader. *)
RecordFails(s) ==
  /\ at[s] = "record"
  /\ Fault
  /\ at' = [at EXCEPT ![s] = "done"]
  /\ UNCHANGED <<source, captures, mode, process, stop, daemon>>

(* The pid replaces whatever the map holds; the reader task starts. *)
InsertPid(s) ==
  /\ at[s] = "insert"
  /\ captures' = s
  /\ at' = [at EXCEPT ![s] = "read"]
  /\ UNCHANGED <<source, mode, process, stop, daemon, faults>>

-----------------------------------------------------------------------------
(* The reader task.                                                        *)

(* LocalMacAudioSource::normalize appends the line's event. *)
Ingest(src, run, e) ==
  CASE e.kind = "started" -> SourceStarted(src, run)
    [] e.kind \in {"quiet", "loud"} -> LevelReported(src, e.lane, e.kind = "loud")
    [] e.kind = "partial" -> SegmentPartial(src, e.lane)
    [] e.kind = "final" -> SegmentFinal(src, e.lane)
    [] e.kind = "failed" -> SourceFailed(src, "reported", e.lane)
    [] e.kind = "stopped" -> SourceStopped(src)

(* An event whose append fails is dropped and the reader goes on. *)
ReadLine(s) ==
  /\ at[s] = "read"
  /\ pipe[s] # <<>>
  /\ pipe' = [pipe EXCEPT ![s] = Tail(@)]
  /\ \/ /\ source' = Ingest(source, mode[s], Head(pipe[s]))
        /\ UNCHANGED faults
     \/ Fault /\ UNCHANGED source
  /\ UNCHANGED <<captures, session, helper, termed, laneLost, stop, daemon>>

(* End of file, or an unreadable line: the latter leaves the helper alive. *)
ReadEnd(s) ==
  /\ at[s] = "read"
  /\ \/ /\ pipe[s] = <<>>
        /\ helper[s] = "exited"
        /\ UNCHANGED faults
     \/ pipe[s] # <<>> /\ Fault
  /\ at' = [at EXCEPT ![s] = "reap"]
  /\ UNCHANGED <<source, captures, mode, process, stop, daemon>>

(* Wait for the helper; after ten seconds kill it. *)
Reap(s) ==
  /\ at[s] = "reap"
  /\ helper' = [helper EXCEPT ![s] = "exited"]
  /\ at' = [at EXCEPT ![s] = "check"]
  /\ UNCHANGED <<source, captures, mode, termed, laneLost, pipe, stop, daemon,
                 faults>>

(* Projection and append are one critical section; errors are ignored. *)
CheckCrash(s) ==
  /\ at[s] = "check"
  /\ at' = [at EXCEPT ![s] = "remove"]
  /\ \/ /\ source' = IF Unexplained(source)
                     THEN SourceFailed(source, "crashed", "none")
                     ELSE source
        /\ UNCHANGED faults
     \/ Fault /\ UNCHANGED source
  /\ UNCHANGED <<captures, mode, process, stop, daemon>>

(* The entry is removed by meeting, whoever's pid it holds. *)
RemoveEntry(s) ==
  /\ at[s] = "remove"
  /\ captures' = NoSession
  /\ at' = [at EXCEPT ![s] = "done"]
  /\ UNCHANGED <<source, mode, process, stop, daemon, faults>>

-----------------------------------------------------------------------------
(* stop_capture.                                                           *)

StopRead(k) ==
  /\ serving
  /\ stop[k].step = "idle"
  /\ stop' = [stop EXCEPT ![k] = [step |-> "act", pid |-> captures]]
  /\ UNCHANGED <<source, captures, session, process, daemon, faults>>

StopDone(k) == stop' = [stop EXCEPT ![k].step = "done"]

(* SIGTERM: a helper that has not armed its handlers yet simply dies.      *)
StopKill(k) ==
  LET s == stop[k].pid IN
  /\ stop[k].step = "act"
  /\ s # NoSession
  /\ termed' = [termed EXCEPT ![s] = @ \/ Alive(s)]
  /\ helper' = [helper EXCEPT ![s] = IF @ = "booting" THEN "exited" ELSE @]
  /\ StopDone(k)
  /\ UNCHANGED <<source, captures, session, laneLost, pipe, daemon, faults>>

(* No pid in the map: the ledger is reconciled instead. *)
StopReconcile(k) ==
  /\ stop[k].step = "act"
  /\ stop[k].pid = NoSession
  /\ source' = IF LooksLive(source) THEN SourceStopped(source) ELSE source
  /\ StopDone(k)
  /\ UNCHANGED <<captures, session, process, daemon, faults>>

StopFails(k) ==
  /\ stop[k].step = "act"
  /\ Fault
  /\ StopDone(k)
  /\ UNCHANGED <<source, captures, session, process, daemon>>

-----------------------------------------------------------------------------
(* The helper process.                                                     *)

Write(s, kind, lane) ==
  /\ at[s] # "done"
  /\ Len(pipe[s]) < PipeSize
  /\ pipe' = [pipe EXCEPT ![s] = Append(@, [kind |-> kind, lane |-> lane])]
  /\ UNCHANGED <<source, captures, session, stop, daemon, faults>>

(* Signal handlers are armed before any long set-up. *)
HelperArms(s) ==
  /\ helper[s] = "booting"
  /\ helper' = [helper EXCEPT ![s] = "acquiring"]
  /\ UNCHANGED <<source, captures, session, termed, laneLost, pipe, stop,
                 daemon, faults>>

(* Permissions are granted and the microphone runs. *)
HelperStarts(s) ==
  /\ helper[s] = "acquiring"
  /\ helper' = [helper EXCEPT ![s] = "live"]
  /\ Write(s, "started", "none")
  /\ UNCHANGED <<termed, laneLost>>

(* The microphone cannot be had, or the system lane when it is alone: the  *)
(* helper reports it and exits.                                            *)
HelperFails(s) ==
  /\ \/ helper[s] = "acquiring" /\ mode[s] # "system" /\ Write(s, "failed", "mic")
     \/ /\ helper[s] \in {"acquiring", "live"}
        /\ mode[s] = "system"
        /\ Write(s, "failed", "system")
  /\ helper' = [helper EXCEPT ![s] = "exited"]
  /\ UNCHANGED <<termed, laneLost>>

(* The system lane fails next to the microphone: reported once, possibly   *)
(* before source.started, and the helper goes on.                          *)
HelperLosesSystemLane(s) ==
  /\ helper[s] \in {"acquiring", "live"}
  /\ mode[s] = "mic+system"
  /\ ~laneLost[s]
  /\ laneLost' = [laneLost EXCEPT ![s] = TRUE]
  /\ Write(s, "failed", "system")
  /\ UNCHANGED <<helper, termed>>

HelperReports(s) ==
  /\ helper[s] = "live"
  /\ \E kind \in Reports, lane \in Lanes(mode[s]) : Write(s, kind, lane)
  /\ UNCHANGED <<helper, termed, laneLost>>

(* The stop signal: consumers drain, transcribers finish, source.stopped.  *)
HelperStops(s) ==
  /\ helper[s] = "live"
  /\ termed[s]
  /\ helper' = [helper EXCEPT ![s] = "finishing"]
  /\ Write(s, "stopped", "none")
  /\ UNCHANGED <<termed, laneLost>>

(* Nobody waits for the tasks that write recognition results: one may still *)
(* be written before exit.                                                 *)
HelperExits(s) ==
  /\ helper[s] = "finishing"
  /\ helper' = [helper EXCEPT ![s] = "exited"]
  /\ \/ /\ UNCHANGED <<source, captures, session, pipe, stop, daemon, faults>>
     \/ \E kind \in Reports \cap {"partial", "final"}, lane \in Lanes(mode[s]) :
          Write(s, kind, lane)
  /\ UNCHANGED <<termed, laneLost>>

(* It crashes, or writes to a stdout that has no reader any more. *)
HelperDies(s) ==
  /\ Alive(s)
  /\ helper' = [helper EXCEPT ![s] = "exited"]
  /\ UNCHANGED <<source, captures, session, termed, laneLost, pipe, stop,
                 daemon, faults>>

-----------------------------------------------------------------------------
(* The daemon's life.                                                      *)

(* main: reconcile_orphaned_captures, then serve.  A meeting whose events  *)
(* cannot be read is skipped.                                              *)
Boot ==
  /\ ~serving
  /\ serving' = TRUE
  /\ \/ /\ source' = IF LooksLive(source) THEN SourceStopped(source) ELSE source
        /\ UNCHANGED faults
     \/ Fault /\ UNCHANGED source
  /\ UNCHANGED <<captures, session, process, stop, crashes>>

(* Handlers, readers and the map are gone; helpers lose their reader.      *)
Crash ==
  /\ serving
  /\ crashes < MaxCrashes
  /\ crashes' = crashes + 1
  /\ serving' = FALSE
  /\ captures' = NoSession
  /\ at' = [s \in Session |-> IF at[s] = "unused" THEN "unused" ELSE "done"]
  /\ pipe' = [s \in Session |-> <<>>]
  /\ stop' = [k \in Stopper |-> IF stop[k].step = "idle" THEN stop[k]
                                ELSE [step |-> "done", pid |-> NoSession]]
  /\ UNCHANGED <<source, mode, helper, termed, laneLost, faults>>

-----------------------------------------------------------------------------
StartStep(s) == Spawn(s) \/ Record(s) \/ InsertPid(s)
ReaderStep(s) ==
  ReadLine(s) \/ ReadEnd(s) \/ Reap(s) \/ CheckCrash(s) \/ RemoveEntry(s)
StopStep(k) == StopKill(k) \/ StopReconcile(k)
HelperShutdown(s) == HelperArms(s) \/ HelperStops(s) \/ HelperExits(s)

Next ==
  \/ \E s \in Session :
       \/ StartCheck(s) \/ StartStep(s) \/ RecordFails(s) \/ ReaderStep(s)
       \/ HelperShutdown(s) \/ HelperStarts(s) \/ HelperFails(s)
       \/ HelperLosesSystemLane(s) \/ HelperReports(s) \/ HelperDies(s)
  \/ \E k \in Stopper : StopRead(k) \/ StopStep(k) \/ StopFails(k)
  \/ Boot
  \/ Crash

Spec == Init /\ [][Next]_vars

(* Handlers and tasks of a live daemon run.  A capturing helper reacts to  *)
(* SIGTERM however busy its lanes are: its stop task and its writer are    *)
(* tasks of their own, hence strong fairness against a pipe that is full   *)
(* now and then.  Nothing makes a helper acquire, fail or exit by itself.  *)
Fairness ==
  /\ WF_vars(Boot)
  /\ \A s \in Session : /\ WF_vars(StartStep(s))
                        /\ WF_vars(ReaderStep(s))
                        /\ SF_vars(HelperShutdown(s))
  /\ \A k \in Stopper : WF_vars(StopStep(k))

FairSpec == Spec /\ Fairness

-----------------------------------------------------------------------------
(* Properties.                                                             *)

TypeOK ==
  /\ source \in Source
  /\ captures \in Session \cup {NoSession}
  /\ at \in [Session -> {"unused", "done"} \cup Starting \cup Supervised]
  /\ mode \in [Session -> RunMode]
  /\ helper \in [Session -> {"none", "booting", "acquiring", "live", "finishing",
                             "exited"}]
  /\ termed \in [Session -> BOOLEAN]
  /\ laneLost \in [Session -> BOOLEAN]
  /\ pipe \in [Session -> Seq(Event)]
  /\ stop \in [Stopper -> [step : {"idle", "act", "done"},
                           pid : Session \cup {NoSession}]]
  /\ serving \in BOOLEAN
  /\ crashes \in 0..MaxCrashes
  /\ faults \in 0..MaxFaults

(* start_capture: a second start while one is running is a no-op.  The     *)
(* meeting never has two captures under way.                               *)
OneCapture ==
  \A s, t \in Session :
    (/\ InProgress(s) /\ helper[s] # "none"
     /\ InProgress(t) /\ helper[t] # "none") => s = t

(* While its reader runs, the helper's pid is the one a stop request finds *)
(* (stop_capture).                                                         *)
CaptureIsStoppable == \A s \in Session : at[s] \in Supervised => captures = s

(* Once no capture is in progress, the ledger accounts for the end of the  *)
(* last one: stopped, failed, or crashed.  The screen shows a capture that *)
(* is over only when its helper had reported the system lane as failed and *)
(* then crashed: the check in capture.rs takes that failure for the end.   *)
EndIsExplained ==
  (serving /\ faults = 0 /\ \A s \in Session : ~InProgress(s)) =>
    /\ ~Unexplained(source)
    /\ Shown(source) \in LiveStatus =>
         "system" \in source.failed /\ \E s \in Session : laneLost[s]

(* A whole-source failure is never masked as a clean stop: only the start  *)
(* of a run takes a meeting out of Failed (reconcile_stopped_if_orphaned). *)
FailureIsNotMasked ==
  [][source.status = "failed" /\ source'.status # "failed" =>
       ~source'.stopped /\ source'.status = "capturing"]_source

(* A helper that ended is reaped and its entry released, however it ended. *)
EndedCaptureIsReleased ==
  \A s \in Session : helper[s] = "exited" ~> at[s] = "done"

(* SIGTERM ends a capture that reached source.started. *)
TermEndsCapture ==
  \A s \in Session : (helper[s] = "live" /\ termed[s]) ~> at[s] = "done"

-----------------------------------------------------------------------------
(* The inductive invariants behind the properties above, in parts.  The    *)
(* first ones hold however start requests overlap.                         *)

InFlight == {"capturing", "transcribing"}

(* What every sequence of ledger rows folds to. *)
WellFolded(src) ==
  /\ src.status = "failed" => src.failure # "none"
  /\ src.status \in InFlight => src.started /\ ~src.stopped

(* What a helper has written and its reader has not read.                  *)
Unread(s) == {pipe[s][i] : i \in 1..Len(pipe[s])}

PipeInv ==
  \A s \in Session :
    /\ at[s] \in {"unused", "spawn"} => helper[s] = "none"
    /\ helper[s] \in {"none", "booting", "acquiring"} =>
         \A e \in Unread(s) : e.kind # "started"
    /\ \A i, j \in 1..Len(pipe[s]) :
         pipe[s][i].kind = "started" /\ pipe[s][j].kind = "started" => i = j
    /\ \A e \in Unread(s) :
         /\ e.kind \in {"quiet", "loud", "partial", "final"} =>
              e.lane \in Lanes(mode[s])
         /\ e.kind = "failed" => \/ e.lane = "mic"
                                 \/ e.lane = "system" /\ laneLost[s]
                                 \/ e.lane = "system" /\ mode[s] = "system"

(* A run nobody accounted for yet still has its reader, which will. *)
EndInv ==
  (serving /\ faults = 0 /\ Unexplained(source)) =>
    \E s \in Session : at[s] \in {"read", "reap", "check"}

IInv == TypeOK /\ PipeInv /\ WellFolded(source) /\ EndInv

(* Start requests come one at a time: the operator's screen disables its   *)
(* controls while one is under way.  The daemon does not see to it, and    *)
(* OneCapture is violated without it.                                      *)
StartsDoNotOverlap ==
  \A s, t \in Session : at[s] \in Starting /\ at[t] \in Starting => s = t

OneInProgress ==
  \A s, t \in Session : InProgress(s) /\ InProgress(t) => s = t

(* The exception of EndIsExplained: a lost system lane. *)
LaneWasLost == "system" \in source.failed /\ \E s \in Session : laneLost[s]

(* The source shows the run that this session's helper started. *)
Begun(s) ==
  /\ source.expected = Lanes(mode[s])
  /\ helper[s] \notin {"none", "booting", "acquiring"}
  /\ \A e \in Unread(s) : e.kind # "started"

(* A live status next to a failure is a lost lane; and a new capture finds *)
(* no live status but such a one, until its own helper has started.        *)
LaneInv ==
  faults = 0 =>
    /\ source.status \in InFlight /\ source.failure # "none" => LaneWasLost
    /\ \A s \in Session :
         at[s] \in Starting \cup {"read"} /\ source.status \in InFlight =>
           LaneWasLost \/ (at[s] = "read" /\ Begun(s))

DownInv == ~serving => \A s \in Session : ~InProgress(s)

OneInv == DownInv /\ OneInProgress /\ CaptureIsStoppable /\ LaneInv

=============================================================================
