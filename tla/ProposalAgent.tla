----------------------------- MODULE ProposalAgent -----------------------------
(***************************************************************************)
(* When the proposal agent runs for one meeting, and what it holds while   *)
(* the model thinks: the automatic run a reader task spawns after a        *)
(* finalized segment (crates/standbyd/src/capture.rs), the operator's      *)
(* request (create_proposal_request in main.rs) and the decision both use  *)
(* (crates/standby-core/src/engine.rs).                                    *)
(*                                                                         *)
(* A meeting may be captured again: each capture has a reader, and an      *)
(* in-flight flag, of its own.  What the model answers, hence what a       *)
(* decision appends, is not modelled; when it is appended is.              *)
(***************************************************************************)
EXTENDS Integers, FiniteSets

CONSTANTS
  Reader,      \* captures of the meeting, one after the other
  Asker,       \* Ask Standby requests
  Nobody,      \* the store mutex is free
  Debounce,    \* STANDBY_PROPOSAL_DEBOUNCE_SEGMENTS
  Attempts,    \* HTTP calls a run may make: one to OpenAI, two to OpenRouter
  MaxSegments  \* bound: finalized segments

ASSUME ConstantsAssumption ==
  /\ IsFiniteSet(Reader)
  /\ Nobody \notin Asker
  /\ {Debounce, Attempts} \subseteq Nat \ {0}
  /\ MaxSegments \in Nat

VARIABLES
  segments, \* ledger: number of finalized segments
  calls,    \* automatic model calls made on a transcript of that length
  lock,     \* the request that holds the store mutex across steps
  reader,   \* where a reader task is
  flag,     \* its AtomicBool proposing
  task,     \* where the automatic run it spawned is
  seen,     \* transcript length in that run's snapshot
  tried,    \* model calls of that run
  ask       \* where a request is

readers == <<reader, flag>>
automatic == <<task, seen, tried>>
vars == <<segments, calls, lock, readers, automatic, ask>>

Init ==
  /\ segments = 0
  /\ calls = [n \in 0..MaxSegments |-> 0]
  /\ lock = Nobody
  /\ reader = [r \in Reader |-> "off"]
  /\ flag = [r \in Reader |-> FALSE]
  /\ task = [r \in Reader |-> "none"]
  /\ seen = [r \in Reader |-> 0] /\ tried = [r \in Reader |-> 0]
  /\ ask = [k \in Asker |-> "idle"]

-----------------------------------------------------------------------------
(* Slips the properties must notice; the runs never use them: a run at     *)
(* every segment from the second on, a line that is no final but triggers, *)
(* and a request that keeps the mutex.                                     *)
ShouldRunAlways(n) == n >= 2

IngestAnything(r) ==
  /\ reader[r] = "ingest"
  /\ lock = Nobody
  /\ \E new \in {0, 1} : segments' = segments + new
  /\ reader' = [reader EXCEPT ![r] = "trigger"]
  /\ UNCHANGED <<calls, lock, flag, automatic, ask>>

AnswerAskForgetsLock(k) ==
  /\ ask[k] = "model"
  /\ ask' = [ask EXCEPT ![k] = "done"]
  /\ UNCHANGED <<segments, calls, lock, readers, automatic>>

-----------------------------------------------------------------------------
(* should_run_automatic_reasoner: at two segments, then every Debounce.    *)
ShouldRun(n) == n >= 2 /\ (n - 2) % Debounce = 0

-----------------------------------------------------------------------------
(* The reader task.                                                        *)

(* A capture starts when no other one runs. *)
StartReader(r) ==
  /\ reader[r] = "off"
  /\ \A q \in Reader : reader[q] \in {"off", "ended"}
  /\ reader' = [reader EXCEPT ![r] = "on"]
  /\ UNCHANGED <<segments, calls, lock, flag, automatic, ask>>

(* The helper wrote a final. *)
ReadFinal(r) ==
  /\ reader[r] = "on"
  /\ segments < MaxSegments
  /\ reader' = [reader EXCEPT ![r] = "ingest"]
  /\ UNCHANGED <<segments, calls, lock, flag, automatic, ask>>

EndReader(r) ==
  /\ reader[r] = "on"
  /\ reader' = [reader EXCEPT ![r] = "ended"]
  /\ UNCHANGED <<segments, calls, lock, flag, automatic, ask>>

(* normalize appends the segment under the mutex and releases it. *)
Ingest(r) ==
  /\ reader[r] = "ingest"
  /\ lock = Nobody
  /\ segments' = segments + 1
  /\ reader' = [reader EXCEPT ![r] = "trigger"]
  /\ UNCHANGED <<calls, lock, flag, automatic, ask>>

(* A finalized segment spawns a run, unless this reader has one in flight. *)
Trigger(r) ==
  /\ reader[r] = "trigger"
  /\ reader' = [reader EXCEPT ![r] = "on"]
  /\ flag' = [flag EXCEPT ![r] = TRUE]
  /\ task' = [task EXCEPT ![r] = IF flag[r] THEN @ ELSE "snapshot"]
  /\ UNCHANGED <<segments, calls, lock, seen, tried, ask>>

-----------------------------------------------------------------------------
(* run_automatic_proposal, in a blocking task of its own.                  *)

Snapshot(r) ==
  /\ task[r] = "snapshot"
  /\ lock = Nobody
  /\ seen' = [seen EXCEPT ![r] = segments]
  /\ task' = [task EXCEPT ![r] = "decide"]
  /\ UNCHANGED <<segments, calls, lock, readers, tried, ask>>

(* proposal_decision: off cadence the decision is empty without a model    *)
(* call; record_proposal_decision then takes the mutex for nothing.        *)
Decide(r) ==
  /\ task[r] = "decide"
  /\ \/ /\ ShouldRun(seen[r])
        /\ calls' = [calls EXCEPT ![seen[r]] = @ + 1]
        /\ tried' = [tried EXCEPT ![r] = 1]
        /\ task' = [task EXCEPT ![r] = "model"]
     \/ /\ ~ShouldRun(seen[r])
        /\ task' = [task EXCEPT ![r] = "record"]
        /\ UNCHANGED <<calls, tried>>
  /\ UNCHANGED <<segments, lock, readers, seen, ask>>

(* send_openrouter_response calls once more after a failure, a timeout or  *)
(* an answer that does not parse.                                          *)
ModelRetries(r) ==
  /\ task[r] = "model" /\ tried[r] < Attempts
  /\ calls' = [calls EXCEPT ![seen[r]] = @ + 1]
  /\ tried' = [tried EXCEPT ![r] = @ + 1]
  /\ UNCHANGED <<segments, lock, readers, task, seen, ask>>

(* The provider answers, or the last call failed. *)
ModelAnswers(r) ==
  /\ task[r] = "model"
  /\ task' = [task EXCEPT ![r] = "record"]
  /\ UNCHANGED <<segments, calls, lock, readers, seen, tried, ask>>

RecordDecision(r) ==
  /\ task[r] = "record"
  /\ lock = Nobody
  /\ task' = [task EXCEPT ![r] = "release"]
  /\ UNCHANGED <<segments, calls, lock, readers, seen, tried, ask>>

Release(r) ==
  /\ task[r] = "release"
  /\ task' = [task EXCEPT ![r] = "none"]
  /\ flag' = [flag EXCEPT ![r] = FALSE]
  /\ UNCHANGED <<segments, calls, lock, reader, seen, tried, ask>>

-----------------------------------------------------------------------------
(* create_proposal_request: the mutex is held from the projection to the   *)
(* answer, the model call included.                                        *)

Ask(k) ==
  /\ ask[k] = "idle"
  /\ lock = Nobody
  /\ lock' = k
  /\ ask' = [ask EXCEPT ![k] = "model"]
  /\ UNCHANGED <<segments, calls, readers, automatic>>

AnswerAsk(k) ==
  /\ ask[k] = "model"
  /\ ask' = [ask EXCEPT ![k] = "done"]
  /\ lock' = Nobody
  /\ UNCHANGED <<segments, calls, readers, automatic>>

-----------------------------------------------------------------------------
ReaderStep(r) == Ingest(r) \/ Trigger(r)
TaskStep(r) ==
  Snapshot(r) \/ Decide(r) \/ ModelRetries(r) \/ ModelAnswers(r) \/ RecordDecision(r) \/ Release(r)

Next ==
  \/ \E r \in Reader : \/ StartReader(r) \/ ReadFinal(r) \/ EndReader(r)
                       \/ ReaderStep(r) \/ TaskStep(r)
  \/ \E k \in Asker : Ask(k) \/ AnswerAsk(k)

Spec == Init /\ [][Next]_vars

(* Tasks run, and model calls end: every HTTP call has a timeout.  Weak    *)
(* fairness is enough for the mutex, since the requests are finitely many. *)
Fairness ==
  /\ \A r \in Reader : WF_vars(ReaderStep(r)) /\ WF_vars(TaskStep(r))
  /\ \A k \in Asker : WF_vars(AnswerAsk(k))

FairSpec == Spec /\ Fairness

-----------------------------------------------------------------------------
(* Properties.                                                             *)

TypeOK ==
  /\ segments \in 0..MaxSegments
  /\ calls \in [0..MaxSegments -> Nat]
  /\ lock \in Asker \cup {Nobody}
  /\ reader \in [Reader -> {"off", "on", "ingest", "trigger", "ended"}]
  /\ flag \in [Reader -> BOOLEAN]
  /\ task \in [Reader -> {"none", "snapshot", "decide", "model", "record", "release"}]
  /\ seen \in [Reader -> 0..MaxSegments]
  /\ tried \in [Reader -> 0..Attempts]
  /\ ask \in [Asker -> {"idle", "model", "done"}]

(* engine.rs: debouncing bounds model spend.  The transcript lengths the   *)
(* automatic reasoner is called at are Debounce apart, from two segments   *)
(* on, however late a run takes its snapshot.                              *)
SpendIsBounded ==
  Cardinality({n \in 0..MaxSegments : calls[n] > 0}) * Debounce
    <= (IF segments < 2 THEN 0 ELSE segments - 2 + Debounce)

(* A run is repeated at a length at most once per capture, with its        *)
(* retries: only the trigger of the last segment a run already saw can     *)
(* still come, and the run an earlier capture left behind.  Nothing but a  *)
(* final triggers.                                                         *)
RepeatsAreBounded ==
  \A n \in 0..MaxSegments :
    calls[n] <= Attempts * (1 + Cardinality({r \in Reader : reader[r] # "off"}))

(* The flag is cleared after every run, or automatic proposals would stop  *)
(* for the rest of the capture; a request that holds the mutex delays it,  *)
(* and lets it go.                                                         *)
FlagIsCleared == \A r \in Reader : flag[r] ~> ~flag[r]

-----------------------------------------------------------------------------
(* The inductive invariants: what the tasks of the meeting are at, and     *)
(* what they may still spend.                                              *)

(* One capture at a time listens. *)
OneListens ==
  \A q, r \in Reader : {reader[q], reader[r]} \subseteq {"on", "ingest", "trigger"} => q = r

(* A reader's segment fits; its run has the flag, has seen what the ledger *)
(* holds, and calls the model only on cadence.                             *)
TaskIsSound(r) ==
  /\ reader[r] = "ingest" => segments < MaxSegments
  /\ flag[r] <=> task[r] # "none"
  /\ task[r] # "none" => reader[r] # "off"
  /\ seen[r] <= segments
  /\ task[r] = "model" => ShouldRun(seen[r])

CallsAreOnCadence ==
  \A n \in 0..MaxSegments : calls[n] > 0 => n <= segments /\ ShouldRun(n)

TaskInv ==
  OneListens /\ (\A r \in Reader : TaskIsSound(r)) /\ CallsAreOnCadence

Started == {r \in Reader : reader[r] # "off"}

(* The i-th call that r's present run, or the run its reader is about to   *)
(* spawn, may still make on a transcript of length n.                      *)
Run(r) == <<r, "run">>
Trig(r) == <<r, "trigger">>
MayCall(r, n, i) ==
  \/ task[r] = "snapshot" /\ segments = n
  \/ task[r] = "decide" /\ seen[r] = n
  \/ task[r] = "model" /\ seen[r] = n /\ i > tried[r]
MayTrigger(r, n) == reader[r] = "trigger" /\ segments = n

Calls == (Reader \X {"run", "trigger"}) \X (1..Attempts)
ToCall(n) ==
  {c \in Calls : \E r \in Reader : \/ c[1] = Run(r) /\ MayCall(r, n, c[2])
                                   \/ c[1] = Trig(r) /\ MayTrigger(r, n)}

(* What was spent on a length, with what may still be, is within bounds.   *)
SpendInv ==
  \A n \in 0..MaxSegments :
    calls[n] + Cardinality(ToCall(n)) <= Attempts * (1 + Cardinality(Started))

=============================================================================
