# Standby in TLA+

Standby is a meeting companion: a daemon (`standbyd`) supervises a macOS capture
helper, folds what the helper writes into an append-only event ledger, lets a
model propose work while the meeting goes on, and, once the operator approves a
proposal, runs a worker process on it and keeps its artifact. This directory
models the parts of it where the order of steps matters, model-checks them on
small instances with TLC, and proves with TLAPS, for every instance, the safety
properties that TLC checks on the small ones.

Paths below are relative to the repository root. `PROJECT.json` holds the same
information for tools: the source lines each definition stands for, the runs, the
mutants, the findings, the hazards and the theorems.

## 1. Inventory

### Components, state and operations

| component | where | state | operations |
|---|---|---|---|
| Event ledger | `crates/standby-core/src/event_log.rs` | one SQLite table of events, append only | `append` (one autocommit per event), `projection` (the fold every screen shows), `recoverable_jobs`, `find_latest_proposal`, `meeting_summaries`, `reconcile_*` |
| Approval and job queue | `crates/standbyd/src/main.rs`, `worker.rs` | the ledger; an unbounded channel of job specs | `approve`, `ignore`, `approve_proposal` |
| Worker loop and runner | `spawn_worker_loop`, `worker.rs` | the job in hand, its child process | `run_job`: started, sandboxed child, poll with deadline, artifact, completed or failed |
| Worker recovery | `recover_queued_jobs`, `terminate_stale_worker_for_job` | the list of unfinished jobs of the ledger | end a stale worker, put the job back to Queued, send it again |
| Capture supervisor | `crates/standbyd/src/capture.rs` | `captures`: meeting to helper pid | `start_capture` and the reader task it spawns, `stop_capture` |
| Source projection | `projection`, `derive_source_status` | `SourceState` | one arm per event type; the derived status |
| Source normalisation | `transcript_source.rs` | none | one helper line to one or more ledger events |
| Capture helper, as a process | `native/standby-capture-helper/main.swift` | phase of its life, stop signal | set-up, reports, `failAndExit`, finalize on SIGTERM |
| Helper lane | `PCMBufferPool`, `CaptureLane` in `main.swift` | a ring of buffers, a bounded stream, the drop counter | `copyInto`, `submit`, `runConsumer`, `finishInput` |
| System source of the helper | `runCapture`, `SystemAudioTap`, `TeardownBox` in `main.swift` | two atomics, two watchdogs, the tear-down box | acquisition thread, ScreenCaptureKit start and fall-back, stop task |
| Proposal agent | `engine.rs`, `proposal_context.rs` | a flag per reader task | automatic run per finalized segment, debounced; record the decision |
| Ask Standby | `create_proposal_request`, `proposal_request.rs` | none | a request of the operator that runs the agent |
| Diarization, demo and seeding | `transcript_source.rs`, `start_demo`, `seed_capture` | none | turns of a provider to segments with generic speakers; the demo's segments |
| Model clients | `engine.rs` | none | one call, or two with OpenRouter, and what is kept of the answer |
| Console | `ui/src/main.tsx` | selected meeting, projection on screen, calls under way | poll every 2 s, select, create, the controls of the selected meeting, the cards on screen |
| Authorisation, sandbox profile, scripts | | none beyond the above | see "Not modelled" |

### How they interact

All HTTP handlers, the reader tasks and the automatic proposal runs share one
ledger connection under a mutex (`AppState.store`); a second mutex guards
`captures`. The two are never held together in `capture.rs`, so each critical
section is a step of its own. The worker loop is a thread that owns a second
connection: its appends interleave with everything. Handlers hand jobs to it
through an unbounded channel, after they dropped the store mutex. Worker
processes and helper processes belong to the operating system; workers outlive
the daemon, a helper's stdout does not. At boot the daemon reconciles captures,
starts the worker loop, walks the list of unfinished jobs and only then serves.

### What is hard

* Every append commits alone, so the daemon may exit between any two of them.
* Recovery runs while the worker loop already drains the channel.
* `start_capture` and `stop_capture` look at the map, let go, and act later.
* A source is started, fails in part or as a whole, stops, is reconciled and
  starts again: the fold and the crash check must be right for each order.
* The helper can die, be told to stop or lose a lane in every phase of its set-up.
* In the helper a tap, two watchdogs, two ScreenCaptureKit paths and the stop task
  race for one lane, and two of the calls they make may never return.
* A realtime callback writes buffers that a slower consumer still has to read.
* Rows of an earlier version may not decode, and each fold over the ledger treats
  them in its own way.
* The proposal flag is read after the segment it is about was appended, and the
  run reads the transcript later still.
* A request keeps the store mutex while a provider thinks.
* A model may cite anything; a card must cite what its run or its request was shown.
* Lines of a capture, diarized turns, the demo and requests meet in one transcript.
* On the screen every answer moves the selection or the cards, whatever the operator
  did after the call was sent.

`PROJECT.json` "hazards" lists each of these at its line with the properties that
watch it.

### What makes each component correct

* Jobs: one worker per job at a time; no worker unsupervised; one start per life
  of the daemon; an end is final and a completed job has an artifact; an approval
  gives one job; an unfinished job is where the projection says; every requested
  job ends.
* Captures: at most one per meeting, reachable by a stop request; the map
  empties; the end of a capture is explained in the ledger and a failure is not
  turned into a clean stop; SIGTERM ends it.
* Proposals: the number of model calls is bounded by the transcript; a run's flag
  is cleared.
* Evidence: a card cites finalized segments that were there before it, the card of a
  request only those the request recorded; a request has one answer; no utterance is
  shown in flight once its capture ended; the demo is seeded once; diarized turns share
  a speaker exactly when their labels stand for the same voice.
* Ledger: recovery, the screen, the catalogue and approvals read the same jobs and proposals from
  the same rows; a row that does not decode neither reruns an ended job, nor approves a
  proposal twice, nor keeps the boot sweep from the other meetings.
* Helper lane: what waits for the consumer is not overwritten; every buffer is
  transcribed or counted as lost; the end of input ends the consumer.
* System source: one source at most stays, where the stop task finds it; a failure
  that was reported is true; nothing that hangs keeps the helper from stopping.
* Console: a selection that no call under way could move stays; the screen ends up with
  the newest projection of the selected meeting; controls go to that meeting (refuted).

## 2. Modules

| module | what it is |
|---|---|
| `JobBoard` | abstract specification: what the operator is promised about jobs |
| `AgentJobs` | approval, queue, worker loop and recovery; implements `JobBoard` |
| `AgentJobs_proofs` | the theorems about `AgentJobs` |
| `SourceState` | the fold of source events and the derived status, as pure operators |
| `CaptureSupervisor` | sessions of `start_capture`, `stop_capture`, the helper as environment; uses `SourceState` |
| `ProposalAgent` | readers, automatic runs and requests around the store mutex |
| `Ledger` | the log of rows and the folds the daemon acts on; uses `SourceState` |
| `Evidence` | one meeting's rows: what was heard, asked and proposed, and what cards may cite |
| `Console` | the operator's screen, its calls and the order of their answers |
| `HelperLane` | buffer pool, stream and consumer of one lane of the helper |
| `HelperLane_proofs` | the theorems about `HelperLane` |
| `SystemSource` | how the helper acquires system audio, its watchdogs and the stop task |
| `CaptureSupervisor_proofs`, `ProposalAgent_proofs`, `Ledger_proofs`, `Evidence_proofs`, `Console_proofs`, `SystemSource_proofs` | the theorems about the module each is named after |
| `MCAgentJobs`, `MCCaptureSupervisor`, `MCProposalAgent`, `MCLedger`, `MCEvidence`, `MCConsole`, `MCHelperLane`, `MCSystemSource` | what TLC instantiates |

Each specification module has a section of *slips*: variants of its actions with a
bug the code could plausibly have had. No run uses them; they document what the
properties can tell apart, and `PROJECT.json` "mutants" names, for every property
of a passing run, the slip that breaks it.

### AgentJobs

The ledger appears as what its queries return: the latest status of a proposal and
of a job, and counts of the events that properties are about. `stage` is the
daemon's life: down, recovering, serving. `lock`, `pc` and `holds` are the handlers
of `approve`; `queue` and `rxOpen` the channel; `toRecover` and `recStep` the loop
of `recover_queued_jobs`; `wl`, `cur` and `child` the worker loop; `procs` the worker
processes, the only volatile state that survives `Crash`.

* `approve` is three steps: `Approve` takes the mutex, reads the proposal and
  appends `proposal.approved`; `RequestJob` appends `agent_job.requested` and drops the
  mutex; `SendJob` sends, or appends a failure when the receiver is gone. When the
  projection before it, or that failure's append, fails (`SendJobFails`), the job waits in
  the ledger for a restart. `Ignore` is one step.
* `run_job` is one step per append, spawn or poll: `StartJob`, `SetUp`, `Spawn`,
  `PollExited`/`PollTimeout`/`PollFails`, `AppendArtifact`, `AppendCompleted` or
  `FinishFailed`; an error of any of them goes to `RunJobFails` and the loop's rescue
  `EmitJobFailed`. `LoopDies` is a panic of the loop's thread.
* `recover_queued_jobs` visits its list in some order, because ids order jobs in the
  model and events do in the code: `TerminateStale`, `NoteRecovered`, `SendRecovered`.
* `Fault` bounds what the environment may do wrong: a failed append, read, poll or kill.

One meeting stands for all: jobs and proposals of different meetings meet in the
same channel, mutex and loop.

### SourceState and CaptureSupervisor

`SourceState` has one operator per arm of `projection` that touches the source, the
derived status `Shown`, and the two conditions other code evaluates on it
(`LooksLive` for reconciliation, `Unexplained` for the crash check). A *session* of
`CaptureSupervisor` is one call of `start_capture` with the reader it spawns:
`StartCheck`, `Spawn`, `Record`, `InsertPid`, then `ReadLine`, `ReadEnd`, `Reap`,
`CheckCrash`, `RemoveEntry`. A stop request is `StopRead` and one of `StopKill`,
`StopReconcile`, `StopFails`. The helper's steps come from `main.swift`: it boots with the
default action for SIGTERM, arms its handler, acquires its lanes, may lose the
system lane before or after `source.started`, may fail and exit, finalizes on SIGTERM,
and may die at any point. `Crash` closes the pipes; helpers write into nothing and die.

### ProposalAgent

Per reader task: where it is, its flag, and the blocking task it spawned with the
transcript length it saw. `calls[n]` counts automatic model calls made on a transcript
of `n` segments; `ModelRetries` is OpenRouter's second call. `Ask` to `AnswerAsk` is `create_proposal_request`, with the mutex held
across both. What a decision or a request appends is read by no other step of the
model and left out, and is the subject of `Evidence`; that appending needs the mutex
is not left out. A run may be repeated: the flag is read after the segment was appended and
the run reads the transcript later, so two runs can see the same length, and each reader
has a flag of its own, so after a quick restart of the capture two runs can be in flight.
`engine.rs:18` ("at most once every N newly finalized segments"), `capture.rs:192` ("at most one
in-flight proposal per meeting") and `README.md:36-37` of the repository ("at most one new card
per cadence") say less than that; `RepeatsAreBounded` states the bound that the code keeps.

### Ledger

`log` is the table: a row has a type, a meeting, the id and status of its payload, and
whether the payload still decodes. The folds are `projection` (`ProjectedJobs`,
`ProjectedProposals`, `ProjectedSource`), `recoverable_jobs`, `find_latest_proposal` and the
boot sweep (`Swept`), each with its own treatment of a row that does not decode:
`projection` fails for that meeting, `recoverable_jobs` still reads a terminal row's type
and id, `find_latest_proposal` fails at the newest such row of any meeting, the sweep
skips the meeting. The actions are the appends of the other modules with the guards
that read the log. `StopsDecoding` is external: a new version of the program meets the
rows of an old one. `Summary` and `Catalogue` are `meeting_summaries`, with the place of a
row for its time. Nothing decodes the payload of `source.stopped`, so such a row is
spared.

A loop over the rows is a recursive function of the number of rows read. The collections
with ids are one loop, `Collected(rows, kept, ended)`: `kept` and `ended` are the places in
the log whose rows update an item or remove it, so that each query is told apart by the
sets of places it reads. `RemoveById` takes out an item with the id; `Upsert` sees to it
that there is only one. An `ORDER BY` is `InOrder`, which puts the places of a set in
their order.

### Evidence

`log` is one meeting's rows with what evidence needs: the speaker of a segment, the
spans of a request or a card, the request an answer belongs to, and an `origin` that
only the properties read. A capture is where its helper is (`capture`), so that the end of
its lines, the crash check and the boot sweep append what they do in
`CaptureSupervisor`. An automatic run is `TakeSnapshot` and `AppendDecision`; a request is
`AppendRequest` and `AppendAnswer`, and the demo `BeginDemo`, `SeedDemo`, `ProposeDemo`, with the
mutex (`holder`) held across; a diarized turn is one step, the proposal it leads to
included. `Candidate` is any answer: sure or not, citing any segments of its context or
none that exists, by id or by index; `Cited` is `candidate_evidence`. `SelectFinal` is the
choice of segments both entry points share. `DiarizedSpeaker` works on parsed labels,
a kind and a number up to `MaxNumber`. SPEAKER_N counts from zero and `remote_N` from one, so
SPEAKER_0 and `remote_1` are one speaker. At the largest `u32` the sum of
`zero_based_generic_speaker_number` panics (`SeedPanics`): the repository has no release
profile, and its scripts and README build and run the debug binary. The panic happens
with the store mutex held and poisons it; from then on handlers fail, the reader and an automatic
run panic at their next `expect` (`ReaderPanics`, `RunPanics`), and only a restart of the daemon
(`CrashAndBoot`) records anything again, the end of the capture first.

### Console

`selected` and `shown` are React state, `version` and `newest` what the daemon would answer.
A call has a kind and a place: `list` (a poll waits for the catalogue), `fetch` and `post`
(on its way), `page` (answered), `relist` (waits for the catalogue before it shows its
page). A poll remembers the meeting it was sent for, and selects it when its
catalogue arrives. `busy` disables controls and creation, not the rail and not the
cards. `chosen` and `settled` are history: what the operator selected or created last,
and whether at that time any call under way could still move the selection.

### HelperLane

A buffer is its number. `CopyInto`, `Submit` and `CountDrop` are the realtime callback:
it overwrites the pool's next slot, yields into the stream, which keeps the newest
`BufferCap`, and counts the buffer that fell out. `Take`, `Feed` and `Return` are
`runConsumer`. The callback and the consumer run in parallel; callbacks are serial.
Removing the tap is assumed to wait for the callback in flight. Protected is what waits
in the stream; the buffer in the consumer's hands is overwritten if the consumer stays
with it while the whole ring goes round, and the model makes no claim about it.
Buffers larger than the pool's go through `copyPCM` and are not modelled, nor are
submissions of the system lane that arrive after its input was finished.

### SystemSource

`acq` is the acquisition thread, `settled` and `tapDone` the two atomics, `setupDog` and
`framesDog` the watchdogs, `sck` the two ways ScreenCaptureKit is started
(`startScreenCaptureKit` checks `systemSettled` when the capture runs, the bypass is for
those who flipped it), `box` the `TeardownBox`, `running` the sources that capture. An
atomic load, store or exchange is a step, so `StoreTapDone` and `TapSettles` can be
separated by a watchdog. `TapStarts` and `SckStarts` may never happen. A source that
starts after the stop task emptied the box is ended by the end of the process.

## 3. Runs

| run | instance | question |
|---|---|---|
| `jobs_safety` | 2 handlers, 2 proposals, 2 jobs, 1 ignore each, 2 daemon exits, 2 faults | the inductive invariant of the proofs, type correctness in it, and all safety properties of jobs |
| `jobs_liveness` | the same without faults, `FairSpec` | every requested job ends; `AgentJobs` implements `JobBoard`, fairness included |
| `jobs_lost_approval` | 1 exit | refuted: an approved proposal has a job |
| `capture` | 2 sessions, one start handled at a time, 1 stop, 1 exit, 1 fault, `FairSpec` | one capture, stoppable, its end explained and not masked, its entry released, ended by SIGTERM |
| `capture_double_start` | 2 starts handled at the same time | refuted: one capture |
| `proposals` | 2 readers, 5 finals, 1 request, 2 calls a run, `FairSpec` | bounded spend and repeats; flags are cleared |
| `ledger` | 2 meetings, 2 jobs, 2 proposals, 6 rows and what boots add, 2 source rows, 1 row that stops decoding | the folds, the catalogue among them, agree with each other and with their definition |
| `evidence` | 2 voices, 5 diarized labels with numbers up to the largest, and one of several mixes of inputs | what cards cite, how requests are answered, what is shown in flight, the demo, speakers |
| `system_source` | every source choice, with and without a microphone, `FairSpec` | one source, in the box; what is reported is true; a stop ends the helper |
| `helper_lane` | 4 slots, a stream of 3, 13 buffers, `FairSpec` | intact, nothing missing, losses counted, input ends |
| `console` | 2 calls at once, 3 clicks, 1 write from elsewhere, 1 failing call, `FairSpec` | a kept selection; the screen catches up |
| `console_wrong_meeting` | no failing call | refuted: controls go to the meeting chosen last |

### Bounds and why they are enough

* Jobs: two jobs are needed for an early recovered job to run while a later one is
  visited; two exits for a recovery that is itself interrupted; two handlers and
  one ignore for an approval, an ignore and another approval of the same proposal
  to overlap; two faults for a failure whose own report fails too.
* Captures: two sessions are needed for a second start and for events of an
  earlier run; one stop request can meet every phase; a pipe of one event lets the
  helper be one event ahead of its reader. `Reports` limits the optional events of a
  run to the kinds its properties read.
* Proposals: five finals with a debounce of two give two points of the cadence
  with room around them; two readers are two captures of the meeting. Two calls a
  run is OpenRouter; with one the model is that of OpenAI.
* Ledger: six rows hold a proposal, its approval, ignore and second approval, with two
  rows left for jobs or captures, or two jobs from request to end and again; two meetings
  separate what is the meeting's from what is the ledger's. Jobs and proposals are
  only compared for equality and every property is a safety property, so the
  symmetry over both is sound; meetings are ordered by the sweep and are not symmetric.
* Evidence: what comes is bounded in mixes (`Mixes` in `MCEvidence`), each with the inputs
  that can disturb one another: a capture with a request and an exit, a capture with
  the demo and an exit, turns with a request and the demo, two turns, two demos. Context
  windows of one and two segments are shorter than the transcripts of three. The five
  labels are every zero-based number, the largest included, one `remote_N` that shares its voice
  with the first of them, and a name. A turn comes together with a capture and an exit, so
  that the panic meets a reader, a run and the boot after it.
* Console: a wrong selection needs a call under way and another one (two slots); three
  clicks are a creation, a selection and one more. Two meetings are enough to be wrong.
* System source: nothing is bounded; the instance is the whole behaviour.
* Helper lane: thirteen buffers go round four slots three times.
* For every safety property of these modules the theorems of section 4 remove the bounds
  of its run: they hold for any number of handlers, jobs, readers, meetings, rows, calls,
  buffers, faults and exits. The bounds matter for the liveness properties, for the
  refutations, and for what TLC shows of the mutants.
* Every counter has its bound in a guard and a CONSTANT of its own. When the bounds
  are spent the modelled daemon idles or ends, which is why the configurations say
  `CHECK_DEADLOCK FALSE`; what must not get stuck is a liveness property instead.

### Fairness

* Jobs: weak fairness of `Boot` (the operator restarts a dead daemon), of recovery,
  of the worker loop and of each handler once it has begun: all are threads or
  tasks that run. None of requests, faults, exits or of the worker process: a worker
  that never exits is ended by the loop's deadline (`PollTimeout`).
* Captures: weak fairness of the handler, of the reader and of the stop request;
  strong fairness of the helper's reaction to SIGTERM, which other events of the
  helper can disable for a moment. A helper nobody stops may run for ever.
* Proposals: weak fairness of the reader's append and trigger, of the blocking task
  (every provider call has a 60 s timeout) and of the answer to a request. The
  requests are finitely many; a mutex that starves one waiter for ever while
  others come and go is outside of the model.
* Console: weak fairness of the interval as long as a slot is free, and of every call's
  being served and answered: fetches end, by an answer or an error. None of clicks, writes
  or failures. `ScreenCatchesUp` says that from some time on the screen is right, and the
  bounds on clicks, writes and failures are what gives it that time.
* Evidence has safety properties only.
* System source: weak fairness of the helper's own steps and of its timers. None of
  `tap.start`, `capture.start`, frames and stop requests. That the process exits once
  the stop task has ended the inputs assumes that consumers and transcribers finish;
  for the consumer `HelperLane` shows it.
* Helper lane: weak fairness of the consumer and of the stop task's `finishInput` once
  the tap is gone. Nothing makes the source deliver.

### Findings

Each is a run that TLC must refute; the quotes are in `PROJECT.json`.

1. `jobs_lost_approval`: approval and job request are two commits. An exit between
   them leaves the proposal approved, and no retry or recovery makes the job.
2. `capture_double_start`: two overlapping starts run two helpers, one out of reach.
3. `console_wrong_meeting`: a poll that was sent before a meeting was created or selected
   selects the old meeting again when its catalogue arrives, and a control pressed before
   the next click of the rail goes to the old meeting.

Two more are stated as the exceptions of properties that hold. `EndIsExplained`: a helper
that reported its system lane failed keeps the crash check from recording its own later
death, so the meeting stays on "capturing" without an explanation (`capture.rs:238`; the
comment at 231 promises one). `ReportIsTrue`: when ScreenCaptureKit, started as the
replacement of a wedged or silent tap, fails, the lane has no source and no event says so
(`main.swift:1032`; the comment at 888 promises a report).

The models also show, without a run of their own: a stop request between the
spawn of a helper and the insertion of its pid finds no helper; one that looked
before that and acts after `source.started` stops the ledger under a live helper; a
lane failure reported before `source.started` is erased by it; a helper that dies before
`source.started` leaves the meeting waiting for permission (`capture.rs:238`); a second
capture has a flag of its own, so two automatic runs of a meeting overlap
(`capture.rs:193`); a trigger that meets a run is dropped, and the cadence is an equality,
so its point can pass without a run (`capture.rs:205`); a request holds the store mutex
over the model call, and finals wait for the provider (`main.rs:487`); the model is called
twice on one transcript when a run ends between the append of a segment and its
trigger, which is why `RepeatsAreBounded` allows it; a proposal row that does not decode
blocks the approvals of every older proposal, in any meeting (`event_log.rs:415`), and any
row that does not decode fails the whole catalogue (`event_log.rs:289`); an approval whose
answer cannot be projected waits for a restart (`main.rs:531`); a request or a demo that a
daemon exit interrupts is never finished (`main.rs:480`, `main.rs:253`); what the helper
writes after its `source.stopped` is shown under a stopped meeting (`event_log.rs:230`);
between a selection and its answer the cards on screen, and an approval, belong to the
meeting before (`main.tsx:461`), and of two calls under way the first to end enables the
controls (`main.tsx:288`).

## 4. Proofs

### AgentJobs_proofs

It proves, for every value of the constants that satisfies
`ConstantsAssumption` (the two "nobody" values are not members, the bounds are
naturals) and, for `OneJobPerApprovalAlways`, with no further assumption on the
number of handlers or proposals:

* `Invariance`: `IInv` holds in every reachable state, and from it `TypeCorrect`,
  `SingleWorkerAlways`, `WorkerIsSupervisedAlways`, `StartedOncePerBootAlways`,
  `CompletedHasArtifactAlways`, `OpenJobIsOwnedAlways`.
* `TerminalIsFinalAlways`: no step changes the status of an ended job.
* `OneJobPerApprovalAlways`: through the second invariant `ApprovalInv`.
* `SafelyImplementsBoard`: initial states map to initial states of `JobBoard` and
  every step to a step or a stutter.

**The inductive invariant.** None of the properties is inductive. That a job has
one worker (`SingleWorker`) depends on `Spawn` finding none, hence on the job waiting
without a process (`Waits`) while it is in the channel (`QueueInv`), in a handler
(`HeldInv`) or received (`LoopInv`), on recovery having ended the stale process before it
sends (`RecoverInv`), and on a job never being in two of these places, nor twice in the
channel (`DistinctInv`). Minted ids keep new jobs apart from all of them (`MintInv`); the
mutex keeps two handlers from minting the same one (`LockInv`); `StageInv` says what a
daemon that is down has forgotten. `OwnedInv` is `OpenJobIsOwned` with recovery's list
added, so that it holds while recovery runs. Each action of `Next` has a lemma, and
each part of `IInv` that the action can disturb a step in it. `jobs_safety` checks
`IInv` with TLC as well.

**Approvals.** `OneJobPerApproval` counts. `ApprovalInv` charges each job of a proposal to
an approval and each further approval to an ignore, with the job a handler is about
to append counted in advance; its step for `RequestJob` adds one new element to a finite
set (`FS_AddElement`).

**Refinement.** `ledger`, `starts` and `crashes` are the board's `status`, `attempts` and
`epoch`. `Start` and `Requeue` of the board require `attempts <= epoch`, which is `Waits`
and `RecoverInv`; `TerminalIsFinal` and "no job appears twice" are built into the board.

### HelperLane_proofs

It proves, for every pool larger than the stream (`ConstantsAssumption`, which the
comment of `PCMBufferPool` asks for) and any number of buffers, `Invariance` and from
it `StreamIsIntactAlways`, `NoBufferIsMissingAlways` and `LossIsCountedAlways`.

`StreamIsIntact` is not inductive: that a slot of the stream is not overwritten by the
next copy depends on where the others are. `PoolInv` says that the pool holds the last
`Slots` copies going back from `index`, `StreamInv` that the stream holds the newest submitted
buffers without a gap, each in the slot it was copied to. An entry of the stream is
then at most `BufferCap` submitted buffers and one copied one behind `index`, and
`Slots > BufferCap` is exactly what keeps it inside of the pool. `EndInv` relates the
consumer's return to the end of input.

### CaptureSupervisor_proofs

`Invariance` and `TypeCorrect` need no hypothesis; neither does `FailureIsNotMaskedAlways`,
nor `NoRunIsForgottenAlways`, that a run without an explanation still has a reader that will
look at it. They rest on `IInv`: what every sequence of rows folds to (`WellFolded`), what a
pipe can hold in each phase of its helper (`PipeInv`: at most one `source.started`, none
before the helper acquired its lanes, only the lanes of the capture's mode), and `EndInv`.

`OneCapture`, `CaptureIsStoppable` and `EndIsExplained` are false when two start requests
overlap, as `capture_double_start` shows, so `OneCaptureAlways`, `CaptureIsStoppableAlways` and
`EndIsExplainedAlways` state them for the behaviours in which starts do not overlap:
`Spec /\ []StartsDoNotOverlap => []P`. The hypothesis is about requests only: stop requests,
exits, faults and helpers are free, and one start may follow another at any time.
`OneRequestAtATime` discharges it for a console that sends one request at a time
(`MaxStarting = 1`, what the run checks). The invariant is `OneInv`: one session in progress,
none while the daemon is down, the pid found by a stop, and `LaneInv`, which follows the
status on the screen from the old run to the new: a capture whose helper has not begun
finds no live status but that of a lost lane.

### ProposalAgent_proofs

`SpendIsBoundedAlways` and `RepeatsAreBoundedAlways`, for any number of readers, with
`TasksAreConsistent` below both. `RepeatsAreBounded` counts calls, and a count is not
inductive: the calls that are still to come have to be part of it. `ToCall(n)` is the set of
calls on a transcript of `n` segments which the runs under way, and the runs their readers
are about to spawn, may still make; `SpendInv` bounds what was spent plus its cardinality.
A call moves one element from the second to the first (`OneIsSpent`), a trigger turns the
calls it announced into those of the run, and a segment opens a new length for
which only its reader may trigger. The theorem assumes that the set of readers is finite.

### Ledger_proofs

All six invariants of the module, for every log of any length.

* The folds. `LoopExists` shows that a loop over the rows is a function, and `Reaches` is
  induction stated for a set of numbers, which needs no operator parameter: a set that has
  0 and with each number the next one holds all of them. With these `CollectedIs` says
  what `Collected` returns after each row: exactly the items that are alive (a row of `kept`,
  and none of `ended` after it), each once, with the newest of its rows that is kept, in the
  order of the rows that brought it in. `InOrderIs` does the same for `InOrder`, and `IsFollowing` for
  the source that `ProjectedSource` follows.
* The log. `IInv` says that rows are of one shape by type (`LogIsSound`), those of a job or
  proposal are of one meeting (`RowsStayHome`), nothing follows an end (`EndsAreLast`) and
  approvals alternate with what undid them (`ApprovalsAreUndone`), whatever stopped decoding.
* The properties. `RecoverableIsWhatIsOpenAlways`, `OpenJobsAreProjectedAlways` and
  `LatestIsProjectedAlways` compare two folds by what each is known to return.
  `NoSecondApprovalAlways` is `ApprovalsAreUndone`. `BootEndsCapturesAlways` shows that the rows of
  the sweep end what the fold would call live, one meeting after another.
  `CatalogueIsTheLedgerAlways` pairs the rows counted by the catalogue with the jobs and
  proposals they are about (`SameSize`).

### Evidence_proofs

All five invariants, from one `IInv`: `RowIsSound` says of each row what may be said of it
from the rows before it (a card's spans are finals that precede it, and those of an
answer are spans of its request; an answer follows its request at once), `MutexInv` what the
holder of the mutex relies on while the model thinks, `OpenInv` that a request is left
open only by an exit, `DemoInv` that the demo's segments come first, and together unless an
exit cut them short. Appending a row keeps the rows before it sound (`AppendSound`), so each
action owes a proof about its own row only. `BucketsStayApartAlways` needs the label of a
turn to decide its speaker, one more than the voice it stands for; a turn whose number
overflows has no row (`SeedPanicsIInv`).

### Console_proofs

`SelectionIsKeptAlways`, for any meetings and any number of calls. `SelectionInv` adds
to `SelectionIsKept` that every poll that waits for its catalogue was sent for the
meeting chosen; that the answers of other calls name the meeting they were sent for is
`ScreenIsSound`, a theorem of its own: the screen and each call hold only what the daemon
once said.

### SystemSource_proofs

`OneSourceInBoxAlways`, `ReportIsTrueAlways` and the action property
`ReplacedIsStoppedAlways`. `OneHolds` is the heart of the invariant: a lane is settled exactly when
one of four outcomes holds it (the tap was kept, ScreenCaptureKit was, the setup watchdog
started the bypass, or the failure was reported), and never two. `RunningInv` gives each
source that captures an owner who will keep or drop it, and `WatchInv` says that the
frames watchdog, which alone starts a second source on a settled lane, has stopped the
tap before. `PhasesInv` orders the acquisition thread and the paths of ScreenCaptureKit.
`SystemSource`'s actions have one lemma each; TLC checked `IInv` on the instance of
`system_source`, which is all of the behaviour.

### What the theorems assume

The named assumptions on the constants (`ConstantsAssumption` of each module: sets that do
not overlap, bounds that are naturals, a pool larger than its stream), finiteness of
`Reader` for `RepeatsAreBoundedAlways` and of `Session` for `OneRequestAtATime`, and the hypothesis
`[]StartsDoNotOverlap` where it is written. No theorem assumes fairness.

### Only model-checked

What is left to TLC is liveness: `RequestedJobEnds`, the fair part of `ImplementsBoard`,
`EndedCaptureIsReleased`, `TermEndsCapture`, `FlagIsCleared`, `ScreenCatchesUp`,
`StopEndsHelper` and `InputEnds`. Each follows from fairness of actions, hence from ENABLED, which is
out of the prover's reach. The refuted properties have counterexamples instead of
proofs.

## 5. Not modelled, and why

* The projection's collections that are only appended to (artifacts, requests, notes), the
  title of a meeting and `latest_activity` of its summary: single appends and reads. Ties
  and steps back of the wall clock, by which the catalogue is sorted.
* A second daemon on the same database: planned as a composition of `AgentJobs` with
  a second life that recovers before its bind fails.
* A poisoned store mutex anywhere but in `Evidence`. The one panic with the mutex held
  that the models came across is the overflow in `diarized_speaker_for`, which takes the seeding
  endpoint (`STANDBY_ENABLE_SEED=1`); the other models are of a daemon where it is not used.
* A panic of an automatic run between `capture.rs:211` and 214 that leaves its flag set while the
  reader lives on.
* An append that fails after a request was recorded (`main.rs:480` to 500): the request would stay
  unanswered, as after an exit.
* Core Audio objects inside `tap.start`, sample-rate conversion, the transcriber and the
  results it still holds when `finish` cancels its reader.
* The text of prompts, cards and fixtures, and the decoding of a provider's answer: the
  model's answer is any answer.
* Of the console, the start of the page, the URL, the operator's session, search and
  presentation.
* Authorisation, sandbox profile text, HTTP requests, styles and scripts: stateless,
  presentation, or I/O.

## 6. Plan

In this order, most important first; the first eight are done.

1. `JobBoard`, `AgentJobs`, proofs of type correctness, of the inductive invariant
   and of the refinement.
2. `SourceState`, `CaptureSupervisor`.
3. `ProposalAgent`.
4. `HelperLane` with its proofs; `SystemSource`.
5. `Ledger`.
6. `Evidence`.
7. `Console`.
8. Proofs of the safety properties of `CaptureSupervisor`, `ProposalAgent`, `Ledger`,
   `Evidence`, `Console` and `SystemSource`.
9. Compositions: two daemons on one database; captures with proposals sharing the mutex;
   the rows that `AgentJobs` and `CaptureSupervisor` append as those of `Ledger`.
