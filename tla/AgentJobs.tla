------------------------------ MODULE AgentJobs ------------------------------
(***************************************************************************)
(* Approval, queueing, execution and restart recovery of worker jobs in    *)
(* standbyd (crates/standbyd/src/main.rs, crates/standby-core/src/worker.rs *)
(* and the job queries of event_log.rs).                                   *)
(*                                                                         *)
(* Durable state is what the append-only ledger says, reduced to what its  *)
(* queries return: the latest status of a proposal (find_latest_proposal), *)
(* the latest status of a job (upsert_by_id in projection and              *)
(* recoverable_jobs) and the number of some events.  Everything else dies  *)
(* with the daemon, except worker processes, which outlive it.             *)
(*                                                                         *)
(* Actors: HTTP handlers (Client), the worker loop, boot-time recovery,    *)
(* and worker processes.  Handlers share one connection under a mutex; the *)
(* worker loop appends through a connection of its own.                    *)
(***************************************************************************)
EXTENDS Naturals, Sequences, FiniteSets

CONSTANTS
  Client,     \* HTTP handlers that may run at the same time
  Proposal,   \* proposals already recorded as proposal.created
  NoClient,   \* the store mutex is free
  NoProposal, \* the job id is not minted yet
  MaxJobs,    \* bound: job ids that new_id may mint
  MaxIgnores, \* bound: proposal.ignored events per proposal
  MaxCrashes, \* bound: daemon exits
  MaxFaults   \* bound: failed appends, polls and kills

ASSUME ConstantsAssumption ==
  /\ NoClient \notin Client
  /\ NoProposal \notin Proposal
  /\ MaxJobs \in Nat
  /\ MaxIgnores \in Nat
  /\ MaxCrashes \in Nat
  /\ MaxFaults \in Nat

Job == 1..MaxJobs
NoJob == 0

VARIABLES
  latest,     \* ledger: status of the latest event of a proposal
  ignores,    \* ledger: number of proposal.ignored events of a proposal
  minted,     \* ledger: number of agent_job.requested events
  origin,     \* ledger: the proposal a job was requested for
  ledger,     \* ledger: status of the latest event of a job
  starts,     \* ledger: number of agent_job.started events of a job
  artifacts,  \* ledger: number of artifact.created events of a job
  procs,      \* operating system: live worker processes of a job
  stage,      \* "down", "recovering" (before serve) or "serving"
  lock,       \* holder of Arc<Mutex<EventStore>>
  pc,         \* where a handler is
  holds,      \* handler's local variables: proposal read, job built
  queue,      \* the unbounded channel job_tx -> job_rx
  rxOpen,     \* the receiver is alive
  toRecover,  \* jobs of recover_queued_jobs' list still to be visited
  recStep,    \* step of the recovery loop's body
  wl,         \* step of the worker loop
  cur,        \* job in the hands of the worker loop
  child,      \* what try_wait will see of the loop's own child process
  crashes,
  faults

durable == <<latest, ignores, minted, origin, ledger, starts, artifacts>>
handlers == <<lock, pc, holds>>
channel == <<queue, rxOpen>>
recovery == <<toRecover, recStep>>
worker == <<wl, cur, child>>
budget == <<crashes, faults>>
vars == <<durable, procs, stage, handlers, channel, recovery, worker, budget>>

Open == {"queued", "running"}
Terminal == {"completed", "failed"}
Status == {"none"} \cup Open \cup Terminal
NoHold == [proposal |-> NoProposal, job |-> NoJob]
Holding == [proposal : Proposal \cup {NoProposal}, job : Job \cup {NoJob}]

Init ==
  /\ latest = [p \in Proposal |-> "pending"]
  /\ ignores = [p \in Proposal |-> 0]
  /\ minted = 0
  /\ origin = [j \in Job |-> NoProposal]
  /\ ledger = [j \in Job |-> "none"]
  /\ starts = [j \in Job |-> 0]
  /\ artifacts = [j \in Job |-> 0]
  /\ procs = [j \in Job |-> 0]
  /\ stage = "down"
  /\ lock = NoClient
  /\ pc = [c \in Client |-> "idle"]
  /\ holds = [c \in Client |-> NoHold]
  /\ queue = <<>>
  /\ rxOpen = FALSE
  /\ toRecover = {}
  /\ recStep = "terminate"
  /\ wl = "idle"
  /\ cur = NoJob
  /\ child = "none"
  /\ crashes = 0
  /\ faults = 0

(* One more failure of the environment, while the bound allows it. *)
Fault ==
  /\ faults < MaxFaults
  /\ faults' = faults + 1
  /\ UNCHANGED crashes

-----------------------------------------------------------------------------
(* Slips of the code that the properties below must tell from it; the runs *)
(* never use them.                                                         *)

(* Recovery forgets the jobs that were still queued, or takes all jobs.    *)
RecoverableRunning == {j \in Job : ledger[j] = "running"}
RecoverableAny == {j \in Job : ledger[j] # "none"}

(* approve does not look at the proposal's current status. *)
ApproveUnchecked(c, p) ==
  /\ stage = "serving"
  /\ pc[c] = "idle"
  /\ lock = NoClient
  /\ minted < MaxJobs
  /\ lock' = c
  /\ latest' = [latest EXCEPT ![p] = "approved"]
  /\ pc' = [pc EXCEPT ![c] = "request"]
  /\ holds' = [holds EXCEPT ![c].proposal = p]
  /\ UNCHANGED <<ignores, minted, origin, ledger, starts, artifacts, procs,
                 stage, channel, recovery, worker, budget>>

(* The stale worker is left running. *)
TerminateNothing(j) ==
  /\ stage = "recovering" /\ j \in toRecover /\ recStep = "terminate"
  /\ recStep' = "note"
  /\ UNCHANGED <<durable, procs, stage, handlers, channel, toRecover, worker,
                 budget>>

(* Recovery does not put the job back to Queued. *)
NoteUnmarked(j) ==
  /\ stage = "recovering" /\ j \in toRecover /\ recStep = "note"
  /\ recStep' = "send"
  /\ UNCHANGED <<durable, procs, stage, handlers, channel, toRecover, worker,
                 budget>>

(* The daemon serves while recovery is still running. *)
ServeEarly ==
  /\ stage = "recovering"
  /\ stage' = "serving"
  /\ UNCHANGED <<durable, procs, handlers, channel, recovery, worker, budget>>

(* A received job stays in the channel. *)
ReceivePeek ==
  /\ rxOpen /\ wl = "idle" /\ queue # <<>>
  /\ cur' = Head(queue)
  /\ wl' = "start"
  /\ UNCHANGED <<durable, procs, stage, handlers, channel, recovery, child,
                 budget>>

(* A failed set-up returns without recording a failure. *)
SetUpSilent ==
  /\ wl = "setup"
  /\ \/ wl' = "spawn" /\ UNCHANGED cur
     \/ wl' = "idle" /\ cur' = NoJob
  /\ UNCHANGED <<durable, procs, stage, handlers, channel, recovery, child,
                 budget>>

(* The artifact of a successful run is not appended. *)
PollExitedNoArtifact ==
  /\ wl = "poll" /\ child \in {"success", "failure"}
  /\ wl' = IF child = "success" THEN "complete" ELSE "finish_failed"
  /\ child' = "none"
  /\ UNCHANGED <<durable, procs, stage, handlers, channel, recovery, cur,
                 budget>>

(* The deadline is tested before try_wait, or its kill is forgotten. *)
TimeOut(killed) ==
  /\ wl = "poll"
  /\ procs' = [procs EXCEPT ![cur] = @ - killed]
  /\ child' = "none"
  /\ wl' = "finish_failed"
  /\ UNCHANGED <<durable, stage, handlers, channel, recovery, cur, budget>>

PollTimeoutNoKill == child = "running" /\ TimeOut(0)

-----------------------------------------------------------------------------
(* HTTP handlers.                                                          *)

(* approve, up to the first append of approve_proposal.  The mutex is taken *)
(* and kept.  A proposal that is already approved is answered with the     *)
(* current projection: nothing is written, so the step is not taken.       *)
Approve(c, p) ==
  /\ stage = "serving"
  /\ pc[c] = "idle"
  /\ lock = NoClient
  /\ latest[p] # "approved"
  /\ minted < MaxJobs
  /\ lock' = c
  /\ latest' = [latest EXCEPT ![p] = "approved"]
  /\ pc' = [pc EXCEPT ![c] = "request"]
  /\ holds' = [holds EXCEPT ![c].proposal = p]
  /\ UNCHANGED <<ignores, minted, origin, ledger, starts, artifacts, procs,
                 stage, channel, recovery, worker, budget>>

(* The second append of approve_proposal, and the end of the guard's scope. *)
RequestJob(c) ==
  LET j == minted + 1 IN
  /\ pc[c] = "request"
  /\ minted' = j
  /\ origin' = [origin EXCEPT ![j] = holds[c].proposal]
  /\ ledger' = [ledger EXCEPT ![j] = "queued"]
  /\ holds' = [holds EXCEPT ![c].job = j]
  /\ pc' = [pc EXCEPT ![c] = "send"]
  /\ lock' = NoClient
  /\ UNCHANGED <<latest, ignores, starts, artifacts, procs, stage, channel,
                 recovery, worker, budget>>

(* The second append fails: the handler answers 500 and drops the guard.   *)
RequestJobFails(c) ==
  /\ pc[c] = "request"
  /\ Fault
  /\ pc' = [pc EXCEPT ![c] = "idle"]
  /\ holds' = [holds EXCEPT ![c] = NoHold]
  /\ lock' = NoClient
  /\ UNCHANGED <<durable, procs, stage, channel, recovery, worker>>

(* job_tx.send after the mutex was dropped.  Without a receiver the handler *)
(* takes the mutex again and records the failure.                          *)
SendJob(c) ==
  LET j == holds[c].job IN
  /\ pc[c] = "send"
  /\ \/ /\ rxOpen
        /\ queue' = Append(queue, j)
        /\ UNCHANGED ledger
     \/ /\ ~rxOpen
        /\ lock = NoClient
        /\ ledger' = [ledger EXCEPT ![j] = "failed"]
        /\ UNCHANGED queue
  /\ pc' = [pc EXCEPT ![c] = "idle"]
  /\ holds' = [holds EXCEPT ![c] = NoHold]
  /\ UNCHANGED <<latest, ignores, minted, origin, starts, artifacts, procs,
                 stage, lock, rxOpen, recovery, worker, budget>>

(* The projection before the send cannot be read, or without a receiver the *)
(* failure cannot be recorded: the job waits in the ledger for a restart.  *)
SendJobFails(c) ==
  /\ pc[c] = "send"
  /\ Fault
  /\ pc' = [pc EXCEPT ![c] = "idle"]
  /\ holds' = [holds EXCEPT ![c] = NoHold]
  /\ UNCHANGED <<durable, procs, stage, lock, channel, recovery, worker>>

(* ignore: one append under the mutex, whatever the proposal's status.     *)
Ignore(c, p) ==
  /\ stage = "serving"
  /\ pc[c] = "idle"
  /\ lock = NoClient
  /\ ignores[p] < MaxIgnores
  /\ latest' = [latest EXCEPT ![p] = "ignored"]
  /\ ignores' = [ignores EXCEPT ![p] = @ + 1]
  /\ UNCHANGED <<minted, origin, ledger, starts, artifacts, procs, stage,
                 handlers, channel, recovery, worker, budget>>

-----------------------------------------------------------------------------
(* Boot and recovery.                                                      *)

(* recoverable_jobs: the jobs whose latest event is Queued or Running. *)
RecoverableJobs == {j \in Job : ledger[j] \in Open}

(* main up to the query of recover_queued_jobs: the worker loop is already *)
(* draining the channel while recovery walks the list.                     *)
Boot ==
  /\ stage = "down"
  /\ stage' = "recovering"
  /\ rxOpen' = TRUE
  /\ toRecover' = RecoverableJobs
  /\ recStep' = "terminate"
  /\ UNCHANGED <<durable, procs, handlers, queue, worker, budget>>

(* The list is in the order of the jobs' first events, that is of their    *)
(* requests.                                                               *)
Visited(j) ==
  /\ stage = "recovering"
  /\ j \in toRecover
  /\ \A k \in toRecover : j <= k

(* terminate_stale_worker_for_job found no process, or none survived.      *)
TerminateStale(j) ==
  /\ Visited(j)
  /\ recStep = "terminate"
  /\ procs' = [procs EXCEPT ![j] = 0]
  /\ recStep' = "note"
  /\ UNCHANGED <<durable, stage, handlers, channel, toRecover, worker, budget>>

(* It failed (ps failed, or a process survived): the job is failed and     *)
(* never sent.                                                             *)
TerminateStaleFails(j) ==
  /\ Visited(j)
  /\ recStep = "terminate"
  /\ Fault
  /\ \E left \in {0, procs[j]} : procs' = [procs EXCEPT ![j] = left]
  /\ ledger' = [ledger EXCEPT ![j] = "failed"]
  /\ toRecover' = toRecover \ {j}
  /\ UNCHANGED <<latest, ignores, minted, origin, starts, artifacts, stage,
                 handlers, channel, recStep, worker>>

(* mark_job_recovered and its agent_job.progress append. *)
NoteRecovered(j) ==
  /\ Visited(j)
  /\ recStep = "note"
  /\ ledger' = [ledger EXCEPT ![j] = "queued"]
  /\ recStep' = "send"
  /\ UNCHANGED <<latest, ignores, minted, origin, starts, artifacts, procs,
                 stage, handlers, channel, toRecover, worker, budget>>

(* The recovered job is sent; without a receiver it is failed instead.     *)
SendRecovered(j) ==
  /\ Visited(j)
  /\ recStep = "send"
  /\ \/ /\ rxOpen
        /\ queue' = Append(queue, j)
        /\ UNCHANGED ledger
     \/ /\ ~rxOpen
        /\ ledger' = [ledger EXCEPT ![j] = "failed"]
        /\ UNCHANGED queue
  /\ toRecover' = toRecover \ {j}
  /\ recStep' = "terminate"
  /\ UNCHANGED <<latest, ignores, minted, origin, starts, artifacts, procs,
                 stage, handlers, rxOpen, worker, budget>>

Serve ==
  /\ stage = "recovering"
  /\ toRecover = {}
  /\ stage' = "serving"
  /\ UNCHANGED <<durable, procs, handlers, channel, recovery, worker, budget>>

-----------------------------------------------------------------------------
(* The worker loop: one job at a time, run_job in a blocking task.         *)

Receive ==
  /\ rxOpen
  /\ wl = "idle"
  /\ queue # <<>>
  /\ cur' = Head(queue)
  /\ queue' = Tail(queue)
  /\ wl' = "start"
  /\ UNCHANGED <<durable, procs, stage, handlers, rxOpen, recovery, child,
                 budget>>

(* agent_job.started, appended before any fallible step. *)
StartJob ==
  /\ wl = "start"
  /\ ledger' = [ledger EXCEPT ![cur] = "running"]
  /\ starts' = [starts EXCEPT ![cur] = @ + 1]
  /\ wl' = "setup"
  /\ UNCHANGED <<latest, ignores, minted, origin, artifacts, procs, stage,
                 handlers, channel, recovery, cur, child, budget>>

(* Scratch and sandbox profile; on success the second agent_job.progress   *)
(* (still Running), on an error finish_failed.                             *)
SetUp ==
  /\ wl = "setup"
  /\ \/ /\ ledger' = [ledger EXCEPT ![cur] = "running"]
        /\ wl' = "spawn"
     \/ /\ wl' = "finish_failed"
        /\ UNCHANGED ledger
  /\ UNCHANGED <<latest, ignores, minted, origin, starts, artifacts, procs,
                 stage, handlers, channel, recovery, cur, child, budget>>

Spawn ==
  /\ wl = "spawn"
  /\ \/ /\ procs' = [procs EXCEPT ![cur] = @ + 1]
        /\ child' = "running"
        /\ wl' = "poll"
     \/ /\ wl' = "finish_failed"
        /\ UNCHANGED <<procs, child>>
  /\ UNCHANGED <<durable, stage, handlers, channel, recovery, cur, budget>>

(* The loop's own child process exits by itself. *)
ChildExits ==
  /\ wl = "poll"
  /\ child = "running"
  /\ child' \in {"success", "failure"}
  /\ procs' = [procs EXCEPT ![cur] = @ - 1]
  /\ UNCHANGED <<durable, stage, handlers, channel, recovery, wl, cur, budget>>

PollExited ==
  /\ wl = "poll"
  /\ child \in {"success", "failure"}
  /\ wl' = IF child = "success" THEN "artifact" ELSE "finish_failed"
  /\ child' = "none"
  /\ UNCHANGED <<durable, procs, stage, handlers, channel, recovery, cur,
                 budget>>

(* The budget is spent while the child runs: kill and wait. *)
PollTimeout ==
  /\ wl = "poll"
  /\ child = "running"
  /\ procs' = [procs EXCEPT ![cur] = @ - 1]
  /\ child' = "none"
  /\ wl' = "finish_failed"
  /\ UNCHANGED <<durable, stage, handlers, channel, recovery, cur, budget>>

(* try_wait itself fails: run_job returns with the child alive. *)
PollFails ==
  /\ wl = "poll"
  /\ child = "running"
  /\ Fault
  /\ child' = "none"
  /\ wl' = "rescue"
  /\ UNCHANGED <<durable, procs, stage, handlers, channel, recovery, cur>>

AppendArtifact ==
  /\ wl = "artifact"
  /\ artifacts' = [artifacts EXCEPT ![cur] = @ + 1]
  /\ wl' = "complete"
  /\ UNCHANGED <<latest, ignores, minted, origin, ledger, starts, procs, stage,
                 handlers, channel, recovery, cur, child, budget>>

(* The append that ends a run: agent_job.completed, finish_failed or       *)
(* emit_job_failed.  The loop goes back to recv.                           *)
Conclude(step, status) ==
  /\ wl = step
  /\ ledger' = [ledger EXCEPT ![cur] = status]
  /\ wl' = "idle"
  /\ cur' = NoJob
  /\ UNCHANGED <<latest, ignores, minted, origin, starts, artifacts, procs,
                 stage, handlers, channel, recovery, child, budget>>

AppendCompleted == Conclude("complete", "completed")
FinishFailed == Conclude("finish_failed", "failed")
EmitJobFailed == Conclude("rescue", "failed")

(* Opening the store, or an append of run_job, fails: the error reaches    *)
(* the loop, which opens the store again to record the failure.            *)
RunJobFails ==
  /\ wl \in {"start", "setup", "spawn", "artifact", "complete", "finish_failed"}
  /\ Fault
  /\ wl' = "rescue"
  /\ UNCHANGED <<durable, procs, stage, handlers, channel, recovery, cur,
                 child>>

(* That fails too, and its result is ignored. *)
EmitJobFailedFails ==
  /\ wl = "rescue"
  /\ Fault
  /\ wl' = "idle"
  /\ cur' = NoJob
  /\ UNCHANGED <<durable, procs, stage, handlers, channel, recovery, child>>

(* The loop's task is gone and the receiver with it. *)
LoopDies ==
  /\ rxOpen
  /\ wl = "idle"
  /\ Fault
  /\ rxOpen' = FALSE
  /\ queue' = <<>>
  /\ UNCHANGED <<durable, procs, stage, handlers, recovery, worker>>

-----------------------------------------------------------------------------
(* The environment.                                                        *)

(* A worker process whose daemon is gone, or gave up on it, ends.          *)
OrphanExits(j) ==
  /\ procs[j] > 0
  /\ ~(cur = j /\ child = "running")
  /\ procs' = [procs EXCEPT ![j] = @ - 1]
  /\ UNCHANGED <<durable, stage, handlers, channel, recovery, worker, budget>>

(* The daemon exits between any two of the steps above.  The ledger and    *)
(* the worker processes stay.                                              *)
Crash ==
  /\ stage # "down"
  /\ crashes < MaxCrashes
  /\ crashes' = crashes + 1
  /\ stage' = "down"
  /\ lock' = NoClient
  /\ pc' = [c \in Client |-> "idle"]
  /\ holds' = [c \in Client |-> NoHold]
  /\ queue' = <<>>
  /\ rxOpen' = FALSE
  /\ toRecover' = {}
  /\ recStep' = "terminate"
  /\ wl' = "idle"
  /\ cur' = NoJob
  /\ child' = "none"
  /\ UNCHANGED <<durable, procs, faults>>

-----------------------------------------------------------------------------
HandlerStep(c) == RequestJob(c) \/ SendJob(c)

Recover ==
  \/ \E j \in Job : TerminateStale(j) \/ NoteRecovered(j) \/ SendRecovered(j)
  \/ Serve

LoopStep ==
  \/ Receive
  \/ StartJob
  \/ SetUp
  \/ Spawn
  \/ PollExited
  \/ PollTimeout
  \/ AppendArtifact
  \/ AppendCompleted
  \/ FinishFailed
  \/ EmitJobFailed

Failures ==
  \/ \E c \in Client : RequestJobFails(c) \/ SendJobFails(c)
  \/ \E j \in Job : TerminateStaleFails(j)
  \/ PollFails
  \/ RunJobFails
  \/ EmitJobFailedFails
  \/ LoopDies

Next ==
  \/ \E c \in Client, p \in Proposal : Approve(c, p) \/ Ignore(c, p)
  \/ \E c \in Client : HandlerStep(c)
  \/ Boot
  \/ Recover
  \/ LoopStep
  \/ Failures
  \/ ChildExits
  \/ \E j \in Job : OrphanExits(j)
  \/ Crash

Spec == Init /\ [][Next]_vars

(* Threads of a live daemon run, the operator restarts a dead one.  Nothing *)
(* is assumed of requests, worker processes or failures: the loop's own    *)
(* deadline is what ends a worker that never exits.                        *)
Fairness ==
  /\ WF_vars(Boot)
  /\ WF_vars(Recover)
  /\ WF_vars(LoopStep)
  /\ \A c \in Client : WF_vars(HandlerStep(c))

FairSpec == Spec /\ Fairness

-----------------------------------------------------------------------------
(* Properties.                                                             *)

TypeOK ==
  /\ latest \in [Proposal -> {"pending", "approved", "ignored"}]
  /\ ignores \in [Proposal -> 0..MaxIgnores]
  /\ minted \in 0..MaxJobs
  /\ origin \in [Job -> Proposal \cup {NoProposal}]
  /\ ledger \in [Job -> Status]
  /\ starts \in [Job -> Nat]
  /\ artifacts \in [Job -> Nat]
  /\ procs \in [Job -> Nat]
  /\ stage \in {"down", "recovering", "serving"}
  /\ lock \in Client \cup {NoClient}
  /\ pc \in [Client -> {"idle", "request", "send"}]
  /\ holds \in [Client -> Holding]
  /\ queue \in Seq(Job)
  /\ rxOpen \in BOOLEAN
  /\ toRecover \in SUBSET Job
  /\ recStep \in {"terminate", "note", "send"}
  /\ wl \in {"idle", "start", "setup", "spawn", "poll", "artifact", "complete",
            "finish_failed", "rescue"}
  /\ cur \in Job \cup {NoJob}
  /\ child \in {"none", "running", "success", "failure"}
  /\ crashes \in 0..MaxCrashes
  /\ faults \in 0..MaxFaults

InChannel(j) == \E i \in 1..Len(queue) : queue[i] = j
InHandler(j) == \E c \in Client : pc[c] = "send" /\ holds[c].job = j

(* Whatever crashes, recoveries and failures happen, a job never has two   *)
(* live worker processes: recovery ends the stale one before the job can   *)
(* be spawned again (recover_queued_jobs, run_job).                        *)
SingleWorker == \A j \in Job : procs[j] <= 1

(* Unless something in the environment failed, every live worker process   *)
(* is the child the loop is polling, or belongs to a job that recovery is  *)
(* going to visit: no worker runs unsupervised while the daemon serves.    *)
WorkerIsSupervised ==
  faults = 0 =>
    \A j \in Job : procs[j] > 0 =>
      \/ cur = j /\ child = "running"
      \/ stage = "down" /\ j \in RecoverableJobs
      \/ stage = "recovering" /\ j \in toRecover

(* A job is started at most once in each life of the daemon: a second      *)
(* agent_job.started needs a restart in between.                           *)
StartedOncePerBoot == \A j \in Job : starts[j] <= 1 + crashes

(* run_job appends the artifact before agent_job.completed, and each run   *)
(* appends at most one: a completed job always has something to show, and  *)
(* artifacts never outnumber runs.                                         *)
CompletedHasArtifact ==
  \A j \in Job : /\ ledger[j] = "completed" => artifacts[j] >= 1
                 /\ artifacts[j] <= starts[j]

(* Concurrent approvals of one proposal request one job: only an ignore in *)
(* between lets a later approval request another (approve, ignore).        *)
OneJobPerApproval ==
  \A p \in Proposal :
    Cardinality({j \in Job : origin[j] = p}) <= 1 + ignores[p]

(* Nothing follows the terminal event of a job: not the late end of its    *)
(* runner, not recovery, not a failed send.                                *)
TerminalIsFinal ==
  [][\A j \in Job : ledger[j] \in Terminal => ledger'[j] = ledger[j]]_ledger

(* While the daemon serves and nothing failed, what the projection shows   *)
(* of an unfinished job is true: a running job is in the loop's hands, a   *)
(* queued one is in the channel, about to be sent, or just received.       *)
OpenJobIsOwned ==
  (stage = "serving" /\ faults = 0) =>
    \A j \in Job :
      /\ ledger[j] = "running" => cur = j
      /\ ledger[j] = "queued" =>
           InChannel(j) \/ InHandler(j) \/ (cur = j /\ wl = "start")

(* backlog 006: an approved job either completes or fails visibly, across  *)
(* daemon restarts; it never stays queued or running forever.  Holds for   *)
(* every job whose agent_job.requested was appended, when the ledger can   *)
(* be written.                                                             *)
RequestedJobEnds ==
  \A j \in Job : ledger[j] \in Open ~> ledger[j] \in Terminal

(* backlog 006: a crash or restart cannot silently lose an approved job.   *)
(* Once the daemon serves again, an approved proposal has a job.           *)
ApprovedProposalHasJob ==
  (stage = "serving" /\ lock = NoClient /\ faults = 0) =>
    \A p \in Proposal : latest[p] = "approved" =>
      \E j \in Job : origin[j] = p

(* What clients of the projection may rely on, see JobBoard. *)
Board == INSTANCE JobBoard WITH status <- ledger, attempts <- starts,
                                epoch <- crashes

ImplementsBoard == Board!Spec

-----------------------------------------------------------------------------
(* The inductive invariant behind the properties above, in parts.          *)

(* The mutex serialises approvals, and only a serving daemon has handlers. *)
LockInv ==
  /\ \A c \in Client : pc[c] = "request" => /\ lock = c
                                            /\ minted < MaxJobs
                                            /\ holds[c].proposal \in Proposal
  /\ stage # "serving" => \A c \in Client : pc[c] = "idle"

StageInv ==
  /\ stage = "down" => /\ wl = "idle"
                       /\ queue = <<>>
                       /\ \A j \in Job : starts[j] <= crashes
  /\ stage # "recovering" => toRecover = {}

(* Ids not minted yet are unused everywhere. *)
MintInv ==
  \A j \in Job : j > minted => /\ ledger[j] = "none"
                               /\ origin[j] = NoProposal
                               /\ starts[j] = 0
                               /\ artifacts[j] = 0
                               /\ procs[j] = 0

(* A job that waits for its turn has no process and was not started yet in *)
(* this life of the daemon.                                                *)
Waits(j) ==
  /\ ledger[j] = "queued"
  /\ procs[j] = 0
  /\ starts[j] <= crashes

LoopInv ==
  /\ wl = "idle" <=> cur = NoJob
  /\ wl = "poll" <=> child # "none"
  /\ wl = "start" => Waits(cur)
  /\ wl \notin {"idle", "start"} => ledger[cur] \in Open
  /\ wl \notin {"idle", "start", "rescue"} => ledger[cur] = "running"
  /\ wl \notin {"idle", "poll", "rescue"} => procs[cur] = 0
  /\ wl = "poll" => procs[cur] = IF child = "running" THEN 1 ELSE 0
  /\ wl \in {"setup", "spawn", "poll", "artifact"} =>
       artifacts[cur] < starts[cur]
  /\ wl = "complete" => artifacts[cur] >= 1

(* A job is in one place at most: the channel, a handler, the recovery     *)
(* list, or the loop.                                                      *)
QueueInv ==
  \A i \in 1..Len(queue) :
    /\ Waits(queue[i])
    /\ queue[i] # cur
    /\ queue[i] \notin toRecover

DistinctInv == \A i, k \in 1..Len(queue) : i # k => queue[i] # queue[k]

HeldInv ==
  \A c \in Client : pc[c] = "send" =>
    /\ holds[c].job \in 1..minted
    /\ Waits(holds[c].job)
    /\ holds[c].job # cur
    /\ \A i \in 1..Len(queue) : queue[i] # holds[c].job
    /\ \A d \in Client : (d # c /\ pc[d] = "send") => holds[d].job # holds[c].job

RecoverInv ==
  /\ \A j \in toRecover : /\ ledger[j] \in Open
                          /\ starts[j] <= crashes
                          /\ j # cur
  /\ \A j \in Job : Visited(j) => /\ recStep # "terminate" => procs[j] = 0
                                  /\ recStep = "send" => ledger[j] = "queued"

(* Without failures, an unfinished job of a live daemon is in one place.   *)
OwnedInv ==
  (stage # "down" /\ faults = 0) =>
    \A j \in Job :
      /\ ledger[j] = "running" => cur = j \/ j \in toRecover
      /\ ledger[j] = "queued" =>
           InChannel(j) \/ InHandler(j) \/ j \in toRecover
             \/ (cur = j /\ wl = "start")

(* An approval is spent by the job it requests: counting the one a handler *)
(* has appended but not spent yet, a proposal never has more jobs than     *)
(* approvals, and only an ignore makes room for another approval.          *)
Requests(p) == {j \in Job : origin[j] = p}
Unspent(p) == lock # NoClient /\ pc[lock] = "request" /\ holds[lock].proposal = p

ApprovalInv ==
  \A p \in Proposal :
    Cardinality(Requests(p)) + (IF Unspent(p) THEN 1 ELSE 0)
      <= ignores[p] + (IF latest[p] = "approved" THEN 1 ELSE 0)

IInv ==
  /\ TypeOK
  /\ SingleWorker
  /\ WorkerIsSupervised
  /\ StartedOncePerBoot
  /\ CompletedHasArtifact
  /\ LockInv
  /\ StageInv
  /\ MintInv
  /\ LoopInv
  /\ QueueInv
  /\ DistinctInv
  /\ HeldInv
  /\ RecoverInv
  /\ OwnedInv

=============================================================================
