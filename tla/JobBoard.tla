------------------------------- MODULE JobBoard -------------------------------
(***************************************************************************)
(* What the operator is promised about worker jobs, as the meeting         *)
(* projection shows them: no queue, no processes, no recovery protocol.    *)
(* A job is requested, attempted at most once per life of the daemon, and  *)
(* ends for good.  AgentJobs implements this specification.                *)
(***************************************************************************)
EXTENDS Naturals

CONSTANT Job

VARIABLES
  status,    \* what the projection shows of a job
  attempts,  \* how often its worker was started
  epoch      \* which life of the daemon this is

boardVars == <<status, attempts, epoch>>

BoardInit ==
  /\ status = [j \in Job |-> "none"]
  /\ attempts = [j \in Job |-> 0]
  /\ epoch = 0

(* An approval puts a new job on the board. *)
Request(j) ==
  /\ status[j] = "none"
  /\ status' = [status EXCEPT ![j] = "queued"]
  /\ UNCHANGED <<attempts, epoch>>

(* Its worker starts: once in each life of the daemon. *)
Start(j) ==
  /\ status[j] = "queued"
  /\ attempts[j] <= epoch
  /\ status' = [status EXCEPT ![j] = "running"]
  /\ attempts' = [attempts EXCEPT ![j] = @ + 1]
  /\ UNCHANGED epoch

(* A restart puts an interrupted job back, before it is attempted again. *)
Requeue(j) ==
  /\ status[j] = "running"
  /\ attempts[j] <= epoch
  /\ status' = [status EXCEPT ![j] = "queued"]
  /\ UNCHANGED <<attempts, epoch>>

(* Only a running job completes. *)
Complete(j) ==
  /\ status[j] = "running"
  /\ status' = [status EXCEPT ![j] = "completed"]
  /\ UNCHANGED <<attempts, epoch>>

Fail(j) ==
  /\ status[j] \in {"queued", "running"}
  /\ status' = [status EXCEPT ![j] = "failed"]
  /\ UNCHANGED <<attempts, epoch>>

Restart ==
  /\ epoch' = epoch + 1
  /\ UNCHANGED <<status, attempts>>

BoardNext ==
  \/ \E j \in Job : Request(j) \/ Start(j) \/ Requeue(j) \/ Complete(j) \/ Fail(j)
  \/ Restart

SafeSpec == BoardInit /\ [][BoardNext]_boardVars

(* Every job on the board ends. *)
Spec == SafeSpec /\ \A j \in Job : WF_boardVars(Complete(j) \/ Fail(j))

=============================================================================
