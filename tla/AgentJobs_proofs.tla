-------------------------- MODULE AgentJobs_proofs --------------------------
(***************************************************************************)
(* Proofs about AgentJobs for every value of its constants.  IInv is       *)
(* inductive: one lemma per action shows that the action preserves it, and *)
(* NextIInv puts them together.  The properties of AgentJobs follow from   *)
(* IInv; the refinement of JobBoard and the number of jobs per approval    *)
(* are shown step by step on top of it.                                    *)
(***************************************************************************)
EXTENDS AgentJobs, TLAPS, FiniteSetTheorems

(* What TypeOK says of the variables most steps change.                    *)
LEMMA JobTypes ==
  ASSUME TypeOK
  PROVE  /\ ledger \in [Job -> Status]
         /\ starts \in [Job -> Nat]
         /\ artifacts \in [Job -> Nat]
         /\ procs \in [Job -> Nat]
         /\ pc \in [Client -> {"idle", "request", "send"}]
         /\ holds \in [Client -> Holding]
         /\ toRecover \subseteq Job
         /\ cur \in Job \cup {NoJob}
         /\ minted \in Nat
         /\ crashes \in Nat
         /\ faults \in Nat
BY DEF TypeOK

(* The channel holds jobs.                                                 *)
LEMMA QueueTypes ==
  ASSUME TypeOK
  PROVE  /\ Len(queue) \in Nat
         /\ \A i \in 1..Len(queue) : queue[i] \in Job
BY DEF TypeOK

(* What appending to the channel does to its elements.                     *)
LEMMA AppendFacts ==
  ASSUME NEW s \in Seq(Job), NEW e \in Job
  PROVE  /\ Append(s, e) \in Seq(Job)
         /\ Len(Append(s, e)) = Len(s) + 1
         /\ \A i \in 1..Len(s) : Append(s, e)[i] = s[i]
         /\ Append(s, e)[Len(s) + 1] = e
         /\ Len(s) \in Nat
OBVIOUS

(* What receiving from the channel does to its elements.                   *)
LEMMA TailFacts ==
  ASSUME NEW s \in Seq(Job), s # <<>>
  PROVE  /\ Head(s) \in Job
         /\ Tail(s) \in Seq(Job)
         /\ Len(s) \in Nat \ {0}
         /\ Len(Tail(s)) = Len(s) - 1
         /\ \A i \in 1..Len(Tail(s)) : Tail(s)[i] = s[i + 1]
         /\ Head(s) = s[1]
OBVIOUS

(* A handler about to send holds a job.                                    *)
LEMMA HeldTypes ==
  ASSUME TypeOK, HeldInv
  PROVE  \A c \in Client : pc[c] = "send" => holds[c].job \in Job
<1>1. 1..minted \subseteq Job
  BY ConstantsAssumption DEF TypeOK, Job
<1> QED
  BY <1>1 DEF HeldInv

(* approve takes the free mutex, so no other handler is between its        *)
(* appends.                                                                *)
LEMMA ApproveStep ==
  ASSUME IInv, NEW c \in Client, NEW p \in Proposal, Approve(c, p)
  PROVE IInv'
<1> USE DEF channel, recovery, worker, budget
<1> USE DEF IInv
<1>1. TypeOK'
  <2>1. TypeOK
    OBVIOUS
  <2> HIDE DEF IInv
  <2>2. holds' \in [Client -> Holding]
    BY <2>1 DEF Approve, TypeOK, Holding
  <2> QED
    BY <2>1, <2>2 DEF Approve, TypeOK
<1>6. LockInv'
  <2>1. \A d \in Client : pc[d] # "request"
    BY ConstantsAssumption DEF Approve, LockInv
  <2>2. holds'[c].proposal = p
    BY JobTypes DEF Approve
  <2> QED
    BY <2>1, <2>2 DEF Approve, LockInv
<1>12. HeldInv'
  BY JobTypes DEF Approve, HeldInv, Waits
<1>14. OwnedInv'
  <2>1. \A k \in Job : InHandler(k) => InHandler(k)'
    BY DEF Approve, InHandler
  <2>2. \A k \in Job : InChannel(k) => InChannel(k)'
    BY DEF Approve, InChannel
  <2> QED
    BY <2>1, <2>2 DEF Approve, OwnedInv
<1>u. SingleWorker' /\ WorkerIsSupervised' /\ StartedOncePerBoot' /\
   CompletedHasArtifact' /\ StageInv' /\ MintInv' /\ LoopInv' /\ QueueInv' /\
   DistinctInv' /\ RecoverInv'
  BY DEF Approve, SingleWorker, WorkerIsSupervised, StartedOncePerBoot,
     CompletedHasArtifact, StageInv, MintInv, LoopInv, QueueInv, DistinctInv,
     RecoverInv, NoJob, Waits, Visited
<1> QED BY <1>1, <1>6, <1>12, <1>14, <1>u

(* ignore touches only the proposal's own events.                          *)
LEMMA IgnoreStep ==
  ASSUME IInv, NEW c \in Client, NEW p \in Proposal, Ignore(c, p)
  PROVE IInv'
<1> USE DEF handlers, channel, recovery, worker, budget
<1> USE DEF IInv
<1>1. TypeOK'
  BY ConstantsAssumption DEF Ignore, TypeOK, LoopInv
<1>u. SingleWorker' /\ WorkerIsSupervised' /\ StartedOncePerBoot' /\
   CompletedHasArtifact' /\ LockInv' /\ StageInv' /\ MintInv' /\ LoopInv' /\
   QueueInv' /\ DistinctInv' /\ HeldInv' /\ RecoverInv' /\ OwnedInv'
  BY DEF Ignore, SingleWorker, WorkerIsSupervised, StartedOncePerBoot,
     CompletedHasArtifact, LockInv, StageInv, MintInv, LoopInv, QueueInv,
     DistinctInv, HeldInv, RecoverInv, OwnedInv, NoJob, RecoverableJobs, Open,
     Waits, Visited, InChannel, InHandler
<1> QED BY <1>1, <1>u

(* The new job is in no other place: its id was not minted yet.            *)
LEMMA RequestJobStep ==
  ASSUME IInv, NEW c \in Client, RequestJob(c)
  PROVE IInv'
<1> USE DEF channel, recovery, worker, budget
<1> USE DEF IInv
<1>j. PICK j \in Job : j = minted + 1
  BY ConstantsAssumption, JobTypes DEF RequestJob, LockInv, Job
<1>f. ledger[j] = "none" /\ procs[j] = 0 /\ starts[j] = 0
  BY <1>j, JobTypes DEF MintInv
<1>m. ledger' = [ledger EXCEPT ![j] = "queued"] /\ minted' = j
  BY <1>j DEF RequestJob
<1>1. TypeOK'
  <2>1. minted + 1 \in Job
    BY ConstantsAssumption DEF RequestJob, TypeOK, LockInv, Job
  <2>2. holds' \in [Client -> Holding]
    BY <2>1 DEF RequestJob, TypeOK, Holding
  <2>3. minted' \in 0..MaxJobs
    BY <2>1 DEF RequestJob, Job
  <2>5. /\ lock' \in Client \cup {NoClient}
        /\ latest' = latest /\ ignores' = ignores /\ starts' = starts
        /\ artifacts' = artifacts /\ procs' = procs /\ stage' = stage
        /\ queue' = queue /\ rxOpen' = rxOpen
        /\ toRecover' = toRecover /\ recStep' = recStep
        /\ wl' = wl /\ cur' = cur /\ child' = child
        /\ crashes' = crashes /\ faults' = faults
    BY DEF RequestJob
  <2>4. /\ ledger' \in [Job -> Status]
        /\ origin' \in [Job -> Proposal \cup {NoProposal}]
        /\ pc' \in [Client -> {"idle", "request", "send"}]
    BY DEF RequestJob, TypeOK, LockInv, Status, Open
  <2>6. TypeOK
    OBVIOUS
  <2> HIDE DEF IInv
  <2>7. /\ latest' \in [Proposal -> {"pending", "approved", "ignored"}]
        /\ ignores' \in [Proposal -> 0..MaxIgnores]
        /\ starts' \in [Job -> Nat] /\ artifacts' \in [Job -> Nat] /\ procs' \in [Job -> Nat]
    BY <2>5, <2>6 DEF TypeOK
  <2>8. /\ stage' \in {"down", "recovering", "serving"} /\ lock' \in Client \cup {NoClient}
        /\ queue' \in Seq(Job) /\ rxOpen' \in BOOLEAN
        /\ toRecover' \in SUBSET Job /\ recStep' \in {"terminate", "note", "send"}
        /\ wl' \in {"idle", "start", "setup", "spawn", "poll", "artifact", "complete",
                   "finish_failed", "rescue"}
        /\ cur' \in Job \cup {NoJob}
        /\ child' \in {"none", "running", "success", "failure"}
        /\ crashes' \in 0..MaxCrashes /\ faults' \in 0..MaxFaults
    BY <2>5, <2>6 DEF TypeOK
  <2> QED
    BY <2>2, <2>3, <2>4, <2>7, <2>8 DEF TypeOK
<1>3. WorkerIsSupervised'
  BY JobTypes DEF RequestJob, WorkerIsSupervised, LoopInv, StageInv, MintInv,
     LockInv
<1>5. CompletedHasArtifact'
  BY JobTypes DEF RequestJob, CompletedHasArtifact
<1>6. LockInv'
  BY JobTypes DEF RequestJob, LockInv
<1>8. MintInv'
  BY JobTypes DEF RequestJob, MintInv, LoopInv, RecoverInv, Job
<1>9. LoopInv'
  BY JobTypes DEF RequestJob, LoopInv, MintInv, Waits, Open
<1>10. QueueInv'
  BY JobTypes, QueueTypes DEF RequestJob, QueueInv, LoopInv, Waits
<1>12. HeldInv'
  <2>1. Waits(j)'
    BY <1>f, <1>m, JobTypes DEF RequestJob, Waits
  <2>2. \A k \in Job : Waits(k) => k # j /\ Waits(k)'
    BY <1>f DEF RequestJob, Waits
  <2>3. cur # j /\ \A i \in 1..Len(queue) : queue[i] # j
    <3>1. \A i \in 1..Len(queue) : queue[i] # j
      BY <2>2 DEF QueueInv
    <3>2. cur # j
      BY <1>f DEF LoopInv, Open, Waits, NoJob, Job
    <3> QED
      BY <3>1, <3>2
  <2>4. holds'[c].job = j
    BY <1>j, JobTypes DEF RequestJob
  <2>5. \A d \in Client : d # c => pc'[d] = pc[d] /\ holds'[d] = holds[d]
    BY DEF RequestJob
  <2>6. \A d \in Client : pc[d] = "send" =>
          holds[d].job \in Job /\ holds[d].job \in 1..minted'
    <3>1. minted \in Nat /\ minted + 1 <= MaxJobs /\ MaxJobs \in Nat
      <4>1. minted \in 0..MaxJobs
        BY DEF TypeOK
      <4> HIDE DEF IInv
      <4> QED
        BY <1>j, <4>1, ConstantsAssumption DEF Job
    <3>2. \A d \in Client : pc[d] = "send" => holds[d].job \in 1..minted
      BY DEF HeldInv
    <3> HIDE DEF IInv
    <3> QED
      BY <1>j, <1>m, <3>1, <3>2 DEF Job
  <2>7. cur' = cur /\ queue' = queue /\ minted' \in 1..minted'
    BY JobTypes DEF RequestJob
  <2>8. ASSUME NEW d \in Client, pc'[d] = "send"
        PROVE  /\ holds'[d].job \in 1..minted'
               /\ Waits(holds[d].job)'
               /\ holds'[d].job # cur'
               /\ \A i \in 1..Len(queue') : queue'[i] # holds'[d].job
    <3>1. CASE d = c
      BY <1>m, <2>1, <2>3, <2>4, <2>7, <3>1
    <3>2. CASE d # c
      BY <2>2, <2>5, <2>6, <2>7, <2>8, <3>2 DEF HeldInv
    <3> QED
      BY <3>1, <3>2
  <2>9. ASSUME NEW d \in Client, NEW e \in Client, d # e,
               pc'[d] = "send", pc'[e] = "send"
        PROVE  holds'[d].job # holds'[e].job
    BY <2>2, <2>4, <2>5, <2>9 DEF HeldInv
  <2> QED
    BY <2>8, <2>9 DEF HeldInv
<1>13. RecoverInv'
  BY JobTypes DEF RequestJob, RecoverInv, LoopInv, StageInv, LockInv, Visited
<1>14. OwnedInv'
  <2>1. holds'[c].job = j /\ pc'[c] = "send"
    BY <1>j, JobTypes DEF RequestJob
  <2>2. \A k \in Job : InHandler(k) => InHandler(k)'
    BY DEF RequestJob, InHandler
  <2>3. \A k \in Job : InChannel(k) => InChannel(k)'
    BY DEF RequestJob, InChannel
  <2>4. InHandler(j)'
    BY <2>1 DEF InHandler
  <2> QED
    BY <1>m, <2>2, <2>3, <2>4 DEF RequestJob, OwnedInv
<1>u. SingleWorker' /\ StartedOncePerBoot' /\ StageInv' /\ DistinctInv'
  BY DEF RequestJob, SingleWorker, StartedOncePerBoot, StageInv, DistinctInv
<1> QED BY <1>1, <1>3, <1>5, <1>6, <1>8, <1>9, <1>10, <1>12, <1>13, <1>14, <1>u

(* A failed second append leaves no job behind.                            *)
LEMMA RequestJobFailsStep ==
  ASSUME IInv, NEW c \in Client, RequestJobFails(c)
  PROVE IInv'
<1> USE DEF durable, channel, recovery, worker, Fault, NoHold
<1> USE DEF IInv
<1>1. TypeOK'
  BY ConstantsAssumption DEF RequestJobFails, TypeOK, LoopInv, Holding
<1>3. WorkerIsSupervised'
  BY JobTypes DEF RequestJobFails, WorkerIsSupervised
<1>6. LockInv'
  BY JobTypes DEF RequestJobFails, LockInv
<1>12. HeldInv'
  BY JobTypes DEF RequestJobFails, HeldInv, Waits
<1>14. OwnedInv'
  BY JobTypes DEF RequestJobFails, OwnedInv
<1>u. SingleWorker' /\ StartedOncePerBoot' /\ CompletedHasArtifact' /\
   StageInv' /\ MintInv' /\ LoopInv' /\ QueueInv' /\ DistinctInv' /\
   RecoverInv'
  BY DEF RequestJobFails, SingleWorker, StartedOncePerBoot,
     CompletedHasArtifact, StageInv, MintInv, LoopInv, QueueInv, DistinctInv,
     RecoverInv, Waits, Visited
<1> QED BY <1>1, <1>3, <1>6, <1>12, <1>14, <1>u

(* A handler that ends before its send leaves its job to a restart.        *)
LEMMA SendJobFailsStep ==
  ASSUME IInv, NEW c \in Client, SendJobFails(c)
  PROVE IInv'
<1> USE DEF durable, channel, recovery, worker, Fault, NoHold
<1> USE DEF IInv
<1>1. TypeOK'
  BY ConstantsAssumption DEF SendJobFails, TypeOK, Holding
<1>3. WorkerIsSupervised'
  BY JobTypes DEF SendJobFails, WorkerIsSupervised
<1>6. LockInv'
  BY JobTypes DEF SendJobFails, LockInv
<1>12. HeldInv'
  BY JobTypes DEF SendJobFails, HeldInv, Waits
<1>14. OwnedInv'
  BY JobTypes DEF SendJobFails, OwnedInv
<1>u. SingleWorker' /\ StartedOncePerBoot' /\ CompletedHasArtifact' /\
   StageInv' /\ MintInv' /\ LoopInv' /\ QueueInv' /\ DistinctInv' /\
   RecoverInv'
  BY DEF SendJobFails, SingleWorker, StartedOncePerBoot,
     CompletedHasArtifact, StageInv, MintInv, LoopInv, QueueInv, DistinctInv,
     RecoverInv, Waits, Visited
<1> QED BY <1>1, <1>3, <1>6, <1>12, <1>14, <1>u

(* A job moves from its handler to the channel, or fails.                  *)
LEMMA SendJobStep ==
  ASSUME IInv, NEW c \in Client, SendJob(c)
  PROVE IInv'
<1> USE DEF recovery, worker, budget, NoHold
<1> USE DEF IInv
<1>j. PICK j \in Job : j = holds[c].job
  BY ConstantsAssumption DEF SendJob, TypeOK, HeldInv, Job
<1>q. queue \in Seq(Job)
  BY DEF TypeOK
<1>b. \/ queue' = Append(queue, j) /\ ledger' = ledger
      \/ queue' = queue /\ ledger' = [ledger EXCEPT ![j] = "failed"]
  BY <1>j DEF SendJob
<1>s. \/ queue' = queue
      \/ /\ Len(queue') = Len(queue) + 1
         /\ \A i \in 1..Len(queue) : queue'[i] = queue[i]
         /\ queue'[Len(queue) + 1] = j
  BY <1>b
<1>1. TypeOK'
  <2>1. queue' \in Seq(Job)
    BY <1>q, <1>b
  <2>2. ledger' \in [Job -> Status]
    BY <1>b, JobTypes DEF Status, Terminal
  <2>3. pc' \in [Client -> {"idle", "request", "send"}]
    BY JobTypes DEF SendJob
  <2>4. holds' \in [Client -> Holding]
    BY DEF SendJob, TypeOK, Holding
  <2>5. /\ latest' = latest /\ ignores' = ignores /\ minted' = minted
        /\ origin' = origin /\ starts' = starts /\ artifacts' = artifacts
        /\ procs' = procs /\ stage' = stage /\ lock' = lock /\ rxOpen' = rxOpen
        /\ toRecover' = toRecover /\ recStep' = recStep
        /\ wl' = wl /\ cur' = cur /\ child' = child
        /\ crashes' = crashes /\ faults' = faults
    BY DEF SendJob
  <2>6. TypeOK
    OBVIOUS
  <2> HIDE DEF IInv
  <2>7. /\ latest' \in [Proposal -> {"pending", "approved", "ignored"}]
        /\ ignores' \in [Proposal -> 0..MaxIgnores]
        /\ starts' \in [Job -> Nat] /\ artifacts' \in [Job -> Nat] /\ procs' \in [Job -> Nat]
        /\ minted' \in 0..MaxJobs /\ origin' \in [Job -> Proposal \cup {NoProposal}]
    BY <2>5, <2>6 DEF TypeOK
  <2>8. /\ stage' \in {"down", "recovering", "serving"} /\ lock' \in Client \cup {NoClient}
        /\ rxOpen' \in BOOLEAN
        /\ toRecover' \in SUBSET Job /\ recStep' \in {"terminate", "note", "send"}
        /\ wl' \in {"idle", "start", "setup", "spawn", "poll", "artifact", "complete",
                   "finish_failed", "rescue"}
        /\ cur' \in Job \cup {NoJob}
        /\ child' \in {"none", "running", "success", "failure"}
        /\ crashes' \in 0..MaxCrashes /\ faults' \in 0..MaxFaults
    BY <2>5, <2>6 DEF TypeOK
  <2> QED
    BY <2>1, <2>2, <2>3, <2>4, <2>7, <2>8 DEF TypeOK
<1>3. WorkerIsSupervised'
  <2>1. procs[j] = 0
    BY <1>j DEF SendJob, HeldInv, Waits
  <2>2. WorkerIsSupervised
    OBVIOUS
  <2>3. /\ faults' = faults /\ procs' = procs /\ stage' = stage
        /\ cur' = cur /\ child' = child /\ toRecover' = toRecover
    BY DEF SendJob
  <2>4. \A k \in Job : k # j => ledger'[k] = ledger[k]
    BY <1>b, JobTypes
  <2> HIDE DEF IInv
  <2> QED
    BY <2>1, <2>2, <2>3, <2>4 DEF WorkerIsSupervised, RecoverableJobs
<1>5. CompletedHasArtifact'
  BY JobTypes, <1>j, <1>b DEF SendJob, CompletedHasArtifact
<1>6. LockInv'
  BY DEF SendJob, LockInv
<1>7. StageInv'
  BY JobTypes DEF SendJob, StageInv, LockInv
<1>8. MintInv'
  BY JobTypes, <1>j, <1>b DEF SendJob, MintInv, LoopInv, RecoverInv, HeldInv,
     Waits
<1>9. LoopInv'
  BY JobTypes, <1>j, <1>b DEF SendJob, LoopInv, HeldInv, Waits
<1>10. QueueInv'
  <2>1. Waits(j) /\ j # cur /\ toRecover = {}
    BY <1>j DEF SendJob, HeldInv, LockInv, StageInv
  <2>2. CASE queue' = queue /\ ledger' = [ledger EXCEPT ![j] = "failed"]
    BY <1>j, <2>1, <2>2 DEF SendJob, QueueInv, HeldInv, Waits
  <2>3. CASE queue' = Append(queue, j) /\ ledger' = ledger
    <3>1. \A i \in 1..Len(queue') : i \in 1..Len(queue) \/ queue'[i] = j
      BY <2>3
    <3>2. \A i \in 1..Len(queue) : queue'[i] = queue[i]
      BY <2>3
    <3> QED
      BY <2>1, <2>3 DEF SendJob, QueueInv, Waits
  <2> QED
    BY <1>b, <2>2, <2>3
<1>11. DistinctInv'
  <2>1. \A i \in 1..Len(queue) : queue[i] # j
    BY <1>j DEF SendJob, HeldInv
  <2>2. ASSUME NEW i \in 1..Len(queue'), NEW k \in 1..Len(queue'), i # k
        PROVE  queue'[i] # queue'[k]
    BY <1>s, <2>1, <2>2 DEF DistinctInv
  <2> QED
    BY <2>2 DEF DistinctInv
<1>12. HeldInv'
  <2>1. \A d \in Client : pc'[d] = "send" =>
          d # c /\ pc[d] = "send" /\ holds'[d] = holds[d]
    BY JobTypes DEF SendJob
  <2>2. \A k \in Job : k # j /\ Waits(k) => Waits(k)'
    BY <1>b, JobTypes DEF SendJob, Waits
  <2>3. \A d \in Client : d # c /\ pc[d] = "send" =>
          /\ holds[d].job # j
          /\ holds[d].job \in Job
    BY <1>j, HeldTypes DEF SendJob, HeldInv
  <2>4. \A k \in Job : k # j /\ (\A i \in 1..Len(queue) : queue[i] # k) =>
          \A i \in 1..Len(queue') : queue'[i] # k
    BY <1>s
  <2>5. cur' = cur /\ minted' = minted
    BY DEF SendJob
  <2>6. ASSUME NEW d \in Client, pc'[d] = "send"
        PROVE  /\ holds'[d].job \in 1..minted'
               /\ Waits(holds[d].job)'
               /\ holds'[d].job # cur'
               /\ \A i \in 1..Len(queue') : queue'[i] # holds'[d].job
    BY <2>1, <2>2, <2>3, <2>4, <2>5, <2>6 DEF HeldInv
  <2>7. ASSUME NEW d \in Client, NEW e \in Client, d # e,
               pc'[d] = "send", pc'[e] = "send"
        PROVE  holds'[d].job # holds'[e].job
    BY <2>1, <2>7 DEF HeldInv
  <2> QED
    BY <2>6, <2>7 DEF HeldInv
<1>13. RecoverInv'
  BY JobTypes, <1>j, <1>b DEF SendJob, RecoverInv, LoopInv, HeldInv, StageInv,
     LockInv, Visited
<1>14. OwnedInv'
  <2>1. InChannel(j)' \/ ledger'[j] = "failed"
    BY <1>b, JobTypes DEF InChannel
  <2>2. \A k \in Job : InChannel(k) => InChannel(k)'
    BY <1>s DEF InChannel
  <2>3. \A k \in Job : InHandler(k) /\ k # j => InHandler(k)'
    BY <1>j DEF SendJob, InHandler
  <2>4. \A k \in Job : k # j => ledger'[k] = ledger[k]
    BY <1>b, JobTypes
  <2>5. ledger'[j] \in {"queued", "failed"}
    BY <1>j, JobTypes DEF SendJob, HeldInv, Waits
  <2> QED
    BY <2>1, <2>2, <2>3, <2>4, <2>5 DEF SendJob, OwnedInv
<1>u. SingleWorker' /\ StartedOncePerBoot'
  BY DEF SendJob, SingleWorker, StartedOncePerBoot
<1> QED BY <1>1, <1>3, <1>5, <1>6, <1>7, <1>8, <1>9, <1>10, <1>11, <1>12,
   <1>13, <1>14, <1>u

(* The recovery list holds every open job, and nothing else does yet.      *)
LEMMA BootStep ==
  ASSUME IInv, Boot
  PROVE IInv'
<1> USE DEF durable, handlers, worker, budget, RecoverableJobs
<1> USE DEF IInv
<1>1. TypeOK'
  BY DEF Boot, TypeOK, LoopInv
<1>3. WorkerIsSupervised'
  BY JobTypes DEF Boot, WorkerIsSupervised
<1>6. LockInv'
  BY DEF Boot, LockInv
<1>7. StageInv'
  BY JobTypes DEF Boot, StageInv
<1>10. QueueInv'
  BY JobTypes, QueueTypes DEF Boot, QueueInv, StageInv
<1>13. RecoverInv'
  BY JobTypes DEF Boot, RecoverInv, LoopInv, StageInv, Job, NoJob
<1>14. OwnedInv'
  BY JobTypes DEF Boot, OwnedInv, LoopInv, StageInv, Open
<1>u. SingleWorker' /\ StartedOncePerBoot' /\ CompletedHasArtifact' /\ MintInv'
   /\ LoopInv' /\ DistinctInv' /\ HeldInv'
  BY DEF Boot, SingleWorker, StartedOncePerBoot, CompletedHasArtifact, MintInv,
     LoopInv, DistinctInv, HeldInv, Waits
<1> QED BY <1>1, <1>3, <1>6, <1>7, <1>10, <1>13, <1>14, <1>u

(* The visited job has no process left.                                    *)
LEMMA TerminateStaleStep ==
  ASSUME IInv, NEW j \in Job, TerminateStale(j)
  PROVE IInv'
<1> USE DEF durable, handlers, channel, worker, budget, Visited
<1> USE DEF IInv
<1>1. TypeOK'
  BY DEF TerminateStale, TypeOK, LoopInv
<1>2. SingleWorker'
  BY JobTypes DEF TerminateStale, SingleWorker
<1>3. WorkerIsSupervised'
  BY JobTypes DEF TerminateStale, WorkerIsSupervised, LoopInv, StageInv,
     RecoverInv
<1>8. MintInv'
  BY JobTypes DEF TerminateStale, MintInv, LoopInv, RecoverInv, StageInv
<1>9. LoopInv'
  BY JobTypes DEF TerminateStale, LoopInv, RecoverInv, Waits
<1>10. QueueInv'
  BY JobTypes, QueueTypes DEF TerminateStale, QueueInv, LoopInv, RecoverInv,
     Waits
<1>12. HeldInv'
  BY JobTypes DEF TerminateStale, HeldInv, LoopInv, RecoverInv, LockInv
<1>13. RecoverInv'
  BY JobTypes DEF TerminateStale, RecoverInv, LoopInv, Job
<1>u. StartedOncePerBoot' /\ CompletedHasArtifact' /\ LockInv' /\ StageInv' /\
   DistinctInv' /\ OwnedInv'
  BY DEF TerminateStale, StartedOncePerBoot, CompletedHasArtifact, LockInv,
     StageInv, DistinctInv, OwnedInv, InChannel, InHandler
<1> QED BY <1>1, <1>2, <1>3, <1>8, <1>9, <1>10, <1>12, <1>13, <1>u

(* A job whose stale worker survives is failed and leaves the list.        *)
LEMMA TerminateStaleFailsStep ==
  ASSUME IInv, NEW j \in Job, TerminateStaleFails(j)
  PROVE IInv'
<1> USE DEF handlers, channel, worker, Fault, Visited
<1> USE DEF IInv
<1>1. TypeOK'
  BY ConstantsAssumption DEF TerminateStaleFails, TypeOK, LoopInv, Status,
     Terminal
<1>2. SingleWorker'
  BY JobTypes DEF TerminateStaleFails, SingleWorker
<1>3. WorkerIsSupervised'
  BY JobTypes DEF TerminateStaleFails, WorkerIsSupervised, LoopInv, StageInv,
     RecoverInv
<1>5. CompletedHasArtifact'
  BY JobTypes DEF TerminateStaleFails, CompletedHasArtifact
<1>7. StageInv'
  BY JobTypes DEF TerminateStaleFails, StageInv
<1>8. MintInv'
  BY JobTypes DEF TerminateStaleFails, MintInv, LoopInv, RecoverInv, StageInv,
     Open
<1>9. LoopInv'
  BY JobTypes DEF TerminateStaleFails, LoopInv, RecoverInv, Waits
<1>10. QueueInv'
  BY JobTypes, QueueTypes DEF TerminateStaleFails, QueueInv, LoopInv,
     RecoverInv, Waits
<1>12. HeldInv'
  BY JobTypes DEF TerminateStaleFails, HeldInv, LoopInv, RecoverInv, LockInv
<1>13. RecoverInv'
  BY JobTypes DEF TerminateStaleFails, RecoverInv, LoopInv, Job
<1>14. OwnedInv'
  BY JobTypes DEF TerminateStaleFails, OwnedInv, LoopInv, Job, QueueInv
<1>u. StartedOncePerBoot' /\ LockInv' /\ DistinctInv'
  BY DEF TerminateStaleFails, StartedOncePerBoot, LockInv, DistinctInv
<1> QED BY <1>1, <1>2, <1>3, <1>5, <1>7, <1>8, <1>9, <1>10, <1>12, <1>13,
   <1>14, <1>u

(* The visited job is queued again.                                        *)
LEMMA NoteRecoveredStep ==
  ASSUME IInv, NEW j \in Job, NoteRecovered(j)
  PROVE IInv'
<1> USE DEF handlers, channel, worker, budget, Visited
<1> USE DEF IInv
<1>1. TypeOK'
  BY DEF NoteRecovered, TypeOK, LoopInv, Status, Open
<1>3. WorkerIsSupervised'
  BY JobTypes DEF NoteRecovered, WorkerIsSupervised, LoopInv, StageInv,
     RecoverInv
<1>5. CompletedHasArtifact'
  BY JobTypes DEF NoteRecovered, CompletedHasArtifact
<1>8. MintInv'
  BY JobTypes DEF NoteRecovered, MintInv, LoopInv, RecoverInv, StageInv, Open
<1>9. LoopInv'
  BY JobTypes DEF NoteRecovered, LoopInv, RecoverInv, Waits
<1>10. QueueInv'
  BY JobTypes, QueueTypes DEF NoteRecovered, QueueInv, LoopInv, RecoverInv,
     Waits
<1>12. HeldInv'
  BY JobTypes DEF NoteRecovered, HeldInv, LoopInv, RecoverInv, LockInv
<1>13. RecoverInv'
  BY JobTypes DEF NoteRecovered, RecoverInv, LoopInv, Job, Open
<1>14. OwnedInv'
  BY JobTypes DEF NoteRecovered, OwnedInv, LoopInv, Job, QueueInv, InChannel,
     InHandler
<1>u. SingleWorker' /\ StartedOncePerBoot' /\ LockInv' /\ StageInv' /\
   DistinctInv'
  BY DEF NoteRecovered, SingleWorker, StartedOncePerBoot, LockInv, StageInv,
     DistinctInv
<1> QED BY <1>1, <1>3, <1>5, <1>8, <1>9, <1>10, <1>12, <1>13, <1>14, <1>u

(* The visited job moves from the list to the channel, or fails.           *)
LEMMA SendRecoveredStep ==
  ASSUME IInv, NEW j \in Job, SendRecovered(j)
  PROVE IInv'
<1> USE DEF handlers, worker, budget, Visited
<1> USE DEF IInv
<1>q. queue \in Seq(Job)
  BY DEF TypeOK
<1>b. \/ queue' = Append(queue, j) /\ ledger' = ledger
      \/ queue' = queue /\ ledger' = [ledger EXCEPT ![j] = "failed"]
  BY DEF SendRecovered
<1>s. \/ queue' = queue
      \/ /\ Len(queue') = Len(queue) + 1
         /\ \A i \in 1..Len(queue) : queue'[i] = queue[i]
         /\ queue'[Len(queue) + 1] = j
  BY <1>b
<1>1. TypeOK'
  <2>1. queue' \in Seq(Job)
    BY <1>q, <1>b
  <2>2. ledger' \in [Job -> Status]
    BY <1>b, JobTypes DEF Status, Terminal
  <2> QED
    BY <2>1, <2>2 DEF SendRecovered, TypeOK
<1>3. WorkerIsSupervised'
  <2>1. procs[j] = 0
    BY DEF SendRecovered, RecoverInv
  <2> QED
    BY <2>1 DEF SendRecovered, WorkerIsSupervised
<1>5. CompletedHasArtifact'
  BY JobTypes DEF SendRecovered, CompletedHasArtifact
<1>7. StageInv'
  BY JobTypes DEF SendRecovered, StageInv
<1>8. MintInv'
  <2>1. ledger[j] \in Open
    BY DEF SendRecovered, RecoverInv
  <2> QED
    BY <2>1, JobTypes DEF SendRecovered, MintInv, Open
<1>9. LoopInv'
  BY JobTypes DEF SendRecovered, LoopInv, RecoverInv, Waits
<1>10. QueueInv'
  <2>1. Waits(j) /\ j # cur
    BY DEF SendRecovered, RecoverInv, Waits
  <2>2. CASE queue' = queue /\ ledger' = [ledger EXCEPT ![j] = "failed"]
    BY <2>2 DEF SendRecovered, QueueInv, Waits
  <2>3. CASE queue' = Append(queue, j) /\ ledger' = ledger
    <3>1. \A i \in 1..Len(queue') : i \in 1..Len(queue) \/ queue'[i] = j
      BY <2>3
    <3>2. \A i \in 1..Len(queue) : queue'[i] = queue[i]
      BY <2>3
    <3> QED
      BY <2>1, <2>3 DEF SendRecovered, QueueInv, Waits
  <2> QED
    BY <1>b, <2>2, <2>3
<1>11. DistinctInv'
  <2>1. \A i \in 1..Len(queue) : queue[i] # j
    BY DEF SendRecovered, QueueInv
  <2>2. ASSUME NEW i \in 1..Len(queue'), NEW k \in 1..Len(queue'), i # k
        PROVE  queue'[i] # queue'[k]
    BY <1>s, <2>1, <2>2 DEF DistinctInv
  <2> QED
    BY <2>2 DEF DistinctInv
<1>12. HeldInv'
  BY JobTypes, <1>s DEF SendRecovered, HeldInv, LoopInv, RecoverInv, LockInv
<1>13. RecoverInv'
  BY JobTypes DEF SendRecovered, RecoverInv, LoopInv, Job
<1>14. OwnedInv'
  <2>1. InChannel(j)' \/ ledger'[j] = "failed"
    BY <1>b, JobTypes DEF InChannel
  <2>2. \A k \in Job : InChannel(k) => InChannel(k)'
    BY <1>s DEF InChannel
  <2>3. \A k \in Job : InHandler(k) /\ k # j => InHandler(k)'
    BY DEF SendRecovered, InHandler
  <2>4. \A k \in Job : k # j => ledger'[k] = ledger[k]
    BY <1>b, JobTypes
  <2>5. ledger'[j] \in {"queued", "failed"}
    BY JobTypes DEF SendRecovered, RecoverInv
  <2> QED
    BY <2>1, <2>2, <2>3, <2>4, <2>5 DEF SendRecovered, OwnedInv
<1>u. SingleWorker' /\ StartedOncePerBoot' /\ LockInv'
  BY DEF SendRecovered, SingleWorker, StartedOncePerBoot, LockInv
<1> QED BY <1>1, <1>3, <1>5, <1>7, <1>8, <1>9, <1>10, <1>11, <1>12, <1>13,
   <1>14, <1>u

(* Recovery ends with an empty list.                                       *)
LEMMA ServeStep ==
  ASSUME IInv, Serve
  PROVE IInv'
<1> USE DEF durable, handlers, channel, recovery, worker, budget
<1> USE DEF IInv
<1>1. TypeOK'
  BY DEF Serve, TypeOK, LoopInv
<1>3. WorkerIsSupervised'
  BY JobTypes DEF Serve, WorkerIsSupervised
<1>6. LockInv'
  BY DEF Serve, LockInv
<1>7. StageInv'
  BY JobTypes DEF Serve, StageInv
<1>13. RecoverInv'
  BY JobTypes DEF Serve, RecoverInv, Visited
<1>14. OwnedInv'
  BY JobTypes DEF Serve, OwnedInv, LoopInv, InChannel, InHandler
<1>u. SingleWorker' /\ StartedOncePerBoot' /\ CompletedHasArtifact' /\ MintInv'
   /\ LoopInv' /\ QueueInv' /\ DistinctInv' /\ HeldInv'
  BY DEF Serve, SingleWorker, StartedOncePerBoot, CompletedHasArtifact,
     MintInv, LoopInv, QueueInv, DistinctInv, HeldInv, Waits
<1> QED BY <1>1, <1>3, <1>6, <1>7, <1>13, <1>14, <1>u

(* The head of the channel moves to the loop.                              *)
LEMMA ReceiveStep ==
  ASSUME IInv, Receive
  PROVE IInv'
<1> USE DEF durable, handlers, recovery, budget
<1> USE DEF IInv
<1>s. /\ Len(queue') = Len(queue) - 1
      /\ Len(queue) \in Nat \ {0}
      /\ \A i \in 1..Len(queue') : queue'[i] = queue[i + 1]
      /\ cur' = queue[1] /\ cur' \in Job
      /\ queue' \in Seq(Job)
  BY DEF Receive, TypeOK
<1>1. TypeOK'
  BY <1>s DEF Receive, TypeOK
<1>3. WorkerIsSupervised'
  BY JobTypes DEF Receive, WorkerIsSupervised, LoopInv, StageInv
<1>7. StageInv'
  BY JobTypes DEF Receive, StageInv
<1>9. LoopInv'
  BY JobTypes DEF Receive, LoopInv, QueueInv, Waits
<1>10. QueueInv'
  BY DEF Receive, QueueInv, DistinctInv, Waits
<1>11. DistinctInv'
  BY <1>s DEF DistinctInv
<1>12. HeldInv'
  <2>1. \A d \in Client : pc[d] = "send" => holds[d].job # cur'
    BY <1>s DEF HeldInv
  <2>2. \A d \in Client : pc[d] = "send" =>
          \A i \in 1..Len(queue') : queue'[i] # holds[d].job
    BY <1>s DEF HeldInv
  <2> QED
    BY DEF Receive, HeldInv, Waits
<1>13. RecoverInv'
  BY DEF Receive, RecoverInv, QueueInv, Visited
<1>14. OwnedInv'
  <2>1. ASSUME NEW k \in Job, NEW i \in 1..Len(queue), queue[i] = k, k # cur'
        PROVE  InChannel(k)'
    <3>1. i # 1 /\ i - 1 \in 1..Len(queue') /\ queue'[i - 1] = k
      BY <1>s, <2>1
    <3> QED
      BY <3>1 DEF InChannel
  <2>2. \A k \in Job : InChannel(k) => InChannel(k)' \/ cur' = k
    BY <2>1 DEF InChannel
  <2>3. \A k \in Job : InHandler(k) => InHandler(k)'
    BY DEF Receive, InHandler
  <2>4. cur = NoJob /\ NoJob \notin Job
    BY DEF Receive, LoopInv, NoJob, Job
  <2> QED
    BY <2>2, <2>3, <2>4 DEF Receive, OwnedInv
<1>u. SingleWorker' /\ StartedOncePerBoot' /\ CompletedHasArtifact' /\ LockInv'
   /\ MintInv'
  BY DEF Receive, SingleWorker, StartedOncePerBoot, CompletedHasArtifact,
     LockInv, MintInv
<1> QED BY <1>1, <1>3, <1>7, <1>9, <1>10, <1>11, <1>12, <1>13, <1>14, <1>u

(* The received job was not started yet in this life of the daemon.        *)
LEMMA StartJobStep ==
  ASSUME IInv, StartJob
  PROVE IInv'
<1> USE DEF handlers, channel, recovery, budget
<1> USE DEF IInv
<1>a. cur \in Job
  BY DEF StartJob, TypeOK, LoopInv
<1>1. TypeOK'
  BY <1>a DEF StartJob, TypeOK, LoopInv, Status, Open
<1>3. WorkerIsSupervised'
  BY JobTypes, <1>a DEF StartJob, WorkerIsSupervised, StageInv
<1>4. StartedOncePerBoot'
  BY JobTypes, <1>a DEF StartJob, StartedOncePerBoot, LoopInv, Waits
<1>5. CompletedHasArtifact'
  BY JobTypes, <1>a DEF StartJob, CompletedHasArtifact
<1>7. StageInv'
  BY JobTypes, <1>a DEF StartJob, StageInv
<1>8. MintInv'
  BY JobTypes, <1>a DEF StartJob, MintInv, LoopInv, Waits
<1>9. LoopInv'
  BY JobTypes, <1>a DEF StartJob, LoopInv, CompletedHasArtifact, Open
<1>10. QueueInv'
  BY JobTypes, QueueTypes, <1>a DEF StartJob, QueueInv, Waits
<1>12. HeldInv'
  BY JobTypes, <1>a DEF StartJob, HeldInv, Waits
<1>13. RecoverInv'
  BY JobTypes, <1>a DEF StartJob, RecoverInv, Visited
<1>14. OwnedInv'
  BY JobTypes, <1>a DEF StartJob, OwnedInv, InChannel, InHandler
<1>u. SingleWorker' /\ LockInv' /\ DistinctInv'
  BY DEF StartJob, SingleWorker, LockInv, DistinctInv
<1> QED BY <1>1, <1>3, <1>4, <1>5, <1>7, <1>8, <1>9, <1>10, <1>12, <1>13,
   <1>14, <1>u

(* Set-up leaves the job running, without a process.                       *)
LEMMA SetUpStep ==
  ASSUME IInv, SetUp
  PROVE IInv'
<1> USE DEF handlers, channel, recovery, budget
<1> USE DEF IInv
<1>a. cur \in Job
  BY DEF SetUp, TypeOK, LoopInv
<1>1. TypeOK'
  BY <1>a DEF SetUp, TypeOK, LoopInv
<1>3. WorkerIsSupervised'
  BY JobTypes, <1>a DEF SetUp, WorkerIsSupervised, StageInv
<1>5. CompletedHasArtifact'
  BY JobTypes, <1>a DEF SetUp, CompletedHasArtifact
<1>7. StageInv'
  BY JobTypes, <1>a DEF SetUp, StageInv
<1>8. MintInv'
  <2>1. ledger[cur] = "running"
    BY DEF SetUp, LoopInv
  <2>2. ledger' = ledger
    BY <2>1 DEF SetUp, TypeOK
  <2> QED
    BY <2>2 DEF SetUp, MintInv
<1>9. LoopInv'
  BY JobTypes DEF SetUp, LoopInv
<1>10. QueueInv'
  BY JobTypes, QueueTypes, <1>a DEF SetUp, QueueInv, Waits
<1>12. HeldInv'
  BY JobTypes, <1>a DEF SetUp, HeldInv, LoopInv, Waits
<1>13. RecoverInv'
  BY JobTypes, <1>a DEF SetUp, RecoverInv, Visited
<1>14. OwnedInv'
  BY JobTypes, <1>a DEF SetUp, OwnedInv, InChannel, InHandler
<1>u. SingleWorker' /\ StartedOncePerBoot' /\ LockInv' /\ DistinctInv'
  BY DEF SetUp, SingleWorker, StartedOncePerBoot, LockInv, DistinctInv
<1> QED BY <1>1, <1>3, <1>5, <1>7, <1>8, <1>9, <1>10, <1>12, <1>13, <1>14, <1>u

(* The job had no process, so it has one now.                              *)
LEMMA SpawnStep ==
  ASSUME IInv, Spawn
  PROVE IInv'
<1> USE DEF durable, handlers, channel, recovery, budget
<1> USE DEF IInv
<1>a. cur \in Job
  BY DEF Spawn, TypeOK, LoopInv
<1>1. TypeOK'
  <2>1. procs' = procs \/ procs' = [procs EXCEPT ![cur] = procs[cur] + 1]
    BY DEF Spawn
  <2>2. procs' \in [Job -> Nat]
    BY <2>1, JobTypes
  <2> QED
    BY <2>2 DEF Spawn, TypeOK
<1>2. SingleWorker'
  <2>1. procs[cur] = 0 /\ procs \in [Job -> Nat]
    BY DEF Spawn, TypeOK, LoopInv
  <2> QED
    BY <2>1 DEF Spawn, SingleWorker
<1>3. WorkerIsSupervised'
  BY JobTypes, <1>a DEF Spawn, WorkerIsSupervised, StageInv
<1>7. StageInv'
  BY JobTypes, <1>a DEF Spawn, StageInv
<1>8. MintInv'
  <2>1. ledger[cur] # "none" /\ procs \in [Job -> Nat]
    BY DEF Spawn, TypeOK, LoopInv
  <2> QED
    BY <2>1 DEF Spawn, MintInv
<1>9. LoopInv'
  BY JobTypes DEF Spawn, LoopInv
<1>10. QueueInv'
  BY JobTypes, QueueTypes, <1>a DEF Spawn, QueueInv, Waits
<1>12. HeldInv'
  <2>1. \A k \in Job : k # cur /\ Waits(k) => Waits(k)'
    BY JobTypes DEF Spawn, Waits
  <2> QED
    BY <2>1, HeldTypes DEF Spawn, HeldInv
<1>13. RecoverInv'
  BY JobTypes, <1>a DEF Spawn, RecoverInv, Visited
<1>14. OwnedInv'
  BY JobTypes, <1>a DEF Spawn, OwnedInv, InChannel, InHandler
<1>u. StartedOncePerBoot' /\ CompletedHasArtifact' /\ LockInv' /\ DistinctInv'
  BY DEF Spawn, StartedOncePerBoot, CompletedHasArtifact, LockInv, DistinctInv
<1> QED BY <1>1, <1>2, <1>3, <1>7, <1>8, <1>9, <1>10, <1>12, <1>13, <1>14, <1>u

(* The loop's child is the job's only process.                             *)
LEMMA ChildExitsStep ==
  ASSUME IInv, ChildExits
  PROVE IInv'
<1> USE DEF durable, handlers, channel, recovery, budget
<1> USE DEF IInv
<1>a. cur \in Job
  BY DEF ChildExits, TypeOK, LoopInv
<1>1. TypeOK'
  BY <1>a DEF ChildExits, TypeOK, LoopInv
<1>2. SingleWorker'
  BY JobTypes, <1>a DEF ChildExits, SingleWorker
<1>3. WorkerIsSupervised'
  BY JobTypes, <1>a DEF ChildExits, WorkerIsSupervised, LoopInv, StageInv
<1>8. MintInv'
  BY JobTypes, <1>a DEF ChildExits, MintInv, LoopInv
<1>9. LoopInv'
  BY JobTypes DEF ChildExits, LoopInv
<1>10. QueueInv'
  BY JobTypes, QueueTypes, <1>a DEF ChildExits, QueueInv, Waits
<1>12. HeldInv'
  BY JobTypes, <1>a DEF ChildExits, HeldInv, Waits
<1>13. RecoverInv'
  BY JobTypes, <1>a DEF ChildExits, RecoverInv, Visited
<1>u. StartedOncePerBoot' /\ CompletedHasArtifact' /\ LockInv' /\ StageInv' /\
   DistinctInv' /\ OwnedInv'
  BY DEF ChildExits, StartedOncePerBoot, CompletedHasArtifact, LockInv,
     StageInv, DistinctInv, OwnedInv, InChannel, InHandler
<1> QED BY <1>1, <1>2, <1>3, <1>8, <1>9, <1>10, <1>12, <1>13, <1>u

(* The loop has seen its child end.                                        *)
LEMMA PollExitedStep ==
  ASSUME IInv, PollExited
  PROVE IInv'
<1> USE DEF durable, handlers, channel, recovery, budget
<1> USE DEF IInv
<1>a. cur \in Job
  BY DEF PollExited, TypeOK, LoopInv
<1>1. TypeOK'
  BY <1>a DEF PollExited, TypeOK, LoopInv
<1>3. WorkerIsSupervised'
  BY JobTypes, <1>a DEF PollExited, WorkerIsSupervised, StageInv
<1>7. StageInv'
  BY JobTypes, <1>a DEF PollExited, StageInv
<1>9. LoopInv'
  BY JobTypes DEF PollExited, LoopInv
<1>14. OwnedInv'
  BY JobTypes, <1>a DEF PollExited, OwnedInv, InChannel, InHandler
<1>u. SingleWorker' /\ StartedOncePerBoot' /\ CompletedHasArtifact' /\ LockInv'
   /\ MintInv' /\ QueueInv' /\ DistinctInv' /\ HeldInv' /\ RecoverInv'
  BY DEF PollExited, SingleWorker, StartedOncePerBoot, CompletedHasArtifact,
     LockInv, MintInv, QueueInv, DistinctInv, HeldInv, RecoverInv, Waits,
     Visited
<1> QED BY <1>1, <1>3, <1>7, <1>9, <1>14, <1>u

(* The killed child was the job's only process.                            *)
LEMMA PollTimeoutStep ==
  ASSUME IInv, PollTimeout
  PROVE IInv'
<1> USE DEF durable, handlers, channel, recovery, budget
<1> USE DEF IInv
<1>a. cur \in Job
  BY DEF PollTimeout, TypeOK, LoopInv
<1>1. TypeOK'
  BY <1>a DEF PollTimeout, TypeOK, LoopInv
<1>2. SingleWorker'
  BY JobTypes, <1>a DEF PollTimeout, SingleWorker
<1>3. WorkerIsSupervised'
  BY JobTypes, <1>a DEF PollTimeout, WorkerIsSupervised, LoopInv, StageInv
<1>7. StageInv'
  BY JobTypes, <1>a DEF PollTimeout, StageInv
<1>8. MintInv'
  BY JobTypes, <1>a DEF PollTimeout, MintInv, LoopInv
<1>9. LoopInv'
  BY JobTypes DEF PollTimeout, LoopInv
<1>10. QueueInv'
  BY JobTypes, QueueTypes, <1>a DEF PollTimeout, QueueInv, Waits
<1>12. HeldInv'
  BY JobTypes, <1>a DEF PollTimeout, HeldInv, Waits
<1>13. RecoverInv'
  BY JobTypes, <1>a DEF PollTimeout, RecoverInv, Visited
<1>14. OwnedInv'
  BY JobTypes, <1>a DEF PollTimeout, OwnedInv, InChannel, InHandler
<1>u. StartedOncePerBoot' /\ CompletedHasArtifact' /\ LockInv' /\ DistinctInv'
  BY DEF PollTimeout, StartedOncePerBoot, CompletedHasArtifact, LockInv,
     DistinctInv
<1> QED BY <1>1, <1>2, <1>3, <1>7, <1>8, <1>9, <1>10, <1>12, <1>13, <1>14, <1>u

(* A failed poll is a failure: supervision is not claimed any more.        *)
LEMMA PollFailsStep ==
  ASSUME IInv, PollFails
  PROVE IInv'
<1> USE DEF durable, handlers, channel, recovery, Fault
<1> USE DEF IInv
<1>a. cur \in Job
  BY DEF PollFails, TypeOK, LoopInv
<1>1. TypeOK'
  BY <1>a, ConstantsAssumption DEF PollFails, TypeOK, LoopInv
<1>3. WorkerIsSupervised'
  BY JobTypes, <1>a DEF PollFails, WorkerIsSupervised
<1>7. StageInv'
  BY JobTypes, <1>a DEF PollFails, StageInv
<1>9. LoopInv'
  BY JobTypes DEF PollFails, LoopInv
<1>14. OwnedInv'
  BY JobTypes, <1>a DEF PollFails, OwnedInv
<1>u. SingleWorker' /\ StartedOncePerBoot' /\ CompletedHasArtifact' /\ LockInv'
   /\ MintInv' /\ QueueInv' /\ DistinctInv' /\ HeldInv' /\ RecoverInv'
  BY DEF PollFails, SingleWorker, StartedOncePerBoot, CompletedHasArtifact,
     LockInv, MintInv, QueueInv, DistinctInv, HeldInv, RecoverInv, Waits,
     Visited
<1> QED BY <1>1, <1>3, <1>7, <1>9, <1>14, <1>u

(* The run under way had not appended its artifact yet.                    *)
LEMMA AppendArtifactStep ==
  ASSUME IInv, AppendArtifact
  PROVE IInv'
<1> USE DEF handlers, channel, recovery, budget
<1> USE DEF IInv
<1>a. cur \in Job
  BY DEF AppendArtifact, TypeOK, LoopInv
<1>1. TypeOK'
  BY <1>a DEF AppendArtifact, TypeOK, LoopInv
<1>5. CompletedHasArtifact'
  BY JobTypes, <1>a DEF AppendArtifact, CompletedHasArtifact, LoopInv
<1>7. StageInv'
  BY JobTypes, <1>a DEF AppendArtifact, StageInv
<1>8. MintInv'
  BY JobTypes, <1>a DEF AppendArtifact, MintInv, LoopInv
<1>9. LoopInv'
  BY JobTypes DEF AppendArtifact, LoopInv
<1>14. OwnedInv'
  BY JobTypes, <1>a DEF AppendArtifact, OwnedInv, InChannel, InHandler
<1>u. SingleWorker' /\ WorkerIsSupervised' /\ StartedOncePerBoot' /\ LockInv'
   /\ QueueInv' /\ DistinctInv' /\ HeldInv' /\ RecoverInv'
  BY DEF AppendArtifact, SingleWorker, WorkerIsSupervised, StartedOncePerBoot,
     LockInv, QueueInv, DistinctInv, HeldInv, RecoverInv, RecoverableJobs,
     Waits, Visited
<1> QED BY <1>1, <1>5, <1>7, <1>8, <1>9, <1>14, <1>u

(* The job completes after its artifact, with no process left.             *)
LEMMA AppendCompletedStep ==
  ASSUME IInv, AppendCompleted
  PROVE IInv'
<1> USE DEF handlers, channel, recovery, budget, Conclude
<1> USE DEF IInv
<1>a. cur \in Job
  BY DEF AppendCompleted, TypeOK, LoopInv
<1>1. TypeOK'
  BY <1>a DEF AppendCompleted, TypeOK, LoopInv, Status, Terminal
<1>3. WorkerIsSupervised'
  BY JobTypes, <1>a DEF AppendCompleted, WorkerIsSupervised, LoopInv, StageInv
<1>5. CompletedHasArtifact'
  BY JobTypes, <1>a DEF AppendCompleted, CompletedHasArtifact, LoopInv
<1>7. StageInv'
  BY JobTypes, <1>a DEF AppendCompleted, StageInv
<1>8. MintInv'
  BY JobTypes, <1>a DEF AppendCompleted, MintInv, LoopInv
<1>9. LoopInv'
  BY JobTypes DEF AppendCompleted, LoopInv
<1>10. QueueInv'
  BY JobTypes, QueueTypes, <1>a DEF AppendCompleted, QueueInv, Job, NoJob,
     Waits
<1>12. HeldInv'
  BY JobTypes, <1>a DEF AppendCompleted, HeldInv, Waits, NoJob
<1>13. RecoverInv'
  BY JobTypes, <1>a DEF AppendCompleted, RecoverInv, Job, NoJob, Visited
<1>14. OwnedInv'
  BY JobTypes, <1>a DEF AppendCompleted, OwnedInv, InChannel, InHandler
<1>u. SingleWorker' /\ StartedOncePerBoot' /\ LockInv' /\ DistinctInv'
  BY DEF AppendCompleted, SingleWorker, StartedOncePerBoot, LockInv,
     DistinctInv
<1> QED BY <1>1, <1>3, <1>5, <1>7, <1>8, <1>9, <1>10, <1>12, <1>13, <1>14, <1>u

(* The job fails with no process left.                                     *)
LEMMA FinishFailedStep ==
  ASSUME IInv, FinishFailed
  PROVE IInv'
<1> USE DEF handlers, channel, recovery, budget, Conclude
<1> USE DEF IInv
<1>a. cur \in Job
  BY DEF FinishFailed, TypeOK, LoopInv
<1>1. TypeOK'
  BY <1>a DEF FinishFailed, TypeOK, LoopInv, Status, Terminal
<1>3. WorkerIsSupervised'
  BY JobTypes, <1>a DEF FinishFailed, WorkerIsSupervised, LoopInv, StageInv
<1>5. CompletedHasArtifact'
  BY JobTypes, <1>a DEF FinishFailed, CompletedHasArtifact
<1>7. StageInv'
  BY JobTypes, <1>a DEF FinishFailed, StageInv
<1>8. MintInv'
  BY JobTypes, <1>a DEF FinishFailed, MintInv, LoopInv
<1>9. LoopInv'
  BY JobTypes DEF FinishFailed, LoopInv
<1>10. QueueInv'
  BY JobTypes, QueueTypes, <1>a DEF FinishFailed, QueueInv, Job, NoJob, Waits
<1>12. HeldInv'
  BY JobTypes, <1>a DEF FinishFailed, HeldInv, Waits, NoJob
<1>13. RecoverInv'
  BY JobTypes, <1>a DEF FinishFailed, RecoverInv, Job, NoJob, Visited
<1>14. OwnedInv'
  BY JobTypes, <1>a DEF FinishFailed, OwnedInv, InChannel, InHandler
<1>u. SingleWorker' /\ StartedOncePerBoot' /\ LockInv' /\ DistinctInv'
  BY DEF FinishFailed, SingleWorker, StartedOncePerBoot, LockInv, DistinctInv
<1> QED BY <1>1, <1>3, <1>5, <1>7, <1>8, <1>9, <1>10, <1>12, <1>13, <1>14, <1>u

(* The loop records a failure of run_job.                                  *)
LEMMA EmitJobFailedStep ==
  ASSUME IInv, EmitJobFailed
  PROVE IInv'
<1> USE DEF handlers, channel, recovery, budget, Conclude
<1> USE DEF IInv
<1>a. cur \in Job
  BY DEF EmitJobFailed, TypeOK, LoopInv
<1>1. TypeOK'
  BY <1>a DEF EmitJobFailed, TypeOK, LoopInv, Status, Terminal
<1>3. WorkerIsSupervised'
  BY JobTypes, <1>a DEF EmitJobFailed, WorkerIsSupervised, LoopInv, StageInv
<1>5. CompletedHasArtifact'
  BY JobTypes, <1>a DEF EmitJobFailed, CompletedHasArtifact
<1>7. StageInv'
  BY JobTypes, <1>a DEF EmitJobFailed, StageInv
<1>8. MintInv'
  BY JobTypes, <1>a DEF EmitJobFailed, MintInv, LoopInv, Open
<1>9. LoopInv'
  BY JobTypes DEF EmitJobFailed, LoopInv
<1>10. QueueInv'
  BY JobTypes, QueueTypes, <1>a DEF EmitJobFailed, QueueInv, Job, NoJob, Waits
<1>12. HeldInv'
  BY JobTypes, <1>a DEF EmitJobFailed, HeldInv, Waits, NoJob
<1>13. RecoverInv'
  BY JobTypes, <1>a DEF EmitJobFailed, RecoverInv, Job, NoJob, Visited
<1>14. OwnedInv'
  BY JobTypes, <1>a DEF EmitJobFailed, OwnedInv, InChannel, InHandler
<1>u. SingleWorker' /\ StartedOncePerBoot' /\ LockInv' /\ DistinctInv'
  BY DEF EmitJobFailed, SingleWorker, StartedOncePerBoot, LockInv, DistinctInv
<1> QED BY <1>1, <1>3, <1>5, <1>7, <1>8, <1>9, <1>10, <1>12, <1>13, <1>14, <1>u

(* A failed append is a failure: ownership is not claimed any more.        *)
LEMMA RunJobFailsStep ==
  ASSUME IInv, RunJobFails
  PROVE IInv'
<1> USE DEF durable, handlers, channel, recovery, Fault
<1> USE DEF IInv
<1>a. cur \in Job
  BY DEF RunJobFails, TypeOK, LoopInv
<1>1. TypeOK'
  BY <1>a, ConstantsAssumption DEF RunJobFails, TypeOK, LoopInv
<1>3. WorkerIsSupervised'
  BY JobTypes, <1>a DEF RunJobFails, WorkerIsSupervised
<1>7. StageInv'
  BY JobTypes, <1>a DEF RunJobFails, StageInv
<1>9. LoopInv'
  BY JobTypes DEF RunJobFails, LoopInv, Waits, Open
<1>14. OwnedInv'
  BY JobTypes, <1>a DEF RunJobFails, OwnedInv
<1>u. SingleWorker' /\ StartedOncePerBoot' /\ CompletedHasArtifact' /\ LockInv'
   /\ MintInv' /\ QueueInv' /\ DistinctInv' /\ HeldInv' /\ RecoverInv'
  BY DEF RunJobFails, SingleWorker, StartedOncePerBoot, CompletedHasArtifact,
     LockInv, MintInv, QueueInv, DistinctInv, HeldInv, RecoverInv, Waits,
     Visited
<1> QED BY <1>1, <1>3, <1>7, <1>9, <1>14, <1>u

(* The loop gives the job up.                                              *)
LEMMA EmitJobFailedFailsStep ==
  ASSUME IInv, EmitJobFailedFails
  PROVE IInv'
<1> USE DEF durable, handlers, channel, recovery, Fault
<1> USE DEF IInv
<1>a. cur \in Job
  BY DEF EmitJobFailedFails, TypeOK, LoopInv
<1>1. TypeOK'
  BY <1>a, ConstantsAssumption DEF EmitJobFailedFails, TypeOK, LoopInv
<1>3. WorkerIsSupervised'
  BY JobTypes, <1>a DEF EmitJobFailedFails, WorkerIsSupervised
<1>7. StageInv'
  BY JobTypes, <1>a DEF EmitJobFailedFails, StageInv
<1>9. LoopInv'
  BY JobTypes DEF EmitJobFailedFails, LoopInv
<1>10. QueueInv'
  BY JobTypes, QueueTypes, <1>a DEF EmitJobFailedFails, QueueInv, Job, NoJob,
     Waits
<1>12. HeldInv'
  BY JobTypes, <1>a DEF EmitJobFailedFails, HeldInv, Waits, NoJob
<1>13. RecoverInv'
  BY JobTypes, <1>a DEF EmitJobFailedFails, RecoverInv, Job, NoJob, Visited
<1>14. OwnedInv'
  BY JobTypes, <1>a DEF EmitJobFailedFails, OwnedInv
<1>u. SingleWorker' /\ StartedOncePerBoot' /\ CompletedHasArtifact' /\ LockInv'
   /\ MintInv' /\ DistinctInv'
  BY DEF EmitJobFailedFails, SingleWorker, StartedOncePerBoot,
     CompletedHasArtifact, LockInv, MintInv, DistinctInv
<1> QED BY <1>1, <1>3, <1>7, <1>9, <1>10, <1>12, <1>13, <1>14, <1>u

(* The channel is lost, which only a failure may do.                       *)
LEMMA LoopDiesStep ==
  ASSUME IInv, LoopDies
  PROVE IInv'
<1> USE DEF durable, handlers, recovery, worker, Fault
<1> USE DEF IInv
<1>1. TypeOK'
  <2>1. queue' \in Seq(Job)
    BY DEF LoopDies
  <2>5. crashes' \in 0..MaxCrashes /\ faults' \in 0..MaxFaults
    BY ConstantsAssumption DEF LoopDies, TypeOK
  <2> QED
    BY <2>1, <2>5 DEF LoopDies, TypeOK
<1>3. WorkerIsSupervised'
  BY JobTypes DEF LoopDies, WorkerIsSupervised
<1>7. StageInv'
  BY JobTypes DEF LoopDies, StageInv
<1>10. QueueInv'
  BY JobTypes, QueueTypes DEF LoopDies, QueueInv
<1>11. DistinctInv'
  BY DEF LoopDies, DistinctInv
<1>12. HeldInv'
  BY JobTypes DEF LoopDies, HeldInv, Waits
<1>14. OwnedInv'
  BY JobTypes DEF LoopDies, OwnedInv
<1>u. SingleWorker' /\ StartedOncePerBoot' /\ CompletedHasArtifact' /\ LockInv'
   /\ MintInv' /\ LoopInv' /\ RecoverInv'
  BY DEF LoopDies, SingleWorker, StartedOncePerBoot, CompletedHasArtifact,
     LockInv, MintInv, LoopInv, RecoverInv, Visited
<1> QED BY <1>1, <1>3, <1>7, <1>10, <1>11, <1>12, <1>14, <1>u

(* A process nobody polls ends.                                            *)
LEMMA OrphanExitsStep ==
  ASSUME IInv, NEW j \in Job, OrphanExits(j)
  PROVE IInv'
<1> USE DEF durable, handlers, channel, recovery, worker, budget
<1> USE DEF IInv
<1>1. TypeOK'
  <2>1. procs' \in [Job -> Nat]
    BY DEF OrphanExits, TypeOK
  <2> QED
    BY <2>1 DEF OrphanExits, TypeOK
<1>2. SingleWorker'
  BY JobTypes DEF OrphanExits, SingleWorker
<1>3. WorkerIsSupervised'
  BY JobTypes DEF OrphanExits, WorkerIsSupervised, RecoverableJobs
<1>8. MintInv'
  BY JobTypes DEF OrphanExits, MintInv, LoopInv
<1>9. LoopInv'
  BY DEF OrphanExits, LoopInv, Waits
<1>10. QueueInv'
  BY JobTypes, QueueTypes DEF OrphanExits, QueueInv, Waits
<1>12. HeldInv'
  BY JobTypes DEF OrphanExits, HeldInv, Waits
<1>13. RecoverInv'
  BY JobTypes DEF OrphanExits, RecoverInv, Visited
<1>u. StartedOncePerBoot' /\ CompletedHasArtifact' /\ LockInv' /\ StageInv' /\
   DistinctInv' /\ OwnedInv'
  BY DEF OrphanExits, StartedOncePerBoot, CompletedHasArtifact, LockInv,
     StageInv, DistinctInv, OwnedInv, InChannel, InHandler
<1> QED BY <1>1, <1>2, <1>3, <1>8, <1>9, <1>10, <1>12, <1>13, <1>u

(* Only the ledger and the processes stay: what was started is now a start *)
(* of an earlier life.                                                     *)
LEMMA CrashStep ==
  ASSUME IInv, Crash
  PROVE IInv'
<1> USE DEF durable, NoHold
<1> USE DEF IInv
<1>1. TypeOK'
  <2>1. queue' \in Seq(Job)
    BY DEF Crash
  <2>2. holds' \in [Client -> Holding]
    BY DEF Crash, Holding
  <2>5. crashes' \in 0..MaxCrashes /\ faults' \in 0..MaxFaults
    BY ConstantsAssumption DEF Crash, TypeOK
  <2> QED
    BY <2>1, <2>2, <2>5 DEF Crash, TypeOK
<1>3. WorkerIsSupervised'
  BY JobTypes DEF Crash, WorkerIsSupervised, LoopInv, StageInv, RecoverInv,
     RecoverableJobs
<1>4. StartedOncePerBoot'
  BY JobTypes DEF Crash, StartedOncePerBoot
<1>6. LockInv'
  BY DEF Crash, LockInv
<1>7. StageInv'
  BY JobTypes DEF Crash, StageInv, StartedOncePerBoot
<1>9. LoopInv'
  BY DEF Crash, LoopInv
<1>10. QueueInv'
  BY JobTypes, QueueTypes DEF Crash, QueueInv
<1>11. DistinctInv'
  BY DEF Crash, DistinctInv
<1>12. HeldInv'
  BY JobTypes DEF Crash, HeldInv
<1>13. RecoverInv'
  BY JobTypes DEF Crash, RecoverInv
<1>14. OwnedInv'
  BY JobTypes DEF Crash, OwnedInv, LoopInv
<1>u. SingleWorker' /\ CompletedHasArtifact' /\ MintInv'
  BY DEF Crash, SingleWorker, CompletedHasArtifact, MintInv
<1> QED BY <1>1, <1>3, <1>4, <1>6, <1>7, <1>9, <1>10, <1>11, <1>12, <1>13,
   <1>14, <1>u

(* The initial state satisfies the inductive invariant.                    *)
LEMMA InitIInv == Init => IInv
<1> SUFFICES ASSUME Init PROVE IInv
  OBVIOUS
<1>1. TypeOK
  <2>1. queue \in Seq(Job) /\ holds \in [Client -> Holding]
    BY DEF Init, Holding, NoHold
  <2>2. minted \in 0..MaxJobs /\ crashes \in 0..MaxCrashes /\ faults \in 0..MaxFaults
    BY ConstantsAssumption DEF Init
  <2>3. ignores \in [Proposal -> 0..MaxIgnores]
    BY ConstantsAssumption DEF Init
  <2> QED
    BY <2>1, <2>2, <2>3 DEF Init, TypeOK, Status
<1>2. QueueInv /\ DistinctInv /\ HeldInv
  BY DEF Init, QueueInv, DistinctInv, HeldInv
<1>3. LockInv /\ StageInv /\ MintInv /\ LoopInv /\ RecoverInv /\ OwnedInv
  BY DEF Init, LockInv, StageInv, MintInv, LoopInv, RecoverInv, OwnedInv,
     NoJob, Visited, Terminal, Open
<1>4. SingleWorker /\ WorkerIsSupervised /\ StartedOncePerBoot /\ CompletedHasArtifact
  BY DEF Init, SingleWorker, WorkerIsSupervised, StartedOncePerBoot,
     CompletedHasArtifact
<1> QED
  BY <1>1, <1>2, <1>3, <1>4 DEF IInv

(* A step that changes no variable preserves the inductive invariant.      *)
LEMMA StutterIInv ==
  ASSUME IInv, UNCHANGED vars
  PROVE  IInv'
<1> USE DEF vars, durable, handlers, channel, recovery, worker, budget
<1>1. /\ TypeOK' /\ SingleWorker' /\ WorkerIsSupervised'
      /\ StartedOncePerBoot' /\ CompletedHasArtifact'
  BY DEF IInv, TypeOK, SingleWorker, WorkerIsSupervised, RecoverableJobs,
         StartedOncePerBoot, CompletedHasArtifact
<1>2. LockInv' /\ StageInv' /\ MintInv' /\ LoopInv' /\ QueueInv' /\ DistinctInv'
  BY DEF IInv, LockInv, StageInv, MintInv, LoopInv, Waits, QueueInv,
     DistinctInv
<1>3. HeldInv' /\ RecoverInv' /\ OwnedInv'
  BY DEF IInv, HeldInv, Waits, RecoverInv, Visited, OwnedInv, InChannel,
         InHandler
<1> QED
  BY <1>1, <1>2, <1>3 DEF IInv

(* Every step preserves the inductive invariant.                           *)
LEMMA NextIInv ==
  ASSUME IInv, [Next]_vars
  PROVE  IInv'
<1>1. CASE \E c \in Client, p \in Proposal : Approve(c, p) \/ Ignore(c, p)
  BY <1>1, ApproveStep, IgnoreStep
<1>2. CASE \E c \in Client : HandlerStep(c)
  BY <1>2, RequestJobStep, SendJobStep DEF HandlerStep
<1>3. CASE Boot
  BY <1>3, BootStep
<1>4. CASE Recover
  BY <1>4, TerminateStaleStep, NoteRecoveredStep, SendRecoveredStep, ServeStep
     DEF Recover
<1>5. CASE LoopStep
  BY <1>5, ReceiveStep, StartJobStep, SetUpStep, SpawnStep, PollExitedStep,
     PollTimeoutStep, AppendArtifactStep, AppendCompletedStep, FinishFailedStep,
     EmitJobFailedStep
     DEF LoopStep
<1>6. CASE Failures
  BY <1>6, RequestJobFailsStep, SendJobFailsStep, TerminateStaleFailsStep,
     PollFailsStep, RunJobFailsStep, EmitJobFailedFailsStep, LoopDiesStep
     DEF Failures
<1>7. CASE ChildExits
  BY <1>7, ChildExitsStep
<1>8. CASE \E j \in Job : OrphanExits(j)
  BY <1>8, OrphanExitsStep
<1>9. CASE Crash
  BY <1>9, CrashStep
<1>10. CASE UNCHANGED vars
  BY <1>10, StutterIInv
<1> QED
  BY <1>1, <1>2, <1>3, <1>4, <1>5, <1>6, <1>7, <1>8, <1>9, <1>10 DEF Next

(* The inductive invariant holds in every reachable state of the daemon,   *)
(* whatever the number of handlers, jobs, restarts and failures.           *)
THEOREM Invariance == Spec => []IInv
<1>1. Init => IInv
  BY InitIInv
<1>2. IInv /\ [Next]_vars => IInv'
  BY NextIInv
<1> QED
  BY <1>1, <1>2, PTL DEF Spec

(* Every variable keeps its type.                                          *)
THEOREM TypeCorrect == Spec => []TypeOK
<1>1. IInv => TypeOK
  BY DEF IInv
<1> QED
  BY <1>1, Invariance, PTL

(* A job never has two live worker processes, because recovery ends a      *)
(* stale one before the job is sent and one loop spawns.                   *)
THEOREM SingleWorkerAlways == Spec => []SingleWorker
<1>1. IInv => SingleWorker
  BY DEF IInv
<1> QED
  BY <1>1, Invariance, PTL

(* Without failures of the environment, a live worker process is polled by *)
(* the loop or about to be visited by recovery.                            *)
THEOREM WorkerIsSupervisedAlways == Spec => []WorkerIsSupervised
<1>1. IInv => WorkerIsSupervised
  BY DEF IInv
<1> QED
  BY <1>1, Invariance, PTL

(* run_job starts a job at most once in each life of the daemon.           *)
THEOREM StartedOncePerBootAlways == Spec => []StartedOncePerBoot
<1>1. IInv => StartedOncePerBoot
  BY DEF IInv
<1> QED
  BY <1>1, Invariance, PTL

(* A completed job has an artifact, and no run appends two.                *)
THEOREM CompletedHasArtifactAlways == Spec => []CompletedHasArtifact
<1>1. IInv => CompletedHasArtifact
  BY DEF IInv
<1> QED
  BY <1>1, Invariance, PTL

(* While the daemon serves and nothing failed, the projection's running    *)
(* job is in the loop and its queued jobs are on their way there.          *)
THEOREM OpenJobIsOwnedAlways == Spec => []OpenJobIsOwned
<1>1. IInv => OpenJobIsOwned
  BY DEF IInv, OwnedInv, StageInv, OpenJobIsOwned
<1> QED
  BY <1>1, Invariance, PTL

(* Every step of the daemon is a step of the job board under the           *)
(* refinement mapping, or changes nothing on it.                           *)
LEMMA StepImplementsBoard ==
  ASSUME IInv, [Next]_vars
  PROVE  [Board!BoardNext]_(Board!boardVars)
<1> USE DEF durable, handlers, channel, recovery, worker, budget
<1> USE DEF IInv, Board!BoardNext, Board!boardVars
<1>0. ASSUME UNCHANGED <<ledger, starts, crashes>>
      PROVE  [Board!BoardNext]_(Board!boardVars)
  BY <1>0
<1>1. CASE \E c \in Client, p \in Proposal : Approve(c, p) \/ Ignore(c, p)
  BY <1>0, <1>1 DEF Approve, Ignore
<1>2. ASSUME NEW c \in Client, RequestJob(c)
      PROVE  \E j \in Job : Board!Request(j)
  <2>1. minted + 1 \in Job /\ ledger[minted + 1] = "none"
    BY <1>2, ConstantsAssumption, JobTypes DEF RequestJob, LockInv, MintInv,
       Job
  <2> QED
    BY <1>2, <2>1 DEF RequestJob, Board!Request
<1>3. ASSUME NEW c \in Client, SendJob(c), ledger' # ledger
      PROVE  \E j \in Job : Board!Fail(j)
  BY <1>3, HeldTypes DEF SendJob, HeldInv, Waits, Board!Fail
<1>4. ASSUME NEW j \in Job, TerminateStaleFails(j)
      PROVE  Board!Fail(j)
  BY <1>4 DEF TerminateStaleFails, Fault, Visited, RecoverInv, Open, Board!Fail
<1>5. ASSUME NEW j \in Job, NoteRecovered(j), ledger' # ledger
      PROVE  Board!Requeue(j)
  BY <1>5, JobTypes DEF NoteRecovered, Visited, RecoverInv, Open, Board!Requeue
<1>6. ASSUME NEW j \in Job, SendRecovered(j), ledger' # ledger
      PROVE  Board!Fail(j)
  BY <1>6 DEF SendRecovered, Visited, RecoverInv, Open, Board!Fail
<1>7. ASSUME StartJob
      PROVE  \E j \in Job : Board!Start(j)
  BY <1>7, JobTypes DEF StartJob, LoopInv, Waits, NoJob, Board!Start
<1>8. ASSUME SetUp
      PROVE  ledger' = ledger
  BY <1>8, JobTypes DEF SetUp, LoopInv, NoJob
<1>9. ASSUME AppendCompleted
      PROVE  \E j \in Job : Board!Complete(j)
  BY <1>9, JobTypes DEF AppendCompleted, Conclude, LoopInv, NoJob,
     Board!Complete
<1>10. ASSUME FinishFailed \/ EmitJobFailed
       PROVE  \E j \in Job : Board!Fail(j)
  BY <1>10, JobTypes
     DEF FinishFailed, EmitJobFailed, Conclude, LoopInv, NoJob, Open, Board!Fail
<1>11. CASE Crash
  BY <1>11 DEF Crash, Board!Restart
<1>12. CASE \E c \in Client : HandlerStep(c)
  <2>1. ASSUME NEW c \in Client, SendJob(c)
        PROVE  UNCHANGED <<starts, crashes>>
    BY <2>1 DEF SendJob
  <2> QED
    BY <1>0, <1>2, <1>3, <1>12, <2>1 DEF HandlerStep
<1>13. CASE Recover
  <2>1. ASSUME NEW j \in Job, TerminateStale(j) \/ Serve
        PROVE  UNCHANGED <<ledger, starts, crashes>>
    BY <2>1 DEF TerminateStale, Serve
  <2>2. ASSUME NEW j \in Job, NoteRecovered(j) \/ SendRecovered(j)
        PROVE  UNCHANGED <<starts, crashes>>
    BY <2>2 DEF NoteRecovered, SendRecovered
  <2>3. ASSUME Serve
        PROVE  UNCHANGED <<ledger, starts, crashes>>
    BY <2>3 DEF Serve
  <2> QED
    BY <1>0, <1>5, <1>6, <1>13, <2>1, <2>2, <2>3 DEF Recover
<1>14. CASE LoopStep
  <2>1. CASE Receive \/ Spawn \/ PollExited \/ PollTimeout \/ AppendArtifact
    BY <1>0, <2>1 DEF Receive, Spawn, PollExited, PollTimeout, AppendArtifact
  <2>2. CASE SetUp
    BY <1>0, <1>8, <2>2 DEF SetUp
  <2> QED
    BY <1>7, <1>9, <1>10, <1>14, <2>1, <2>2 DEF LoopStep
<1>15. CASE Failures
  <2>1. ASSUME \/ \E c \in Client : RequestJobFails(c) \/ SendJobFails(c)
               \/ PollFails \/ RunJobFails \/ EmitJobFailedFails \/ LoopDies
        PROVE  UNCHANGED <<ledger, starts, crashes>>
    BY <2>1 DEF RequestJobFails, SendJobFails, PollFails, RunJobFails,
                EmitJobFailedFails, LoopDies, Fault
  <2> QED
    BY <1>0, <1>4, <1>15, <2>1 DEF Failures
<1>16. CASE Boot \/ ChildExits \/ \E j \in Job : OrphanExits(j)
  BY <1>0, <1>16 DEF Boot, ChildExits, OrphanExits
<1>17. CASE UNCHANGED vars
  BY <1>0, <1>17 DEF vars
<1> QED
  BY <1>1, <1>11, <1>12, <1>13, <1>14, <1>15, <1>16, <1>17 DEF Next

(* The daemon implements the safety part of the abstract job board.        *)
THEOREM SafelyImplementsBoard == Spec => Board!SafeSpec
<1>1. Init => Board!BoardInit
  BY DEF Init, Board!BoardInit
<1>2. IInv /\ [Next]_vars => [Board!BoardNext]_(Board!boardVars)
  BY StepImplementsBoard
<1> QED
  BY <1>1, <1>2, Invariance, PTL DEF Spec, Board!SafeSpec

(* No step of the job board leaves a terminal status.                      *)
LEMMA BoardStepKeepsTerminal ==
  ASSUME TypeOK, [Board!BoardNext]_(Board!boardVars)
  PROVE  [\A j \in Job : ledger[j] \in Terminal => ledger'[j] = ledger[j]]_ledger
BY DEF TypeOK, Terminal, Board!BoardNext, Board!boardVars, Board!Request,
       Board!Start, Board!Requeue, Board!Complete, Board!Fail, Board!Restart

(* Nothing follows the terminal event of a job: this is a property of the  *)
(* board that the refinement carries over.                                 *)
THEOREM TerminalIsFinalAlways == Spec => TerminalIsFinal
<1>1. /\ IInv
      /\ [Next]_vars
      => [\A j \in Job : ledger[j] \in Terminal => ledger'[j] = ledger[j]]_ledger
  BY StepImplementsBoard, BoardStepKeepsTerminal DEF IInv
<1> QED
  BY <1>1, Invariance, PTL DEF Spec, TerminalIsFinal

(* A proposal has finitely many jobs.                                      *)
LEMMA RequestsFinite ==
  \A p : IsFiniteSet(Requests(p)) /\ Cardinality(Requests(p)) \in Nat
<1>1. IsFiniteSet(Job)
  BY ConstantsAssumption, FS_Interval DEF Job
<1>2. \A p : Requests(p) \subseteq Job
  BY DEF Requests
<1> QED
  BY <1>1, <1>2, FS_Subset, FS_CardinalityType

(* No proposal is approved and none has a job initially.                   *)
LEMMA InitApprovalInv == Init => ApprovalInv
<1> SUFFICES ASSUME Init PROVE ApprovalInv
  OBVIOUS
<1>1. \A p \in Proposal : Requests(p) = {} /\ ~Unspent(p)
  BY ConstantsAssumption DEF Init, Requests, Unspent
<1>2. Cardinality({}) = 0
  BY FS_EmptySet
<1>3. \A p \in Proposal : ignores[p] = 0 /\ latest[p] = "pending"
  BY DEF Init
<1> QED
  BY <1>1, <1>2, <1>3 DEF ApprovalInv

(* Only approve makes room for a job, RequestJob uses it up, and an ignore *)
(* never takes room away.                                                  *)
LEMMA NextApprovalInv ==
  ASSUME IInv, ApprovalInv, [Next]_vars
  PROVE  ApprovalInv'
<1> USE DEF durable, handlers, channel, recovery, worker, budget
<1> DEFINE Room(p) == ignores[p] + (IF latest[p] = "approved" THEN 1 ELSE 0)
<1>0. /\ ignores \in [Proposal -> Nat]
      /\ latest \in [Proposal -> {"pending", "approved", "ignored"}]
      /\ origin \in [Job -> Proposal \cup {NoProposal}]
      /\ pc \in [Client -> {"idle", "request", "send"}]
      /\ holds \in [Client -> Holding]
      /\ lock \in Client \cup {NoClient}
  BY ConstantsAssumption DEF IInv, TypeOK
<1>1. \A p \in Proposal : Cardinality(Requests(p)) \in Nat
  BY RequestsFinite
<1>2. ASSUME origin' = origin,
             \A p \in Proposal : Room(p) <= Room(p)' /\ (Unspent(p)' => Unspent(p)),
             ignores' \in [Proposal -> Nat]
      PROVE  ApprovalInv'
  <2>1. \A p \in Proposal : Cardinality(Requests(p))' = Cardinality(Requests(p))
    BY <1>2 DEF Requests
  <2>2. ASSUME NEW p \in Proposal
        PROVE  Cardinality(Requests(p))' + (IF Unspent(p) THEN 1 ELSE 0)'
                 <= Room(p)'
    BY <1>0, <1>1, <1>2, <2>1 DEF ApprovalInv
  <2> QED
    BY <2>2 DEF ApprovalInv
<1>3. ASSUME NEW c \in Client, NEW p \in Proposal, Approve(c, p)
      PROVE  ApprovalInv'
  <2>1. \A q \in Proposal : Cardinality(Requests(q))' = Cardinality(Requests(q))
    BY <1>3 DEF Approve, Requests
  <2>2. \A q \in Proposal : ~Unspent(q)
    BY <1>3 DEF Approve, Unspent
  <2>3. \A q \in Proposal \ {p} : ~Unspent(q)'
    BY <1>0, <1>3 DEF Approve, Unspent, Holding
  <2> QED
    BY <1>0, <1>1, <1>3, <2>1, <2>2, <2>3 DEF Approve, ApprovalInv
<1>4. ASSUME NEW c \in Client, NEW p \in Proposal, Ignore(c, p)
      PROVE  ApprovalInv'
  <2>1. \A q \in Proposal : Room(q) <= Room(q)' /\ (Unspent(q)' => Unspent(q))
    BY <1>0, <1>4 DEF Ignore, Unspent
  <2> QED
    BY <1>0, <1>2, <1>4, <2>1 DEF Ignore
<1>5. ASSUME NEW c \in Client, RequestJob(c)
      PROVE  ApprovalInv'
  <2>a. PICK p \in Proposal : p = holds[c].proposal
    BY <1>5 DEF IInv, RequestJob, LockInv
  <2>b. PICK j \in Job : j = minted + 1
    BY <1>5, ConstantsAssumption DEF IInv, TypeOK, RequestJob, LockInv, Job
  <2>1. lock = c /\ origin[j] = NoProposal
    BY <1>5, <2>b, ConstantsAssumption
       DEF IInv, TypeOK, RequestJob, LockInv, MintInv, Job
  <2>2. /\ Requests(p)' = Requests(p) \cup {j}
        /\ j \notin Requests(p)
    BY <1>0, <1>5, <2>a, <2>b, <2>1, ConstantsAssumption DEF RequestJob,
       Requests
  <2>3. \A q \in Proposal \ {p} : Requests(q)' = Requests(q)
    BY <1>0, <1>5, <2>a, <2>b, <2>1, ConstantsAssumption DEF RequestJob,
       Requests
  <2>4. Cardinality(Requests(p)') = Cardinality(Requests(p)) + 1
    BY <2>2, RequestsFinite, FS_AddElement
  <2>5. Unspent(p) /\ \A q \in Proposal : ~Unspent(q)'
    BY <1>5, <2>a, <2>1, ConstantsAssumption DEF RequestJob, Unspent
  <2>6. latest' = latest /\ ignores' = ignores
    BY <1>5 DEF RequestJob
  <2>7. ASSUME NEW q \in Proposal
        PROVE  Cardinality(Requests(q)') + (IF Unspent(q)' THEN 1 ELSE 0)
                 <= Room(q)
    <3>1. Cardinality(Requests(q)) + (IF Unspent(q) THEN 1 ELSE 0) <= Room(q)
      BY DEF ApprovalInv
    <3>2. ignores[q] \in Nat /\ Cardinality(Requests(q)) \in Nat /\ ~Unspent(q)'
      BY <1>0, <1>1, <2>5
    <3>3. CASE q = p
      BY <2>4, <2>5, <3>1, <3>2, <3>3
    <3>4. CASE q # p
      <4>1. Cardinality(Requests(q)') = Cardinality(Requests(q))
        BY <2>3, <3>4
      <4> QED
        BY <3>1, <3>2, <4>1
    <3> QED
      BY <3>3, <3>4
  <2> QED
    BY <2>6, <2>7 DEF ApprovalInv
<1>6. ASSUME UNCHANGED <<latest, ignores, origin>>,
             \A p \in Proposal : Unspent(p)' => Unspent(p)
      PROVE  ApprovalInv'
  BY <1>0, <1>2, <1>6
<1>7. ASSUME NEW c \in Client,
             SendJob(c) \/ RequestJobFails(c) \/ SendJobFails(c)
      PROVE  ApprovalInv'
  <2>1. \A p \in Proposal : Unspent(p)' => Unspent(p)
    BY <1>0, <1>7 DEF SendJob, RequestJobFails, SendJobFails, Unspent
  <2> QED
    BY <1>6, <1>7, <2>1 DEF SendJob, RequestJobFails, SendJobFails, Fault
<1>8. CASE Crash
  <2>1. \A p \in Proposal : ~Unspent(p)'
    BY <1>8 DEF Crash, Unspent
  <2> QED
    BY <1>6, <1>8, <2>1 DEF Crash
<1>9. ASSUME UNCHANGED <<latest, ignores, origin, lock, pc, holds>>
      PROVE  ApprovalInv'
  BY <1>6, <1>9 DEF Unspent
<1>10. CASE Boot \/ Recover
  BY <1>9, <1>10 DEF Boot, Recover, TerminateStale, NoteRecovered,
     SendRecovered,
     Serve
<1>11. CASE LoopStep
  BY <1>9, <1>11
     DEF LoopStep, Receive, StartJob, SetUp, Spawn, PollExited, PollTimeout,
         AppendArtifact, AppendCompleted, FinishFailed, EmitJobFailed, Conclude
<1>12. CASE Failures
  BY <1>7, <1>9, <1>12
     DEF Failures, TerminateStaleFails, PollFails, RunJobFails,
         EmitJobFailedFails, LoopDies, Fault
<1>13. CASE ChildExits \/ (\E j \in Job : OrphanExits(j)) \/ UNCHANGED vars
  BY <1>9, <1>13 DEF ChildExits, OrphanExits, vars
<1> QED
  BY <1>3, <1>4, <1>5, <1>7, <1>8, <1>10, <1>11, <1>12, <1>13
     DEF Next, HandlerStep

(* Concurrent approvals of a proposal request one job; each further job    *)
(* needs an ignore in between (approve, ignore).                           *)
THEOREM OneJobPerApprovalAlways == Spec => []OneJobPerApproval
<1>1. Init => ApprovalInv
  BY InitApprovalInv
<1>2. IInv /\ ApprovalInv /\ [Next]_vars => ApprovalInv'
  BY NextApprovalInv
<1>3. IInv /\ ApprovalInv => OneJobPerApproval
  <2> SUFFICES ASSUME IInv, ApprovalInv, NEW p \in Proposal
               PROVE  Cardinality(Requests(p)) <= 1 + ignores[p]
    BY DEF OneJobPerApproval, Requests
  <2>1. ignores[p] \in Nat /\ Cardinality(Requests(p)) \in Nat
    BY RequestsFinite, ConstantsAssumption DEF IInv, TypeOK
  <2> QED
    BY <2>1 DEF ApprovalInv
<1> QED
  BY <1>1, <1>2, <1>3, Invariance, PTL DEF Spec

=============================================================================
