-------------------------------- MODULE Ledger --------------------------------
(***************************************************************************)
(* The event ledger (crates/standby-core/src/event_log.rs): one log for    *)
(* all meetings, and the folds over it that the daemon acts on, projection,*)
(* recoverable_jobs, find_latest_proposal and the reconciliation at boot.  *)
(*                                                                         *)
(* The log is stored, so the daemon meets rows of earlier versions: a row  *)
(* may stop decoding.  The folds differ in what they do with such a row:   *)
(* projection and find_latest_proposal fail, recoverable_jobs reads its    *)
(* type and id, reconciliation skips its meeting.                          *)
(***************************************************************************)
EXTENDS SourceState, Integers, SequencesExt, FiniteSetsExt

CONSTANTS
  Meeting,       \* ids, numbers: queries list them in order
  Job,
  Proposal,
  MaxRows,       \* bound: rows
  MaxSourceRows, \* bound: rows about the source that captures append
  MaxMalformed   \* bound: rows that stop decoding

ASSUME ConstantsAssumption ==
  /\ Meeting \subseteq Nat
  /\ Job \cap Proposal = {} /\ "source" \notin Job \cup Proposal
  /\ "boot" \notin Job \cup Proposal
  /\ MaxRows \in Nat /\ MaxSourceRows \in Nat /\ MaxMalformed \in Nat

VARIABLE log

(* A row's type tells a job's open rows (requested, started, progress)     *)
(* from its terminal ones; id and status are those of the payload.         *)
Row(type, meeting, id, status) ==
  [type |-> type, meeting |-> meeting, id |-> id, status |-> status, ok |-> TRUE]

OpenStatus == {"queued", "running"}

-----------------------------------------------------------------------------
(* The folds: loops over the rows, the oldest first.                       *)

(* upsert_by_id keeps the place of what it updates. *)
Upsert(items, row) ==
  IF \E i \in DOMAIN items : items[i].id = row.id
  THEN [i \in DOMAIN items |-> IF items[i].id = row.id THEN row ELSE items[i]]
  ELSE Append(items, row)

(* remove_by_id; no two items have the same id. *)
RemoveById(items, id) ==
  LET hits == {i \in DOMAIN items : items[i].id = id}
  IN IF hits = {} THEN items ELSE RemoveAt(items, CHOOSE i \in hits : TRUE)

(* The loop of the collections with ids: the rows of kept (places in the   *)
(* log) update them, those of ended remove from them.                      *)
Collected(rows, kept, ended) ==
  LET after[i \in 0..Len(rows)] ==
        IF i = 0 THEN <<>>
        ELSE IF i \in ended THEN RemoveById(after[i - 1], rows[i].id)
        ELSE IF i \in kept THEN Upsert(after[i - 1], rows[i])
        ELSE after[i - 1]
  IN after[Len(rows)]

JobTypes == {"job", "job_end"}
Typed(rows, types) == {i \in DOMAIN rows : rows[i].type \in types}
Decoded(rows) == {i \in DOMAIN rows : rows[i].ok}

(* list_events: the places of a meeting's rows. *)
Events(rows, m) == {i \in DOMAIN rows : rows[i].meeting = m}

(* projection fails when an event of the meeting does not decode. *)
Decodes(rows, m) == Events(rows, m) \subseteq Decoded(rows)

(* A slip: the arm of the terminal rows is missing. *)
ProjectedOpenRows(rows, m) ==
  Collected(rows, Events(rows, m) \cap Typed(rows, {"job"}), {})

ProjectedJobs(rows, m) ==
  Collected(rows, Events(rows, m) \cap Typed(rows, JobTypes), {})

ProjectedProposals(rows, m) ==
  Collected(rows, Events(rows, m) \cap Typed(rows, {"proposal"}), {})

ApplySource(source, row) ==
  CASE row.type = "source.started" -> SourceStarted(source, "mic+system")
    [] row.type = "lane.failed" -> SourceFailed(source, "reported", "system")
    [] row.type = "source.failed" -> SourceFailed(source, "reported", "mic")
    [] row.type = "source.stopped" -> SourceStopped(source)
    [] OTHER -> source

ProjectedSource(rows, m) ==
  LET after[i \in 0..Len(rows)] ==
        IF i = 0 THEN NoSource
        ELSE IF rows[i].meeting = m THEN ApplySource(after[i - 1], rows[i])
        ELSE after[i - 1]
  IN after[Len(rows)]

(* A slip: a terminal row must decode. *)
RecoverableDecoded(rows) ==
  Collected(rows, Typed(rows, {"job"}) \cap Decoded(rows),
                  Typed(rows, {"job_end"}) \cap Decoded(rows))

(* recoverable_jobs: a terminal row removes its job even when its payload  *)
(* does not decode.                                                        *)
RecoverableJobs(rows) ==
  Collected(rows, Typed(rows, {"job"}) \cap Decoded(rows), Typed(rows, {"job_end"}))

(* The proposal rows that decide a look-up: of the proposal, or unreadable.*)
Deciding(rows, id) ==
  {i \in Typed(rows, {"proposal"}) : rows[i].id = id \/ ~rows[i].ok}

(* Slips: a search from the oldest row, or past what does not decode. *)
FindOldestProposal(rows, id) ==
  LET hits == Deciding(rows, id)
  IN IF hits = {} THEN "none"
     ELSE IF rows[Min(hits)].ok THEN rows[Min(hits)].status ELSE "error"

FindDecodedProposal(rows, id) ==
  LET hits == Deciding(rows, id) \cap Decoded(rows)
  IN IF hits = {} THEN "none" ELSE rows[Max(hits)].status

FindLatestProposal(rows, id) ==
  LET hits == Deciding(rows, id)
  IN IF hits = {} THEN "none"
     ELSE IF rows[Max(hits)].ok THEN rows[Max(hits)].status ELSE "error"

-----------------------------------------------------------------------------
(* meeting_summaries: the catalogue of the operator's screen.              *)

(* The members of a set of numbers in order, the smallest first. *)
InOrder(S) ==
  [n \in 1..Cardinality(S) |-> CHOOSE x \in S : Cardinality({y \in S : y <= x}) = n]

Meetings(rows) == {rows[i].meeting : i \in DOMAIN rows}
LastRow(rows, m) == Max(Events(rows, m))

CountStatus(items, statuses) ==
  Cardinality({i \in DOMAIN items : items[i].status \in statuses})

(* A slip: a queued job is not work yet. *)
SummaryOfRunning(rows, m) ==
  [id |-> m, updated |-> LastRow(rows, m),
   source_status |-> Shown(ProjectedSource(rows, m)),
   suggestions |-> CountStatus(ProjectedProposals(rows, m), {"proposed"}),
   running |-> CountStatus(ProjectedJobs(rows, m), {"running"})]

(* summarize_meeting; the place of its last row is when it was updated,    *)
(* for a clock that rises between any two rows.                            *)
Summary(rows, m) ==
  [id |-> m, updated |-> LastRow(rows, m),
   source_status |-> Shown(ProjectedSource(rows, m)),
   suggestions |-> CountStatus(ProjectedProposals(rows, m), {"proposed"}),
   running |-> CountStatus(ProjectedJobs(rows, m), OpenStatus)]

(* The newest first; one meeting that does not decode fails them all.      *)
CatalogueFails(rows) == \E m \in Meetings(rows) : ~Decodes(rows, m)

Catalogue(rows) ==
  LET last == Reverse(InOrder({LastRow(rows, m) : m \in Meetings(rows)}))
  IN [n \in DOMAIN last |-> Summary(rows, rows[last[n]].meeting)]

-----------------------------------------------------------------------------
(* Who appends.                                                            *)

(* reconcile_stopped_if_orphaned *)
Orphaned(rows, m) == Decodes(rows, m) /\ LooksLive(ProjectedSource(rows, m))

Stops(meetings) ==
  [i \in DOMAIN meetings |-> Row("source.stopped", meetings[i], "boot", "none")]

(* A slip: the first meeting that does not decode ends the sweep. *)
SweptUntilMalformed(rows) ==
  LET reached(m) == \A n \in Meetings(rows) : n <= m => Decodes(rows, n)
  IN rows \o Stops(InOrder({m \in Meetings(rows) : reached(m) /\ Orphaned(rows, m)}))

(* The log after reconcile_orphaned_captures, which goes by meeting_ids. *)
Swept(rows) ==
  rows \o Stops(InOrder({m \in Meetings(rows) : Orphaned(rows, m)}))

Init == log = <<>>

Room == Len(log) < MaxRows
Rows(id) == {i \in DOMAIN log : log[i].id = id}
Newest(id) == log[Max(Rows(id))]
Home(id) == log[Min(Rows(id))].meeting

Propose(p, m) ==
  /\ Room /\ Rows(p) = {}
  /\ log' = Append(log, Row("proposal", m, p, "proposed"))

(* approve and ignore act on what find_latest_proposal returns. *)
Approve(p) ==
  /\ Room
  /\ FindLatestProposal(log, p) \in {"proposed", "ignored"}
  /\ log' = Append(log, Row("proposal", Home(p), p, "approved"))

Ignore(p) ==
  /\ Room
  /\ FindLatestProposal(log, p) \notin {"none", "error"}
  /\ log' = Append(log, Row("proposal", Home(p), p, "ignored"))

(* One new job for an approval. *)
RequestJob(j, m) ==
  /\ Room /\ Rows(j) = {}
  /\ Cardinality({i \in DOMAIN log : log[i].meeting = m /\ log[i].status = "approved"})
       > Cardinality({k \in Job : Rows(k) # {} /\ Home(k) = m})
  /\ log' = Append(log, Row("job", m, j, "queued"))

(* The worker loop works with the job it was sent. *)
StartJob(j) ==
  /\ Room /\ Rows(j) # {} /\ Newest(j).status = "queued"
  /\ log' = Append(log, Row("job", Home(j), j, "running"))

EndJob(j) ==
  /\ Room /\ Rows(j) # {} /\ Newest(j).status \in OpenStatus
  /\ \E status \in {"completed", "failed"} :
       log' = Append(log, Row("job_end", Home(j), j, status))

(* recover_queued_jobs, one of its jobs. *)
Requeue(j) ==
  /\ Room
  /\ \E i \in DOMAIN RecoverableJobs(log) : RecoverableJobs(log)[i].id = j
  /\ log' = Append(log, Row("job", Home(j), j, "queued"))

(* Captures: a start, and the ends that runs of the meeting may report. *)
StartSource(m) ==
  /\ Room
  /\ Cardinality(Rows("source")) < MaxSourceRows
  /\ log' = Append(log, Row("source.started", m, "source", "none"))

EndSource(m) ==
  /\ Room
  /\ Cardinality(Rows("source")) < MaxSourceRows
  /\ \E i \in DOMAIN log : log[i].type = "source.started" /\ log[i].meeting = m
  /\ \E type \in {"lane.failed", "source.failed", "source.stopped"} :
       log' = Append(log, Row(type, m, "source", "none"))

(* reconcile_orphaned_captures: at most one more row for each meeting. *)
Reconcile ==
  /\ Len(log) <= MaxRows
  /\ log' = Swept(log)

(* A new version of the daemon does not decode a row any more; nothing     *)
(* reads the payload of source.stopped.                                    *)
StopsDecoding(i) ==
  /\ log[i].type # "source.stopped"
  /\ Cardinality(DOMAIN log \ Decoded(log)) < MaxMalformed
  /\ log' = [log EXCEPT ![i].ok = FALSE]

Next ==
  \/ \E p \in Proposal : (\E m \in Meeting : Propose(p, m)) \/ Approve(p) \/ Ignore(p)
  \/ \E j \in Job : \/ \E m \in Meeting : RequestJob(j, m)
                    \/ StartJob(j) \/ EndJob(j) \/ Requeue(j)
  \/ \E m \in Meeting : StartSource(m) \/ EndSource(m)
  \/ Reconcile
  \/ \E i \in DOMAIN log : StopsDecoding(i)

Spec == Init /\ [][Next]_log

-----------------------------------------------------------------------------
(* The inductive invariant (Ledger_proofs).                                *)

RowType ==
  [type : {"proposal", "job", "job_end", "source.started", "lane.failed",
           "source.failed", "source.stopped"},
   meeting : Meeting,
   id : Job \cup Proposal \cup {"source", "boot"},
   status : {"none", "proposed", "approved", "ignored", "queued", "running",
             "completed", "failed"},
   ok : BOOLEAN]

TypeOK == log \in Seq(RowType)

(* What a row's type says of its id and status. *)
RowIsSound(row) ==
  /\ row.type = "proposal" =>
       row.id \in Proposal /\ row.status \in {"proposed", "approved", "ignored"}
  /\ row.type = "job" => row.id \in Job /\ row.status \in OpenStatus
  /\ row.type = "job_end" => row.id \in Job /\ row.status \in {"completed", "failed"}
  /\ row.type \notin {"proposal", "job", "job_end"} =>
       row.id \in {"source", "boot"} /\ row.status = "none"

LogIsSound == \A i \in DOMAIN log : RowIsSound(log[i])

(* All rows of a job or a proposal are rows of one meeting. *)
RowsStayHome ==
  \A i, k \in DOMAIN log :
    log[i].id = log[k].id /\ log[i].id \in Job \cup Proposal =>
      log[i].meeting = log[k].meeting

(* Nothing is written of a job that ended. *)
EndsAreLast ==
  \A i, k \in DOMAIN log : log[i].type = "job_end" /\ log[k].id = log[i].id => k <= i

Decisions(p, status) == {i \in Rows(p) : log[i].status = status}

(* Approvals and what undid them alternate, whatever does not decode. *)
ApprovalsAreUndone ==
  \A p \in Proposal :
    Cardinality(Decisions(p, "approved"))
      <= Cardinality(Decisions(p, "ignored"))
           + (IF Rows(p) # {} /\ Newest(p).status = "approved" THEN 1 ELSE 0)

IInv == TypeOK /\ LogIsSound /\ RowsStayHome /\ EndsAreLast /\ ApprovalsAreUndone

-----------------------------------------------------------------------------
(* Properties.                                                             *)

(* recoverable_jobs: a job is recovered exactly when it was requested and  *)
(* no terminal row names it, whether or not that row decodes; in the order *)
(* of the requests, and with the newest of its states that decodes.        *)
RecoverableIsWhatIsOpen ==
  LET decoded(j) == Rows(j) \cap Decoded(log)
      open == {j \in Job : /\ decoded(j) # {}
                           /\ \A i \in Rows(j) : log[i].type = "job"}
      jobs == RecoverableJobs(log)
  IN /\ {jobs[i].id : i \in DOMAIN jobs} = open
     /\ \A i \in DOMAIN jobs : jobs[i] = log[Max(decoded(jobs[i].id))]
     /\ \A i, k \in DOMAIN jobs :
          i < k => Min(decoded(jobs[i].id)) < Min(decoded(jobs[k].id))

(* The unfinished jobs of a meeting, on the screen and for a restart. *)
Unfinished(m) ==
  {i \in DOMAIN ProjectedJobs(log, m) : ProjectedJobs(log, m)[i].status \in OpenStatus}
Restarted(m) ==
  {k \in DOMAIN RecoverableJobs(log) : RecoverableJobs(log)[k].meeting = m}

(* Recovery and the screen agree: the unfinished jobs that a meeting's     *)
(* projection shows are, in order, the ones that a restart runs again.     *)
OpenJobsAreProjected ==
  \A m \in Meeting : Decodes(log, m) =>
    LET shown == ProjectedJobs(log, m)
        again == RecoverableJobs(log)
    IN /\ {shown[i] : i \in Unfinished(m)} = {again[k] : k \in Restarted(m)}
       /\ \A i, l \in Unfinished(m), k, n \in Restarted(m) :
            shown[i] = again[k] /\ shown[l] = again[n] => (i < l <=> k < n)

(* approve acts on the state of the proposal that the operator sees, or    *)
(* fails.                                                                  *)
LatestIsProjected ==
  \A m \in Meeting : Decodes(log, m) =>
    \A i \in DOMAIN ProjectedProposals(log, m) :
      LET proposal == ProjectedProposals(log, m)[i]
      IN FindLatestProposal(log, proposal.id) \in {"error", proposal.status}

(* approve: already approved, no second job.  A proposal is approved again *)
(* only after it was ignored, even when the row that approved it does not  *)
(* decode any more.                                                        *)
NoSecondApproval ==
  \A p \in Proposal :
    Cardinality(Decisions(p, "approved")) <= 1 + Cardinality(Decisions(p, "ignored"))

(* The catalogue is a projection: it lists every meeting once, the one     *)
(* written to last first, counts as running the jobs that a restart would  *)
(* run, and as suggestions the proposals that nobody decided, wherever     *)
(* their rows are in the log.                                              *)
CatalogueIsTheLedger ==
  ~CatalogueFails(log) =>
    LET all == Catalogue(log)
        undecided(m) == {p \in Proposal : /\ FindLatestProposal(log, p) = "proposed"
                                          /\ Home(p) = m}
    IN /\ log # <<>> => all[1].id = log[Len(log)].meeting
       /\ {all[i].id : i \in DOMAIN all} = Meetings(log)
       /\ Len(all) = Cardinality(Meetings(log))
       /\ \A i \in DOMAIN all :
            /\ all[i].running = Cardinality(Restarted(all[i].id))
            /\ all[i].suggestions = Cardinality(undecided(all[i].id))

(* reconcile_orphaned_captures: whenever the daemon boots, after its sweep *)
(* no meeting that decodes looks live, whatever the others hold.           *)
BootEndsCaptures ==
  \A m \in Meeting : Decodes(log, m) => ~LooksLive(ProjectedSource(Swept(log), m))

=============================================================================
