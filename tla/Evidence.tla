------------------------------- MODULE Evidence -------------------------------
(***************************************************************************)
(* What one meeting's ledger says was heard, asked and proposed: the rows  *)
(* that a helper's lanes (transcript_source.rs), diarized turns, the demo  *)
(* and requests (crates/standbyd/src/main.rs) append, the evidence that a  *)
(* model's answer is held to (engine.rs) and the utterance in flight that  *)
(* projection shows.                                                       *)
(*                                                                         *)
(* ProposalAgent has the steps of an automatic run and when it is due;     *)
(* here a run is what it reads and what it appends, and the model may      *)
(* answer anything.                                                        *)
(***************************************************************************)
EXTENDS Integers, FiniteSets, Sequences

CONSTANTS
  Voice,        \* lanes of the helper, with the speaker their lines carry
  Label,        \* labels of diarized turns, [kind, n]
  MaxNumber,    \* the largest u32 of a label
  Debounce,     \* STANDBY_PROPOSAL_DEBOUNCE_SEGMENTS
  DemoLength,   \* demo_segments
  RecentLimit,  \* REQUEST_CONTEXT_RECENT_LIMIT
  ContextLimit, \* DEFAULT_CONTEXT_LIMIT
  Budgets       \* bounds: how often each input may come, in one of these ways

Input == {"lane", "seed", "request", "demo", "exit"}

ASSUME EvidenceAssumption ==
  /\ MaxNumber \in Nat
  /\ Label \subseteq [kind : {"speaker", "remote", "name"}, n : 0..MaxNumber]
  /\ {Debounce, DemoLength, RecentLimit, ContextLimit} \subseteq Nat \ {0}
  /\ Budgets \subseteq [Input -> Nat]

VARIABLES
  log,      \* the meeting's rows
  capture,  \* where the helper and its reader are
  due,      \* an automatic run was spawned and has not read the ledger
  context,  \* segments in its snapshot
  holder,   \* the handler that holds the store mutex across steps
  poisoned, \* a handler panicked with the store mutex, which no one gets again
  asked,    \* the row of the request that waits for its answer, or 0
  crashes,  \* daemon exits so far
  budget    \* what is left of the bounds

run == <<due, context>>
mutex == <<holder, poisoned>>
vars == <<log, capture, run, mutex, asked, crashes, budget>>

Spend(input) ==
  /\ budget[input] > 0
  /\ budget' = [budget EXCEPT ![input] = @ - 1]

(* A row of the ledger.  The id of a segment is the place of its row;      *)
(* spans are the segments that a request records and a card cites.         *)
Row(type, origin, speaker, spans, parent) ==
  [type |-> type, origin |-> origin, speaker |-> speaker, spans |-> spans,
   parent |-> parent]

Origin(kind) == [kind |-> kind, n |-> 0]
Named(who) == [who |-> who, n |-> 0]
Nameless == Named("none")

Segment(type, origin, speaker) == Row(type, origin, speaker, {}, 0)
SourceRow(type) == Segment(type, Origin("source"), Nameless)

Init ==
  /\ log = <<>>
  /\ capture = "off"
  /\ due = FALSE /\ context = {}
  /\ holder = "nobody" /\ poisoned = FALSE /\ asked = 0
  /\ crashes = 0
  /\ budget \in Budgets

-----------------------------------------------------------------------------
(* Speakers.                                                               *)

(* speaker_for: the helper's lines carry these names, and a line without   *)
(* a name is given the one of its lane.                                    *)
LaneSpeaker(lane) ==
  CASE lane = "microphone" -> Named("me")
    [] lane = "system_audio" -> Named("system_audio")
    [] OTHER -> Nameless

(* A slip: SPEAKER_N and spk-N are taken to count from one. *)
OneBasedSpeaker(label) ==
  CASE label.kind = "remote" /\ label.n > 0 -> [who |-> "remote", n |-> label.n]
    [] label.kind = "speaker" -> [who |-> "remote", n |-> label.n]
    [] OTHER -> Nameless

(* diarized_speaker_for: remote_N is kept when N is positive, SPEAKER_N    *)
(* and spk-N count from zero, and nothing else names anyone.               *)
DiarizedSpeaker(label) ==
  CASE label.kind = "remote" /\ label.n > 0 -> [who |-> "remote", n |-> label.n]
    [] label.kind = "speaker" -> [who |-> "remote", n |-> label.n + 1]
    [] OTHER -> Nameless

(* The sum is of u32, and panics at the largest one: the daemon is a debug *)
(* build wherever the repository builds or runs it.                        *)
Overflows(label) == label.kind = "speaker" /\ label.n = MaxNumber

-----------------------------------------------------------------------------
(* Reading the ledger.                                                     *)

Finals(rows) == {i \in DOMAIN rows : rows[i].type = "final"}

(* The last limit of them. *)
Latest(ids, limit) == {i \in ids : Cardinality({j \in ids : j > i}) < limit}

(* select_final_transcript_segments *)
SelectFinal(rows, spans, limit) ==
  IF spans # {} THEN Finals(rows) \cap spans ELSE Latest(Finals(rows), limit)

(* ProposalRequestEngine::context *)
RequestSpans(rows, window) ==
  IF window = "full" THEN Finals(rows) ELSE SelectFinal(rows, {}, RecentLimit)

(* A slip: the end of a capture leaves the utterance. *)
DisplacesButAtStop(row, partial) ==
  \/ row.type \in {"partial", "failed"}
  \/ row.type = "final" /\ row.speaker = partial.speaker

(* The partial of projection: one slot for all speakers, which a later     *)
(* partial takes, a final of the same speaker or the capture's end clears. *)
Displaces(row, partial) ==
  \/ row.type \in {"partial", "failed", "stopped"}
  \/ row.type = "final" /\ row.speaker = partial.speaker

InFlight(rows) ==
  {i \in DOMAIN rows : /\ rows[i].type = "partial"
                       /\ \A k \in (i + 1)..Len(rows) : ~Displaces(rows[k], rows[i])}

-----------------------------------------------------------------------------
(* The model's answer.                                                     *)

(* The first candidate of an answer, which may cite segments that do not   *)
(* exist; 0 is no segment.  The daemon asks for one proposal, so the other *)
(* candidates are not looked at.  A provider that fails or times out, and  *)
(* an answer without candidates, end like a candidate below the floor.     *)
Candidate(ctx) ==
  [sure : BOOLEAN, ids : SUBSET (ctx \cup {0}), indexes : SUBSET (1..(Cardinality(ctx) + 1))]

(* candidate_evidence: segments are cited by id and by place. *)
Place(s, ctx) == Cardinality({t \in ctx : t <= s})

Cited(candidate, ctx) ==
  IF candidate.ids \subseteq ctx /\ candidate.indexes \subseteq 1..Cardinality(ctx)
  THEN candidate.ids \cup {s \in ctx : Place(s, ctx) \in candidate.indexes}
  ELSE {}

(* propose: a card with evidence, or a reason why there is none. *)
Decision(candidate, ctx, parent) ==
  LET cited == IF candidate.sure THEN Cited(candidate, ctx) ELSE {}
  IN IF cited = {} THEN Row("reason", Origin("agent"), Nameless, {}, parent)
     ELSE Row("card", Origin("agent"), Nameless, cited, parent)

Decisions(ctx, parent) == {Decision(c, ctx, parent) : c \in Candidate(ctx)}

(* should_run_automatic_reasoner: at two segments, then every Debounce. *)
ShouldRun(rows) ==
  LET n == Cardinality(Finals(rows)) IN n >= 2 /\ (n - 2) % Debounce = 0

(* What propose_from_meeting_context may make of the ledger. *)
Proposed(rows) ==
  IF ShouldRun(rows)
  THEN {Append(rows, row) : row \in Decisions(SelectFinal(rows, {}, ContextLimit), 0)}
  ELSE {rows}

-----------------------------------------------------------------------------
(* The capture: LocalMacAudioSource::normalize, in a reader task.  Every   *)
(* step below needs the store mutex, and appends before it lets it go.     *)

Free == holder = "nobody" /\ ~poisoned
Reading == capture \in {"open", "lane_lost", "over"}
LinePlace == Origin(IF capture = "over" THEN "late" ELSE "lane")

RowsOf(type) == {i \in DOMAIN log : log[i].type = type}
Seeds == {i \in DOMAIN log : log[i].origin \in Label}
DemoRows == {i \in RowsOf("final") : log[i].origin = Origin("demo")}

StartCapture ==
  /\ capture = "off" /\ Free
  /\ capture' = "open"
  /\ UNCHANGED <<log, run, mutex, asked, crashes, budget>>

HearPartial ==
  /\ Reading /\ Free /\ Spend("lane")
  /\ \E lane \in Voice :
       log' = Append(log, Segment("partial", LinePlace, LaneSpeaker(lane)))
  /\ UNCHANGED <<capture, run, mutex, asked, crashes>>

(* A final spawns an automatic run unless one is in flight. *)
HearFinal ==
  /\ Reading /\ Free /\ Spend("lane")
  /\ \E lane \in Voice :
       log' = Append(log, Segment("final", LinePlace, LaneSpeaker(lane)))
  /\ due' = (due \/ context = {})
  /\ UNCHANGED <<capture, context, mutex, asked, crashes>>

(* The helper loses its system lane; the capture goes on. *)
LoseLane ==
  /\ capture = "open" /\ Free
  /\ capture' = "lane_lost"
  /\ UNCHANGED <<log, run, mutex, asked, crashes, budget>>

(* The helper says that it stopped, or why it failed.  Its transcribers    *)
(* may still write the results they hold.                                  *)
SayEnd ==
  /\ capture \in {"open", "lane_lost"} /\ Free
  /\ \E type \in {"stopped", "failed"} : log' = Append(log, SourceRow(type))
  /\ capture' = "over"
  /\ UNCHANGED <<run, mutex, asked, crashes, budget>>

(* The end of the helper's output and the crash check, which a lost lane   *)
(* keeps from recording the end.                                           *)
EndCapture ==
  /\ Reading /\ Free
  /\ log' = IF capture = "open" THEN Append(log, SourceRow("failed")) ELSE log
  /\ capture' = IF capture = "lane_lost" THEN "unended" ELSE "ended"
  /\ UNCHANGED <<run, mutex, asked, crashes, budget>>

(* The reader expects the mutex and panics without it: nothing is read any *)
(* more, no end is recorded, and the capture stays in the daemon's map.    *)
ReaderPanics ==
  /\ Reading /\ poisoned
  /\ capture' = IF capture = "over" THEN "ended" ELSE "unended"
  /\ UNCHANGED <<log, run, mutex, asked, crashes, budget>>

-----------------------------------------------------------------------------
(* run_automatic_proposal: it reads the ledger, lets the mutex go while    *)
(* the model thinks, and appends.                                          *)

TakeSnapshot ==
  /\ due /\ Free
  /\ due' = FALSE
  /\ context' = IF ShouldRun(log) THEN SelectFinal(log, {}, ContextLimit) ELSE {}
  /\ UNCHANGED <<log, capture, mutex, asked, crashes, budget>>

AppendDecision ==
  /\ context # {} /\ Free
  /\ \E row \in Decisions(context, 0) : log' = Append(log, row)
  /\ context' = {}
  /\ UNCHANGED <<capture, due, mutex, asked, crashes, budget>>

(* It expects the mutex too, before and after the model's answer. *)
RunPanics ==
  /\ poisoned /\ (due \/ context # {})
  /\ due' = FALSE /\ context' = {}
  /\ UNCHANGED <<log, capture, mutex, asked, crashes, budget>>

-----------------------------------------------------------------------------
(* create_proposal_request, which holds the mutex to the answer. *)

(* Slips: the mutex is free while the model thinks, and the answer is      *)
(* given the recent segments, whatever the request recorded.               *)
AppendRequestUnlocked ==
  /\ Free /\ asked = 0 /\ Spend("request")
  /\ \E window \in {"recent", "full"} :
       log' = Append(log, Row("request", Origin("operator"), Nameless,
                              RequestSpans(log, window), 0))
  /\ asked' = Len(log) + 1
  /\ UNCHANGED <<capture, run, mutex, crashes>>

AppendAnswerAnew ==
  /\ asked # 0
  /\ \E row \in Decisions(SelectFinal(log, {}, ContextLimit), asked) :
       log' = Append(log, row)
  /\ asked' = 0
  /\ holder' = "nobody"
  /\ UNCHANGED <<capture, run, poisoned, crashes, budget>>

AppendRequest ==
  /\ Free /\ asked = 0 /\ Spend("request")
  /\ \E window \in {"recent", "full"} :
       log' = Append(log, Row("request", Origin("operator"), Nameless,
                              RequestSpans(log, window), 0))
  /\ asked' = Len(log) + 1
  /\ holder' = "request"
  /\ UNCHANGED <<capture, run, poisoned, crashes>>

(* run_proposal_agent projects the meeting again. *)
AppendAnswer ==
  /\ asked # 0
  /\ \E row \in Decisions(SelectFinal(log, log[asked].spans, ContextLimit), asked) :
       log' = Append(log, row)
  /\ asked' = 0
  /\ holder' = "nobody"
  /\ UNCHANGED <<capture, run, poisoned, crashes, budget>>

-----------------------------------------------------------------------------
(* start_demo holds the mutex to its end; its segments are appended one by *)
(* one.                                                                    *)

(* A slip: it is seeded when there is no card yet. *)
BeginDemoAgain ==
  /\ Free /\ Spend("demo")
  /\ holder' = IF RowsOf("card") = {} THEN "seed" ELSE "propose"
  /\ UNCHANGED <<log, capture, run, poisoned, asked, crashes>>

BeginDemo ==
  /\ Free /\ Spend("demo")
  /\ holder' = IF Finals(log) = {} THEN "seed" ELSE "propose"
  /\ UNCHANGED <<log, capture, run, poisoned, asked, crashes>>

SeedDemo ==
  /\ holder = "seed"
  /\ log' = Append(log, Segment("final", Origin("demo"), Named("guest")))
  /\ holder' = IF Cardinality(Finals(log)) + 1 = DemoLength THEN "propose" ELSE "seed"
  /\ UNCHANGED <<capture, run, poisoned, asked, crashes, budget>>

ProposeDemo ==
  /\ holder = "propose"
  /\ log' \in IF RowsOf("card") = {} THEN Proposed(log) ELSE {log}
  /\ holder' = "nobody"
  /\ UNCHANGED <<capture, run, poisoned, asked, crashes, budget>>

-----------------------------------------------------------------------------
(* seed_capture: DiarizationProvider::ingest, all under the mutex.         *)

SeedPartial(label) ==
  /\ Free /\ ~Overflows(label) /\ Spend("seed")
  /\ log' = Append(log, Segment("partial", label, DiarizedSpeaker(label)))
  /\ UNCHANGED <<capture, run, mutex, asked, crashes>>

SeedFinal(label) ==
  /\ Free /\ ~Overflows(label) /\ Spend("seed")
  /\ log' \in Proposed(Append(log, Segment("final", label, DiarizedSpeaker(label))))
  /\ UNCHANGED <<capture, run, mutex, asked, crashes>>

(* The turn is not recorded, and the mutex is poisoned: from here every    *)
(* handler that needs the ledger fails, and every task that does panics.   *)
SeedPanics(label) ==
  /\ Free /\ Overflows(label) /\ Spend("seed")
  /\ poisoned' = TRUE
  /\ UNCHANGED <<log, capture, run, holder, asked, crashes>>

-----------------------------------------------------------------------------
(* The daemon exits, with every task and handler, and boots: a capture     *)
(* that still looks live is reconciled.                                    *)
CrashAndBoot ==
  /\ Spend("exit")
  /\ crashes' = crashes + 1
  /\ log' = IF capture \in {"open", "lane_lost", "unended"}
            THEN Append(log, SourceRow("stopped")) ELSE log
  /\ capture' = IF capture = "off" THEN "off" ELSE "ended"
  /\ due' = FALSE /\ context' = {}
  /\ holder' = "nobody" /\ poisoned' = FALSE /\ asked' = 0

Next ==
  \/ StartCapture \/ HearPartial \/ HearFinal \/ LoseLane \/ SayEnd \/ EndCapture
  \/ TakeSnapshot \/ AppendDecision \/ ReaderPanics \/ RunPanics
  \/ AppendRequest \/ AppendAnswer
  \/ BeginDemo \/ SeedDemo \/ ProposeDemo
  \/ \E label \in Label : SeedPartial(label) \/ SeedFinal(label) \/ SeedPanics(label)
  \/ CrashAndBoot

Spec == Init /\ [][Next]_vars

-----------------------------------------------------------------------------
(* Properties.                                                             *)

(* The request records which transcript spans were used; generated         *)
(* proposals then cite those same spans (proposal_request.rs).  Every card *)
(* cites finalized segments that were in the ledger before it, and the     *)
(* card of a request only those that the request recorded.                 *)
CardsCiteTheRecord ==
  \A i \in RowsOf("card") :
    /\ log[i].spans # {}
    /\ \A s \in log[i].spans : s < i /\ s \in RowsOf("final")
    /\ log[i].parent # 0 => log[i].spans \subseteq log[log[i].parent].spans

(* A request is followed by its one answer, a card or a reason, and by     *)
(* nothing else; it has none only while the model thinks, or when the      *)
(* daemon exited meanwhile.                                                *)
RequestsAreAnswered ==
  LET answers(i) == {j \in DOMAIN log : log[j].parent = i}
      open == {i \in RowsOf("request") : answers(i) = {} /\ asked # i}
  IN /\ \A i \in RowsOf("request") : answers(i) \subseteq {i + 1}
     /\ asked \in {0, Len(log)}
     /\ Cardinality(open) <= crashes

(* event_log.rs: no ghost partial under a stopped meeting.  An utterance   *)
(* of a capture is shown in flight only while the capture runs, unless its *)
(* helper wrote it after its own end, or lost a lane and died, or the      *)
(* reader panicked: then until the daemon starts again, when the boot      *)
(* sweep ends it.                                                          *)
PartialEndsWithCapture ==
  (\E i \in InFlight(log) : log[i].origin = Origin("lane")) =>
    capture \in {"open", "lane_lost", "unended"}

(* start_demo: the demo is seeded once, as a whole and into an empty       *)
(* transcript, unless the daemon exited while it was.                      *)
DemoIsSeededOnce ==
  /\ \A i \in DemoRows : \A j \in RowsOf("final") \ DemoRows : i < j
  /\ Cardinality(DemoRows) <= DemoLength
  /\ \/ DemoRows = {} \/ Cardinality(DemoRows) = DemoLength
     \/ holder = "seed" \/ crashes > 0

(* The voice a numbered label stands for, counted from zero. *)
Bucket(label) == IF label.kind = "remote" THEN label.n - 1 ELSE label.n

(* transcript_source.rs: SPEAKER_N counts from zero, and remote_N is for   *)
(* adapters that count from one.  Turns that are named have the same       *)
(* speaker exactly when their labels, of whatever kind, stand for the same *)
(* voice, and never the name of a lane.                                    *)
BucketsStayApart ==
  LET named == {i \in Seeds : log[i].speaker # Nameless}
  IN \A i, j \in named :
       /\ log[i].speaker.who = "remote"
       /\ log[i].speaker = log[j].speaker <=> Bucket(log[i].origin) = Bucket(log[j].origin)

-----------------------------------------------------------------------------
(* The inductive invariants.                                               *)

RowType ==
  [type : {"partial", "final", "stopped", "failed", "request", "card", "reason"},
   origin : Label \cup {Origin(k) : k \in {"lane", "late", "source", "demo", "agent", "operator"}},
   speaker : [who : {"me", "system_audio", "guest", "remote", "none"}, n : 0..MaxNumber],
   spans : SUBSET Nat,
   parent : Nat]

TypeOK ==
  /\ log \in Seq(RowType)
  /\ capture \in {"off", "open", "lane_lost", "over", "unended", "ended"}
  /\ due \in BOOLEAN
  /\ context \in SUBSET Nat
  /\ holder \in {"nobody", "request", "seed", "propose"}
  /\ poisoned \in BOOLEAN
  /\ asked \in Nat
  /\ crashes \in Nat
  /\ budget \in [Input -> Nat]

(* What a row says of the rows before it: an answer follows its request at *)
(* once, a card cites finals it was given, a turn has its label's speaker. *)
RowIsSound(rows, i) ==
  LET row == rows[i] IN
  /\ row.parent \in {0, i - 1}
  /\ row.type = "card" =>
       /\ row.spans # {}
       /\ row.spans \subseteq Finals(rows) \cap (1..(i - 1))
       /\ row.parent # 0 => row.spans \subseteq rows[row.parent].spans
  /\ row.origin \in Label =>
       row.type \in {"partial", "final"} /\ row.speaker = DiarizedSpeaker(row.origin)

LogIsSound(rows) == \A i \in DOMAIN rows : RowIsSound(rows, i)

(* The handler of a request holds the mutex until it is answered, and a    *)
(* snapshot stays among the finals.                                        *)
MutexInv ==
  /\ context \subseteq Finals(log)
  /\ holder = "request" <=> asked # 0
  /\ asked # 0 =>
       /\ asked = Len(log) /\ log[asked].type = "request"
       /\ log[asked].spans \subseteq Finals(log)
       /\ log[asked].spans = {} => Finals(log) = {}

Answers(rows, i) == {j \in DOMAIN rows : rows[j].parent = i}
Unanswered(rows, waiting) ==
  {i \in DOMAIN rows : rows[i].type = "request" /\ Answers(rows, i) = {} /\ waiting # i}

(* A request is left without an answer only by an exit of the daemon.      *)
OpenInv == Cardinality(Unanswered(log, asked)) <= crashes

Demo(rows) == {i \in Finals(rows) : rows[i].origin = Origin("demo")}

DemoInv ==
  /\ \A i \in Demo(log) : \A j \in Finals(log) \ Demo(log) : i < j
  /\ Cardinality(Demo(log)) <= DemoLength
  /\ holder = "seed" => Finals(log) = Demo(log) /\ Cardinality(Demo(log)) < DemoLength
  /\ \/ Demo(log) = {} \/ Cardinality(Demo(log)) = DemoLength
     \/ holder = "seed" \/ crashes > 0

IInv ==
  /\ TypeOK /\ LogIsSound(log) /\ MutexInv /\ OpenInv /\ DemoInv
  /\ PartialEndsWithCapture

=============================================================================
