---------------------------- MODULE Evidence_proofs ----------------------------
(***************************************************************************)
(* Theorems about Evidence for any lanes, labels, limits and inputs: what  *)
(* a model answers and how handlers, runs and the capture interleave never *)
(* makes the ledger say what was not heard or asked.                       *)
(***************************************************************************)
EXTENDS Evidence, SequenceTheorems, FiniteSetTheorems, TLAPS

-----------------------------------------------------------------------------
(* A finite set of places has a last one.                                  *)

LEMMA HasLast ==
  ASSUME NEW N \in Nat, NEW S \in SUBSET (1..N), S # {}
  PROVE  \E m \in S : \A j \in S : j <= m
  <1> SUFFICES ASSUME \A m \in S : \E j \in S : j > m
               PROVE  FALSE
    OBVIOUS
  <1> DEFINE Below == {l \in 1..N : \E i \in S : l <= i}
             up == [l \in Below |-> l + 1]
  <1>0. \A i \in S : i \in Nat /\ 1 <= i /\ i <= N
    OBVIOUS
  <1>1. IsFiniteSet(Below)
    <2>1. Below \in SUBSET (1..N) /\ IsFiniteSet(1..N)
      BY FS_Interval
    <2> HIDE DEF Below
    <2> QED
      BY <2>1, FS_Subset
  <1>2. up \in [Below -> Below]
    <2> SUFFICES ASSUME NEW l \in Below
                 PROVE  l + 1 \in Below
      OBVIOUS
    <2>1. PICK i \in S : l <= i
      OBVIOUS
    <2>2. PICK j \in S : j > i
      OBVIOUS
    <2> QED
      BY <2>1, <2>2
  <1>3. up \in Injection(Below, Below)
    BY <1>2 DEF Injection, IsInjective
  <1>4. up \in Surjection(Below, Below)
    <2> HIDE DEF up, Below
    <2> QED
      BY <1>1, <1>3, FS_Injection
  <1>5. 1 \in Below
    <2>1. PICK i \in S : TRUE
      OBVIOUS
    <2> QED
      BY <1>0, <2>1
  <1>6. PICK l \in Below : up[l] = 1
    BY <1>4, <1>5 DEF Surjection
  <1> QED
    BY <1>6

(* The last of some places are none only when there are none.              *)
LEMMA LatestIsSome ==
  ASSUME NEW N \in Nat, NEW S \in SUBSET (1..N), NEW limit \in Nat \ {0},
         Latest(S, limit) = {}
  PROVE  S = {}
  <1> SUFFICES ASSUME S # {}
               PROVE  FALSE
    OBVIOUS
  <1>1. PICK m \in S : \A j \in S : j <= m
    BY HasLast
  <1>2. {j \in S : j > m} = {}
    <2> SUFFICES ASSUME NEW j \in S, j > m
                 PROVE  FALSE
      OBVIOUS
    <2>1. j <= m /\ j \in Int /\ m \in Int
      BY <1>1
    <2> QED
      BY <2>1
  <1>3. m \in Latest(S, limit)
    BY <1>2, FS_EmptySet DEF Latest
  <1> QED
    BY <1>3

-----------------------------------------------------------------------------
(* A ledger with one more row.                                             *)

LEMMA AppendRows ==
  ASSUME NEW rows \in Seq(RowType), NEW row \in RowType
  PROVE  /\ Append(rows, row) \in Seq(RowType)
         /\ Len(rows) \in Nat /\ Len(Append(rows, row)) = Len(rows) + 1
         /\ DOMAIN rows = 1..Len(rows) /\ DOMAIN Append(rows, row) = 1..(Len(rows) + 1)
         /\ \A i \in DOMAIN rows : Append(rows, row)[i] = rows[i] /\ rows[i] \in RowType
         /\ Append(rows, row)[Len(rows) + 1] = row
  OBVIOUS

LEMMA AppendFinals ==
  ASSUME NEW rows \in Seq(RowType), NEW row \in RowType
  PROVE  /\ Finals(rows) \in SUBSET (1..Len(rows))
         /\ Finals(Append(rows, row)) =
              Finals(rows) \cup (IF row.type = "final" THEN {Len(rows) + 1} ELSE {})
  BY AppendRows DEF Finals

(* Earlier rows stay sound; the new one has to be.                         *)
LEMMA AppendSound ==
  ASSUME NEW rows \in Seq(RowType), NEW row \in RowType, LogIsSound(rows),
         row.parent \in {0, Len(rows)},
         row.type = "card" =>
           /\ row.spans # {} /\ row.spans \subseteq Finals(rows)
           /\ row.parent # 0 => row.spans \subseteq rows[row.parent].spans,
         row.origin \in Label =>
           row.type \in {"partial", "final"} /\ row.speaker = DiarizedSpeaker(row.origin)
  PROVE  LogIsSound(Append(rows, row))
  <1> DEFINE new == Append(rows, row)
  <1>1. /\ Len(rows) \in Nat /\ DOMAIN rows = 1..Len(rows)
        /\ DOMAIN new = 1..(Len(rows) + 1)
        /\ \A i \in DOMAIN rows : new[i] = rows[i] /\ rows[i] \in RowType
        /\ new[Len(rows) + 1] = row
    BY AppendRows
  <1>2. Finals(rows) \subseteq 1..Len(rows) /\ Finals(rows) \subseteq Finals(new)
    BY AppendFinals
  <1> HIDE DEF new
  <1> SUFFICES ASSUME NEW i \in DOMAIN new
               PROVE  RowIsSound(new, i)
    BY DEF LogIsSound, new
  <1>3. CASE i \in DOMAIN rows
    <2>1. RowIsSound(rows, i)
      BY <1>3 DEF LogIsSound
    <2>2. rows[i].parent # 0 => rows[i].parent \in DOMAIN rows
      BY <1>1, <1>3, <2>1 DEF RowIsSound, RowType
    <2> QED
      BY <1>1, <1>2, <1>3, <2>1, <2>2 DEF RowIsSound
  <1>4. CASE i = Len(rows) + 1
    <2>1. new[i] = row /\ i - 1 = Len(rows)
      BY <1>1, <1>4
    <2>2. row.parent # 0 => new[row.parent] = rows[row.parent]
      BY <1>1
    <2> QED
      BY <1>1, <1>2, <2>1, <2>2 DEF RowIsSound
  <1> QED
    BY <1>1, <1>3, <1>4

(* What the rows that nobody asked for leave as it is.                     *)
LEMMA AppendPlain ==
  ASSUME NEW rows \in Seq(RowType), NEW row \in RowType,
         row.type # "request", row.parent = 0, row.origin # Origin("demo")
  PROVE  /\ Demo(Append(rows, row)) = Demo(rows)
         /\ \A w : Unanswered(Append(rows, row), w) = Unanswered(rows, w)
         /\ Finals(rows) \subseteq Finals(Append(rows, row))
         /\ \A j \in Finals(Append(rows, row)) \ Finals(rows) : j = Len(rows) + 1
  <1> DEFINE new == Append(rows, row)
  <1>1. /\ Len(rows) \in Nat /\ DOMAIN rows = 1..Len(rows)
        /\ DOMAIN new = 1..(Len(rows) + 1)
        /\ \A i \in DOMAIN rows : new[i] = rows[i]
        /\ new[Len(rows) + 1] = row
    BY AppendRows
  <1>2. /\ Finals(rows) \subseteq 1..Len(rows) /\ Finals(rows) \subseteq Finals(new)
        /\ \A j \in Finals(new) \ Finals(rows) : j = Len(rows) + 1
    BY AppendFinals
  <1> HIDE DEF new
  <1>3. Demo(new) = Demo(rows)
    BY <1>1, <1>2 DEF Demo
  <1>4. ASSUME NEW i \in DOMAIN rows
        PROVE  Answers(new, i) = Answers(rows, i)
    BY <1>1 DEF Answers
  <1>5. ASSUME NEW w
        PROVE  Unanswered(new, w) = Unanswered(rows, w)
    BY <1>1, <1>4 DEF Unanswered
  <1> QED
    BY <1>2, <1>3, <1>5 DEF new

(* A request waits for its answer, and an answer answers its request.      *)
LEMMA AppendUnanswered ==
  ASSUME NEW rows \in Seq(RowType), NEW row \in RowType
  PROVE  /\ row.parent = 0 /\ row.type # "request" =>
              Unanswered(Append(rows, row), 0) = Unanswered(rows, 0)
         /\ row.parent = 0 =>
              Unanswered(Append(rows, row), Len(rows) + 1) = Unanswered(rows, 0)
         /\ \A w \in DOMAIN rows : row.parent = w /\ row.type # "request" =>
              Unanswered(Append(rows, row), 0) \subseteq Unanswered(rows, w)
  <1> DEFINE new == Append(rows, row)
  <1>1. /\ Len(rows) \in Nat /\ DOMAIN rows = 1..Len(rows)
        /\ DOMAIN new = 1..(Len(rows) + 1)
        /\ \A i \in DOMAIN rows : new[i] = rows[i]
        /\ new[Len(rows) + 1] = row
    BY AppendRows
  <1> HIDE DEF new
  <1>2. ASSUME NEW i \in DOMAIN rows, row.parent # i
        PROVE  Answers(new, i) = Answers(rows, i)
    BY <1>1, <1>2 DEF Answers
  <1>3. Answers(new, row.parent) # {}
    BY <1>1 DEF Answers
  <1>4. ASSUME row.parent = 0, row.type # "request"
        PROVE  Unanswered(new, 0) = Unanswered(rows, 0)
    BY <1>1, <1>2, <1>4 DEF Unanswered
  <1>5. ASSUME row.parent = 0
        PROVE  Unanswered(new, Len(rows) + 1) = Unanswered(rows, 0)
    BY <1>1, <1>2, <1>5 DEF Unanswered
  <1>6. ASSUME NEW w \in DOMAIN rows, row.parent = w, row.type # "request"
        PROVE  Unanswered(new, 0) \subseteq Unanswered(rows, w)
    BY <1>1, <1>2, <1>3, <1>6 DEF Unanswered
  <1> QED
    BY <1>4, <1>5, <1>6 DEF new

LEMMA UnansweredIsFinite ==
  ASSUME NEW rows \in Seq(RowType), NEW w
  PROVE  IsFiniteSet(Unanswered(rows, w)) /\ Cardinality(Unanswered(rows, w)) \in Nat
  <1>1. Unanswered(rows, w) \in SUBSET (1..Len(rows)) /\ Len(rows) \in Nat
    BY DEF Unanswered
  <1>2. IsFiniteSet(1..Len(rows))
    BY <1>1, FS_Interval
  <1> QED
    BY <1>1, <1>2, FS_Subset, FS_CardinalityType

LEMMA DemoIsFinite ==
  ASSUME NEW rows \in Seq(RowType)
  PROVE  IsFiniteSet(Demo(rows)) /\ Cardinality(Demo(rows)) \in Nat
  <1>1. Demo(rows) \in SUBSET (1..Len(rows)) /\ Len(rows) \in Nat
    BY DEF Demo, Finals
  <1>2. IsFiniteSet(1..Len(rows))
    BY <1>1, FS_Interval
  <1> QED
    BY <1>1, <1>2, FS_Subset, FS_CardinalityType

(* What a row leaves in flight.                                            *)
LEMMA AppendInFlight ==
  ASSUME NEW rows \in Seq(RowType), NEW row \in RowType,
         NEW i \in InFlight(Append(rows, row))
  PROVE  \/ i = Len(rows) + 1 /\ Append(rows, row)[i] = row /\ row.type = "partial"
         \/ /\ i \in InFlight(rows) /\ Append(rows, row)[i] = rows[i]
            /\ row.type \notin {"partial", "stopped", "failed"}
  <1> DEFINE new == Append(rows, row)
  <1>1. /\ Len(rows) \in Nat /\ DOMAIN rows = 1..Len(rows)
        /\ DOMAIN new = 1..(Len(rows) + 1) /\ Len(new) = Len(rows) + 1
        /\ \A j \in DOMAIN rows : new[j] = rows[j]
        /\ new[Len(rows) + 1] = row
    BY AppendRows
  <1> HIDE DEF new
  <1>2. /\ i \in DOMAIN new /\ new[i].type = "partial"
        /\ \A k \in (i + 1)..Len(new) : ~Displaces(new[k], new[i])
    BY DEF InFlight, new
  <1>3. CASE i = Len(rows) + 1
    BY <1>1, <1>2, <1>3 DEF new
  <1>4. CASE i \in DOMAIN rows
    <2>1. new[i] = rows[i] /\ rows[i].type = "partial"
      BY <1>1, <1>2, <1>4
    <2>2. ~Displaces(row, rows[i])
      BY <1>1, <1>2, <1>4
    <2>3. \A k \in (i + 1)..Len(rows) : ~Displaces(rows[k], rows[i])
      BY <1>1, <1>2, <1>4
    <2> QED
      BY <1>4, <2>1, <2>2, <2>3 DEF InFlight, Displaces, new
  <1> QED
    BY <1>1, <1>2, <1>3, <1>4

-----------------------------------------------------------------------------
(* The rows that are appended.                                             *)

LEMMA Labels ==
  /\ \A label \in Label : /\ label.kind \in {"speaker", "remote", "name"}
                          /\ label.n \in 0..MaxNumber
                          /\ label = [kind |-> label.kind, n |-> label.n]
  /\ \A k \in {"lane", "late", "source", "demo", "agent", "operator"} :
       Origin(k) \notin Label /\ Origin(k).kind = k
  BY EvidenceAssumption DEF Origin

LEMMA SpeakersAreTyped ==
  /\ \A lane : LaneSpeaker(lane) \in [who : {"me", "system_audio", "guest", "remote", "none"}, n : 0..MaxNumber]
  /\ \A label \in Label : ~Overflows(label) =>
       DiarizedSpeaker(label) \in [who : {"remote", "none"}, n : 0..MaxNumber]
  <1>1. MaxNumber \in Nat /\ 0 \in 0..MaxNumber
    BY EvidenceAssumption
  <1>2. ASSUME NEW lane
        PROVE  LaneSpeaker(lane) \in [who : {"me", "system_audio", "guest", "remote", "none"}, n : 0..MaxNumber]
    BY <1>1 DEF LaneSpeaker, Named, Nameless
  <1>3. ASSUME NEW label \in Label, ~Overflows(label)
        PROVE  DiarizedSpeaker(label) \in [who : {"remote", "none"}, n : 0..MaxNumber]
    <2>1. label.n \in 0..MaxNumber
      BY Labels
    <2>2. label.kind = "speaker" => label.n + 1 \in 0..MaxNumber
      BY <1>1, <1>3, <2>1 DEF Overflows
    <2> QED
      BY <1>1, <2>1, <2>2 DEF DiarizedSpeaker, Named, Nameless
  <1> QED
    BY <1>2, <1>3

LEMMA SegmentsAreRows ==
  ASSUME NEW type \in {"partial", "final"}
  PROVE  /\ \A lane : \A p \in {"lane", "late"} :
              Segment(type, Origin(p), LaneSpeaker(lane)) \in RowType
         /\ \A label \in Label : ~Overflows(label) =>
              Segment(type, label, DiarizedSpeaker(label)) \in RowType
         /\ Segment(type, Origin("demo"), Named("guest")) \in RowType
  <1>1. 0 \in 0..MaxNumber
    BY EvidenceAssumption
  <1>2. ASSUME NEW lane, NEW p \in {"lane", "late"}
        PROVE  Segment(type, Origin(p), LaneSpeaker(lane)) \in RowType
    BY <1>2, SpeakersAreTyped DEF RowType, Segment, Row
  <1>3. ASSUME NEW label \in Label, ~Overflows(label)
        PROVE  Segment(type, label, DiarizedSpeaker(label)) \in RowType
    BY <1>3, SpeakersAreTyped DEF RowType, Segment, Row
  <1>4. Segment(type, Origin("demo"), Named("guest")) \in RowType
    BY <1>1 DEF RowType, Segment, Row, Named
  <1> QED
    BY <1>2, <1>3, <1>4

LEMMA OtherRows ==
  /\ \A type \in {"stopped", "failed"} : SourceRow(type) \in RowType
  /\ \A spans \in SUBSET Nat :
       Row("request", Origin("operator"), Nameless, spans, 0) \in RowType
  BY EvidenceAssumption DEF RowType, SourceRow, Segment, Row, Nameless, Named

(* Whatever the model answers, a card cites some of what it was given.     *)
LEMMA DecisionFacts ==
  ASSUME NEW ctx \in SUBSET Nat, NEW parent \in Nat, NEW row \in Decisions(ctx, parent)
  PROVE  /\ row \in RowType /\ row.type \in {"card", "reason"}
         /\ row.parent = parent /\ row.origin = Origin("agent")
         /\ row.type = "card" => row.spans # {} /\ row.spans \subseteq ctx
  <1>1. PICK c \in Candidate(ctx) : row = Decision(c, ctx, parent)
    BY DEF Decisions
  <1> DEFINE cited == IF c.sure THEN Cited(c, ctx) ELSE {}
  <1>2. cited \subseteq ctx
    BY DEF Cited
  <1>3. 0 \in 0..MaxNumber
    BY EvidenceAssumption
  <1>4. CASE cited = {}
    <2>1. row = Row("reason", Origin("agent"), Nameless, {}, parent)
      BY <1>1, <1>4 DEF Decision
    <2> QED
      BY <1>3, <2>1 DEF RowType, Row, Nameless, Named
  <1>5. CASE cited # {}
    <2>1. row = Row("card", Origin("agent"), Nameless, cited, parent)
      BY <1>1, <1>5 DEF Decision
    <2> HIDE DEF cited
    <2>2. cited \in SUBSET Nat
      BY <1>2
    <2> QED
      BY <1>2, <1>3, <1>5, <2>1, <2>2 DEF RowType, Row, Nameless, Named
  <1> QED
    BY <1>4, <1>5

LEMMA SelectsFinals ==
  ASSUME NEW rows, NEW spans, NEW limit
  PROVE  /\ SelectFinal(rows, spans, limit) \subseteq Finals(rows)
         /\ spans # {} => SelectFinal(rows, spans, limit) \subseteq spans
  BY DEF SelectFinal, Latest

LEMMA FinalsArePlaces ==
  ASSUME NEW rows \in Seq(RowType)
  PROVE  /\ Len(rows) \in Nat /\ DOMAIN rows = 1..Len(rows)
         /\ Finals(rows) \in SUBSET (1..Len(rows)) /\ Finals(rows) \in SUBSET Nat
         /\ \A i \in DOMAIN rows : rows[i] \in RowType
  BY DEF Finals

(* A proposal adds a card or a reason to a sound ledger, or nothing.       *)
LEMMA ProposedFacts ==
  ASSUME NEW rows \in Seq(RowType), LogIsSound(rows), NEW after \in Proposed(rows)
  PROVE  \/ after = rows
         \/ \E row \in RowType :
              /\ after = Append(rows, row) /\ LogIsSound(after)
              /\ row.type \in {"card", "reason"} /\ row.parent = 0
              /\ row.origin = Origin("agent")
  <1>1. CASE after # rows
    <2> DEFINE ctx == SelectFinal(rows, {}, ContextLimit)
    <2>1. ctx \subseteq Finals(rows) /\ ctx \in SUBSET Nat
      BY SelectsFinals, FinalsArePlaces
    <2>2. PICK row \in Decisions(ctx, 0) : after = Append(rows, row)
      BY <1>1 DEF Proposed
    <2> HIDE DEF ctx
    <2>3. /\ row \in RowType /\ row.type \in {"card", "reason"} /\ row.parent = 0
          /\ row.origin = Origin("agent")
          /\ row.type = "card" => row.spans # {} /\ row.spans \subseteq ctx
      BY <2>1, DecisionFacts
    <2>4. LogIsSound(after)
      BY <2>1, <2>2, <2>3, Labels, AppendSound
    <2> QED
      BY <2>2, <2>3, <2>4
  <1> QED
    BY <1>1

-----------------------------------------------------------------------------
(* What the utterance in flight may be of.                                 *)

Live == {"open", "lane_lost", "unended"}
ShowsLane(rows) == \E i \in InFlight(rows) : rows[i].origin = Origin("lane")

LEMMA PartialAsShown == PartialEndsWithCapture <=> (ShowsLane(log) => capture \in Live)
  BY DEF PartialEndsWithCapture, ShowsLane, Live

LEMMA AppendShows ==
  ASSUME NEW rows \in Seq(RowType), NEW row \in RowType, ShowsLane(Append(rows, row))
  PROVE  \/ row.type = "partial" /\ row.origin = Origin("lane")
         \/ ShowsLane(rows) /\ row.type \notin {"partial", "stopped", "failed"}
  BY AppendInFlight DEF ShowsLane

-----------------------------------------------------------------------------
(* Steps that append what nobody asked for, or nothing.                    *)

LEMMA PlainStep ==
  ASSUME IInv, log' \in Seq(RowType), LogIsSound(log'),
         Demo(log') = Demo(log), \A w : Unanswered(log', w) = Unanswered(log, w),
         Finals(log) \subseteq Finals(log'),
         \A j \in Finals(log') \ Finals(log) : j > Len(log),
         asked = 0, asked' = 0, holder # "seed", holder' = "nobody", crashes' = crashes,
         context' \subseteq Finals(log')
  PROVE  LogIsSound(log)' /\ MutexInv' /\ OpenInv' /\ DemoInv'
  <1>1. MutexInv' /\ LogIsSound(log)'
    BY DEF MutexInv
  <1>2. OpenInv'
    BY DEF IInv, OpenInv
  <1>3. DemoInv'
    <2>1. Demo(log) \subseteq Finals(log) /\ Finals(log) \in SUBSET (1..Len(log)) /\ Len(log) \in Nat
      BY FinalsArePlaces DEF IInv, TypeOK, Demo
    <2>2. \A i \in Demo(log') : \A j \in Finals(log') \ Demo(log') : i < j
      <3> SUFFICES ASSUME NEW i \in Demo(log), NEW j \in Finals(log') \ Demo(log)
                   PROVE  i < j
        OBVIOUS
      <3>1. CASE j \in Finals(log)
        BY <3>1 DEF IInv, DemoInv
      <3>2. CASE j \notin Finals(log)
        <4>1. j > Len(log) /\ i \in Nat /\ i <= Len(log)
          BY <2>1, <3>2
        <4>2. j \in Nat
          BY FinalsArePlaces
        <4> QED
          BY <2>1, <4>1, <4>2
      <3> QED
        BY <3>1, <3>2
    <2> QED
      BY <2>2 DEF IInv, DemoInv
  <1> QED
    BY <1>1, <1>2, <1>3

LEMMA PlainRowStep ==
  ASSUME IInv, NEW row \in RowType, log' = Append(log, row),
         row.type \in {"partial", "final", "stopped", "failed", "card", "reason"},
         row.parent = 0, row.origin # Origin("demo"),
         row.type = "card" => row.spans # {} /\ row.spans \subseteq Finals(log),
         row.origin \in Label =>
           row.type \in {"partial", "final"} /\ row.speaker = DiarizedSpeaker(row.origin),
         asked = 0, asked' = 0, holder # "seed", holder' = "nobody", crashes' = crashes,
         context' \subseteq context,
         row.type = "partial" /\ row.origin = Origin("lane") => capture' \in Live,
         capture \in Live /\ row.type \notin {"stopped", "failed"} => capture' \in Live
  PROVE  /\ log' \in Seq(RowType) /\ LogIsSound(log)' /\ MutexInv' /\ OpenInv' /\ DemoInv'
         /\ PartialEndsWithCapture'
  <1>1. log \in Seq(RowType) /\ LogIsSound(log) /\ context \subseteq Finals(log)
    BY DEF IInv, TypeOK, MutexInv
  <1>2. log' \in Seq(RowType) /\ Len(log) \in Nat
    BY <1>1, AppendRows
  <1>3. LogIsSound(log')
    BY <1>1, AppendSound
  <1>4. /\ Demo(log') = Demo(log) /\ \A w : Unanswered(log', w) = Unanswered(log, w)
        /\ Finals(log) \subseteq Finals(log')
        /\ \A j \in Finals(log') \ Finals(log) : j > Len(log)
    BY <1>1, <1>2, AppendPlain
  <1>5. PartialEndsWithCapture'
    <2>1. ShowsLane(log') => \/ row.type = "partial" /\ row.origin = Origin("lane")
                             \/ ShowsLane(log) /\ row.type \notin {"partial", "stopped", "failed"}
      BY <1>1, AppendShows
    <2>2. ShowsLane(log) => capture \in Live
      BY PartialAsShown DEF IInv
    <2>3. ShowsLane(log') => capture' \in Live
      BY <2>1, <2>2
    <2> QED
      BY <2>3 DEF PartialEndsWithCapture, ShowsLane, Live
  <1> QED
    BY <1>1, <1>2, <1>3, <1>4, <1>5, PlainStep

(* A step that leaves the ledger and the mutex alone.                      *)
LEMMA NoRowStep ==
  ASSUME IInv, UNCHANGED <<log, holder, asked, crashes>>, context' \subseteq Finals(log),
         capture \in Live => capture' \in Live
  PROVE  /\ log' \in Seq(RowType) /\ LogIsSound(log)' /\ MutexInv' /\ OpenInv' /\ DemoInv'
         /\ PartialEndsWithCapture'
  <1>1. log' \in Seq(RowType) /\ LogIsSound(log)' /\ MutexInv' /\ OpenInv' /\ DemoInv'
    BY DEF IInv, TypeOK, MutexInv, OpenInv, DemoInv
  <1> QED
    BY <1>1 DEF IInv, PartialEndsWithCapture, Live

-----------------------------------------------------------------------------
(* Steps of the capture, the automatic run and the diarized turns.         *)

LEMMA Spent ==
  ASSUME TypeOK, NEW input \in Input, Spend(input)
  PROVE  budget' \in [Input -> Nat]
  BY DEF TypeOK, Spend

LEMMA InitIInv == Init => IInv
  <1> SUFFICES ASSUME Init
               PROVE  IInv
    OBVIOUS
  <1> USE EvidenceAssumption DEF Init, run, mutex
  <1>1. TypeOK
    <2>1. budget \in [Input -> Nat] /\ <<>> \in Seq(RowType)
      OBVIOUS
    <2> QED
      BY <2>1 DEF TypeOK
  <1>2. Finals(log) = {} /\ Demo(log) = {} /\ Unanswered(log, asked) = {} /\ DOMAIN log = {}
    BY DEF Finals, Demo, Unanswered
  <1>3. LogIsSound(log) /\ MutexInv
    BY <1>2 DEF LogIsSound, MutexInv
  <1>5. OpenInv /\ DemoInv
    <2>1. /\ Cardinality({}) = 0 /\ DemoLength \in Nat
          /\ crashes = 0 /\ holder = "nobody"
      BY FS_EmptySet
    <2> HIDE DEF Init
    <2>2. OpenInv
      BY <1>2, <2>1 DEF OpenInv
    <2>3. DemoInv
      BY <1>2, <2>1 DEF DemoInv
    <2> QED
      BY <2>2, <2>3
  <1>4. PartialEndsWithCapture
    BY DEF PartialEndsWithCapture, InFlight
  <1> QED
    BY <1>1, <1>3, <1>4, <1>5 DEF IInv

(* Whose rows a lane's line, an end and a turn are.                        *)
LEMMA SegmentParts ==
  ASSUME NEW type, NEW origin, NEW speaker
  PROVE  LET row == Segment(type, origin, speaker) IN
         row.type = type /\ row.origin = origin /\ row.speaker = speaker /\ row.parent = 0
  BY DEF Segment, Row

LEMMA CaptureIInv ==
  ASSUME IInv, \/ StartCapture \/ HearPartial \/ HearFinal \/ LoseLane \/ SayEnd \/ EndCapture
               \/ ReaderPanics
  PROVE  IInv'
  <1> USE DEF run, mutex, Free
  <1>0. TypeOK /\ MutexInv /\ log \in Seq(RowType)
    BY DEF IInv, TypeOK
  <1>1. CASE StartCapture \/ LoseLane
    <2>1. /\ UNCHANGED <<log, due, context, holder, poisoned, asked, crashes, budget>>
          /\ capture' \in {"open", "lane_lost"}
      BY <1>1 DEF StartCapture, LoseLane
    <2>2. context' \subseteq Finals(log) /\ capture' \in Live
      BY <1>0, <2>1 DEF MutexInv, Live
    <2>3. TypeOK'
      BY <1>0, <2>1 DEF TypeOK
    <2> QED
      BY <2>1, <2>2, <2>3, NoRowStep DEF IInv
  <1>2. ASSUME NEW lane \in Voice, NEW type \in {"partial", "final"},
               log' = Append(log, Segment(type, LinePlace, LaneSpeaker(lane))),
               Reading, Free, Spend("lane"),
               UNCHANGED <<capture, context, holder, poisoned, asked, crashes>>, due' \in BOOLEAN
        PROVE  IInv'
    <2> DEFINE row == Segment(type, LinePlace, LaneSpeaker(lane))
    <2>1. /\ LinePlace = Origin(IF capture = "over" THEN "late" ELSE "lane")
          /\ LinePlace \in {Origin("lane"), Origin("late")}
      BY DEF LinePlace
    <2>2. row \in RowType
      BY <2>1, SegmentsAreRows
    <2>3. /\ row.type = type /\ row.origin = LinePlace /\ row.parent = 0
          /\ row.origin \notin Label /\ row.origin # Origin("demo")
          /\ row.origin = Origin("lane") => capture # "over"
      BY <2>1, Labels, SegmentParts DEF Origin
    <2>4. asked = 0 /\ holder # "seed" /\ holder' = "nobody"
      BY <1>0, <1>2 DEF MutexInv
    <2>5. row.origin = Origin("lane") => capture' \in Live
      BY <1>2, <2>3 DEF Reading, Live
    <2>6. log' = Append(log, row)
      BY <1>2
    <2> HIDE DEF row
    <2>7. /\ log' \in Seq(RowType) /\ LogIsSound(log)' /\ MutexInv' /\ OpenInv' /\ DemoInv'
          /\ PartialEndsWithCapture'
      BY <1>2, <2>2, <2>3, <2>4, <2>5, <2>6, PlainRowStep
    <2>8. budget' \in [Input -> Nat]
      BY <1>0, <1>2, Spent DEF Input
    <2> QED
      BY <1>0, <1>2, <2>7, <2>8 DEF IInv, TypeOK
  <1>3. CASE HearPartial
    BY <1>0, <1>2, <1>3 DEF HearPartial, TypeOK
  <1>4. CASE HearFinal
    <2>1. due' \in BOOLEAN
      BY <1>0, <1>4 DEF HearFinal, TypeOK
    <2> QED
      BY <1>2, <1>4, <2>1 DEF HearFinal
  <1>5. ASSUME NEW type \in {"stopped", "failed"}, log' = Append(log, SourceRow(type)), Free,
               UNCHANGED <<due, context, holder, poisoned, asked, crashes, budget>>,
               capture' \in {"over", "unended", "ended"}
        PROVE  IInv'
    <2> DEFINE row == SourceRow(type)
    <2>1. row \in RowType
      BY OtherRows
    <2>2. /\ row.type = type /\ row.parent = 0
          /\ row.origin \notin Label /\ row.origin # Origin("demo")
      BY Labels, SegmentParts DEF Origin, SourceRow
    <2>3. asked = 0 /\ holder # "seed" /\ holder' = "nobody"
      BY <1>0, <1>5 DEF MutexInv
    <2>4. log' = Append(log, row)
      BY <1>5
    <2> HIDE DEF row
    <2>5. /\ log' \in Seq(RowType) /\ LogIsSound(log)' /\ MutexInv' /\ OpenInv' /\ DemoInv'
          /\ PartialEndsWithCapture'
      BY <1>5, <2>1, <2>2, <2>3, <2>4, PlainRowStep
    <2> QED
      BY <1>0, <1>5, <2>5 DEF IInv, TypeOK
  <1>6. CASE SayEnd
    BY <1>5, <1>6 DEF SayEnd
  <1>7. CASE EndCapture
    <2>1. CASE capture = "open"
      BY <1>5, <1>7, <2>1 DEF EndCapture
    <2>2. CASE capture # "open"
      <3>1. /\ UNCHANGED <<log, due, context, holder, poisoned, asked, crashes, budget>>
            /\ capture' = IF capture = "lane_lost" THEN "unended" ELSE "ended"
            /\ capture \in {"lane_lost", "over"}
        BY <1>7, <2>2 DEF EndCapture, Reading
      <3>2. context' \subseteq Finals(log) /\ (capture \in Live => capture' \in Live)
        BY <1>0, <3>1 DEF MutexInv, Live
      <3>3. TypeOK'
        BY <1>0, <3>1 DEF TypeOK
      <3> QED
        BY <3>1, <3>2, <3>3, NoRowStep DEF IInv
    <2> QED
      BY <2>1, <2>2
  <1>8. CASE ReaderPanics
    <2>1. /\ UNCHANGED <<log, due, context, holder, poisoned, asked, crashes, budget>>
          /\ capture' = IF capture = "over" THEN "ended" ELSE "unended"
      BY <1>8 DEF ReaderPanics
    <2>2. context' \subseteq Finals(log) /\ (capture \in Live => capture' \in Live)
      BY <1>0, <2>1 DEF MutexInv, Live
    <2>3. TypeOK'
      BY <1>0, <2>1 DEF TypeOK
    <2> QED
      BY <2>1, <2>2, <2>3, NoRowStep DEF IInv
  <1> QED
    BY <1>1, <1>3, <1>4, <1>6, <1>7, <1>8

LEMMA RunIInv == ASSUME IInv, TakeSnapshot \/ AppendDecision \/ RunPanics PROVE IInv'
  <1> USE DEF run, mutex, Free
  <1>0. TypeOK /\ MutexInv /\ log \in Seq(RowType)
    BY DEF IInv, TypeOK
  <1>1. CASE TakeSnapshot
    <2>1. /\ UNCHANGED <<log, capture, holder, poisoned, asked, crashes, budget>> /\ due' = FALSE
          /\ context' = SelectFinal(log, {}, ContextLimit) \/ context' = {}
      BY <1>1 DEF TakeSnapshot
    <2>2. context' \subseteq Finals(log) /\ context' \in SUBSET Nat
      BY <1>0, <2>1, SelectsFinals, FinalsArePlaces
    <2>3. TypeOK'
      BY <1>0, <2>1, <2>2 DEF TypeOK
    <2> QED
      BY <2>1, <2>2, <2>3, NoRowStep DEF IInv
  <1>2. CASE AppendDecision
    <2>1. /\ UNCHANGED <<capture, due, holder, poisoned, asked, crashes, budget>> /\ context' = {}
          /\ holder = "nobody" /\ asked = 0
      BY <1>0, <1>2 DEF AppendDecision, MutexInv
    <2>2. PICK row \in Decisions(context, 0) : log' = Append(log, row)
      BY <1>2 DEF AppendDecision
    <2>3. context \in SUBSET Nat /\ context \subseteq Finals(log)
      BY <1>0 DEF TypeOK, MutexInv
    <2>4. /\ row \in RowType /\ row.type \in {"card", "reason"} /\ row.parent = 0
          /\ row.origin = Origin("agent")
          /\ row.type = "card" => row.spans # {} /\ row.spans \subseteq context
      BY <2>3, DecisionFacts
    <2>5. row.origin \notin Label /\ row.origin # Origin("demo")
      BY <2>4, Labels DEF Origin
    <2>6. /\ log' \in Seq(RowType) /\ LogIsSound(log)' /\ MutexInv' /\ OpenInv' /\ DemoInv'
          /\ PartialEndsWithCapture'
      BY <2>1, <2>2, <2>3, <2>4, <2>5, PlainRowStep
    <2> QED
      BY <1>0, <2>1, <2>6 DEF IInv, TypeOK
  <1>3. CASE RunPanics
    <2>1. /\ UNCHANGED <<log, capture, holder, poisoned, asked, crashes, budget>>
          /\ due' = FALSE /\ context' = {}
      BY <1>3 DEF RunPanics
    <2>2. TypeOK'
      BY <1>0, <2>1 DEF TypeOK
    <2> QED
      BY <2>1, <2>2, NoRowStep DEF IInv
  <1> QED
    BY <1>1, <1>2, <1>3

-----------------------------------------------------------------------------
(* Requests.                                                               *)

(* The rows stay sound, and none is new in the demo or in flight.          *)
LEMMA AnswerableRow ==
  ASSUME IInv, NEW row \in RowType, log' = Append(log, row), UNCHANGED <<capture, context>>,
         row.type \in {"request", "card", "reason"},
         row.origin \in {Origin("agent"), Origin("operator")},
         row.parent \in {0, Len(log)},
         row.type = "card" =>
           /\ row.spans # {} /\ row.spans \subseteq Finals(log)
           /\ row.parent # 0 => row.spans \subseteq log[row.parent].spans
  PROVE  /\ log' \in Seq(RowType) /\ Len(log) \in Nat /\ log'[Len(log) + 1] = row
         /\ Len(log') = Len(log) + 1
         /\ LogIsSound(log') /\ PartialEndsWithCapture'
         /\ Finals(log') = Finals(log) /\ Demo(log') = Demo(log)
  <1>1. log \in Seq(RowType) /\ LogIsSound(log)
    BY DEF IInv, TypeOK
  <1>2. /\ log' \in Seq(RowType) /\ Len(log) \in Nat /\ log'[Len(log) + 1] = row
        /\ Len(log') = Len(log) + 1
        /\ \A i \in 1..Len(log) : log'[i] = log[i]
    BY <1>1, AppendRows
  <1>3. row.origin \notin Label
    BY Labels
  <1>4. LogIsSound(log')
    BY <1>1, <1>3, AppendSound
  <1>5. Finals(log') = Finals(log) /\ Finals(log) \subseteq 1..Len(log)
    BY <1>1, AppendFinals
  <1>6. Demo(log') = Demo(log)
    BY <1>2, <1>5 DEF Demo
  <1>7. ShowsLane(log') => ShowsLane(log)
    BY <1>1, AppendShows
  <1>8. ShowsLane(log') => capture' \in Live
    BY <1>7, PartialAsShown DEF IInv
  <1>9. PartialEndsWithCapture'
    BY <1>8 DEF PartialEndsWithCapture, ShowsLane, Live
  <1> QED
    BY <1>2, <1>4, <1>5, <1>6, <1>9

LEMMA AppendRequestIInv == ASSUME IInv, AppendRequest PROVE IInv'
  <1> USE DEF run, mutex, Free
  <1>0. TypeOK /\ MutexInv /\ OpenInv /\ DemoInv /\ log \in Seq(RowType)
    BY DEF IInv, TypeOK
  <1>1. PICK window \in {"recent", "full"} :
          log' = Append(log, Row("request", Origin("operator"), Nameless,
                                 RequestSpans(log, window), 0))
    BY DEF AppendRequest
  <1>2. /\ UNCHANGED <<capture, due, context, poisoned, crashes>> /\ holder = "nobody" /\ asked = 0
        /\ asked' = Len(log) + 1 /\ holder' = "request" /\ budget' \in [Input -> Nat]
    BY <1>0, Spent DEF AppendRequest, Input
  <1> DEFINE spans == RequestSpans(log, window)
             row == Row("request", Origin("operator"), Nameless, spans, 0)
  <1>3. spans \subseteq Finals(log) /\ (spans = {} => Finals(log) = {})
    <2>1. CASE window = "full"
      BY <2>1 DEF RequestSpans
    <2>2. CASE window = "recent"
      <3>1. spans = Latest(Finals(log), RecentLimit) /\ RecentLimit \in Nat \ {0}
        BY <2>2, EvidenceAssumption DEF RequestSpans, SelectFinal
      <3>2. Finals(log) \in SUBSET (1..Len(log)) /\ Len(log) \in Nat
        BY <1>0, FinalsArePlaces
      <3> HIDE DEF spans
      <3>3. spans = {} => Finals(log) = {}
        BY <3>1, <3>2, LatestIsSome
      <3> QED
        BY <3>1, <3>3 DEF Latest
    <2> QED
      BY <2>1, <2>2
  <1>4. spans \in SUBSET Nat
    BY <1>0, <1>3, FinalsArePlaces
  <1> HIDE DEF spans
  <1>5. /\ row \in RowType /\ row.type = "request" /\ row.parent = 0 /\ row.spans = spans
        /\ row.origin = Origin("operator")
    BY <1>4, OtherRows DEF Row
  <1>6. log' = Append(log, row)
    BY <1>1 DEF spans
  <1> HIDE DEF row
  <1>7. /\ log' \in Seq(RowType) /\ Len(log) \in Nat /\ log'[Len(log) + 1] = row
        /\ Len(log') = Len(log) + 1
        /\ LogIsSound(log') /\ PartialEndsWithCapture'
        /\ Finals(log') = Finals(log) /\ Demo(log') = Demo(log)
    BY <1>2, <1>5, <1>6, AnswerableRow
  <1>8. TypeOK'
    BY <1>0, <1>2, <1>7 DEF TypeOK
  <1>9. MutexInv'
    BY <1>0, <1>2, <1>3, <1>5, <1>7 DEF MutexInv
  <1>10. OpenInv'
    <2>1. Unanswered(log', asked') = Unanswered(log, asked)
      BY <1>0, <1>2, <1>5, <1>6, AppendUnanswered
    <2> QED
      BY <1>0, <1>2, <2>1 DEF OpenInv
  <1>11. DemoInv'
    BY <1>0, <1>2, <1>7 DEF DemoInv
  <1> QED
    BY <1>7, <1>8, <1>9, <1>10, <1>11 DEF IInv

LEMMA AppendAnswerIInv == ASSUME IInv, AppendAnswer PROVE IInv'
  <1> USE DEF run, mutex
  <1>0. /\ TypeOK /\ MutexInv /\ OpenInv /\ DemoInv /\ log \in Seq(RowType) /\ asked # 0
        /\ asked \in Nat
    BY DEF IInv, TypeOK, AppendAnswer
  <1> DEFINE ctx == SelectFinal(log, log[asked].spans, ContextLimit)
  <1>1. PICK row \in Decisions(ctx, asked) : log' = Append(log, row)
    BY DEF AppendAnswer
  <1>2. /\ UNCHANGED <<capture, due, context, poisoned, crashes, budget>>
        /\ asked' = 0 /\ holder' = "nobody"
    BY DEF AppendAnswer
  <1>3. /\ asked = Len(log) /\ holder = "request"
        /\ log[asked].spans = {} => Finals(log) = {}
        /\ asked \in DOMAIN log
    BY <1>0 DEF MutexInv
  <1>4. /\ ctx \subseteq Finals(log) /\ ctx \in SUBSET Nat
        /\ ctx \subseteq log[asked].spans
    BY <1>0, <1>3, SelectsFinals, FinalsArePlaces
  <1> HIDE DEF ctx
  <1>5. /\ row \in RowType /\ row.type \in {"card", "reason"} /\ row.parent = asked
        /\ row.origin = Origin("agent")
        /\ row.type = "card" => row.spans # {} /\ row.spans \subseteq ctx
    BY <1>0, <1>4, DecisionFacts
  <1>6. /\ log' \in Seq(RowType) /\ LogIsSound(log') /\ PartialEndsWithCapture'
        /\ Finals(log') = Finals(log) /\ Demo(log') = Demo(log)
    BY <1>1, <1>2, <1>3, <1>4, <1>5, AnswerableRow
  <1>7. TypeOK'
    BY <1>0, <1>2, <1>6 DEF TypeOK
  <1>8. MutexInv' /\ DemoInv'
    BY <1>0, <1>2, <1>3, <1>6 DEF MutexInv, DemoInv
  <1>9. OpenInv'
    <2>1. Unanswered(log', asked') \subseteq Unanswered(log, asked)
      BY <1>0, <1>1, <1>2, <1>3, <1>5, AppendUnanswered
    <2>2. Cardinality(Unanswered(log', asked')) <= Cardinality(Unanswered(log, asked))
      BY <1>0, <2>1, UnansweredIsFinite, FS_Subset
    <2>3. Cardinality(Unanswered(log', asked')) \in Nat /\ Cardinality(Unanswered(log, asked)) \in Nat
      BY <1>0, <1>6, UnansweredIsFinite
    <2> QED
      BY <1>0, <1>2, <2>2, <2>3 DEF OpenInv, TypeOK
  <1> QED
    BY <1>6, <1>7, <1>8, <1>9 DEF IInv

-----------------------------------------------------------------------------
(* The demo, the diarized turns and the daemon's exit.                     *)

LEMMA SeedDemoIInv == ASSUME IInv, SeedDemo PROVE IInv'
  <1> USE DEF run, mutex
  <1>0. /\ TypeOK /\ MutexInv /\ OpenInv /\ DemoInv /\ log \in Seq(RowType) /\ asked = 0
        /\ LogIsSound(log)
    BY DEF IInv, TypeOK, SeedDemo, MutexInv
  <1>1. PICK row \in RowType : row = Segment("final", Origin("demo"), Named("guest"))
    BY SegmentsAreRows
  <1>2. /\ log' = Append(log, row) /\ holder = "seed"
        /\ UNCHANGED <<capture, due, context, poisoned, asked, crashes, budget>>
        /\ holder' = IF Cardinality(Finals(log)) + 1 = DemoLength THEN "propose" ELSE "seed"
    BY <1>1 DEF SeedDemo
  <1>3. row.type = "final" /\ row.origin = Origin("demo") /\ row.parent = 0
    BY <1>1, SegmentParts
  <1>4. row.origin \notin Label
    BY <1>3, Labels
  <1>5. /\ log' \in Seq(RowType) /\ Len(log) \in Nat /\ log'[Len(log) + 1] = row
        /\ \A i \in 1..Len(log) : log'[i] = log[i]
    BY <1>0, <1>2, AppendRows
  <1>6. LogIsSound(log')
    BY <1>0, <1>2, <1>3, <1>4, AppendSound
  <1>7. PartialEndsWithCapture'
    <2>1. ShowsLane(log') => ShowsLane(log)
      BY <1>0, <1>2, <1>3, AppendShows
    <2>2. ShowsLane(log') => capture' \in Live
      BY <1>2, <2>1, PartialAsShown DEF IInv
    <2> QED
      BY <2>2 DEF PartialEndsWithCapture, ShowsLane, Live
  <1>8. /\ Finals(log') = Finals(log) \cup {Len(log) + 1}
        /\ Finals(log) \in SUBSET (1..Len(log))
    BY <1>0, <1>2, <1>3, AppendFinals
  <1>9. Finals(log) = Demo(log) /\ Cardinality(Demo(log)) < DemoLength /\ DemoLength \in Nat
    BY <1>0, <1>2, EvidenceAssumption DEF DemoInv
  <1>10. Demo(log') = Finals(log')
    BY <1>3, <1>5, <1>8, <1>9 DEF Demo
  <1>11. /\ Cardinality(Demo(log')) = Cardinality(Demo(log)) + 1
         /\ Cardinality(Demo(log)) \in Nat
    <2>1. Len(log) + 1 \notin Demo(log)
      BY <1>5, <1>8, <1>9
    <2>2. Demo(log') = Demo(log) \cup {Len(log) + 1}
      BY <1>8, <1>9, <1>10
    <2>3. IsFiniteSet(Demo(log)) /\ Cardinality(Demo(log)) \in Nat
      BY <1>0, DemoIsFinite
    <2> QED
      BY <2>1, <2>2, <2>3, FS_AddElement
  <1>12. DemoInv'
    BY <1>2, <1>9, <1>10, <1>11 DEF DemoInv
  <1>13. TypeOK'
    BY <1>0, <1>2, <1>5 DEF TypeOK
  <1>14. MutexInv'
    BY <1>0, <1>2, <1>8 DEF MutexInv
  <1>15. OpenInv'
    <2>1. Unanswered(log', asked') = Unanswered(log, asked)
      BY <1>0, <1>2, <1>3, AppendUnanswered
    <2> QED
      BY <1>0, <1>2, <2>1 DEF OpenInv
  <1> QED
    BY <1>6, <1>7, <1>12, <1>13, <1>14, <1>15 DEF IInv

LEMMA BeginDemoIInv == ASSUME IInv, BeginDemo PROVE IInv'
  <1> USE DEF run, mutex, Free
  <1>0. TypeOK /\ MutexInv /\ OpenInv /\ DemoInv
    BY DEF IInv
  <1>1. /\ UNCHANGED <<log, capture, due, context, poisoned, asked, crashes>> /\ holder = "nobody"
        /\ holder' = IF Finals(log) = {} THEN "seed" ELSE "propose"
        /\ budget' \in [Input -> Nat]
    BY <1>0, Spent DEF BeginDemo, Input
  <1>2. DemoInv'
    <2>1. CASE Finals(log) = {}
      <3>1. Demo(log) = {} /\ Cardinality(Demo(log)) = 0 /\ DemoLength \in Nat \ {0}
        BY <2>1, FS_EmptySet, EvidenceAssumption DEF Demo
      <3> QED
        BY <1>0, <1>1, <2>1, <3>1 DEF DemoInv
    <2>2. CASE Finals(log) # {}
      BY <1>0, <1>1, <2>2 DEF DemoInv
    <2> QED
      BY <2>1, <2>2
  <1>3. TypeOK' /\ MutexInv' /\ OpenInv'
    BY <1>0, <1>1 DEF TypeOK, MutexInv, OpenInv
  <1> QED
    BY <1>1, <1>2, <1>3 DEF IInv, PartialEndsWithCapture

LEMMA ProposeDemoIInv == ASSUME IInv, ProposeDemo PROVE IInv'
  <1> USE DEF run, mutex
  <1>0. TypeOK /\ MutexInv /\ LogIsSound(log) /\ log \in Seq(RowType)
    BY DEF IInv, TypeOK
  <1>1. /\ UNCHANGED <<capture, due, context, poisoned, asked, crashes, budget>> /\ holder = "propose"
        /\ holder' = "nobody" /\ asked = 0
        /\ log' \in Proposed(log) \cup {log}
    BY <1>0 DEF ProposeDemo, MutexInv
  <1>2. CASE log' = log
    <2>1. /\ context' \subseteq Finals(log') /\ LogIsSound(log')
          /\ PartialEndsWithCapture'
      BY <1>0, <1>1, <1>2 DEF MutexInv, IInv, PartialEndsWithCapture
    <2>2. LogIsSound(log)' /\ MutexInv' /\ OpenInv' /\ DemoInv'
      BY <1>0, <1>1, <1>2, <2>1, PlainStep
    <2> QED
      BY <1>0, <1>1, <1>2, <2>1, <2>2 DEF IInv, TypeOK
  <1>3. ASSUME NEW row \in RowType, log' = Append(log, row), LogIsSound(log'),
               row.type \in {"card", "reason"}, row.parent = 0, row.origin = Origin("agent")
        PROVE  IInv'
    <2>1. /\ log' \in Seq(RowType) /\ Len(log) \in Nat
          /\ Demo(log') = Demo(log) /\ \A w : Unanswered(log', w) = Unanswered(log, w)
          /\ Finals(log) \subseteq Finals(log')
          /\ \A j \in Finals(log') \ Finals(log) : j > Len(log)
      BY <1>0, <1>3, AppendRows, AppendPlain DEF Origin
    <2>2. context' \subseteq Finals(log')
      BY <1>0, <1>1, <2>1 DEF MutexInv
    <2>3. LogIsSound(log)' /\ MutexInv' /\ OpenInv' /\ DemoInv'
      BY <1>1, <1>3, <2>1, <2>2, PlainStep
    <2>4. ShowsLane(log') => capture' \in Live
      BY <1>0, <1>1, <1>3, AppendShows, PartialAsShown DEF IInv
    <2>5. PartialEndsWithCapture'
      BY <2>4 DEF PartialEndsWithCapture, ShowsLane, Live
    <2> QED
      BY <1>0, <1>1, <2>1, <2>3, <2>5 DEF IInv, TypeOK
  <1> QED
    BY <1>0, <1>1, <1>2, <1>3, ProposedFacts

LEMMA SeedIInv ==
  ASSUME IInv, NEW label \in Label, SeedPartial(label) \/ SeedFinal(label)
  PROVE  IInv'
  <1> USE DEF run, mutex, Free
  <1>0. TypeOK /\ MutexInv /\ LogIsSound(log) /\ log \in Seq(RowType)
    BY DEF IInv, TypeOK
  <1>1. /\ UNCHANGED <<capture, due, context, holder, poisoned, asked, crashes>> /\ holder = "nobody"
        /\ asked = 0 /\ budget' \in [Input -> Nat]
    BY <1>0, Spent DEF SeedPartial, SeedFinal, MutexInv, Input
  <1>2. PICK type \in {"partial", "final"} :
          \/ log' = Append(log, Segment(type, label, DiarizedSpeaker(label)))
          \/ log' \in Proposed(Append(log, Segment(type, label, DiarizedSpeaker(label))))
    BY DEF SeedPartial, SeedFinal
  <1>3. PICK turn \in RowType : turn = Segment(type, label, DiarizedSpeaker(label))
    BY SegmentsAreRows DEF SeedPartial, SeedFinal
  <1>4. /\ turn.type = type /\ turn.origin = label /\ turn.parent = 0
        /\ turn.speaker = DiarizedSpeaker(label)
        /\ turn.origin \notin {Origin("lane"), Origin("demo")}
    BY <1>3, SegmentParts, Labels
  <1> DEFINE heard == Append(log, turn)
  <1>5. /\ heard \in Seq(RowType) /\ Len(log) \in Nat /\ Len(heard) = Len(log) + 1
        /\ LogIsSound(heard)
        /\ Demo(heard) = Demo(log) /\ \A w : Unanswered(heard, w) = Unanswered(log, w)
        /\ Finals(log) \subseteq Finals(heard)
        /\ \A j \in Finals(heard) \ Finals(log) : j > Len(log)
        /\ ShowsLane(heard) => ShowsLane(log)
    <2>1. heard \in Seq(RowType) /\ Len(log) \in Nat /\ Len(heard) = Len(log) + 1
      BY <1>0, AppendRows
    <2>2. LogIsSound(heard)
      BY <1>0, <1>4, AppendSound
    <2>3. /\ Demo(heard) = Demo(log) /\ \A w : Unanswered(heard, w) = Unanswered(log, w)
          /\ Finals(log) \subseteq Finals(heard)
          /\ \A j \in Finals(heard) \ Finals(log) : j > Len(log)
      BY <1>0, <1>4, <2>1, AppendPlain
    <2>4. ShowsLane(heard) => ShowsLane(log)
      BY <1>0, <1>4, AppendShows
    <2> QED
      BY <2>1, <2>2, <2>3, <2>4
  <1> HIDE DEF heard
  <1>6. ASSUME /\ log' \in Seq(RowType) /\ LogIsSound(log')
               /\ Demo(log') = Demo(heard) /\ \A w : Unanswered(log', w) = Unanswered(heard, w)
               /\ Finals(heard) \subseteq Finals(log')
               /\ \A j \in Finals(log') \ Finals(heard) : j > Len(log)
               /\ ShowsLane(log') => ShowsLane(heard)
        PROVE  IInv'
    <2>1. /\ Demo(log') = Demo(log) /\ \A w : Unanswered(log', w) = Unanswered(log, w)
          /\ Finals(log) \subseteq Finals(log')
          /\ \A j \in Finals(log') \ Finals(log) : j > Len(log)
      BY <1>5, <1>6
    <2>2. context' \subseteq Finals(log')
      BY <1>0, <1>1, <2>1 DEF MutexInv
    <2>3. LogIsSound(log)' /\ MutexInv' /\ OpenInv' /\ DemoInv'
      BY <1>1, <1>6, <2>1, <2>2, PlainStep
    <2>4. ShowsLane(log') => capture' \in Live
      BY <1>1, <1>5, <1>6, PartialAsShown DEF IInv
    <2>5. PartialEndsWithCapture'
      BY <2>4 DEF PartialEndsWithCapture, ShowsLane, Live
    <2> QED
      BY <1>0, <1>1, <1>6, <2>3, <2>5 DEF IInv, TypeOK
  <1>7. CASE log' = heard
    BY <1>5, <1>6, <1>7
  <1>8. ASSUME NEW row \in RowType, log' = Append(heard, row), LogIsSound(log'),
               row.type \in {"card", "reason"}, row.parent = 0, row.origin = Origin("agent")
        PROVE  IInv'
    <2>1. /\ log' \in Seq(RowType)
          /\ Demo(log') = Demo(heard) /\ \A w : Unanswered(log', w) = Unanswered(heard, w)
          /\ Finals(heard) \subseteq Finals(log')
          /\ \A j \in Finals(log') \ Finals(heard) : j = Len(heard) + 1
      BY <1>5, <1>8, AppendRows, AppendPlain DEF Origin
    <2>2. \A j \in Finals(log') \ Finals(heard) : j > Len(log)
      BY <1>5, <2>1
    <2>3. ShowsLane(log') => ShowsLane(heard)
      BY <1>5, <1>8, AppendShows
    <2> QED
      BY <1>6, <1>8, <2>1, <2>2, <2>3
  <1>9. log' = heard \/ log' \in Proposed(heard)
    BY <1>2, <1>3 DEF heard
  <1> QED
    BY <1>5, <1>7, <1>8, <1>9, ProposedFacts

(* A turn whose number overflows leaves the ledger as it was.              *)
LEMMA SeedPanicsIInv ==
  ASSUME IInv, NEW label \in Label, SeedPanics(label)
  PROVE  IInv'
  <1>0. TypeOK /\ MutexInv
    BY DEF IInv
  <1>1. /\ UNCHANGED <<log, capture, due, context, holder, asked, crashes>> /\ poisoned' = TRUE
        /\ budget' \in [Input -> Nat]
    BY <1>0, Spent DEF SeedPanics, run, Input
  <1>2. TypeOK'
    BY <1>0, <1>1 DEF TypeOK
  <1>3. context' \subseteq Finals(log)
    BY <1>0, <1>1 DEF MutexInv
  <1> QED
    BY <1>1, <1>2, <1>3, NoRowStep DEF IInv

LEMMA CrashIInv == ASSUME IInv, CrashAndBoot PROVE IInv'
  <1> USE DEF run, mutex
  <1>0. TypeOK /\ MutexInv /\ OpenInv /\ DemoInv /\ LogIsSound(log) /\ log \in Seq(RowType)
    BY DEF IInv, TypeOK
  <1>1. /\ due' = FALSE /\ context' = {} /\ holder' = "nobody" /\ asked' = 0
        /\ poisoned' \in BOOLEAN
        /\ crashes' = crashes + 1 /\ crashes \in Nat /\ budget' \in [Input -> Nat]
        /\ capture' \in {"off", "ended"}
    BY <1>0, Spent DEF CrashAndBoot, TypeOK, Input
  <1>2. /\ log' \in Seq(RowType) /\ LogIsSound(log')
        /\ Finals(log') = Finals(log) /\ Demo(log') = Demo(log)
        /\ Unanswered(log', 0) = Unanswered(log, 0)
        /\ ~ShowsLane(log')
    <2>1. CASE capture \in Live
      <3>1. PICK row \in RowType : row = SourceRow("stopped")
        BY OtherRows
      <3>2. log' = Append(log, row)
        BY <2>1, <3>1 DEF CrashAndBoot, Live
      <3>3. /\ row.type = "stopped" /\ row.parent = 0
            /\ row.origin \notin Label /\ row.origin # Origin("demo")
        BY <3>1, Labels, SegmentParts DEF Origin, SourceRow
      <3>4. /\ Finals(log') = Finals(log) /\ Demo(log') = Demo(log)
            /\ Unanswered(log', 0) = Unanswered(log, 0)
        <4>1. Finals(Append(log, row)) = Finals(log)
          BY <1>0, <3>3, AppendFinals
        <4>2. Demo(Append(log, row)) = Demo(log)
          BY <1>0, <3>3, AppendPlain
        <4>3. Unanswered(Append(log, row), 0) = Unanswered(log, 0)
          BY <1>0, <3>3, AppendPlain
        <4> QED
          BY <3>2, <4>1, <4>2, <4>3
      <3>5. log' \in Seq(RowType) /\ LogIsSound(log') /\ ~ShowsLane(log')
        BY <1>0, <3>2, <3>3, AppendRows, AppendSound, AppendShows
      <3> QED
        BY <3>4, <3>5
    <2>2. CASE capture \notin Live
      <3>1. log' = log
        BY <2>2 DEF CrashAndBoot, Live
      <3>2. ~ShowsLane(log)
        BY <2>2, PartialAsShown DEF IInv
      <3> QED
        BY <1>0, <3>1, <3>2
    <2> QED
      BY <2>1, <2>2
  <1>3. OpenInv'
    <2>1. Unanswered(log', 0) \subseteq Unanswered(log, asked) \cup {asked}
      BY <1>2 DEF Unanswered
    <2>2. /\ IsFiniteSet(Unanswered(log, asked) \cup {asked})
          /\ Cardinality(Unanswered(log, asked) \cup {asked}) <= Cardinality(Unanswered(log, asked)) + 1
          /\ Cardinality(Unanswered(log, asked) \cup {asked}) \in Nat
          /\ Cardinality(Unanswered(log, asked)) \in Nat
      <3> DEFINE U == Unanswered(log, asked)
      <3>1. IsFiniteSet(U) /\ Cardinality(U) \in Nat
        BY <1>0, UnansweredIsFinite
      <3> HIDE DEF U
      <3>2. /\ IsFiniteSet(U \cup {asked})
            /\ Cardinality(U \cup {asked}) = IF asked \in U THEN Cardinality(U) ELSE Cardinality(U) + 1
        BY <3>1, FS_AddElement
      <3>3. Cardinality(U \cup {asked}) <= Cardinality(U) + 1 /\ Cardinality(U \cup {asked}) \in Nat
        BY <3>1, <3>2
      <3> QED
        BY <3>1, <3>2, <3>3 DEF U
    <2>3. /\ Cardinality(Unanswered(log', 0)) <= Cardinality(Unanswered(log, asked) \cup {asked})
          /\ Cardinality(Unanswered(log', 0)) \in Nat
      BY <1>2, <2>1, <2>2, UnansweredIsFinite, FS_Subset
    <2>4. Cardinality(Unanswered(log, asked)) <= crashes
      BY <1>0 DEF OpenInv
    <2> QED
      BY <1>1, <2>2, <2>3, <2>4 DEF OpenInv
  <1>4. DemoInv'
    BY <1>0, <1>1, <1>2 DEF DemoInv
  <1>5. TypeOK' /\ MutexInv'
    <2>1. TypeOK'
      <3>1. context' \in SUBSET Nat /\ crashes' \in Nat
        BY <1>1
      <3>2. asked' \in Nat /\ due' \in BOOLEAN
        BY <1>1
      <3>3. /\ capture' \in {"off", "open", "lane_lost", "over", "unended", "ended"}
            /\ holder' \in {"nobody", "request", "seed", "propose"}
        BY <1>1
      <3> QED
        BY <1>1, <1>2, <3>1, <3>2, <3>3 DEF TypeOK
    <2>2. MutexInv'
      BY <1>1 DEF MutexInv
    <2> QED
      BY <2>1, <2>2
  <1>6. PartialEndsWithCapture'
    BY <1>2 DEF PartialEndsWithCapture, ShowsLane
  <1> QED
    BY <1>2, <1>3, <1>4, <1>5, <1>6 DEF IInv

-----------------------------------------------------------------------------
(* The theorems.                                                           *)

LEMMA NextIInv == IInv /\ [Next]_vars => IInv'
  <1> SUFFICES ASSUME IInv, [Next]_vars
               PROVE  IInv'
    OBVIOUS
  <1>1. CASE UNCHANGED vars
    <2>1. UNCHANGED <<log, capture, due, context, holder, poisoned, asked, crashes, budget>>
      BY <1>1 DEF vars, run, mutex
    <2>2. TypeOK' /\ MutexInv' /\ OpenInv' /\ DemoInv'
      BY <2>1 DEF IInv, TypeOK, MutexInv, OpenInv, DemoInv
    <2> QED
      BY <2>1, <2>2 DEF IInv, PartialEndsWithCapture
  <1> QED
    BY <1>1, CaptureIInv, RunIInv, AppendRequestIInv, AppendAnswerIInv, BeginDemoIInv,
       SeedDemoIInv, ProposeDemoIInv, SeedIInv, SeedPanicsIInv, CrashIInv DEF Next

(* Every reachable state satisfies the inductive invariant.                *)
THEOREM Invariance == Spec => []IInv
  BY InitIInv, NextIInv, PTL DEF Spec

(* Every reachable state is well typed: in particular no row has another   *)
(* shape, whatever a model answers.                                        *)
THEOREM TypeCorrect == Spec => []TypeOK
  BY Invariance, PTL DEF IInv

(* No ghost partial under a stopped meeting (event_log.rs).                *)
THEOREM PartialEndsWithCaptureAlways == Spec => []PartialEndsWithCapture
  BY Invariance, PTL DEF IInv

(* Every card cites finals that were there before it, and a request's card *)
(* what the request recorded (proposal_request.rs, engine.rs).             *)
THEOREM CardsCiteTheRecordAlways == Spec => []CardsCiteTheRecord
  <1>1. IInv => CardsCiteTheRecord
    <2> SUFFICES ASSUME IInv, NEW i \in RowsOf("card")
                 PROVE  /\ log[i].spans # {}
                        /\ \A s \in log[i].spans : s < i /\ s \in RowsOf("final")
                        /\ log[i].parent # 0 => log[i].spans \subseteq log[log[i].parent].spans
      BY DEF CardsCiteTheRecord
    <2>1. i \in DOMAIN log /\ log[i].type = "card" /\ i \in Nat
      BY FinalsArePlaces DEF RowsOf, IInv, TypeOK
    <2>2. RowIsSound(log, i)
      BY <2>1 DEF IInv, LogIsSound
    <2> QED
      BY <2>1, <2>2 DEF RowIsSound, Finals, RowsOf
  <1> QED
    BY <1>1, Invariance, PTL

(* A request is answered once, at once, or was cut off by an exit          *)
(* (create_proposal_request in main.rs).                                   *)
THEOREM RequestsAreAnsweredAlways == Spec => []RequestsAreAnswered
  <1>1. IInv => RequestsAreAnswered
    <2> SUFFICES ASSUME IInv
                 PROVE  RequestsAreAnswered
      OBVIOUS
    <2>0. /\ Len(log) \in Nat /\ DOMAIN log = 1..Len(log)
          /\ \A i \in DOMAIN log : log[i] \in RowType
      BY FinalsArePlaces DEF IInv, TypeOK
    <2>1. ASSUME NEW i \in DOMAIN log
          PROVE  {j \in DOMAIN log : log[j].parent = i} \subseteq {i + 1}
      <3> SUFFICES ASSUME NEW j \in DOMAIN log, log[j].parent = i
                   PROVE  j = i + 1
        OBVIOUS
      <3>1. RowIsSound(log, j)
        BY DEF IInv, LogIsSound
      <3> QED
        BY <2>0, <3>1 DEF RowIsSound
    <2>2. asked \in {0, Len(log)}
      BY DEF IInv, MutexInv
    <2>3. {i \in RowsOf("request") : {j \in DOMAIN log : log[j].parent = i} = {} /\ asked # i}
            = Unanswered(log, asked)
      BY DEF Unanswered, Answers, RowsOf
    <2>4. RowsOf("request") \subseteq DOMAIN log
      BY DEF RowsOf
    <2> QED
      BY <2>1, <2>2, <2>3, <2>4 DEF RequestsAreAnswered, IInv, OpenInv
  <1> QED
    BY <1>1, Invariance, PTL

(* The demo is seeded once, as a whole, unless the daemon exits meanwhile  *)
(* (start_demo in main.rs).                                                *)
THEOREM DemoIsSeededOnceAlways == Spec => []DemoIsSeededOnce
  <1>1. DemoRows = Demo(log) /\ RowsOf("final") = Finals(log)
    BY DEF DemoRows, Demo, RowsOf, Finals
  <1>2. IInv => DemoIsSeededOnce
    BY <1>1 DEF IInv, DemoInv, DemoIsSeededOnce
  <1> QED
    BY <1>2, Invariance, PTL

(* Turns have the same speaker exactly when their labels stand for the     *)
(* same voice, whether they count from zero or from one, for any labels    *)
(* and after any turns (transcript_source.rs).                             *)
THEOREM BucketsStayApartAlways == Spec => []BucketsStayApart
  <1>1. ASSUME NEW a \in Label, DiarizedSpeaker(a) # Nameless
        PROVE  /\ DiarizedSpeaker(a) = [who |-> "remote", n |-> Bucket(a) + 1]
               /\ Bucket(a) \in Nat
    <2>1. a.n \in Nat /\ a.kind \in {"speaker", "remote", "name"}
      BY Labels, EvidenceAssumption
    <2>2. CASE a.kind = "speaker"
      BY <2>1, <2>2 DEF DiarizedSpeaker, Bucket
    <2>3. CASE a.kind = "remote"
      <3>1. a.n > 0 /\ Bucket(a) = a.n - 1
        BY <1>1, <2>3 DEF DiarizedSpeaker, Bucket
      <3>2. DiarizedSpeaker(a) = [who |-> "remote", n |-> a.n]
        BY <2>3, <3>1 DEF DiarizedSpeaker
      <3> QED
        BY <2>1, <3>1, <3>2
    <2>4. CASE a.kind = "name"
      BY <1>1, <2>4 DEF DiarizedSpeaker
    <2> QED
      BY <2>1, <2>2, <2>3, <2>4
  <1>2. IInv => BucketsStayApart
    <2> SUFFICES ASSUME IInv,
                        NEW i \in Seeds, log[i].speaker # Nameless,
                        NEW j \in Seeds, log[j].speaker # Nameless
                 PROVE  /\ log[i].speaker.who = "remote"
                        /\ log[i].speaker = log[j].speaker
                             <=> Bucket(log[i].origin) = Bucket(log[j].origin)
      BY DEF BucketsStayApart
    <2>1. \A k \in Seeds : log[k].origin \in Label /\ log[k].speaker = DiarizedSpeaker(log[k].origin)
      BY DEF Seeds, IInv, LogIsSound, RowIsSound
    <2>2. /\ log[i].speaker = [who |-> "remote", n |-> Bucket(log[i].origin) + 1]
          /\ log[j].speaker = [who |-> "remote", n |-> Bucket(log[j].origin) + 1]
          /\ Bucket(log[i].origin) \in Nat /\ Bucket(log[j].origin) \in Nat
      BY <1>1, <2>1
    <2>3. log[i].speaker.who = "remote"
      BY <2>2
    <2>4. log[i].speaker = log[j].speaker <=> Bucket(log[i].origin) = Bucket(log[j].origin)
      <3>1. log[i].speaker.n = Bucket(log[i].origin) + 1 /\ log[j].speaker.n = Bucket(log[j].origin) + 1
        BY <2>2
      <3> QED
        BY <2>2, <3>1
    <2> QED
      BY <2>3, <2>4
  <1> QED
    BY <1>2, Invariance, PTL

=============================================================================
