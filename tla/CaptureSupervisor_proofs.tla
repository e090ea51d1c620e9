----------------------- MODULE CaptureSupervisor_proofs -----------------------
(***************************************************************************)
(* Theorems about CaptureSupervisor for any number of start and stop       *)
(* requests, any modes and reports, any pipe, daemon exits and failures.   *)
(* IInv is inductive for every overlap of start requests; OneInv is        *)
(* inductive on top of it while they do not overlap.                       *)
(***************************************************************************)
EXTENDS CaptureSupervisor, SequenceTheorems, FiniteSetTheorems, TLAPS

-----------------------------------------------------------------------------
(* The folds of SourceState.                                               *)

(* Every fold of a row gives a source that is well folded again.           *)
LEMMA FoldsAreWell ==
  ASSUME NEW src \in Source, WellFolded(src), NEW run \in Mode
  PROVE  /\ MeetingStarted(src, run) \in Source
         /\ WellFolded(MeetingStarted(src, run))
         /\ SourceStarted(src, run) \in Source
         /\ WellFolded(SourceStarted(src, run))
         /\ SourceStopped(src) \in Source
         /\ WellFolded(SourceStopped(src))
         /\ SourceFailed(src, "crashed", "none") \in Source
         /\ WellFolded(SourceFailed(src, "crashed", "none"))
  <1>1. Lanes(run) \subseteq Lane
    BY DEF Lanes
  <1>2. /\ MeetingStarted(src, run) \in Source
        /\ WellFolded(MeetingStarted(src, run))
    BY DEF MeetingStarted, Source, WellFolded, InFlight
  <1>3. /\ SourceStarted(src, run) \in Source
        /\ WellFolded(SourceStarted(src, run))
    BY <1>1 DEF SourceStarted, Source, WellFolded, InFlight
  <1>4. /\ SourceStopped(src) \in Source
        /\ WellFolded(SourceStopped(src))
    BY DEF SourceStopped, Source, WellFolded, InFlight
  <1>5. /\ SourceFailed(src, "crashed", "none") \in Source
        /\ WellFolded(SourceFailed(src, "crashed", "none"))
    BY DEF SourceFailed, SystemLaneOnly, Source, WellFolded, InFlight, Lane
  <1> QED
    BY <1>2, <1>3, <1>4, <1>5

(* So does what the reader appends for a line of the helper. *)
LEMMA IngestIsWell ==
  ASSUME NEW src \in Source, WellFolded(src), NEW run \in Mode, NEW e \in Event,
         e.kind \in {"quiet", "loud", "partial", "final"} => e.lane \in Lane
  PROVE  Ingest(src, run, e) \in Source /\ WellFolded(Ingest(src, run, e))
  <1>1. CASE e.kind = "started"
    BY <1>1, FoldsAreWell DEF Ingest
  <1>2. CASE e.kind \in {"quiet", "loud"}
    BY <1>2 DEF Ingest, LevelReported, Source, WellFolded, InFlight
  <1>3. CASE e.kind = "partial"
    BY <1>3 DEF Ingest, SegmentPartial, Heard, Source, WellFolded, InFlight
  <1>4. CASE e.kind = "final"
    BY <1>4 DEF Ingest, SegmentFinal, Heard, Source, WellFolded, InFlight
  <1>5. CASE e.kind = "failed"
    BY <1>5 DEF Ingest, SourceFailed, SystemLaneOnly, Source, WellFolded, InFlight
  <1>6. CASE e.kind = "stopped"
    BY <1>6, FoldsAreWell DEF Ingest
  <1> QED
    BY <1>1, <1>2, <1>3, <1>4, <1>5, <1>6 DEF Event

-----------------------------------------------------------------------------
(* Pipes.                                                                  *)

Early == {"none", "booting", "acquiring"}

(* What a step that leaves the pipes alone must respect.                   *)
LEMMA PipeKept ==
  ASSUME PipeInv, UNCHANGED <<mode, pipe>>,
         \A s \in Session : /\ laneLost[s] => laneLost'[s]
                            /\ helper'[s] \in Early => helper[s] \in Early
                            /\ at'[s] \in {"unused", "spawn"} => helper'[s] = "none"
  PROVE  PipeInv'
  BY DEF PipeInv, Unread, Early

(* What a step that changes no helper must respect.                        *)
LEMMA ProcessKept ==
  ASSUME PipeInv, UNCHANGED <<mode, process>>,
         \A s \in Session : at'[s] \in {"unused", "spawn"} =>
                              at[s] \in {"unused", "spawn"}
  PROVE  PipeInv'
  <1>1. \A s \in Session : at'[s] \in {"unused", "spawn"} => helper'[s] = "none"
    BY DEF PipeInv, process
  <1> QED
    BY <1>1, PipeKept DEF process

(* A line that is written is the last one. *)
LEMMA WriteFacts ==
  ASSUME TypeOK, NEW s \in Session, NEW e \in Event, Write(s, e.kind, e.lane)
  PROVE  /\ pipe' \in [Session -> Seq(Event)]
         /\ Len(pipe[s]) \in Nat /\ Len(pipe'[s]) = Len(pipe[s]) + 1
         /\ \A i \in 1..Len(pipe[s]) : pipe'[s][i] = pipe[s][i]
         /\ pipe'[s][Len(pipe[s]) + 1] = e
         /\ Unread(s)' = Unread(s) \cup {e}
         /\ \A t \in Session \ {s} : pipe'[t] = pipe[t] /\ Unread(t)' = Unread(t)
         /\ UNCHANGED <<source, captures, session, stop, daemon, faults>>
  <1>1. [kind |-> e.kind, lane |-> e.lane] = e
    BY DEF Event
  <1>2. pipe \in [Session -> Seq(Event)] /\ pipe' = [pipe EXCEPT ![s] = Append(@, e)]
    BY <1>1 DEF TypeOK, Write
  <1>3. pipe[s] \in Seq(Event) /\ pipe'[s] = Append(pipe[s], e)
    BY <1>2
  <1>4. /\ Append(pipe[s], e) \in Seq(Event)
        /\ Len(pipe[s]) \in Nat /\ Len(pipe'[s]) = Len(pipe[s]) + 1
        /\ \A i \in 1..Len(pipe[s]) : pipe'[s][i] = pipe[s][i]
        /\ pipe'[s][Len(pipe[s]) + 1] = e
    BY <1>3, AppendProperties, LenProperties
  <1>5. Unread(s)' = Unread(s) \cup {e}
    <2>1. 1..Len(pipe'[s]) = 1..Len(pipe[s]) \cup {Len(pipe[s]) + 1}
      BY <1>4
    <2> QED
      BY <1>4, <2>1 DEF Unread
  <1>6. \A t \in Session \ {s} : pipe'[t] = pipe[t] /\ Unread(t)' = Unread(t)
    BY <1>2 DEF Unread
  <1>7. pipe' \in [Session -> Seq(Event)]
    BY <1>2, <1>4, <1>3
  <1> QED
    BY <1>4, <1>5, <1>6, <1>7 DEF Write

(* A line that is read was the first one. *)
LEMMA ReadFacts ==
  ASSUME TypeOK, NEW s \in Session, ReadLine(s)
  PROVE  /\ pipe' \in [Session -> Seq(Event)]
         /\ Len(pipe[s]) \in Nat /\ Len(pipe'[s]) = Len(pipe[s]) - 1
         /\ \A i \in 1..Len(pipe'[s]) : pipe'[s][i] = pipe[s][i + 1]
         /\ Head(pipe[s]) \in Event /\ Head(pipe[s]) = pipe[s][1]
         /\ Head(pipe[s]) \in Unread(s)
         /\ Unread(s)' \subseteq Unread(s)
         /\ \A t \in Session \ {s} : pipe'[t] = pipe[t] /\ Unread(t)' = Unread(t)
  <1>1. pipe \in [Session -> Seq(Event)] /\ pipe' = [pipe EXCEPT ![s] = Tail(@)]
    BY DEF TypeOK, ReadLine
  <1>2. pipe[s] \in Seq(Event) /\ pipe[s] # <<>> /\ pipe'[s] = Tail(pipe[s])
    BY <1>1 DEF ReadLine
  <1>3. /\ Tail(pipe[s]) \in Seq(Event)
        /\ Len(pipe[s]) \in Nat \ {0} /\ Len(pipe'[s]) = Len(pipe[s]) - 1
        /\ \A i \in 1..Len(pipe'[s]) : pipe'[s][i] = pipe[s][i + 1]
        /\ Head(pipe[s]) \in Event
    BY <1>2, HeadTailProperties, EmptySeq
  <1>4. Head(pipe[s]) = pipe[s][1]
    BY <1>2
  <1>5. Unread(s)' \subseteq Unread(s)
    <2>1. \A i \in 1..Len(pipe'[s]) : i + 1 \in 1..Len(pipe[s])
      BY <1>3
    <2> QED
      BY <1>3, <2>1 DEF Unread
  <1>6. Head(pipe[s]) \in Unread(s)
    BY <1>3, <1>4 DEF Unread
  <1>7. \A t \in Session \ {s} : pipe'[t] = pipe[t] /\ Unread(t)' = Unread(t)
    BY <1>1 DEF Unread
  <1>8. pipe' \in [Session -> Seq(Event)]
    BY <1>1, <1>2, <1>3
  <1> QED
    BY <1>3, <1>4, <1>5, <1>6, <1>7, <1>8

-----------------------------------------------------------------------------
(* IInv is inductive.                                                      *)

LEMMA InitIInv == Init => IInv
  <1> SUFFICES ASSUME Init PROVE IInv
    OBVIOUS
  <1>1. NoSource \in Source /\ WellFolded(NoSource) /\ ~Unexplained(NoSource)
    BY DEF NoSource, Source, WellFolded, InFlight, Unexplained
  <1>2. \A s \in Session : pipe[s] = <<>> /\ Len(pipe[s]) = 0
    BY EmptySeq DEF Init
  <1>3. TypeOK
    <2>1. pipe \in [Session -> Seq(Event)]
      BY EmptySeq DEF Init
    <2>2. 0 \in 0..MaxCrashes /\ 0 \in 0..MaxFaults
      BY ConstantsAssumption
    <2> QED
      BY <1>1, <2>1, <2>2 DEF Init, TypeOK
  <1>4. PipeInv
    <2>1. \A s \in Session : Unread(s) = {} /\ 1..Len(pipe[s]) = {}
      BY <1>2 DEF Unread
    <2>2. \A s \in Session : helper[s] = "none"
      BY DEF Init
    <2> QED
      BY <2>1, <2>2 DEF PipeInv
  <1> QED
    BY <1>1, <1>3, <1>4 DEF Init, IInv, EndInv

(* start_capture. *)
LEMMA StartIInv ==
  ASSUME IInv, NEW s \in Session,
         StartCheck(s) \/ StartStep(s) \/ RecordFails(s)
  PROVE  IInv'
  <1> USE DEF IInv, daemon, process, session
  <1>1. CASE StartCheck(s)
    <2>1. TypeOK'
      BY <1>1 DEF StartCheck, TypeOK, Starting
    <2>2. PipeInv'
      BY <1>1, ProcessKept DEF StartCheck, TypeOK
    <2>3. EndInv' /\ WellFolded(source)'
      BY <1>1 DEF StartCheck, TypeOK, EndInv
    <2> QED
      BY <2>1, <2>2, <2>3
  <1>2. CASE Spawn(s)
    <2>1. TypeOK'
      BY <1>2 DEF Spawn, TypeOK, Starting
    <2>2. PipeInv'
      <3>1. helper[s] = "none"
        BY <1>2 DEF Spawn, PipeInv
      <3>2. \A t \in Session : at'[t] \in {"unused", "spawn"} => helper'[t] = "none"
        BY <1>2 DEF Spawn, TypeOK, PipeInv
      <3> QED
        BY <1>2, <3>1, <3>2, PipeKept DEF Spawn, TypeOK, Early
    <2>3. EndInv' /\ WellFolded(source)'
      BY <1>2 DEF Spawn, TypeOK, EndInv
    <2> QED
      BY <2>1, <2>2, <2>3
  <1>3. CASE Record(s)
    <2>0. mode[s] \in Mode
      BY ConstantsAssumption DEF TypeOK
    <2>1. source' \in Source /\ WellFolded(source)'
      BY <1>3, <2>0, FoldsAreWell DEF Record, TypeOK
    <2>2. TypeOK'
      BY <1>3, <2>1 DEF Record, TypeOK, Starting
    <2>3. PipeInv'
      BY <1>3, ProcessKept DEF Record, TypeOK
    <2>4. Unexplained(source') => Unexplained(source)
      BY <1>3, <2>0 DEF Record, MeetingStarted, Unexplained, TypeOK, Source
    <2>5. EndInv'
      BY <1>3, <2>4 DEF Record, TypeOK, EndInv
    <2> QED
      BY <2>1, <2>2, <2>3, <2>5
  <1>4. CASE RecordFails(s)
    <2>1. TypeOK'
      BY <1>4, ConstantsAssumption DEF RecordFails, Fault, TypeOK, Starting
    <2>2. PipeInv'
      BY <1>4, ProcessKept DEF RecordFails, TypeOK
    <2>3. EndInv' /\ WellFolded(source)'
      BY <1>4 DEF RecordFails, Fault, TypeOK, EndInv
    <2> QED
      BY <2>1, <2>2, <2>3
  <1>5. CASE InsertPid(s)
    <2>1. TypeOK'
      BY <1>5 DEF InsertPid, TypeOK, Supervised
    <2>2. PipeInv'
      BY <1>5, ProcessKept DEF InsertPid, TypeOK
    <2>3. EndInv' /\ WellFolded(source)'
      BY <1>5 DEF InsertPid, TypeOK, EndInv
    <2> QED
      BY <2>1, <2>2, <2>3
  <1> QED
    BY <1>1, <1>2, <1>3, <1>4, <1>5 DEF StartStep

(* The reader task. *)
LEMMA ReadLineIInv == ASSUME IInv, NEW s \in Session, ReadLine(s) PROVE IInv'
  <1> DEFINE e == Head(pipe[s])
  <1> USE DEF IInv, daemon, session
  <1>1. e \in Event /\ e \in Unread(s)
    BY ReadFacts
  <1>2. mode[s] \in Mode /\ Lanes(mode[s]) \subseteq Lane
    BY ConstantsAssumption DEF TypeOK, Lanes
  <1>3. e.kind \in {"quiet", "loud", "partial", "final"} => e.lane \in Lane
    BY <1>1, <1>2 DEF PipeInv
  <1>4. Ingest(source, mode[s], e) \in Source /\ WellFolded(Ingest(source, mode[s], e))
    BY <1>1, <1>2, <1>3, IngestIsWell DEF TypeOK
  <1>5. /\ source' \in Source /\ WellFolded(source')
        /\ faults' \in 0..MaxFaults
    BY <1>4, ConstantsAssumption DEF ReadLine, Fault, TypeOK
  <1>6. TypeOK'
    BY <1>5, ReadFacts DEF ReadLine, TypeOK
  <1>7. PipeInv'
    <2> SUFFICES ASSUME NEW t \in Session
                 PROVE
      /\ at[t] \in {"unused", "spawn"} => helper[t] = "none"
      /\ helper[t] \in {"none", "booting", "acquiring"} =>
           \A x \in Unread(t)' : x.kind # "started"
      /\ \A i, j \in 1..Len(pipe'[t]) :
           pipe'[t][i].kind = "started" /\ pipe'[t][j].kind = "started" => i = j
      /\ \A x \in Unread(t)' :
           /\ x.kind \in {"quiet", "loud", "partial", "final"} =>
                x.lane \in Lanes(mode[t])
           /\ x.kind = "failed" => \/ x.lane = "mic"
                                   \/ x.lane = "system" /\ laneLost[t]
                                   \/ x.lane = "system" /\ mode[t] = "system"
      BY DEF ReadLine, PipeInv
    <2>1. Unread(t)' \subseteq Unread(t)
      BY ReadFacts
    <2>2. \A i, j \in 1..Len(pipe'[t]) :
            pipe'[t][i].kind = "started" /\ pipe'[t][j].kind = "started" => i = j
      <3>1. CASE t = s
        <4> SUFFICES ASSUME NEW i \in 1..Len(pipe'[s]), NEW j \in 1..Len(pipe'[s]),
                            pipe'[s][i].kind = "started", pipe'[s][j].kind = "started"
                     PROVE  i = j
          BY <3>1
        <4>1. i + 1 \in 1..Len(pipe[s]) /\ j + 1 \in 1..Len(pipe[s])
          BY ReadFacts
        <4>2. pipe[s][i + 1].kind = "started" /\ pipe[s][j + 1].kind = "started"
          BY ReadFacts
        <4>3. i + 1 = j + 1
          BY <4>1, <4>2 DEF PipeInv
        <4> QED
          BY <4>3
      <3>2. CASE t # s
        BY <3>2, ReadFacts DEF PipeInv
      <3> QED
        BY <3>1, <3>2
    <2> QED
      BY <2>1, <2>2 DEF PipeInv
  <1>8. EndInv'
    BY DEF ReadLine, EndInv
  <1> QED
    BY <1>5, <1>6, <1>7, <1>8

LEMMA ReaderIInv ==
  ASSUME IInv, NEW s \in Session,
         ReadEnd(s) \/ Reap(s) \/ CheckCrash(s) \/ RemoveEntry(s)
  PROVE  IInv'
  <1> USE DEF IInv, daemon, process, session
  <1>1. CASE ReadEnd(s)
    <2>1. TypeOK'
      BY <1>1, ConstantsAssumption DEF ReadEnd, Fault, TypeOK, Supervised
    <2>2. PipeInv'
      BY <1>1, ProcessKept DEF ReadEnd, TypeOK
    <2>3. EndInv' /\ WellFolded(source)'
      BY <1>1 DEF ReadEnd, Fault, TypeOK, EndInv
    <2> QED
      BY <2>1, <2>2, <2>3
  <1>2. CASE Reap(s)
    <2>1. TypeOK'
      BY <1>2 DEF Reap, TypeOK, Supervised
    <2>2. PipeInv'
      <3>1. \A t \in Session : at'[t] \in {"unused", "spawn"} => helper'[t] = "none"
        BY <1>2 DEF Reap, TypeOK, PipeInv
      <3> QED
        BY <1>2, <3>1, PipeKept DEF Reap, TypeOK, Early
    <2>3. EndInv' /\ WellFolded(source)'
      BY <1>2 DEF Reap, TypeOK, EndInv
    <2> QED
      BY <2>1, <2>2, <2>3
  <1>3. CASE CheckCrash(s)
    <2>1. source' \in Source /\ WellFolded(source)'
      BY <1>3, FoldsAreWell, ConstantsAssumption DEF CheckCrash, Fault, TypeOK, Mode
    <2>2. TypeOK'
      BY <1>3, <2>1, ConstantsAssumption DEF CheckCrash, Fault, TypeOK, Supervised
    <2>3. PipeInv'
      BY <1>3, ProcessKept DEF CheckCrash, TypeOK
    <2>4. ~Unexplained(source') \/ faults' # 0
      <3>1. CASE Fault
        BY <3>1, ConstantsAssumption DEF Fault, TypeOK
      <3>2. ASSUME Unexplained(source)
            PROVE  ~Unexplained(SourceFailed(source, "crashed", "none"))
        BY DEF SourceFailed, Unexplained, TypeOK, Source
      <3> QED
        BY <1>3, <3>1, <3>2 DEF CheckCrash
    <2>5. EndInv'
      BY <2>4 DEF EndInv
    <2> QED
      BY <2>1, <2>2, <2>3, <2>5
  <1>4. CASE RemoveEntry(s)
    <2>1. TypeOK'
      BY <1>4 DEF RemoveEntry, TypeOK
    <2>2. PipeInv'
      BY <1>4, ProcessKept DEF RemoveEntry, TypeOK
    <2>3. EndInv' /\ WellFolded(source)'
      BY <1>4 DEF RemoveEntry, TypeOK, EndInv
    <2> QED
      BY <2>1, <2>2, <2>3
  <1> QED
    BY <1>1, <1>2, <1>3, <1>4

(* stop_capture. *)
LEMMA StopIInv ==
  ASSUME IInv, NEW k \in Stopper, StopRead(k) \/ StopStep(k) \/ StopFails(k)
  PROVE  IInv'
  <1> USE DEF IInv, daemon, process, session
  <1> DEFINE Request == [step : {"idle", "act", "done"}, pid : Session \cup {NoSession}]
  <1>0. stop[k] \in Request /\ (StopDone(k) => stop' \in [Stopper -> Request])
    <2>1. stop \in [Stopper -> Request]
      BY DEF TypeOK
    <2>2. stop[k] \in Request /\ [stop[k] EXCEPT !.step = "done"] \in Request
      BY <2>1
    <2> HIDE DEF Request
    <2> QED
      BY <2>1, <2>2 DEF StopDone
  <1>1. CASE StopRead(k)
    <2>1. TypeOK'
      BY <1>1 DEF StopRead, TypeOK
    <2>2. PipeInv'
      BY <1>1, ProcessKept DEF StopRead
    <2>3. EndInv' /\ WellFolded(source)'
      BY <1>1 DEF StopRead, EndInv
    <2> QED
      BY <2>1, <2>2, <2>3
  <1>2. CASE StopKill(k)
    <2> DEFINE s == stop[k].pid
    <2>0. s \in Session
      BY <1>0, <1>2 DEF StopKill
    <2>1. TypeOK'
      <3>1. termed' \in [Session -> BOOLEAN]
        BY <1>2, <2>0 DEF StopKill, TypeOK, Alive
      <3>2. helper' \in [Session -> {"none", "booting", "acquiring", "live",
                                     "finishing", "exited"}]
        BY <1>2, <2>0 DEF StopKill, TypeOK
      <3> QED
        BY <1>0, <1>2, <3>1, <3>2 DEF StopKill, TypeOK
    <2>2. PipeInv'
      <3>1. \A t \in Session : /\ helper'[t] \in Early => helper[t] \in Early
                               /\ helper[t] = "none" => helper'[t] = "none"
        BY <1>2, <2>0 DEF StopKill, TypeOK, Early
      <3>2. \A t \in Session : at'[t] \in {"unused", "spawn"} => helper'[t] = "none"
        BY <1>2, <3>1 DEF StopKill, PipeInv
      <3> QED
        BY <1>2, <3>1, <3>2, PipeKept DEF StopKill
    <2>3. EndInv' /\ WellFolded(source)'
      BY <1>2 DEF StopKill, EndInv
    <2> QED
      BY <2>1, <2>2, <2>3
  <1>3. CASE StopReconcile(k)
    <2>1. source' \in Source /\ WellFolded(source)'
      BY <1>3, FoldsAreWell DEF StopReconcile, TypeOK, Mode
    <2>2. TypeOK'
      BY <1>0, <1>3, <2>1 DEF StopReconcile, TypeOK
    <2>3. PipeInv'
      BY <1>3, ProcessKept DEF StopReconcile
    <2>4. Unexplained(source') => Unexplained(source)
      BY <1>3 DEF StopReconcile, SourceStopped, Unexplained, TypeOK, Source
    <2>5. EndInv'
      BY <1>3, <2>4 DEF StopReconcile, EndInv
    <2> QED
      BY <2>1, <2>2, <2>3, <2>5
  <1>4. CASE StopFails(k)
    <2>1. TypeOK'
      BY <1>0, <1>4, ConstantsAssumption DEF StopFails, Fault, TypeOK
    <2>2. PipeInv'
      BY <1>4, ProcessKept DEF StopFails
    <2>3. EndInv' /\ WellFolded(source)'
      BY <1>4, ConstantsAssumption DEF StopFails, Fault, TypeOK, EndInv
    <2> QED
      BY <2>1, <2>2, <2>3
  <1> QED
    BY <1>1, <1>2, <1>3, <1>4 DEF StopStep

(* A line that the helper may write keeps the pipe's invariant. *)
LEMMA WriteKeepsPipe ==
  ASSUME TypeOK, PipeInv, NEW s \in Session, NEW e \in Event,
         Write(s, e.kind, e.lane),
         \A t \in Session \ {s} : helper'[t] = helper[t] /\ laneLost'[t] = laneLost[t],
         laneLost[s] => laneLost'[s],
         helper[s] # "none",
         e.kind = "started" => helper[s] = "acquiring",
         helper'[s] \in Early => helper[s] \in Early /\ e.kind # "started",
         e.kind \in {"quiet", "loud", "partial", "final"} => e.lane \in Lanes(mode[s]),
         e.kind = "failed" => \/ e.lane = "mic"
                              \/ e.lane = "system" /\ laneLost'[s]
                              \/ e.lane = "system" /\ mode[s] = "system"
  PROVE  PipeInv'
  <1>0. UNCHANGED <<at, mode>>
    BY WriteFacts DEF session
  <1> SUFFICES ASSUME NEW t \in Session
               PROVE
      /\ at[t] \in {"unused", "spawn"} => helper'[t] = "none"
      /\ helper'[t] \in {"none", "booting", "acquiring"} =>
           \A x \in Unread(t)' : x.kind # "started"
      /\ \A i, j \in 1..Len(pipe'[t]) :
           pipe'[t][i].kind = "started" /\ pipe'[t][j].kind = "started" => i = j
      /\ \A x \in Unread(t)' :
           /\ x.kind \in {"quiet", "loud", "partial", "final"} =>
                x.lane \in Lanes(mode[t])
           /\ x.kind = "failed" => \/ x.lane = "mic"
                                   \/ x.lane = "system" /\ laneLost'[t]
                                   \/ x.lane = "system" /\ mode[t] = "system"
    BY <1>0 DEF PipeInv
  <1>1. CASE t # s
    BY <1>1, WriteFacts DEF PipeInv
  <1>2. CASE t = s
    <2>1. Unread(s)' = Unread(s) \cup {e}
      BY WriteFacts
    <2>2. at[s] \in {"unused", "spawn"} => helper'[s] = "none"
      BY DEF PipeInv
    <2>3. helper'[s] \in {"none", "booting", "acquiring"} =>
            \A x \in Unread(s)' : x.kind # "started"
      BY <2>1 DEF PipeInv, Early
    <2>4. \A i, j \in 1..Len(pipe'[s]) :
           pipe'[s][i].kind = "started" /\ pipe'[s][j].kind = "started" => i = j
      <3>1. CASE e.kind = "started"
        <4>1. \A i \in 1..Len(pipe[s]) : pipe[s][i].kind # "started"
          BY <3>1 DEF PipeInv, Unread
        <4>2. \A i \in 1..Len(pipe'[s]) : pipe'[s][i].kind = "started" => i = Len(pipe[s]) + 1
          BY <4>1, WriteFacts
        <4> QED
          BY <4>2
      <3>2. CASE e.kind # "started"
        <4>1. \A i \in 1..Len(pipe'[s]) : pipe'[s][i].kind = "started" =>
                 i \in 1..Len(pipe[s]) /\ pipe[s][i].kind = "started"
          BY <3>2, WriteFacts
        <4> QED
          BY <4>1 DEF PipeInv
      <3> QED
        BY <3>1, <3>2
    <2>5. \A x \in Unread(s)' :
           /\ x.kind \in {"quiet", "loud", "partial", "final"} =>
                x.lane \in Lanes(mode[s])
           /\ x.kind = "failed" => \/ x.lane = "mic"
                                   \/ x.lane = "system" /\ laneLost'[s]
                                   \/ x.lane = "system" /\ mode[s] = "system"
      BY <2>1 DEF PipeInv
    <2> QED
      BY <1>2, <2>2, <2>3, <2>4, <2>5
  <1> QED
    BY <1>1, <1>2

(* The helper. *)
LEMMA HelperIInv ==
  ASSUME IInv, NEW s \in Session,
         \/ HelperShutdown(s) \/ HelperStarts(s) \/ HelperFails(s)
         \/ HelperLosesSystemLane(s) \/ HelperReports(s) \/ HelperDies(s)
  PROVE  IInv'
  <1> USE DEF IInv, daemon, session
  <1>a. ASSUME UNCHANGED <<source, captures, session, pipe, stop, daemon, faults,
                           termed, laneLost>>,
               NEW h \in {"acquiring", "live", "finishing", "exited"},
               helper' = [helper EXCEPT ![s] = h],
               h \in Early => helper[s] \in Early, helper[s] # "none"
        PROVE  IInv'
    <2>1. TypeOK'
      BY <1>a DEF TypeOK
    <2>2. \A t \in Session : /\ helper'[t] \in Early => helper[t] \in Early
                             /\ at'[t] \in {"unused", "spawn"} => helper'[t] = "none"
      BY <1>a DEF TypeOK, PipeInv
    <2>3. PipeInv'
      BY <1>a, <2>2, PipeKept
    <2>4. EndInv' /\ WellFolded(source)'
      BY <1>a DEF EndInv
    <2> QED
      BY <2>1, <2>3, <2>4
  <1>b. ASSUME NEW e \in Event, Write(s, e.kind, e.lane), termed' = termed,
               NEW h \in {"acquiring", "live", "finishing", "exited"},
               helper' = [helper EXCEPT ![s] = h], helper[s] # "none",
               NEW l \in BOOLEAN, laneLost' = [laneLost EXCEPT ![s] = l],
               laneLost[s] => l,
               e.kind = "started" => helper[s] = "acquiring",
               h \in Early => helper[s] \in Early /\ e.kind # "started",
               e.kind \in {"quiet", "loud", "partial", "final"} =>
                 e.lane \in Lanes(mode[s]),
               e.kind = "failed" => \/ e.lane = "mic"
                                    \/ e.lane = "system" /\ l
                                    \/ e.lane = "system" /\ mode[s] = "system"
        PROVE  IInv'
    <2>1. /\ UNCHANGED <<source, captures, session, stop, daemon, faults>>
          /\ pipe' \in [Session -> Seq(Event)]
      BY <1>b, WriteFacts
    <2>2. TypeOK'
      BY <1>b, <2>1 DEF TypeOK
    <2>3. /\ helper'[s] = h /\ laneLost'[s] = l
          /\ \A t \in Session \ {s} : helper'[t] = helper[t] /\ laneLost'[t] = laneLost[t]
      BY <1>b DEF TypeOK
    <2>4. PipeInv'
      BY <1>b, <2>3, WriteKeepsPipe
    <2>5. EndInv' /\ WellFolded(source)'
      BY <2>1 DEF EndInv
    <2> QED
      BY <2>2, <2>4, <2>5
  <1>0. /\ Lanes(mode[s]) \subseteq Lane
        /\ helper = [helper EXCEPT ![s] = helper[s]]
        /\ laneLost = [laneLost EXCEPT ![s] = laneLost[s]]
        /\ laneLost[s] \in BOOLEAN
    BY DEF TypeOK, Lanes
  <1> DEFINE E(kind, lane) == [kind |-> kind, lane |-> lane]
  <1>1. CASE HelperArms(s)
    <2>1. helper[s] = "booting" /\ helper' = [helper EXCEPT ![s] = "acquiring"]
      BY <1>1 DEF HelperArms
    <2> QED
      BY <1>1, <2>1, <1>a DEF HelperArms, Early
  <1>2. CASE HelperStops(s)
    <2>1. E("stopped", "none") \in Event
      BY DEF Event
    <2> QED
      BY <1>0, <1>2, <2>1, <1>b DEF HelperStops, Early
  <1>3. CASE HelperExits(s)
    <2>1. CASE UNCHANGED <<source, captures, session, pipe, stop, daemon, faults>>
      BY <1>3, <2>1, <1>a DEF HelperExits, Early
    <2>2. CASE ~UNCHANGED <<source, captures, session, pipe, stop, daemon, faults>>
      <3>1. PICK kind \in Reports \cap {"partial", "final"}, lane \in Lanes(mode[s]) :
              Write(s, kind, lane)
        BY <1>3, <2>2 DEF HelperExits
      <3>2. E(kind, lane) \in Event
        BY <1>0 DEF Event
      <3> QED
        BY <1>0, <1>3, <3>1, <3>2, <1>b DEF HelperExits, Early
    <2> QED
      BY <2>1, <2>2
  <1>4. CASE HelperStarts(s)
    <2>1. E("started", "none") \in Event
      BY DEF Event
    <2> QED
      BY <1>0, <1>4, <2>1, <1>b DEF HelperStarts, Early
  <1>5. CASE HelperFails(s)
    <2>1. E("failed", "mic") \in Event /\ E("failed", "system") \in Event
      BY DEF Event, Lane
    <2>2. helper[s] # "none" /\ helper' = [helper EXCEPT ![s] = "exited"]
      BY <1>5 DEF HelperFails
    <2>3. CASE Write(s, "failed", "mic")
      BY <1>0, <1>5, <2>1, <2>2, <2>3, <1>b DEF HelperFails, Early
    <2>4. CASE mode[s] = "system" /\ Write(s, "failed", "system")
      BY <1>0, <1>5, <2>1, <2>2, <2>4, <1>b DEF HelperFails, Early
    <2> QED
      BY <1>5, <2>3, <2>4 DEF HelperFails
  <1>6. CASE HelperLosesSystemLane(s)
    <2>1. E("failed", "system") \in Event
      BY DEF Event, Lane
    <2>2. helper[s] \in {"acquiring", "live"} /\ helper' = [helper EXCEPT ![s] = helper[s]]
      BY <1>0, <1>6 DEF HelperLosesSystemLane
    <2> QED
      BY <1>0, <1>6, <2>1, <2>2, <1>b DEF HelperLosesSystemLane, Early
  <1>7. CASE HelperReports(s)
    <2>1. PICK kind \in Reports, lane \in Lanes(mode[s]) : Write(s, kind, lane)
      BY <1>7 DEF HelperReports
    <2>2. E(kind, lane) \in Event /\ kind \in {"quiet", "loud", "partial", "final"}
      BY <1>0, ConstantsAssumption DEF Event
    <2> QED
      BY <1>0, <1>7, <2>1, <2>2, <1>b DEF HelperReports, Early
  <1>8. CASE HelperDies(s)
    BY <1>8, <1>a DEF HelperDies, Alive, Early
  <1> QED
    BY <1>1, <1>2, <1>3, <1>4, <1>5, <1>6, <1>7, <1>8 DEF HelperShutdown

(* The daemon boots or exits. *)
LEMMA DaemonIInv == ASSUME IInv, Boot \/ Crash PROVE IInv'
  <1> USE DEF IInv, daemon, process, session
  <1>1. CASE Boot
    <2>1. source' \in Source /\ WellFolded(source)'
      BY <1>1, FoldsAreWell DEF Boot, TypeOK, Mode
    <2>2. TypeOK'
      BY <1>1, <2>1, ConstantsAssumption DEF Boot, Fault, TypeOK
    <2>3. PipeInv'
      BY <1>1, ProcessKept DEF Boot
    <2>4. ~Unexplained(source') \/ faults' # 0
      <3>1. CASE Fault
        BY <3>1, ConstantsAssumption DEF Fault, TypeOK
      <3>2. Unexplained(source) => LooksLive(source)
        BY DEF Unexplained, LooksLive, WellFolded
      <3>3. ~Unexplained(SourceStopped(source))
        BY DEF SourceStopped, Unexplained, TypeOK, Source
      <3> QED
        BY <1>1, <3>1, <3>2, <3>3 DEF Boot
    <2> QED
      BY <2>1, <2>2, <2>3, <2>4 DEF EndInv
  <1>2. CASE Crash
    <2>1. /\ pipe' \in [Session -> Seq(Event)]
          /\ \A s \in Session : pipe'[s] = <<>> /\ Len(pipe'[s]) = 0
      BY <1>2, EmptySeq DEF Crash
    <2>2. \A s \in Session : Unread(s)' = {} /\ 1..Len(pipe'[s]) = {}
      BY <2>1 DEF Unread
    <2>3. stop' \in [Stopper -> [step : {"idle", "act", "done"},
                                 pid : Session \cup {NoSession}]]
      BY <1>2 DEF Crash, TypeOK
    <2>4. TypeOK'
      <3>1. at' \in [Session -> {"unused", "done"} \cup Starting \cup Supervised]
        BY <1>2 DEF Crash
      <3>2. crashes' \in 0..MaxCrashes
        BY <1>2, ConstantsAssumption DEF Crash, TypeOK
      <3> QED
        BY <1>2, <2>1, <2>3, <3>1, <3>2 DEF Crash, TypeOK
    <2>5. \A s \in Session : at'[s] \in {"unused", "spawn"} => helper'[s] = "none"
      BY <1>2 DEF Crash, PipeInv
    <2>6. PipeInv'
      BY <2>2, <2>5 DEF PipeInv
    <2> QED
      BY <1>2, <2>4, <2>6 DEF Crash, EndInv
  <1> QED
    BY <1>1, <1>2

LEMMA NextIInv == IInv /\ [Next]_vars => IInv'
  <1> SUFFICES ASSUME IInv, [Next]_vars PROVE IInv'
    OBVIOUS
  <1>1. CASE UNCHANGED vars
    <2>1. TypeOK'
      BY <1>1 DEF IInv, TypeOK, vars, session, process, daemon
    <2>2. PipeInv'
      BY <1>1 DEF IInv, PipeInv, Unread, vars, session, process, daemon
    <2> QED
      BY <1>1, <2>1, <2>2 DEF IInv, EndInv, vars, session, process, daemon
  <1>2. CASE Next
    BY <1>2, StartIInv, ReadLineIInv, ReaderIInv, StopIInv, HelperIInv, DaemonIInv
       DEF Next, ReaderStep
  <1> QED
    BY <1>1, <1>2

(* Every reachable state satisfies IInv, however start requests overlap.   *)
THEOREM Invariance == Spec => []IInv
  BY InitIInv, NextIInv, PTL DEF Spec

(* Every variable keeps its type.                                          *)
THEOREM TypeCorrect == Spec => []TypeOK
  BY Invariance, PTL DEF IInv

(* No status but the start of a run takes a meeting out of Failed          *)
(* (reconcile_stopped_if_orphaned, and every other row of the source).     *)
THEOREM FailureIsNotMaskedAlways == Spec => FailureIsNotMasked
  <1> DEFINE Kept == source.status = "failed" /\ source'.status # "failed" =>
                       ~source'.stopped /\ source'.status = "capturing"
  <1>1. ASSUME IInv, NEW run \in Mode
        PROVE  /\ MeetingStarted(source, run).status = source.status
               /\ source.status = "failed" => SourceStopped(source).status = "failed"
               /\ SourceFailed(source, "crashed", "none").status = "failed"
               /\ SourceStarted(source, run).status = "capturing"
               /\ ~SourceStarted(source, run).stopped
    BY <1>1 DEF IInv, TypeOK, Source, MeetingStarted, SourceStopped, SourceFailed,
       SystemLaneOnly, SourceStarted
  <1>2. ASSUME IInv, NEW s \in Session, ReadLine(s)
        PROVE  Kept
    <2> DEFINE e == Head(pipe[s])
               src == Ingest(source, mode[s], e)
    <2>1. source \in Source /\ mode[s] \in Mode /\ e \in Event
      BY <1>2, ReadFacts, ConstantsAssumption DEF IInv, TypeOK
    <2>2. source.status = "failed" /\ src.status # "failed" =>
            ~src.stopped /\ src.status = "capturing"
      <3>1. CASE e.kind = "started"
        BY <1>1, <1>2, <2>1, <3>1 DEF Ingest
      <3>2. CASE e.kind \in {"quiet", "loud"}
        BY <2>1, <3>2 DEF Ingest, LevelReported, Source
      <3>3. CASE e.kind = "partial"
        BY <2>1, <3>3 DEF Ingest, SegmentPartial, Heard, Source
      <3>4. CASE e.kind = "final"
        BY <2>1, <3>4 DEF Ingest, SegmentFinal, Heard, Source
      <3>5. CASE e.kind = "failed"
        BY <2>1, <3>5 DEF Ingest, SourceFailed, Source
      <3>6. CASE e.kind = "stopped"
        BY <1>1, <1>2, <2>1, <3>6 DEF Ingest
      <3> QED
        BY <2>1, <3>1, <3>2, <3>3, <3>4, <3>5, <3>6 DEF Event
    <2> HIDE DEF src
    <2> QED
      BY <1>2, <2>2 DEF ReadLine, src
  <1>3. IInv /\ [Next]_vars => [Kept]_source
    <2> SUFFICES ASSUME IInv, Next, source' # source PROVE Kept
      BY DEF vars
    <2>1. \A s \in Session : mode[s] \in Mode
      BY ConstantsAssumption DEF IInv, TypeOK
    <2>2. ASSUME NEW s \in Session, Record(s) \/ CheckCrash(s)
          PROVE  Kept
      BY <1>1, <2>1, <2>2 DEF Record, CheckCrash, Fault
    <2>3. ASSUME NEW k \in Stopper, StopReconcile(k)
          PROVE  Kept
      BY <1>1, <2>3 DEF StopReconcile, LooksLive, Mode
    <2>4. CASE Boot
      BY <1>1, <2>4 DEF Boot, LooksLive, Mode
    <2>5. \/ \E s \in Session : Record(s) \/ CheckCrash(s) \/ ReadLine(s)
          \/ \E k \in Stopper : StopReconcile(k)
          \/ Boot
      BY DEF Next, StartStep, ReaderStep, StopStep, HelperShutdown, StartCheck,
         Spawn, RecordFails, InsertPid, ReadEnd, Reap, RemoveEntry, StopRead,
         StopKill, StopFails, HelperArms, HelperStops, HelperExits, HelperStarts,
         HelperFails, HelperLosesSystemLane, HelperReports, HelperDies, Write,
         Crash
    <2> HIDE DEF Kept
    <2> QED
      BY <1>2, <2>2, <2>3, <2>4, <2>5
  <1> QED
    BY <1>3, Invariance, PTL DEF Spec, FailureIsNotMasked

(* However start requests overlap, a run that is over was recorded as      *)
(* stopped, failed or crashed once no reader is left (the check after a    *)
(* helper was reaped).                                                     *)
NoRunIsForgotten ==
  (serving /\ faults = 0 /\ \A s \in Session : ~InProgress(s)) => ~Unexplained(source)

THEOREM NoRunIsForgottenAlways == Spec => []NoRunIsForgotten
  <1>1. IInv => NoRunIsForgotten
    BY DEF IInv, EndInv, NoRunIsForgotten, InProgress, Supervised
  <1> QED
    BY <1>1, Invariance, PTL

-----------------------------------------------------------------------------
(* OneInv is inductive while start requests do not overlap.                *)

(* Folds under the exception of EndIsExplained: a status that is live next *)
(* to a failure.                                                           *)
LiveFailure(src) == src.status \in InFlight /\ src.failure # "none"

LEMMA InitOneInv == Init => OneInv
  <1> SUFFICES ASSUME Init PROVE OneInv
    OBVIOUS
  <1>1. \A s \in Session : at[s] = "unused"
    BY DEF Init
  <1>2. source.status = "idle"
    BY DEF Init, NoSource
  <1> QED
    BY <1>1, <1>2 DEF OneInv, DownInv, OneInProgress, CaptureIsStoppable, LaneInv,
       InProgress, Starting, Supervised, InFlight

(* Where sessions are, and the map's entry.                                *)
LEMMA NextPlaces ==
  ASSUME IInv, DownInv, OneInProgress, CaptureIsStoppable, StartsDoNotOverlap',
         Next
  PROVE  DownInv' /\ OneInProgress' /\ CaptureIsStoppable'
  <1> USE DEF DownInv, OneInProgress, CaptureIsStoppable, InProgress, Starting,
             Supervised, daemon, session
  <1>0. at \in [Session -> {"unused", "done"} \cup Starting \cup Supervised]
    BY DEF IInv, TypeOK
  <1>1. ASSUME NEW s \in Session, StartCheck(s)
        PROVE  DownInv' /\ OneInProgress' /\ CaptureIsStoppable'
    <2>1. \A t \in Session : at[t] \notin Supervised
      BY <1>1, ConstantsAssumption DEF StartCheck
    <2>2. at' = [at EXCEPT ![s] = "spawn"] /\ serving /\ UNCHANGED <<captures, serving>>
      BY <1>1 DEF StartCheck
    <2>3. \A t \in Session : at'[t] \in Starting => t = s
      BY <1>0, <2>2 DEF StartsDoNotOverlap
    <2> QED
      BY <1>0, <2>1, <2>2, <2>3
  <1>2. ASSUME NEW s \in Session, StartStep(s) \/ RecordFails(s)
        PROVE  DownInv' /\ OneInProgress' /\ CaptureIsStoppable'
    <2>1. /\ UNCHANGED serving /\ at[s] \in Starting
          /\ \E a \in Starting \cup {"read", "done"} : at' = [at EXCEPT ![s] = a]
          /\ (captures' = captures /\ at'[s] \notin Supervised) \/ captures' = s
      BY <1>0, <1>2 DEF StartStep, Spawn, Record, InsertPid, RecordFails
    <2> QED
      BY <1>0, <2>1
  <1>3. ASSUME NEW s \in Session, ReaderStep(s)
        PROVE  DownInv' /\ OneInProgress' /\ CaptureIsStoppable'
    <2>1. CASE ReadLine(s)
      BY <2>1 DEF ReadLine
    <2>2. CASE ~ReadLine(s)
      <3>1. /\ UNCHANGED serving /\ at[s] \in Supervised
            /\ \E a \in Supervised \cup {"done"} : at' = [at EXCEPT ![s] = a]
            /\ captures' = captures \/ at'[s] = "done"
        BY <1>0, <1>3, <2>2 DEF ReaderStep, ReadEnd, Reap, CheckCrash, RemoveEntry
      <3> QED
        BY <1>0, <3>1
    <2> QED
      BY <2>1, <2>2
  <1>4. CASE Boot
    BY <1>4 DEF Boot
  <1>5. CASE Crash
    BY <1>5 DEF Crash
  <1>6. CASE UNCHANGED <<captures, at, serving>>
    BY <1>6
  <1>7. ASSUME NEW s \in Session,
               \/ HelperShutdown(s) \/ HelperStarts(s) \/ HelperFails(s)
               \/ HelperLosesSystemLane(s) \/ HelperReports(s) \/ HelperDies(s)
        PROVE  UNCHANGED <<captures, at, serving>>
    BY <1>7 DEF HelperShutdown, HelperArms, HelperStops, HelperExits, HelperStarts,
       HelperFails, HelperLosesSystemLane, HelperReports, HelperDies, Write
  <1>8. ASSUME NEW k \in Stopper, StopRead(k) \/ StopStep(k) \/ StopFails(k)
        PROVE  UNCHANGED <<captures, at, serving>>
    BY <1>8 DEF StopStep, StopRead, StopKill, StopReconcile, StopFails
  <1> QED
    BY <1>1, <1>2, <1>3, <1>4, <1>5, <1>6, <1>7, <1>8 DEF Next

(* What a line of a helper does to LaneInv's parts: s reads it.            *)
LEMMA IngestLanes ==
  ASSUME IInv, NEW s \in Session, ReadLine(s), mode[s] \in Mode,
         LiveFailure(source) => LaneWasLost,
         source.status \in InFlight => LaneWasLost \/ Begun(s),
         source' = Ingest(source, mode[s], Head(pipe[s]))
  PROVE  /\ LiveFailure(source') => LaneWasLost'
         /\ source'.status \in InFlight => LaneWasLost' \/ Begun(s)'
  <1> DEFINE e == Head(pipe[s])
  <1>0. /\ e \in Event /\ e \in Unread(s) /\ source \in Source
        /\ Unread(s)' \subseteq Unread(s)
        /\ UNCHANGED <<mode, helper, laneLost>>
    BY ReadFacts DEF IInv, TypeOK, ReadLine, session
  <1>1. \A l : source'.failed = source.failed \cup l => (LaneWasLost => LaneWasLost')
    BY <1>0 DEF LaneWasLost
  <1>2. source'.expected = source.expected => (Begun(s) => Begun(s)')
    BY <1>0 DEF Begun
  <1>3. CASE e.kind = "started"
    <2>1. source'.failure = "none" /\ source'.expected = Lanes(mode[s])
      BY <1>0, <1>3 DEF Ingest, SourceStarted, Source
    <2>2. helper[s] \notin {"none", "booting", "acquiring"}
      BY <1>0, <1>3 DEF IInv, PipeInv
    <2>3. \A x \in Unread(s)' : x.kind # "started"
      <3> SUFFICES ASSUME NEW i \in 1..Len(pipe'[s]), pipe'[s][i].kind = "started"
                   PROVE  FALSE
        BY DEF Unread
      <3>1. /\ 1 \in 1..Len(pipe[s]) /\ i + 1 \in 1..Len(pipe[s]) /\ i + 1 # 1
            /\ pipe[s][i + 1].kind = "started" /\ pipe[s][1].kind = "started"
        BY <1>3, ReadFacts DEF IInv
      <3> QED
        BY <3>1 DEF IInv, PipeInv
    <2> QED
      BY <1>0, <2>1, <2>2, <2>3 DEF LiveFailure, Begun
  <1>4. CASE e.kind \in {"quiet", "loud"}
    <2>1. /\ source'.status = source.status /\ source'.failure = source.failure
          /\ source'.failed = source.failed
          /\ source'.expected = source.expected \cup {e.lane}
      BY <1>0, <1>4 DEF Ingest, LevelReported, Source
    <2>2. e.lane \in Lanes(mode[s])
      BY <1>0, <1>4 DEF IInv, PipeInv
    <2>3. Begun(s) => source'.expected = source.expected
      BY <2>1, <2>2 DEF Begun
    <2> QED
      BY <1>0, <1>2, <2>1, <2>3 DEF LiveFailure, LaneWasLost
  <1>5. CASE e.kind \in {"partial", "final"}
    <2>1. /\ source'.status \in InFlight => source.status \in InFlight
          /\ source'.failure = source.failure
          /\ source'.failed = source.failed /\ source'.expected = source.expected
      BY <1>0, <1>5 DEF Ingest, SegmentPartial, SegmentFinal, Heard, Source, InFlight
    <2> QED
      BY <1>0, <1>2, <2>1 DEF LiveFailure, LaneWasLost
  <1>6. CASE e.kind = "failed"
    <2>1. source' = SourceFailed(source, "reported", e.lane)
      BY <1>6 DEF Ingest
    <2>2. CASE ~SystemLaneOnly(source, e.lane)
      BY <1>0, <2>1, <2>2 DEF SourceFailed, Source, LiveFailure, InFlight
    <2>3. CASE SystemLaneOnly(source, e.lane)
      <3>1. e.lane = "system" /\ "mic" \in source.expected
        BY <2>3 DEF SystemLaneOnly
      <3>2. /\ source'.status = source.status /\ source'.expected = source.expected
            /\ source'.failed = source.failed \cup {"system"}
        BY <1>0, <2>1, <2>3, <3>1 DEF SourceFailed, Source, Lane
      <3>3. CASE laneLost[s]
        BY <1>0, <3>2, <3>3 DEF LaneWasLost
      <3>4. CASE mode[s] = "system"
        <4>1. "mic" \notin Lanes(mode[s])
          BY <3>4 DEF Lanes
        <4>2. ~Begun(s)
          BY <3>1, <4>1 DEF Begun
        <4> QED
          BY <1>1, <3>2, <4>2 DEF LiveFailure
      <3> QED
        BY <1>0, <1>6, <3>1, <3>3, <3>4 DEF IInv, PipeInv
    <2> QED
      BY <2>2, <2>3
  <1>7. CASE e.kind = "stopped"
    BY <1>0, <1>7 DEF Ingest, SourceStopped, Source, LiveFailure, InFlight
  <1> QED
    BY <1>0, <1>3, <1>4, <1>5, <1>6, <1>7 DEF Event

(* A step that leaves the ledger alone, forgets no lost lane and does not  *)
(* end what Begun says.                                                    *)
LEMMA LanesKept ==
  ASSUME LaneInv, UNCHANGED source, faults' = 0 => faults = 0,
         \A s \in Session : laneLost[s] => laneLost'[s],
         \A s \in Session :
           at'[s] \in Starting \cup {"read"} /\ source.status \in InFlight =>
             \/ LaneWasLost
             \/ at[s] \in Starting
             \/ at[s] = "read" /\ (at'[s] = "read" /\ Begun(s) => Begun(s)')
                              /\ at'[s] = "read"
  PROVE  LaneInv'
  <1>1. LaneWasLost => LaneWasLost'
    BY DEF LaneWasLost
  <1>2. \A s \in Session : at[s] \in Starting => at[s] # "read"
    BY DEF Starting
  <1> QED
    BY <1>1, <1>2 DEF LaneInv

(* A write of the helper, or a change of its state. *)
LEMMA HelperLanes ==
  ASSUME IInv, LaneInv, NEW s \in Session,
         \/ HelperShutdown(s) \/ HelperStarts(s) \/ HelperFails(s)
         \/ HelperLosesSystemLane(s) \/ HelperReports(s) \/ HelperDies(s)
  PROVE  LaneInv'
  <1> USE DEF daemon, session
  <1>1. /\ UNCHANGED <<source, at, mode, faults>>
        /\ \A t \in Session : laneLost[t] => laneLost'[t]
        /\ \A t \in Session : helper'[t] \in Early => helper[t] \in Early
    BY DEF IInv, TypeOK, HelperShutdown, HelperArms, HelperStops, HelperExits, HelperStarts,
       HelperFails, HelperLosesSystemLane, HelperReports, HelperDies, Alive, Write, Early
  <1>2. \/ UNCHANGED pipe
        \/ \E e \in Event : /\ Write(s, e.kind, e.lane)
                            /\ e.kind = "started" => helper[s] \in Early
    <2> DEFINE E(kind, lane) == [kind |-> kind, lane |-> lane]
    <2>0. Lanes(mode[s]) \subseteq Lane
      BY DEF Lanes
    <2>1. E("started", "none") \in Event /\ E("stopped", "none") \in Event
      BY DEF Event
    <2>2. E("failed", "mic") \in Event /\ E("failed", "system") \in Event
      BY DEF Event, Lane
    <2>3. \A kind \in Reports, lane \in Lanes(mode[s]) :
            E(kind, lane) \in Event /\ kind # "started"
      BY <2>0, ConstantsAssumption DEF Event
    <2>4. CASE HelperArms(s) \/ HelperDies(s)
      BY <2>4 DEF HelperArms, HelperDies
    <2>5. CASE HelperStops(s) \/ HelperStarts(s)
      BY <2>1, <2>5 DEF HelperStops, HelperStarts, Early
    <2>6. CASE HelperFails(s) \/ HelperLosesSystemLane(s)
      BY <2>2, <2>6 DEF HelperFails, HelperLosesSystemLane
    <2>7. CASE HelperReports(s) \/ HelperExits(s)
      BY <2>3, <2>7 DEF HelperReports, HelperExits
    <2> QED
      BY <2>4, <2>5, <2>6, <2>7 DEF HelperShutdown
  <1>3. ASSUME NEW t \in Session, Begun(t)
        PROVE  Begun(t)'
    <2>1. \A x \in Unread(t)' : x.kind # "started"
      <3>1. CASE UNCHANGED pipe
        BY <1>3, <3>1 DEF Begun, Unread
      <3>2. ASSUME NEW e \in Event, Write(s, e.kind, e.lane),
                   e.kind = "started" => helper[s] \in Early
            PROVE  \A x \in Unread(t)' : x.kind # "started"
        BY <1>3, <3>2, WriteFacts DEF IInv, Begun, Early
      <3> QED
        BY <1>2, <3>1, <3>2
    <2> QED
      BY <1>1, <1>3, <2>1 DEF Begun, Early
  <1> QED
    BY <1>1, <1>3, LanesKept

LEMMA NextLanes ==
  ASSUME IInv, OneInv, OneInProgress', Next
  PROVE  LaneInv'
  <1> USE DEF daemon, process, session
  <1>0. /\ LaneInv /\ source \in Source /\ faults \in Nat
        /\ at \in [Session -> {"unused", "done"} \cup Starting \cup Supervised]
        /\ \A s \in Session : mode[s] \in Mode
    BY ConstantsAssumption DEF IInv, OneInv, TypeOK
  <1>1. \A t \in Session : at[t] \in Starting \cup {"read"} => InProgress(t)
    BY DEF InProgress, Supervised
  (* A capture starts: nobody is left to account for the last one.         *)
  <1>2. ASSUME NEW s \in Session, StartCheck(s)
        PROVE  LaneInv'
    <2>1. /\ serving /\ UNCHANGED <<source, mode, process, faults>>
          /\ at' = [at EXCEPT ![s] = "spawn"]
          /\ \A t \in Session : at[t] \notin Supervised
      BY <1>2, ConstantsAssumption DEF StartCheck, OneInv, CaptureIsStoppable
    <2>2. faults = 0 => ~Unexplained(source)
      BY <2>1 DEF IInv, EndInv, Supervised
    <2>3. faults = 0 /\ source.status \in InFlight => LaneWasLost
      BY <1>0, <2>2 DEF IInv, WellFolded, Unexplained, LaneInv
    <2>4. \A t \in Session : Begun(t)' <=> Begun(t)
      BY <2>1 DEF Begun, Unread
    <2>5. CASE faults = 0
      <3>1. \A t \in Session : at'[t] \in Starting \cup {"read"} /\ source.status \in InFlight =>
              LaneWasLost
        BY <2>3, <2>5
      <3> QED
        BY <1>0, <2>1, <3>1, LanesKept
    <2>6. CASE faults # 0
      BY <2>1, <2>6 DEF LaneInv
    <2> QED
      BY <2>5, <2>6
  <1>3. ASSUME NEW s \in Session, Spawn(s) \/ InsertPid(s)
        PROVE  LaneInv'
    <2>1. /\ UNCHANGED <<source, mode, pipe, laneLost, faults>> /\ at[s] \in Starting
          /\ \A t \in Session \ {s} : at'[t] = at[t] /\ helper'[t] = helper[t]
      BY <1>0, <1>3 DEF Spawn, InsertPid, Starting, IInv, TypeOK
    <2>2. \A t \in Session \ {s} : Begun(t)' <=> Begun(t)
      BY <2>1 DEF Begun, Unread
    <2>3. \A t \in Session : at'[t] \in Starting \cup {"read"} =>
            at[t] \in Starting \/ (at[t] = "read" /\ at'[t] = "read" /\ (Begun(t) => Begun(t)'))
      BY <2>1, <2>2
    <2> QED
      BY <1>0, <2>1, <2>3, LanesKept
  <1>4. ASSUME NEW s \in Session, Record(s)
        PROVE  LaneInv'
    <2>1. /\ source'.status = source.status /\ source'.failure = source.failure
          /\ source'.failed = source.failed /\ source'.expected = source.expected
      BY <1>0, <1>4 DEF Record, MeetingStarted, Source
    <2>2. /\ UNCHANGED <<mode, process, faults>> /\ at[s] \in Starting
          /\ at[s] # "read" /\ at' = [at EXCEPT ![s] = "insert"]
      BY <1>4 DEF Record, Starting
    <2>3. (LaneWasLost' <=> LaneWasLost) /\ \A t \in Session : Begun(t)' <=> Begun(t)
      BY <2>1, <2>2 DEF LaneWasLost, Begun, Unread
    <2> QED
      BY <1>0, <2>1, <2>2, <2>3 DEF LaneInv
  <1>5. ASSUME NEW s \in Session, RecordFails(s)
        PROVE  LaneInv'
    BY <1>0, <1>5 DEF RecordFails, Fault, LaneInv
  <1>6. ASSUME NEW s \in Session, ReadLine(s)
        PROVE  LaneInv'
    <2>1. /\ at[s] = "read" /\ UNCHANGED <<at, mode, helper, laneLost>>
      BY <1>6 DEF ReadLine
    <2>2. \A t \in Session : at[t] \in Starting \cup {"read"} => t = s
      BY <1>1, <2>1 DEF OneInv, OneInProgress
    <2>3. CASE source' = Ingest(source, mode[s], Head(pipe[s])) /\ UNCHANGED faults
      <3>1. CASE faults # 0
        BY <2>3, <3>1 DEF LaneInv
      <3>2. CASE faults = 0
        <4>1. /\ LiveFailure(source) => LaneWasLost
              /\ source.status \in InFlight => LaneWasLost \/ Begun(s)
          BY <1>0, <2>1, <3>2 DEF LaneInv, LiveFailure
        <4>2. /\ LiveFailure(source') => LaneWasLost'
              /\ source'.status \in InFlight => LaneWasLost' \/ Begun(s)'
          BY <1>0, <1>6, <2>3, <4>1, IngestLanes
        <4> QED
          BY <2>1, <2>2, <4>2 DEF LaneInv, LiveFailure
      <3> QED
        BY <3>1, <3>2
    <2>4. CASE Fault
      BY <1>0, <2>4 DEF Fault, LaneInv
    <2> QED
      BY <1>6, <2>3, <2>4 DEF ReadLine
  (* The reader goes on: no other session is in progress. *)
  <1>7. ASSUME NEW s \in Session, ReadEnd(s) \/ Reap(s) \/ CheckCrash(s) \/ RemoveEntry(s)
        PROVE  LaneInv'
    <2>1. /\ InProgress(s) /\ at'[s] \notin Starting \cup {"read"}
          /\ \A t \in Session \ {s} : at'[t] = at[t]
          /\ UNCHANGED laneLost
      BY <1>0, <1>7 DEF ReadEnd, Reap, CheckCrash, RemoveEntry, InProgress, Starting,
         Supervised
    <2>2. \A t \in Session : at'[t] \notin Starting \cup {"read"}
      BY <1>1, <2>1 DEF OneInv, OneInProgress
    <2>3. \/ UNCHANGED <<source, faults>>
          \/ faults' # 0
          \/ source'.status = "failed" /\ UNCHANGED faults
      <3>1. Fault => faults' # 0
        BY <1>0 DEF Fault
      <3>2. SourceFailed(source, "crashed", "none").status = "failed"
        BY <1>0 DEF SourceFailed, SystemLaneOnly, Source
      <3>3. CASE CheckCrash(s)
        BY <3>1, <3>2, <3>3 DEF CheckCrash
      <3> QED
        BY <1>7, <3>1, <3>3 DEF ReadEnd, Reap, RemoveEntry
    <2> QED
      BY <1>0, <2>1, <2>2, <2>3 DEF LaneInv, LaneWasLost, InFlight
  <1>8. ASSUME NEW k \in Stopper, StopRead(k) \/ StopStep(k) \/ StopFails(k)
        PROVE  LaneInv'
    <2>1. CASE StopReconcile(k)
      <3>1. source' = source \/ source' = SourceStopped(source)
        BY <2>1 DEF StopReconcile
      <3>2. CASE source' = source
        <4>1. \A t \in Session : Begun(t)' <=> Begun(t)
          BY <2>1, <3>2 DEF StopReconcile, Begun, Unread
        <4> QED
          BY <1>0, <2>1, <3>2, <4>1, LanesKept DEF StopReconcile
      <3>3. CASE source' = SourceStopped(source)
        BY <1>0, <3>3 DEF LaneInv, SourceStopped, Source, InFlight
      <3> QED
        BY <3>1, <3>2, <3>3
    <2>2. CASE StopKill(k)
      <3>1. /\ UNCHANGED <<source, at, mode, laneLost, pipe, faults>>
            /\ \A t \in Session : helper'[t] = helper[t] \/ helper'[t] = "exited"
        BY <2>2 DEF StopKill, IInv, TypeOK
      <3>2. \A t \in Session : Begun(t) => Begun(t)'
        BY <3>1 DEF Begun, Unread
      <3> QED
        BY <1>0, <3>1, <3>2, LanesKept
    <2>3. CASE StopRead(k)
      <3>1. \A t \in Session : Begun(t)' <=> Begun(t)
        BY <2>3 DEF StopRead, Begun, Unread
      <3> QED
        BY <1>0, <2>3, <3>1, LanesKept DEF StopRead
    <2>4. CASE StopFails(k)
      BY <1>0, <2>4 DEF StopFails, Fault, LaneInv
    <2> QED
      BY <1>8, <2>1, <2>2, <2>3, <2>4 DEF StopStep
  <1>9. CASE Boot
    <2>1. /\ UNCHANGED <<at, laneLost>> /\ \A t \in Session : ~InProgress(t)
          /\ source' = source \/ source' = SourceStopped(source)
          /\ UNCHANGED faults \/ faults' # 0
      BY <1>0, <1>9 DEF Boot, Fault, OneInv, DownInv
    <2>2. \A t \in Session : at'[t] \notin Starting \cup {"read"}
      BY <1>1, <2>1
    <2>3. source' = source \/ source'.status \notin InFlight
      BY <1>0, <2>1 DEF SourceStopped, Source, InFlight
    <2> QED
      BY <1>0, <2>1, <2>2, <2>3 DEF LaneInv, LaneWasLost
  <1>10. CASE Crash
    <2>1. /\ UNCHANGED <<source, laneLost, faults>>
          /\ \A t \in Session : at'[t] \notin Starting \cup {"read"}
      BY <1>10 DEF Crash, Starting
    <2> QED
      BY <1>0, <2>1 DEF LaneInv, LaneWasLost
  <1> QED
    BY <1>0, <1>2, <1>3, <1>4, <1>5, <1>6, <1>7, <1>8, <1>9, <1>10, HelperLanes
       DEF Next, StartStep, ReaderStep

LEMMA NextOneInv ==
  IInv /\ OneInv /\ StartsDoNotOverlap' /\ [Next]_vars => OneInv'
  <1> SUFFICES ASSUME IInv, OneInv, StartsDoNotOverlap', [Next]_vars
               PROVE  OneInv'
    OBVIOUS
  <1>1. CASE Next
    <2>1. DownInv' /\ OneInProgress' /\ CaptureIsStoppable'
      BY <1>1, NextPlaces DEF OneInv
    <2>2. LaneInv'
      BY <1>1, <2>1, NextLanes
    <2> QED
      BY <2>1, <2>2 DEF OneInv
  <1>2. CASE UNCHANGED vars
    <2> USE <1>2 DEF vars, session, process, daemon
    <2>1. DownInv' /\ OneInProgress' /\ CaptureIsStoppable'
      BY DEF OneInv, DownInv, OneInProgress, CaptureIsStoppable, InProgress
    <2>2. LaneInv'
      BY DEF OneInv, LaneInv, LaneWasLost, Begun, Unread
    <2> QED
      BY <2>1, <2>2 DEF OneInv
  <1> QED
    BY <1>1, <1>2

(* While start requests come one at a time, every reachable state satisfies *)
(* OneInv.                                                                 *)
THEOREM OneAtATime == Spec /\ []StartsDoNotOverlap => []OneInv
  BY InitOneInv, NextOneInv, Invariance, PTL DEF Spec

(* The meeting never has two captures under way (start_capture).           *)
THEOREM OneCaptureAlways == Spec /\ []StartsDoNotOverlap => []OneCapture
  <1>1. OneInv => OneCapture
    BY DEF OneInv, OneInProgress, OneCapture
  <1> QED
    BY <1>1, OneAtATime, PTL

(* While its reader runs, a capture can be stopped (stop_capture).         *)
THEOREM CaptureIsStoppableAlways == Spec /\ []StartsDoNotOverlap => []CaptureIsStoppable
  <1>1. OneInv => CaptureIsStoppable
    BY DEF OneInv
  <1> QED
    BY <1>1, OneAtATime, PTL

(* Once no capture is in progress the ledger accounts for the last one's   *)
(* end, but for a lost system lane (the check in capture.rs).              *)
THEOREM EndIsExplainedAlways == Spec /\ []StartsDoNotOverlap => []EndIsExplained
  <1>1. IInv /\ OneInv => EndIsExplained
    <2> SUFFICES ASSUME IInv, OneInv, serving, faults = 0,
                        \A s \in Session : ~InProgress(s)
                 PROVE  /\ ~Unexplained(source)
                        /\ Shown(source) \in LiveStatus => LaneWasLost
      BY DEF EndIsExplained, LaneWasLost
    <2>1. ~Unexplained(source)
      BY DEF IInv, EndInv, InProgress, Supervised
    <2>2. ASSUME Shown(source) \in LiveStatus
          PROVE  LaneWasLost
      <3>1. source \in Source /\ WellFolded(source)
        BY DEF IInv, TypeOK
      <3>2. ~(source.started /\ ~source.stopped /\ source.failure = "none")
        BY <2>1 DEF Unexplained
      <3>3. source.status \in InFlight
        <4>1. Shown(source) \in {source.status, "waiting_permission"} \/
                (source.status \in LiveStatus)
          BY DEF Shown
        <4> QED
          BY <2>2, <3>1, <4>1 DEF LiveStatus, InFlight, Source
      <3>4. source.failure # "none"
        BY <3>1, <3>2, <3>3 DEF WellFolded
      <3> QED
        BY <3>3, <3>4 DEF OneInv, LaneInv
    <2> QED
      BY <2>1, <2>2
  <1> QED
    BY <1>1, OneAtATime, Invariance, PTL

(* The hypothesis is what a screen that disables its controls sees to: with *)
(* one request at a time, the MaxStarting = 1 of the runs, the three hold.  *)
THEOREM OneRequestAtATime ==
  ASSUME MaxStarting = 1, IsFiniteSet(Session)
  PROVE  Spec => [](OneCapture /\ CaptureIsStoppable /\ EndIsExplained)
  <1>1. Init => StartsDoNotOverlap
    BY DEF Init, StartsDoNotOverlap, Starting
  <1>2. IInv /\ StartsDoNotOverlap /\ [Next]_vars => StartsDoNotOverlap'
    <2> SUFFICES ASSUME IInv, StartsDoNotOverlap, [Next]_vars
                 PROVE  StartsDoNotOverlap'
      OBVIOUS
    <2>0. at \in [Session -> {"unused", "done"} \cup Starting \cup Supervised]
      BY DEF IInv, TypeOK
    <2>1. ASSUME NEW s \in Session, StartCheck(s)
          PROVE  StartsDoNotOverlap'
      <3> DEFINE Under == {t \in Session : at[t] \in Starting}
      <3>1. IsFiniteSet(Under) /\ Cardinality(Under) \in Nat /\ Cardinality(Under) < 1
        BY <2>1, FS_Subset, FS_CardinalityType DEF StartCheck
      <3>2. Under = {}
        BY <3>1, FS_EmptySet
      <3> QED
        BY <2>0, <2>1, <3>2 DEF StartCheck, StartsDoNotOverlap
    <2>2. ASSUME NEW s \in Session, StartStep(s) \/ RecordFails(s) \/ ReaderStep(s)
          PROVE  StartsDoNotOverlap'
      <3>1. /\ \A t \in Session \ {s} : at'[t] = at[t]
            /\ at[s] \in Starting \/ at'[s] \notin Starting
        BY <2>0, <2>2 DEF StartStep, Spawn, Record, InsertPid, RecordFails, ReaderStep,
           ReadLine, ReadEnd, Reap, CheckCrash, RemoveEntry, Starting, Supervised, session
      <3> QED
        BY <3>1 DEF StartsDoNotOverlap
    <2>3. CASE Boot
      BY <2>3 DEF Boot, StartsDoNotOverlap, session
    <2>4. CASE Crash
      BY <2>0, <2>4 DEF Crash, StartsDoNotOverlap, Starting
    <2>5. CASE UNCHANGED at
      BY <2>5 DEF StartsDoNotOverlap
    <2>6. ASSUME NEW s \in Session,
                 \/ HelperShutdown(s) \/ HelperStarts(s) \/ HelperFails(s)
                 \/ HelperLosesSystemLane(s) \/ HelperReports(s) \/ HelperDies(s)
          PROVE  UNCHANGED at
      BY <2>6 DEF HelperShutdown, HelperArms, HelperStops, HelperExits, HelperStarts,
         HelperFails, HelperLosesSystemLane, HelperReports, HelperDies, Write, session
    <2>7. ASSUME NEW k \in Stopper, StopRead(k) \/ StopStep(k) \/ StopFails(k)
          PROVE  UNCHANGED at
      BY <2>7 DEF StopStep, StopRead, StopKill, StopReconcile, StopFails, session
    <2> QED
      BY <2>1, <2>2, <2>3, <2>4, <2>5, <2>6, <2>7 DEF Next, vars, session
  <1>3. Spec => []StartsDoNotOverlap
    BY <1>1, <1>2, Invariance, PTL DEF Spec
  <1> QED
    BY <1>3, OneCaptureAlways, CaptureIsStoppableAlways, EndIsExplainedAlways, PTL

=============================================================================
