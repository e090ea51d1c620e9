------------------------- MODULE ProposalAgent_proofs -------------------------
(***************************************************************************)
(* Theorems about ProposalAgent for any number of captures, requests and   *)
(* segments, any cadence and any number of retries.                        *)
(***************************************************************************)
EXTENDS ProposalAgent, FiniteSetTheorems, TLAPS

-----------------------------------------------------------------------------
(* Where the tasks of the meeting are.                                     *)

LEMMA InitTaskInv == Init => TypeOK /\ TaskInv
  <1> SUFFICES ASSUME Init PROVE TypeOK /\ TaskInv
    OBVIOUS
  <1>1. TypeOK
    BY ConstantsAssumption DEF Init, TypeOK, readers, automatic
  <1>2. TaskInv
    BY ConstantsAssumption DEF Init, TaskInv, OneListens, TaskIsSound, CallsAreOnCadence
  <1> QED
    BY <1>1, <1>2

LEMMA ReaderKeepsTasks ==
  ASSUME TypeOK, TaskInv, NEW r \in Reader,
         StartReader(r) \/ ReadFinal(r) \/ EndReader(r) \/ ReaderStep(r)
  PROVE  TypeOK' /\ TaskInv'
  <1> USE ConstantsAssumption DEF TaskInv, readers, automatic
  <1>1. CASE StartReader(r)
    <2>1. /\ reader' = [reader EXCEPT ![r] = "on"]
          /\ \A q \in Reader : reader[q] \in {"off", "ended"}
          /\ UNCHANGED <<segments, calls, lock, flag, task, seen, tried, ask>>
      BY <1>1 DEF StartReader
    <2>2. TypeOK'
      BY <2>1 DEF TypeOK
    <2>3. OneListens'
      BY <2>1 DEF TypeOK, OneListens
    <2>4. \A q \in Reader : TaskIsSound(q)'
      BY <2>1 DEF TypeOK, TaskIsSound
    <2>5. CallsAreOnCadence'
      BY <2>1 DEF TypeOK, CallsAreOnCadence
    <2> QED
      BY <2>2, <2>3, <2>4, <2>5
  <1>2. CASE ReadFinal(r)
    <2>1. /\ reader' = [reader EXCEPT ![r] = "ingest"] /\ reader[r] = "on"
          /\ segments < MaxSegments
          /\ UNCHANGED <<segments, calls, lock, flag, task, seen, tried, ask>>
      BY <1>2 DEF ReadFinal
    <2>2. TypeOK'
      BY <2>1 DEF TypeOK
    <2>3. OneListens'
      BY <2>1 DEF TypeOK, OneListens
    <2>4. \A q \in Reader : TaskIsSound(q)'
      BY <2>1 DEF TypeOK, TaskIsSound
    <2>5. CallsAreOnCadence'
      BY <2>1 DEF TypeOK, CallsAreOnCadence
    <2> QED
      BY <2>2, <2>3, <2>4, <2>5
  <1>3. CASE EndReader(r)
    <2>1. /\ reader' = [reader EXCEPT ![r] = "ended"] /\ reader[r] = "on"
          /\ UNCHANGED <<segments, calls, lock, flag, task, seen, tried, ask>>
      BY <1>3 DEF EndReader
    <2>2. TypeOK'
      BY <2>1 DEF TypeOK
    <2>3. OneListens'
      BY <2>1 DEF TypeOK, OneListens
    <2>4. \A q \in Reader : TaskIsSound(q)'
      BY <2>1 DEF TypeOK, TaskIsSound
    <2>5. CallsAreOnCadence'
      BY <2>1 DEF TypeOK, CallsAreOnCadence
    <2> QED
      BY <2>2, <2>3, <2>4, <2>5
  <1>4. CASE Ingest(r)
    <2>1. /\ reader' = [reader EXCEPT ![r] = "trigger"] /\ reader[r] = "ingest"
          /\ segments' = segments + 1 /\ segments' \in 0..MaxSegments
          /\ UNCHANGED <<calls, lock, flag, task, seen, tried, ask>>
      BY <1>4 DEF Ingest, TypeOK, TaskIsSound
    <2>2. TypeOK'
      BY <2>1 DEF TypeOK
    <2>3. OneListens'
      BY <2>1 DEF TypeOK, OneListens
    <2>4. \A q \in Reader : TaskIsSound(q)'
      <3>1. \A q \in Reader : reader[q] = "ingest" => q = r
        BY <2>1 DEF OneListens
      <3>2. \A q \in Reader : reader'[q] # "ingest"
        BY <2>1, <3>1 DEF TypeOK
      <3> QED
        BY <2>1, <3>2 DEF TypeOK, TaskIsSound
    <2>5. CallsAreOnCadence'
      BY <2>1 DEF TypeOK, CallsAreOnCadence
    <2> QED
      BY <2>2, <2>3, <2>4, <2>5
  <1>5. CASE Trigger(r)
    <2>1. /\ reader' = [reader EXCEPT ![r] = "on"] /\ reader[r] = "trigger"
          /\ flag' = [flag EXCEPT ![r] = TRUE]
          /\ task' = [task EXCEPT ![r] = IF flag[r] THEN @ ELSE "snapshot"]
          /\ UNCHANGED <<segments, calls, lock, seen, tried, ask>>
      BY <1>5 DEF Trigger
    <2>2. TypeOK'
      BY <2>1 DEF TypeOK
    <2>3. OneListens'
      BY <2>1 DEF TypeOK, OneListens
    <2>4. \A q \in Reader : TaskIsSound(q)'
      BY <2>1 DEF TypeOK, TaskIsSound
    <2>5. CallsAreOnCadence'
      BY <2>1 DEF TypeOK, CallsAreOnCadence
    <2> QED
      BY <2>2, <2>3, <2>4, <2>5
  <1> QED
    BY <1>1, <1>2, <1>3, <1>4, <1>5 DEF ReaderStep

LEMMA RunKeepsTasks ==
  ASSUME TypeOK, TaskInv, NEW r \in Reader, TaskStep(r)
  PROVE  TypeOK' /\ TaskInv'
  <1> USE ConstantsAssumption DEF TaskInv, readers, automatic
  <1>0. reader' = reader /\ segments' = segments /\ ask' = ask /\ lock' = lock
    BY DEF TaskStep, Snapshot, Decide, ModelRetries, ModelAnswers, RecordDecision, Release
  <1>1. OneListens'
    BY <1>0 DEF OneListens
  <1>2. CASE Snapshot(r)
    <2>1. /\ task[r] = "snapshot" /\ task' = [task EXCEPT ![r] = "decide"]
          /\ seen' = [seen EXCEPT ![r] = segments]
          /\ UNCHANGED <<calls, flag, tried>>
      BY <1>2 DEF Snapshot
    <2>2. TypeOK'
      BY <1>0, <2>1 DEF TypeOK
    <2>3. \A q \in Reader : TaskIsSound(q)'
      BY <1>0, <2>1 DEF TypeOK, TaskIsSound
    <2>4. CallsAreOnCadence'
      BY <1>0, <2>1 DEF TypeOK, TaskIsSound, CallsAreOnCadence
    <2> QED
      BY <1>1, <2>2, <2>3, <2>4
  <1>3. CASE Decide(r)
    <2>1. task[r] = "decide" /\ UNCHANGED <<flag, seen>>
      BY <1>3 DEF Decide
    <2>2. CASE ShouldRun(seen[r]) /\ calls' = [calls EXCEPT ![seen[r]] = @ + 1]
                 /\ tried' = [tried EXCEPT ![r] = 1] /\ task' = [task EXCEPT ![r] = "model"]
      <3>1. TypeOK'
        <4>1. calls' \in [0..MaxSegments -> Nat]
          BY <2>2 DEF TypeOK
        <4>2. tried' \in [Reader -> 0..Attempts]
          BY <2>2 DEF TypeOK
        <4> QED
          BY <1>0, <2>1, <2>2, <4>1, <4>2 DEF TypeOK
      <3>2. \A q \in Reader : TaskIsSound(q)'
        BY <1>0, <2>1, <2>2 DEF TypeOK, TaskIsSound
      <3>3. CallsAreOnCadence'
        BY <1>0, <2>1, <2>2 DEF TypeOK, TaskIsSound, CallsAreOnCadence
      <3> QED
        BY <1>1, <3>1, <3>2, <3>3
    <2>3. CASE task' = [task EXCEPT ![r] = "record"] /\ UNCHANGED <<calls, tried>>
      <3>1. TypeOK'
        BY <1>0, <2>1, <2>3 DEF TypeOK
      <3>2. \A q \in Reader : TaskIsSound(q)'
        BY <1>0, <2>1, <2>3 DEF TypeOK, TaskIsSound
      <3>3. CallsAreOnCadence'
        BY <1>0, <2>3 DEF CallsAreOnCadence
      <3> QED
        BY <1>1, <3>1, <3>2, <3>3
    <2> QED
      BY <1>3, <2>2, <2>3 DEF Decide
  <1>4. CASE ModelRetries(r)
    <2>1. /\ task[r] = "model" /\ tried[r] < Attempts
          /\ calls' = [calls EXCEPT ![seen[r]] = @ + 1]
          /\ tried' = [tried EXCEPT ![r] = @ + 1]
          /\ UNCHANGED <<task, flag, seen>>
      BY <1>4 DEF ModelRetries
    <2>2. TypeOK'
      <3>1. calls' \in [0..MaxSegments -> Nat]
        BY <2>1 DEF TypeOK
      <3>2. tried' \in [Reader -> 0..Attempts]
        <4>1. tried[r] + 1 \in 0..Attempts
          BY <2>1 DEF TypeOK
        <4> QED
          BY <2>1, <4>1 DEF TypeOK
      <3> QED
        BY <1>0, <2>1, <3>1, <3>2 DEF TypeOK
    <2>3. \A q \in Reader : TaskIsSound(q)'
      BY <1>0, <2>1 DEF TypeOK, TaskIsSound
    <2>4. CallsAreOnCadence'
      BY <1>0, <2>1 DEF TypeOK, TaskIsSound, CallsAreOnCadence
    <2> QED
      BY <1>1, <2>2, <2>3, <2>4
  <1>5. CASE ModelAnswers(r)
    <2>1. /\ task[r] = "model" /\ task' = [task EXCEPT ![r] = "record"]
          /\ UNCHANGED <<calls, flag, seen, tried>>
      BY <1>5 DEF ModelAnswers
    <2>2. TypeOK'
      BY <1>0, <2>1 DEF TypeOK
    <2>3. \A q \in Reader : TaskIsSound(q)'
      BY <1>0, <2>1 DEF TypeOK, TaskIsSound
    <2>4. CallsAreOnCadence'
      BY <1>0, <2>1 DEF TypeOK, TaskIsSound, CallsAreOnCadence
    <2> QED
      BY <1>1, <2>2, <2>3, <2>4
  <1>6. CASE RecordDecision(r)
    <2>1. /\ task[r] = "record" /\ task' = [task EXCEPT ![r] = "release"]
          /\ UNCHANGED <<calls, flag, seen, tried>>
      BY <1>6 DEF RecordDecision
    <2>2. TypeOK'
      BY <1>0, <2>1 DEF TypeOK
    <2>3. \A q \in Reader : TaskIsSound(q)'
      BY <1>0, <2>1 DEF TypeOK, TaskIsSound
    <2>4. CallsAreOnCadence'
      BY <1>0, <2>1 DEF TypeOK, TaskIsSound, CallsAreOnCadence
    <2> QED
      BY <1>1, <2>2, <2>3, <2>4
  <1>7. CASE Release(r)
    <2>1. /\ task[r] = "release" /\ task' = [task EXCEPT ![r] = "none"]
          /\ flag' = [flag EXCEPT ![r] = FALSE]
          /\ UNCHANGED <<calls, seen, tried>>
      BY <1>7 DEF Release
    <2>2. TypeOK'
      BY <1>0, <2>1 DEF TypeOK
    <2>3. \A q \in Reader : TaskIsSound(q)'
      BY <1>0, <2>1 DEF TypeOK, TaskIsSound
    <2>4. CallsAreOnCadence'
      BY <1>0, <2>1 DEF TypeOK, TaskIsSound, CallsAreOnCadence
    <2> QED
      BY <1>1, <2>2, <2>3, <2>4
  <1> QED
    BY <1>2, <1>3, <1>4, <1>5, <1>6, <1>7 DEF TaskStep

LEMMA AskKeepsTasks ==
  ASSUME TypeOK, TaskInv, NEW k \in Asker, Ask(k) \/ AnswerAsk(k)
  PROVE  TypeOK' /\ TaskInv'
  <1> USE DEF readers, automatic
  <1>1. /\ UNCHANGED <<segments, calls, reader, flag, task, seen, tried>>
        /\ TypeOK'
    <2>1. CASE Ask(k)
      BY <2>1 DEF Ask, TypeOK
    <2>2. CASE AnswerAsk(k)
      BY <2>2 DEF AnswerAsk, TypeOK
    <2> QED
      BY <2>1, <2>2
  <1> QED
    BY <1>1 DEF OneListens, TaskIsSound, CallsAreOnCadence, TaskInv

LEMMA NextTaskInv == TypeOK /\ TaskInv /\ [Next]_vars => TypeOK' /\ TaskInv'
  <1> SUFFICES ASSUME TypeOK, TaskInv, [Next]_vars
               PROVE  TypeOK' /\ TaskInv'
    OBVIOUS
  <1>1. CASE UNCHANGED vars
    BY <1>1 DEF OneListens, TaskIsSound, CallsAreOnCadence, vars, readers, automatic, TypeOK, TaskInv
  <1> QED
    BY <1>1, ReaderKeepsTasks, RunKeepsTasks, AskKeepsTasks DEF Next

(* Every reachable state is well typed.                                    *)
THEOREM TypeCorrect == Spec => []TypeOK
  BY InitTaskInv, NextTaskInv, PTL DEF Spec

(* At most one reader of the meeting listens, every flag stands for a run, *)
(* and calls are made on cadence (capture.rs, engine.rs).                  *)
THEOREM TasksAreConsistent == Spec => []TaskInv
  BY InitTaskInv, NextTaskInv, PTL DEF Spec

-----------------------------------------------------------------------------
(* Model spend.                                                            *)

LEMMA Quotient ==
  ASSUME NEW a \in Nat, NEW d \in Nat \ {0}
  PROVE  a = d * (a \div d) + (a % d) /\ a \div d \in Nat /\ a % d \in 0..(d - 1)
  OBVIOUS

LEMMA QuotientIsMonotone ==
  ASSUME NEW a \in Nat, NEW b \in Nat, a <= b, NEW d \in Nat \ {0}
  PROVE  a \div d <= b \div d
  OBVIOUS

(* The lengths the automatic reasoner was called at are Debounce apart.    *)
THEOREM SpendIsBoundedAlways == Spec => []SpendIsBounded
  <1>1. TypeOK /\ TaskInv => SpendIsBounded
    <2> SUFFICES ASSUME TypeOK, TaskInv
                 PROVE  SpendIsBounded
      OBVIOUS
    <2> DEFINE Called == {n \in 0..MaxSegments : calls[n] > 0}
    <2>0. /\ Debounce \in Nat \ {0} /\ segments \in Nat
          /\ \A n \in Called : n \in Nat /\ n <= segments /\ ShouldRun(n)
      BY ConstantsAssumption DEF OneListens, TaskIsSound, CallsAreOnCadence, TypeOK, TaskInv
    <2>1. CASE segments < 2
      <3>1. Called = {}
        BY <2>0, <2>1 DEF ShouldRun
      <3> QED
        BY <2>0, <2>1, <3>1, FS_EmptySet DEF SpendIsBounded
    <2>2. CASE segments >= 2
      <3> DEFINE last == (segments - 2) \div Debounce
                 place == [n \in Called |-> (n - 2) \div Debounce]
      <3>1. last \in Nat /\ segments - 2 >= Debounce * last
        <4>1. segments - 2 \in Nat
          BY <2>0, <2>2
        <4>2. /\ segments - 2 = Debounce * last + ((segments - 2) % Debounce)
              /\ last \in Nat /\ (segments - 2) % Debounce \in 0..(Debounce - 1)
          BY <2>0, <4>1, Quotient
        <4> QED
          BY <2>0, <4>1, <4>2
      <3>2. ASSUME NEW n \in Called
            PROVE  /\ (n - 2) \div Debounce \in 0..last
                   /\ n - 2 = Debounce * ((n - 2) \div Debounce)
        <4>1. n - 2 \in Nat /\ n - 2 <= segments - 2 /\ (n - 2) % Debounce = 0
          BY <2>0 DEF ShouldRun
        <4>2. (n - 2) \div Debounce <= last
          BY <2>0, <2>2, <4>1, QuotientIsMonotone
        <4>3. n - 2 = Debounce * ((n - 2) \div Debounce) + ((n - 2) % Debounce)
              /\ (n - 2) \div Debounce \in Nat
          BY <2>0, <4>1, Quotient
        <4> QED
          BY <2>0, <3>1, <4>1, <4>2, <4>3
      <3>3. place \in Injection(Called, 0..last)
        <4>1. place \in [Called -> 0..last]
          BY <3>2
        <4>2. ASSUME NEW m \in Called, NEW n \in Called, place[m] = place[n]
              PROVE  m = n
          <5>1. m - 2 = n - 2
            BY <3>2, <4>2
          <5> QED
            BY <2>0, <5>1
        <4> QED
          BY <4>1, <4>2 DEF Injection, IsInjective
      <3>4. Cardinality(Called) <= last + 1 /\ IsFiniteSet(Called)
        <4>1. IsFiniteSet(0..last) /\ Cardinality(0..last) = last + 1
          BY <3>1, FS_Interval
        <4> HIDE DEF place, last, Called
        <4> QED
          BY <3>3, <4>1, FS_Injection
      <3>5. Cardinality(Called) \in Nat
        BY <3>4, FS_CardinalityType
      <3> HIDE DEF Called, last, place
      <3>6. Cardinality(Called) * Debounce <= (last + 1) * Debounce
        BY <2>0, <3>1, <3>4, <3>5
      <3>7. (last + 1) * Debounce <= segments - 2 + Debounce
        BY <2>0, <3>1
      <3>8. Cardinality(Called) * Debounce <= segments - 2 + Debounce
        BY <2>0, <3>1, <3>5, <3>6, <3>7
      <3> QED
        BY <2>0, <2>2, <3>8 DEF SpendIsBounded, Called
    <2> QED
      BY <2>0, <2>1, <2>2
  <1> QED
    BY <1>1, TypeCorrect, TasksAreConsistent, PTL

-----------------------------------------------------------------------------
(* Calls that may still be made.                                           *)

LEMMA CallsAreFinite ==
  /\ IsFiniteSet(Reader)
  /\ Attempts \in Nat \ {0}
  /\ IsFiniteSet(1..Attempts) /\ Cardinality(1..Attempts) = Attempts
  /\ IsFiniteSet(Calls)
  <1>1. IsFiniteSet(Reader) /\ Attempts \in Nat \ {0}
    BY ConstantsAssumption
  <1>2. IsFiniteSet(1..Attempts) /\ Cardinality(1..Attempts) = Attempts
    BY <1>1, FS_Interval
  <1>3. IsFiniteSet({"run", "trigger"})
    <2>1. IsFiniteSet({"run"})
      BY FS_Singleton
    <2>2. IsFiniteSet({"run"} \cup {"trigger"})
      BY <2>1, FS_AddElement
    <2>3. {"run", "trigger"} = {"run"} \cup {"trigger"}
      OBVIOUS
    <2> QED
      BY <2>2, <2>3
  <1> QED
    BY <1>1, <1>2, <1>3, FS_Product DEF Calls

LEMMA StartedIsFinite ==
  /\ IsFiniteSet(Started) /\ Cardinality(Started) \in Nat
  /\ IsFiniteSet(Started') /\ Cardinality(Started') \in Nat
  BY CallsAreFinite, FS_Subset, FS_CardinalityType DEF Started

LEMMA ToCallIsFinite ==
  ASSUME NEW n
  PROVE  /\ IsFiniteSet(ToCall(n)) /\ Cardinality(ToCall(n)) \in Nat
         /\ IsFiniteSet(ToCall(n)') /\ Cardinality(ToCall(n)') \in Nat
  <1>1. ToCall(n) \in SUBSET Calls /\ ToCall(n)' \in SUBSET Calls
    BY DEF ToCall
  <1> QED
    BY <1>1, CallsAreFinite, FS_Subset, FS_CardinalityType

(* A call that is still to come, by its parts.                             *)
LEMMA CallParts ==
  ASSUME NEW n, NEW r \in Reader, NEW i \in 1..Attempts
  PROVE  /\ <<Run(r), i>> \in Calls /\ <<Trig(r), i>> \in Calls
         /\ <<Run(r), i>> \in ToCall(n) <=> MayCall(r, n, i)
         /\ <<Trig(r), i>> \in ToCall(n) <=> MayTrigger(r, n)
         /\ <<Run(r), i>> \in ToCall(n)' <=> MayCall(r, n, i)'
         /\ <<Trig(r), i>> \in ToCall(n)' <=> MayTrigger(r, n)'
  BY DEF Calls, ToCall, Run, Trig

LEMMA CallForms ==
  ASSUME NEW c \in Calls
  PROVE  \E r \in Reader, i \in 1..Attempts : c = <<Run(r), i>> \/ c = <<Trig(r), i>>
  BY DEF Calls, Run, Trig

(* What a step leaves to come at n is among what was to come.              *)
LEMMA NothingNew ==
  ASSUME NEW n,
         \A r \in Reader : /\ \A i \in 1..Attempts : MayCall(r, n, i)' => MayCall(r, n, i)
                           /\ MayTrigger(r, n)' => MayTrigger(r, n)
  PROVE  Cardinality(ToCall(n)') <= Cardinality(ToCall(n))
  <1>1. ToCall(n)' \subseteq ToCall(n)
    <2> SUFFICES ASSUME NEW c \in ToCall(n)'
                 PROVE  c \in ToCall(n)
      OBVIOUS
    <2>1. c \in Calls
      BY DEF ToCall
    <2>2. PICK r \in Reader, i \in 1..Attempts : c = <<Run(r), i>> \/ c = <<Trig(r), i>>
      BY <2>1, CallForms
    <2> QED
      BY <2>2, CallParts
  <1> QED
    BY <1>1, ToCallIsFinite, FS_Subset

(* A call that is made was to come, and no longer is.                      *)
LEMMA OneIsSpent ==
  ASSUME NEW n, NEW q \in Reader, NEW j \in 1..Attempts,
         MayCall(q, n, j), ~MayCall(q, n, j)',
         \A r \in Reader : /\ \A i \in 1..Attempts : MayCall(r, n, i)' => MayCall(r, n, i)
                           /\ MayTrigger(r, n)' => MayTrigger(r, n)
  PROVE  Cardinality(ToCall(n)') + 1 <= Cardinality(ToCall(n))
  <1> DEFINE made == <<Run(q), j>>
  <1>1. made \in ToCall(n) /\ made \notin ToCall(n)'
    BY CallParts
  <1>2. ToCall(n)' \subseteq ToCall(n) \ {made}
    <2> SUFFICES ASSUME NEW c \in ToCall(n)'
                 PROVE  c \in ToCall(n)
      BY <1>1
    <2>1. c \in Calls
      BY DEF ToCall
    <2>2. PICK r \in Reader, i \in 1..Attempts : c = <<Run(r), i>> \/ c = <<Trig(r), i>>
      BY <2>1, CallForms
    <2> QED
      BY <2>2, CallParts
  <1>3. /\ IsFiniteSet(ToCall(n) \ {made})
        /\ Cardinality(ToCall(n) \ {made}) = Cardinality(ToCall(n)) - 1
    BY <1>1, ToCallIsFinite, FS_RemoveElement
  <1>4. Cardinality(ToCall(n)') <= Cardinality(ToCall(n) \ {made})
    BY <1>2, <1>3, FS_Subset
  <1> QED
    BY <1>3, <1>4, ToCallIsFinite

(* The step keeps the bound at n when it spends nothing new there.         *)
LEMMA BoundIsKept ==
  ASSUME TypeOK, SpendInv, NEW n \in 0..MaxSegments,
         calls'[n] = calls[n], Started \subseteq Started',
         Cardinality(ToCall(n)') <= Cardinality(ToCall(n))
  PROVE  calls'[n] + Cardinality(ToCall(n)') <= Attempts * (1 + Cardinality(Started'))
  <1>1. Cardinality(Started) <= Cardinality(Started')
    BY StartedIsFinite, FS_Subset
  <1>2. Attempts * (1 + Cardinality(Started)) <= Attempts * (1 + Cardinality(Started'))
    BY <1>1, StartedIsFinite, CallsAreFinite
  <1>3. calls[n] + Cardinality(ToCall(n)) <= Attempts * (1 + Cardinality(Started))
    BY DEF SpendInv
  <1>4. calls[n] \in Nat /\ calls'[n] = calls[n]
    BY DEF TypeOK
  <1>5. /\ Attempts * (1 + Cardinality(Started)) \in Int
        /\ Attempts * (1 + Cardinality(Started')) \in Int
    BY StartedIsFinite, CallsAreFinite
  <1> QED
    BY <1>2, <1>3, <1>4, <1>5, ToCallIsFinite

-----------------------------------------------------------------------------
(* What each step spends.                                                  *)

(* A trigger becomes the calls of the run it spawns, one for one.          *)
LEMMA TriggerSpendsNothing ==
  ASSUME TypeOK, TaskInv, NEW r \in Reader, Trigger(r), NEW n \in 0..MaxSegments
  PROVE  Cardinality(ToCall(n)') <= Cardinality(ToCall(n))
  <1> USE DEF TypeOK, MayCall, MayTrigger
  <1>1. /\ reader[r] = "trigger" /\ reader' = [reader EXCEPT ![r] = "on"]
        /\ task' = [task EXCEPT ![r] = IF flag[r] THEN @ ELSE "snapshot"]
        /\ UNCHANGED <<segments, seen, tried>>
    BY DEF Trigger
  <1>2. CASE flag[r] \/ segments # n
    BY <1>1, <1>2, NothingNew
  <1>3. CASE ~flag[r] /\ segments = n
    <2> DEFINE Old(c) == IF c[1] = Run(r) THEN <<Trig(r), c[2]>> ELSE c
               old == [c \in ToCall(n)' |-> Old(c)]
    <2>1. \A i : ~MayCall(r, n, i)
      BY <1>1, <1>3 DEF OneListens, TaskIsSound, CallsAreOnCadence, TaskInv
    <2>2. MayTrigger(r, n) /\ ~MayTrigger(r, n)'
      BY <1>1, <1>3
    <2>3. ASSUME NEW c \in ToCall(n)'
          PROVE  /\ Old(c) \in ToCall(n)
                 /\ c[1] # Run(r) => c[1] # Trig(r)
                 /\ \E i \in 1..Attempts : c = <<c[1], i>> /\ i = c[2]
      <3>1. c \in Calls
        BY <2>3 DEF ToCall
      <3>2. PICK q \in Reader, i \in 1..Attempts : c = <<Run(q), i>> \/ c = <<Trig(q), i>>
        BY <3>1, CallForms
      <3>3. c[2] = i /\ c = <<c[1], i>> /\ Trig(q) # Run(r)
            /\ (Run(q) = Run(r) <=> q = r) /\ (Trig(q) = Trig(r) <=> q = r) /\ Run(q) # Trig(r)
        BY <3>2 DEF Run, Trig
      <3>4. CASE c = <<Run(q), i>>
        <4>1. CASE q = r
          <5>1. Old(c) = <<Trig(r), i>>
            BY <3>3, <3>4, <4>1
          <5>2. <<Trig(r), i>> \in ToCall(n)
            BY <2>2, CallParts
          <5> QED
            BY <3>3, <3>4, <4>1, <5>1, <5>2
        <4>2. CASE q # r
          <5>1. Old(c) = c /\ c[1] # Run(r) /\ c[1] # Trig(r)
            BY <3>3, <3>4, <4>2
          <5>2. MayCall(q, n, i)'
            BY <2>3, <3>4, CallParts
          <5>3. MayCall(q, n, i)
            BY <1>1, <4>2, <5>2
          <5>4. c \in ToCall(n)
            BY <3>4, <5>3, CallParts
          <5> QED
            BY <3>3, <5>1, <5>4
        <4> QED
          BY <4>1, <4>2
      <3>5. CASE c = <<Trig(q), i>>
        <4>1. MayTrigger(q, n)'
          BY <2>3, <3>5, CallParts
        <4>2. q # r
          BY <2>2, <4>1
        <4>3. Old(c) = c /\ c[1] # Run(r) /\ c[1] # Trig(r)
          BY <3>3, <3>5, <4>2 DEF Run, Trig
        <4>4. MayTrigger(q, n)
          BY <1>1, <4>1, <4>2
        <4>5. c \in ToCall(n)
          BY <3>5, <4>4, CallParts
        <4> QED
          BY <3>3, <4>3, <4>5
      <3> QED
        BY <3>2, <3>4, <3>5
    <2>4. old \in Injection(ToCall(n)', ToCall(n))
      <3>1. old \in [ToCall(n)' -> ToCall(n)]
        BY <2>3
      <3>2. ASSUME NEW c \in ToCall(n)', NEW d \in ToCall(n)', old[c] = old[d]
            PROVE  c = d
        <4>1. Old(c) = Old(d)
          BY <3>2
        <4> QED
          BY <2>3, <4>1
      <3> QED
        BY <3>1, <3>2 DEF Injection, IsInjective
    <2> HIDE DEF old
    <2> QED
      BY <2>4, ToCallIsFinite, FS_Injection
  <1> QED
    BY <1>2, <1>3

(* Nothing was spent on a new length, and what may be spent on it is at    *)
(* most one run for each capture that started and this reader's trigger.   *)
LEMMA IngestIsWithinBounds ==
  ASSUME TypeOK, TaskInv, SpendInv, NEW r \in Reader, Ingest(r), NEW n \in 0..MaxSegments
  PROVE  calls'[n] + Cardinality(ToCall(n)') <= Attempts * (1 + Cardinality(Started'))
  <1> USE DEF TypeOK, MayCall, MayTrigger
  <1>1. /\ reader[r] = "ingest" /\ reader' = [reader EXCEPT ![r] = "trigger"]
        /\ segments' = segments + 1 /\ segments \in Nat
        /\ UNCHANGED <<calls, task, seen, tried>>
    BY ConstantsAssumption DEF Ingest, automatic
  <1>2. CASE n # segments'
    <2>1. Cardinality(ToCall(n)') <= Cardinality(ToCall(n))
      <3>1. ASSUME NEW q \in Reader
            PROVE  /\ \A i \in 1..Attempts : MayCall(q, n, i)' => MayCall(q, n, i)
                   /\ MayTrigger(q, n)' => MayTrigger(q, n)
        BY <1>1, <1>2
      <3> QED
        BY <3>1, NothingNew
    <2>2. calls'[n] = calls[n] /\ Started \subseteq Started'
      BY <1>1 DEF Started
    <2> QED
      BY <2>1, <2>2, BoundIsKept
  <1>3. CASE n = segments'
    <2> DEFINE Kinds == (Started' \X {"run"}) \cup {Trig(r)}
    <2>1. calls'[n] = 0
      BY <1>1, <1>3 DEF OneListens, TaskIsSound, CallsAreOnCadence, TaskInv
    <2>2. ToCall(n)' \subseteq Kinds \X (1..Attempts)
      <3> SUFFICES ASSUME NEW c \in ToCall(n)'
                   PROVE  c \in Kinds \X (1..Attempts)
        OBVIOUS
      <3>1. c \in Calls
        BY DEF ToCall
      <3>2. PICK q \in Reader, i \in 1..Attempts : c = <<Run(q), i>> \/ c = <<Trig(q), i>>
        BY <3>1, CallForms
      <3>3. CASE c = <<Run(q), i>>
        <4>1. MayCall(q, n, i)'
          BY <3>3, CallParts
        <4>2. q \in Started'
          BY <1>1, <4>1 DEF OneListens, TaskIsSound, CallsAreOnCadence, TaskInv, Started
        <4> QED
          BY <3>3, <4>2 DEF Run
      <3>4. CASE c = <<Trig(q), i>>
        <4>1. reader'[q] = "trigger"
          BY <3>4, CallParts
        <4>2. q = r
          BY <1>1, <4>1 DEF OneListens, TaskIsSound, CallsAreOnCadence, TaskInv
        <4> QED
          BY <3>4, <4>2
      <3> QED
        BY <3>2, <3>3, <3>4
    <2>3. /\ IsFiniteSet(Started' \X {"run"})
          /\ Cardinality(Started' \X {"run"}) = Cardinality(Started')
      <3>1. IsFiniteSet({"run"}) /\ Cardinality({"run"}) = 1
        BY FS_Singleton
      <3>2. /\ IsFiniteSet(Started' \X {"run"})
            /\ Cardinality(Started' \X {"run"}) = Cardinality(Started') * Cardinality({"run"})
        BY <3>1, StartedIsFinite, FS_Product
      <3> QED
        BY <3>1, <3>2, StartedIsFinite
    <2>4. /\ IsFiniteSet(Kinds) /\ Cardinality(Kinds) \in Nat
          /\ Cardinality(Kinds) <= Cardinality(Started') + 1
      <3> DEFINE Runs == Started' \X {"run"}
      <3>1. /\ IsFiniteSet(Kinds)
            /\ Cardinality(Kinds) = IF Trig(r) \in Runs THEN Cardinality(Runs)
                                                       ELSE Cardinality(Runs) + 1
        <4> HIDE DEF Runs
        <4>1. IsFiniteSet(Runs)
          BY <2>3 DEF Runs
        <4>2. Kinds = Runs \cup {Trig(r)}
          BY DEF Runs
        <4> HIDE DEF Kinds
        <4> QED
          BY <4>1, <4>2, FS_AddElement
      <3> HIDE DEF Kinds
      <3> QED
        BY <2>3, <3>1, StartedIsFinite, FS_CardinalityType
    <2> HIDE DEF Kinds
    <2>5. /\ IsFiniteSet(Kinds \X (1..Attempts))
          /\ Cardinality(Kinds \X (1..Attempts)) = Cardinality(Kinds) * Attempts
      BY <2>4, CallsAreFinite, FS_Product
    <2>6. Cardinality(ToCall(n)') <= Cardinality(Kinds) * Attempts
      BY <2>2, <2>5, FS_Subset
    <2>7. Cardinality(Kinds) * Attempts <= Attempts * (1 + Cardinality(Started'))
      BY <2>4, StartedIsFinite, CallsAreFinite
    <2>8. /\ Cardinality(Kinds) * Attempts \in Int
          /\ Attempts * (1 + Cardinality(Started')) \in Int
      BY <2>4, StartedIsFinite, CallsAreFinite
    <2> QED
      BY <2>1, <2>6, <2>7, <2>8, ToCallIsFinite
  <1> QED
    BY <1>2, <1>3

(* The call moves from what is to come to what was made.                   *)
LEMMA CallIsWithinBounds ==
  ASSUME TypeOK, TaskInv, SpendInv, NEW r \in Reader, NEW i \in 1..Attempts,
         MayCall(r, seen[r], i),
         reader' = reader, seen' = seen, segments' = segments,
         task' = [task EXCEPT ![r] = "model"], tried' = [tried EXCEPT ![r] = i],
         (task[r] = "decide" /\ i = 1) \/ (task[r] = "model" /\ i = tried[r] + 1),
         calls' = [calls EXCEPT ![seen[r]] = @ + 1],
         NEW n \in 0..MaxSegments
  PROVE  calls'[n] + Cardinality(ToCall(n)') <= Attempts * (1 + Cardinality(Started'))
  <1> USE DEF TypeOK, MayCall, MayTrigger
  <1>0. i \in Int /\ tried[r] \in Int /\ i > tried'[r] - 1 /\ Started' = Started
    BY CallsAreFinite DEF Started
  <1>1. \A q \in Reader : /\ \A j \in 1..Attempts : MayCall(q, n, j)' => MayCall(q, n, j)
                          /\ MayTrigger(q, n)' => MayTrigger(q, n)
    BY <1>0, CallsAreFinite
  <1>2. CASE n # seen[r]
    <2>1. calls'[n] = calls[n] /\ Started \subseteq Started'
      BY <1>0, <1>2
    <2> QED
      BY <1>1, <2>1, NothingNew, BoundIsKept
  <1>3. CASE n = seen[r]
    <2>1. ~MayCall(r, n, i)' /\ MayCall(r, n, i)
      BY <1>0, <1>3
    <2>2. Cardinality(ToCall(n)') + 1 <= Cardinality(ToCall(n))
      BY <1>1, <2>1, OneIsSpent
    <2>3. calls'[n] = calls[n] + 1 /\ calls[n] \in Nat
      BY <1>3
    <2>4. calls[n] + Cardinality(ToCall(n)) <= Attempts * (1 + Cardinality(Started))
      BY DEF SpendInv
    <2>5. Attempts * (1 + Cardinality(Started)) \in Int
      BY StartedIsFinite, CallsAreFinite
    <2> QED
      BY <1>0, <2>2, <2>3, <2>4, <2>5, ToCallIsFinite
  <1> QED
    BY <1>2, <1>3

LEMMA NextSpendInv ==
  TypeOK /\ TaskInv /\ SpendInv /\ [Next]_vars => SpendInv'
  <1> SUFFICES ASSUME TypeOK, TaskInv, SpendInv, [Next]_vars, NEW n \in 0..MaxSegments
               PROVE  calls'[n] + Cardinality(ToCall(n)') <= Attempts * (1 + Cardinality(Started'))
    BY DEF SpendInv
  <1>1. ASSUME NEW r \in Reader, StartReader(r) \/ ReadFinal(r) \/ EndReader(r)
        PROVE  /\ calls'[n] = calls[n] /\ Started \subseteq Started'
               /\ Cardinality(ToCall(n)') <= Cardinality(ToCall(n))
    <2>1. /\ UNCHANGED <<calls, segments, task, seen, tried>>
          /\ \E place \in {"on", "ingest", "ended"} : reader' = [reader EXCEPT ![r] = place]
      BY <1>1 DEF StartReader, ReadFinal, EndReader, automatic
    <2>2. Started \subseteq Started'
      BY <2>1 DEF Started, TypeOK
    <2>3. ASSUME NEW q \in Reader
          PROVE  /\ \A i \in 1..Attempts : MayCall(q, n, i)' => MayCall(q, n, i)
                 /\ MayTrigger(q, n)' => MayTrigger(q, n)
      BY <2>1 DEF MayCall, MayTrigger, TypeOK
    <2> QED
      BY <2>1, <2>2, <2>3, NothingNew
  <1>2. ASSUME NEW r \in Reader, Trigger(r)
        PROVE  /\ calls'[n] = calls[n] /\ Started \subseteq Started'
               /\ Cardinality(ToCall(n)') <= Cardinality(ToCall(n))
    <2>1. calls'[n] = calls[n] /\ Started \subseteq Started'
      BY <1>2 DEF Trigger, Started, TypeOK
    <2> QED
      BY <1>2, <2>1, TriggerSpendsNothing
  (* A run that goes on without a call has no more to come. *)
  <1>3. ASSUME NEW r \in Reader,
               UNCHANGED <<calls, reader, segments, tried>>,
               \/ Snapshot(r)
               \/ \E next \in {"record", "release", "none"} :
                    task' = [task EXCEPT ![r] = next] /\ UNCHANGED seen
        PROVE  /\ calls'[n] = calls[n] /\ Started \subseteq Started'
               /\ Cardinality(ToCall(n)') <= Cardinality(ToCall(n))
    <2>1. ASSUME NEW q \in Reader
          PROVE  /\ \A i \in 1..Attempts : MayCall(q, n, i)' => MayCall(q, n, i)
                 /\ MayTrigger(q, n)' => MayTrigger(q, n)
      <3>1. CASE Snapshot(r)
        BY <1>3, <3>1 DEF Snapshot, MayCall, MayTrigger, TypeOK
      <3>2. CASE ~Snapshot(r)
        BY <1>3, <3>2 DEF MayCall, MayTrigger, TypeOK
      <3> QED
        BY <3>1, <3>2
    <2> QED
      BY <1>3, <2>1, NothingNew DEF Started
  <1>4. ASSUME NEW r \in Reader,
               Snapshot(r) \/ ModelAnswers(r) \/ RecordDecision(r) \/ Release(r)
        PROVE  /\ UNCHANGED <<calls, reader, segments, tried>>
               /\ \/ Snapshot(r)
                  \/ \E next \in {"record", "release", "none"} :
                       task' = [task EXCEPT ![r] = next] /\ UNCHANGED seen
    BY <1>4 DEF Snapshot, ModelAnswers, RecordDecision, Release, readers
  <1>5. ASSUME NEW r \in Reader, Decide(r)
        PROVE  calls'[n] + Cardinality(ToCall(n)') <= Attempts * (1 + Cardinality(Started'))
    <2>1. CASE task' = [task EXCEPT ![r] = "record"] /\ UNCHANGED <<calls, tried>>
      BY <1>3, <1>5, <2>1, BoundIsKept DEF Decide, readers
    <2>2. CASE /\ calls' = [calls EXCEPT ![seen[r]] = @ + 1]
               /\ tried' = [tried EXCEPT ![r] = 1]
               /\ task' = [task EXCEPT ![r] = "model"]
      <3>1. task[r] = "decide" /\ reader' = reader /\ seen' = seen /\ segments' = segments
        BY <1>5 DEF Decide, readers
      <3>2. PICK i \in 1..Attempts : i = 1
        BY CallsAreFinite
      <3>3. MayCall(r, seen[r], i)
        BY <3>1 DEF MayCall
      <3>4. tried' = [tried EXCEPT ![r] = i]
        BY <2>2, <3>2
      <3>5. (task[r] = "decide" /\ i = 1) \/ (task[r] = "model" /\ i = tried[r] + 1)
        BY <3>1, <3>2
      <3> QED
        BY <2>2, <3>1, <3>3, <3>4, <3>5, CallIsWithinBounds
    <2> QED
      BY <1>5, <2>1, <2>2 DEF Decide
  <1>6. ASSUME NEW r \in Reader, ModelRetries(r)
        PROVE  calls'[n] + Cardinality(ToCall(n)') <= Attempts * (1 + Cardinality(Started'))
    <2> DEFINE i == tried[r] + 1
    <2>1. i \in 1..Attempts /\ tried[r] \in Nat /\ task[r] = "model"
      BY <1>6, CallsAreFinite DEF ModelRetries, TypeOK
    <2>2. /\ UNCHANGED <<reader, seen, segments>>
          /\ calls' = [calls EXCEPT ![seen[r]] = @ + 1]
          /\ tried' = [tried EXCEPT ![r] = i]
          /\ task' = [task EXCEPT ![r] = "model"]
      BY <1>6 DEF ModelRetries, readers, TypeOK
    <2>3. MayCall(r, seen[r], i)
      BY <2>1 DEF MayCall
    <2> HIDE DEF i
    <2> QED
      BY <2>1, <2>2, <2>3, CallIsWithinBounds DEF i
  <1>7. CASE UNCHANGED <<segments, calls, reader, automatic>>
    <2>1. ASSUME NEW q \in Reader
          PROVE  /\ \A i \in 1..Attempts : MayCall(q, n, i)' => MayCall(q, n, i)
                 /\ MayTrigger(q, n)' => MayTrigger(q, n)
      BY <1>7 DEF MayCall, MayTrigger, automatic
    <2>2. Cardinality(ToCall(n)') <= Cardinality(ToCall(n))
      BY <2>1, NothingNew
    <2>3. calls'[n] = calls[n] /\ Started \subseteq Started'
      BY <1>7 DEF Started
    <2> QED
      BY <2>2, <2>3, BoundIsKept
  <1>8. ASSUME NEW k \in Asker, Ask(k) \/ AnswerAsk(k)
        PROVE  UNCHANGED <<segments, calls, reader, automatic>>
    BY <1>8 DEF Ask, AnswerAsk, readers
  <1> QED
    BY <1>1, <1>2, <1>3, <1>4, <1>5, <1>6, <1>7, <1>8, BoundIsKept, IngestIsWithinBounds
       DEF Next, ReaderStep, TaskStep, vars, readers

(* However captures, triggers, retries and late snapshots interleave, a    *)
(* length is paid for at most once per capture and once more, with         *)
(* retries (capture.rs).                                                   *)
THEOREM RepeatsAreBoundedAlways == Spec => []RepeatsAreBounded
  <1>1. Init => SpendInv
    <2> SUFFICES ASSUME Init, NEW n \in 0..MaxSegments
                 PROVE  calls[n] + Cardinality(ToCall(n)) <= Attempts * (1 + Cardinality(Started))
      BY DEF SpendInv
    <2>1. ToCall(n) = {} /\ calls[n] = 0
      BY DEF Init, ToCall, MayCall, MayTrigger, readers, automatic
    <2>2. Attempts * (1 + Cardinality(Started)) >= 0
      BY StartedIsFinite, CallsAreFinite
    <2> QED
      BY <2>1, <2>2, FS_EmptySet
  <1>2. Spec => []SpendInv
    BY <1>1, InitTaskInv, NextTaskInv, NextSpendInv, PTL DEF Spec
  <1>3. TypeOK /\ SpendInv => RepeatsAreBounded
    <2> SUFFICES ASSUME TypeOK, SpendInv, NEW n \in 0..MaxSegments
                 PROVE  calls[n] <= Attempts * (1 + Cardinality(Started))
      BY DEF RepeatsAreBounded, Started
    <2>1. calls[n] + Cardinality(ToCall(n)) <= Attempts * (1 + Cardinality(Started))
      BY DEF SpendInv
    <2>2. calls[n] \in Nat /\ Attempts * (1 + Cardinality(Started)) \in Int
      BY StartedIsFinite, CallsAreFinite DEF TypeOK
    <2> QED
      BY <2>1, <2>2, ToCallIsFinite
  <1> QED
    BY <1>2, <1>3, TypeCorrect, PTL

=============================================================================
