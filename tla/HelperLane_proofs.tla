-------------------------- MODULE HelperLane_proofs --------------------------
(***************************************************************************)
(* Theorems about HelperLane, for every pool that is larger than the       *)
(* stream and for any number of buffers.  Each rests on IInv.              *)
(***************************************************************************)
EXTENDS HelperLane, SequenceTheorems, TLAPS

(* Going back from a slot stays in the pool and meets each slot once.      *)
LEMMA BackInPool ==
  ASSUME NEW s \in 0..(Slots - 1), NEW k \in 1..Slots
  PROVE  Back(s, k) \in 0..(Slots - 1) /\ (k # Slots => Back(s, k) # s)
  BY ConstantsAssumption DEF Back

(* A copy moves every slot one step back.                                  *)
LEMMA BackMoves ==
  ASSUME TypeOK, CopyInto
  PROVE  /\ index \in 0..(Slots - 1) /\ index' \in 0..(Slots - 1)
         /\ Back(index', 1) = index
         /\ \A k \in 1..(Slots - 1) : Back(index', k + 1) = Back(index, k)
  <1>1. /\ index \in 0..(Slots - 1)
        /\ index' = IF index + 1 = Slots THEN 0 ELSE index + 1
    BY DEF TypeOK, CopyInto
  <1> QED
    BY <1>1, ConstantsAssumption DEF Back

(* An element that enters a sequence while its first one leaves.           *)
LEMMA Shift ==
  ASSUME NEW S, NEW s \in Seq(S), NEW e \in S, s # <<>>
  PROVE  /\ Append(Tail(s), e) \in Seq(S)
         /\ Len(Append(Tail(s), e)) = Len(s)
         /\ \A i \in 1..Len(s) :
              Append(Tail(s), e)[i] = IF i = Len(s) THEN e ELSE s[i + 1]
  <1> DEFINE t == Tail(s)
  <1>1. t \in Seq(S) /\ Len(t) = Len(s) - 1 /\ Len(s) \in Nat \ {0}
    BY HeadTailProperties, LenProperties, EmptySeq
  <1>2. \A i \in 1..Len(t) : t[i] = s[i + 1]
    BY HeadTailProperties
  <1> HIDE DEF t
  <1>3. /\ Append(t, e) \in Seq(S) /\ Len(Append(t, e)) = Len(t) + 1
        /\ \A i \in 1..Len(t) : Append(t, e)[i] = t[i]
        /\ Append(t, e)[Len(t) + 1] = e
    BY <1>1, AppendProperties
  <1>4. /\ Append(t, e) \in Seq(S) /\ Len(Append(t, e)) = Len(s)
        /\ \A i \in 1..Len(s) :
             Append(t, e)[i] = IF i = Len(s) THEN e ELSE s[i + 1]
    BY <1>1, <1>2, <1>3
  <1> QED
    BY <1>4 DEF t

LEMMA InitInv == Init => IInv
  <1> SUFFICES ASSUME Init PROVE IInv
    OBVIOUS
  <1>1. TypeOK
    <2>1. stream \in Seq(Entry) /\ Len(stream) = 0
      BY EmptySeq DEF Init
    <2>2. 0 \in 0..(Slots - 1) /\ 0 \in 0..MaxBuffers /\ BufferCap \in Nat
      BY ConstantsAssumption
    <2>3. pool \in [0..(Slots - 1) -> 0..MaxBuffers]
      BY <2>2 DEF Init
    <2>4. hand \in Entry \cup {Nothing}
      BY DEF Init
    <2>5. /\ index = 0 /\ tap = "idle" /\ received = 0 /\ finished = FALSE
          /\ fed = 0 /\ dropped = 0 /\ reported = 0 /\ consumer = "running"
      BY DEF Init
    <2>6. index \in 0..(Slots - 1) /\ received \in 0..MaxBuffers
      BY <2>2, <2>5
    <2>7. Len(stream) <= BufferCap
      BY <2>1, <2>2
    <2> QED
      BY <2>1, <2>3, <2>4, <2>5, <2>6, <2>7 DEF TypeOK
  <1>2. PoolInv
    BY ConstantsAssumption DEF Init, PoolInv, Back, Copied
  <1>3. StreamInv /\ NoBufferIsMissing /\ EndInv
    BY DEF Init, StreamInv, NoBufferIsMissing, EndInv
  <1> QED
    BY <1>1, <1>2, <1>3 DEF IInv

(***************************************************************************)
(* The callback.                                                           *)
(***************************************************************************)

LEMMA CopyIntoInv == ASSUME IInv, CopyInto PROVE IInv'
  <1> USE ConstantsAssumption
  <1>1. TypeOK'
    BY DEF IInv, TypeOK, CopyInto, drain
  <1>2. Copied' = Copied + 1 /\ Copied = received /\ Copied \in Nat
    BY DEF IInv, TypeOK, CopyInto, Copied
  <1>3. PoolInv'
    <2> SUFFICES ASSUME NEW k \in 1..Slots
                 PROVE  pool'[Back(index', k)] =
                          IF k <= Copied' THEN Copied' - k + 1 ELSE 0
      BY DEF PoolInv
    <2>1. CASE k = 1
      <3>1. Back(index', k) = index /\ index \in 0..(Slots - 1)
        BY <2>1, BackMoves DEF IInv
      <3>2. pool'[index] = received + 1
        BY <3>1 DEF IInv, TypeOK, CopyInto
      <3> QED
        BY <2>1, <1>2, <3>1, <3>2
    <2>2. CASE k # 1
      <3>1. k - 1 \in 1..(Slots - 1) /\ (k - 1) + 1 = k
        BY <2>2
      <3>2. Back(index', k) = Back(index, k - 1)
        BY <3>1, BackMoves DEF IInv
      <3>3. Back(index, k - 1) # index /\ Back(index, k - 1) \in 0..(Slots - 1)
        BY <3>1, BackInPool, BackMoves DEF IInv
      <3>4. pool'[Back(index, k - 1)] = pool[Back(index, k - 1)]
        BY <3>3 DEF IInv, TypeOK, CopyInto
      <3> QED
        BY <3>1, <3>2, <3>4, <1>2 DEF IInv, PoolInv
    <2> QED
      BY <2>1, <2>2
  <1>4. StreamInv'
    <2>0. received' = received /\ stream' = stream
      BY DEF CopyInto
    <2> SUFFICES ASSUME NEW i \in 1..Len(stream)
                 PROVE  /\ stream[i].buffer = received - Len(stream) + i
                        /\ stream[i].slot = Back(index', Copied' - stream[i].buffer + 1)
      BY <2>0 DEF StreamInv
    <2> DEFINE k == Copied - stream[i].buffer + 1
    <2>1. stream[i].buffer = received - Len(stream) + i /\ stream[i].slot = Back(index, k)
      BY DEF IInv, StreamInv
    <2>2. Len(stream) \in Nat /\ received \in Nat /\ Len(stream) <= BufferCap
      BY DEF IInv, TypeOK
    <2>3. k \in 1..(Slots - 1)
      BY <2>1, <2>2, <1>2
    <2>4. Copied' - stream[i].buffer + 1 = k + 1
      BY <2>1, <2>2, <1>2
    <2> HIDE DEF k
    <2>5. TypeOK
      BY DEF IInv
    <2>6. Back(index', k + 1) = Back(index, k)
      BY <2>3, <2>5, BackMoves
    <2> QED
      BY <2>1, <2>4, <2>6
  <1>5. NoBufferIsMissing' /\ EndInv'
    BY DEF IInv, TypeOK, NoBufferIsMissing, EndInv, CopyInto, drain
  <1> QED
    BY <1>1, <1>3, <1>4, <1>5 DEF IInv

LEMMA SubmitInv == ASSUME IInv, Submit PROVE IInv'
  <1> USE ConstantsAssumption
  <1> DEFINE entry == [slot |-> Back(index, 1), buffer |-> received + 1]
  <1>1. entry \in Entry /\ received' = received + 1 /\ received \in 0..(MaxBuffers - 1)
    BY DEF IInv, TypeOK, EndInv, Submit, Entry, Back
  <1>2. Copied' = Copied /\ Copied = received + 1
    BY <1>1 DEF IInv, TypeOK, Submit, Copied
  <1>3. index' = index
    BY DEF Submit
  <1>4. /\ stream' \in Seq(Entry)
        /\ Len(stream') <= BufferCap
        /\ Len(stream') \in Nat
        /\ \A i \in 1..Len(stream') :
             /\ stream'[i].buffer = received' - Len(stream') + i
             /\ stream'[i].slot = Back(index, Copied - stream'[i].buffer + 1)
        /\ Len(stream') = IF tap' = "count" THEN Len(stream) ELSE Len(stream) + 1
        /\ tap' \in {"idle", "count"}
    <2> HIDE DEF entry
    <2>0. /\ entry.buffer = received + 1 /\ entry.slot = Back(index, 1)
          /\ stream \in Seq(Entry) /\ Len(stream) \in Nat /\ Len(stream) <= BufferCap
      BY DEF entry, IInv, TypeOK
    <2>1. CASE Len(stream) < BufferCap
      <3>1. stream' = Append(stream, entry) /\ tap' = "idle"
        BY <2>1, <1>1 DEF Submit, entry
      <3>2. /\ stream' \in Seq(Entry) /\ Len(stream') = Len(stream) + 1
            /\ \A i \in 1..Len(stream) : stream'[i] = stream[i]
            /\ stream'[Len(stream) + 1] = entry
        BY <3>1, <2>0, <1>1, AppendProperties
      <3>3. ASSUME NEW i \in 1..Len(stream')
            PROVE  /\ stream'[i].buffer = received' - Len(stream') + i
                   /\ stream'[i].slot = Back(index, Copied - stream'[i].buffer + 1)
        <4>1. CASE i = Len(stream) + 1
          <5>1. stream'[i].buffer = received + 1
            BY <4>1, <3>2, <2>0
          <5>2. Copied - stream'[i].buffer + 1 = 1
            BY <5>1, <1>1, <1>2
          <5> QED
            BY <4>1, <3>2, <2>0, <1>1, <5>1, <5>2
        <4>2. CASE i # Len(stream) + 1
          <5>1. i \in 1..Len(stream) /\ stream'[i] = stream[i]
            BY <4>2, <3>2, <2>0
          <5> QED
            BY <5>1, <3>2, <2>0, <1>1, <1>2 DEF IInv, StreamInv
        <4> QED
          BY <4>1, <4>2
      <3> QED
        BY <3>1, <3>2, <3>3, <2>0, <2>1
    <2>2. CASE ~(Len(stream) < BufferCap)
      <3>1. stream' = Append(Tail(stream), entry) /\ tap' = "count"
        BY <2>2, <1>1 DEF Submit, entry
      <3>2. stream # <<>> /\ Len(stream) = BufferCap
        BY <2>0, <2>2
      <3>3. /\ stream' \in Seq(Entry) /\ Len(stream') = Len(stream)
            /\ \A i \in 1..Len(stream) :
                 stream'[i] = IF i = Len(stream) THEN entry ELSE stream[i + 1]
        BY <3>1, <3>2, <2>0, <1>1, Shift
      <3>4. ASSUME NEW i \in 1..Len(stream')
            PROVE  /\ stream'[i].buffer = received' - Len(stream') + i
                   /\ stream'[i].slot = Back(index, Copied - stream'[i].buffer + 1)
        <4>1. CASE i = Len(stream)
          <5>1. stream'[i] = entry
            BY <4>1, <3>3
          <5>2. Copied - stream'[i].buffer + 1 = 1
            BY <5>1, <2>0, <1>1, <1>2
          <5> QED
            BY <4>1, <5>1, <5>2, <3>3, <2>0, <1>1
        <4>2. CASE i # Len(stream)
          <5>1. i + 1 \in 1..Len(stream) /\ stream'[i] = stream[i + 1]
            BY <4>2, <3>3, <2>0
          <5>2. /\ stream[i + 1].buffer = received - Len(stream) + (i + 1)
                /\ stream[i + 1].slot = Back(index, Copied - stream[i + 1].buffer + 1)
            BY <5>1 DEF IInv, StreamInv
          <5> QED
            BY <5>1, <5>2, <3>3, <2>0, <1>1
        <4> QED
          BY <4>1, <4>2
      <3> QED
        BY <3>1, <3>2, <3>3, <3>4, <2>0
    <2> QED
      BY <2>1, <2>2
  <1>5. TypeOK'
    BY <1>1, <1>4 DEF IInv, TypeOK, Submit, drain
  <1>6. PoolInv'
    BY <1>2, <1>3 DEF IInv, PoolInv, Submit
  <1>7. StreamInv'
    BY <1>2, <1>3, <1>4 DEF StreamInv
  <1>8. NoBufferIsMissing'
    <2>1. /\ hand' = hand /\ fed' = fed /\ dropped' = dropped
          /\ tap = "submit" /\ Len(stream) \in Nat /\ received \in Nat
          /\ fed \in Nat /\ dropped \in Nat
      BY DEF IInv, TypeOK, Submit, drain
    <2> DEFINE held == IF hand = Nothing THEN 0 ELSE 1
    <2>2. held \in Nat
      OBVIOUS
    <2>3. received = Len(stream) + held + fed + dropped
      BY <2>1 DEF IInv, NoBufferIsMissing
    <2>4. tap' = "idle" \/ tap' = "count"
      BY <1>4
    <2> HIDE DEF held
    <2>5. received' = Len(stream') + held + fed + dropped
                        + (IF tap' = "count" THEN 1 ELSE 0)
      BY <1>1, <1>4, <2>1, <2>2, <2>3, <2>4
    <2> QED
      BY <2>1, <2>5 DEF NoBufferIsMissing, held
  <1>9. EndInv'
    BY <1>4 DEF IInv, EndInv, Submit, drain
  <1> QED
    BY <1>5, <1>6, <1>7, <1>8, <1>9 DEF IInv

(* What leaves pool, index, stream and the number of copies alone keeps    *)
(* what is said about them.                                                *)
LEMMA PoolAndStreamStay ==
  ASSUME IInv, UNCHANGED <<pool, index, received, stream>>, Copied' = Copied
  PROVE  PoolInv' /\ StreamInv'
  <1>2. PoolInv'
    BY DEF IInv, PoolInv
  <1>3. StreamInv'
    BY DEF IInv, StreamInv
  <1> QED
    BY <1>2, <1>3

LEMMA CountDropInv == ASSUME IInv, CountDrop PROVE IInv'
  <1>1. PoolInv' /\ StreamInv'
    BY PoolAndStreamStay DEF CountDrop, Copied
  <1>2. TypeOK'
    BY DEF IInv, TypeOK, CountDrop, drain
  <1>3. NoBufferIsMissing'
    <2>1. /\ received' = received /\ stream' = stream /\ hand' = hand
          /\ fed' = fed /\ dropped' = dropped + 1 /\ tap = "count" /\ tap' = "idle"
          /\ fed \in Nat /\ dropped \in Nat /\ Len(stream) \in Nat
      BY DEF IInv, TypeOK, CountDrop, drain
    <2> DEFINE held == IF hand = Nothing THEN 0 ELSE 1
    <2>2. held \in Nat
      OBVIOUS
    <2>3. received = Len(stream) + held + fed + dropped + 1
      BY <2>1 DEF IInv, NoBufferIsMissing
    <2> HIDE DEF held
    <2>4. received' = Len(stream') + held + fed' + dropped'
      BY <2>1, <2>2, <2>3
    <2> QED
      BY <2>1, <2>4 DEF NoBufferIsMissing, held
  <1>4. EndInv'
    BY DEF IInv, EndInv, CountDrop, drain
  <1> QED
    BY <1>1, <1>2, <1>3, <1>4 DEF IInv

(***************************************************************************)
(* The stop task and the consumer.                                         *)
(***************************************************************************)

LEMMA StopInv == ASSUME IInv, RemoveTap \/ FinishInput PROVE IInv'
  <1>1. PoolInv' /\ StreamInv'
    BY PoolAndStreamStay DEF RemoveTap, FinishInput, Copied, producer
  <1>2. TypeOK'
    BY DEF IInv, TypeOK, RemoveTap, FinishInput, producer, drain
  <1>3. NoBufferIsMissing' /\ EndInv'
    BY DEF IInv, TypeOK, NoBufferIsMissing, EndInv, RemoveTap, FinishInput,
           producer, drain
  <1> QED
    BY <1>1, <1>2, <1>3 DEF IInv

LEMMA TakeInv == ASSUME IInv, Take PROVE IInv'
  <1>1. /\ stream \in Seq(Entry) /\ Len(stream) \in Nat /\ Len(stream) <= BufferCap
        /\ stream # <<>> /\ BufferCap \in Nat
    BY ConstantsAssumption DEF IInv, TypeOK, Take
  <1>2. /\ stream' \in Seq(Entry) /\ Len(stream') = Len(stream) - 1
        /\ \A i \in 1..Len(stream') : stream'[i] = stream[i + 1]
        /\ hand' \in Entry
    BY <1>1, HeadTailProperties DEF Take
  <1>3. Nothing \notin Entry
    BY DEF Nothing, Entry
  <1>4. /\ Copied' = Copied /\ pool' = pool /\ received' = received
        /\ index' = index
    BY DEF Take, producer, Copied
  <1>5. TypeOK'
    BY <1>1, <1>2 DEF IInv, TypeOK, Take, producer
  <1>6. PoolInv'
    BY <1>4 DEF IInv, PoolInv
  <1>7. StreamInv'
    <2> SUFFICES ASSUME NEW i \in 1..Len(stream')
                 PROVE  /\ stream'[i].buffer = received - Len(stream') + i
                        /\ stream'[i].slot = Back(index, Copied - stream'[i].buffer + 1)
      BY <1>4 DEF StreamInv
    <2>1. i + 1 \in 1..Len(stream) /\ stream'[i] = stream[i + 1]
      BY <1>1, <1>2
    <2>2. /\ stream[i + 1].buffer = received - Len(stream) + (i + 1)
          /\ stream[i + 1].slot = Back(index, Copied - stream[i + 1].buffer + 1)
      BY <2>1 DEF IInv, StreamInv
    <2>3. received \in Nat
      BY DEF IInv, TypeOK
    <2> QED
      BY <2>1, <2>2, <2>3, <1>1, <1>2
  <1>8. NoBufferIsMissing'
    <2>1. hand = Nothing /\ hand' # Nothing
      BY <1>2, <1>3 DEF Take
    <2>2. tap' = tap /\ fed' = fed /\ dropped' = dropped
      BY DEF Take, producer
    <2>3. received \in Nat /\ fed \in Nat /\ dropped \in Nat
      BY DEF IInv, TypeOK
    <2> QED
      BY <2>1, <2>2, <2>3, <1>1, <1>2, <1>4 DEF IInv, NoBufferIsMissing
  <1>9. EndInv'
    BY DEF IInv, EndInv, Take, producer
  <1> QED
    BY <1>5, <1>6, <1>7, <1>8, <1>9 DEF IInv

LEMMA FeedInv == ASSUME IInv, Feed PROVE IInv'
  <1>1. PoolInv' /\ StreamInv'
    BY PoolAndStreamStay DEF Feed, Copied, producer
  <1>2. TypeOK'
    BY DEF IInv, TypeOK, Feed, producer
  <1>3. NoBufferIsMissing'
    BY DEF IInv, TypeOK, NoBufferIsMissing, Feed, producer
  <1>4. EndInv'
    BY DEF IInv, EndInv, Feed, producer
  <1> QED
    BY <1>1, <1>2, <1>3, <1>4 DEF IInv

LEMMA ReturnInv == ASSUME IInv, Return PROVE IInv'
  <1>1. PoolInv' /\ StreamInv'
    BY PoolAndStreamStay DEF Return, Copied, producer
  <1>2. TypeOK'
    BY DEF IInv, TypeOK, Return, producer
  <1>3. NoBufferIsMissing' /\ EndInv'
    BY DEF IInv, TypeOK, NoBufferIsMissing, EndInv, Return, producer
  <1> QED
    BY <1>1, <1>2, <1>3 DEF IInv

LEMMA StutterInv == ASSUME IInv, UNCHANGED vars PROVE IInv'
  <1>1. PoolInv' /\ StreamInv'
    BY PoolAndStreamStay DEF vars, Copied, producer
  <1>2. TypeOK' /\ NoBufferIsMissing' /\ EndInv'
    BY DEF IInv, TypeOK, NoBufferIsMissing, EndInv, vars, producer, drain
  <1> QED
    BY <1>1, <1>2 DEF IInv

(* The inductive invariant of the lane holds in every reachable state.     *)
THEOREM Invariance == Spec => []IInv
  <1>1. Init => IInv
    BY InitInv
  <1>2. IInv /\ [Next]_vars => IInv'
    <2> SUFFICES ASSUME IInv, [Next]_vars PROVE IInv'
      OBVIOUS
    <2>1. CASE CopyInto
      BY <2>1, CopyIntoInv
    <2>2. CASE Submit
      BY <2>2, SubmitInv
    <2>3. CASE CountDrop
      BY <2>3, CountDropInv
    <2>4. CASE RemoveTap \/ FinishInput
      BY <2>4, StopInv
    <2>5. CASE Take
      BY <2>5, TakeInv
    <2>6. CASE Feed
      BY <2>6, FeedInv
    <2>7. CASE Return
      BY <2>7, ReturnInv
    <2>8. CASE UNCHANGED vars
      BY <2>8, StutterInv
    <2> QED
      BY <2>1, <2>2, <2>3, <2>4, <2>5, <2>6, <2>7, <2>8 DEF Next
  <1> QED
    BY <1>1, <1>2, PTL DEF Spec

(* PCMBufferPool: whatever the sizes, a slot the ring wraps back to is no  *)
(* longer in the stream.                                                   *)
THEOREM StreamIsIntactAlways == Spec => []StreamIsIntact
  <1>1. IInv => StreamIsIntact
    <2> SUFFICES ASSUME IInv, NEW i \in 1..Len(stream)
                 PROVE  pool[stream[i].slot] = stream[i].buffer
      BY DEF StreamIsIntact
    <2> DEFINE k == Copied - stream[i].buffer + 1
    <2>1. stream[i].buffer = received - Len(stream) + i /\ stream[i].slot = Back(index, k)
      BY DEF IInv, StreamInv
    <2>2. /\ received \in Nat /\ Len(stream) \in Nat /\ Len(stream) <= BufferCap
          /\ stream[i] \in Entry
      BY ElementOfSeq DEF IInv, TypeOK
    <2>3. k \in 1..Slots /\ k <= Copied /\ Copied - k + 1 = stream[i].buffer
      BY <2>1, <2>2, ConstantsAssumption DEF Copied, Entry
    <2> HIDE DEF k
    <2>4. pool[Back(index, k)] = Copied - k + 1
      BY <2>3 DEF IInv, PoolInv
    <2> QED
      BY <2>1, <2>3, <2>4
  <1> QED
    BY <1>1, Invariance, PTL

(* No buffer disappears unaccounted for.                                   *)
THEOREM NoBufferIsMissingAlways == Spec => []NoBufferIsMissing
  <1>1. IInv => NoBufferIsMissing
    BY DEF IInv
  <1> QED
    BY <1>1, Invariance, PTL

(* CaptureLane: lost transcript is never silent, whatever the load.        *)
THEOREM LossIsCountedAlways == Spec => []LossIsCounted
  <1>1. IInv => LossIsCounted
    BY DEF IInv, TypeOK, NoBufferIsMissing, EndInv, LossIsCounted
  <1> QED
    BY <1>1, Invariance, PTL

=============================================================================
