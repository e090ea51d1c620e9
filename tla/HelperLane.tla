------------------------------ MODULE HelperLane ------------------------------
(***************************************************************************)
(* One capture lane of the helper: the realtime callback copies a buffer   *)
(* into the next slot of a fixed pool and hands it over through a bounded  *)
(* stream; one consumer drains it, counts and reports what overflowed, and *)
(* feeds the transcriber (PCMBufferPool and CaptureLane in                 *)
(* native/standby-capture-helper/main.swift).                              *)
(*                                                                         *)
(* A buffer is its number.  The pool remembers which buffer a slot holds,  *)
(* the stream which slot and buffer were handed over.  The callbacks are   *)
(* serial, and run in parallel with the consumer.                          *)
(***************************************************************************)
EXTENDS Naturals, Sequences

CONSTANTS
  Slots,     \* PCMBufferPool(count:)
  BufferCap, \* CaptureLane(bufferCap:)
  MaxBuffers \* bound: buffers the source delivers

(* "count exceeds the lane stream's buffering cap" *)
ASSUME ConstantsAssumption ==
  /\ BufferCap \in Nat \ {0}
  /\ Slots \in Nat
  /\ Slots > BufferCap
  /\ MaxBuffers \in Nat

VARIABLES
  pool,     \* the buffer a slot holds, 0 for none
  index,    \* the pool's next slot
  tap,      \* the callback: "idle", "submit", "count" or "removed"
  received, \* number of buffers submitted
  stream,   \* slots and buffers handed over and not taken yet
  finished, \* finishInput was called
  hand,     \* what the consumer holds
  fed,      \* number of buffers fed to the transcriber
  dropped,
  reported, \* reportedDropped, the count of the last audio.dropped
  consumer  \* "running" or "returned"

producer == <<pool, index, tap, received>>
drain == <<hand, fed, reported, consumer>>
vars == <<producer, stream, finished, drain, dropped>>

Entry == [slot : 0..(Slots - 1), buffer : 1..MaxBuffers]
Nothing == [slot |-> 0, buffer |-> 0]

(* The slot the pool uses k copies before slot s. *)
Back(s, k) == IF k <= s THEN s - k ELSE Slots + s - k

Init ==
  /\ pool = [s \in 0..(Slots - 1) |-> 0]
  /\ index = 0
  /\ tap = "idle"
  /\ received = 0
  /\ stream = <<>>
  /\ finished = FALSE
  /\ hand = Nothing
  /\ fed = 0
  /\ dropped = 0
  /\ reported = 0
  /\ consumer = "running"

-----------------------------------------------------------------------------
(* Slips the properties must notice; the runs never use them: a pool that  *)
(* stays at its slot, a drop that is not counted, a consumer that returns  *)
(* without its last report, and one that waits for the dropped buffers     *)
(* too.                                                                    *)
CopyIntoSame ==
  /\ tap = "idle" /\ received < MaxBuffers
  /\ pool' = [pool EXCEPT ![index] = received + 1]
  /\ tap' = "submit"
  /\ UNCHANGED <<index, received, stream, finished, drain, dropped>>

CountNothing ==
  /\ tap = "count"
  /\ tap' = "idle"
  /\ UNCHANGED <<pool, index, received, stream, finished, drain, dropped>>

ReturnUnreported ==
  /\ consumer = "running" /\ hand = Nothing
  /\ finished /\ stream = <<>>
  /\ consumer' = "returned"
  /\ UNCHANGED <<producer, stream, finished, hand, fed, reported, dropped>>

ReturnWhenAllFed ==
  /\ consumer = "running" /\ hand = Nothing
  /\ finished /\ stream = <<>> /\ fed = received
  /\ reported' = dropped
  /\ consumer' = "returned"
  /\ UNCHANGED <<producer, stream, finished, hand, fed, dropped>>

-----------------------------------------------------------------------------
(* The realtime callback.                                                  *)

(* copyInto overwrites the next slot. *)
CopyInto ==
  /\ tap = "idle" /\ received < MaxBuffers
  /\ pool' = [pool EXCEPT ![index] = received + 1]
  /\ index' = IF index + 1 = Slots THEN 0 ELSE index + 1
  /\ tap' = "submit"
  /\ UNCHANGED <<received, stream, finished, drain, dropped>>

(* submit yields into the stream, which keeps the newest BufferCap; the    *)
(* oldest one makes room, and the yield says so.                           *)
Submit ==
  /\ tap = "submit"
  /\ received' = received + 1
  /\ LET entry == [slot |-> Back(index, 1), buffer |-> received']
     IN IF Len(stream) < BufferCap
        THEN stream' = Append(stream, entry) /\ tap' = "idle"
        ELSE stream' = Append(Tail(stream), entry) /\ tap' = "count"
  /\ UNCHANGED <<pool, index, finished, drain, dropped>>

CountDrop ==
  /\ tap = "count"
  /\ dropped' = dropped + 1
  /\ tap' = "idle"
  /\ UNCHANGED <<pool, index, received, stream, finished, drain>>

-----------------------------------------------------------------------------
(* The stop task removes the microphone's tap before it ends the input.    *)

RemoveTap ==
  /\ tap = "idle"
  /\ tap' = "removed"
  /\ UNCHANGED <<pool, index, received, stream, finished, drain, dropped>>

FinishInput ==
  /\ tap = "removed" /\ ~finished
  /\ finished' = TRUE
  /\ UNCHANGED <<producer, stream, drain, dropped>>

-----------------------------------------------------------------------------
(* runConsumer.                                                            *)

Take ==
  /\ consumer = "running" /\ hand = Nothing
  /\ stream # <<>>
  /\ hand' = Head(stream)
  /\ stream' = Tail(stream)
  /\ UNCHANGED <<producer, finished, fed, reported, consumer, dropped>>

(* Once per second of audio the level is written, and drops with it; then  *)
(* the buffer is fed.                                                      *)
Feed ==
  /\ hand # Nothing
  /\ \E due \in BOOLEAN : reported' = IF due THEN dropped ELSE reported
  /\ fed' = fed + 1
  /\ hand' = Nothing
  /\ UNCHANGED <<producer, stream, finished, consumer, dropped>>

(* End of input: what is left of the drops is reported. *)
Return ==
  /\ consumer = "running" /\ hand = Nothing
  /\ finished /\ stream = <<>>
  /\ reported' = dropped
  /\ consumer' = "returned"
  /\ UNCHANGED <<producer, stream, finished, hand, fed, dropped>>

-----------------------------------------------------------------------------
Next ==
  \/ CopyInto \/ Submit \/ CountDrop
  \/ RemoveTap \/ FinishInput
  \/ Take \/ Feed \/ Return

Spec == Init /\ [][Next]_vars

(* The consumer is scheduled, and the stop task ends the input once the    *)
(* tap is gone.                                                            *)
Fairness == WF_vars(Take \/ Feed \/ Return) /\ WF_vars(FinishInput)

FairSpec == Spec /\ Fairness

-----------------------------------------------------------------------------
(* Properties.                                                             *)

TypeOK ==
  /\ pool \in [0..(Slots - 1) -> 0..MaxBuffers]
  /\ index \in 0..(Slots - 1)
  /\ tap \in {"idle", "submit", "count", "removed"}
  /\ received \in 0..MaxBuffers
  /\ stream \in Seq(Entry)
  /\ Len(stream) <= BufferCap
  /\ finished \in BOOLEAN
  /\ hand \in Entry \cup {Nothing}
  /\ fed \in Nat
  /\ dropped \in Nat
  /\ reported \in Nat
  /\ consumer \in {"running", "returned"}

(* PCMBufferPool: when the ring wraps back to a slot, that slot is no      *)
(* longer in the stream.  What waits in the stream is never overwritten.   *)
StreamIsIntact ==
  \A i \in 1..Len(stream) : pool[stream[i].slot] = stream[i].buffer

(* Every buffer that was submitted is in the stream, in the consumer's     *)
(* hands, fed, counted as dropped, or about to be.                         *)
NoBufferIsMissing ==
  received = Len(stream) + (IF hand = Nothing THEN 0 ELSE 1) + fed + dropped
               + (IF tap = "count" THEN 1 ELSE 0)

(* CaptureLane: lost transcript is never silent.  When the lane has been   *)
(* drained, the last report says how many buffers are missing.             *)
LossIsCounted == consumer = "returned" => fed + reported = received

(* Ending the input ends the consumer, whatever waits in the stream.       *)
InputEnds == tap = "removed" ~> consumer = "returned"

-----------------------------------------------------------------------------
(* The inductive invariant behind the properties above.                    *)

Copied == received + (IF tap = "submit" THEN 1 ELSE 0)

(* The pool holds the last Slots copies, newest first, going back from     *)
(* index.                                                                  *)
PoolInv ==
  \A k \in 1..Slots : pool[Back(index, k)] = IF k <= Copied THEN Copied - k + 1 ELSE 0

(* The stream holds the newest submitted buffers without a gap, each in    *)
(* the slot it was copied to.                                              *)
StreamInv ==
  \A i \in 1..Len(stream) :
    /\ stream[i].buffer = received - Len(stream) + i
    /\ stream[i].slot = Back(index, Copied - stream[i].buffer + 1)

EndInv ==
  /\ tap = "submit" => received < MaxBuffers
  /\ finished => tap = "removed"
  /\ consumer = "returned" => /\ finished /\ stream = <<>> /\ hand = Nothing
                              /\ reported = dropped

IInv == TypeOK /\ PoolInv /\ StreamInv /\ NoBufferIsMissing /\ EndInv

=============================================================================
