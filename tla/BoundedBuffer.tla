--------------------------- MODULE BoundedBuffer ---------------------------
(***************************************************************************)
(* BounderBufferSemaphore: a producer and a consumer with a ring, two      *)
(* counting semaphores and a mutex.  The producer begins at the slot after *)
(* the one at which the consumer begins.                                   *)
(*                                                                         *)
(* What is done under the mutex does not block and is one step.  An item   *)
(* is its place in the array data; 0 is what an unwritten slot holds.      *)
(***************************************************************************)
EXTENDS Integers

CONSTANTS BUF_SIZE, Items    \* slots of the ring; items in data

VARIABLES
  ppc, cpc,                            \* where producer and consumer are
  empty, full,                         \* the semaphores
  bufferInPointer, bufferOutPointer,
  buffer, count,
  produced,                            \* the producer's i
  taken,                               \* the consumer's i, once it has read
  tmp                                  \* what the consumer has read last

vars == <<ppc, cpc, empty, full, bufferInPointer, bufferOutPointer, buffer,
          count, produced, taken, tmp>>

Init ==
  /\ ppc = "loop" /\ cpc = "loop"
  /\ empty = BUF_SIZE /\ full = 0
  /\ bufferInPointer = 1 /\ bufferOutPointer = 0
  /\ buffer = [s \in 0..(BUF_SIZE - 1) |-> 0]
  /\ count = 0
  /\ produced = 0 /\ taken = 0 /\ tmp = 0

ProducerWait ==
  /\ ppc = "loop" /\ produced < Items
  /\ empty > 0
  /\ empty' = empty - 1
  /\ ppc' = "put"
  /\ UNCHANGED <<cpc, full, bufferInPointer, bufferOutPointer, buffer, count,
                 produced, taken, tmp>>

ProducerPut ==
  /\ ppc = "put"
  /\ produced' = produced + 1
  /\ buffer' = [buffer EXCEPT ![bufferInPointer] = produced + 1]
  /\ bufferInPointer' = (bufferInPointer + 1) % BUF_SIZE
  /\ count' = count + 1
  /\ ppc' = "post"
  /\ UNCHANGED <<cpc, empty, full, bufferOutPointer, taken, tmp>>

ProducerPost ==
  /\ ppc = "post"
  /\ full' = full + 1
  /\ ppc' = "loop"
  /\ UNCHANGED <<cpc, empty, bufferInPointer, bufferOutPointer, buffer, count,
                 produced, taken, tmp>>

ConsumerWait ==
  /\ cpc = "loop" /\ taken < Items
  /\ full > 0
  /\ full' = full - 1
  /\ cpc' = "take"
  /\ UNCHANGED <<ppc, empty, bufferInPointer, bufferOutPointer, buffer, count,
                 produced, taken, tmp>>

ConsumerTake ==
  /\ cpc = "take"
  /\ tmp' = buffer[bufferOutPointer] /\ taken' = taken + 1
  /\ bufferOutPointer' = (bufferOutPointer + 1) % BUF_SIZE
  /\ count' = count - 1
  /\ cpc' = "post"
  /\ UNCHANGED <<ppc, empty, full, bufferInPointer, buffer, produced>>

\* Mutated: a slot is given back twice.
ConsumerPost_Twice ==
  /\ cpc = "post"
  /\ empty' = empty + 2
  /\ cpc' = "loop"
  /\ UNCHANGED <<ppc, full, bufferInPointer, bufferOutPointer, buffer, count,
                 produced, taken, tmp>>

ConsumerPost ==
  /\ cpc = "post"
  /\ empty' = empty + 1
  /\ cpc' = "loop"
  /\ UNCHANGED <<ppc, full, bufferInPointer, bufferOutPointer, buffer, count,
                 produced, taken, tmp>>

Next ==
  \/ ProducerWait \/ ProducerPut \/ ProducerPost
  \/ ConsumerWait \/ ConsumerTake \/ ConsumerPost

Spec == Init /\ [][Next]_vars

-----------------------------------------------------------------------------
(* Properties.                                                             *)

TypeOK ==
  /\ ppc \in {"loop", "put", "post"} /\ cpc \in {"loop", "take", "post"}
  /\ empty \in Nat /\ full \in Nat
  /\ bufferInPointer \in 0..(BUF_SIZE - 1)
  /\ bufferOutPointer \in 0..(BUF_SIZE - 1)
  /\ buffer \in [0..(BUF_SIZE - 1) -> 0..Items]
  /\ count \in 0..BUF_SIZE
  /\ produced \in 0..Items /\ taken \in 0..Items /\ tmp \in 0..Items

\* The n-th read is of the item before the n-th, which for the first is an
\* unwritten slot, or of the item a whole ring later, which has overwritten
\* it: the semaphores let the producer fill all slots, and one of them is the
\* one that the consumer has yet to read (l. 15-16, 32-36).  It is never of an
\* older item, and never of one more than a ring ahead.
ReadsOneBehindOrOverrun ==
  taken > 0 => tmp \in {taken - 1, taken - 1 + BUF_SIZE}

-----------------------------------------------------------------------------
(* The inductive invariant of the proofs.                                  *)

\* Slots and items on their way: taken off one semaphore, not yet on the other.
ToPut == IF ppc = "put" THEN 1 ELSE 0
ToAnnounce == IF ppc = "post" THEN 1 ELSE 0
ToTake == IF cpc = "take" THEN 1 ELSE 0
ToFree == IF cpc = "post" THEN 1 ELSE 0

\* Every slot is empty, full, or on its way from one to the other.
SlotsInv ==
  /\ count = produced - taken
  /\ empty + count + ToPut + ToFree = BUF_SIZE
  /\ full + ToAnnounce + ToTake = count
  /\ ppc = "put" => produced < Items
  /\ cpc = "take" => taken < Items

\* How many items were put since slot s was written, or would have been.
Since(s) ==
  bufferInPointer - 1 - s + (IF s < bufferInPointer THEN 0 ELSE BUF_SIZE)

\* What the slots hold, and where in the ring the consumer is.
RingInv ==
  /\ \A s \in 0..(BUF_SIZE - 1) :
       buffer[s] = IF Since(s) <= produced THEN produced - Since(s) ELSE 0
  /\ Since(bufferOutPointer) =
       IF produced - taken = BUF_SIZE THEN 0 ELSE produced - taken

IInv == TypeOK /\ SlotsInv /\ RingInv /\ ReadsOneBehindOrOverrun
=============================================================================
