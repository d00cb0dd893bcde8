---------------------------- MODULE ItemHandoff ----------------------------
(***************************************************************************)
(* The producer and consumer programs: two threads that hand something     *)
(* over through one flag, one mutex and one condition variable.            *)
(*   producerConsumer          hands over nothing but the flag             *)
(*   producerConsumerExtended  one letter, counted up by the producer      *)
(*   cpPriority                a ring of letters, two written and one read *)
(*                             a round; ends after Number_of_packets       *)
(* In the last two, the producer sets the flag once before its loop,       *)
(* without the mutex and without a signal.                                 *)
(*                                                                         *)
(* A letter is its distance from '@'; 0 is '@', or the NUL of an empty     *)
(* slot.  A letter's bit in producerConsumerExtended equals it.  cpPriority*)
(* passes priorities to threads that inherit their creator's, so all have  *)
(* the same.  The other two programs end after 20 seconds: MaxRounds.      *)
(***************************************************************************)
EXTENDS Integers, Sequences

CONSTANTS
  Programs,            \* the programs looked at
  Buffer_size,         \* slots of the ring
  Number_of_packets,   \* letters that cpPriority hands over
  MaxRounds            \* bound: how often the endless programs set the flag

ASSUME ProgramsAssumption ==
  Programs \subseteq {"producerConsumer", "producerConsumerExtended", "cpPriority"}
ASSUME SizeAssumption ==
  /\ Buffer_size \in Nat \ {0} /\ Buffer_size % 2 = 0
  /\ Number_of_packets \in Nat /\ MaxRounds \in Nat

VARIABLES
  program,        \* which of the programs runs
  mutex,          \* its owner, or "free"
  pc,             \* where the producer "P" and the consumer "C" are
  dataIsReady,
  buffer,         \* the ring; slot 0 is the letter of producerConsumerExtended
  dataValue,      \* the letter cpPriority's producer writes next
  index,          \* the slots that "P" writes and "C" reads next
  readfinnished,
  consumed,       \* history: what the consumer has read
  readies         \* history: how often dataIsReady was set

data == <<buffer, dataValue, index>>
vars == <<program, mutex, pc, dataIsReady, data, readfinnished, consumed, readies>>

Ring == program = "cpPriority"
Threads == {"P", "C"}
Slots == 0..(Buffer_size - 1)

Init ==
  /\ program \in Programs
  /\ mutex = "free"
  /\ pc = [P |-> "start", C |-> "test"]
  /\ dataIsReady = 0
  /\ buffer = [s \in Slots |-> 0]
  /\ dataValue = 1
  /\ index = [t \in Threads |-> 0]
  /\ readfinnished = 0
  /\ consumed = <<>> /\ readies = 0

Goto(t, place) == pc' = [pc EXCEPT ![t] = place]

\* Mutated: the signal is forgotten.
SignalAndUnlock_NoSignal(t, other) ==
  /\ mutex' = "free"
  /\ Goto(t, "test")

\* t signals, unlocks and goes on; the other thread, if it waits, wakes up.
SignalAndUnlock(t, other) ==
  /\ mutex' = "free"
  /\ pc' = [pc EXCEPT ![t] = "test",
                      ![other] = IF @ = "wait" THEN "wake" ELSE @]

-----------------------------------------------------------------------------
(* Both threads.                                                           *)

\* while (readfinnished == 0), or while (1).
Test(t) ==
  /\ pc[t] = "test"
  /\ Ring \/ t = "C" \/ readies < MaxRounds
  /\ Goto(t, IF readfinnished = 0 THEN "lock" ELSE "done")
  /\ UNCHANGED <<program, mutex, dataIsReady, data, readfinnished, consumed, readies>>

\* A thread that was woken up has the mutex again and repeats its test.
Wake(t) ==
  /\ pc[t] = "wake" /\ mutex = "free"
  /\ mutex' = t
  /\ Goto(t, "check")
  /\ UNCHANGED <<program, dataIsReady, data, readfinnished, consumed, readies>>

SpuriousWake(t) ==
  /\ pc[t] = "wait"
  /\ Goto(t, "wake")
  /\ UNCHANGED <<program, mutex, dataIsReady, data, readfinnished, consumed, readies>>

Wait(t) ==
  /\ mutex' = "free"
  /\ Goto(t, "wait")
  /\ UNCHANGED <<program, dataIsReady, data, readfinnished, consumed, readies>>

-----------------------------------------------------------------------------
(* The producer.                                                           *)

\* Before the loop, without the mutex.
ProducerStart ==
  /\ pc["P"] = "start"
  /\ IF program = "producerConsumer"
     THEN UNCHANGED <<dataIsReady, readies>>
     ELSE dataIsReady' = 1 /\ readies' = 1
  /\ Goto("P", "test")
  /\ UNCHANGED <<program, mutex, data, readfinnished, consumed>>

\* Mutated: the second slot written is the first of the next round.
PutTwo_Overlap ==
  LET i == index["P"] IN
  /\ buffer' = IF dataValue > Number_of_packets THEN buffer
               ELSE IF dataValue = Number_of_packets
                    THEN [buffer EXCEPT ![i] = dataValue]
                    ELSE [buffer EXCEPT ![i] = dataValue,
                                        ![(i + 1) % Buffer_size] = dataValue + 1]
  /\ dataValue' = dataValue + IF dataValue > Number_of_packets THEN 1 ELSE 2
  /\ index' = [index EXCEPT !["P"] = (i + 1) % Buffer_size]

\* cpPriority: up to two letters, while there are any.
PutTwo ==
  LET i == index["P"]
      n == IF dataValue > Number_of_packets THEN 1 ELSE 2
  IN
  /\ buffer' = IF n = 1 THEN buffer
               ELSE IF dataValue = Number_of_packets
                    THEN [buffer EXCEPT ![i] = dataValue]
                    ELSE [buffer EXCEPT ![i] = dataValue, ![i + 1] = dataValue + 1]
  /\ dataValue' = dataValue + n
  /\ index' = [index EXCEPT !["P"] = (i + n) % Buffer_size]

\* The mutex is taken and the letters are written, whether or not the letters
\* before have been read.
ProducerPut ==
  /\ pc["P"] = "lock" /\ mutex = "free"
  /\ mutex' = "P"
  /\ Goto("P", "check")
  /\ \/ program = "producerConsumer" /\ UNCHANGED data
     \/ /\ program = "producerConsumerExtended"
        /\ buffer' = [buffer EXCEPT ![0] = @ + 1]
        /\ UNCHANGED <<dataValue, index>>
     \/ Ring /\ PutTwo
  /\ UNCHANGED <<program, dataIsReady, readfinnished, consumed, readies>>

ProducerWait ==
  /\ pc["P"] = "check" /\ dataIsReady = 1
  /\ Wait("P")

\* Mutated: the producer does not look at the flag.
ProducerReady_NoTest ==
  /\ pc["P"] = "check"
  /\ dataIsReady' = 1 /\ readies' = readies + 1
  /\ SignalAndUnlock("P", "C")
  /\ UNCHANGED <<program, data, readfinnished, consumed>>

ProducerReady ==
  /\ pc["P"] = "check" /\ dataIsReady = 0
  /\ dataIsReady' = 1 /\ readies' = readies + 1
  /\ SignalAndUnlock("P", "C")
  /\ UNCHANGED <<program, data, readfinnished, consumed>>

-----------------------------------------------------------------------------
(* The consumer.                                                           *)

ConsumerLock ==
  /\ pc["C"] = "lock" /\ mutex = "free"
  /\ mutex' = "C"
  /\ Goto("C", "check")
  /\ UNCHANGED <<program, dataIsReady, data, readfinnished, consumed, readies>>

ConsumerWait ==
  /\ pc["C"] = "check" /\ dataIsReady = 0
  /\ Wait("C")

\* A letter is read; the last one ends both loops.
ConsumerTake ==
  LET item == buffer[index["C"]] IN
  /\ pc["C"] = "check" /\ dataIsReady = 1
  /\ consumed' = Append(consumed, item)
  /\ readfinnished' = IF Ring /\ item + 1 > Number_of_packets THEN 1 ELSE readfinnished
  /\ index' = IF Ring THEN [index EXCEPT !["C"] = (@ + 1) % Buffer_size] ELSE index
  /\ Goto("C", "taken")
  /\ UNCHANGED <<program, mutex, dataIsReady, buffer, dataValue, readies>>

ConsumerRelease ==
  /\ pc["C"] = "taken"
  /\ dataIsReady' = 0
  /\ SignalAndUnlock("C", "P")
  /\ UNCHANGED <<program, data, readfinnished, consumed, readies>>

-----------------------------------------------------------------------------
Inside ==
  \/ ProducerWait \/ ProducerReady
  \/ ConsumerWait \/ ConsumerTake \/ ConsumerRelease

Next ==
  \/ ProducerStart \/ ProducerPut \/ ProducerWait \/ ProducerReady
  \/ ConsumerLock \/ ConsumerWait \/ ConsumerTake \/ ConsumerRelease
  \/ \E t \in Threads : Test(t) \/ Wake(t) \/ SpuriousWake(t)

Spec == Init /\ [][Next]_vars

\* Threads run, and a thread that asks for the mutex gets it in the end.
Fairness ==
  /\ WF_vars(ProducerStart) /\ WF_vars(Inside)
  /\ SF_vars(ProducerPut) /\ SF_vars(ConsumerLock)
  /\ \A t \in Threads : WF_vars(Test(t)) /\ SF_vars(Wake(t))

FairSpec == Spec /\ Fairness

-----------------------------------------------------------------------------
(* Properties.                                                             *)

Places == {"start", "test", "lock", "check", "wait", "wake", "taken", "done"}

TypeOK ==
  /\ program \in Programs
  /\ mutex \in Threads \cup {"free"}
  /\ pc \in [Threads -> Places]
  /\ dataIsReady \in {0, 1} /\ readfinnished \in {0, 1}
  /\ buffer \in [Slots -> Nat]
  /\ dataValue \in Nat
  /\ index \in [Threads -> Slots]
  /\ consumed \in Seq(Nat) /\ readies \in Nat

\* Each time the flag is set the consumer reads exactly once, although it is
\* set without the mutex at the start, and both threads wait on one condition
\* variable for opposite values.
OneForOne ==
  Len(consumed) + (IF dataIsReady = 1 /\ pc["C"] # "taken" THEN 1 ELSE 0) = readies

\* cpPriority: all letters are read in their order and none is overwritten
\* unread, although two are written a round and one is read; only the first
\* read may come before the first letter is there.
LettersInOrder ==
  Ring => \A i \in 1..Len(consumed) :
            consumed[i] = i \/ (i = 1 /\ consumed[1] = 0)

\* producerConsumerExtended: a letter may be read twice or be missed, since
\* the next is written before the flag is looked at; but no two in a row are
\* missed, and the consumer never goes back.
AtMostOneMissed ==
  program = "producerConsumerExtended" =>
    \A i \in 2..Len(consumed) : consumed[i] - consumed[i - 1] \in 0..2

Stuck == pc["P"] = "wait" /\ pc["C"] = "wait"

\* The threads wait for each other only if the consumer waited before the
\* producer set the flag for the first time, which it does without a signal.
StuckOnlyAtStart == Stuck => consumed = <<>> /\ program # "producerConsumer"

\* Unless that has happened, cpPriority ends and the other programs go on.
EndsOrGoesOn ==
  <>(\/ Stuck /\ consumed = <<>>
     \/ Ring /\ \A t \in Threads : pc[t] = "done"
     \/ ~Ring /\ Len(consumed) = MaxRounds)

-----------------------------------------------------------------------------
(* The inductive invariant of the proofs.                                  *)

\* Who owns the mutex where, and what cannot have happened yet.
Ownership ==
  /\ \A t \in Threads : mutex = t <=> pc[t] \in {"check", "taken"}
  /\ pc["P"] # "taken" /\ pc["C"] # "start"
  /\ pc["P"] = "start" /\ program # "producerConsumer" => readies = 0
  /\ ~Ring => index["C"] = 0

\* What a thread that waits, or reads, knows of the flag.
FlagMeaning ==
  /\ pc["C"] = "taken" => dataIsReady = 1 /\ consumed # <<>>
  /\ pc["P"] = "wait" => dataIsReady = 1
  /\ pc["C"] = "wait" =>
       dataIsReady = 0 \/ (consumed = <<>> /\ program # "producerConsumer")

\* How far the letter may be ahead of the last one read: one step for a
\* letter that the flag announces, one for a letter not announced yet.
MissInv ==
  program = "producerConsumerExtended" /\ consumed # <<>> =>
    LET announced == IF dataIsReady = 1 /\ pc["C"] # "taken" THEN 1 ELSE 0
        pending == IF pc["P"] \in {"check", "wait", "wake"} THEN 1 ELSE 0
    IN  buffer[0] - consumed[Len(consumed)] \in 0..(announced + pending)

IInv == TypeOK /\ OneForOne /\ AtMostOneMissed /\ Ownership /\ FlagMeaning /\ MissInv

\* cpPriority.  How often the producer has written, and what: two letters a
\* round, as long as there are any.
Rounds ==
  IF pc["P"] = "start" THEN 0
  ELSE readies - (IF pc["P"] \in {"check", "wait", "wake"} THEN 0 ELSE 1)

Written ==
  IF 2 * Rounds < Number_of_packets THEN 2 * Rounds ELSE Number_of_packets

\* The slot of letter n + 1, in the first or in the second turn of the ring.
SlotOf(n) == IF n < Buffer_size THEN n ELSE n - Buffer_size

\* Where both threads are in the ring, what each slot holds, and that the
\* consumer goes on until it has read the last letter.
ProducerInv ==
  /\ Rounds \in Nat
  /\ dataValue <= Number_of_packets =>
       dataValue = 2 * Rounds + 1 /\ index["P"] = SlotOf(2 * Rounds)
  /\ dataValue > Number_of_packets => Number_of_packets <= 2 * Rounds

SlotsInv ==
  \A s \in Slots :
    buffer[s] = IF s + 1 + Buffer_size <= Written THEN s + 1 + Buffer_size
                ELSE IF s + 1 <= Written THEN s + 1 ELSE 0

ConsumerInv ==
  /\ Len(consumed) <= Number_of_packets
  /\ index["C"] = SlotOf(Len(consumed))
  /\ readfinnished = 0 => Len(consumed) < Number_of_packets
  /\ readfinnished = 1 => pc["C"] \in {"taken", "test", "done"}

RingInv == Ring => ProducerInv /\ SlotsInv /\ ConsumerInv /\ LettersInOrder

\* There are fewer letters than two turns of the ring (15 and 10 slots).
LettersFit == Number_of_packets \in 2..(2 * Buffer_size - 1)
=============================================================================
