------------------------ MODULE ItemHandoff_proofs ------------------------
(***************************************************************************)
(* Proofs about ItemHandoff, for every ring, every number of letters and   *)
(* any number of rounds.                                                   *)
(***************************************************************************)
EXTENDS ItemHandoff, TLAPS

\* The next slot is a slot.
LEMMA SlotGoesRound == \A n \in Nat : n % Buffer_size \in Slots
  BY SizeAssumption DEF Slots

LEMMA InitEstablishes == Init => IInv
<1> SUFFICES ASSUME Init PROVE IInv
  OBVIOUS
<1>1. 0 \in Slots
  BY SizeAssumption DEF Slots
<1>2. TypeOK
  BY <1>1 DEF Init, TypeOK, Places, Threads
<1>3. OneForOne /\ AtMostOneMissed /\ MissInv
  BY DEF Init, OneForOne, AtMostOneMissed, MissInv
<1>4. Ownership /\ FlagMeaning
  BY DEF Init, Ownership, FlagMeaning, Threads, Ring
<1> QED
  BY <1>2, <1>3, <1>4 DEF IInv

\* A thread that signals and unlocks goes on, and the other one wakes up.
LEMMA SignalStep ==
  ASSUME pc \in [Threads -> Places], NEW t \in Threads, NEW o \in Threads \ {t},
         SignalAndUnlock(t, o)
  PROVE  /\ pc' \in [Threads -> Places] /\ mutex' = "free"
         /\ pc'[t] = "test"
         /\ pc'[o] = IF pc[o] = "wait" THEN "wake" ELSE pc[o]
  BY DEF SignalAndUnlock, Places, Threads

\* Steps that change neither flag nor data: the loop test, the waits and the
\* wake-ups.
LEMMA ControlPreserves ==
  ASSUME IInv,
         \/ \E t \in Threads : Test(t) \/ Wake(t) \/ SpuriousWake(t)
         \/ ProducerWait \/ ConsumerWait \/ ConsumerLock
  PROVE  IInv'
<1> USE DEF IInv
<1>1. PICK t \in Threads :
        \/ Test(t) \/ Wake(t) \/ SpuriousWake(t)
        \/ t = "P" /\ ProducerWait
        \/ t = "C" /\ (ConsumerWait \/ ConsumerLock)
  BY DEF Threads
<1>2. UNCHANGED <<program, dataIsReady, data, readfinnished, consumed, readies>>
  BY <1>1 DEF Test, Wake, SpuriousWake, ProducerWait, ConsumerWait, ConsumerLock, Wait
<1>3. PICK place \in Places : pc' = [pc EXCEPT ![t] = place]
  BY <1>1 DEF Test, Wake, SpuriousWake, ProducerWait, ConsumerWait, ConsumerLock, Wait,
     Goto, Places
<1>4. mutex' \in Threads \cup {"free"}
  BY <1>1 DEF Test, Wake, SpuriousWake, ProducerWait, ConsumerWait, ConsumerLock, Wait,
     TypeOK
<1>5. TypeOK'
  BY <1>2, <1>3, <1>4 DEF TypeOK, data
<1>6. pc'["C"] = "taken" <=> pc["C"] = "taken"
  BY <1>1, <1>3 DEF TypeOK, Threads, Test, Wake, SpuriousWake, ProducerWait, ConsumerWait,
     ConsumerLock, Wait, Goto
<1>7. pc["P"] \in {"check", "wait", "wake"} <=> pc'["P"] \in {"check", "wait", "wake"}
  BY <1>1, <1>3 DEF TypeOK, Threads, Test, Wake, SpuriousWake, ProducerWait, ConsumerWait,
     ConsumerLock, Wait, Goto
<1>8. OneForOne' /\ AtMostOneMissed' /\ MissInv'
  BY <1>2, <1>6, <1>7 DEF OneForOne, AtMostOneMissed, MissInv, data
<1>9. Ownership'
  BY <1>1, <1>2, <1>3 DEF TypeOK, Ownership, Threads, Ring, data, Test, Wake, SpuriousWake,
     ProducerWait, ConsumerWait, ConsumerLock, Wait, Goto
<1>10. FlagMeaning'
  BY <1>1, <1>2, <1>3 DEF TypeOK, FlagMeaning, Threads, Test, Wake, SpuriousWake,
     ProducerWait, ConsumerWait, ConsumerLock, Wait, Goto
<1> QED
  BY <1>5, <1>8, <1>9, <1>10

LEMMA StartPreserves == IInv /\ ProducerStart => IInv'
<1> SUFFICES ASSUME IInv, ProducerStart PROVE IInv'
  OBVIOUS
<1> USE DEF IInv, ProducerStart
<1>1. pc' = [pc EXCEPT !["P"] = "test"] /\ UNCHANGED <<program, mutex, data, readfinnished, consumed>>
  BY DEF Goto
<1>2. TypeOK'
  <2>1. dataIsReady' \in {0, 1} /\ readies' \in Nat
    BY DEF TypeOK
  <2>2. pc' \in [Threads -> Places]
    BY <1>1 DEF TypeOK, Places
  <2> QED
    BY <1>1, <2>1, <2>2 DEF TypeOK, data
<1>3. ASSUME program # "producerConsumer"
      PROVE  consumed = <<>> /\ readies = 0 /\ dataIsReady = 0 /\ pc["C"] # "taken"
  <2>1. readies = 0
    BY <1>3 DEF Ownership
  <2>2. Len(consumed) = 0
    BY <2>1 DEF TypeOK, OneForOne
  <2>3. consumed = <<>>
    BY <2>2 DEF TypeOK
  <2>4. pc["C"] # "taken"
    BY <2>3 DEF FlagMeaning
  <2>5. dataIsReady = 0
    BY <2>1, <2>2, <2>4 DEF TypeOK, OneForOne
  <2> QED
    BY <2>1, <2>3, <2>4, <2>5
<1>4. pc'["C"] = pc["C"] /\ pc'["P"] = "test"
  BY <1>1 DEF TypeOK, Threads
<1>5. OneForOne' /\ AtMostOneMissed' /\ MissInv'
  BY <1>1, <1>3, <1>4 DEF OneForOne, AtMostOneMissed, MissInv
<1>6. Ownership' /\ FlagMeaning'
  BY <1>1, <1>3, <1>4 DEF TypeOK, Ownership, FlagMeaning, Threads, Ring, data
<1> QED
  BY <1>2, <1>5, <1>6

LEMMA PutPreserves == IInv /\ ProducerPut => IInv'
<1> SUFFICES ASSUME IInv, ProducerPut PROVE IInv'
  OBVIOUS
<1> USE DEF IInv, ProducerPut
<1>1. /\ pc["P"] = "lock" /\ pc' = [pc EXCEPT !["P"] = "check"]
      /\ mutex = "free" /\ mutex' = "P"
      /\ UNCHANGED <<program, dataIsReady, readfinnished, consumed, readies>>
  BY DEF Goto
<1>2. pc'["P"] = "check" /\ pc'["C"] = pc["C"] /\ pc' \in [Threads -> Places]
  BY <1>1 DEF TypeOK, Threads, Places
<1>3. /\ buffer' \in [Slots -> Nat] /\ dataValue' \in Nat
      /\ index' \in [Threads -> Slots] /\ index'["C"] = index["C"]
  <2>1. CASE ~Ring
    BY <2>1 DEF TypeOK, data, Ring
  <2>2. CASE Ring
    <3> PutTwo
      BY <2>2 DEF Ring
    <3>1. index["P"] \in Nat
      BY SizeAssumption DEF TypeOK, Threads, Slots
    <3>2. PICK n \in {1, 2} :
            /\ dataValue' = dataValue + n
            /\ index' = [index EXCEPT !["P"] = (index["P"] + n) % Buffer_size]
      BY DEF PutTwo
    <3>3. (index["P"] + n) % Buffer_size \in Slots
      BY <3>1, SlotGoesRound
    <3>4. buffer' \in [Slots -> Nat]
      <4>1. buffer \in [Slots -> Nat] /\ dataValue \in Nat /\ dataValue + 1 \in Nat
        BY DEF TypeOK
      <4>2. \/ buffer' = buffer
            \/ buffer' = [buffer EXCEPT ![index["P"]] = dataValue]
            \/ buffer' = [buffer EXCEPT ![index["P"]] = dataValue,
                                        ![index["P"] + 1] = dataValue + 1]
        BY DEF PutTwo
      <4> QED
        BY <4>1, <4>2
    <3>5. dataValue' \in Nat
      BY <3>2 DEF TypeOK
    <3>6. index \in [Threads -> Slots] /\ "C" # "P" /\ "C" \in Threads
      BY DEF TypeOK, Threads
    <3>7. index' \in [Threads -> Slots] /\ index'["C"] = index["C"]
      BY <3>2, <3>3, <3>6
    <3> QED
      BY <3>4, <3>5, <3>7
  <2> QED
    BY <2>1, <2>2
<1>4. TypeOK'
  BY <1>1, <1>2, <1>3 DEF TypeOK, Threads
<1>5. OneForOne' /\ AtMostOneMissed'
  BY <1>1, <1>2 DEF OneForOne, AtMostOneMissed
<1>6. Ownership' /\ FlagMeaning'
  BY <1>1, <1>2, <1>3 DEF Ownership, FlagMeaning, Threads, Ring
<1>7. MissInv'
  <2> SUFFICES ASSUME program = "producerConsumerExtended", consumed # <<>> PROVE MissInv'
    BY <1>1 DEF MissInv
  <2>1. 0 \in Slots
    BY SizeAssumption DEF Slots
  <2>2. buffer'[0] = buffer[0] + 1
    BY <2>1 DEF Ring, TypeOK
  <2>3. consumed[Len(consumed)] \in Nat /\ buffer[0] \in Nat
    BY <2>1 DEF TypeOK
  <2> QED
    BY <1>1, <1>2, <2>2, <2>3 DEF MissInv
<1> QED
  BY <1>4, <1>5, <1>6, <1>7

LEMMA ReadyPreserves == IInv /\ ProducerReady => IInv'
<1> SUFFICES ASSUME IInv, ProducerReady PROVE IInv'
  OBVIOUS
<1> USE DEF IInv, ProducerReady
<1>1. /\ pc' \in [Threads -> Places] /\ mutex' = "free" /\ pc'["P"] = "test"
      /\ pc'["C"] = IF pc["C"] = "wait" THEN "wake" ELSE pc["C"]
  BY SignalStep DEF TypeOK, Threads
<1>2. pc["C"] # "taken" /\ pc["C"] # "check"
  BY DEF TypeOK, FlagMeaning, Ownership, Threads
<1>3. TypeOK'
  BY <1>1 DEF TypeOK, data
<1>4. OneForOne' /\ AtMostOneMissed'
  BY <1>1, <1>2 DEF TypeOK, OneForOne, AtMostOneMissed
<1>5. Ownership' /\ FlagMeaning'
  BY <1>1, <1>2 DEF Ownership, FlagMeaning, Threads, Ring, data
<1>6. MissInv'
  BY <1>1, <1>2 DEF MissInv, data
<1> QED
  BY <1>3, <1>4, <1>5, <1>6

LEMMA TakePreserves == IInv /\ ConsumerTake => IInv'
<1> SUFFICES ASSUME IInv, ConsumerTake PROVE IInv'
  OBVIOUS
<1> USE DEF IInv, ConsumerTake
<1> DEFINE item == buffer[index["C"]]
           n == Len(consumed)
<1>1. pc["C"] = "check" /\ pc'["C"] = "taken" /\ pc'["P"] = pc["P"] /\ pc' \in [Threads -> Places]
  BY DEF TypeOK, Goto, Threads, Places
<1>2. item \in Nat /\ n \in Nat
  BY DEF TypeOK, Threads
<1>3. /\ consumed' \in Seq(Nat) /\ Len(consumed') = n + 1 /\ consumed'[n + 1] = item
      /\ \A i \in 1..n : consumed'[i] = consumed[i]
      /\ consumed # <<>> => n \in 1..n
  BY <1>2 DEF TypeOK
<1>4. index' \in [Threads -> Slots] /\ (~Ring => index'["C"] = index["C"])
  <2>1. index["C"] \in Nat
    BY SizeAssumption DEF TypeOK, Threads, Slots
  <2>2. (index["C"] + 1) % Buffer_size \in Slots
    BY <2>1, SlotGoesRound
  <2> QED
    BY <2>2 DEF TypeOK, Threads
<1>5. TypeOK'
  BY <1>1, <1>3, <1>4 DEF TypeOK
<1>6. OneForOne'
  BY <1>1, <1>2, <1>3 DEF OneForOne
<1>7. Ownership' /\ FlagMeaning'
  BY <1>1, <1>4 DEF Ownership, FlagMeaning, Threads, Ring
<1>8. AtMostOneMissed'
  <2> SUFFICES ASSUME program = "producerConsumerExtended", NEW i \in 2..(n + 1)
               PROVE  consumed'[i] - consumed'[i - 1] \in 0..2
    BY <1>3 DEF AtMostOneMissed
  <2>1. CASE i \in 2..n
    BY <1>2, <1>3, <2>1 DEF AtMostOneMissed
  <2>2. CASE i = n + 1
    <3>1. consumed # <<>> /\ item = buffer[0]
      BY <1>3, <2>2 DEF Ownership, Ring
    <3>2. buffer[0] - consumed[n] \in 0..2
      BY <1>2, <3>1 DEF MissInv
    <3> QED
      BY <1>2, <1>3, <2>2, <3>1, <3>2
  <2> QED
    BY <1>2, <2>1, <2>2
<1>9. MissInv'
  <2>1. program = "producerConsumerExtended" => item = buffer[0]
    BY DEF Ownership, Ring
  <2> QED
    BY <1>1, <1>2, <1>3, <2>1 DEF MissInv
<1> QED
  BY <1>5, <1>6, <1>7, <1>8, <1>9

LEMMA ReleasePreserves == IInv /\ ConsumerRelease => IInv'
<1> SUFFICES ASSUME IInv, ConsumerRelease PROVE IInv'
  OBVIOUS
<1> USE DEF IInv, ConsumerRelease
<1>1. /\ pc' \in [Threads -> Places] /\ mutex' = "free" /\ pc'["C"] = "test"
      /\ pc'["P"] = IF pc["P"] = "wait" THEN "wake" ELSE pc["P"]
  BY SignalStep DEF TypeOK, Threads
<1>2. pc["C"] = "taken" /\ pc["P"] # "check"
  BY DEF TypeOK, Ownership, Threads
<1>3. TypeOK'
  BY <1>1 DEF TypeOK, data
<1>4. OneForOne' /\ AtMostOneMissed' /\ MissInv'
  BY <1>1, <1>2 DEF OneForOne, AtMostOneMissed, MissInv, data
<1>5. Ownership' /\ FlagMeaning'
  BY <1>1, <1>2 DEF Ownership, FlagMeaning, Threads, Ring, data
<1> QED
  BY <1>3, <1>4, <1>5

\* The invariant holds in every reachable state.
THEOREM Invariance == Spec => []IInv
<1>1. IInv /\ [Next]_vars => IInv'
  <2>1. IInv /\ UNCHANGED vars => IInv'
    BY DEF vars, data, IInv, TypeOK, OneForOne, AtMostOneMissed, Ownership, FlagMeaning,
       MissInv, Ring
  <2> QED
    BY <2>1, ControlPreserves, StartPreserves, PutPreserves, ReadyPreserves, TakePreserves,
       ReleasePreserves DEF Next
<1> QED
  BY <1>1, InitEstablishes, PTL DEF Spec

\* The variables of the producer and consumer programs keep their types.
THEOREM TypeCorrect == Spec => []TypeOK
<1>1. IInv => TypeOK
  BY DEF IInv
<1> QED
  BY <1>1, Invariance, PTL

\* Each time the flag is set the consumer reads once (producerConsumer l. 16-25,
\* 41-48 and the same lines of the other programs).
THEOREM EachFlagReadOnce == Spec => []OneForOne
<1>1. IInv => OneForOne
  BY DEF IInv
<1> QED
  BY <1>1, Invariance, PTL

\* The consumer of producerConsumerExtended misses no two letters in a row and
\* never goes back, however the threads run.
THEOREM NoTwoMissed == Spec => []AtMostOneMissed
<1>1. IInv => AtMostOneMissed
  BY DEF IInv
<1> QED
  BY <1>1, Invariance, PTL

\* The threads can only wait for each other before the first read, and never
\* in producerConsumer.
THEOREM StuckOnlyBeforeFirstRead == Spec => []StuckOnlyAtStart
<1>1. IInv => StuckOnlyAtStart
  BY DEF IInv, FlagMeaning, StuckOnlyAtStart, Stuck
<1> QED
  BY <1>1, Invariance, PTL

-----------------------------------------------------------------------------
(* cpPriority's ring, for fewer letters than two turns of it.              *)

\* The slot after a slot, in either turn of the ring.
LEMMA SlotAfter ==
  ASSUME LettersFit, NEW n \in Nat, NEW k \in {1, 2}, n + k <= Number_of_packets,
         k = 2 => n % 2 = 0
  PROVE  (SlotOf(n) + k) % Buffer_size = SlotOf(n + k)
<1>1. Buffer_size \in Nat \ {0} /\ Number_of_packets \in Nat
  BY SizeAssumption
<1>2. n + k < 2 * Buffer_size
  BY <1>1 DEF LettersFit
<1>3. PICK h \in Nat : Buffer_size = 2 * h
  BY <1>1, SizeAssumption
<1>4. k = 2 => \E m \in Nat : n = 2 * m
  OBVIOUS
<1>5. SlotOf(n) \in Nat /\ SlotOf(n) + k <= Buffer_size
  BY <1>1, <1>2, <1>3, <1>4 DEF SlotOf
<1>6. (SlotOf(n) + k) % Buffer_size =
        IF SlotOf(n) + k = Buffer_size THEN 0 ELSE SlotOf(n) + k
  BY <1>1, <1>5
<1> QED
  BY <1>1, <1>2, <1>6 DEF SlotOf

\* Before anything is written, every slot is empty.
LEMMA RingInit == LettersFit /\ Init => RingInv
<1> SUFFICES ASSUME LettersFit, Init, Ring PROVE RingInv
  BY DEF RingInv
<1>1. Buffer_size \in Nat \ {0} /\ Number_of_packets \in Nat /\ Number_of_packets >= 2
  BY SizeAssumption DEF LettersFit
<1>2. Rounds = 0 /\ Written = 0
  BY <1>1 DEF Init, Rounds, Written
<1>3. ProducerInv
  BY <1>1, <1>2 DEF Init, ProducerInv, SlotOf, Threads
<1>4. SlotsInv
  BY <1>1, <1>2 DEF Init, SlotsInv, Slots
<1>5. ConsumerInv /\ LettersInOrder
  BY <1>1 DEF Init, ConsumerInv, SlotOf, Threads, LettersInOrder
<1> QED
  BY <1>3, <1>4, <1>5 DEF RingInv

\* Steps that neither write nor read: the producer's rounds stay the same.
LEMMA RingStays ==
  ASSUME IInv, IInv', RingInv, Ring, LettersFit,
         UNCHANGED <<program, data, readfinnished, consumed>>,
         Rounds' = Rounds,
         readfinnished = 1 => pc'["C"] \in {"taken", "test", "done"}
  PROVE  RingInv'
<1>1. Written' = Written
  BY DEF Written
<1>2. ProducerInv'
  BY DEF RingInv, ProducerInv, data
<1>3. SlotsInv'
  BY <1>1 DEF RingInv, SlotsInv, data
<1>4. ConsumerInv' /\ LettersInOrder'
  BY DEF RingInv, ConsumerInv, LettersInOrder, data, Ring
<1> QED
  BY <1>2, <1>3, <1>4 DEF RingInv

\* The loop tests, the waits and the wake-ups; after the last letter the
\* consumer does not get past its loop test.
LEMMA RingControl ==
  ASSUME IInv, IInv', RingInv, Ring, LettersFit,
         \/ \E t \in Threads : Test(t) \/ Wake(t) \/ SpuriousWake(t)
         \/ ProducerWait \/ ConsumerWait \/ ConsumerLock
  PROVE  RingInv'
<1>1. UNCHANGED <<program, data, readfinnished, consumed, readies>>
  BY DEF Test, Wake, SpuriousWake, ProducerWait, ConsumerWait, ConsumerLock, Wait
<1>2. Rounds' = Rounds
  BY <1>1 DEF IInv, TypeOK, Rounds, Threads, Test, Wake, SpuriousWake, ProducerWait,
     ConsumerWait, ConsumerLock, Wait, Goto
<1>3. readfinnished = 1 => pc'["C"] \in {"taken", "test", "done"}
  BY DEF IInv, TypeOK, RingInv, ConsumerInv, Threads, Test, Wake, SpuriousWake,
     ProducerWait, ConsumerWait, ConsumerLock, Wait, Goto
<1> QED
  BY <1>1, <1>2, <1>3, RingStays

\* The flag's first setting, the producer's others, and the consumer's unlock.
LEMMA RingSignal ==
  ASSUME IInv, IInv', RingInv, Ring, LettersFit,
         ProducerStart \/ ProducerReady \/ ConsumerRelease
  PROVE  RingInv'
<1>1. UNCHANGED <<program, data, readfinnished, consumed>>
  BY DEF ProducerStart, ProducerReady, ConsumerRelease
<1>2. CASE ProducerStart
  <2>1. pc' = [pc EXCEPT !["P"] = "test"] /\ readies' = 1
    BY <1>2 DEF ProducerStart, Goto, Ring
  <2>2. Rounds' = Rounds /\ pc'["C"] = pc["C"]
    BY <1>2, <2>1 DEF ProducerStart, IInv, TypeOK, Rounds, Threads
  <2> QED
    BY <1>1, <2>2, RingStays DEF RingInv, ConsumerInv
<1>3. CASE ProducerReady
  <2>1. /\ pc'["P"] = "test" /\ pc["P"] = "check" /\ readies' = readies + 1
        /\ pc'["C"] = IF pc["C"] = "wait" THEN "wake" ELSE pc["C"]
    BY <1>3, SignalStep DEF ProducerReady, IInv, TypeOK, Threads
  <2>2. Rounds' = Rounds
    BY <2>1 DEF IInv, TypeOK, Rounds
  <2> QED
    BY <1>1, <2>1, <2>2, RingStays DEF RingInv, ConsumerInv
<1>4. CASE ConsumerRelease
  <2>1. /\ pc'["C"] = "test" /\ readies' = readies
        /\ pc'["P"] = IF pc["P"] = "wait" THEN "wake" ELSE pc["P"]
    BY <1>4, SignalStep DEF ConsumerRelease, IInv, TypeOK, Threads
  <2>2. Rounds' = Rounds
    BY <2>1 DEF IInv, TypeOK, Rounds
  <2> QED
    BY <1>1, <2>1, <2>2, RingStays
<1> QED
  BY <1>2, <1>3, <1>4

\* The producer writes into slots whose letters have been read, and changes no
\* other slot.
LEMMA RingPut ==
  ASSUME IInv, IInv', RingInv, Ring, LettersFit, ProducerPut
  PROVE  RingInv'
<1> DEFINE N == Number_of_packets
           i == index["P"]
<1>1. Buffer_size \in Nat \ {0} /\ N \in 2..(2 * Buffer_size - 1)
  BY SizeAssumption DEF LettersFit
<1>2. /\ pc["P"] = "lock" /\ pc' = [pc EXCEPT !["P"] = "check"] /\ PutTwo
      /\ UNCHANGED <<program, readfinnished, consumed, readies>>
  BY DEF ProducerPut, Goto, Ring
<1>3. pc'["P"] = "check" /\ pc'["C"] = pc["C"]
  BY <1>2 DEF IInv, TypeOK, Threads
<1>4. Rounds \in Nat /\ Rounds' = Rounds + 1 /\ dataValue \in Nat
  BY <1>2, <1>3 DEF RingInv, ProducerInv, IInv, TypeOK, Rounds
<1>5. index'["C"] = index["C"]
  BY <1>2 DEF PutTwo, IInv, TypeOK, Threads
<1>6. ConsumerInv' /\ LettersInOrder'
  BY <1>2, <1>3, <1>5 DEF RingInv, ConsumerInv, LettersInOrder, Ring, SlotOf
<1>7. CASE dataValue > N
  <2>1. N <= 2 * Rounds /\ Written = N /\ Written' = N
    BY <1>1, <1>4, <1>7 DEF RingInv, ProducerInv, Written
  <2>2. dataValue' = dataValue + 1 /\ buffer' = buffer
    BY <1>2, <1>7 DEF PutTwo
  <2>3. ProducerInv'
    BY <1>1, <1>4, <1>7, <2>1, <2>2 DEF ProducerInv
  <2>4. SlotsInv'
    BY <2>1, <2>2 DEF RingInv, SlotsInv
  <2> QED
    BY <1>6, <2>3, <2>4 DEF RingInv
<1>8. CASE dataValue <= N
  <2> DEFINE r == 2 * Rounds
  <2>1. /\ dataValue = r + 1 /\ i = SlotOf(r) /\ r \in 0..(N - 1) /\ r % 2 = 0
        /\ Written = r /\ Written' = IF r + 2 < N THEN r + 2 ELSE N
    BY <1>1, <1>4, <1>8 DEF RingInv, ProducerInv, Written
  <2>2. /\ dataValue' = r + 3
        /\ index' = [index EXCEPT !["P"] = (i + 2) % Buffer_size]
        /\ buffer' = IF r + 1 = N THEN [buffer EXCEPT ![i] = r + 1]
                     ELSE [buffer EXCEPT ![i] = r + 1, ![i + 1] = r + 2]
    <3>1. ~(dataValue > N) /\ dataValue = r + 1 /\ r \in Nat /\ N \in Nat
      BY <1>1, <1>4, <1>8, <2>1
    <3>2. /\ dataValue' = dataValue + 2
          /\ index' = [index EXCEPT !["P"] = (i + 2) % Buffer_size]
          /\ buffer' = IF dataValue = N THEN [buffer EXCEPT ![i] = dataValue]
                       ELSE [buffer EXCEPT ![i] = dataValue, ![i + 1] = dataValue + 1]
      BY <1>2, <3>1 DEF PutTwo
    <3>3. dataValue + 1 = r + 2 /\ dataValue + 2 = r + 3
      BY <3>1
    <3> QED
      BY <3>1, <3>2, <3>3
  <2>3. index'["P"] = (i + 2) % Buffer_size
    BY <2>2 DEF IInv, TypeOK, Threads
  <2>4. ProducerInv'
    <3>1. r + 3 <= N => index'["P"] = SlotOf(r + 2)
      BY <1>1, <2>1, <2>3, SlotAfter
    <3>2. 2 * Rounds' = r + 2
      BY <1>4
    <3> QED
      BY <1>1, <1>4, <2>1, <2>2, <3>1, <3>2 DEF ProducerInv
  <2>5. SlotsInv'
    <3>1. PICK h \in Nat : Buffer_size = 2 * h
      BY <1>1, SizeAssumption
    <3>2. i \in Slots /\ i + 1 \in Slots /\ (i = r \/ i = r - Buffer_size)
      BY <1>1, <1>4, <2>1, <3>1 DEF SlotOf, Slots
    <3> SUFFICES ASSUME NEW s \in Slots
                 PROVE  buffer'[s] = IF s + 1 + Buffer_size <= Written'
                                     THEN s + 1 + Buffer_size
                                     ELSE IF s + 1 <= Written' THEN s + 1 ELSE 0
      BY DEF SlotsInv
    <3>3. buffer[s] = IF s + 1 + Buffer_size <= r THEN s + 1 + Buffer_size
                      ELSE IF s + 1 <= r THEN s + 1 ELSE 0
      BY <2>1 DEF RingInv, SlotsInv
    <3>4. buffer'[s] = IF s = i THEN r + 1
                       ELSE IF s = i + 1 /\ r + 1 # N THEN r + 2 ELSE buffer[s]
      <4>1. i # i + 1
        BY <1>1, <3>2 DEF Slots
      <4>2. buffer \in [Slots -> Nat]
        BY DEF IInv, TypeOK
      <4>3. CASE r + 1 = N
        BY <2>2, <3>2, <4>2, <4>3
      <4>4. CASE r + 1 # N
        <5> HIDE DEF r, i
        <5>1. buffer' = [buffer EXCEPT ![i] = r + 1, ![i + 1] = r + 2]
          BY <2>2, <4>4
        <5> QED
          BY <3>2, <4>1, <4>2, <4>4, <5>1
      <4> QED
        BY <4>3, <4>4
    <3>5. s \in 0..(Buffer_size - 1) /\ i \in Nat /\ i + 1 < Buffer_size
      BY <1>1, <3>2 DEF Slots
    <3>6. CASE s = i
      BY <1>1, <2>1, <3>2, <3>4, <3>5, <3>6
    <3>7. CASE s = i + 1
      BY <1>1, <2>1, <3>2, <3>3, <3>4, <3>5, <3>7
    <3>8. CASE s # i /\ s # i + 1
      BY <1>1, <2>1, <3>2, <3>3, <3>4, <3>5, <3>8
    <3> QED
      BY <3>6, <3>7, <3>8
  <2> QED
    BY <1>6, <2>4, <2>5 DEF RingInv
<1> QED
  BY <1>1, <1>4, <1>7, <1>8

\* The consumer's slot holds the letter that is due: the producer is ahead of
\* it, but not by a turn of the ring.
LEMMA RingTake ==
  ASSUME IInv, IInv', RingInv, Ring, LettersFit, ConsumerTake
  PROVE  RingInv'
<1> DEFINE N == Number_of_packets
           r == Len(consumed) + 1
           item == buffer[index["C"]]
<1>1. Buffer_size \in Nat \ {0} /\ N \in 2..(2 * Buffer_size - 1)
  BY SizeAssumption DEF LettersFit
<1>2. /\ pc["C"] = "check" /\ dataIsReady = 1 /\ pc' = [pc EXCEPT !["C"] = "taken"]
      /\ consumed' = Append(consumed, item)
      /\ readfinnished' = IF item + 1 > N THEN 1 ELSE readfinnished
      /\ index' = [index EXCEPT !["C"] = (index["C"] + 1) % Buffer_size]
      /\ UNCHANGED <<program, buffer, dataValue, readies>>
  BY DEF ConsumerTake, Goto, Ring
<1>3. readfinnished = 0 /\ Len(consumed) \in 0..(N - 1) /\ r \in 1..N
  BY <1>1, <1>2 DEF IInv, TypeOK, RingInv, ConsumerInv
<1>4. readies = r
  BY <1>2, <1>3 DEF IInv, TypeOK, OneForOne
<1>5. pc["P"] # "start"
  BY <1>3, <1>4 DEF IInv, Ownership, Ring
<1>6. Rounds \in {r - 1, r}
  BY <1>3, <1>4, <1>5 DEF Rounds
<1>7. Written <= 2 * r /\ Written <= N /\ Written \in Nat /\ (r >= 2 => Written >= r)
  BY <1>1, <1>3, <1>6 DEF Written
<1>8. item = r \/ (r = 1 /\ item = 0)
  <2>1. index["C"] = SlotOf(r - 1) /\ SlotOf(r - 1) \in Slots
    BY <1>1, <1>3 DEF RingInv, ConsumerInv, SlotOf, Slots
  <2>2. item = IF SlotOf(r - 1) + 1 + Buffer_size <= Written
               THEN SlotOf(r - 1) + 1 + Buffer_size
               ELSE IF SlotOf(r - 1) + 1 <= Written THEN SlotOf(r - 1) + 1 ELSE 0
    BY <2>1 DEF RingInv, SlotsInv
  <2>3. CASE r - 1 < Buffer_size
    BY <1>1, <1>3, <1>7, <2>2, <2>3 DEF SlotOf
  <2>4. CASE r - 1 >= Buffer_size
    BY <1>1, <1>3, <1>7, <2>2, <2>4 DEF SlotOf
  <2> QED
    BY <1>1, <1>3, <2>3, <2>4
<1>9. /\ Len(consumed') = r /\ consumed'[r] = item
      /\ \A j \in 1..(r - 1) : consumed'[j] = consumed[j]
  BY <1>2 DEF IInv, TypeOK, Threads
<1>10. ProducerInv' /\ SlotsInv'
  <2>1. Rounds' = Rounds /\ index'["P"] = index["P"]
    BY <1>2 DEF IInv, TypeOK, Rounds, Threads
  <2>2. Written' = Written
    BY <2>1 DEF Written
  <2> QED
    BY <1>2, <2>1, <2>2 DEF RingInv, ProducerInv, SlotsInv
<1>11. ConsumerInv'
  <2>1. index'["C"] = SlotOf(r)
    <3>1. index'["C"] = (SlotOf(r - 1) + 1) % Buffer_size
      BY <1>2 DEF IInv, TypeOK, RingInv, ConsumerInv, Threads
    <3> QED
      BY <1>1, <1>3, <3>1, SlotAfter
  <2>2. readfinnished' = IF r = N THEN 1 ELSE 0
    BY <1>1, <1>2, <1>3, <1>8
  <2>3. pc'["C"] = "taken"
    BY <1>2 DEF IInv, TypeOK, Threads
  <2> QED
    BY <1>1, <1>3, <1>9, <2>1, <2>2, <2>3 DEF ConsumerInv
<1>12. LettersInOrder'
  <2> SUFFICES ASSUME NEW j \in 1..r
               PROVE  consumed'[j] = j \/ (j = 1 /\ consumed'[1] = 0)
    BY <1>9 DEF LettersInOrder
  <2>1. CASE j = r
    BY <1>8, <1>9, <2>1
  <2>2. CASE j \in 1..(r - 1)
    BY <1>3, <1>9, <2>2 DEF RingInv, LettersInOrder
  <2> QED
    BY <1>3, <2>1, <2>2
<1> QED
  BY <1>10, <1>11, <1>12 DEF RingInv

\* cpPriority's letters are read in their order and none is overwritten unread,
\* as long as there are fewer letters than two turns of the ring: two are
\* written a round and one is read (cpPriority.c:22-43, 54-83).
THEOREM LettersArriveInOrder ==
  ASSUME LettersFit
  PROVE  Spec => []LettersInOrder
<1>1. Init => RingInv
  BY LettersFit, RingInit
<1>2. IInv /\ IInv' /\ RingInv /\ [Next]_vars => RingInv'
  <2> SUFFICES ASSUME IInv, IInv', RingInv, [Next]_vars PROVE RingInv'
    OBVIOUS
  <2>1. CASE UNCHANGED vars
    BY <2>1 DEF vars, data, RingInv, ProducerInv, SlotsInv, ConsumerInv,
       LettersInOrder, Rounds, Written, SlotOf, Ring
  <2>2. CASE Next /\ Ring
    BY <2>2, LettersFit, RingControl, RingSignal, RingPut, RingTake DEF Next
  <2>3. CASE Next /\ ~Ring
    <3>1. program' = program
      BY <2>3 DEF Next, ProducerStart, ProducerPut, ProducerWait, ProducerReady,
         ConsumerLock, ConsumerWait, ConsumerTake, ConsumerRelease, Test, Wake,
         SpuriousWake, Wait
    <3> QED
      BY <2>3, <3>1 DEF RingInv, Ring
  <2> QED
    BY <2>1, <2>2, <2>3
<1>3. RingInv => LettersInOrder
  BY DEF RingInv, LettersInOrder
<1> QED
  BY <1>1, <1>2, <1>3, Invariance, PTL DEF Spec
=============================================================================
