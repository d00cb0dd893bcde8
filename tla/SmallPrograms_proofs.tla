------------------------ MODULE SmallPrograms_proofs ------------------------
(***************************************************************************)
(* Safety of the small programs, for all sizes.  Each has its own inductive*)
(* invariant, in its own module; a step of SmallPrograms is a step of one  *)
(* of them and leaves the variables of the others alone.                   *)
(***************************************************************************)
EXTENDS SmallPrograms, FiniteSetTheorems, SequenceTheorems, TLAPS

-----------------------------------------------------------------------------
(* One program runs.                                                       *)

\* No step changes which program runs.
LEMMA ProgramStays == Next => UNCHANGED program
<1>1. U!Next => UNCHANGED program
  BY DEF U!Next, U!UserEnter, U!UserTest, U!UserAdd, U!UserLeave, U!UserEnd,
     U!ChangerTest, U!ChangerEnter, U!ChangeA, U!ChangeB, U!ChangerLeave
<1>2. R!Next => UNCHANGED program
  BY DEF R!Next, R!User, R!Enter, R!TimeOut, R!Test, R!Wait, R!Leave,
     R!SpuriousWake, R!GetKey, R!Signal
<1>3. K!Next => UNCHANGED program
  BY DEF K!Next, K!Type, K!Pass, K!Reader, K!ReadByte, K!TakeReady,
     K!SleeponWait, K!FindLetter, K!SpuriousWake
<1>4. T!Next => UNCHANGED program
  BY DEF T!Next, T!Receive, T!Tick
<1>5. P!Next => UNCHANGED program
  <2>1. P!Server => UNCHANGED program
    BY DEF P!Server, P!ServerWrite, P!ServerReceivePacket, P!ServerReply,
       P!ServerReceiveConnect, P!ServerReceivePulse, P!Leave
  <2>2. ASSUME NEW c \in Clients, P!ClientStart(c) \/ P!Client(c)
        PROVE  UNCHANGED program
    BY <2>2 DEF P!Client, P!ClientStart, P!ClientAttach, P!ClientConnectFail,
       P!ClientSend, P!ClientSendFail, P!ClientDone, P!Detach
  <2> QED
    BY <2>1, <2>2 DEF P!Next, P!ServerOpen, P!ServerReceiveFail, P!Leave
<1> QED
  BY <1>1, <1>2, <1>3, <1>4, <1>5 DEF Next

\* A step is one of the program that runs; the others stand still.
LEMMA OneRuns ==
  ASSUME [Next]_vars
  PROVE  /\ [U!Next]_(U!vars) /\ [M!Next]_(M!vars)
         /\ [B!Next]_(B!vars) /\ [T!Next]_(T!vars)
         /\ [R!Next]_(R!vars) /\ [K!Next]_(K!vars)
         /\ [Q!Next]_(Q!vars) /\ [P!Next]_(P!vars)
<1> USE DEF uVars, mVars, bVars, rVars, kVars, tVars, qVars, pVars, U!vars,
        M!vars, B!vars, R!vars, K!vars, T!vars, Q!vars, P!vars, P!server, P!client
<1>1. CASE Next
  BY <1>1, ProgramStays DEF Next
<1>2. CASE UNCHANGED vars
  BY <1>2 DEF vars
<1> QED
  BY <1>1, <1>2

-----------------------------------------------------------------------------
(* The overlap programs: who has the lock where.                           *)

\* Every step of the overlap programs keeps the lock's invariant.
LEMMA UpdateInductive ==
  ASSUME U!IInv, [U!Next]_(U!vars)
  PROVE  U!IInv'
<1> USE SizesAssumption DEF U!IInv, U!TypeOK, U!LockInv, U!ResultIsRight, U!Protected
<1>1. CASE U!UserEnter
  BY <1>1 DEF U!UserEnter, U!Lock
<1>2. CASE U!UserTest
  BY <1>2 DEF U!UserTest
<1>3. CASE U!UserAdd
  BY <1>3 DEF U!UserAdd
<1>4. CASE U!UserLeave
  BY <1>4 DEF U!UserLeave, U!Unlock
<1>5. CASE U!UserEnd
  BY <1>5 DEF U!UserEnd
<1>6. CASE U!ChangerTest
  BY <1>6 DEF U!ChangerTest
<1>7. CASE U!ChangerEnter
  BY <1>7 DEF U!ChangerEnter, U!Lock
<1>8. CASE U!ChangeA
  BY <1>8 DEF U!ChangeA
<1>9. CASE U!ChangeB
  BY <1>9 DEF U!ChangeB
<1>10. CASE U!ChangerLeave
  BY <1>10 DEF U!ChangerLeave, U!Unlock
<1>11. CASE UNCHANGED U!vars
  BY <1>11 DEF U!vars
<1> QED
  BY <1>1, <1>2, <1>3, <1>4, <1>5, <1>6, <1>7, <1>8, <1>9, <1>10, <1>11
     DEF U!Next

\* A use is of a setting that the changer is not in the middle of.
LEMMA UseRefines ==
  ASSUME U!IInv, U!UserAdd
  PROVE  [U!Atomic!Next]_(U!Atomic!vars)
<1>1. CASE U!Protected
  <2>1. a = 5 /\ b = 5 /\ useCount < MaxUse
    BY <1>1 DEF U!UserAdd, U!IInv, U!LockInv
  <2>2. result' = result + (5 + 5)
    BY <2>1 DEF U!UserAdd, U!IInv, U!TypeOK
  <2>3. U!Atomic!Use
    BY <2>1, <2>2, <1>1 DEF U!UserAdd, U!Atomic!Use, U!Protected
  <2> QED
    BY <2>3 DEF U!Atomic!Next
<1>2. CASE ~U!Protected
  BY <1>2 DEF U!UserAdd, U!Protected, U!Atomic!vars
<1> QED
  BY <1>1, <1>2

\* The setting changes when b follows a.
LEMMA ChangeRefines ==
  ASSUME U!IInv, U!ChangeB
  PROVE  [U!Atomic!Next]_(U!Atomic!vars)
<1>1. CASE U!Protected /\ a # b
  <2>1. b' = IF b = 5 THEN 50 ELSE 5
    BY <1>1 DEF U!ChangeB, U!IInv, U!TypeOK
  <2>2. U!Atomic!Change
    BY <2>1, <1>1 DEF U!ChangeB, U!Atomic!Change, U!Protected
  <2> QED
    BY <2>2 DEF U!Atomic!Next
<1>2. CASE ~U!Protected \/ a = b
  BY <1>2 DEF U!ChangeB, U!Protected, U!Atomic!vars
<1> QED
  BY <1>1, <1>2

-----------------------------------------------------------------------------
(* TrafficLightSM: which thread owns which states, although only one of    *)
(* them takes the lock, and that no step is counted twice.                 *)

\* The loop's test.
LEMMA TestPreserves ==
  ASSUME M!IInv, NEW t \in M!Threads, M!Test(t)
  PROVE  M!IInv'
BY SizesAssumption
  DEF M!IInv, M!TypeOK, M!TurnInv, M!CountInv, M!NoEarlyEnd, M!Pending,
     M!Goto, M!Threads, M!Green, M!States, M!Test

\* A thread that looks at the state in the switch is still in its own state.
LEMMA SwitchPreserves ==
  ASSUME M!IInv, NEW t \in M!Threads, M!Switch(t)
  PROVE  M!IInv'
BY SizesAssumption
  DEF M!IInv, M!TypeOK, M!TurnInv, M!CountInv, M!NoEarlyEnd, M!Pending,
     M!Goto, M!Threads, M!Green, M!States, M!Switch

\* The state changes, and with it perhaps whose turn it is.
LEMMA AdvancePreserves ==
  ASSUME M!IInv, NEW t \in M!Threads, M!Advance(t)
  PROVE  M!IInv'
BY SizesAssumption
  DEF M!IInv, M!TypeOK, M!TurnInv, M!CountInv, M!NoEarlyEnd, M!Pending,
     M!Goto, M!Threads, M!Green, M!States, M!Advance, M!Following

\* The counter is read, and then written.
LEMMA ReadPreserves ==
  ASSUME M!IInv, NEW t \in M!Threads, M!CountRead(t)
  PROVE  M!IInv'
BY SizesAssumption
  DEF M!IInv, M!TypeOK, M!TurnInv, M!CountInv, M!NoEarlyEnd, M!Pending,
     M!Goto, M!Threads, M!Green, M!States, M!CountRead

\* The other thread may have written it since.
LEMMA WritePreserves ==
  ASSUME M!IInv, NEW t \in M!Threads, M!CountWrite(t)
  PROVE  M!IInv'
BY SizesAssumption
  DEF M!IInv, M!TypeOK, M!TurnInv, M!CountInv, M!NoEarlyEnd, M!Pending,
     M!Goto, M!Threads, M!Green, M!States, M!CountWrite

\* The threads' own steps.
LEMMA LookPreserves ==
  ASSUME M!IInv, M!ConsumerLook \/ M!ConsumerPoll \/ M!ProducerLook \/ M!ProducerLock
  PROVE  M!IInv'
BY SizesAssumption
  DEF M!IInv, M!TypeOK, M!TurnInv, M!CountInv, M!NoEarlyEnd, M!Pending,
     M!Goto, M!Threads, M!Green, M!States,
     M!ConsumerLook, M!ConsumerPoll, M!ProducerLook, M!ProducerLock

\* Every step of TrafficLightSM keeps who owns which states.
LEMMA MachineInductive ==
  ASSUME M!IInv, [M!Next]_(M!vars)
  PROVE  M!IInv'
<1>1. ASSUME NEW t \in M!Threads, M!Step(t) PROVE M!IInv'
  BY <1>1, TestPreserves, SwitchPreserves, AdvancePreserves, ReadPreserves,
     WritePreserves DEF M!Step
<1>2. CASE M!ConsumerLook \/ M!ConsumerPoll \/ M!ProducerLook \/ M!ProducerLock
  BY <1>2, LookPreserves
<1>3. CASE UNCHANGED M!vars
  BY <1>3 DEF M!vars, M!IInv, M!TypeOK, M!TurnInv, M!CountInv, M!NoEarlyEnd, M!Pending
<1> QED
  BY <1>1, <1>2, <1>3 DEF M!Next, M!Consumer, M!Producer, M!Threads

\* Only a thread that owns the state changes it.
LEMMA MachineStep ==
  ASSUME M!IInv, [M!Next]_(M!vars), currentState' # currentState
  PROVE  currentState' = M!Following(currentState)
<1>1. ASSUME NEW t \in M!Threads, M!Advance(t)
      PROVE  currentState' = M!Following(currentState)
  BY <1>1 DEF M!Advance, M!IInv, M!TurnInv
<1>2. \E t \in M!Threads : M!Advance(t)
  BY DEF M!Next, M!Consumer, M!Producer, M!Step, M!Test, M!Switch, M!CountRead,
     M!CountWrite, M!ConsumerLook, M!ConsumerPoll, M!ProducerLook, M!ProducerLock,
     M!Threads, M!vars
<1> QED
  BY <1>1, <1>2

-----------------------------------------------------------------------------
(* BounderBufferSemaphore: what each slot of the ring holds.               *)

\* The slot after a slot.
LEMMA RingNext ==
  ASSUME NEW n \in 0..(BUF_SIZE - 1)
  PROVE  (n + 1) % BUF_SIZE = IF n + 1 = BUF_SIZE THEN 0 ELSE n + 1
BY SizesAssumption

\* An item is put into a slot that is not the one to be read next, or is the
\* one if it makes the ring full.
LEMMA PutPreserves ==
  ASSUME B!IInv, B!ProducerPut
  PROVE  B!IInv'
<1> USE SizesAssumption
    DEF B!IInv, B!TypeOK, B!SlotsInv, B!ToPut, B!ToAnnounce, B!ToTake, B!ToFree
<1>1. bufferInPointer' = IF bufferInPointer + 1 = BUF_SIZE THEN 0 ELSE bufferInPointer + 1
  BY RingNext DEF B!ProducerPut
<1>2. B!TypeOK' /\ B!SlotsInv'
  BY <1>1 DEF B!ProducerPut
<1>3. ASSUME NEW s \in 0..(BUF_SIZE - 1)
      PROVE  B!Since(s)' = IF s = bufferInPointer THEN 0 ELSE B!Since(s) + 1
  BY <1>1 DEF B!Since
<1>4. ASSUME NEW s \in 0..(BUF_SIZE - 1)
      PROVE  buffer'[s] = IF B!Since(s)' <= produced' THEN produced' - B!Since(s)' ELSE 0
  <2>1. B!Since(s) \in 0..(BUF_SIZE - 1) /\ (s = bufferInPointer => B!Since(s) = BUF_SIZE - 1)
    BY DEF B!Since
  <2>2. buffer[s] = IF B!Since(s) <= produced THEN produced - B!Since(s) ELSE 0
    BY DEF B!RingInv
  <2>3. buffer'[s] = IF s = bufferInPointer THEN produced + 1 ELSE buffer[s]
    BY DEF B!ProducerPut
  <2>4. produced \in Nat /\ produced' = produced + 1
    BY DEF B!ProducerPut
  <2>5. CASE s = bufferInPointer
    BY <1>3, <2>3, <2>4, <2>5
  <2>6. CASE s # bufferInPointer
    <3> DEFINE d == B!Since(s)
    <3>1. d \in Nat /\ B!Since(s)' = d + 1
      BY <1>3, <2>1, <2>6
    <3>2. buffer'[s] = IF d <= produced THEN produced - d ELSE 0
      BY <2>2, <2>3, <2>6
    <3> HIDE DEF d
    <3> QED
      BY <3>1, <3>2, <2>4
  <2> QED
    BY <2>5, <2>6
<1>5. B!Since(bufferOutPointer)' =
        IF produced' - taken' = BUF_SIZE THEN 0 ELSE produced' - taken'
  <2> DEFINE d == B!Since(bufferOutPointer)
  <2>1. /\ d \in 0..(BUF_SIZE - 1)
        /\ bufferOutPointer = bufferInPointer <=> d = BUF_SIZE - 1
    BY DEF B!Since
  <2>2. produced - taken \in 0..(BUF_SIZE - 1)
    BY DEF B!ProducerPut
  <2>3. d = produced - taken
    BY <2>2 DEF B!RingInv
  <2>4. B!Since(bufferOutPointer)' =
          IF bufferOutPointer = bufferInPointer THEN 0 ELSE d + 1
    BY <1>3 DEF B!ProducerPut
  <2>5. produced' - taken' = (produced - taken) + 1
    BY DEF B!ProducerPut
  <2> HIDE DEF d
  <2> QED
    BY <2>1, <2>2, <2>3, <2>4, <2>5
<1>6. B!RingInv'
  BY <1>4, <1>5 DEF B!RingInv, B!Since
<1> QED
  BY <1>2, <1>6 DEF B!ReadsOneBehindOrOverrun, B!ProducerPut

\* The slot that is read holds the item before the one due, or one a ring later.
LEMMA TakePreserves ==
  ASSUME B!IInv, B!ConsumerTake
  PROVE  B!IInv'
<1> USE SizesAssumption
    DEF B!IInv, B!TypeOK, B!SlotsInv, B!ToPut, B!ToAnnounce, B!ToTake, B!ToFree
<1>1. bufferOutPointer' = IF bufferOutPointer + 1 = BUF_SIZE THEN 0 ELSE bufferOutPointer + 1
  BY RingNext DEF B!ConsumerTake
<1>2. B!TypeOK' /\ B!SlotsInv'
  BY <1>1 DEF B!ConsumerTake
<1>3. B!RingInv'
  <2> DEFINE d == B!Since(bufferOutPointer)
  <2>1. \A s \in 0..(BUF_SIZE - 1) : B!Since(s)' = B!Since(s)
    BY DEF B!ConsumerTake, B!Since
  <2>2. produced - taken \in 1..BUF_SIZE
    BY DEF B!ConsumerTake
  <2>3. d \in 0..(BUF_SIZE - 1)
        /\ B!Since(bufferOutPointer)' = IF d = 0 THEN BUF_SIZE - 1 ELSE d - 1
    <3>1. bufferInPointer' = bufferInPointer
      BY DEF B!ConsumerTake
    <3> QED
      BY <1>1, <3>1 DEF B!Since
  <2>4. d = IF produced - taken = BUF_SIZE THEN 0 ELSE produced - taken
    BY DEF B!RingInv
  <2>5. produced' - taken' = (produced - taken) - 1
    BY DEF B!ConsumerTake
  <2>6. B!Since(bufferOutPointer)' =
          IF produced' - taken' = BUF_SIZE THEN 0 ELSE produced' - taken'
    <3> HIDE DEF d
    <3> QED
      BY <2>2, <2>3, <2>4, <2>5
  <2> QED
    BY <2>1, <2>6 DEF B!RingInv, B!ConsumerTake
<1>4. tmp' \in {taken' - 1, taken' - 1 + BUF_SIZE}
  <2>1. buffer[bufferOutPointer] =
          IF B!Since(bufferOutPointer) <= produced
          THEN produced - B!Since(bufferOutPointer) ELSE 0
    BY DEF B!RingInv
  <2> QED
    BY <2>1 DEF B!ConsumerTake, B!RingInv
<1> QED
  BY <1>2, <1>3, <1>4 DEF B!ReadsOneBehindOrOverrun

\* Every step of the bounded buffer keeps what its slots hold.
LEMMA BufferInductive ==
  ASSUME B!IInv, [B!Next]_(B!vars)
  PROVE  B!IInv'
<1> USE SizesAssumption
    DEF B!IInv, B!TypeOK, B!SlotsInv, B!ToPut, B!ToAnnounce, B!ToTake, B!ToFree,
        B!RingInv, B!Since, B!ReadsOneBehindOrOverrun
<1>1. CASE B!ProducerPut
  BY <1>1, PutPreserves
<1>2. CASE B!ConsumerTake
  BY <1>2, TakePreserves
<1>3. CASE B!ProducerWait
  BY <1>3 DEF B!ProducerWait
<1>4. CASE B!ProducerPost
  BY <1>4 DEF B!ProducerPost
<1>5. CASE B!ConsumerWait
  BY <1>5 DEF B!ConsumerWait
<1>6. CASE B!ConsumerPost
  BY <1>6 DEF B!ConsumerPost
<1>7. CASE UNCHANGED B!vars
  BY <1>7 DEF B!vars
<1> QED
  BY <1>1, <1>2, <1>3, <1>4, <1>5, <1>6, <1>7 DEF B!Next

-----------------------------------------------------------------------------
(* TrafficLightTimer and timer: what the time says of the pulses.          *)

\* A pulse that sets the timer begins a new count.
LEMMA PulsePreserves ==
  ASSUME T!IInv, T!Receive
  PROVE  T!IInv'
<1> USE SizesAssumption
    DEF T!IInv, T!TypeOK, T!runTimes, T!RY, T!G, T!A, T!B, T!Lights
<1>1. queued - 1 \in Nat /\ queued' = queued - 1 /\ phase' = tState
      /\ tState' = T!Following /\ tCounter' = tCounter + 1 /\ UNCHANGED program
  BY DEF T!Receive
<1>2. T!IntervalInv'
  BY DEF T!Receive, T!IntervalInv, T!DelayOf, T!Setting, T!Following
<1>3. T!TypeOK' /\ T!AgeInv'
  <2>1. CASE T!Setting = 0
    <3>1. UNCHANGED <<interval, left, age, stale>> /\ got' = got + 1
      BY <2>1 DEF T!Receive
    <3>2. T!Expired' = T!Expired
      BY <1>1, <3>1 DEF T!Expired, T!AgeInv
    <3>3. tState \in {0, 1, 4} /\ (~T!Lights => tState = 1)
      BY <2>1 DEF T!Setting, T!IntervalInv
    <3>4. /\ got' \in Nat
          /\ got' <= (CASE tState' = 2 -> 2 [] tState' \in {1, 5} -> 1 [] OTHER -> 0)
      BY <1>1, <3>1, <3>3 DEF T!AgeInv, T!Following
    <3>5. T!TypeOK'
      BY <1>1, <3>1, <3>3, <3>4 DEF T!Following, T!Receive
    <3> QED
      BY <3>1, <3>2, <3>4, <3>5 DEF T!AgeInv
  <2>2. CASE T!Setting # 0
    <3>1. interval' = T!Setting /\ left' = T!Setting /\ age' = 0 /\ got' = 0
          /\ stale' = queued - 1
      BY <2>2 DEF T!Receive
    <3>2. T!Expired' = 0
      BY <1>1, <3>1 DEF T!Expired
    <3>3. T!Setting \in {T!RY, T!G, T!A, T!B}
      BY <2>2 DEF T!Setting
    <3>4. T!TypeOK'
      BY <1>1, <3>1, <3>3 DEF T!Following, T!Receive
    <3> QED
      BY <3>1, <3>2, <3>3, <3>4 DEF T!AgeInv
  <2> QED
    BY <2>1, <2>2
<1> QED
  BY <1>2, <1>3

\* Time passes, and with it perhaps an interval.
LEMMA TickPreserves ==
  ASSUME T!IInv, T!Tick
  PROVE  T!IInv'
<1> USE SizesAssumption
    DEF T!IInv, T!TypeOK, T!runTimes, T!RY, T!G, T!A, T!B, T!Lights, T!AgeInv
<1>1. T!IntervalInv'
  BY DEF T!Tick, T!IntervalInv, T!DelayOf
<1>2. T!TypeOK'
  BY DEF T!Tick
<1>3. CASE left > 1
  <2>1. T!Expired' = T!Expired
    BY <1>3 DEF T!Tick, T!Expired
  <2> QED
    BY <1>1, <1>2, <1>3, <2>1 DEF T!Tick
<1>4. CASE left = 1
  <2>1. T!Expired' = T!Expired + 1
    BY <1>4 DEF T!Tick, T!Expired
  <2>2. \A e \in Nat : (e + 1) * interval = e * interval + interval
    OBVIOUS
  <2> QED
    BY <1>1, <1>2, <1>4, <2>1, <2>2 DEF T!Tick
<1> QED
  BY <1>3, <1>4 DEF T!Tick

\* Every step of the timer programs keeps intervals and ages.
LEMMA TimerInductive ==
  ASSUME T!IInv, [T!Next]_(T!vars)
  PROVE  T!IInv'
<1>1. CASE UNCHANGED T!vars
  BY <1>1 DEF T!vars, T!IInv, T!TypeOK, T!IntervalInv, T!AgeInv, T!Expired,
     T!DelayOf, T!Lights, T!runTimes
<1> QED
  BY <1>1, PulsePreserves, TickPreserves DEF T!Next

LEMMA TimerHolds ==
  ASSUME T!IInv
  PROVE  T!HeldForItsTime
<1>1. interval \in {2, 3, 4, 10} /\ left \in 1..interval
  BY DEF T!IInv, T!TypeOK, T!RY, T!G, T!A, T!B
<1>2. T!Expired \in Nat /\ age = T!Expired * interval + (interval - left)
  BY DEF T!IInv, T!AgeInv
<1>3. age >= T!Expired * interval
  BY <1>1, <1>2
<1> QED
  BY <1>3 DEF T!IInv, T!IntervalInv, T!Expired, T!HeldForItsTime

-----------------------------------------------------------------------------
(* The bathroom programs: every place in the showers is free or held.      *)

\* The numbers of Bathroom are those of the library.
LEMMA SameCardinality ==
  ASSUME NEW S
  PROVE  R!Cardinality(S) = Cardinality(S)
BY DEF R!Cardinality, Cardinality

\* Who holds a place can be counted.
LEMMA HoldersFinite ==
  IsFiniteSet(R!Holders) /\ Cardinality(R!Holders) \in Nat
<1>1. R!Holders \in SUBSET Users
  BY DEF R!Holders
<1>2. IsFiniteSet(R!Holders)
  BY <1>1, ProcessesAssumption, FS_Subset
<1> QED
  BY <1>2, FS_CardinalityType

\* Taking a place that is free.
LEMMA EnterPreserves ==
  ASSUME R!IInv, NEW u \in Users, R!Enter(u)
  PROVE  R!IInv'
<1> USE DEF R!IInv, R!TypeOK, R!Enter, R!Goto
<1>1. bathPc' \in [Users -> {"start", "test", "shut", "wait", "woken", "inside", "done"}]
  OBVIOUS
<1>2. R!Holders' = R!Holders \cup {u} /\ u \notin R!Holders
  BY DEF R!Holders
<1>3. Cardinality(R!Holders') = Cardinality(R!Holders) + 1
  BY <1>2, HoldersFinite, FS_AddElement
<1>4. R!Capacity' = R!Capacity /\ R!Capacity \in Nat
  BY LimitsAssumption DEF R!Capacity
<1>5. R!TypeOK' /\ R!PlacesInv'
  BY <1>1, <1>3, <1>4, HoldersFinite, SameCardinality DEF R!PlacesInv
<1>6. R!WakeupPassedOn'
  BY DEF R!WakeupPassedOn, R!Waiting
<1> QED
  BY <1>5, <1>6

\* Giving it back: whoever stays a holder, u is one no longer.
LEMMA PlaceGivenBack ==
  ASSUME R!TypeOK, R!PlacesInv, NEW u \in Users, u \in R!Holders,
         R!Holders' = R!Holders \ {u}, places' = places + 1, program' = program
  PROVE  places' \in 0..R!Capacity' /\ R!PlacesInv'
<1>1. Cardinality(R!Holders') = Cardinality(R!Holders) - 1
  BY HoldersFinite, FS_RemoveElement
<1>2. Cardinality(R!Holders) > 0
  <2>1. R!Holders # {}
    OBVIOUS
  <2> QED
    BY <2>1, HoldersFinite, FS_EmptySet
<1>3. R!Capacity' = R!Capacity /\ R!Capacity \in Nat
  BY LimitsAssumption DEF R!Capacity
<1>4. places \in Nat /\ Cardinality(R!Holders) + places = R!Capacity
  BY <1>3, SameCardinality DEF R!PlacesInv, R!TypeOK
<1>5. places + 1 <= R!Capacity
  BY <1>2, <1>3, <1>4, HoldersFinite
<1>6. (Cardinality(R!Holders) - 1) + (places + 1) = R!Capacity
  BY <1>3, <1>4, HoldersFinite
<1> QED
  BY <1>1, <1>3, <1>4, <1>5, <1>6, SameCardinality DEF R!PlacesInv

\* Waiting gives the place back; the others' wake-up does not depend on u.
LEMMA WaitPreserves ==
  ASSUME R!IInv, NEW u \in Users, R!Wait(u)
  PROVE  R!IInv'
<1> USE DEF R!IInv, R!TypeOK, R!Wait, R!Goto
<1>1. bathPc' \in [Users -> {"start", "test", "shut", "wait", "woken", "inside", "done"}]
  OBVIOUS
<1>2. u \in R!Holders /\ R!Holders' = R!Holders \ {u}
  BY DEF R!Holders
<1>3. places' \in 0..R!Capacity' /\ R!PlacesInv'
  BY <1>2, PlaceGivenBack
<1>4. R!WakeupPassedOn'
  BY DEF R!WakeupPassedOn, R!Waiting
<1> QED
  BY <1>1, <1>3, <1>4

\* Leaving gives the place back, and the wake-up on.
LEMMA LeavePreserves ==
  ASSUME R!IInv, NEW u \in Users, R!Leave(u)
  PROVE  R!IInv'
<1> USE DEF R!IInv, R!TypeOK, R!Leave, R!Goto, R!Waiting
<1>1. /\ bathPc' \in [Users -> {"start", "test", "shut", "wait", "woken", "inside", "done"}]
      /\ bathPc[u] = "inside" /\ bathPc'[u] = "done"
      /\ \A v \in Users \ {u} :
           bathPc'[v] = bathPc[v] \/ (bathPc[v] = "wait" /\ bathPc'[v] = "woken")
  <2>1. CASE bathPc' = [bathPc EXCEPT ![u] = "done"]
    BY <2>1
  <2>2. ASSUME NEW w \in R!Waiting, bathPc' = [bathPc EXCEPT ![u] = "done", ![w] = "woken"]
        PROVE  <1>1
    BY <2>2
  <2> QED
    BY <2>1, <2>2
<1>2. u \in R!Holders /\ R!Holders' = R!Holders \ {u}
  BY <1>1 DEF R!Holders
<1>3. places' \in 0..R!Capacity' /\ R!PlacesInv'
  BY <1>2, PlaceGivenBack
<1>4. R!WakeupPassedOn'
  <2>1. CASE R!Waiting = {}
    BY <1>1, <2>1 DEF R!WakeupPassedOn
  <2>2. CASE \E w \in R!Waiting : bathPc' = [bathPc EXCEPT ![u] = "done", ![w] = "woken"]
    <3> PICK w \in R!Waiting : bathPc' = [bathPc EXCEPT ![u] = "done", ![w] = "woken"]
      BY <2>2
    <3>1. bathPc'[w] = "woken" /\ w \in Users
      OBVIOUS
    <3> QED
      BY <3>1 DEF R!WakeupPassedOn
  <2> QED
    BY <2>1, <2>2
<1> QED
  BY <1>1, <1>3, <1>4

\* The steps that neither take a place nor give one back.
LEMMA BathPreserves ==
  ASSUME R!IInv, \/ \E u \in Users : R!TimeOut(u) \/ R!Test(u) \/ R!SpuriousWake(u)
                 \/ \E open \in BOOLEAN : R!GetKey(open)
                 \/ R!Signal
  PROVE  R!IInv'
<1> USE DEF R!IInv, R!TypeOK, R!TimeOut, R!Test, R!SpuriousWake, R!GetKey,
        R!Signal, R!Goto, R!Waiting
<1>1. bathPc' \in [Users -> {"start", "test", "shut", "wait", "woken", "inside", "done"}]
  OBVIOUS
<1>2. R!Holders' = R!Holders
  BY DEF R!Holders
<1>3. R!Capacity' = R!Capacity
  BY DEF R!Capacity
<1>4. R!TypeOK' /\ R!PlacesInv'
  BY <1>1, <1>2, <1>3 DEF R!PlacesInv
<1>5. R!WakeupPassedOn'
  BY DEF R!WakeupPassedOn
<1> QED
  BY <1>4, <1>5

\* Every step of the bathroom programs keeps places and wake-ups.
LEMMA BathInductive ==
  ASSUME R!IInv, [R!Next]_(R!vars)
  PROVE  R!IInv'
<1>1. CASE UNCHANGED R!vars
  BY <1>1 DEF R!vars, R!IInv, R!TypeOK, R!PlacesInv, R!Holders, R!Capacity,
     R!WakeupPassedOn, R!Waiting
<1> QED
  BY <1>1, EnterPreserves, WaitPreserves, LeavePreserves, BathPreserves
     DEF R!Next, R!User

\* Those inside are holders.
LEMMA BathHolds ==
  ASSUME R!IInv
  PROVE  R!ShowersNotCrowded
<1> DEFINE Inside == {u \in Users : bathPc[u] = "inside"}
<1>1. Inside \in SUBSET R!Holders
  BY DEF R!Holders
<1>2. Cardinality(Inside) <= Cardinality(R!Holders) /\ Cardinality(Inside) \in Nat
  <2> HIDE DEF Inside
  <2>1. IsFiniteSet(Inside) /\ Cardinality(Inside) <= Cardinality(R!Holders)
    BY <1>1, HoldersFinite, FS_Subset
  <2> QED
    BY <2>1, FS_CardinalityType
<1>3. places \in Nat /\ Cardinality(R!Holders) + places = R!Capacity
  BY SameCardinality DEF R!IInv, R!TypeOK, R!PlacesInv
<1>4. Cardinality(R!Holders) <= R!Capacity /\ R!Capacity \in Nat
  BY <1>3, HoldersFinite, LimitsAssumption DEF R!Capacity
<1> HIDE DEF Inside
<1>5. Cardinality(Inside) <= R!Capacity
  BY <1>2, <1>4, HoldersFinite
<1> QED
  BY <1>5, SameCardinality DEF Inside, R!ShowersNotCrowded

-----------------------------------------------------------------------------
(* The key press programs: who sleeps has looked at what is there.         *)

\* What a line makes of the cells are keys.
LEMMA TypedAreKeys ==
  ASSUME K!TypeOK
  PROVE  \A t \in K!Typed : t \in [K!Readers -> K!Keys]
<1>1. CASE K!Barrier
  BY <1>1 DEF K!Typed
<1>2. CASE ~K!Barrier
  <2>1. K!Readers = 1..2
    BY <1>2 DEF K!Readers
  <2>2. cell[2] \in K!Keys /\ 0 \in K!Keys
    BY <2>1 DEF K!TypeOK, K!Keys
  <2>3. \A x, y \in K!Keys : <<x, y>> \in [1..2 -> K!Keys]
    OBVIOUS
  <2> QED
    BY <1>2, <2>1, <2>2, <2>3 DEF K!Typed
<1> QED
  BY <1>1, <1>2

\* A line makes all ready and wakes all up, or is one more key that the readers
\* of KeyPressBarrier may miss.
LEMMA TypePreserves ==
  ASSUME K!IInv, K!Type
  PROVE  K!IInv'
<1> USE LimitsAssumption DEF K!IInv, K!TypeOK, K!ReadyInv, K!Type, K!Readers,
        K!RW, K!Sleepon, K!Barrier
<1>1. cell' \in [K!Readers -> K!Keys]
  BY TypedAreKeys
<1>2. K!TypeOK'
  <2>1. UNCHANGED <<program, shown>> /\ lines' \in 0..MaxLines
    OBVIOUS
  <2>2. K!Readers' = K!Readers /\ K!Keys' = K!Keys
    BY <2>1 DEF K!Keys
  <2> HIDE DEF K!Readers
  <2>3. /\ ready' \in [K!Readers -> BOOLEAN]
        /\ keyPc' \in [K!Readers -> {"look", "wait", "barrier", "done"}]
    BY DEF K!Signal
  <2> QED
    BY <1>1, <2>1, <2>2, <2>3
<1>3. K!ReadyInv'
  BY DEF K!Signal
<1> QED
  BY <1>2, <1>3

\* Every step of the key press programs keeps what the sleepers have seen.
LEMMA KeyInductive ==
  ASSUME K!IInv, [K!Next]_(K!vars)
  PROVE  K!IInv'
<1> USE DEF K!IInv, K!TypeOK, K!ReadyInv, K!Readers, K!RW, K!Sleepon, K!Barrier
<1>1. ASSUME NEW r \in K!Readers, K!ReadByte(r) PROVE K!IInv'
  BY <1>1 DEF K!ReadByte
<1>2. ASSUME NEW r \in K!Readers, K!TakeReady(r) PROVE K!IInv'
  BY <1>2 DEF K!TakeReady
<1>3. ASSUME NEW r \in K!Readers, K!SleeponWait(r) PROVE K!IInv'
  BY <1>3 DEF K!SleeponWait
<1>4. ASSUME NEW r \in K!Readers, K!FindLetter(r) PROVE K!IInv'
  BY <1>4 DEF K!FindLetter, K!Keys
<1>5. ASSUME NEW r \in K!Readers, K!SpuriousWake(r) PROVE K!IInv'
  BY <1>5 DEF K!SpuriousWake
<1>6. CASE K!Pass
  BY <1>6 DEF K!Pass
<1>7. CASE UNCHANGED K!vars
  BY <1>7 DEF K!vars
<1> QED
  BY <1>1, <1>2, <1>3, <1>4, <1>5, <1>6, <1>7, TypePreserves DEF K!Next, K!Reader

\* Who has passed the barrier has met all others, who have seen their letters.
LEMMA KeyHolds ==
  ASSUME K!IInv
  PROVE  K!WaitersHaveSeen
BY DEF K!IInv, K!ReadyInv, K!WaitersHaveSeen

-----------------------------------------------------------------------------
(* The message queues: what is in a queue, and what has been read.         *)

\* A sender that makes a queue is the only one at work.
LEMMA OpenPreserves ==
  ASSUME Q!IInv, NEW s \in Senders, Q!SenderOpen(s) \/ Q!Unlink(s)
  PROVE  Q!IInv'
<1> USE ProcessesAssumption DEF Q!IInv, Q!TypeOK, Q!SenderOpen, Q!Unlink
<1>1. UNCHANGED <<sent, mq, rpc, qd, buf>>
  OBVIOUS
<1>2. Q!TypeOK'
  BY <1>1
<1>3. Q!QueueInv'
  BY <1>1 DEF Q!QueueInv
<1>4. Q!ReceiverInv'
  BY <1>1 DEF Q!ReceiverInv
<1>5. Q!NameIsOwn'
  BY DEF Q!NameIsOwn
<1> QED
  BY <1>2, <1>3, <1>4, <1>5

\* The next message is put at the end.
LEMMA SendPreserves ==
  ASSUME Q!IInv, NEW s \in Senders, Q!Send(s)
  PROVE  Q!IInv'
<1> USE DEF Q!IInv
<1> DEFINE n == Len(mq[s])  m == sent[s]  q == Append(mq[s], m + 1)
<1>1. /\ mq[s] \in Seq(1..Q!End) /\ n \in Nat /\ m \in Nat /\ n <= m
      /\ m <= N /\ Q!End \in Nat /\ m + 1 \in 1..Q!End
  BY LimitsAssumption DEF Q!TypeOK, Q!QueueInv, Q!Send, Q!End
<1>2. /\ mq' = [mq EXCEPT ![s] = q]
      /\ sent' = [sent EXCEPT ![s] = m + 1]
      /\ UNCHANGED <<linked, rpc, qd, buf>>
      /\ spc' = IF m = N THEN [spc EXCEPT ![s] = "unlink"] ELSE spc
      /\ spc[s] = "send"
  BY DEF Q!Send
<1>3. /\ q \in Seq(1..Q!End) /\ Len(q) = n + 1
      /\ \A i \in 1..n : q[i] = mq[s][i]
      /\ q[n + 1] = m + 1
  BY <1>1, AppendProperties
<1> HIDE DEF q
<1>4. Q!TypeOK'
  BY <1>1, <1>2, <1>3 DEF Q!TypeOK
<1>5. Q!QueueInv'
  <2> SUFFICES ASSUME NEW t \in Senders
               PROVE  /\ spc'[t] \in {"off", "send"} => sent'[t] <= N
                      /\ Len(mq'[t]) <= sent'[t]
                      /\ \A i \in 1..Len(mq'[t]) :
                           mq'[t][i] = (sent'[t] - Len(mq'[t])) + i
    BY DEF Q!QueueInv
  <2>1. CASE t = s
    <3>1. /\ mq'[t] = q /\ sent'[t] = m + 1
          /\ spc'[t] \in {"off", "send"} => m # N
      BY <1>2, <2>1 DEF Q!TypeOK
    <3>2. \A i \in 1..n : mq[s][i] = (m - n) + i
      BY DEF Q!QueueInv
    <3> HIDE DEF n, m
    <3>3. ASSUME NEW i \in 1..(n + 1)
          PROVE  q[i] = ((m + 1) - (n + 1)) + i
      <4>1. CASE i \in 1..n
        <5>1. q[i] = (m - n) + i
          BY <1>3, <3>2, <4>1
        <5> QED
          BY <1>1, <5>1
      <4>2. CASE i = n + 1
        BY <1>1, <1>3, <4>2
      <4> QED
        BY <1>1, <4>1, <4>2
    <3>4. spc'[t] \in {"off", "send"} => sent'[t] <= N
      BY <1>1, <3>1, LimitsAssumption
    <3>5. Len(mq'[t]) <= sent'[t]
      BY <1>1, <1>3, <3>1
    <3> QED
      BY <1>3, <3>1, <3>3, <3>4, <3>5
  <2>2. CASE t # s
    <3>1. mq'[t] = mq[t] /\ sent'[t] = sent[t] /\ spc'[t] = spc[t]
      BY <1>2, <2>2 DEF Q!TypeOK
    <3> QED
      BY <3>1 DEF Q!QueueInv
  <2> QED
    BY <2>1, <2>2
<1>6. Q!ReceiverInv'
  <2> SUFFICES ASSUME NEW r \in Receivers, qd[r] \in Senders
               PROVE  buf[r] <= sent'[qd[r]] - Len(mq'[qd[r]])
    BY <1>2 DEF Q!ReceiverInv
  <2>1. buf[r] <= sent[qd[r]] - Len(mq[qd[r]])
    BY DEF Q!ReceiverInv
  <2>2. CASE qd[r] = s
    <3>1. mq'[s] = q /\ sent'[s] = m + 1
      BY <1>2 DEF Q!TypeOK
    <3>2. (m + 1) - (n + 1) = m - n
      BY <1>1
    <3> QED
      BY <1>3, <2>1, <2>2, <3>1, <3>2
  <2>3. CASE qd[r] # s
    BY <1>2, <2>1, <2>3 DEF Q!TypeOK
  <2> QED
    BY <2>2, <2>3
<1>7. Q!NameIsOwn'
  BY <1>2 DEF Q!NameIsOwn, Q!TypeOK
<1> QED
  BY <1>4, <1>5, <1>6, <1>7

\* A receiver that opens the queue has read nothing yet.
LEMMA FindPreserves ==
  ASSUME Q!IInv, NEW r \in Receivers, Q!ReceiverOpen(r)
  PROVE  Q!IInv'
<1> USE ProcessesAssumption DEF Q!IInv, Q!TypeOK, Q!ReceiverOpen
<1>1. Q!TypeOK'
  OBVIOUS
<1>2. Q!QueueInv'
  BY DEF Q!QueueInv
<1>3. Q!ReceiverInv'
  <2>1. \A s \in Senders : 0 <= sent[s] - Len(mq[s])
    BY DEF Q!QueueInv
  <2> QED
    BY <2>1 DEF Q!ReceiverInv
<1>4. Q!NameIsOwn'
  BY DEF Q!NameIsOwn
<1> QED
  BY <1>1, <1>2, <1>3, <1>4

\* What is received is the next message after all those that were.
LEMMA ReceivePreserves ==
  ASSUME Q!IInv, NEW r \in Receivers, Q!Receive(r)
  PROVE  Q!IInv'
<1> USE DEF Q!IInv
<1> DEFINE s == qd[r]  n == Len(mq[s])  m == sent[s]  q == Tail(mq[s])
<1>1. s \in Senders /\ rpc[r] = "read" /\ mq[s] # <<>>
  BY DEF Q!TypeOK, Q!ReceiverInv, Q!Receive
<1>2. /\ mq[s] \in Seq(1..Q!End) /\ n \in Nat /\ m \in 0..Q!End /\ n <= m /\ Q!End \in Nat
      /\ \A i \in 1..n : mq[s][i] = (m - n) + i
  BY <1>1, LimitsAssumption DEF Q!TypeOK, Q!QueueInv, Q!End
<1>3. n > 0 /\ Head(mq[s]) = (m - n) + 1 /\ Head(mq[s]) \in 1..Q!End
  BY <1>1, <1>2
<1>4. q \in Seq(1..Q!End) /\ Len(q) = n - 1 /\ \A i \in 1..(n - 1) : q[i] = mq[s][i + 1]
  BY <1>1, <1>2, HeadTailProperties
<1>5. /\ buf' = [buf EXCEPT ![r] = (m - n) + 1]
      /\ mq' = [mq EXCEPT ![s] = q]
      /\ UNCHANGED <<linked, spc, sent, qd>>
      /\ rpc' \in [Receivers -> {"off", "read", "done"}]
      /\ \A o \in Receivers : rpc'[o] = "off" => rpc[o] = "off"
      /\ rpc'[r] # "off"
  BY <1>1, <1>3 DEF Q!Receive, Q!TypeOK
<1> HIDE DEF q
<1>6. Q!TypeOK'
  BY <1>1, <1>2, <1>3, <1>4, <1>5 DEF Q!TypeOK
<1>7. mq'[s] = q /\ \A t \in Senders \ {s} : mq'[t] = mq[t]
  BY <1>1, <1>5 DEF Q!TypeOK
<1>8. Q!QueueInv'
  <2> SUFFICES ASSUME NEW t \in Senders
               PROVE  /\ spc'[t] \in {"off", "send"} => sent'[t] <= N
                      /\ Len(mq'[t]) <= sent'[t]
                      /\ \A i \in 1..Len(mq'[t]) :
                           mq'[t][i] = (sent'[t] - Len(mq'[t])) + i
    BY DEF Q!QueueInv
  <2>1. CASE t = s
    <3>1. spc'[s] \in {"off", "send"} => sent'[s] <= N
      BY <1>1, <1>5 DEF Q!QueueInv
    <3>2. mq'[t] = q /\ sent'[t] = m
      BY <1>5, <1>7, <2>1
    <3> HIDE DEF n, m
    <3>3. \A i \in 1..(n - 1) : q[i] = (m - (n - 1)) + i
      BY <1>2, <1>3, <1>4
    <3>4. Len(mq'[t]) <= sent'[t]
      BY <1>2, <1>3, <1>4, <3>2
    <3> QED
      BY <1>4, <2>1, <3>1, <3>2, <3>3, <3>4
  <2>2. CASE t # s
    BY <1>5, <1>7, <2>2 DEF Q!QueueInv
  <2> QED
    BY <2>1, <2>2
<1>9. Q!ReceiverInv'
  <2>1. \A o \in Receivers : qd[o] = s => buf[o] <= m - n
    BY <1>1 DEF Q!ReceiverInv
  <2>2. /\ buf'[r] = (m - n) + 1
        /\ \A o \in Receivers \ {r} : buf'[o] = buf[o]
    BY <1>5 DEF Q!TypeOK
  <2>3. ASSUME NEW o \in Receivers, qd[o] \in Senders
        PROVE  buf'[o] <= sent'[qd[o]] - Len(mq'[qd[o]])
    <3>1. CASE qd[o] = s
      <4>1. sent'[qd[o]] - Len(mq'[qd[o]]) = (m - n) + 1
        BY <1>2, <1>4, <1>5, <1>7, <3>1
      <4>2. buf[o] \in Nat
        BY <1>2 DEF Q!TypeOK
      <4> HIDE DEF n, m, s
      <4> QED
        BY <1>2, <2>1, <2>2, <3>1, <4>1, <4>2
    <3>2. CASE qd[o] # s
      BY <1>5, <1>7, <2>2, <2>3, <3>2 DEF Q!ReceiverInv
    <3> QED
      BY <3>1, <3>2
  <2>4. ASSUME NEW o \in Receivers \ {r}, qd[o] = qd[r]
        PROVE  buf'[o] # buf'[r]
    <3>1. buf[o] \in Nat
      BY <1>2 DEF Q!TypeOK
    <3> HIDE DEF n, m
    <3> QED
      BY <1>2, <2>1, <2>2, <2>4, <3>1
  <2>5. ASSUME NEW o \in Receivers
        PROVE  /\ qd[o] = NoQueue => buf'[o] = 0 /\ rpc'[o] # "read"
               /\ rpc'[o] = "off" => buf'[o] = 0
    <3>1. CASE o = r
      BY <1>1, <1>5, <3>1, ProcessesAssumption
    <3>2. CASE o # r
      <4>1. buf'[o] = buf[o] /\ rpc'[o] = rpc[o]
        BY <2>2, <3>2 DEF Q!Receive, Q!TypeOK
      <4> QED
        BY <4>1 DEF Q!ReceiverInv
    <3> QED
      BY <3>1, <3>2
  <2>6. ASSUME NEW o \in Receivers, NEW p \in Receivers \ {o}, qd[o] = qd[p], buf'[o] # 0
        PROVE  buf'[p] # buf'[o]
    <3>1. CASE o = r \/ p = r
      BY <2>4, <2>6, <3>1
    <3>2. CASE o # r /\ p # r
      BY <2>2, <2>6, <3>2 DEF Q!ReceiverInv
    <3> QED
      BY <3>1, <3>2
  <2> QED
    BY <1>5, <2>3, <2>5, <2>6 DEF Q!ReceiverInv
<1>10. Q!NameIsOwn'
  BY <1>5 DEF Q!NameIsOwn
<1> QED
  BY <1>6, <1>8, <1>9, <1>10

\* Every step of the senders and receivers keeps what is in the queues.
LEMMA QueueInductive ==
  ASSUME Q!IInv, [Q!Next]_(Q!vars)
  PROVE  Q!IInv'
<1>1. CASE UNCHANGED Q!vars
  BY <1>1 DEF Q!vars, Q!IInv, Q!TypeOK, Q!QueueInv, Q!ReceiverInv, Q!NameIsOwn
<1> QED
  BY <1>1, OpenPreserves, SendPreserves, FindPreserves, ReceivePreserves DEF Q!Next

\* What is in a queue comes after all that has been read from it.
LEMMA QueueHolds ==
  ASSUME Q!IInv
  PROVE  Q!EachReadOnce
<1> SUFFICES ASSUME NEW r \in Receivers, buf[r] # 0
             PROVE  \A i \in DOMAIN mq[qd[r]] : buf[r] < mq[qd[r]][i]
  BY DEF Q!EachReadOnce, Q!IInv, Q!ReceiverInv
<1>1. qd[r] \in Senders /\ buf[r] <= sent[qd[r]] - Len(mq[qd[r]])
  BY DEF Q!ReceiverInv, Q!TypeOK, Q!IInv
<1>2. /\ mq[qd[r]] \in Seq(1..Q!End) /\ sent[qd[r]] \in Int /\ buf[r] \in Int
      /\ Len(mq[qd[r]]) \in Nat /\ DOMAIN mq[qd[r]] = 1..Len(mq[qd[r]])
  BY <1>1 DEF Q!TypeOK, Q!IInv
<1> QED
  BY <1>1, <1>2 DEF Q!QueueInv, Q!IInv

-----------------------------------------------------------------------------
(* The message passing programs: who waits is in the server's queue.       *)

\* Whose messages have arrived.
LEMMA Arrived ==
  ASSUME P!IInv
  PROVE  /\ Len(queue) \in Nat /\ DOMAIN queue = 1..Len(queue)
         /\ \A i \in 1..Len(queue) :
              /\ queue[i].from \in Clients /\ P!Connected(queue[i].from)
              /\ mpc[queue[i].from] \in {"blocked", "connecting", "done", "failed"}
<1> DEFINE E == [kind : {"connect", "packet", "disconnect"}, from : Clients]
<1>1. queue \in Seq(E) /\ Len(queue) \in Nat /\ DOMAIN queue = 1..Len(queue)
  BY DEF P!IInv, P!TypeOK
<1>2. ASSUME NEW i \in 1..Len(queue)
      PROVE  /\ queue[i].from \in Clients /\ P!Connected(queue[i].from)
             /\ mpc[queue[i].from] \in {"blocked", "connecting", "done", "failed"}
  <2>1. queue[i] \in E
    <3> HIDE DEF E
    <3> QED
      BY <1>1, ElementOfSeq
  <2>2. queue[i].from \in Clients
    BY <2>1
  <2>3. P!Connected(queue[i].from)
    BY <1>1, <2>2 DEF P!IInv, P!EveryWaiterIsDue
  <2>4. mpc[queue[i].from] \in {"blocked", "connecting", "done", "failed"}
    BY <1>1 DEF P!IInv, P!KindInv
  <2> QED
    BY <2>2, <2>3, <2>4
<1> QED
  BY <1>1, <1>2

\* A client is in the queue only once, and its server is there.
LEMMA OnceArrived ==
  ASSUME P!IInv, NEW c \in Clients, NEW i \in 1..Len(queue), NEW j \in 1..Len(queue),
         queue[i].from = c
  PROVE  P!Connected(c) /\ (queue[j].from = c => i = j)
BY Arrived DEF P!IInv, P!EveryWaiterIsDue

\* A client's message arrives last.
LEMMA AppendPreserves ==
  ASSUME P!IInv, NEW c \in Clients,
         NEW kind \in {"packet", "connect", "disconnect"},
         NEW place \in {"blocked", "connecting", "done", "failed"},
         kind = "packet" <=> place = "blocked", kind = "connect" <=> place = "connecting",
         place = "blocked" => index[c] < PACKET_NUM,
         P!Connected(c), mpc[c] \in {"attach", "send"},
         mpc' = [mpc EXCEPT ![c] = place],
         queue' = Append(queue, [kind |-> kind, from |-> c]),
         UNCHANGED <<program, P!server, conn, index>>
  PROVE  P!IInv'
<1> DEFINE e == [kind |-> kind, from |-> c]  n == Len(queue)
           E == [kind : {"connect", "packet", "disconnect"}, from : Clients]
<1>1. e \in E /\ e.from = c /\ e.kind = kind
  OBVIOUS
<1>2. queue \in Seq(E) /\ n \in Nat /\ DOMAIN queue = 1..n
  BY Arrived DEF P!IInv, P!TypeOK
<1>3. /\ queue' \in Seq(E) /\ DOMAIN queue' = 1..(n + 1)
      /\ \A i \in 1..n : queue'[i] = queue[i]
      /\ queue'[n + 1] = e
  <2> HIDE DEF e, E
  <2>1. queue' = Append(queue, e)
    BY DEF e
  <2> QED
    BY <1>1, <1>2, <2>1, AppendProperties
<1>4. \A i \in 1..n : queue[i].from # c
  BY Arrived
<1>5. mpc'[c] = place /\ \A d \in Clients \ {c} : mpc'[d] = mpc[d]
  BY DEF P!IInv, P!TypeOK
<1>6. UNCHANGED <<program, srv, channel, known, endedBy, conn, index>>
  BY DEF P!server
<1>7. \A d \in Clients : P!Connected(d)' <=> P!Connected(d)
  BY <1>6 DEF P!Connected, P!Up
<1>8. P!TypeOK'
  BY <1>3, <1>6 DEF P!IInv, P!TypeOK
<1>9. P!ServerInv' /\ P!ServedInv'
  BY <1>5, <1>6 DEF P!IInv, P!ServerInv, P!ServedInv
<1> HIDE DEF e, n
<1>10. P!KindInv'
  <2>1. \A i \in 1..n : queue[i].from \in Clients \ {c}
    BY <1>4, Arrived DEF n
  <2> QED
    BY <1>1, <1>2, <1>3, <1>5, <2>1 DEF P!IInv, P!KindInv
<1>11. P!EveryWaiterIsDue'
  <2>1. ASSUME NEW d \in Clients, mpc'[d] \in {"blocked", "connecting"}, P!Connected(d)
        PROVE  \E i \in DOMAIN queue' : queue'[i].from = d
    <3>1. CASE d = c
      BY <1>1, <1>2, <1>3, <3>1
    <3>2. CASE d # c
      <4>1. \E i \in 1..n : queue[i].from = d
        BY <1>2, <1>5, <2>1, <3>2 DEF P!IInv, P!EveryWaiterIsDue
      <4> QED
        BY <1>2, <1>3, <4>1
    <3> QED
      BY <3>1, <3>2
  <2>2. \A d \in Clients : mpc'[d] = "served" => srv' = "reply" /\ P!Connected(d)
    BY <1>5, <1>6 DEF P!IInv, P!EveryWaiterIsDue
  <2>3. ASSUME NEW d \in Clients, NEW i \in 1..(n + 1), NEW k \in 1..(n + 1),
               queue'[i].from = d
        PROVE  P!Connected(d) /\ (queue'[k].from = d => i = k)
    <3>1. (i \in 1..n \/ i = n + 1) /\ (k \in 1..n \/ k = n + 1)
      BY <1>2
    <3>2. CASE i \in 1..n /\ k \in 1..n
      <4>1. queue[i].from = d /\ queue'[k] = queue[k]
        BY <1>3, <2>3, <3>2
      <4> QED
        BY <3>2, <4>1, OnceArrived DEF n
    <3>3. CASE i \in 1..n /\ k = n + 1
      <4>1. queue[i].from = d /\ d # c
        BY <1>3, <1>4, <2>3, <3>3
      <4>2. queue'[k].from = c
        BY <1>1, <1>3, <3>3
      <4>3. P!Connected(d)
        BY <3>3, <4>1, OnceArrived DEF n
      <4> QED
        BY <4>1, <4>2, <4>3
    <3>4. CASE i = n + 1
      <4>1. d = c
        BY <1>1, <1>3, <2>3, <3>4
      <4>2. k \in 1..n => queue'[k].from # c
        BY <1>3, <1>4
      <4> QED
        BY <3>1, <3>4, <4>1, <4>2
    <3> QED
      BY <3>1, <3>2, <3>3, <3>4
  <2> SUFFICES ASSUME NEW d \in Clients
               PROVE  /\ mpc'[d] \in {"blocked", "connecting"} /\ P!Connected(d) =>
                           \E i \in DOMAIN queue' : queue'[i].from = d
                      /\ mpc'[d] = "served" => srv' = "reply" /\ P!Connected(d)
                      /\ \A i, k \in DOMAIN queue' :
                           queue'[i].from = d =>
                             P!Connected(d) /\ (queue'[k].from = d => i = k)
    BY <1>7 DEF P!EveryWaiterIsDue
  <2>4. DOMAIN queue' = 1..(n + 1)
    BY <1>3
  <2>5. \A i, k \in 1..(n + 1) :
          queue'[i].from = d => P!Connected(d) /\ (queue'[k].from = d => i = k)
    BY <2>3
  <2>6. \A i, k \in DOMAIN queue' :
          queue'[i].from = d => P!Connected(d) /\ (queue'[k].from = d => i = k)
    BY <2>4, <2>5
  <2>7. mpc'[d] \in {"blocked", "connecting"} /\ P!Connected(d) =>
          \E i \in DOMAIN queue' : queue'[i].from = d
    BY <2>1
  <2>8. mpc'[d] = "served" => srv' = "reply" /\ P!Connected(d)
    BY <2>2
  <2> QED
    BY <2>6, <2>7, <2>8
<1> QED
  BY <1>8, <1>9, <1>10, <1>11 DEF P!IInv

\* A client that is not in the queue moves on without a message.
LEMMA MovePreserves ==
  ASSUME P!IInv, NEW c \in Clients, NEW place \in {"attach", "send", "done", "failed"},
         mpc[c] \in {"start", "attach", "send"} \/ ~P!Connected(c),
         mpc' = [mpc EXCEPT ![c] = place],
         conn' = conn \/ (mpc[c] = "start" /\ conn' = [conn EXCEPT ![c] = known]),
         UNCHANGED <<program, P!server, index, queue>>
  PROVE  P!IInv'
<1>1. UNCHANGED <<program, srv, channel, known, endedBy, index, queue>>
  BY DEF P!server
<1>2. mpc'[c] = place /\ \A d \in Clients \ {c} : mpc'[d] = mpc[d] /\ conn'[d] = conn[d]
  BY DEF P!IInv, P!TypeOK
<1>3. \A i \in 1..Len(queue) : queue[i].from \in Clients \ {c}
  BY Arrived
<1>4. \A d \in Clients \ {c} : P!Connected(d)' <=> P!Connected(d)
  BY <1>1, <1>2 DEF P!Connected, P!Up
<1>5. P!TypeOK'
  BY <1>1 DEF P!IInv, P!TypeOK
<1>6. P!ServerInv' /\ P!ServedInv'
  BY <1>1, <1>2 DEF P!IInv, P!ServerInv, P!ServedInv, P!TypeOK
<1>7. P!KindInv'
  BY <1>1, <1>2, <1>3, Arrived DEF P!IInv, P!KindInv
<1>8. P!EveryWaiterIsDue'
  <2> SUFFICES ASSUME NEW d \in Clients
               PROVE  /\ mpc'[d] \in {"blocked", "connecting"} /\ P!Connected(d)' =>
                           \E i \in DOMAIN queue : queue[i].from = d
                      /\ mpc'[d] = "served" => srv' = "reply" /\ P!Connected(d)'
                      /\ \A i, k \in DOMAIN queue :
                           queue[i].from = d =>
                             P!Connected(d)' /\ (queue[k].from = d => i = k)
    BY <1>1 DEF P!EveryWaiterIsDue
  <2>1. CASE d = c
    BY <1>2, <1>3, <2>1, Arrived
  <2>2. CASE d # c
    BY <1>1, <1>2, <1>4, <2>2 DEF P!IInv, P!EveryWaiterIsDue
  <2> QED
    BY <2>1, <2>2
<1> QED
  BY <1>5, <1>6, <1>7, <1>8 DEF P!IInv

\* The server takes the first message; if it is a packet its client is served.
LEMMA ReceiveFirst ==
  ASSUME P!IInv, NEW c \in Clients, NEW place \in {"served", "send", "done", "failed"},
         queue # <<>>, Head(queue).from = c, srv = "receive",
         mpc' = [mpc EXCEPT ![c] = place],
         queue' = Tail(queue),
         srv' = IF place = "served" THEN "reply" ELSE "receive",
         place = "served" => index[c] < PACKET_NUM,
         UNCHANGED <<program, channel, known, endedBy, conn, index>>
  PROVE  P!IInv'
<1> DEFINE n == Len(queue)
           E == [kind : {"connect", "packet", "disconnect"}, from : Clients]
<1>1. queue \in Seq(E) /\ n \in Nat /\ DOMAIN queue = 1..n
  BY Arrived DEF P!IInv, P!TypeOK
<1>2. n > 0 /\ Head(queue) = queue[1]
  BY <1>1
<1>3. /\ queue' \in Seq(E) /\ DOMAIN queue' = 1..(n - 1)
      /\ \A i \in 1..(n - 1) : queue'[i] = queue[i + 1]
  <2> HIDE DEF E
  <2>1. Tail(queue) \in Seq(E) /\ Len(Tail(queue)) = n - 1
        /\ \A i \in 1..(n - 1) : Tail(queue)[i] = queue[i + 1]
    BY <1>1, HeadTailProperties
  <2> QED
    BY <2>1
<1>4. \A i \in 1..(n - 1) : queue'[i].from \in Clients \ {c}
  <2> SUFFICES ASSUME NEW i \in 1..(n - 1)
               PROVE  queue[i + 1].from \in Clients \ {c}
    BY <1>3
  <2>1. i + 1 \in 1..n /\ 1 \in 1..n /\ i + 1 # 1
    BY <1>1
  <2>2. queue[1].from = c
    BY <1>2
  <2> QED
    BY <2>1, <2>2, Arrived, OnceArrived
<1>5. mpc'[c] = place /\ \A d \in Clients \ {c} : mpc'[d] = mpc[d]
  BY DEF P!IInv, P!TypeOK
<1>6. P!Connected(c) /\ \A d \in Clients : P!Connected(d)' <=> P!Connected(d)
  BY <1>1, <1>2, Arrived DEF P!Connected, P!Up
<1>7. \A d \in Clients : mpc[d] # "served"
  BY DEF P!IInv, P!EveryWaiterIsDue
<1>8. P!TypeOK'
  BY <1>3 DEF P!IInv, P!TypeOK
<1>9. P!ServerInv' /\ P!ServedInv'
  BY <1>5, <1>7 DEF P!IInv, P!ServerInv, P!ServedInv
<1> HIDE DEF n
<1>10. P!KindInv'
  <2> SUFFICES ASSUME NEW i \in 1..(n - 1)
               PROVE  mpc'[queue'[i].from] \in
                        (CASE queue'[i].kind = "packet" -> {"blocked"}
                           [] queue'[i].kind = "connect" -> {"connecting"}
                           [] OTHER -> {"done", "failed"})
    BY <1>3 DEF P!KindInv
  <2>1. i + 1 \in DOMAIN queue /\ queue'[i] = queue[i + 1]
        /\ mpc'[queue'[i].from] = mpc[queue[i + 1].from]
    BY <1>1, <1>3, <1>4, <1>5
  <2> QED
    BY <2>1 DEF P!IInv, P!KindInv
<1>11. P!EveryWaiterIsDue'
  <2> SUFFICES ASSUME NEW d \in Clients
               PROVE  /\ mpc'[d] \in {"blocked", "connecting"} /\ P!Connected(d) =>
                           \E i \in DOMAIN queue' : queue'[i].from = d
                      /\ mpc'[d] = "served" => srv' = "reply" /\ P!Connected(d)
                      /\ \A i, k \in DOMAIN queue' :
                           queue'[i].from = d =>
                             P!Connected(d) /\ (queue'[k].from = d => i = k)
    BY <1>6 DEF P!EveryWaiterIsDue
  <2>1. ASSUME mpc'[d] \in {"blocked", "connecting"}, P!Connected(d)
        PROVE  \E i \in 1..(n - 1) : queue'[i].from = d
    <3>1. d # c /\ mpc[d] \in {"blocked", "connecting"}
      BY <1>5, <2>1
    <3>2. PICK i \in 1..n : queue[i].from = d
      BY <1>1, <2>1, <3>1 DEF P!IInv, P!EveryWaiterIsDue
    <3>3. i # 1 /\ i - 1 \in 1..(n - 1) /\ (i - 1) + 1 = i
      BY <1>1, <1>2, <3>1, <3>2
    <3> QED
      BY <1>3, <3>2, <3>3
  <2>2. mpc'[d] = "served" => srv' = "reply" /\ P!Connected(d)
    BY <1>5, <1>6, <1>7
  <2>3. ASSUME NEW i \in 1..(n - 1), NEW k \in 1..(n - 1), queue'[i].from = d
        PROVE  P!Connected(d) /\ (queue'[k].from = d => i = k)
    <3>1. i + 1 \in 1..n /\ k + 1 \in 1..n /\ queue[i + 1].from = d
          /\ queue'[k] = queue[k + 1]
      BY <1>1, <1>3, <2>3
    <3>2. P!Connected(d) /\ (queue[k + 1].from = d => i + 1 = k + 1)
      BY <3>1, OnceArrived DEF n
    <3>3. i \in Int /\ k \in Int
      OBVIOUS
    <3>4. i + 1 = k + 1 => i = k
      BY <3>3
    <3> QED
      BY <3>1, <3>2, <3>4
  <2>4. \A i, k \in DOMAIN queue' :
          queue'[i].from = d => P!Connected(d) /\ (queue'[k].from = d => i = k)
    BY <1>3, <2>3
  <2>5. mpc'[d] \in {"blocked", "connecting"} /\ P!Connected(d) =>
          \E i \in DOMAIN queue' : queue'[i].from = d
    BY <1>3, <2>1
  <2> QED
    BY <2>2, <2>4, <2>5
<1> QED
  BY <1>8, <1>9, <1>10, <1>11 DEF P!IInv

\* The server replies.
LEMMA ReplyPreserves ==
  ASSUME P!IInv, NEW c \in Clients, P!ServerReply(c)
  PROVE  P!IInv'
<1> USE DEF P!ServerReply
<1>1. mpc'[c] = "send" /\ \A d \in Clients \ {c} : mpc'[d] = mpc[d] /\ index'[d] = index[d]
  BY DEF P!IInv, P!TypeOK
<1>2. \A i \in 1..Len(queue) : queue[i].from \in Clients \ {c}
  BY Arrived
<1>3. \A d \in Clients : P!Connected(d)' <=> P!Connected(d)
  BY DEF P!Connected, P!Up
<1>4. \A d \in Clients \ {c} : mpc[d] # "served"
  BY DEF P!IInv, P!ServedInv
<1>5. P!TypeOK'
  <2>1. index[c] < PACKET_NUM
    BY DEF P!IInv, P!ServedInv
  <2>2. index' \in [Clients -> 0..PACKET_NUM]
    BY <2>1, LimitsAssumption DEF P!IInv, P!TypeOK
  <2> QED
    BY <2>2 DEF P!IInv, P!TypeOK
<1>6. P!ServerInv' /\ P!ServedInv'
  BY <1>1, <1>4 DEF P!IInv, P!ServerInv, P!ServedInv
<1>7. P!KindInv'
  BY <1>1, <1>2, Arrived DEF P!IInv, P!KindInv
<1>8. P!EveryWaiterIsDue'
  BY <1>1, <1>3, <1>4 DEF P!IInv, P!EveryWaiterIsDue
<1> QED
  BY <1>5, <1>6, <1>7, <1>8 DEF P!IInv

\* The server ends, and what has arrived goes with it.
LEMMA EndPreserves ==
  ASSUME P!IInv, srv = "receive", NEW why \in Clients \cup {"nobody", "fault"}, P!Leave(why)
  PROVE  P!IInv'
<1> USE DEF P!Leave, P!client
<1>1. queue' = <<>> /\ DOMAIN queue' = {} /\ srv' = "off" /\ UNCHANGED <<mpc, conn, index, channel>>
  OBVIOUS
<1>2. \A d \in Clients : ~P!Connected(d)' /\ mpc[d] # "served"
  BY <1>1 DEF P!Connected, P!Up, P!IInv, P!EveryWaiterIsDue
<1>3. P!TypeOK'
  <2>1. endedBy' \in [1..MaxServers -> Clients \cup {"nobody", "fault"}]
    BY DEF P!IInv, P!TypeOK
  <2>2. known' \in 0..MaxServers
    BY LimitsAssumption DEF P!IInv, P!TypeOK
  <2> QED
    BY <1>1, <2>1, <2>2 DEF P!IInv, P!TypeOK
<1>4. P!ServerInv' /\ P!ServedInv'
  BY <1>1 DEF P!IInv, P!ServerInv, P!ServedInv, P!TypeOK
<1>5. P!KindInv' /\ P!EveryWaiterIsDue'
  BY <1>1, <1>2 DEF P!KindInv, P!EveryWaiterIsDue
<1> QED
  BY <1>3, <1>4, <1>5 DEF P!IInv

\* A server starts, with nobody connected to it.
LEMMA StartPreserves ==
  ASSUME P!IInv, P!ServerOpen \/ P!ServerWrite
  PROVE  P!IInv'
<1> USE DEF P!ServerOpen, P!ServerWrite, P!client
<1>1. ~P!Up /\ UNCHANGED <<program, mpc, conn, index, queue, endedBy>>
  BY DEF P!Up
<1>2. Len(queue) \in Nat /\ DOMAIN queue = {}
  <2>1. Len(queue) \in Nat /\ DOMAIN queue = 1..Len(queue)
    BY Arrived
  <2>2. \A i \in 1..Len(queue) : FALSE
    BY <1>1, Arrived DEF P!Connected
  <2> QED
    BY <2>1, <2>2
<1>3. channel \in 0..MaxServers /\ known \in 0..MaxServers /\ \A d \in Clients : conn[d] \in 0..MaxServers
  BY DEF P!IInv, P!TypeOK
<1>4. \A d \in Clients : conn[d] < channel' /\ mpc[d] # "served"
  BY <1>1, <1>3, LimitsAssumption DEF P!IInv, P!ServerInv, P!EveryWaiterIsDue, P!Connected
<1>5. \A d \in Clients : ~P!Connected(d)'
  BY <1>1, <1>3, <1>4, LimitsAssumption DEF P!Connected
<1>6. P!TypeOK'
  BY <1>1, <1>3, LimitsAssumption DEF P!IInv, P!TypeOK
<1>7. P!ServerInv' /\ P!ServedInv'
  BY <1>1, <1>3, <1>4, LimitsAssumption DEF P!IInv, P!ServerInv, P!ServedInv
<1>8. P!KindInv' /\ P!EveryWaiterIsDue'
  BY <1>1, <1>2, <1>4, <1>5 DEF P!KindInv, P!EveryWaiterIsDue
<1> QED
  BY <1>6, <1>7, <1>8 DEF P!IInv

\* A client sends, moves on or leaves.
LEMMA ClientPreserves ==
  ASSUME P!IInv, NEW c \in Clients, P!ClientStart(c) \/ P!Client(c)
  PROVE  P!IInv'
<1>1. CASE P!ClientStart(c)
  BY <1>1, MovePreserves DEF P!ClientStart
<1>2. CASE P!ClientAttach(c)
  BY <1>2, MovePreserves, AppendPreserves DEF P!ClientAttach
<1>3. CASE P!ClientConnectFail(c)
  BY <1>3, MovePreserves DEF P!ClientConnectFail
<1>4. CASE P!ClientSend(c)
  BY <1>4, AppendPreserves DEF P!ClientSend
<1>5. ASSUME NEW end \in {"done", "failed"}, P!Detach(c, end),
             mpc[c] = "send" \/ ~P!Connected(c)
      PROVE  P!IInv'
  <2>1. CASE P!Connected(c)
    BY <1>5, <2>1, AppendPreserves DEF P!Detach
  <2>2. CASE ~P!Connected(c)
    BY <1>5, <2>2, MovePreserves DEF P!Detach
  <2> QED
    BY <2>1, <2>2
<1> QED
  BY <1>1, <1>2, <1>3, <1>4, <1>5 DEF P!Client, P!ClientSendFail, P!ClientDone

\* The server takes a message, with what becomes of its client.
LEMMA ServerPreserves ==
  ASSUME P!IInv, NEW c \in Clients,
         P!ServerReceivePacket(c) \/ P!ServerReceiveConnect(c) \/ P!ServerReceivePulse(c)
  PROVE  P!IInv'
<1>1. srv = "receive" /\ queue # <<>> /\ Head(queue).from = c
  BY DEF P!ServerReceivePacket, P!ServerReceiveConnect, P!ServerReceivePulse
<1>2. Head(queue) = queue[1] /\ 1 \in DOMAIN queue
  BY <1>1 DEF P!IInv, P!TypeOK
<1>3. CASE P!ServerReceivePacket(c)
  <2>1. mpc[c] = "blocked" /\ index[c] < PACKET_NUM
    BY <1>2, <1>3 DEF P!ServerReceivePacket, P!IInv, P!KindInv, P!ServedInv
  <2> QED
    BY <1>1, <1>3, <2>1, ReceiveFirst DEF P!ServerReceivePacket
<1>4. CASE P!ServerReceiveConnect(c)
  BY <1>1, <1>4, ReceiveFirst DEF P!ServerReceiveConnect, P!server
<1>5. CASE P!ServerReceivePulse(c)
  <2>1. CASE P!Native
    <3>1. mpc[c] \in {"done", "failed"}
      BY <1>2, <1>5 DEF P!ServerReceivePulse, P!IInv, P!KindInv
    <3>2. mpc' = [mpc EXCEPT ![c] = mpc[c]]
      BY <1>5, <2>1 DEF P!ServerReceivePulse, P!client, P!IInv, P!TypeOK
    <3> QED
      BY <1>1, <1>5, <2>1, <3>1, <3>2, ReceiveFirst
         DEF P!ServerReceivePulse, P!server, P!client
  <2>2. CASE ~P!Native
    BY <1>1, <1>5, <2>2, EndPreserves DEF P!ServerReceivePulse
  <2> QED
    BY <2>1, <2>2
<1> QED
  BY <1>3, <1>4, <1>5

\* Every step of the message passing programs keeps who waits for what.
LEMMA PassInductive ==
  ASSUME P!IInv, [P!Next]_(P!vars)
  PROVE  P!IInv'
<1>1. CASE UNCHANGED P!vars
  BY <1>1 DEF P!vars, P!server, P!client, P!IInv, P!TypeOK, P!ServerInv,
     P!ServedInv, P!KindInv, P!EveryWaiterIsDue, P!Connected, P!Up
<1>2. CASE P!ServerReceiveFail
  BY <1>2, EndPreserves DEF P!ServerReceiveFail
<1> QED
  BY <1>1, <1>2, StartPreserves, ReplyPreserves, ServerPreserves, ClientPreserves
     DEF P!Next, P!Server

-----------------------------------------------------------------------------
(* The theorems.                                                           *)

\* Each part's invariant holds at the start and is kept by every step.
LEMMA Invariance == Spec => []IInv
<1>1. Init => IInv
  <2> USE SizesAssumption
  <2>1. Init => U!IInv
    BY DEF Init, U!Init, U!IInv, U!TypeOK, U!LockInv, U!ResultIsRight, U!Protected
  <2>2. Init => M!IInv
    BY DEF Init, M!Init, M!IInv, M!TypeOK, M!TurnInv, M!CountInv, M!NoEarlyEnd,
       M!Pending, M!Threads, M!States
  <2>3. Init => B!IInv
    BY DEF Init, B!Init, B!IInv, B!TypeOK, B!SlotsInv, B!ToPut, B!ToAnnounce, B!ToTake, B!ToFree, B!RingInv, B!Since,
       B!ReadsOneBehindOrOverrun
  <2>4. Init => T!IInv
    BY DEF Init, T!Init, T!IInv, T!TypeOK, T!IntervalInv, T!AgeInv, T!Expired,
       T!DelayOf, T!Lights, T!runTimes, T!RY, T!G, T!A, T!B
  <2>5. Init => R!IInv
    <3> SUFFICES ASSUME Init PROVE R!IInv
      OBVIOUS
    <3>1. R!Holders = {} /\ R!Waiting = {}
      BY DEF Init, R!Init, R!Holders, R!Waiting
    <3>2. R!PlacesInv
      BY <3>1, SameCardinality, FS_EmptySet, LimitsAssumption
         DEF Init, R!Init, R!PlacesInv, R!Capacity
    <3> QED
      BY <3>1, <3>2, LimitsAssumption
         DEF Init, R!Init, R!IInv, R!TypeOK, R!Capacity, R!WakeupPassedOn
  <2>6. Init => K!IInv
    BY LimitsAssumption
       DEF Init, K!Init, K!IInv, K!TypeOK, K!ReadyInv, K!Keys, K!Sleepon, K!Barrier
  <2>7. Init => Q!IInv
    BY LimitsAssumption, ProcessesAssumption
       DEF Init, Q!Init, Q!IInv, Q!TypeOK, Q!QueueInv, Q!ReceiverInv, Q!NameIsOwn, Q!End
  <2>8. Init => P!IInv
    BY LimitsAssumption
       DEF Init, P!Init, P!IInv, P!TypeOK, P!ServerInv, P!ServedInv, P!KindInv,
           P!EveryWaiterIsDue
  <2> QED
    BY <2>1, <2>2, <2>3, <2>4, <2>5, <2>6, <2>7, <2>8 DEF IInv
<1>2. IInv /\ [Next]_vars => IInv'
  BY OneRuns, UpdateInductive, MachineInductive, BufferInductive, TimerInductive,
     BathInductive, KeyInductive, QueueInductive, PassInductive DEF IInv
<1> QED
  BY <1>1, <1>2, PTL DEF Spec

\* All variables of all programs keep their types, whatever the sizes.
THEOREM TypeCorrect == Spec => []TypeOK
<1>1. IInv => TypeOK
  BY DEF IInv, TypeOK, U!IInv, M!IInv, B!IInv, T!IInv, R!IInv, K!IInv, Q!IInv, P!IInv
<1> QED
  BY <1>1, Invariance, PTL

\* The protected overlap programs implement the atomic update, for any number
\* of uses (overlapMutex.c:29-69).
THEOREM UpdatesAreAtomic == Spec => AtomicSpec
<1>1. Init => U!Atomic!Init
  BY DEF Init, U!Init, U!Atomic!Init, U!Protected
<1>2. IInv /\ [Next]_vars => [U!Atomic!Next]_(U!Atomic!vars)
  <2> SUFFICES ASSUME U!IInv, [U!Next]_(U!vars)
               PROVE  [U!Atomic!Next]_(U!Atomic!vars)
    BY OneRuns DEF IInv
  <2>1. CASE U!UserEnter \/ U!UserTest \/ U!UserLeave \/ U!UserEnd
    BY <2>1 DEF U!UserEnter, U!UserTest, U!UserLeave, U!UserEnd, U!Atomic!vars,
       U!Protected
  <2>2. CASE U!ChangerTest \/ U!ChangerEnter \/ U!ChangeA \/ U!ChangerLeave
    BY <2>2 DEF U!ChangerTest, U!ChangerEnter, U!ChangeA, U!ChangerLeave,
       U!Atomic!vars, U!Protected
  <2>3. CASE UNCHANGED U!vars
    BY <2>3 DEF U!vars, U!Atomic!vars, U!Protected
  <2> QED
    BY <2>1, <2>2, <2>3, UseRefines, ChangeRefines DEF U!Next
<1> QED
  BY <1>1, <1>2, Invariance, PTL DEF Spec, AtomicSpec, U!AtomicSpec, U!Atomic!Spec

\* The protected programs have added 5+5 as often as they say
\* (overlapMutex.c:29-44).
THEOREM ResultCorrect == Spec => []U!ResultIsRight
BY Invariance, PTL DEF IInv, U!IInv

\* TrafficLightSM's light goes through its states in order, although the
\* consumer steps it without the lock (TrafficLightSM.c:68-111).
THEOREM LightInOrder == Spec => LightNeverJumps
<1>1. IInv /\ [Next]_vars =>
        [currentState' # currentState =>
           currentState' = M!Following(currentState)]_(M!vars)
  BY OneRuns, MachineStep DEF IInv
<1> QED
  BY <1>1, Invariance, PTL DEF Spec, LightNeverJumps, M!LightNeverJumps

\* No thread of TrafficLightSM ends before the machine was stepped as often as
\* it should be, whatever additions to the counter are lost
\* (TrafficLightSM.c:57).
THEOREM NobodyEndsEarly == Spec => []M!NoEarlyEnd
BY Invariance, PTL DEF IInv, M!IInv

\* Whatever the size of the ring, its consumer is one item behind or reads one
\* that has overwritten it, and never anything else
\* (BounderBufferSemaphore.c:15-63).
THEOREM ReaderIsOneBehind == Spec => []ReadsOneBehindOrOverrun
BY Invariance, PTL DEF IInv, B!IInv, ReadsOneBehindOrOverrun

\* However many pulses are queued, only those from before the timer was set cut
\* a phase short (TrafficLightTimer.c:20-60, 109-117).
THEOREM PhasesHaveTheirTime == Spec => []HeldForItsTime
<1>1. IInv => HeldForItsTime
  BY TimerHolds DEF IInv, HeldForItsTime
<1> QED
  BY <1>1, Invariance, PTL

\* A user who waits gives the mutex or the semaphore's place back and must take
\* one again, so that no bathroom has more users than showers, for any number of
\* either (BathroomCondvar.c:12-27, BathroomCountingSemaphore.c:13-25).
THEOREM ShowersHaveRoom == Spec => []ShowersNotCrowded
<1>1. IInv => ShowersNotCrowded
  BY BathHolds DEF IInv, ShowersNotCrowded
<1> QED
  BY <1>1, Invariance, PTL

\* One signal at a time is enough: for any number of users, whoever waits with
\* the door open and has not missed the opening has somebody before it who will
\* signal (BathroomCondvar.c:14-25, 32-42).
THEOREM WakeupsGoOn == Spec => []WakeupPassedOn
BY Invariance, PTL DEF IInv, R!IInv, WakeupPassedOn

\* No reader sleeps that has not shown the latest key, and none has passed the
\* barrier before all letters were seen (KeyPressSleeponLock.c:16-50,
\* KeyPressBarrier.c:27-35).
THEOREM SleepersHaveLooked == Spec => []WaitersHaveSeen
<1>1. IInv => WaitersHaveSeen
  BY KeyHolds DEF IInv, WaitersHaveSeen
<1> QED
  BY <1>1, Invariance, PTL

\* However many receivers share a queue, no two get the same message, and each
\* gets its own in the order of sending (TrafficLightMqReceive.c:48-56).
THEOREM MessagesReadOnce == Spec => []EachReadOnce
<1>1. IInv => EachReadOnce
  BY QueueHolds DEF IInv, EachReadOnce
<1> QED
  BY <1>1, Invariance, PTL

\* However many senders start, each unlinks its own queue
\* (TrafficLightMqSend.c:9, 84, 100-101).
THEOREM NamesAreOwn == Spec => []NameIsOwn
BY Invariance, PTL DEF IInv, Q!IInv, NameIsOwn

\* Whatever fails, ends or starts again, the server that runs has every client
\* that waits for it in its queue once, or is serving it
\* (NativeMessagePassServer.c:77-150, ConnectMessagePassServer.c:77-135).
THEOREM NoClientForgotten == Spec => []EveryWaiterIsDue
BY Invariance, PTL DEF IInv, P!IInv, EveryWaiterIsDue
=============================================================================
