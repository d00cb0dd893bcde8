--------------------------- MODULE SmallPrograms ---------------------------
(***************************************************************************)
(* The small programs of the repository, each modelled in a module of its  *)
(* own, as one system in which one program runs: the one that is chosen at *)
(* the start.  The variables of the other modules do not change.           *)
(***************************************************************************)
EXTENDS Naturals, FiniteSets

CONSTANTS
  MaxUse, MAX_RUNTIME, BUF_SIZE, Items, Users, MAX_SEM_VALUE, MaxLines, MaxQueued,
  Senders, Receivers, NoQueue, N, Clients, PACKET_NUM, MaxServers, Faults

ASSUME SizesAssumption ==
  /\ {MaxUse, MAX_RUNTIME, Items, MaxQueued} \subseteq Nat
  /\ BUF_SIZE \in Nat /\ BUF_SIZE > 1

ASSUME LimitsAssumption ==
  {MAX_SEM_VALUE, MaxLines, N, PACKET_NUM, MaxServers} \subseteq Nat

ASSUME ProcessesAssumption == IsFiniteSet(Users) /\ NoQueue \notin Senders

Updates == {"overlap", "overlapMutex", "overlapNamedSemaphore",
            "overlapUnamedSemaphore"}
Baths == {"Bathroom", "BathroomSemaphore", "BathroomCountingSemaphore",
          "BathroomTimer", "BathroomCondvar"}
KeyPresses == {"KeyPressRW", "KeyPressSleeponLock", "KeyPressBarrier"}
Timers == {"TrafficLightTimer", "timer"}
Passes == {"ConnectMessagePass", "NativeMessagePass"}
Others == {"TrafficLightSM", "BounderBufferSemaphore", "TrafficLightMq"}
Programs == Updates \cup Baths \cup KeyPresses \cup Timers \cup Passes \cup Others

VARIABLES
  program,
  lock, user, changer, a, b, result, useCount,
  currentState, counter, smLock, smPc, from, read, steps,
  ppc, cpc, empty, full, bufferInPointer, bufferOutPointer, buffer, count,
  produced, taken, tmp,
  bathPc, places, isOpen, key, missed,
  lines, cell, ready, keyPc, shown,
  tState, tCounter, interval, left, queued, phase, age, got, stale,
  linked, spc, sent, mq, rpc, qd, buf,
  srv, channel, known, queue, mpc, conn, index, endedBy

U == INSTANCE SharedUpdate
M == INSTANCE SharedMachine WITH lock <- smLock, pc <- smPc
B == INSTANCE BoundedBuffer
R == INSTANCE Bathroom WITH pc <- bathPc
K == INSTANCE KeyPress WITH pc <- keyPc
T == INSTANCE PhaseTimer WITH currentState <- tState, counter <- tCounter
Q == INSTANCE PhaseQueue WITH queue <- mq
P == INSTANCE MessagePass WITH cpc <- mpc

uVars == <<lock, user, changer, a, b, result, useCount>>
mVars == <<currentState, counter, smLock, smPc, from, read, steps>>
bVars == <<ppc, cpc, empty, full, bufferInPointer, bufferOutPointer, buffer,
           count, produced, taken, tmp>>
rVars == <<bathPc, places, isOpen, key, missed>>
kVars == <<lines, cell, ready, keyPc, shown>>
tVars == <<tState, tCounter, interval, left, queued, phase, age, got, stale>>
qVars == <<linked, spc, sent, mq, rpc, qd, buf>>
pVars == <<srv, channel, known, queue, mpc, conn, index, endedBy>>
vars == <<program, uVars, mVars, bVars, rVars, kVars, tVars, qVars, pVars>>

Init ==
  /\ U!Init /\ M!Init /\ B!Init /\ R!Init
  /\ K!Init /\ T!Init /\ Q!Init /\ P!Init

Next ==
  \/ /\ program \in Updates /\ U!Next
     /\ UNCHANGED <<mVars, bVars, rVars, kVars, tVars, qVars, pVars>>
  \/ /\ program = "TrafficLightSM" /\ M!Next
     /\ UNCHANGED <<program, uVars, bVars, rVars, kVars, tVars, qVars, pVars>>
  \/ /\ program = "BounderBufferSemaphore" /\ B!Next
     /\ UNCHANGED <<program, uVars, mVars, rVars, kVars, tVars, qVars, pVars>>
  \/ /\ program \in Baths /\ R!Next
     /\ UNCHANGED <<uVars, mVars, bVars, kVars, tVars, qVars, pVars>>
  \/ /\ program \in KeyPresses /\ K!Next
     /\ UNCHANGED <<uVars, mVars, bVars, rVars, tVars, qVars, pVars>>
  \/ /\ program \in Timers /\ T!Next
     /\ UNCHANGED <<uVars, mVars, bVars, rVars, kVars, qVars, pVars>>
  \/ /\ program = "TrafficLightMq" /\ Q!Next
     /\ UNCHANGED <<program, uVars, mVars, bVars, rVars, kVars, tVars, pVars>>
  \/ /\ program \in Passes /\ P!Next
     /\ UNCHANGED <<uVars, mVars, bVars, rVars, kVars, tVars, qVars>>

Spec == Init /\ [][Next]_vars

\* Threads that can run do; who asks for a lock again and again gets it in the
\* end; processes need not be started, nor failures occur, nor anybody type.
Fairness ==
  /\ WF_mVars(program = "TrafficLightSM" /\ M!Consumer)
  /\ WF_mVars(program = "TrafficLightSM" /\ M!Producer)
  /\ WF_rVars(program \in Baths /\ R!Signal)
  /\ \A u \in Users :
       /\ SF_rVars(program \in Baths /\ (R!Enter(u) \/ R!TimeOut(u)))
       /\ WF_rVars(program \in Baths /\ (R!Test(u) \/ R!Wait(u) \/ R!Leave(u)))
  /\ WF_kVars(program \in KeyPresses /\ K!Pass)
  /\ \A r \in 1..3 :
       WF_kVars(program \in KeyPresses /\ r \in K!Readers /\ K!Reader(r))
  /\ \A s \in Senders :
       WF_qVars(program = "TrafficLightMq" /\ (Q!Send(s) \/ Q!Unlink(s)))
  /\ \A r \in Receivers : WF_qVars(program = "TrafficLightMq" /\ Q!Receive(r))
  /\ WF_pVars(program \in Passes /\ P!Server)
  /\ \A c \in Clients : WF_pVars(program \in Passes /\ P!Client(c))

FairSpec == Spec /\ Fairness

-----------------------------------------------------------------------------
(* The properties of the modules.                                          *)

\* All variables have their types.
TypeOK ==
  /\ U!TypeOK /\ M!TypeOK /\ B!TypeOK /\ R!TypeOK
  /\ K!TypeOK /\ T!TypeOK /\ Q!TypeOK /\ P!TypeOK

\* overlap's protected programs change and use both fields as one.
AtomicSpec == U!AtomicSpec

\* TrafficLightSM's light never jumps, although two threads step it.
LightNeverJumps == M!LightNeverJumps

\* TrafficLightSM ends unless an addition to its counter is lost.
EndsUnlessAnAddWasLost ==
  program = "TrafficLightSM" => M!EndsUnlessAnAddWasLost

\* BounderBufferSemaphore's consumer reads the item before, or one that has
\* overwritten it.
ReadsOneBehindOrOverrun == B!ReadsOneBehindOrOverrun

\* No shower has more users than there is room for.
ShowersNotCrowded == R!ShowersNotCrowded

\* Who waits for a shower that is open will be signalled.
WakeupPassedOn == R!WakeupPassedOn

\* The bathroom's users all get through once the door stays open.
AllGetThrough == program \in Baths => R!AllGetThrough

\* No reader of keys sleeps past the latest, nor passes the barrier too early.
WaitersHaveSeen == K!WaitersHaveSeen

\* The key press programs show the keys of the last line.
LastKeysSeen == program \in KeyPresses => K!LastKeysSeen

\* The timer's programs hold a phase for its time, but for stale pulses.
HeldForItsTime == T!HeldForItsTime

\* No message of a queue is received twice, or out of order.
EachReadOnce == Q!EachReadOnce

\* No sender unlinks the queue of another one.
NameIsOwn == Q!NameIsOwn

\* The queue's receivers end unless another one has the end mark.
ReceiversEnd == Q!ReceiversEnd

\* Each client that waits for a message passing server will be answered.
EveryWaiterIsDue == P!EveryWaiterIsDue

\* The message passing clients are served unless they are cut off.
ServedUnlessCutOff == P!ServedUnlessCutOff

\* The inductive invariant of the proofs.
IInv ==
  /\ U!IInv /\ M!IInv /\ B!IInv /\ T!IInv
  /\ R!IInv /\ K!IInv /\ Q!IInv /\ P!IInv
=============================================================================
