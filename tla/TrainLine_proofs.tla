-------------------------- MODULE TrainLine_proofs --------------------------
(***************************************************************************)
(* Proofs about TrainLine, for every set of lines, every bound and every   *)
(* set of faults.                                                          *)
(***************************************************************************)
EXTENDS TrainLine, SequenceTheorems, TLAPS

\* In the initial state no thread is near the mutex.
LEMMA InitEstablishes == Init => IInv
<1> SUFFICES ASSUME Init PROVE IInv
  OBVIOUS
<1> USE LinesAssumption DEF Init, Threads
<1>1. TypeOK
  <2>1. /\ pc \in [Threads -> {"attach", "open", "lock", "blocked", "receive",
                               "send", "unlock", "exited"}]
        /\ pc["server"] \notin {"open", "send"}
        /\ \A l \in Lines : pc[l] \notin {"attach", "receive"}
    OBVIOUS
  <2>2. queue \in Seq(Threads)
    OBVIOUS
  <2>3. instruction \in [type : HeaderKinds, cmd : Nat]
    BY DEF HeaderKinds
  <2> QED
    BY <2>1, <2>2, <2>3 DEF TypeOK
<1>2. Ownership /\ QueueInv /\ OwedInv /\ BufferInv
  BY DEF Ownership, QueueInv, OwedInv, BufferInv
<1> QED
  BY <1>1, <1>2 DEF IInv

\* Nobody is blocked on a free mutex, so no line is owed a turn.
LEMMA NoneOwedWhenFree ==
  ASSUME IInv, mutex = "free"
  PROVE  owed = {}
<1>1. \A l \in Lines : pc[l] \notin {"send", "exited"}
  BY LinesAssumption DEF IInv, Ownership, Threads
<1>2. 1..Len(queue) = {}
  <2>1. queue = <<>>
    BY DEF IInv, QueueInv
  <2> QED
    BY <2>1
<1>3. \A l \in Lines : pc[l] # "blocked"
  BY <1>2 DEF IInv, QueueInv, Threads
<1> QED
  BY <1>1, <1>3 DEF IInv, TypeOK, OwedInv

LEMMA LockStep ==
  ASSUME IInv, NEW t \in Threads, Lock(t)
  PROVE  IInv'
<1> USE LinesAssumption DEF IInv, Threads
<1>1. TypeOK'
  BY DEF Lock, Goto, Inside, TypeOK
<1>2. Ownership'
  BY DEF Lock, Goto, Inside, TypeOK, Ownership
<1>3. QueueInv'
  BY DEF Lock, Goto, Inside, TypeOK, Ownership, QueueInv
<1>4. mutex' = "server" => owed' = {}
  <2>1. CASE mutex = t
    BY <2>1 DEF Lock, OwedInv
  <2>2. CASE mutex = "free"
    BY <2>2, NoneOwedWhenFree DEF Lock
  <2> QED
    BY <2>1, <2>2 DEF Lock
<1>5. OwedInv'
  <2>1. \A l \in owed : pc'[l] \in {"blocked", "send", "exited"}
    BY DEF Lock, Goto, TypeOK, OwedInv
  <2> QED
    BY <1>4, <2>1 DEF Lock, OwedInv
<1>6. BufferInv'
  BY DEF Lock, Goto, Inside, TypeOK, BufferInv
<1> QED
  BY <1>1, <1>2, <1>3, <1>5, <1>6

LEMMA BlockStep ==
  ASSUME IInv, NEW t \in Threads, Block(t)
  PROVE  IInv'
<1> USE LinesAssumption DEF IInv, Threads
<1>1. /\ queue \in Seq(Threads) /\ queue' \in Seq(Threads)
      /\ Len(queue) \in Nat /\ Len(queue') = Len(queue) + 1
      /\ \A i \in 1..Len(queue) : queue'[i] = queue[i]
      /\ queue'[Len(queue) + 1] = t
  BY AppendProperties DEF Block, TypeOK
<1>2. /\ pc[t] = "lock" /\ mutex \notin {"free", t}
      /\ pc' = [pc EXCEPT ![t] = "blocked"]
      /\ mutex' = mutex /\ owed' = owed
  BY DEF Block, Goto
<1>3. TypeOK'
  BY <1>1 DEF Block, Goto, TypeOK
<1>4. Ownership'
  BY <1>2 DEF TypeOK, Ownership
<1>5. QueueInv'
  <2>1. \A i \in 1..Len(queue') : pc'[queue'[i]] = "blocked"
    BY <1>1, <1>2 DEF TypeOK, QueueInv
  <2>2. \A i \in 1..Len(queue) : queue[i] # t
    BY <1>2 DEF QueueInv
  <2>3. \A i, j \in 1..Len(queue') : queue'[i] = queue'[j] => i = j
    BY <1>1, <2>2 DEF QueueInv
  <2>4. \A u \in Threads : pc'[u] = "blocked"
          => \E i \in 1..Len(queue') : queue'[i] = u
    <3> SUFFICES ASSUME NEW u \in Threads, pc'[u] = "blocked"
                 PROVE  \E i \in 1..Len(queue') : queue'[i] = u
      OBVIOUS
    <3>1. CASE u = t
      BY <1>1, <3>1
    <3>2. CASE u # t
      <4>1. PICK i \in 1..Len(queue) : queue[i] = u
        BY <1>2, <3>2 DEF TypeOK, QueueInv
      <4> QED
        BY <1>1, <4>1
    <3> QED
      BY <3>1, <3>2
  <2> QED
    BY <1>2, <2>1, <2>3, <2>4 DEF QueueInv
<1>6. OwedInv'
  <2>1. t \notin owed
    BY <1>2 DEF TypeOK, OwedInv
  <2>2. \A l \in owed : pc'[l] \in {"blocked", "send", "exited"}
    BY <1>2, <2>1 DEF TypeOK, OwedInv
  <2>3. ASSUME NEW i \in 1..Len(queue'), NEW j \in 1..Len(queue'),
               queue'[i] = "server", queue'[j] \in owed
        PROVE  j < i
    <3>1. j \in 1..Len(queue) /\ queue[j] \in owed
      BY <1>1, <2>1, <2>3
    <3>2. CASE i = Len(queue) + 1
      BY <1>1, <3>1, <3>2
    <3>3. CASE i \in 1..Len(queue)
      BY <1>1, <2>3, <3>1, <3>3 DEF OwedInv
    <3> QED
      BY <1>1, <3>2, <3>3
  <2> QED
    BY <1>2, <2>2, <2>3 DEF OwedInv
<1>7. BufferInv'
  BY <1>2 DEF Block, TypeOK, BufferInv
<1> QED
  BY <1>3, <1>4, <1>5, <1>6, <1>7

\* The hand-over of the mutex, with the new set of owed lines.
LEMMA UnlockStep ==
  ASSUME IInv, NEW t \in Threads, Unlock(t)
  PROVE  IInv'
<1> USE LinesAssumption DEF IInv, Threads
<1>1. pc[t] = "unlock" /\ mutex = t
  BY DEF Unlock, Ownership
<1>2. /\ instruction.type \notin {"connect", "io"}
      /\ instruction' = instruction /\ received' = received /\ seen' = seen
  BY <1>1 DEF Unlock, BufferInv
<1>3. owed' \subseteq Lines
  BY DEF Unlock, BlockedLines, TypeOK
<1>4. CASE queue = <<>>
  <2>1. /\ mutex' = "free" /\ queue' = queue /\ pc' = [pc EXCEPT ![t] = "lock"]
    BY <1>4 DEF Unlock, Release, Goto
  <2>2. TypeOK'
    BY <1>2, <1>3, <2>1 DEF TypeOK
  <2>3. Ownership'
    BY <1>1, <2>1 DEF TypeOK, Ownership
  <2>4. Len(queue) = 0
    BY <1>4
  <2>5. QueueInv'
    BY <1>1, <1>4, <2>1, <2>4 DEF TypeOK, QueueInv
  <2>6. owed' = {}
    <3>1. CASE t = "server"
      BY <1>4, <3>1 DEF Unlock, BlockedLines, Range
    <3>2. CASE t # "server"
      <4>0. 1..Len(queue) = {}
        BY <2>4
      <4>1. \A l \in Lines : pc[l] # "blocked"
        BY <4>0 DEF QueueInv
      <4>2. \A l \in Lines : pc[l] \notin {"send", "exited"}
        BY <1>1 DEF Ownership
      <4> QED
        BY <3>2, <4>1, <4>2 DEF Unlock, OwedInv, TypeOK
    <3> QED
      BY <3>1, <3>2
  <2>7. OwedInv' /\ BufferInv'
    BY <1>2, <1>4, <2>1, <2>4, <2>6 DEF OwedInv, BufferInv
  <2> QED
    BY <2>2, <2>3, <2>5, <2>7
<1>5. CASE queue # <<>>
  <2> DEFINE h == Head(queue)
  <2>1. /\ h = queue[1] /\ h \in Threads
        /\ queue' \in Seq(Threads)
        /\ Len(queue) \in Nat /\ Len(queue) >= 1
        /\ Len(queue') = Len(queue) - 1
        /\ \A i \in 1..Len(queue') : queue'[i] = queue[i + 1]
    <3>1. queue \in Seq(Threads) /\ queue' = Tail(queue)
      BY <1>5 DEF Unlock, Release, TypeOK
    <3>2. Len(queue) \in Nat /\ Len(queue) >= 1 /\ h = queue[1]
      BY <1>5, <3>1
    <3> HIDE DEF h
    <3>3. queue[1] \in Threads
      BY <3>1, <3>2
    <3> QED
      BY <1>5, <3>1, <3>2, <3>3, HeadTailProperties
  <2>2. mutex' = h /\ pc' = [pc EXCEPT ![t] = "lock", ![h] = Inside(h)]
    BY <1>5 DEF Unlock, Release
  <2>3. pc[h] = "blocked" /\ h # t
    BY <1>1, <2>1 DEF QueueInv
  <2>4. \A i \in 1..Len(queue') : queue'[i] # h
    BY <2>1 DEF QueueInv
  <2> HIDE DEF h
  <2>5. TypeOK'
    BY <1>2, <1>3, <2>1, <2>2 DEF TypeOK, Inside
  <2>6. Ownership'
    <3>1. \A u \in Threads : pc'[u] \in {"receive", "send", "unlock"} => u = h
      BY <1>1, <2>1, <2>2 DEF TypeOK, Ownership
    <3>2. \A l \in Lines : pc'[l] # "exited"
      BY <1>1, <2>1, <2>2 DEF TypeOK, Ownership, Inside
    <3> QED
      BY <2>1, <2>2, <3>1, <3>2 DEF TypeOK, Ownership, Inside
  <2>7. QueueInv'
    <3>1. ASSUME NEW i \in 1..Len(queue')
          PROVE  pc'[queue'[i]] = "blocked"
      <4>1. pc[queue'[i]] = "blocked" /\ queue'[i] \in Threads
        BY <2>1 DEF QueueInv, TypeOK
      <4> QED
        BY <1>1, <2>2, <2>4, <4>1 DEF TypeOK
    <3>2. \A i, j \in 1..Len(queue') : queue'[i] = queue'[j] => i = j
      BY <2>1 DEF QueueInv
    <3>3. \A u \in Threads : pc'[u] = "blocked"
            => \E i \in 1..Len(queue') : queue'[i] = u
      <4> SUFFICES ASSUME NEW u \in Threads, pc'[u] = "blocked"
                   PROVE  \E i \in 1..Len(queue') : queue'[i] = u
        OBVIOUS
      <4>1. pc[u] = "blocked" /\ u # h
        BY <2>1, <2>2 DEF TypeOK, Inside
      <4>2. PICK i \in 1..Len(queue) : queue[i] = u
        BY <4>1 DEF QueueInv
      <4>3. i # 1 /\ i - 1 \in 1..Len(queue') /\ queue'[i - 1] = u
        BY <2>1, <4>1, <4>2
      <4> QED
        BY <4>3
    <3> QED
      BY <2>1, <2>2, <3>1, <3>2, <3>3 DEF QueueInv
  <2>8. OwedInv'
    <3>1. CASE t = "server"
      <4>1. owed' = Lines \cap Range(queue)
        BY <3>1 DEF Unlock, BlockedLines
      <4>2. \A l \in owed' : pc[l] = "blocked"
        BY <4>1, <2>1 DEF Range, QueueInv, TypeOK
      <4>3. h # "server" /\ \A i \in 1..Len(queue) : queue[i] # "server"
        BY <1>1, <2>3, <3>1 DEF QueueInv
      <4>4. \A l \in owed' : pc'[l] \in {"blocked", "send"}
        BY <1>1, <1>3, <2>1, <2>2, <3>1, <4>2 DEF TypeOK, Inside
      <4>5. \A i \in 1..Len(queue') : queue'[i] # "server"
        BY <2>1, <4>3
      <4> QED
        BY <2>2, <4>3, <4>4, <4>5 DEF OwedInv
    <3>2. CASE t # "server"
      <4>1. owed' = owed
        BY <3>2 DEF Unlock
      <4>2. \A l \in owed : pc[l] = "blocked"
        BY <1>1, <2>1 DEF OwedInv, Ownership, TypeOK
      <4>3. \A l \in owed : pc'[l] \in {"blocked", "send"}
        BY <1>1, <2>1, <2>2, <4>2 DEF TypeOK, Inside
      <4>4. h = "server" => owed = {}
        <5>1. ASSUME NEW l \in owed, h = "server" PROVE FALSE
          <6>1. PICK j \in 1..Len(queue) : queue[j] = l
            BY <4>2, <5>1 DEF QueueInv, TypeOK
          <6>2. 1 \in 1..Len(queue) /\ queue[1] = "server" /\ queue[j] \in owed
            BY <2>1, <5>1, <6>1
          <6>3. j < 1
            BY <6>2 DEF OwedInv
          <6> QED
            BY <6>3
        <5> QED
          BY <5>1
      <4>5. ASSUME NEW i \in 1..Len(queue'), NEW j \in 1..Len(queue'),
                   queue'[i] = "server", queue'[j] \in owed
            PROVE  j < i
        BY <2>1, <4>5 DEF OwedInv
      <4> QED
        BY <2>2, <4>1, <4>3, <4>4, <4>5 DEF OwedInv
    <3> QED
      BY <3>1, <3>2
  <2>9. BufferInv'
    BY <1>2 DEF BufferInv
  <2> QED
    BY <2>5, <2>6, <2>7, <2>8, <2>9
<1> QED
  BY <1>4, <1>5

\* Every other step leaves the queue alone.
LEMMA StepPreserves == IInv /\ [Next]_vars => IInv'
<1> SUFFICES ASSUME IInv, [Next]_vars PROVE IInv'
  OBVIOUS
<1> USE LinesAssumption DEF IInv, Threads, Goto
<1>1. CASE ServerAttach
  <2>1. PICK label \in {"lock", "exited"} : pc' = [pc EXCEPT !["server"] = label]
    BY <1>1 DEF ServerAttach
  <2>2. TypeOK'
    BY <1>1, <2>1 DEF ServerAttach, TypeOK
  <2>3. Ownership'
    BY <1>1, <2>1 DEF ServerAttach, TypeOK, Ownership
  <2>4. QueueInv' /\ OwedInv' /\ BufferInv'
    BY <1>1, <2>1 DEF ServerAttach, TypeOK, QueueInv, OwedInv, BufferInv
  <2> QED
    BY <2>2, <2>3, <2>4
<1>2. CASE ServerReceiveCommand
  <2>1. instruction' \in [type : HeaderKinds, cmd : Nat] /\ received' \in Nat
    BY <1>2 DEF ServerReceiveCommand, TypeOK, HeaderKinds
  <2>2. TypeOK'
    BY <1>2, <2>1 DEF ServerReceiveCommand, TypeOK
  <2>3. Ownership' /\ QueueInv' /\ OwedInv' /\ BufferInv'
    BY <1>2 DEF ServerReceiveCommand, TypeOK, Ownership, QueueInv, OwedInv,
                BufferInv
  <2> QED
    BY <2>2, <2>3
<1>3. CASE ServerReceiveIO
  <2>1. TypeOK'
    BY <1>3 DEF ServerReceiveIO, TypeOK, HeaderKinds
  <2>2. Ownership' /\ QueueInv' /\ OwedInv' /\ BufferInv'
    BY <1>3 DEF ServerReceiveIO, TypeOK, Ownership, QueueInv, OwedInv, BufferInv
  <2> QED
    BY <2>1, <2>2
<1>4. CASE ServerReceivePulse
  <2>1. TypeOK'
    BY <1>4 DEF ServerReceivePulse, TypeOK, HeaderKinds
  <2>2. Ownership' /\ QueueInv' /\ OwedInv'
    BY <1>4 DEF ServerReceivePulse, TypeOK, Ownership, QueueInv, OwedInv
  <2>3. BufferInv'
    BY <1>4 DEF ServerReceivePulse, TypeOK, BufferInv
  <2> QED
    BY <2>1, <2>2, <2>3
<1>5. CASE ServerReceiveFail
  BY <1>5 DEF ServerReceiveFail, TypeOK, Ownership, QueueInv, OwedInv, BufferInv
<1>6. ASSUME NEW l \in Lines, ClientOpen(l) PROVE IInv'
  BY <1>6 DEF ClientOpen, TypeOK, Ownership, QueueInv, OwedInv, BufferInv
<1>7. ASSUME NEW l \in Lines, ClientSend(l) PROVE IInv'
  <2>1. seen' \in [Lines -> Nat]
    BY <1>7 DEF ClientSend, TypeOK
  <2>2. TypeOK'
    BY <1>7, <2>1 DEF ClientSend, TypeOK
  <2>3. Ownership' /\ QueueInv' /\ OwedInv' /\ BufferInv'
    BY <1>7 DEF ClientSend, TypeOK, Ownership, QueueInv, OwedInv, BufferInv
  <2> QED
    BY <2>2, <2>3
<1>8. ASSUME NEW l \in Lines, ClientSendFail(l) PROVE IInv'
  <2>1. TypeOK' /\ Ownership' /\ BufferInv'
    BY <1>8 DEF ClientSendFail, TypeOK, Ownership, BufferInv
  <2>2. QueueInv' /\ OwedInv'
    BY <1>8 DEF ClientSendFail, TypeOK, Ownership, QueueInv, OwedInv
  <2> QED
    BY <2>1, <2>2
<1>9. CASE UNCHANGED vars
  BY <1>9 DEF vars, TypeOK, Ownership, QueueInv, OwedInv, BufferInv
<1>10. ASSUME NEW t \in Threads, Lock(t) \/ Block(t) \/ Unlock(t) PROVE IInv'
  BY <1>10, LockStep, BlockStep, UnlockStep
<1> QED
  BY <1>1, <1>2, <1>3, <1>4, <1>5, <1>6, <1>7, <1>8, <1>9, <1>10
     DEF Next, ServerReceive

\* The strengthened invariant holds in every state X1 can reach.
THEOREM Invariance == Spec => []IInv
  BY InitEstablishes, StepPreserves, PTL DEF Spec

\* Every variable of X1 keeps its type.
THEOREM TypeCorrect == Spec => []TypeOK
  BY Invariance, PTL DEF IInv

\* Hand-over in order means that every line that was waiting for the mutex is
\* served between two messages that the server receives (l. 149-184).
THEOREM LinesGetTheirTurn == Spec => []NoLineOvertaken
<1>1. IInv => NoLineOvertaken
  BY DEF IInv, Ownership, OwedInv, NoLineOvertaken, Threads
<1> QED
  BY <1>1, Invariance, PTL

\* No header of a connection request or a rejected I/O message reaches a line.
THEOREM ForeignHeadersStay == Spec => []NoForeignHeader
<1>1. IInv => NoForeignHeader
  BY LinesAssumption DEF IInv, TypeOK, Ownership, BufferInv, NoForeignHeader,
                         Threads, HeaderKinds
<1> QED
  BY <1>1, Invariance, PTL

\* A line's client that died with the mutex (l. 222-224) stops the others.
THEOREM DeadLineIsFatal == Spec => DeadLineStopsAll
<1>1. ASSUME IInv, [Next]_vars, NEW l \in Lines, pc[l] = "exited"
      PROVE  UNCHANGED <<received, seen>>
  <2>1. mutex = l /\ l # "server"
    BY <1>1, LinesAssumption DEF IInv, Ownership
  <2>2. pc["server"] # "receive" /\ \A m \in Lines : pc[m] # "send"
    BY <1>1, <2>1 DEF IInv, Ownership, Threads
  <2> QED
    BY <1>1, <2>2 DEF Next, vars, Lock, Block, Unlock, ServerAttach,
       ServerReceive, ServerReceiveCommand, ServerReceiveIO,
       ServerReceivePulse, ServerReceiveFail, ClientOpen, ClientSend,
       ClientSendFail
<1>2. IInv /\ [Next]_vars =>
        ((\E l \in Lines : pc[l] = "exited") => UNCHANGED <<received, seen>>)
  BY <1>1
<1> QED
  BY <1>2, Invariance, PTL DEF Spec, DeadLineStopsAll

\* X1 implements the latest-value relay.
THEOREM ImplementsLatest == Spec => LatestSpec
<1>1. Init => Latest!Init
  BY DEF Init, Latest!Init
<1>2. IInv /\ [Next]_vars => [Latest!Next]_(Latest!vars)
  <2> SUFFICES ASSUME IInv, [Next]_vars PROVE [Latest!Next]_(Latest!vars)
    OBVIOUS
  <2>1. CASE ServerReceiveCommand
    BY <2>1 DEF ServerReceiveCommand, Latest!Arrive, Latest!Next
  <2>2. ASSUME NEW l \in Lines, ClientSend(l) PROVE Latest!Show(l)
    BY <2>2 DEF ClientSend, Latest!Show, IInv, BufferInv
  <2>3. ASSUME Next, ~ServerReceiveCommand, \A l \in Lines : ~ClientSend(l)
        PROVE  UNCHANGED <<received, seen>>
    BY <2>3 DEF Next, Lock, Block, Unlock, ServerAttach, ServerReceive,
       ServerReceiveIO, ServerReceivePulse, ServerReceiveFail, ClientOpen,
       ClientSendFail
  <2> QED
    BY <2>1, <2>2, <2>3 DEF vars, Latest!Next, Latest!vars
<1> QED
  BY <1>1, <1>2, Invariance, PTL DEF Spec, LatestSpec, Latest!Spec
=============================================================================
