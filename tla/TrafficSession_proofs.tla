----------------------- MODULE TrafficSession_proofs -----------------------
(***************************************************************************)
(* Proofs about TrafficSession, for every set of clients and of faults and *)
(* any number of phases, servers and starts.                               *)
(***************************************************************************)
EXTENDS TrafficSession, TLAPS

LEMMA InitEstablishes == Init => IInv
  BY DEF Init, IInv, TypeOK, ServerInv, ClientInv, ConnInv, QueueInv, DisplayInv,
     Up, DelayOf, States, Off, MessageOf

\* A message is not a pulse, and names its sender.
LEMMA EntriesDiffer ==
  \A c, d : /\ MessageOf(c) # PulseOf(d)
            /\ MessageOf(c) = MessageOf(d) => c = d
            /\ PulseOf(c) = PulseOf(d) => c = d
<1> TAKE c, d
<1>1. /\ MessageOf(c).kind = "state" /\ MessageOf(c).from = c
      /\ PulseOf(c).kind = "disconnect" /\ PulseOf(c).from = c
      /\ MessageOf(d).from = d
      /\ PulseOf(d).kind = "disconnect" /\ PulseOf(d).from = d
  BY DEF MessageOf, PulseOf
<1> QED
  BY <1>1

\* What arrives goes to the end of the queue.
LEMMA AppendEntry ==
  ASSUME NEW S, NEW q \in Seq(S), NEW e \in S
  PROVE  /\ Append(q, e) \in Seq(S)
         /\ Len(Append(q, e)) = Len(q) + 1
         /\ Append(q, e)[Len(q) + 1] = e
         /\ \A i \in 1..Len(q) : Append(q, e)[i] = q[i]
  OBVIOUS

\* What is received is taken from the front.
LEMMA TailEntry ==
  ASSUME NEW S, NEW q \in Seq(S), q # <<>>
  PROVE  /\ Head(q) = q[1] /\ Len(q) \in Nat /\ 1 \in 1..Len(q)
         /\ Tail(q) \in Seq(S)
         /\ Len(Tail(q)) = Len(q) - 1
         /\ \A i \in 1..Len(Tail(q)) : i + 1 \in 1..Len(q) /\ Tail(q)[i] = q[i + 1]
  OBVIOUS

\* The state machine sets the delay that belongs to the next state.
LEMMA MachineStep ==
  ASSUME NEW r \in States, NEW d, d = DelayOf(r)
  PROVE  LET n == singlestep_trafficlight_statemachine_send(r, d)
         IN  /\ n \in [state : States, delay : 1..2]
             /\ n.delay = DelayOf(n.state)
             /\ n.state = FollowingState(r)
  BY DEF singlestep_trafficlight_statemachine_send, DelayOf, FollowingState, States, Off

Entries == [kind : {"state", "disconnect"}, from : Clients]

-----------------------------------------------------------------------------
(* The steps of the server.                                                *)

LEMMA OpenPreserves == IInv /\ ServerOpen => IInv'
  BY DEF IInv, ServerOpen, TypeOK, ServerInv, ClientInv, ConnInv, QueueInv, DisplayInv,
     Up, Left, client

LEMMA WritePreserves == IInv /\ ServerWrite => IInv'
<1> SUFFICES ASSUME IInv, ServerWrite PROVE IInv'
  OBVIOUS
<1> USE DEF IInv, ServerWrite, client
<1>1. TypeOK'
  BY DEF TypeOK
<1>2. ServerInv' /\ ClientInv'
  BY DEF TypeOK, ServerInv, ClientInv, Up
<1>3. ConnInv'
  BY DEF TypeOK, ConnInv
<1>4. QueueInv'
  BY DEF ServerInv, QueueInv, Up
<1>5. DisplayInv'
  <2>1. CASE srv' = "off"
    BY <2>1 DEF DisplayInv, Up
  <2>2. CASE srv' = "receive"
    <3>1. channel' = channel + 1 /\ shown' = [c \in Clients |-> Off]
      BY <2>2
    <3>2. \A c \in Clients : conn'[c] # channel' /\ shown'[c] = Off
      BY <3>1 DEF TypeOK, ConnInv
    <3> QED
      BY <3>2 DEF DisplayInv
  <2> QED
    BY <2>1, <2>2
<1> QED
  BY <1>1, <1>2, <1>3, <1>4, <1>5

LEMMA EndPreserves ==
  IInv /\ (ServerReceivePulse \/ ServerReceiveFail) => IInv'
<1> SUFFICES ASSUME IInv, ServerReceivePulse \/ ServerReceiveFail PROVE IInv'
  OBVIOUS
<1>1. /\ srv = "receive" /\ srv' = "off" /\ queue' = <<>>
      /\ UNCHANGED <<channel, file, message, shown, client>>
  BY DEF ServerReceivePulse, ServerReceiveFail
<1>2. TypeOK'
  BY <1>1 DEF IInv, TypeOK, client
<1>3. ServerInv' /\ ClientInv' /\ ConnInv'
  BY <1>1 DEF IInv, ServerInv, ClientInv, ConnInv, Up, client
<1>4. QueueInv' /\ DisplayInv'
  BY <1>1 DEF QueueInv, DisplayInv, Up
<1> QED
  BY <1>2, <1>3, <1>4 DEF IInv

\* A state that is received is the one after the state that is shown.
LEMMA ReceivedStateFollows ==
  ASSUME IInv, NEW c \in Clients, ServerReceiveState(c)
  PROVE  /\ cpc[c] = "blocked" /\ conn[c] = channel /\ ~Left(c)
         /\ next[c].state = FollowingState(shown[c])
<1>1. queue \in Seq(Entries) /\ queue # <<>>
  BY DEF IInv, TypeOK, Entries, ServerReceiveState
<1>2. 1 \in 1..Len(queue) /\ queue[1] = MessageOf(c)
  BY <1>1, TailEntry DEF ServerReceiveState, MessageOf
<1>3. /\ cpc[c] = "blocked" /\ conn[c] = channel
      /\ \A j \in 1..Len(queue) : queue[j] = PulseOf(c) => j < 1
  BY <1>2 DEF IInv, QueueInv
<1>4. ~Left(c)
  BY <1>3 DEF Left
<1> QED
  BY <1>3, <1>4 DEF IInv, DisplayInv, ServerReceiveState, Up

LEMMA ReceiveStatePreserves ==
  ASSUME IInv, NEW c \in Clients, ServerReceiveState(c)
  PROVE  IInv'
<1> USE DEF IInv, ServerReceiveState
<1>1. queue \in Seq(Entries) /\ queue # <<>>
  BY DEF TypeOK, Entries
<1>2. /\ Len(queue) \in Nat
      /\ queue' \in Seq(Entries)
      /\ Len(queue') = Len(queue) - 1
      /\ \A i \in 1..Len(queue') : i + 1 \in 1..Len(queue) /\ queue'[i] = queue[i + 1]
      /\ 1 \in 1..Len(queue) /\ queue[1] = MessageOf(c)
  BY <1>1, TailEntry DEF MessageOf
<1>3. TypeOK'
  <2>1. next[c] \in [state : States, delay : 1..2]
    BY DEF TypeOK
  <2>2. message' \in [from : Clients \cup {NoBody}, state : States \cup {Off}, delay : 0..2]
    BY <2>1 DEF States
  <2>3. shown' \in [Clients -> States \cup {Off}]
    BY <2>1 DEF TypeOK
  <2> QED
    BY <1>2, <2>2, <2>3 DEF TypeOK, Entries
<1>4. ServerInv'
  <2>1. ASSUME NEW d \in Clients, cpc'[d] = "served" PROVE d = c
    BY <2>1 DEF TypeOK, ServerInv
  <2> QED
    BY <2>1, ReceivedStateFollows DEF TypeOK, ServerInv, Up
<1>5. ClientInv' /\ ConnInv'
  BY DEF TypeOK, ClientInv, ConnInv
<1>6. QueueInv'
  <2> SUFFICES ASSUME NEW i \in 1..Len(queue'), NEW d \in Clients,
                      queue'[i] = MessageOf(d)
               PROVE  /\ cpc'[d] = "blocked" /\ conn'[d] = channel'
                      /\ \A j \in 1..Len(queue') :
                           /\ queue'[j] = MessageOf(d) => j = i
                           /\ queue'[j] = PulseOf(d) => j < i
    BY DEF QueueInv
  <2>1. i \in Nat /\ i + 1 \in 1..Len(queue) /\ queue[i + 1] = MessageOf(d)
    BY <1>2
  <2>2. /\ cpc[d] = "blocked" /\ conn[d] = channel
        /\ \A j \in 1..Len(queue) :
             /\ queue[j] = MessageOf(d) => j = i + 1
             /\ queue[j] = PulseOf(d) => j < i + 1
    BY <2>1 DEF QueueInv
  <2>3. d # c
    BY <1>2, <2>1, <2>2
  <2>4. \A j \in 1..Len(queue') :
           /\ queue'[j] = MessageOf(d) => j = i
           /\ queue'[j] = PulseOf(d) => j < i
    BY <1>2, <2>1, <2>2
  <2> QED
    BY <2>2, <2>3, <2>4 DEF TypeOK
<1>7. DisplayInv'
  <2>1. ASSUME NEW d \in Clients, ~Left(d)' PROVE ~Left(d)
    <3>1. ASSUME NEW j \in 1..Len(queue), queue[j] = PulseOf(d) PROVE FALSE
      <4>1. j # 1
        BY <1>2, <3>1, EntriesDiffer
      <4>2. j - 1 \in 1..Len(queue') /\ queue'[j - 1] = queue[j]
        BY <1>2, <4>1
      <4> QED
        BY <2>1, <3>1, <4>2 DEF Left
    <3> QED
      BY <3>1 DEF Left
  <2>2. ASSUME NEW d \in Clients, d # c
        PROVE  cpc'[d] = cpc[d] /\ shown'[d] = shown[d]
    BY <2>2 DEF TypeOK
  <2>3. cpc'[c] = "served" /\ shown'[c] = next[c].state /\ conn[c] = channel
    BY ReceivedStateFollows DEF TypeOK
  <2> QED
    BY <2>1, <2>2, <2>3 DEF DisplayInv, Up
<1> QED
  BY <1>3, <1>4, <1>5, <1>6, <1>7

LEMMA ReplyPreserves == IInv /\ ServerReply => IInv'
<1> SUFFICES ASSUME IInv, ServerReply PROVE IInv'
  OBVIOUS
<1> USE DEF IInv, ServerReply
<1> DEFINE c == message.from
<1>1. /\ c \in Clients /\ cpc[c] = "served" /\ conn[c] = channel
      /\ message.state = next[c].state
  BY DEF ServerInv
<1>2. TypeOK'
  BY <1>1 DEF TypeOK
<1>3. ServerInv'
  BY <1>1 DEF TypeOK, ServerInv, Up
<1>4. ClientInv' /\ ConnInv'
  BY <1>1 DEF TypeOK, ClientInv, ConnInv
<1>5. QueueInv'
  <2>1. /\ UNCHANGED <<queue, channel>>
        /\ \A d \in Clients : cpc[d] = "blocked" =>
                                 cpc'[d] = "blocked" /\ conn'[d] = conn[d]
    BY <1>1 DEF TypeOK
  <2> QED
    BY <2>1 DEF QueueInv
<1>6. DisplayInv'
  BY <1>1 DEF TypeOK, DisplayInv, Up, Left
<1> QED
  BY <1>2, <1>3, <1>4, <1>5, <1>6

-----------------------------------------------------------------------------
(* The steps of a client.                                                  *)

LEMMA StartPreserves == IInv /\ (\E c \in Clients : ClientStart(c)) => IInv'
<1> SUFFICES ASSUME IInv, NEW c \in Clients, ClientStart(c) PROVE IInv'
  OBVIOUS
<1> USE DEF IInv, ClientStart, server
<1>1. TypeOK'
  BY DEF TypeOK, States, Off
<1>2. ServerInv' /\ ClientInv' /\ ConnInv'
  BY DEF TypeOK, ServerInv, ClientInv, ConnInv, DelayOf, Up
<1>3. QueueInv'
  <2>1. /\ UNCHANGED <<queue, channel>>
        /\ \A d \in Clients : cpc[d] = "blocked" =>
                                 cpc'[d] = "blocked" /\ conn'[d] = conn[d]
    BY DEF TypeOK
  <2> QED
    BY <2>1 DEF QueueInv
<1>4. DisplayInv'
  BY DEF TypeOK, DisplayInv, Up, Left
<1> QED
  BY <1>1, <1>2, <1>3, <1>4

LEMMA AttachPreserves == IInv /\ (\E c \in Clients : ClientAttach(c)) => IInv'
<1> SUFFICES ASSUME IInv, NEW c \in Clients, ClientAttach(c) PROVE IInv'
  OBVIOUS
<1> USE DEF IInv, ClientAttach, server
<1>1. TypeOK'
  BY DEF TypeOK
<1>2. ServerInv' /\ ClientInv' /\ ConnInv'
  <2>1. ServerInv'
    <3>1. srv = "reply" => message.from # c
      BY DEF ServerInv
    <3> QED
      BY <3>1 DEF TypeOK, ServerInv, Up
  <2>2. ClientInv'
    BY DEF TypeOK, ClientInv
  <2>3. ConnInv'
    <3>1. \A d \in Clients : conn'[d] \in {conn[d], 0}
      BY DEF TypeOK
    <3> QED
      BY <3>1 DEF TypeOK, ConnInv
  <2> QED
    BY <2>1, <2>2, <2>3
<1>3. QueueInv'
  <2>1. /\ UNCHANGED <<queue, channel>>
        /\ \A d \in Clients : cpc[d] = "blocked" =>
                                 cpc'[d] = "blocked" /\ conn'[d] = conn[d]
    BY DEF TypeOK
  <2> QED
    BY <2>1 DEF QueueInv
<1>4. DisplayInv'
  <2>1. next[c].state = 0 /\ FollowingState(Off) = 0
    BY DEF ClientInv, FollowingState
  <2>2. Up /\ ~Left(c) => shown[c] = Off
    BY DEF DisplayInv
  <2>3. Up => channel # 0
    BY DEF TypeOK, ServerInv
  <2>4. conn'[c] = conn[c] \/ conn'[c] = 0
    BY DEF TypeOK
  <2>5. \A d \in Clients : d # c => cpc'[d] = cpc[d] /\ conn'[d] = conn[d]
    BY DEF TypeOK
  <2>6. cpc'[c] = "send" /\ Up' = Up /\ \A d \in Clients : Left(d)' = Left(d)
    BY DEF TypeOK, Up, Left
  <2> QED
    BY <2>1, <2>2, <2>3, <2>4, <2>5, <2>6 DEF DisplayInv
<1> QED
  BY <1>1, <1>2, <1>3, <1>4

LEMMA SendPreserves == IInv /\ (\E c \in Clients : ClientSend(c)) => IInv'
<1> SUFFICES ASSUME IInv, NEW c \in Clients, ClientSend(c) PROVE IInv'
  OBVIOUS
<1> USE DEF IInv, ClientSend, server
<1> DEFINE n == Len(queue)
<1>1. /\ n \in Nat /\ queue' \in Seq(Entries) /\ Len(queue') = n + 1
      /\ queue'[n + 1] = MessageOf(c)
      /\ \A i \in 1..n : queue'[i] = queue[i]
  <2>1. queue \in Seq(Entries) /\ MessageOf(c) \in Entries
    BY DEF TypeOK, Entries, MessageOf
  <2> QED
    BY <2>1, AppendEntry DEF MessageOf
<1>2. Up /\ cpc[c] = "send" /\ conn[c] = channel
  BY DEF Connected, Up
<1>3. TypeOK'
  BY <1>1 DEF TypeOK, Entries
<1>4. ServerInv' /\ ClientInv' /\ ConnInv'
  BY <1>2 DEF TypeOK, ServerInv, ClientInv, ConnInv, Up
<1>5. QueueInv'
  <2> SUFFICES ASSUME NEW i \in 1..(n + 1), NEW d \in Clients, queue'[i] = MessageOf(d)
               PROVE  /\ cpc'[d] = "blocked" /\ conn'[d] = channel'
                      /\ \A j \in 1..(n + 1) :
                           /\ queue'[j] = MessageOf(d) => j = i
                           /\ queue'[j] = PulseOf(d) => j < i
    BY <1>1 DEF QueueInv
  <2>1. CASE i = n + 1
    <3>1. d = c
      BY <1>1, <2>1, EntriesDiffer
    <3>2. \A j \in 1..n : queue[j] # MessageOf(c)
      BY <1>2 DEF QueueInv
    <3>3. queue'[n + 1] # PulseOf(c)
      BY <1>1, EntriesDiffer
    <3> QED
      BY <1>1, <1>2, <2>1, <3>1, <3>2, <3>3 DEF TypeOK
  <2>2. CASE i \in 1..n
    <3>1. /\ cpc[d] = "blocked" /\ conn[d] = channel
          /\ \A j \in 1..n : /\ queue[j] = MessageOf(d) => j = i
                             /\ queue[j] = PulseOf(d) => j < i
      BY <1>1, <2>2 DEF QueueInv
    <3>2. d # c
      BY <1>2, <3>1
    <3>3. queue'[n + 1] # MessageOf(d) /\ queue'[n + 1] # PulseOf(d)
      BY <1>1, <3>2, EntriesDiffer
    <3>4. cpc'[d] = "blocked" /\ conn'[d] = channel'
      BY <3>1, <3>2 DEF TypeOK
    <3>5. \A j \in 1..(n + 1) : j \in 1..n \/ j = n + 1
      BY <1>1
    <3> QED
      BY <1>1, <3>1, <3>3, <3>4, <3>5
  <2> QED
    BY <1>1, <2>1, <2>2
<1>6. DisplayInv'
  <2>1. ASSUME NEW d \in Clients, ~Left(d)' PROVE ~Left(d)
    BY <1>1, <2>1 DEF Left
  <2> QED
    BY <1>2, <2>1 DEF TypeOK, DisplayInv, Up
<1> QED
  BY <1>3, <1>4, <1>5, <1>6

LEMMA StepPreserves == IInv /\ (\E c \in Clients : ClientStep(c)) => IInv'
<1> SUFFICES ASSUME IInv, NEW c \in Clients, ClientStep(c) PROVE IInv'
  OBVIOUS
<1> USE DEF IInv, ClientStep, server
<1>1. /\ next'[c] = singlestep_trafficlight_statemachine_send(next[c].state, next[c].delay)
      /\ \A d \in Clients : d # c => next'[d] = next[d]
  BY DEF TypeOK, ClientInv
<1>2. /\ next'[c] \in [state : States, delay : 1..2]
      /\ next'[c].delay = DelayOf(next'[c].state)
      /\ next'[c].state = FollowingState(next[c].state)
  <2>1. next[c].state \in States /\ next[c].delay = DelayOf(next[c].state)
    BY DEF TypeOK, ClientInv
  <2> QED
    BY <1>1, <2>1, MachineStep
<1>3. TypeOK'
  BY <1>1, <1>2 DEF TypeOK
<1>4. ServerInv'
  <2>1. srv = "reply" => message.from # c
    BY DEF ServerInv
  <2> QED
    BY <1>1, <2>1 DEF TypeOK, ServerInv, Up
<1>5. ClientInv' /\ ConnInv'
  BY <1>1, <1>2 DEF TypeOK, ClientInv, ConnInv
<1>6. QueueInv'
  <2>1. /\ UNCHANGED <<queue, conn, channel>>
        /\ \A d \in Clients : cpc[d] = "blocked" => cpc'[d] = "blocked"
    BY DEF TypeOK
  <2> QED
    BY <2>1 DEF QueueInv
<1>7. DisplayInv'
  BY <1>1, <1>2 DEF TypeOK, DisplayInv, Up, Left
<1> QED
  BY <1>3, <1>4, <1>5, <1>6, <1>7

\* Leaving the loop: a pulse if there is a connection, nothing otherwise.
LEMMA LeavePreserves == IInv /\ (\E c \in Clients : ClientDone(c) \/ ClientSendFail(c)) => IInv'
<1> SUFFICES ASSUME IInv, NEW c \in Clients, ClientDone(c) \/ ClientSendFail(c) PROVE IInv'
  OBVIOUS
<1> USE DEF IInv, server
<1> DEFINE n == Len(queue)
<1>1. /\ cpc[c] = "send" \/ (cpc[c] = "blocked" /\ ~Connected(c))
      /\ UNCHANGED <<server, index, next, reply, starts>>
      /\ Detach(c)
  BY DEF ClientDone, ClientSendFail
<1>2. /\ cpc' = [cpc EXCEPT ![c] = "off"]
      /\ conn' = [conn EXCEPT ![c] = 0]
  BY <1>1 DEF Detach
<1>3. n \in Nat /\ queue \in Seq(Entries) /\ PulseOf(c) \in Entries
  BY DEF TypeOK, Entries, PulseOf
<1>4. \A i \in 1..n : queue[i] # MessageOf(c)
  <2>1. CASE cpc[c] = "send"
    BY <2>1 DEF QueueInv
  <2>2. CASE cpc[c] = "blocked" /\ ~Connected(c)
    <3>1. conn[c] # channel \/ queue = <<>>
      BY <2>2 DEF Connected, ServerInv, Up
    <3> QED
      BY <3>1 DEF QueueInv
  <2> QED
    BY <1>1, <2>1, <2>2
<1>5. CASE Connected(c)
  <2>1. /\ queue' \in Seq(Entries) /\ Len(queue') = n + 1
        /\ queue'[n + 1] = PulseOf(c)
        /\ \A i \in 1..n : queue'[i] = queue[i]
    <3>1. queue' = Append(queue, PulseOf(c))
      BY <1>1, <1>5 DEF Detach, PulseOf
    <3> QED
      BY <1>3, <3>1, AppendEntry
  <2>2. TypeOK'
    BY <1>1, <1>2, <2>1 DEF TypeOK, Entries
  <2>3. Up /\ ServerInv' /\ ClientInv' /\ ConnInv'
    BY <1>1, <1>2, <1>5 DEF TypeOK, ServerInv, ClientInv, ConnInv, Up, Connected
  <2>4. QueueInv'
    <3> SUFFICES ASSUME NEW i \in 1..(n + 1), NEW d \in Clients, queue'[i] = MessageOf(d)
                 PROVE  /\ cpc'[d] = "blocked" /\ conn'[d] = channel'
                        /\ \A j \in 1..(n + 1) :
                             /\ queue'[j] = MessageOf(d) => j = i
                             /\ queue'[j] = PulseOf(d) => j < i
      BY <2>1 DEF QueueInv
    <3>1. i \in 1..n /\ queue[i] = MessageOf(d)
      BY <1>3, <2>1, EntriesDiffer
    <3>2. d # c
      BY <1>4, <3>1
    <3>3. /\ cpc[d] = "blocked" /\ conn[d] = channel
          /\ \A j \in 1..n : /\ queue[j] = MessageOf(d) => j = i
                             /\ queue[j] = PulseOf(d) => j < i
      BY <3>1 DEF QueueInv
    <3>4. queue'[n + 1] # MessageOf(d) /\ queue'[n + 1] # PulseOf(d)
      BY <2>1, <3>2, EntriesDiffer
    <3>5. cpc'[d] = "blocked" /\ conn'[d] = channel'
      BY <1>1, <1>2, <3>2, <3>3 DEF TypeOK
    <3>6. \A j \in 1..(n + 1) : j \in 1..n \/ j = n + 1
      BY <1>3
    <3> QED
      BY <2>1, <3>3, <3>4, <3>5, <3>6
  <2>5. DisplayInv'
    <3>1. Left(c)'
      BY <1>3, <2>1 DEF Left
    <3>2. ASSUME NEW d \in Clients, ~Left(d)' PROVE ~Left(d) /\ d # c
      BY <1>3, <2>1, <3>1, <3>2 DEF Left
    <3> QED
      BY <1>1, <1>2, <3>2 DEF TypeOK, DisplayInv, Up
  <2> QED
    BY <2>2, <2>3, <2>4, <2>5
<1>6. CASE ~Connected(c)
  <2>1. queue' = queue
    BY <1>1, <1>6 DEF Detach
  <2>2. TypeOK'
    BY <1>1, <1>2, <2>1 DEF TypeOK
  <2>3. ServerInv' /\ ClientInv' /\ ConnInv'
    BY <1>1, <1>2, <2>1 DEF TypeOK, ServerInv, ClientInv, ConnInv, Up
  <2>4. QueueInv'
    BY <1>1, <1>2, <1>4, <2>1 DEF TypeOK, QueueInv
  <2>5. DisplayInv'
    <3>1. Up => conn[c] # channel
      BY <1>1, <1>6 DEF Connected, Up
    <3>2. Up /\ ~Left(c) => shown[c] = Off
      BY <3>1 DEF DisplayInv
    <3> QED
      BY <1>1, <1>2, <2>1, <3>2 DEF TypeOK, DisplayInv, Up, Left
  <2> QED
    BY <2>2, <2>3, <2>4, <2>5
<1> QED
  BY <1>5, <1>6

-----------------------------------------------------------------------------
(* The theorems.                                                           *)

\* The invariant holds in every reachable state.
THEOREM Invariance == Spec => []IInv
<1>1. IInv /\ [Next]_vars => IInv'
  <2>1. IInv /\ UNCHANGED vars => IInv'
    BY DEF IInv, TypeOK, ServerInv, ClientInv, ConnInv, QueueInv, DisplayInv, Up, Left,
       vars, server, client
  <2>2. IInv /\ (\E c \in Clients : ServerReceiveState(c)) => IInv'
    BY ReceiveStatePreserves
  <2> QED
    BY <2>1, <2>2, OpenPreserves, WritePreserves, EndPreserves, ReplyPreserves,
       StartPreserves, AttachPreserves, SendPreserves, StepPreserves, LeavePreserves
       DEF Next, Client
<1> QED
  BY <1>1, InitEstablishes, PTL DEF Spec

\* The server's and the clients' variables keep their types.
THEOREM TypeCorrect == Spec => []TypeOK
<1>1. IInv => TypeOK
  BY DEF IInv
<1> QED
  BY <1>1, Invariance, PTL

\* The server sleeps the delay of the state that it displays (client l. 91-127).
THEOREM DelaysAreRight == Spec => []DelayOfPhase
<1>1. IInv => DelayOfPhase
  BY DEF IInv, ServerInv, ClientInv, DelayOf, DelayOfPhase
<1> QED
  BY <1>1, Invariance, PTL

\* However clients and servers end and start again, a display never jumps.
THEOREM PhasesNeverJump == Spec => PhasesInOrder
<1> DEFINE InOrder ==
      srv # "open" =>
        \A c \in Clients : shown'[c] # shown[c] => shown'[c] = FollowingState(shown[c])
<1>1. IInv /\ [Next]_vars => InOrder
  <2> SUFFICES ASSUME IInv, [Next]_vars, srv # "open", NEW c \in Clients,
                      shown'[c] # shown[c]
               PROVE  shown'[c] = FollowingState(shown[c])
    OBVIOUS
  <2>1. \E d \in Clients : ServerReceiveState(d)
    BY DEF Next, Client, ServerOpen, ServerWrite, ServerReceivePulse, ServerReceiveFail,
       ServerReply, ClientStart, ClientAttach, ClientSend, ClientStep, ClientDone,
       ClientSendFail, vars, server
  <2>2. PICK d \in Clients : ServerReceiveState(d)
    BY <2>1
  <2>3. shown' = [shown EXCEPT ![d] = next[d].state] /\ d = c
    BY <2>2 DEF ServerReceiveState, IInv, TypeOK
  <2> QED
    BY <2>2, <2>3, ReceivedStateFollows DEF IInv, TypeOK
<1>2. IInv /\ [Next]_vars => [InOrder]_vars
  BY <1>1
<1> QED
  BY <1>2, Invariance, PTL DEF Spec, PhasesInOrder
=============================================================================
