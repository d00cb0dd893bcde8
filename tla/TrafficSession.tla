--------------------------- MODULE TrafficSession ---------------------------
(***************************************************************************)
(* The single traffic light on native QNX channels: a server process       *)
(* (TrafficLightServer) that displays the phases of a light and holds them *)
(* for their delay, and client processes (TrafficLightClient) that choose  *)
(* the next phase from the server's reply.  A client finds the server      *)
(* through a file that the server writes when it starts and that nobody    *)
(* removes.  Servers and clients are started again after they have ended.  *)
(*                                                                         *)
(* All threads have the same priority, so messages and disconnect pulses   *)
(* are received in the order of their arrival.  No process sends I/O       *)
(* messages to a native channel; the pulses other than a disconnect are    *)
(* only displayed.  The mutexes have one user each.  A server that cannot  *)
(* open its file, and a client that closes a file that does not exist, may *)
(* end without a trace; both are left out.                                 *)
(***************************************************************************)
EXTENDS Naturals, Sequences

CONSTANTS
  Clients,         \* the client processes
  N_ITERATIONS,    \* how many phases a client sends
  MaxServers,      \* bound: how many times a server is started
  MaxStarts,       \* bound: how many times a client is started
  NoBody,          \* no client
  Faults           \* the calls that may fail although nothing else did:
                   \* "channel", "receive", "attach", "send"

ASSUME IterationsAssumption == N_ITERATIONS \in Nat
ASSUME NoBodyAssumption == NoBody \notin Clients
ASSUME BoundsAssumption == MaxServers \in Nat /\ MaxStarts \in Nat
ASSUME FaultsAssumption == Faults \subseteq {"channel", "receive", "attach", "send"}

VARIABLES
  srv,        \* where the server thread is
  channel,    \* the number of the server that runs, or ran last
  file,       \* the number of the server the file names, 0 if it names none
  queue,      \* what has arrived at the channel and is not received yet
  message,    \* td->message of the server: its sender, state and delay
  shown,      \* the state this server displayed last for each client
  cpc,        \* where the main thread of each client is
  conn,       \* the server a client has read of or is connected to, 0 for none
  index,      \* how many phases a client has sent
  next,       \* clientSide.message: the state and delay to be sent next
  reply,      \* clientSide.replyMessage.currentState
  starts      \* how many clients were started

server == <<srv, channel, file, message, shown>>
client == <<cpc, conn, index, next, reply, starts>>
vars == <<server, client, queue>>

States == 0..6
Off == 7    \* no state: before the first display, and uninitialised memory

Init ==
  /\ srv = "off" /\ channel = 0 /\ file = 0
  /\ queue = <<>>
  /\ message = [from |-> NoBody, state |-> Off, delay |-> 0]
  /\ shown = [c \in Clients |-> Off]
  /\ cpc = [c \in Clients |-> "off"]
  /\ conn = [c \in Clients |-> 0]
  /\ index = [c \in Clients |-> 0]
  /\ next = [c \in Clients |-> [state |-> 0, delay |-> 1]]
  /\ reply = [c \in Clients |-> Off]
  /\ starts = 0

\* A client is connected as long as the server it attached to runs.
Connected(c) ==
  /\ cpc[c] \notin {"off", "attach"}
  /\ conn[c] = channel
  /\ srv \in {"receive", "reply"}

-----------------------------------------------------------------------------
(* The server.                                                             *)

\* fopen(..., "w") empties the file.
ServerOpen ==
  /\ srv = "off" /\ channel < MaxServers
  /\ srv' = "open"
  /\ file' = 0
  /\ UNCHANGED <<channel, message, shown, client, queue>>

\* The new channel is written to the file; a server without one ends.
ServerWrite ==
  /\ srv = "open"
  /\ \/ /\ srv' = "receive"
        /\ channel' = channel + 1
        /\ file' = channel + 1
        /\ shown' = [c \in Clients |-> Off]
     \/ /\ "channel" \in Faults
        /\ srv' = "off"
        /\ UNCHANGED <<channel, file, shown>>
  /\ UNCHANGED <<message, client, queue>>

\* A client's state is displayed; the server sleeps for its delay.
ServerReceiveState(c) ==
  /\ srv = "receive" /\ queue # <<>>
  /\ Head(queue) = [kind |-> "state", from |-> c]
  /\ message' = [from |-> c, state |-> next[c].state, delay |-> next[c].delay]
  /\ shown' = [shown EXCEPT ![c] = next[c].state]
  /\ srv' = "reply"
  /\ queue' = Tail(queue)
  /\ cpc' = [cpc EXCEPT ![c] = "served"]
  /\ UNCHANGED <<channel, file, conn, index, next, reply, starts>>

\* Mutated: the server goes on, as a server with stayAlive set would.
ServerReceivePulse_StayAlive ==
  /\ srv = "receive" /\ queue # <<>>
  /\ Head(queue).kind = "disconnect"
  /\ queue' = Tail(queue)
  /\ UNCHANGED <<server, client>>

\* A client has detached: the loop ends and the channel is destroyed, with
\* everything that has arrived at it.
ServerReceivePulse ==
  /\ srv = "receive" /\ queue # <<>>
  /\ Head(queue).kind = "disconnect"
  /\ srv' = "off"
  /\ queue' = <<>>
  /\ UNCHANGED <<channel, file, message, shown, client>>

\* MsgReceive fails: the loop is left.
ServerReceiveFail ==
  /\ srv = "receive" /\ "receive" \in Faults
  /\ srv' = "off"
  /\ queue' = <<>>
  /\ UNCHANGED <<channel, file, message, shown, client>>

\* The delay is over: the state is sent back.
ServerReply ==
  /\ srv = "reply"
  /\ srv' = "receive"
  /\ reply' = [reply EXCEPT ![message.from] = message.state]
  /\ cpc' = [cpc EXCEPT ![message.from] = "step"]
  /\ UNCHANGED <<channel, file, message, shown, queue, conn, index, next, starts>>

-----------------------------------------------------------------------------
(* A client c.                                                             *)

\* clientDataInit, which reads the file.
ClientStart(c) ==
  /\ cpc[c] = "off" /\ starts < MaxStarts
  /\ cpc' = [cpc EXCEPT ![c] = "attach"]
  /\ conn' = [conn EXCEPT ![c] = file]
  /\ index' = [index EXCEPT ![c] = 0]
  /\ next' = [next EXCEPT ![c] = [state |-> 0, delay |-> 1]]
  /\ reply' = [reply EXCEPT ![c] = Off]
  /\ starts' = starts + 1
  /\ UNCHANGED <<server, queue>>

\* ConnectAttach fails if there is no such server (any more); only the thread
\* that attaches ends then, and main goes on without a connection.
ClientAttach(c) ==
  /\ cpc[c] = "attach"
  /\ cpc' = [cpc EXCEPT ![c] = "send"]
  /\ \/ /\ conn[c] = channel /\ srv \in {"receive", "reply"}
        /\ UNCHANGED conn
     \/ /\ \/ conn[c] # channel \/ srv \in {"off", "open"}
           \/ "attach" \in Faults
        /\ conn' = [conn EXCEPT ![c] = 0]
  /\ UNCHANGED <<server, queue, index, next, reply, starts>>

\* MsgSend begins.
ClientSend(c) ==
  /\ cpc[c] = "send" /\ index[c] < N_ITERATIONS
  /\ Connected(c)
  /\ cpc' = [cpc EXCEPT ![c] = "blocked"]
  /\ queue' = Append(queue, [kind |-> "state", from |-> c])
  /\ UNCHANGED <<server, conn, index, next, reply, starts>>

\* What the state machine makes of a reply r, after a delay d.
singlestep_trafficlight_statemachine_send(r, d) ==
  [state |-> IF r = 6 THEN 1 ELSE r + 1,
   delay |-> IF r \in {1, 4} THEN 2 ELSE IF r \in {2, 5, 6} THEN 1 ELSE d]

\* The reply is used; in states 1 and 4 a key is entered first.
ClientStep(c) ==
  /\ cpc[c] = "step"
  /\ next' = [next EXCEPT ![c] =
                singlestep_trafficlight_statemachine_send(reply[c], next[c].delay)]
  /\ index' = [index EXCEPT ![c] = @ + 1]
  /\ cpc' = [cpc EXCEPT ![c] = "send"]
  /\ UNCHANGED <<server, queue, conn, reply, starts>>

\* ConnectDetach: the server, if it still runs, gets a pulse.
Detach(c) ==
  /\ cpc' = [cpc EXCEPT ![c] = "off"]
  /\ conn' = [conn EXCEPT ![c] = 0]
  /\ queue' = IF Connected(c)
              THEN Append(queue, [kind |-> "disconnect", from |-> c])
              ELSE queue

\* All phases are sent.
ClientDone(c) ==
  /\ cpc[c] = "send" /\ index[c] = N_ITERATIONS
  /\ Detach(c)
  /\ UNCHANGED <<server, index, next, reply, starts>>

\* Mutated: a blocked client does not notice that its server has ended.
ClientSendFail_NotBlocked(c) ==
  /\ cpc[c] = "send" /\ index[c] < N_ITERATIONS
  /\ "send" \in Faults \/ ~Connected(c)
  /\ Detach(c)
  /\ UNCHANGED <<server, index, next, reply, starts>>

\* MsgSend fails, at once or because the server ends: the loop is left.
ClientSendFail(c) ==
  /\ \/ cpc[c] = "send" /\ index[c] < N_ITERATIONS /\ "send" \in Faults
     \/ cpc[c] = "send" /\ index[c] < N_ITERATIONS /\ ~Connected(c)
     \/ cpc[c] = "blocked" /\ ~Connected(c)
  /\ Detach(c)
  /\ UNCHANGED <<server, index, next, reply, starts>>

-----------------------------------------------------------------------------
Client(c) ==
  \/ ClientAttach(c) \/ ClientSend(c) \/ ClientStep(c) \/ ClientDone(c)
  \/ ClientSendFail(c)

Next ==
  \/ ServerOpen \/ ServerWrite \/ ServerReceivePulse \/ ServerReceiveFail
  \/ ServerReply
  \/ \E c \in Clients : ServerReceiveState(c) \/ ClientStart(c) \/ Client(c)

Spec == Init /\ [][Next]_vars

\* Processes run, delays end, a key is entered; nobody has to start anything.
Fairness ==
  /\ WF_vars(ServerReply) /\ WF_vars(ServerReceivePulse)
  /\ \A c \in Clients : WF_vars(ServerReceiveState(c)) /\ WF_vars(Client(c))

FairSpec == Spec /\ Fairness

-----------------------------------------------------------------------------
(* Properties.                                                             *)

TypeOK ==
  /\ srv \in {"off", "open", "receive", "reply"}
  /\ channel \in Nat /\ file \in Nat /\ starts \in Nat
  /\ queue \in Seq([kind : {"state", "disconnect"}, from : Clients])
  /\ message \in [from : Clients \cup {NoBody}, state : States \cup {Off},
                  delay : 0..2]
  /\ shown \in [Clients -> States \cup {Off}]
  /\ cpc \in [Clients -> {"off", "attach", "send", "blocked", "served", "step"}]
  /\ conn \in [Clients -> Nat]
  /\ index \in [Clients -> Nat]
  /\ next \in [Clients -> [state : States, delay : 1..2]]
  /\ reply \in [Clients -> States \cup {Off}]

FollowingState(s) == IF s = Off THEN 0 ELSE IF s = 6 THEN 1 ELSE s + 1

\* On the display of one server a light never jumps: each state follows the
\* one before, although clients end in any state and start again at 0 while
\* the server that displayed the old state still runs (server l. 86-91).
PhasesInOrder ==
  [][srv # "open" =>
       \A c \in Clients :
         shown'[c] # shown[c] => shown'[c] = FollowingState(shown[c])]_vars

\* The server sleeps 2 seconds in a green state and 1 in every other one,
\* although the client sets no delay for the states 1 and 4 (client l. 93-126).
DelayOfPhase ==
  srv = "reply" => message.delay = IF message.state \in {2, 5} THEN 2 ELSE 1

\* A client that was started ends, whatever happens to servers: it neither
\* waits for a server that is gone nor for one that never answers.
ClientsEnd == \A c \in Clients : cpc[c] # "off" ~> cpc[c] = "off"

\* A server that a client has connected to ends: the client's pulse reaches
\* it, or it has ended before.
ServersEnd ==
  \A c \in Clients : \A n \in 1..MaxServers :
    Connected(c) /\ channel = n ~> ~(channel = n /\ srv \in {"receive", "reply"})

-----------------------------------------------------------------------------
(* The inductive invariant of the proofs.                                  *)

Up == srv \in {"receive", "reply"}
DelayOf(s) == IF s \in {2, 5} THEN 2 ELSE 1
MessageOf(c) == [kind |-> "state", from |-> c]
PulseOf(c) == [kind |-> "disconnect", from |-> c]
Left(c) == \E i \in 1..Len(queue) : queue[i] = PulseOf(c)

\* Server and client agree on who waits for whom.
ServerInv ==
  /\ IF Up THEN channel > 0 ELSE queue = <<>>
  /\ srv = "reply" =>
       /\ message.from \in Clients
       /\ cpc[message.from] = "served" /\ conn[message.from] = channel
       /\ message.state = next[message.from].state
       /\ message.delay = next[message.from].delay
  /\ \A c \in Clients :
       cpc[c] = "served" => srv = "reply" /\ message.from = c

\* The delay goes with the state, the reply is the state that was sent, and a
\* client starts at 0.
ClientInv ==
  \A c \in Clients :
    /\ next[c].delay = DelayOf(next[c].state)
    /\ cpc[c] = "step" => reply[c] = next[c].state
    /\ cpc[c] = "attach" => next[c].state = 0

\* Servers are numbered in the order of their start.
ConnInv == file <= channel /\ \A c \in Clients : conn[c] <= channel

\* A client has one message in the queue, behind its pulses.
QueueInv ==
  \A i \in 1..Len(queue) : \A c \in Clients :
    queue[i] = MessageOf(c) =>
      /\ cpc[c] = "blocked" /\ conn[c] = channel
      /\ \A j \in 1..Len(queue) :
           /\ queue[j] = MessageOf(c) => j = i
           /\ queue[j] = PulseOf(c) => j < i

\* A client that has never left this server is in step with its display.
DisplayInv ==
  \A c \in Clients : Up /\ ~Left(c) =>
    IF cpc[c] \in {"off", "attach"} \/ conn[c] # channel THEN shown[c] = Off
    ELSE IF cpc[c] \in {"send", "blocked"}
         THEN next[c].state = FollowingState(shown[c])
         ELSE shown[c] = next[c].state

IInv == TypeOK /\ ServerInv /\ ClientInv /\ ConnInv /\ QueueInv /\ DisplayInv
=============================================================================
