---------------------------- MODULE MessagePass ----------------------------
(***************************************************************************)
(* Clients that send a fixed number of packets to a server, one after the  *)
(* other, and then disconnect.                                             *)
(*   ConnectMessagePass   the server's channel is found through a file and *)
(*                        the server ends when a client disconnects        *)
(*   NativeMessagePass    the server has a name and goes on                *)
(* The CTC's and the light's server loops treat their clients as that of   *)
(* NativeMessagePass does, and the committed name of NativeMessagePass's   *)
(* client is the CTC's.                                                    *)
(*                                                                         *)
(* Messages and disconnects are received in the order of their arrival.    *)
(* messageNum is only displayed; other pulses, and I/O messages other than *)
(* the one that name_open sends, change nothing but it.  A second server   *)
(* that starts beside one that has the name ends at once; beside one that  *)
(* has the file it would only take over the clients to come.               *)
(***************************************************************************)
EXTENDS Naturals, Sequences

CONSTANTS
  Programs,      \* the programs looked at
  Clients,       \* the client processes, each of which runs once
  PACKET_NUM,    \* packets of a client
  MaxServers,    \* bound: how many times a server is started
  Faults         \* the calls that may fail although nothing else did:
                 \* "receive", "send"

VARIABLES
  program,     \* which of the programs runs
  srv,         \* where the server is
  channel,     \* the number of the server that runs, or ran last
  known,       \* the server that the file or the name stands for, 0 if none
  queue,       \* what has arrived at the channel
  cpc,         \* where the clients are
  conn,        \* the server a client has found
  index,       \* packets a client got a reply to
  endedBy      \* history: who ended each server: "nobody", "fault" or a client

server == <<srv, channel, known, endedBy>>
client == <<cpc, conn, index>>
vars == <<program, server, client, queue>>

Native == program = "NativeMessagePass"
Up == srv \in {"receive", "reply"}
Connected(c) == conn[c] = channel /\ Up

Init ==
  /\ program \in Programs
  /\ srv = "off" /\ channel = 0 /\ known = 0
  /\ queue = <<>>
  /\ cpc = [c \in Clients |-> "start"]
  /\ conn = [c \in Clients |-> 0]
  /\ index = [c \in Clients |-> 0]
  /\ endedBy = [n \in 1..MaxServers |-> "nobody"]

-----------------------------------------------------------------------------
(* The server.                                                             *)

\* name_attach; or ChannelCreate, and fopen, which empties the file.
ServerOpen ==
  /\ srv = "off" /\ channel < MaxServers
  /\ channel' = channel + 1
  /\ IF Native THEN srv' = "receive" /\ known' = channel + 1
     ELSE srv' = "open" /\ known' = 0
  /\ UNCHANGED <<program, client, queue, endedBy>>

\* fclose: the channel is in the file.
ServerWrite ==
  /\ srv = "open"
  /\ srv' = "receive" /\ known' = channel
  /\ UNCHANGED <<program, client, queue, channel, endedBy>>

\* A packet is displayed, and replied to a second later.
ServerReceivePacket(c) ==
  /\ srv = "receive" /\ queue # <<>> /\ Head(queue) = [kind |-> "packet", from |-> c]
  /\ srv' = "reply"
  /\ queue' = Tail(queue)
  /\ cpc' = [cpc EXCEPT ![c] = "served"]
  /\ UNCHANGED <<program, channel, known, endedBy, conn, index>>

ServerReply(c) ==
  /\ srv = "reply" /\ cpc[c] = "served"
  /\ srv' = "receive"
  /\ cpc' = [cpc EXCEPT ![c] = "send"]
  /\ index' = [index EXCEPT ![c] = @ + 1]
  /\ UNCHANGED <<program, channel, known, endedBy, conn, queue>>

\* Mutated: _IO_CONNECT is not answered.
ServerReceiveConnect_NoReply(c) ==
  /\ srv = "receive" /\ queue # <<>> /\ Head(queue) = [kind |-> "connect", from |-> c]
  /\ queue' = Tail(queue)
  /\ UNCHANGED <<program, server, client>>

\* _IO_CONNECT is answered with EOK.
ServerReceiveConnect(c) ==
  /\ srv = "receive" /\ queue # <<>> /\ Head(queue) = [kind |-> "connect", from |-> c]
  /\ queue' = Tail(queue)
  /\ cpc' = [cpc EXCEPT ![c] = "send"]
  /\ UNCHANGED <<program, server, conn, index>>

\* The channel goes, with all that has arrived; the name is detached, the file
\* is not.
Leave(why) ==
  /\ srv' = "off"
  /\ known' = IF Native THEN 0 ELSE known
  /\ queue' = <<>>
  /\ endedBy' = [endedBy EXCEPT ![channel] = why]
  /\ UNCHANGED <<program, channel, client>>

\* Mutated: NativeMessagePass's server ends, too.
ServerReceivePulse_Ends(c) ==
  /\ srv = "receive" /\ queue # <<>>
  /\ Head(queue) = [kind |-> "disconnect", from |-> c]
  /\ Leave(c)

ServerReceivePulse(c) ==
  /\ srv = "receive" /\ queue # <<>>
  /\ Head(queue) = [kind |-> "disconnect", from |-> c]
  /\ IF Native THEN queue' = Tail(queue) /\ UNCHANGED <<program, server, client>>
     ELSE Leave(c)

ServerReceiveFail ==
  /\ srv = "receive" /\ "receive" \in Faults
  /\ Leave("fault")

-----------------------------------------------------------------------------
(* A client c.                                                             *)

\* The file is read, or the name looked up.
ClientStart(c) ==
  /\ cpc[c] = "start"
  /\ cpc' = [cpc EXCEPT ![c] = "attach"]
  /\ conn' = [conn EXCEPT ![c] = known]
  /\ UNCHANGED <<program, server, queue, index>>

\* A client that cannot connect ends; name_open sends a message first.
ClientAttach(c) ==
  /\ cpc[c] = "attach"
  /\ \/ /\ ~Connected(c)
        /\ cpc' = [cpc EXCEPT ![c] = "failed"] /\ UNCHANGED queue
     \/ /\ Connected(c) /\ Native
        /\ cpc' = [cpc EXCEPT ![c] = "connecting"]
        /\ queue' = Append(queue, [kind |-> "connect", from |-> c])
     \/ /\ Connected(c) /\ ~Native
        /\ cpc' = [cpc EXCEPT ![c] = "send"] /\ UNCHANGED queue
  /\ UNCHANGED <<program, server, conn, index>>

\* The server is gone before it has answered name_open.
ClientConnectFail(c) ==
  /\ cpc[c] = "connecting" /\ ~Connected(c)
  /\ cpc' = [cpc EXCEPT ![c] = "failed"]
  /\ UNCHANGED <<program, server, conn, index, queue>>

ClientSend(c) ==
  /\ cpc[c] = "send" /\ index[c] < PACKET_NUM /\ Connected(c)
  /\ cpc' = [cpc EXCEPT ![c] = "blocked"]
  /\ queue' = Append(queue, [kind |-> "packet", from |-> c])
  /\ UNCHANGED <<program, server, conn, index>>

\* ConnectDetach, name_close: the server, if it still runs, gets a pulse.
Detach(c, end) ==
  /\ cpc' = [cpc EXCEPT ![c] = end]
  /\ queue' = IF Connected(c)
              THEN Append(queue, [kind |-> "disconnect", from |-> c]) ELSE queue
  /\ UNCHANGED <<program, server, conn, index>>

\* MsgSend fails: its server has ended, or it fails by itself.
ClientSendFail(c) ==
  \/ /\ cpc[c] \in {"send", "blocked"} /\ index[c] < PACKET_NUM /\ ~Connected(c)
     /\ Detach(c, "done")
  \/ /\ cpc[c] = "send" /\ index[c] < PACKET_NUM /\ "send" \in Faults
     /\ Detach(c, "failed")

ClientDone(c) ==
  /\ cpc[c] = "send" /\ index[c] = PACKET_NUM
  /\ Detach(c, "done")

-----------------------------------------------------------------------------
Server ==
  \/ ServerWrite
  \/ \E c \in Clients : \/ ServerReceivePacket(c) \/ ServerReply(c)
                        \/ ServerReceiveConnect(c) \/ ServerReceivePulse(c)

Client(c) ==
  \/ ClientAttach(c) \/ ClientConnectFail(c) \/ ClientSend(c)
  \/ ClientSendFail(c) \/ ClientDone(c)

Next ==
  \/ ServerOpen \/ ServerReceiveFail \/ Server
  \/ \E c \in Clients : ClientStart(c) \/ Client(c)

Spec == Init /\ [][Next]_vars

-----------------------------------------------------------------------------
(* Properties.                                                             *)

TypeOK ==
  /\ program \in Programs
  /\ srv \in {"off", "open", "receive", "reply"}
  /\ {channel, known} \subseteq 0..MaxServers
  /\ queue \in Seq([kind : {"connect", "packet", "disconnect"}, from : Clients])
  /\ cpc \in [Clients -> {"start", "attach", "connecting", "send", "blocked",
                          "served", "done", "failed"}]
  /\ conn \in [Clients -> 0..MaxServers]
  /\ index \in [Clients -> 0..PACKET_NUM]
  /\ endedBy \in [1..MaxServers -> Clients \cup {"nobody", "fault"}]

\* Who waits for an answer of a server that runs is served or in its queue, and
\* whoever is in the queue is still there to be answered: no message is
\* forgotten, answered twice or left over from an earlier server
\* (NativeMessagePassServer.c:77-150, ConnectMessagePassServer.c:77-135).
EveryWaiterIsDue ==
  \A c \in Clients :
    /\ cpc[c] \in {"blocked", "connecting"} /\ Connected(c) =>
         \E i \in DOMAIN queue : queue[i].from = c
    /\ cpc[c] = "served" => srv = "reply" /\ Connected(c)
    /\ \A i, j \in DOMAIN queue :
         queue[i].from = c => Connected(c) /\ (queue[j].from = c => i = j)

\* A client that has connected gets all its replies, unless a call of its own
\* or of its server fails or, with ConnectMessagePass, another client of that
\* server has disconnected first: that ends the session of them all
\* (ConnectMessagePassServer.c:88-93).
ServedUnlessCutOff ==
  \A c \in Clients :
    cpc[c] = "send" ~>
      \/ cpc[c] = "failed"
      \/ cpc[c] = "done" /\ index[c] = PACKET_NUM
      \/ /\ cpc[c] = "done"
         /\ \/ endedBy[conn[c]] = "fault"
            \/ ~Native /\ endedBy[conn[c]] \in Clients \ {c}

-----------------------------------------------------------------------------
(* The inductive invariant of the proofs.                                  *)

\* The server's numbers; nobody knows a server that is not yet open.
ServerInv ==
  /\ srv # "off" => channel > 0
  /\ known <= channel /\ (srv = "open" => known < channel)
  /\ \A c \in Clients : conn[c] <= channel /\ (srv = "open" => conn[c] < channel)

\* One client at a time is served, and none more often than it asks for.
ServedInv ==
  /\ \A c, d \in Clients : cpc[c] = "served" /\ cpc[d] = "served" => c = d
  /\ \A c \in Clients : cpc[c] \in {"blocked", "served"} => index[c] < PACKET_NUM

\* Where the clients are whose messages have arrived.
KindInv ==
  \A i \in DOMAIN queue :
    cpc[queue[i].from] \in (CASE queue[i].kind = "packet" -> {"blocked"}
                             [] queue[i].kind = "connect" -> {"connecting"}
                             [] OTHER -> {"done", "failed"})

IInv == TypeOK /\ ServerInv /\ ServedInv /\ KindInv /\ EveryWaiterIsDue
=============================================================================
