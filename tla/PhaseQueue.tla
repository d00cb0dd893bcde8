----------------------------- MODULE PhaseQueue -----------------------------
(***************************************************************************)
(* TrafficLightMqSend with TrafficLightMqReceive, and sending with         *)
(* receiving: messages and an end mark through a POSIX message queue.  The *)
(* sender makes the queue, under a name that must be free, and unlinks the *)
(* name when it is done; the queue lives on for those who have it open.    *)
(*                                                                         *)
(* A queue is named by the sender that made it, a message by its place in  *)
(* the sender's order.  A queue has room for all messages of a sender.     *)
(***************************************************************************)
EXTENDS Naturals, Sequences

CONSTANTS
  Senders, Receivers,    \* the processes, each of which runs once
  NoQueue,               \* no queue
  N                      \* messages of a sender

VARIABLES
  linked,    \* the queue that has the name, or NoQueue
  spc,       \* where the senders are
  sent,      \* how many messages a sender has sent, N + 1 with the end mark
  queue,     \* what is in the queues
  rpc,       \* where the receivers are
  qd,        \* the queue that a receiver has opened
  buf        \* what it received last

vars == <<linked, spc, sent, queue, rpc, qd, buf>>
End == N + 1

Init ==
  /\ linked = NoQueue
  /\ spc = [s \in Senders |-> "off"]
  /\ sent = [s \in Senders |-> 0]
  /\ queue = [s \in Senders |-> <<>>]
  /\ rpc = [r \in Receivers |-> "off"]
  /\ qd = [r \in Receivers |-> NoQueue]
  /\ buf = [r \in Receivers |-> 0]

\* O_CREAT | O_EXCL; a sender without a queue ends.
SenderOpen(s) ==
  /\ spc[s] = "off"
  /\ \/ /\ linked = NoQueue
        /\ linked' = s /\ spc' = [spc EXCEPT ![s] = "send"]
     \/ /\ linked # NoQueue
        /\ spc' = [spc EXCEPT ![s] = "done"] /\ UNCHANGED linked
  /\ UNCHANGED <<sent, queue, rpc, qd, buf>>

\* Mutated: the end mark is not sent.
Send_NoEnd(s) ==
  /\ spc[s] = "send"
  /\ sent' = [sent EXCEPT ![s] = @ + 1]
  /\ queue' = IF sent[s] = N THEN queue
              ELSE [queue EXCEPT ![s] = Append(@, sent[s] + 1)]
  /\ spc' = IF sent[s] = N THEN [spc EXCEPT ![s] = "unlink"] ELSE spc
  /\ UNCHANGED <<linked, rpc, qd, buf>>

\* Mutated: every message is sent twice.
Send_Twice(s) ==
  /\ spc[s] = "send"
  /\ sent' = [sent EXCEPT ![s] = @ + 1]
  /\ queue' = [queue EXCEPT ![s] = Append(Append(@, sent[s] + 1), sent[s] + 1)]
  /\ spc' = IF sent[s] = N THEN [spc EXCEPT ![s] = "unlink"] ELSE spc
  /\ UNCHANGED <<linked, rpc, qd, buf>>

\* mq_send of the next message, or of the end mark.
Send(s) ==
  /\ spc[s] = "send"
  /\ sent' = [sent EXCEPT ![s] = @ + 1]
  /\ queue' = [queue EXCEPT ![s] = Append(@, sent[s] + 1)]
  /\ spc' = IF sent[s] = N THEN [spc EXCEPT ![s] = "unlink"] ELSE spc
  /\ UNCHANGED <<linked, rpc, qd, buf>>

\* mq_close, mq_unlink.
Unlink(s) ==
  /\ spc[s] = "unlink"
  /\ linked' = NoQueue
  /\ spc' = [spc EXCEPT ![s] = "done"]
  /\ UNCHANGED <<sent, queue, rpc, qd, buf>>

\* A receiver that finds no queue ends.
ReceiverOpen(r) ==
  /\ rpc[r] = "off"
  /\ qd' = [qd EXCEPT ![r] = linked]
  /\ rpc' = [rpc EXCEPT ![r] = IF linked = NoQueue THEN "done" ELSE "read"]
  /\ UNCHANGED <<linked, spc, sent, queue, buf>>

\* mq_receive; after the end mark the queue is closed.
Receive(r) ==
  /\ rpc[r] = "read" /\ queue[qd[r]] # <<>>
  /\ buf' = [buf EXCEPT ![r] = Head(queue[qd[r]])]
  /\ queue' = [queue EXCEPT ![qd[r]] = Tail(@)]
  /\ rpc' = IF buf'[r] = End THEN [rpc EXCEPT ![r] = "done"] ELSE rpc
  /\ UNCHANGED <<linked, spc, sent, qd>>

-----------------------------------------------------------------------------
Next ==
  \/ \E s \in Senders : SenderOpen(s) \/ Send(s) \/ Unlink(s)
  \/ \E r \in Receivers : ReceiverOpen(r) \/ Receive(r)

Spec == Init /\ [][Next]_vars

-----------------------------------------------------------------------------
(* Properties.                                                             *)

TypeOK ==
  /\ linked \in Senders \cup {NoQueue}
  /\ spc \in [Senders -> {"off", "send", "unlink", "done"}]
  /\ sent \in [Senders -> 0..End]
  /\ queue \in [Senders -> Seq(1..End)]
  /\ rpc \in [Receivers -> {"off", "read", "done"}]
  /\ qd \in [Receivers -> Senders \cup {NoQueue}]
  /\ buf \in [Receivers -> 0..End]

\* Two receivers of a queue never have the same message, and what is still in
\* the queue comes after what they have, in the sender's order
\* (TrafficLightMqSend.c:12-65, TrafficLightMqReceive.c:48-56).
EachReadOnce ==
  \A r \in Receivers : buf[r] # 0 =>
    /\ \A o \in Receivers \ {r} : qd[o] = qd[r] => buf[o] # buf[r]
    /\ \A i \in DOMAIN queue[qd[r]] : buf[r] < queue[qd[r]][i]

\* A sender at work has the name to itself: what it unlinks is its own queue, and
\* not one that has been made under the name since
\* (TrafficLightMqSend.c:9, 84, 100-101).
NameIsOwn == \A s \in Senders : spc[s] \in {"send", "unlink"} => linked = s

\* A receiver ends, whenever it has opened the queue and whatever queue has
\* taken the name since, unless another one has read the end mark, of which
\* there is only one: with two receivers one waits for ever
\* (TrafficLightMqReceive.c:48-56).
ReceiversEnd ==
  \A r \in Receivers :
    rpc[r] = "read" ~> \/ rpc[r] = "done" /\ buf[r] = End
                       \/ \E o \in Receivers \ {r} : qd[o] = qd[r] /\ buf[o] = End

-----------------------------------------------------------------------------
(* The inductive invariant of the proofs.                                  *)

\* A queue holds the last messages that were sent, in order.
QueueInv ==
  \A s \in Senders :
    /\ spc[s] \in {"off", "send"} => sent[s] <= N
    /\ Len(queue[s]) <= sent[s]
    /\ \A i \in 1..Len(queue[s]) : queue[s][i] = (sent[s] - Len(queue[s])) + i

\* The others have been received, each by one.
ReceiverInv ==
  \A r \in Receivers :
    /\ qd[r] \in Senders => buf[r] <= sent[qd[r]] - Len(queue[qd[r]])
    /\ qd[r] = NoQueue => buf[r] = 0 /\ rpc[r] # "read"
    /\ rpc[r] = "off" => buf[r] = 0
    /\ \A o \in Receivers \ {r} : qd[o] = qd[r] /\ buf[r] # 0 => buf[o] # buf[r]

IInv == TypeOK /\ QueueInv /\ ReceiverInv /\ NameIsOwn
=============================================================================
