------------------------------ MODULE TrainLine ------------------------------
(***************************************************************************)
(* The train line controller process (X1).  Its server thread receives key *)
(* commands from TC; one client thread per line sends whatever is in the   *)
(* instruction buffer to that line's local controller, over and over.      *)
(* The threads share a mutex and the buffer; no flag tells a client that   *)
(* there is a command to send, and nobody waits on the condition variable, *)
(* so its signals have no effect and are left out.                         *)
(*                                                                         *)
(* Every thread keeps the mutex while it is blocked in MsgReceive or       *)
(* MsgSend.  Taken from QNX: unlocking a mutex hands it to the thread that *)
(* has been blocked on it longest; locking a mutex one owns fails with     *)
(* EDEADLK, which the code ignores; receiving a message overwrites the     *)
(* whole buffer, receiving a pulse only its header.                        *)
(***************************************************************************)
EXTENDS Naturals, Sequences, Functions

CONSTANTS
  Lines,         \* the client threads, one per local controller
  MaxCommands,   \* bound: how many commands TC sends
  Faults         \* the calls that may fail: "attach", "receive", "send"

ASSUME LinesAssumption == Lines \cap {"server", "free"} = {}
ASSUME BoundAssumption == MaxCommands \in Nat
ASSUME FaultsAssumption == Faults \subseteq {"attach", "receive", "send"}

VARIABLES
  pc,            \* where each thread is
  mutex,         \* the owner of ic->mutex, or "free"
  queue,         \* the threads blocked on the mutex, longest first
  instruction,   \* ic->instruction: the kind of its header, and the number of
                 \* the command in it, 0 for data that no command put there
  received,      \* history: how many commands were acknowledged to TC
  seen,          \* history: the command each line was sent last
  owed           \* history: the lines that were blocked when the server last
                 \* unlocked the mutex and have not had a turn since

vars == <<pc, mutex, queue, instruction, received, seen, owed>>

Threads == {"server"} \cup Lines
HeaderKinds == {"garbage", "command", "connect", "io", "pulse"}

\* The line clients start in name_open, the server in name_attach.
Init ==
  /\ pc = [t \in Threads |-> IF t = "server" THEN "attach" ELSE "open"]
  /\ mutex = "free"
  /\ queue = <<>>
  /\ instruction = [type |-> "garbage", cmd |-> 0]
  /\ received = 0
  /\ seen = [l \in Lines |-> 0]
  /\ owed = {}

-----------------------------------------------------------------------------
(* The mutex.                                                              *)

\* Where a thread continues once it owns the mutex.
Inside(t) == IF t = "server" THEN "receive" ELSE "send"

Goto(t, label) == pc' = [pc EXCEPT ![t] = label]

\* pthread_mutex_lock on a free mutex, or (EDEADLK) on one's own.
Lock(t) ==
  /\ pc[t] = "lock"
  /\ mutex \in {"free", t}
  /\ mutex' = t
  /\ Goto(t, Inside(t))
  /\ UNCHANGED <<queue, instruction, received, seen, owed>>

\* pthread_mutex_lock on a mutex that another thread owns.
Block(t) ==
  /\ pc[t] = "lock"
  /\ mutex \notin {"free", t}
  /\ queue' = Append(queue, t)
  /\ Goto(t, "blocked")
  /\ UNCHANGED <<mutex, instruction, received, seen, owed>>

\* Mutated: the mutex goes to the thread that was blocked last.
Release_Last(t) ==
  IF queue = <<>>
  THEN /\ mutex' = "free"
       /\ Goto(t, "lock")
       /\ UNCHANGED queue
  ELSE LET last == queue[Len(queue)] IN
       /\ mutex' = last
       /\ queue' = SubSeq(queue, 1, Len(queue) - 1)
       /\ pc' = [pc EXCEPT ![t] = "lock", ![last] = Inside(last)]

\* pthread_mutex_unlock hands the mutex to the longest blocked thread.
Release(t) ==
  IF queue = <<>>
  THEN /\ mutex' = "free"
       /\ Goto(t, "lock")
       /\ UNCHANGED queue
  ELSE /\ mutex' = Head(queue)
       /\ queue' = Tail(queue)
       /\ pc' = [pc EXCEPT ![t] = "lock", ![Head(queue)] = Inside(Head(queue))]

\* The lines in the queue.
BlockedLines == Lines \cap Range(queue)

Unlock(t) ==
  /\ pc[t] = "unlock"
  /\ Release(t)
  /\ owed' = IF t = "server" THEN BlockedLines ELSE owed
  /\ UNCHANGED <<instruction, received, seen>>

-----------------------------------------------------------------------------
(* The server thread.                                                      *)

ServerAttach ==
  /\ pc["server"] = "attach"
  /\ \/ Goto("server", "lock")
     \/ "attach" \in Faults /\ Goto("server", "exited")
  /\ UNCHANGED <<mutex, queue, instruction, received, seen, owed>>

\* Mutated: the buffer is left with the command before.
ServerReceiveCommand_Previous ==
  /\ pc["server"] = "receive"
  /\ received < MaxCommands
  /\ received' = received + 1
  /\ instruction' = [type |-> "command", cmd |-> received]
  /\ Goto("server", "unlock")
  /\ UNCHANGED <<mutex, queue, seen, owed>>

\* A command from TC is stored and acknowledged.
ServerReceiveCommand ==
  /\ pc["server"] = "receive"
  /\ received < MaxCommands
  /\ received' = received + 1
  /\ instruction' = [type |-> "command", cmd |-> received + 1]
  /\ Goto("server", "unlock")
  /\ UNCHANGED <<mutex, queue, seen, owed>>

\* Mutated: the mutex is unlocked before the server goes on.
ServerReceiveIO_Unlocks ==
  /\ pc["server"] = "receive"
  /\ \E type \in {"connect", "io"} : instruction' = [type |-> type, cmd |-> 0]
  /\ Goto("server", "unlock")
  /\ UNCHANGED <<mutex, queue, received, seen, owed>>

\* A connection request (EOK) or another I/O message (ENOSYS): back to the
\* top of the loop with the mutex still owned.
ServerReceiveIO ==
  /\ pc["server"] = "receive"
  /\ \E type \in {"connect", "io"} : instruction' = [type |-> type, cmd |-> 0]
  /\ Goto("server", "lock")
  /\ UNCHANGED <<mutex, queue, received, seen, owed>>

\* A pulse is handled by pulseStateMachine and the lock is released.
ServerReceivePulse ==
  /\ pc["server"] = "receive"
  /\ instruction' = [instruction EXCEPT !.type = "pulse"]
  /\ Goto("server", "unlock")
  /\ UNCHANGED <<mutex, queue, received, seen, owed>>

\* MsgReceive fails: the loop is left, and the mutex is never unlocked.
ServerReceiveFail ==
  /\ "receive" \in Faults
  /\ pc["server"] = "receive"
  /\ Goto("server", "exited")
  /\ UNCHANGED <<mutex, queue, instruction, received, seen, owed>>

-----------------------------------------------------------------------------
(* The client thread of line l.                                            *)

\* name_open succeeds, at the first attempt or after retries.
ClientOpen(l) ==
  /\ pc[l] = "open"
  /\ Goto(l, "lock")
  /\ UNCHANGED <<mutex, queue, instruction, received, seen, owed>>

\* Mutated: the client goes on without unlocking.
ClientSend_NoUnlock(l) ==
  /\ pc[l] = "send"
  /\ seen' = [seen EXCEPT ![l] = instruction.cmd]
  /\ owed' = owed \ {l}
  /\ Goto(l, "lock")
  /\ UNCHANGED <<mutex, queue, instruction, received>>

\* MsgSend of the buffer, whatever it holds, is answered by the line.
ClientSend(l) ==
  /\ pc[l] = "send"
  /\ seen' = [seen EXCEPT ![l] = instruction.cmd]
  /\ owed' = owed \ {l}
  /\ Goto(l, "unlock")
  /\ UNCHANGED <<mutex, queue, instruction, received>>

\* MsgSend fails, because the call does or because the line answers ENOSYS to
\* a header that looks like an I/O message: the mutex is never unlocked.
ClientSendFail(l) ==
  /\ pc[l] = "send"
  /\ "send" \in Faults \/ instruction.type \in {"garbage", "io"}
  /\ Goto(l, "exited")
  /\ UNCHANGED <<mutex, queue, instruction, received, seen, owed>>

-----------------------------------------------------------------------------
ServerReceive ==
  \/ ServerReceiveCommand \/ ServerReceiveIO
  \/ ServerReceivePulse \/ ServerReceiveFail

Next ==
  \/ \E t \in Threads : Lock(t) \/ Block(t) \/ Unlock(t)
  \/ ServerAttach \/ ServerReceive
  \/ \E l \in Lines : ClientOpen(l) \/ ClientSend(l) \/ ClientSendFail(l)

Spec == Init /\ [][Next]_vars

\* Running threads take their steps and the lines answer or fail to; nothing
\* is assumed of what arrives at the server, nor of name_open.
Fairness ==
  /\ \A t \in Threads : WF_vars(Lock(t) \/ Block(t)) /\ WF_vars(Unlock(t))
  /\ \A l \in Lines : WF_vars(ClientSend(l) \/ ClientSendFail(l))

FairSpec == Spec /\ Fairness

-----------------------------------------------------------------------------
(* Properties.                                                             *)

TypeOK ==
  /\ pc \in [Threads -> {"attach", "open", "lock", "blocked", "receive", "send",
                         "unlock", "exited"}]
  /\ pc["server"] \notin {"open", "send"}
  /\ \A l \in Lines : pc[l] \notin {"attach", "receive"}
  /\ mutex \in Threads \cup {"free"}
  /\ queue \in Seq(Threads)
  /\ instruction \in [type : HeaderKinds, cmd : Nat]
  /\ received \in Nat
  /\ seen \in [Lines -> Nat]
  /\ owed \subseteq Lines

\* A line that was blocked on the mutex when the server unlocked it (l. 184)
\* has sent the buffer to its local controller before the server can receive
\* the next message over it (l. 151).
NoLineOvertaken == pc["server"] = "receive" => owed = {}

\* The header of a connection request or of a rejected I/O message is never
\* sent on to a line, because the server keeps the mutex from the moment it
\* is received (l. 162-173) until another message replaces it: the line would
\* answer it as its own.
NoForeignHeader ==
  \A l \in Lines : pc[l] = "send" =>
    instruction.type \in {"garbage", "command", "pulse"}

\* A line whose client gave up still owns the mutex (l. 222-224), so no other
\* line is sent anything any more and TC is never answered again.
DeadLineStopsAll ==
  [][(\E l \in Lines : pc[l] = "exited") => UNCHANGED <<received, seen>>]_vars

Latest == INSTANCE LatestValueRelay WITH latest <- received, shown <- seen,
                                         None <- 0

\* What makes these inductive: only the owner is past the lock and a dead
\* client stays the owner; the queue holds each blocked thread once; the owed
\* lines are alive in the queue, ahead of the server, or have the mutex.
Ownership ==
  /\ \A t \in Threads : pc[t] \in {"receive", "send", "unlock"} => mutex = t
  /\ \A l \in Lines : pc[l] = "exited" => mutex = l
  /\ mutex # "free" => pc[mutex] # "blocked"

QueueInv ==
  /\ \A i \in 1..Len(queue) : pc[queue[i]] = "blocked"
  /\ \A i, j \in 1..Len(queue) : queue[i] = queue[j] => i = j
  /\ \A t \in Threads : pc[t] = "blocked" => \E i \in 1..Len(queue) : queue[i] = t
  /\ mutex = "free" => queue = <<>>

OwedInv ==
  /\ mutex = "server" => owed = {}
  /\ \A l \in owed : pc[l] \in {"blocked", "send", "exited"}
  /\ \A i, j \in 1..Len(queue) :
       queue[i] = "server" /\ queue[j] \in owed => j < i

BufferInv ==
  /\ instruction.cmd \in {0, received}
  /\ instruction.type \in {"connect", "io"} =>
       mutex = "server" /\ pc["server"] # "unlock"

IInv == TypeOK /\ Ownership /\ QueueInv /\ OwedInv /\ BufferInv

\* X1 implements the latest-value relay: after a command was received, no
\* line is sent an earlier one.
LatestSpec == Latest!Spec

\* Once the server asks for the mutex it gets to receive, or a line's client
\* has died with the mutex: the clients' endless sending does not starve TC.
ServerNotStarved ==
  pc["server"] \in {"lock", "blocked"}
    ~> pc["server"] = "receive" \/ \E l \in Lines : pc[l] = "exited"

\* The helper's comment (l. 192): sendCommand "will send message received to
\* each corresponding path".  So what it sends has been received:
SendsOnlyReceived ==
  \A l \in Lines : pc[l] = "send" => instruction.cmd \in 1..received

\* ... and what has been received is sent to each line: unless a thread has
\* died, a connected line is eventually sent the command last received.
LastCommandReachesLines ==
  \A l \in Lines :
    (pc[l] # "open" /\ received = MaxCommands)
      ~> (seen[l] = MaxCommands \/ \E t \in Threads : pc[t] = "exited")
=============================================================================
