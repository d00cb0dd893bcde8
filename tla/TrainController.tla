--------------------------- MODULE TrainController ---------------------------
(***************************************************************************)
(* The train controller process (TC).  Its server thread receives key      *)
(* commands from the central traffic controller (CTC) and its client       *)
(* thread sends them on to X1.  The two share one InstructionCommand - a   *)
(* mutex, a condition variable and an instruction buffer - and the global  *)
(* flag commandIsReady.                                                    *)
(*                                                                         *)
(* The field dataIsReady is 0 from InstructionCommandInit on and is only   *)
(* ever set to 0 in this program, so the server's first wait loop is never *)
(* entered and the field is left out.                                      *)
(*                                                                         *)
(* Taken from QNX: locking a mutex one owns fails with EDEADLK (the code   *)
(* ignores it and goes on owning the mutex once); waiting on a condition   *)
(* releases the mutex in the same step and may end without a signal; a     *)
(* signal releases one waiter.  Receiving a message overwrites the whole   *)
(* instruction buffer; receiving a pulse overwrites only its header.       *)
(***************************************************************************)
EXTENDS Naturals, Sequences

CONSTANTS
  Keys,          \* the key commands an operator can enter
  Junk,          \* what the data field holds when no command put it there
  MaxCommands,   \* bound: how many commands the CTC sends
  Faults         \* the calls that may fail: "attach", "receive", "send"

ASSUME KeysAssumption == Junk \notin Keys
ASSUME BoundAssumption == MaxCommands \in Nat
ASSUME FaultsAssumption == Faults \subseteq {"attach", "receive", "send"}

VARIABLES
  pc,              \* where each thread is
  mutex,           \* the owner of ic->mutex, or "free"
  waiting,         \* the threads blocked on ic->condVar
  commandIsReady,  \* the global flag
  instruction,     \* ic->instruction: the kind of its header, and its data
  accepted,        \* history: the commands acknowledged to the CTC
  forwarded        \* history: the commands that X1 has replied to

vars == <<pc, mutex, waiting, commandIsReady, instruction, accepted, forwarded>>

Threads == {"server", "client"}
ServerLabels ==
  {"attach", "lock", "check", "asleep", "receive", "unlock", "exited"}
ClientLabels == {"open", "lock", "check", "asleep", "send", "unlock", "exited"}

\* The headers a receive can leave in the buffer; "garbage" is the memory of
\* the uninitialised local variable of main.
HeaderKinds == {"garbage", "command", "connect", "io", "pulse"}

Init ==
  /\ pc = [t \in Threads |-> IF t = "server" THEN "attach" ELSE "open"]
  /\ mutex = "free"
  /\ waiting = {}
  /\ commandIsReady = FALSE
  /\ instruction = [type |-> "garbage", data |-> Junk]
  /\ accepted = <<>>
  /\ forwarded = <<>>

-----------------------------------------------------------------------------
(* The mutex and the condition variable.                                   *)

Goto(t, label) == pc' = [pc EXCEPT ![t] = label]

\* pthread_mutex_lock: taken when free; a thread that owns the mutex already
\* gets EDEADLK and carries on as its owner.
Lock(t) ==
  /\ pc[t] = "lock"
  /\ mutex \in {"free", t}
  /\ mutex' = t
  /\ Goto(t, "check")
  /\ UNCHANGED <<waiting, commandIsReady, instruction, accepted, forwarded>>

\* pthread_cond_wait, as far as it blocks: the mutex is released with it.
CondWait(t) ==
  /\ Goto(t, "asleep")
  /\ waiting' = waiting \cup {t}
  /\ mutex' = "free"

\* Mutated: the signal is forgotten.
CondSignal_Lost == UNCHANGED waiting

\* pthread_cond_signal: one waiter stops waiting, if there is one.
CondSignal ==
  IF waiting = {} THEN UNCHANGED waiting
                  ELSE \E t \in waiting : waiting' = waiting \ {t}

\* A thread released from the condition variable takes the mutex back and
\* returns to the test of its wait loop.
Wake(t) ==
  /\ pc[t] = "asleep"
  /\ t \notin waiting
  /\ mutex = "free"
  /\ mutex' = t
  /\ Goto(t, "check")
  /\ UNCHANGED <<waiting, commandIsReady, instruction, accepted, forwarded>>

\* pthread_cond_wait may return although nobody signalled.
SpuriousWake(t) ==
  /\ t \in waiting
  /\ waiting' = waiting \ {t}
  /\ UNCHANGED <<pc, mutex, commandIsReady, instruction, accepted, forwarded>>

Unlock(t) ==
  /\ pc[t] = "unlock"
  /\ mutex' = "free"
  /\ Goto(t, "lock")
  /\ UNCHANGED <<waiting, commandIsReady, instruction, accepted, forwarded>>

-----------------------------------------------------------------------------
(* The server thread.                                                      *)

\* name_attach; the thread returns at once when it fails.
ServerAttach ==
  /\ pc["server"] = "attach"
  /\ \/ Goto("server", "lock")
     \/ "attach" \in Faults /\ Goto("server", "exited")
  /\ UNCHANGED <<mutex, waiting, commandIsReady, instruction, accepted,
                 forwarded>>

\* Mutated: the server does not wait for the client.
ServerCheck_NoWait ==
  /\ pc["server"] = "check"
  /\ Goto("server", "receive")
  /\ UNCHANGED <<mutex, waiting, commandIsReady, instruction, accepted, forwarded>>

\* while(commandIsReady) pthread_cond_wait(...)
ServerCheck ==
  /\ pc["server"] = "check"
  /\ \/ commandIsReady /\ CondWait("server")
     \/ /\ ~commandIsReady
        /\ Goto("server", "receive")
        /\ UNCHANGED <<mutex, waiting>>
  /\ UNCHANGED <<commandIsReady, instruction, accepted, forwarded>>

\* Mutated: what is acknowledged is what the buffer held before.
ServerReceiveCommand_Old(k) ==
  /\ pc["server"] = "receive"
  /\ Len(accepted) < MaxCommands
  /\ instruction' = [type |-> "command", data |-> k]
  /\ accepted' = Append(accepted, instruction.data)
  /\ commandIsReady' = TRUE
  /\ CondSignal
  /\ Goto("server", "unlock")
  /\ UNCHANGED <<mutex, forwarded>>

\* Mutated: the client is not signalled.
ServerReceiveCommand_Silent(k) ==
  /\ pc["server"] = "receive"
  /\ Len(accepted) < MaxCommands
  /\ instruction' = [type |-> "command", data |-> k]
  /\ accepted' = Append(accepted, k)
  /\ commandIsReady' = TRUE
  /\ Goto("server", "unlock")
  /\ UNCHANGED <<mutex, waiting, forwarded>>

\* A command from the CTC: acknowledged, flagged and signalled.
ServerReceiveCommand(k) ==
  /\ pc["server"] = "receive"
  /\ Len(accepted) < MaxCommands
  /\ instruction' = [type |-> "command", data |-> k]
  /\ accepted' = Append(accepted, k)
  /\ commandIsReady' = TRUE
  /\ CondSignal
  /\ Goto("server", "unlock")
  /\ UNCHANGED <<mutex, forwarded>>

\* A connection request is answered with EOK and any other I/O message with
\* ENOSYS; both go back to the top of the loop with the mutex still owned.
ServerReceiveIO ==
  /\ pc["server"] = "receive"
  /\ \E type \in {"connect", "io"} :
       instruction' = [type |-> type, data |-> Junk]
  /\ Goto("server", "lock")
  /\ UNCHANGED <<mutex, waiting, commandIsReady, accepted, forwarded>>

\* A pulse is handled by pulseStateMachine and the lock is released.
ServerReceivePulse ==
  /\ pc["server"] = "receive"
  /\ instruction' = [instruction EXCEPT !.type = "pulse"]
  /\ Goto("server", "unlock")
  /\ UNCHANGED <<mutex, waiting, commandIsReady, accepted, forwarded>>

\* MsgReceive fails: the loop is left, and the mutex is never unlocked.
ServerReceiveFail ==
  /\ "receive" \in Faults
  /\ pc["server"] = "receive"
  /\ Goto("server", "exited")
  /\ UNCHANGED <<mutex, waiting, commandIsReady, instruction, accepted,
                 forwarded>>

-----------------------------------------------------------------------------
(* The client thread.                                                      *)

\* name_open succeeds, at the first attempt or after retries.
ClientOpen ==
  /\ pc["client"] = "open"
  /\ Goto("client", "lock")
  /\ UNCHANGED <<mutex, waiting, commandIsReady, instruction, accepted,
                 forwarded>>

ClientCheck ==
  /\ pc["client"] = "check"
  /\ \/ ~commandIsReady /\ CondWait("client")
     \/ /\ commandIsReady
        /\ Goto("client", "send")
        /\ UNCHANGED <<mutex, waiting>>
  /\ UNCHANGED <<commandIsReady, instruction, accepted, forwarded>>

\* Mutated: the flag is not cleared.
ClientSend_KeepsFlag ==
  /\ pc["client"] = "send"
  /\ forwarded' = Append(forwarded, instruction.data)
  /\ CondSignal
  /\ Goto("client", "unlock")
  /\ UNCHANGED <<mutex, commandIsReady, instruction, accepted>>

\* MsgSend returns with X1's reply: the flag is cleared and signalled.
ClientSend ==
  /\ pc["client"] = "send"
  /\ forwarded' = Append(forwarded, instruction.data)
  /\ commandIsReady' = FALSE
  /\ CondSignal
  /\ Goto("client", "unlock")
  /\ UNCHANGED <<mutex, instruction, accepted>>

\* MsgSend fails: the loop is left, and the mutex is never unlocked.
ClientSendFail ==
  /\ "send" \in Faults
  /\ pc["client"] = "send"
  /\ Goto("client", "exited")
  /\ UNCHANGED <<mutex, waiting, commandIsReady, instruction, accepted,
                 forwarded>>

-----------------------------------------------------------------------------
ServerReceive ==
  \/ \E k \in Keys : ServerReceiveCommand(k)
  \/ ServerReceiveIO
  \/ ServerReceivePulse
  \/ ServerReceiveFail

Next ==
  \/ \E t \in Threads : Lock(t) \/ Wake(t) \/ SpuriousWake(t) \/ Unlock(t)
  \/ ServerAttach \/ ServerCheck \/ ServerReceive
  \/ ClientOpen \/ ClientCheck \/ ClientSend \/ ClientSendFail

Spec == Init /\ [][Next]_vars

\* A running thread takes its next step; a thread that asks for the mutex
\* gets it if it is released again and again (the kernel hands it over in
\* the order of the requests); X1 answers a message or the send fails.
\* Nothing is assumed of what arrives at the server or of name_open.
Fairness ==
  /\ WF_vars(ServerCheck) /\ WF_vars(ClientCheck)
  /\ WF_vars(ClientSend \/ ClientSendFail)
  /\ \A t \in Threads : WF_vars(Unlock(t)) /\ SF_vars(Lock(t)) /\ SF_vars(Wake(t))

FairSpec == Spec /\ Fairness

-----------------------------------------------------------------------------
(* Properties.                                                             *)

TypeOK ==
  /\ pc \in [Threads -> ServerLabels \cup ClientLabels]
  /\ pc["server"] \in ServerLabels /\ pc["client"] \in ClientLabels
  /\ mutex \in Threads \cup {"free"}
  /\ waiting \subseteq Threads
  /\ commandIsReady \in BOOLEAN
  /\ instruction \in [type : HeaderKinds, data : Keys \cup {Junk}]
  /\ accepted \in Seq(Keys)
  /\ forwarded \in Seq(Keys)

\* Every command acknowledged to the CTC has been forwarded to X1, in order
\* and once, except for the one in the buffer while commandIsReady is set:
\* no connection request, rejected I/O message or pulse that the server
\* receives in between (l. 161-187) reaches what the client sends (l. 241).
NothingLostOrForged ==
  accepted = IF commandIsReady THEN Append(forwarded, instruction.data)
                               ELSE forwarded

\* A thread that is blocked on the condition variable and not yet signalled
\* is right to be: the flag still has the value it waits on.  The two
\* conditions share one condition variable and one signal each (l. 157, 200,
\* 237, 250).
NoLostWakeup ==
  /\ "server" \in waiting => commandIsReady
  /\ "client" \in waiting => ~commandIsReady

\* While the client is blocked in MsgSend (l. 241), which reads the buffer the
\* server receives into, the buffer holds the last acknowledged command and
\* the server is kept out of MsgReceive.
BufferStableDuringSend ==
  pc["client"] = "send" =>
    /\ mutex = "client" /\ pc["server"] # "receive"
    /\ instruction.type = "command"
    /\ instruction.data = accepted[Len(accepted)]

\* The client that gave up on X1 (l. 242-245) still owns the mutex, so the CTC
\* is never again told that a command has been received.
NoAckAfterLinkLoss ==
  [][pc["client"] = "exited" => UNCHANGED accepted]_vars

Relay == INSTANCE CommandRelay WITH in <- accepted, out <- forwarded

\* TC implements the one-place relay.
RelaySpec == Relay!Spec

\* What makes these inductive: who owns the
\* mutex at which place, who can be waiting, and what the flag says of the
\* buffer.
Ownership ==
  /\ \A t \in Threads :
       pc[t] \in {"check", "receive", "send", "unlock"} => mutex = t
  /\ pc["client"] = "exited" => mutex = "client"
  /\ \A t \in waiting : pc[t] = "asleep"

FlagMeaning ==
  /\ pc["server"] = "receive" => ~commandIsReady
  /\ pc["client"] = "send" => commandIsReady
  /\ commandIsReady => instruction.type = "command" /\ instruction.data \in Keys

IInv == TypeOK /\ Ownership /\ FlagMeaning /\ NothingLostOrForged /\ NoLostWakeup

\* Once the client thread is connected, a command that was acknowledged is
\* forwarded, or the send to X1 fails, whatever else arrives at the server.
EventuallyForwarded ==
  commandIsReady /\ pc["client"] # "open"
    ~> ~commandIsReady \/ pc["client"] = "exited"
=============================================================================
