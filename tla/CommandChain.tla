---------------------------- MODULE CommandChain ----------------------------
(***************************************************************************)
(* The path of a key command: the keyboard client of the CTC, the train    *)
(* controller TC, the train line controller X1 and its lines, composed of  *)
(* the modules of the three processes.  MsgSend in one process and         *)
(* MsgReceive with MsgReply in the next are one step of both; so are       *)
(* name_open and the answer to its connection request.  A sender whose     *)
(* server thread has ended gets an error.                                  *)
(*                                                                         *)
(* In addition to the state of the three modules: TC and X1 use the reply  *)
(* they send to their client also as the buffer for the reply they get     *)
(* from their server, replySourceName included.                            *)
(***************************************************************************)
EXTENDS Naturals, Sequences, Functions

CONSTANTS
  Keys, Nul, Garbage,   \* what an operator types, see KeyboardClient
  Junk,                 \* what TC's buffer holds when it is no command
  Lines,                \* the lines of X1
  MaxLength, MaxLines,  \* bounds: the length and the number of typed lines
  Faults                \* the calls that may fail although nothing else did:
                        \* "attach", "receive", "send"

ASSUME ChainAssumption ==
  /\ Junk \notin Keys \cup {Nul, Garbage}
  /\ Faults \subseteq {"attach", "receive", "send"}
  /\ MaxLines \in Nat

VARIABLES
  kpc, low, high, data, kready, entered, sent,                  \* CTC client
  tpc, tmutex, waiting, tready, tinstr, accepted, forwarded,    \* TC
  xpc, xmutex, queue, xinstr, received, seen, owed,             \* X1
  tReplyName, xReplyName,   \* reply.replySourceName of TC and of X1
  replyFrom                 \* the name on the reply the CTC got last

kvars == <<kpc, low, high, data, kready, entered, sent>>
tvars == <<tpc, tmutex, waiting, tready, tinstr, accepted, forwarded>>
xvars == <<xpc, xmutex, queue, xinstr, received, seen, owed>>
names == <<tReplyName, xReplyName, replyFrom>>
vars == <<kvars, tvars, xvars, names>>

K == INSTANCE KeyboardClient WITH
  pc <- kpc, dataIsReady <- kready, Faults <- {"send"}

T == INSTANCE TrainController WITH
  Keys <- Keys \cup {Nul, Garbage}, MaxCommands <- MaxLines,
  Faults <- Faults \cup {"send"}, pc <- tpc, mutex <- tmutex,
  commandIsReady <- tready, instruction <- tinstr

X == INSTANCE TrainLine WITH
  MaxCommands <- MaxLines, Faults <- Faults, pc <- xpc, mutex <- xmutex,
  instruction <- xinstr

\* InstructionCommandInit puts each process's host name into its reply.
Init ==
  /\ K!Init /\ T!Init /\ X!Init
  /\ tReplyName = "TC" /\ xReplyName = "X1" /\ replyFrom = "none"

-----------------------------------------------------------------------------
(* Steps of one process.                                                   *)

Keyboard ==
  /\ \/ \E key \in Keys \cup {Nul}, n \in 0..MaxLength : K!ReadLine(key, n)
     \/ K!Check \/ K!SpuriousWake
  /\ UNCHANGED <<tvars, xvars, names>>

ControllerThread(t) ==
  /\ \/ T!Lock(t) \/ T!Wake(t) \/ T!Unlock(t)
     \/ t = "server" /\ (T!ServerAttach \/ T!ServerCheck)
     \/ t = "client" /\ T!ClientCheck
  /\ UNCHANGED <<kvars, xvars, names>>

ControllerOther ==
  /\ T!ServerReceiveFail \/ \E t \in T!Threads : T!SpuriousWake(t)
  /\ UNCHANGED <<kvars, xvars, names>>

LineThread(t) ==
  /\ \/ X!Lock(t) \/ X!Block(t) \/ X!Unlock(t)
     \/ t = "server" /\ X!ServerAttach
     \/ t # "server" /\ X!ClientOpen(t)
  /\ UNCHANGED <<kvars, tvars, names>>

LineServerFail == X!ServerReceiveFail /\ UNCHANGED <<kvars, tvars, names>>

\* A line answers X1 with its own name, or rejects what it was sent.
LineReply(l) ==
  \/ /\ X!ClientSend(l)
     /\ xReplyName' = l
     /\ UNCHANGED <<kvars, tvars, tReplyName, replyFrom>>
  \/ /\ X!ClientSendFail(l)
     /\ UNCHANGED <<kvars, tvars, names>>

-----------------------------------------------------------------------------
(* Steps of two processes.                                                 *)

\* The CTC connects to TC.
OpenController ==
  /\ K!Open
  /\ T!ServerReceiveIO /\ tinstr'.type = "connect"
  /\ UNCHANGED <<xvars, names>>

\* TC connects to X1.
OpenLine ==
  /\ T!ClientOpen
  /\ X!ServerReceiveIO /\ xinstr'.type = "connect"
  /\ UNCHANGED <<kvars, names>>

\* A key command goes from the CTC to TC, and TC's reply back.
KeyToController ==
  /\ K!Send
  /\ T!ServerReceiveCommand(data)
  /\ replyFrom' = tReplyName
  /\ UNCHANGED <<xvars, tReplyName, xReplyName>>

\* A key command goes from TC to X1, and X1's reply into TC's reply buffer.
KeyToLine ==
  /\ T!ClientSend
  /\ X!ServerReceiveCommand
  /\ tReplyName' = xReplyName
  /\ UNCHANGED <<kvars, xReplyName, replyFrom>>

\* The server of the next process has ended, or the network fails.
KeyboardSendFail ==
  /\ tpc["server"] = "exited" \/ "send" \in Faults
  /\ K!SendFail
  /\ UNCHANGED <<tvars, xvars, names>>

ControllerSendFail ==
  /\ xpc["server"] = "exited" \/ "send" \in Faults
  /\ T!ClientSendFail
  /\ UNCHANGED <<kvars, xvars, names>>

\* A client that ends closes its connection: its server gets a pulse.
ControllerPulse ==
  /\ kpc = "exited"
  /\ T!ServerReceivePulse
  /\ UNCHANGED <<kvars, xvars, names>>

LinePulse ==
  /\ tpc["client"] = "exited"
  /\ X!ServerReceivePulse
  /\ UNCHANGED <<kvars, tvars, names>>

-----------------------------------------------------------------------------
Next ==
  \/ Keyboard \/ ControllerOther \/ LineServerFail
  \/ \E t \in T!Threads : ControllerThread(t)
  \/ \E t \in X!Threads : LineThread(t)
  \/ \E l \in Lines : LineReply(l)
  \/ OpenController \/ OpenLine \/ KeyToController \/ KeyToLine
  \/ KeyboardSendFail \/ ControllerSendFail \/ ControllerPulse \/ LinePulse

Spec == Init /\ [][Next]_vars

\* All threads run, lines answer, a message is received when its server gets
\* to receive, and a sender whose server has ended gets its error; the threads
\* of TC get a mutex that is released again and again.
Fairness ==
  /\ WF_vars(OpenController) /\ WF_vars(OpenLine)
  /\ WF_vars(KeyToController) /\ WF_vars(KeyToLine)
  /\ WF_vars(tpc["server"] = "exited" /\ KeyboardSendFail)
  /\ WF_vars(xpc["server"] = "exited" /\ ControllerSendFail)
  /\ \A t \in T!Threads : SF_vars(ControllerThread(t))
  /\ \A t \in X!Threads : WF_vars(LineThread(t))
  /\ \A l \in Lines : WF_vars(LineReply(l))

FairSpec == Spec /\ Fairness

-----------------------------------------------------------------------------
(* Properties.                                                             *)

SomeThreadDied ==
  \/ kpc = "exited"
  \/ \E t \in T!Threads : tpc[t] = "exited"
  \/ \E t \in X!Threads : xpc[t] = "exited"

\* At most one command is between the CTC and X1, and what a line is being
\* sent is the command the operator's console got its reply for last or the
\* one before it, or none: the console is never two ahead of the lines.
ConsoleAtMostOneAhead ==
  /\ Len(sent) \in {received, received + 1}
  /\ \A l \in Lines : xpc[l] = "send" =>
       xinstr.cmd \in {0, Len(sent) - 1, Len(sent)}

\* The command a line was sent last is the one with this number that the
\* console sent, through two buffers that other messages overwrite.
LinesShowWhatWasSent ==
  /\ \A i \in 1..received : forwarded[i] = sent[i]
  /\ \A l \in Lines : seen[l] \in 0..Len(sent)

\* What a line is sent under a number is a key, or none.
Path == INSTANCE CommandPath WITH
  Keys <- K!Chars, None <- Junk, answered <- sent, reached <- received,
  shown <- [l \in Lines |-> IF seen[l] = 0 THEN Junk ELSE forwarded[seen[l]]]

\* From the keyboard to the lines: every line is shown the key that reached X1
\* last or none, through the two buffers and whatever fails, and the console is
\* answered for one key after the other (CentralTrafficController.c:206-217,
\* TrainController.c:155-186, 236-252; TrainLine.c:144-174, 215-228).
PathSpec == Path!Spec

\* What makes these inductive: the commands that the CTC has a reply for are
\* those TC acknowledged, of which X1 has all but the one in TC's buffer; that
\* one is not overwritten, since TC's flag says which thread may use the
\* buffer; and X1's buffer holds the last of its commands, or none.
PathInv ==
  /\ data \in K!Chars /\ sent \in Seq(K!Chars) /\ forwarded \in Seq(K!Chars)
  /\ accepted = sent
  /\ sent = IF tready THEN Append(forwarded, tinstr.data) ELSE forwarded
  /\ received = Len(forwarded)

FlagInv ==
  /\ tpc \in [T!Threads -> T!ServerLabels \cup T!ClientLabels]
  /\ tready \in BOOLEAN
  /\ tready => tinstr.data \in K!Chars
  /\ tpc["server"] = "receive" => ~tready
  /\ tpc["client"] = "send" => tready

LineInv ==
  /\ xinstr \in [type : X!HeaderKinds, cmd : {0, received}]
  /\ seen \in [Lines -> 0..received]

IInv == PathInv /\ FlagInv /\ LineInv

\* Unless a thread has died, a key that the operator entered is answered:
\* nothing in the three processes waits for something else in a circle,
\* although TC and X1 hold their mutexes while they wait for each other.
OperatorAnswered == kpc = "send" ~> kpc # "send" \/ SomeThreadDied

\* TC initialises "instruction data as a reply to CTC" with its host name
\* (TrainController.c:90-95): the replies the CTC gets carry that name.
RepliesNameTheController == replyFrom \in {"none", "TC"}
=============================================================================
