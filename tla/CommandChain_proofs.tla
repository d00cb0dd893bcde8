------------------------- MODULE CommandChain_proofs -------------------------
(***************************************************************************)
(* Proofs about CommandChain, for every set of keys and lines, every       *)
(* length and number of typed lines and every set of faults.               *)
(***************************************************************************)
EXTENDS CommandChain, SequenceTheorems, TLAPS

\* Nothing has been typed, sent or received.
LEMMA InitEstablishes == Init => IInv
<1> SUFFICES ASSUME Init PROVE IInv
  OBVIOUS
<1>1. PathInv
  <2>1. <<>> \in Seq(K!Chars) /\ Len(<<>>) = 0
    OBVIOUS
  <2> QED
    BY <2>1 DEF Init, K!Init, T!Init, X!Init, PathInv, K!Chars
<1>2. FlagInv
  BY DEF Init, T!Init, FlagInv, T!Threads, T!ServerLabels, T!ClientLabels
<1>3. LineInv
  BY DEF Init, X!Init, LineInv, X!HeaderKinds
<1> QED
  BY <1>1, <1>2, <1>3 DEF IInv

\* What a line of the keyboard puts into the instruction is a character; the
\* commands sent before are not touched.
LEMMA KeyboardPreserves ==
  ASSUME IInv, Keyboard \/ KeyboardSendFail
  PROVE  IInv'
<1>1. UNCHANGED <<sent, tpc, tready, tinstr, accepted, forwarded, xinstr, received, seen>>
  BY DEF Keyboard, KeyboardSendFail, tvars, xvars, K!ReadLine, K!Check,
         K!SpuriousWake, K!SendFail
<1>2. data' \in K!Chars
  <2>1. ASSUME NEW key \in Keys \cup {Nul}, NEW n \in 0..MaxLength,
               K!ReadLine(key, n)
        PROVE  data' \in K!Chars
    BY <2>1 DEF K!ReadLine, K!Chars, IInv, PathInv
  <2>2. CASE K!Check \/ K!SpuriousWake \/ KeyboardSendFail
    BY <2>2 DEF K!Check, K!SpuriousWake, KeyboardSendFail, K!SendFail, IInv, PathInv
  <2> QED
    BY <2>1, <2>2 DEF Keyboard
<1> QED
  BY <1>1, <1>2 DEF IInv, PathInv, FlagInv, LineInv

\* TC's threads change its flag and its buffer only when they receive or send.
LEMMA ControllerPreserves ==
  ASSUME IInv,
         \/ \E t \in T!Threads : ControllerThread(t)
         \/ ControllerOther \/ ControllerSendFail
  PROVE  IInv'
<1>1. /\ UNCHANGED <<data, sent, tready, tinstr, accepted, forwarded>>
      /\ UNCHANGED <<xinstr, received, seen>>
  BY DEF ControllerThread, ControllerOther, ControllerSendFail, kvars, xvars,
     T!Lock, T!Wake, T!Unlock, T!ServerAttach, T!ServerCheck, T!ClientCheck,
     T!ServerReceiveFail, T!SpuriousWake, T!ClientSendFail
<1>2. FlagInv'
  BY <1>1 DEF ControllerThread, ControllerOther, ControllerSendFail, T!Goto,
     T!Lock, T!Wake, T!Unlock, T!ServerAttach, T!ServerCheck, T!ClientCheck,
     T!ServerReceiveFail, T!SpuriousWake, T!ClientSendFail, T!CondWait,
     IInv, FlagInv, T!Threads, T!ServerLabels, T!ClientLabels
<1> QED
  BY <1>1, <1>2 DEF IInv, PathInv, LineInv

\* A line is sent what X1's buffer holds; a pulse leaves the command in it.
LEMMA LinePreserves ==
  ASSUME IInv,
         \/ \E t \in X!Threads : LineThread(t)
         \/ \E l \in Lines : LineReply(l)
         \/ LineServerFail \/ LinePulse
  PROVE  IInv'
<1>1. UNCHANGED <<data, sent, tpc, tready, tinstr, accepted, forwarded, received>>
  BY DEF LineThread, LineReply, LineServerFail, LinePulse, kvars, tvars,
     X!Lock, X!Block, X!Unlock, X!ServerAttach, X!ClientOpen, X!ClientSend,
     X!ClientSendFail, X!ServerReceiveFail, X!ServerReceivePulse
<1>2. ASSUME \E l \in Lines : X!ClientSend(l) PROVE LineInv'
  BY <1>1, <1>2 DEF X!ClientSend, IInv, LineInv, PathInv
<1>3. ASSUME LinePulse PROVE LineInv'
  <2>1. seen' = seen
    BY <1>3 DEF LinePulse, X!ServerReceivePulse
  <2>2. xinstr' \in [type : X!HeaderKinds, cmd : {0, received}]
    BY <1>3 DEF LinePulse, X!ServerReceivePulse, X!HeaderKinds, IInv, LineInv
  <2> QED
    BY <1>1, <2>1, <2>2 DEF IInv, LineInv
<1>4. ASSUME ~LinePulse, ~\E l \in Lines : X!ClientSend(l) PROVE LineInv'
  <2>1. UNCHANGED <<xinstr, seen>>
    BY <1>4 DEF LineThread, LineReply, LineServerFail, X!Lock, X!Block,
       X!Unlock, X!ServerAttach, X!ClientOpen, X!ClientSendFail,
       X!ServerReceiveFail
  <2> QED
    BY <1>1, <2>1 DEF IInv, LineInv
<1>5. LineInv'
  BY <1>2, <1>3, <1>4
<1> QED
  BY <1>1, <1>5 DEF IInv, PathInv, FlagInv

\* What arrives at TC and is no command arrives while the flag is not set, so
\* that no command is lost with the buffer.
LEMMA InterruptionPreserves ==
  ASSUME IInv, OpenController \/ ControllerPulse
  PROVE  IInv'
<1>1. /\ UNCHANGED <<data, sent, tready, accepted, forwarded>>
      /\ UNCHANGED <<xinstr, received, seen>>
  BY DEF OpenController, ControllerPulse, K!Open, T!ServerReceiveIO,
     T!ServerReceivePulse, kvars, xvars
<1>2. ~tready
  BY DEF OpenController, ControllerPulse, T!ServerReceiveIO,
     T!ServerReceivePulse, IInv, FlagInv
<1>3. FlagInv'
  BY <1>1, <1>2 DEF OpenController, ControllerPulse, T!ServerReceiveIO,
     T!ServerReceivePulse, T!Goto, IInv, FlagInv, T!Threads, T!ServerLabels,
     T!ClientLabels
<1> QED
  BY <1>1, <1>2, <1>3 DEF IInv, PathInv, LineInv

\* A connection request empties X1's buffer.
LEMMA OpenLinePreserves ==
  ASSUME IInv, OpenLine
  PROVE  IInv'
<1>1. /\ UNCHANGED <<data, sent, tready, tinstr, accepted, forwarded>>
      /\ UNCHANGED <<received, seen>>
  BY DEF OpenLine, T!ClientOpen, X!ServerReceiveIO, kvars
<1>2. FlagInv'
  BY <1>1 DEF OpenLine, T!ClientOpen, T!Goto, IInv, FlagInv, T!Threads,
     T!ServerLabels, T!ClientLabels
<1>3. LineInv'
  BY <1>1 DEF OpenLine, X!ServerReceiveIO, X!HeaderKinds, IInv, LineInv
<1> QED
  BY <1>1, <1>2, <1>3 DEF IInv, PathInv

\* TC's server receives a command only when the last one is with X1.
LEMMA KeyToControllerPreserves ==
  ASSUME IInv, KeyToController
  PROVE  IInv'
<1>1. /\ UNCHANGED <<data, forwarded, xinstr, received, seen>>
      /\ tready' = TRUE /\ tinstr'.data = data
      /\ sent' = Append(sent, data) /\ accepted' = Append(accepted, data)
      /\ tpc' = [tpc EXCEPT !["server"] = "unlock"]
  BY DEF KeyToController, K!Send, T!ServerReceiveCommand, T!Goto, xvars
<1>2. sent = forwarded
  BY DEF KeyToController, T!ServerReceiveCommand, IInv, FlagInv, PathInv
<1>3. FlagInv'
  BY <1>1 DEF IInv, PathInv, FlagInv, T!Threads, T!ServerLabels, T!ClientLabels
<1>4. PathInv'
  <2>1. Append(sent, data) \in Seq(K!Chars)
    BY AppendProperties DEF IInv, PathInv
  <2> QED
    BY <1>1, <1>2, <2>1 DEF IInv, PathInv
<1> QED
  BY <1>1, <1>3, <1>4 DEF IInv, LineInv

\* TC's client sends only a command that its server has received.
LEMMA KeyToLinePreserves ==
  ASSUME IInv, KeyToLine
  PROVE  IInv'
<1>1. /\ UNCHANGED <<data, sent, accepted, tinstr, seen>>
      /\ tready' = FALSE
      /\ forwarded' = Append(forwarded, tinstr.data)
      /\ received' = received + 1
      /\ xinstr' = [type |-> "command", cmd |-> received + 1]
      /\ tpc' = [tpc EXCEPT !["client"] = "unlock"]
  BY DEF KeyToLine, T!ClientSend, X!ServerReceiveCommand, T!Goto, kvars
<1>2. tready
  BY DEF KeyToLine, T!ClientSend, IInv, FlagInv
<1>3. FlagInv'
  BY <1>1 DEF IInv, FlagInv, T!Threads, T!ServerLabels, T!ClientLabels
<1>4. PathInv'
  <2>1. /\ Append(forwarded, tinstr.data) \in Seq(K!Chars)
        /\ Len(Append(forwarded, tinstr.data)) = Len(forwarded) + 1
    BY <1>2, AppendProperties DEF IInv, PathInv, FlagInv
  <2> QED
    BY <1>1, <1>2, <2>1 DEF IInv, PathInv
<1>5. LineInv'
  <2>1. received \in Nat
    BY LenProperties DEF IInv, PathInv
  <2> QED
    BY <1>1, <2>1 DEF IInv, LineInv, X!HeaderKinds
<1> QED
  BY <1>3, <1>4, <1>5 DEF IInv

\* The invariant of the path holds in every state of the three processes.
LEMMA Invariance == Spec => []IInv
<1>1. ASSUME IInv, [Next]_vars PROVE IInv'
  <2>1. CASE UNCHANGED vars
    BY <1>1, <2>1 DEF vars, kvars, tvars, xvars, IInv, PathInv, FlagInv, LineInv
  <2> QED
    BY <1>1, <2>1, KeyboardPreserves, ControllerPreserves, LinePreserves,
       InterruptionPreserves, OpenLinePreserves, KeyToControllerPreserves,
       KeyToLinePreserves
       DEF Next
<1> QED
  BY <1>1, InitEstablishes, PTL DEF Spec

\* However the three processes interleave and fail, the operator's console is
\* never two commands ahead of what a line is being sent
\* (CentralTrafficController.c:209, TrainController.c:241, TrainLine.c:220).
THEOREM ConsoleAndLines == Spec => []ConsoleAtMostOneAhead
<1>1. IInv => ConsoleAtMostOneAhead
  <2> SUFFICES ASSUME IInv PROVE ConsoleAtMostOneAhead
    OBVIOUS
  <2>1. received \in Nat /\ Len(sent) \in {received, received + 1}
    BY AppendProperties, LenProperties DEF IInv, PathInv, FlagInv
  <2> QED
    BY <2>1 DEF IInv, LineInv, ConsoleAtMostOneAhead
<1> QED
  BY <1>1, Invariance, PTL

\* The command with some number that a line is sent is the one that the
\* console sent under that number, through the buffers of TC and X1.
THEOREM LinesAreSentTheKeys == Spec => []LinesShowWhatWasSent
<1>1. IInv => LinesShowWhatWasSent
  <2> SUFFICES ASSUME IInv PROVE LinesShowWhatWasSent
    OBVIOUS
  <2>1. received \in Nat /\ received <= Len(sent) /\ Len(sent) \in Nat
    BY AppendProperties, LenProperties DEF IInv, PathInv, FlagInv
  <2>2. ASSUME NEW i \in 1..received PROVE forwarded[i] = sent[i]
    BY AppendProperties DEF IInv, PathInv, FlagInv
  <2> QED
    BY <2>1, <2>2 DEF IInv, LineInv, LinesShowWhatWasSent
<1> QED
  BY <1>1, Invariance, PTL

-----------------------------------------------------------------------------
(* The chain implements the operator's view of it.                         *)

\* Most steps are not seen by the operator or the lines.
LEMMA HiddenSteps ==
  ASSUME UNCHANGED <<sent, received, forwarded, seen>>
  PROVE  UNCHANGED Path!vars
BY DEF Path!vars

\* A reply to the console is one for the next key.
LEMMA AnswerRefines ==
  ASSUME IInv, KeyToController
  PROVE  Path!Next
<1>1. sent' = Append(sent, data) /\ UNCHANGED <<received, forwarded, seen>>
  BY DEF KeyToController, K!Send, T!ServerReceiveCommand, xvars
<1>2. received = Len(sent)
  BY DEF KeyToController, T!ServerReceiveCommand, IInv, FlagInv, PathInv
<1>3. data \in K!Chars
  BY DEF IInv, PathInv
<1>4. Path!Answer(data)
  BY <1>1, <1>2 DEF Path!Answer
<1> QED
  BY <1>3, <1>4 DEF Path!Next

\* The key in TC's buffer reaches X1; what the lines were sent are older keys.
LEMMA ReachRefines ==
  ASSUME IInv, KeyToLine
  PROVE  Path!Next
<1> DEFINE m(k) == IF seen[k] = 0 THEN Junk ELSE forwarded[seen[k]]
<1>1. /\ sent' = sent /\ received' = received + 1 /\ seen' = seen
      /\ forwarded' = Append(forwarded, tinstr.data)
  BY DEF KeyToLine, K!vars, kvars, T!ClientSend, X!ServerReceiveCommand
<1>2. /\ tready /\ tinstr.data \in K!Chars /\ forwarded \in Seq(K!Chars)
      /\ received = Len(forwarded) /\ sent = Append(forwarded, tinstr.data)
  BY DEF KeyToLine, T!ClientSend, IInv, FlagInv, PathInv
<1>3. Len(sent) = received + 1 /\ received \in Nat
  BY <1>2, AppendProperties, LenProperties
<1>4. ASSUME NEW l \in Lines
      PROVE  m(l)' = m(l)
  <2>1. seen[l] \in 0..received
    BY DEF IInv, LineInv
  <2>2. seen[l] # 0 => forwarded'[seen[l]] = forwarded[seen[l]]
    BY <1>1, <1>2, <1>3, <2>1, AppendProperties
  <2> QED
    BY <1>1, <2>2
<1>5. [l \in Lines |-> m(l)'] = [l \in Lines |-> m(l)]
  <2> HIDE DEF m
  <2> QED
    BY <1>4
<1>6. received < Len(sent)
  BY <1>3
<1>7. Path!Reach
  BY <1>1, <1>5, <1>6 DEF Path!Reach
<1> QED
  BY <1>7 DEF Path!Next

\* A line is sent what X1's buffer holds: the last key that has reached it, or
\* none.
LEMMA ShowRefines ==
  ASSUME IInv, NEW l \in Lines, X!ClientSend(l), UNCHANGED <<kvars, tvars>>
  PROVE  Path!Next
<1> DEFINE m(k) == IF seen[k] = 0 THEN Junk ELSE forwarded[seen[k]]
<1>1. /\ UNCHANGED <<sent, received, forwarded>>
      /\ seen' = [seen EXCEPT ![l] = xinstr.cmd]
  BY DEF kvars, tvars, X!ClientSend
<1>2. xinstr.cmd \in {0, received} /\ received \in Nat
  BY LenProperties DEF IInv, PathInv, LineInv
<1>3. received # 0 => forwarded[received] = sent[received]
  BY AppendProperties, LenProperties DEF IInv, PathInv, FlagInv
<1>4. PICK key \in {Junk} \cup {sent[i] : i \in {received} \ {0}} :
        key = IF xinstr.cmd = 0 THEN Junk ELSE forwarded[xinstr.cmd]
  BY <1>2, <1>3
<1>5. \A k \in Lines : m(k)' = IF k = l THEN key ELSE m(k)
  BY <1>1, <1>4 DEF IInv, LineInv
<1>6. [k \in Lines |-> m(k)'] = [[k \in Lines |-> m(k)] EXCEPT ![l] = key]
  <2> HIDE DEF m
  <2> QED
    BY <1>5
<1>7. Path!Show(l)
  BY <1>1, <1>4, <1>6 DEF Path!Show
<1> QED
  BY <1>7 DEF Path!Next

\* Whatever is typed, interrupted and lost, and for any number of lines: each
\* line is shown the key that reached X1 last or none, and the console is
\* answered for one key after the other (CentralTrafficController.c:206-217,
\* TrainController.c:155-186, 236-252; TrainLine.c:144-174, 215-228).
THEOREM ImplementsPath == Spec => PathSpec
<1>1. Init => Path!Init
  BY DEF Init, K!Init, T!Init, X!Init, Path!Init
<1>2. ASSUME IInv, [Next]_vars PROVE [Path!Next]_(Path!vars)
  <2>1. CASE \E l \in Lines : LineReply(l)
    <3> PICK l \in Lines : LineReply(l)
      BY <2>1
    <3>1. CASE X!ClientSend(l) /\ UNCHANGED <<kvars, tvars>>
      BY <1>2, <3>1, ShowRefines
    <3>2. CASE X!ClientSendFail(l) /\ UNCHANGED <<kvars, tvars>>
      BY <3>2, HiddenSteps DEF X!ClientSendFail, kvars, tvars
    <3> QED
      BY <3>1, <3>2 DEF LineReply
  <2>2. CASE KeyToController \/ KeyToLine
    BY <1>2, <2>2, AnswerRefines, ReachRefines
  <2>3. CASE Keyboard \/ KeyboardSendFail
    <3>1. UNCHANGED <<sent, received, forwarded, seen>>
      BY <2>3 DEF Keyboard, KeyboardSendFail, tvars, xvars, K!ReadLine, K!Check,
         K!SpuriousWake, K!SendFail
    <3> QED
      BY <3>1, HiddenSteps
  <2>4. CASE \/ \E t \in T!Threads : ControllerThread(t)
             \/ ControllerOther \/ ControllerSendFail
    <3>1. UNCHANGED <<sent, received, forwarded, seen>>
      BY <2>4 DEF ControllerThread, ControllerOther, ControllerSendFail, kvars,
         xvars, T!Lock, T!Wake, T!Unlock, T!ServerAttach, T!ServerCheck,
         T!ClientCheck, T!ServerReceiveFail, T!SpuriousWake, T!ClientSendFail
    <3> QED
      BY <3>1, HiddenSteps
  <2>5. CASE \/ \E t \in X!Threads : LineThread(t)
             \/ LineServerFail \/ LinePulse
    <3>1. UNCHANGED <<sent, received, forwarded, seen>>
      BY <2>5 DEF LineThread, LineServerFail, LinePulse, kvars, tvars, X!Lock,
         X!Block, X!Unlock, X!ServerAttach, X!ClientOpen, X!ServerReceiveFail,
         X!ServerReceivePulse
    <3> QED
      BY <3>1, HiddenSteps
  <2>6. CASE OpenController \/ ControllerPulse \/ OpenLine
    <3>1. UNCHANGED <<sent, received, forwarded, seen>>
      BY <2>6 DEF OpenController, ControllerPulse, OpenLine, K!Open,
         T!ServerReceiveIO, T!ServerReceivePulse, T!ClientOpen,
         X!ServerReceiveIO, kvars, xvars
    <3> QED
      BY <3>1, HiddenSteps
  <2>7. CASE UNCHANGED vars
    BY <2>7, HiddenSteps DEF vars, kvars, tvars, xvars
  <2> QED
    BY <1>2, <2>1, <2>2, <2>3, <2>4, <2>5, <2>6, <2>7 DEF Next
<1> QED
  BY <1>1, <1>2, Invariance, PTL DEF Spec, PathSpec, Path!Spec

-----------------------------------------------------------------------------
(* In the chain each process behaves as its own module says.               *)

\* A step of the keyboard, and of the rest of the chain, as the keyboard's own.
LEMMA KeyboardSteps ==
  ASSUME [Next]_vars
  PROVE  [K!Next]_(K!vars)
<1>1. CASE Keyboard \/ OpenController \/ KeyToController \/ KeyboardSendFail
  BY <1>1 DEF Keyboard, OpenController, KeyToController, KeyboardSendFail, K!Next
<1>2. CASE UNCHANGED kvars
  BY <1>2 DEF kvars, K!vars
<1>3. CASE \/ \E t \in T!Threads : ControllerThread(t)
           \/ \E t \in X!Threads : LineThread(t)
           \/ \E l \in Lines : LineReply(l)
  BY <1>2, <1>3 DEF ControllerThread, LineThread, LineReply
<1>4. CASE \/ ControllerOther \/ LineServerFail \/ OpenLine \/ KeyToLine
           \/ ControllerSendFail \/ ControllerPulse \/ LinePulse
  BY <1>2, <1>4 DEF ControllerOther, LineServerFail, OpenLine, KeyToLine,
     ControllerSendFail, ControllerPulse, LinePulse
<1> QED
  BY <1>1, <1>2, <1>3, <1>4 DEF Next, vars

\* What the keyboard sends is one of the commands TC's module receives.
LEMMA ControllerSteps ==
  ASSUME IInv, [Next]_vars
  PROVE  [T!Next]_(T!vars)
<1>1. CASE \E t \in T!Threads : ControllerThread(t)
  BY <1>1 DEF ControllerThread, T!Next
<1>2. CASE ControllerOther
  BY <1>2 DEF ControllerOther, T!Next, T!ServerReceive
<1>3. CASE OpenController \/ ControllerPulse
  BY <1>3 DEF OpenController, ControllerPulse, T!Next, T!ServerReceive
<1>4. CASE KeyToController
  <2>1. data \in Keys \cup {Nul, Garbage}
    BY DEF IInv, PathInv, K!Chars
  <2> QED
    BY <1>4, <2>1 DEF KeyToController, T!Next, T!ServerReceive
<1>5. CASE OpenLine \/ KeyToLine \/ ControllerSendFail
  BY <1>5 DEF OpenLine, KeyToLine, ControllerSendFail, T!Next
<1>6. CASE UNCHANGED tvars
  BY <1>6 DEF tvars, T!vars
<1>7. CASE \/ \E t \in X!Threads : LineThread(t)
           \/ \E l \in Lines : LineReply(l)
  BY <1>6, <1>7 DEF LineThread, LineReply
<1>8. CASE Keyboard \/ LineServerFail \/ KeyboardSendFail \/ LinePulse
  BY <1>6, <1>8 DEF Keyboard, LineServerFail, KeyboardSendFail, LinePulse
<1> QED
  BY <1>1, <1>2, <1>3, <1>4, <1>5, <1>6, <1>7, <1>8 DEF Next, vars

\* TC's client is one more client of X1.
LEMMA LineSteps ==
  ASSUME [Next]_vars
  PROVE  [X!Next]_(X!vars)
<1>1. CASE \E t \in X!Threads : LineThread(t)
  BY <1>1 DEF LineThread, X!Next, X!Threads
<1>2. CASE \E l \in Lines : LineReply(l)
  BY <1>2 DEF LineReply, X!Next
<1>3. CASE LineServerFail \/ OpenLine \/ KeyToLine \/ LinePulse
  BY <1>3 DEF LineServerFail, OpenLine, KeyToLine, LinePulse, X!Next,
     X!ServerReceive
<1>4. CASE UNCHANGED xvars
  BY <1>4 DEF xvars, X!vars
<1>5. CASE \E t \in T!Threads : ControllerThread(t)
  BY <1>4, <1>5 DEF ControllerThread
<1>6. CASE \/ Keyboard \/ ControllerOther \/ OpenController \/ KeyToController
           \/ KeyboardSendFail \/ ControllerSendFail \/ ControllerPulse
  BY <1>4, <1>6 DEF Keyboard, ControllerOther, OpenController, KeyToController,
     KeyboardSendFail, ControllerSendFail, ControllerPulse
<1> QED
  BY <1>1, <1>2, <1>3, <1>4, <1>5, <1>6 DEF Next, vars

\* Joining the steps of the three processes, and taking their messages from
\* each other, adds nothing to what each does by itself: what is proved of the
\* modules of TC, X1 and the keyboard holds of the processes in the chain
\* (CentralTrafficController.c:206-217, TrainController.c:155-186, 236-252,
\* TrainLine.c:144-174).
THEOREM ProcessesBehaveAsAlone == Spec => K!Spec /\ T!Spec /\ X!Spec
<1>1. Init => K!Init /\ T!Init /\ X!Init
  BY DEF Init
<1>2. ASSUME IInv, [Next]_vars
      PROVE  [K!Next]_(K!vars) /\ [T!Next]_(T!vars) /\ [X!Next]_(X!vars)
  BY <1>2, KeyboardSteps, ControllerSteps, LineSteps
<1> QED
  BY <1>1, <1>2, Invariance, PTL DEF Spec, K!Spec, T!Spec, X!Spec
=============================================================================
