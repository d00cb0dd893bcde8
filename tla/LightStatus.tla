----------------------------- MODULE LightStatus -----------------------------
(***************************************************************************)
(* The traffic lights and the monitor that shows them: the client thread   *)
(* of each local controller (L1, L2), which runs the light's state machine *)
(* and sends every new phase to the central traffic controller, and the    *)
(* server thread of the CTC, which receives and displays them.             *)
(*                                                                         *)
(* Each thread has its mutex to itself (the other thread of its process    *)
(* works on another struct), so the mutexes are left out; nobody signals   *)
(* the light's condition variable while the light waits on it.             *)
(***************************************************************************)
EXTENDS Naturals

CONSTANTS
  Lights,              \* the local controllers
  RY_DELAY, G_DELAY,   \* seconds of a red or yellow, and of a green phase
  Faults               \* the calls that may fail although nothing else did:
                       \* "attach", "receive", "send"

ASSUME DelaysAssumption == RY_DELAY \in Nat /\ G_DELAY \in Nat
ASSUME FaultsAssumption == Faults \subseteq {"attach", "receive", "send"}

VARIABLES
  pc,            \* where the client thread of each light is
  ctc,           \* where the server thread of the CTC is
  currentState,  \* the state the machine executes next, 0..6
  phase,         \* the state it executed last: what the road users see
  waitTime,      \* trafficLight.waitTime
  dataIsReady,   \* sensor->dataIsReady
  view           \* what the CTC displayed last of each light

vars == <<pc, ctc, currentState, phase, waitTime, dataIsReady, view>>

States == 0..6
Off == 7      \* the phase before the machine has run, and its display

\* SensorDataInit does not initialise dataIsReady.
Init ==
  /\ pc = [l \in Lights |-> "open"]
  /\ ctc = "attach"
  /\ currentState = [l \in Lights |-> 0]
  /\ phase = [l \in Lights |-> Off]
  /\ waitTime = [l \in Lights |-> RY_DELAY]
  /\ dataIsReady \in [Lights -> BOOLEAN]
  /\ view = [l \in Lights |-> Off]

-----------------------------------------------------------------------------
(* The state machine of a light: start, all red, east-west green, yellow,  *)
(* all red, north-south green, yellow, and again from state 1.             *)

\* Mutated: no red between the yellow of one direction and the green of the
\* other; a machine that forgets north-south.
Following_NoRed(s) == IF s = 6 THEN 2 ELSE s + 1
Following_OneWay(s) == IF s = 4 THEN 1 ELSE s + 1

Following(s) == IF s = 6 THEN 1 ELSE s + 1

\* Mutated: the yellow states leave the waitTime of the green ones.
trafficLightStateMachine_LongYellow(l) ==
  LET s == currentState[l] IN
  /\ phase' = [phase EXCEPT ![l] = s]
  /\ currentState' = [currentState EXCEPT ![l] = Following(s)]
  /\ waitTime' = [waitTime EXCEPT ![l] = IF s \in {2, 5} THEN G_DELAY ELSE @]

trafficLightStateMachine(l) ==
  LET s == currentState[l] IN
  /\ phase' = [phase EXCEPT ![l] = s]
  /\ currentState' = [currentState EXCEPT ![l] = Following(s)]
  /\ waitTime' = [waitTime EXCEPT ![l] =
                    IF s \in {2, 5} THEN G_DELAY
                    ELSE IF s \in {3, 6} THEN RY_DELAY ELSE @]

-----------------------------------------------------------------------------
(* The client thread of light l.                                           *)

Goto(l, label) == pc' = [pc EXCEPT ![l] = label]

\* name_open is tried once: it finds the name the CTC attached, whose server
\* answers the connection request, or the thread returns.
LightOpen(l) ==
  /\ pc[l] = "open"
  /\ Goto(l, IF ctc = "receive" THEN "check" ELSE "exited")
  /\ UNCHANGED <<ctc, currentState, phase, waitTime, dataIsReady, view>>

\* while(!dataIsReady) pthread_cond_wait(...), as far as it blocks
LightWait(l) ==
  /\ pc[l] = "check"
  /\ ~dataIsReady[l]
  /\ Goto(l, "asleep")
  /\ UNCHANGED <<ctc, currentState, phase, waitTime, dataIsReady, view>>

\* pthread_cond_wait may return although nobody signalled.
SpuriousWake(l) ==
  /\ pc[l] = "asleep"
  /\ Goto(l, "check")
  /\ UNCHANGED <<ctc, currentState, phase, waitTime, dataIsReady, view>>

\* The machine makes a step, and MsgSend of the new phase begins.
LightStep(l) ==
  /\ pc[l] = "check"
  /\ dataIsReady[l]
  /\ trafficLightStateMachine(l)
  /\ dataIsReady' = [dataIsReady EXCEPT ![l] = TRUE]
  /\ Goto(l, "send")
  /\ UNCHANGED <<ctc, view>>

\* MsgSend fails: the loop is left.
LightSendFail(l) ==
  /\ pc[l] = "send"
  /\ "send" \in Faults \/ ctc = "exited"
  /\ Goto(l, "exited")
  /\ UNCHANGED <<ctc, currentState, phase, waitTime, dataIsReady, view>>

\* sleep(waitTime) is over: back to the top of the loop.
LightTimer(l) ==
  /\ pc[l] = "hold"
  /\ Goto(l, "check")
  /\ UNCHANGED <<ctc, currentState, phase, waitTime, dataIsReady, view>>

-----------------------------------------------------------------------------
(* The server thread of the CTC.                                           *)

ServerAttach ==
  /\ ctc = "attach"
  /\ \/ ctc' = "receive"
     \/ "attach" \in Faults /\ ctc' = "exited"
  /\ UNCHANGED <<pc, currentState, phase, waitTime, dataIsReady, view>>

\* Mutated: the state executed next is displayed.
ServerReceiveStatus_Next(l) ==
  /\ ctc = "receive"
  /\ pc[l] = "send"
  /\ view' = [view EXCEPT ![l] = currentState[l]]
  /\ Goto(l, "hold")
  /\ UNCHANGED <<ctc, currentState, phase, waitTime, dataIsReady>>

\* The message of light l is displayed and answered; the light goes to sleep
\* for its waitTime.
ServerReceiveStatus(l) ==
  /\ ctc = "receive"
  /\ pc[l] = "send"
  /\ view' = [view EXCEPT ![l] = phase[l]]
  /\ Goto(l, "hold")
  /\ UNCHANGED <<ctc, currentState, phase, waitTime, dataIsReady>>

\* MsgReceive fails: the loop is left and the name detached.
ServerReceiveFail ==
  /\ "receive" \in Faults
  /\ ctc = "receive"
  /\ ctc' = "exited"
  /\ UNCHANGED <<pc, currentState, phase, waitTime, dataIsReady, view>>

-----------------------------------------------------------------------------
Light(l) ==
  \/ LightOpen(l) \/ LightWait(l) \/ SpuriousWake(l) \/ LightStep(l)
  \/ LightSendFail(l) \/ LightTimer(l)

Next ==
  \/ \E l \in Lights : Light(l) \/ ServerReceiveStatus(l)
  \/ ServerAttach \/ ServerReceiveFail

Spec == Init /\ [][Next]_vars

\* Threads run, sleeps end, and a message waiting at a living server is
\* received in its turn.
Fairness ==
  \A l \in Lights :
    /\ WF_vars(LightWait(l) \/ LightStep(l)) /\ WF_vars(LightTimer(l))
    /\ WF_vars(ServerReceiveStatus(l) \/ LightSendFail(l))

FairSpec == Spec /\ Fairness

-----------------------------------------------------------------------------
(* Properties.                                                             *)

TypeOK ==
  /\ pc \in [Lights -> {"open", "check", "asleep", "send", "hold", "exited"}]
  /\ ctc \in {"attach", "receive", "exited"}
  /\ currentState \in [Lights -> States]
  /\ phase \in [Lights -> States \cup {Off}]
  /\ waitTime \in [Lights -> Nat]
  /\ dataIsReady \in [Lights -> BOOLEAN]
  /\ view \in [Lights -> States \cup {Off}]

\* A light sleeps G_DELAY in a green phase and RY_DELAY in every other one,
\* although states 0, 1 and 4 (l. 116-125, 141-146) set no waitTime and rely
\* on what an earlier state left.
HoldsForThePhase ==
  \A l \in Lights : pc[l] = "hold" =>
    waitTime[l] = IF phase[l] \in {2, 5} THEN G_DELAY ELSE RY_DELAY

NextPhase(p) == IF p = Off THEN 0 ELSE Following(p)

\* The monitor shows the phase of every light, except while a new phase is on
\* its way or the light is dead: then it may show the one before (LC l. 229-232,
\* CTC l. 279-283).
ViewFollows ==
  \A l \in Lights :
    \/ view[l] = phase[l]
    \/ pc[l] \in {"send", "exited"} /\ phase[l] = NextPhase(view[l])

\* What makes these inductive: what the machine does next and how long it
\* waits depend only on what it did last, whichever state set the waitTime.
MachineInv ==
  \A l \in Lights :
    /\ currentState[l] = NextPhase(phase[l])
    /\ waitTime[l] = IF phase[l] \in {2, 5} THEN G_DELAY ELSE RY_DELAY

IInv == TypeOK /\ MachineInv /\ ViewFollows

\* The colours and the turn that a light's phase stands for.
Signal(p) ==
  [d \in {"ew", "ns"} |->
     IF p = (IF d = "ew" THEN 2 ELSE 5) THEN "green"
     ELSE IF p = (IF d = "ew" THEN 3 ELSE 6) THEN "yellow"
     ELSE "red"]
Turn(p) == IF p \in {4, 5, 6} THEN "ns" ELSE "ew"

Road == INSTANCE Intersection WITH signal <- [l \in Lights |-> Signal(phase[l])],
                                   turn <- [l \in Lights |-> Turn(phase[l])]

\* Every light implements the intersection, also when it stops somewhere.
RoadSpec == Road!Spec

\* A light that has started lets both directions pass again and again, unless
\* it loses the monitor.
BothDirectionsServed ==
  \A l \in Lights : \A green \in {2, 5} :
    pc[l] = "hold" ~> phase[l] = green \/ pc[l] = "exited"
=============================================================================
