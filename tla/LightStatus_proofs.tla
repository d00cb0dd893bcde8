------------------------- MODULE LightStatus_proofs -------------------------
(***************************************************************************)
(* Proofs about LightStatus, for every set of lights, all delays and every *)
(* set of faults.                                                          *)
(***************************************************************************)
EXTENDS LightStatus, TLAPS

LEMMA InitEstablishes == Init => IInv
  BY DelaysAssumption DEF Init, IInv, TypeOK, MachineInv, ViewFollows, NextPhase,
     States, Off

\* The machine's step moves one light to its next phase with the delay that
\* belongs to it.
LEMMA MachineStep ==
  ASSUME IInv, NEW l \in Lights, trafficLightStateMachine(l)
  PROVE  /\ phase' = [phase EXCEPT ![l] = NextPhase(phase[l])]
         /\ phase' \in [Lights -> States \cup {Off}]
         /\ currentState' \in [Lights -> States]
         /\ waitTime' \in [Lights -> Nat]
         /\ MachineInv'
<1> DEFINE s == currentState[l]
<1>1. s \in States /\ s = NextPhase(phase[l])
  BY DEF IInv, TypeOK, MachineInv
<1>2. /\ phase' = [phase EXCEPT ![l] = s]
      /\ currentState' = [currentState EXCEPT ![l] = Following(s)]
      /\ waitTime' = [waitTime EXCEPT ![l] =
                        IF s \in {2, 5} THEN G_DELAY
                        ELSE IF s \in {3, 6} THEN RY_DELAY ELSE waitTime[l]]
  BY DEF trafficLightStateMachine
<1>3. /\ phase' \in [Lights -> States \cup {Off}]
      /\ currentState' \in [Lights -> States]
      /\ waitTime' \in [Lights -> Nat]
  BY <1>1, <1>2, DelaysAssumption DEF IInv, TypeOK, Following, States
<1>4. ASSUME NEW m \in Lights
      PROVE  /\ currentState'[m] = NextPhase(phase'[m])
             /\ waitTime'[m] = IF phase'[m] \in {2, 5} THEN G_DELAY ELSE RY_DELAY
  <2>1. CASE m # l
    BY <1>2, <2>1 DEF IInv, TypeOK, MachineInv
  <2>2. CASE m = l
    <3>1. phase'[m] = s /\ currentState'[m] = Following(s)
      BY <1>2, <2>2 DEF IInv, TypeOK
    <3>2. currentState'[m] = NextPhase(phase'[m])
      BY <1>1, <3>1 DEF NextPhase, States, Off
    <3>3. waitTime'[m] = IF s \in {2, 5} THEN G_DELAY
                         ELSE IF s \in {3, 6} THEN RY_DELAY ELSE waitTime[l]
      BY <1>2, <2>2 DEF IInv, TypeOK
    <3>4. s \notin {2, 3, 5, 6} => waitTime[l] = RY_DELAY
      BY <1>1 DEF IInv, TypeOK, MachineInv, NextPhase, Following, States, Off
    <3> QED
      BY <1>1, <3>1, <3>2, <3>3, <3>4 DEF States
  <2> QED
    BY <2>1, <2>2
<1> QED
  BY <1>1, <1>2, <1>3, <1>4 DEF MachineInv

LEMMA StepPreserves == IInv /\ [Next]_vars => IInv'
<1> SUFFICES ASSUME IInv, [Next]_vars PROVE IInv'
  OBVIOUS
<1> USE DEF IInv, Goto
<1>1. ASSUME NEW l \in Lights, LightOpen(l) PROVE IInv'
  BY <1>1 DEF LightOpen, TypeOK, MachineInv, ViewFollows
<1>2. ASSUME NEW l \in Lights, LightWait(l) \/ SpuriousWake(l) \/ LightTimer(l)
      PROVE  IInv'
  BY <1>2 DEF LightWait, SpuriousWake, LightTimer, TypeOK, MachineInv, ViewFollows
<1>3. ASSUME NEW l \in Lights, LightStep(l) PROVE IInv'
  <2>1. trafficLightStateMachine(l)
    BY <1>3 DEF LightStep
  <2>2. TypeOK' /\ MachineInv'
    BY <1>3, <2>1, MachineStep DEF LightStep, TypeOK
  <2>3. ViewFollows'
    BY <1>3, <2>1, MachineStep DEF LightStep, TypeOK, ViewFollows
  <2> QED
    BY <2>2, <2>3
<1>4. ASSUME NEW l \in Lights, LightSendFail(l) PROVE IInv'
  BY <1>4 DEF LightSendFail, TypeOK, MachineInv, ViewFollows
<1>5. ASSUME NEW l \in Lights, ServerReceiveStatus(l) PROVE IInv'
  <2>1. TypeOK' /\ MachineInv'
    BY <1>5 DEF ServerReceiveStatus, TypeOK, MachineInv
  <2>2. ViewFollows'
    BY <1>5 DEF ServerReceiveStatus, TypeOK, ViewFollows
  <2> QED
    BY <2>1, <2>2
<1>6. CASE ServerAttach \/ ServerReceiveFail
  BY <1>6 DEF ServerAttach, ServerReceiveFail, TypeOK, MachineInv, ViewFollows
<1>7. CASE UNCHANGED vars
  BY <1>7 DEF vars, TypeOK, MachineInv, ViewFollows
<1> QED
  BY <1>1, <1>2, <1>3, <1>4, <1>5, <1>6, <1>7 DEF Next, Light

\* The strengthened invariant holds in every reachable state.
THEOREM Invariance == Spec => []IInv
  BY InitEstablishes, StepPreserves, PTL DEF Spec

\* Every variable of the lights and the monitor keeps its type.
THEOREM TypeCorrect == Spec => []TypeOK
  BY Invariance, PTL DEF IInv

\* A light that sleeps does so for the delay of its phase.
THEOREM DelaysAreRight == Spec => []HoldsForThePhase
<1>1. IInv => HoldsForThePhase
  BY DEF IInv, MachineInv, HoldsForThePhase
<1> QED
  BY <1>1, Invariance, PTL

\* The monitor is at most one phase behind a light, and only while the phase
\* is on its way or the light is dead.
THEOREM ViewIsRecent == Spec => []ViewFollows
  BY Invariance, PTL DEF IInv

\* The colours of each phase.
LEMMA Colours ==
  /\ \A p \in {Off, 0, 1, 4} : Signal(p) = [d \in {"ew", "ns"} |-> "red"]
  /\ Signal(2) = [d \in {"ew", "ns"} |-> IF d = "ew" THEN "green" ELSE "red"]
  /\ Signal(3) = [d \in {"ew", "ns"} |-> IF d = "ew" THEN "yellow" ELSE "red"]
  /\ Signal(5) = [d \in {"ew", "ns"} |-> IF d = "ns" THEN "green" ELSE "red"]
  /\ Signal(6) = [d \in {"ew", "ns"} |-> IF d = "ns" THEN "yellow" ELSE "red"]
  BY DEF Signal, Off

\* What each phase change means for the two directions.
LEMMA PhaseChange ==
  ASSUME NEW p \in States \cup {Off}
  PROVE  LET q == NextPhase(p) IN
         \/ Signal(q) = Signal(p) /\ Turn(q) = Turn(p)
         \/ \E d \in {"ew", "ns"} :
              \/ /\ Turn(p) = d /\ Turn(q) = d
                 /\ Signal(p) = [e \in {"ew", "ns"} |-> "red"]
                 /\ Signal(q) = [Signal(p) EXCEPT ![d] = "green"]
              \/ /\ Signal(p)[d] = "green" /\ Turn(q) = Turn(p)
                 /\ Signal(q) = [Signal(p) EXCEPT ![d] = "yellow"]
              \/ /\ Signal(p)[d] = "yellow"
                 /\ Signal(q) = [Signal(p) EXCEPT ![d] = "red"]
                 /\ Turn(q) = (IF d = "ew" THEN "ns" ELSE "ew")
<1>1. CASE p \in {Off, 0}
  BY <1>1 DEF NextPhase, Following, Signal, Turn, Off
<1>2. CASE p = 1
  <2>1. Turn(1) = "ew" /\ Turn(2) = "ew"
    BY DEF Turn
  <2>2. Signal(1) = [e \in {"ew", "ns"} |-> "red"]
    BY Colours
  <2>3. Signal(2) = [Signal(1) EXCEPT !["ew"] = "green"]
    BY Colours
  <2> QED
    BY <1>2, <2>1, <2>2, <2>3 DEF NextPhase, Following, Off
<1>3. CASE p = 2
  <2>1. Signal(2)["ew"] = "green" /\ Turn(3) = Turn(2)
    BY Colours DEF Turn
  <2>2. Signal(3) = [Signal(2) EXCEPT !["ew"] = "yellow"]
    BY Colours
  <2> QED
    BY <1>3, <2>1, <2>2 DEF NextPhase, Following, Off
<1>4. CASE p = 3
  <2>1. Signal(3)["ew"] = "yellow" /\ Turn(4) = "ns"
    BY Colours DEF Turn
  <2>2. Signal(4) = [Signal(3) EXCEPT !["ew"] = "red"]
    BY Colours
  <2> QED
    BY <1>4, <2>1, <2>2 DEF NextPhase, Following, Off
<1>5. CASE p = 4
  <2>1. Turn(4) = "ns" /\ Turn(5) = "ns"
    BY DEF Turn
  <2>2. Signal(4) = [e \in {"ew", "ns"} |-> "red"]
    BY Colours
  <2>3. Signal(5) = [Signal(4) EXCEPT !["ns"] = "green"]
    BY Colours
  <2> QED
    BY <1>5, <2>1, <2>2, <2>3 DEF NextPhase, Following, Off
<1>6. CASE p = 5
  <2>1. Signal(5)["ns"] = "green" /\ Turn(6) = Turn(5)
    BY Colours DEF Turn
  <2>2. Signal(6) = [Signal(5) EXCEPT !["ns"] = "yellow"]
    BY Colours
  <2> QED
    BY <1>6, <2>1, <2>2 DEF NextPhase, Following, Off
<1>7. CASE p = 6
  <2>1. Signal(6)["ns"] = "yellow" /\ Turn(1) = "ew"
    BY Colours DEF Turn
  <2>2. Signal(1) = [Signal(6) EXCEPT !["ns"] = "red"]
    BY Colours
  <2> QED
    BY <1>7, <2>1, <2>2 DEF NextPhase, Following, Off
<1> QED
  BY <1>1, <1>2, <1>3, <1>4, <1>5, <1>6, <1>7 DEF States

\* Every light implements the intersection.
THEOREM ImplementsIntersection == Spec => RoadSpec
<1> DEFINE sig == [m \in Lights |-> Signal(phase[m])]
           trn == [m \in Lights |-> Turn(phase[m])]
<1>1. Init => Road!Init
  BY DEF Init, Road!Init, Road!Directions, Signal, Turn, Off
<1>2. IInv /\ [Next]_vars => [Road!Next]_(Road!vars)
  <2> SUFFICES ASSUME IInv, [Next]_vars PROVE [Road!Next]_(Road!vars)
    OBVIOUS
  <2>1. ASSUME NEW l \in Lights, LightStep(l)
        PROVE  [Road!Next]_(Road!vars)
    <3> DEFINE p == phase[l]
               q == NextPhase(phase[l])
    <3>1. p \in States \cup {Off} /\ phase' = [phase EXCEPT ![l] = q]
      BY <2>1, MachineStep DEF LightStep, IInv, TypeOK
    <3>2. /\ sig' = [sig EXCEPT ![l] = Signal(q)]
          /\ trn' = [trn EXCEPT ![l] = Turn(q)]
      BY <3>1 DEF IInv, TypeOK
    <3>3. sig[l] = Signal(p) /\ trn[l] = Turn(p)
      OBVIOUS
    <3>4. CASE Signal(q) = Signal(p) /\ Turn(q) = Turn(p)
      <4>1. sig' = sig /\ trn' = trn
        BY <3>2, <3>3, <3>4
      <4> QED
        BY <4>1 DEF Road!vars
    <3>5. ASSUME NEW d \in {"ew", "ns"},
                 Turn(p) = d, Turn(q) = d,
                 Signal(p) = [e \in {"ew", "ns"} |-> "red"],
                 Signal(q) = [Signal(p) EXCEPT ![d] = "green"]
          PROVE  Road!Green(l, d)
      <4>1. trn' = trn
        BY <3>2, <3>3, <3>5
      <4>2. sig' = [sig EXCEPT ![l] = [sig[l] EXCEPT ![d] = "green"]]
        BY <3>2, <3>3, <3>5
      <4> QED
        BY <3>3, <3>5, <4>1, <4>2 DEF Road!Green, Road!Change, Road!Directions
    <3>6. ASSUME NEW d \in {"ew", "ns"},
                 Signal(p)[d] = "green", Turn(q) = Turn(p),
                 Signal(q) = [Signal(p) EXCEPT ![d] = "yellow"]
          PROVE  Road!Yellow(l, d)
      <4>1. trn' = trn
        BY <3>2, <3>3, <3>6
      <4>2. sig' = [sig EXCEPT ![l] = [sig[l] EXCEPT ![d] = "yellow"]]
        BY <3>2, <3>3, <3>6
      <4> QED
        BY <3>3, <3>6, <4>1, <4>2 DEF Road!Yellow, Road!Change
    <3>7. ASSUME NEW d \in {"ew", "ns"},
                 Signal(p)[d] = "yellow",
                 Signal(q) = [Signal(p) EXCEPT ![d] = "red"],
                 Turn(q) = (IF d = "ew" THEN "ns" ELSE "ew")
          PROVE  Road!Red(l, d)
      <4>1. Turn(q) = Road!Other[d]
        BY <3>7 DEF Road!Other
      <4>2. trn' = [trn EXCEPT ![l] = Road!Other[d]]
        BY <3>2, <4>1
      <4>3. sig' = [sig EXCEPT ![l] = [sig[l] EXCEPT ![d] = "red"]]
        BY <3>2, <3>3, <3>7
      <4> QED
        BY <3>3, <3>7, <4>2, <4>3 DEF Road!Red, Road!Change
    <3>8. \/ Signal(q) = Signal(p) /\ Turn(q) = Turn(p)
          \/ \E d \in {"ew", "ns"} :
               \/ /\ Turn(p) = d /\ Turn(q) = d
                  /\ Signal(p) = [e \in {"ew", "ns"} |-> "red"]
                  /\ Signal(q) = [Signal(p) EXCEPT ![d] = "green"]
               \/ /\ Signal(p)[d] = "green" /\ Turn(q) = Turn(p)
                  /\ Signal(q) = [Signal(p) EXCEPT ![d] = "yellow"]
               \/ /\ Signal(p)[d] = "yellow"
                  /\ Signal(q) = [Signal(p) EXCEPT ![d] = "red"]
                  /\ Turn(q) = (IF d = "ew" THEN "ns" ELSE "ew")
      BY <3>1, PhaseChange
    <3> HIDE DEF p, q
    <3>9. (\E d \in Road!Directions : Road!Green(l, d) \/ Road!Yellow(l, d) \/ Road!Red(l, d))
            => [Road!Next]_(Road!vars)
      BY DEF Road!Next
    <3> QED
      BY <3>4, <3>5, <3>6, <3>7, <3>8, <3>9 DEF Road!Directions
  <2>2. ASSUME Next, \A l \in Lights : ~LightStep(l) PROVE phase' = phase
    BY <2>2 DEF Next, Light, LightOpen, LightWait, SpuriousWake, LightSendFail,
       LightTimer, ServerReceiveStatus, ServerAttach, ServerReceiveFail
  <2> QED
    BY <2>1, <2>2 DEF vars, Road!vars
<1> QED
  BY <1>1, <1>2, Invariance, PTL DEF Spec, RoadSpec, Road!Spec
=============================================================================
