----------------------- MODULE TrainController_proofs -----------------------
(***************************************************************************)
(* Proofs about TrainController, for every set of keys, every bound and    *)
(* every set of faults.                                                    *)
(***************************************************************************)
EXTENDS TrainController, SequenceTheorems, TLAPS

\* In the initial state both threads are outside the lock and nothing has
\* been received.
LEMMA InitEstablishes == Init => IInv
<1> SUFFICES ASSUME Init PROVE IInv
  OBVIOUS
<1> USE DEF Init, Threads
<1>1. TypeOK
  <2>1. pc \in [Threads -> ServerLabels \cup ClientLabels]
    BY DEF ServerLabels, ClientLabels
  <2>2. <<>> \in Seq(Keys)
    OBVIOUS
  <2> QED
    BY <2>1, <2>2 DEF TypeOK, ServerLabels, ClientLabels, HeaderKinds
<1>2. Ownership /\ FlagMeaning
  BY DEF Ownership, FlagMeaning
<1>3. NothingLostOrForged /\ NoLostWakeup
  BY DEF NothingLostOrForged, NoLostWakeup
<1> QED
  BY <1>1, <1>2, <1>3 DEF IInv

\* Every step of either thread keeps the flag, the buffer, the mutex and the
\* condition variable consistent.
LEMMA StepPreserves == IInv /\ [Next]_vars => IInv'
<1> SUFFICES ASSUME IInv, [Next]_vars PROVE IInv'
  OBVIOUS
<1> USE DEF IInv, Threads
<1> DEFINE Rest == Ownership' /\ FlagMeaning' /\ NothingLostOrForged' /\ NoLostWakeup'
<1>1. ASSUME NEW t \in Threads, Lock(t) PROVE IInv'
  <2>1. TypeOK'
    BY <1>1 DEF Lock, Goto, TypeOK, ServerLabels, ClientLabels
  <2>2. Rest
    BY <1>1 DEF Lock, Goto, TypeOK, Ownership, FlagMeaning,
                NothingLostOrForged, NoLostWakeup
  <2> QED BY <2>1, <2>2
<1>2. ASSUME NEW t \in Threads, Wake(t) PROVE IInv'
  <2>1. TypeOK'
    BY <1>2 DEF Wake, Goto, TypeOK, ServerLabels, ClientLabels
  <2>2. Rest
    BY <1>2 DEF Wake, Goto, TypeOK, Ownership, FlagMeaning,
                NothingLostOrForged, NoLostWakeup
  <2> QED BY <2>1, <2>2
<1>3. ASSUME NEW t \in Threads, SpuriousWake(t) PROVE IInv'
  BY <1>3 DEF SpuriousWake, TypeOK, Ownership, FlagMeaning,
              NothingLostOrForged, NoLostWakeup
<1>4. ASSUME NEW t \in Threads, Unlock(t) PROVE IInv'
  <2>1. TypeOK'
    BY <1>4 DEF Unlock, Goto, TypeOK, ServerLabels, ClientLabels
  <2>2. Rest
    BY <1>4 DEF Unlock, Goto, TypeOK, Ownership, FlagMeaning,
                NothingLostOrForged, NoLostWakeup
  <2> QED BY <2>1, <2>2
<1>5. CASE ServerAttach
  BY <1>5 DEF ServerAttach, Goto, TypeOK, Ownership, FlagMeaning,
              NothingLostOrForged, NoLostWakeup, ServerLabels, ClientLabels
<1>6. CASE ServerCheck
  <2>1. TypeOK'
    BY <1>6 DEF ServerCheck, CondWait, Goto, TypeOK, ServerLabels, ClientLabels
  <2>2. Rest
    BY <1>6 DEF ServerCheck, CondWait, Goto, TypeOK, Ownership, FlagMeaning,
                NothingLostOrForged, NoLostWakeup
  <2> QED BY <2>1, <2>2
<1>7. ASSUME NEW k \in Keys, ServerReceiveCommand(k) PROVE IInv'
  <2>0. /\ waiting' \subseteq Threads
        /\ instruction' \in [type : HeaderKinds, data : Keys \cup {Junk}]
        /\ accepted' \in Seq(Keys)
    <3>1. waiting' \subseteq Threads
      BY <1>7 DEF ServerReceiveCommand, CondSignal, TypeOK
    <3>2. instruction' \in [type : HeaderKinds, data : Keys \cup {Junk}]
      BY <1>7 DEF ServerReceiveCommand, HeaderKinds
    <3>3. accepted' \in Seq(Keys)
      BY <1>7, AppendProperties DEF ServerReceiveCommand, TypeOK
    <3> QED
      BY <3>1, <3>2, <3>3
  <2>1. TypeOK'
    <3>1. /\ pc' \in [Threads -> ServerLabels \cup ClientLabels]
          /\ pc'["server"] \in ServerLabels /\ pc'["client"] \in ClientLabels
      BY <1>7 DEF ServerReceiveCommand, Goto, TypeOK, ServerLabels, ClientLabels
    <3>2. mutex' = mutex /\ commandIsReady' = TRUE /\ forwarded' = forwarded
      BY <1>7 DEF ServerReceiveCommand
    <3> QED
      BY <2>0, <3>1, <3>2 DEF TypeOK
  <2>2. Ownership' /\ FlagMeaning' /\ NoLostWakeup'
    BY <1>7 DEF ServerReceiveCommand, CondSignal, Goto, TypeOK, Ownership,
                FlagMeaning, NoLostWakeup
  <2>3. NothingLostOrForged'
    BY <1>7 DEF ServerReceiveCommand, FlagMeaning, NothingLostOrForged
  <2> QED BY <2>1, <2>2, <2>3
<1>8. CASE ServerReceiveIO
  <2>1. TypeOK'
    BY <1>8 DEF ServerReceiveIO, Goto, TypeOK, HeaderKinds, ServerLabels,
                ClientLabels
  <2>2. Rest
    BY <1>8 DEF ServerReceiveIO, Goto, TypeOK, Ownership, FlagMeaning,
                NothingLostOrForged, NoLostWakeup
  <2> QED BY <2>1, <2>2
<1>9. CASE ServerReceivePulse
  <2>1. TypeOK'
    BY <1>9 DEF ServerReceivePulse, Goto, TypeOK, HeaderKinds, ServerLabels,
                ClientLabels
  <2>2. Rest
    BY <1>9 DEF ServerReceivePulse, Goto, TypeOK, Ownership, FlagMeaning,
                NothingLostOrForged, NoLostWakeup
  <2> QED BY <2>1, <2>2
<1>10. CASE ServerReceiveFail
  BY <1>10 DEF ServerReceiveFail, Goto, TypeOK, Ownership, FlagMeaning,
               NothingLostOrForged, NoLostWakeup, ServerLabels, ClientLabels
<1>11. CASE ClientOpen
  BY <1>11 DEF ClientOpen, Goto, TypeOK, Ownership, FlagMeaning,
               NothingLostOrForged, NoLostWakeup, ServerLabels, ClientLabels
<1>12. CASE ClientCheck
  <2>1. TypeOK'
    BY <1>12 DEF ClientCheck, CondWait, Goto, TypeOK, ServerLabels, ClientLabels
  <2>2. Rest
    BY <1>12 DEF ClientCheck, CondWait, Goto, TypeOK, Ownership, FlagMeaning,
                 NothingLostOrForged, NoLostWakeup
  <2> QED BY <2>1, <2>2
<1>13. CASE ClientSend
  <2>1. commandIsReady /\ instruction.data \in Keys
    BY <1>13 DEF ClientSend, FlagMeaning
  <2>0. waiting' \subseteq Threads /\ forwarded' \in Seq(Keys)
    <3>1. waiting' \subseteq Threads
      BY <1>13 DEF ClientSend, CondSignal, TypeOK
    <3>2. forwarded' \in Seq(Keys)
      BY <1>13, <2>1, AppendProperties DEF ClientSend, TypeOK
    <3> QED
      BY <3>1, <3>2
  <2>2. TypeOK'
    <3>1. /\ pc' \in [Threads -> ServerLabels \cup ClientLabels]
          /\ pc'["server"] \in ServerLabels /\ pc'["client"] \in ClientLabels
      BY <1>13 DEF ClientSend, Goto, TypeOK, ServerLabels, ClientLabels
    <3>2. /\ mutex' = mutex /\ commandIsReady' = FALSE
          /\ accepted' = accepted /\ instruction' = instruction
      BY <1>13 DEF ClientSend
    <3> QED
      BY <2>0, <3>1, <3>2 DEF TypeOK
  <2>3. Ownership' /\ FlagMeaning' /\ NoLostWakeup'
    BY <1>13 DEF ClientSend, CondSignal, Goto, TypeOK, Ownership, FlagMeaning,
                 NoLostWakeup
  <2>4. NothingLostOrForged'
    BY <1>13, <2>1 DEF ClientSend, NothingLostOrForged
  <2> QED BY <2>2, <2>3, <2>4
<1>14. CASE ClientSendFail
  BY <1>14 DEF ClientSendFail, Goto, TypeOK, Ownership, FlagMeaning,
               NothingLostOrForged, NoLostWakeup, ServerLabels, ClientLabels
<1>15. CASE UNCHANGED vars
  BY <1>15 DEF vars, TypeOK, Ownership, FlagMeaning, NothingLostOrForged,
               NoLostWakeup
<1> QED
  BY <1>1, <1>2, <1>3, <1>4, <1>5, <1>6, <1>7, <1>8, <1>9, <1>10, <1>11,
     <1>12, <1>13, <1>14, <1>15 DEF Next, ServerReceive

\* The strengthened invariant holds in every state TC can reach.
THEOREM Invariance == Spec => []IInv
  BY InitEstablishes, StepPreserves, PTL DEF Spec

\* Every variable of TC keeps its type.
THEOREM TypeCorrect == Spec => []TypeOK
  BY Invariance, PTL DEF IInv

\* Commands acknowledged to the CTC (l. 193) are forwarded once and in order,
\* the last one still being in the buffer while commandIsReady is set.
THEOREM RelayKeepsCommands == Spec => []NothingLostOrForged
  BY Invariance, PTL DEF IInv

\* No thread sleeps on the condition variable past the signal it waits for.
THEOREM WakeupsAreNotLost == Spec => []NoLostWakeup
  BY Invariance, PTL DEF IInv

\* While the client is in MsgSend (l. 241) the shared buffer is the last
\* acknowledged command and the server cannot receive into it.
THEOREM BufferIsStable == Spec => []BufferStableDuringSend
<1>1. IInv => BufferStableDuringSend
  BY DEF IInv, TypeOK, Ownership, FlagMeaning, NothingLostOrForged,
         BufferStableDuringSend, Threads
<1> QED
  BY <1>1, Invariance, PTL

\* A client that gave up on X1 silences the acknowledgements to the CTC.
THEOREM LinkLossSilencesAcks == Spec => NoAckAfterLinkLoss
<1>1. IInv /\ [Next]_vars => (pc["client"] = "exited" => UNCHANGED accepted)
  <2> SUFFICES ASSUME IInv, [Next]_vars, pc["client"] = "exited"
               PROVE  UNCHANGED accepted
    OBVIOUS
  <2>1. ASSUME NEW k \in Keys PROVE ~ServerReceiveCommand(k)
    BY DEF IInv, Ownership, ServerReceiveCommand, Threads
  <2> QED
    BY <2>1 DEF Next, vars, Lock, Wake, SpuriousWake, Unlock, ServerAttach,
       ServerCheck, ServerReceive, ServerReceiveIO, ServerReceivePulse,
       ServerReceiveFail, ClientOpen, ClientCheck, ClientSend, ClientSendFail
<1> QED
  BY <1>1, Invariance, PTL DEF Spec, NoAckAfterLinkLoss

\* TC implements the one-place relay of CommandRelay.
THEOREM ImplementsRelay == Spec => RelaySpec
<1>1. Init => Relay!Init
  BY DEF Init, Relay!Init
<1>2. IInv /\ [Next]_vars => [Relay!Next]_(Relay!vars)
  <2> SUFFICES ASSUME IInv, [Next]_vars PROVE [Relay!Next]_(Relay!vars)
    OBVIOUS
  <2> USE DEF Relay!vars
  <2>1. ASSUME NEW k \in Keys, ServerReceiveCommand(k)
        PROVE  Relay!Accept(k)
    BY <2>1 DEF ServerReceiveCommand, Relay!Accept, IInv, FlagMeaning,
                NothingLostOrForged
  <2>2. CASE ClientSend
    <3>1. accepted = Append(forwarded, instruction.data)
      BY <2>2 DEF ClientSend, IInv, FlagMeaning, NothingLostOrForged
    <3>2. /\ Len(forwarded) < Len(accepted)
          /\ accepted[Len(forwarded) + 1] = instruction.data
      BY <3>1 DEF IInv, TypeOK
    <3> QED
      BY <2>2, <3>2 DEF ClientSend, Relay!Forward, Relay!Next
  <2>3. ASSUME Next, ~ClientSend, \A k \in Keys : ~ServerReceiveCommand(k)
        PROVE  UNCHANGED <<accepted, forwarded>>
    BY <2>3 DEF Next, vars, Lock, Wake, SpuriousWake, Unlock, ServerAttach,
       ServerCheck, ServerReceive, ServerReceiveIO, ServerReceivePulse,
       ServerReceiveFail, ClientOpen, ClientCheck, ClientSendFail
  <2> QED
    BY <2>1, <2>2, <2>3 DEF vars, Relay!Next
<1> QED
  BY <1>1, <1>2, Invariance, PTL DEF Spec, RelaySpec, Relay!Spec
=============================================================================
