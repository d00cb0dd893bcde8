------------------------ MODULE KeyboardClient_proofs ------------------------
(***************************************************************************)
(* Proofs about KeyboardClient, for every set of keys and all bounds.      *)
(***************************************************************************)
EXTENDS KeyboardClient, SequenceTheorems, TLAPS

LEMMA InitEstablishes == Init => IInv
<1> SUFFICES ASSUME Init PROVE IInv
  OBVIOUS
<1>1. entered = <<>> /\ sent = <<>> /\ Len(entered) = 0 /\ Len(sent) = 0
  BY DEF Init
<1>2. entered \in Seq(Keys \cup {Nul}) /\ sent \in Seq(Chars)
  BY <1>1
<1>3. TypeOK
  BY <1>2 DEF Init, TypeOK, Chars
<1>4. KeyForKey
  BY <1>1 DEF Init, KeyForKey
<1>5. StuckOnlyAtStart /\ DataInv
  BY <1>1 DEF Init, StuckOnlyAtStart, DataInv, LastOr
<1> QED
  BY <1>3, <1>4, <1>5 DEF IInv

\* A line is appended to the lines entered; the data is replaced by its key or
\* kept, the latter only for a blank line.
LEMMA ReadLineStep ==
  ASSUME IInv, NEW key \in Keys \cup {Nul}, NEW n \in 0..MaxLength,
         ReadLine(key, n)
  PROVE  IInv'
<1>1. /\ pc = "poll" /\ pc' = "check" /\ sent' = sent
      /\ entered' = Append(entered, key)
      /\ low' = key /\ high' \subseteq 1..3
  BY DEF ReadLine
<1>2. \/ data' = key /\ dataIsReady' = TRUE
      \/ data' = data /\ dataIsReady' = dataIsReady /\ key = Nul
  BY DEF ReadLine
<1>3. /\ entered' \in Seq(Keys \cup {Nul})
      /\ Len(entered') = Len(entered) + 1 /\ Len(entered) \in Nat
      /\ \A i \in 1..Len(entered) : entered'[i] = entered[i]
      /\ entered'[Len(entered')] = key
  BY <1>1, AppendProperties DEF IInv, TypeOK
<1>4. Len(entered) = Len(sent) /\ data = LastOr(sent, Garbage)
  BY <1>1 DEF IInv, KeyForKey, DataInv
<1>5. TypeOK'
  BY <1>1, <1>2, <1>3 DEF IInv, TypeOK, Chars
<1>6. KeyForKey'
  BY <1>1, <1>3, <1>4 DEF IInv, KeyForKey
<1>7. ~dataIsReady' => entered' = <<Nul>>
  <2> SUFFICES ASSUME ~dataIsReady' PROVE entered' = <<Nul>>
    OBVIOUS
  <2>1. key = Nul /\ sent = <<>>
    BY <1>2 DEF IInv, DataInv
  <2>2. entered = <<>>
    BY <1>4, <2>1 DEF IInv, TypeOK
  <2> QED
    BY <1>1, <2>1, <2>2
<1>8. sent # <<>> => dataIsReady'
  BY <1>2 DEF IInv, DataInv
<1>9. StuckOnlyAtStart' /\ DataInv'
  BY <1>1, <1>2, <1>3, <1>4, <1>7, <1>8 DEF StuckOnlyAtStart, DataInv, LastOr
<1> QED
  BY <1>5, <1>6, <1>9 DEF IInv

\* The data is appended to the commands sent, against the line just entered.
LEMMA SendStep ==
  ASSUME IInv, Send
  PROVE  IInv'
<1>1. /\ pc = "send" /\ pc' = "poll" /\ sent' = Append(sent, data)
      /\ UNCHANGED <<low, high, data, dataIsReady, entered>>
  BY DEF Send
<1>2. /\ sent' \in Seq(Chars)
      /\ Len(sent') = Len(sent) + 1 /\ Len(sent) \in Nat
      /\ \A i \in 1..Len(sent) : sent'[i] = sent[i]
      /\ sent'[Len(sent')] = data /\ sent' # <<>>
  BY <1>1, AppendProperties DEF IInv, TypeOK
<1>3. TypeOK'
  BY <1>1, <1>2 DEF IInv, TypeOK
<1>4. KeyForKey'
  <2>1. Len(entered) = Len(sent')
    BY <1>1, <1>2 DEF IInv, KeyForKey
  <2>2. ASSUME NEW i \in 1..Len(sent')
        PROVE  \/ sent'[i] = entered[i]
               \/ /\ entered[i] = Nul
                  /\ sent'[i] = IF i = 1 THEN Garbage ELSE sent'[i - 1]
    <3>1. CASE i = Len(sent')
      <4>1. \/ data = entered[i]
            \/ entered[i] = Nul /\ data = LastOr(sent, Garbage)
        BY <1>1, <2>1, <3>1 DEF IInv, DataInv
      <4>2. LastOr(sent, Garbage) = IF i = 1 THEN Garbage ELSE sent'[i - 1]
        BY <1>2, <3>1 DEF LastOr, IInv, TypeOK
      <4> QED
        BY <1>2, <3>1, <4>1, <4>2
    <3>2. CASE i # Len(sent')
      <4>1. i \in 1..Len(sent) /\ (i # 1 => i - 1 \in 1..Len(sent))
        BY <1>2, <3>2
      <4> QED
        BY <1>2, <4>1 DEF IInv, KeyForKey
    <3> QED
      BY <3>1, <3>2
  <2> QED
    BY <1>1, <2>1, <2>2 DEF KeyForKey
<1>5. StuckOnlyAtStart' /\ DataInv'
  BY <1>1, <1>2 DEF IInv, StuckOnlyAtStart, DataInv, LastOr
<1> QED
  BY <1>3, <1>4, <1>5 DEF IInv

LEMMA StepPreserves == IInv /\ [Next]_vars => IInv'
<1> SUFFICES ASSUME IInv, [Next]_vars PROVE IInv'
  OBVIOUS
<1>1. CASE Open
  BY <1>1 DEF Open, IInv, TypeOK, KeyForKey, StuckOnlyAtStart, DataInv
<1>2. CASE Check
  <2>1. TypeOK' /\ KeyForKey'
    BY <1>2 DEF Check, IInv, TypeOK, KeyForKey
  <2>2. ~dataIsReady => sent = <<>> /\ entered = <<Nul>>
    BY <1>2 DEF Check, IInv, DataInv
  <2>3. StuckOnlyAtStart' /\ DataInv'
    BY <1>2, <2>2 DEF Check, IInv, TypeOK, StuckOnlyAtStart, DataInv, LastOr
  <2> QED
    BY <2>1, <2>3 DEF IInv
<1>3. CASE SpuriousWake
  BY <1>3 DEF SpuriousWake, IInv, TypeOK, KeyForKey, StuckOnlyAtStart, DataInv,
              LastOr
<1>4. CASE SendFail
  BY <1>4 DEF SendFail, IInv, TypeOK, KeyForKey, StuckOnlyAtStart, DataInv, LastOr
<1>5. CASE UNCHANGED vars
  BY <1>5 DEF vars, IInv, TypeOK, KeyForKey, StuckOnlyAtStart, DataInv, LastOr
<1> QED
  BY <1>1, <1>2, <1>3, <1>4, <1>5, ReadLineStep, SendStep DEF Next

\* The strengthened invariant holds in every state of the thread.
THEOREM Invariance == Spec => []IInv
  BY InitEstablishes, StepPreserves, PTL DEF Spec

\* The bytes, the instruction and both histories keep their types.
THEOREM TypeCorrect == Spec => []TypeOK
  BY Invariance, PTL DEF IInv

\* Each line sends one command, and a line with a key sends its own.
THEOREM EachLineSendsItsKey == Spec => []KeyForKey
  BY Invariance, PTL DEF IInv

\* Only a blank line before the first key can block the thread for good.
THEOREM StuckOnlyBeforeFirstKey == Spec => []StuckOnlyAtStart
  BY Invariance, PTL DEF IInv
=============================================================================
