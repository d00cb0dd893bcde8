--------------------------- MODULE KeyboardClient ---------------------------
(***************************************************************************)
(* The client thread of the central traffic controller (CTC): it reads     *)
(* lines from the keyboard and sends the first character of each to TC as  *)
(* a key command.                                                          *)
(*                                                                         *)
(* gets writes the characters of a line and a null byte after them into an *)
(* array of 4-byte integers, and the thread looks at the first integer: it *)
(* takes the line for blank only if all four bytes are null, and then      *)
(* keeps the low byte.  dataIsReady is not initialised, never reset, and   *)
(* nobody signals the condition variable; the mutex has no other user.     *)
(***************************************************************************)
EXTENDS Naturals, Sequences

CONSTANTS
  Keys,          \* the characters an operator types
  Nul,           \* the null character
  Garbage,       \* the uninitialised data field of the instruction
  MaxLength,     \* bound: the longest line typed
  MaxLines,      \* bound: how many lines are typed
  Faults         \* the calls that may fail: "send"

ASSUME KeysAssumption == Nul \notin Keys /\ Garbage \notin Keys \cup {Nul}
\* Lines are shorter than the 8 bytes of the array: gets checks nothing.
ASSUME LengthAssumption == MaxLength \in 0..7
ASSUME BoundAssumption == MaxLines \in Nat
ASSUME FaultsAssumption == Faults \subseteq {"send"}

VARIABLES
  pc,            \* where the thread is
  low,           \* the low byte of buf[0]
  high,          \* which of the other bytes 1, 2, 3 of buf[0] are not null
  data,          \* ic->instruction.data
  dataIsReady,   \* ic->dataIsReady
  entered,       \* history: the first character of each line, Nul if blank
  sent           \* history: the commands that TC has replied to

vars == <<pc, low, high, data, dataIsReady, entered, sent>>

Chars == Keys \cup {Nul, Garbage}

Init ==
  /\ pc = "open"
  /\ low = Nul /\ high = {}
  /\ data = Garbage
  /\ dataIsReady \in BOOLEAN
  /\ entered = <<>>
  /\ sent = <<>>

\* name_open succeeds, at the first attempt or after retries.
Open ==
  /\ pc = "open"
  /\ pc' = "poll"
  /\ UNCHANGED <<low, high, data, dataIsReady, entered, sent>>

\* Mutated: a key is only taken when none is ready yet.
ReadLine_FirstOnly(key, n) ==
  /\ pc = "poll"
  /\ Len(entered) < MaxLines
  /\ n = 0 <=> key = Nul
  /\ low' = key
  /\ high' = ((high \ {n}) \cup (1..(n - 1))) \cap 1..3
  /\ IF (low' = Nul /\ high' = {}) \/ dataIsReady
     THEN UNCHANGED <<data, dataIsReady>>
     ELSE data' = key /\ dataIsReady' = TRUE
  /\ entered' = Append(entered, key)
  /\ pc' = "check"
  /\ UNCHANGED sent

\* gets returns a line of n characters, the first of them key: bytes 0..n-1
\* are set and byte n is cleared, and ch = buf[0] is tested.
ReadLine(key, n) ==
  /\ pc = "poll"
  /\ Len(entered) < MaxLines
  /\ n = 0 <=> key = Nul
  /\ low' = key
  /\ high' = ((high \ {n}) \cup (1..(n - 1))) \cap 1..3
  /\ IF low' = Nul /\ high' = {}
     THEN UNCHANGED <<data, dataIsReady>>
     ELSE data' = key /\ dataIsReady' = TRUE
  /\ entered' = Append(entered, key)
  /\ pc' = "check"
  /\ UNCHANGED sent

\* while(!dataIsReady) pthread_cond_wait(...)
Check ==
  /\ pc = "check"
  /\ pc' = IF dataIsReady THEN "send" ELSE "asleep"
  /\ UNCHANGED <<low, high, data, dataIsReady, entered, sent>>

\* pthread_cond_wait may return although nobody signalled.
SpuriousWake ==
  /\ pc = "asleep"
  /\ pc' = "check"
  /\ UNCHANGED <<low, high, data, dataIsReady, entered, sent>>

\* Mutated: the flag is reset once the command is sent.
Send_Resets ==
  /\ pc = "send"
  /\ sent' = Append(sent, data)
  /\ dataIsReady' = FALSE
  /\ pc' = "poll"
  /\ UNCHANGED <<low, high, data, entered>>

\* MsgSend returns with the reply of TC.
Send ==
  /\ pc = "send"
  /\ sent' = Append(sent, data)
  /\ pc' = "poll"
  /\ UNCHANGED <<low, high, data, dataIsReady, entered>>

\* MsgSend fails: the thread leaves its loop.
SendFail ==
  /\ "send" \in Faults
  /\ pc = "send"
  /\ pc' = "exited"
  /\ UNCHANGED <<low, high, data, dataIsReady, entered, sent>>

Next ==
  \/ Open
  \/ \E key \in Keys \cup {Nul}, n \in 0..MaxLength : ReadLine(key, n)
  \/ Check \/ SpuriousWake \/ Send \/ SendFail

Spec == Init /\ [][Next]_vars

-----------------------------------------------------------------------------
(* Properties.                                                             *)

TypeOK ==
  /\ pc \in {"open", "poll", "check", "asleep", "send", "exited"}
  /\ low \in Keys \cup {Nul} /\ high \subseteq 1..3
  /\ data \in Chars
  /\ dataIsReady \in BOOLEAN
  /\ entered \in Seq(Keys \cup {Nul})
  /\ sent \in Seq(Chars)

\* One command is sent for each line, and for a line that is not blank it is
\* the line's own key; a blank line sends a null character, or what the line
\* before it sent (l. 195-214).
KeyForKey ==
  /\ Len(entered) = Len(sent) + (IF pc \in {"open", "poll"} THEN 0 ELSE 1)
  /\ \A i \in 1..Len(sent) :
       \/ sent[i] = entered[i]
       \/ entered[i] = Nul /\ sent[i] = IF i = 1 THEN Garbage ELSE sent[i - 1]

\* The thread can only get stuck in its wait (l. 202-204) on a blank line that
\* comes before the first key, never later.
StuckOnlyAtStart == pc = "asleep" => sent = <<>> /\ entered = <<Nul>>

\* What makes these inductive: where the data in the instruction comes from,
\* and when the flag is set.
LastOr(s, c) == IF s = <<>> THEN c ELSE s[Len(s)]

DataInv ==
  /\ pc \in {"open", "poll"} => data = LastOr(sent, Garbage)
  /\ pc \notin {"open", "poll"} =>
       \/ data = entered[Len(entered)]
       \/ entered[Len(entered)] = Nul /\ data = LastOr(sent, Garbage)
  /\ pc = "send" \/ sent # <<>> => dataIsReady
  /\ pc = "asleep" => ~dataIsReady
  /\ pc = "check" /\ ~dataIsReady => entered = <<Nul>>

IInv == TypeOK /\ KeyForKey /\ StuckOnlyAtStart /\ DataInv

\* The thread's comment (l. 162): "Client thread that will send the pressed
\* and entered keyboard key".  So, once a key was entered, what it sends is
\* what was entered last:
SendsEnteredKey ==
  pc = "send" /\ entered[1] \in Keys => data = entered[Len(entered)]
=============================================================================
