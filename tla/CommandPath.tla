---------------------------- MODULE CommandPath ----------------------------
(***************************************************************************)
(* What the three processes together promise to the operator at the CTC's  *)
(* keyboard: a key that the console got its reply for reaches X1 before    *)
(* the next one is replied to, and whatever a line is shown is the key     *)
(* that has reached X1 last, or no key at all.  A line may be shown a key  *)
(* again, and need not be shown every key.                                 *)
(***************************************************************************)
EXTENDS Naturals, Sequences

CONSTANTS Keys,       \* the keys an operator can send
          Lines,      \* the local controllers
          None        \* what a line shows that has been sent no key

VARIABLES answered,   \* the keys the console got a reply for, oldest first
          reached,    \* how many of them have reached X1
          shown       \* for each line, the key it was sent last

vars == <<answered, reached, shown>>

Init ==
  /\ answered = <<>> /\ reached = 0
  /\ shown = [l \in Lines |-> None]

\* A key is replied to once those before it have reached X1.
Answer(key) ==
  /\ reached = Len(answered)
  /\ answered' = Append(answered, key)
  /\ UNCHANGED <<reached, shown>>

Reach ==
  /\ reached < Len(answered)
  /\ reached' = reached + 1
  /\ UNCHANGED <<answered, shown>>

Show(l) ==
  /\ \E key \in {None} \cup {answered[i] : i \in {reached} \ {0}} :
       shown' = [shown EXCEPT ![l] = key]
  /\ UNCHANGED <<answered, reached>>

Next ==
  \/ Reach
  \/ \E key \in Keys : Answer(key)
  \/ \E l \in Lines : Show(l)

Spec == Init /\ [][Next]_vars
=============================================================================
