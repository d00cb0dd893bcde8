-------------------------- MODULE LatestValueRelay --------------------------
(***************************************************************************)
(* What the train line controller (X1) promises to the local controllers   *)
(* of its lines: whatever a line is shown is the latest command, or no     *)
(* command at all - never an older one, and never one not yet received.    *)
(* Commands are numbered in the order of their arrival.  X1 makes no       *)
(* promise that every command is shown.                                    *)
(***************************************************************************)
EXTENDS Naturals

CONSTANTS Lines,    \* the local controllers
          None      \* what a line shows that has been sent no command

VARIABLES latest,   \* the number of the latest command, 0 before the first
          shown     \* for each line, the command it was sent last

vars == <<latest, shown>>

Init == latest = 0 /\ shown = [l \in Lines |-> None]

Arrive == latest' = latest + 1 /\ UNCHANGED shown

Show(l) ==
  /\ \E c \in {None} \cup ({latest} \ {0}) : shown' = [shown EXCEPT ![l] = c]
  /\ UNCHANGED latest

Next == Arrive \/ \E l \in Lines : Show(l)

Spec == Init /\ [][Next]_vars
=============================================================================
