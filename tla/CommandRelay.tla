---------------------------- MODULE CommandRelay ----------------------------
(***************************************************************************)
(* What the train controller (TC) promises to the two machines it sits     *)
(* between: a one-place relay.  A key command that has been acknowledged   *)
(* to the central traffic controller is in the relay until it is passed to *)
(* X1; nothing else is passed, nothing is passed twice, nothing is         *)
(* reordered, and no further command is acknowledged in the meantime.      *)
(***************************************************************************)
EXTENDS Naturals, Sequences

CONSTANT Keys       \* the key commands an operator can enter

VARIABLES in,       \* the commands acknowledged so far, oldest first
          out       \* the commands passed on so far, oldest first

vars == <<in, out>>

Init == in = <<>> /\ out = <<>>

\* Acknowledge a command; only an empty relay does.
Accept(k) ==
  /\ Len(in) = Len(out)
  /\ in' = Append(in, k)
  /\ UNCHANGED out

\* Pass on the command that the relay holds.
Forward ==
  /\ Len(out) < Len(in)
  /\ out' = Append(out, in[Len(out) + 1])
  /\ UNCHANGED in

Next == Forward \/ \E k \in Keys : Accept(k)

Spec == Init /\ [][Next]_vars
=============================================================================
