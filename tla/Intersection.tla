----------------------------- MODULE Intersection -----------------------------
(***************************************************************************)
(* What the traffic lights promise to the road users: at each of them one  *)
(* direction at a time is let through, it goes back to red over yellow,    *)
(* and the directions take turns.                                          *)
(***************************************************************************)
CONSTANT Lights

VARIABLES signal,   \* for each light, the colour shown to each direction
          turn      \* for each light, the direction green next, or now

vars == <<signal, turn>>

Directions == {"ew", "ns"}
Other == [ew |-> "ns", ns |-> "ew"]

Init ==
  /\ signal = [l \in Lights |-> [d \in Directions |-> "red"]]
  /\ turn = [l \in Lights |-> "ew"]

Change(l, d, colour) == signal' = [signal EXCEPT ![l] = [@ EXCEPT ![d] = colour]]

Green(l, d) ==
  /\ turn[l] = d
  /\ \A e \in Directions : signal[l][e] = "red"
  /\ Change(l, d, "green")
  /\ UNCHANGED turn

Yellow(l, d) ==
  /\ signal[l][d] = "green"
  /\ Change(l, d, "yellow")
  /\ UNCHANGED turn

Red(l, d) ==
  /\ signal[l][d] = "yellow"
  /\ Change(l, d, "red")
  /\ turn' = [turn EXCEPT ![l] = Other[d]]

Next == \E l \in Lights, d \in Directions : Green(l, d) \/ Yellow(l, d) \/ Red(l, d)

Spec == Init /\ [][Next]_vars
=============================================================================
