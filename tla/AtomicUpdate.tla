---------------------------- MODULE AtomicUpdate ----------------------------
(***************************************************************************)
(* What the overlap programs promise: one setting that a thread toggles    *)
(* and another uses a given number of times, as if a change or a use of    *)
(* both its fields took no time.                                           *)
(***************************************************************************)
EXTENDS Naturals

CONSTANT MaxUse      \* how often the setting is used

VARIABLES setting, uses, total

vars == <<setting, uses, total>>

Init == setting = 5 /\ uses = 0 /\ total = 0

Use ==
  /\ setting = 5 /\ uses < MaxUse
  /\ uses' = uses + 1
  /\ total' = total + (5 + 5)
  /\ UNCHANGED setting

Change ==
  /\ setting' = IF setting = 5 THEN 50 ELSE 5
  /\ UNCHANGED <<uses, total>>

Next == Use \/ Change

Spec == Init /\ [][Next]_vars
=============================================================================
