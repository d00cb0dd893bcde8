----------------------------- MODULE PhaseTimer -----------------------------
(***************************************************************************)
(* TrafficLightTimer and timer: a state machine stepped by the pulses of a *)
(* timer that it sets to another interval itself, in some of its states.   *)
(*                                                                         *)
(* Time is in half seconds.  A pulse that the process is too busy to take  *)
(* is queued, and stays queued when the timer is set.  The first of the    *)
(* two timers that timer creates is never started.                         *)
(***************************************************************************)
EXTENDS Integers

CONSTANTS
  Programs,     \* the programs looked at
  MaxQueued     \* bound: how many pulses are queued

VARIABLES
  program,      \* which of the programs runs
  currentState, counter,
  interval,     \* what the timer was set to last
  left,         \* the time until it expires
  queued,       \* pulses that have not been received
  phase,        \* history: the state displayed last
  age,          \* history: the time since the timer was set
  got,          \* history: pulses received since then
  stale         \* history: pulses that were queued when it was set

vars == <<program, currentState, counter, interval, left, queued, phase, age,
          got, stale>>

Lights == program = "TrafficLightTimer"
runTimes == IF Lights THEN 30 ELSE 10
RY == 2
G == 4
A == 3
B == 10

Init ==
  /\ program \in Programs
  /\ currentState = 0 /\ counter = 0
  /\ interval = (IF Lights THEN RY ELSE A) /\ left = interval
  /\ queued = 0
  /\ phase = 0 /\ age = 0 /\ got = 0 /\ stale = 0

Following ==
  IF Lights THEN (IF currentState = 6 THEN 1 ELSE currentState + 1)
  ELSE (currentState + 1) % 3

\* Mutated: the timer is not set for the green lights.
Setting_NoGreen ==
  IF Lights THEN (IF currentState \in {3, 6} THEN RY ELSE 0)
  ELSE (CASE currentState = 0 -> A [] currentState = 2 -> B [] OTHER -> 0)

\* What the timer is set to in the current state, 0 if it is left alone.
Setting ==
  IF Lights
  THEN (CASE currentState \in {2, 5} -> G [] currentState \in {3, 6} -> RY
          [] OTHER -> 0)
  ELSE (CASE currentState = 0 -> A [] currentState = 2 -> B [] OTHER -> 0)

\* A pulse is received: the machine steps.
Receive ==
  /\ counter < runTimes /\ queued > 0
  /\ counter' = counter + 1
  /\ queued' = queued - 1
  /\ phase' = currentState
  /\ currentState' = Following
  /\ \/ /\ Setting = 0
        /\ got' = got + 1
        /\ UNCHANGED <<interval, left, age, stale>>
     \/ /\ Setting # 0
        /\ interval' = Setting /\ left' = Setting
        /\ age' = 0 /\ got' = 0 /\ stale' = queued - 1
  /\ UNCHANGED program

\* Half a second passes, and with it perhaps the interval.
Tick ==
  /\ counter < runTimes /\ queued < MaxQueued
  /\ age' = age + 1
  /\ \/ left > 1 /\ left' = left - 1 /\ UNCHANGED queued
     \/ left = 1 /\ left' = interval /\ queued' = queued + 1
  /\ UNCHANGED <<program, currentState, counter, interval, phase, got, stale>>

Next == Receive \/ Tick

Spec == Init /\ [][Next]_vars

-----------------------------------------------------------------------------
(* Properties.                                                             *)

TypeOK ==
  /\ program \in Programs
  /\ currentState \in 0..6 /\ phase \in 0..6
  /\ counter \in 0..runTimes
  /\ interval \in {RY, A, G, B} /\ left \in 1..interval
  /\ queued \in 0..MaxQueued /\ stale \in 0..MaxQueued /\ got \in 0..2
  /\ age \in Nat

\* What the program says it waits after a display.
DelayOf(s) ==
  IF Lights THEN (IF s \in {2, 5} THEN G ELSE RY) ELSE (IF s = 2 THEN B ELSE A)

\* The pulse that ends a phase does not come before this and all earlier
\* phases since the timer was set have had their time; late ones are made up
\* for.  The exception are pulses of the old interval that were queued when
\* the timer was set, which cut as many phases short (TrafficLightTimer.c:33).
HeldForItsTime ==
  queued > 0 => age >= (got + queued - stale) * DelayOf(phase)

-----------------------------------------------------------------------------
(* The inductive invariant of the proofs.                                  *)

\* How often the timer has expired since it was set.
Expired == got + queued - stale

\* The timer's setting is that of the phase displayed, also in the states that
\* leave it alone.
IntervalInv ==
  /\ interval = DelayOf(phase)
  /\ Lights => interval = IF currentState \in {3, 6} THEN G ELSE RY
  /\ ~Lights => currentState \in 0..2 /\ phase \in 0..2
                /\ (currentState # 0 => interval = A)

\* The time since the timer was set, in intervals and a rest.
AgeInv ==
  /\ Expired \in Nat
  /\ age = Expired * interval + (interval - left)
  /\ got <= (CASE currentState = 2 -> 2 [] currentState \in {1, 5} -> 1 [] OTHER -> 0)

IInv == TypeOK /\ IntervalInv /\ AgeInv
=============================================================================
