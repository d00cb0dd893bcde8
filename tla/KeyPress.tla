------------------------------ MODULE KeyPress ------------------------------
(***************************************************************************)
(* The key press programs: one thread takes what is typed apart, others    *)
(* show it.                                                                *)
(*   KeyPressRW            two readers poll their bytes under a read lock  *)
(*                         and show them when they have changed            *)
(*   KeyPressSleeponLock   two readers sleep until their bytes are ready   *)
(*   KeyPressBarrier       three readers poll one key for their own letter *)
(*                         and then meet main at a barrier                 *)
(*                                                                         *)
(* What is done under a lock does not block and is one step.  Key 0 is a   *)
(* null character, or for KeyPressBarrier any key that nobody waits for.   *)
(* Lines are no longer than their buffer.                                  *)
(***************************************************************************)
EXTENDS Naturals

CONSTANTS
  Programs,    \* the programs looked at
  MaxLines     \* bound: how many lines are typed

VARIABLES
  program,     \* which of the programs runs
  lines,       \* how many lines were typed
  cell,        \* what each reader looks at
  ready,       \* data1Ready, data2Ready
  pc,          \* where the readers are
  shown        \* what each reader showed last

vars == <<program, lines, cell, ready, pc, shown>>

Keys == 0..3
RW == program = "KeyPressRW"
Sleepon == program = "KeyPressSleeponLock"
Barrier == program = "KeyPressBarrier"
Readers == 1..(IF Barrier THEN 3 ELSE 2)

Init ==
  /\ program \in Programs
  /\ lines = 0
  /\ cell = [r \in Readers |-> 0]
  /\ ready = [r \in Readers |-> FALSE]
  /\ pc = [r \in Readers |-> "look"]
  /\ shown = [r \in Readers |-> 0]

-----------------------------------------------------------------------------
(* The thread that reads the lines.                                        *)

\* What a line makes of the cells.  gets leaves the byte after a null
\* character: a blank line does not change KeyPressRW's second one, and
\* KeyPressSleeponLock has cleared it before.
Typed ==
  IF Barrier THEN {[r \in Readers |-> k] : k \in Keys}
  ELSE {<<a, b>> : a \in Keys \ {0}, b \in Keys}
         \cup {<<0, IF RW THEN cell[2] ELSE 0>>}

\* Mutated: only the first reader is signalled.
Signal_First == [pc EXCEPT ![1] = "look"]

\* pthread_sleepon_signal for each reader.
Signal == [r \in Readers |-> IF pc[r] = "wait" THEN "look" ELSE pc[r]]

Type ==
  /\ lines < MaxLines
  /\ lines' = lines + 1
  /\ cell' \in Typed
  /\ IF Sleepon
     THEN ready' = [r \in Readers |-> TRUE] /\ pc' = Signal
     ELSE UNCHANGED <<ready, pc>>
  /\ UNCHANGED <<program, shown>>

-----------------------------------------------------------------------------
(* A reader r.                                                             *)

ReadByte(r) ==
  /\ RW
  /\ shown' = [shown EXCEPT ![r] = cell[r]]
  /\ UNCHANGED <<program, lines, cell, ready, pc>>

TakeReady(r) ==
  /\ Sleepon /\ pc[r] = "look" /\ ready[r]
  /\ shown' = [shown EXCEPT ![r] = cell[r]]
  /\ ready' = [ready EXCEPT ![r] = FALSE]
  /\ UNCHANGED <<program, lines, cell, pc>>

SleeponWait(r) ==
  /\ Sleepon /\ pc[r] = "look" /\ ~ready[r]
  /\ pc' = [pc EXCEPT ![r] = "wait"]
  /\ UNCHANGED <<program, lines, cell, ready, shown>>

SpuriousWake(r) ==
  /\ pc[r] = "wait"
  /\ pc' = [pc EXCEPT ![r] = "look"]
  /\ UNCHANGED <<program, lines, cell, ready, shown>>

FindLetter(r) ==
  /\ Barrier /\ pc[r] = "look" /\ cell[r] = r
  /\ shown' = [shown EXCEPT ![r] = r]
  /\ pc' = [pc EXCEPT ![r] = "barrier"]
  /\ UNCHANGED <<program, lines, cell, ready>>

\* Main, which waits already, and all readers pass, and the program ends.
Pass ==
  /\ \A r \in Readers : pc[r] = "barrier"
  /\ pc' = [r \in Readers |-> "done"]
  /\ UNCHANGED <<program, lines, cell, ready, shown>>

-----------------------------------------------------------------------------
Reader(r) == ReadByte(r) \/ TakeReady(r) \/ SleeponWait(r) \/ FindLetter(r)

Next == Type \/ Pass \/ \E r \in Readers : Reader(r) \/ SpuriousWake(r)

Spec == Init /\ [][Next]_vars

-----------------------------------------------------------------------------
(* Properties.                                                             *)

TypeOK ==
  /\ program \in Programs
  /\ lines \in 0..MaxLines
  /\ cell \in [Readers -> Keys] /\ shown \in [Readers -> Keys]
  /\ ready \in [Readers -> BOOLEAN]
  /\ pc \in [Readers -> {"look", "wait", "barrier", "done"}]

\* Nobody sleeps who has not shown the latest keys, and nobody has passed the
\* barrier before all letters were seen, however the lines fall between the
\* readers' looks and whatever they overwrite (KeyPressSleeponLock.c:16-31,
\* 37-50; KeyPressBarrier.c:27-35).
WaitersHaveSeen ==
  \A r \in Readers :
    /\ pc[r] = "wait" => shown[r] = cell[r]
    /\ pc[r] = "done" => \A q \in Readers : shown[q] = q

\* Whoever types faster than the readers look loses keys, since the bytes are
\* overwritten (KeyPressSleeponLock.c:21, KeyPressBarrier.c:27); the keys of
\* the last line are seen, by the readers that wait for them, whenever they
\* are typed, and the barrier opens once each letter was seen.
LastKeysSeen ==
  /\ <>[](\A r \in Readers : (Barrier => cell[r] = r) => shown[r] = cell[r])
  /\ ((\A r \in Readers : shown[r] = r) /\ Barrier ~> pc[1] = "done")

-----------------------------------------------------------------------------
(* The inductive invariant of the proofs.                                  *)

\* What is ready has not been looked at, a sleeper has looked, and who is at the
\* barrier has seen its letter.
ReadyInv ==
  \A r \in Readers :
    /\ Sleepon => ready[r] \/ shown[r] = cell[r]
    /\ pc[r] = "wait" => Sleepon /\ ~ready[r]
    /\ pc[r] \in {"barrier", "done"} => Barrier /\ shown[r] = r
    /\ pc[r] = "done" => \A q \in Readers : pc[q] = "done"

IInv == TypeOK /\ ReadyInv
=============================================================================
