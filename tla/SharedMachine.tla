---------------------------- MODULE SharedMachine ----------------------------
(***************************************************************************)
(* TrafficLightSM: two threads step one traffic light.  The consumer steps *)
(* it in the states without a green light and takes no lock for that; the  *)
(* producer steps it in the green states 2 and 5, after a key was entered. *)
(* Both add to one counter, a read and a write, until it reaches a limit.  *)
(*                                                                         *)
(* The debug build, which the Makefile makes if nothing else is asked for, *)
(* reads state and counter from memory each time they are named.  The key  *)
(* in byte1 decides nothing.                                               *)
(***************************************************************************)
EXTENDS Naturals

CONSTANT MAX_RUNTIME

VARIABLES
  currentState, counter,
  lock,     \* dataSource: "free" or "producer"; the consumer's read of byte1
            \* under it is one step
  pc,       \* where the threads are
  from,     \* the state whose case of the switch a thread executes
  read,     \* the value of the counter that a thread has read
  steps     \* history: how often the machine was stepped

vars == <<currentState, counter, lock, pc, from, read, steps>>

Threads == {"consumer", "producer"}
States == 0..6
Green == {2, 5}

Init ==
  /\ currentState = 0 /\ counter = 0 /\ lock = "free"
  /\ pc = [t \in Threads |-> "loop"]
  /\ from = [t \in Threads |-> 0]
  /\ read = [t \in Threads |-> 0]
  /\ steps = 0

Goto(t, place) == pc' = [pc EXCEPT ![t] = place]

\* while (td->counter < MAX_RUNTIME)
Test(t) ==
  /\ pc[t] = "loop"
  /\ Goto(t, IF counter < MAX_RUNTIME THEN "look" ELSE "done")
  /\ UNCHANGED <<currentState, counter, lock, from, read, steps>>

-----------------------------------------------------------------------------
(* singlestep_trafficlight_statemachine, in either thread.                 *)

Following(s) == IF s = 6 THEN 1 ELSE s + 1

Switch(t) ==
  /\ pc[t] = "switch"
  /\ from' = [from EXCEPT ![t] = currentState]
  /\ Goto(t, "advance")
  /\ UNCHANGED <<currentState, counter, lock, read, steps>>

\* The state changes after the sleep.
Advance(t) ==
  /\ pc[t] = "advance"
  /\ currentState' = Following(from[t])
  /\ steps' = steps + 1
  /\ Goto(t, "count")
  /\ UNCHANGED <<counter, lock, from, read>>

CountRead(t) ==
  /\ pc[t] = "count"
  /\ read' = [read EXCEPT ![t] = counter]
  /\ Goto(t, "write")
  /\ UNCHANGED <<currentState, counter, lock, from, steps>>

\* Mutated: the producer does not unlock.
CountWrite_NoUnlock(t) ==
  /\ pc[t] = "write"
  /\ counter' = read[t] + 1
  /\ Goto(t, "loop")
  /\ UNCHANGED <<currentState, lock, from, read, steps>>

\* The producer then unlocks (l. 112); both threads go on in their loops.
CountWrite(t) ==
  /\ pc[t] = "write"
  /\ counter' = read[t] + 1
  /\ lock' = IF t = "producer" THEN "free" ELSE lock
  /\ Goto(t, "loop")
  /\ UNCHANGED <<currentState, from, read, steps>>

-----------------------------------------------------------------------------
(* The threads.                                                            *)

\* Mutated: the consumer waits for a key in state 2 only.
ConsumerLook_OneGreen ==
  /\ pc["consumer"] = "look"
  /\ Goto("consumer", IF currentState = 2 THEN "poll" ELSE "switch")
  /\ UNCHANGED <<currentState, counter, lock, from, read, steps>>

ConsumerLook ==
  /\ pc["consumer"] = "look"
  /\ Goto("consumer", IF currentState \in Green THEN "poll" ELSE "switch")
  /\ UNCHANGED <<currentState, counter, lock, from, read, steps>>

\* byte1 is read under the read lock.
ConsumerPoll ==
  /\ pc["consumer"] = "poll" /\ lock = "free"
  /\ Goto("consumer", "loop")
  /\ UNCHANGED <<currentState, counter, lock, from, read, steps>>

\* In a green state a key is entered; otherwise the producer tries again.
ProducerLook ==
  /\ pc["producer"] = "look"
  /\ Goto("producer", IF currentState \in Green THEN "key" ELSE "loop")
  /\ UNCHANGED <<currentState, counter, lock, from, read, steps>>

ProducerLock ==
  /\ pc["producer"] = "key" /\ lock = "free"
  /\ lock' = "producer"
  /\ Goto("producer", "switch")
  /\ UNCHANGED <<currentState, counter, from, read, steps>>

-----------------------------------------------------------------------------
Step(t) ==
  Test(t) \/ Switch(t) \/ Advance(t) \/ CountRead(t) \/ CountWrite(t)

Consumer == Step("consumer") \/ ConsumerLook \/ ConsumerPoll
Producer == Step("producer") \/ ProducerLook \/ ProducerLock

Next == Consumer \/ Producer

Spec == Init /\ [][Next]_vars

-----------------------------------------------------------------------------
(* Properties.                                                             *)

TypeOK ==
  /\ currentState \in States
  /\ counter \in Nat /\ steps \in Nat
  /\ lock \in {"free", "producer"}
  /\ pc \in [Threads -> {"loop", "look", "poll", "key", "switch", "advance",
                         "count", "write", "done"}]
  /\ from \in [Threads -> States]
  /\ read \in [Threads -> Nat]

\* The light never jumps, although two threads step it and only one of them
\* under the lock: each thread leaves the other's states alone from its look
\* at the state to the end of its step (l. 68-79, 97-111).
LightNeverJumps ==
  [][currentState' # currentState => currentState' = Following(currentState)]_vars

\* The counter is written twice from one value at times, and goes back; still
\* no thread ends before the machine was stepped MAX_RUNTIME times (l. 57).
NoEarlyEnd == \A t \in Threads : pc[t] = "done" => steps >= MAX_RUNTIME

\* How many steps a thread has not yet added to the counter.
Pending(t) == IF pc[t] \in {"count", "write"} THEN 1 ELSE 0

CountIsRight == counter + Pending("consumer") + Pending("producer") = steps

\* Both threads end, as long as keys are entered, unless an addition was lost:
\* then the counter may go back after the consumer has ended, and the producer
\* waits for a green state that nobody brings about (l. 57, 66, 94).
EndsUnlessAnAddWasLost ==
  <>(~CountIsRight \/ \A t \in Threads : pc[t] = "done")

-----------------------------------------------------------------------------
(* The inductive invariant of the proofs.                                  *)

\* A thread that is about to step, or steps, does so in a state of its own.
TurnInv ==
  /\ pc["consumer"] \in {"switch", "advance"} => currentState \notin Green
  /\ pc["producer"] \in {"key", "switch", "advance"} => currentState \in Green
  /\ \A t \in Threads : pc[t] = "advance" => from[t] = currentState

\* Neither the counter, nor what a thread has read of it, counts a step that
\* was not made or one that is still to be added.
CountInv ==
  /\ counter + Pending("consumer") + Pending("producer") <= steps
  /\ \A t \in Threads : pc[t] = "write" =>
       read[t] + Pending("consumer") + Pending("producer") <= steps

IInv == TypeOK /\ TurnInv /\ CountInv /\ NoEarlyEnd
=============================================================================
