------------------------------ MODULE Bathroom ------------------------------
(***************************************************************************)
(* The bathroom programs: users who each take one shower.                  *)
(*   Bathroom                     behind a mutex                           *)
(*   BathroomSemaphore            behind a semaphore of one                *)
(*   BathroomCountingSemaphore    behind a semaphore of MAX_SEM_VALUE      *)
(*   BathroomTimer                behind a mutex, waiting for it only until*)
(*                                a deadline                               *)
(*   BathroomCondvar              behind a mutex and a door, which a key   *)
(*                                thread opens and shuts without the mutex *)
(* A deadline passes at any time after the start; a lock that is free is   *)
(* taken after it, too.                                                    *)
(***************************************************************************)
EXTENDS Naturals, FiniteSets

CONSTANTS
  Programs,        \* the programs looked at
  Users,           \* the users' threads
  MAX_SEM_VALUE    \* showers of BathroomCountingSemaphore

VARIABLES
  program,    \* which of the programs runs
  pc,         \* where the users are
  places,     \* how often the mutex or the semaphore can still be taken
  isOpen,     \* the door, always open where there is none
  key,        \* where the key thread is
  missed      \* history: the users who last began to wait while it was open

vars == <<program, pc, places, isOpen, key, missed>>

Door == program = "BathroomCondvar"

Capacity == IF program = "BathroomCountingSemaphore" THEN MAX_SEM_VALUE ELSE 1

Init ==
  /\ program \in Programs
  /\ pc = [u \in Users |-> "start"]
  /\ places = Capacity
  /\ isOpen = ~Door
  /\ key = "gets"
  /\ missed = {}

Goto(u, place) == pc' = [pc EXCEPT ![u] = place]
Waiting == {u \in Users : pc[u] = "wait"}

-----------------------------------------------------------------------------
(* A user.                                                                 *)

\* Mutated: who returns from pthread_cond_wait does not take the mutex.
Enter_NotAgain(u) ==
  /\ pc[u] \in {"start", "woken"} /\ (pc[u] = "start" => places > 0)
  /\ places' = IF pc[u] = "start" THEN places - 1 ELSE places
  /\ Goto(u, "test")
  /\ UNCHANGED <<program, isOpen, key, missed>>

\* The mutex or the semaphore is taken, for the first time or to return from
\* pthread_cond_wait.
Enter(u) ==
  /\ pc[u] \in {"start", "woken"} /\ places > 0
  /\ places' = places - 1
  /\ Goto(u, "test")
  /\ UNCHANGED <<program, isOpen, key, missed>>

\* pthread_mutex_timedlock fails: nobody bathes in time.
TimeOut(u) ==
  /\ program = "BathroomTimer" /\ pc[u] = "start" /\ places = 0
  /\ Goto(u, "done")
  /\ UNCHANGED <<program, places, isOpen, key, missed>>

\* while (isOpen == 0)
Test(u) ==
  /\ pc[u] = "test"
  /\ Goto(u, IF isOpen THEN "inside" ELSE "shut")
  /\ UNCHANGED <<program, places, isOpen, key, missed>>

\* pthread_cond_wait begins; the door may have opened since it was looked at.
Wait(u) ==
  /\ pc[u] = "shut"
  /\ places' = places + 1
  /\ missed' = IF isOpen THEN missed \cup {u} ELSE missed \ {u}
  /\ Goto(u, "wait")
  /\ UNCHANGED <<program, isOpen, key>>

SpuriousWake(u) ==
  /\ pc[u] = "wait"
  /\ Goto(u, "woken")
  /\ UNCHANGED <<program, places, isOpen, key, missed>>

\* Mutated: the user who leaves signals nobody.
Leave_NoSignal(u) ==
  /\ pc[u] = "inside"
  /\ places' = places + 1
  /\ Goto(u, "done")
  /\ UNCHANGED <<program, isOpen, key, missed>>

\* The shower is over: one who waits is woken up, the mutex or semaphore is
\* given back.
Leave(u) ==
  /\ pc[u] = "inside"
  /\ places' = places + 1
  /\ \/ Waiting = {} /\ Goto(u, "done")
     \/ \E w \in Waiting : pc' = [pc EXCEPT ![u] = "done", ![w] = "woken"]
  /\ UNCHANGED <<program, isOpen, key, missed>>

-----------------------------------------------------------------------------
(* The key thread.                                                         *)

\* A key opens or shuts the door.
GetKey(open) ==
  /\ Door /\ key = "gets"
  /\ isOpen' = open
  /\ key' = "signal"
  /\ UNCHANGED <<program, pc, places, missed>>

Signal ==
  /\ key = "signal"
  /\ key' = "gets"
  /\ \/ Waiting = {} /\ UNCHANGED pc
     \/ \E w \in Waiting : Goto(w, "woken")
  /\ UNCHANGED <<program, places, isOpen, missed>>

-----------------------------------------------------------------------------
User(u) == Enter(u) \/ TimeOut(u) \/ Test(u) \/ Wait(u) \/ Leave(u)

Next ==
  \/ \E u \in Users : User(u) \/ SpuriousWake(u)
  \/ \E open \in BOOLEAN : GetKey(open)
  \/ Signal

Spec == Init /\ [][Next]_vars

-----------------------------------------------------------------------------
(* Properties.                                                             *)

TypeOK ==
  /\ program \in Programs
  /\ pc \in [Users -> {"start", "test", "shut", "wait", "woken", "inside", "done"}]
  /\ places \in 0..Capacity
  /\ isOpen \in BOOLEAN /\ key \in {"gets", "signal"}
  /\ missed \subseteq Users

\* No more users are in the showers than there are, although a user gives the
\* mutex or semaphore back to wait and takes it again when another one may have
\* gone in (BathroomCondvar.c:12-27, BathroomCountingSemaphore.c:13-25).
ShowersNotCrowded == Cardinality({u \in Users : pc[u] = "inside"}) <= Capacity

\* With the door open and the key thread's signal given, who waits and has not
\* missed the opening need not fear: somebody is on the way in or inside and will
\* signal when leaving, although a signal releases only one
\* (BathroomCondvar.c:14-25, 32-42).
WakeupPassedOn ==
  isOpen /\ key = "gets" /\ ~(Waiting \subseteq missed) =>
    \E u \in Users : pc[u] \in {"woken", "test", "inside"}

\* Once the door stays open, or where there is none, all users get through, or
\* give up at their deadline:
\* each wake-up is passed on from user to user, although a signal releases
\* only one.  The exception are users for whom the door was opened between
\* their look at it and their wait, since the key thread does not take the
\* mutex (BathroomCondvar.c:14-25, 33-41).
AllGetThrough ==
  <>[](isOpen /\ key = "gets") =>
    <>[]((\A u \in Users : pc[u] = "done") \/ (Waiting # {} /\ Waiting \subseteq missed))

-----------------------------------------------------------------------------
(* The inductive invariant of the proofs.                                  *)

\* Who holds the mutex or a place of the semaphore.
Holders == {u \in Users : pc[u] \in {"test", "shut", "inside"}}

\* Every place is free or held.
PlacesInv == Cardinality(Holders) + places = Capacity

IInv == TypeOK /\ PlacesInv /\ WakeupPassedOn
=============================================================================
