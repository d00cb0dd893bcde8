---------------------------- MODULE SharedUpdate ----------------------------
(***************************************************************************)
(* The overlap programs: the changer toggles a, and b follows it a         *)
(* millisecond later; the user adds a and b up whenever a is 5.            *)
(*   overlap                  nothing keeps the threads apart              *)
(*   overlapMutex             a mutex does                                 *)
(*   overlapNamedSemaphore    a semaphore does: sem_init makes the one in  *)
(*   overlapUnamedSemaphore   the struct an unnamed one in both            *)
(* A user that reads b before a changer's a or after its b adds the same   *)
(* sums as one that reads both at once.  uses equals useCount, useCount2   *)
(* and maxUse2 are 0.                                                      *)
(***************************************************************************)
EXTENDS Naturals

CONSTANTS
  Programs,     \* the programs looked at
  MaxUse        \* maxUse

VARIABLES
  program,      \* which of the programs runs
  lock,         \* who has the mutex or the semaphore, or "free"
  user,         \* where the user thread is
  changer,      \* where the changer thread is
  a, b, result, useCount

vars == <<program, lock, user, changer, a, b, result, useCount>>

Protected == program # "overlap"

Init ==
  /\ program \in Programs
  /\ lock = "free"
  /\ user = "loop" /\ changer = "loop"
  /\ a = 5 /\ b = 5 /\ result = 0 /\ useCount = 0

\* Mutated: the lock is not asked for.
Lock_Forgotten(t) == UNCHANGED lock

Lock(t) == IF Protected THEN lock = "free" /\ lock' = t ELSE UNCHANGED lock
Unlock == lock' = "free"

-----------------------------------------------------------------------------
(* The user.                                                               *)

UserEnter ==
  /\ user = "loop" /\ useCount < MaxUse
  /\ Lock("user")
  /\ user' = "test"
  /\ UNCHANGED <<program, changer, a, b, result, useCount>>

UserTest ==
  /\ user = "test"
  /\ user' = IF a = 5 THEN "add" ELSE "leave"
  /\ UNCHANGED <<program, lock, changer, a, b, result, useCount>>

UserAdd ==
  /\ user = "add"
  /\ result' = result + a + b
  /\ useCount' = useCount + 1
  /\ user' = "leave"
  /\ UNCHANGED <<program, lock, changer, a, b>>

UserLeave ==
  /\ user = "leave"
  /\ Unlock
  /\ user' = "loop"
  /\ UNCHANGED <<program, changer, a, b, result, useCount>>

UserEnd ==
  /\ user = "loop" /\ ~(useCount < MaxUse)
  /\ user' = "done"
  /\ UNCHANGED <<program, lock, changer, a, b, result, useCount>>

-----------------------------------------------------------------------------
(* The changer.                                                            *)

\* The loop's test looks at useCount without the lock.
ChangerTest ==
  /\ changer = "loop"
  /\ changer' = IF useCount < MaxUse THEN "enter" ELSE "done"
  /\ UNCHANGED <<program, lock, user, a, b, result, useCount>>

ChangerEnter ==
  /\ changer = "enter"
  /\ Lock("changer")
  /\ changer' = "a"
  /\ UNCHANGED <<program, user, a, b, result, useCount>>

ChangeA ==
  /\ changer = "a"
  /\ a' = IF a = 5 THEN 50 ELSE 5
  /\ changer' = "b"
  /\ UNCHANGED <<program, lock, user, b, result, useCount>>

\* A millisecond later.
ChangeB ==
  /\ changer = "b"
  /\ b' = a
  /\ changer' = "leave"
  /\ UNCHANGED <<program, lock, user, a, result, useCount>>

ChangerLeave ==
  /\ changer = "leave"
  /\ Unlock
  /\ changer' = "loop"
  /\ UNCHANGED <<program, user, a, b, result, useCount>>

-----------------------------------------------------------------------------
Next ==
  \/ UserEnter \/ UserTest \/ UserAdd \/ UserLeave \/ UserEnd
  \/ ChangerTest \/ ChangerEnter \/ ChangeA \/ ChangeB \/ ChangerLeave

Spec == Init /\ [][Next]_vars

-----------------------------------------------------------------------------
(* Properties.                                                             *)

TypeOK ==
  /\ program \in Programs
  /\ lock \in {"free", "user", "changer"}
  /\ user \in {"loop", "test", "add", "leave", "done"}
  /\ changer \in {"loop", "enter", "a", "b", "leave", "done"}
  /\ {a, b} \subseteq {5, 50}
  /\ result \in Nat /\ useCount \in Nat

\* The setting is the new one as soon as b follows a.  Nothing is promised of
\* the program without a lock.
Atomic == INSTANCE AtomicUpdate WITH
  setting <- IF Protected THEN b ELSE 5,
  uses <- IF Protected THEN useCount ELSE 0,
  total <- IF Protected THEN result ELSE 0

\* Protected by a mutex or a semaphore, a and b are changed and used as one
\* (overlapMutex l. 29-69 and its two copies), so the result is right.
AtomicSpec == Atomic!Spec

\* What the protected programs print: maxUse*(5+5) of the uses so far.
ResultIsRight == Protected => result = (5 + 5) * useCount

\* Who has the lock where; a and b differ only between their changes.
LockInv ==
  Protected =>
    /\ lock = "user" <=> user \in {"test", "add", "leave"}
    /\ lock = "changer" <=> changer \in {"a", "b", "leave"}
    /\ changer # "b" => a = b
    /\ user = "add" => a = 5
    /\ user \in {"test", "add"} => useCount < MaxUse

IInv == TypeOK /\ LockInv /\ ResultIsRight
=============================================================================
