----------------------------- MODULE SleepingLock -----------------------------
(***************************************************************************)
(* What the semaphore and the mutex have in common: a count, a list of     *)
(* waiting tasks on their own stacks, and tasks that sleep in one of the   *)
(* task states until a wake-up or a signal reaches them.                   *)
(***************************************************************************)
EXTENDS Integers, Sequences, FiniteSets, ListHead

CONSTANT Tasks        \* the tasks that use the lock

ASSUME TasksAssumption == IsFiniteSet(Tasks)

VARIABLES count,      \* sem->count or lock->count
          wait_list,  \* the wait_list: the waiting tasks, oldest first
          pc,         \* where each task is
          call,       \* the call the task waits in, "none" outside one
          state,      \* task->state
          sig         \* the signal pending for the task

Signals == {"none", "signal", "fatal"}
=============================================================================
