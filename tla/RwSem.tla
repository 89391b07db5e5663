-------------------------------- MODULE RwSem --------------------------------
(***************************************************************************)
(* The reader/writer semaphore of linux/lib/rwsem-spinlock.c, the generic  *)
(* implementation onyx_defconfig selects (RWSEM_GENERIC_SPINLOCK).         *)
(*                                                                         *)
(* A section under sem->wait_lock that touches nothing a sleeper reads is  *)
(* one action.  The wake-up loops are not: a waiter polls its own          *)
(* waiter.task without the lock, so unlinking a waiter, clearing its task  *)
(* pointer and waking it are separate steps of the releasing task, which   *)
(* keeps wait_lock over all of them.                                       *)
(***************************************************************************)
EXTENDS Integers, Sequences, FiniteSets, ListHead

CONSTANTS Tasks,    \* the tasks that use the semaphore
          NoTask    \* nobody

ASSUME TasksAssumption == IsFiniteSet(Tasks) /\ NoTask \notin Tasks

VARIABLES activity,   \* sem->activity
          wait_list,  \* sem->wait_list: the queued tasks, oldest first
          wait_lock,  \* the task inside a wake-up loop, else NoTask
          wtask,      \* waiter.task of each task is not NULL
          flags,      \* waiter.flags: "read" or "write", "none" without a waiter
          state,      \* task->state
          pc,         \* where each task is
          tsk,        \* the waiter the loop is granting the lock to
          woken,      \* readers the loop has woken
          mode        \* which wake-up is running

vars == <<activity, wait_list, wait_lock, wtask, flags, state, pc, tsk, woken, mode>>

Places == {"idle",    \* outside
           "read",    \* holds the lock for reading
           "write",   \* holds the lock for writing
           "check",   \* about to test waiter.task
           "sched",   \* in schedule()
           "null",    \* about to clear the task pointer of tsk
           "wakeup"}  \* about to call wake_up_process(tsk)

\* "writer": one writer is being woken; "readers": the readers at the front of
\* the queue, by __up_write(); "downgrade": the same by __downgrade_write().
Modes == {"none", "writer", "readers", "downgrade"}

Init == /\ activity = 0
        /\ wait_list = <<>>
        /\ wait_lock = NoTask
        /\ wtask = [t \in Tasks |-> FALSE]
        /\ flags = [t \in Tasks |-> "none"]
        /\ state = [t \in Tasks |-> "TASK_RUNNING"]
        /\ pc = [t \in Tasks |-> "idle"]
        /\ tsk = NoTask
        /\ woken = 0
        /\ mode = "none"

-----------------------------------------------------------------------------
Unlocked == wait_lock = NoTask

HeadWants(f) == ~ListEmpty(wait_list) /\ flags[Head(wait_list)] = f

MayRead  == activity >= 0 /\ ListEmpty(wait_list)
MayWrite == activity = 0 /\ ListEmpty(wait_list)

\* Mutant: a reader does not look at the queue.
DownReadGranted_Barge(t) ==
    /\ pc[t] = "idle" /\ Unlocked
    /\ activity >= 0
    /\ activity' = activity + 1
    /\ pc' = [pc EXCEPT ![t] = "read"]
    /\ UNCHANGED <<wait_list, wait_lock, wtask, flags, state, tsk, woken, mode>>

\* __down_read() and __down_read_trylock() that are granted at once.
DownReadGranted(t) ==
    /\ pc[t] = "idle" /\ Unlocked
    /\ MayRead
    /\ activity' = activity + 1
    /\ pc' = [pc EXCEPT ![t] = "read"]
    /\ UNCHANGED <<wait_list, wait_lock, wtask, flags, state, tsk, woken, mode>>

\* __down_write_nested() and __down_write_trylock() that are granted at once.
DownWriteGranted(t) ==
    /\ pc[t] = "idle" /\ Unlocked
    /\ MayWrite
    /\ activity' = -1
    /\ pc' = [pc EXCEPT ![t] = "write"]
    /\ UNCHANGED <<wait_list, wait_lock, wtask, flags, state, tsk, woken, mode>>

\* __down_read() or __down_write_nested() that must wait: the task marks
\* itself asleep and queues its waiter before it drops wait_lock.
Enqueue(t, f) ==
    /\ state' = [state EXCEPT ![t] = "TASK_UNINTERRUPTIBLE"]
    /\ wtask' = [wtask EXCEPT ![t] = TRUE]
    /\ flags' = [flags EXCEPT ![t] = f]
    /\ wait_list' = ListAddTail(t, wait_list)
    /\ pc' = [pc EXCEPT ![t] = "check"]
    /\ UNCHANGED <<activity, wait_lock, tsk, woken, mode>>

DownReadQueued(t) == /\ pc[t] = "idle" /\ Unlocked
                     /\ ~MayRead
                     /\ Enqueue(t, "read")

DownWriteQueued(t) == /\ pc[t] = "idle" /\ Unlocked
                      /\ ~MayWrite
                      /\ Enqueue(t, "write")

-----------------------------------------------------------------------------
(* The wait loop, without wait_lock.                                       *)

\* waiter.task is NULL: the lock has been given to this task.
WaitDone(t) ==
    /\ pc[t] = "check"
    /\ ~wtask[t]
    /\ state' = [state EXCEPT ![t] = "TASK_RUNNING"]
    /\ pc' = [pc EXCEPT ![t] = flags[t]]
    /\ flags' = [flags EXCEPT ![t] = "none"]
    /\ UNCHANGED <<activity, wait_list, wait_lock, wtask, tsk, woken, mode>>

\* waiter.task is still set: schedule().
WaitSchedule(t) ==
    /\ pc[t] = "check"
    /\ wtask[t]
    /\ pc' = [pc EXCEPT ![t] = "sched"]
    /\ UNCHANGED <<activity, wait_list, wait_lock, wtask, flags, state, tsk, woken, mode>>

\* schedule() returns to a runnable task only; the state is set again before
\* waiter.task is tested again.
WaitAgain(t) ==
    /\ pc[t] = "sched"
    /\ state[t] = "TASK_RUNNING"
    /\ state' = [state EXCEPT ![t] = "TASK_UNINTERRUPTIBLE"]
    /\ pc' = [pc EXCEPT ![t] = "check"]
    /\ UNCHANGED <<activity, wait_list, wait_lock, wtask, flags, tsk, woken, mode>>

\* A wake-up meant for something else reaches a sleeper.
StrayWakeUp(t) ==
    /\ pc[t] = "sched"
    /\ state[t] # "TASK_RUNNING"
    /\ state' = [state EXCEPT ![t] = "TASK_RUNNING"]
    /\ UNCHANGED <<activity, wait_list, wait_lock, wtask, flags, pc, tsk, woken, mode>>

-----------------------------------------------------------------------------
(* Release.                                                                *)

\* A wake-up starts: the head is unlinked and its task pointer remembered.
StartWake(t, m) ==
    /\ wait_lock' = t
    /\ tsk' = Head(wait_list)
    /\ wait_list' = Tail(wait_list)
    /\ woken' = 0
    /\ mode' = m
    /\ pc' = [pc EXCEPT ![t] = "null"]

NoWake(t, after) ==
    /\ pc' = [pc EXCEPT ![t] = after]
    /\ UNCHANGED <<wait_list, wait_lock, tsk, woken, mode>>

\* Mutant: every reader that leaves wakes the writer, not only the last one.
UpRead_NotLast(t) ==
    /\ pc[t] = "read" /\ Unlocked
    /\ IF ~ListEmpty(wait_list)
         THEN activity' = -1 /\ StartWake(t, "writer")
         ELSE activity' = activity - 1 /\ NoWake(t, "idle")
    /\ UNCHANGED <<wtask, flags, state>>

\* __up_read(): the last reader wakes the head of the queue as a writer, without
\* looking at its flags (__rwsem_wake_one_writer()).
UpRead(t) ==
    /\ pc[t] = "read" /\ Unlocked
    /\ IF activity - 1 = 0 /\ ~ListEmpty(wait_list)
         THEN activity' = -1 /\ StartWake(t, "writer")
         ELSE activity' = activity - 1 /\ NoWake(t, "idle")
    /\ UNCHANGED <<wtask, flags, state>>

\* __up_write(): __rwsem_do_wake(sem, 1).
UpWrite(t) ==
    /\ pc[t] = "write" /\ Unlocked
    /\ \/ ListEmpty(wait_list) /\ activity' = 0 /\ NoWake(t, "idle")
       \/ HeadWants("write") /\ activity' = -1 /\ StartWake(t, "writer")
       \/ HeadWants("read") /\ activity' = 0 /\ StartWake(t, "readers")
    /\ UNCHANGED <<wtask, flags, state>>

\* Mutant: the downgrade wakes nobody.
DowngradeWrite_NoWake(t) ==
    /\ pc[t] = "write" /\ Unlocked
    /\ activity' = 1
    /\ NoWake(t, "read")
    /\ UNCHANGED <<wtask, flags, state>>

\* __downgrade_write(): __rwsem_do_wake(sem, 0).
DowngradeWrite(t) ==
    /\ pc[t] = "write" /\ Unlocked
    /\ activity' = 1
    /\ IF HeadWants("read") THEN StartWake(t, "downgrade") ELSE NoWake(t, "read")
    /\ UNCHANGED <<wtask, flags, state>>

\* waiter->task = NULL: from here on the waiter may be gone from its stack.
ClearTask(t) ==
    /\ pc[t] = "null"
    /\ wtask' = [wtask EXCEPT ![tsk] = FALSE]
    /\ pc' = [pc EXCEPT ![t] = "wakeup"]
    /\ UNCHANGED <<activity, wait_list, wait_lock, flags, state, tsk, woken, mode>>

\* wake_up_process(tsk), and the next reader of the queue is unlinked.
WakeNext(t) ==
    /\ pc[t] = "wakeup"
    /\ mode # "writer" /\ HeadWants("read")
    /\ state' = [state EXCEPT ![tsk] = "TASK_RUNNING"]
    /\ woken' = woken + 1
    /\ tsk' = Head(wait_list)
    /\ wait_list' = Tail(wait_list)
    /\ pc' = [pc EXCEPT ![t] = "null"]
    /\ UNCHANGED <<activity, wait_lock, wtask, flags, mode>>

\* Mutant: the last waiter is granted the lock and not woken.
WakeLast_NoWakeUp(t) ==
    /\ pc[t] = "wakeup"
    /\ mode = "writer" \/ ~HeadWants("read")
    /\ UNCHANGED state
    /\ activity' = IF mode = "writer" THEN activity ELSE activity + woken + 1
    /\ pc' = [pc EXCEPT ![t] = IF mode = "downgrade" THEN "read" ELSE "idle"]
    /\ wait_lock' = NoTask /\ tsk' = NoTask /\ woken' = 0 /\ mode' = "none"
    /\ UNCHANGED <<wait_list, wtask, flags>>

\* wake_up_process(tsk) for the last time, and wait_lock is dropped.
WakeLast(t) ==
    /\ pc[t] = "wakeup"
    /\ mode = "writer" \/ ~HeadWants("read")
    /\ state' = [state EXCEPT ![tsk] = "TASK_RUNNING"]
    /\ activity' = IF mode = "writer" THEN activity ELSE activity + woken + 1
    /\ pc' = [pc EXCEPT ![t] = IF mode = "downgrade" THEN "read" ELSE "idle"]
    /\ wait_lock' = NoTask /\ tsk' = NoTask /\ woken' = 0 /\ mode' = "none"
    /\ UNCHANGED <<wait_list, wtask, flags>>

-----------------------------------------------------------------------------
Next == \E t \in Tasks :
    \/ DownReadGranted(t) \/ DownWriteGranted(t)
    \/ DownReadQueued(t) \/ DownWriteQueued(t)
    \/ WaitDone(t) \/ WaitSchedule(t) \/ WaitAgain(t) \/ StrayWakeUp(t)
    \/ UpRead(t) \/ UpWrite(t) \/ DowngradeWrite(t)
    \/ ClearTask(t) \/ WakeNext(t) \/ WakeLast(t)

Spec == Init /\ [][Next]_vars

\* Running tasks make progress, and a holder eventually releases: strongly fair
\* because it competes with the other tasks for wait_lock.
Fairness == \A t \in Tasks :
    /\ WF_vars(WaitDone(t) \/ WaitSchedule(t) \/ WaitAgain(t))
    /\ WF_vars(ClearTask(t) \/ WakeNext(t) \/ WakeLast(t))
    /\ SF_vars(UpRead(t) \/ UpWrite(t))

FairSpec == Spec /\ Fairness

-----------------------------------------------------------------------------
(* Properties.                                                             *)

Waiting == {t \in Tasks : pc[t] \in {"check", "sched"}}
Waking  == {t \in Tasks : pc[t] \in {"null", "wakeup"}}

\* The waiter that is unlinked and whose task pointer is about to be cleared.
Granting == {u \in Tasks : u = tsk /\ \E w \in Waking : pc[w] = "null"}

\* Tasks that own the lock: inside, or given it and not yet returned.  The task
\* that downgrades owns it for reading while it wakes the others.
Readers == {t \in Tasks : \/ pc[t] = "read"
                          \/ t \in Waiting /\ ~wtask[t] /\ flags[t] = "read"
                          \/ t \in Waking /\ mode = "downgrade"}
Writers == {t \in Tasks : \/ pc[t] = "write"
                          \/ t \in Waiting /\ ~wtask[t] /\ flags[t] = "write"}

TypeOK == /\ activity \in Int
          /\ wait_list \in Seq(Tasks)
          /\ wait_lock \in Tasks \cup {NoTask}
          /\ wtask \in [Tasks -> BOOLEAN]
          /\ flags \in [Tasks -> {"none", "read", "write"}]
          /\ state \in [Tasks -> {"TASK_RUNNING", "TASK_UNINTERRUPTIBLE"}]
          /\ pc \in [Tasks -> Places]
          /\ tsk \in Tasks \cup {NoTask}
          /\ woken \in Nat
          /\ mode \in Modes

\* While nobody is inside a wake-up loop, activity says exactly who owns the
\* lock: "if activity is +ve then that is the number of active readers, if
\* activity is -1 then there is one active writer" (rwsem-spinlock.h).
ActivityExact ==
    Unlocked => \/ activity = Cardinality(Readers) /\ Writers = {}
                \/ activity = -1 /\ Readers = {} /\ Cardinality(Writers) = 1

\* A writer is alone, in the middle of a wake-up loop too.
Exclusion == Writers # {} => Readers = {} /\ Cardinality(Writers) = 1

\* What __rwsem_wake_one_writer() takes for granted: while readers are active,
\* the head of the queue is a writer.
HeadIsWriter ==
    Unlocked /\ activity > 0 /\ ~ListEmpty(wait_list) => HeadWants("write")

\* The queue holds exactly the waiters nobody has granted or is granting: a
\* waiter whose task pointer was cleared may be gone and is never followed.
QueueExact ==
    /\ Entries(wait_list) = {t \in Waiting : wtask[t]} \ Granting
    /\ NoDuplicates(wait_list)

\* activity, the queue and the owners agree.
Consistent == TypeOK /\ ActivityExact /\ Exclusion /\ HeadIsWriter /\ QueueExact

\* Nobody sleeps on a free lock, and a sleeper that was given the lock is awake
\* or about to be woken by the task that gave it.
NoLostWakeUp ==
    /\ Unlocked /\ activity = 0 => ListEmpty(wait_list)
    /\ \A t \in Tasks :
         pc[t] = "sched" /\ ~wtask[t] /\ state[t] # "TASK_RUNNING"
           => tsk = t /\ \E w \in Waking : pc[w] = "wakeup"

\* The semaphore implements the abstract reader/writer lock.
Abstract == INSTANCE ReadWriteLock WITH readers <- Readers, writers <- Writers

RefinesLock == Abstract!ASpec

\* Every queued reader and writer gets the lock while holders release it, however
\* many new readers keep coming.
NoStarvation == \A t \in Tasks : (t \in Waiting) ~> (pc[t] \in {"read", "write"})
=============================================================================
