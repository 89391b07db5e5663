-------------------------------- MODULE Mutex --------------------------------
(***************************************************************************)
(* The mutex of linux/kernel/mutex.c with the ARMv6 fast paths of          *)
(* include/asm-arm/mutex.h.                                                *)
(*                                                                         *)
(* A fast path is one ldrex/strex attempt: it stores, whatever it read, or *)
(* the store fails and leaves count alone, as a context switch between the *)
(* two instructions makes it do.  The fast paths never take                *)
(* lock->wait_lock, so every access to count inside a section under        *)
(* wait_lock is a step of its own; pc "try", "got" and "uwake" are places  *)
(* inside such a section.                                                  *)
(***************************************************************************)
EXTENDS SleepingLock

\* count is 1 unlocked, 0 locked, negative: there may be waiters.
mutexVars == <<count, wait_list, pc, call, state, sig>>

MutexCalls == {"mutex_lock", "mutex_lock_interruptible", "mutex_lock_killable"}
Places == {"idle",    \* outside
           "slow",    \* the lock fast path failed
           "try",     \* about to try atomic_xchg(), wait_lock held
           "got",     \* atomic_xchg() returned 1, wait_lock held
           "sleep",   \* in schedule()
           "held",    \* owns the mutex
           "uslow",   \* the unlock fast path failed
           "uwake"}   \* about to wake the first waiter, wait_lock held

\* The task state each slow path passes to __mutex_lock_common().
MutexSleepState(c) == CASE c = "mutex_lock_interruptible" -> "TASK_INTERRUPTIBLE"
                        [] c = "mutex_lock_killable"      -> "TASK_KILLABLE"
                        [] OTHER                          -> "TASK_UNINTERRUPTIBLE"

MutexInit == /\ count = 1
             /\ wait_list = <<>>
             /\ pc = [t \in Tasks |-> "idle"]
             /\ call = [t \in Tasks |-> "none"]
             /\ state = [t \in Tasks |-> "TASK_RUNNING"]
             /\ sig = [t \in Tasks |-> "none"]

-----------------------------------------------------------------------------
Goto(t, where) == pc' = [pc EXCEPT ![t] = where]

\* Nobody is inside a section under wait_lock.
WaitLockFree == \A t \in Tasks : pc[t] \notin {"try", "got", "uwake"}

MutexInterrupted(t) ==
    \/ call[t] = "mutex_lock_interruptible" /\ sig[t] # "none"
    \/ call[t] = "mutex_lock_killable" /\ sig[t] = "fatal"

-----------------------------------------------------------------------------
(* Fast paths, without wait_lock.                                          *)

\* Mutant: the fast path takes any count that is not negative.
FastLock_NotNegative(t) ==
    /\ pc[t] = "idle"
    /\ count >= 0
    /\ count' = 0
    /\ Goto(t, "held")
    /\ UNCHANGED <<wait_list, call, state, sig>>

\* __mutex_fastpath_lock(), __mutex_fastpath_lock_retval() or
\* __mutex_fastpath_trylock(): the 1 -> 0 transition.
FastLock(t) ==
    /\ pc[t] = "idle"
    /\ count = 1
    /\ count' = 0
    /\ Goto(t, "held")
    /\ UNCHANGED <<wait_list, call, state, sig>>

\* The decremented value is stored although it is not zero, or the store
\* fails.  (A failed trylock stores nothing and gives up.)
FastLockFails(t, c) ==
    /\ pc[t] = "idle"
    /\ \/ count # 1 /\ count' = count - 1
       \/ UNCHANGED count
    /\ Goto(t, "slow")
    /\ call' = [call EXCEPT ![t] = c]
    /\ UNCHANGED <<wait_list, state, sig>>

\* __mutex_fastpath_unlock(): the 0 -> 1 transition.
FastUnlock(t) ==
    /\ pc[t] = "held"
    /\ count = 0
    /\ count' = 1
    /\ Goto(t, "idle")
    /\ UNCHANGED <<wait_list, call, state, sig>>

\* The incremented value is stored although there may be waiters, or the store
\* fails: the mutex stays locked.
FastUnlockFails(t) ==
    /\ pc[t] = "held"
    /\ \/ count # 0 /\ count' = count + 1
       \/ UNCHANGED count
    /\ Goto(t, "uslow")
    /\ UNCHANGED <<wait_list, call, state, sig>>

-----------------------------------------------------------------------------
(* __mutex_lock_common().                                                  *)

\* The waiter is queued and the first atomic_xchg(&lock->count, -1) made.
LockSlow(t) ==
    /\ pc[t] = "slow" /\ WaitLockFree
    /\ wait_list' = ListAddTail(t, wait_list)
    /\ count' = -1
    /\ Goto(t, IF count = 1 THEN "got" ELSE "try")
    /\ UNCHANGED <<call, state, sig>>

\* Mutant: the loop takes the exchanged 0 for "unlocked".
TryTake_NotNegative(t) ==
    /\ pc[t] = "try"
    /\ count >= 0
    /\ count' = -1
    /\ Goto(t, "got")
    /\ UNCHANGED <<wait_list, call, state, sig>>

\* The atomic_xchg() of the loop returns 1.
TryTake(t) ==
    /\ pc[t] = "try"
    /\ count = 1
    /\ count' = -1
    /\ Goto(t, "got")
    /\ UNCHANGED <<wait_list, call, state, sig>>

\* It does not, and a signal is pending: -EINTR.
TryGiveUp(t) ==
    /\ pc[t] = "try"
    /\ count # 1 /\ MutexInterrupted(t)
    /\ count' = -1
    /\ wait_list' = ListDel(t, wait_list)
    /\ Goto(t, "idle")
    /\ call' = [call EXCEPT ![t] = "none"]
    /\ UNCHANGED <<state, sig>>

\* Mutant: the loop reads count and does not mark it again.
TrySleep_NotMarked(t) ==
    /\ pc[t] = "try"
    /\ count # 1 /\ ~MutexInterrupted(t)
    /\ state' = [state EXCEPT ![t] = MutexSleepState(call[t])]
    /\ Goto(t, "sleep")
    /\ UNCHANGED <<count, wait_list, call, sig>>

\* It does not, and the task drops wait_lock and sleeps.
TrySleep(t) ==
    /\ pc[t] = "try"
    /\ count # 1 /\ ~MutexInterrupted(t)
    /\ count' = -1
    /\ state' = [state EXCEPT ![t] = MutexSleepState(call[t])]
    /\ Goto(t, "sleep")
    /\ UNCHANGED <<wait_list, call, sig>>

\* schedule() returns and wait_lock is taken again.
MutexResume(t) ==
    /\ pc[t] = "sleep" /\ WaitLockFree
    /\ state[t] = "TASK_RUNNING"
    /\ Goto(t, "try")
    /\ UNCHANGED <<count, wait_list, call, state, sig>>

\* Mutant: count is set to 0 without a look at the wait list.
LockDone_AlwaysZero(t) ==
    /\ pc[t] = "got"
    /\ wait_list' = ListDel(t, wait_list)
    /\ count' = 0
    /\ Goto(t, "held")
    /\ call' = [call EXCEPT ![t] = "none"]
    /\ UNCHANGED <<state, sig>>

\* The waiter leaves the list, and count says whether others are left.
LockDone(t) ==
    /\ pc[t] = "got"
    /\ wait_list' = ListDel(t, wait_list)
    /\ count' = IF ListEmpty(wait_list') THEN 0 ELSE count
    /\ Goto(t, "held")
    /\ call' = [call EXCEPT ![t] = "none"]
    /\ UNCHANGED <<state, sig>>

-----------------------------------------------------------------------------
(* __mutex_unlock_common_slowpath().                                       *)

\* __mutex_slowpath_needs_to_unlock() is 1 on ARM.
UnlockSlow(t) ==
    /\ pc[t] = "uslow" /\ WaitLockFree
    /\ count' = 1
    /\ Goto(t, IF ListEmpty(wait_list) THEN "idle" ELSE "uwake")
    /\ UNCHANGED <<wait_list, call, state, sig>>

\* The first waiter is woken and stays in the list.
UnlockWake(t) ==
    /\ pc[t] = "uwake"
    /\ state' = [state EXCEPT ![Head(wait_list)] = "TASK_RUNNING"]
    /\ Goto(t, "idle")
    /\ UNCHANGED <<count, wait_list, call, sig>>

-----------------------------------------------------------------------------
(* What reaches a task from outside mutex.c while it sleeps.               *)

MutexSendSignal(t, s) ==
    /\ sig[t] # "fatal" /\ sig[t] # s
    /\ sig' = [sig EXCEPT ![t] = s]
    /\ state' = IF \/ state[t] = "TASK_INTERRUPTIBLE"
                   \/ state[t] = "TASK_KILLABLE" /\ s = "fatal"
                  THEN [state EXCEPT ![t] = "TASK_RUNNING"] ELSE state
    /\ UNCHANGED <<count, wait_list, pc, call>>

\* The task handled its signal on the way back to user space.
MutexClearSignal(t) ==
    /\ pc[t] = "idle"
    /\ sig[t] = "signal"
    /\ sig' = [sig EXCEPT ![t] = "none"]
    /\ UNCHANGED <<count, wait_list, pc, call, state>>

\* A wake-up meant for something else.
MutexStrayWakeUp(t) ==
    /\ pc[t] = "sleep"
    /\ state[t] # "TASK_RUNNING"
    /\ state' = [state EXCEPT ![t] = "TASK_RUNNING"]
    /\ UNCHANGED <<count, wait_list, pc, call, sig>>

-----------------------------------------------------------------------------
MutexNext ==
    \/ \E t \in Tasks :
         \/ FastLock(t) \/ FastUnlock(t) \/ FastUnlockFails(t)
         \/ LockSlow(t) \/ TryTake(t) \/ TryGiveUp(t) \/ TrySleep(t)
         \/ MutexResume(t) \/ LockDone(t) \/ UnlockSlow(t) \/ UnlockWake(t)
         \/ MutexClearSignal(t) \/ MutexStrayWakeUp(t)
    \/ \E t \in Tasks, c \in MutexCalls : FastLockFails(t, c)
    \/ \E t \in Tasks, s \in {"signal", "fatal"} : MutexSendSignal(t, s)

MutexSpec == MutexInit /\ [][MutexNext]_mutexVars

\* A running task makes progress, and so does an owner; where a step needs
\* wait_lock it competes for it (strong fairness).
NeedsWaitLock(t) == LockSlow(t) \/ MutexResume(t) \/ UnlockSlow(t)

Proceeds(t) == \/ TryTake(t) \/ TryGiveUp(t) \/ TrySleep(t) \/ LockDone(t)
               \/ UnlockWake(t) \/ FastUnlock(t) \/ FastUnlockFails(t)

MutexFairness ==
    \A t \in Tasks : SF_mutexVars(NeedsWaitLock(t)) /\ WF_mutexVars(Proceeds(t))

MutexFairSpec == MutexSpec /\ MutexFairness

-----------------------------------------------------------------------------
(* Properties.                                                             *)

\* Tasks that took the mutex and have not set count back to 1.
Owners == {t \in Tasks : pc[t] \in {"got", "held", "uslow"}}

\* Tasks that have failed the fast path and not queued their waiter yet.
Slow == {t \in Tasks : pc[t] = "slow"}

\* Tasks whose waiter is linked.
Queued == {t \in Tasks : pc[t] \in {"try", "got", "sleep"}}

\* Waiters that run and will try the mutex (again) by themselves.
Awake == {t \in Queued : pc[t] = "sleep" => state[t] = "TASK_RUNNING"}

\* count never exceeds 1, where __mutex_fastpath_trylock() would spin for ever,
\* and no pile-up of failed fast paths takes it below -1 - |Slow|.
MutexTypeOK == /\ count \in Int
               /\ count >= -1 - Cardinality(Slow) /\ count <= 1
               /\ wait_list \in Seq(Tasks)
               /\ pc \in [Tasks -> Places]
               /\ call \in [Tasks -> MutexCalls \cup {"none"}]
               /\ state \in [Tasks -> {"TASK_RUNNING", "TASK_INTERRUPTIBLE",
                                       "TASK_UNINTERRUPTIBLE", "TASK_KILLABLE"}]
               /\ sig \in [Tasks -> Signals]

\* "only one task can hold the mutex at a time" (mutex-design.txt), whatever the
\* unreliable fast paths store into count.
MutualExclusion == \A t, u \in Owners : t = u

\* count is 1 exactly when nobody owns the mutex.
CountExact == count = 1 <=> Owners = {}

\* The list links exactly the waiters inside __mutex_lock_common(), each once.
MutexWaitListExact == Entries(wait_list) = Queued /\ NoDuplicates(wait_list)

\* count, the list and the owner agree.
MutexConsistent == MutexTypeOK /\ MutualExclusion /\ CountExact /\ MutexWaitListExact

\* When count lets the owner unlock, or a newcomer lock, without a look at the
\* wait list, the waiters do not depend on them: one is awake and will mark
\* count again, or an unlock is on its way to wake the first.
MutexNoLostWakeUp ==
    count >= 0 /\ ~ListEmpty(wait_list) =>
        \/ Awake # {}
        \/ \E t \in Tasks : pc[t] \in {"uslow", "uwake"}

\* The mutex implements a counting semaphore of one unit.
OneUnit == INSTANCE CountingSemaphore
             WITH InitCount <- 1, avail <- 1 - Cardinality(Owners), holders <- Owners

RefinesSemaphore == OneUnit!ASpec

\* A free mutex with tasks that want it is taken, unless they all give up.
Progress ==
    (Owners = {} /\ Slow \cup Queued # {}) ~> (Owners # {} \/ Slow \cup Queued = {})
=============================================================================
