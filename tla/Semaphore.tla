------------------------------ MODULE Semaphore ------------------------------
(***************************************************************************)
(* The counting semaphore of linux/kernel/semaphore.c.                     *)
(*                                                                         *)
(* Every section of the code between spin_lock_irq*(&sem->lock) and the    *)
(* matching unlock is one action: count, wait_list and the waiters' up     *)
(* flags are only touched there.  Between two such sections a task sleeps  *)
(* in schedule_timeout(), where signals, the timeout's timer, up() and     *)
(* stray wake-ups reach it in any order.                                   *)
(*                                                                         *)
(* A signal that arrives inside the locked section of __down_common(),     *)
(* after the task tested for one, is the same as a signal that arrives     *)
(* just after the section: schedule() puts a task whose signal is already  *)
(* pending back to TASK_RUNNING (signal_pending_state()).                  *)
(***************************************************************************)
EXTENDS SleepingLock

CONSTANTS InitCount,  \* sema_init(sem, InitCount)
          MaxPosts    \* bound on the calls of up() made by a non-holder

ASSUME CountAssumption == InitCount \in Nat /\ MaxPosts \in Nat

\* pc is "idle", "sleep" (in schedule_timeout()) or "held".
VARIABLES waiter_up,  \* waiter.up of each task
          expired,    \* no time is left: timeout <= 0
          posts       \* calls of up() by non-holders so far

vars == <<count, wait_list, waiter_up, pc, call, state, sig, expired, posts>>

Calls == {"down", "down_interruptible", "down_killable", "down_timeout"}

\* The task state each wrapper passes to __down_common().
SleepState(c) == CASE c = "down_interruptible" -> "TASK_INTERRUPTIBLE"
                   [] c = "down_killable"      -> "TASK_KILLABLE"
                   [] OTHER                    -> "TASK_UNINTERRUPTIBLE"

Init == /\ count = InitCount
        /\ wait_list = <<>>
        /\ waiter_up = [t \in Tasks |-> FALSE]
        /\ pc = [t \in Tasks |-> "idle"]
        /\ call = [t \in Tasks |-> "none"]
        /\ state = [t \in Tasks |-> "TASK_RUNNING"]
        /\ sig = [t \in Tasks |-> "none"]
        /\ expired = [t \in Tasks |-> FALSE]
        /\ posts = 0

-----------------------------------------------------------------------------
(* The tests the loop of __down_common() makes before it sleeps (again).   *)

Interrupted(t, c) == \/ c = "down_interruptible" /\ sig[t] # "none"
                     \/ c = "down_killable" /\ sig[t] = "fatal"

\* Only __down_timeout() passes a timeout that runs out.
TimedOut(c, noTime) == c = "down_timeout" /\ noTime

WakeUpProcess(t) == state' = [state EXCEPT ![t] = "TASK_RUNNING"]

\* __down_common() returns: 0 makes the task a holder, -EINTR and -ETIME do
\* not.  The waiter was on its stack and is gone.
Return(t, where) == /\ pc' = [pc EXCEPT ![t] = where]
                    /\ call' = [call EXCEPT ![t] = "none"]
                    /\ waiter_up' = [waiter_up EXCEPT ![t] = FALSE]
                    /\ expired' = [expired EXCEPT ![t] = FALSE]

-----------------------------------------------------------------------------
\* down() and its variants when a unit is free: no sleep.
DownAcquire(t) ==
    /\ pc[t] = "idle"
    /\ count > 0
    /\ count' = count - 1
    /\ pc' = [pc EXCEPT ![t] = "held"]
    /\ UNCHANGED <<wait_list, waiter_up, call, state, sig, expired, posts>>

\* No unit is free: the waiter is queued and the task goes to sleep.
DownSleep(t, c) ==
    /\ pc[t] = "idle"
    /\ count <= 0
    /\ ~Interrupted(t, c)
    /\ wait_list' = ListAddTail(t, wait_list)
    /\ waiter_up' = [waiter_up EXCEPT ![t] = FALSE]
    /\ pc' = [pc EXCEPT ![t] = "sleep"]
    /\ call' = [call EXCEPT ![t] = c]
    /\ state' = [state EXCEPT ![t] = SleepState(c)]
    /\ UNCHANGED <<count, sig, expired, posts>>

\* No unit is free and the first pass of the loop gives up: a signal was
\* already pending, or the caller passed a timeout that is not positive.  The
\* waiter is queued and unqueued under one hold of the lock, so nothing is
\* left of the call.
DownGiveUp(t, c, noTime) ==
    /\ pc[t] = "idle"
    /\ count <= 0
    /\ Interrupted(t, c) \/ TimedOut(c, noTime)
    /\ UNCHANGED vars

\* schedule_timeout() returned and the lock is taken again.  waiter.up is
\* tested before anything else: up() has already unlinked this waiter.
ResumeAcquired(t) ==
    /\ pc[t] = "sleep"
    /\ state[t] = "TASK_RUNNING"
    /\ waiter_up[t]
    /\ Return(t, "held")
    /\ UNCHANGED <<count, wait_list, state, sig, posts>>

\* Mutant: the error path forgets list_del().
ResumeGiveUp_NoListDel(t) ==
    /\ pc[t] = "sleep"
    /\ state[t] = "TASK_RUNNING"
    /\ ~waiter_up[t]
    /\ Interrupted(t, call[t]) \/ TimedOut(call[t], expired[t])
    /\ Return(t, "idle")
    /\ UNCHANGED <<count, wait_list, state, sig, posts>>

\* Mutant: the loop tests the signal and the timeout before waiter.up.
ResumeGiveUp_UpTestedLast(t) ==
    /\ pc[t] = "sleep"
    /\ state[t] = "TASK_RUNNING"
    /\ Interrupted(t, call[t]) \/ TimedOut(call[t], expired[t])
    /\ wait_list' = IF waiter_up[t] THEN wait_list ELSE ListDel(t, wait_list)
    /\ Return(t, "idle")
    /\ UNCHANGED <<count, state, sig, posts>>

\* Woken by a signal (-EINTR) or by the timer (-ETIME): list_del() and an error.
ResumeGiveUp(t) ==
    /\ pc[t] = "sleep"
    /\ state[t] = "TASK_RUNNING"
    /\ ~waiter_up[t]
    /\ Interrupted(t, call[t]) \/ TimedOut(call[t], expired[t])
    /\ wait_list' = ListDel(t, wait_list)
    /\ Return(t, "idle")
    /\ UNCHANGED <<count, state, sig, posts>>

\* Mutant: a waiter queues itself again, at the tail, on every pass of the loop.
ResumeSleep_Requeue(t) ==
    /\ pc[t] = "sleep"
    /\ state[t] = "TASK_RUNNING"
    /\ ~waiter_up[t]
    /\ ~Interrupted(t, call[t])
    /\ ~TimedOut(call[t], expired[t])
    /\ wait_list' = ListAddTail(t, ListDel(t, wait_list))
    /\ state' = [state EXCEPT ![t] = SleepState(call[t])]
    /\ UNCHANGED <<count, waiter_up, pc, call, sig, expired, posts>>

\* Woken for no reason: back to sleep, without losing the place in the list.
ResumeSleep(t) ==
    /\ pc[t] = "sleep"
    /\ state[t] = "TASK_RUNNING"
    /\ ~waiter_up[t]
    /\ ~Interrupted(t, call[t])
    /\ ~TimedOut(call[t], expired[t])
    /\ state' = [state EXCEPT ![t] = SleepState(call[t])]
    /\ UNCHANGED <<count, wait_list, waiter_up, pc, call, sig, expired, posts>>

\* Mutant: the test of the new count is off by one.
DownTrylock_OffByOne(t) ==
    /\ pc[t] = "idle"
    /\ count - 1 >= -1
    /\ count' = count - 1
    /\ pc' = [pc EXCEPT ![t] = "held"]
    /\ UNCHANGED <<wait_list, waiter_up, call, state, sig, expired, posts>>

\* down_trylock(): never sleeps; when it returns 1 nothing has changed.
DownTrylock(t) ==
    /\ pc[t] = "idle"
    /\ count - 1 >= 0
    /\ count' = count - 1
    /\ pc' = [pc EXCEPT ![t] = "held"]
    /\ UNCHANGED <<wait_list, waiter_up, call, state, sig, expired, posts>>

\* The body of up() and __up(): the unit goes back to the count, or straight
\* to the oldest waiter, which is unlinked and woken.
UpUnit ==
    IF ListEmpty(wait_list)
      THEN /\ count' = count + 1
           /\ UNCHANGED <<wait_list, waiter_up, state>>
      ELSE /\ wait_list' = Tail(wait_list)
           /\ waiter_up' = [waiter_up EXCEPT ![Head(wait_list)] = TRUE]
           /\ WakeUpProcess(Head(wait_list))
           /\ UNCHANGED count

\* up() by a task that holds a unit.
Up(t) ==
    /\ pc[t] = "held"
    /\ UpUnit
    /\ pc' = [pc EXCEPT ![t] = "idle"]
    /\ UNCHANGED <<call, sig, expired, posts>>

\* up() "from any context and even by tasks which have never called down()".
Post ==
    /\ posts < MaxPosts
    /\ UpUnit
    /\ posts' = posts + 1
    /\ UNCHANGED <<pc, call, sig, expired>>

-----------------------------------------------------------------------------
(* What reaches a task from outside semaphore.c.                           *)

\* A signal is sent (signal_wake_up()): it wakes an interruptible sleeper, a
\* killable one only when it is fatal.
SendSignal(t, s) ==
    /\ sig[t] # "fatal" /\ sig[t] # s
    /\ sig' = [sig EXCEPT ![t] = s]
    /\ IF \/ state[t] = "TASK_INTERRUPTIBLE"
          \/ state[t] = "TASK_KILLABLE" /\ s = "fatal"
         THEN WakeUpProcess(t)
         ELSE UNCHANGED state
    /\ UNCHANGED <<count, wait_list, waiter_up, pc, call, expired, posts>>

\* The task handled its signal on the way back to user space.
ClearSignal(t) ==
    /\ pc[t] = "idle"
    /\ sig[t] = "signal"
    /\ sig' = [sig EXCEPT ![t] = "none"]
    /\ UNCHANGED <<count, wait_list, waiter_up, pc, call, state, expired, posts>>

\* The timer of schedule_timeout() runs (process_timeout()).
Timeout(t) ==
    /\ pc[t] = "sleep"
    /\ call[t] = "down_timeout"
    /\ ~expired[t]
    /\ expired' = [expired EXCEPT ![t] = TRUE]
    /\ WakeUpProcess(t)
    /\ UNCHANGED <<count, wait_list, waiter_up, pc, call, sig, posts>>

\* A wake_up_process() meant for something else.
StrayWakeUp(t) ==
    /\ pc[t] = "sleep"
    /\ state[t] # "TASK_RUNNING"
    /\ WakeUpProcess(t)
    /\ UNCHANGED <<count, wait_list, waiter_up, pc, call, sig, expired, posts>>

-----------------------------------------------------------------------------
Resume(t) == ResumeAcquired(t) \/ ResumeGiveUp(t) \/ ResumeSleep(t)

Next ==
    \/ \E t \in Tasks : DownAcquire(t)
    \/ \E t \in Tasks, c \in Calls : DownSleep(t, c)
    \/ \E t \in Tasks, c \in Calls, noTime \in BOOLEAN : DownGiveUp(t, c, noTime)
    \/ \E t \in Tasks : ResumeAcquired(t)
    \/ \E t \in Tasks : ResumeGiveUp(t)
    \/ \E t \in Tasks : ResumeSleep(t)
    \/ \E t \in Tasks : DownTrylock(t)
    \/ \E t \in Tasks : Up(t)
    \/ Post
    \/ \E t \in Tasks, s \in {"signal", "fatal"} : SendSignal(t, s)
    \/ \E t \in Tasks : ClearSignal(t)
    \/ \E t \in Tasks : Timeout(t)
    \/ \E t \in Tasks : StrayWakeUp(t)

Spec == Init /\ [][Next]_vars

\* A runnable task runs, a holder calls up(), and a timer that is armed runs.
\* Nothing is assumed of signals, posts, stray wake-ups or new callers.
Fairness == \A t \in Tasks : /\ WF_vars(Resume(t))
                             /\ WF_vars(Up(t))
                             /\ WF_vars(Timeout(t))

FairSpec == Spec /\ Fairness

-----------------------------------------------------------------------------
(* Properties.                                                             *)

Held     == {t \in Tasks : pc[t] = "held"}
Sleeping == {t \in Tasks : pc[t] = "sleep"}

\* Waiters up() has handed a unit to and that have not resumed yet.
Granted  == {t \in Sleeping : waiter_up[t]}

TypeOK == /\ count \in Nat
          /\ wait_list \in Seq(Tasks)
          /\ waiter_up \in [Tasks -> BOOLEAN]
          /\ pc \in [Tasks -> {"idle", "sleep", "held"}]
          /\ call \in [Tasks -> Calls \cup {"none"}]
          /\ state \in [Tasks -> {"TASK_RUNNING", "TASK_INTERRUPTIBLE",
                                  "TASK_UNINTERRUPTIBLE", "TASK_KILLABLE"}]
          /\ sig \in [Tasks -> Signals]
          /\ expired \in [Tasks -> BOOLEAN]
          /\ posts \in 0..MaxPosts

\* No unit is ever lost or made up: whatever the order in which signals,
\* timeouts and up() race, the free units, the units in flight to a woken
\* waiter and the held ones add up to what sema_init() and the posts put in.
Conservation ==
    count + Cardinality(Held) + Cardinality(Granted) = InitCount + posts

\* The wait list holds exactly the sleepers no up() has reached, each once:
\* list_del() in the error paths and in __up() never unlinks a waiter twice
\* and never leaves one of a task that has returned.
WaitListExact ==
    /\ Entries(wait_list) = Sleeping \ Granted
    /\ NoDuplicates(wait_list)

\* A unit is never free while somebody waits for it, and a waiter that was
\* handed one is awake: no wake-up of up() is lost.
NoLostWakeUp ==
    /\ count > 0 => wait_list = <<>>
    /\ \A t \in Granted : state[t] = "TASK_RUNNING"

\* The count, the list and the waiters agree.
Consistent == TypeOK /\ Conservation /\ WaitListExact /\ NoLostWakeUp

\* A waiter that was handed a unit takes it: neither a signal nor a timeout
\* that comes later turns its down*() into a failure.
GrantIsFinal ==
    [][\A t \in Granted : pc'[t] \in {"sleep", "held"}]_vars

\* The detailed semaphore implements the abstract one.
Abstract == INSTANCE CountingSemaphore
              WITH avail <- count + Cardinality(Granted), holders <- Held

RefinesCounting == Abstract!ASpec

\* Nobody waits for ever while holders release: FIFO hand-over protects a
\* sleeper from the newcomers and from down_trylock().
StarvationFree == \A t \in Tasks : (pc[t] = "sleep") ~> (pc[t] # "sleep")
=============================================================================
