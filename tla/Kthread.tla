------------------------------- MODULE Kthread -------------------------------
(***************************************************************************)
(* Kernel threads (kernel/kthread.c): kthread_create() and the daemon      *)
(* kthreadd that serves it, the life of a thread in kthread(),             *)
(* kthread_bind(), wake_up_process() and kthread_stop().                   *)
(*                                                                         *)
(* Every task of Creators makes one thread at a time, which has the name   *)
(* of its creator here. The thread is "stoppable", its function returns    *)
(* once kthread_should_stop() is true and its creator stops it, or         *)
(* "standalone": it returns when it likes and nobody stops it after it has *)
(* been woken. What the function of thread c returns is written c.         *)
(*                                                                         *)
(* The completions are inlined (kernel/sched.c): complete() counts and     *)
(* wakes the waiter in one step under wait.lock; the waiter tests the      *)
(* count under the same lock.                                              *)
(***************************************************************************)
EXTENDS ListHead

CONSTANTS Creators, NULL, EINTR

ASSUME KthreadAssumption == NULL \notin Creators

VARIABLES list,          \* kthread_create_list
          dpc, dstate,   \* kthreadd: its next step, its task state
          create,        \* the request it is working on, or NULL
          cpc, kind,     \* of each creator: its next step; what it makes
          started, done, \* the completions of its kthread_create_info
          failed,        \* create.result is an error
          tpc, tstate,   \* of each thread: its next step, its task state
          ret,           \* of each thread: the local variable of kthread()
          stopLock,      \* the holder of kthread_stop_lock, or NULL
          stopInfo,      \* kthread_stop_info: k, err and the completion done
          pinned,        \* of each thread: get_task_struct() keeps the task_struct
          woken, ran     \* history: the owner has woken it; its function was called

dvars == <<list, dpc, dstate, create, started, done, failed>>
tvars == <<tpc, tstate, ret, ran>>
svars == <<stopLock, stopInfo, pinned>>
vars == <<dvars, cpc, kind, tvars, svars, woken>>

Init ==
    /\ list = <<>> /\ dpc = "top" /\ dstate = "running" /\ create = NULL
    /\ cpc = [c \in Creators |-> "idle"] /\ kind = [c \in Creators |-> "stoppable"]
    /\ started = [c \in Creators |-> 0] /\ done = [c \in Creators |-> 0]
    /\ failed = [c \in Creators |-> FALSE]
    /\ tpc = [c \in Creators |-> "none"] /\ tstate = [c \in Creators |-> "dead"]
    /\ ret = [c \in Creators |-> EINTR]
    /\ stopLock = NULL /\ stopInfo = [k |-> NULL, err |-> EINTR, done |-> 0]
    /\ pinned = [c \in Creators |-> FALSE]
    /\ woken = [c \in Creators |-> FALSE] /\ ran = [c \in Creators |-> FALSE]

Call(c, from, to) == cpc[c] = from /\ cpc' = [cpc EXCEPT ![c] = to]
Daemon(from, to) == dpc = from /\ dpc' = to
Thread(c, from, to) == tpc[c] = from /\ tpc' = [tpc EXCEPT ![c] = to]

\* wake_up_process(): a task that has exited stays dead.
Awake(state) == IF state = "dead" THEN "dead" ELSE "running"
WakeUp(c) == tstate' = [tstate EXCEPT ![c] = Awake(@)]

kthread_should_stop(c) == stopInfo.k = c

-----------------------------------------------------------------------------
(* kthread_create() *)

\* A creator asks for its next thread, when the last one is gone.
Request(c, newList) ==
    /\ Call(c, "idle", "wake") /\ tpc[c] = "none"
    /\ \E k \in {"stoppable", "standalone"} : kind' = [kind EXCEPT ![c] = k]
    /\ started' = [started EXCEPT ![c] = 0] /\ done' = [done EXCEPT ![c] = 0]
    /\ list' = newList
    /\ woken' = [woken EXCEPT ![c] = FALSE] /\ ran' = [ran EXCEPT ![c] = FALSE]
    /\ UNCHANGED <<dpc, dstate, create, failed, tpc, tstate, ret, svars>>

\* Mutant: the last request is served first.
CreateAdd_AtHead(c) == Request(c, ListAdd(c, list))

\* The request, which lives on the creator's stack, goes to the end of the list.
CreateAdd(c) == Request(c, ListAddTail(c, list))

\* wake_up_process(kthreadd_task), whatever it sleeps for.
CreateWake(c) ==
    /\ Call(c, "wake", "wait")
    /\ dstate' = "running"
    /\ UNCHANGED <<list, dpc, create, started, done, failed, kind, tvars, svars, woken>>

\* wait_for_completion(&create.done): the creator has its thread, or an error.
CreateReturns(c) ==
    /\ done[c] > 0 /\ done' = [done EXCEPT ![c] = @ - 1]
    /\ Call(c, "wait", IF failed[c] THEN "idle" ELSE "owner")
    /\ UNCHANGED <<list, dpc, dstate, create, started, failed, kind, tvars, svars, woken>>

-----------------------------------------------------------------------------
(* kthreadd() and create_kthread() *)

\* Its state is set before it looks at the list.
KthreaddPrepare ==
    /\ Daemon("top", "test") /\ dstate' = "interruptible"
    /\ UNCHANGED <<list, create, started, done, failed, cpc, kind, tvars, svars, woken>>

KthreaddTest ==
    /\ IF ListEmpty(list) THEN Daemon("test", "schedule") /\ UNCHANGED dstate
                      ELSE Daemon("test", "take") /\ dstate' = "running"
    /\ UNCHANGED <<list, create, started, done, failed, cpc, kind, tvars, svars, woken>>

\* schedule() returns at once when somebody has woken it since the state was set.
KthreaddWakes ==
    /\ dstate = "running" /\ Daemon("schedule", "take")
    /\ UNCHANGED <<list, dstate, create, started, done, failed, cpc, kind, tvars, svars, woken>>

\* Under the lock: the first request, or back to sleep.
KthreaddTake ==
    /\ IF ListEmpty(list) THEN Daemon("take", "top") /\ UNCHANGED <<list, create>>
                      ELSE Daemon("take", "fork") /\ create' = Head(list) /\ list' = Tail(list)
    /\ UNCHANGED <<dstate, started, done, failed, cpc, kind, tvars, svars, woken>>

\* kernel_thread() makes the thread, which goes on in kthread(); kthreadd continues at next.
Fork(next) ==
    /\ Daemon("fork", next)
    /\ tpc' = [tpc EXCEPT ![create] = "born"] /\ tstate' = [tstate EXCEPT ![create] = "running"]
    /\ ret' = [ret EXCEPT ![create] = EINTR] /\ failed' = [failed EXCEPT ![create] = FALSE]
    /\ UNCHANGED <<list, dstate, create, started, done, cpc, kind, ran, svars, woken>>

\* Mutant: kthreadd does not wait for the thread to have started.
KernelThread_NoWait == Fork("complete")

KernelThread == Fork("started")

KernelThreadFails ==
    /\ Daemon("fork", "complete")
    /\ failed' = [failed EXCEPT ![create] = TRUE]
    /\ UNCHANGED <<list, dstate, create, started, done, cpc, kind, tvars, svars, woken>>

\* wait_for_completion(&create->started): a wake-up that is meant for the list brings it
\* back to the test, and it sleeps again.
KthreaddStarted ==
    /\ dpc = "started" /\ dstate = "running"
    /\ IF started[create] > 0
       THEN /\ started' = [started EXCEPT ![create] = @ - 1]
            /\ dpc' = "complete" /\ UNCHANGED dstate
       ELSE /\ dstate' = "uninterruptible" /\ UNCHANGED <<started, dpc>>
    /\ UNCHANGED <<list, create, done, failed, cpc, kind, tvars, svars, woken>>

\* complete(&create->done): the creator's stack is not touched any more.
KthreaddDone ==
    /\ Daemon("complete", "take")
    /\ done' = [done EXCEPT ![create] = @ + 1] /\ create' = NULL
    /\ UNCHANGED <<list, dstate, started, failed, cpc, kind, tvars, svars, woken>>

-----------------------------------------------------------------------------
(* kthread() *)

\* It copies the request and sets its state.
KthreadBegin(c) ==
    /\ Thread(c, "born", "begun") /\ tstate' = [tstate EXCEPT ![c] = "uninterruptible"]
    /\ UNCHANGED <<dvars, cpc, kind, ret, ran, svars, woken>>

\* complete(&create->started)
KthreadStarted(c) ==
    /\ Thread(c, "begun", "schedule")
    /\ started' = [started EXCEPT ![c] = @ + 1]
    /\ dstate' = IF dpc = "started" /\ create = c THEN "running" ELSE dstate
    /\ UNCHANGED <<list, dpc, create, done, failed, cpc, kind, tstate, ret, ran, svars, woken>>

\* schedule(): it leaves the processor unless it was woken before.
KthreadSleeps(c) ==
    /\ tstate[c] # "running" /\ Thread(c, "schedule", "off")
    /\ UNCHANGED <<dvars, cpc, kind, tstate, ret, ran, svars, woken>>

\* It runs again. To be stopped already means not to call the function at all.
KthreadRuns(c) ==
    /\ tpc[c] \in {"schedule", "off"} /\ tstate[c] = "running"
    /\ tpc' = [tpc EXCEPT ![c] = IF kthread_should_stop(c) THEN "ending" ELSE "fn"]
    /\ ran' = [ran EXCEPT ![c] = ~kthread_should_stop(c)]
    /\ UNCHANGED <<dvars, cpc, kind, tstate, ret, svars, woken>>

\* The function, once per turn: it sets its state, looks whether it should stop, and sleeps.
FnPrepare(c) ==
    /\ Thread(c, "fn", "fntest") /\ tstate' = [tstate EXCEPT ![c] = "interruptible"]
    /\ UNCHANGED <<dvars, cpc, kind, ret, ran, svars, woken>>

FnTest(c) ==
    /\ ~kthread_should_stop(c) /\ Thread(c, "fntest", "fnsleep")
    /\ UNCHANGED <<dvars, cpc, kind, tstate, ret, ran, svars, woken>>

FnWakes(c) ==
    /\ tstate[c] = "running" /\ Thread(c, "fnsleep", "fn")
    /\ UNCHANGED <<dvars, cpc, kind, tstate, ret, ran, svars, woken>>

\* What the function waits for happens, sooner, later or never.
FnEvent(c) ==
    /\ tpc[c] \in {"fntest", "fnsleep"} /\ tstate[c] = "interruptible"
    /\ WakeUp(c)
    /\ UNCHANGED <<dvars, cpc, kind, tpc, ret, ran, svars, woken>>

FnReturns(c) ==
    /\ kthread_should_stop(c) \/ kind[c] = "standalone"
    /\ Thread(c, "fntest", "ending")
    /\ tstate' = [tstate EXCEPT ![c] = "running"] /\ ret' = [ret EXCEPT ![c] = c]
    /\ UNCHANGED <<dvars, cpc, kind, ran, svars, woken>>

Exit(c) == tpc' = [tpc EXCEPT ![c] = "none"] /\ tstate' = [tstate EXCEPT ![c] = "dead"]

\* It may have returned on its own, without kthread_stop(), and just exits.
KthreadEnds(c) ==
    /\ tpc[c] = "ending"
    /\ IF kthread_should_stop(c)
       THEN /\ tpc' = [tpc EXCEPT ![c] = "report"] /\ UNCHANGED tstate
            /\ stopInfo' = [stopInfo EXCEPT !.err = ret[c]]
       ELSE Exit(c) /\ UNCHANGED stopInfo
    /\ UNCHANGED <<dvars, cpc, kind, ret, ran, stopLock, pinned, woken>>

\* complete(&kthread_stop_info.done)
KthreadReports(c) ==
    /\ tpc[c] = "report" /\ Exit(c)
    /\ stopInfo' = [stopInfo EXCEPT !.done = @ + 1]
    /\ UNCHANGED <<dvars, cpc, kind, ret, ran, stopLock, pinned, woken>>

-----------------------------------------------------------------------------
(* What the creator does with its thread *)

\* wake_up_process(), the second half of kthread_run(); a standalone thread is on its own.
Wake(c) ==
    /\ Call(c, "owner", IF kind[c] = "standalone" THEN "idle" ELSE "owner")
    /\ WakeUp(c) /\ woken' = [woken EXCEPT ![c] = TRUE]
    /\ UNCHANGED <<dvars, kind, tpc, ret, ran, svars>>

\* kthread_bind() of a thread that was not woken: a thread that is not stopped is refused.
BindCheck(c) ==
    /\ ~woken[c]
    /\ Call(c, "owner", IF tstate[c] = "uninterruptible" THEN "bind" ELSE "owner")
    /\ UNCHANGED <<dvars, kind, tvars, svars, woken>>

\* wait_task_inactive(): it has left the processor, and its CPU is set.
BindDone(c) ==
    /\ tpc[c] = "off" /\ Call(c, "bind", "owner")
    /\ UNCHANGED <<dvars, kind, tvars, svars, woken>>

\* Mutant: the task_struct is not held.
StopLock_NoGet(c) ==
    /\ stopLock = NULL /\ stopLock' = c /\ Call(c, "owner", "publish")
    /\ stopInfo' = [stopInfo EXCEPT !.done = 0]
    /\ UNCHANGED <<dvars, kind, tvars, pinned, woken>>

\* Mutant: the thread is woken before kthread_should_stop() is true.
StopLock_WakesFirst(c) ==
    /\ stopLock = NULL /\ stopLock' = c /\ Call(c, "owner", "publish")
    /\ pinned' = [pinned EXCEPT ![c] = TRUE] /\ WakeUp(c)
    /\ stopInfo' = [stopInfo EXCEPT !.done = 0]
    /\ UNCHANGED <<dvars, kind, tpc, ret, ran, woken>>

\* kthread_stop(): the lock, get_task_struct(), and the completion is initialised.
StopLock(c) ==
    /\ stopLock = NULL /\ stopLock' = c /\ Call(c, "owner", "publish")
    /\ pinned' = [pinned EXCEPT ![c] = TRUE]
    /\ stopInfo' = [stopInfo EXCEPT !.done = 0]
    /\ UNCHANGED <<dvars, kind, tvars, woken>>

\* Now kthread_should_stop() is true.
StopPublish(c) ==
    /\ Call(c, "publish", "stopwake")
    /\ stopInfo' = [stopInfo EXCEPT !.k = c]
    /\ UNCHANGED <<dvars, kind, tvars, stopLock, pinned, woken>>

\* Mutant: the completion is initialised when the thread can already see that it should stop.
StopWake_InitsLate(c) ==
    /\ Call(c, "stopwake", "stopwait") /\ WakeUp(c)
    /\ pinned' = [pinned EXCEPT ![c] = FALSE]
    /\ stopInfo' = [stopInfo EXCEPT !.done = 0]
    /\ UNCHANGED <<dvars, kind, tpc, ret, ran, stopLock, woken>>

\* wake_up_process() and put_task_struct()
StopWake(c) ==
    /\ Call(c, "stopwake", "stopwait") /\ WakeUp(c)
    /\ pinned' = [pinned EXCEPT ![c] = FALSE]
    /\ UNCHANGED <<dvars, kind, tpc, ret, ran, stopLock, stopInfo, woken>>

\* The thread has reported, and k is reset; who holds the lock then is in lock.
Reported(c, lock) ==
    /\ stopInfo.done > 0 /\ Call(c, "stopwait", "gather")
    /\ stopInfo' = [k |-> NULL, err |-> stopInfo.err, done |-> stopInfo.done - 1]
    /\ stopLock' = lock
    /\ UNCHANGED <<dvars, kind, tvars, pinned, woken>>

\* Mutant: the lock is released before the result is read.
StopWait_Unlocks(c) == Reported(c, NULL)

StopWait(c) == Reported(c, c)

\* The result is read, and the lock released.
StopReturns(c) ==
    /\ Call(c, "gather", "idle")
    /\ stopLock' = NULL
    /\ UNCHANGED <<dvars, kind, tvars, stopInfo, pinned, woken>>

-----------------------------------------------------------------------------
Kthreadd == \/ KthreaddPrepare \/ KthreaddTest \/ KthreaddWakes \/ KthreaddTake
            \/ KernelThread \/ KernelThreadFails \/ KthreaddStarted \/ KthreaddDone

kthread(c) == \/ KthreadBegin(c) \/ KthreadStarted(c) \/ KthreadSleeps(c) \/ KthreadRuns(c)
              \/ FnPrepare(c) \/ FnTest(c) \/ FnWakes(c) \/ FnReturns(c)
              \/ KthreadEnds(c) \/ KthreadReports(c)

\* The steps of a call that has begun; a call begins when its creator likes.
InCall(c) == \/ CreateWake(c) \/ CreateReturns(c) \/ BindDone(c)
             \/ StopPublish(c) \/ StopWake(c) \/ StopWait(c) \/ StopReturns(c)

Creator(c) == CreateAdd(c) \/ Wake(c) \/ BindCheck(c) \/ StopLock(c) \/ InCall(c)

Next == Kthreadd \/ \E c \in Creators : kthread(c) \/ FnEvent(c) \/ Creator(c)

Spec == Init /\ [][Next]_vars

\* Whoever is runnable runs. Nothing is assumed of when a creator calls, or of its getting
\* the lock of kthread_stop().
FairSpec == /\ Spec /\ WF_vars(Kthreadd)
            /\ \A c \in Creators : WF_vars(kthread(c)) /\ WF_vars(InCall(c))

-----------------------------------------------------------------------------
(* Properties *)

\* Every completion is counted up once for each time it is waited for: a thread that
\* returns on its own leaves that of kthread_stop() alone.
TypeOK ==
    /\ list \in Seq(Creators) /\ create \in Creators \cup {NULL}
    /\ dpc \in {"top", "test", "schedule", "take", "fork", "started", "complete"}
    /\ dstate \in {"running", "interruptible", "uninterruptible"}
    /\ cpc \in [Creators -> {"idle", "wake", "wait", "owner", "bind", "publish", "stopwake",
                             "stopwait", "gather"}]
    /\ kind \in [Creators -> {"stoppable", "standalone"}]
    /\ started \in [Creators -> 0 .. 1] /\ done \in [Creators -> 0 .. 1]
    /\ failed \in [Creators -> BOOLEAN]
    /\ tpc \in [Creators -> {"none", "born", "begun", "schedule", "off", "fn", "fntest",
                             "fnsleep", "ending", "report"}]
    /\ tstate \in [Creators -> {"dead", "running", "interruptible", "uninterruptible"}]
    /\ ret \in [Creators -> Creators \cup {EINTR}]
    /\ stopLock \in Creators \cup {NULL}
    /\ stopInfo \in [k : Creators \cup {NULL}, err : Creators \cup {EINTR}, done : 0 .. 1]
    /\ pinned \in [Creators -> BOOLEAN]
    /\ woken \in [Creators -> BOOLEAN] /\ ran \in [Creators -> BOOLEAN]

\* kthreadd does not sleep on a request that nobody will wake it for.
NoLostRequest ==
    dpc = "schedule" /\ dstate # "running" /\ ~ListEmpty(list) => \E c \in Creators : cpc[c] = "wake"

\* kthread_create_info is on the stack of kthread_create(): whoever may still use it, the
\* list, kthreadd or the new thread, keeps the call from returning.
FrameAlive ==
    \A c \in Creators :
        c \in Entries(list) \/ create = c \/ tpc[c] \in {"born", "begun"} => cpc[c] \in {"wake", "wait"}

\* "The thread will be stopped: use wake_up_process() to start it": its creator can wake or
\* bind it as soon as it has it, although the thread may not have called schedule() yet.
CreatedIsStopped ==
    \A c \in Creators :
        cpc[c] \in {"owner", "bind"} /\ ~woken[c] =>
            tpc[c] \in {"schedule", "off"} /\ tstate[c] = "uninterruptible"

\* The function is called only if the creator has woken its thread; kthread_stop() instead
\* makes the thread exit without calling it.
RunsOnlyIfWoken == \A c \in Creators : ran[c] => woken[c]

\* Requests are not slept on, and threads run when their creators say so.
Consistent == TypeOK /\ NoLostRequest /\ CreatedIsStopped /\ RunsOnlyIfWoken

\* The creator's pointer is good whenever it is used, also in kthread_stop() when the
\* thread sees that it should stop and exits before it is woken.
HandleValid ==
    \A c \in Creators :
        /\ cpc[c] \in {"owner", "bind", "publish"} => tpc[c] # "none"
        /\ cpc[c] = "stopwake" => tpc[c] # "none" \/ pinned[c]

\* kthread_stop() returns what the function of its own thread has returned, or -EINTR if
\* it was never called, and then the thread does not run its function any more.
StopResult ==
    \A c \in Creators :
        cpc[c] = "gather" => /\ stopInfo.err = IF ran[c] THEN c ELSE EINTR
                             /\ tpc[c] = "none"

\* kthread_create() and kthread_bind() return, also when the thread cannot be made.
CallsReturn ==
    \A c \in Creators : (cpc[c] \in {"wake", "wait", "bind"}) ~> (cpc[c] \in {"idle", "owner"})

\* kthread_stop() returns, wherever the thread is when it is called.
StopEnds == (stopLock # NULL) ~> (stopLock = NULL)

\* "%-EINTR if wake_up_process() was never called" (the comment on kthread_stop()).
EintrMeansNeverWoken ==
    \A c \in Creators : cpc[c] = "gather" /\ stopInfo.err = EINTR => ~woken[c]
=============================================================================
