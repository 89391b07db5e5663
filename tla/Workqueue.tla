------------------------------ MODULE Workqueue ------------------------------
(***************************************************************************)
(* The workqueues of linux/kernel/workqueue.c on one CPU: each workqueue   *)
(* has one cpu_workqueue_struct and one worker thread.                     *)
(*                                                                         *)
(* A section under cwq->lock is one step; what runs without the lock (the  *)
(* PENDING bit, the timer, the functions, the waits) is interleaved.  A    *)
(* timer counts as running between its removal from the timer wheel and    *)
(* the end of its function.  A wq_barrier lives on the stack of the task   *)
(* that waits for it and is named by that task.  Freezing, CPU hotplug and *)
(* failing thread creation are not modelled.                               *)
(***************************************************************************)
EXTENDS Integers, Sequences, FiniteSets, ListHead

CONSTANTS Tasks,      \* callers in process context
          Works,      \* the (delayed) work items
          Queues,     \* the workqueues, each with its worker thread
          keventd_wq, \* the one that is never destroyed
          NULL,       \* no work, no workqueue
          SelfFlush,  \* do work functions flush their own workqueue?
          MaxDepth    \* bound: how deep run_workqueue() nests

ASSUME ConstantsAssumption == /\ Tasks \cap (Works \cup Queues) = {}
                              /\ Works \cap Queues = {} /\ keventd_wq \in Queues
                              /\ NULL \notin Tasks \cup Works \cup Queues
                              /\ SelfFlush \in BOOLEAN /\ MaxDepth \in Nat \ {0}

VARIABLES
    pending,   \* WORK_STRUCT_PENDING of each work
    data,      \* the workqueue pointer beside it
    timer,     \* the timer of each delayed work
    worklist,  \* cwq->worklist: works, and tasks for their barriers
    current,   \* cwq->current_work
    stack,     \* what the worker executes, innermost run_workqueue() first
    wpc,       \* where each worker is
    wstate,    \* its task state
    stopping,  \* workqueues whose worker should stop
    dying,     \* workqueues that destroy_workqueue() was called for
    op,        \* the call each task, and each work function, is in
    done,      \* the completion of each task's barrier
    before     \* history: what was queued or running when a flush began

wqvars   == <<worklist, current, stack, wpc, wstate>>
workvars == <<pending, data, timer>>
vars == <<pending, data, timer, worklist, current, stack, wpc, wstate, stopping,
          dying, op, done, before>>

\* Work functions call from the context of their worker.
Callers == Tasks \cup Queues

Idle == [at |-> "idle", work |-> NULL, cwq |-> NULL, timer |-> FALSE, ret |-> 0]

Init == /\ pending = [w \in Works |-> FALSE]
        /\ data = [w \in Works |-> NULL]
        /\ timer = [w \in Works |-> "off"]
        /\ worklist = [q \in Queues |-> <<>>]
        /\ current = [q \in Queues |-> NULL]
        /\ stack = [q \in Queues |-> <<>>]
        /\ wpc = [q \in Queues |-> "prepare"]
        /\ wstate = [q \in Queues |-> "TASK_RUNNING"]
        /\ stopping = {} /\ dying = {}
        /\ op = [c \in Callers |-> Idle]
        /\ done = [t \in Tasks |-> FALSE]
        /\ before = [t \in Tasks |-> {}]

-----------------------------------------------------------------------------
\* A task calls what it likes; a work function queues its own work again.
MayCall(c, w) == /\ op[c] = Idle
                 /\ c \in Queues => wpc[c] = "func" /\ Head(stack[c]) = w

\* destroy_workqueue() wants its callers to have stopped queueing work, except
\* for works that queue themselves.
MayUse(c, q) == q \notin dying \/ c = q

Call(c, where, w, q) ==
    op' = [op EXCEPT ![c] = [at |-> where, work |-> w, cwq |-> q, timer |-> FALSE, ret |-> 0]]

Goto(c, where) == op' = [op EXCEPT ![c].at = where]

Return(c) == op' = [op EXCEPT ![c] = Idle]

\* insert_work() after set_wq_data(): the list and the wake-up.
InsertWork(q, list) ==
    /\ worklist' = [worklist EXCEPT ![q] = list]
    /\ wstate' = [wstate EXCEPT ![q] = "TASK_RUNNING"]

-----------------------------------------------------------------------------
(* Queueing.                                                               *)

\* queue_work() or queue_delayed_work() sets PENDING; if it was set, nothing
\* happens and the call returns 0.
QueueWork(c, w, q, where) ==
    /\ MayCall(c, w) /\ MayUse(c, q)
    /\ where = "store" => q \notin dying
    /\ ~pending[w]
    /\ pending' = [pending EXCEPT ![w] = TRUE]
    /\ Call(c, where, w, q)
    /\ UNCHANGED <<data, timer, stopping, dying, done, before>> /\ UNCHANGED wqvars

\* Mutant: the work goes to the head of the list.
QueueInsert_AtHead(c) ==
    LET w == op[c].work  q == op[c].cwq
    IN /\ op[c].at = "insert"
       /\ data' = [data EXCEPT ![w] = q]
       /\ InsertWork(q, ListAdd(w, worklist[q]))
       /\ Return(c)
       /\ UNCHANGED <<pending, timer, current, stack, wpc, stopping, dying, done, before>>

\* __queue_work().
QueueInsert(c) ==
    LET w == op[c].work  q == op[c].cwq
    IN /\ op[c].at = "insert"
       /\ data' = [data EXCEPT ![w] = q]
       /\ InsertWork(q, ListAddTail(w, worklist[q]))
       /\ Return(c)
       /\ UNCHANGED <<pending, timer, current, stack, wpc, stopping, dying, done, before>>

\* queue_delayed_work_on() stores the workqueue for the timer, ...
QueueStore(c) ==
    /\ op[c].at = "store"
    /\ data' = [data EXCEPT ![op[c].work] = op[c].cwq]
    /\ Goto(c, "arm")
    /\ UNCHANGED <<pending, timer, stopping, dying, done, before>> /\ UNCHANGED wqvars

\* ... then arms it.
QueueArm(c) ==
    /\ op[c].at = "arm"
    /\ timer' = [timer EXCEPT ![op[c].work] = "armed"]
    /\ Return(c)
    /\ UNCHANGED <<pending, data, stopping, dying, done, before>> /\ UNCHANGED wqvars

TimerExpires(w) ==
    /\ timer[w] = "armed"
    /\ timer' = [timer EXCEPT ![w] = "running"]
    /\ UNCHANGED <<pending, data, stopping, dying, op, done, before>> /\ UNCHANGED wqvars

\* Mutant: the work is dropped when the workqueue is busy.
TimerFn_DropsIfBusy(w) ==
    /\ timer[w] = "running"
    /\ timer' = [timer EXCEPT ![w] = "off"]
    /\ IF current[data[w]] = NULL
         THEN InsertWork(data[w], ListAddTail(w, worklist[data[w]]))
         ELSE UNCHANGED <<worklist, wstate>>
    /\ UNCHANGED <<pending, data, current, stack, wpc, stopping, dying, op, done, before>>

\* delayed_work_timer_fn().
TimerFn(w) ==
    /\ timer[w] = "running"
    /\ timer' = [timer EXCEPT ![w] = "off"]
    /\ InsertWork(data[w], ListAddTail(w, worklist[data[w]]))
    /\ UNCHANGED <<pending, data, current, stack, wpc, stopping, dying, op, done, before>>

-----------------------------------------------------------------------------
(* The worker.                                                             *)

WorkerPrepare(q) ==
    /\ wpc[q] = "prepare"
    /\ wstate' = [wstate EXCEPT ![q] = "TASK_INTERRUPTIBLE"]
    /\ wpc' = [wpc EXCEPT ![q] = "check"]
    /\ UNCHANGED <<worklist, current, stack, stopping, dying, op, done, before>>
    /\ UNCHANGED workvars

\* Mutant: the worker does not look at the list before it sleeps.
WorkerCheck_ListIgnored(q) ==
    /\ wpc[q] = "check"
    /\ wpc' = [wpc EXCEPT ![q] = IF q \notin stopping THEN "sleep" ELSE "finish"]
    /\ UNCHANGED <<worklist, current, stack, wstate, stopping, dying, op, done, before>>
    /\ UNCHANGED workvars

\* The conditions are read without the lock.
WorkerCheck(q) ==
    /\ wpc[q] = "check"
    /\ wpc' = [wpc EXCEPT ![q] = IF q \notin stopping /\ ListEmpty(worklist[q])
                                   THEN "sleep" ELSE "finish"]
    /\ UNCHANGED <<worklist, current, stack, wstate, stopping, dying, op, done, before>>
    /\ UNCHANGED workvars

\* schedule() returns.
WorkerWakes(q) ==
    /\ wpc[q] = "sleep" /\ wstate[q] = "TASK_RUNNING"
    /\ wpc' = [wpc EXCEPT ![q] = "finish"]
    /\ UNCHANGED <<worklist, current, stack, wstate, stopping, dying, op, done, before>>
    /\ UNCHANGED workvars

\* finish_wait() and kthread_should_stop().
WorkerFinish(q) ==
    /\ wpc[q] = "finish"
    /\ wstate' = [wstate EXCEPT ![q] = "TASK_RUNNING"]
    /\ wpc' = [wpc EXCEPT ![q] = IF q \in stopping THEN "exited" ELSE "enter"]
    /\ UNCHANGED <<worklist, current, stack, stopping, dying, op, done, before>>
    /\ UNCHANGED workvars

\* What a flush waits for: a queueing of w, or an execution.
Handled(item) == before' = [t \in Tasks |-> before[t] \ {item}]

\* A section of run_workqueue() under the lock: at the beginning, or after the
\* function of the work cur has returned.
TakeNext(q, cur) ==
    IF ListEmpty(worklist[q])
      THEN /\ current' = [current EXCEPT ![q] = cur]
           /\ wpc' = [wpc EXCEPT ![q] = IF stack[q] = <<>> THEN "prepare" ELSE "func"]
           /\ UNCHANGED <<worklist, stack>>
      ELSE LET x == Head(worklist[q])
           IN /\ current' = [current EXCEPT ![q] = x]
              /\ worklist' = [worklist EXCEPT ![q] = Tail(@)]
              /\ stack' = [stack EXCEPT ![q] = <<x>> \o @]
              /\ wpc' = [wpc EXCEPT ![q] = "start"]

RunEnter(q) ==
    /\ wpc[q] = "enter"
    /\ TakeNext(q, current[q])
    /\ UNCHANGED <<wstate, stopping, dying, op, done, before>> /\ UNCHANGED workvars

RunNext(q) ==
    /\ wpc[q] = "next"
    /\ TakeNext(q, NULL)
    /\ UNCHANGED <<wstate, stopping, dying, op, done, before>> /\ UNCHANGED workvars

\* Mutant: the bit is left set while the function runs.
RunStart_KeepsPending(q) ==
    /\ wpc[q] = "start"
    /\ wpc' = [wpc EXCEPT ![q] = "func"]
    /\ UNCHANGED <<worklist, current, stack, wstate, stopping, dying, op, done, before>>
    /\ UNCHANGED workvars

\* work_clear_pending() before the function is called.
RunStart(q) ==
    LET x == Head(stack[q])
    IN /\ wpc[q] = "start"
       /\ pending' = IF x \in Works THEN [pending EXCEPT ![x] = FALSE] ELSE pending
       /\ wpc' = [wpc EXCEPT ![q] = "func"]
       /\ before' = [t \in Tasks |-> IF <<x, "queued", q>> \in before[t]
                       THEN (before[t] \ {<<x, "queued", q>>}) \cup {<<x, "running", q>>}
                       ELSE before[t]]
       /\ UNCHANGED <<data, timer, worklist, current, stack, wstate, stopping, dying, op, done>>

\* The function of a work returns.
FuncReturns(q) ==
    LET x == Head(stack[q])
    IN /\ wpc[q] = "func" /\ op[q] = Idle /\ x \in Works
       /\ stack' = [stack EXCEPT ![q] = Tail(@)]
       /\ wpc' = [wpc EXCEPT ![q] = "next"]
       /\ Handled(<<x, "running", q>>)
       /\ UNCHANGED <<worklist, current, wstate, stopping, dying, op, done>>
       /\ UNCHANGED workvars

\* wq_barrier_func().
BarrierFunc(q) ==
    LET x == Head(stack[q])
    IN /\ wpc[q] = "func" /\ x \in Tasks
       /\ done' = [done EXCEPT ![x] = TRUE]
       /\ stack' = [stack EXCEPT ![q] = Tail(@)]
       /\ wpc' = [wpc EXCEPT ![q] = "next"]
       /\ UNCHANGED <<worklist, current, wstate, stopping, dying, op, before>>
       /\ UNCHANGED workvars

\* A work function flushes its own workqueue: flush_cpu_workqueue() runs the
\* queue by hand.
FuncFlushes(q) ==
    /\ SelfFlush /\ wpc[q] = "func" /\ op[q] = Idle /\ Head(stack[q]) \in Works
    /\ Len(stack[q]) < MaxDepth
    /\ wpc' = [wpc EXCEPT ![q] = "enter"]
    /\ UNCHANGED <<worklist, current, stack, wstate, stopping, dying, op, done, before>>
    /\ UNCHANGED workvars

-----------------------------------------------------------------------------
(* flush_workqueue() and destroy_workqueue().                              *)

Busy(q) == ~ListEmpty(worklist[q]) \/ current[q] # NULL

Unhandled(q) == {<<w, "queued", q>> : w \in Entries(worklist[q]) \cap Works} \cup
                {<<w, "running", q>> : w \in Entries(stack[q]) \cap Works}

\* Mutant: the barrier of a flush goes to the head of the list.
FlushBarrier_AtHead(t, q, where) ==
    /\ InsertWork(q, ListAdd(t, worklist[q]))
    /\ done' = [done EXCEPT ![t] = FALSE]
    /\ before' = [before EXCEPT ![t] = Unhandled(q)]
    /\ Call(t, where, NULL, q)

\* insert_wq_barrier() at the tail, and wait_for_completion().
FlushBarrier(t, q, where) ==
    /\ InsertWork(q, ListAddTail(t, worklist[q]))
    /\ done' = [done EXCEPT ![t] = FALSE]
    /\ before' = [before EXCEPT ![t] = Unhandled(q)]
    /\ Call(t, where, NULL, q)

FlushWorkqueue(t, q) ==
    /\ op[t] = Idle /\ q \notin dying
    /\ Busy(q)
    /\ FlushBarrier(t, q, "flush")
    /\ UNCHANGED <<current, stack, wpc, stopping, dying>> /\ UNCHANGED workvars

FlushReturns(t) ==
    /\ op[t].at = "flush" /\ done[t]
    /\ Return(t)
    /\ UNCHANGED <<stopping, dying, done, before>> /\ UNCHANGED workvars
    /\ UNCHANGED wqvars

\* The caller has stopped everything else that uses the workqueue.
Unused(q) == /\ \A c \in Callers : op[c].cwq # q
             /\ \A w \in Works : data[w] = q => timer[w] = "off"
             /\ \A t \in Tasks : op[t].work # NULL => data[op[t].work] # q

\* Mutant: the thread is stopped without a flush.
DestroyWorkqueue_NoFlush(t, q) ==
    /\ op[t] = Idle /\ q \notin dying /\ q # keventd_wq /\ Unused(q)
    /\ dying' = dying \cup {q}
    /\ Call(t, "stop", NULL, q)
    /\ UNCHANGED <<stopping, done, before>> /\ UNCHANGED workvars /\ UNCHANGED wqvars

DestroyWorkqueue(t, q) ==
    /\ op[t] = Idle /\ q \notin dying /\ q # keventd_wq /\ Unused(q)
    /\ dying' = dying \cup {q}
    /\ IF Busy(q) THEN FlushBarrier(t, q, "destroy")
                  ELSE /\ Call(t, "stop", NULL, q)
                       /\ UNCHANGED <<worklist, wstate, done, before>>
    /\ UNCHANGED <<current, stack, wpc, stopping>> /\ UNCHANGED workvars

DestroyFlushed(t) ==
    /\ op[t].at = "destroy" /\ done[t]
    /\ Goto(t, "stop")
    /\ UNCHANGED <<stopping, dying, done, before>> /\ UNCHANGED workvars
    /\ UNCHANGED wqvars

\* kthread_stop().
DestroyStop(t) ==
    LET q == op[t].cwq
    IN /\ op[t].at = "stop"
       /\ stopping' = stopping \cup {q}
       /\ wstate' = [wstate EXCEPT ![q] = "TASK_RUNNING"]
       /\ Goto(t, "reap")
       /\ UNCHANGED <<worklist, current, stack, wpc, dying, done, before>>
       /\ UNCHANGED workvars

DestroyReturns(t) ==
    /\ op[t].at = "reap" /\ wpc[op[t].cwq] = "exited"
    /\ Return(t)
    /\ UNCHANGED <<stopping, dying, done, before>> /\ UNCHANGED workvars
    /\ UNCHANGED wqvars

-----------------------------------------------------------------------------
(* Cancelling.                                                             *)

\* cancel_delayed_work() whose del_timer_sync() finds the timer pending.
CancelDelayedWork(t, w) ==
    /\ op[t] = Idle
    /\ timer[w] = "armed"
    /\ timer' = [timer EXCEPT ![w] = "off"]
    /\ Call(t, "undelay", w, NULL)
    /\ UNCHANGED <<pending, data, stopping, dying, done, before>> /\ UNCHANGED wqvars

\* cancel_work_sync() or cancel_delayed_work_sync().
CancelWorkSync(t, w, delayed) ==
    /\ op[t] = Idle /\ data[w] \notin dying
    /\ op' = [op EXCEPT ![t] = [at |-> "cancel", work |-> w, cwq |-> NULL,
                                timer |-> delayed, ret |-> 0]]
    /\ UNCHANGED <<stopping, dying, done, before>> /\ UNCHANGED workvars
    /\ UNCHANGED wqvars

Result(t, r) ==
    op' = [op EXCEPT ![t] = [at |-> "wait_on", work |-> op[t].work, cwq |-> NULL,
                             timer |-> op[t].timer, ret |-> r]]

CancelDelTimer(t) ==
    LET w == op[t].work
    IN /\ op[t].at = "cancel"
       /\ IF op[t].timer /\ timer[w] = "armed"
            THEN timer' = [timer EXCEPT ![w] = "off"] /\ Result(t, 1)
            ELSE UNCHANGED timer /\ Goto(t, "grab")
       /\ UNCHANGED <<pending, data, stopping, dying, done, before>> /\ UNCHANGED wqvars

\* try_to_grab_pending() up to the lock.
TryToGrabPending(t) ==
    LET w == op[t].work
    IN /\ op[t].at = "grab"
       /\ pending' = [pending EXCEPT ![w] = TRUE]
       /\ \/ ~pending[w] /\ Result(t, 0)
          \/ pending[w] /\ data[w] = NULL /\ Result(t, -1)
          \/ /\ pending[w] /\ data[w] # NULL
             /\ op' = [op EXCEPT ![t] = [at |-> "steal", work |-> w, cwq |-> data[w],
                                         timer |-> op[t].timer, ret |-> op[t].ret]]
       /\ UNCHANGED <<data, timer, stopping, dying, done, before>> /\ UNCHANGED wqvars

\* Mutant: the work is not unlinked.
StealPending_KeepsLinked(t) ==
    LET w == op[t].work  q == op[t].cwq
    IN /\ op[t].at = "steal"
       /\ IF data[w] = q /\ \E p \in Queues : w \in Entries(worklist[p])
            THEN Result(t, 1) ELSE Result(t, -1)
       /\ UNCHANGED <<stopping, dying, done, before>> /\ UNCHANGED workvars
       /\ UNCHANGED wqvars

\* The section under the lock of the workqueue that was read.
StealPending(t) ==
    LET w == op[t].work  q == op[t].cwq
    IN /\ op[t].at = "steal"
       /\ IF data[w] = q /\ \E p \in Queues : w \in Entries(worklist[p])
            THEN /\ worklist' = [worklist EXCEPT ![q] = ListDel(w, @)]
                 /\ Handled(<<w, "queued", q>>)
                 /\ Result(t, 1)
            ELSE Result(t, -1) /\ UNCHANGED <<worklist, before>>
       /\ UNCHANGED <<current, stack, wpc, wstate, stopping, dying, done>>
       /\ UNCHANGED workvars

AfterWait(t) == IF op[t].ret < 0 THEN "cancel" ELSE "clear"

\* Mutant: a work that was still queued is taken not to be running.
WaitOnWork_NotIfQueued(t) ==
    LET w == op[t].work  q == data[w]
    IN /\ op[t].at = "wait_on"
       /\ IF q # NULL /\ current[q] = w /\ op[t].ret < 1
            THEN /\ InsertWork(q, ListAdd(t, worklist[q]))
                 /\ done' = [done EXCEPT ![t] = FALSE]
                 /\ Goto(t, "waiting")
            ELSE /\ Goto(t, AfterWait(t))
                 /\ UNCHANGED <<worklist, wstate, done>>
       /\ UNCHANGED <<current, stack, wpc, stopping, dying, before>>
       /\ UNCHANGED workvars

\* wait_on_work(): a barrier behind the work if it is running.
WaitOnWork(t) ==
    LET w == op[t].work  q == data[w]
    IN /\ op[t].at = "wait_on"
       /\ IF q # NULL /\ current[q] = w
            THEN /\ InsertWork(q, ListAdd(t, worklist[q]))
                 /\ done' = [done EXCEPT ![t] = FALSE]
                 /\ Goto(t, "waiting")
            ELSE /\ Goto(t, AfterWait(t))
                 /\ UNCHANGED <<worklist, wstate, done>>
       /\ UNCHANGED <<current, stack, wpc, stopping, dying, before>>
       /\ UNCHANGED workvars

WaitOnWorkDone(t) ==
    /\ op[t].at = "waiting" /\ done[t]
    /\ Goto(t, AfterWait(t))
    /\ UNCHANGED <<stopping, dying, done, before>> /\ UNCHANGED workvars
    /\ UNCHANGED wqvars

\* work_clear_pending() at the end of every successful cancellation.
CancelReturns(t) ==
    /\ op[t].at \in {"undelay", "clear"}
    /\ pending' = [pending EXCEPT ![op[t].work] = FALSE]
    /\ Return(t)
    /\ UNCHANGED <<data, timer, stopping, dying, done, before>> /\ UNCHANGED wqvars

-----------------------------------------------------------------------------
WorkerStep(q) ==
    \/ WorkerPrepare(q) \/ WorkerCheck(q) \/ WorkerWakes(q) \/ WorkerFinish(q)
    \/ RunEnter(q) \/ RunNext(q) \/ RunStart(q) \/ BarrierFunc(q)

Continue(c) == QueueInsert(c) \/ QueueStore(c) \/ QueueArm(c)

CancelStep(t) == \/ CancelDelTimer(t) \/ TryToGrabPending(t) \/ StealPending(t)
                 \/ WaitOnWork(t) \/ WaitOnWorkDone(t) \/ CancelReturns(t)

Next ==
    \/ \E c \in Callers, w \in Works, q \in Queues, where \in {"insert", "store"} :
          QueueWork(c, w, q, where)
    \/ \E c \in Callers : Continue(c)
    \/ \E w \in Works : TimerExpires(w) \/ TimerFn(w)
    \/ \E q \in Queues : WorkerStep(q) \/ FuncReturns(q) \/ FuncFlushes(q)
    \/ \E t \in Tasks, q \in Queues : FlushWorkqueue(t, q) \/ DestroyWorkqueue(t, q)
    \/ \E t \in Tasks : \/ FlushReturns(t) \/ DestroyFlushed(t) \/ DestroyStop(t)
                        \/ DestroyReturns(t) \/ CancelStep(t)
    \/ \E t \in Tasks, w \in Works : CancelDelayedWork(t, w)
    \/ \E t \in Tasks, w \in Works, delayed \in BOOLEAN : CancelWorkSync(t, w, delayed)

Spec == Init /\ [][Next]_vars

\* Running threads make progress, timers expire, and work functions return; a
\* function that queues its work again and again returns all the same.
Fairness ==
    /\ \A q \in Queues : WF_vars(WorkerStep(q)) /\ SF_vars(FuncReturns(q))
    /\ \A c \in Callers : WF_vars(Continue(c))
    /\ \A w \in Works : WF_vars(TimerExpires(w) \/ TimerFn(w))
    /\ \A t \in Tasks : WF_vars(FlushReturns(t)) /\ WF_vars(CancelStep(t))

FairSpec == Spec /\ Fairness

-----------------------------------------------------------------------------
(* Properties.                                                             *)

TypeOK ==
    /\ pending \in [Works -> BOOLEAN]
    /\ data \in [Works -> Queues \cup {NULL}]
    /\ timer \in [Works -> {"off", "armed", "running"}]
    /\ \A w \in Works : timer[w] # "off" => data[w] # NULL
    /\ worklist \in [Queues -> Seq(Works \cup Tasks)]
    /\ current \in [Queues -> Works \cup Tasks \cup {NULL}]
    /\ stack \in [Queues -> Seq(Works \cup Tasks)]
    /\ wpc \in [Queues -> {"prepare", "check", "sleep", "finish", "enter", "next",
                          "start", "func", "exited"}]
    /\ \A q \in Queues : wpc[q] \in {"start", "func"} => stack[q] # <<>>
    /\ wstate \in [Queues -> {"TASK_RUNNING", "TASK_INTERRUPTIBLE"}]
    /\ stopping \subseteq dying /\ dying \subseteq Queues
    /\ op \in [Callers -> [at : {"idle", "insert", "store", "arm", "flush", "destroy", "stop", "reap",
                                "undelay", "cancel", "grab", "steal", "wait_on", "waiting",
                                "clear"},
                          work : Works \cup {NULL}, cwq : Queues \cup {NULL},
                          timer : BOOLEAN, ret : {-1, 0, 1}]]
    /\ done \in [Tasks -> BOOLEAN]
    /\ before \in [Tasks -> SUBSET (Works \X {"queued", "running"} \X Queues)]

Claimed(t, w) == /\ op[t].work = w
                 /\ \/ op[t].at \in {"insert", "store", "arm", "undelay", "clear"}
                    \/ op[t].at \in {"wait_on", "waiting"} /\ op[t].ret >= 0

\* Everything that answers for the PENDING bit of w.
PendingOwners(w) ==
    (UNION {{<<q, i>> : i \in {i \in 1..Len(worklist[q]) : worklist[q][i] = w}} : q \in Queues})
    \cup {<<q, "start">> : q \in {q \in Queues : wpc[q] = "start" /\ Head(stack[q]) = w}}
    \cup {<<c, "call">> : c \in {c \in Callers : Claimed(c, w)}}
    \cup {x \in {<<w, "timer">>} : timer[w] # "off"}

\* PENDING has exactly one owner when it is set and none when it is not: a work is
\* never linked twice, and no queueing is forgotten with the bit left set.
PendingExact ==
    \A w \in Works : Cardinality(PendingOwners(w)) = IF pending[w] THEN 1 ELSE 0

\* A linked or starting work points to its workqueue (the BUG_ON() of
\* run_workqueue(), and what try_to_grab_pending() relies on).
DataExact ==
    \A w \in Works, q \in Queues :
        w \in Entries(worklist[q]) \/ (wpc[q] = "start" /\ Head(stack[q]) = w) => data[w] = q

\* When cancel_work_sync() or cancel_delayed_work_sync() is about to return, the
\* work is nowhere queued and not executing on the workqueue it was last queued on.
CancelSyncComplete ==
    \A t \in Tasks : op[t].at = "clear" =>
        LET w == op[t].work
        IN /\ timer[w] = "off"
           /\ \A q \in Queues : w \notin Entries(worklist[q])
           /\ data[w] # NULL => w \notin Entries(stack[data[w]])

\* "We sleep until all works which were queued on entry have been handled."
FlushComplete ==
    \A t \in Tasks : op[t].at \in {"flush", "destroy"} /\ done[t] => before[t] = {}

\* The worker never sleeps on a queue with work, nor through kthread_stop().
NoLostWakeUp ==
    \A q \in Queues : wpc[q] = "sleep" /\ wstate[q] = "TASK_INTERRUPTIBLE" =>
        ListEmpty(worklist[q]) /\ q \notin stopping

\* The PENDING bits, the workqueue pointers and the worker's sleep agree with the lists.
Consistent == TypeOK /\ PendingExact /\ DataExact /\ NoLostWakeUp

\* "All work currently pending will be done first" (destroy_workqueue()).
DestroyComplete ==
    \A q \in Queues : wpc[q] = "exited" => ListEmpty(worklist[q]) /\ stack[q] = <<>>

\* A work is claimed from the moment a cancellation owns PENDING.
Cancelling(w) == \E t \in Tasks : Claimed(t, w) /\ op[t].at \notin {"insert", "store", "arm"}

Status == [w \in Works |-> IF ~pending[w] THEN "idle"
                           ELSE IF Cancelling(w) THEN "claimed" ELSE "pending"]

Running == {p \in Works \X Queues :
              p[1] \in Entries(IF wpc[p[2]] = "start" THEN Tail(stack[p[2]]) ELSE stack[p[2]])}

\* Every execution uses up one queueing, every queueing is executed or cancelled,
\* and a workqueue whose works do not flush it executes one work at a time.
Abstract == INSTANCE WorkItems WITH status <- Status, running <- Running

RefinesWorkItems == Abstract!ISpec

\* flush_workqueue() returns, although works keep queueing themselves: "we are not
\* livelocked by new incoming ones".
FlushTerminates == \A t \in Tasks : op[t].at = "flush" ~> op[t].at # "flush"

\* A queued or delayed work gets its turn or is cancelled.
QueuedRuns == \A w \in Works : pending[w] ~> (\E q \in Queues : w \in Entries(stack[q]))
                                            \/ Cancelling(w)
=============================================================================
