--------------------------- MODULE WorkqueueProofs ---------------------------
(***************************************************************************)
(* Machine-checked proofs about Workqueue, for every set of tasks, works   *)
(* and workqueues. What holds whatever the functions do comes first; what  *)
(* needs that no function flushes its own workqueue follows.               *)
(***************************************************************************)
EXTENDS Workqueue, ListHeadProofs, FiniteSetTheorems, TLAPS

Linked(x, q)   == x \in Entries(worklist[q])
Starting(w, q) == wpc[q] = "start" /\ Head(stack[q]) = w

\* The worker is inside run_workqueue(); it executes something.
Executing   == {"start", "func"}
InRun       == {"enter", "next"} \cup Executing
Queueing    == {"insert", "store", "arm"}
Cancels     == {"cancel", "grab", "steal", "wait_on", "waiting", "clear", "undelay"}
Destroying  == {"destroy", "stop", "reap"}

\* The barrier of t is on the list of q or is being executed.
Posted(t, q) == Linked(t, q) \/ (wpc[q] \in Executing /\ Head(stack[q]) = t)

\* t waits for its barrier.
Waits(t) == op[t].at \in {"flush", "destroy", "waiting"} /\ ~done[t]

-----------------------------------------------------------------------------
(* The parts of the inductive invariant. *)

\* What a call knows. A function that is in a call is executing.
CallInv(c) ==
    /\ op[c].at \in Queueing => op[c].work \in Works /\ op[c].cwq \in Queues
    /\ op[c].at = "arm" => data[op[c].work] = op[c].cwq
    /\ op[c].at \in Cancels => op[c].work \in Works
    /\ op[c].at = "steal" => op[c].cwq \in Queues
    /\ op[c].at \in Destroying \cup {"flush"} => op[c].cwq \in Queues
    /\ c \in Queues => /\ op[c].at \in Queueing \cup {"idle"}
                       /\ op[c].at # "idle" => wpc[c] = "func" /\ Head(stack[c]) \in Works

\* The PENDING bit is set when and only when somebody answers for it, and that is one: the
\* list it is on, the worker that starts it, its timer, or a call.
PendingInv(w) ==
    /\ \A q \in Queues : Linked(w, q) \/ Starting(w, q) =>
          pending[w] /\ data[w] = q /\ timer[w] = "off" /\ \A c \in Callers : ~Claimed(c, w)
    /\ \A p, q \in Queues : ~(Linked(w, p) /\ Starting(w, q))
    /\ timer[w] # "off" => pending[w] /\ \A c \in Callers : ~Claimed(c, w)
    /\ \A c \in Callers : Claimed(c, w) => pending[w] /\ \A d \in Callers : Claimed(d, w) => c = d
    /\ pending[w] => \/ timer[w] # "off"
                     \/ \E q \in Queues : Linked(w, q) \/ Starting(w, q)
                     \/ \E c \in Callers : Claimed(c, w)

\* The worker: outside run_workqueue() it executes nothing, and a barrier does not nest.
WorkerInv(q) ==
    /\ NoDuplicates(worklist[q])
    /\ wpc[q] \notin InRun => stack[q] = <<>>
    /\ wpc[q] \notin InRun \/ (wpc[q] = "enter" /\ stack[q] = <<>>) => current[q] = NULL
    /\ \A i \in 1 .. Len(stack[q]) :
          stack[q][i] \in Works \/ (i = 1 /\ wpc[q] \in Executing)
    /\ wpc[q] = "sleep" /\ wstate[q] = "TASK_INTERRUPTIBLE" =>
          ListEmpty(worklist[q]) /\ q \notin stopping

\* A barrier is in one place, of the workqueue it is for, while its task waits for it.
BarrierInv(t) ==
    /\ \A q \in Queues : Posted(t, q) => Waits(t)
    /\ \A p, q \in Queues : Posted(t, p) /\ Posted(t, q) => p = q
    /\ \A q \in Queues : ~(Linked(t, q) /\ wpc[q] \in Executing /\ Head(stack[q]) = t)
    /\ \A q \in Queues : Posted(t, q) /\ op[t].at # "waiting" => op[t].cwq = q

\* Nobody but the functions of a dying workqueue uses it.
UserInv(c) ==
    /\ op[c].at \in {"store", "arm"} => op[c].cwq \notin dying
    /\ op[c].at = "insert" => op[c].cwq \notin dying \/ c = op[c].cwq
TimerInv(w) == timer[w] # "off" => data[w] \notin dying

\* One task destroys it.
DestroyerInv(t) ==
    /\ op[t].at \in Destroying => op[t].cwq \in dying
    /\ op[t].at \in {"destroy", "stop"} => op[t].cwq \notin stopping
    /\ \A u \in Tasks : op[t].at \in Destroying /\ op[u].at \in Destroying
                        /\ op[t].cwq = op[u].cwq => t = u

\* Outside run_workqueue() a dying workqueue has work only while it is flushed.
DyingInv(q) ==
    /\ q \in dying /\ wpc[q] \notin InRun =>
          \/ ListEmpty(worklist[q])
          \/ \E t \in Tasks : op[t].at = "destroy" /\ op[t].cwq = q /\ ~done[t]
    /\ wpc[q] = "exited" => q \in stopping

IInv == /\ TypeOK
        /\ \A c \in Callers : CallInv(c) /\ UserInv(c)
        /\ \A w \in Works : PendingInv(w) /\ TimerInv(w)
        /\ \A q \in Queues : WorkerInv(q) /\ DyingInv(q)
        /\ \A t \in Tasks : BarrierInv(t) /\ DestroyerInv(t)

-----------------------------------------------------------------------------
(* Without functions that flush their own workqueue. *)

\* The worker executes one thing at a time, and current_work is that.
SerialInv(q) ==
    IF wpc[q] \in Executing THEN stack[q] = <<current[q]>> ELSE stack[q] = <<>>

\* What a flush still waits for is in front of its barrier.
FlushInv(t) ==
    op[t].at \in {"flush", "destroy"} => \A w \in Works, q \in Queues :
        /\ <<w, "queued", q>> \in before[t] =>
              /\ op[t].cwq = q /\ ~done[t]
              /\ Ahead(worklist[q], w, t) \/ (Starting(w, q) /\ Linked(t, q))
        /\ <<w, "running", q>> \in before[t] =>
              /\ op[t].cwq = q /\ ~done[t]
              /\ w \in Entries(stack[q]) /\ Linked(t, q)

\* A work that a cancellation has claimed does not execute, or its barrier is still there.
CancelInv(t) ==
    \/ op[t].at = "clear"
    \/ op[t].at = "waiting" /\ op[t].ret >= 0
    => LET w == op[t].work
       IN data[w] # NULL /\ w \in Entries(stack[data[w]])
            => op[t].at = "waiting" /\ Linked(t, data[w])

SInv == /\ \A q \in Queues : SerialInv(q)
        /\ \A t \in Tasks : FlushInv(t) /\ CancelInv(t)

-----------------------------------------------------------------------------
(* Facts about the constants. *)

\* Callers, works and workqueues are different things.
LEMMA ConstantFacts ==
    /\ \A t \in Tasks : t \in Callers /\ t \notin Works /\ t \notin Queues /\ t # NULL
    /\ \A w \in Works : w \notin Callers /\ w # NULL
    /\ \A q \in Queues : q \in Callers /\ q # NULL
    /\ \A c \in Callers : c \in Tasks \/ c \in Queues
    /\ NULL \notin Callers
  BY ConstantsAssumption DEF Callers

-----------------------------------------------------------------------------
(* What a step does to the calls and to the lists. *)

Places == {"idle", "insert", "store", "arm", "flush", "destroy", "stop", "reap", "undelay",
           "cancel", "grab", "steal", "wait_on", "waiting", "clear"}
OpRec  == [at : Places, work : Works \cup {NULL}, cwq : Queues \cup {NULL},
           timer : BOOLEAN, ret : {-1, 0, 1}]

\* The call of c is now at a, about the work w and the workqueue q.
OpTo(c, a, w, q, r) ==
    /\ op' \in [Callers -> OpRec]
    /\ op'[c].at = a /\ op'[c].work = w /\ op'[c].cwq = q /\ op'[c].ret = r
    /\ \A d \in Callers : d # c => op'[d] = op[d]

\* It owns a PENDING bit there.
Claims(a, r) == \/ a \in {"insert", "store", "arm", "undelay", "clear"}
                \/ a \in {"wait_on", "waiting"} /\ r >= 0

\* The record of a call is replaced.
LEMMA OpFacts ==
    ASSUME TypeOK, NEW c \in Callers, NEW x \in OpRec, op' = [op EXCEPT ![c] = x]
    PROVE  OpTo(c, x.at, x.work, x.cwq, x.ret)
  <1>1. op \in [Callers -> OpRec]
    BY DEF TypeOK, OpRec, Places
  <1>2. op' \in [Callers -> OpRec] /\ op'[c] = x /\ \A d \in Callers : d # c => op'[d] = op[d]
    BY <1>1
  <1> QED
    BY <1>2 DEF OpTo

\* A call begins, ...
LEMMA CallFacts ==
    ASSUME TypeOK, NEW c \in Callers, NEW where \in Places, NEW w \in Works \cup {NULL},
           NEW q \in Queues \cup {NULL}, Call(c, where, w, q)
    PROVE  OpTo(c, where, w, q, 0)
  <1> DEFINE x == [at |-> where, work |-> w, cwq |-> q, timer |-> FALSE, ret |-> 0]
  <1>1. /\ x \in OpRec /\ x.at = where /\ x.work = w /\ x.cwq = q /\ x.ret = 0
        /\ op' = [op EXCEPT ![c] = x]
    BY DEF OpRec, Call
  <1> HIDE DEF x
  <1>2. OpTo(c, x.at, x.work, x.cwq, x.ret)
    BY <1>1, OpFacts
  <1> QED
    BY <1>1, <1>2

\* ... goes on, ...
LEMMA GotoFacts ==
    ASSUME TypeOK, NEW c \in Callers, NEW where \in Places, Goto(c, where)
    PROVE  OpTo(c, where, op[c].work, op[c].cwq, op[c].ret)
  <1> DEFINE x == [op[c] EXCEPT !.at = where]
  <1>1. op[c] \in OpRec /\ op \in [Callers -> OpRec]
    BY DEF TypeOK, OpRec, Places
  <1>2. /\ x \in OpRec /\ x.at = where /\ x.work = op[c].work /\ x.cwq = op[c].cwq
        /\ x.ret = op[c].ret
    BY <1>1 DEF OpRec
  <1>3. op' = [op EXCEPT ![c] = x]
    BY <1>1 DEF Goto
  <1> HIDE DEF x
  <1>4. OpTo(c, x.at, x.work, x.cwq, x.ret)
    BY <1>2, <1>3, OpFacts
  <1> QED
    BY <1>2, <1>4

\* ... and returns.
LEMMA ReturnFacts ==
    ASSUME TypeOK, NEW c \in Callers, Return(c)
    PROVE  OpTo(c, "idle", NULL, NULL, 0)
  <1>1. Idle \in OpRec
    BY DEF OpRec, Idle, Places
  <1>2. OpTo(c, Idle.at, Idle.work, Idle.cwq, Idle.ret)
    BY <1>1, OpFacts DEF Return
  <1> QED
    BY <1>2 DEF Idle

\* A cancellation has its result.
LEMMA ResultFacts ==
    ASSUME TypeOK, NEW t \in Callers, NEW r \in {-1, 0, 1}, Result(t, r)
    PROVE  OpTo(t, "wait_on", op[t].work, NULL, r)
  <1> DEFINE x == [at |-> "wait_on", work |-> op[t].work, cwq |-> NULL,
                   timer |-> op[t].timer, ret |-> r]
  <1>1. op[t] \in OpRec
    BY DEF TypeOK, OpRec, Places
  <1>2. /\ x \in OpRec /\ x.at = "wait_on" /\ x.work = op[t].work /\ x.cwq = NULL /\ x.ret = r
        /\ op' = [op EXCEPT ![t] = x]
    BY <1>1 DEF OpRec, Places, Result
  <1> HIDE DEF x
  <1>3. OpTo(t, x.at, x.work, x.cwq, x.ret)
    BY <1>2, OpFacts
  <1> QED
    BY <1>2, <1>3

\* Only the call that moves takes or gives up a PENDING bit.
LEMMA ClaimFacts ==
    ASSUME NEW c \in Callers, NEW a, NEW w, NEW q, NEW r, OpTo(c, a, w, q, r)
    PROVE  /\ \A v \in Works : Claimed(c, v)' <=> v = w /\ Claims(a, r)
           /\ \A v \in Works, d \in Callers : d # c => (Claimed(d, v)' <=> Claimed(d, v))
  BY DEF OpTo, Claimed, Claims

\* An idle call has no work and no workqueue.
LEMMA IdleFacts ==
    ASSUME NEW c, op[c] = Idle
    PROVE  op[c].at = "idle" /\ op[c].work = NULL /\ op[c].cwq = NULL
  BY DEF Idle

\* x is linked at one end of the list of q, and the worker is woken.
LEMMA InsertFacts ==
    ASSUME TypeOK, NEW q \in Queues, NEW x \in Works \cup Tasks,
           NoDuplicates(worklist[q]), ~Linked(x, q),
           \/ InsertWork(q, ListAddTail(x, worklist[q]))
           \/ InsertWork(q, ListAdd(x, worklist[q]))
    PROVE  /\ worklist' \in [Queues -> Seq(Works \cup Tasks)]
           /\ NoDuplicates(worklist'[q]) /\ worklist'[q] # <<>>
           /\ \A p \in Queues : p # q => worklist'[p] = worklist[p]
           /\ \A p \in Queues : \A y : Linked(y, p)' <=> Linked(y, p) \/ (p = q /\ y = x)
           /\ wstate' \in [Queues -> {"TASK_RUNNING", "TASK_INTERRUPTIBLE"}]
           /\ wstate'[q] = "TASK_RUNNING"
           /\ \A p \in Queues : p # q => wstate'[p] = wstate[p]
  <1>1. /\ worklist \in [Queues -> Seq(Works \cup Tasks)]
        /\ wstate \in [Queues -> {"TASK_RUNNING", "TASK_INTERRUPTIBLE"}]
        /\ worklist[q] \in Seq(Works \cup Tasks) /\ x \notin Entries(worklist[q])
    BY DEF TypeOK, Linked
  <1>2. PICK l : InsertWork(q, l) /\ (l = ListAddTail(x, worklist[q]) \/ l = ListAdd(x, worklist[q]))
    OBVIOUS
  <1>3. /\ l \in Seq(Works \cup Tasks) /\ l # <<>> /\ NoDuplicates(l)
        /\ Entries(l) = Entries(worklist[q]) \cup {x}
    <2> DEFINE S == Works \cup Tasks
    <2>0. worklist[q] \in Seq(S) /\ x \in S /\ x \notin Entries(worklist[q])
      BY <1>1
    <2> HIDE DEF S
    <2>1. CASE l = ListAddTail(x, worklist[q])
      <3>1. l \in Seq(S) /\ l # <<>>
        BY <2>0, <2>1, ListAddTailFacts
      <3>2. Entries(ListAddTail(x, worklist[q])) = Entries(worklist[q]) \cup {x}
        BY <2>0, ListAddTailFacts
      <3>4. Entries(l) = Entries(worklist[q]) \cup {x}
        BY <2>1, <3>2
      <3>3. NoDuplicates(l)
        BY <2>0, <2>1, ListAddTailFacts
      <3> QED
        BY <3>1, <3>3, <3>4 DEF S
    <2>2. CASE l = ListAdd(x, worklist[q])
      <3>1. l \in Seq(S) /\ l # <<>> /\ NoDuplicates(l) /\ Entries(l) = Entries(worklist[q]) \cup {x}
        BY <2>0, <2>2, ListAddFacts
      <3> QED
        BY <3>1 DEF S
    <2> QED
      BY <1>2, <2>1, <2>2
  <1>4. /\ worklist' = [worklist EXCEPT ![q] = l]
        /\ wstate' = [wstate EXCEPT ![q] = "TASK_RUNNING"]
    BY <1>2 DEF InsertWork
  <1>5. worklist'[q] = l /\ \A p \in Queues : p # q => worklist'[p] = worklist[p]
    BY <1>1, <1>4
  <1>6. ASSUME NEW p \in Queues, NEW y PROVE Linked(y, p)' <=> Linked(y, p) \/ (p = q /\ y = x)
    BY <1>3, <1>5 DEF Linked
  <1> QED
    BY <1>1, <1>3, <1>4, <1>5, <1>6

\* What a call that queues, and one that cancels, may rely on.
LEMMA ClaimedFacts ==
    ASSUME IInv, NEW c \in Callers, NEW w \in Works, Claimed(c, w)
    PROVE  /\ pending[w] /\ timer[w] = "off"
           /\ \A d \in Callers : Claimed(d, w) => d = c
           /\ \A q \in Queues : ~Linked(w, q) /\ ~Starting(w, q)
  BY DEF IInv, PendingInv

\* Whoever is idle, flushes or destroys claims nothing.
LEMMA UnclaimedFacts ==
    ASSUME NEW c \in Callers, op[c].at \in {"idle", "flush", "destroy", "stop", "reap", "cancel",
                                          "grab", "steal"}
    PROVE  \A v \in Works : ~Claimed(c, v)
  BY DEF Claimed

\* Barriers stay where they are while their tasks wait.
LEMMA BarrierFrame ==
    ASSUME NEW u \in Tasks, BarrierInv(u), wpc' = wpc, stack' = stack,
           \A p \in Queues : Linked(u, p)' <=> Linked(u, p),
           Waits(u) => op'[u] = op[u] /\ done'[u] = done[u]
    PROVE  BarrierInv(u)'
  <1>1. \A p \in Queues : Posted(u, p)' <=> Posted(u, p)
    BY DEF Posted
  <1>2. \A p \in Queues : Posted(u, p) => Waits(u) /\ Waits(u)'
    BY DEF BarrierInv, Waits
  <1> QED
    BY <1>1, <1>2 DEF BarrierInv

\* A workqueue that is being destroyed stays flushed or in flush.
LEMMA DyingFrame ==
    ASSUME NEW p \in Queues, DyingInv(p), dying' = dying, wpc' = wpc,
           stopping \subseteq stopping',
           ListEmpty(worklist[p]) => ListEmpty(worklist'[p]),
           \A u \in Tasks : Waits(u) => op'[u] = op[u] /\ done'[u] = done[u]
    PROVE  DyingInv(p)'
  BY DEF DyingInv, Waits

\* Nothing happens to the claim on v.
LEMMA PendingFrame ==
    ASSUME NEW v \in Works, PendingInv(v), pending'[v] = pending[v], data'[v] = data[v],
           timer'[v] = timer[v],
           \A d \in Callers : Claimed(d, v)' <=> Claimed(d, v),
           \A p \in Queues : (Linked(v, p)' <=> Linked(v, p)) /\ (Starting(v, p)' <=> Starting(v, p))
    PROVE  PendingInv(v)'
  BY DEF PendingInv

\* A task that does not wait for a barrier goes on to a place where it cancels, or returns, and
\* the lists are left alone.
LEMMA CallMoves ==
    ASSUME IInv, NEW t \in Tasks, NEW a \in {"idle"} \cup Cancels, NEW w \in Works \cup {NULL},
           NEW q \in Queues \cup {NULL}, NEW r \in {-1, 0, 1},
           op[t].at \notin {"destroy", "stop"}, ~Waits(t), OpTo(t, a, w, q, r),
           a \in Cancels => w \in Works, a = "steal" => q \in Queues,
           pending' \in [Works -> BOOLEAN], timer' \in [Works -> {"off", "armed", "running"}],
           \A v \in Works : timer'[v] = timer[v] \/ timer'[v] = "off",
           UNCHANGED <<data, stopping, dying, done, before>>,
           UNCHANGED <<worklist, current, stack, wpc, wstate>>,
           \A v \in Works : PendingInv(v)'
    PROVE  IInv'
  <1> USE ConstantFacts
  <1>0. TypeOK
    BY DEF IInv
  <1>c. \A p \in Queues : \A x : Linked(x, p)' <=> Linked(x, p)
    BY DEF Linked
  <1>w. \A u \in Tasks : Waits(u) => op'[u] = op[u] /\ done'[u] = done[u]
    BY DEF OpTo, Waits
  <1>1. TypeOK'
    BY <1>0 DEF TypeOK, OpTo, OpRec, Places
  <1>2. ASSUME NEW d \in Callers PROVE CallInv(d)' /\ UserInv(d)'
    <2>1. CASE d = t
      BY <2>1 DEF OpTo, CallInv, UserInv, Queueing, Cancels, Destroying
    <2>2. CASE d # t
      BY <2>2 DEF IInv, OpTo, CallInv, UserInv
    <2> QED
      BY <2>1, <2>2
  <1>3. ASSUME NEW v \in Works PROVE TimerInv(v)'
    BY DEF IInv, TimerInv
  <1>4. ASSUME NEW p \in Queues PROVE WorkerInv(p)'
    BY DEF IInv, WorkerInv
  <1>5. ASSUME NEW p \in Queues PROVE DyingInv(p)'
    BY <1>w, DyingFrame DEF IInv
  <1>6. ASSUME NEW u \in Tasks PROVE BarrierInv(u)'
    BY <1>c, <1>w, BarrierFrame DEF IInv
  <1>7. ASSUME NEW u \in Tasks PROVE DestroyerInv(u)'
    BY DEF IInv, DestroyerInv, Destroying, Cancels, OpTo
  <1> QED
    BY <1>1, <1>2, <1>3, <1>4, <1>5, <1>6, <1>7 DEF IInv

\* A task that does not wait puts its barrier on the list of q and waits.
LEMMA BarrierPosts ==
    ASSUME IInv, NEW t \in Tasks, NEW q \in Queues, NEW a \in {"flush", "destroy", "waiting"},
           NEW w \in Works \cup {NULL}, NEW k \in Queues \cup {NULL}, NEW r \in {-1, 0, 1},
           op[t].at \in {"idle", "wait_on"}, OpTo(t, a, w, k, r),
           a = "waiting" => w \in Works, a # "waiting" => k = q,
           \/ InsertWork(q, ListAddTail(t, worklist[q]))
           \/ InsertWork(q, ListAdd(t, worklist[q])),
           done' = [done EXCEPT ![t] = FALSE],
           before' \in [Tasks -> SUBSET (Works \X {"queued", "running"} \X Queues)],
           UNCHANGED <<pending, data, timer, current, stack, wpc, stopping>>,
           \A v \in Works : Claimed(t, v)' <=> Claimed(t, v),
           a # "destroy" => dying' = dying,
           a = "destroy" => dying' = dying \cup {q} /\ Unused(q) /\ q \notin dying,
           q \notin dying' \/ a = "destroy" \/ wpc[q] \in InRun
    PROVE  IInv'
  <1> USE ConstantFacts
  <1>0. TypeOK
    BY DEF IInv
  <1>a. /\ op' \in [Callers -> OpRec]
        /\ op'[t].at = a /\ op'[t].work = w /\ op'[t].cwq = k /\ op'[t].ret = r
        /\ \A d \in Callers : d # t => op'[d] = op[d]
    BY DEF OpTo
  <1>b. ~Waits(t) /\ \A p \in Queues : ~Posted(t, p) /\ ~Linked(t, p)
    BY DEF IInv, BarrierInv, Posted, Waits
  <1>c. /\ worklist' \in [Queues -> Seq(Works \cup Tasks)]
        /\ NoDuplicates(worklist'[q]) /\ worklist'[q] # <<>>
        /\ \A p \in Queues : p # q => worklist'[p] = worklist[p]
        /\ \A p \in Queues : \A y : Linked(y, p)' <=> Linked(y, p) \/ (p = q /\ y = t)
        /\ wstate' \in [Queues -> {"TASK_RUNNING", "TASK_INTERRUPTIBLE"}]
        /\ wstate'[q] = "TASK_RUNNING" /\ \A p \in Queues : p # q => wstate'[p] = wstate[p]
    <2>1. NoDuplicates(worklist[q])
      BY DEF IInv, WorkerInv
    <2> QED
      BY <1>0, <1>b, <2>1, InsertFacts
  <1>d. /\ done' \in [Tasks -> BOOLEAN] /\ ~done'[t]
        /\ \A u \in Tasks : u # t => done'[u] = done[u]
    BY <1>0 DEF TypeOK
  <1>e. dying \subseteq dying' /\ dying' \subseteq Queues
        /\ \A p \in dying' : p \in dying \/ (p = q /\ a = "destroy" /\ Unused(q) /\ q \notin dying)
    BY <1>0 DEF TypeOK
  <1>1. TypeOK'
    BY <1>0, <1>a, <1>c DEF TypeOK, OpRec, Places
  <1>2. ASSUME NEW d \in Callers PROVE CallInv(d)'
    <2>1. CASE d = t
      BY <2>1, <1>a DEF CallInv, Queueing, Cancels, Destroying
    <2>2. CASE d # t
      BY <2>2, <1>a DEF IInv, CallInv
    <2> QED
      BY <2>1, <2>2
  <1>3. ASSUME NEW d \in Callers PROVE UserInv(d)'
    <2>1. CASE d = t
      BY <2>1, <1>a DEF UserInv
    <2>2. CASE d # t
      <3>1. Unused(q) => op[d].cwq # q
        BY DEF Unused
      <3> QED
        BY <2>2, <3>1, <1>a, <1>e DEF IInv, UserInv
    <2> QED
      BY <2>1, <2>2
  <1>4. ASSUME NEW v \in Works PROVE PendingInv(v)'
    <2>1. \A d \in Callers : Claimed(d, v)' <=> Claimed(d, v)
      <3>1. ASSUME NEW d \in Callers, d # t PROVE Claimed(d, v)' <=> Claimed(d, v)
        BY <3>1, <1>a DEF Claimed
      <3> QED
        BY <3>1
    <2>2. \A p \in Queues : (Linked(v, p)' <=> Linked(v, p)) /\ (Starting(v, p)' <=> Starting(v, p))
      BY <1>c DEF Starting
    <2>3. PendingInv(v)
      BY DEF IInv
    <2> QED
      BY <2>1, <2>2, <2>3, PendingFrame
  <1>5. ASSUME NEW v \in Works PROVE TimerInv(v)'
    <2>1. Unused(q) /\ data[v] = q => timer[v] = "off"
      BY DEF Unused
    <2> QED
      BY <2>1, <1>e DEF IInv, TimerInv
  <1>6. ASSUME NEW p \in Queues PROVE WorkerInv(p)'
    BY <1>c DEF IInv, WorkerInv
  <1>7. ASSUME NEW p \in Queues PROVE DyingInv(p)'
    <2>1. CASE p = q
      <3>1. a = "destroy" => op'[t].at = "destroy" /\ op'[t].cwq = q /\ ~done'[t]
        BY <1>a, <1>d
      <3> QED
        BY <2>1, <3>1 DEF IInv, DyingInv
    <2>2. CASE p # q
      <3>1. \A u \in Tasks : Waits(u) => op'[u] = op[u] /\ done'[u] = done[u]
        BY <1>a, <1>b, <1>d
      <3>2. p \in dying' <=> p \in dying
        BY <2>2, <1>e
      <3>3. worklist'[p] = worklist[p] /\ DyingInv(p)
        BY <2>2, <1>c DEF IInv
      <3>4. ASSUME p \in dying, wpc[p] \notin InRun, ~ListEmpty(worklist[p])
            PROVE  \E u \in Tasks : op'[u].at = "destroy" /\ op'[u].cwq = p /\ ~done'[u]
        <4>1. PICK u \in Tasks : op[u].at = "destroy" /\ op[u].cwq = p /\ ~done[u]
          BY <3>3, <3>4 DEF DyingInv
        <4>2. op'[u] = op[u] /\ done'[u] = done[u]
          BY <3>1, <4>1 DEF Waits
        <4> QED
          BY <4>1, <4>2
      <3> QED
        BY <3>2, <3>3, <3>4 DEF DyingInv
    <2> QED
      BY <2>1, <2>2
  <1>8. ASSUME NEW u \in Tasks PROVE BarrierInv(u)'
    <2>1. CASE u = t
      <3>1. \A p \in Queues : Linked(t, p)' <=> p = q
        BY <1>b, <1>c
      <3>2. \A p \in Queues : ~(wpc'[p] \in Executing /\ Head(stack'[p]) = t)
        BY <1>b DEF Posted
      <3>3. Waits(t)'
        BY <1>a, <1>d DEF Waits
      <3> QED
        BY <2>1, <3>1, <3>2, <3>3, <1>a DEF BarrierInv, Posted
    <2>2. CASE u # t
      <3>1. \A p \in Queues : Linked(u, p)' <=> Linked(u, p)
        BY <2>2, <1>c
      <3> QED
        BY <2>2, <3>1, <1>a, <1>d, BarrierFrame DEF IInv
    <2> QED
      BY <2>1, <2>2
  <1>9. ASSUME NEW u \in Tasks PROVE DestroyerInv(u)'
    <2>1. \A s \in Tasks : op[s].at \in Destroying => op[s].cwq \in dying
      BY DEF IInv, DestroyerInv
    <2>2. q \notin dying => q \notin stopping
      BY <1>0 DEF TypeOK
    <2>3. \A s \in Tasks : op'[s].at \in Destroying =>
             \/ s # t /\ op[s].at \in Destroying /\ op'[s] = op[s]
             \/ s = t /\ a = "destroy" /\ op'[s].cwq = q /\ q \notin dying
      BY <1>a DEF Destroying
    <2>4. op'[u].at \in Destroying => op'[u].cwq \in dying'
      BY <2>1, <2>3, <1>e
    <2>5. op'[u].at \in {"destroy", "stop"} => op'[u].cwq \notin stopping
      BY <2>2, <2>3 DEF IInv, DestroyerInv, Destroying
    <2>6. ASSUME NEW s \in Tasks, op'[u].at \in Destroying, op'[s].at \in Destroying,
                 op'[u].cwq = op'[s].cwq
          PROVE  u = s
      <3>1. CASE u = t \/ s = t
        BY <3>1, <2>1, <2>3, <2>6
      <3>2. CASE u # t /\ s # t
        BY <3>2, <2>3, <2>6 DEF IInv, DestroyerInv
      <3> QED
        BY <3>1, <3>2
    <2> QED
      BY <2>4, <2>5, <2>6 DEF DestroyerInv
  <1> QED
    BY <1>1, <1>2, <1>3, <1>4, <1>5, <1>6, <1>7, <1>8, <1>9 DEF IInv

\* A section of run_workqueue(): the worker leaves an empty list, ...
LEMMA TakeNothing ==
    ASSUME IInv, NEW q \in Queues, NEW cur \in Works \cup Tasks \cup {NULL},
           wpc[q] \in {"enter", "next"}, stack[q] = <<>> => cur = NULL,
           ListEmpty(worklist[q]), TakeNext(q, cur),
           UNCHANGED <<wstate, stopping, dying, op, done, before>>, UNCHANGED workvars
    PROVE  IInv'
  <1> USE ConstantFacts
  <1>0. TypeOK
    BY DEF IInv
  <1>g. /\ current' = [current EXCEPT ![q] = cur] /\ UNCHANGED <<worklist, stack>>
        /\ wpc' = [wpc EXCEPT ![q] = IF stack[q] = <<>> THEN "prepare" ELSE "func"]
        /\ UNCHANGED <<pending, data, timer, wstate, stopping, dying, op, done, before>>
    BY DEF TakeNext, workvars
  <1>h. /\ current' \in [Queues -> Works \cup Tasks \cup {NULL}] /\ current'[q] = cur
        /\ \A p \in Queues : p # q => current'[p] = current[p] /\ wpc'[p] = wpc[p]
        /\ wpc' \in [Queues -> {"prepare", "check", "sleep", "finish", "enter", "next",
                                "start", "func", "exited"}]
        /\ stack[q] = <<>> => wpc'[q] = "prepare"
        /\ stack[q] # <<>> => wpc'[q] = "func"
    BY <1>0, <1>g DEF TypeOK
  <1>k. /\ stack[q] \in Seq(Works \cup Tasks) /\ \A i \in 1 .. Len(stack[q]) : stack[q][i] \in Works
        /\ stack[q] # <<>> => Head(stack[q]) \in Works
    <2>1. stack[q] \in Seq(Works \cup Tasks)
      BY <1>0 DEF TypeOK
    <2>2. \A i \in 1 .. Len(stack[q]) : stack[q][i] \in Works
      BY DEF IInv, WorkerInv, Executing
    <2>3. stack[q] # <<>> => 1 \in 1 .. Len(stack[q]) /\ Head(stack[q]) = stack[q][1]
      BY <2>1
    <2> QED
      BY <2>1, <2>2, <2>3
  <1>c. \A p \in Queues : \A x : (Linked(x, p)' <=> Linked(x, p)) /\ (Starting(x, p)' <=> Starting(x, p))
    BY <1>g, <1>h DEF Linked, Starting
  <1>i. op[q].at = "idle"
    BY DEF IInv, CallInv
  <1>1. TypeOK'
    BY <1>0, <1>g, <1>h DEF TypeOK
  <1>2. ASSUME NEW d \in Callers PROVE CallInv(d)' /\ UserInv(d)'
    BY <1>g, <1>h, <1>i DEF IInv, CallInv, UserInv
  <1>3. ASSUME NEW v \in Works PROVE PendingInv(v)' /\ TimerInv(v)'
    <2>1. \A d \in Callers : Claimed(d, v)' <=> Claimed(d, v)
      BY <1>g DEF Claimed
    <2>2. PendingInv(v) /\ TimerInv(v)
      BY DEF IInv
    <2>3. PendingInv(v)'
      BY <2>1, <2>2, <1>c, <1>g, PendingFrame
    <2> QED
      BY <2>2, <2>3, <1>g DEF TimerInv
  <1>4. ASSUME NEW p \in Queues PROVE WorkerInv(p)'
    <2>1. CASE p = q
      <3>1. NoDuplicates(worklist'[q])
        BY <1>g DEF IInv, WorkerInv
      <3>2. wpc'[q] \notin InRun => stack'[q] = <<>> /\ current'[q] = NULL
        BY <1>g, <1>h DEF InRun, Executing
      <3>3. wpc'[q] # "enter" /\ wpc'[q] # "sleep"
        BY <1>h
      <3> QED
        BY <2>1, <3>1, <3>2, <3>3, <1>g, <1>k DEF WorkerInv
    <2>2. CASE p # q
      BY <2>2, <1>g, <1>h DEF IInv, WorkerInv
    <2> QED
      BY <2>1, <2>2
  <1>5. ASSUME NEW p \in Queues PROVE DyingInv(p)'
    <2>1. CASE p = q
      BY <2>1, <1>g, <1>h DEF DyingInv
    <2>2. CASE p # q
      BY <2>2, <1>g, <1>h DEF IInv, DyingInv
    <2> QED
      BY <2>1, <2>2
  <1>6. ASSUME NEW u \in Tasks PROVE BarrierInv(u)'
    <2>1. \A p \in Queues : wpc'[p] \in Executing /\ Head(stack'[p]) = u <=>
                            wpc[p] \in Executing /\ Head(stack[p]) = u
      <3>1. wpc[q] \notin Executing /\ ~(wpc'[q] \in Executing /\ Head(stack'[q]) = u)
        BY <1>g, <1>h, <1>k DEF Executing
      <3> QED
        BY <3>1, <1>g, <1>h
    <2>2. \A p \in Queues : (Posted(u, p)' <=> Posted(u, p)) /\ (Linked(u, p)' <=> Linked(u, p))
      BY <2>1, <1>c DEF Posted
    <2> QED
      BY <2>1, <2>2, <1>g DEF IInv, BarrierInv, Waits
  <1>7. ASSUME NEW u \in Tasks PROVE DestroyerInv(u)'
    BY <1>g DEF IInv, DestroyerInv
  <1> QED
    BY <1>1, <1>2, <1>3, <1>4, <1>5, <1>6, <1>7 DEF IInv

\* ... or takes the first entry.
LEMMA TakeFacts ==
    ASSUME IInv, NEW q \in Queues, NEW cur, ~ListEmpty(worklist[q]), TakeNext(q, cur)
    PROVE  /\ Head(worklist[q]) \in Works \cup Tasks /\ Linked(Head(worklist[q]), q)
           /\ current' = [current EXCEPT ![q] = Head(worklist[q])]
           /\ worklist' \in [Queues -> Seq(Works \cup Tasks)] /\ NoDuplicates(worklist'[q])
           /\ worklist'[q] = Tail(worklist[q])
           /\ \A p \in Queues : \A y :
                 Linked(y, p)' <=> Linked(y, p) /\ ~(p = q /\ y = Head(worklist[q]))
           /\ stack' \in [Queues -> Seq(Works \cup Tasks)] /\ stack'[q] # <<>>
           /\ Head(stack'[q]) = Head(worklist[q]) /\ Tail(stack'[q]) = stack[q]
           /\ wpc' = [wpc EXCEPT ![q] = "start"]
           /\ \A p \in Queues : p # q => worklist'[p] = worklist[p] /\ stack'[p] = stack[p]
  <1> DEFINE S == Works \cup Tasks
             l == worklist[q]
             x == Head(l)
             m == Tail(l)
             k == stack[q]
             n == <<x>> \o k
  <1>1. /\ worklist \in [Queues -> Seq(S)] /\ l \in Seq(S) /\ NoDuplicates(l) /\ l # <<>>
        /\ stack \in [Queues -> Seq(S)] /\ k \in Seq(S)
    BY DEF IInv, TypeOK, WorkerInv, ListEmpty
  <1>2. /\ current' = [current EXCEPT ![q] = x] /\ wpc' = [wpc EXCEPT ![q] = "start"]
        /\ worklist' = [worklist EXCEPT ![q] = m] /\ stack' = [stack EXCEPT ![q] = n]
    BY DEF TakeNext
  <1> HIDE DEF S, l, k
  <1>3. x \in S /\ x \in Entries(l) /\ m \in Seq(S) /\ Entries(m) = Entries(l) \ {x} /\ NoDuplicates(m)
    BY <1>1, TailFacts
  <1>4. n \in Seq(S) /\ n # <<>> /\ Head(n) = x /\ Tail(n) = k
    <2> HIDE DEF x
    <2> QED
      BY <1>1, <1>3, ListAddFacts DEF ListAdd
  <1> HIDE DEF x, m, n
  <1>5. /\ worklist' \in [Queues -> Seq(S)] /\ worklist'[q] = m
        /\ stack' \in [Queues -> Seq(S)] /\ stack'[q] = n
        /\ \A p \in Queues : p # q => worklist'[p] = worklist[p] /\ stack'[p] = stack[p]
    BY <1>1, <1>2, <1>3, <1>4
  <1>6. ASSUME NEW p \in Queues, NEW y PROVE Linked(y, p)' <=> Linked(y, p) /\ ~(p = q /\ y = x)
    BY <1>3, <1>5 DEF Linked, l
  <1>7. Linked(x, q)
    BY <1>3 DEF Linked, l
  <1> QED
    BY <1>2, <1>3, <1>4, <1>5, <1>6, <1>7 DEF S, x, l, m, k

\* The rest of the state follows the entry from the list to the worker.
LEMMA TakeOne ==
    ASSUME IInv, NEW q \in Queues, NEW cur, wpc[q] \in {"enter", "next"},
           ~ListEmpty(worklist[q]), TakeNext(q, cur),
           UNCHANGED <<wstate, stopping, dying, op, done, before>>, UNCHANGED workvars
    PROVE  IInv'
  <1> USE ConstantFacts
  <1>0. TypeOK
    BY DEF IInv
  <1> DEFINE x == Head(worklist[q])
  <1>f. /\ x \in Works \cup Tasks /\ Linked(x, q)
        /\ current' = [current EXCEPT ![q] = x]
        /\ worklist' \in [Queues -> Seq(Works \cup Tasks)] /\ NoDuplicates(worklist'[q])
        /\ \A p \in Queues : \A y : Linked(y, p)' <=> Linked(y, p) /\ ~(p = q /\ y = x)
        /\ stack' \in [Queues -> Seq(Works \cup Tasks)] /\ stack'[q] # <<>>
        /\ Head(stack'[q]) = x /\ Tail(stack'[q]) = stack[q]
        /\ wpc' = [wpc EXCEPT ![q] = "start"]
        /\ \A p \in Queues : p # q => worklist'[p] = worklist[p] /\ stack'[p] = stack[p]
    BY TakeFacts
  <1> HIDE DEF x
  <1>g. UNCHANGED <<pending, data, timer, wstate, stopping, dying, op, done, before>>
    BY DEF workvars
  <1>h. /\ current' \in [Queues -> Works \cup Tasks \cup {NULL}] /\ wpc'[q] = "start"
        /\ \A p \in Queues : p # q => current'[p] = current[p] /\ wpc'[p] = wpc[p]
        /\ wpc' \in [Queues -> {"prepare", "check", "sleep", "finish", "enter", "next",
                                "start", "func", "exited"}]
    BY <1>0, <1>f DEF TypeOK
  <1>k. ASSUME NEW p \in Queues, p # q
        PROVE  /\ worklist'[p] = worklist[p] /\ stack'[p] = stack[p]
               /\ current'[p] = current[p] /\ wpc'[p] = wpc[p]
    BY <1>f, <1>h, <1>k
  <1>s. \A p \in Queues : \A y : Starting(y, p)' <=> IF p = q THEN y = x ELSE Starting(y, p)
    BY <1>f, <1>h DEF Starting
  <1>n. \A y : ~Starting(y, q)
    BY DEF Starting
  <1>i. op[q].at = "idle"
    BY DEF IInv, CallInv
  <1>1. TypeOK'
    BY <1>0, <1>f, <1>g, <1>h DEF TypeOK
  <1>2. ASSUME NEW d \in Callers PROVE CallInv(d)' /\ UserInv(d)'
    <2>1. d \in Queues /\ op[d].at # "idle" => wpc'[d] = wpc[d] /\ stack'[d] = stack[d]
      BY <1>i, <1>k
    <2> QED
      BY <2>1, <1>g DEF IInv, CallInv, UserInv
  <1>3. ASSUME NEW v \in Works PROVE PendingInv(v)' /\ TimerInv(v)'
    <2>1. \A d \in Callers : Claimed(d, v)' <=> Claimed(d, v)
      BY <1>g DEF Claimed
    <2>2. PendingInv(v) /\ TimerInv(v)
      BY DEF IInv
    <2>3. CASE v # x
      <3>1. \A p \in Queues : (Linked(v, p)' <=> Linked(v, p)) /\ (Starting(v, p)' <=> Starting(v, p))
        BY <2>3, <1>f, <1>n, <1>s
      <3> QED
        BY <2>1, <2>2, <3>1, <1>g, PendingFrame DEF TimerInv
    <2>4. CASE v = x
      <3>1. /\ pending[v] /\ data[v] = q /\ timer[v] = "off" /\ \A d \in Callers : ~Claimed(d, v)
            /\ \A p \in Queues : (Linked(v, p) => p = q) /\ ~Starting(v, p)
        BY <2>2, <2>4, <1>f DEF PendingInv
      <3>2. \A p \in Queues : ~Linked(v, p)' /\ (Starting(v, p)' <=> p = q)
        BY <2>4, <3>1, <1>f, <1>s
      <3>3. PendingInv(v)'
        BY <2>1, <3>1, <3>2, <1>g DEF PendingInv
      <3> QED
        BY <2>2, <3>3, <1>g DEF TimerInv
    <2> QED
      BY <2>3, <2>4
  <1>4. ASSUME NEW p \in Queues PROVE WorkerInv(p)'
    <2>1. CASE p = q
      <3>1. ASSUME NEW i \in 1 .. Len(stack'[q]) PROVE stack'[q][i] \in Works \/ i = 1
        <4> DEFINE n == stack'[q]
                   k == stack[q]
        <4>1. /\ n \in Seq(Works \cup Tasks) /\ n # <<>> /\ Tail(n) = k
              /\ \A j \in 1 .. Len(k) : k[j] \in Works
          BY <1>f DEF IInv, WorkerInv, Executing
        <4> HIDE DEF n, k
        <4>2. i # 1 /\ i \in 1 .. Len(n) => i - 1 \in 1 .. Len(k) /\ n[i] = k[i - 1]
          BY <4>1
        <4> QED
          BY <4>1, <4>2, <3>1 DEF n
      <3> QED
        BY <2>1, <3>1, <1>f, <1>h DEF WorkerInv, InRun, Executing
    <2>2. CASE p # q
      BY <2>2, <1>g, <1>k DEF IInv, WorkerInv
    <2> QED
      BY <2>1, <2>2
  <1>5. ASSUME NEW p \in Queues PROVE DyingInv(p)'
    <2>1. CASE p = q
      BY <2>1, <1>g, <1>h DEF DyingInv, InRun, Executing
    <2>2. CASE p # q
      BY <2>2, <1>g, <1>k DEF IInv, DyingInv
    <2> QED
      BY <2>1, <2>2
  <1>6. ASSUME NEW u \in Tasks PROVE BarrierInv(u)'
    <2>1. ASSUME NEW p \in Queues
          PROVE  wpc'[p] \in Executing /\ Head(stack'[p]) = u <=>
                 IF p = q THEN u = x ELSE wpc[p] \in Executing /\ Head(stack[p]) = u
      BY <1>f, <1>h DEF Executing
    <2>2. wpc[q] \notin Executing
      BY DEF Executing
    <2>3. ASSUME NEW p \in Queues PROVE Posted(u, p)' <=> Posted(u, p)
      BY <2>1, <2>2, <1>f DEF Posted
    <2>4. Waits(u)' <=> Waits(u)
      BY <1>g DEF Waits
    <2>5. ASSUME NEW p \in Queues
          PROVE  ~(Linked(u, p)' /\ wpc'[p] \in Executing /\ Head(stack'[p]) = u)
      BY <2>1, <1>f DEF IInv, BarrierInv
    <2> QED
      BY <2>3, <2>4, <2>5, <1>g DEF IInv, BarrierInv
  <1>7. ASSUME NEW u \in Tasks PROVE DestroyerInv(u)'
    BY <1>g DEF IInv, DestroyerInv
  <1> QED
    BY <1>1, <1>2, <1>3, <1>4, <1>5, <1>6, <1>7 DEF IInv

-----------------------------------------------------------------------------
(* Queueing and the timer. *)

\* A call claims the PENDING bit, which nobody had.
LEMMA QueueWorkKeeps ==
    ASSUME IInv, NEW c \in Callers, NEW w \in Works, NEW q \in Queues,
           NEW where \in {"insert", "store"}, QueueWork(c, w, q, where)
    PROVE  IInv'
  <1> USE ConstantFacts DEF QueueWork, MayCall, MayUse, wqvars
  <1>0. /\ TypeOK
        /\ pending \in [Works -> BOOLEAN] /\ data \in [Works -> Queues \cup {NULL}]
        /\ timer \in [Works -> {"off", "armed", "running"}]
    BY DEF IInv, TypeOK
  <1>a. OpTo(c, where, w, q, 0) /\ op[c].at = "idle" /\ op[c].cwq = NULL
    <2>1. op[c].at = "idle" /\ op[c].work = NULL /\ op[c].cwq = NULL
      BY IdleFacts
    <2>2. where \in Places
      BY DEF Places
    <2> QED
      BY <1>0, <2>1, <2>2, CallFacts
  <1>b. /\ \A v \in Works : Claimed(c, v)' <=> v = w
        /\ \A v \in Works, d \in Callers : d # c => (Claimed(d, v)' <=> Claimed(d, v))
    BY <1>a, ClaimFacts DEF Claims
  <1>c. \A p \in Queues : \A x : (Linked(x, p)' <=> Linked(x, p)) /\ (Starting(x, p)' <=> Starting(x, p))
    BY DEF Linked, Starting
  <1>d. \A v \in Works : ~Claimed(c, v)
    BY <1>a, UnclaimedFacts
  <1>w. \A u \in Tasks : Waits(u) => op'[u] = op[u] /\ done'[u] = done[u]
    BY <1>0, <1>a DEF OpTo, Waits
  <1>1. TypeOK'
    BY <1>0, <1>a DEF TypeOK, OpTo, OpRec, Places
  <1>2. ASSUME NEW d \in Callers PROVE CallInv(d)'
    BY <1>a DEF IInv, CallInv, OpTo, Queueing
  <1>3. ASSUME NEW d \in Callers PROVE UserInv(d)'
    BY <1>a DEF IInv, UserInv, OpTo
  <1>4. ASSUME NEW v \in Works PROVE PendingInv(v)'
    <2>1. CASE v = w
      <3>1. \A d \in Callers : ~Claimed(d, w)
        BY DEF IInv, PendingInv
      <3>2. \A p \in Queues : ~Linked(w, p) /\ ~Starting(w, p)
        BY DEF IInv, PendingInv
      <3>3. timer'[w] = "off" /\ pending'[w]
        BY <1>0 DEF IInv, PendingInv
      <3> QED
        BY <2>1, <3>1, <3>2, <3>3, <1>b, <1>c DEF PendingInv
    <2>2. CASE v # w
      BY <1>0, <1>b, <1>c, <1>d DEF IInv, PendingInv
    <2> QED
      BY <2>1, <2>2
  <1>5. ASSUME NEW v \in Works PROVE TimerInv(v)'
    BY DEF IInv, TimerInv
  <1>6. ASSUME NEW p \in Queues PROVE WorkerInv(p)'
    BY DEF IInv, WorkerInv
  <1>7. ASSUME NEW p \in Queues PROVE DyingInv(p)'
    BY <1>0, <1>c, <1>w, DyingFrame DEF IInv, ListEmpty
  <1>8. ASSUME NEW u \in Tasks PROVE BarrierInv(u)'
    BY <1>0, <1>c, <1>w, BarrierFrame DEF IInv
  <1>9. ASSUME NEW u \in Tasks PROVE DestroyerInv(u)'
    BY <1>a DEF IInv, DestroyerInv, Destroying, OpTo
  <1> QED
    BY <1>1, <1>2, <1>3, <1>4, <1>5, <1>6, <1>7, <1>8, <1>9 DEF IInv

\* The claim passes from the call to the list.
LEMMA QueueInsertKeeps ==
    ASSUME IInv, NEW c \in Callers, QueueInsert(c)
    PROVE  IInv'
  <1> USE ConstantFacts DEF QueueInsert
  <1>0. /\ TypeOK
        /\ pending \in [Works -> BOOLEAN] /\ data \in [Works -> Queues \cup {NULL}]
        /\ timer \in [Works -> {"off", "armed", "running"}]
    BY DEF IInv, TypeOK
  <1> DEFINE w == op[c].work
             q == op[c].cwq
  <1>d. /\ w \in Works /\ q \in Queues /\ op[c].at = "insert" /\ Claimed(c, w)
    BY DEF IInv, CallInv, Queueing, Cancels, Claimed
  <1>e. /\ pending[w] /\ timer[w] = "off" /\ \A d \in Callers : Claimed(d, w) => d = c
        /\ \A p \in Queues : ~Linked(w, p) /\ ~Starting(w, p)
    BY <1>d, ClaimedFacts
  <1>o. \A v \in Works : Claimed(c, v) => v = w
    BY DEF Claimed
  <1>a. OpTo(c, "idle", NULL, NULL, 0)
    BY <1>0, ReturnFacts
  <1>b. /\ \A v \in Works : Claimed(c, v)' <=> FALSE
        /\ \A v \in Works, d \in Callers : d # c => (Claimed(d, v)' <=> Claimed(d, v))
    BY <1>a, ClaimFacts DEF Claims
  <1>c. /\ worklist' \in [Queues -> Seq(Works \cup Tasks)]
        /\ NoDuplicates(worklist'[q]) /\ worklist'[q] # <<>>
        /\ \A p \in Queues : p # q => worklist'[p] = worklist[p]
        /\ \A p \in Queues : \A y : Linked(y, p)' <=> Linked(y, p) \/ (p = q /\ y = w)
        /\ wstate' \in [Queues -> {"TASK_RUNNING", "TASK_INTERRUPTIBLE"}]
        /\ wstate'[q] = "TASK_RUNNING" /\ \A p \in Queues : p # q => wstate'[p] = wstate[p]
    <2>1. NoDuplicates(worklist[q])
      BY <1>d DEF IInv, WorkerInv
    <2> QED
      BY <1>0, <1>d, <1>e, <2>1, InsertFacts
  <1>f. \A p \in Queues : \A x : Starting(x, p)' <=> Starting(x, p)
    BY DEF Starting
  <1>g. /\ data' = [data EXCEPT ![w] = q]
        /\ UNCHANGED <<pending, timer, current, stack, wpc, stopping, dying, done, before>>
    OBVIOUS
  <1>w. \A u \in Tasks : Waits(u) => op'[u] = op[u] /\ done'[u] = done[u]
    BY <1>0, <1>a, <1>d DEF OpTo, Waits
  <1> HIDE DEF w, q, QueueInsert
  <1>1. TypeOK'
    BY <1>0, <1>a, <1>c, <1>d, <1>g DEF TypeOK, OpTo, OpRec, Places
  <1>2. ASSUME NEW d \in Callers PROVE CallInv(d)'
    <2>1. CASE d = c
      BY <2>1, <1>a DEF OpTo, CallInv, Queueing, Cancels, Destroying
    <2>2. CASE d # c
      <3>1. op'[d] = op[d] /\ CallInv(d)
        BY <2>2, <1>a DEF OpTo, IInv
      <3>2. op[d].at = "arm" => op[d].work \in Works /\ op[d].work # w
        BY <3>1, <1>d, <1>e DEF CallInv, Queueing, Claimed
      <3> QED
        BY <3>1, <3>2, <1>0, <1>d, <1>g DEF CallInv
    <2> QED
      BY <2>1, <2>2
  <1>3. ASSUME NEW d \in Callers PROVE UserInv(d)'
    BY <1>a, <1>g DEF IInv, UserInv, OpTo
  <1>4. ASSUME NEW v \in Works PROVE PendingInv(v)'
    <2>1. CASE v = w
      <3>1. pending'[w] /\ data'[w] = q /\ timer'[w] = "off"
        BY <1>0, <1>d, <1>e, <1>g
      <3> QED
        BY <2>1, <3>1, <1>b, <1>c, <1>d, <1>e, <1>f DEF PendingInv
    <2>2. CASE v # w
      <3>1. pending'[v] = pending[v] /\ data'[v] = data[v] /\ timer'[v] = timer[v]
        BY <2>2, <1>g
      <3>2. \A d \in Callers : Claimed(d, v)' <=> Claimed(d, v)
        BY <2>2, <1>b, <1>o
      <3>3. \A p \in Queues : (Linked(v, p)' <=> Linked(v, p)) /\ (Starting(v, p)' <=> Starting(v, p))
        BY <2>2, <1>c, <1>f
      <3>4. PendingInv(v)
        BY DEF IInv
      <3> QED
        BY <3>1, <3>2, <3>3, <3>4 DEF PendingInv
    <2> QED
      BY <2>1, <2>2
  <1>5. ASSUME NEW v \in Works PROVE TimerInv(v)'
    BY <1>e, <1>g DEF IInv, TimerInv
  <1>6. ASSUME NEW p \in Queues PROVE WorkerInv(p)'
    BY <1>a, <1>c, <1>d, <1>g DEF IInv, TypeOK, WorkerInv
  <1>7. ASSUME NEW p \in Queues PROVE DyingInv(p)'
    <2>1. CASE p # q
      <3>1. worklist'[p] = worklist[p] /\ wpc' = wpc /\ dying' = dying /\ stopping' = stopping
        BY <2>1, <1>c, <1>g
      <3> QED
        BY <3>1, <1>w, DyingFrame DEF IInv, ListEmpty
    <2>2. CASE p = q
      <3>1. q \notin dying \/ c = q
        BY <1>d DEF IInv, UserInv, q
      <3>2. c = q => wpc[q] = "func"
        BY <1>d DEF IInv, CallInv
      <3> QED
        BY <2>2, <3>1, <3>2, <1>g DEF IInv, DyingInv, InRun, Executing
    <2> QED
      BY <2>1, <2>2
  <1>8. ASSUME NEW u \in Tasks PROVE BarrierInv(u)'
    <2>1. \A p \in Queues : Linked(u, p)' <=> Linked(u, p)
      BY <1>c, <1>d
    <2> QED
      BY <2>1, <1>g, <1>w, BarrierFrame DEF IInv
  <1>9. ASSUME NEW u \in Tasks PROVE DestroyerInv(u)'
    BY <1>a, <1>g DEF IInv, DestroyerInv, Destroying, OpTo
  <1> QED
    BY <1>1, <1>2, <1>3, <1>4, <1>5, <1>6, <1>7, <1>8, <1>9 DEF IInv

\* The call still owns the bit when it stores the workqueue.
LEMMA QueueStoreKeeps ==
    ASSUME IInv, NEW c \in Callers, QueueStore(c)
    PROVE  IInv'
  <1> USE ConstantFacts DEF QueueStore, wqvars
  <1>0. /\ TypeOK
        /\ pending \in [Works -> BOOLEAN] /\ data \in [Works -> Queues \cup {NULL}]
        /\ timer \in [Works -> {"off", "armed", "running"}]
    BY DEF IInv, TypeOK
  <1> DEFINE w == op[c].work
             q == op[c].cwq
  <1>d. /\ w \in Works /\ q \in Queues /\ op[c].at = "store" /\ Claimed(c, w)
    BY DEF IInv, CallInv, Queueing, Cancels, Claimed
  <1>e. /\ pending[w] /\ timer[w] = "off" /\ \A d \in Callers : Claimed(d, w) => d = c
        /\ \A p \in Queues : ~Linked(w, p) /\ ~Starting(w, p)
    BY <1>d, ClaimedFacts
  <1>o. \A v \in Works : Claimed(c, v) => v = w
    BY DEF Claimed
  <1>a. OpTo(c, "arm", op[c].work, op[c].cwq, op[c].ret)
    <2>1. "arm" \in Places
      BY DEF Places
    <2> QED
      BY <1>0, <2>1, GotoFacts
  <1>b. /\ \A v \in Works : Claimed(c, v)' <=> v = w
        /\ \A v \in Works, d \in Callers : d # c => (Claimed(d, v)' <=> Claimed(d, v))
    BY <1>a, ClaimFacts DEF Claims
  <1>c. \A p \in Queues : \A x : (Linked(x, p)' <=> Linked(x, p)) /\ (Starting(x, p)' <=> Starting(x, p))
    BY DEF Linked, Starting
  <1>g. data' = [data EXCEPT ![w] = q] /\ op'[c].work = w /\ op'[c].cwq = q /\ op'[c].at = "arm"
    BY <1>a DEF OpTo
  <1>h. /\ UNCHANGED <<pending, timer, stopping, dying, done, before>>
        /\ UNCHANGED <<worklist, current, stack, wpc, wstate>>
    OBVIOUS
  <1>w. \A u \in Tasks : Waits(u) => op'[u] = op[u] /\ done'[u] = done[u]
    BY <1>0, <1>a, <1>d DEF OpTo, Waits
  <1> HIDE DEF w, q, QueueStore
  <1>1. TypeOK'
    BY ZenonT(60), <1>0, <1>a, <1>e, <1>g, <1>h DEF TypeOK, OpTo, OpRec, Places
  <1>2. ASSUME NEW d \in Callers PROVE CallInv(d)'
    <2>1. CASE d = c
      <3>1. data'[w] = q /\ op'[c].work = w /\ op'[c].cwq = q
        BY <1>0, <1>d, <1>g
      <3>2. c \in Queues => wpc'[c] = "func" /\ Head(stack'[c]) \in Works
        BY <1>d, <1>h DEF IInv, CallInv
      <3> QED
        BY <2>1, <3>1, <3>2, <1>d, <1>g DEF OpTo, CallInv, Queueing
    <2>2. CASE d # c
      <3>1. op'[d] = op[d] /\ CallInv(d)
        BY <2>2, <1>a DEF OpTo, IInv
      <3>2. op[d].at = "arm" => op[d].work \in Works /\ op[d].work # w
        BY <3>1, <1>d, <1>e DEF CallInv, Queueing, Claimed
      <3> QED
        BY <3>1, <3>2, <1>g, <1>h DEF CallInv
    <2> QED
      BY <2>1, <2>2
  <1>3. ASSUME NEW d \in Callers PROVE UserInv(d)'
    BY <1>a, <1>d, <1>h DEF IInv, UserInv, OpTo
  <1>4. ASSUME NEW v \in Works PROVE PendingInv(v)'
    <2>1. CASE v = w
      <3>1. pending'[w] /\ timer'[w] = "off"
        BY <1>e, <1>h
      <3> QED
        BY <2>1, <1>b, <1>c, <1>e, <1>h DEF PendingInv
    <2>2. CASE v # w
      <3>1. pending'[v] = pending[v] /\ data'[v] = data[v] /\ timer'[v] = timer[v]
        BY <2>2, <1>g, <1>h
      <3>2. \A d \in Callers : Claimed(d, v)' <=> Claimed(d, v)
        BY <1>b, <1>d, <1>o
      <3>3. \A p \in Queues : (Linked(v, p)' <=> Linked(v, p)) /\ (Starting(v, p)' <=> Starting(v, p))
        BY <1>c
      <3>4. PendingInv(v)
        BY DEF IInv
      <3> QED
        BY <3>1, <3>2, <3>3, <3>4 DEF PendingInv
    <2> QED
      BY <2>1, <2>2
  <1>5. ASSUME NEW v \in Works PROVE TimerInv(v)'
    BY <1>e, <1>g, <1>h DEF IInv, TimerInv
  <1>6. ASSUME NEW p \in Queues PROVE WorkerInv(p)'
    BY <1>h DEF IInv, WorkerInv
  <1>7. ASSUME NEW p \in Queues PROVE DyingInv(p)'
    BY <1>w, <1>h, DyingFrame DEF IInv
  <1>8. ASSUME NEW u \in Tasks PROVE BarrierInv(u)'
    BY <1>0, <1>c, <1>w, <1>h, BarrierFrame DEF IInv
  <1>9. ASSUME NEW u \in Tasks PROVE DestroyerInv(u)'
    BY <1>a, <1>h DEF IInv, DestroyerInv, Destroying, OpTo
  <1> QED
    BY <1>1, <1>2, <1>3, <1>4, <1>5, <1>6, <1>7, <1>8, <1>9 DEF IInv

\* The claim passes from the call to the timer.
LEMMA QueueArmKeeps ==
    ASSUME IInv, NEW c \in Callers, QueueArm(c)
    PROVE  IInv'
  <1> USE ConstantFacts DEF QueueArm, wqvars
  <1>0. /\ TypeOK
        /\ pending \in [Works -> BOOLEAN] /\ data \in [Works -> Queues \cup {NULL}]
        /\ timer \in [Works -> {"off", "armed", "running"}]
    BY DEF IInv, TypeOK
  <1> DEFINE w == op[c].work
             q == op[c].cwq
  <1>d. /\ w \in Works /\ q \in Queues /\ op[c].at = "arm" /\ Claimed(c, w)
    BY DEF IInv, CallInv, Queueing, Cancels, Claimed
  <1>e. /\ pending[w] /\ timer[w] = "off" /\ \A d \in Callers : Claimed(d, w) => d = c
        /\ \A p \in Queues : ~Linked(w, p) /\ ~Starting(w, p)
    BY <1>d, ClaimedFacts
  <1>o. \A v \in Works : Claimed(c, v) => v = w
    BY DEF Claimed
  <1>a. OpTo(c, "idle", NULL, NULL, 0)
    BY <1>0, ReturnFacts
  <1>b. /\ \A v \in Works : Claimed(c, v)' <=> FALSE
        /\ \A v \in Works, d \in Callers : d # c => (Claimed(d, v)' <=> Claimed(d, v))
    BY <1>a, ClaimFacts DEF Claims
  <1>c. \A p \in Queues : \A x : (Linked(x, p)' <=> Linked(x, p)) /\ (Starting(x, p)' <=> Starting(x, p))
    BY DEF Linked, Starting
  <1>g. /\ timer' = [timer EXCEPT ![w] = "armed"] /\ data[w] = q
        /\ UNCHANGED <<pending, data, stopping, dying, done, before>>
        /\ UNCHANGED <<worklist, current, stack, wpc, wstate>>
    BY DEF IInv, CallInv
  <1>h. q \notin dying
    BY <1>d DEF IInv, UserInv
  <1>w. \A u \in Tasks : Waits(u) => op'[u] = op[u] /\ done'[u] = done[u]
    BY <1>0, <1>a, <1>d DEF OpTo, Waits
  <1> HIDE DEF w, q, QueueArm
  <1>1. TypeOK'
    BY <1>0, <1>a, <1>d, <1>g DEF TypeOK, OpTo, OpRec, Places
  <1>2. ASSUME NEW d \in Callers PROVE CallInv(d)'
    BY <1>a, <1>g DEF IInv, CallInv, OpTo, Queueing, Cancels, Destroying
  <1>3. ASSUME NEW d \in Callers PROVE UserInv(d)'
    BY <1>a, <1>g DEF IInv, UserInv, OpTo
  <1>4. ASSUME NEW v \in Works PROVE PendingInv(v)'
    <2>1. CASE v = w
      <3>1. pending'[w] /\ timer'[w] = "armed"
        BY <1>0, <1>b, <1>c, <1>d, <1>e, <1>g
      <3> QED
        BY <2>1, <3>1, <1>b, <1>c, <1>e DEF PendingInv
    <2>2. CASE v # w
      <3>1. pending'[v] = pending[v] /\ data'[v] = data[v] /\ timer'[v] = timer[v]
        BY <2>2, <1>g
      <3>2. \A d \in Callers : Claimed(d, v)' <=> Claimed(d, v)
        BY <2>2, <1>b, <1>o
      <3>3. \A p \in Queues : (Linked(v, p)' <=> Linked(v, p)) /\ (Starting(v, p)' <=> Starting(v, p))
        BY <2>2, <1>b, <1>c, <1>d, <1>e, <1>g
      <3>4. PendingInv(v)
        BY DEF IInv
      <3> QED
        BY <3>1, <3>2, <3>3, <3>4 DEF PendingInv
    <2> QED
      BY <2>1, <2>2
  <1>5. ASSUME NEW v \in Works PROVE TimerInv(v)'
    BY <1>g, <1>h DEF IInv, TimerInv
  <1>6. ASSUME NEW p \in Queues PROVE WorkerInv(p)'
    BY <1>g DEF IInv, WorkerInv
  <1>7. ASSUME NEW p \in Queues PROVE DyingInv(p)'
    BY <1>w, <1>g, DyingFrame DEF IInv
  <1>8. ASSUME NEW u \in Tasks PROVE BarrierInv(u)'
    BY <1>0, <1>c, <1>w, <1>g, BarrierFrame DEF IInv
  <1>9. ASSUME NEW u \in Tasks PROVE DestroyerInv(u)'
    BY <1>a, <1>g DEF IInv, DestroyerInv, Destroying, OpTo
  <1> QED
    BY <1>1, <1>2, <1>3, <1>4, <1>5, <1>6, <1>7, <1>8, <1>9 DEF IInv

\* The timer keeps the claim while its function runs.
LEMMA TimerExpiresKeeps ==
    ASSUME IInv, NEW w \in Works, TimerExpires(w)
    PROVE  IInv'
  <1> USE ConstantFacts DEF TimerExpires, wqvars
  <1>0. /\ TypeOK
        /\ pending \in [Works -> BOOLEAN] /\ data \in [Works -> Queues \cup {NULL}]
        /\ timer \in [Works -> {"off", "armed", "running"}]
    BY DEF IInv, TypeOK
  <1>b. \A v \in Works, d \in Callers : Claimed(d, v)' <=> Claimed(d, v)
    BY DEF Claimed
  <1>c. \A p \in Queues : \A x : (Linked(x, p)' <=> Linked(x, p)) /\ (Starting(x, p)' <=> Starting(x, p))
    BY DEF Linked, Starting
  <1>1. TypeOK'
    BY <1>0 DEF TypeOK, OpTo, OpRec, Places
  <1>2. ASSUME NEW d \in Callers PROVE CallInv(d)'
    BY DEF IInv, CallInv, OpTo
  <1>3. ASSUME NEW d \in Callers PROVE UserInv(d)'
    BY DEF IInv, UserInv
  <1>4. ASSUME NEW v \in Works PROVE PendingInv(v)'
    BY <1>0, <1>b, <1>c DEF IInv, PendingInv
  <1>5. ASSUME NEW v \in Works PROVE TimerInv(v)'
    BY DEF IInv, TimerInv
  <1>6. ASSUME NEW p \in Queues PROVE WorkerInv(p)'
    BY DEF IInv, WorkerInv
  <1>7. ASSUME NEW p \in Queues PROVE DyingInv(p)'
    BY DEF IInv, DyingInv
  <1>8. ASSUME NEW u \in Tasks PROVE BarrierInv(u)'
    BY <1>c DEF IInv, BarrierInv, Posted, Waits
  <1>9. ASSUME NEW u \in Tasks PROVE DestroyerInv(u)'
    BY DEF IInv, DestroyerInv
  <1> QED
    BY <1>1, <1>2, <1>3, <1>4, <1>5, <1>6, <1>7, <1>8, <1>9 DEF IInv

\* The claim passes from the timer to the list.
LEMMA TimerFnKeeps ==
    ASSUME IInv, NEW w \in Works, TimerFn(w)
    PROVE  IInv'
  <1> USE ConstantFacts DEF TimerFn
  <1>0. /\ TypeOK
        /\ pending \in [Works -> BOOLEAN] /\ data \in [Works -> Queues \cup {NULL}]
        /\ timer \in [Works -> {"off", "armed", "running"}]
    BY DEF IInv, TypeOK
  <1> DEFINE q == data[w]
  <1>e. /\ q \in Queues /\ pending[w] /\ \A d \in Callers : ~Claimed(d, w)
        /\ \A p \in Queues : ~Linked(w, p) /\ ~Starting(w, p)
    BY <1>0 DEF IInv, TypeOK, PendingInv
  <1>b. \A v \in Works, d \in Callers : Claimed(d, v)' <=> Claimed(d, v)
    BY DEF Claimed
  <1>c. /\ worklist' \in [Queues -> Seq(Works \cup Tasks)]
        /\ NoDuplicates(worklist'[q]) /\ worklist'[q] # <<>>
        /\ \A p \in Queues : p # q => worklist'[p] = worklist[p]
        /\ \A p \in Queues : \A y : Linked(y, p)' <=> Linked(y, p) \/ (p = q /\ y = w)
        /\ wstate' \in [Queues -> {"TASK_RUNNING", "TASK_INTERRUPTIBLE"}]
        /\ wstate'[q] = "TASK_RUNNING" /\ \A p \in Queues : p # q => wstate'[p] = wstate[p]
    <2>1. NoDuplicates(worklist[q])
      BY <1>e DEF IInv, WorkerInv
    <2> QED
      BY <1>0, <1>e, <1>e, <2>1, InsertFacts
  <1>f. \A p \in Queues : \A x : Starting(x, p)' <=> Starting(x, p)
    BY DEF Starting
  <1>g. /\ timer' = [timer EXCEPT ![w] = "off"]
        /\ UNCHANGED <<pending, data, current, stack, wpc, stopping, dying, op, done, before>>
    OBVIOUS
  <1>h. q \notin dying /\ data[w] = q
    BY DEF IInv, TimerInv
  <1> HIDE DEF q, TimerFn
  <1>1. TypeOK'
    BY <1>0, <1>c, <1>g DEF TypeOK, OpTo, OpRec, Places
  <1>2. ASSUME NEW d \in Callers PROVE CallInv(d)'
    BY <1>g DEF IInv, CallInv, OpTo
  <1>3. ASSUME NEW d \in Callers PROVE UserInv(d)'
    BY <1>g DEF IInv, UserInv
  <1>4. ASSUME NEW v \in Works PROVE PendingInv(v)'
    <2>1. CASE v = w
      <3>1. pending'[w] /\ data'[w] = q /\ timer'[w] = "off"
        BY <1>0, <1>e, <1>g, <1>h
      <3> QED
        BY <2>1, <3>1, <1>b, <1>c, <1>e, <1>f DEF PendingInv
    <2>2. CASE v # w
      <3>1. pending'[v] = pending[v] /\ data'[v] = data[v] /\ timer'[v] = timer[v]
        BY <2>2, <1>g
      <3>2. \A d \in Callers : Claimed(d, v)' <=> Claimed(d, v)
        BY <1>b
      <3>3. \A p \in Queues : (Linked(v, p)' <=> Linked(v, p)) /\ (Starting(v, p)' <=> Starting(v, p))
        BY <2>2, <1>c, <1>f
      <3>4. PendingInv(v)
        BY DEF IInv
      <3> QED
        BY <3>1, <3>2, <3>3, <3>4 DEF PendingInv
    <2> QED
      BY <2>1, <2>2
  <1>5. ASSUME NEW v \in Works PROVE TimerInv(v)'
    BY <1>g DEF IInv, TimerInv
  <1>6. ASSUME NEW p \in Queues PROVE WorkerInv(p)'
    BY <1>c, <1>g DEF IInv, WorkerInv, InRun
  <1>7. ASSUME NEW p \in Queues PROVE DyingInv(p)'
    BY <1>c, <1>g, <1>h DEF IInv, DyingInv, ListEmpty
  <1>8. ASSUME NEW u \in Tasks PROVE BarrierInv(u)'
    BY <1>c, <1>g DEF IInv, BarrierInv, Posted, Waits
  <1>9. ASSUME NEW u \in Tasks PROVE DestroyerInv(u)'
    BY <1>g DEF IInv, DestroyerInv
  <1> QED
    BY <1>1, <1>2, <1>3, <1>4, <1>5, <1>6, <1>7, <1>8, <1>9 DEF IInv

-----------------------------------------------------------------------------
(* The worker. *)

\* The worker announces that it will sleep.
LEMMA WorkerPrepareKeeps ==
    ASSUME IInv, NEW q \in Queues, WorkerPrepare(q)
    PROVE  IInv'
  <1> USE ConstantFacts DEF WorkerPrepare, workvars
  <1>0. /\ TypeOK
        /\ pending \in [Works -> BOOLEAN] /\ data \in [Works -> Queues \cup {NULL}]
        /\ timer \in [Works -> {"off", "armed", "running"}]
    BY DEF IInv, TypeOK
  <1>b. \A v \in Works, d \in Callers : Claimed(d, v)' <=> Claimed(d, v)
    BY DEF Claimed
  <1>c. \A p \in Queues : \A x : (Linked(x, p)' <=> Linked(x, p)) /\ (Starting(x, p)' <=> Starting(x, p))
    BY <1>0 DEF TypeOK, Linked, Starting
  <1>1. TypeOK'
    BY <1>0 DEF TypeOK, OpTo, OpRec, Places
  <1>2. ASSUME NEW d \in Callers PROVE CallInv(d)'
    BY DEF IInv, CallInv, OpTo
  <1>3. ASSUME NEW d \in Callers PROVE UserInv(d)'
    BY DEF IInv, UserInv
  <1>4. ASSUME NEW v \in Works PROVE PendingInv(v)'
    BY <1>0, <1>b, <1>c DEF IInv, PendingInv
  <1>5. ASSUME NEW v \in Works PROVE TimerInv(v)'
    BY DEF IInv, TimerInv
  <1>6. ASSUME NEW p \in Queues PROVE WorkerInv(p)'
    BY DEF IInv, WorkerInv, InRun, Executing
  <1>7. ASSUME NEW p \in Queues PROVE DyingInv(p)'
    BY DEF IInv, DyingInv, InRun, Executing
  <1>8. ASSUME NEW u \in Tasks PROVE BarrierInv(u)'
    BY <1>c DEF IInv, BarrierInv, Posted, Waits, Executing
  <1>9. ASSUME NEW u \in Tasks PROVE DestroyerInv(u)'
    BY DEF IInv, DestroyerInv
  <1> QED
    BY <1>1, <1>2, <1>3, <1>4, <1>5, <1>6, <1>7, <1>8, <1>9 DEF IInv

\* The worker sleeps only when the list was empty after its state was set.
LEMMA WorkerCheckKeeps ==
    ASSUME IInv, NEW q \in Queues, WorkerCheck(q)
    PROVE  IInv'
  <1> USE ConstantFacts DEF WorkerCheck, workvars
  <1>0. /\ TypeOK
        /\ pending \in [Works -> BOOLEAN] /\ data \in [Works -> Queues \cup {NULL}]
        /\ timer \in [Works -> {"off", "armed", "running"}]
    BY DEF IInv, TypeOK
  <1>b. \A v \in Works, d \in Callers : Claimed(d, v)' <=> Claimed(d, v)
    BY DEF Claimed
  <1>c. \A p \in Queues : \A x : (Linked(x, p)' <=> Linked(x, p)) /\ (Starting(x, p)' <=> Starting(x, p))
    BY <1>0 DEF TypeOK, Linked, Starting
  <1>1. TypeOK'
    BY <1>0 DEF TypeOK, OpTo, OpRec, Places
  <1>2. ASSUME NEW d \in Callers PROVE CallInv(d)'
    BY DEF IInv, CallInv, OpTo
  <1>3. ASSUME NEW d \in Callers PROVE UserInv(d)'
    BY DEF IInv, UserInv
  <1>4. ASSUME NEW v \in Works PROVE PendingInv(v)'
    BY <1>0, <1>b, <1>c DEF IInv, PendingInv
  <1>5. ASSUME NEW v \in Works PROVE TimerInv(v)'
    BY DEF IInv, TimerInv
  <1>6. ASSUME NEW p \in Queues PROVE WorkerInv(p)'
    BY DEF IInv, WorkerInv, InRun, Executing
  <1>7. ASSUME NEW p \in Queues PROVE DyingInv(p)'
    BY DEF IInv, DyingInv, InRun, Executing
  <1>8. ASSUME NEW u \in Tasks PROVE BarrierInv(u)'
    BY <1>c DEF IInv, BarrierInv, Posted, Waits, Executing
  <1>9. ASSUME NEW u \in Tasks PROVE DestroyerInv(u)'
    BY DEF IInv, DestroyerInv
  <1> QED
    BY <1>1, <1>2, <1>3, <1>4, <1>5, <1>6, <1>7, <1>8, <1>9 DEF IInv

\* The worker returns from schedule().
LEMMA WorkerWakesKeeps ==
    ASSUME IInv, NEW q \in Queues, WorkerWakes(q)
    PROVE  IInv'
  <1> USE ConstantFacts DEF WorkerWakes, workvars
  <1>0. /\ TypeOK
        /\ pending \in [Works -> BOOLEAN] /\ data \in [Works -> Queues \cup {NULL}]
        /\ timer \in [Works -> {"off", "armed", "running"}]
    BY DEF IInv, TypeOK
  <1>b. \A v \in Works, d \in Callers : Claimed(d, v)' <=> Claimed(d, v)
    BY DEF Claimed
  <1>c. \A p \in Queues : \A x : (Linked(x, p)' <=> Linked(x, p)) /\ (Starting(x, p)' <=> Starting(x, p))
    BY <1>0 DEF TypeOK, Linked, Starting
  <1>1. TypeOK'
    BY <1>0 DEF TypeOK, OpTo, OpRec, Places
  <1>2. ASSUME NEW d \in Callers PROVE CallInv(d)'
    BY DEF IInv, CallInv, OpTo
  <1>3. ASSUME NEW d \in Callers PROVE UserInv(d)'
    BY DEF IInv, UserInv
  <1>4. ASSUME NEW v \in Works PROVE PendingInv(v)'
    BY <1>0, <1>b, <1>c DEF IInv, PendingInv
  <1>5. ASSUME NEW v \in Works PROVE TimerInv(v)'
    BY DEF IInv, TimerInv
  <1>6. ASSUME NEW p \in Queues PROVE WorkerInv(p)'
    BY DEF IInv, WorkerInv, InRun, Executing
  <1>7. ASSUME NEW p \in Queues PROVE DyingInv(p)'
    BY DEF IInv, DyingInv, InRun, Executing
  <1>8. ASSUME NEW u \in Tasks PROVE BarrierInv(u)'
    BY <1>c DEF IInv, BarrierInv, Posted, Waits, Executing
  <1>9. ASSUME NEW u \in Tasks PROVE DestroyerInv(u)'
    BY DEF IInv, DestroyerInv
  <1> QED
    BY <1>1, <1>2, <1>3, <1>4, <1>5, <1>6, <1>7, <1>8, <1>9 DEF IInv

\* The worker exits, or enters run_workqueue().
LEMMA WorkerFinishKeeps ==
    ASSUME IInv, NEW q \in Queues, WorkerFinish(q)
    PROVE  IInv'
  <1> USE ConstantFacts DEF WorkerFinish, workvars
  <1>0. /\ TypeOK
        /\ pending \in [Works -> BOOLEAN] /\ data \in [Works -> Queues \cup {NULL}]
        /\ timer \in [Works -> {"off", "armed", "running"}]
    BY DEF IInv, TypeOK
  <1>b. \A v \in Works, d \in Callers : Claimed(d, v)' <=> Claimed(d, v)
    BY DEF Claimed
  <1>c. \A p \in Queues : \A x : (Linked(x, p)' <=> Linked(x, p)) /\ (Starting(x, p)' <=> Starting(x, p))
    BY <1>0 DEF TypeOK, Linked, Starting
  <1>1. TypeOK'
    BY <1>0 DEF TypeOK, OpTo, OpRec, Places
  <1>2. ASSUME NEW d \in Callers PROVE CallInv(d)'
    BY DEF IInv, CallInv, OpTo
  <1>3. ASSUME NEW d \in Callers PROVE UserInv(d)'
    BY DEF IInv, UserInv
  <1>4. ASSUME NEW v \in Works PROVE PendingInv(v)'
    BY <1>0, <1>b, <1>c DEF IInv, PendingInv
  <1>5. ASSUME NEW v \in Works PROVE TimerInv(v)'
    BY DEF IInv, TimerInv
  <1>6. ASSUME NEW p \in Queues PROVE WorkerInv(p)'
    BY DEF IInv, WorkerInv, InRun, Executing
  <1>7. ASSUME NEW p \in Queues PROVE DyingInv(p)'
    BY DEF IInv, DyingInv, InRun, Executing
  <1>8. ASSUME NEW u \in Tasks PROVE BarrierInv(u)'
    BY <1>c DEF IInv, BarrierInv, Posted, Waits, Executing
  <1>9. ASSUME NEW u \in Tasks PROVE DestroyerInv(u)'
    BY DEF IInv, DestroyerInv
  <1> QED
    BY <1>1, <1>2, <1>3, <1>4, <1>5, <1>6, <1>7, <1>8, <1>9 DEF IInv

\* run_workqueue() begins: the claim passes from the list to the worker.
LEMMA RunEnterKeeps ==
    ASSUME IInv, NEW q \in Queues, RunEnter(q)
    PROVE  IInv'
  <1>1. current[q] \in Works \cup Tasks \cup {NULL} /\ (stack[q] = <<>> => current[q] = NULL)
    BY DEF RunEnter, IInv, TypeOK, WorkerInv
  <1> QED
    BY <1>1, TakeNothing, TakeOne DEF RunEnter

\* run_workqueue() goes on.
LEMMA RunNextKeeps ==
    ASSUME IInv, NEW q \in Queues, RunNext(q)
    PROVE  IInv'
  BY TakeNothing, TakeOne DEF RunNext

\* The worker gives the bit up before it calls the function.
LEMMA RunStartKeeps ==
    ASSUME IInv, NEW q \in Queues, RunStart(q)
    PROVE  IInv'
  <1> USE ConstantFacts
  <1>0. TypeOK
    BY DEF IInv
  <1> DEFINE x == Head(stack[q])
  <1>d. x \in Works \cup Tasks /\ stack[q] # <<>> /\ wpc[q] = "start"
    BY <1>0 DEF TypeOK, RunStart
  <1>f. before' \in [Tasks -> SUBSET (Works \X {"queued", "running"} \X Queues)]
    <2>1. ASSUME NEW t \in Tasks, NEW z, z \in before'[t]
          PROVE  z \in Works \X {"queued", "running"} \X Queues
      <3>1. before[t] \subseteq Works \X {"queued", "running"} \X Queues
        BY <1>0 DEF TypeOK
      <3>2. CASE <<x, "queued", q>> \in before[t] /\ z = <<x, "running", q>>
        BY <3>1, <3>2
      <3>3. CASE z \in before[t]
        BY <3>1, <3>3
      <3> QED
        BY <2>1, <3>2, <3>3 DEF RunStart
    <2>2. \E f : before' = [t \in Tasks |-> f[t]]
      <3>1. before' = [t \in Tasks |-> before'[t]]
        BY DEF RunStart
      <3> QED
        BY <3>1
    <2> QED
      BY <2>1, <2>2
  <1>g. /\ UNCHANGED <<data, timer, worklist, current, stack, wstate, stopping, dying, op, done>>
        /\ wpc' = [wpc EXCEPT ![q] = "func"]
        /\ pending' = IF x \in Works THEN [pending EXCEPT ![x] = FALSE] ELSE pending
    BY DEF RunStart
  <1> HIDE DEF x
  <1>h. /\ wpc'[q] = "func" /\ \A p \in Queues : p # q => wpc'[p] = wpc[p]
        /\ wpc' \in [Queues -> {"prepare", "check", "sleep", "finish", "enter", "next",
                                "start", "func", "exited"}]
        /\ pending' \in [Works -> BOOLEAN] /\ \A v \in Works : pending'[v] <=> pending[v] /\ v # x
    BY <1>0, <1>d, <1>g DEF TypeOK
  <1>s. /\ \A p \in Queues : \A y : (Starting(y, p)' <=> Starting(y, p) /\ p # q)
                                    /\ (Linked(y, p)' <=> Linked(y, p))
        /\ \A y : Starting(y, q) <=> y = x
    BY <1>d, <1>g, <1>h DEF Starting, Linked, x
  <1>i. op[q].at = "idle"
    BY <1>d DEF IInv, CallInv
  <1>1. TypeOK'
    BY <1>0, <1>d, <1>f, <1>g, <1>h DEF TypeOK
  <1>2. ASSUME NEW d \in Callers PROVE CallInv(d)' /\ UserInv(d)'
    BY <1>g, <1>h, <1>i DEF IInv, CallInv, UserInv
  <1>3. ASSUME NEW v \in Works PROVE PendingInv(v)' /\ TimerInv(v)'
    <2>1. \A d \in Callers : Claimed(d, v)' <=> Claimed(d, v)
      BY <1>g DEF Claimed
    <2>2. PendingInv(v) /\ TimerInv(v)
      BY DEF IInv
    <2>3. CASE v # x
      <3>1. \A p \in Queues : (Linked(v, p)' <=> Linked(v, p)) /\ (Starting(v, p)' <=> Starting(v, p))
        BY <2>3, <1>s
      <3>2. pending'[v] = pending[v]
        BY <1>0, <1>h, <2>3 DEF TypeOK
      <3> QED
        BY <2>1, <2>2, <3>1, <3>2, <1>g, PendingFrame DEF TimerInv
    <2>4. CASE v = x
      <3>1. /\ timer[v] = "off" /\ \A d \in Callers : ~Claimed(d, v)
            /\ \A p \in Queues : (Starting(v, p) => p = q) /\ ~Linked(v, p)
        BY <2>2, <2>4, <1>s DEF PendingInv
      <3>2. \A p \in Queues : ~Linked(v, p)' /\ ~Starting(v, p)'
        BY <3>1, <1>s
      <3>3. PendingInv(v)'
        BY <2>1, <2>4, <3>1, <3>2, <1>g, <1>h DEF PendingInv
      <3> QED
        BY <2>2, <3>3, <1>g DEF TimerInv
    <2> QED
      BY <2>3, <2>4
  <1>4. ASSUME NEW p \in Queues PROVE WorkerInv(p)'
    BY <1>g DEF IInv, WorkerInv, InRun, Executing
  <1>5. ASSUME NEW p \in Queues PROVE DyingInv(p)'
    BY <1>g, <1>h DEF IInv, DyingInv, InRun, Executing
  <1>6. ASSUME NEW u \in Tasks PROVE BarrierInv(u)'
    <2>1. \A p \in Queues : wpc'[p] \in Executing <=> wpc[p] \in Executing
      BY <1>d, <1>h DEF Executing
    <2>2. \A p \in Queues : (Posted(u, p)' <=> Posted(u, p)) /\ (Linked(u, p)' <=> Linked(u, p))
      BY <2>1, <1>g, <1>s DEF Posted
    <2> QED
      BY <2>1, <2>2, <1>g DEF IInv, BarrierInv, Waits
  <1>7. ASSUME NEW u \in Tasks PROVE DestroyerInv(u)'
    BY <1>g DEF IInv, DestroyerInv
  <1> QED
    BY <1>1, <1>2, <1>3, <1>4, <1>5, <1>6, <1>7 DEF IInv

\* A function returns.
LEMMA FuncReturnsKeeps ==
    ASSUME IInv, NEW q \in Queues, FuncReturns(q)
    PROVE  IInv'
  <1> USE ConstantFacts
  <1>0. TypeOK
    BY DEF IInv
  <1> DEFINE x == Head(stack[q])
  <1>d. /\ x \in Works /\ stack[q] # <<>> /\ wpc[q] = "func" /\ stack[q] \in Seq(Works \cup Tasks)
        /\ op[q].at = "idle"
    BY <1>0, IdleFacts DEF TypeOK, FuncReturns, IInv, CallInv
  <1>f. before' \in [Tasks -> SUBSET (Works \X {"queued", "running"} \X Queues)]
    BY <1>0 DEF FuncReturns, TypeOK, Handled
  <1>g. /\ UNCHANGED <<pending, data, timer, worklist, current, wstate, stopping, dying, op, done>>
        /\ wpc' = [wpc EXCEPT ![q] = "next"] /\ stack' = [stack EXCEPT ![q] = Tail(@)]
    BY DEF FuncReturns, workvars
  <1> HIDE DEF x
  <1>h. /\ wpc'[q] = "next" /\ stack'[q] = Tail(stack[q])
        /\ \A p \in Queues : p # q => wpc'[p] = wpc[p] /\ stack'[p] = stack[p]
        /\ wpc' \in [Queues -> {"prepare", "check", "sleep", "finish", "enter", "next",
                                "start", "func", "exited"}]
        /\ stack' \in [Queues -> Seq(Works \cup Tasks)]
    <2>1. Tail(stack[q]) \in Seq(Works \cup Tasks)
      BY <1>d
    <2> QED
      BY <1>0, <1>g, <2>1 DEF TypeOK
  <1>c. \A p \in Queues : \A y : (Linked(y, p)' <=> Linked(y, p)) /\ (Starting(y, p)' <=> Starting(y, p))
    BY <1>d, <1>g, <1>h DEF Linked, Starting
  <1>1. TypeOK'
    BY <1>0, <1>f, <1>g, <1>h DEF TypeOK
  <1>2. ASSUME NEW d \in Callers PROVE CallInv(d)' /\ UserInv(d)'
    <2>1. d \in Queues /\ op[d].at # "idle" => wpc'[d] = wpc[d] /\ stack'[d] = stack[d]
      BY <1>d, <1>h
    <2> QED
      BY <2>1, <1>g DEF IInv, CallInv, UserInv
  <1>3. ASSUME NEW v \in Works PROVE PendingInv(v)' /\ TimerInv(v)'
    <2>1. \A d \in Callers : Claimed(d, v)' <=> Claimed(d, v)
      BY <1>g DEF Claimed
    <2>2. PendingInv(v) /\ TimerInv(v)
      BY DEF IInv
    <2>3. PendingInv(v)'
      BY <2>1, <2>2, <1>c, <1>g, PendingFrame
    <2> QED
      BY <2>2, <2>3, <1>g DEF TimerInv
  <1>4. ASSUME NEW p \in Queues PROVE WorkerInv(p)'
    <2>1. CASE p = q
      <3>1. ASSUME NEW i \in 1 .. Len(stack'[q]) PROVE stack'[q][i] \in Works
        <4>1. i \in 1 .. (Len(stack[q]) - 1) /\ stack'[q][i] = stack[q][i + 1]
          BY <1>d, <1>h
        <4>2. i + 1 \in 1 .. Len(stack[q]) /\ i + 1 # 1
          BY <1>d, <4>1
        <4> QED
          BY <4>1, <4>2 DEF IInv, WorkerInv
      <3>2. NoDuplicates(worklist'[q])
        BY <1>g DEF IInv, WorkerInv
      <3> QED
        BY <2>1, <3>1, <3>2, <1>h DEF WorkerInv, InRun
    <2>2. CASE p # q
      BY <2>2, <1>g, <1>h DEF IInv, WorkerInv
    <2> QED
      BY <2>1, <2>2
  <1>5. ASSUME NEW p \in Queues PROVE DyingInv(p)'
    <2>1. CASE p = q
      BY <2>1, <1>g, <1>h DEF DyingInv, InRun
    <2>2. CASE p # q
      BY <2>2, <1>g, <1>h DEF IInv, DyingInv
    <2> QED
      BY <2>1, <2>2
  <1>6. ASSUME NEW u \in Tasks PROVE BarrierInv(u)'
    <2>1. ASSUME NEW p \in Queues
          PROVE  wpc'[p] \in Executing /\ Head(stack'[p]) = u <=>
                 wpc[p] \in Executing /\ Head(stack[p]) = u
      BY <1>d, <1>h DEF Executing, x
    <2>2. \A p \in Queues : (Posted(u, p)' <=> Posted(u, p)) /\ (Linked(u, p)' <=> Linked(u, p))
      BY <2>1, <1>c DEF Posted
    <2> QED
      BY <2>1, <2>2, <1>g DEF IInv, BarrierInv, Waits
  <1>7. ASSUME NEW u \in Tasks PROVE DestroyerInv(u)'
    BY <1>g DEF IInv, DestroyerInv
  <1> QED
    BY <1>1, <1>2, <1>3, <1>4, <1>5, <1>6, <1>7 DEF IInv

\* A barrier is reached.
LEMMA BarrierFuncKeeps ==
    ASSUME IInv, NEW q \in Queues, BarrierFunc(q)
    PROVE  IInv'
  <1> USE ConstantFacts
  <1>0. TypeOK
    BY DEF IInv
  <1> DEFINE x == Head(stack[q])
  <1>d. /\ x \in Tasks /\ stack[q] # <<>> /\ wpc[q] = "func" /\ stack[q] \in Seq(Works \cup Tasks)
        /\ op[q].at = "idle"
    BY <1>0, IdleFacts DEF TypeOK, BarrierFunc, IInv, CallInv
  <1>f. /\ before' \in [Tasks -> SUBSET (Works \X {"queued", "running"} \X Queues)]
        /\ done' \in [Tasks -> BOOLEAN] /\ done'[x] /\ \A u \in Tasks : u # x => done'[u] = done[u]
    BY <1>0, <1>d DEF BarrierFunc, TypeOK
  <1>g. /\ UNCHANGED <<pending, data, timer, worklist, current, wstate, stopping, dying, op>>
        /\ wpc' = [wpc EXCEPT ![q] = "next"] /\ stack' = [stack EXCEPT ![q] = Tail(@)]
    BY DEF BarrierFunc, workvars
  <1> HIDE DEF x
  <1>h. /\ wpc'[q] = "next" /\ stack'[q] = Tail(stack[q])
        /\ \A p \in Queues : p # q => wpc'[p] = wpc[p] /\ stack'[p] = stack[p]
        /\ wpc' \in [Queues -> {"prepare", "check", "sleep", "finish", "enter", "next",
                                "start", "func", "exited"}]
        /\ stack' \in [Queues -> Seq(Works \cup Tasks)]
    <2>1. Tail(stack[q]) \in Seq(Works \cup Tasks)
      BY <1>d
    <2> QED
      BY <1>0, <1>g, <2>1 DEF TypeOK
  <1>c. \A p \in Queues : \A y : (Linked(y, p)' <=> Linked(y, p)) /\ (Starting(y, p)' <=> Starting(y, p))
    BY <1>d, <1>g, <1>h DEF Linked, Starting
  <1>1. TypeOK'
    BY <1>0, <1>f, <1>g, <1>h DEF TypeOK
  <1>2. ASSUME NEW d \in Callers PROVE CallInv(d)' /\ UserInv(d)'
    <2>1. d \in Queues /\ op[d].at # "idle" => wpc'[d] = wpc[d] /\ stack'[d] = stack[d]
      BY <1>d, <1>h
    <2> QED
      BY <2>1, <1>g DEF IInv, CallInv, UserInv
  <1>3. ASSUME NEW v \in Works PROVE PendingInv(v)' /\ TimerInv(v)'
    <2>1. \A d \in Callers : Claimed(d, v)' <=> Claimed(d, v)
      BY <1>g DEF Claimed
    <2>2. PendingInv(v) /\ TimerInv(v)
      BY DEF IInv
    <2>3. PendingInv(v)'
      BY <2>1, <2>2, <1>c, <1>g, PendingFrame
    <2> QED
      BY <2>2, <2>3, <1>g DEF TimerInv
  <1>4. ASSUME NEW p \in Queues PROVE WorkerInv(p)'
    <2>1. CASE p = q
      <3>1. ASSUME NEW i \in 1 .. Len(stack'[q]) PROVE stack'[q][i] \in Works
        <4>1. i \in 1 .. (Len(stack[q]) - 1) /\ stack'[q][i] = stack[q][i + 1]
          BY <1>d, <1>h
        <4>2. i + 1 \in 1 .. Len(stack[q]) /\ i + 1 # 1
          BY <1>d, <4>1
        <4> QED
          BY <4>1, <4>2 DEF IInv, WorkerInv
      <3>2. NoDuplicates(worklist'[q])
        BY <1>g DEF IInv, WorkerInv
      <3> QED
        BY <2>1, <3>1, <3>2, <1>h DEF WorkerInv, InRun
    <2>2. CASE p # q
      BY <2>2, <1>g, <1>h DEF IInv, WorkerInv
    <2> QED
      BY <2>1, <2>2
  <1>5. ASSUME NEW p \in Queues PROVE DyingInv(p)'
    <2>1. CASE p = q
      BY <2>1, <1>g, <1>h DEF DyingInv, InRun
    <2>2. CASE p # q
      <3>1. op[x].at = "destroy" => op[x].cwq = q
        BY <1>d DEF IInv, BarrierInv, Posted, Executing, x
      <3>2. \A u \in Tasks : op[u].at = "destroy" /\ op[u].cwq = p => done'[u] = done[u]
        BY <2>2, <3>1, <1>f
      <3> QED
        BY <2>2, <3>2, <1>g, <1>h DEF IInv, DyingInv
    <2> QED
      BY <2>1, <2>2
  <1>6. ASSUME NEW u \in Tasks PROVE BarrierInv(u)'
    <2>1. CASE u # x
      <3>1. ASSUME NEW p \in Queues
            PROVE  wpc'[p] \in Executing /\ Head(stack'[p]) = u <=>
                   wpc[p] \in Executing /\ Head(stack[p]) = u
        BY <2>1, <1>d, <1>h DEF Executing, x
      <3>2. \A p \in Queues : (Posted(u, p)' <=> Posted(u, p)) /\ (Linked(u, p)' <=> Linked(u, p))
        BY <3>1, <1>c DEF Posted
      <3> QED
        BY <2>1, <3>1, <3>2, <1>f, <1>g DEF IInv, BarrierInv, Waits
    <2>2. CASE u = x
      <3>1. Posted(u, q) /\ ~Linked(u, q)
        BY <2>2, <1>d DEF IInv, BarrierInv, Posted, Executing, x
      <3>2. \A p \in Queues : Posted(u, p) => p = q
        BY <3>1 DEF IInv, BarrierInv
      <3>3. ASSUME NEW p \in Queues PROVE ~Posted(u, p)'
        BY <3>1, <3>2, <1>c, <1>h DEF Posted, Executing
      <3> QED
        BY <3>3 DEF BarrierInv, Posted
    <2> QED
      BY <2>1, <2>2
  <1>7. ASSUME NEW u \in Tasks PROVE DestroyerInv(u)'
    BY <1>g DEF IInv, DestroyerInv
  <1> QED
    BY <1>1, <1>2, <1>3, <1>4, <1>5, <1>6, <1>7 DEF IInv

\* A function runs its own workqueue.
LEMMA FuncFlushesKeeps ==
    ASSUME IInv, NEW q \in Queues, FuncFlushes(q)
    PROVE  IInv'
  <1> USE ConstantFacts DEF FuncFlushes, workvars
  <1>0. /\ TypeOK
        /\ pending \in [Works -> BOOLEAN] /\ data \in [Works -> Queues \cup {NULL}]
        /\ timer \in [Works -> {"off", "armed", "running"}]
    BY DEF IInv, TypeOK
  <1>b. \A v \in Works, d \in Callers : Claimed(d, v)' <=> Claimed(d, v)
    BY DEF Claimed
  <1>c. \A p \in Queues : \A x : (Linked(x, p)' <=> Linked(x, p)) /\ (Starting(x, p)' <=> Starting(x, p))
    BY <1>0 DEF TypeOK, Linked, Starting
  <1>1. TypeOK'
    BY <1>0 DEF TypeOK, OpTo, OpRec, Places
  <1>2. ASSUME NEW d \in Callers PROVE CallInv(d)'
    BY <1>0, IdleFacts DEF IInv, TypeOK, CallInv
  <1>3. ASSUME NEW d \in Callers PROVE UserInv(d)'
    BY DEF IInv, UserInv
  <1>4. ASSUME NEW v \in Works PROVE PendingInv(v)'
    BY <1>0, <1>b, <1>c DEF IInv, PendingInv
  <1>5. ASSUME NEW v \in Works PROVE TimerInv(v)'
    BY DEF IInv, TimerInv
  <1>6. ASSUME NEW p \in Queues PROVE WorkerInv(p)'
    BY DEF IInv, TypeOK, WorkerInv, InRun
  <1>7. ASSUME NEW p \in Queues PROVE DyingInv(p)'
    BY DEF IInv, DyingInv, InRun
  <1>8. ASSUME NEW u \in Tasks PROVE BarrierInv(u)'
    BY <1>c DEF IInv, BarrierInv, Posted, Waits
  <1>9. ASSUME NEW u \in Tasks PROVE DestroyerInv(u)'
    BY DEF IInv, DestroyerInv
  <1> QED
    BY <1>1, <1>2, <1>3, <1>4, <1>5, <1>6, <1>7, <1>8, <1>9 DEF IInv

-----------------------------------------------------------------------------
(* flush_workqueue() and destroy_workqueue(). *)

\* A flush puts its barrier at the tail.
LEMMA FlushWorkqueueKeeps ==
    ASSUME IInv, NEW t \in Tasks, NEW q \in Queues, FlushWorkqueue(t, q)
    PROVE  IInv'
  <1> USE ConstantFacts DEF FlushWorkqueue
  <1>0. /\ TypeOK
        /\ pending \in [Works -> BOOLEAN] /\ data \in [Works -> Queues \cup {NULL}]
        /\ timer \in [Works -> {"off", "armed", "running"}]
    BY DEF IInv, TypeOK
  <1>a. OpTo(t, "flush", NULL, q, 0) /\ op[t].at = "idle" /\ op[t].cwq = NULL
    <2>1. op[t].at = "idle" /\ op[t].work = NULL /\ op[t].cwq = NULL
      BY IdleFacts
    <2>2. "flush" \in Places
      BY DEF Places
    <2> QED
      BY <1>0, <2>1, <2>2, CallFacts DEF FlushBarrier
  <1>u. Unhandled(q) \subseteq Works \X {"queued", "running"} \X Queues
    BY DEF Unhandled
  <1>b. \A v \in Works : Claimed(t, v)' <=> Claimed(t, v)
    BY <1>a, ClaimFacts, UnclaimedFacts DEF Claims
  <1>f. before' \in [Tasks -> SUBSET (Works \X {"queued", "running"} \X Queues)]
    BY <1>0, <1>u DEF TypeOK, FlushBarrier
  <1>g. /\ UNCHANGED <<pending, data, timer, current, stack, wpc, stopping, dying>>
        /\ q \notin dying
        /\ InsertWork(q, ListAddTail(t, worklist[q])) /\ done' = [done EXCEPT ![t] = FALSE]
    BY DEF workvars, FlushBarrier
  <1> HIDE DEF FlushWorkqueue
  <1> QED
    BY <1>a, <1>b, <1>f, <1>g, BarrierPosts

\* A flush returns.
LEMMA FlushReturnsKeeps ==
    ASSUME IInv, NEW t \in Tasks, FlushReturns(t)
    PROVE  IInv'
  <1> USE ConstantFacts DEF FlushReturns
  <1>0. /\ TypeOK
        /\ pending \in [Works -> BOOLEAN] /\ data \in [Works -> Queues \cup {NULL}]
        /\ timer \in [Works -> {"off", "armed", "running"}]
    BY DEF IInv, TypeOK
  <1>a. OpTo(t, "idle", NULL, NULL, 0)
    BY <1>0, ReturnFacts
  <1>b. /\ \A v \in Works : Claimed(t, v)' <=> FALSE
        /\ \A v \in Works, d \in Callers : d # t => (Claimed(d, v)' <=> Claimed(d, v))
    BY <1>a, ClaimFacts DEF Claims
  <1>c. \A p \in Queues : \A x : (Linked(x, p)' <=> Linked(x, p)) /\ (Starting(x, p)' <=> Starting(x, p))
    BY DEF Linked, Starting, wqvars
  <1>d. op[t].at = "flush" /\ \A v \in Works : ~Claimed(t, v)
    BY UnclaimedFacts
  <1>p. ASSUME NEW v \in Works PROVE PendingInv(v)'
    <2>1. \A d \in Callers : Claimed(d, v)' <=> Claimed(d, v)
      BY <1>b, <1>d
    <2>2. PendingInv(v)
      BY DEF IInv
    <2> QED
      BY <2>1, <2>2, <1>c, PendingFrame DEF workvars
  <1> QED
    BY <1>0, <1>a, <1>p, CallMoves DEF Cancels, Waits, workvars, wqvars

\* destroy_workqueue() begins when nobody else uses the workqueue.
LEMMA DestroyWorkqueueKeeps ==
    ASSUME IInv, NEW t \in Tasks, NEW q \in Queues, DestroyWorkqueue(t, q)
    PROVE  IInv'
  <1> USE ConstantFacts DEF DestroyWorkqueue
  <1>0. /\ TypeOK
        /\ pending \in [Works -> BOOLEAN] /\ data \in [Works -> Queues \cup {NULL}]
        /\ timer \in [Works -> {"off", "armed", "running"}]
    BY DEF IInv, TypeOK
  <1>i. op[t].at = "idle" /\ op[t].work = NULL /\ op[t].cwq = NULL
    BY IdleFacts
  <1>g. /\ UNCHANGED <<pending, data, timer, current, stack, wpc, stopping>>
        /\ q \notin dying /\ Unused(q) /\ dying' = dying \cup {q}
    BY DEF workvars
  <1>1. CASE Busy(q)
    <2>0. FlushBarrier(t, q, "destroy") /\ "destroy" \in Places
      BY <1>1 DEF Places
    <2>1. OpTo(t, "destroy", NULL, q, 0)
      BY <1>0, <2>0, CallFacts DEF FlushBarrier
    <2>2. \A v \in Works : Claimed(t, v)' <=> Claimed(t, v)
      BY <1>i, <2>1, ClaimFacts, UnclaimedFacts DEF Claims
    <2>3. Unhandled(q) \subseteq Works \X {"queued", "running"} \X Queues
      BY DEF Unhandled
    <2>4. before' \in [Tasks -> SUBSET (Works \X {"queued", "running"} \X Queues)]
      BY <1>0, <2>0, <2>3 DEF TypeOK, FlushBarrier
    <2>5. InsertWork(q, ListAddTail(t, worklist[q])) /\ done' = [done EXCEPT ![t] = FALSE]
      BY <2>0 DEF FlushBarrier
    <2> HIDE DEF DestroyWorkqueue
    <2> QED
      BY <1>i, <1>g, <2>1, <2>2, <2>4, <2>5, BarrierPosts
  <1>2. CASE ~Busy(q)
    <2>h. UNCHANGED <<worklist, wstate, done, before>> /\ "stop" \in Places /\ Call(t, "stop", NULL, q)
      BY <1>2 DEF Places
    <2>a. OpTo(t, "stop", NULL, q, 0)
      BY <1>0, <2>h, CallFacts
    <2>e. worklist[q] = <<>>
      BY <1>2 DEF Busy, ListEmpty
    <2>k. op' \in [Callers -> OpRec] /\ dying' \subseteq Queues
      BY <2>a, <1>0 DEF OpTo, TypeOK
    <2> HIDE DEF DestroyWorkqueue
    <2>c. \A p \in Queues : \A x :
            (Linked(x, p)' <=> Linked(x, p)) /\ (Starting(x, p)' <=> Starting(x, p))
      BY <1>g, <2>h DEF Linked, Starting
    <2>b. /\ \A v \in Works : Claimed(t, v)' <=> FALSE
          /\ \A v \in Works, d \in Callers : d # t => (Claimed(d, v)' <=> Claimed(d, v))
      BY <2>a, ClaimFacts DEF Claims
    <2>o. \A v \in Works : ~Claimed(t, v)
      BY <1>i, UnclaimedFacts
    <2>u. \A u \in Tasks : Waits(u) => op'[u] = op[u] /\ done'[u] = done[u]
      BY <2>a, <2>h, <1>i DEF OpTo, Waits
    <2>1. TypeOK'
      BY <1>0, <1>g, <2>h, <2>k DEF TypeOK, OpRec, Places
    <2>2. ASSUME NEW d \in Callers PROVE CallInv(d)' /\ UserInv(d)'
      <3>1. CASE d = t
        BY <3>1, <2>a DEF OpTo, CallInv, UserInv, Queueing, Cancels
      <3>2. CASE d # t
        <4>1. op[d].cwq # q
          BY <1>g DEF Unused
        <4> QED
          BY <3>2, <4>1, <2>a, <1>g DEF OpTo, IInv, CallInv, UserInv
      <3> QED
        BY <3>1, <3>2
    <2>3. ASSUME NEW v \in Works PROVE PendingInv(v)'
      <3>1. \A d \in Callers : Claimed(d, v)' <=> Claimed(d, v)
        BY <2>b, <2>o
      <3>2. PendingInv(v)
        BY DEF IInv
      <3> QED
        BY <3>1, <3>2, <2>c, <1>g, PendingFrame
    <2>4. ASSUME NEW v \in Works PROVE TimerInv(v)'
      BY <1>g DEF IInv, TimerInv, Unused
    <2>5. ASSUME NEW p \in Queues PROVE WorkerInv(p)'
      BY <1>g, <2>h DEF IInv, WorkerInv
    <2>6. ASSUME NEW p \in Queues PROVE DyingInv(p)'
      <3>1. CASE p = q
        BY <3>1, <2>e, <1>g, <2>h DEF IInv, DyingInv, ListEmpty
      <3>2. CASE p # q
        <4>1. p \in dying' <=> p \in dying
          BY <3>2, <1>g
        <4>2. DyingInv(p)
          BY DEF IInv
        <4>3. ASSUME p \in dying, wpc[p] \notin InRun, ~ListEmpty(worklist[p])
              PROVE  \E u \in Tasks : op'[u].at = "destroy" /\ op'[u].cwq = p /\ ~done'[u]
          <5>1. PICK u \in Tasks : op[u].at = "destroy" /\ op[u].cwq = p /\ ~done[u]
            BY <4>2, <4>3 DEF DyingInv
          <5>2. op'[u] = op[u] /\ done'[u] = done[u]
            BY <2>u, <5>1 DEF Waits
          <5> QED
            BY <5>1, <5>2
        <4> QED
          BY <4>1, <4>2, <4>3, <1>g, <2>h DEF DyingInv
      <3> QED
        BY <3>1, <3>2
    <2>7. ASSUME NEW u \in Tasks PROVE BarrierInv(u)'
      BY <2>c, <1>g, <2>u, BarrierFrame DEF IInv
    <2>8. ASSUME NEW u \in Tasks PROVE DestroyerInv(u)'
      <3>1. \A s \in Tasks : op[s].at \in Destroying => op[s].cwq \in dying
        BY DEF IInv, DestroyerInv
      <3>2. q \notin stopping
        BY <1>0, <1>g DEF TypeOK
      <3>3. \A s \in Tasks : op'[s].at \in Destroying =>
               \/ s # t /\ op[s].at \in Destroying /\ op'[s] = op[s]
               \/ s = t /\ op'[s].cwq = q
        BY <2>a DEF OpTo, Destroying
      <3>4. op'[u].at \in Destroying => op'[u].cwq \in dying'
        BY <3>1, <3>3, <1>g
      <3>5. op'[u].at \in {"destroy", "stop"} => op'[u].cwq \notin stopping
        BY <3>2, <3>3 DEF IInv, DestroyerInv, Destroying
      <3>6. ASSUME NEW s \in Tasks, op'[u].at \in Destroying, op'[s].at \in Destroying,
                   op'[u].cwq = op'[s].cwq
            PROVE  u = s
        <4>1. CASE u = t \/ s = t
          BY <4>1, <3>1, <3>3, <3>6, <1>g
        <4>2. CASE u # t /\ s # t
          BY <4>2, <3>3, <3>6 DEF IInv, DestroyerInv
        <4> QED
          BY <4>1, <4>2
      <3> QED
        BY <3>4, <3>5, <3>6, <1>g DEF DestroyerInv
    <2> QED
      BY <2>1, <2>2, <2>3, <2>4, <2>5, <2>6, <2>7, <2>8 DEF IInv
  <1> QED
    BY <1>1, <1>2

\* destroy_workqueue() has flushed.
LEMMA DestroyFlushedKeeps ==
    ASSUME IInv, NEW t \in Tasks, DestroyFlushed(t)
    PROVE  IInv'
  <1> USE ConstantFacts DEF DestroyFlushed, workvars, wqvars
  <1>0. /\ TypeOK
        /\ pending \in [Works -> BOOLEAN] /\ data \in [Works -> Queues \cup {NULL}]
        /\ timer \in [Works -> {"off", "armed", "running"}]
    BY DEF IInv, TypeOK
  <1> DEFINE q == op[t].cwq
  <1>d. /\ q \in Queues /\ q \in dying /\ q \notin stopping /\ op[t].at = "destroy"
        /\ \A u \in Tasks : op[u].at \in Destroying /\ op[u].cwq = q => u = t
    BY DEF IInv, CallInv, DestroyerInv, Destroying
  <1>a. OpTo(t, "stop", op[t].work, op[t].cwq, op[t].ret)
    <2>1. "stop" \in Places
      BY DEF Places
    <2> QED
      BY <1>0, <2>1, GotoFacts
  <1>k. /\ op' \in [Callers -> OpRec]
        /\ op'[t].at = "stop" /\ op'[t].cwq = q /\ \A d \in Callers : d # t => op'[d] = op[d]
    BY <1>a DEF OpTo
  <1>b. /\ \A v \in Works : Claimed(t, v)' <=> FALSE
        /\ \A v \in Works, d \in Callers : d # t => (Claimed(d, v)' <=> Claimed(d, v))
    BY <1>a, ClaimFacts DEF Claims
  <1>c. \A p \in Queues : \A x : (Linked(x, p)' <=> Linked(x, p)) /\ (Starting(x, p)' <=> Starting(x, p))
    BY DEF Linked, Starting
  <1>o. \A v \in Works : ~Claimed(t, v)
    BY <1>d, UnclaimedFacts
  <1>w. \A u \in Tasks : Waits(u) => op'[u] = op[u] /\ done'[u] = done[u]
    BY <1>d, <1>k DEF Waits
  <1>g. /\ UNCHANGED <<pending, data, timer, stopping, dying, done, before>>
        /\ UNCHANGED <<worklist, current, stack, wpc, wstate>>
    OBVIOUS
  <1> HIDE DEF q, DestroyFlushed
  <1>1. TypeOK'
    BY <1>0, <1>g, <1>k DEF TypeOK, OpTo, OpRec, Places
  <1>2. ASSUME NEW d \in Callers PROVE CallInv(d)'
    BY <1>d, <1>g, <1>k DEF IInv, CallInv, OpTo, Queueing, Cancels
  <1>3. ASSUME NEW d \in Callers PROVE UserInv(d)'
    BY <1>g, <1>k DEF IInv, UserInv
  <1>4. ASSUME NEW v \in Works PROVE PendingInv(v)'
    <2>1. \A d \in Callers : Claimed(d, v)' <=> Claimed(d, v)
      BY <1>b, <1>o
    <2>2. PendingInv(v)
      BY DEF IInv
    <2> QED
      BY <2>1, <2>2, <1>c, <1>g, PendingFrame
  <1>5. ASSUME NEW v \in Works PROVE TimerInv(v)'
    BY <1>g DEF IInv, TimerInv
  <1>6. ASSUME NEW p \in Queues PROVE WorkerInv(p)'
    BY <1>g DEF IInv, WorkerInv
  <1>7. ASSUME NEW p \in Queues PROVE DyingInv(p)'
    BY <1>0, <1>g, <1>w, DyingFrame DEF IInv
  <1>8. ASSUME NEW u \in Tasks PROVE BarrierInv(u)'
    BY <1>0, <1>c, <1>g, <1>w, BarrierFrame DEF IInv
  <1>9. ASSUME NEW u \in Tasks PROVE DestroyerInv(u)'
    BY <1>d, <1>g, <1>k DEF IInv, DestroyerInv
  <1> QED
    BY <1>1, <1>2, <1>3, <1>4, <1>5, <1>6, <1>7, <1>8, <1>9 DEF IInv

\* destroy_workqueue() stops the thread.
LEMMA DestroyStopKeeps ==
    ASSUME IInv, NEW t \in Tasks, DestroyStop(t)
    PROVE  IInv'
  <1> USE ConstantFacts DEF DestroyStop, workvars
  <1>0. /\ TypeOK
        /\ pending \in [Works -> BOOLEAN] /\ data \in [Works -> Queues \cup {NULL}]
        /\ timer \in [Works -> {"off", "armed", "running"}]
    BY DEF IInv, TypeOK
  <1> DEFINE q == op[t].cwq
  <1>d. /\ q \in Queues /\ q \in dying /\ q \notin stopping /\ op[t].at = "stop"
        /\ \A u \in Tasks : op[u].at \in Destroying /\ op[u].cwq = q => u = t
    BY DEF IInv, CallInv, DestroyerInv, Destroying
  <1>a. OpTo(t, "reap", op[t].work, op[t].cwq, op[t].ret)
    <2>1. "reap" \in Places
      BY DEF Places
    <2> QED
      BY <1>0, <2>1, GotoFacts
  <1>k. /\ op' \in [Callers -> OpRec]
        /\ op'[t].at = "reap" /\ op'[t].cwq = q /\ \A d \in Callers : d # t => op'[d] = op[d]
    BY <1>a DEF OpTo
  <1>b. /\ \A v \in Works : Claimed(t, v)' <=> FALSE
        /\ \A v \in Works, d \in Callers : d # t => (Claimed(d, v)' <=> Claimed(d, v))
    BY <1>a, ClaimFacts DEF Claims
  <1>c. \A p \in Queues : \A x : (Linked(x, p)' <=> Linked(x, p)) /\ (Starting(x, p)' <=> Starting(x, p))
    BY DEF Linked, Starting
  <1>o. \A v \in Works : ~Claimed(t, v)
    BY <1>d, UnclaimedFacts
  <1>w. \A u \in Tasks : Waits(u) => op'[u] = op[u] /\ done'[u] = done[u]
    BY <1>d, <1>k DEF Waits
  <1>g. /\ UNCHANGED <<pending, data, timer, dying, done, before>>
        /\ UNCHANGED <<worklist, current, stack, wpc>> /\ stopping' = stopping \cup {q}
        /\ wstate' = [wstate EXCEPT ![q] = "TASK_RUNNING"]
    OBVIOUS
  <1> HIDE DEF q, DestroyStop
  <1>1. TypeOK'
    BY <1>0, <1>d, <1>g, <1>k DEF TypeOK, OpTo, OpRec, Places
  <1>2. ASSUME NEW d \in Callers PROVE CallInv(d)'
    BY <1>d, <1>g, <1>k DEF IInv, CallInv, OpTo, Queueing, Cancels
  <1>3. ASSUME NEW d \in Callers PROVE UserInv(d)'
    BY <1>g, <1>k DEF IInv, UserInv
  <1>4. ASSUME NEW v \in Works PROVE PendingInv(v)'
    <2>1. \A d \in Callers : Claimed(d, v)' <=> Claimed(d, v)
      BY <1>b, <1>o
    <2>2. PendingInv(v)
      BY DEF IInv
    <2> QED
      BY <2>1, <2>2, <1>c, <1>g, PendingFrame
  <1>5. ASSUME NEW v \in Works PROVE TimerInv(v)'
    BY <1>g DEF IInv, TimerInv
  <1>6. ASSUME NEW p \in Queues PROVE WorkerInv(p)'
    BY <1>g DEF IInv, TypeOK, WorkerInv
  <1>7. ASSUME NEW p \in Queues PROVE DyingInv(p)'
    BY <1>0, <1>g, <1>w, DyingFrame DEF IInv
  <1>8. ASSUME NEW u \in Tasks PROVE BarrierInv(u)'
    BY <1>0, <1>c, <1>g, <1>w, BarrierFrame DEF IInv
  <1>9. ASSUME NEW u \in Tasks PROVE DestroyerInv(u)'
    BY <1>d, <1>g, <1>k DEF IInv, DestroyerInv, Destroying, OpTo
  <1> QED
    BY <1>1, <1>2, <1>3, <1>4, <1>5, <1>6, <1>7, <1>8, <1>9 DEF IInv

\* destroy_workqueue() returns.
LEMMA DestroyReturnsKeeps ==
    ASSUME IInv, NEW t \in Tasks, DestroyReturns(t)
    PROVE  IInv'
  <1> USE ConstantFacts DEF DestroyReturns
  <1>0. /\ TypeOK
        /\ pending \in [Works -> BOOLEAN] /\ data \in [Works -> Queues \cup {NULL}]
        /\ timer \in [Works -> {"off", "armed", "running"}]
    BY DEF IInv, TypeOK
  <1>a. OpTo(t, "idle", NULL, NULL, 0)
    BY <1>0, ReturnFacts
  <1>b. /\ \A v \in Works : Claimed(t, v)' <=> FALSE
        /\ \A v \in Works, d \in Callers : d # t => (Claimed(d, v)' <=> Claimed(d, v))
    BY <1>a, ClaimFacts DEF Claims
  <1>c. \A p \in Queues : \A x : (Linked(x, p)' <=> Linked(x, p)) /\ (Starting(x, p)' <=> Starting(x, p))
    BY DEF Linked, Starting, wqvars
  <1>d. op[t].at = "reap" /\ \A v \in Works : ~Claimed(t, v)
    BY UnclaimedFacts
  <1>p. ASSUME NEW v \in Works PROVE PendingInv(v)'
    <2>1. \A d \in Callers : Claimed(d, v)' <=> Claimed(d, v)
      BY <1>b, <1>d
    <2>2. PendingInv(v)
      BY DEF IInv
    <2> QED
      BY <2>1, <2>2, <1>c, PendingFrame DEF workvars
  <1> QED
    BY <1>0, <1>a, <1>p, CallMoves DEF Cancels, Waits, workvars, wqvars

-----------------------------------------------------------------------------
(* Cancelling. *)

\* The claim passes from the timer to the cancellation.
LEMMA CancelDelayedWorkKeeps ==
    ASSUME IInv, NEW t \in Tasks, NEW w \in Works, CancelDelayedWork(t, w)
    PROVE  IInv'
  <1> USE ConstantFacts DEF CancelDelayedWork
  <1>0. /\ TypeOK
        /\ pending \in [Works -> BOOLEAN] /\ data \in [Works -> Queues \cup {NULL}]
        /\ timer \in [Works -> {"off", "armed", "running"}]
    BY DEF IInv, TypeOK
  <1>a. OpTo(t, "undelay", w, NULL, 0) /\ op[t].at = "idle" /\ op[t].cwq = NULL
    <2>1. op[t].at = "idle" /\ op[t].work = NULL /\ op[t].cwq = NULL
      BY IdleFacts
    <2>2. "undelay" \in Places
      BY DEF Places
    <2> QED
      BY <1>0, <2>1, <2>2, CallFacts
  <1>b. /\ \A v \in Works : Claimed(t, v)' <=> v = w
        /\ \A v \in Works, d \in Callers : d # t => (Claimed(d, v)' <=> Claimed(d, v))
    BY <1>a, ClaimFacts DEF Claims
  <1>c. \A p \in Queues : \A x : (Linked(x, p)' <=> Linked(x, p)) /\ (Starting(x, p)' <=> Starting(x, p))
    BY DEF Linked, Starting, wqvars
  <1>o. \A v \in Works : ~Claimed(t, v)
    BY <1>a, UnclaimedFacts
  <1>e. /\ pending[w] /\ \A d \in Callers : ~Claimed(d, w)
        /\ \A p \in Queues : ~Linked(w, p) /\ ~Starting(w, p)
    BY DEF IInv, PendingInv
  <1>f. pending'[w] /\ timer'[w] = "off"
    BY <1>0, <1>e
  <1>p. ASSUME NEW v \in Works PROVE PendingInv(v)'
    <2>1. CASE v = w
      BY <2>1, <1>b, <1>c, <1>e, <1>f DEF PendingInv
    <2>2. CASE v # w
      <3>1. pending'[v] = pending[v] /\ data'[v] = data[v] /\ timer'[v] = timer[v]
        BY <2>2, <1>0
      <3>2. \A d \in Callers : Claimed(d, v)' <=> Claimed(d, v)
        BY <2>2, <1>b, <1>o
      <3>3. PendingInv(v)
        BY DEF IInv
      <3> QED
        BY <3>1, <3>2, <3>3, <1>c, PendingFrame
    <2> QED
      BY <2>1, <2>2
  <1> QED
    BY <1>0, <1>a, <1>p, CallMoves DEF Cancels, Waits, workvars, wqvars

\* A cancellation begins without a claim.
LEMMA CancelWorkSyncKeeps ==
    ASSUME IInv, NEW t \in Tasks, NEW w \in Works, NEW delayed \in BOOLEAN, CancelWorkSync(t, w, delayed)
    PROVE  IInv'
  <1> USE ConstantFacts DEF CancelWorkSync
  <1>0. /\ TypeOK
        /\ pending \in [Works -> BOOLEAN] /\ data \in [Works -> Queues \cup {NULL}]
        /\ timer \in [Works -> {"off", "armed", "running"}]
    BY DEF IInv, TypeOK
  <1> DEFINE x == [at |-> "cancel", work |-> w, cwq |-> NULL, timer |-> delayed, ret |-> 0]
  <1>1. x \in OpRec /\ x.at = "cancel" /\ x.work = w /\ x.cwq = NULL /\ x.ret = 0
    BY DEF OpRec, Places
  <1>2. op' = [op EXCEPT ![t] = x]
    OBVIOUS
  <1> HIDE DEF x
  <1>3. OpTo(t, x.at, x.work, x.cwq, x.ret)
    BY <1>0, <1>1, <1>2, OpFacts
  <1>a. OpTo(t, "cancel", w, NULL, 0)
    BY <1>1, <1>3
  <1>b. /\ \A v \in Works : Claimed(t, v)' <=> FALSE
        /\ \A v \in Works, d \in Callers : d # t => (Claimed(d, v)' <=> Claimed(d, v))
    BY <1>a, ClaimFacts DEF Claims
  <1>c. \A p \in Queues : \A y : (Linked(y, p)' <=> Linked(y, p)) /\ (Starting(y, p)' <=> Starting(y, p))
    BY DEF Linked, Starting, wqvars
  <1>d. op[t].at = "idle" /\ \A v \in Works : ~Claimed(t, v)
    BY IdleFacts, UnclaimedFacts
  <1>p. ASSUME NEW v \in Works PROVE PendingInv(v)'
    <2>1. \A d \in Callers : Claimed(d, v)' <=> Claimed(d, v)
      BY <1>b, <1>d
    <2>2. PendingInv(v)
      BY DEF IInv
    <2> QED
      BY <2>1, <2>2, <1>c, PendingFrame DEF workvars
  <1> QED
    BY <1>0, <1>a, <1>p, <1>d, CallMoves DEF Cancels, Waits, workvars, wqvars

\* The timer loses its claim, or it was not armed.
LEMMA CancelDelTimerKeeps ==
    ASSUME IInv, NEW t \in Tasks, CancelDelTimer(t)
    PROVE  IInv'
  <1> USE ConstantFacts DEF CancelDelTimer
  <1>0. /\ TypeOK
        /\ pending \in [Works -> BOOLEAN] /\ data \in [Works -> Queues \cup {NULL}]
        /\ timer \in [Works -> {"off", "armed", "running"}]
    BY DEF IInv, TypeOK
  <1> DEFINE w == op[t].work
  <1>d. w \in Works /\ op[t].at = "cancel"
    BY DEF IInv, CallInv, Cancels
  <1>c. \A p \in Queues : \A x : (Linked(x, p)' <=> Linked(x, p)) /\ (Starting(x, p)' <=> Starting(x, p))
    BY DEF Linked, Starting, wqvars
  <1>o. \A v \in Works : ~Claimed(t, v)
    BY <1>d, UnclaimedFacts
  <1>1. CASE op[t].timer /\ timer[w] = "armed"
    <2>f. timer' = [timer EXCEPT ![w] = "off"] /\ UNCHANGED <<pending, data>>
      BY <1>1
    <2>a. OpTo(t, "wait_on", w, NULL, 1)
      BY <1>0, <1>1, ResultFacts
    <2>b. /\ \A v \in Works : Claimed(t, v)' <=> v = w
          /\ \A v \in Works, d \in Callers : d # t => (Claimed(d, v)' <=> Claimed(d, v))
      BY <2>a, ClaimFacts DEF Claims
    <2>e. /\ pending[w] /\ \A d \in Callers : ~Claimed(d, w)
          /\ \A p \in Queues : ~Linked(w, p) /\ ~Starting(w, p)
      BY <1>1, <1>0, <1>d DEF IInv, PendingInv
    <2>g. pending'[w] /\ timer'[w] = "off"
      BY <1>0, <2>e, <2>f, <1>d
    <2>p. ASSUME NEW v \in Works PROVE PendingInv(v)'
      <3>1. CASE v = w
        BY <3>1, <2>b, <1>c, <2>e, <2>g DEF PendingInv
      <3>2. CASE v # w
        <4>1. pending'[v] = pending[v] /\ data'[v] = data[v] /\ timer'[v] = timer[v]
          BY <3>2, <1>0, <2>f
        <4>2. \A d \in Callers : Claimed(d, v)' <=> Claimed(d, v)
          BY <3>2, <2>b, <1>o
        <4>3. PendingInv(v)
          BY DEF IInv
        <4> QED
          BY <4>1, <4>2, <4>3, <1>c, PendingFrame
      <3> QED
        BY <3>1, <3>2
    <2> QED
      BY <1>0, <2>a, <2>p, <1>d, CallMoves DEF Cancels, Waits, workvars, wqvars
  <1>2. CASE ~(op[t].timer /\ timer[w] = "armed")
    <2>f. UNCHANGED <<pending, data, timer>>
      BY <1>2
    <2>a. OpTo(t, "grab", w, op[t].cwq, op[t].ret)
      <3>1. "grab" \in Places /\ Goto(t, "grab")
        BY <1>2 DEF Places
      <3> QED
        BY <1>0, <3>1, GotoFacts
    <2>b. /\ \A v \in Works : Claimed(t, v)' <=> FALSE
          /\ \A v \in Works, d \in Callers : d # t => (Claimed(d, v)' <=> Claimed(d, v))
      BY <2>a, ClaimFacts DEF Claims
    <2>p. ASSUME NEW v \in Works PROVE PendingInv(v)'
      <3>1. \A d \in Callers : Claimed(d, v)' <=> Claimed(d, v)
        BY <2>b, <1>o
      <3>2. PendingInv(v)
        BY DEF IInv
      <3> QED
        BY <3>1, <3>2, <1>c, <2>f, PendingFrame DEF workvars
    <2>g. op[t].cwq \in Queues \cup {NULL} /\ op[t].ret \in {-1, 0, 1}
      BY <1>0 DEF TypeOK
    <2> QED
      BY <1>0, <2>a, <2>p, <1>d, <2>f, <2>g, CallMoves DEF Cancels, Waits, workvars, wqvars
  <1> QED
    BY <1>1, <1>2

\* The bit is claimed if nobody had it.
LEMMA TryToGrabPendingKeeps ==
    ASSUME IInv, NEW t \in Tasks, TryToGrabPending(t)
    PROVE  IInv'
  <1> USE ConstantFacts DEF TryToGrabPending
  <1>0. /\ TypeOK
        /\ pending \in [Works -> BOOLEAN] /\ data \in [Works -> Queues \cup {NULL}]
        /\ timer \in [Works -> {"off", "armed", "running"}]
    BY DEF IInv, TypeOK
  <1> DEFINE w == op[t].work
  <1>d. w \in Works /\ op[t].at = "grab"
    BY DEF IInv, CallInv, Cancels
  <1>c. \A p \in Queues : \A x : (Linked(x, p)' <=> Linked(x, p)) /\ (Starting(x, p)' <=> Starting(x, p))
    BY DEF Linked, Starting, wqvars
  <1>o. \A v \in Works : ~Claimed(t, v)
    BY <1>d, UnclaimedFacts
  <1>g. pending' = [pending EXCEPT ![w] = TRUE] /\ UNCHANGED <<data, timer>>
    OBVIOUS
  <1>h. pending' \in [Works -> BOOLEAN]
    BY <1>0, <1>d, <1>g
  <1>k. /\ op[t].at \notin {"destroy", "stop"} /\ ~Waits(t)
        /\ timer' \in [Works -> {"off", "armed", "running"}]
        /\ \A v \in Works : timer'[v] = timer[v] \/ timer'[v] = "off"
        /\ UNCHANGED <<data, stopping, dying, done, before>>
        /\ UNCHANGED <<worklist, current, stack, wpc, wstate>>
    BY <1>0, <1>d, <1>g DEF Waits, workvars, wqvars
  <1>1. CASE ~pending[w] /\ Result(t, 0)
    <2>a. OpTo(t, "wait_on", w, NULL, 0)
      BY <1>0, <1>1, ResultFacts
    <2>b. /\ \A v \in Works : Claimed(t, v)' <=> v = w
          /\ \A v \in Works, d \in Callers : d # t => (Claimed(d, v)' <=> Claimed(d, v))
      BY <2>a, ClaimFacts DEF Claims
    <2>e. /\ timer[w] = "off" /\ \A d \in Callers : ~Claimed(d, w)
          /\ \A p \in Queues : ~Linked(w, p) /\ ~Starting(w, p)
      BY <1>1, <1>d DEF IInv, PendingInv
    <2>f. pending'[w] /\ timer'[w] = "off"
      BY <1>0, <2>e, <1>d, <1>g
    <2>p. ASSUME NEW v \in Works PROVE PendingInv(v)'
      <3>1. CASE v = w
        BY <3>1, <2>b, <1>c, <2>e, <2>f DEF PendingInv
      <3>2. CASE v # w
        <4>1. pending'[v] = pending[v] /\ data'[v] = data[v] /\ timer'[v] = timer[v]
          BY <3>2, <1>0, <1>g
        <4>2. \A d \in Callers : Claimed(d, v)' <=> Claimed(d, v)
          BY <3>2, <2>b, <1>o
        <4>3. PendingInv(v)
          BY DEF IInv
        <4> QED
          BY <4>1, <4>2, <4>3, <1>c, PendingFrame
      <3> QED
        BY <3>1, <3>2
    <2> QED
      BY <2>a, <2>p, <1>d, <1>h, <1>k, CallMoves DEF Cancels
  <1>2. CASE pending[w] /\ data[w] = NULL /\ Result(t, -1)
    <2>f. \A v \in Works : pending'[v] = pending[v] /\ data'[v] = data[v] /\ timer'[v] = timer[v]
      BY <1>2, <1>0, <1>d
    <2>a. OpTo(t, "wait_on", w, NULL, -1)
      BY <1>0, <1>2, ResultFacts
    <2>b. /\ \A v \in Works : Claimed(t, v)' <=> FALSE
          /\ \A v \in Works, d \in Callers : d # t => (Claimed(d, v)' <=> Claimed(d, v))
      BY <2>a, ClaimFacts DEF Claims
    <2>p. ASSUME NEW v \in Works PROVE PendingInv(v)'
      <3>1. \A d \in Callers : Claimed(d, v)' <=> Claimed(d, v)
        BY <2>b, <1>o
      <3>2. PendingInv(v)
        BY DEF IInv
      <3> QED
        BY <3>1, <3>2, <1>c, <2>f, PendingFrame
    <2> QED
      BY <2>a, <2>p, <1>d, <1>h, <1>k, CallMoves DEF Cancels
  <1>3. CASE /\ pending[w] /\ data[w] # NULL
             /\ op' = [op EXCEPT ![t] = [at |-> "steal", work |-> w, cwq |-> data[w],
                                         timer |-> op[t].timer, ret |-> op[t].ret]]
    <2> DEFINE y == [at |-> "steal", work |-> w, cwq |-> data[w],
                     timer |-> op[t].timer, ret |-> op[t].ret]
    <2>e. data[w] \in Queues /\ op[t].ret \in {-1, 0, 1} /\ op[t].timer \in BOOLEAN
      BY <1>3, <1>0, <1>d DEF TypeOK
    <2>1. y \in OpRec /\ y.at = "steal" /\ y.work = w /\ y.cwq = data[w] /\ y.ret = op[t].ret
      BY <1>d, <2>e DEF OpRec, Places
    <2>2. op' = [op EXCEPT ![t] = y]
      BY <1>3
    <2> HIDE DEF y
    <2>3. OpTo(t, y.at, y.work, y.cwq, y.ret)
      BY <1>0, <2>1, <2>2, OpFacts
    <2>a. OpTo(t, "steal", w, data[w], op[t].ret)
      BY <2>1, <2>3
    <2>f. \A v \in Works : pending'[v] = pending[v] /\ data'[v] = data[v] /\ timer'[v] = timer[v]
      BY <1>3, <1>0, <1>d
    <2>b. /\ \A v \in Works : Claimed(t, v)' <=> FALSE
          /\ \A v \in Works, d \in Callers : d # t => (Claimed(d, v)' <=> Claimed(d, v))
      BY <2>a, ClaimFacts DEF Claims
    <2>p. ASSUME NEW v \in Works PROVE PendingInv(v)'
      <3>1. \A d \in Callers : Claimed(d, v)' <=> Claimed(d, v)
        BY <2>b, <1>o
      <3>2. PendingInv(v)
        BY DEF IInv
      <3> QED
        BY <3>1, <3>2, <1>c, <2>f, PendingFrame
    <2> QED
      BY <2>a, <2>p, <1>d, <2>e, <1>h, <1>k, CallMoves DEF Cancels
  <1> QED
    BY <1>1, <1>2, <1>3

\* The claim passes from the list to the cancellation.
LEMMA StealPendingKeeps ==
    ASSUME IInv, NEW t \in Tasks, StealPending(t)
    PROVE  IInv'
  <1> USE ConstantFacts DEF StealPending
  <1>0. /\ TypeOK
        /\ pending \in [Works -> BOOLEAN] /\ data \in [Works -> Queues \cup {NULL}]
        /\ timer \in [Works -> {"off", "armed", "running"}]
    BY DEF IInv, TypeOK
  <1> DEFINE w == op[t].work
             q == op[t].cwq
  <1>d. w \in Works /\ q \in Queues /\ op[t].at = "steal"
    BY DEF IInv, CallInv, Cancels
  <1>o. \A v \in Works : ~Claimed(t, v)
    BY <1>d, UnclaimedFacts
  <1>g. UNCHANGED <<pending, data, timer, current, stack, wpc, wstate, stopping, dying, done>>
    BY DEF workvars
  <1>1. CASE data[w] = q /\ \E p \in Queues : w \in Entries(worklist[p])
    <2>l. Linked(w, q) /\ worklist' = [worklist EXCEPT ![q] = ListDel(w, @)]
      BY <1>1, <1>d DEF IInv, PendingInv, Linked
    <2>e. /\ pending[w] /\ timer[w] = "off" /\ data[w] = q /\ \A d \in Callers : ~Claimed(d, w)
          /\ \A p \in Queues : ~Starting(w, p) /\ (Linked(w, p) => p = q)
      BY <2>l, <1>d DEF IInv, PendingInv
    <2>a. OpTo(t, "wait_on", w, NULL, 1)
      BY <1>0, <1>1, ResultFacts
    <2>b. /\ \A v \in Works : Claimed(t, v)' <=> v = w
          /\ \A v \in Works, d \in Callers : d # t => (Claimed(d, v)' <=> Claimed(d, v))
      BY <2>a, ClaimFacts DEF Claims
    <2>m. /\ worklist' \in [Queues -> Seq(Works \cup Tasks)] /\ NoDuplicates(worklist'[q])
          /\ worklist[q] # <<>>
          /\ \A p \in Queues : p # q => worklist'[p] = worklist[p]
          /\ \A p \in Queues : \A y : Linked(y, p)' <=> Linked(y, p) /\ ~(p = q /\ y = w)
      <3> DEFINE S == Works \cup Tasks
                 l == worklist[q]
                 m == ListDel(w, l)
      <3>1. worklist \in [Queues -> Seq(S)] /\ l \in Seq(S) /\ w \in Entries(l) /\ NoDuplicates(l)
        BY <1>d, <2>l DEF TypeOK, Linked, IInv, WorkerInv
      <3>2. m \in Seq(S) /\ Entries(m) = Entries(l) \ {w} /\ NoDuplicates(m) /\ l # <<>>
        <4> HIDE DEF S, l, w
        <4>1. m \in Seq(S) /\ Entries(m) = Entries(l) \ {w} /\ NoDuplicates(m)
          BY <3>1, ListDelFacts
        <4>2. l # <<>>
          BY <3>1 DEF Entries
        <4> QED
          BY <4>1, <4>2
      <3>3. worklist' = [worklist EXCEPT ![q] = m]
        BY <2>l
      <3> HIDE DEF m
      <3>4. worklist'[q] = m /\ \A p \in Queues : p # q => worklist'[p] = worklist[p]
        BY <3>1, <3>3, <1>d
      <3>5. ASSUME NEW p \in Queues, NEW y
            PROVE  Linked(y, p)' <=> Linked(y, p) /\ ~(p = q /\ y = w)
        BY <3>2, <3>4 DEF Linked
      <3> QED
        BY <3>1, <3>2, <3>3, <3>4, <3>5
    <2>s. \A p \in Queues : \A y : Starting(y, p)' <=> Starting(y, p)
      BY DEF Starting
    <2>u. \A u \in Tasks : Waits(u) => op'[u] = op[u] /\ done'[u] = done[u]
      BY <2>a, <1>d DEF OpTo, Waits
    <2>f. before' \in [Tasks -> SUBSET (Works \X {"queued", "running"} \X Queues)]
      BY <1>1, <1>0 DEF TypeOK, Handled
    <2>t. op' \in [Callers -> OpRec]
      BY <2>a DEF OpTo
    <2> HIDE DEF w, q, StealPending
    <2>1. TypeOK'
      BY <1>0, <2>f, <1>g, <2>m, <2>t DEF TypeOK, OpRec, Places
    <2>2. ASSUME NEW d \in Callers PROVE CallInv(d)' /\ UserInv(d)'
      <3>1. CASE d = t
        BY <3>1, <2>a, <1>d DEF OpTo, CallInv, UserInv, Queueing, Destroying
      <3>2. CASE d # t
        BY <3>2, <2>a, <1>g DEF OpTo, IInv, CallInv, UserInv
      <3> QED
        BY <3>1, <3>2
    <2>3. ASSUME NEW v \in Works PROVE PendingInv(v)'
      <3>1. CASE v = w
        BY <3>1, <2>b, <2>e, <1>g, <2>m, <2>s DEF PendingInv
      <3>2. CASE v # w
        <4>1. \A d \in Callers : Claimed(d, v)' <=> Claimed(d, v)
          BY <3>2, <2>b, <1>o
        <4>2. \A p \in Queues : (Linked(v, p)' <=> Linked(v, p)) /\ (Starting(v, p)' <=> Starting(v, p))
          BY <3>2, <2>m, <2>s
        <4>3. PendingInv(v)
          BY DEF IInv
        <4> QED
          BY <4>1, <4>2, <4>3, <1>g, PendingFrame
      <3> QED
        BY <3>1, <3>2
    <2>4. ASSUME NEW v \in Works PROVE TimerInv(v)'
      BY <1>g DEF IInv, TimerInv
    <2>5. ASSUME NEW p \in Queues PROVE WorkerInv(p)'
      <3>1. ListEmpty(worklist[p]) => ListEmpty(worklist'[p])
        BY <2>m DEF ListEmpty
      <3>2. NoDuplicates(worklist'[p])
        BY <2>m DEF IInv, WorkerInv
      <3> QED
        BY <3>1, <3>2, <1>g DEF IInv, WorkerInv
    <2>6. ASSUME NEW p \in Queues PROVE DyingInv(p)'
      <3>1. ListEmpty(worklist[p]) => ListEmpty(worklist'[p])
        BY <2>m DEF ListEmpty
      <3> QED
        BY <3>1, <1>g, <2>u, DyingFrame DEF IInv
    <2>7. ASSUME NEW u \in Tasks PROVE BarrierInv(u)'
      <3>1. \A p \in Queues : Linked(u, p)' <=> Linked(u, p)
        BY <1>d, <2>m
      <3> QED
        BY <3>1, <1>g, <2>u, BarrierFrame DEF IInv
    <2>8. ASSUME NEW u \in Tasks PROVE DestroyerInv(u)'
      BY <2>a, <1>g DEF IInv, DestroyerInv, Destroying, OpTo
    <2> QED
      BY <2>1, <2>2, <2>3, <2>4, <2>5, <2>6, <2>7, <2>8 DEF IInv
  <1>2. CASE ~(data[w] = q /\ \E p \in Queues : w \in Entries(worklist[p]))
    <2>f. Result(t, -1) /\ UNCHANGED <<worklist, before>>
      BY <1>2
    <2>a. OpTo(t, "wait_on", w, NULL, -1)
      BY <1>0, <2>f, ResultFacts
    <2>c. \A p \in Queues : \A x :
            (Linked(x, p)' <=> Linked(x, p)) /\ (Starting(x, p)' <=> Starting(x, p))
      BY <2>f, <1>g DEF Linked, Starting
    <2>b. /\ \A v \in Works : Claimed(t, v)' <=> FALSE
          /\ \A v \in Works, d \in Callers : d # t => (Claimed(d, v)' <=> Claimed(d, v))
      BY <2>a, ClaimFacts DEF Claims
    <2>p. ASSUME NEW v \in Works PROVE PendingInv(v)'
      <3>1. \A d \in Callers : Claimed(d, v)' <=> Claimed(d, v)
        BY <2>b, <1>o
      <3>2. PendingInv(v)
        BY DEF IInv
      <3> QED
        BY <3>1, <3>2, <2>c, <1>g, PendingFrame
    <2> QED
      BY <1>0, <2>a, <2>p, <1>d, <2>f, <1>g, CallMoves DEF Cancels, Waits
  <1> QED
    BY <1>1, <1>2

\* A barrier goes behind the work that executes.
LEMMA WaitOnWorkKeeps ==
    ASSUME IInv, NEW t \in Tasks, WaitOnWork(t)
    PROVE  IInv'
  <1> USE ConstantFacts DEF WaitOnWork
  <1>0. /\ TypeOK
        /\ pending \in [Works -> BOOLEAN] /\ data \in [Works -> Queues \cup {NULL}]
        /\ timer \in [Works -> {"off", "armed", "running"}]
    BY DEF IInv, TypeOK
  <1> DEFINE w == op[t].work
             q == data[w]
  <1>d. /\ w \in Works /\ op[t].at = "wait_on" /\ q \in Queues \cup {NULL}
        /\ op[t].cwq \in Queues \cup {NULL} /\ op[t].ret \in {-1, 0, 1} /\ "waiting" \in Places
    BY <1>0 DEF IInv, TypeOK, CallInv, Cancels, Places
  <1>g. UNCHANGED <<pending, data, timer, current, stack, wpc, stopping, dying, before>>
    BY DEF workvars
  <1>1. CASE q # NULL /\ current[q] = w
    <2>1. /\ InsertWork(q, ListAdd(t, worklist[q])) /\ done' = [done EXCEPT ![t] = FALSE]
          /\ Goto(t, "waiting")
      BY <1>1
    <2>2. OpTo(t, "waiting", w, op[t].cwq, op[t].ret)
      BY <1>0, <1>d, <2>1, GotoFacts
    <2>3. \A v \in Works : Claimed(t, v)' <=> Claimed(t, v)
      BY <1>d, <2>2, ClaimFacts DEF Claims, Claimed
    <2>4. q \in Queues /\ wpc[q] \in InRun
      BY <1>1, <1>d DEF IInv, WorkerInv
    <2>5. before' \in [Tasks -> SUBSET (Works \X {"queued", "running"} \X Queues)]
      BY <1>0, <1>g DEF TypeOK
    <2> HIDE DEF w, q, WaitOnWork
    <2> QED
      BY ZenonT(60), <1>d, <1>g, <2>1, <2>2, <2>3, <2>4, <2>5, BarrierPosts
  <1>2. CASE ~(q # NULL /\ current[q] = w)
    <2>1. UNCHANGED <<worklist, wstate, done>> /\ Goto(t, AfterWait(t))
      BY <1>2
    <2>2. AfterWait(t) \in {"cancel", "clear"} /\ AfterWait(t) \in Places
      BY DEF AfterWait, Places
    <2>3. OpTo(t, AfterWait(t), w, op[t].cwq, op[t].ret)
      BY <1>0, <2>1, <2>2, GotoFacts
    <2>4. \A v \in Works, d \in Callers : Claimed(d, v)' <=> Claimed(d, v)
      BY <1>d, <2>3, ClaimFacts DEF Claims, Claimed, AfterWait
    <2>5. \A p \in Queues : \A x :
            (Linked(x, p)' <=> Linked(x, p)) /\ (Starting(x, p)' <=> Starting(x, p))
      BY <1>g, <2>1 DEF Linked, Starting
    <2>6. ASSUME NEW v \in Works PROVE PendingInv(v)'
      <3>1. PendingInv(v)
        BY DEF IInv
      <3> QED
        BY <3>1, <1>g, <2>4, <2>5, PendingFrame
    <2> QED
      BY <1>0, <1>d, <1>g, <2>1, <2>2, <2>3, <2>6, CallMoves DEF Cancels, Waits
  <1> QED
    BY <1>1, <1>2

\* The wait is over.
LEMMA WaitOnWorkDoneKeeps ==
    ASSUME IInv, NEW t \in Tasks, WaitOnWorkDone(t)
    PROVE  IInv'
  <1> USE ConstantFacts DEF WaitOnWorkDone
  <1>0. /\ TypeOK
        /\ pending \in [Works -> BOOLEAN] /\ data \in [Works -> Queues \cup {NULL}]
        /\ timer \in [Works -> {"off", "armed", "running"}]
    BY DEF IInv, TypeOK
  <1>d. op[t].work \in Works /\ AfterWait(t) \in Places
    BY DEF IInv, CallInv, Cancels, AfterWait, Places
  <1>a. OpTo(t, AfterWait(t), op[t].work, op[t].cwq, op[t].ret)
    BY <1>0, <1>d, GotoFacts
  <1>e. op[t].cwq \in Queues \cup {NULL} /\ op[t].ret \in {-1, 0, 1}
    BY <1>0 DEF TypeOK
  <1>b. \A v \in Works, d \in Callers : Claimed(d, v)' <=> Claimed(d, v)
    BY <1>a, <1>e, ClaimFacts DEF Claims, Claimed, AfterWait
  <1>c. \A p \in Queues : \A x : (Linked(x, p)' <=> Linked(x, p)) /\ (Starting(x, p)' <=> Starting(x, p))
    BY DEF Linked, Starting, wqvars
  <1>p. ASSUME NEW v \in Works PROVE PendingInv(v)'
    <2>1. \A d \in Callers : Claimed(d, v)' <=> Claimed(d, v)
      BY <1>b
    <2>2. PendingInv(v)
      BY DEF IInv
    <2> QED
      BY <2>1, <2>2, <1>c, PendingFrame DEF workvars
  <1>f. AfterWait(t) \in {"cancel", "clear"}
    BY DEF AfterWait
  <1> QED
    BY <1>0, <1>a, <1>p, <1>d, <1>e, <1>f, CallMoves DEF Cancels, Waits, workvars, wqvars

\* The cancellation gives the bit up.
LEMMA CancelReturnsKeeps ==
    ASSUME IInv, NEW t \in Tasks, CancelReturns(t)
    PROVE  IInv'
  <1> USE ConstantFacts DEF CancelReturns
  <1>0. /\ TypeOK
        /\ pending \in [Works -> BOOLEAN] /\ data \in [Works -> Queues \cup {NULL}]
        /\ timer \in [Works -> {"off", "armed", "running"}]
    BY DEF IInv, TypeOK
  <1>a. OpTo(t, "idle", NULL, NULL, 0)
    BY <1>0, ReturnFacts
  <1>b. /\ \A v \in Works : Claimed(t, v)' <=> FALSE
        /\ \A v \in Works, d \in Callers : d # t => (Claimed(d, v)' <=> Claimed(d, v))
    BY <1>a, ClaimFacts DEF Claims
  <1>c. \A p \in Queues : \A x : (Linked(x, p)' <=> Linked(x, p)) /\ (Starting(x, p)' <=> Starting(x, p))
    BY DEF Linked, Starting, wqvars
  <1> DEFINE w == op[t].work
  <1>d. w \in Works /\ Claimed(t, w)
    BY DEF IInv, CallInv, Cancels, Claimed
  <1>e. /\ pending[w] /\ timer[w] = "off" /\ \A d \in Callers : Claimed(d, w) => d = t
        /\ \A p \in Queues : ~Linked(w, p) /\ ~Starting(w, p)
    BY <1>d, ClaimedFacts
  <1>o. \A v \in Works : Claimed(t, v) => v = w
    BY DEF Claimed
  <1>f. ~pending'[w] /\ timer'[w] = "off"
    BY <1>0, <1>d, <1>e
  <1>p. ASSUME NEW v \in Works PROVE PendingInv(v)'
    <2>1. CASE v = w
      BY <2>1, <1>b, <1>c, <1>e, <1>f DEF PendingInv
    <2>2. CASE v # w
      <3>1. pending'[v] = pending[v] /\ data'[v] = data[v] /\ timer'[v] = timer[v]
        BY <2>2, <1>0
      <3>2. \A d \in Callers : Claimed(d, v)' <=> Claimed(d, v)
        BY <2>2, <1>b, <1>o
      <3>3. PendingInv(v)
        BY DEF IInv
      <3> QED
        BY <3>1, <3>2, <3>3, <1>c, PendingFrame
    <2> QED
      BY <2>1, <2>2
  <1>g. pending' \in [Works -> BOOLEAN] /\ op[t].at \notin {"destroy", "stop"} /\ ~Waits(t)
    BY <1>0 DEF Waits
  <1> QED
    BY <1>0, <1>a, <1>p, <1>g, CallMoves DEF Cancels, wqvars

-----------------------------------------------------------------------------
(* The theorems that hold whatever the work functions do. *)

\* Nothing is queued, claimed or executed in the beginning.
LEMMA InitIInv == Init => IInv
  <1> SUFFICES ASSUME Init PROVE IInv
    OBVIOUS
  <1> USE ConstantFacts
  <1>1. /\ \A c \in Callers : op[c] = Idle /\ op[c].at = "idle"
        /\ \A w \in Works : ~pending[w] /\ timer[w] = "off"
        /\ \A q \in Queues : wpc[q] = "prepare" /\ worklist[q] = <<>>
                            /\ stack[q] = <<>> /\ current[q] = NULL
        /\ stopping = {} /\ dying = {}
    BY DEF Init, Idle
  <1>2. TypeOK
    <2>1. Idle \in OpRec
      BY DEF Idle, OpRec, Places
    <2>2. op \in [Callers -> OpRec]
      BY <2>1 DEF Init
    <2> QED
      BY <2>2 DEF Init, TypeOK, OpRec, Places
  <1>3. \A x : \A q \in Queues : ~Linked(x, q) /\ ~Starting(x, q)
    BY <1>1 DEF Linked, Starting, Entries
  <1>4. \A c \in Callers, w \in Works : ~Claimed(c, w)
    BY <1>1 DEF Claimed
  <1>5. \A c \in Callers : CallInv(c) /\ UserInv(c)
    BY <1>1 DEF CallInv, UserInv, Queueing, Cancels, Destroying
  <1>6. \A w \in Works : PendingInv(w) /\ TimerInv(w)
    BY <1>1, <1>3, <1>4 DEF PendingInv, TimerInv
  <1>7. \A q \in Queues : WorkerInv(q) /\ DyingInv(q)
    BY <1>1 DEF WorkerInv, DyingInv, NoDuplicates
  <1>8. \A t \in Tasks : BarrierInv(t) /\ DestroyerInv(t)
    BY <1>1, <1>3 DEF BarrierInv, DestroyerInv, Posted, Executing, Destroying
  <1> QED
    BY <1>2, <1>5, <1>6, <1>7, <1>8 DEF IInv

\* Every step keeps the inductive invariant.
LEMMA NextIInv == IInv /\ [Next]_vars => IInv'
  <1> SUFFICES ASSUME IInv, [Next]_vars PROVE IInv'
    OBVIOUS
  <1>1. CASE UNCHANGED vars
    BY <1>1 DEF vars, IInv, TypeOK, CallInv, UserInv, PendingInv, TimerInv, WorkerInv, DyingInv,
                BarrierInv, DestroyerInv, Linked, Starting, Posted, Waits, Claimed
  <1>2. ASSUME NEW c \in Callers, NEW w \in Works, NEW q \in Queues,
               NEW where \in {"insert", "store"}, QueueWork(c, w, q, where)
        PROVE  IInv'
    BY <1>2, QueueWorkKeeps
  <1>3. ASSUME NEW c \in Callers, Continue(c) PROVE IInv'
    BY <1>3, QueueInsertKeeps, QueueStoreKeeps, QueueArmKeeps DEF Continue
  <1>4. ASSUME NEW w \in Works, TimerExpires(w) \/ TimerFn(w) PROVE IInv'
    BY <1>4, TimerExpiresKeeps, TimerFnKeeps
  <1>5. ASSUME NEW q \in Queues, WorkerStep(q) \/ FuncReturns(q) \/ FuncFlushes(q) PROVE IInv'
    BY <1>5, WorkerPrepareKeeps, WorkerCheckKeeps, WorkerWakesKeeps, WorkerFinishKeeps,
       RunEnterKeeps, RunNextKeeps, RunStartKeeps, BarrierFuncKeeps, FuncReturnsKeeps,
       FuncFlushesKeeps DEF WorkerStep
  <1>6. ASSUME NEW t \in Tasks, NEW q \in Queues, FlushWorkqueue(t, q) \/ DestroyWorkqueue(t, q)
        PROVE  IInv'
    BY <1>6, FlushWorkqueueKeeps, DestroyWorkqueueKeeps
  <1>7. ASSUME NEW t \in Tasks,
               \/ FlushReturns(t) \/ DestroyFlushed(t) \/ DestroyStop(t)
               \/ DestroyReturns(t) \/ CancelStep(t)
        PROVE  IInv'
    BY <1>7, FlushReturnsKeeps, DestroyFlushedKeeps, DestroyStopKeeps, DestroyReturnsKeeps,
       CancelDelTimerKeeps, TryToGrabPendingKeeps, StealPendingKeeps, WaitOnWorkKeeps,
       WaitOnWorkDoneKeeps, CancelReturnsKeeps DEF CancelStep
  <1>8. ASSUME NEW t \in Tasks, NEW w \in Works, CancelDelayedWork(t, w) PROVE IInv'
    BY <1>8, CancelDelayedWorkKeeps
  <1>9. ASSUME NEW t \in Tasks, NEW w \in Works, NEW delayed \in BOOLEAN,
               CancelWorkSync(t, w, delayed)
        PROVE  IInv'
    BY <1>9, CancelWorkSyncKeeps
  <1> QED
    BY <1>1, <1>2, <1>3, <1>4, <1>5, <1>6, <1>7, <1>8, <1>9 DEF Next

\* The inductive invariant: every PENDING bit has one owner, every barrier is where its task
\* thinks it is, and nobody but its own functions uses a workqueue that is being destroyed.
THEOREM IInvCorrect == Spec => []IInv
  <1>1. Init => IInv
    BY InitIInv
  <1>2. IInv /\ [Next]_vars => IInv'
    BY NextIInv
  <1> QED
    BY <1>1, <1>2, PTL DEF Spec

\* Only one thing answers for the PENDING bit of w, and something does if it is set.
LEMMA OneOwner ==
    ASSUME IInv, NEW w \in Works
    PROVE  Cardinality(PendingOwners(w)) = IF pending[w] THEN 1 ELSE 0
  <1> USE ConstantFacts
  <1> DEFINE PO == PendingOwners(w)
  <1>0. PendingInv(w) /\ \A q \in Queues : WorkerInv(q)
    BY DEF IInv
  <1>1. \A z : z \in PO <=>
           \/ \E q \in Queues : \E i \in 1 .. Len(worklist[q]) : worklist[q][i] = w /\ z = <<q, i>>
           \/ \E q \in Queues : Starting(w, q) /\ z = <<q, "start">>
           \/ \E c \in Callers : Claimed(c, w) /\ z = <<c, "call">>
           \/ timer[w] # "off" /\ z = <<w, "timer">>
    <2> DEFINE L == UNION {{<<q, i>> : i \in {i \in 1 .. Len(worklist[q]) : worklist[q][i] = w}} :
                           q \in Queues}
               S == {<<q, "start">> : q \in {q \in Queues : wpc[q] = "start" /\ Head(stack[q]) = w}}
               C == {<<c, "call">> : c \in {c \in Callers : Claimed(c, w)}}
               T == {x \in {<<w, "timer">>} : timer[w] # "off"}
    <2>1. PO = L \cup S \cup C \cup T
      BY DEF PendingOwners
    <2>2. \A z : z \in L <=>
             \E q \in Queues : \E i \in 1 .. Len(worklist[q]) : worklist[q][i] = w /\ z = <<q, i>>
      OBVIOUS
    <2>3. \A z : z \in S <=> \E q \in Queues : Starting(w, q) /\ z = <<q, "start">>
      BY DEF Starting
    <2>4. \A z : z \in C <=> \E c \in Callers : Claimed(c, w) /\ z = <<c, "call">>
      OBVIOUS
    <2>5. \A z : z \in T <=> timer[w] # "off" /\ z = <<w, "timer">>
      OBVIOUS
    <2> HIDE DEF PO, L, S, C, T
    <2> QED
      BY <2>1, <2>2, <2>3, <2>4, <2>5
  <1> HIDE DEF PO
  <1>2. \A q \in Queues : Linked(w, q) <=> \E i \in 1 .. Len(worklist[q]) : worklist[q][i] = w
    BY DEF Linked, Entries
  <1>3. CASE ~pending[w]
    <2>1. PO = {}
      BY <1>0, <1>1, <1>2, <1>3 DEF PendingInv
    <2> QED
      BY <2>1, <1>3, FS_EmptySet DEF PO
  <1>4. ASSUME pending[w], NEW z, PO = {z} PROVE Cardinality(PO) = 1
    BY <1>4, FS_Singleton
  <1>5. CASE pending[w]
    <2>1. CASE timer[w] # "off"
      <3>1. PO = {<<w, "timer">>}
        BY <2>1, <1>0, <1>1, <1>2 DEF PendingInv
      <3> QED
        BY <1>4, <1>5, <3>1 DEF PO
    <2>2. ASSUME NEW q \in Queues, Linked(w, q) PROVE Cardinality(PO) = 1
      <3>1. PICK i \in 1 .. Len(worklist[q]) : worklist[q][i] = w
        BY <2>2, <1>2
      <3>2. \A j \in 1 .. Len(worklist[q]) : worklist[q][j] = w => j = i
        BY <3>1, <1>0 DEF WorkerInv, NoDuplicates
      <3>3. /\ timer[w] = "off" /\ \A c \in Callers : ~Claimed(c, w)
            /\ \A p \in Queues : (Linked(w, p) => p = q) /\ ~Starting(w, p)
        BY <2>2, <1>0 DEF PendingInv
      <3>4. \A z : z \in PO <=> z = <<q, i>>
        BY <3>1, <3>2, <3>3, <1>1, <1>2
      <3>5. PO = {<<q, i>>}
        BY <3>4
      <3> QED
        BY <1>4, <1>5, <3>5
    <2>3. ASSUME NEW q \in Queues, Starting(w, q) PROVE Cardinality(PO) = 1
      <3>1. /\ timer[w] = "off" /\ \A c \in Callers : ~Claimed(c, w)
            /\ \A p \in Queues : (Starting(w, p) => p = q) /\ ~Linked(w, p)
        BY <2>3, <1>0 DEF PendingInv
      <3>2. \A z : z \in PO <=> z = <<q, "start">>
        BY <2>3, <3>1, <1>1, <1>2
      <3>3. PO = {<<q, "start">>}
        BY <3>2
      <3> QED
        BY <1>4, <1>5, <3>3
    <2>4. ASSUME NEW c \in Callers, Claimed(c, w) PROVE Cardinality(PO) = 1
      <3>1. /\ timer[w] = "off" /\ \A d \in Callers : Claimed(d, w) => d = c
            /\ \A p \in Queues : ~Starting(w, p) /\ ~Linked(w, p)
        BY <2>4, <1>0 DEF PendingInv
      <3>2. \A z : z \in PO <=> z = <<c, "call">>
        BY <2>4, <3>1, <1>1, <1>2
      <3>3. PO = {<<c, "call">>}
        BY <3>2
      <3> QED
        BY <1>4, <1>5, <3>3
    <2> QED
      BY <1>0, <1>5, <2>1, <2>2, <2>3, <2>4 DEF PendingInv, PO
  <1> QED
    BY <1>3, <1>5

\* Whoever queues, cancels, flushes or destroys, and in whatever order: the PENDING bit of every
\* work has exactly one owner when it is set and none when it is not, a work on a list points to
\* its workqueue, and no worker sleeps on work or through kthread_stop().
THEOREM ConsistentCorrect == Spec => []Consistent
  <1>1. IInv => Consistent
    <2> SUFFICES ASSUME IInv PROVE Consistent
      OBVIOUS
    <2>1. PendingExact
      BY OneOwner DEF PendingExact
    <2>2. DataExact
      BY DEF IInv, PendingInv, DataExact, Linked, Starting
    <2>3. NoLostWakeUp
      BY DEF IInv, WorkerInv, NoLostWakeUp
    <2> QED
      BY <2>1, <2>2, <2>3 DEF Consistent, IInv
  <1> QED
    BY <1>1, IInvCorrect, PTL

\* When the thread of a destroyed workqueue has exited, no work is left on its list.
THEOREM DestroyCompleteCorrect == Spec => []DestroyComplete
  <1>1. IInv => DestroyComplete
    <2> SUFFICES ASSUME IInv, NEW q \in Queues, wpc[q] = "exited"
                 PROVE  ListEmpty(worklist[q]) /\ stack[q] = <<>>
      BY DEF DestroyComplete
    <2>1. wpc[q] \notin InRun
      BY DEF InRun, Executing
    <2>2. q \in stopping /\ q \in dying
      BY DEF IInv, DyingInv, TypeOK
    <2>3. \A t \in Tasks : ~(op[t].at = "destroy" /\ op[t].cwq = q)
      BY <2>2 DEF IInv, DestroyerInv
    <2> QED
      BY <2>1, <2>2, <2>3 DEF IInv, DyingInv, WorkerInv
  <1> QED
    BY <1>1, IInvCorrect, PTL

-----------------------------------------------------------------------------
(* Without functions that flush their own workqueue. *)

\* A flush keeps what is in front of its barrier.
LEMMA FlushFrame ==
    ASSUME NEW t \in Tasks, FlushInv(t),
           op'[t].at \in {"flush", "destroy"} =>
               op'[t] = op[t] /\ done'[t] = done[t] /\ before'[t] \subseteq before[t],
           stack' = stack,
           \A p \in Queues : Linked(t, p) => Linked(t, p)',
           \A p \in Queues, w \in Works : <<w, "queued", p>> \in before'[t] =>
               /\ Ahead(worklist[p], w, t) => Ahead(worklist'[p], w, t)
               /\ Starting(w, p) => Starting(w, p)'
    PROVE  FlushInv(t)'
  <1> SUFFICES ASSUME op'[t].at \in {"flush", "destroy"}, NEW w \in Works, NEW p \in Queues
               PROVE  /\ <<w, "queued", p>> \in before'[t] =>
                            /\ op'[t].cwq = p /\ ~done'[t]
                            /\ Ahead(worklist'[p], w, t) \/ (Starting(w, p)' /\ Linked(t, p)')
                      /\ <<w, "running", p>> \in before'[t] =>
                            /\ op'[t].cwq = p /\ ~done'[t]
                            /\ w \in Entries(stack'[p]) /\ Linked(t, p)'
    BY DEF FlushInv
  <1>1. op'[t] = op[t] /\ done'[t] = done[t] /\ before'[t] \subseteq before[t]
    OBVIOUS
  <1>2. ASSUME <<w, "queued", p>> \in before'[t]
        PROVE  /\ op'[t].cwq = p /\ ~done'[t]
               /\ Ahead(worklist'[p], w, t) \/ (Starting(w, p)' /\ Linked(t, p)')
    BY <1>1, <1>2 DEF FlushInv
  <1>3. ASSUME <<w, "running", p>> \in before'[t]
        PROVE  op'[t].cwq = p /\ ~done'[t] /\ w \in Entries(stack'[p]) /\ Linked(t, p)'
    BY <1>1, <1>3 DEF FlushInv
  <1> QED
    BY <1>2, <1>3

\* A cancellation keeps its barrier behind the work it waits for.
LEMMA CancelFrame ==
    ASSUME IInv, NEW t \in Tasks, CancelInv(t),
           op'[t].at \in {"waiting", "clear"} => op'[t] = op[t],
           \A w \in Works : op[t].at \in {"waiting", "clear"} /\ Claimed(t, w) => data'[w] = data[w],
           \A p \in Queues : Linked(t, p) => Linked(t, p)',
           \A p \in Queues, w \in Works : Claimed(t, w) /\ w \in Entries(stack'[p])
                                          => w \in Entries(stack[p])
    PROVE  CancelInv(t)'
  <1> DEFINE w == op[t].work
  <1> SUFFICES ASSUME op'[t].at = "clear" \/ (op'[t].at = "waiting" /\ op'[t].ret >= 0),
                      data'[op'[t].work] # NULL,
                      op'[t].work \in Entries(stack'[data'[op'[t].work]])
               PROVE  op'[t].at = "waiting" /\ t \in Entries(worklist'[data'[op'[t].work]])
    BY DEF CancelInv, Linked
  <1>1. op'[t] = op[t] /\ t \in Callers
    BY ConstantFacts
  <1>2. w \in Works /\ Claimed(t, w)
    BY <1>1 DEF IInv, CallInv, Cancels, Claimed
  <1>3. data'[w] = data[w] /\ data[w] \in Queues
    BY <1>1, <1>2 DEF IInv, TypeOK
  <1>4. w \in Entries(stack[data[w]])
    BY <1>1, <1>2, <1>3
  <1>5. op[t].at = "waiting" /\ Linked(t, data[w])
    BY <1>1, <1>3, <1>4 DEF CancelInv
  <1> HIDE DEF w
  <1>6. \A p \in Queues : t \in Entries(worklist[p]) => t \in Entries(worklist'[p])
    BY DEF Linked
  <1> QED
    BY <1>1, <1>3, <1>5, <1>6 DEF Linked, w

\* Steps that execute nothing, complete nothing and leave the order of the lists alone.
LEMMA QuietStep ==
    ASSUME IInv, SInv, stack' = stack,
           \A p \in Queues : \/ wpc'[p] = wpc[p] /\ current'[p] = current[p]
                             \/ wpc[p] \notin Executing /\ wpc'[p] \notin Executing,
           \A t \in Tasks : op'[t].at \in {"flush", "destroy"} =>
               op'[t] = op[t] /\ done'[t] = done[t] /\ before'[t] = before[t],
           \A t \in Tasks : op'[t].at \in {"waiting", "clear"} => op'[t] = op[t],
           \A t \in Tasks, w \in Works :
               op[t].at \in {"waiting", "clear"} /\ Claimed(t, w) => data'[w] = data[w],
           \A p \in Queues, t \in Tasks : Linked(t, p) => Linked(t, p)',
           \A p \in Queues, t \in Tasks, w \in Works :
               Ahead(worklist[p], w, t) => Ahead(worklist'[p], w, t)
    PROVE  SInv'
  <1>1. ASSUME NEW q \in Queues PROVE SerialInv(q)'
    BY DEF SInv, SerialInv
  <1>2. \A w \in Works, p \in Queues : Starting(w, p) => Starting(w, p)'
    BY DEF Starting, Executing
  <1>3. ASSUME NEW t \in Tasks PROVE FlushInv(t)'
    BY <1>2, FlushFrame DEF SInv
  <1>4. ASSUME NEW t \in Tasks PROVE CancelInv(t)'
    BY CancelFrame DEF SInv
  <1> QED
    BY <1>1, <1>3, <1>4 DEF SInv

\* The list of q has a new entry.
LEMMA InsertOrder ==
    ASSUME IInv, NEW q \in Queues, NEW x \in Works \cup Tasks,
           \/ InsertWork(q, ListAddTail(x, worklist[q]))
           \/ InsertWork(q, ListAdd(x, worklist[q]))
    PROVE  /\ \A p \in Queues : \A y, z : Ahead(worklist[p], y, z) => Ahead(worklist'[p], y, z)
           /\ \A p \in Queues : \A y : Linked(y, p) => Linked(y, p)'
           /\ Linked(x, q)'
           /\ InsertWork(q, ListAddTail(x, worklist[q])) =>
                 \A y : Linked(y, q) => Ahead(worklist'[q], y, x)
  <1> DEFINE S == Works \cup Tasks
             l == worklist[q]
  <1>1. worklist \in [Queues -> Seq(S)] /\ l \in Seq(S) /\ x \in S
    BY DEF IInv, TypeOK
  <1>2. \A p \in Queues : p # q => worklist'[p] = worklist[p]
    BY <1>1 DEF InsertWork
  <1> HIDE DEF S
  <1>3. ASSUME InsertWork(q, ListAddTail(x, l))
        PROVE  /\ \A y, z : Ahead(l, y, z) => Ahead(worklist'[q], y, z)
               /\ Entries(worklist'[q]) = Entries(l) \cup {x}
               /\ \A y : Linked(y, q) => Ahead(worklist'[q], y, x)
    <2>1. worklist'[q] = ListAddTail(x, l)
      BY <1>1, <1>3 DEF InsertWork
    <2>2. \A y, z : Ahead(l, y, z) => Ahead(ListAddTail(x, l), y, z)
      BY <1>1, AheadAddTail
    <2>3. \A y : y \in Entries(l) => Ahead(ListAddTail(x, l), y, x)
      BY <1>1, AheadAddTail
    <2>4. Entries(ListAddTail(x, l)) = Entries(l) \cup {x}
      BY <1>1, ListAddTailFacts
    <2> QED
      BY <2>1, <2>2, <2>3, <2>4 DEF Linked
  <1>4. ASSUME InsertWork(q, ListAdd(x, l))
        PROVE  /\ \A y, z : Ahead(l, y, z) => Ahead(worklist'[q], y, z)
               /\ Entries(worklist'[q]) = Entries(l) \cup {x}
    <2>1. worklist'[q] = ListAdd(x, l)
      BY <1>1, <1>4 DEF InsertWork
    <2>2. \A y, z : Ahead(l, y, z) => Ahead(ListAdd(x, l), y, z)
      BY <1>1, AheadAdd
    <2>3. Entries(ListAdd(x, l)) = Entries(l) \cup {x}
      BY <1>1, ListAddFacts
    <2> QED
      BY <2>1, <2>2, <2>3
  <1>5. /\ \A y, z : Ahead(worklist[q], y, z) => Ahead(worklist'[q], y, z)
        /\ Entries(worklist'[q]) = Entries(worklist[q]) \cup {x}
    BY <1>3, <1>4
  <1>6. \A p \in Queues : \A y, z : Ahead(worklist[p], y, z) => Ahead(worklist'[p], y, z)
    BY <1>2, <1>5
  <1>7. \A p \in Queues : \A y : Linked(y, p) => Linked(y, p)'
    BY <1>2, <1>5 DEF Linked
  <1>8. Linked(x, q)'
    BY <1>5 DEF Linked
  <1> QED
    BY <1>3, <1>6, <1>7, <1>8

\* Queueing adds at the tail and stores the workqueue of a work nobody else has claimed.
LEMMA QueueingOrder ==
    ASSUME IInv, SInv, NEW c \in Callers, Continue(c)
    PROVE  SInv'
  <1> USE ConstantFacts
  <1>0. TypeOK
    BY DEF IInv
  <1> DEFINE w == op[c].work
             q == op[c].cwq
  <1>1. w \in Works /\ q \in Queues /\ Claimed(c, w) /\ op[c].at \in Queueing
    BY DEF Continue, QueueInsert, QueueStore, QueueArm, IInv, CallInv, Queueing, Claimed
  <1>2. \A t \in Tasks : t # c => ~Claimed(t, w)
    BY <1>1, ClaimedFacts
  <1>3. /\ \A d \in Callers : d # c => op'[d] = op[d]
        /\ op'[c].at \in {"idle", "arm"}
    <2>1. QueueStore(c) => OpTo(c, "arm", w, q, op[c].ret)
      <3>1. "arm" \in Places
        BY DEF Places
      <3> QED
        BY <1>0, <3>1, GotoFacts DEF QueueStore
    <2>2. QueueInsert(c) \/ QueueArm(c) => OpTo(c, "idle", NULL, NULL, 0)
      BY <1>0, ReturnFacts DEF QueueInsert, QueueArm
    <2> QED
      BY <2>1, <2>2 DEF Continue, OpTo
  <1>4. /\ UNCHANGED <<stack, wpc, current, done, before>>
        /\ UNCHANGED data \/ data' = [data EXCEPT ![w] = q]
        /\ UNCHANGED worklist \/ InsertWork(q, ListAddTail(w, worklist[q]))
    BY DEF Continue, QueueInsert, QueueStore, QueueArm, wqvars
  <1> HIDE DEF w, q
  <1>5. /\ \A p \in Queues, t \in Tasks : Linked(t, p) => Linked(t, p)'
        /\ \A p \in Queues, t \in Tasks, v \in Works :
              Ahead(worklist[p], v, t) => Ahead(worklist'[p], v, t)
    <2>1. CASE UNCHANGED worklist
      BY <2>1 DEF Linked
    <2>2. CASE InsertWork(q, ListAddTail(w, worklist[q]))
      BY <2>2, <1>1, InsertOrder
    <2> QED
      BY <1>4, <2>1, <2>2
  <1>6. ASSUME NEW t \in Tasks, NEW v \in Works, op[t].at \in {"waiting", "clear"}, Claimed(t, v)
        PROVE  data'[v] = data[v]
    <2>1. t # c
      BY <1>1, <1>6 DEF Queueing
    <2>2. v # w
      BY <1>2, <1>6, <2>1
    <2> QED
      BY <1>0, <1>4, <2>2 DEF TypeOK
  <1> QED
    BY <1>3, <1>4, <1>5, <1>6, QuietStep

\* The timer's function adds at the tail.
LEMMA TimerOrder ==
    ASSUME IInv, SInv, NEW w \in Works, TimerExpires(w) \/ TimerFn(w)
    PROVE  SInv'
  <1>1. data[w] \in Queues
    BY DEF TimerExpires, TimerFn, IInv, TypeOK
  <1>2. UNCHANGED worklist \/ InsertWork(data[w], ListAddTail(w, worklist[data[w]]))
    BY DEF TimerExpires, TimerFn, wqvars
  <1>3. UNCHANGED <<stack, wpc, current, op, data, done, before>>
    BY DEF TimerExpires, TimerFn, wqvars
  <1>4. /\ \A p \in Queues, t \in Tasks : Linked(t, p) => Linked(t, p)'
        /\ \A p \in Queues, t \in Tasks, v \in Works :
              Ahead(worklist[p], v, t) => Ahead(worklist'[p], v, t)
    <2>1. CASE UNCHANGED worklist
      BY <2>1 DEF Linked
    <2>2. CASE InsertWork(data[w], ListAddTail(w, worklist[data[w]]))
      BY <2>2, <1>1, InsertOrder
    <2> QED
      BY <1>2, <2>1, <2>2
  <1> QED
    BY <1>3, <1>4, QuietStep

\* The call of one task, or function, moves and nothing else that the orders are about.
LEMMA CallStep ==
    ASSUME IInv, SInv, NEW c \in Callers, NEW a, NEW w, NEW q, NEW r, OpTo(c, a, w, q, r),
           a \notin {"flush", "destroy", "waiting", "clear"},
           UNCHANGED <<worklist, current, stack, wpc>>, UNCHANGED <<data, done, before>>
    PROVE  SInv'
  <1>1. \A t \in Tasks : op'[t] = op[t] \/ op'[t].at \notin {"flush", "destroy", "waiting", "clear"}
    BY ConstantFacts DEF OpTo
  <1>2. \A p \in Queues, t \in Tasks : Linked(t, p) => Linked(t, p)'
    BY DEF Linked
  <1> QED
    BY <1>1, <1>2, QuietStep

\* Steps of a flush, a destruction or a cancellation that only move the call.
LEMMA CallSteps ==
    ASSUME IInv, SInv, NEW t \in Tasks,
           \/ FlushReturns(t) \/ DestroyFlushed(t) \/ DestroyStop(t) \/ DestroyReturns(t)
           \/ CancelDelTimer(t) \/ TryToGrabPending(t) \/ CancelReturns(t)
    PROVE  SInv'
  <1> USE ConstantFacts
  <1>0. TypeOK
    BY DEF IInv
  <1>1. UNCHANGED <<worklist, current, stack, wpc>> /\ UNCHANGED <<data, done, before>>
    BY DEF FlushReturns, DestroyFlushed, DestroyStop, DestroyReturns, CancelDelTimer,
           TryToGrabPending, CancelReturns, workvars, wqvars
  <1>2. CASE FlushReturns(t) \/ DestroyReturns(t) \/ CancelReturns(t)
    <2>1. OpTo(t, "idle", NULL, NULL, 0)
      BY <1>0, <1>2, ReturnFacts DEF FlushReturns, DestroyReturns, CancelReturns
    <2> QED
      BY <1>1, <2>1, CallStep
  <1>3. ASSUME NEW a \in {"stop", "reap", "grab"}, Goto(t, a) PROVE SInv'
    <2>1. a \in Places
      BY DEF Places
    <2>2. OpTo(t, a, op[t].work, op[t].cwq, op[t].ret)
      BY <1>0, <1>3, <2>1, GotoFacts
    <2> QED
      BY <1>1, <2>2, CallStep
  <1>4. ASSUME NEW r \in {-1, 0, 1}, Result(t, r) PROVE SInv'
    <2>1. OpTo(t, "wait_on", op[t].work, NULL, r)
      BY <1>0, <1>4, ResultFacts
    <2> QED
      BY <1>1, <2>1, CallStep
  <1>5. CASE DestroyFlushed(t) \/ DestroyStop(t)
    BY <1>3, <1>5 DEF DestroyFlushed, DestroyStop
  <1>6. CASE CancelDelTimer(t)
    BY <1>3, <1>4, <1>6 DEF CancelDelTimer
  <1>7. CASE TryToGrabPending(t)
    <2> DEFINE w == op[t].work
               y == [at |-> "steal", work |-> w, cwq |-> data[w],
                     timer |-> op[t].timer, ret |-> op[t].ret]
    <2>1. CASE op' = [op EXCEPT ![t] = y]
      <3>1. /\ w \in Works /\ data[w] \in Queues \cup {NULL} /\ op[t].timer \in BOOLEAN
            /\ op[t].ret \in {-1, 0, 1}
        BY <1>7 DEF TryToGrabPending, IInv, CallInv, Cancels, TypeOK
      <3>2. y \in OpRec /\ y.at = "steal"
        BY <3>1 DEF OpRec, Places
      <3> HIDE DEF y
      <3>3. OpTo(t, y.at, y.work, y.cwq, y.ret)
        BY <1>0, <2>1, <3>2, OpFacts
      <3>4. OpTo(t, "steal", y.work, y.cwq, y.ret)
        BY <3>2, <3>3
      <3> QED
        BY <1>1, <3>4, CallStep
    <2>2. Result(t, 0) \/ Result(t, -1) \/ op' = [op EXCEPT ![t] = y]
      BY <1>7 DEF TryToGrabPending
    <2> QED
      BY <1>4, <2>1, <2>2
  <1> QED
    BY <1>2, <1>5, <1>6, <1>7

\* A call begins that posts no barrier.
LEMMA CallBegins ==
    ASSUME IInv, SInv, NEW c \in Callers, NEW w \in Works, NEW q \in Queues,
           \/ \E where \in {"insert", "store"} : QueueWork(c, w, q, where)
           \/ CancelDelayedWork(c, w)
           \/ \E delayed \in BOOLEAN : CancelWorkSync(c, w, delayed)
    PROVE  SInv'
  <1> USE ConstantFacts
  <1>0. TypeOK
    BY DEF IInv
  <1>1. UNCHANGED <<worklist, current, stack, wpc>> /\ UNCHANGED <<data, done, before>>
    BY DEF QueueWork, CancelDelayedWork, CancelWorkSync, workvars, wqvars
  <1>2. ASSUME NEW a \in {"insert", "store", "undelay"}, NEW k \in Queues \cup {NULL}, Call(c, a, w, k)
        PROVE  SInv'
    <2>1. a \in Places
      BY DEF Places
    <2>2. OpTo(c, a, w, k, 0)
      BY <1>0, <1>2, <2>1, CallFacts
    <2> QED
      BY <1>1, <2>2, CallStep
  <1>3. ASSUME NEW delayed \in BOOLEAN, CancelWorkSync(c, w, delayed) PROVE SInv'
    <2> DEFINE x == [at |-> "cancel", work |-> w, cwq |-> NULL, timer |-> delayed, ret |-> 0]
    <2>1. x \in OpRec /\ x.at = "cancel"
      BY DEF OpRec, Places
    <2>2. op' = [op EXCEPT ![c] = x]
      BY <1>3 DEF CancelWorkSync
    <2> HIDE DEF x
    <2>3. OpTo(c, x.at, x.work, x.cwq, x.ret)
      BY <1>0, <2>1, <2>2, OpFacts
    <2>4. OpTo(c, "cancel", x.work, x.cwq, x.ret)
      BY <2>1, <2>3
    <2> QED
      BY <1>1, <2>4, CallStep
  <1>4. ASSUME NEW where \in {"insert", "store"}, QueueWork(c, w, q, where) PROVE SInv'
    BY <1>2, <1>4 DEF QueueWork
  <1>5. CASE CancelDelayedWork(c, w)
    BY <1>2, <1>5 DEF CancelDelayedWork
  <1> QED
    BY <1>3, <1>4, <1>5

\* The worker sleeps and wakes up.
LEMMA WorkerLoop ==
    ASSUME IInv, SInv, NEW q \in Queues,
           WorkerPrepare(q) \/ WorkerCheck(q) \/ WorkerWakes(q) \/ WorkerFinish(q)
    PROVE  SInv'
  <1>1. UNCHANGED <<worklist, current, stack, op, data, done, before>>
    BY DEF WorkerPrepare, WorkerCheck, WorkerWakes, WorkerFinish, workvars
  <1>2. \A p \in Queues : \/ wpc'[p] = wpc[p]
                          \/ wpc[p] \notin Executing /\ wpc'[p] \notin Executing
    BY DEF WorkerPrepare, WorkerCheck, WorkerWakes, WorkerFinish, Executing, IInv, TypeOK
  <1>3. \A p \in Queues, t \in Tasks : Linked(t, p) => Linked(t, p)'
    BY <1>1 DEF Linked
  <1> QED
    BY <1>1, <1>2, <1>3, QuietStep

\* A flush, or the flush of destroy_workqueue(): everything queued or executing is in front of
\* the new barrier.
LEMMA FlushOrder ==
    ASSUME IInv, SInv, NEW t \in Tasks, NEW q \in Queues,
           FlushWorkqueue(t, q) \/ DestroyWorkqueue(t, q)
    PROVE  SInv'
  <1> USE ConstantFacts
  <1>0. TypeOK
    BY DEF IInv
  <1>1. UNCHANGED <<current, stack, wpc, data>> /\ op[t].at = "idle"
    BY IdleFacts DEF FlushWorkqueue, DestroyWorkqueue, workvars
  <1>2. CASE DestroyWorkqueue(t, q) /\ ~Busy(q)
    <2>1. "stop" \in Places
      BY DEF Places
    <2>2. OpTo(t, "stop", NULL, q, 0)
      BY <1>0, <1>2, <2>1, CallFacts DEF DestroyWorkqueue
    <2>3. UNCHANGED <<worklist, done, before>>
      BY <1>2 DEF DestroyWorkqueue
    <2> QED
      BY <1>1, <2>2, <2>3, CallStep
  <1>3. ASSUME NEW a \in {"flush", "destroy"}, FlushBarrier(t, q, a) PROVE SInv'
    <2>1. a \in Places
      BY DEF Places
    <2>2. OpTo(t, a, NULL, q, 0)
      BY <1>0, <1>3, <2>1, CallFacts DEF FlushBarrier
    <2>3. /\ op'[t].at = a /\ op'[t].cwq = q /\ \A u \in Tasks : u # t => op'[u] = op[u]
      BY <2>2 DEF OpTo
    <2>4. InsertWork(q, ListAddTail(t, worklist[q]))
      BY <1>3 DEF FlushBarrier
    <2>5. /\ \A p \in Queues : \A y, z : Ahead(worklist[p], y, z) => Ahead(worklist'[p], y, z)
          /\ \A p \in Queues : \A y : Linked(y, p) => Linked(y, p)'
          /\ Linked(t, q)' /\ \A y : Linked(y, q) => Ahead(worklist'[q], y, t)
      BY <2>4, InsertOrder
    <2>6. /\ ~done'[t] /\ before'[t] = Unhandled(q)
          /\ \A u \in Tasks : u # t => done'[u] = done[u] /\ before'[u] = before[u]
      BY <1>0, <1>3 DEF FlushBarrier, TypeOK
    <2>7. /\ \A w \in Works, p \in Queues : <<w, "queued", p>> \in Unhandled(q) => p = q /\ Linked(w, q)
          /\ \A w \in Works, p \in Queues : <<w, "running", p>> \in Unhandled(q) =>
                p = q /\ w \in Entries(stack[q])
      BY DEF Unhandled, Linked
    <2>8. FlushInv(t)'
      <3>1. ASSUME NEW w \in Works, NEW p \in Queues, <<w, "queued", p>> \in before'[t]
            PROVE  op'[t].cwq = p /\ ~done'[t] /\ Ahead(worklist'[p], w, t)
        BY <2>3, <2>5, <2>6, <2>7, <3>1
      <3>2. ASSUME NEW w \in Works, NEW p \in Queues, <<w, "running", p>> \in before'[t]
            PROVE  op'[t].cwq = p /\ ~done'[t] /\ w \in Entries(stack'[p]) /\ Linked(t, p)'
        BY <1>1, <2>3, <2>5, <2>6, <2>7, <3>2
      <3> QED
        BY <3>1, <3>2 DEF FlushInv
    <2>9. CancelInv(t)'
      BY <2>3 DEF CancelInv
    <2>10. ASSUME NEW u \in Tasks, u # t PROVE FlushInv(u)' /\ CancelInv(u)'
      <3>1. FlushInv(u) /\ CancelInv(u)
        BY DEF SInv
      <3>2. op'[u] = op[u] /\ done'[u] = done[u] /\ before'[u] = before[u]
        BY <2>3, <2>6, <2>10
      <3>3. \A p \in Queues, w \in Works : Starting(w, p) => Starting(w, p)'
        BY <1>1 DEF Starting
      <3>4. FlushInv(u)'
        BY <1>1, <2>5, <3>1, <3>2, <3>3, FlushFrame
      <3>5. CancelInv(u)'
        BY <1>1, <2>5, <3>1, <3>2, CancelFrame
      <3> QED
        BY <3>4, <3>5
    <2>11. ASSUME NEW p \in Queues PROVE SerialInv(p)'
      BY <1>1 DEF SInv, SerialInv
    <2> QED
      BY <2>8, <2>9, <2>10, <2>11 DEF SInv
  <1> QED
    BY <1>2, <1>3 DEF FlushWorkqueue, DestroyWorkqueue

\* wait_on_work(): the work does not execute, or the barrier is put behind it.
LEMMA WaitOrder ==
    ASSUME IInv, SInv, NEW t \in Tasks, WaitOnWork(t) \/ WaitOnWorkDone(t)
    PROVE  SInv'
  <1> USE ConstantFacts
  <1>0. TypeOK
    BY DEF IInv
  <1> DEFINE w == op[t].work
             q == data[w]
  <1>1. /\ UNCHANGED <<current, stack, wpc, data, before>> /\ op[t].at \in {"wait_on", "waiting"}
        /\ w \in Works /\ q \in Queues \cup {NULL}
    <2>1. /\ UNCHANGED <<current, stack, wpc, data, before>> /\ op[t].at \in {"wait_on", "waiting"}
      BY DEF WaitOnWork, WaitOnWorkDone, workvars, wqvars
    <2> QED
      BY <1>0, <2>1 DEF IInv, CallInv, Cancels, TypeOK
  <1>2. PICK a \in {"waiting", "cancel", "clear"} : Goto(t, a)
    BY DEF WaitOnWork, WaitOnWorkDone, AfterWait
  <1>3. /\ op'[t].at = a /\ op'[t].work = w /\ op'[t].ret = op[t].ret
        /\ \A u \in Tasks : u # t => op'[u] = op[u]
    <2>1. a \in Places
      BY DEF Places
    <2>2. OpTo(t, a, w, op[t].cwq, op[t].ret)
      BY <1>0, <1>2, <2>1, GotoFacts
    <2> QED
      BY <2>2 DEF OpTo
  <1>4. \/ UNCHANGED worklist
        \/ q \in Queues /\ InsertWork(q, ListAdd(t, worklist[q]))
    BY <1>1 DEF WaitOnWork, WaitOnWorkDone, wqvars
  <1>5. \A u \in Tasks : u # t => done'[u] = done[u]
    BY <1>0 DEF WaitOnWork, WaitOnWorkDone, TypeOK
  <1>6. a = "waiting" => q \in Queues /\ InsertWork(q, ListAdd(t, worklist[q]))
    <2>1. a = "waiting" /\ op[t] \in OpRec /\ op \in [Callers -> OpRec] => op'[t].at = "waiting"
      BY <1>3
    <2>2. op \in [Callers -> OpRec]
      BY <1>0 DEF TypeOK, OpRec, Places
    <2>3. \A b \in {"cancel", "clear"} : Goto(t, b) => op'[t].at = b
      BY <2>2 DEF Goto, OpRec
    <2> QED
      BY <1>1, <1>3, <2>3 DEF WaitOnWork, WaitOnWorkDone, AfterWait
  <1>7. a = "clear" => ~(q # NULL /\ w \in Entries(stack[q]))
    <2> SUFFICES ASSUME a = "clear", q \in Queues, w \in Entries(stack[q]) PROVE FALSE
      BY <1>1
    <2>1. stack[q] = <<current[q]>> /\ current[q] = w
      BY DEF SInv, SerialInv, Entries
    <2>2. op[t].ret \in {-1, 0, 1} /\ op \in [Callers -> OpRec]
      BY <1>0 DEF TypeOK, OpRec, Places
    <2>3. \A b \in {"waiting", "cancel"} : Goto(t, b) => op'[t].at = b
      BY <2>2 DEF Goto, OpRec
    <2>4. WaitOnWorkDone(t) /\ AfterWait(t) = "clear"
      BY <2>1, <2>3, <1>3 DEF WaitOnWork, WaitOnWorkDone, AfterWait
    <2>5. op[t].at = "waiting" /\ op[t].ret >= 0 /\ done[t]
      BY <2>2, <2>4 DEF WaitOnWorkDone, AfterWait
    <2>6. Linked(t, q)
      BY <2>5, <1>1 DEF SInv, CancelInv
    <2> QED
      BY <2>5, <2>6 DEF IInv, BarrierInv, Posted, Waits
  <1> HIDE DEF w, q
  <1>8. /\ \A p \in Queues : \A y, z : Ahead(worklist[p], y, z) => Ahead(worklist'[p], y, z)
        /\ \A p \in Queues : \A y : Linked(y, p) => Linked(y, p)'
        /\ a = "waiting" => Linked(t, q)'
    <2>1. CASE a # "waiting" /\ UNCHANGED worklist
      BY <2>1 DEF Linked
    <2>2. CASE q \in Queues /\ InsertWork(q, ListAdd(t, worklist[q]))
      <3>1. \A p \in Queues : p = q => (Linked(t, p)' => t \in Entries(worklist'[q]))
        BY DEF Linked
      <3>2. PICK p \in Queues : p = q
        BY <2>2
      <3>3. InsertWork(p, ListAdd(t, worklist[p]))
        BY <2>2, <3>2
      <3>4. /\ \A k \in Queues : \A y, z : Ahead(worklist[k], y, z) => Ahead(worklist'[k], y, z)
            /\ \A k \in Queues : \A y : Linked(y, k) => Linked(y, k)'
            /\ Linked(t, p)'
        BY <3>3, InsertOrder
      <3>5. q' = q
        BY <1>1, <1>3 DEF q, w
      <3> QED
        BY <3>2, <3>4, <3>5
    <2> QED
      BY <1>4, <1>6, <2>1, <2>2
  <1>9. FlushInv(t)'
    BY <1>3 DEF FlushInv
  <1>10. CancelInv(t)'
    <2>1. q' = q /\ w' = w /\ data' = data
      BY <1>1, <1>3 DEF q, w
    <2>2. a = "clear" => ~(q # NULL /\ w \in Entries(stack'[q]))
      BY <1>1, <1>7
    <2>3. a = "waiting" => t \in Entries(worklist'[q])
      BY <1>8, <2>1 DEF Linked
    <2> QED
      BY <1>3, <2>1, <2>2, <2>3 DEF CancelInv, Linked, q
  <1>11. ASSUME NEW u \in Tasks, u # t PROVE FlushInv(u)' /\ CancelInv(u)'
    <2>1. FlushInv(u) /\ CancelInv(u)
      BY DEF SInv
    <2>2. op'[u] = op[u] /\ done'[u] = done[u] /\ before'[u] = before[u]
      BY <1>1, <1>3, <1>5, <1>11
    <2>3. \A p \in Queues, v \in Works : Starting(v, p) => Starting(v, p)'
      BY <1>1 DEF Starting
    <2>4. FlushInv(u)'
      BY <1>1, <1>8, <2>1, <2>2, <2>3, FlushFrame
    <2>5. CancelInv(u)'
      BY <1>1, <1>8, <2>1, <2>2, CancelFrame
    <2> QED
      BY <2>4, <2>5
  <1>12. ASSUME NEW p \in Queues PROVE SerialInv(p)'
    BY <1>1 DEF SInv, SerialInv
  <1> QED
    BY <1>9, <1>10, <1>11, <1>12 DEF SInv

\* What a flush relies on, one item at a time.
FlushQueued(t, w, p)  == /\ op[t].cwq = p /\ ~done[t]
                         /\ Ahead(worklist[p], w, t) \/ (Starting(w, p) /\ Linked(t, p))
FlushRunning(t, w, p) == /\ op[t].cwq = p /\ ~done[t]
                         /\ w \in Entries(stack[p]) /\ Linked(t, p)

\* FlushInv() is that, for every item of before.
LEMMA FlushItems ==
    ASSUME NEW t \in Tasks
    PROVE  FlushInv(t) <=>
             (op[t].at \in {"flush", "destroy"} => \A w \in Works, p \in Queues :
                 /\ <<w, "queued", p>> \in before[t] => FlushQueued(t, w, p)
                 /\ <<w, "running", p>> \in before[t] => FlushRunning(t, w, p))
  BY DEF FlushInv, FlushQueued, FlushRunning

\* run_workqueue() takes the first entry: what was behind it stays in order.
LEMMA TakeOrder ==
    ASSUME IInv, SInv, NEW q \in Queues, NEW cur, wpc[q] \in {"enter", "next"}, TakeNext(q, cur),
           UNCHANGED <<op, data, done, before>>
    PROVE  SInv'
  <1> USE ConstantFacts
  <1>0. TypeOK
    BY DEF IInv
  <1>1. stack[q] = <<>>
    BY DEF SInv, SerialInv, Executing
  <1>2. CASE ListEmpty(worklist[q])
    <2>1. UNCHANGED <<worklist, stack>>
      BY <1>2 DEF TakeNext
    <2>2. \A p \in Queues : \/ wpc'[p] = wpc[p] /\ current'[p] = current[p]
                            \/ wpc[p] \notin Executing /\ wpc'[p] \notin Executing
      BY <1>0, <1>1, <1>2 DEF TakeNext, TypeOK, Executing
    <2>3. \A p \in Queues, t \in Tasks : Linked(t, p) => Linked(t, p)'
      BY <2>1 DEF Linked
    <2> QED
      BY <2>1, <2>2, <2>3, QuietStep
  <1>3. CASE ~ListEmpty(worklist[q])
    <2> DEFINE x == Head(worklist[q])
    <2>1. /\ x \in Works \cup Tasks /\ Linked(x, q)
          /\ current' = [current EXCEPT ![q] = x]
          /\ worklist'[q] = Tail(worklist[q])
          /\ \A p \in Queues : \A y : Linked(y, p)' <=> Linked(y, p) /\ ~(p = q /\ y = x)
          /\ stack'[q] \in Seq(Works \cup Tasks) /\ stack'[q] # <<>>
          /\ Head(stack'[q]) = x /\ Tail(stack'[q]) = stack[q]
          /\ wpc' = [wpc EXCEPT ![q] = "start"]
          /\ \A p \in Queues : p # q => worklist'[p] = worklist[p] /\ stack'[p] = stack[p]
      BY <1>3, TakeFacts
    <2>2. worklist[q] \in Seq(Works \cup Tasks) /\ worklist[q] # <<>>
      BY <1>0, <1>3 DEF TypeOK, ListEmpty
    <2>3. \A y, z : Ahead(worklist[q], y, z) /\ y # x => Ahead(worklist'[q], y, z)
      BY <2>1, <2>2, AheadTail
    <2>4. \A y, z : Ahead(worklist[q], y, z) => Linked(z, q)
      BY <2>2, AheadLinked DEF Linked
    <2> HIDE DEF x
    <2>5. /\ wpc'[q] = "start" /\ current'[q] = x
          /\ \A p \in Queues : p # q => wpc'[p] = wpc[p] /\ current'[p] = current[p]
      BY <1>0, <2>1 DEF TypeOK
    <2>6. stack'[q] = <<x>>
      <3> DEFINE n == stack'[q]
                 S == Works \cup Tasks
      <3>1. n \in Seq(S) /\ n # <<>> /\ Head(n) = x /\ Tail(n) = <<>>
        BY <1>1, <2>1
      <3> HIDE DEF n, S
      <3>2. Len(n) = 1 /\ n[1] = x
        <4>1. Len(n) \in Nat \ {0} /\ Len(Tail(n)) = Len(n) - 1 /\ Head(n) = n[1]
          BY <3>1
        <4>2. Len(Tail(n)) = 0
          <5>1. \A m : m = <<>> => Len(m) = 0
            OBVIOUS
          <5> QED
            BY <3>1, <5>1, Zenon
        <4> QED
          BY <3>1, <4>1, <4>2
      <3>3. n = <<x>>
        BY <3>1, <3>2
      <3> QED
        BY <3>3 DEF n
    <2>7. Entries(stack'[q]) = {x}
      BY <2>6 DEF Entries
    <2>8. ASSUME NEW p \in Queues PROVE SerialInv(p)'
      <3>1. CASE p = q
        BY <3>1, <2>5, <2>6 DEF SerialInv, Executing
      <3>2. CASE p # q
        BY <3>2, <2>1, <2>5 DEF SInv, SerialInv
      <3> QED
        BY <3>1, <3>2
    <2>9. ASSUME NEW t \in Tasks PROVE FlushInv(t)'
      <3> SUFFICES ASSUME op'[t].at \in {"flush", "destroy"}, NEW w \in Works, NEW p \in Queues
                   PROVE  /\ <<w, "queued", p>> \in before'[t] => FlushQueued(t, w, p)'
                          /\ <<w, "running", p>> \in before'[t] => FlushRunning(t, w, p)'
        BY DEF FlushInv, FlushQueued, FlushRunning
      <3>1. op' = op /\ before' = before /\ done' = done /\ FlushInv(t)
        BY DEF SInv
      <3>2. ASSUME <<w, "queued", p>> \in before[t] PROVE FlushQueued(t, w, p)'
        <4>1. FlushQueued(t, w, p)
          BY <3>1, <3>2, FlushItems
        <4>2. CASE p # q
          <5>1. (Starting(w, p)' <=> Starting(w, p)) /\ (Linked(t, p)' <=> Linked(t, p))
            BY <4>2, <2>1, <2>5 DEF Starting
          <5> QED
            BY <4>1, <4>2, <5>1, <3>1, <2>1 DEF FlushQueued
        <4>3. CASE p = q
          <5>1. Ahead(worklist[q], w, t) /\ Linked(t, q)
            BY <4>1, <4>3, <2>4 DEF FlushQueued, Starting
          <5>2. CASE w = x
            <6>1. Starting(w, q)' /\ Linked(t, q)'
              BY <5>1, <5>2, <2>1, <2>5 DEF Starting
            <6> QED
              BY <4>1, <4>3, <6>1, <3>1 DEF FlushQueued
          <5>3. CASE w # x
            BY <4>1, <4>3, <5>1, <5>3, <2>3 DEF FlushQueued
          <5> QED
            BY <5>2, <5>3
        <4> QED
          BY <4>2, <4>3
      <3>3. ASSUME <<w, "running", p>> \in before[t] PROVE FlushRunning(t, w, p)'
        <4>1. FlushRunning(t, w, p)
          BY <3>1, <3>3, FlushItems
        <4>2. p # q
          BY <4>1, <1>1 DEF FlushRunning, Entries
        <4>3. (Linked(t, p)' <=> Linked(t, p)) /\ stack'[p] = stack[p]
          BY <4>2, <2>1
        <4> QED
          BY <4>1, <4>3, <3>1 DEF FlushRunning
      <3> QED
        BY <3>1, <3>2, <3>3
    <2>10. ASSUME NEW t \in Tasks PROVE CancelInv(t)'
      <3> DEFINE w == op[t].work
      <3> SUFFICES ASSUME op[t].at = "clear" \/ (op[t].at = "waiting" /\ op[t].ret >= 0),
                          data[w] # NULL, w \in Entries(stack'[data[w]])
                   PROVE  op[t].at = "waiting" /\ t \in Entries(worklist'[data[w]])
        BY DEF CancelInv, Linked
      <3>1. w \in Works /\ Claimed(t, w) /\ data[w] \in Queues
        BY <1>0 DEF IInv, CallInv, Cancels, Claimed, TypeOK
      <3>2. ~Linked(w, q)
        BY <3>1, ClaimedFacts
      <3>3. data[w] # q
        BY <3>2, <2>1, <2>7
      <3>4. stack'[data[w]] = stack[data[w]] /\ worklist'[data[w]] = worklist[data[w]]
        BY <3>1, <3>3, <2>1
      <3> QED
        BY <3>4 DEF SInv, CancelInv, Linked
    <2> QED
      BY <2>8, <2>9, <2>10 DEF SInv
  <1> QED
    BY <1>2, <1>3

\* The work at the head starts: it was queued for whoever flushes, and now it runs.
LEMMA StartOrder ==
    ASSUME IInv, SInv, NEW q \in Queues, RunStart(q)
    PROVE  SInv'
  <1> USE ConstantFacts
  <1>0. TypeOK
    BY DEF IInv
  <1> DEFINE x == Head(stack[q])
  <1>1. /\ UNCHANGED <<data, worklist, current, stack, op, done>> /\ wpc[q] = "start"
        /\ wpc' = [wpc EXCEPT ![q] = "func"]
    BY DEF RunStart
  <1>2. wpc'[q] = "func" /\ \A p \in Queues : p # q => wpc'[p] = wpc[p]
    BY <1>0, <1>1 DEF TypeOK
  <1>3. x \in Entries(stack[q])
    <2>1. stack[q] \in Seq(Works \cup Tasks) /\ stack[q] # <<>>
      BY <1>0, <1>1 DEF TypeOK
    <2>2. 1 \in 1 .. Len(stack[q]) /\ x = stack[q][1]
      BY <2>1
    <2> QED
      BY <2>2 DEF Entries
  <1>4. ASSUME NEW t \in Tasks, NEW w \in Works, NEW p \in Queues
        PROVE  /\ <<w, "queued", p>> \in before'[t] =>
                     <<w, "queued", p>> \in before[t] /\ ~(w = x /\ p = q)
               /\ <<w, "running", p>> \in before'[t] =>
                     \/ <<w, "running", p>> \in before[t]
                     \/ w = x /\ p = q /\ <<w, "queued", p>> \in before[t]
    <2>1. before'[t] = IF <<x, "queued", q>> \in before[t]
                       THEN (before[t] \ {<<x, "queued", q>>}) \cup {<<x, "running", q>>}
                       ELSE before[t]
      BY DEF RunStart
    <2>2. <<w, "queued", p>> # <<x, "running", q>>
      OBVIOUS
    <2>3. (<<w, "running", p>> = <<x, "running", q>> \/ <<w, "queued", p>> = <<x, "queued", q>>)
             <=> w = x /\ p = q
      OBVIOUS
    <2> HIDE DEF x
    <2> QED
      BY <2>1, <2>2, <2>3
  <1>5. \A w : Starting(w, q) <=> w = x
    BY <1>1 DEF Starting
  <1> HIDE DEF x
  <1>6. ASSUME NEW p \in Queues PROVE SerialInv(p)'
    BY <1>1, <1>2 DEF SInv, SerialInv, Executing
  <1>7. ASSUME NEW t \in Tasks PROVE FlushInv(t)'
    <2> SUFFICES ASSUME op'[t].at \in {"flush", "destroy"}, NEW w \in Works, NEW p \in Queues
                 PROVE  /\ <<w, "queued", p>> \in before'[t] => FlushQueued(t, w, p)'
                        /\ <<w, "running", p>> \in before'[t] => FlushRunning(t, w, p)'
      BY DEF FlushInv, FlushQueued, FlushRunning
    <2>1. /\ <<w, "queued", p>> \in before[t] => FlushQueued(t, w, p)
          /\ <<w, "running", p>> \in before[t] => FlushRunning(t, w, p)
      BY <1>1, FlushItems DEF SInv
    <2>2. Linked(t, p)' <=> Linked(t, p)
      BY <1>1 DEF Linked
    <2>3. p # q => (Starting(w, p)' <=> Starting(w, p))
      BY <1>1, <1>2 DEF Starting
    <2>4. ASSUME <<w, "queued", p>> \in before'[t] PROVE FlushQueued(t, w, p)'
      <3>1. FlushQueued(t, w, p) /\ ~(w = x /\ p = q)
        BY <2>1, <2>4, <1>4
      <3>2. Starting(w, p) => Starting(w, p)'
        BY <3>1, <2>3, <1>5
      <3> QED
        BY <3>1, <3>2, <2>2, <1>1 DEF FlushQueued
    <2>5. ASSUME <<w, "running", p>> \in before'[t] PROVE FlushRunning(t, w, p)'
      <3>1. CASE <<w, "running", p>> \in before[t]
        BY <3>1, <2>1, <2>2, <1>1 DEF FlushRunning
      <3>2. CASE w = x /\ p = q /\ <<w, "queued", p>> \in before[t]
        <4>1. FlushQueued(t, w, p)
          BY <3>2, <2>1
        <4>2. Linked(t, p)
          <5>1. worklist[p] \in Seq(Works \cup Tasks)
            BY <1>0 DEF TypeOK
          <5> QED
            BY <4>1, <5>1, AheadLinked DEF FlushQueued, Linked
        <4> QED
          BY <3>2, <4>1, <4>2, <2>2, <1>1, <1>3 DEF FlushQueued, FlushRunning
      <3> QED
        BY <2>5, <3>1, <3>2, <1>4
    <2> QED
      BY <2>4, <2>5
  <1>8. ASSUME NEW t \in Tasks PROVE CancelInv(t)'
    BY <1>1 DEF SInv, CancelInv, Linked
  <1> QED
    BY <1>6, <1>7, <1>8 DEF SInv

\* A function returns, or a barrier is reached: nothing is left that executes.
LEMMA PopOrder ==
    ASSUME IInv, SInv, NEW q \in Queues, FuncReturns(q) \/ BarrierFunc(q)
    PROVE  SInv'
  <1> USE ConstantFacts
  <1>0. TypeOK
    BY DEF IInv
  <1> DEFINE x == Head(stack[q])
  <1>1. /\ UNCHANGED <<data, worklist, current, op>> /\ wpc[q] = "func"
        /\ wpc' = [wpc EXCEPT ![q] = "next"] /\ stack' = [stack EXCEPT ![q] = Tail(@)]
    BY DEF FuncReturns, BarrierFunc, workvars
  <1>2. stack[q] = <<current[q]>>
    BY <1>1 DEF SInv, SerialInv, Executing
  <1>3. x = current[q] /\ Tail(stack[q]) = <<>> /\ Entries(stack[q]) = {x}
    BY <1>2 DEF Entries
  <1>4. /\ wpc'[q] = "next" /\ stack'[q] = <<>>
        /\ \A p \in Queues : p # q => wpc'[p] = wpc[p] /\ stack'[p] = stack[p]
    BY <1>0, <1>1, <1>3 DEF TypeOK
  <1>5. ASSUME NEW p \in Queues PROVE SerialInv(p)'
    BY <1>1, <1>4 DEF SInv, SerialInv, Executing
  <1>6. ASSUME NEW t \in Tasks PROVE FlushInv(t)'
    <2> SUFFICES ASSUME op'[t].at \in {"flush", "destroy"}, NEW w \in Works, NEW p \in Queues
                 PROVE  /\ <<w, "queued", p>> \in before'[t] => FlushQueued(t, w, p)'
                        /\ <<w, "running", p>> \in before'[t] => FlushRunning(t, w, p)'
      BY DEF FlushInv, FlushQueued, FlushRunning
    <2>1. /\ <<w, "queued", p>> \in before[t] => FlushQueued(t, w, p)
          /\ <<w, "running", p>> \in before[t] => FlushRunning(t, w, p)
      BY <1>1, FlushItems DEF SInv
    <2>2. (Linked(t, p)' <=> Linked(t, p)) /\ (Starting(w, p) => Starting(w, p)')
      BY <1>1, <1>4 DEF Linked, Starting
    <2>3. before'[t] \subseteq before[t]
      BY DEF FuncReturns, BarrierFunc, Handled
    <2>4. Linked(t, p) => done'[t] = done[t]
      <3>1. CASE FuncReturns(q)
        BY <3>1 DEF FuncReturns
      <3>2. CASE BarrierFunc(q)
        <4>1. x \in Tasks /\ done' = [done EXCEPT ![x] = TRUE]
          BY <3>2 DEF BarrierFunc
        <4>2. Posted(x, q) /\ ~Linked(x, q)
          BY <4>1, <1>1 DEF IInv, BarrierInv, Posted, Executing
        <4>3. Linked(x, p) => p = q
          BY <4>1, <4>2 DEF IInv, BarrierInv, Posted
        <4>4. Linked(t, p) => t # x
          BY <4>2, <4>3
        <4> QED
          BY <4>1, <4>4, <1>0 DEF TypeOK
      <3> QED
        BY <3>1, <3>2
    <2>5. ASSUME <<w, "queued", p>> \in before'[t] PROVE FlushQueued(t, w, p)'
      <3>1. FlushQueued(t, w, p)
        BY <2>1, <2>3, <2>5
      <3>2. Linked(t, p)
        <4>1. worklist[p] \in Seq(Works \cup Tasks)
          BY <1>0 DEF TypeOK
        <4> QED
          BY <3>1, <4>1, AheadLinked DEF FlushQueued, Linked
      <3> QED
        BY <3>1, <3>2, <2>2, <2>4, <1>1 DEF FlushQueued
    <2>6. ASSUME <<w, "running", p>> \in before'[t] PROVE FlushRunning(t, w, p)'
      <3>1. FlushRunning(t, w, p)
        BY <2>1, <2>3, <2>6
      <3>2. p # q
        <4>1. CASE p = q
          <5>1. w = x
            BY <3>1, <4>1, <1>3 DEF FlushRunning
          <5>2. FuncReturns(q)
            BY <5>1 DEF BarrierFunc
          <5>3. <<w, "running", p>> \notin before'[t]
            BY <4>1, <5>1, <5>2 DEF FuncReturns, Handled
          <5> QED
            BY <5>3, <2>6
        <4> QED
          BY <4>1
      <3> QED
        BY <3>1, <3>2, <2>2, <2>4, <1>1 DEF FlushRunning
    <2> QED
      BY <2>5, <2>6
  <1>7. ASSUME NEW t \in Tasks PROVE CancelInv(t)'
    <2> DEFINE w == op[t].work
    <2> SUFFICES ASSUME op[t].at = "clear" \/ (op[t].at = "waiting" /\ op[t].ret >= 0),
                        data[w] # NULL, w \in Entries(stack'[data[w]])
                 PROVE  op[t].at = "waiting" /\ t \in Entries(worklist[data[w]])
      BY <1>1 DEF CancelInv, Linked
    <2>1. w \in Works /\ data[w] \in Queues
      BY <1>0 DEF IInv, CallInv, Cancels, TypeOK
    <2>2. data[w] # q
      BY <1>4 DEF Entries
    <2>3. stack'[data[w]] = stack[data[w]]
      BY <2>1, <2>2, <1>4
    <2> QED
      BY <2>3 DEF SInv, CancelInv, Linked
  <1> QED
    BY <1>5, <1>6, <1>7 DEF SInv

\* A work is taken off the list: the others keep their order, and nobody waits for it.
LEMMA StealOrder ==
    ASSUME IInv, SInv, NEW t \in Tasks, StealPending(t)
    PROVE  SInv'
  <1> USE ConstantFacts
  <1>0. TypeOK
    BY DEF IInv
  <1> DEFINE w == op[t].work
             q == op[t].cwq
  <1>1. /\ w \in Works /\ q \in Queues
        /\ UNCHANGED <<data, current, stack, wpc, done>>
    BY DEF StealPending, IInv, CallInv, Cancels, workvars
  <1>2. PICK r \in {-1, 0, 1} : Result(t, r)
    BY DEF StealPending
  <1>3. OpTo(t, "wait_on", w, NULL, r)
    BY <1>0, <1>2, ResultFacts
  <1>4. CASE UNCHANGED <<worklist, before>>
    BY <1>1, <1>3, <1>4, CallStep
  <1>5. CASE /\ data[w] = q /\ (\E p \in Queues : w \in Entries(worklist[p]))
             /\ worklist' = [worklist EXCEPT ![q] = ListDel(w, @)]
             /\ Handled(<<w, "queued", q>>)
    <2> DEFINE l == worklist[q]
               S == Works \cup Tasks
    <2>1. Linked(w, q) /\ NoDuplicates(l)
      BY <1>1, <1>5 DEF IInv, PendingInv, WorkerInv, Linked
    <2>2. l \in Seq(S) /\ w \in Entries(l)
      BY <1>0, <1>1, <2>1 DEF TypeOK, Linked
    <2>3. worklist'[q] = ListDel(w, l) /\ \A p \in Queues : p # q => worklist'[p] = worklist[p]
      BY <1>0, <1>1, <1>5 DEF TypeOK
    <2>8. \A u \in Tasks : before'[u] = before[u] \ {<<w, "queued", q>>}
      BY <1>5 DEF Handled
    <2> HIDE DEF l, S, w, q
    <2>4. /\ \A y, z : Ahead(l, y, z) /\ y # w /\ z # w => Ahead(ListDel(w, l), y, z)
          /\ Entries(ListDel(w, l)) = Entries(l) \ {w}
      BY <2>1, <2>2, AheadDel, ListDelFacts
    <2>5. ASSUME NEW u \in Tasks, NEW p \in Queues PROVE Linked(u, p) => Linked(u, p)'
      <3>1. CASE p = q
        <4>1. u # w
          BY <1>1
        <4> QED
          BY <3>1, <4>1, <2>3, <2>4 DEF Linked, l
      <3>2. CASE p # q
        BY <3>2, <2>3 DEF Linked
      <3> QED
        BY <3>1, <3>2
    <2>6. \A u \in Tasks : op'[u] = op[u] \/ op'[u].at = "wait_on"
      BY <1>3 DEF OpTo
    <2>7. ASSUME NEW u \in Tasks PROVE FlushInv(u)'
      <3>1. FlushInv(u) /\ before'[u] \subseteq before[u] /\ done'[u] = done[u]
        BY <1>1, <2>8 DEF SInv
      <3>2. ASSUME NEW p \in Queues, NEW v \in Works, <<v, "queued", p>> \in before'[u]
            PROVE  /\ Ahead(worklist[p], v, u) => Ahead(worklist'[p], v, u)
                   /\ Starting(v, p) => Starting(v, p)'
        <4>1. v # w \/ p # q
          BY <2>8, <3>2
        <4>2. Starting(v, p) => Starting(v, p)'
          BY <1>1 DEF Starting
        <4>3. CASE p # q
          BY <4>2, <4>3, <2>3
        <4>4. CASE p = q
          <5>1. v # w /\ u # w
            BY <4>1, <4>4, <1>1
          <5> QED
            BY <4>2, <4>4, <5>1, <2>3, <2>4 DEF l
        <4> QED
          BY <4>3, <4>4
      <3> QED
        BY <1>1, <2>5, <2>6, <3>1, <3>2, FlushFrame
    <2>9. ASSUME NEW u \in Tasks PROVE CancelInv(u)'
      BY <1>1, <2>5, <2>6, CancelFrame DEF SInv
    <2>10. ASSUME NEW p \in Queues PROVE SerialInv(p)'
      BY <1>1 DEF SInv, SerialInv
    <2> QED
      BY <2>7, <2>9, <2>10 DEF SInv
  <1> QED
    BY <1>4, <1>5 DEF StealPending

\* The initial state.
LEMMA InitSInv == Init => SInv
  BY DEF Init, Idle, SInv, SerialInv, FlushInv, CancelInv, Executing, Callers

\* Every step keeps the orders, unless functions flush their own workqueue.
LEMMA NextSInv ==
    ASSUME SelfFlush = FALSE
    PROVE  IInv /\ SInv /\ [Next]_vars => SInv'
  <1> SUFFICES ASSUME IInv, SInv, [Next]_vars PROVE SInv'
    OBVIOUS
  <1> USE ConstantFacts
  <1>1. CASE UNCHANGED vars
    BY <1>1 DEF vars, SInv, SerialInv, FlushInv, CancelInv, Starting, Linked
  <1>2. ASSUME NEW c \in Callers, NEW w \in Works, NEW q \in Queues,
               NEW where \in {"insert", "store"}, QueueWork(c, w, q, where)
        PROVE  SInv'
    BY <1>2, CallBegins
  <1>3. ASSUME NEW c \in Callers, Continue(c) PROVE SInv'
    BY <1>3, QueueingOrder
  <1>4. ASSUME NEW w \in Works, TimerExpires(w) \/ TimerFn(w) PROVE SInv'
    BY <1>4, TimerOrder
  <1>5. ASSUME NEW q \in Queues, WorkerStep(q) \/ FuncReturns(q) \/ FuncFlushes(q) PROVE SInv'
    <2>1. CASE RunEnter(q) \/ RunNext(q)
      BY <2>1, TakeOrder DEF RunEnter, RunNext, workvars
    <2>2. CASE WorkerPrepare(q) \/ WorkerCheck(q) \/ WorkerWakes(q) \/ WorkerFinish(q)
      BY <2>2, WorkerLoop
    <2>3. CASE RunStart(q)
      BY <2>3, StartOrder
    <2>4. CASE FuncReturns(q) \/ BarrierFunc(q)
      BY <2>4, PopOrder
    <2>5. CASE FuncFlushes(q)
      BY <2>5 DEF FuncFlushes
    <2> QED
      BY <1>5, <2>1, <2>2, <2>3, <2>4, <2>5 DEF WorkerStep
  <1>6. ASSUME NEW t \in Tasks, NEW q \in Queues, FlushWorkqueue(t, q) \/ DestroyWorkqueue(t, q)
        PROVE  SInv'
    BY <1>6, FlushOrder
  <1>7. ASSUME NEW t \in Tasks,
               \/ FlushReturns(t) \/ DestroyFlushed(t) \/ DestroyStop(t)
               \/ DestroyReturns(t) \/ CancelStep(t)
        PROVE  SInv'
    BY <1>7, CallSteps, StealOrder, WaitOrder DEF CancelStep
  <1>8. ASSUME NEW t \in Tasks, NEW w \in Works,
               CancelDelayedWork(t, w) \/ \E delayed \in BOOLEAN : CancelWorkSync(t, w, delayed)
        PROVE  SInv'
    <2>1. keventd_wq \in Queues
      BY ConstantsAssumption
    <2> QED
      BY <1>8, <2>1, CallBegins
  <1> QED
    BY <1>1, <1>2, <1>3, <1>4, <1>5, <1>6, <1>7, <1>8 DEF Next

\* What the order of the lists is for: a flush and a cancellation find what they wait for in
\* front of their barriers.
THEOREM SInvCorrect == SelfFlush = FALSE => (Spec => [](IInv /\ SInv))
  <1> SUFFICES ASSUME SelfFlush = FALSE PROVE Spec => [](IInv /\ SInv)
    OBVIOUS
  <1>1. Init => IInv /\ SInv
    BY InitIInv, InitSInv
  <1>2. (IInv /\ SInv) /\ [Next]_vars => (IInv /\ SInv)'
    BY NextIInv, NextSInv
  <1> QED
    BY <1>1, <1>2, PTL DEF Spec

\* When wait_for_completion() of flush_workqueue() ends, every work that was on the list or
\* executing when the barrier was inserted has run or was cancelled, for any number of tasks,
\* works and workqueues. Functions that flush their own workqueue are excluded: they execute
\* works out of order.
THEOREM FlushCompleteCorrect == SelfFlush = FALSE => (Spec => []FlushComplete)
  <1> SUFFICES ASSUME SelfFlush = FALSE PROVE Spec => []FlushComplete
    OBVIOUS
  <1>1. IInv /\ SInv => FlushComplete
    <2> SUFFICES ASSUME IInv, SInv, NEW t \in Tasks, op[t].at \in {"flush", "destroy"}, done[t]
                 PROVE  before[t] = {}
      BY DEF FlushComplete
    <2>1. before[t] \subseteq Works \X {"queued", "running"} \X Queues
      BY DEF IInv, TypeOK
    <2>2. \A w \in Works, q \in Queues :
             <<w, "queued", q>> \notin before[t] /\ <<w, "running", q>> \notin before[t]
      BY DEF SInv, FlushInv
    <2>3. \A z \in Works \X {"queued", "running"} \X Queues :
             \E w \in Works, q \in Queues : z = <<w, "queued", q>> \/ z = <<w, "running", q>>
      OBVIOUS
    <2>4. ASSUME NEW z \in before[t] PROVE FALSE
      <3>1. z \in Works \X {"queued", "running"} \X Queues
        BY <2>1
      <3>2. PICK w \in Works, q \in Queues : z = <<w, "queued", q>> \/ z = <<w, "running", q>>
        BY <2>3, <3>1
      <3> QED
        BY <2>2, <3>2
    <2> QED
      BY <2>4
  <1> QED
    BY <1>1, SInvCorrect, PTL

\* When cancel_work_sync() is about to return, the work is on no list, its timer is off and its
\* function does not execute on the workqueue it was last queued on.
THEOREM CancelSyncCompleteCorrect == SelfFlush = FALSE => (Spec => []CancelSyncComplete)
  <1> SUFFICES ASSUME SelfFlush = FALSE PROVE Spec => []CancelSyncComplete
    OBVIOUS
  <1>1. IInv /\ SInv => CancelSyncComplete
    <2> SUFFICES ASSUME IInv, SInv, NEW t \in Tasks, op[t].at = "clear"
                 PROVE  /\ timer[op[t].work] = "off"
                        /\ \A q \in Queues : op[t].work \notin Entries(worklist[q])
                        /\ data[op[t].work] # NULL =>
                              op[t].work \notin Entries(stack[data[op[t].work]])
      BY DEF CancelSyncComplete
    <2>1. op[t].work \in Works /\ Claimed(t, op[t].work) /\ t \in Callers
      BY ConstantFacts DEF IInv, CallInv, Cancels, Claimed
    <2>2. timer[op[t].work] = "off" /\ \A q \in Queues : ~Linked(op[t].work, q)
      BY <2>1, ClaimedFacts
    <2> QED
      BY <2>2 DEF SInv, CancelInv, Linked
  <1> QED
    BY <1>1, SInvCorrect, PTL

-----------------------------------------------------------------------------
(* Workqueue implements WorkItems when no function flushes its own workqueue. *)

\* A cancellation owns the PENDING bit of w.
Holds(t, w) == Claimed(t, w) /\ op[t].at \notin Queueing

\* Nothing happens that WorkItems sees.
Stutters == Status' = Status /\ Running' = Running

\* The status of a work follows from its PENDING bit and the cancellations, ...
LEMMA StatusOf ==
    ASSUME NEW w \in Works
    PROVE  /\ ~pending[w] => Status[w] = "idle"
           /\ pending[w] /\ (\E t \in Tasks : Holds(t, w)) => Status[w] = "claimed"
           /\ pending[w] /\ (\A t \in Tasks : ~Holds(t, w)) => Status[w] = "pending"
  BY DEF Status, Cancelling, Holds, Queueing

\* ... and so it does after the step.
LEMMA StatusNext ==
    ASSUME NEW w \in Works
    PROVE  /\ ~pending'[w] => Status'[w] = "idle"
           /\ pending'[w] /\ (\E t \in Tasks : Holds(t, w)') => Status'[w] = "claimed"
           /\ pending'[w] /\ (\A t \in Tasks : ~Holds(t, w)') => Status'[w] = "pending"
  BY DEF Status, Cancelling, Holds, Claimed, Queueing

\* No status changes.
LEMMA SameStatus ==
    ASSUME \A w \in Works : pending'[w] = pending[w],
           \A t \in Tasks, w \in Works : Holds(t, w)' <=> Holds(t, w)
    PROVE  Status' = Status
  <1>1. \A w \in Works : Cancelling(w)' <=> Cancelling(w)
    BY DEF Cancelling, Holds, Queueing
  <1> QED
    BY <1>1 DEF Status

\* One work changes its status.
LEMMA OneStatus ==
    ASSUME NEW w \in Works,
           \A v \in Works : v # w => pending'[v] = pending[v],
           \A t \in Tasks, v \in Works : v # w => (Holds(t, v)' <=> Holds(t, v))
    PROVE  Status' = [Status EXCEPT ![w] = Status'[w]]
  <1>1. \A v \in Works : v # w => (Cancelling(v)' <=> Cancelling(v))
    BY DEF Cancelling, Holds, Queueing
  <1>2. \A v \in Works : v # w => Status'[v] = Status[v]
    BY <1>1 DEF Status
  <1>3. \E f : Status = [v \in Works |-> f[v]]
    <2>1. Status = [v \in Works |-> Status[v]]
      BY DEF Status
    <2> QED
      BY <2>1
  <1>4. \E f : Status' = [v \in Works |-> f[v]]
    <2>1. Status' = [v \in Works |-> Status'[v]]
      BY DEF Status
    <2> QED
      BY <2>1
  <1> QED
    BY <1>2, <1>3, <1>4

\* The same works execute.
LEMMA SameRunning ==
    ASSUME stack' = stack, \A p \in Queues : wpc'[p] = "start" <=> wpc[p] = "start"
    PROVE  Running' = Running
  BY DEF Running

\* Only the call that moves takes or gives up a bit.
LEMMA HoldFacts ==
    ASSUME NEW c \in Callers, NEW a, NEW w, NEW q, NEW r, OpTo(c, a, w, q, r)
    PROVE  /\ \A v \in Works : Holds(c, v)' <=> v = w /\ Claims(a, r) /\ a \notin Queueing
           /\ \A d \in Callers, v \in Works : d # c => (Holds(d, v)' <=> Holds(d, v))
  BY DEF OpTo, Holds, Claimed, Claims

\* A call that holds nothing moves and holds nothing.
LEMMA SilentMove ==
    ASSUME NEW c \in Callers, NEW a, NEW w, NEW q, NEW r, OpTo(c, a, w, q, r),
           ~Claims(a, r) \/ a \in Queueing, \A v \in Works : ~Holds(c, v),
           \A v \in Works : pending'[v] = pending[v],
           stack' = stack, \A p \in Queues : wpc'[p] = "start" <=> wpc[p] = "start"
    PROVE  Stutters
  <1>1. \A d \in Callers, v \in Works : Holds(d, v)' <=> Holds(d, v)
    BY HoldFacts
  <1> QED
    BY <1>1, SameStatus, SameRunning, ConstantFacts DEF Stutters

\* Where a call holds no PENDING bit for a cancellation.
LEMMA HoldsNothing ==
    ASSUME NEW c \in Callers,
           op[c].at \in Queueing \cup {"idle", "flush", "destroy", "stop", "reap", "cancel",
                                       "grab", "steal"}
    PROVE  \A v \in Works : ~Holds(c, v)
  BY DEF Holds, Claimed, Queueing

\* A cancellation takes the bit of w.
LEMMA Claiming ==
    ASSUME NEW t \in Tasks, NEW w \in Works, NEW a, NEW q, NEW r, OpTo(t, a, w, q, r),
           Claims(a, r), a \notin Queueing, \A v \in Works : ~Holds(t, v),
           \A u \in Tasks : ~Claimed(u, w), pending'[w],
           \A v \in Works : v # w => pending'[v] = pending[v], stack' = stack, wpc' = wpc
    PROVE  Abstract!Claim(w)
  <1> USE ConstantFacts
  <1>1. Status[w] # "claimed"
    <2>1. \A u \in Tasks : ~Holds(u, w)
      BY DEF Holds
    <2> QED
      BY <2>1, StatusOf
  <1>2. Status'[w] = "claimed"
    <2>1. Holds(t, w)'
      BY HoldFacts
    <2> QED
      BY <2>1, StatusNext
  <1>3. \A u \in Tasks, v \in Works : v # w => (Holds(u, v)' <=> Holds(u, v))
    BY HoldFacts
  <1>4. Status' = [Status EXCEPT ![w] = Status'[w]]
    BY <1>3, OneStatus
  <1>5. Running' = Running
    BY SameRunning
  <1> QED
    BY <1>1, <1>2, <1>4, <1>5 DEF Abstract!Claim, Abstract!Become

\* queue_work() that sets the bit is a queueing.
LEMMA QueueIsQueue ==
    ASSUME IInv, NEW c \in Callers, NEW w \in Works, NEW q \in Queues,
           NEW where \in {"insert", "store"}, QueueWork(c, w, q, where)
    PROVE  Abstract!Queue(w)
  <1> USE ConstantFacts
  <1>0. TypeOK /\ pending \in [Works -> BOOLEAN] /\ where \in Places /\ where \in Queueing
    BY DEF IInv, TypeOK, Places, Queueing
  <1>1. /\ op[c] = Idle /\ ~pending[w] /\ pending' = [pending EXCEPT ![w] = TRUE]
        /\ Call(c, where, w, q) /\ UNCHANGED <<stack, wpc>>
    BY DEF QueueWork, MayCall, wqvars
  <1>2. OpTo(c, where, w, q, 0)
    BY <1>0, <1>1, CallFacts
  <1>3. op[c].at = "idle"
    BY <1>1, IdleFacts
  <1>4. \A d \in Callers, v \in Works : Holds(d, v)' <=> Holds(d, v)
    BY <1>0, <1>2, <1>3, HoldFacts, HoldsNothing
  <1>5. \A t \in Tasks : ~Holds(t, w)
    BY <1>1 DEF IInv, PendingInv, Holds
  <1>6. pending'[w] /\ \A v \in Works : v # w => pending'[v] = pending[v]
    BY <1>0, <1>1
  <1>7. Status[w] = "idle"
    BY <1>1, StatusOf
  <1>8. Status'[w] = "pending"
    BY <1>4, <1>5, <1>6, StatusNext
  <1>9. Status' = [Status EXCEPT ![w] = Status'[w]]
    BY <1>4, <1>6, OneStatus
  <1>10. Running' = Running
    BY <1>1, SameRunning
  <1> QED
    BY <1>7, <1>8, <1>9, <1>10 DEF Abstract!Queue, Abstract!Become

\* The rest of it is hidden, ...
LEMMA QueueingIsHidden ==
    ASSUME IInv, NEW c \in Callers, Continue(c)
    PROVE  Stutters
  <1>0. TypeOK /\ "arm" \in Places
    BY DEF IInv, Places
  <1>1. op[c].at \in Queueing /\ UNCHANGED <<pending, stack, wpc>>
    BY DEF Continue, QueueInsert, QueueStore, QueueArm, wqvars, Queueing
  <1>2. \A v \in Works : ~Holds(c, v)
    BY <1>1, HoldsNothing
  <1>3. CASE QueueStore(c)
    <2>1. OpTo(c, "arm", op[c].work, op[c].cwq, op[c].ret)
      BY <1>0, <1>3, GotoFacts DEF QueueStore
    <2> QED
      BY <1>1, <1>2, <2>1, SilentMove DEF Queueing
  <1>4. CASE QueueInsert(c) \/ QueueArm(c)
    <2>1. OpTo(c, "idle", NULL, NULL, 0)
      BY <1>0, <1>4, ReturnFacts DEF QueueInsert, QueueArm
    <2> QED
      BY <1>1, <1>2, <2>1, SilentMove DEF Claims
  <1> QED
    BY <1>3, <1>4 DEF Continue

\* ... and so are the timer, the worker's sleep and the barriers.
LEMMA InternalIsHidden ==
    ASSUME UNCHANGED <<pending, op, stack>>,
           \A p \in Queues : wpc'[p] = "start" <=> wpc[p] = "start"
    PROVE  Stutters
  <1>1. \A t \in Tasks, w \in Works : Holds(t, w)' <=> Holds(t, w)
    BY DEF Holds, Claimed
  <1> QED
    BY <1>1, SameStatus, SameRunning DEF Stutters

\* A work executes when it is on the worker's stack and has been started.
LEMMA RunningFacts ==
    ASSUME NEW w \in Works, NEW p \in Queues
    PROVE  /\ <<w, p>> \in Running <=>
                 w \in Entries(IF wpc[p] = "start" THEN Tail(stack[p]) ELSE stack[p])
           /\ <<w, p>> \in Running' <=>
                 w \in Entries(IF wpc'[p] = "start" THEN Tail(stack'[p]) ELSE stack'[p])
  BY DEF Running

\* Running is a relation between works and workqueues.
LEMMA RunningPairs == Running \subseteq Works \X Queues /\ Running' \subseteq Works \X Queues
  BY DEF Running

\* What run_workqueue() takes off the list does not execute yet.
LEMMA TakeIsHidden ==
    ASSUME IInv, NEW q \in Queues, NEW cur, wpc[q] \in {"enter", "next"}, TakeNext(q, cur),
           UNCHANGED <<pending, op>>
    PROVE  Stutters
  <1>1. CASE ListEmpty(worklist[q])
    <2>1. stack' = stack /\ \A p \in Queues : wpc'[p] = "start" <=> wpc[p] = "start"
      BY <1>1 DEF TakeNext, IInv, TypeOK
    <2> QED
      BY <2>1, InternalIsHidden
  <1>2. CASE ~ListEmpty(worklist[q])
    <2>1. /\ Tail(stack'[q]) = stack[q] /\ wpc' = [wpc EXCEPT ![q] = "start"]
          /\ \A p \in Queues : p # q => stack'[p] = stack[p]
      BY <1>2, TakeFacts
    <2>2. wpc'[q] = "start" /\ \A p \in Queues : p # q => wpc'[p] = wpc[p]
      BY <2>1 DEF IInv, TypeOK
    <2>3. ASSUME NEW w \in Works, NEW p \in Queues PROVE <<w, p>> \in Running' <=> <<w, p>> \in Running
      <3>1. CASE p = q
        BY <3>1, <2>1, <2>2, RunningFacts
      <3>2. CASE p # q
        BY <3>2, <2>1, <2>2, RunningFacts
      <3> QED
        BY <3>1, <3>2
    <2>4. Running' = Running
      BY <2>3, RunningPairs
    <2>5. \A t \in Tasks, w \in Works : Holds(t, w)' <=> Holds(t, w)
      BY DEF Holds, Claimed
    <2> QED
      BY <2>4, <2>5, SameStatus DEF Stutters
  <1> QED
    BY <1>1, <1>2

\* The start of a work is the beginning of its execution.
LEMMA StartIsBegin ==
    ASSUME IInv, SInv, NEW q \in Queues, RunStart(q)
    PROVE  Stutters \/ \E w \in Works : Abstract!Begin(w, q)
  <1> USE ConstantFacts
  <1>0. TypeOK /\ pending \in [Works -> BOOLEAN]
    BY DEF IInv, TypeOK
  <1>1. /\ UNCHANGED <<stack, op>> /\ wpc[q] = "start" /\ wpc' = [wpc EXCEPT ![q] = "func"]
    BY DEF RunStart
  <1>2. wpc'[q] = "func" /\ \A p \in Queues : p # q => wpc'[p] = wpc[p]
    BY <1>0, <1>1 DEF TypeOK
  <1>3. PICK x : stack[q] = <<x>>
    BY <1>1 DEF SInv, SerialInv, Executing
  <1>4. Head(stack[q]) = x /\ Tail(stack[q]) = <<>> /\ Entries(stack[q]) = {x}
    BY <1>3 DEF Entries
  <1>5. ASSUME NEW w \in Works
        PROVE  /\ <<w, q>> \notin Running /\ (<<w, q>> \in Running' <=> w = x)
               /\ \A p \in Queues : p # q => (<<w, p>> \in Running' <=> <<w, p>> \in Running)
    <2>1. Entries(<<>>) = {}
      BY DEF Entries
    <2>2. <<w, q>> \notin Running
      BY <2>1, <1>1, <1>4, RunningFacts
    <2>3. <<w, q>> \in Running' <=> w = x
      BY <1>1, <1>2, <1>4, RunningFacts
    <2>4. ASSUME NEW p \in Queues, p # q PROVE <<w, p>> \in Running' <=> <<w, p>> \in Running
      BY <2>4, <1>1, <1>2, RunningFacts
    <2> QED
      BY <2>2, <2>3, <2>4
  <1>6. \A t \in Tasks, w \in Works : Holds(t, w)' <=> Holds(t, w)
    BY <1>1 DEF Holds, Claimed
  <1>7. CASE x \in Works
    <2>1. /\ pending[x] /\ \A t \in Tasks : ~Claimed(t, x)
      <3>1. Starting(x, q)
        BY <1>1, <1>4 DEF Starting
      <3> QED
        BY <1>7, <3>1 DEF IInv, PendingInv
    <2>2. ~pending'[x] /\ \A v \in Works : v # x => pending'[v] = pending[v]
      BY <1>0, <1>4, <1>7 DEF RunStart
    <2>3. Status[x] = "pending"
      BY <1>7, <2>1, StatusOf DEF Holds
    <2>4. Status'[x] = "idle"
      BY <1>7, <2>2, StatusNext
    <2>5. Status' = [Status EXCEPT ![x] = Status'[x]]
      BY <1>6, <1>7, <2>2, OneStatus
    <2>6. Running' = Running \cup {<<x, q>>}
      <3>1. ASSUME NEW w \in Works, NEW p \in Queues
            PROVE  <<w, p>> \in Running' <=> <<w, p>> \in Running \/ <<w, p>> = <<x, q>>
        BY <1>5
      <3> QED
        BY <3>1, <1>7, RunningPairs
    <2>7. \A w \in Works : <<w, q>> \notin Running
      BY <1>5
    <2>8. Abstract!Begin(x, q)
      BY <2>3, <2>4, <2>5, <2>6, <2>7 DEF Abstract!Begin, Abstract!Become
    <2> QED
      BY <1>7, <2>8
  <1>8. CASE x \notin Works
    <2>1. pending' = pending
      BY <1>4, <1>8 DEF RunStart
    <2>2. ASSUME NEW w \in Works, NEW p \in Queues PROVE <<w, p>> \in Running' <=> <<w, p>> \in Running
      BY <1>5, <1>8
    <2>3. Running' = Running
      BY <2>2, RunningPairs
    <2> QED
      BY <1>6, <2>1, <2>3, SameStatus DEF Stutters
  <1> QED
    BY <1>7, <1>8

\* Its return is the end.
LEMMA PopIsEnd ==
    ASSUME IInv, SInv, NEW q \in Queues, FuncReturns(q) \/ BarrierFunc(q)
    PROVE  Stutters \/ \E w \in Works : Abstract!End(w, q)
  <1> USE ConstantFacts
  <1>0. TypeOK
    BY DEF IInv
  <1>1. /\ UNCHANGED <<pending, op>> /\ wpc[q] = "func"
        /\ wpc' = [wpc EXCEPT ![q] = "next"] /\ stack' = [stack EXCEPT ![q] = Tail(@)]
    BY DEF FuncReturns, BarrierFunc, workvars
  <1>2. PICK x : stack[q] = <<x>>
    BY <1>1 DEF SInv, SerialInv, Executing
  <1>3. Head(stack[q]) = x /\ Tail(stack[q]) = <<>> /\ Entries(stack[q]) = {x} /\ Entries(<<>>) = {}
    BY <1>2 DEF Entries
  <1>4. /\ wpc'[q] = "next" /\ stack'[q] = <<>>
        /\ \A p \in Queues : p # q => wpc'[p] = wpc[p] /\ stack'[p] = stack[p]
    BY <1>0, <1>1, <1>3 DEF TypeOK
  <1>5. ASSUME NEW w \in Works
        PROVE  /\ <<w, q>> \notin Running' /\ (<<w, q>> \in Running <=> w = x)
               /\ \A p \in Queues : p # q => (<<w, p>> \in Running' <=> <<w, p>> \in Running)
    <2>1. <<w, q>> \notin Running'
      BY <1>3, <1>4, RunningFacts
    <2>2. <<w, q>> \in Running <=> w = x
      BY <1>1, <1>3, RunningFacts
    <2>3. ASSUME NEW p \in Queues, p # q PROVE <<w, p>> \in Running' <=> <<w, p>> \in Running
      BY <2>3, <1>4, RunningFacts
    <2> QED
      BY <2>1, <2>2, <2>3
  <1>6. Status' = Status
    <2>1. \A t \in Tasks, w \in Works : Holds(t, w)' <=> Holds(t, w)
      BY <1>1 DEF Holds, Claimed
    <2> QED
      BY <1>1, <2>1, SameStatus
  <1>7. CASE x \in Works
    <2>1. Running' = Running \ {<<x, q>>}
      <3>1. ASSUME NEW w \in Works, NEW p \in Queues
            PROVE  <<w, p>> \in Running' <=> <<w, p>> \in Running /\ <<w, p>> # <<x, q>>
        BY <1>5
      <3> QED
        BY <3>1, RunningPairs
    <2>2. Abstract!End(x, q)
      BY <1>5, <1>6, <1>7, <2>1 DEF Abstract!End
    <2> QED
      BY <1>7, <2>2
  <1>8. CASE x \notin Works
    <2>1. ASSUME NEW w \in Works, NEW p \in Queues PROVE <<w, p>> \in Running' <=> <<w, p>> \in Running
      BY <1>5, <1>8
    <2>2. Running' = Running
      BY <2>1, RunningPairs
    <2> QED
      BY <1>6, <2>2 DEF Stutters
  <1> QED
    BY <1>7, <1>8

\* Flushing and destroying are hidden.
LEMMA FlushIsHidden ==
    ASSUME IInv, NEW t \in Tasks,
           \/ \E q \in Queues : FlushWorkqueue(t, q) \/ DestroyWorkqueue(t, q)
           \/ FlushReturns(t) \/ DestroyFlushed(t) \/ DestroyStop(t) \/ DestroyReturns(t)
    PROVE  Stutters
  <1> USE ConstantFacts
  <1>0. TypeOK
    BY DEF IInv
  <1>1. UNCHANGED <<pending, stack, wpc>>
    BY DEF FlushWorkqueue, DestroyWorkqueue, FlushReturns, DestroyFlushed, DestroyStop,
           DestroyReturns, workvars, wqvars
  <1>2. \A v \in Works : ~Holds(t, v)
    BY HoldsNothing, IdleFacts DEF FlushWorkqueue, DestroyWorkqueue, FlushReturns, DestroyFlushed,
                                  DestroyStop, DestroyReturns
  <1>3. \E a \in {"idle", "flush", "destroy", "stop", "reap"} : \E w, k, r : OpTo(t, a, w, k, r)
    <2>1. ASSUME NEW q \in Queues, NEW a \in {"flush", "destroy", "stop"}, Call(t, a, NULL, q)
          PROVE  OpTo(t, a, NULL, q, 0)
      <3>1. a \in Places
        BY DEF Places
      <3> QED
        BY <1>0, <2>1, <3>1, CallFacts
    <2>2. ASSUME NEW a \in {"stop", "reap"}, Goto(t, a)
          PROVE  OpTo(t, a, op[t].work, op[t].cwq, op[t].ret)
      <3>1. a \in Places
        BY DEF Places
      <3> QED
        BY <1>0, <2>2, <3>1, GotoFacts
    <2>3. Return(t) => OpTo(t, "idle", NULL, NULL, 0)
      BY <1>0, ReturnFacts
    <2>4. CASE \E q \in Queues : FlushWorkqueue(t, q) \/ DestroyWorkqueue(t, q)
      BY <2>1, <2>4 DEF FlushWorkqueue, DestroyWorkqueue, FlushBarrier
    <2>5. CASE DestroyFlushed(t) \/ DestroyStop(t)
      BY <2>2, <2>5 DEF DestroyFlushed, DestroyStop
    <2>6. CASE FlushReturns(t) \/ DestroyReturns(t)
      BY <2>3, <2>6 DEF FlushReturns, DestroyReturns
    <2> QED
      BY <2>4, <2>5, <2>6
  <1>4. PICK a \in {"idle", "flush", "destroy", "stop", "reap"} : \E w, k, r : OpTo(t, a, w, k, r)
    BY <1>3
  <1>5. PICK w, k, r : OpTo(t, a, w, k, r)
    BY <1>4
  <1>6. ~Claims(a, r)
    BY DEF Claims
  <1> QED
    BY <1>1, <1>2, <1>5, <1>6, SilentMove

\* The bit of w has another owner than a cancellation while the timer is armed or w is linked.
LEMMA OwnedElsewhere ==
    ASSUME IInv, NEW w \in Works,
           timer[w] # "off" \/ (\E q \in Queues : Linked(w, q))
    PROVE  pending[w] /\ \A t \in Tasks : ~Claimed(t, w)
  BY ConstantFacts DEF IInv, PendingInv

\* A cancellation claims the work, goes on without a claim, ...
LEMMA CancelIsClaim ==
    ASSUME IInv, NEW t \in Tasks,
           \/ \E w \in Works : CancelDelayedWork(t, w)
           \/ \E w \in Works, delayed \in BOOLEAN : CancelWorkSync(t, w, delayed)
           \/ CancelDelTimer(t) \/ TryToGrabPending(t) \/ StealPending(t)
    PROVE  Stutters \/ \E w \in Works : Abstract!Claim(w)
  <1> USE ConstantFacts
  <1>0. TypeOK /\ pending \in [Works -> BOOLEAN] /\ "grab" \in Places /\ "undelay" \in Places
    BY DEF IInv, TypeOK, Places
  <1>1. UNCHANGED <<stack, wpc>>
    BY DEF CancelDelayedWork, CancelWorkSync, CancelDelTimer, TryToGrabPending, StealPending,
       wqvars
  <1>2. \A v \in Works : ~Holds(t, v)
    BY HoldsNothing, IdleFacts DEF CancelDelayedWork, CancelWorkSync, CancelDelTimer,
                                  TryToGrabPending, StealPending
  <1>3. ASSUME NEW w \in Works, CancelDelayedWork(t, w) PROVE Abstract!Claim(w)
    <2>1. Call(t, "undelay", w, NULL) /\ pending' = pending /\ timer[w] # "off"
      BY <1>3 DEF CancelDelayedWork
    <2>2. OpTo(t, "undelay", w, NULL, 0)
      BY <1>0, <2>1, CallFacts
    <2>3. pending[w] /\ \A u \in Tasks : ~Claimed(u, w)
      BY <2>1, OwnedElsewhere
    <2>4. Claims("undelay", 0) /\ "undelay" \notin Queueing
      BY DEF Claims, Queueing
    <2> QED
      BY <1>1, <1>2, <2>1, <2>2, <2>3, <2>4, Claiming
  <1>4. ASSUME NEW w \in Works, NEW delayed \in BOOLEAN, CancelWorkSync(t, w, delayed) PROVE Stutters
    <2> DEFINE x == [at |-> "cancel", work |-> w, cwq |-> NULL, timer |-> delayed, ret |-> 0]
    <2>1. x \in OpRec /\ x.at = "cancel"
      BY DEF OpRec, Places
    <2>2. op' = [op EXCEPT ![t] = x] /\ pending' = pending
      BY <1>4 DEF CancelWorkSync, workvars
    <2> HIDE DEF x
    <2>3. OpTo(t, x.at, x.work, x.cwq, x.ret)
      BY <1>0, <2>1, <2>2, OpFacts
    <2>4. OpTo(t, "cancel", x.work, x.cwq, x.ret) /\ ~Claims("cancel", x.ret)
      BY <2>1, <2>3 DEF Claims
    <2> QED
      BY <1>1, <1>2, <2>2, <2>4, SilentMove
  <1> DEFINE w == op[t].work
  <1>5. CancelDelTimer(t) \/ TryToGrabPending(t) \/ StealPending(t) => w \in Works
    BY DEF CancelDelTimer, TryToGrabPending, StealPending, IInv, CallInv, Cancels
  <1>6. ASSUME NEW r \in {0, 1}, w \in Works, Result(t, r), \A u \in Tasks : ~Claimed(u, w),
               pending'[w], \A v \in Works : v # w => pending'[v] = pending[v]
        PROVE  Abstract!Claim(w)
    <2>1. OpTo(t, "wait_on", w, NULL, r)
      BY <1>0, <1>6, ResultFacts
    <2>2. Claims("wait_on", r) /\ "wait_on" \notin Queueing
      BY DEF Claims, Queueing
    <2> HIDE DEF w
    <2> QED
      BY <1>1, <1>2, <1>6, <2>1, <2>2, Claiming
  <1>7. ASSUME Result(t, -1), \A v \in Works : pending'[v] = pending[v] PROVE Stutters
    <2>1. OpTo(t, "wait_on", w, NULL, -1)
      BY <1>0, <1>7, ResultFacts
    <2>2. ~Claims("wait_on", -1)
      BY DEF Claims
    <2> QED
      BY <1>1, <1>2, <1>7, <2>1, <2>2, SilentMove
  <1>8. CASE CancelDelTimer(t)
    <2>1. pending' = pending
      BY <1>8 DEF CancelDelTimer
    <2>2. CASE op[t].timer /\ timer[w] = "armed"
      <3>1. pending[w] /\ \A u \in Tasks : ~Claimed(u, w)
        BY <1>5, <1>8, <2>2, OwnedElsewhere
      <3>2. Result(t, 1)
        BY <1>8, <2>2 DEF CancelDelTimer
      <3> QED
        BY <1>5, <1>6, <1>8, <2>1, <3>1, <3>2
    <2>3. CASE ~(op[t].timer /\ timer[w] = "armed")
      <3>1. OpTo(t, "grab", op[t].work, op[t].cwq, op[t].ret)
        BY <1>0, <1>8, <2>3, GotoFacts DEF CancelDelTimer
      <3>2. ~Claims("grab", op[t].ret)
        BY DEF Claims
      <3> QED
        BY <1>1, <1>2, <2>1, <3>1, <3>2, SilentMove
    <2> QED
      BY <2>2, <2>3
  <1>9. CASE TryToGrabPending(t)
    <2>1. pending'[w] /\ \A v \in Works : v # w => pending'[v] = pending[v]
      BY <1>0, <1>5, <1>9 DEF TryToGrabPending
    <2>2. CASE ~pending[w] /\ Result(t, 0)
      <3>1. \A u \in Tasks : ~Claimed(u, w)
        BY <1>5, <1>9, <2>2 DEF IInv, PendingInv
      <3> QED
        BY <1>5, <1>6, <1>9, <2>1, <2>2, <3>1
    <2>3. CASE pending[w]
      <3>1. \A v \in Works : pending'[v] = pending[v]
        BY <1>0, <1>5, <1>9, <2>1, <2>3
      <3>2. CASE Result(t, -1)
        BY <1>7, <3>1, <3>2
      <3>3. CASE op' = [op EXCEPT ![t] = [at |-> "steal", work |-> w, cwq |-> data[w],
                                         timer |-> op[t].timer, ret |-> op[t].ret]]
        <4> DEFINE y == [at |-> "steal", work |-> w, cwq |-> data[w],
                         timer |-> op[t].timer, ret |-> op[t].ret]
        <4>1. /\ data[w] \in Queues \cup {NULL} /\ op[t].timer \in BOOLEAN
              /\ op[t].ret \in {-1, 0, 1} /\ w \in Works
          BY <1>0, <1>5, <1>9 DEF TypeOK
        <4>2. y \in OpRec /\ y.at = "steal"
          BY <4>1 DEF OpRec, Places
        <4> HIDE DEF y
        <4>3. OpTo(t, y.at, y.work, y.cwq, y.ret)
          BY <1>0, <3>3, <4>2, OpFacts DEF y
        <4>4. OpTo(t, "steal", y.work, y.cwq, y.ret) /\ ~Claims("steal", y.ret)
          BY <4>2, <4>3 DEF Claims
        <4> QED
          BY <1>1, <1>2, <3>1, <4>4, SilentMove
      <3> QED
        BY <1>9, <2>3, <3>2, <3>3 DEF TryToGrabPending
    <2> QED
      BY <1>9, <2>2, <2>3 DEF TryToGrabPending
  <1>10. CASE StealPending(t)
    <2>1. pending' = pending
      BY <1>10 DEF StealPending, workvars
    <2>2. CASE Result(t, 1) /\ \E p \in Queues : w \in Entries(worklist[p])
      <3>1. pending[w] /\ \A u \in Tasks : ~Claimed(u, w)
        BY <1>5, <1>10, <2>2, OwnedElsewhere DEF Linked
      <3> QED
        BY <1>5, <1>6, <1>10, <2>1, <2>2, <3>1
    <2>3. CASE Result(t, -1)
      BY <1>7, <2>1, <2>3
    <2> QED
      BY <1>10, <2>2, <2>3 DEF StealPending
  <1> QED
    BY <1>3, <1>4, <1>8, <1>9, <1>10

\* ... waits and keeps it, ...
LEMMA WaitIsHidden ==
    ASSUME IInv, NEW t \in Tasks, WaitOnWork(t) \/ WaitOnWorkDone(t)
    PROVE  Stutters
  <1> USE ConstantFacts
  <1>0. TypeOK /\ op[t].ret \in {-1, 0, 1}
    BY DEF IInv, TypeOK
  <1>1. UNCHANGED <<pending, stack, wpc>> /\ op[t].at \in {"wait_on", "waiting"}
    BY DEF WaitOnWork, WaitOnWorkDone, workvars, wqvars
  <1>2. PICK a \in {"waiting", AfterWait(t)} : Goto(t, a)
    BY DEF WaitOnWork, WaitOnWorkDone
  <1>3. a \in Places
    BY DEF Places, AfterWait
  <1>4. OpTo(t, a, op[t].work, op[t].cwq, op[t].ret)
    BY <1>0, <1>2, <1>3, GotoFacts
  <1>5. Claims(a, op[t].ret) <=> op[t].ret >= 0
    BY <1>0 DEF Claims, AfterWait
  <1>6. a \notin Queueing
    BY DEF Queueing, AfterWait
  <1>7. \A v \in Works : Holds(t, v) <=> v = op[t].work /\ op[t].ret >= 0
    BY <1>1 DEF Holds, Claimed, Queueing
  <1>8. \A u \in Tasks, v \in Works : Holds(u, v)' <=> Holds(u, v)
    BY <1>4, <1>5, <1>6, <1>7, HoldFacts
  <1> QED
    BY <1>1, <1>8, SameStatus, SameRunning DEF Stutters

\* ... and releases it.
LEMMA ReturnIsRelease ==
    ASSUME IInv, NEW t \in Tasks, CancelReturns(t)
    PROVE  \E w \in Works : Abstract!Release(w)
  <1> USE ConstantFacts
  <1>0. TypeOK /\ pending \in [Works -> BOOLEAN]
    BY DEF IInv, TypeOK
  <1>1. PICK w \in Works : w = op[t].work
    BY DEF CancelReturns, IInv, CallInv, Cancels
  <1>2. Claimed(t, w) /\ Holds(t, w) /\ \A v \in Works : Holds(t, v) => v = w
    BY <1>1 DEF CancelReturns, Claimed, Holds, Queueing
  <1>3. pending[w] /\ \A u \in Tasks : Claimed(u, w) => u = t
    BY <1>2, ClaimedFacts
  <1>4. OpTo(t, "idle", NULL, NULL, 0)
    BY <1>0, ReturnFacts DEF CancelReturns
  <1>5. /\ ~pending'[w] /\ \A v \in Works : v # w => pending'[v] = pending[v]
        /\ UNCHANGED <<stack, wpc>>
    BY <1>0, <1>1 DEF CancelReturns, wqvars
  <1>6. \A u \in Tasks, v \in Works : v # w => (Holds(u, v)' <=> Holds(u, v))
    BY <1>2, <1>4, HoldFacts
  <1>7. Status[w] = "claimed" /\ Status'[w] = "idle"
    BY <1>2, <1>3, <1>5, StatusOf, StatusNext
  <1>8. Status' = [Status EXCEPT ![w] = Status'[w]]
    BY <1>5, <1>6, OneStatus
  <1>9. Running' = Running
    BY <1>5, SameRunning
  <1>10. Abstract!Release(w)
    BY <1>7, <1>8, <1>9 DEF Abstract!Release, Abstract!Become
  <1> QED
    BY <1>10

\* Every step is a step of WorkItems or hidden.
LEMMA StepRefines ==
    ASSUME SelfFlush = FALSE
    PROVE  (IInv /\ SInv) /\ [Next]_vars => [Abstract!INext]_Abstract!ivars
  <1> DEFINE Step == \E w \in Works :
                        \/ Abstract!Queue(w) \/ Abstract!Claim(w) \/ Abstract!Release(w)
                        \/ \E q \in Queues : Abstract!Begin(w, q) \/ Abstract!End(w, q)
  <1> SUFFICES ASSUME IInv, SInv, [Next]_vars PROVE Stutters \/ Step
    BY DEF Stutters, Abstract!INext, Abstract!ivars
  <1>1. CASE UNCHANGED vars
    BY <1>1, InternalIsHidden DEF vars
  <1>2. ASSUME NEW c \in Callers, NEW w \in Works, NEW q \in Queues,
               NEW where \in {"insert", "store"}, QueueWork(c, w, q, where)
        PROVE  Step
    BY <1>2, QueueIsQueue
  <1>3. ASSUME NEW c \in Callers, Continue(c) PROVE Stutters
    BY <1>3, QueueingIsHidden
  <1>4. ASSUME NEW w \in Works, TimerExpires(w) \/ TimerFn(w) PROVE Stutters
    BY <1>4, InternalIsHidden DEF TimerExpires, TimerFn, wqvars
  <1>5. ASSUME NEW q \in Queues, WorkerStep(q) \/ FuncReturns(q) \/ FuncFlushes(q)
        PROVE  Stutters \/ Step
    <2>1. CASE RunEnter(q) \/ RunNext(q)
      BY <2>1, TakeIsHidden DEF RunEnter, RunNext, workvars
    <2>2. CASE WorkerPrepare(q) \/ WorkerCheck(q) \/ WorkerWakes(q) \/ WorkerFinish(q)
      <3>1. UNCHANGED <<pending, op, stack>>
        BY <2>2 DEF WorkerPrepare, WorkerCheck, WorkerWakes, WorkerFinish, workvars
      <3>2. \A p \in Queues : wpc'[p] = "start" <=> wpc[p] = "start"
        BY <2>2 DEF WorkerPrepare, WorkerCheck, WorkerWakes, WorkerFinish, IInv, TypeOK
      <3> QED
        BY <3>1, <3>2, InternalIsHidden
    <2>3. CASE RunStart(q)
      BY <2>3, StartIsBegin
    <2>4. CASE FuncReturns(q) \/ BarrierFunc(q)
      BY <2>4, PopIsEnd
    <2>5. CASE FuncFlushes(q)
      BY <2>5 DEF FuncFlushes
    <2> QED
      BY <1>5, <2>1, <2>2, <2>3, <2>4, <2>5 DEF WorkerStep
  <1>6. ASSUME NEW t \in Tasks, NEW q \in Queues, FlushWorkqueue(t, q) \/ DestroyWorkqueue(t, q)
        PROVE  Stutters
    BY <1>6, FlushIsHidden
  <1>7. ASSUME NEW t \in Tasks,
               \/ FlushReturns(t) \/ DestroyFlushed(t) \/ DestroyStop(t)
               \/ DestroyReturns(t) \/ CancelStep(t)
        PROVE  Stutters \/ Step
    BY <1>7, FlushIsHidden, CancelIsClaim, WaitIsHidden, ReturnIsRelease DEF CancelStep
  <1>8. ASSUME NEW t \in Tasks, NEW w \in Works,
               CancelDelayedWork(t, w) \/ \E delayed \in BOOLEAN : CancelWorkSync(t, w, delayed)
        PROVE  Stutters \/ Step
    BY <1>8, CancelIsClaim
  <1> QED
    BY <1>1, <1>2, <1>3, <1>4, <1>5, <1>6, <1>7, <1>8 DEF Next

\* A queued work is executed once or is cancelled, every execution uses up a queueing of its
\* own, a work that is being cancelled is not queued, and a workqueue executes one work at a
\* time, for any number of tasks, works and workqueues.
THEOREM RefinesWorkItemsCorrect == SelfFlush = FALSE => (Spec => RefinesWorkItems)
  <1> SUFFICES ASSUME SelfFlush = FALSE PROVE Spec => RefinesWorkItems
    OBVIOUS
  <1>1. Init => Abstract!IInit
    <2> SUFFICES ASSUME Init PROVE Status = [w \in Works |-> "idle"] /\ Running = {}
      BY DEF Abstract!IInit
    <2>1. \A w \in Works : ~pending[w]
      BY DEF Init
    <2>2. \A q \in Queues : wpc[q] = "prepare" /\ Entries(stack[q]) = {}
      BY DEF Init, Entries
    <2>3. Status = [w \in Works |-> "idle"]
      BY <2>1 DEF Status
    <2>4. \A w \in Works, q \in Queues : <<w, q>> \notin Running
      BY <2>2, RunningFacts
    <2>5. Running = {}
      BY <2>4, RunningPairs
    <2> QED
      BY <2>3, <2>5
  <1>2. (IInv /\ SInv) /\ [Next]_vars => [Abstract!INext]_Abstract!ivars
    BY StepRefines
  <1> QED
    BY <1>1, <1>2, SInvCorrect, PTL DEF Spec, RefinesWorkItems, Abstract!ISpec
=============================================================================
