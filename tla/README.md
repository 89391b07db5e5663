# A TLA+ development for the BOOX60 kernel tree

The repository holds what runs on the Onyx BOOX60 e-reader: a Linux 2.6.26
kernel (`src/linux`), the RedBoot boot loader on eCos (`src/ecos`), an initramfs
with a firmware-update script (`src/onyx`) and a build driver. The device is an
i.MX31 (ARMv6), and `linux/arch/arm/configs/onyx_defconfig` fixes the variants
that matter here: one CPU, `CONFIG_PREEMPT`, `RWSEM_GENERIC_SPINLOCK`, no
`DEBUG_MUTEXES`.

The development models the kernel's own core, the blocking primitives and the
machinery for deferred work and threads that every driver of the device is
written against, and the code that Onyx added for the device: the boot splash
with its display controller, the connection monitor and the update script. All
of it is short, concurrent or exposed to failures, and subtle, and a test hardly
reaches the interleavings that would break it.

## 1. Inventory

| Component | State | Operations | Interacts with | What is hard | What makes it correct |
|---|---|---|---|---|---|
| Linked list `include/linux/list.h` | the links | add, add_tail, del, empty | all lists below | double add, double del | lemmas on the sequences |
| Semaphore `kernel/semaphore.c` | count, wait_list, waiter.up | down (4 forms), down_trylock, up | scheduler, signals, timers, interrupts (`up`) | signal or timeout against hand-over | units conserved, no lost wake-up, a grant is final |
| Rw-semaphore `lib/rwsem-spinlock.c` | activity, wait_list, waiter.task, flags | down/up read/write, trylocks, downgrade | scheduler | sleepers poll `waiter.task` without the lock while the wake loop runs | exclusion, exact activity, FIFO hand-over, no access to a dead waiter |
| Mutex `kernel/mutex.c`, `asm-arm/mutex.h` | count, wait_list | lock (3 forms), trylock, unlock | scheduler, signals | lock-free fast paths beside a locked slow path that overwrites count | one owner, no lost wake-up, progress |
| kfifo `kernel/kfifo.c`, `kfifo.h` | buffer, in, out | put, get, len, reset | a producer and a consumer (Libertas SDIO events) | no lock, stale index samples, wrap-around | a bounded FIFO |
| Workqueues `kernel/workqueue.c` | PENDING and data of a work, worklist, current_work, worker thread | queue, queue_delayed, flush, cancel (3 forms), destroy | timers, kthreads, completions | cancellation against re-queueing, flush against barriers, self-flush | one owner of PENDING, complete flush/cancel/destroy, no lost wake-up |
| Kernel threads `kernel/kthread.c` | kthread_create_list, a request on its creator's stack, kthread_stop_info, task states | create, bind, wake, stop, the daemon kthreadd | scheduler, completions | wake-ups before the sleep, one completion for all stops, stack lifetimes | calls return, nothing runs unasked, the right result |
| SRCU `kernel/srcu.c` | completed, two counters per CPU, mutex | read lock/unlock, synchronize, cleanup | synchronize_sched(), mutex | an index fetched before a flip, sums that are not atomic, reordering processors | every call is a grace period, and ends |
| Boot splash `drivers/video/onyx/onyx_main.c` | timer, image, progress | initcall, timer function | display controller, timers, kmalloc() | the timer function against the initcall, allocation failure | an undamaged command stream, no use of freed or null memory, it ends |
| Display controller `bs_chip.c`, `bs_cmd.c` | GPIO data register, HRDY, the chip's command state | image load, area update, waits, reset | the two contexts of the splash | no lock, time-outs in the middle of a command | every command with its words |
| Connection monitor `drivers/usb/gadget/pcconn_mon.c` | resources, controller registers | probe, remove, interrupt | PC, controller, user space | the interrupt during probe, dropped errors | all or nothing held, one notification per connection |
| Update script `onyx/initramfs.d/init.in.sh` | card, unpacked package, root file system | mount, unpack, update, reboot, boot | card, power | failures that are ignored, loss of power | an update is never cut off by the script itself, and a whole package for the customer gets installed |
| stop_machine, completions, timers | see section 7 | | | | inlined or not compiled |
| Scheduler, RCU, mm, fs, net, other drivers, arch, sound, eCos | | | | | not modelled |

`PROJECT.json` lists the main hazards of each component at the line where they
bite, with the properties that would catch them. Where the code is not protected
against a hazard, the property that catches it is the one of a run that ends in a
violation (section 3), or a note says that the code leaves it open.

## 2. Modules

| Module | Role |
|---|---|
| `ListHead`, `ListHeadProofs` | list operations on sequences, and lemmas about them |
| `CountingSemaphore` | abstract: units and holders |
| `SleepingLock` | the state that a lock with a wait list and its tasks have in common |
| `Semaphore` | `kernel/semaphore.c`, extends `SleepingLock` |
| `ReadWriteLock` | abstract: readers, writers, downgrade |
| `RwSem`, `RwSemProofs` | `lib/rwsem-spinlock.c` |
| `Mutex` | `kernel/mutex.c` with the ARMv6 fast paths, extends `SleepingLock`; implements `CountingSemaphore` with one unit |
| `LockProofs` | proofs about `Semaphore` and `Mutex` |
| `BoundedFifo` | abstract: a sequence of at most Size bytes |
| `KFifo`, `MCKFifo`, `KFifoProofs` | `kernel/kfifo.c`, lock-free and locked |
| `WorkItems` | abstract: idle, pending, claimed works and their executions |
| `Workqueue`, `MCWorkqueue`, `WorkqueueProofs` | `kernel/workqueue.c` on one CPU |
| `Kthread`, `KthreadProofs` | `kernel/kthread.c` |
| `GracePeriod` | abstract: readers inside, and whom each updater waits for |
| `Srcu`, `SrcuProofs` | `kernel/srcu.c` on several CPUs |
| `BsChip` | `bs_chip.c`, `bs_cmd.c` and the display chip |
| `OnyxSplash` | `onyx_main.c`, extends `BsChip` |
| `PcConnMon` | `pcconn_mon.c` with its controller |
| `InitramfsUpdate` | `init.in.sh` |
| `OnyxDevice`, `OnyxDeviceProofs` | the device: composes the three above over boots and losses of power |

Each component module has one action per section of code that other threads
cannot see the inside of. An operator whose name ends in `_Something` and whose
comment starts with "Mutant" is a deliberately wrong variant; it shows that a
property can fail and is used by nothing else.

`Consistent` in a module (`MutexConsistent` in `Mutex`) is the conjunction of its
type invariant and of the invariants that tie its variables to each other; each
part has a name and a comment of its own.

### Semaphore

A section under `sem->lock` is an action. `DownAcquire`, `DownSleep` and
`DownGiveUp` are the three outcomes of a call of `down*()` up to the first
sleep; `ResumeAcquired`, `ResumeGiveUp` and `ResumeSleep` those of a turn of the
loop of `__down_common()` after `schedule_timeout()`. `Up` and `Post` are `up()`
by a holder and by anybody else (an interrupt, another task). Signals, the
expiry of the timeout and stray wake-ups are actions of the environment.

### RwSem

The wake loops of `__rwsem_do_wake()` and `__rwsem_wake_one_writer()` are split
at every store a sleeper can see, since a sleeper tests `waiter.task` without
the lock: unlinking (`StartWake`, `WakeNext`), clearing the pointer
(`ClearTask`) and `wake_up_process()` (`WakeNext`, `WakeLast`) are separate, and
the waker keeps `wait_lock` over all of them. `WaitDone`, `WaitSchedule` and
`WaitAgain` are the sleeper's loop. The reference taken on the woken task is
left out: tasks do not exit in the model.

### Mutex

The fast paths of `asm-arm/mutex.h` are a single ldrex/strex attempt: it stores
the changed value, whatever that is, or fails and stores nothing
(`FastLock`/`FastLockFails`, `FastUnlock`/`FastUnlockFails`). They do not take
`wait_lock`, so every access to `count` inside a locked section is a step of its
own: the `atomic_xchg()` on entry (`LockSlow`), the exchanges of the loop
(`TryTake`, `TryGiveUp`, `TrySleep`), the `atomic_set()` at the end
(`LockDone`), and the `atomic_set()` of the unlock (`UnlockSlow`) before its
look at the list (`UnlockWake`). Names that `Semaphore` has too carry the prefix
`Mutex`: `MutexResume` is the return from `schedule()`.

### KFifo

`PutSample` reads `out` once and fixes the length, `PutCopy` copies one byte,
`PutPublish` stores `in`; likewise for the consumer. `in` and `out` count modulo
`Modulus` (2^32 in the code, a small multiple of `Size` here), and are reduced to
a slot only when used. Memory barriers are modelled by the order of the steps.
`locked`, fixed for the life of a FIFO, says which functions its users call: the
plain ones of one producer and one consumer (`FreeNext`), or the ones that take
`fifo->lock` (`LockedNext`), with the rewinding of an empty FIFO in `kfifo_get()`
and with `kfifo_reset()`.

### Workqueue

A section under `cwq->lock` is an action. `QueueWork` sets PENDING,
`QueueInsert` is `__queue_work()`; `QueueStore` and `QueueArm` are the two
stores of `queue_delayed_work_on()`. A timer is off, armed, or running (taken
from the wheel, function not finished): `del_timer()` succeeds only on an armed
one. The worker's loop is `WorkerPrepare`, `WorkerCheck` (without the lock),
`WorkerWakes`, `WorkerFinish`, then `run_workqueue()` as `RunEnter`, `RunStart`
(`work_clear_pending()`), `FuncReturns` or `BarrierFunc`, `RunNext`. `stack`
holds the works whose functions are on the worker's stack, more than one when a
function flushes its own workqueue (`FuncFlushes`). A cancellation is the loop
of `__cancel_work_timer()`: `CancelDelTimer`, `TryToGrabPending`,
`StealPending`, `WaitOnWork`, `WaitOnWorkDone`, `CancelReturns`.

`before` is a history variable: what was queued or running when a flush began.

The callers keep the rules the comments of `workqueue.c` give them:
`destroy_workqueue()` is called when nobody else uses the workqueue any more
(works that queue themselves excepted), and no cancellation names a work whose
last workqueue is being destroyed. A work function may queue its own work and
flush its own workqueue; it does not wait for another workqueue.

### Kthread

`CreateAdd`, `CreateWake` and `CreateReturns` are `kthread_create()`. kthreadd
sets its state (`KthreaddPrepare`), tests the list (`KthreaddTest`), sleeps
until it is woken (`KthreaddWakes`), takes a request (`KthreaddTake`) and works
on it: `KernelThread` or `KernelThreadFails`, `KthreaddStarted` (a turn of the
loop of `wait_for_completion()`, since `kthread_create()` wakes kthreadd whatever
it sleeps for), `KthreaddDone`. A thread is `KthreadBegin`, `KthreadStarted`,
`KthreadSleeps`, `KthreadRuns`, its function, `KthreadEnds`, `KthreadReports`.
`kthread_stop()` is split at every store the thread can see: `StopLock`,
`StopPublish`, `StopWake`, `StopWait`, `StopReturns`. The function of a thread
is external: it sleeps, is woken by what it waits for, and returns when it should
stop, or, in a standalone thread, when it likes. `woken` and `ran` are history
variables.

### Srcu

The counters are changed on the CPU a reader runs on, another one for the
unlock; `SyncRead` reads them one CPU at a time. The code has compiler barriers
only, so a processor may make accesses of a section before `srcu_read_lock()` and
complete them after `srcu_read_unlock()`: a reader holds references from "early"
to the end of "late". `synchronize_sched()`, which is `synchronize_rcu()` of the
classic RCU in this configuration, is abstracted to its promise: it waits for
whoever was in flight when it began, which is the memory barrier on every CPU that
the comments count on. `completed` and the counters wrap. `before` records whom a
call must outlast.

### BsChip and OnyxSplash

A transfer is a program of single accesses of the GPIO data register, each a read
or a write of the value read and changed, so that the softirq can cut the
initcall between the two. The chip latches a word when HWE_L rises while it is
selected, and counts the words each command still needs. A wait for HRDY may give
up whenever the chip is busy; `wait_for_ready()` then resets the chip, and
sleeps while it does. `overlap`, `gaveUp`, `badUse` and `oops` record what went
wrong, for the properties.

### PcConnMon

Probe acquires the region, the mapping, the pins and the interrupt in turn and
falls through its labels when one fails; setup, run and stop are register
accesses, and `Irq` comes between any two of them as soon as the line is
requested. Another driver may have used the controller before and left its
registers in any state (`OtherDriver`); `usbotg_init()`, the `platform_init` of
the device, resets the controller while it sets up the transceiver
(`PlatformInit`), and `dr_controller_setup()` resets it again. `late` records a
reset that was not over when the code went on: probe drops the error. The handler
stops the controller first and notifies user space then; `uevents` counts the
notifications that were made, `lost` those that `kobject_uevent()` failed to make,
whose result the handler drops.

### InitramfsUpdate and OnyxDevice

`MountPartition`, `MountRetry` and `MountWhole` are the loop that waits for the
card; `Extract` leaves what `aescrypt` and `tar` make of a package: all of it, a
part or nothing, of a faultless package too, since the script looks at neither.
`CustomerTest` is the test of the customer id, whose outcome is open for an id
that the shell splits into words. `RunUpdate`, `SkipUpdate`, `UpdateWrites`,
`UpdateEnds` (well, or where update.sh failed), `RebootReturns` and `NormalBoot`
are the rest of `check_update()` and `normal_boot()`. `failed` and `cutOff` record
the failures that the script does not see: of any command of this run, and of the
last update.sh. `OnyxDevice` switches the device on with the kernel that
plays the splash or with the update kernel, reaches user space, where the
monitor is loaded and unloaded, and can lose the power at any step: the card and
the root file system survive, all else starts again; `outage` tells a loss of
power from the script's own restart. The parts share no memory,
so user space starts when the splash is over (`SplashForgotten`), and the splash
plays in the first boot only; this keeps the product of their states small and loses no behaviour
of either.

## 3. Runs

| Run | Instance | Shows |
|---|---|---|
| `semaphore` | 3 tasks, 1 unit, 1 foreign `up()` | `Consistent` (conservation, exact list, no lost wake-up), final grants, refinement, `StarvationFree` |
| `rwsem` | 4 tasks | `Consistent` (exact activity and queue, exclusion, the head is a writer), no lost wake-up, refinement, `NoStarvation` |
| `mutex` | 3 tasks | `MutexConsistent` (one owner, exact count and list), no lost wake-up, refinement, `Progress` |
| `kfifo` | ring of 4, indices modulo 8, requests up to 5, without a lock and under it | `Consistent` (no overrun, no overwritten read), refinement, rewinding and reset included |
| `workqueue_safety` | 2 tasks, 1 work, 2 workqueues | `Consistent` (exact PENDING and data, no lost wake-up), complete flush, cancel and destroy, refinement |
| `workqueue_liveness` | 2 tasks, 1 work, nesting up to 2 | with functions that flush their own queue: `Consistent`, `FlushTerminates`, `QueuedRuns` |
| `workqueue_selfflush_cancel` | 1 task, 1 work | **violation**: a cancellation returns too early |
| `kthread` | 2 creators, threads made again and again | `Consistent` (no request slept on, a created thread is stopped, it runs only if woken), `FrameAlive`, `HandleValid`, `StopResult`, `CallsReturn`, `StopEnds` |
| `kthread_eintr` | 1 creator | **violation**: -EINTR for a thread that was woken |
| `srcu` | 2 readers, 2 updaters, 2 CPUs, 3 calls | `Consistent` (exact counters, safe cleanup), refinement of `GracePeriod`, `OldBankOnlyDrains`, `HolderReturns` |
| `onyx_device` | 3 boots, 2 rectangles, 2 arguments and 1 word of data | `Consistent` (resources, registers, notifications, the image), `DamageHasCause`, `TornHasCause`, `SplashEnds`, `PlugReported`, `WholePackageInstalled` |
| `onyx_device_splash` | 1 boot | **violation**: the splash writes through a null pointer (`SplashDisplayed`) |

What `onyx_device` shows is weaker than one would like the code to be, and says
so. `DamageHasCause` has the two exceptions that the code allows, an animation
that starts before the initcall is through and a chip that is not ready in time:
it says that nothing else does damage, and `SplashDisplayed`, which has no
exception, is violated. `RunningListens` and `NotifiedOnce` (parts of
`Consistent`) and `PlugReported` except a reset that was not over in time, whose
error probe drops: the end of such a reset can mask the interrupts of a
controller that runs, and no property promises otherwise. A notification counts
as made or as lost, since the handler looks at neither. `TornHasCause` and
`WholePackageInstalled` name the failures that the script ignores: they say that
the script itself adds none, that a restart by the script is no excuse for not
installing, and that the shell after `normal_boot()` ("Impossible to reach",
`init.in.sh:121`) is reached only after an update that was cut off. `SplashEnds`
excepts two contexts that keep resetting the chip under each other's polling.

### Why the bounds are enough

For the safety properties the theorems of section 5 remove the bounds: they hold
for any number of tasks, works, workqueues, creators, readers, updaters and CPUs,
any number of calls and any nesting, and for any number of arguments, pixels,
rectangles, boots, bus resets and mount attempts of the device. The bounds matter
for the liveness properties.

- Semaphore: one unit and three tasks give a holder and two sleepers, so that
  releases, time-outs and signals hit first and later waiters; `MaxPosts = 1`
  lets `count` exceed its initial value.
- Rw-semaphore: four tasks give an owner, a run of two readers and a writer
  before or behind it, which are the shapes of queue the wake loop distinguishes.
- Mutex: an owner, a queued waiter and a newcomer.
- kfifo: requests longer than the ring, two wraps of the slots per wrap of the
  indices.
- Workqueue: two workqueues let a work migrate while it is being cancelled. With
  one work the lists still hold up to three entries, the work and the barriers
  of both tasks, which is what the order of a flush is about; two works on two
  workqueues are beyond the time we allow a run. `MaxDepth` bounds the nesting
  of `run_workqueue()`, which the code only reports above 3.
- Kthread: no bound. Two creators let one request arrive while kthreadd waits for
  the thread of the other, and one thread return while the other is stopped.
- Srcu: three calls by two updaters let one wait for the mutex over two advances
  of `completed`, which is what the early exit is about; `Starts` puts the flips
  at 0 and at the wrap of the counter; the counters wrap at 3, one more than
  readers. Readers come and go without a bound.
- OnyxDevice: two arguments, one data word and two rectangles (5, many and 10 in
  the code) have a first, a middle and a last word of each command and an
  animation that goes on and one that ends. Three boots allow an attempt that is
  cut off, a second one, and a normal boot; `RETRIES` and `MaxResets` are 2.

`MCKFifo` and `MCWorkqueue` add the symmetry of interchangeable bytes, tasks and
works; it is used in
runs without liveness properties only. Two models do not check for deadlock: after
the last of its calls `srcu` may stop, and a device may stay switched off or in
the shell that the script ends in.

### Findings

1. `workqueue_selfflush_cancel`: a work function may flush its own workqueue,
   a case the comment at `kernel/workqueue.c:356` provides for ("Probably keventd
   trying to flush its own queue. So simply run it by hand rather than
   deadlocking"). The nested `run_workqueue()` also executes barriers and
   overwrites `current_work`: the barrier that `cancel_work_sync()` put at the
   head of the list is executed inside the function it waits for. Line 501
   promises to "block until a work_struct's callback has terminated". In the
   same way the barrier of a `flush_workqueue()` is executed early. The run
   `workqueue_safety` shows both promises kept when no function flushes its own
   workqueue.
2. `kthread_eintr`: a thread that was woken and is stopped before it gets to run
   exits without calling its function. Line 196 of `kernel/kthread.c` has
   `kthread_stop()` return "%-EINTR if wake_up_process() was never called".
3. `onyx_device_splash`: `onyx_splash_init()` arms the animation timer (line 95 of
   `onyx_main.c`) before it allocates the image. When the timer expires before
   `kmalloc()` has returned, or after it has failed, `animation()` has no image to
   "Draw internal rectange and fill with black" in (line 57) and writes through a
   null pointer; `drivers/video/Kconfig:19` promises to "Display animatic splash
   when booting device". The same property is broken, later than in the shortest
   counterexample, by an animation that starts in the middle of `draw_outline()`,
   with which it shares the bus without a lock, and by a wait that gives up and
   resets the chip in the middle of a command.

## 4. Fairness

- Weak fairness of what a runnable thread does next: the scheduler runs it
  eventually.
- Holders release: `up()`, `up_read()`/`up_write()` and `mutex_unlock()` are fair.
  No liveness property of a lock holds without this.
- Strong fairness where a step needs a spinlock that other threads keep taking
  (`LockSlow`, `MutexResume` and `UnlockSlow` of the mutex, the releases of the
  rw-semaphore): on one CPU with preemption a spinlock is held with preemption
  off, so a thread that gets to run finds it free. `sem->lock` and `cwq->lock`
  sections are single steps, so weak fairness is enough there.
- The timer of `down_timeout()` and of a delayed work expires.
- kthreadd, a thread and a call that has begun go on; nothing is assumed of when
  creators call, of what a thread's function waits for, or of who gets the lock
  of `kthread_stop()`.
- An SRCU reader that has started gets through its section, and the holder of the
  mutex runs. Who gets the mutex, and when readers start, is left open.
- The contexts of the splash run, and its timer expires. Strong fairness of the
  chip becoming ready while it is waited for: it is busy for a bounded time, and
  is polled again and again. The script runs, a pending interrupt is served, and
  a PC that sees the device resets its bus.
- Work functions return (strong fairness of `FuncReturns`: a function may queue
  its work again before it does).

Not assumed: signals, stray wake-ups, new calls. Not claimed: that an individual
mutex waiter gets the mutex (a newcomer may overtake it for ever; `Progress`
says that somebody gets it), and that a cancellation returns (other tasks may
queue the work again and again between two attempts), and that a given caller of
`synchronize_srcu()` or `kthread_stop()` gets the mutex.

## 5. Proofs

For each of `Semaphore`, `RwSem`, `Mutex`, `KFifo`, `Workqueue`, `Kthread`, `Srcu`
and `OnyxDevice` a `Proofs` module proves, for every value of the constants, every
invariant, every action property and every refinement that the runs of the
module check, with one qualification for `Workqueue` given below.

Each proof has the same plan. `IInv` is a conjunction of named parts; a lemma
`<Action>Keeps` per action shows that it is preserved, with a step per part the
action can disturb; `IInvCorrect` puts them together and the checked properties
follow from it. A refinement is proved by a step lemma beside the invariant:
every action of the code is a step of the abstract specification or a stutter.
For the device the lemmas are one per part of the invariant, `Next<Part>`, with a
step per action. The inductive invariants were checked by TLC on the instances of the runs
before they were proved.

The assumptions are those the modules declare:

- a finite set of tasks and an initial count in Nat (`Semaphore`, `RwSem`,
  `Mutex`);
- for kfifo, a size that divides the modulus at least twice, which holds for
  every power of two below 2^32;
- for `Srcu`, at least one CPU, finitely many readers, fewer of them than the
  modulus of the counters (they are 32-bit integers), and an even modulus of
  `completed`;
- for `OnyxDevice`, at least one argument, data word, rectangle and mount attempt,
  the two contexts of the splash, and a required customer id that is neither the
  mark of a package without one nor that of one in several words; the data of a command and the words of an image are as
  many as the constants say, whatever they are;
- for `Workqueue` and `Kthread`, only that tasks, works, workqueues and `NULL`
  are different things.

The arguments:

- **Semaphore.** `IInv` is `TypeOK`, `WaitListExact` and `NoLostWakeUp`: the list
  must link exactly the sleepers without a unit for `up()` to hand the unit to a
  task that will take it. `Conservation` is not inductive by itself; it follows
  from a step lemma on the cardinalities of the free, granted and held units.
- **RwSem.** The invariant adds to the checked ones what holds in the middle of a
  wake loop: who owns `wait_lock`, what a linked waiter's fields are, that the
  unlinked waiter is not linked any more, and what `activity` will be once the
  woken readers are added (`CountInv`). `ActivityExact` and `Exclusion` are
  consequences.
- **Mutex.** `SpinInv` places at most one task in a locked section, `MarkInv`
  says when `count` must be negative. `MutexNoLostWakeUp` is the heart: whenever
  `count` allows an unlock to skip the list, a waiter is awake or an unlock is on
  its way to wake it. Every fast path is checked against each point of the
  locked sections.
- **KFifo.** `RingInv` says that what the producer accepted fits beside what the
  consumer has not published, that the copied bytes are in the slots beyond
  `in`, and that the consumer's copies are the first bytes of the contents. The
  arithmetic rests on a lemma that reducing an index modulo `Modulus` and then
  modulo `Size` is reducing it modulo `Size`, and on the distinctness of the
  slots of fewer than `Size` consecutive indices. `IInv` adds `LockInv`, that under
  `fifo->lock` the producer or the consumer is outside, without which the rewinding
  of both indices would not preserve `RingInv`.
- **Kthread.** A request is a frame on its creator's stack that passes from the
  list to kthreadd and from kthreadd to the new thread. `RequestInv` and
  `ForkInv` say which of the three holds it and what its two completions count
  at that point; `FrameAlive` is a consequence. `StopInv` ties the one
  `kthread_stop_info` to the step the stop has reached: `k` names the thread
  between the publication and the completion only, `done` counts its report and
  nobody else's, and `err` is that thread's result once it is gone. `ThreadInv`
  and `OwnerInv` relate the steps and states of a thread to what its creator has
  done with it.
- **Srcu.** The code sums one counter per CPU and bank. `Total` is a recursive
  function over the CPUs. That a change of one CPU's counter changes the total by
  the same amount is proved from a smallest counterexample, since every nonempty
  set of naturals has a least element; with it the total of a bank, modulo
  `CountMod`, is the number of readers in it (`BankInv`, hence `CountersExact`).
  The sums are read one CPU at a time: `ScanInv` and `CleanInv` say that what was
  read and what is still to be read together never count fewer than the readers
  that are left, so that a sum of zero means none. `StaleInv` says who may still
  be in, or about to join, the bank that new readers do not use. `CoverInv` gives,
  for each phase of a grace period, what is left of the sections it must outlast,
  for its own caller and for every call that waits for the mutex and began before
  it; `SkipInv` then says that a call that finds two advances of `completed` has
  nothing left to wait for: two advances contain a whole grace period that began
  after the call, one does not.
- **Workqueue.** `IInv` describes, for each work, the one owner of its PENDING
  bit: a list, a timer, a worker about to start it, or a task in the middle of
  queueing or cancelling it (`PendingInv`, `TimerInv`, `CallInv`); for each task
  in a wait, where its barrier is: on the list, on the worker's stack, or executed
  and completed (`BarrierInv`); the worker's place in its loop (`WorkerInv`); and
  that only its own functions still use a workqueue that is being destroyed, by
  one task (`UserInv`, `DestroyerInv`, `DyingInv`). `Consistent` and
  `DestroyComplete` follow for any nesting of `run_workqueue()`. `FlushComplete`,
  `CancelSyncComplete` and `RefinesWorkItems` need `SInv`: the worker executes one
  entry at a time, what a flush still waits for is ahead of its barrier in the
  list or executing, and as long as the function that a cancellation waits for
  executes, the barrier of the cancellation is on the list. These three theorems
  carry the hypothesis `SelfFlush = FALSE`: no function flushes its own
  workqueue. It cannot be dropped: finding 1 is a counterexample.
- **OnyxDevice.** The three parts share no state, so `IInv` is an invariant of each
  (`UpdateInv`, `MonInv`, `SplashInv`), and `OffInv`: a device that is off has
  nothing in memory, from which every boot starts.
  - *Splash and display.* `ImageInv` follows the image from `kmalloc()` to
    `kfree()` and the timer with it; `CallInv` says who can be in a transfer, and
    `ApartInv` that the two contexts never meet before `overlap`. `ChipInv` is the
    heart: unless the contexts met or a wait gave up, the one transfer under way
    is before some access `j` of some word `k` of the drawing, and `PinsInv(k, j,
    f)` gives the level of every pin, the words the chip still waits for, its
    session and its number of complete updates `f` at that point. The k-th word of
    a drawing is given in closed form (`FrameWord`) and shown to be the k-th
    element of the concatenation that `bs_cmd.c` sends (`FrameFacts`), for any
    number of arguments and pixels; `AccessWritten` takes each access of a command
    and of a data word to the next, `ReceiveFacts` the chip from one word to the
    next, and `TransferStep` puts them together for every step of a context.
  - *Connection monitor.* `HeldInv` gives, for each resource, the places of probe
    and remove at which it is held; `SetupInv` says that the controller is stopped
    and its interrupts are off where the driver counts on it, in spite of the
    handler and of what another driver left (`NotYet`: before `usbotg_init()`);
    `RunInv` that, unless a reset was late, a controller that runs listens, and is
    stopped by the one connection that it told or failed to tell of.
  - *Update script.* `UpdateInv` says that the script runs in the update kernel
    only and that a half-written root file system is being written or was left by
    an update.sh that did not end well: a boot, a restart and the way to the shell
    all start from places where no update is under way.
- **ListHeadProofs** holds the lemmas on `ListAdd`, `ListAddTail`, `ListDel` and
  `Tail` that the other proofs share: which entries they keep, that none occurs
  twice, and what stays ahead of what.

Only model-checked:

- the liveness properties of every module, since fairness and ENABLED are outside
  the prover;
- the three findings, which are counterexamples.

## 6. Abstractions common to all modules

In the lock and workqueue modules tasks do not exit and memory is not freed;
threads exit in `Kthread`, counters are freed in `Srcu` and the image in
`OnyxSplash`. Where modelled code allocates and handles failure, success is a
choice; `create_workqueue()` succeeds. Lockdep, debug variants, statistics and
printed messages have no state in the models. Memory ordering is that of one CPU,
barriers being the order of the steps, except in `Srcu`. The counts of the
semaphore and the mutex do not overflow: their bounds are the number of tasks
(`TypeOK`) and the number of posts.

## 7. Not modelled

- Freezing, CPU hotplug and failing thread creation in workqueues;
  `schedule_on_each_cpu()` and `execute_in_process_context()`; a work function
  that waits for another workqueue.
- `__mutex_trylock_slowpath()`, which the ARMv6 trylock never calls, and the
  debug mutexes.
- The RCU and hlist variants of lists.
- The reads, registers, waveforms and power states of the display controller,
  which this kernel does not use; what the pixels are.
- The name, priority and CPU mask of a kernel thread; a second `kthread_stop()`
  of the same thread, or of a thread that exits by itself, which the comments
  forbid.
- `stop_machine()`, which on one CPU only disables interrupts around a call.
  Completions and wait queues have no module of their own: they are inlined where
  they are used. Timers appear as their users see them; the cascade of the timer
  wheel is left out.
- The components of section 1 without a module. The scheduler, RCU on several
  CPUs, memory management, file systems, networking, architecture code, sound
  and most drivers are upstream subsystems whose state space or hardware half is
  out of reach; eCos has handed over before any of this runs. The battery gauge
  reads registers and formats them.

## 8. Plan

Done: `Semaphore` over `CountingSemaphore`, `RwSem` over `ReadWriteLock`, `Mutex`
over `CountingSemaphore`, `KFifo` over `BoundedFifo`, `Workqueue` over
`WorkItems`, `Srcu` over `GracePeriod`, `Kthread` and `OnyxDevice`, with runs and
with proofs of everything but liveness.

Left: freezing and a failing `create_workqueue_thread()` in the workqueue.
