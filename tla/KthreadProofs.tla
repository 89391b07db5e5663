---------------------------- MODULE KthreadProofs ----------------------------
(***************************************************************************)
(* Machine-checked proofs about Kthread, for every set of creators.        *)
(***************************************************************************)
EXTENDS Kthread, ListHeadProofs, TLAPS

Requesting == {"wake", "wait"}
Owning     == {"owner", "bind"}
Stopping   == {"publish", "stopwake", "stopwait", "gather"}
Parked     == {"schedule", "off"}
InFn       == {"fn", "fntest", "fnsleep"}

-----------------------------------------------------------------------------
(* The parts of the inductive invariant. *)

\* kthreadd has a request in hand exactly between the list and the completion.
DaemonInv ==
    /\ NoDuplicates(list)
    /\ create \in Creators <=> dpc \in {"fork", "started", "complete"}

\* A request is on the list, or in kthreadd's hand, or completed: one of the three, and
\* only as long as kthread_create() has not returned.
RequestInv(c) ==
    /\ c \in Entries(list) => /\ cpc[c] \in Requesting /\ create # c /\ done[c] = 0
                              /\ started[c] = 0 /\ tpc[c] = "none"
    /\ create = c => cpc[c] \in Requesting /\ done[c] = 0
    /\ done[c] = 1 => /\ cpc[c] \in Requesting /\ started[c] = 0
                      /\ IF failed[c] THEN tpc[c] = "none" ELSE tpc[c] \in Parked
    /\ cpc[c] \in Requesting => /\ c \in Entries(list) \/ create = c \/ done[c] = 1
                                /\ ~woken[c] /\ ~ran[c]

\* What kthreadd has made of the request in its hand.
ForkInv(c) ==
    /\ create = c /\ dpc = "fork" => tpc[c] = "none" /\ started[c] = 0
    /\ create = c /\ dpc = "started" =>
          /\ ~failed[c]
          /\ IF started[c] = 0 THEN tpc[c] \in {"born", "begun"} ELSE tpc[c] \in Parked
    /\ create = c /\ dpc = "complete" =>
          /\ started[c] = 0
          /\ IF failed[c] THEN tpc[c] = "none" ELSE tpc[c] \in Parked
    /\ tpc[c] \in {"born", "begun"} => create = c /\ dpc = "started"

\* The life of a thread: whether its function was called, and what it returns.
ThreadInv(c) ==
    /\ tpc[c] = "none" <=> tstate[c] = "dead"
    /\ tpc[c] = "begun" => tstate[c] = "uninterruptible"
    /\ tpc[c] \in Parked => tstate[c] \in {"running", "uninterruptible"}
    /\ tpc[c] \in Parked /\ tstate[c] = "running" => woken[c] \/ cpc[c] = "stopwait"
    /\ tpc[c] \in {"born", "begun"} \cup Parked => ~ran[c] /\ ret[c] = EINTR
    /\ tpc[c] \in InFn => ran[c] /\ ret[c] = EINTR
    /\ tpc[c] \in {"ending", "report"} => ret[c] = IF ran[c] THEN c ELSE EINTR
    /\ tpc[c] = "ending" => stopInfo.k = c \/ (kind[c] = "standalone" /\ ran[c])
    /\ tpc[c] = "report" => stopInfo.k = c /\ stopInfo.err = ret[c]
    /\ ran[c] => woken[c]

\* Who owns a thread, and that a standalone one is on its own once it is woken.
OwnerInv(c) ==
    /\ cpc[c] \in Owning \cup {"publish"} => tpc[c] # "none"
    /\ cpc[c] \in Owning \cup Stopping => ~(woken[c] /\ kind[c] = "standalone")
    /\ cpc[c] = "bind" => ~woken[c]
    /\ cpc[c] \in Owning /\ ~woken[c] => tpc[c] \in Parked /\ tstate[c] = "uninterruptible"
    /\ cpc[c] = "idle" /\ tpc[c] # "none" => kind[c] = "standalone" /\ woken[c]

\* The lock of kthread_stop() and what it protects: kthread_should_stop() is true of the
\* thread that is being stopped only, and the completion counts its report.
StopInv(c) ==
    /\ stopLock = c <=> cpc[c] \in Stopping
    /\ stopInfo.k = c <=> cpc[c] \in {"stopwake", "stopwait"}
    /\ pinned[c] <=> cpc[c] \in {"publish", "stopwake"}
    /\ cpc[c] \in {"publish", "gather"} => stopInfo.done = 0
    /\ cpc[c] \in {"stopwake", "stopwait"} =>
          IF tpc[c] = "none" THEN stopInfo.done = 1 ELSE stopInfo.done = 0
    /\ cpc[c] \in {"stopwake", "stopwait", "gather"} /\ tpc[c] = "none" =>
          stopInfo.err = IF ran[c] THEN c ELSE EINTR
    /\ cpc[c] = "gather" => tpc[c] = "none"

IInv == /\ TypeOK /\ NoLostRequest /\ DaemonInv
        /\ (stopLock = NULL => stopInfo.done = 0)
        /\ \A c \in Creators : /\ RequestInv(c) /\ ForkInv(c) /\ ThreadInv(c)
                               /\ OwnerInv(c) /\ StopInv(c)

-----------------------------------------------------------------------------
(* Every step of kthreadd preserves it. *)

\* kthreadd announces that it will sleep.
LEMMA KthreaddPrepareKeeps ==
    ASSUME IInv, KthreaddPrepare
    PROVE  IInv'
  <1> USE DEF KthreaddPrepare, Daemon, dvars, tvars, svars
  <1>0. NULL \notin Creators /\ TypeOK
    BY KthreadAssumption DEF IInv
  <1>1. TypeOK'
    BY <1>0 DEF TypeOK
  <1>2. NoLostRequest' /\ DaemonInv' /\ (stopLock = NULL => stopInfo.done = 0)'
    BY DEF IInv, NoLostRequest, DaemonInv
  <1>3. ASSUME NEW d \in Creators PROVE RequestInv(d)' /\ ForkInv(d)'
    BY DEF IInv, RequestInv, ForkInv
  <1>4. ASSUME NEW d \in Creators PROVE ThreadInv(d)'
    BY DEF IInv, ThreadInv
  <1>5. ASSUME NEW d \in Creators PROVE OwnerInv(d)' /\ StopInv(d)'
    BY DEF IInv, OwnerInv, StopInv
  <1> QED
    BY <1>1, <1>2, <1>3, <1>4, <1>5 DEF IInv

\* kthreadd sleeps only when the list was empty after its state was set.
LEMMA KthreaddTestKeeps ==
    ASSUME IInv, KthreaddTest
    PROVE  IInv'
  <1> USE DEF KthreaddTest, Daemon, dvars, tvars, svars
  <1>0. NULL \notin Creators /\ TypeOK
    BY KthreadAssumption DEF IInv
  <1>1. TypeOK'
    BY <1>0 DEF TypeOK
  <1>2. NoLostRequest' /\ DaemonInv' /\ (stopLock = NULL => stopInfo.done = 0)'
    BY DEF IInv, NoLostRequest, DaemonInv
  <1>3. ASSUME NEW d \in Creators PROVE RequestInv(d)' /\ ForkInv(d)'
    BY DEF IInv, RequestInv, ForkInv
  <1>4. ASSUME NEW d \in Creators PROVE ThreadInv(d)'
    BY DEF IInv, ThreadInv
  <1>5. ASSUME NEW d \in Creators PROVE OwnerInv(d)' /\ StopInv(d)'
    BY DEF IInv, OwnerInv, StopInv
  <1> QED
    BY <1>1, <1>2, <1>3, <1>4, <1>5 DEF IInv

\* kthreadd returns from schedule().
LEMMA KthreaddWakesKeeps ==
    ASSUME IInv, KthreaddWakes
    PROVE  IInv'
  <1> USE DEF KthreaddWakes, Daemon, dvars, tvars, svars
  <1>0. NULL \notin Creators /\ TypeOK
    BY KthreadAssumption DEF IInv
  <1>1. TypeOK'
    BY <1>0 DEF TypeOK
  <1>2. NoLostRequest' /\ DaemonInv' /\ (stopLock = NULL => stopInfo.done = 0)'
    BY DEF IInv, NoLostRequest, DaemonInv
  <1>3. ASSUME NEW d \in Creators PROVE RequestInv(d)' /\ ForkInv(d)'
    BY DEF IInv, RequestInv, ForkInv
  <1>4. ASSUME NEW d \in Creators PROVE ThreadInv(d)'
    BY DEF IInv, ThreadInv
  <1>5. ASSUME NEW d \in Creators PROVE OwnerInv(d)' /\ StopInv(d)'
    BY DEF IInv, OwnerInv, StopInv
  <1> QED
    BY <1>1, <1>2, <1>3, <1>4, <1>5 DEF IInv

\* kthreadd takes the first request into its hand.
LEMMA KthreaddTakeKeeps ==
    ASSUME IInv, KthreaddTake
    PROVE  IInv'
  <1> USE DEF KthreaddTake, Daemon, dvars, tvars, svars
  <1>0. NULL \notin Creators /\ TypeOK
    BY KthreadAssumption DEF IInv
  <1>a. CASE ListEmpty(list)
    BY <1>a
       DEF IInv, TypeOK, NoLostRequest, DaemonInv, RequestInv, ForkInv, ThreadInv, OwnerInv,
           StopInv
  <1>b. CASE ~ListEmpty(list)
    <2>a. list \in Seq(Creators) /\ list # <<>> /\ NoDuplicates(list)
      BY <1>b DEF IInv, TypeOK, DaemonInv, ListEmpty
    <2>b. /\ Head(list) \in Entries(list) /\ Head(list) \in Creators
          /\ Tail(list) \in Seq(Creators) /\ NoDuplicates(Tail(list))
          /\ Entries(Tail(list)) = Entries(list) \ {Head(list)}
      BY <2>a, TailFacts
    <2>1. /\ create' = Head(list) /\ Head(list) \in Creators /\ Head(list) \in Entries(list)
          /\ list' \in Seq(Creators) /\ NoDuplicates(list')
          /\ Entries(list') = Entries(list) \ {Head(list)} /\ dpc = "take" /\ dpc' = "fork"
      BY <1>b, <2>b
    <2>2. TypeOK' /\ NoLostRequest' /\ DaemonInv' /\ (stopLock = NULL => stopInfo.done = 0)'
      BY <2>1 DEF IInv, TypeOK, NoLostRequest, DaemonInv
    <2>3. ASSUME NEW d \in Creators PROVE RequestInv(d)' /\ ForkInv(d)'
      BY <2>1 DEF IInv, RequestInv, ForkInv, DaemonInv
    <2>4. ASSUME NEW d \in Creators PROVE ThreadInv(d)' /\ OwnerInv(d)' /\ StopInv(d)'
      BY DEF IInv, ThreadInv, OwnerInv, StopInv
    <2> QED
      BY <2>2, <2>3, <2>4 DEF IInv
  <1> QED
    BY <1>a, <1>b

\* The thread of the request in hand is born.
LEMMA KernelThreadKeeps ==
    ASSUME IInv, KernelThread
    PROVE  IInv'
  <1> USE DEF KernelThread, Fork, Daemon, dvars, tvars, svars
  <1>0. NULL \notin Creators /\ TypeOK
    BY KthreadAssumption DEF IInv
  <1>1. TypeOK'
    BY <1>0 DEF TypeOK
  <1>2. NoLostRequest' /\ DaemonInv' /\ (stopLock = NULL => stopInfo.done = 0)'
    BY DEF IInv, NoLostRequest, DaemonInv
  <1>3. ASSUME NEW d \in Creators PROVE RequestInv(d)' /\ ForkInv(d)'
    BY DEF IInv, TypeOK, RequestInv, ForkInv
  <1>4. ASSUME NEW d \in Creators PROVE ThreadInv(d)'
    BY DEF IInv, TypeOK, RequestInv, ThreadInv, InFn, Parked
  <1>5. ASSUME NEW d \in Creators PROVE OwnerInv(d)' /\ StopInv(d)'
    BY DEF IInv, RequestInv, OwnerInv, StopInv, Owning, Requesting
  <1> QED
    BY <1>1, <1>2, <1>3, <1>4, <1>5 DEF IInv

\* Without a thread, the request goes straight to its completion.
LEMMA KernelThreadFailsKeeps ==
    ASSUME IInv, KernelThreadFails
    PROVE  IInv'
  <1> USE DEF KernelThreadFails, Daemon, dvars, tvars, svars
  <1>0. NULL \notin Creators /\ TypeOK
    BY KthreadAssumption DEF IInv
  <1>1. TypeOK'
    BY <1>0 DEF TypeOK
  <1>2. NoLostRequest' /\ DaemonInv' /\ (stopLock = NULL => stopInfo.done = 0)'
    BY DEF IInv, NoLostRequest, DaemonInv
  <1>3. ASSUME NEW d \in Creators PROVE RequestInv(d)' /\ ForkInv(d)'
    BY DEF IInv, TypeOK, RequestInv, ForkInv
  <1>4. ASSUME NEW d \in Creators PROVE ThreadInv(d)'
    BY DEF IInv, ThreadInv
  <1>5. ASSUME NEW d \in Creators PROVE OwnerInv(d)' /\ StopInv(d)'
    BY DEF IInv, OwnerInv, StopInv
  <1> QED
    BY <1>1, <1>2, <1>3, <1>4, <1>5 DEF IInv

\* kthreadd waits for the thread it has made.
LEMMA KthreaddStartedKeeps ==
    ASSUME IInv, KthreaddStarted
    PROVE  IInv'
  <1> USE DEF KthreaddStarted, dvars, tvars, svars
  <1>0. NULL \notin Creators /\ TypeOK
    BY KthreadAssumption DEF IInv
  <1>1. TypeOK'
    BY <1>0 DEF TypeOK
  <1>2. NoLostRequest' /\ DaemonInv' /\ (stopLock = NULL => stopInfo.done = 0)'
    BY DEF IInv, NoLostRequest, DaemonInv
  <1>3. ASSUME NEW d \in Creators PROVE RequestInv(d)' /\ ForkInv(d)'
    BY DEF IInv, TypeOK, RequestInv, ForkInv, Parked
  <1>4. ASSUME NEW d \in Creators PROVE ThreadInv(d)'
    BY DEF IInv, ThreadInv
  <1>5. ASSUME NEW d \in Creators PROVE OwnerInv(d)' /\ StopInv(d)'
    BY DEF IInv, OwnerInv, StopInv
  <1> QED
    BY <1>1, <1>2, <1>3, <1>4, <1>5 DEF IInv

\* The completion hands the thread over to its creator.
LEMMA KthreaddDoneKeeps ==
    ASSUME IInv, KthreaddDone
    PROVE  IInv'
  <1> USE DEF KthreaddDone, Daemon, dvars, tvars, svars
  <1>0. NULL \notin Creators /\ TypeOK
    BY KthreadAssumption DEF IInv
  <1>a. create \in Creators /\ done[create] = 0
    BY <1>0 DEF IInv, DaemonInv, RequestInv
  <1>1. TypeOK'
    BY <1>0, <1>a DEF TypeOK
  <1>2. NoLostRequest' /\ DaemonInv' /\ (stopLock = NULL => stopInfo.done = 0)'
    BY <1>0 DEF IInv, NoLostRequest, DaemonInv
  <1>3. ASSUME NEW d \in Creators PROVE RequestInv(d)' /\ ForkInv(d)'
    BY <1>0 DEF IInv, TypeOK, RequestInv, ForkInv
  <1>4. ASSUME NEW d \in Creators PROVE ThreadInv(d)'
    BY DEF IInv, ThreadInv
  <1>5. ASSUME NEW d \in Creators PROVE OwnerInv(d)' /\ StopInv(d)'
    BY DEF IInv, OwnerInv, StopInv
  <1> QED
    BY <1>1, <1>2, <1>3, <1>4, <1>5 DEF IInv

-----------------------------------------------------------------------------
(* Every step of a thread preserves it. *)

\* The thread sets its state before anybody knows of it.
LEMMA KthreadBeginKeeps ==
    ASSUME IInv, NEW c \in Creators, KthreadBegin(c)
    PROVE  IInv'
  <1> USE DEF KthreadBegin, Thread, dvars, tvars, svars
  <1>0. NULL \notin Creators /\ TypeOK
    BY KthreadAssumption DEF IInv
  <1>1. TypeOK'
    BY <1>0 DEF TypeOK
  <1>2. NoLostRequest' /\ DaemonInv' /\ (stopLock = NULL => stopInfo.done = 0)'
    BY DEF IInv, NoLostRequest, DaemonInv
  <1>3. ASSUME NEW d \in Creators PROVE RequestInv(d)' /\ ForkInv(d)'
    BY DEF IInv, RequestInv, ForkInv, Parked
  <1>4. ASSUME NEW d \in Creators PROVE ThreadInv(d)'
    BY DEF IInv, TypeOK, ThreadInv, InFn
  <1>5. ASSUME NEW d \in Creators PROVE OwnerInv(d)' /\ StopInv(d)'
    BY DEF IInv, OwnerInv, StopInv, Parked
  <1> QED
    BY <1>1, <1>2, <1>3, <1>4, <1>5 DEF IInv

\* The thread tells kthreadd that it is there, with its state already set.
LEMMA KthreadStartedKeeps ==
    ASSUME IInv, NEW c \in Creators, KthreadStarted(c)
    PROVE  IInv'
  <1> USE DEF KthreadStarted, Thread, dvars, tvars, svars
  <1>0. NULL \notin Creators /\ TypeOK
    BY KthreadAssumption DEF IInv
  <1>1. TypeOK'
    BY DEF IInv, TypeOK, ForkInv, Parked
  <1>2. NoLostRequest' /\ DaemonInv' /\ (stopLock = NULL => stopInfo.done = 0)'
    BY DEF IInv, NoLostRequest, DaemonInv
  <1>3. ASSUME NEW d \in Creators PROVE RequestInv(d)' /\ ForkInv(d)'
    BY DEF IInv, TypeOK, RequestInv, ForkInv, Parked
  <1>4. ASSUME NEW d \in Creators PROVE ThreadInv(d)'
    BY DEF IInv, ThreadInv, InFn
  <1>5. ASSUME NEW d \in Creators PROVE OwnerInv(d)' /\ StopInv(d)'
    BY DEF IInv, OwnerInv, StopInv, Parked
  <1> QED
    BY <1>1, <1>2, <1>3, <1>4, <1>5 DEF IInv

\* The thread leaves its processor.
LEMMA KthreadSleepsKeeps ==
    ASSUME IInv, NEW c \in Creators, KthreadSleeps(c)
    PROVE  IInv'
  <1> USE DEF KthreadSleeps, Thread, dvars, tvars, svars
  <1>0. NULL \notin Creators /\ TypeOK
    BY KthreadAssumption DEF IInv
  <1>1. TypeOK'
    BY <1>0 DEF TypeOK
  <1>2. NoLostRequest' /\ DaemonInv' /\ (stopLock = NULL => stopInfo.done = 0)'
    BY DEF IInv, NoLostRequest, DaemonInv
  <1>3. ASSUME NEW d \in Creators PROVE RequestInv(d)' /\ ForkInv(d)'
    BY DEF IInv, RequestInv, ForkInv, Parked
  <1>4. ASSUME NEW d \in Creators PROVE ThreadInv(d)'
    BY DEF IInv, ThreadInv, InFn, Parked
  <1>5. ASSUME NEW d \in Creators PROVE OwnerInv(d)' /\ StopInv(d)'
    BY DEF IInv, OwnerInv, StopInv, Parked
  <1> QED
    BY <1>1, <1>2, <1>3, <1>4, <1>5 DEF IInv

\* The thread is woken: by its owner, or by kthread_stop(), which it sees then.
LEMMA KthreadRunsKeeps ==
    ASSUME IInv, NEW c \in Creators, KthreadRuns(c)
    PROVE  IInv'
  <1> USE DEF KthreadRuns, kthread_should_stop, dvars, tvars, svars
  <1>0. NULL \notin Creators /\ TypeOK
    BY KthreadAssumption DEF IInv
  <1>1. TypeOK'
    BY <1>0 DEF TypeOK
  <1>2. NoLostRequest' /\ DaemonInv' /\ (stopLock = NULL => stopInfo.done = 0)'
    BY DEF IInv, NoLostRequest, DaemonInv
  <1>3. ASSUME NEW d \in Creators PROVE RequestInv(d)' /\ ForkInv(d)'
    BY DEF IInv, RequestInv, ForkInv, ThreadInv, Requesting, Parked
  <1>4. ASSUME NEW d \in Creators PROVE ThreadInv(d)'
    BY DEF IInv, TypeOK, ThreadInv, StopInv, InFn, Parked
  <1>5. ASSUME NEW d \in Creators PROVE OwnerInv(d)' /\ StopInv(d)'
    BY DEF IInv, OwnerInv, StopInv
  <1> QED
    BY <1>1, <1>2, <1>3, <1>4, <1>5 DEF IInv

\* A turn of the thread's function begins.
LEMMA FnPrepareKeeps ==
    ASSUME IInv, NEW c \in Creators, FnPrepare(c)
    PROVE  IInv'
  <1> USE DEF FnPrepare, Thread, dvars, tvars, svars
  <1>0. NULL \notin Creators /\ TypeOK
    BY KthreadAssumption DEF IInv
  <1>1. TypeOK'
    BY <1>0 DEF TypeOK
  <1>2. NoLostRequest' /\ DaemonInv' /\ (stopLock = NULL => stopInfo.done = 0)'
    BY DEF IInv, NoLostRequest, DaemonInv
  <1>3. ASSUME NEW d \in Creators PROVE RequestInv(d)' /\ ForkInv(d)'
    BY DEF IInv, RequestInv, ForkInv, Parked
  <1>4. ASSUME NEW d \in Creators PROVE ThreadInv(d)'
    BY DEF IInv, ThreadInv, InFn, Parked
  <1>5. ASSUME NEW d \in Creators PROVE OwnerInv(d)' /\ StopInv(d)'
    BY DEF IInv, OwnerInv, StopInv, Parked
  <1> QED
    BY <1>1, <1>2, <1>3, <1>4, <1>5 DEF IInv

\* The function goes to sleep.
LEMMA FnTestKeeps ==
    ASSUME IInv, NEW c \in Creators, FnTest(c)
    PROVE  IInv'
  <1> USE DEF FnTest, Thread, dvars, tvars, svars
  <1>0. NULL \notin Creators /\ TypeOK
    BY KthreadAssumption DEF IInv
  <1>1. TypeOK'
    BY <1>0 DEF TypeOK
  <1>2. NoLostRequest' /\ DaemonInv' /\ (stopLock = NULL => stopInfo.done = 0)'
    BY DEF IInv, NoLostRequest, DaemonInv
  <1>3. ASSUME NEW d \in Creators PROVE RequestInv(d)' /\ ForkInv(d)'
    BY DEF IInv, RequestInv, ForkInv, Parked
  <1>4. ASSUME NEW d \in Creators PROVE ThreadInv(d)'
    BY DEF IInv, ThreadInv, InFn, Parked
  <1>5. ASSUME NEW d \in Creators PROVE OwnerInv(d)' /\ StopInv(d)'
    BY DEF IInv, OwnerInv, StopInv, Parked
  <1> QED
    BY <1>1, <1>2, <1>3, <1>4, <1>5 DEF IInv

\* The function runs again.
LEMMA FnWakesKeeps ==
    ASSUME IInv, NEW c \in Creators, FnWakes(c)
    PROVE  IInv'
  <1> USE DEF FnWakes, Thread, dvars, tvars, svars
  <1>0. NULL \notin Creators /\ TypeOK
    BY KthreadAssumption DEF IInv
  <1>1. TypeOK'
    BY <1>0 DEF TypeOK
  <1>2. NoLostRequest' /\ DaemonInv' /\ (stopLock = NULL => stopInfo.done = 0)'
    BY DEF IInv, NoLostRequest, DaemonInv
  <1>3. ASSUME NEW d \in Creators PROVE RequestInv(d)' /\ ForkInv(d)'
    BY DEF IInv, RequestInv, ForkInv, Parked
  <1>4. ASSUME NEW d \in Creators PROVE ThreadInv(d)'
    BY DEF IInv, ThreadInv, InFn, Parked
  <1>5. ASSUME NEW d \in Creators PROVE OwnerInv(d)' /\ StopInv(d)'
    BY DEF IInv, OwnerInv, StopInv
  <1> QED
    BY <1>1, <1>2, <1>3, <1>4, <1>5 DEF IInv

\* An event wakes the function.
LEMMA FnEventKeeps ==
    ASSUME IInv, NEW c \in Creators, FnEvent(c)
    PROVE  IInv'
  <1> USE DEF FnEvent, WakeUp, Awake, dvars, tvars, svars
  <1>0. NULL \notin Creators /\ TypeOK
    BY KthreadAssumption DEF IInv
  <1>1. TypeOK'
    BY <1>0 DEF TypeOK
  <1>2. NoLostRequest' /\ DaemonInv' /\ (stopLock = NULL => stopInfo.done = 0)'
    BY DEF IInv, NoLostRequest, DaemonInv
  <1>3. ASSUME NEW d \in Creators PROVE RequestInv(d)' /\ ForkInv(d)'
    BY DEF IInv, RequestInv, ForkInv
  <1>4. ASSUME NEW d \in Creators PROVE ThreadInv(d)'
    BY DEF IInv, ThreadInv
  <1>5. ASSUME NEW d \in Creators PROVE OwnerInv(d)' /\ StopInv(d)'
    BY DEF IInv, OwnerInv, StopInv
  <1> QED
    BY <1>1, <1>2, <1>3, <1>4, <1>5 DEF IInv

\* The function returns: it was told to stop, or its thread is nobody's.
LEMMA FnReturnsKeeps ==
    ASSUME IInv, NEW c \in Creators, FnReturns(c)
    PROVE  IInv'
  <1> USE DEF FnReturns, Thread, kthread_should_stop, dvars, tvars, svars
  <1>0. NULL \notin Creators /\ TypeOK
    BY KthreadAssumption DEF IInv
  <1>1. TypeOK'
    BY <1>0 DEF TypeOK
  <1>2. NoLostRequest' /\ DaemonInv' /\ (stopLock = NULL => stopInfo.done = 0)'
    BY DEF IInv, NoLostRequest, DaemonInv
  <1>3. ASSUME NEW d \in Creators PROVE RequestInv(d)' /\ ForkInv(d)'
    BY DEF IInv, RequestInv, ForkInv, Parked
  <1>4. ASSUME NEW d \in Creators PROVE ThreadInv(d)'
    BY DEF IInv, TypeOK, ThreadInv, InFn, Parked
  <1>5. ASSUME NEW d \in Creators PROVE OwnerInv(d)' /\ StopInv(d)'
    BY DEF IInv, OwnerInv, StopInv, Parked
  <1> QED
    BY <1>1, <1>2, <1>3, <1>4, <1>5 DEF IInv

\* The thread stores its result for kthread_stop(), or exits on its own.
LEMMA KthreadEndsKeeps ==
    ASSUME IInv, NEW c \in Creators, KthreadEnds(c)
    PROVE  IInv'
  <1> USE DEF KthreadEnds, kthread_should_stop, Exit, dvars, tvars, svars
  <1>0. NULL \notin Creators /\ TypeOK
    BY KthreadAssumption DEF IInv
  <1>1. TypeOK'
    <2>1. CASE stopInfo.k = c
      <3>1. stopInfo' = [stopInfo EXCEPT !.err = ret[c]] /\ ret[c] \in Creators \cup {EINTR}
        BY <2>1, <1>0 DEF TypeOK
      <3>2. stopInfo' \in [k : Creators \cup {NULL}, err : Creators \cup {EINTR}, done : 0 .. 1]
        BY <3>1, <1>0 DEF TypeOK
      <3> QED
        BY <2>1, <3>2, <1>0 DEF TypeOK
    <2>2. CASE stopInfo.k # c
      BY <2>2, <1>0 DEF TypeOK
    <2> QED
      BY <2>1, <2>2
  <1>2. NoLostRequest' /\ DaemonInv' /\ (stopLock = NULL => stopInfo.done = 0)'
    BY <1>0 DEF IInv, NoLostRequest, DaemonInv, StopInv, Stopping
  <1>3. ASSUME NEW d \in Creators PROVE RequestInv(d)' /\ ForkInv(d)'
    BY DEF IInv, TypeOK, RequestInv, ForkInv, Parked
  <1>4. ASSUME NEW d \in Creators PROVE ThreadInv(d)'
    BY DEF IInv, TypeOK, ThreadInv, InFn, Parked
  <1>5. ASSUME NEW d \in Creators PROVE OwnerInv(d)' /\ StopInv(d)'
    BY DEF IInv, TypeOK, ThreadInv, OwnerInv, StopInv, Stopping, Parked
  <1> QED
    BY <1>1, <1>2, <1>3, <1>4, <1>5 DEF IInv

\* The thread reports to kthread_stop() and exits.
LEMMA KthreadReportsKeeps ==
    ASSUME IInv, NEW c \in Creators, KthreadReports(c)
    PROVE  IInv'
  <1> USE DEF KthreadReports, Exit, dvars, tvars, svars
  <1>0. NULL \notin Creators /\ TypeOK
    BY KthreadAssumption DEF IInv
  <1>1. TypeOK'
    BY DEF IInv, TypeOK, StopInv, ThreadInv, Parked
  <1>2. NoLostRequest' /\ DaemonInv' /\ (stopLock = NULL => stopInfo.done = 0)'
    BY <1>0 DEF IInv, NoLostRequest, DaemonInv, StopInv, ThreadInv, Stopping
  <1>3. ASSUME NEW d \in Creators PROVE RequestInv(d)' /\ ForkInv(d)'
    BY DEF IInv, RequestInv, ForkInv, Parked
  <1>4. ASSUME NEW d \in Creators PROVE ThreadInv(d)'
    BY DEF IInv, TypeOK, ThreadInv, InFn, Parked
  <1>5. ASSUME NEW d \in Creators PROVE OwnerInv(d)' /\ StopInv(d)'
    BY DEF IInv, TypeOK, ThreadInv, OwnerInv, StopInv, Stopping, Owning
  <1> QED
    BY <1>1, <1>2, <1>3, <1>4, <1>5 DEF IInv

-----------------------------------------------------------------------------
(* Every step of a creator preserves it. *)

\* kthread_create() puts a request on the list.
LEMMA CreateAddKeeps ==
    ASSUME IInv, NEW c \in Creators, CreateAdd(c)
    PROVE  IInv'
  <1> USE DEF CreateAdd, Request, Call, dvars, tvars, svars
  <1>0. NULL \notin Creators /\ TypeOK
    BY KthreadAssumption DEF IInv
  <1>a. /\ c \notin Entries(list) /\ create # c /\ tpc[c] = "none"
        /\ cpc[c] = "idle" /\ done[c] = 0
    BY DEF IInv, TypeOK, RequestInv, Requesting
  <1>b. /\ list' \in Seq(Creators) /\ NoDuplicates(list')
        /\ Entries(list') = Entries(list) \cup {c}
    <2>1. list \in Seq(Creators) /\ NoDuplicates(list) /\ list' = ListAddTail(c, list)
      BY <1>0 DEF IInv, TypeOK, DaemonInv
    <2>2. ListAddTail(c, list) \in Seq(Creators)
      BY <2>1, ListAddTailFacts
    <2>3. Entries(ListAddTail(c, list)) = Entries(list) \cup {c}
      BY <2>1, EntriesAddTail
    <2>4. NoDuplicates(ListAddTail(c, list))
      BY <2>1, <1>a, ListAddTailFacts
    <2> QED
      BY <2>1, <2>2, <2>3, <2>4
  <1>1. TypeOK'
    BY <1>0, <1>b DEF TypeOK
  <1>2. NoLostRequest' /\ DaemonInv' /\ (stopLock = NULL => stopInfo.done = 0)'
    BY <1>b DEF IInv, TypeOK, NoLostRequest, DaemonInv
  <1>3. ASSUME NEW d \in Creators PROVE RequestInv(d)' /\ ForkInv(d)'
    <2>1. /\ d # c => cpc'[d] = cpc[d] /\ started'[d] = started[d] /\ done'[d] = done[d]
                     /\ woken'[d] = woken[d] /\ ran'[d] = ran[d]
          /\ cpc'[c] = "wake" /\ started'[c] = 0 /\ done'[c] = 0 /\ ~woken'[c] /\ ~ran'[c]
      BY ZenonT(30), <1>0 DEF TypeOK
    <2>2. RequestInv(d)'
      BY <2>1, <1>b DEF IInv, RequestInv, Requesting
    <2>3. ForkInv(d)'
      BY <1>a DEF IInv, ForkInv
    <2> QED
      BY <2>2, <2>3
  <1>4. ASSUME NEW d \in Creators PROVE ThreadInv(d)'
    BY DEF IInv, TypeOK, ThreadInv, InFn
  <1>5. ASSUME NEW d \in Creators PROVE OwnerInv(d)' /\ StopInv(d)'
    BY DEF IInv, OwnerInv, StopInv, Stopping, Owning
  <1> QED
    BY <1>1, <1>2, <1>3, <1>4, <1>5 DEF IInv

\* kthread_create() wakes kthreadd.
LEMMA CreateWakeKeeps ==
    ASSUME IInv, NEW c \in Creators, CreateWake(c)
    PROVE  IInv'
  <1> USE DEF CreateWake, Call, dvars, tvars, svars
  <1>0. NULL \notin Creators /\ TypeOK
    BY KthreadAssumption DEF IInv
  <1>1. TypeOK'
    BY <1>0 DEF TypeOK
  <1>2. NoLostRequest' /\ DaemonInv' /\ (stopLock = NULL => stopInfo.done = 0)'
    BY DEF IInv, NoLostRequest, DaemonInv
  <1>3. ASSUME NEW d \in Creators PROVE RequestInv(d)' /\ ForkInv(d)'
    BY DEF IInv, RequestInv, ForkInv, Requesting
  <1>4. ASSUME NEW d \in Creators PROVE ThreadInv(d)'
    BY DEF IInv, ThreadInv
  <1>5. ASSUME NEW d \in Creators PROVE OwnerInv(d)' /\ StopInv(d)'
    BY DEF IInv, OwnerInv, StopInv, Stopping, Owning
  <1> QED
    BY <1>1, <1>2, <1>3, <1>4, <1>5 DEF IInv

\* kthread_create() returns.
LEMMA CreateReturnsKeeps ==
    ASSUME IInv, NEW c \in Creators, CreateReturns(c)
    PROVE  IInv'
  <1> USE DEF CreateReturns, Call, dvars, tvars, svars
  <1>0. NULL \notin Creators /\ TypeOK
    BY KthreadAssumption DEF IInv
  <1>1. TypeOK'
    BY <1>0 DEF TypeOK
  <1>2. NoLostRequest' /\ DaemonInv' /\ (stopLock = NULL => stopInfo.done = 0)'
    BY DEF IInv, NoLostRequest, DaemonInv
  <1>3. ASSUME NEW d \in Creators PROVE RequestInv(d)' /\ ForkInv(d)'
    BY DEF IInv, TypeOK, RequestInv, ForkInv, Requesting
  <1>4. ASSUME NEW d \in Creators PROVE ThreadInv(d)'
    BY DEF IInv, ThreadInv
  <1>5. ASSUME NEW d \in Creators PROVE OwnerInv(d)' /\ StopInv(d)'
    BY DEF IInv, RequestInv, ThreadInv, OwnerInv, StopInv, Stopping, Owning, Requesting
  <1> QED
    BY <1>1, <1>2, <1>3, <1>4, <1>5 DEF IInv

\* The owner wakes its thread.
LEMMA WakeKeeps ==
    ASSUME IInv, NEW c \in Creators, Wake(c)
    PROVE  IInv'
  <1> USE DEF Wake, Call, WakeUp, Awake, dvars, tvars, svars
  <1>0. NULL \notin Creators /\ TypeOK
    BY KthreadAssumption DEF IInv
  <1>1. TypeOK'
    BY <1>0 DEF TypeOK
  <1>2. NoLostRequest' /\ DaemonInv' /\ (stopLock = NULL => stopInfo.done = 0)'
    BY DEF IInv, NoLostRequest, DaemonInv
  <1>3. ASSUME NEW d \in Creators PROVE RequestInv(d)' /\ ForkInv(d)'
    BY DEF IInv, RequestInv, ForkInv, Requesting
  <1>4. ASSUME NEW d \in Creators PROVE ThreadInv(d)'
    BY DEF IInv, TypeOK, RequestInv, ForkInv, ThreadInv, Requesting
  <1>5. ASSUME NEW d \in Creators PROVE OwnerInv(d)' /\ StopInv(d)'
    BY DEF IInv, TypeOK, OwnerInv, StopInv, Stopping, Owning
  <1> QED
    BY <1>1, <1>2, <1>3, <1>4, <1>5 DEF IInv

\* kthread_bind() looks at the thread.
LEMMA BindCheckKeeps ==
    ASSUME IInv, NEW c \in Creators, BindCheck(c)
    PROVE  IInv'
  <1> USE DEF BindCheck, Call, dvars, tvars, svars
  <1>0. NULL \notin Creators /\ TypeOK
    BY KthreadAssumption DEF IInv
  <1>1. TypeOK'
    BY <1>0 DEF TypeOK
  <1>2. NoLostRequest' /\ DaemonInv' /\ (stopLock = NULL => stopInfo.done = 0)'
    BY DEF IInv, NoLostRequest, DaemonInv
  <1>3. ASSUME NEW d \in Creators PROVE RequestInv(d)' /\ ForkInv(d)'
    BY DEF IInv, RequestInv, ForkInv, Requesting
  <1>4. ASSUME NEW d \in Creators PROVE ThreadInv(d)'
    BY DEF IInv, ThreadInv
  <1>5. ASSUME NEW d \in Creators PROVE OwnerInv(d)' /\ StopInv(d)'
    BY DEF IInv, OwnerInv, StopInv, Stopping, Owning
  <1> QED
    BY <1>1, <1>2, <1>3, <1>4, <1>5 DEF IInv

\* kthread_bind() returns.
LEMMA BindDoneKeeps ==
    ASSUME IInv, NEW c \in Creators, BindDone(c)
    PROVE  IInv'
  <1> USE DEF BindDone, Call, dvars, tvars, svars
  <1>0. NULL \notin Creators /\ TypeOK
    BY KthreadAssumption DEF IInv
  <1>1. TypeOK'
    BY <1>0 DEF TypeOK
  <1>2. NoLostRequest' /\ DaemonInv' /\ (stopLock = NULL => stopInfo.done = 0)'
    BY DEF IInv, NoLostRequest, DaemonInv
  <1>3. ASSUME NEW d \in Creators PROVE RequestInv(d)' /\ ForkInv(d)'
    BY DEF IInv, RequestInv, ForkInv, Requesting
  <1>4. ASSUME NEW d \in Creators PROVE ThreadInv(d)'
    BY DEF IInv, ThreadInv
  <1>5. ASSUME NEW d \in Creators PROVE OwnerInv(d)' /\ StopInv(d)'
    BY DEF IInv, OwnerInv, StopInv, Stopping, Owning
  <1> QED
    BY <1>1, <1>2, <1>3, <1>4, <1>5 DEF IInv

\* kthread_stop() takes its lock and the reference to the thread.
LEMMA StopLockKeeps ==
    ASSUME IInv, NEW c \in Creators, StopLock(c)
    PROVE  IInv'
  <1> USE DEF StopLock, Call, dvars, tvars, svars
  <1>0. NULL \notin Creators /\ TypeOK
    BY KthreadAssumption DEF IInv
  <1>1. TypeOK'
    BY <1>0 DEF TypeOK
  <1>2. NoLostRequest' /\ DaemonInv' /\ (stopLock = NULL => stopInfo.done = 0)'
    BY DEF IInv, NoLostRequest, DaemonInv
  <1>3. ASSUME NEW d \in Creators PROVE RequestInv(d)' /\ ForkInv(d)'
    BY DEF IInv, RequestInv, ForkInv, Requesting
  <1>4. ASSUME NEW d \in Creators PROVE ThreadInv(d)'
    BY DEF IInv, ThreadInv
  <1>5. ASSUME NEW d \in Creators PROVE OwnerInv(d)' /\ StopInv(d)'
    BY <1>0 DEF IInv, TypeOK, OwnerInv, StopInv, Stopping, Owning
  <1> QED
    BY <1>1, <1>2, <1>3, <1>4, <1>5 DEF IInv

\* kthread_stop() publishes whom it stops.
LEMMA StopPublishKeeps ==
    ASSUME IInv, NEW c \in Creators, StopPublish(c)
    PROVE  IInv'
  <1> USE DEF StopPublish, Call, dvars, tvars, svars
  <1>0. NULL \notin Creators /\ TypeOK
    BY KthreadAssumption DEF IInv
  <1>1. TypeOK'
    BY <1>0 DEF TypeOK
  <1>2. NoLostRequest' /\ DaemonInv' /\ (stopLock = NULL => stopInfo.done = 0)'
    BY DEF IInv, NoLostRequest, DaemonInv
  <1>3. ASSUME NEW d \in Creators PROVE RequestInv(d)' /\ ForkInv(d)'
    BY DEF IInv, RequestInv, ForkInv, Requesting
  <1>4. ASSUME NEW d \in Creators PROVE ThreadInv(d)'
    BY DEF IInv, ThreadInv, StopInv, Stopping
  <1>5. ASSUME NEW d \in Creators PROVE OwnerInv(d)' /\ StopInv(d)'
    BY DEF IInv, TypeOK, OwnerInv, StopInv, Stopping, Owning
  <1> QED
    BY <1>1, <1>2, <1>3, <1>4, <1>5 DEF IInv

\* kthread_stop() wakes the thread and drops the reference.
LEMMA StopWakeKeeps ==
    ASSUME IInv, NEW c \in Creators, StopWake(c)
    PROVE  IInv'
  <1> USE DEF StopWake, Call, WakeUp, Awake, dvars, tvars, svars
  <1>0. NULL \notin Creators /\ TypeOK
    BY KthreadAssumption DEF IInv
  <1>1. TypeOK'
    BY <1>0 DEF TypeOK
  <1>2. NoLostRequest' /\ DaemonInv' /\ (stopLock = NULL => stopInfo.done = 0)'
    BY DEF IInv, NoLostRequest, DaemonInv
  <1>3. ASSUME NEW d \in Creators PROVE RequestInv(d)' /\ ForkInv(d)'
    BY DEF IInv, RequestInv, ForkInv, Requesting
  <1>4. ASSUME NEW d \in Creators PROVE ThreadInv(d)'
    BY DEF IInv, TypeOK, RequestInv, ForkInv, ThreadInv, Requesting
  <1>5. ASSUME NEW d \in Creators PROVE OwnerInv(d)' /\ StopInv(d)'
    BY DEF IInv, TypeOK, OwnerInv, StopInv, Stopping, Owning
  <1> QED
    BY <1>1, <1>2, <1>3, <1>4, <1>5 DEF IInv

\* kthread_stop() has the thread's report.
LEMMA StopWaitKeeps ==
    ASSUME IInv, NEW c \in Creators, StopWait(c)
    PROVE  IInv'
  <1> USE DEF StopWait, Reported, Call, dvars, tvars, svars
  <1>0. NULL \notin Creators /\ TypeOK
    BY KthreadAssumption DEF IInv
  <1>1. TypeOK'
    <2>1. stopInfo.done - 1 = 0
      BY <1>0 DEF TypeOK
    <2> QED
      BY <2>1, <1>0 DEF TypeOK
  <1>2. NoLostRequest' /\ DaemonInv' /\ (stopLock = NULL => stopInfo.done = 0)'
    BY <1>0 DEF IInv, NoLostRequest, DaemonInv
  <1>3. ASSUME NEW d \in Creators PROVE RequestInv(d)' /\ ForkInv(d)'
    BY DEF IInv, RequestInv, ForkInv, Requesting
  <1>4. ASSUME NEW d \in Creators PROVE ThreadInv(d)'
    BY DEF IInv, ThreadInv, StopInv
  <1>5. ASSUME NEW d \in Creators PROVE OwnerInv(d)' /\ StopInv(d)'
    BY <1>0 DEF IInv, TypeOK, OwnerInv, StopInv, Stopping, Owning
  <1> QED
    BY <1>1, <1>2, <1>3, <1>4, <1>5 DEF IInv

\* kthread_stop() returns.
LEMMA StopReturnsKeeps ==
    ASSUME IInv, NEW c \in Creators, StopReturns(c)
    PROVE  IInv'
  <1> USE DEF StopReturns, Call, dvars, tvars, svars
  <1>0. NULL \notin Creators /\ TypeOK
    BY KthreadAssumption DEF IInv
  <1>1. TypeOK'
    BY <1>0 DEF TypeOK
  <1>2. NoLostRequest' /\ DaemonInv' /\ (stopLock = NULL => stopInfo.done = 0)'
    BY DEF IInv, NoLostRequest, DaemonInv, StopInv
  <1>3. ASSUME NEW d \in Creators PROVE RequestInv(d)' /\ ForkInv(d)'
    BY DEF IInv, RequestInv, ForkInv, Requesting
  <1>4. ASSUME NEW d \in Creators PROVE ThreadInv(d)'
    BY DEF IInv, ThreadInv
  <1>5. ASSUME NEW d \in Creators PROVE OwnerInv(d)' /\ StopInv(d)'
    BY DEF IInv, TypeOK, OwnerInv, StopInv, Stopping, Owning
  <1> QED
    BY <1>1, <1>2, <1>3, <1>4, <1>5 DEF IInv

-----------------------------------------------------------------------------

\* At boot there are no requests and no threads.
LEMMA InitIInv == Init => IInv
  <1> SUFFICES ASSUME Init PROVE IInv
    OBVIOUS
  <1>0. NULL \notin Creators /\ list = <<>> /\ Len(list) = 0
    BY KthreadAssumption DEF Init
  <1>1. TypeOK
    BY <1>0 DEF Init, TypeOK
  <1>2. NoLostRequest /\ DaemonInv /\ Entries(list) = {}
    BY <1>0 DEF Init, NoLostRequest, DaemonInv, NoDuplicates, Entries
  <1>3. ASSUME NEW c \in Creators
        PROVE  RequestInv(c) /\ ForkInv(c) /\ ThreadInv(c) /\ OwnerInv(c) /\ StopInv(c)
    BY <1>0, <1>2 DEF Init, RequestInv, ForkInv, ThreadInv, OwnerInv, StopInv,
                      Requesting, Owning, Stopping, Parked, InFn
  <1> QED
    BY <1>1, <1>2, <1>3 DEF Init, IInv

\* The invariant is inductive.
LEMMA NextIInv == IInv /\ [Next]_vars => IInv'
  <1> SUFFICES ASSUME IInv, [Next]_vars PROVE IInv'
    OBVIOUS
  <1>1. CASE Kthreadd
    BY <1>1, KthreaddPrepareKeeps, KthreaddTestKeeps, KthreaddWakesKeeps, KthreaddTakeKeeps,
       KernelThreadKeeps, KernelThreadFailsKeeps, KthreaddStartedKeeps, KthreaddDoneKeeps
       DEF Kthreadd
  <1>2. ASSUME NEW c \in Creators, kthread(c) \/ FnEvent(c) PROVE IInv'
    BY <1>2, KthreadBeginKeeps, KthreadStartedKeeps, KthreadSleepsKeeps, KthreadRunsKeeps,
       FnPrepareKeeps, FnTestKeeps, FnWakesKeeps, FnEventKeeps, FnReturnsKeeps,
       KthreadEndsKeeps, KthreadReportsKeeps
       DEF kthread
  <1>3. ASSUME NEW c \in Creators, Creator(c) PROVE IInv'
    BY <1>3, CreateAddKeeps, CreateWakeKeeps, CreateReturnsKeeps, WakeKeeps, BindCheckKeeps,
       BindDoneKeeps, StopLockKeeps, StopPublishKeeps, StopWakeKeeps, StopWaitKeeps,
       StopReturnsKeeps
       DEF Creator, InCall
  <1>4. CASE UNCHANGED vars
    <2>1. TypeOK'
      BY <1>4 DEF IInv, TypeOK, vars, dvars, tvars, svars
    <2>2. NoLostRequest' /\ DaemonInv' /\ (stopLock = NULL => stopInfo.done = 0)'
      BY <1>4 DEF IInv, NoLostRequest, DaemonInv, vars, dvars, svars
    <2>3. ASSUME NEW c \in Creators
          PROVE  RequestInv(c)' /\ ForkInv(c)' /\ ThreadInv(c)' /\ OwnerInv(c)' /\ StopInv(c)'
      BY <1>4 DEF IInv, RequestInv, ForkInv, ThreadInv, OwnerInv, StopInv,
                  vars, dvars, tvars, svars
    <2> QED
      BY <2>1, <2>2, <2>3 DEF IInv
  <1> QED
    BY <1>1, <1>2, <1>3, <1>4 DEF Next

\* The invariant holds in every reachable state.
THEOREM IInvCorrect == Spec => []IInv
  BY InitIInv, NextIInv, PTL DEF Spec

-----------------------------------------------------------------------------
(* What it implies. *)

\* kthreadd never sleeps on a request that nobody will wake it for, a new thread is
\* stopped when its creator gets it, and its function runs only if it was woken.
THEOREM ConsistentCorrect == Spec => []Consistent
  <1>1. IInv => Consistent
    BY DEF IInv, Consistent, CreatedIsStopped, RunsOnlyIfWoken, OwnerInv, ThreadInv,
           Owning, Parked
  <1> QED
    BY <1>1, IInvCorrect, PTL

\* kthread_create() does not return while its stack frame is in use.
THEOREM FrameAliveCorrect == Spec => []FrameAlive
  <1>1. IInv => FrameAlive
    BY DEF IInv, FrameAlive, RequestInv, ForkInv, Requesting
  <1> QED
    BY <1>1, IInvCorrect, PTL

\* A creator's pointer to its thread is good whenever it is used.
THEOREM HandleValidCorrect == Spec => []HandleValid
  <1>1. IInv => HandleValid
    BY DEF IInv, HandleValid, OwnerInv, StopInv, Owning
  <1> QED
    BY <1>1, IInvCorrect, PTL

\* kthread_stop() returns the result of its own thread, which has gone.
THEOREM StopResultCorrect == Spec => []StopResult
  <1>1. IInv => StopResult
    BY DEF IInv, StopResult, StopInv
  <1> QED
    BY <1>1, IInvCorrect, PTL
=============================================================================
