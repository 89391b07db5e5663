--------------------------------- MODULE Srcu ---------------------------------
(***************************************************************************)
(* Sleepable RCU (kernel/srcu.c): one srcu_struct, its readers, the tasks  *)
(* that call synchronize_srcu() on it, and cleanup_srcu_struct().          *)
(*                                                                         *)
(* A processor may make the accesses of a critical section before the      *)
(* srcu_read_lock() in front of it and complete them after the             *)
(* srcu_read_unlock() behind it: the code has compiler barriers only. What *)
(* ends that is synchronize_sched(), which forces a memory barrier on      *)
(* every CPU. So a reader may hold references from "early", before it is   *)
(* counted, until it leaves "late", after it is counted out, and           *)
(* synchronize_sched() waits for every reader that was in one of these     *)
(* when it began. Without the reordering a reader just passes through      *)
(* them.                                                                   *)
(*                                                                         *)
(* Abstracted: the mutex is a lock (Mutex models it), and a counter is     *)
(* changed in one step, since its CPU has preemption disabled.             *)
(***************************************************************************)
EXTENDS Integers, FiniteSets

CONSTANTS Readers, Updaters, NULL,
          NCpus,
          CountMod,      \* counters are taken modulo this (2^32 in the code)
          FlipMod,       \* completed is taken modulo this (2^32 in the code)
          Starts,        \* values of completed, after any number of earlier grace periods
          MaxCalls       \* bound: calls of synchronize_srcu() from then on

Cpus == 1 .. NCpus

ASSUME SrcuAssumption ==
    /\ NCpus \in Nat \ {0}
    /\ IsFiniteSet(Readers) /\ NULL \notin Updaters /\ \A S \in SUBSET Readers : S # NULL
    /\ CountMod \in Nat /\ Cardinality(Readers) < CountMod
    /\ FlipMod \in Nat /\ FlipMod % 2 = 0 /\ Starts \subseteq 0 .. FlipMod - 1
    /\ MaxCalls \in Nat

VARIABLES completed,
          c,           \* per_cpu_ref: the two counters of each CPU; NULL once freed
          rpc, ridx,   \* of each reader: "out", "early", "fetched", "in" or "late"; its index
          upc, uidx,   \* of each updater: the next step; its idx
          quiet,       \* of each updater: whom its synchronize_sched() waits for
          cpu, sum,    \* of each updater: the CPU it reads next, and the sum so far
          mutex,       \* its holder, or NULL
          before,      \* history: the sections that the updater's call must outlast
          clean,       \* cleanup: [at, cpu, sum], at "live" before it is called
          calls

vars == <<completed, c, rpc, ridx, upc, uidx, quiet, cpu, sum, mutex, before, clean,
          calls>>
uvars == <<upc, uidx, quiet, cpu, sum, mutex>>

Init ==
    /\ completed \in Starts /\ calls = 0
    /\ c = [p \in Cpus |-> [i \in 0 .. 1 |-> 0]]
    /\ rpc = [r \in Readers |-> "out"] /\ ridx = [r \in Readers |-> 0]
    /\ upc = [u \in Updaters |-> "idle"] /\ uidx = [u \in Updaters |-> 0]
    /\ quiet = [u \in Updaters |-> {}]
    /\ cpu = [u \in Updaters |-> 1] /\ sum = [u \in Updaters |-> 0]
    /\ mutex = NULL
    /\ before = [u \in Updaters |-> NULL]
    /\ clean = [at |-> "live", cpu |-> 1, sum |-> 0]

Live == clean.at = "live"

\* Who may hold references to protected data.
Inside == {r \in Readers : rpc[r] # "out"}

\* The readers that are counted too late or not any more.
InFlight == {r \in Readers : rpc[r] \in {"early", "fetched", "late"}}

\* A reader has passed a memory barrier of its CPU.
Passed(r) == quiet' = [u \in Updaters |-> quiet[u] \ {r}]

-----------------------------------------------------------------------------
(* Readers *)

\* The processor makes an access of the section ahead of srcu_read_lock().
ReadEarly(r) ==
    /\ Live /\ rpc[r] = "out"
    /\ rpc' = [rpc EXCEPT ![r] = "early"]
    /\ UNCHANGED <<completed, c, ridx, upc, uidx, quiet, cpu, sum, mutex, before, clean, calls>>

\* srcu_read_lock() disables preemption and reads completed.
FetchIdx(r) ==
    /\ rpc[r] = "early"
    /\ rpc' = [rpc EXCEPT ![r] = "fetched"]
    /\ ridx' = [ridx EXCEPT ![r] = completed % 2]
    /\ UNCHANGED <<completed, c, upc, uidx, quiet, cpu, sum, mutex, before, clean, calls>>

\* It counts the reader on its CPU and enables preemption.
ReadLock(r, p) ==
    /\ rpc[r] = "fetched"
    /\ rpc' = [rpc EXCEPT ![r] = "in"]
    /\ c' = [c EXCEPT ![p][ridx[r]] = (@ + 1) % CountMod]
    /\ Passed(r)
    /\ UNCHANGED <<completed, ridx, upc, uidx, cpu, sum, mutex, before, clean, calls>>

\* The reader is counted out of bank i on CPU p.
CountOut(r, p, i) ==
    /\ rpc[r] = "in"
    /\ rpc' = [rpc EXCEPT ![r] = "late"] /\ ridx' = [ridx EXCEPT ![r] = 0]
    /\ c' = [c EXCEPT ![p][i] = (@ - 1) % CountMod]
    /\ UNCHANGED <<completed, upc, uidx, quiet, cpu, sum, mutex, before, clean, calls>>

\* Mutant: the bank is taken from completed again.
ReadUnlock_Recomputes(r, p) == CountOut(r, p, completed % 2)

\* srcu_read_unlock() of the index that srcu_read_lock() returned, possibly on another CPU.
ReadUnlock(r, p) == CountOut(r, p, ridx[r])

\* The last access of the section is complete.
ReadOut(r) ==
    /\ rpc[r] = "late"
    /\ rpc' = [rpc EXCEPT ![r] = "out"]
    /\ Passed(r)
    /\ before' = [u \in Updaters |-> IF before[u] = NULL THEN NULL ELSE before[u] \ {r}]
    /\ UNCHANGED <<completed, c, ridx, upc, uidx, cpu, sum, mutex, clean, calls>>

-----------------------------------------------------------------------------
(* synchronize_srcu() *)

\* The difference of two values of completed as a signed integer.
Advances(x, y) == LET d == (x - y) % FlipMod
                  IN IF d < FlipMod \div 2 THEN d ELSE d - FlipMod

At(u, from, to) == upc[u] = from /\ upc' = [upc EXCEPT ![u] = to]

\* It reads completed before it takes the mutex.
SyncCall(u) ==
    /\ Live /\ At(u, "idle", "lock")
    /\ calls < MaxCalls /\ calls' = calls + 1
    /\ uidx' = [uidx EXCEPT ![u] = completed]
    /\ before' = [before EXCEPT ![u] = Inside]
    /\ UNCHANGED <<completed, c, rpc, ridx, quiet, cpu, sum, mutex, clean>>

\* synchronize_sched() begins: it waits for whoever is in flight now.
SchedBegin(u) == quiet' = [quiet EXCEPT ![u] = InFlight]
SchedDone(u) == quiet[u] = {}

\* It returns and releases the mutex.
Release(u) == /\ mutex' = NULL /\ before' = [before EXCEPT ![u] = NULL]
              /\ uidx' = [uidx EXCEPT ![u] = 0]

\* Others have advanced the counter twice in the meantime: nothing is left to do.
EarlyExit(u, n) ==
    /\ mutex = NULL /\ Advances(completed, uidx[u]) >= n
    /\ At(u, "lock", "idle")
    /\ Release(u)
    /\ UNCHANGED <<completed, c, rpc, ridx, quiet, cpu, sum, clean, calls>>

\* Mutant: a single advance is taken for enough.
SyncEarlyExit_One(u) == EarlyExit(u, 1)

SyncEarlyExit(u) == EarlyExit(u, 2)

\* The mutex is taken and there is work to do.
SyncLock(u) ==
    /\ mutex = NULL /\ Advances(completed, uidx[u]) < 2
    /\ At(u, "lock", "sched1")
    /\ mutex' = u /\ SchedBegin(u)
    /\ UNCHANGED <<completed, c, rpc, ridx, uidx, cpu, sum, before, clean, calls>>

\* The flip: new readers use the other counters. The second synchronize_sched() begins.
SyncFlip(u) ==
    /\ SchedDone(u) /\ At(u, "sched1", "sched2")
    /\ uidx' = [uidx EXCEPT ![u] = completed % 2]
    /\ completed' = (completed + 1) % FlipMod
    /\ SchedBegin(u)
    /\ UNCHANGED <<c, rpc, ridx, cpu, sum, mutex, before, clean, calls>>

\* Mutant: the second synchronize_sched() is missing.
SyncScan_NoWait(u) ==
    /\ At(u, "sched2", "sum")
    /\ quiet' = [quiet EXCEPT ![u] = {}]
    /\ UNCHANGED <<completed, c, rpc, ridx, uidx, cpu, sum, mutex, before, clean, calls>>

SyncScan(u) ==
    /\ SchedDone(u) /\ At(u, "sched2", "sum")
    /\ UNCHANGED <<completed, c, rpc, ridx, uidx, quiet, cpu, sum, mutex, before, clean, calls>>

\* srcu_readers_active_idx() reads the counter of one CPU after the other.
SyncRead(u) ==
    /\ upc[u] = "sum" /\ cpu[u] <= NCpus
    /\ sum' = [sum EXCEPT ![u] = (@ + c[cpu[u]][uidx[u]]) % CountMod]
    /\ cpu' = [cpu EXCEPT ![u] = @ + 1]
    /\ UNCHANGED <<completed, c, rpc, ridx, upc, uidx, quiet, mutex, before, clean, calls>>

\* Mutant: the sum is not started afresh.
SyncAgain_KeepsSum(u) ==
    /\ upc[u] = "sum" /\ cpu[u] > NCpus /\ sum[u] # 0
    /\ cpu' = [cpu EXCEPT ![u] = 1]
    /\ UNCHANGED <<completed, c, rpc, ridx, upc, uidx, quiet, sum, mutex, before, clean, calls>>

\* Readers are left: it sleeps for a tick and sums again.
SyncAgain(u) ==
    /\ upc[u] = "sum" /\ cpu[u] > NCpus /\ sum[u] # 0
    /\ sum' = [sum EXCEPT ![u] = 0] /\ cpu' = [cpu EXCEPT ![u] = 1]
    /\ UNCHANGED <<completed, c, rpc, ridx, upc, uidx, quiet, mutex, before, clean, calls>>

\* None is left: the last synchronize_sched() begins.
SyncDrained(u) ==
    /\ cpu[u] > NCpus /\ sum[u] = 0 /\ At(u, "sum", "sched3")
    /\ cpu' = [cpu EXCEPT ![u] = 1]
    /\ SchedBegin(u)
    /\ UNCHANGED <<completed, c, rpc, ridx, uidx, sum, mutex, before, clean, calls>>

SyncReturn(u) ==
    /\ SchedDone(u) /\ At(u, "sched3", "idle")
    /\ Release(u)
    /\ UNCHANGED <<completed, c, rpc, ridx, quiet, cpu, sum, clean, calls>>

-----------------------------------------------------------------------------
(* cleanup_srcu_struct(), called by who has made sure that nobody starts to use the *)
(* structure any more. A reader may have been forgotten in its section.             *)

CleanCall ==
    /\ Live /\ \A u \in Updaters : upc[u] = "idle"
    /\ \A r \in Readers : rpc[r] \notin {"early", "fetched"}
    /\ clean' = [clean EXCEPT !.at = "sum"]
    /\ UNCHANGED <<completed, c, rpc, ridx, uvars, before, calls>>

\* srcu_readers_active() sums one set of counters and then the other.
CleanRead ==
    /\ clean.at = "sum" /\ clean.cpu <= 2 * NCpus
    /\ LET p == ((clean.cpu - 1) % NCpus) + 1  i == (clean.cpu - 1) \div NCpus
       IN clean' = [at |-> "sum", cpu |-> clean.cpu + 1,
                    sum |-> (clean.sum + c[p][i]) % CountMod]
    /\ UNCHANGED <<completed, c, rpc, ridx, uvars, before, calls>>

\* free_percpu(), or a warning and a leak when a reader was counted.
CleanFree ==
    /\ clean.at = "sum" /\ clean.cpu > 2 * NCpus
    /\ IF clean.sum = 0 THEN /\ clean' = [at |-> "freed", cpu |-> 1, sum |-> 0]
                             /\ c' = NULL
                        ELSE /\ clean' = [at |-> "leaked", cpu |-> 1, sum |-> 0]
                             /\ UNCHANGED c
    /\ UNCHANGED <<completed, rpc, ridx, uvars, before, calls>>

-----------------------------------------------------------------------------
Reader(r) == \/ ReadEarly(r) \/ FetchIdx(r) \/ ReadOut(r)
             \/ \E p \in Cpus : ReadLock(r, p) \/ ReadUnlock(r, p)

Updater(u) == \/ SyncCall(u) \/ SyncEarlyExit(u) \/ SyncLock(u) \/ SyncFlip(u) \/ SyncScan(u)
              \/ SyncRead(u) \/ SyncAgain(u) \/ SyncDrained(u) \/ SyncReturn(u)

Cleanup == CleanCall \/ CleanRead \/ CleanFree

Next == (\E r \in Readers : Reader(r)) \/ (\E u \in Updaters : Updater(u)) \/ Cleanup

Spec == Init /\ [][Next]_vars

\* A reader that has started gets through its section, and the holder of the mutex runs.
\* Nothing is assumed about who gets the mutex, or when readers start.
Finish(r) == rpc[r] # "out" /\ Reader(r)
HolderStep == \E u \in Updaters : mutex = u /\ Updater(u)

Fairness == (\A r \in Readers : WF_vars(Finish(r))) /\ WF_vars(HolderStep)

FairSpec == Spec /\ Fairness

-----------------------------------------------------------------------------
(* Properties *)

TypeOK ==
    /\ completed \in 0 .. FlipMod - 1 /\ calls \in 0 .. MaxCalls
    /\ c = NULL \/ c \in [Cpus -> [0 .. 1 -> 0 .. CountMod - 1]]
    /\ rpc \in [Readers -> {"out", "early", "fetched", "in", "late"}]
    /\ ridx \in [Readers -> 0 .. 1]
    /\ upc \in [Updaters -> {"idle", "lock", "sched1", "sched2", "sum", "sched3"}]
    /\ uidx \in [Updaters -> 0 .. FlipMod - 1]
    /\ quiet \in [Updaters -> SUBSET Readers]
    /\ cpu \in [Updaters -> 1 .. NCpus + 1] /\ sum \in [Updaters -> 0 .. CountMod - 1]
    /\ mutex \in Updaters \cup {NULL}
    /\ before \in [Updaters -> (SUBSET Readers) \cup {NULL}]
    /\ clean \in [at : {"live", "sum", "freed", "leaked"}, cpu : 1 .. 2 * NCpus + 1,
                  sum : 0 .. CountMod - 1]

\* The sum of the counters of bank i over all CPUs, and the readers that it counts.
Total(i) == LET total[p \in 0 .. NCpus] == IF p = 0 THEN 0 ELSE total[p - 1] + c[p][i]
            IN total[NCpus]
InBank(i) == {r \in Readers : rpc[r] = "in" /\ ridx[r] = i}

\* The sums that the code cannot read at once count exactly the readers in their
\* sections, whatever CPUs they have come and gone on.
CountersExact ==
    c # NULL => \A i \in 0 .. 1 : Total(i) % CountMod = Cardinality(InBank(i))

\* synchronize_srcu() returns only when every section that had begun before the call has
\* ended, by its own work or by the early exit.
GP == INSTANCE GracePeriod WITH inside <- Inside, waitsFor <- before

RefinesGracePeriod == GP!GSpec

\* Once the second synchronize_sched() is over no reader joins the counters that are
\* waited for: new readers cannot keep synchronize_srcu() from seeing zero.
OldBankOnlyDrains ==
    [][\A u \in Updaters, r \in Readers :
         upc[u] \in {"sum", "sched3"} /\ rpc[r] # "in" /\ rpc'[r] = "in" => ridx[r] # uidx[u]]_vars

\* The counters are freed only when no reader will decrement them any more.
CleanupSafe == clean.at = "freed" => \A r \in Readers : rpc[r] # "in"

\* The counters are exact, and freed only when nobody counts on them.
Consistent == TypeOK /\ CountersExact /\ CleanupSafe

\* Whoever holds the mutex lets go of it although readers keep coming.
HolderReturns == (mutex # NULL) ~> (mutex = NULL)
=============================================================================
