----------------------------- MODULE RwSemProofs -----------------------------
(***************************************************************************)
(* Machine-checked proofs about RwSem, for every finite set of tasks.      *)
(***************************************************************************)
EXTENDS RwSem, ListHeadProofs, FiniteSetTheorems, TLAPS

\* Only the task that holds wait_lock is inside a wake-up loop.
OwnerInv ==
    /\ \A t \in Tasks : t \in Waking <=> t = wait_lock
    /\ Unlocked <=> mode = "none"
    /\ ~Unlocked => tsk \in Tasks

\* A task has a waiter exactly while it waits.
WaiterInv ==
    \A t \in Tasks : /\ t \in Waiting <=> flags[t] # "none"
                     /\ wtask[t] => t \in Waiting

\* The waiter about to be granted still waits, and for what it is granted.
GrantInv ==
    \A w \in Waking : pc[w] = "null" =>
        /\ tsk \in Waiting /\ wtask[tsk]
        /\ flags[tsk] = IF mode = "writer" THEN "write" ELSE "read"

\* Who owns the lock, as a function of activity and of the running loop.
CountInv ==
    /\ Unlocked => \/ activity \in Nat /\ activity = Cardinality(Readers) /\ Writers = {}
                   \/ activity = -1 /\ Readers = {} /\ \E w \in Tasks : Writers = {w}
    /\ mode = "writer" =>
         /\ activity = -1 /\ Readers = {}
         /\ Writers = IF pc[wait_lock] = "null" THEN {} ELSE {tsk}
    /\ mode \in {"readers", "downgrade"} =>
         /\ activity \in Nat /\ Writers = {}
         /\ Cardinality(Readers) =
              activity + woken + (IF pc[wait_lock] = "null" THEN 0 ELSE 1)

IInv == /\ TypeOK /\ OwnerInv /\ WaiterInv /\ GrantInv /\ CountInv
        /\ QueueExact /\ HeadIsWriter /\ NoLostWakeUp

\* What a step may do to the owners: a step of the abstract lock, or nothing.
LockStep == Abstract!ANext \/ UNCHANGED <<Readers, Writers>>

-----------------------------------------------------------------------------
\* A free rw-semaphore satisfies the invariant.
LEMMA InitIInv == Init => IInv
  <1> SUFFICES ASSUME Init PROVE IInv
    OBVIOUS
  <1>1. TypeOK
    BY DEF Init, TypeOK, Places, Modes
  <1>2. /\ Waiting = {} /\ Waking = {} /\ Readers = {} /\ Writers = {}
        /\ Granting = {}
    BY DEF Init, Waiting, Waking, Readers, Writers, Granting
  <1>3. wait_list = <<>> /\ Len(wait_list) = 0
    BY DEF Init
  <1>4. OwnerInv /\ WaiterInv /\ GrantInv
    BY <1>2, TasksAssumption DEF Init, OwnerInv, WaiterInv, GrantInv, Unlocked
  <1>5. CountInv
    BY <1>2, FS_EmptySet DEF Init, CountInv
  <1>6. QueueExact
    BY <1>2, <1>3 DEF QueueExact, Entries, NoDuplicates
  <1>7. HeadIsWriter /\ NoLostWakeUp
    BY <1>2, <1>3 DEF Init, HeadIsWriter, NoLostWakeUp, ListEmpty
  <1> QED
    BY <1>1, <1>4, <1>5, <1>6, <1>7 DEF IInv

\* Sets of tasks are finite.
LEMMA SetsFinite ==
    ASSUME NEW S \in SUBSET Tasks
    PROVE  IsFiniteSet(S) /\ Cardinality(S) \in Nat
  BY TasksAssumption, FS_Subset, FS_CardinalityType

\* The readers can be counted.
LEMMA ReadersFinite ==
    Readers \in SUBSET Tasks /\ IsFiniteSet(Readers) /\ Cardinality(Readers) \in Nat
  <1>1. Readers \in SUBSET Tasks
    BY DEF Readers
  <1> QED
    BY <1>1, SetsFinite

\* Nobody is inside a wake-up loop while wait_lock is free.
LEMMA UnlockedIdle ==
    ASSUME IInv, Unlocked
    PROVE  Waking = {} /\ Granting = {} /\ mode = "none"
  <1>1. Waking = {}
    BY TasksAssumption DEF IInv, OwnerInv, Unlocked, Waking
  <1> QED
    BY <1>1 DEF Granting, IInv, OwnerInv

\* A task that starts a wake-up is never the waiter it wakes, and the waiter
\* waits for what its flags say.
LEMMA HeadFacts ==
    ASSUME IInv, ~ListEmpty(wait_list)
    PROVE  /\ Head(wait_list) \in Tasks /\ Head(wait_list) \in Waiting
           /\ wtask[Head(wait_list)] /\ Head(wait_list) \notin Granting
           /\ flags[Head(wait_list)] \in {"read", "write"}
           /\ Tail(wait_list) \in Seq(Tasks)
           /\ Entries(Tail(wait_list)) = Entries(wait_list) \ {Head(wait_list)}
           /\ NoDuplicates(Tail(wait_list))
  <1>1. /\ Head(wait_list) \in Entries(wait_list)
        /\ Head(wait_list) \in Tasks
        /\ Tail(wait_list) \in Seq(Tasks)
        /\ Entries(Tail(wait_list)) = Entries(wait_list) \ {Head(wait_list)}
        /\ NoDuplicates(Tail(wait_list))
    BY TailFacts DEF IInv, TypeOK, QueueExact, ListEmpty
  <1>2. /\ Head(wait_list) \in Waiting /\ wtask[Head(wait_list)]
        /\ Head(wait_list) \notin Granting
    BY <1>1 DEF IInv, QueueExact
  <1>3. flags[Head(wait_list)] \in {"read", "write"}
    BY <1>1, <1>2 DEF IInv, TypeOK, WaiterInv
  <1> QED
    BY <1>1, <1>2, <1>3

-----------------------------------------------------------------------------
(* One lemma per action.                                                   *)

\* A lock that is granted at once.
LEMMA DownGrantedStep ==
    ASSUME IInv, NEW t \in Tasks, DownReadGranted(t) \/ DownWriteGranted(t)
    PROVE  IInv' /\ LockStep
  <1> USE DEF DownReadGranted, DownWriteGranted, MayRead, MayWrite
  <1>0. Waking = {}
    BY UnlockedIdle
  <1>1. TypeOK'
    <2>1. activity' \in Int /\ pc' \in [Tasks -> Places]
      BY DEF IInv, TypeOK, Places
    <2> QED
      BY <2>1 DEF IInv, TypeOK
  <1>2. Waiting' = Waiting /\ Waking' = Waking
    BY DEF IInv, TypeOK, Waiting, Waking
  <1>3. Granting' = Granting
    BY <1>2 DEF IInv, TypeOK, Granting, Waking
  <1>4. OwnerInv' /\ WaiterInv'
    BY <1>2 DEF IInv, OwnerInv, WaiterInv, Unlocked
  <1>5. GrantInv'
    BY <1>0, <1>2 DEF GrantInv
  <1>6. QueueExact' /\ HeadIsWriter'
    BY <1>2, <1>3 DEF IInv, QueueExact, HeadIsWriter, ListEmpty
  <1>7. NoLostWakeUp'
    BY <1>2 DEF IInv, TypeOK, NoLostWakeUp, ListEmpty, Waking
  <1>8. CountInv' /\ LockStep
    <2>1. CASE DownReadGranted(t)
      <3>1. /\ Readers' = Readers \cup {t} /\ t \notin Readers
            /\ Writers' = Writers
        BY <1>2, <2>1 DEF IInv, TypeOK, Readers, Writers, Waiting, Waking
      <3>2. Cardinality(Readers') = Cardinality(Readers) + 1
        BY <3>1, ReadersFinite, FS_AddElement
      <3> QED
        BY <2>1, <3>1, <3>2 DEF IInv, TypeOK, CountInv, OwnerInv, Unlocked,
           LockStep, Abstract!ANext, Abstract!AcquireRead
    <2>2. CASE DownWriteGranted(t)
      <3>1. Readers = {} /\ Writers = {}
        BY <2>2, ReadersFinite, FS_EmptySet DEF IInv, CountInv
      <3>2. Readers' = Readers /\ Writers' = Writers \cup {t}
        BY <1>2, <2>2 DEF IInv, TypeOK, Readers, Writers, Waiting, Waking
      <3> QED
        BY <2>2, <3>1, <3>2 DEF IInv, TypeOK, CountInv, OwnerInv, Unlocked,
           LockStep, Abstract!ANext, Abstract!AcquireWrite
    <2> QED
      BY <2>1, <2>2
  <1> QED
    BY <1>1, <1>4, <1>5, <1>6, <1>7, <1>8 DEF IInv

\* A task queues its waiter.
LEMMA QueuedStep ==
    ASSUME IInv, NEW t \in Tasks, DownReadQueued(t) \/ DownWriteQueued(t)
    PROVE  IInv' /\ LockStep
  <1>0. pc[t] = "idle" /\ Unlocked
    BY DEF DownReadQueued, DownWriteQueued
  <1>a. PICK f \in {"read", "write"} : Enqueue(t, f)
    BY DEF DownReadQueued, DownWriteQueued
  <1>b. Waking = {} /\ Granting = {} /\ mode = "none"
    BY <1>0, UnlockedIdle
  <1>c. t \notin Waiting /\ t \notin Entries(wait_list)
    BY <1>0 DEF IInv, QueueExact, Waiting
  <1>1. /\ wait_list' \in Seq(Tasks)
        /\ Entries(wait_list') = Entries(wait_list) \cup {t}
        /\ NoDuplicates(wait_list')
    <2>1. /\ wait_list \in Seq(Tasks) /\ NoDuplicates(wait_list)
          /\ wait_list' = ListAddTail(t, wait_list)
      BY <1>a DEF IInv, TypeOK, QueueExact, Enqueue
    <2>2. ListAddTail(t, wait_list) \in Seq(Tasks)
      BY <2>1, ListAddTailFacts
    <2>3. Entries(ListAddTail(t, wait_list)) = Entries(wait_list) \cup {t}
      BY <2>1, EntriesAddTail
    <2>4. NoDuplicates(ListAddTail(t, wait_list))
      BY <2>1, <1>c, ListAddTailFacts
    <2> QED
      BY <2>1, <2>2, <2>3, <2>4
  <1>2. TypeOK'
    BY <1>a, <1>1 DEF IInv, TypeOK, Enqueue, Places
  <1>3. Waiting' = Waiting \cup {t} /\ Waking' = {}
    BY <1>0, <1>a, <1>b DEF IInv, TypeOK, Enqueue, Waiting, Waking
  <1>4. Granting' = {}
    BY <1>3 DEF Granting
  <1>5. OwnerInv' /\ GrantInv'
    BY <1>a, <1>b, <1>3 DEF IInv, OwnerInv, GrantInv, Unlocked, Enqueue
  <1>6. WaiterInv'
    BY <1>a, <1>3 DEF IInv, TypeOK, WaiterInv, Enqueue
  <1>7. QueueExact'
    <2>1. {u \in Waiting' : wtask'[u]} = {u \in Waiting : wtask[u]} \cup {t}
      BY <1>a, <1>c, <1>3 DEF IInv, TypeOK, Enqueue, Waiting
    <2> QED
      BY <1>1, <1>b, <1>4, <2>1 DEF IInv, QueueExact
  <1>8. Readers' = Readers /\ Writers' = Writers
    <2>1. /\ \A u \in Tasks : u # t => pc'[u] = pc[u] /\ wtask'[u] = wtask[u] /\ flags'[u] = flags[u]
          /\ pc'[t] = "check" /\ wtask'[t] /\ mode' = mode
      BY <1>a DEF IInv, TypeOK, Enqueue
    <2> QED
      BY <1>0, <1>b, <1>c, <1>3, <2>1 DEF Readers, Writers
  <1>9. CountInv'
    BY <1>a, <1>b, <1>8 DEF IInv, CountInv, Unlocked, Enqueue
  <1>10. HeadIsWriter'
    <2>1. CASE ListEmpty(wait_list)
      <3>1. Head(wait_list') = t
        BY <1>a, <2>1 DEF Enqueue, ListEmpty, ListAddTail
      <3>2. activity > 0 => f = "write"
        BY <1>a, <2>1 DEF DownReadQueued, DownWriteQueued, MayRead, Enqueue, IInv, TypeOK
      <3> QED
        BY <1>a, <1>2, <3>1, <3>2 DEF HeadIsWriter, HeadWants, Enqueue, IInv, TypeOK
    <2>2. CASE ~ListEmpty(wait_list)
      <3>1. Head(wait_list') = Head(wait_list)
        BY <1>a, <2>2 DEF Enqueue, ListEmpty, ListAddTail, IInv, TypeOK
      <3>2. Head(wait_list) \in Tasks /\ Head(wait_list) # t
        BY <2>2, <1>c, HeadFacts
      <3>3. flags'[Head(wait_list)] = flags[Head(wait_list)] /\ activity' = activity
        BY <1>a, <3>2 DEF Enqueue, IInv, TypeOK
      <3> QED
        BY <2>2, <1>0, <3>1, <3>3 DEF HeadIsWriter, HeadWants, IInv
    <2> QED
      BY <2>1, <2>2
  <1>11. NoLostWakeUp'
    <2>1. activity # 0
      BY <1>0 DEF IInv, NoLostWakeUp, DownReadQueued, DownWriteQueued, MayRead, MayWrite
    <2>2. \A u \in Tasks : u # t => pc'[u] = pc[u] /\ wtask'[u] = wtask[u] /\ state'[u] = state[u]
      BY <1>a DEF IInv, TypeOK, Enqueue
    <2>3. pc'[t] = "check" /\ activity' = activity
      BY <1>a DEF IInv, TypeOK, Enqueue
    <2> QED
      BY <1>b, <2>1, <2>2, <2>3 DEF IInv, NoLostWakeUp
  <1> QED
    BY <1>2, <1>5, <1>6, <1>7, <1>8, <1>9, <1>10, <1>11 DEF IInv, LockStep

\* A sleeper sees its task pointer cleared and returns.
LEMMA WaitDoneStep ==
    ASSUME IInv, NEW t \in Tasks, WaitDone(t)
    PROVE  IInv' /\ LockStep
  <1> USE DEF WaitDone
  <1>0. t \in Waiting /\ ~wtask[t] /\ flags[t] \in {"read", "write"} /\ t \notin Waking
    BY DEF IInv, TypeOK, WaiterInv, Waiting, Waking
  <1>1. TypeOK'
    BY <1>0 DEF IInv, TypeOK, Places
  <1>2. /\ pc'[t] = flags[t] /\ flags'[t] = "none" /\ state'[t] = "TASK_RUNNING"
        /\ \A u \in Tasks : u # t =>
             pc'[u] = pc[u] /\ flags'[u] = flags[u] /\ state'[u] = state[u]
    BY DEF IInv, TypeOK
  <1>3. Waiting' = Waiting \ {t} /\ Waking' = Waking
    BY <1>0, <1>2 DEF Waiting, Waking
  <1>4. \A w \in Waking : w # t /\ pc'[w] = pc[w] /\ w \in Tasks
    BY <1>0, <1>2 DEF Waking
  <1>5. Granting' = Granting
    BY <1>3, <1>4 DEF Granting
  <1>6. Readers' = Readers /\ Writers' = Writers
    BY <1>0, <1>2, <1>3 DEF Readers, Writers
  <1>7. OwnerInv' /\ WaiterInv'
    BY <1>0, <1>2, <1>3 DEF IInv, OwnerInv, WaiterInv, Unlocked
  <1>8. GrantInv'
    BY <1>0, <1>2, <1>3, <1>4 DEF IInv, GrantInv, Waiting
  <1>9. QueueExact'
    <2>1. {u \in Waiting' : wtask'[u]} = {u \in Waiting : wtask[u]}
      BY <1>0, <1>3
    <2> QED
      BY <1>5, <2>1 DEF IInv, QueueExact
  <1>10. HeadIsWriter'
    <2>1. ~ListEmpty(wait_list) => Head(wait_list) \in Tasks /\ Head(wait_list) # t
      BY <1>0, HeadFacts
    <2> QED
      BY <1>2, <2>1 DEF IInv, HeadIsWriter, HeadWants, Unlocked, ListEmpty
  <1>11. NoLostWakeUp'
    BY <1>0, <1>2, <1>3, <1>4 DEF IInv, NoLostWakeUp, Unlocked, ListEmpty
  <1>12. CountInv'
    <2>1. ~Unlocked => wait_lock \in Waking
      BY DEF IInv, OwnerInv, TypeOK, Unlocked
    <2>2. mode # "none" => pc'[wait_lock] = pc[wait_lock]
      BY <1>4, <2>1 DEF IInv, OwnerInv
    <2> QED
      BY <1>6, <2>2 DEF IInv, CountInv, Unlocked
  <1> QED
    BY <1>1, <1>6, <1>7, <1>8, <1>9, <1>10, <1>11, <1>12 DEF IInv, LockStep

\* A sleeper goes round its loop.
LEMMA WaitLoopStep ==
    ASSUME IInv, NEW t \in Tasks, WaitSchedule(t) \/ WaitAgain(t) \/ StrayWakeUp(t)
    PROVE  IInv' /\ LockStep
  <1> USE DEF WaitSchedule, WaitAgain, StrayWakeUp
  <1>0. t \in Waiting /\ t \notin Waking
    BY DEF Waiting, Waking
  <1>a. UNCHANGED <<activity, wait_list, wait_lock, wtask, flags, tsk, woken, mode>>
    OBVIOUS
  <1>1. TypeOK'
    <2>1. pc' \in [Tasks -> Places]
      BY DEF IInv, TypeOK, Places
    <2>2. state' \in [Tasks -> {"TASK_RUNNING", "TASK_UNINTERRUPTIBLE"}]
      BY DEF IInv, TypeOK
    <2> QED
      BY <1>a, <2>1, <2>2 DEF IInv, TypeOK
  <1>2. /\ pc'[t] \in {"check", "sched"}
        /\ pc'[t] = "sched" /\ state'[t] # "TASK_RUNNING" => wtask[t]
        /\ \A u \in Tasks : u # t => pc'[u] = pc[u] /\ state'[u] = state[u]
    BY DEF IInv, TypeOK
  <1>3. Waiting' = Waiting /\ Waking' = Waking
    BY <1>0, <1>2 DEF Waiting, Waking
  <1>4. \A w \in Waking : w # t /\ pc'[w] = pc[w] /\ w \in Tasks
    BY <1>0, <1>2 DEF Waking
  <1>5. Granting' = Granting
    BY <1>a, <1>3, <1>4 DEF Granting
  <1>6. Readers' = Readers /\ Writers' = Writers
    BY <1>0, <1>a, <1>2, <1>3 DEF Readers, Writers, Waiting
  <1>7. OwnerInv' /\ WaiterInv' /\ GrantInv' /\ QueueExact' /\ HeadIsWriter'
    BY <1>a, <1>3, <1>4, <1>5
       DEF IInv, OwnerInv, WaiterInv, GrantInv, QueueExact, HeadIsWriter, HeadWants,
           Unlocked, ListEmpty
  <1>8. NoLostWakeUp'
    BY <1>a, <1>2, <1>3, <1>4 DEF IInv, NoLostWakeUp, Unlocked, ListEmpty
  <1>9. CountInv'
    <2>1. ~Unlocked => wait_lock \in Waking
      BY DEF IInv, OwnerInv, TypeOK, Unlocked
    <2>2. mode # "none" => pc'[wait_lock] = pc[wait_lock]
      BY <1>4, <2>1 DEF IInv, OwnerInv
    <2> QED
      BY <1>a, <1>6, <2>2 DEF IInv, CountInv, Unlocked
  <1> QED
    BY <1>1, <1>6, <1>7, <1>8, <1>9 DEF IInv, LockStep

\* Releasing without a wake-up.
LEMMA NoWakeFacts ==
    ASSUME IInv, NEW t \in Tasks, NEW after \in {"idle", "read"}, Unlocked,
           pc[t] \in {"read", "write"}, NoWake(t, after), UNCHANGED <<wtask, flags, state>>,
           activity' \in Int
    PROVE  /\ TypeOK' /\ OwnerInv' /\ WaiterInv' /\ GrantInv' /\ QueueExact'
           /\ Waiting' = Waiting /\ Waking' = {} /\ Unlocked' /\ mode' = "none"
           /\ pc'[t] = after /\ \A u \in Tasks : u # t => pc'[u] = pc[u]
  <1> USE DEF NoWake
  <1>0. Waking = {} /\ Granting = {} /\ mode = "none"
    BY UnlockedIdle
  <1>1. TypeOK'
    BY DEF IInv, TypeOK, Places
  <1>2. Waiting' = Waiting /\ Waking' = {}
    BY <1>0 DEF IInv, TypeOK, Waiting, Waking
  <1>3. Granting' = {}
    BY <1>2 DEF Granting
  <1>4. OwnerInv' /\ WaiterInv' /\ GrantInv' /\ QueueExact'
    BY <1>0, <1>2, <1>3 DEF IInv, OwnerInv, WaiterInv, GrantInv, QueueExact, Unlocked
  <1> QED
    BY <1>0, <1>1, <1>2, <1>4 DEF IInv, TypeOK, Unlocked

\* The first waiter is unlinked.
LEMMA StartWakeFacts ==
    ASSUME IInv, NEW t \in Tasks, NEW m \in {"writer", "readers", "downgrade"}, Unlocked,
           pc[t] \in {"read", "write"}, ~ListEmpty(wait_list), StartWake(t, m),
           flags[Head(wait_list)] = IF m = "writer" THEN "write" ELSE "read",
           UNCHANGED <<wtask, flags, state>>, activity' \in Int
    PROVE  /\ TypeOK' /\ OwnerInv' /\ WaiterInv' /\ GrantInv' /\ QueueExact'
           /\ HeadIsWriter' /\ NoLostWakeUp'
           /\ Waiting' = Waiting /\ Waking' = {t} /\ ~Unlocked' /\ wait_lock' = t
           /\ mode' = m /\ woken' = 0 /\ pc'[t] = "null"
           /\ \A u \in Tasks : u # t => pc'[u] = pc[u]
  <1> DEFINE h == Head(wait_list)
  <1>0. Waking = {} /\ Granting = {} /\ mode = "none" /\ t \notin Waiting
    BY UnlockedIdle DEF Waiting
  <1>1. /\ h \in Tasks /\ h \in Waiting /\ wtask[h] /\ h # t
        /\ Tail(wait_list) \in Seq(Tasks)
        /\ Entries(Tail(wait_list)) = Entries(wait_list) \ {h}
        /\ NoDuplicates(Tail(wait_list))
    BY <1>0, HeadFacts
  <1>2. /\ wait_lock' = t /\ tsk' = h /\ wait_list' = Tail(wait_list) /\ woken' = 0
        /\ mode' = m /\ pc' = [pc EXCEPT ![t] = "null"]
    BY DEF StartWake
  <1>3. flags[h] = IF m = "writer" THEN "write" ELSE "read"
    OBVIOUS
  <1> HIDE DEF h
  <1>4. TypeOK'
    BY <1>1, <1>2 DEF IInv, TypeOK, Places, Modes
  <1>5. /\ pc'[t] = "null" /\ \A u \in Tasks : u # t => pc'[u] = pc[u]
    BY <1>2 DEF IInv, TypeOK
  <1>6. Waiting' = Waiting /\ Waking' = {t}
    BY <1>0, <1>5 DEF Waiting, Waking
  <1>7. ~Unlocked'
    BY <1>2, TasksAssumption DEF Unlocked
  <1>8. Granting' = {h}
    BY <1>1, <1>2, <1>5, <1>6 DEF Granting
  <1>9. OwnerInv' /\ WaiterInv' /\ GrantInv'
    BY <1>1, <1>2, <1>3, <1>5, <1>6, <1>7 DEF IInv, OwnerInv, WaiterInv, GrantInv
  <1>10. QueueExact'
    BY <1>0, <1>1, <1>2, <1>6, <1>8 DEF IInv, QueueExact
  <1>11. HeadIsWriter' /\ NoLostWakeUp'
    BY <1>0, <1>5, <1>6, <1>7 DEF IInv, HeadIsWriter, NoLostWakeUp
  <1> QED
    BY <1>2, <1>4, <1>5, <1>6, <1>7, <1>9, <1>10, <1>11

\* A reader releases.
LEMMA UpReadStep ==
    ASSUME IInv, NEW t \in Tasks, UpRead(t)
    PROVE  IInv' /\ LockStep
  <1>0. pc[t] = "read" /\ Unlocked /\ UNCHANGED <<wtask, flags, state>>
    BY DEF UpRead
  <1>a. Waking = {} /\ mode = "none" /\ t \in Readers /\ t \notin Waiting
    BY <1>0, UnlockedIdle DEF Readers, Waiting
  <1>b. activity \in Nat /\ activity = Cardinality(Readers) /\ Writers = {}
    BY <1>0, <1>a DEF IInv, CountInv
  <1>c. activity > 0
    BY <1>a, <1>b, ReadersFinite, FS_EmptySet
  <1>d. Cardinality(Readers \ {t}) = activity - 1 /\ IsFiniteSet(Readers \ {t})
    BY <1>a, <1>b, ReadersFinite, FS_RemoveElement
  <1>1. CASE activity - 1 = 0 /\ ~ListEmpty(wait_list)
    <2>1. activity' = -1 /\ StartWake(t, "writer")
      BY <1>1 DEF UpRead
    <2>2. flags[Head(wait_list)] = "write"
      BY <1>0, <1>1, <1>c DEF IInv, HeadIsWriter, HeadWants
    <2>3. /\ TypeOK' /\ OwnerInv' /\ WaiterInv' /\ GrantInv' /\ QueueExact'
          /\ HeadIsWriter' /\ NoLostWakeUp'
          /\ Waiting' = Waiting /\ Waking' = {t} /\ ~Unlocked' /\ wait_lock' = t
          /\ mode' = "writer" /\ pc'[t] = "null"
          /\ \A u \in Tasks : u # t => pc'[u] = pc[u]
      BY <1>0, <1>1, <2>1, <2>2, StartWakeFacts
    <2>4. Readers \ {t} = {}
      BY <1>1, <1>b, <1>d, FS_EmptySet
    <2>5. Readers' = Readers \ {t} /\ Writers' = Writers
      BY <1>0, <1>a, <2>3 DEF Readers, Writers
    <2>6. CountInv'
      BY <1>b, <2>1, <2>3, <2>4, <2>5 DEF CountInv
    <2> QED
      BY <1>a, <2>3, <2>5, <2>6 DEF IInv, LockStep, Abstract!ANext, Abstract!ReleaseRead
  <1>2. CASE ~(activity - 1 = 0 /\ ~ListEmpty(wait_list))
    <2>1. activity' = activity - 1 /\ NoWake(t, "idle")
      BY <1>2 DEF UpRead
    <2>2. /\ TypeOK' /\ OwnerInv' /\ WaiterInv' /\ GrantInv' /\ QueueExact'
          /\ Waiting' = Waiting /\ Waking' = {} /\ Unlocked' /\ mode' = "none"
          /\ pc'[t] = "idle" /\ \A u \in Tasks : u # t => pc'[u] = pc[u]
      BY <1>0, <1>b, <2>1, NoWakeFacts
    <2>3. Readers' = Readers \ {t} /\ Writers' = Writers
      BY <1>0, <1>a, <2>2 DEF Readers, Writers
    <2>4. CountInv'
      BY <1>b, <1>c, <1>d, <2>1, <2>2, <2>3 DEF CountInv
    <2>5. HeadIsWriter' /\ NoLostWakeUp'
      BY <1>0, <1>2, <1>b, <1>c, <1>a, <2>1, <2>2
         DEF NoWake, IInv, HeadIsWriter, HeadWants, NoLostWakeUp, ListEmpty
    <2> QED
      BY <1>a, <2>2, <2>3, <2>4, <2>5 DEF IInv, LockStep, Abstract!ANext, Abstract!ReleaseRead
  <1> QED
    BY <1>1, <1>2

\* A writer releases or downgrades.
LEMMA UpWriteStep ==
    ASSUME IInv, NEW t \in Tasks, UpWrite(t) \/ DowngradeWrite(t)
    PROVE  IInv' /\ LockStep
  <1>0. pc[t] = "write" /\ Unlocked /\ UNCHANGED <<wtask, flags, state>>
    BY DEF UpWrite, DowngradeWrite
  <1>a. Waking = {} /\ mode = "none" /\ t \in Writers /\ t \notin Waiting
    BY <1>0, UnlockedIdle DEF Writers, Waiting
  <1>b. activity = -1 /\ Readers = {} /\ Writers = {t}
    BY <1>0, <1>a DEF IInv, CountInv
  <1>c. Cardinality({}) = 0 /\ Cardinality({t}) = 1
    BY FS_EmptySet, FS_Singleton
  <1>1. ASSUME NEW m \in {"writer", "readers", "downgrade"}, StartWake(t, m),
               HeadWants(IF m = "writer" THEN "write" ELSE "read"),
               activity' = IF m = "writer" THEN -1 ELSE IF m = "readers" THEN 0 ELSE 1
        PROVE  IInv' /\ LockStep
    <2>1. /\ ~ListEmpty(wait_list)
          /\ flags[Head(wait_list)] = IF m = "writer" THEN "write" ELSE "read"
      BY <1>1 DEF HeadWants
    <2>2. activity' \in Int
      BY <1>1
    <2>3. /\ TypeOK' /\ OwnerInv' /\ WaiterInv' /\ GrantInv' /\ QueueExact'
          /\ HeadIsWriter' /\ NoLostWakeUp'
          /\ Waiting' = Waiting /\ Waking' = {t} /\ ~Unlocked' /\ wait_lock' = t
          /\ mode' = m /\ woken' = 0 /\ pc'[t] = "null"
          /\ \A u \in Tasks : u # t => pc'[u] = pc[u]
      BY <1>0, <1>1, <2>1, <2>2, StartWakeFacts
    <2>4. Writers' = {} /\ Readers' = IF m = "downgrade" THEN {t} ELSE {}
      BY <1>0, <1>a, <1>b, <2>3 DEF Readers, Writers
    <2>5. CountInv'
      BY <1>1, <1>c, <2>3, <2>4 DEF CountInv
    <2> QED
      BY <1>b, <2>3, <2>4, <2>5 DEF IInv, LockStep, Abstract!ANext, Abstract!ReleaseWrite,
         Abstract!Downgrade
  <1>2. ASSUME NEW after \in {"idle", "read"}, NoWake(t, after), ~HeadWants("read"),
               after = "idle" => ListEmpty(wait_list),
               activity' = IF after = "idle" THEN 0 ELSE 1
        PROVE  IInv' /\ LockStep
    <2>1. activity' \in Int
      BY <1>2
    <2>2. /\ TypeOK' /\ OwnerInv' /\ WaiterInv' /\ GrantInv' /\ QueueExact'
          /\ Waiting' = Waiting /\ Waking' = {} /\ Unlocked' /\ mode' = "none"
          /\ pc'[t] = after /\ \A u \in Tasks : u # t => pc'[u] = pc[u]
      BY <1>0, <1>2, <2>1, NoWakeFacts
    <2>3. Writers' = {} /\ Readers' = IF after = "read" THEN {t} ELSE {}
      BY <1>0, <1>a, <1>b, <2>2 DEF Readers, Writers
    <2>4. CountInv'
      BY <1>2, <1>c, <2>2, <2>3 DEF CountInv
    <2>5. HeadIsWriter'
      <3>1. ~ListEmpty(wait_list) => flags[Head(wait_list)] = "write"
        BY <1>2, HeadFacts DEF HeadWants
      <3> QED
        BY <1>0, <1>2, <3>1 DEF NoWake, HeadIsWriter, HeadWants, ListEmpty
    <2>6. NoLostWakeUp'
      BY <1>0, <1>2, <1>a, <2>2 DEF NoWake, IInv, NoLostWakeUp, ListEmpty
    <2> QED
      BY <1>b, <2>2, <2>3, <2>4, <2>5, <2>6 DEF IInv, LockStep, Abstract!ANext,
         Abstract!ReleaseWrite, Abstract!Downgrade
  <1>3. CASE UpWrite(t)
    BY <1>1, <1>2, <1>3 DEF UpWrite, HeadWants
  <1>4. CASE DowngradeWrite(t)
    BY <1>1, <1>2, <1>4 DEF DowngradeWrite
  <1> QED
    BY <1>3, <1>4

\* The wake loop clears a task pointer: the hand-over.
LEMMA ClearTaskStep ==
    ASSUME IInv, NEW t \in Tasks, ClearTask(t)
    PROVE  IInv' /\ LockStep
  <1>0. /\ t \in Waking /\ t = wait_lock /\ ~Unlocked /\ pc[t] = "null"
        /\ tsk \in Tasks /\ tsk \in Waiting /\ wtask[tsk] /\ tsk # t
        /\ flags[tsk] = IF mode = "writer" THEN "write" ELSE "read"
        /\ mode \in {"writer", "readers", "downgrade"}
    <2>1. t \in Waking /\ t \notin Waiting /\ pc[t] = "null"
      BY DEF ClearTask, Waking, Waiting
    <2> QED
      BY <2>1, TasksAssumption
         DEF IInv, TypeOK, Modes, OwnerInv, GrantInv, Unlocked
  <1>a. UNCHANGED <<activity, wait_list, wait_lock, flags, state, tsk, woken, mode>>
    BY DEF ClearTask
  <1>b. /\ ~wtask'[tsk] /\ \A u \in Tasks : u # tsk => wtask'[u] = wtask[u]
        /\ pc'[t] = "wakeup" /\ \A u \in Tasks : u # t => pc'[u] = pc[u]
    BY <1>0 DEF IInv, TypeOK, ClearTask
  <1>1. TypeOK'
    BY <1>0 DEF IInv, TypeOK, ClearTask, Places
  <1>2. Waiting' = Waiting /\ Waking' = Waking /\ Waking = {t}
    BY <1>0, <1>b DEF IInv, OwnerInv, Waiting, Waking
  <1>3. Granting = {tsk} /\ Granting' = {}
    BY <1>0, <1>a, <1>b, <1>2 DEF Granting
  <1>4. OwnerInv' /\ WaiterInv' /\ GrantInv'
    BY <1>0, <1>a, <1>b, <1>2 DEF IInv, OwnerInv, WaiterInv, GrantInv, Unlocked
  <1>5. QueueExact'
    <2>1. {u \in Waiting' : wtask'[u]} = {u \in Waiting : wtask[u]} \ {tsk}
      BY <1>0, <1>b, <1>2 DEF Waiting
    <2> QED
      BY <1>a, <1>3, <2>1 DEF IInv, QueueExact
  <1>6. HeadIsWriter'
    BY <1>0, <1>a DEF HeadIsWriter, Unlocked
  <1>7. NoLostWakeUp'
    <2>1. \A u \in Tasks : u # tsk => ~(pc[u] = "sched" /\ ~wtask[u] /\ state[u] # "TASK_RUNNING")
      BY DEF IInv, NoLostWakeUp
    <2>2. tsk' = tsk /\ \E w \in Waking' : pc'[w] = "wakeup"
      BY <1>a, <1>b, <1>2
    <2> QED
      BY <1>0, <1>a, <1>b, <2>1, <2>2 DEF NoLostWakeUp, Unlocked
  <1>8. CASE mode = "writer"
    <2>1. Readers' = Readers /\ Writers' = Writers \cup {tsk}
      BY <1>0, <1>8, <1>a, <1>b, <1>2 DEF Readers, Writers
    <2>2. Readers = {} /\ Writers = {} /\ activity = -1
      BY <1>0, <1>8 DEF IInv, CountInv
    <2>3. CountInv'
      BY <1>0, <1>8, <1>a, <1>b, <2>1, <2>2 DEF CountInv, Unlocked
    <2>4. LockStep
      BY <1>0, <2>1, <2>2 DEF LockStep, Abstract!ANext, Abstract!AcquireWrite
    <2> QED
      BY <1>1, <1>4, <1>5, <1>6, <1>7, <2>3, <2>4 DEF IInv
  <1>9. CASE mode # "writer"
    <2>1. Readers' = Readers \cup {tsk} /\ tsk \notin Readers /\ Writers' = Writers
      BY <1>0, <1>9, <1>a, <1>b, <1>2 DEF Readers, Writers, Waiting, Waking
    <2>2. /\ activity \in Nat /\ Writers = {} /\ woken \in Nat
          /\ Cardinality(Readers) = activity + woken
      BY <1>0, <1>9 DEF IInv, TypeOK, CountInv
    <2>3. Cardinality(Readers') = Cardinality(Readers) + 1
      BY <2>1, ReadersFinite, FS_AddElement
    <2>4. CountInv'
      BY <1>0, <1>9, <1>a, <1>b, <2>1, <2>2, <2>3 DEF CountInv, Unlocked
    <2>5. LockStep
      BY <1>0, <2>1, <2>2 DEF LockStep, Abstract!ANext, Abstract!AcquireRead
    <2> QED
      BY <1>1, <1>4, <1>5, <1>6, <1>7, <2>4, <2>5 DEF IInv
  <1> QED
    BY <1>8, <1>9

\* The wake loop wakes a reader and goes on to the next.
LEMMA WakeNextStep ==
    ASSUME IInv, NEW t \in Tasks, WakeNext(t)
    PROVE  IInv' /\ LockStep
  <1> DEFINE h == Head(wait_list)
  <1>0. /\ t \in Waking /\ t = wait_lock /\ ~Unlocked /\ pc[t] = "wakeup"
        /\ tsk \in Tasks /\ mode \in {"readers", "downgrade"}
    <2>1. t \in Waking /\ pc[t] = "wakeup" /\ mode # "writer"
      BY DEF WakeNext, Waking
    <2> QED
      BY <2>1, TasksAssumption DEF IInv, TypeOK, Modes, OwnerInv, Unlocked
  <1>a. UNCHANGED <<activity, wait_lock, wtask, flags, mode>>
    BY DEF WakeNext
  <1>b. ~ListEmpty(wait_list) /\ flags[h] = "read"
    BY DEF WakeNext, HeadWants
  <1>c. /\ h \in Tasks /\ h \in Waiting /\ wtask[h]
        /\ Tail(wait_list) \in Seq(Tasks)
        /\ Entries(Tail(wait_list)) = Entries(wait_list) \ {h}
        /\ NoDuplicates(Tail(wait_list))
    BY <1>b, HeadFacts
  <1>d. /\ tsk' = h /\ wait_list' = Tail(wait_list) /\ woken' = woken + 1
        /\ state' = [state EXCEPT ![tsk] = "TASK_RUNNING"]
        /\ pc' = [pc EXCEPT ![t] = "null"]
    BY DEF WakeNext
  <1>x. flags[h] = "read"
    BY <1>b
  <1> HIDE DEF h
  <1>1. TypeOK'
    BY <1>0, <1>a, <1>c, <1>d DEF IInv, TypeOK, Places
  <1>e. pc'[t] = "null" /\ \A u \in Tasks : u # t => pc'[u] = pc[u]
    BY <1>d DEF IInv, TypeOK
  <1>2. Waiting' = Waiting /\ Waking' = Waking /\ Waking = {t}
    BY <1>0, <1>e DEF IInv, OwnerInv, Waiting, Waking
  <1>3. Granting = {} /\ Granting' = {h}
    BY <1>0, <1>c, <1>d, <1>e, <1>2 DEF Granting
  <1>4. OwnerInv' /\ WaiterInv' /\ GrantInv'
    BY <1>0, <1>x, <1>a, <1>c, <1>d, <1>e, <1>2
       DEF IInv, OwnerInv, WaiterInv, GrantInv, Unlocked
  <1>5. QueueExact'
    BY <1>a, <1>c, <1>d, <1>2, <1>3 DEF IInv, QueueExact
  <1>6. HeadIsWriter'
    BY <1>0, <1>a DEF HeadIsWriter, Unlocked
  <1>7. NoLostWakeUp'
    <2>1. \A u \in Tasks : pc[u] = "sched" /\ ~wtask[u] /\ state[u] # "TASK_RUNNING" => u = tsk
      BY DEF IInv, NoLostWakeUp
    <2>2. state'[tsk] = "TASK_RUNNING" /\ \A u \in Tasks : u # tsk => state'[u] = state[u]
      BY <1>0, <1>d DEF IInv, TypeOK
    <2> QED
      BY <1>0, <1>a, <1>e, <2>1, <2>2 DEF NoLostWakeUp, Unlocked
  <1>8. Readers' = Readers /\ Writers' = Writers
    BY <1>0, <1>a, <1>e, <1>2 DEF Readers, Writers
  <1>9. CountInv'
    BY <1>0, <1>a, <1>d, <1>e, <1>8 DEF IInv, TypeOK, CountInv, Unlocked
  <1> QED
    BY <1>1, <1>4, <1>5, <1>6, <1>7, <1>8, <1>9 DEF IInv, LockStep

\* The wake loop wakes its last task and leaves.
LEMMA WakeLastStep ==
    ASSUME IInv, NEW t \in Tasks, WakeLast(t)
    PROVE  IInv' /\ LockStep
  <1>0. /\ t \in Waking /\ t = wait_lock /\ ~Unlocked /\ pc[t] = "wakeup"
        /\ tsk \in Tasks /\ mode \in {"writer", "readers", "downgrade"}
    <2>1. t \in Waking /\ pc[t] = "wakeup"
      BY DEF WakeLast, Waking
    <2> QED
      BY <2>1, TasksAssumption DEF IInv, TypeOK, Modes, OwnerInv, Unlocked
  <1>a. UNCHANGED <<wait_list, wtask, flags>>
    BY DEF WakeLast
  <1>b. /\ state' = [state EXCEPT ![tsk] = "TASK_RUNNING"]
        /\ pc' = [pc EXCEPT ![t] = IF mode = "downgrade" THEN "read" ELSE "idle"]
        /\ wait_lock' = NoTask /\ tsk' = NoTask /\ woken' = 0 /\ mode' = "none"
        /\ activity' = IF mode = "writer" THEN activity ELSE activity + woken + 1
    BY DEF WakeLast
  <1>1. TypeOK'
    BY <1>0, <1>a, <1>b DEF IInv, TypeOK, Places, Modes
  <1>c. /\ pc'[t] = IF mode = "downgrade" THEN "read" ELSE "idle"
        /\ \A u \in Tasks : u # t => pc'[u] = pc[u]
    BY <1>b DEF IInv, TypeOK
  <1>2. Waiting' = Waiting /\ Waking' = {} /\ Waking = {t}
    BY <1>0, <1>c DEF IInv, OwnerInv, Waiting, Waking
  <1>3. Granting = {} /\ Granting' = {} /\ Unlocked'
    BY <1>0, <1>b, <1>2 DEF Granting, Unlocked
  <1>4. OwnerInv' /\ WaiterInv' /\ GrantInv'
    BY <1>a, <1>b, <1>2, <1>3, TasksAssumption DEF IInv, OwnerInv, WaiterInv, GrantInv
  <1>5. QueueExact'
    BY <1>a, <1>2, <1>3 DEF IInv, QueueExact
  <1>6. Readers' = Readers /\ Writers' = Writers
    BY <1>0, <1>a, <1>b, <1>c, <1>2 DEF Readers, Writers, Waiting
  <1>7. CountInv' /\ (activity' = 0 => FALSE)
    BY <1>0, <1>b, <1>3, <1>6 DEF IInv, TypeOK, CountInv
  <1>8. HeadIsWriter'
    <2>1. CASE mode = "writer"
      BY <1>0, <1>b, <2>1 DEF IInv, CountInv, HeadIsWriter
    <2>2. CASE mode # "writer"
      <3>1. ~ListEmpty(wait_list) => flags[Head(wait_list)] = "write"
        BY <2>2, HeadFacts DEF WakeLast, HeadWants
      <3> QED
        BY <1>a, <3>1 DEF HeadIsWriter, HeadWants, ListEmpty
    <2> QED
      BY <2>1, <2>2
  <1>9. NoLostWakeUp'
    <2>1. \A u \in Tasks : pc[u] = "sched" /\ ~wtask[u] /\ state[u] # "TASK_RUNNING" => u = tsk
      BY DEF IInv, NoLostWakeUp
    <2>2. state'[tsk] = "TASK_RUNNING" /\ \A u \in Tasks : u # tsk => state'[u] = state[u]
      BY <1>0, <1>b DEF IInv, TypeOK
    <2>3. pc'[t] # "sched"
      BY <1>c
    <2> QED
      BY <1>a, <1>c, <1>7, <2>1, <2>2, <2>3 DEF NoLostWakeUp
  <1> QED
    BY <1>1, <1>4, <1>5, <1>6, <1>7, <1>8, <1>9 DEF IInv, LockStep

-----------------------------------------------------------------------------
\* Every step keeps the invariant and is an abstract step or a stutter.
LEMMA NextIInv == IInv /\ [Next]_vars => IInv' /\ LockStep
  <1> SUFFICES ASSUME IInv, [Next]_vars PROVE IInv' /\ LockStep
    OBVIOUS
  <1>1. CASE UNCHANGED vars
    <2>1. /\ Readers' = Readers /\ Writers' = Writers /\ Waiting' = Waiting
          /\ Waking' = Waking /\ Granting' = Granting
      BY <1>1 DEF vars, Readers, Writers, Waiting, Waking, Granting
    <2> QED
      BY <1>1, <2>1 DEF vars, LockStep, IInv, TypeOK, OwnerInv, WaiterInv, GrantInv, CountInv,
         QueueExact, HeadIsWriter, HeadWants, NoLostWakeUp, Unlocked, ListEmpty
  <1>2. CASE Next
    BY <1>2, DownGrantedStep, QueuedStep, WaitDoneStep, WaitLoopStep, UpReadStep,
       UpWriteStep, ClearTaskStep, WakeNextStep, WakeLastStep DEF Next
  <1> QED
    BY <1>1, <1>2

\* The inductive invariant of the rw-semaphore.
THEOREM SpecIInv == Spec => []IInv
  BY InitIInv, NextIInv, PTL DEF Spec

\* The values all variables take, in every state of the specification.
THEOREM TypeCorrect == Spec => []TypeOK
  BY SpecIInv, PTL DEF IInv

\* The queue never holds a waiter that may be gone from its stack.
THEOREM QueueCorrect == Spec => []QueueExact
  BY SpecIInv, PTL DEF IInv

\* __up_read() may take the head of the queue for a writer.
THEOREM HeadCorrect == Spec => []HeadIsWriter
  BY SpecIInv, PTL DEF IInv

\* No wake-up is lost between waiter.task and the task state.
THEOREM WakeUpCorrect == Spec => []NoLostWakeUp
  BY SpecIInv, PTL DEF IInv

\* activity counts the owners whenever wait_lock is free.
THEOREM ActivityCorrect == Spec => []ActivityExact
  <1>1. IInv => ActivityExact
    BY FS_Singleton DEF IInv, CountInv, ActivityExact
  <1> QED
    BY <1>1, SpecIInv, PTL

\* A writer never shares the lock, in the middle of a wake-up loop either.
THEOREM ExclusionCorrect == Spec => []Exclusion
  <1>1. IInv => Exclusion
    <2> SUFFICES ASSUME IInv, Writers # {} PROVE Readers = {} /\ Cardinality(Writers) = 1
      BY DEF Exclusion
    <2>1. Readers = {} /\ \E w : Writers = {w}
      <3>1. CASE Unlocked
        BY <3>1 DEF IInv, CountInv
      <3>2. CASE ~Unlocked
        <4>1. mode \in {"writer", "readers", "downgrade"}
          BY <3>2 DEF IInv, TypeOK, Modes, OwnerInv
        <4> QED
          BY <4>1 DEF IInv, CountInv
      <3> QED
        BY <3>1, <3>2
    <2> QED
      BY <2>1, FS_Singleton
  <1> QED
    BY <1>1, SpecIInv, PTL

\* activity, the queue and the owners agree whenever wait_lock is free, and between.
THEOREM ConsistentCorrect == Spec => []Consistent
  BY TypeCorrect, ActivityCorrect, ExclusionCorrect, HeadCorrect, QueueCorrect, PTL DEF Consistent

\* The semaphore implements the abstract reader/writer lock.
THEOREM Refinement == Spec => RefinesLock
  <1>1. Init => Abstract!AInit
    BY DEF Init, Abstract!AInit, Readers, Writers, Waiting, Waking
  <1>2. LockStep => [Abstract!ANext]_(Abstract!avars)
    BY DEF LockStep, Abstract!avars
  <1> QED
    BY <1>1, <1>2, NextIInv, SpecIInv, PTL DEF Spec, RefinesLock, Abstract!ASpec
=============================================================================
