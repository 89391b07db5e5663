------------------------------ MODULE LockProofs ------------------------------
(***************************************************************************)
(* Machine-checked proofs about Semaphore and Mutex: for every set of      *)
(* tasks and, of the semaphore, for every initial count and every number   *)
(* of posts.                                                               *)
(***************************************************************************)
EXTENDS Semaphore, Mutex, ListHeadProofs, FiniteSetTheorems, TLAPS

\* The task state a down*() sleeps in is one of the sleeping ones.
LEMMA SleepStateType ==
    \A c : SleepState(c) \in {"TASK_INTERRUPTIBLE", "TASK_UNINTERRUPTIBLE",
                              "TASK_KILLABLE"}
  BY DEF SleepState

(* Type correctness. *)

\* up() keeps the types.
LEMMA UpUnitType ==
    ASSUME TypeOK, UpUnit
    PROVE  /\ count' \in Nat
           /\ wait_list' \in Seq(Tasks)
           /\ waiter_up' \in [Tasks -> BOOLEAN]
           /\ state' \in [Tasks -> {"TASK_RUNNING", "TASK_INTERRUPTIBLE",
                                    "TASK_UNINTERRUPTIBLE", "TASK_KILLABLE"}]
  <1>1. CASE wait_list = <<>>
    BY <1>1 DEF TypeOK, UpUnit, ListEmpty
  <1>2. CASE wait_list # <<>>
    <2>1. Head(wait_list) \in Tasks /\ Tail(wait_list) \in Seq(Tasks)
      BY <1>2 DEF TypeOK
    <2> QED
      BY <1>2, <2>1 DEF TypeOK, UpUnit, ListEmpty, WakeUpProcess
  <1> QED
    BY <1>1, <1>2

\* Everything the later theorems rest on.  It is inductive as it stands: the
\* wait list and the up flags determine each other, so the hand-over of a unit
\* can be followed through up(), signals and timeouts.
IInv == TypeOK /\ WaitListExact /\ NoLostWakeUp

\* A new semaphore satisfies the invariant.
LEMMA InitIInv == Init => IInv
  <1> SUFFICES ASSUME Init PROVE IInv
    OBVIOUS
  <1>1. TypeOK
    BY CountAssumption DEF Init, TypeOK, Signals
  <1>2. Len(wait_list) = 0 /\ wait_list = <<>>
    BY DEF Init
  <1>3. Sleeping = {} /\ Granted = {}
    BY DEF Init, Sleeping, Granted
  <1>4. WaitListExact
    BY <1>2, <1>3 DEF WaitListExact, Entries, NoDuplicates
  <1> QED
    BY <1>1, <1>2, <1>3, <1>4 DEF IInv, NoLostWakeUp

\* Steps that move one task and leave the list and the up flags alone keep the
\* whole invariant as long as the task is in the list before and after, or
\* outside it before and after.
LEMMA SideStepIInv ==
    ASSUME IInv, TypeOK', NEW t \in Tasks,
           UNCHANGED <<wait_list, waiter_up>>,
           count' > 0 => count > 0,
           \A u \in Tasks : u # t => pc'[u] = pc[u] /\ state'[u] = state[u],
           pc'[t] = "sleep" <=> pc[t] = "sleep",
           waiter_up[t] /\ state[t] = "TASK_RUNNING" => state'[t] = "TASK_RUNNING"
    PROVE  IInv'
  <1>1. Sleeping' = Sleeping /\ Granted' = Granted
    BY DEF Sleeping, Granted
  <1>2. WaitListExact'
    BY <1>1 DEF IInv, WaitListExact
  <1>3. \A u \in Granted' : state'[u] = "TASK_RUNNING"
    <2>1. \A u \in Granted : state[u] = "TASK_RUNNING" /\ waiter_up[u] /\ u \in Tasks
      BY DEF IInv, NoLostWakeUp, Granted, Sleeping
    <2> QED
      BY <1>1, <2>1
  <1> QED
    BY <1>2, <1>3 DEF IInv, NoLostWakeUp

\* up() hands the unit to the head of the list or to the count.
LEMMA UpUnitIInv ==
    ASSUME IInv, UpUnit, TypeOK',
           \A u \in Tasks : pc'[u] = "sleep" <=> pc[u] = "sleep"
    PROVE  IInv'
  <1>0. Sleeping' = Sleeping
    BY DEF Sleeping
  <1>1. CASE wait_list = <<>>
    <2>1. Granted' = Granted /\ UNCHANGED <<wait_list, waiter_up, state>>
      BY <1>0, <1>1 DEF Granted, UpUnit, ListEmpty
    <2> QED
      BY <1>0, <1>1, <2>1 DEF IInv, WaitListExact, NoLostWakeUp
  <1>2. CASE wait_list # <<>>
    <2> DEFINE h == Head(wait_list)
    <2>1. /\ h \in Tasks /\ h \in Entries(wait_list)
          /\ Entries(Tail(wait_list)) = Entries(wait_list) \ {h}
          /\ NoDuplicates(Tail(wait_list))
      BY <1>2, TailFacts DEF IInv, TypeOK, WaitListExact
    <2>2. /\ wait_list' = Tail(wait_list)
          /\ waiter_up' = [waiter_up EXCEPT ![h] = TRUE]
          /\ state' = [state EXCEPT ![h] = "TASK_RUNNING"]
          /\ count' = count
      BY <1>2 DEF UpUnit, ListEmpty, WakeUpProcess
    <2> HIDE DEF h
    <2>3. Granted' = Granted \cup {h}
      BY <1>0, <2>1, <2>2 DEF IInv, TypeOK, WaitListExact, Granted, Sleeping
    <2>4. WaitListExact'
      BY <1>0, <2>1, <2>2, <2>3 DEF IInv, WaitListExact
    <2>5. NoLostWakeUp'
      BY <1>2, <2>1, <2>2, <2>3 DEF IInv, NoLostWakeUp, TypeOK, Granted, Sleeping
    <2> QED
      BY <2>4, <2>5 DEF IInv
  <1> QED
    BY <1>1, <1>2

\* Every step keeps the invariant.
LEMMA NextIInv == IInv /\ [Next]_vars => IInv'
  <1> SUFFICES ASSUME IInv, [Next]_vars PROVE IInv'
    OBVIOUS
  <1> USE DEF Calls, Signals
  <1>1. ASSUME NEW t \in Tasks, DownAcquire(t) PROVE IInv'
    <2>1. TypeOK'
      BY <1>1 DEF IInv, TypeOK, DownAcquire
    <2> QED
      BY <1>1, <2>1, SideStepIInv DEF IInv, TypeOK, DownAcquire
  <1>2. ASSUME NEW t \in Tasks, NEW c \in Calls, DownSleep(t, c) PROVE IInv'
    <2>1. t \notin Entries(wait_list)
      BY <1>2 DEF IInv, WaitListExact, Sleeping, DownSleep
    <2>2. /\ wait_list' \in Seq(Tasks)
          /\ Entries(wait_list') = Entries(wait_list) \cup {t}
          /\ NoDuplicates(wait_list')
      <3>1. /\ wait_list \in Seq(Tasks) /\ NoDuplicates(wait_list)
            /\ wait_list' = ListAddTail(t, wait_list)
        BY <1>2 DEF IInv, TypeOK, WaitListExact, DownSleep
      <3>2. ListAddTail(t, wait_list) \in Seq(Tasks)
        BY <3>1, ListAddTailFacts
      <3>3. Entries(ListAddTail(t, wait_list)) = Entries(wait_list) \cup {t}
        BY <3>1, EntriesAddTail
      <3>4. NoDuplicates(ListAddTail(t, wait_list))
        BY <3>1, <2>1, ListAddTailFacts
      <3> QED
        BY <3>1, <3>2, <3>3, <3>4
    <2>3. TypeOK'
      BY <1>2, <2>2, SleepStateType DEF IInv, TypeOK, DownSleep
    <2>4. Sleeping' = Sleeping \cup {t} /\ Granted' = Granted /\ t \notin Granted
      BY <1>2 DEF IInv, TypeOK, DownSleep, Sleeping, Granted
    <2>5. WaitListExact'
      BY <2>2, <2>4 DEF IInv, WaitListExact
    <2>6. NoLostWakeUp'
      <3>1. ~(count' > 0)
        BY <1>2 DEF IInv, TypeOK, DownSleep
      <3>2. \A u \in Granted : u # t /\ state'[u] = state[u]
        BY <1>2, <2>4 DEF IInv, TypeOK, DownSleep, Granted, Sleeping
      <3> QED
        BY <3>1, <3>2, <2>4 DEF IInv, NoLostWakeUp
    <2> QED
      BY <2>3, <2>5, <2>6 DEF IInv
  <1>3. ASSUME UNCHANGED vars PROVE IInv'
    BY <1>3 DEF vars, IInv, TypeOK, WaitListExact, NoLostWakeUp, Sleeping, Granted
  <1>4. ASSUME NEW t \in Tasks, ResumeAcquired(t) PROVE IInv'
    <2>1. TypeOK'
      BY <1>4 DEF IInv, TypeOK, ResumeAcquired, Return
    <2>2. /\ Sleeping' = Sleeping \ {t} /\ Granted' = Granted \ {t}
          /\ t \in Granted
      BY <1>4 DEF IInv, TypeOK, ResumeAcquired, Return, Sleeping, Granted
    <2> QED
      BY <1>4, <2>1, <2>2 DEF IInv, WaitListExact, NoLostWakeUp, ResumeAcquired
  <1>5. ASSUME NEW t \in Tasks, ResumeGiveUp(t) PROVE IInv'
    <2>1. t \in Entries(wait_list)
      BY <1>5 DEF IInv, WaitListExact, Sleeping, Granted, ResumeGiveUp
    <2>2. /\ wait_list' \in Seq(Tasks)
          /\ Entries(wait_list') = Entries(wait_list) \ {t}
          /\ NoDuplicates(wait_list')
      BY <1>5, <2>1, ListDelFacts DEF IInv, TypeOK, WaitListExact, ResumeGiveUp
    <2>3. TypeOK'
      BY <1>5, <2>2 DEF IInv, TypeOK, ResumeGiveUp, Return
    <2>4. Sleeping' = Sleeping \ {t} /\ Granted' = Granted /\ t \notin Granted
      BY <1>5 DEF IInv, TypeOK, ResumeGiveUp, Return, Sleeping, Granted
    <2>5. count > 0 => FALSE
      <3>1. wait_list # <<>>
        BY <2>1 DEF Entries
      <3> QED
        BY <3>1 DEF IInv, NoLostWakeUp
    <2> QED
      BY <1>5, <2>2, <2>3, <2>4, <2>5 DEF IInv, WaitListExact, NoLostWakeUp, ResumeGiveUp
  <1>6. ASSUME NEW t \in Tasks, ResumeSleep(t) PROVE IInv'
    <2>1. TypeOK'
      BY <1>6, SleepStateType DEF IInv, TypeOK, ResumeSleep
    <2> QED
      BY <1>6, <2>1, SideStepIInv DEF IInv, TypeOK, ResumeSleep
  <1>7. ASSUME NEW t \in Tasks, DownTrylock(t) PROVE IInv'
    <2>1. TypeOK'
      BY <1>7 DEF IInv, TypeOK, DownTrylock
    <2> QED
      BY <1>7, <2>1, SideStepIInv DEF IInv, TypeOK, DownTrylock
  <1>8. ASSUME NEW t \in Tasks, Up(t) PROVE IInv'
    <2>1. TypeOK'
      BY <1>8, UpUnitType DEF IInv, TypeOK, Up
    <2> QED
      BY <1>8, <2>1, UpUnitIInv DEF IInv, TypeOK, Up
  <1>9. ASSUME Post PROVE IInv'
    <2>1. TypeOK'
      BY <1>9, UpUnitType, CountAssumption DEF IInv, TypeOK, Post
    <2> QED
      BY <1>9, <2>1, UpUnitIInv DEF Post
  <1>10. ASSUME NEW t \in Tasks, NEW s \in {"signal", "fatal"}, SendSignal(t, s) PROVE IInv'
    <2>1. TypeOK'
      BY <1>10 DEF IInv, TypeOK, SendSignal, WakeUpProcess
    <2> QED
      BY <1>10, <2>1, SideStepIInv DEF IInv, TypeOK, SendSignal, WakeUpProcess
  <1>11. ASSUME NEW t \in Tasks, ClearSignal(t) PROVE IInv'
    <2>1. TypeOK'
      BY <1>11 DEF IInv, TypeOK, ClearSignal
    <2> QED
      BY <1>11, <2>1, SideStepIInv DEF IInv, TypeOK, ClearSignal
  <1>12. ASSUME NEW t \in Tasks, Timeout(t) PROVE IInv'
    <2>1. TypeOK'
      BY <1>12 DEF IInv, TypeOK, Timeout, WakeUpProcess
    <2> QED
      BY <1>12, <2>1, SideStepIInv DEF IInv, TypeOK, Timeout, WakeUpProcess
  <1>13. ASSUME NEW t \in Tasks, StrayWakeUp(t) PROVE IInv'
    <2>1. TypeOK'
      BY <1>13 DEF IInv, TypeOK, StrayWakeUp, WakeUpProcess
    <2> QED
      BY <1>13, <2>1, SideStepIInv DEF IInv, TypeOK, StrayWakeUp, WakeUpProcess
  <1> QED
    BY <1>1, <1>2, <1>3, <1>4, <1>5, <1>6, <1>7, <1>8, <1>9, <1>10, <1>11,
       <1>12, <1>13 DEF Next, DownGiveUp

\* The inductive invariant of the semaphore.
THEOREM SpecIInv == Spec => []IInv
  BY InitIInv, NextIInv, PTL DEF Spec

\* The wait list holds exactly the sleepers up() has not reached: the error
\* paths of __down_common() and __up() never unlink the same waiter.
THEOREM WaitListCorrect == Spec => []WaitListExact
  BY SpecIInv, PTL DEF IInv

\* No unit is free while a task waits, and a granted waiter is awake.
THEOREM WakeUpCorrect == Spec => []NoLostWakeUp
  BY SpecIInv, PTL DEF IInv

\* The values all variables take, in every state of the specification.
THEOREM TypeCorrect == Spec => []TypeOK
  BY SpecIInv, PTL DEF IInv

\* ResumeGiveUp is the only step that ends a down*() without the unit, and it
\* tests waiter.up first.
THEOREM GrantIsFinalCorrect == Spec => GrantIsFinal
  <1>1. ASSUME IInv, [Next]_vars
        PROVE  [\A t \in Granted : pc'[t] \in {"sleep", "held"}]_vars
    <2> SUFFICES ASSUME Next, NEW t \in Granted
                 PROVE  pc'[t] \in {"sleep", "held"}
      BY <1>1
    <2>1. t \in Tasks /\ pc[t] = "sleep" /\ waiter_up[t]
      BY DEF Granted, Sleeping
    <2> QED
      BY <1>1, <2>1 DEF IInv, TypeOK, Next, DownAcquire, DownSleep, DownGiveUp, vars,
           ResumeAcquired, ResumeGiveUp, ResumeSleep, Return, DownTrylock, Up, Post,
           SendSignal, ClearSignal, Timeout, StrayWakeUp
  <1> QED
    BY <1>1, SpecIInv, PTL DEF Spec, GrantIsFinal

-----------------------------------------------------------------------------
(* What every step does to the units.                                      *)

Avail == count + Cardinality(Granted)

TakesUnit(t) == /\ t \notin Held /\ Avail > 0
                /\ Avail' = Avail - 1 /\ Held' = Held \cup {t} /\ posts' = posts
GivesUnit(t) == /\ t \in Held
                /\ Avail' = Avail + 1 /\ Held' = Held \ {t} /\ posts' = posts
PostsUnit    == Avail' = Avail + 1 /\ Held' = Held /\ posts' = posts + 1
KeepsUnits   == Avail' = Avail /\ Held' = Held /\ posts' = posts

UnitStep == \/ \E t \in Tasks : TakesUnit(t) \/ GivesUnit(t)
            \/ PostsUnit
            \/ KeepsUnits

\* Sets of tasks are finite.
LEMMA SetsFinite ==
    ASSUME NEW S \in SUBSET Tasks
    PROVE  IsFiniteSet(S) /\ Cardinality(S) \in Nat
  BY TasksAssumption, FS_Subset, FS_CardinalityType

\* up() makes one more unit available, through the count or through a grant.
LEMMA UpUnitAvail ==
    ASSUME IInv, UpUnit, \A u \in Tasks : pc'[u] = "sleep" <=> pc[u] = "sleep"
    PROVE  Avail' = Avail + 1
  <1>0. Sleeping' = Sleeping
    BY DEF Sleeping
  <1>a. Granted \in SUBSET Tasks
    BY DEF Granted, Sleeping
  <1>b. count \in Nat /\ IsFiniteSet(Granted) /\ Cardinality(Granted) \in Nat
    BY <1>a, SetsFinite DEF IInv, TypeOK
  <1>1. CASE wait_list = <<>>
    <2>1. Granted' = Granted /\ count' = count + 1
      BY <1>0, <1>1 DEF Granted, UpUnit, ListEmpty
    <2> QED
      BY <2>1, <1>b DEF Avail
  <1>2. CASE wait_list # <<>>
    <2> DEFINE h == Head(wait_list)
    <2>1. h \in Tasks /\ h \in Entries(wait_list)
      BY <1>2, TailFacts DEF IInv, TypeOK, WaitListExact
    <2>2. waiter_up' = [waiter_up EXCEPT ![h] = TRUE] /\ count' = count
      BY <1>2 DEF UpUnit, ListEmpty
    <2> HIDE DEF h
    <2>3. Granted' = Granted \cup {h} /\ h \notin Granted
      BY <1>0, <2>1, <2>2 DEF IInv, TypeOK, WaitListExact, Granted, Sleeping
    <2>4. Cardinality(Granted') = Cardinality(Granted) + 1
      BY <1>b, <2>3, FS_AddElement
    <2> QED
      BY <2>2, <2>4, <1>b DEF Avail
  <1> QED
    BY <1>1, <1>2

\* Every step moves at most one unit.
LEMMA NextUnits == IInv /\ [Next]_vars => UnitStep
  <1> SUFFICES ASSUME IInv, [Next]_vars PROVE UnitStep
    OBVIOUS
  <1>a. Granted \in SUBSET Tasks /\ Held \in SUBSET Tasks
    BY DEF Granted, Sleeping, Held
  <1>b. count \in Nat /\ IsFiniteSet(Granted) /\ Cardinality(Granted) \in Nat
    BY <1>a, SetsFinite DEF IInv, TypeOK
  <1>1. ASSUME NEW t \in Tasks, DownAcquire(t) \/ DownTrylock(t) PROVE UnitStep
    <2>1. /\ Granted' = Granted /\ Held' = Held \cup {t} /\ t \notin Held
          /\ count > 0 /\ count' = count - 1 /\ posts' = posts
      BY <1>1 DEF IInv, TypeOK, DownAcquire, DownTrylock, Granted, Sleeping, Held
    <2> QED
      BY <2>1, <1>b DEF UnitStep, TakesUnit, Avail
  <1>2. ASSUME NEW t \in Tasks, NEW c \in Calls, DownSleep(t, c) PROVE UnitStep
    <2>1. /\ Granted' = Granted /\ Held' = Held
          /\ count' = count /\ posts' = posts
      BY <1>2 DEF IInv, TypeOK, DownSleep, Granted, Sleeping, Held
    <2> QED
      BY <2>1 DEF UnitStep, KeepsUnits, Avail
  <1>3. ASSUME UNCHANGED vars PROVE UnitStep
    BY <1>3 DEF vars, UnitStep, KeepsUnits, Avail, Granted, Sleeping, Held
  <1>4. ASSUME NEW t \in Tasks, ResumeAcquired(t) PROVE UnitStep
    <2>1. /\ Granted' = Granted \ {t} /\ t \in Granted
          /\ Held' = Held \cup {t} /\ t \notin Held
          /\ count' = count /\ posts' = posts
      BY <1>4 DEF IInv, TypeOK, ResumeAcquired, Return, Granted, Sleeping, Held
    <2>2. Cardinality(Granted') = Cardinality(Granted) - 1 /\ Cardinality(Granted') \in Nat
      <3>1. Granted' \in SUBSET Tasks
        BY <2>1, <1>a
      <3> QED
        BY <2>1, <3>1, <1>b, FS_RemoveElement, SetsFinite
    <2>3. Avail > 0 /\ Avail' = Avail - 1
      BY <2>1, <2>2, <1>b DEF Avail
    <2> QED
      BY <2>1, <2>3 DEF UnitStep, TakesUnit
  <1>5. ASSUME NEW t \in Tasks, ResumeGiveUp(t) PROVE UnitStep
    <2>1. /\ Granted' = Granted /\ Held' = Held
          /\ count' = count /\ posts' = posts
      BY <1>5 DEF IInv, TypeOK, ResumeGiveUp, Return, Granted, Sleeping, Held
    <2> QED
      BY <2>1 DEF UnitStep, KeepsUnits, Avail
  <1>6. ASSUME NEW t \in Tasks, Up(t) PROVE UnitStep
    <2>1. Avail' = Avail + 1
      BY <1>6, UpUnitAvail DEF IInv, TypeOK, Up
    <2>2. Held' = Held \ {t} /\ t \in Held /\ posts' = posts
      BY <1>6 DEF IInv, TypeOK, Up, Held
    <2> QED
      BY <2>1, <2>2 DEF UnitStep, GivesUnit
  <1>7. ASSUME Post PROVE UnitStep
    <2>1. Avail' = Avail + 1
      BY <1>7, UpUnitAvail DEF Post
    <2> QED
      BY <1>7, <2>1 DEF UnitStep, PostsUnit, Post, Held
  <1>8. ASSUME UNCHANGED <<count, waiter_up, pc, posts>> PROVE UnitStep
    BY <1>8 DEF UnitStep, KeepsUnits, Avail, Granted, Sleeping, Held
  <1> QED
    BY <1>1, <1>2, <1>3, <1>4, <1>5, <1>6, <1>7, <1>8
       DEF Next, DownGiveUp, ResumeSleep, SendSignal, ClearSignal, Timeout, StrayWakeUp

\* Free, granted and held units always add up to what was put in.
THEOREM ConservationCorrect == Spec => []Conservation
  <1>1. Init => Conservation
    <2> SUFFICES ASSUME Init PROVE Conservation
      OBVIOUS
    <2>1. Held = {} /\ Granted = {} /\ count = InitCount /\ posts = 0
      BY DEF Init, Held, Granted, Sleeping
    <2> QED
      BY <2>1, CountAssumption, FS_EmptySet DEF Conservation
  <1>2. ASSUME IInv, IInv', Conservation, UnitStep PROVE Conservation'
    <2>1. /\ IsFiniteSet(Held) /\ Cardinality(Held) \in Nat
          /\ Cardinality(Granted) \in Nat /\ Cardinality(Granted') \in Nat
      <3>1. Held \in SUBSET Tasks /\ Granted \in SUBSET Tasks /\ Granted' \in SUBSET Tasks
        BY DEF Held, Granted, Sleeping
      <3> QED
        BY <3>1, SetsFinite
    <2>2. count \in Nat /\ count' \in Nat /\ posts \in Nat /\ InitCount \in Nat
      BY <1>2, CountAssumption DEF IInv, TypeOK
    <2>3. ASSUME NEW t \in Tasks, TakesUnit(t) PROVE Conservation'
      <3>1. Cardinality(Held') = Cardinality(Held) + 1
        BY <2>1, <2>3, FS_AddElement DEF TakesUnit
      <3> QED
        BY <1>2, <2>1, <2>2, <2>3, <3>1 DEF TakesUnit, Avail, Conservation
    <2>4. ASSUME NEW t \in Tasks, GivesUnit(t) PROVE Conservation'
      <3>1. Cardinality(Held') = Cardinality(Held) - 1
        BY <2>1, <2>4, FS_RemoveElement DEF GivesUnit
      <3> QED
        BY <1>2, <2>1, <2>2, <2>4, <3>1 DEF GivesUnit, Avail, Conservation
    <2>5. CASE PostsUnit \/ KeepsUnits
      BY <1>2, <2>1, <2>2, <2>5 DEF PostsUnit, KeepsUnits, Avail, Conservation
    <2> QED
      BY <1>2, <2>3, <2>4, <2>5 DEF UnitStep
  <1>3. IInv /\ [Next]_vars => UnitStep
    BY NextUnits
  <1> QED
    BY <1>1, <1>2, <1>3, SpecIInv, PTL DEF Spec

\* The count, the wait list and the waiters of down*() agree in every state.
THEOREM ConsistentCorrect == Spec => []Consistent
  BY TypeCorrect, ConservationCorrect, WaitListCorrect, WakeUpCorrect, PTL DEF Consistent

\* The semaphore of semaphore.c implements the abstract counting semaphore: a
\* unit in flight to a woken waiter is an available one that only that waiter
\* can take.
THEOREM Refinement == Spec => RefinesCounting
  <1>1. Init => Abstract!AInit
    <2> SUFFICES ASSUME Init PROVE Abstract!AInit
      OBVIOUS
    <2>1. Held = {} /\ Granted = {} /\ count = InitCount
      BY DEF Init, Held, Granted, Sleeping
    <2> QED
      BY <2>1, CountAssumption, FS_EmptySet DEF Abstract!AInit
  <1>2. UnitStep => [Abstract!ANext]_(Abstract!avars)
    BY DEF UnitStep, TakesUnit, GivesUnit, PostsUnit, KeepsUnits, Avail, Abstract!ANext,
           Abstract!Acquire, Abstract!Release, Abstract!Post, Abstract!avars
  <1> QED
    BY <1>1, <1>2, NextUnits, SpecIInv, PTL DEF Spec, RefinesCounting, Abstract!ASpec

-----------------------------------------------------------------------------
(* The mutex.                                                              *)


Inside == {"try", "got", "uwake"}

\* wait_lock excludes.
SpinInv == \A t, u \in Tasks : pc[t] \in Inside /\ pc[u] \in Inside => t = u

\* From its exchange on, a new owner leaves count negative until it has looked
\* at the wait list; the unlocking task that wakes has somebody to wake.
MarkInv == \A t \in Tasks : /\ pc[t] = "got" => count < 0
                            /\ pc[t] = "uwake" => ~ListEmpty(wait_list)

MutexIInv == /\ MutexTypeOK /\ SpinInv /\ MarkInv
        /\ MutualExclusion /\ CountExact /\ MutexWaitListExact /\ MutexNoLostWakeUp

\* What a step may do to the owner: a step of the abstract semaphore, or nothing.
OwnerStep == \/ \E t \in Tasks : Owners = {} /\ Owners' = {t}
             \/ \E t \in Tasks : Owners = {t} /\ Owners' = {}
             \/ Owners' = Owners

\* The task state a slow path sleeps in is one of the three sleeping ones.
LEMMA MutexSleepStateType ==
    \A c : MutexSleepState(c) \in {"TASK_INTERRUPTIBLE", "TASK_UNINTERRUPTIBLE",
                              "TASK_KILLABLE"}
  BY DEF MutexSleepState

\* The lockers on their way to the slow path are finitely many.
LEMMA SlowFinite ==
    /\ IsFiniteSet(Slow) /\ Cardinality(Slow) \in Nat
    /\ IsFiniteSet(Slow') /\ Cardinality(Slow') \in Nat
  <1>1. Slow \in SUBSET Tasks /\ Slow' \in SUBSET Tasks
    BY DEF Slow
  <1> QED
    BY <1>1, TasksAssumption, FS_Subset, FS_CardinalityType

\* An unlocked mutex satisfies the invariant.
LEMMA MutexInitIInv == MutexInit => MutexIInv
  <1> SUFFICES ASSUME MutexInit PROVE MutexIInv
    OBVIOUS
  <1>1. Slow = {} /\ Owners = {} /\ Queued = {}
    BY DEF MutexInit, Slow, Owners, Queued
  <1>2. wait_list = <<>> /\ Len(wait_list) = 0 /\ count = 1
    BY DEF MutexInit
  <1>3. MutexTypeOK
    BY <1>1, FS_EmptySet DEF MutexInit, MutexTypeOK, Places, Signals
  <1>4. SpinInv /\ MarkInv
    BY DEF MutexInit, SpinInv, MarkInv, Inside
  <1>5. MutexWaitListExact
    BY <1>1, <1>2 DEF MutexWaitListExact, Entries, NoDuplicates
  <1> QED
    BY <1>1, <1>2, <1>3, <1>4, <1>5
       DEF MutexIInv, MutualExclusion, CountExact, MutexNoLostWakeUp, ListEmpty

-----------------------------------------------------------------------------
(* How the sets that the invariant is made of change when one task moves.  *)

\* A task that moves changes the sets derived from pc only by itself.
LEMMA MoveFacts ==
    ASSUME MutexTypeOK, NEW t \in Tasks, NEW where \in Places, Goto(t, where)
    PROVE  /\ pc' \in [Tasks -> Places]
           /\ pc'[t] = where /\ \A u \in Tasks : u # t => pc'[u] = pc[u]
           /\ Owners' = IF where \in {"got", "held", "uslow"} THEN Owners \cup {t}
                                                           ELSE Owners \ {t}
           /\ Slow' = IF where = "slow" THEN Slow \cup {t} ELSE Slow \ {t}
           /\ Queued' = IF where \in {"try", "got", "sleep"} THEN Queued \cup {t}
                                                            ELSE Queued \ {t}
  <1>1. pc' \in [Tasks -> Places]
    BY DEF MutexTypeOK, Goto
  <1>2. pc'[t] = where /\ \A u \in Tasks : u # t => pc'[u] = pc[u]
    BY DEF MutexTypeOK, Goto
  <1> QED
    BY <1>1, <1>2 DEF Owners, Slow, Queued

\* A step that leaves "slow" resets count to -1 or more.
LEMMA SlowCount ==
    ASSUME MutexTypeOK, NEW t \in Tasks
    PROVE  /\ Slow' = Slow => Cardinality(Slow') = Cardinality(Slow)
           /\ Slow' = Slow \cup {t} /\ t \notin Slow =>
                  Cardinality(Slow') = Cardinality(Slow) + 1
           /\ Cardinality(Slow) \in Nat /\ Cardinality(Slow') \in Nat
  BY SlowFinite, FS_AddElement

\* Entering or leaving a slow path keeps the type of call.
LEMMA CallType ==
    ASSUME MutexTypeOK, NEW t \in Tasks, NEW c \in MutexCalls \cup {"none"},
           call' = [call EXCEPT ![t] = c]
    PROVE  call' \in [Tasks -> MutexCalls \cup {"none"}]
  BY DEF MutexTypeOK

\* The fast paths that end in the caller's favour, or fail to unlock.
LEMMA FastStep ==
    ASSUME MutexIInv, NEW t \in Tasks, FastLock(t) \/ FastUnlock(t) \/ FastUnlockFails(t)
    PROVE  MutexIInv' /\ OwnerStep
  <1> USE DEF FastLock, FastUnlock, FastUnlockFails
  <1>0. PICK where \in {"held", "idle", "uslow"} : Goto(t, where)
    OBVIOUS
  <1>a. UNCHANGED <<wait_list, call, state, sig>>
    OBVIOUS
  <1>b. /\ pc' \in [Tasks -> Places]
        /\ pc'[t] = where /\ \A u \in Tasks : u # t => pc'[u] = pc[u]
        /\ Owners' = IF where = "idle" THEN Owners \ {t} ELSE Owners \cup {t}
        /\ Slow' = Slow \ {t} /\ Queued' = Queued \ {t}
    BY <1>0, MoveFacts DEF MutexIInv, Places
  <1>c. t \notin Slow /\ t \notin Queued /\ pc[t] \in {"idle", "held"}
    BY DEF Slow, Queued
  <1>d. Slow' = Slow /\ Queued' = Queued
    BY <1>b, <1>c
  <1>4. pc[t] = "held" => Owners = {t} /\ count # 1
    BY DEF Owners, MutexIInv, MutualExclusion, CountExact
  <1>e. count \in Int /\ count' \in Int /\ count' <= 1 /\ count' >= -1 - Cardinality(Slow)
    BY <1>4, SlowFinite DEF MutexIInv, MutexTypeOK
  <1>1. MutexTypeOK'
    BY <1>a, <1>b, <1>d, <1>e DEF MutexIInv, MutexTypeOK
  <1>2. SpinInv' /\ MutexWaitListExact'
    BY <1>0, <1>a, <1>b, <1>d DEF MutexIInv, SpinInv, Inside, MutexWaitListExact
  <1>3. Awake' = Awake
    BY <1>a, <1>b, <1>c, <1>d DEF Awake, Queued
  <1>5. \A u \in Tasks : u # t /\ pc[u] = "got" => pc[t] # "held" /\ count # 1
    BY <1>4 DEF Owners, MutexIInv, CountExact
  <1>6. MarkInv'
    BY <1>0, <1>a, <1>b, <1>5 DEF MutexIInv, MarkInv, ListEmpty
  <1>7. MutualExclusion' /\ CountExact' /\ OwnerStep
    <2>1. CASE FastLock(t)
      <3>1. Owners = {} /\ Owners' = {t}
        BY <2>1, <1>b DEF MutexIInv, CountExact, Goto, MutexTypeOK
      <3> QED
        BY <2>1, <3>1 DEF MutualExclusion, CountExact, OwnerStep
    <2>2. CASE FastUnlock(t)
      <3>1. Owners = {t} /\ Owners' = {}
        BY <2>2, <1>4, <1>b DEF MutexIInv, Goto, MutexTypeOK
      <3> QED
        BY <2>2, <3>1 DEF MutualExclusion, CountExact, OwnerStep
    <2>3. CASE FastUnlockFails(t)
      <3>1. Owners = {t} /\ Owners' = {t}
        BY <2>3, <1>4, <1>b DEF MutexIInv, Goto, MutexTypeOK
      <3>2. count # 1 /\ count' # 1
        BY <2>3, <3>1, <1>e DEF MutexIInv, CountExact
      <3> QED
        BY <3>1, <3>2 DEF MutualExclusion, CountExact, OwnerStep
    <2> QED
      BY <2>1, <2>2, <2>3
  <1>8. MutexNoLostWakeUp'
    <2>1. CASE FastUnlockFails(t)
      <3>1. pc'[t] = "uslow"
        BY <2>1, <1>b DEF MutexIInv, Goto, MutexTypeOK
      <3> QED
        BY <3>1 DEF MutexNoLostWakeUp
    <2>2. CASE FastLock(t) \/ FastUnlock(t)
      <3>1. count >= 0
        BY <2>2
      <3>2. \A u \in Tasks : pc[u] \in {"uslow", "uwake"} => u # t /\ pc'[u] = pc[u]
        BY <1>b, <1>c
      <3> QED
        BY <1>3, <3>1, <3>2, <1>a DEF MutexIInv, MutexNoLostWakeUp, ListEmpty
    <2> QED
      BY <2>1, <2>2
  <1> QED
    BY <1>1, <1>2, <1>6, <1>7, <1>8 DEF MutexIInv

\* A failed lock fast path, whether its store took effect or not.
LEMMA FastLockFailsStep ==
    ASSUME MutexIInv, NEW t \in Tasks, NEW c \in MutexCalls, FastLockFails(t, c)
    PROVE  MutexIInv' /\ OwnerStep
  <1> USE DEF FastLockFails
  <1>a. Goto(t, "slow") /\ UNCHANGED <<wait_list, state, sig>> /\ pc[t] = "idle"
    OBVIOUS
  <1>b. /\ pc' \in [Tasks -> Places]
        /\ pc'[t] = "slow" /\ \A u \in Tasks : u # t => pc'[u] = pc[u]
        /\ Owners' = Owners \ {t} /\ Slow' = Slow \cup {t} /\ Queued' = Queued \ {t}
    BY <1>a, MoveFacts DEF MutexIInv, Places
  <1>c. t \notin Slow /\ t \notin Queued /\ t \notin Owners
    BY <1>a DEF Slow, Queued, Owners
  <1>d. Queued' = Queued /\ Owners' = Owners
    BY <1>b, <1>c
  <1>e. Cardinality(Slow') = Cardinality(Slow) + 1 /\ Cardinality(Slow) \in Nat
    BY <1>b, <1>c, SlowFinite, FS_AddElement
  <1>f. count' \in Int /\ count' <= count /\ count' >= count - 1 /\ (count' = 1 <=> count = 1)
    BY DEF MutexIInv, MutexTypeOK
  <1>g. call' \in [Tasks -> MutexCalls \cup {"none"}]
    BY CallType DEF MutexIInv
  <1>h. count' >= -1 - Cardinality(Slow') /\ count' <= 1
    BY <1>e, <1>f DEF MutexIInv, MutexTypeOK
  <1>1. MutexTypeOK'
    BY <1>a, <1>b, <1>f, <1>g, <1>h DEF MutexIInv, MutexTypeOK
  <1>2. SpinInv' /\ MutexWaitListExact' /\ MutualExclusion' /\ CountExact' /\ OwnerStep
    BY <1>a, <1>b, <1>d, <1>f
       DEF MutexIInv, SpinInv, Inside, MutexWaitListExact, MutualExclusion, CountExact, OwnerStep
  <1>3. MarkInv'
    BY <1>a, <1>b, <1>f DEF MutexIInv, MutexTypeOK, MarkInv, ListEmpty
  <1>4. Awake' = Awake
    BY <1>a, <1>b, <1>c, <1>d DEF Awake, Queued
  <1>5. \A u \in Tasks : pc[u] \in {"uslow", "uwake"} => u # t /\ pc'[u] = pc[u]
    BY <1>a, <1>b
  <1>6. MutexNoLostWakeUp'
    BY <1>a, <1>f, <1>4, <1>5 DEF MutexIInv, MutexTypeOK, MutexNoLostWakeUp, ListEmpty
  <1> QED
    BY <1>1, <1>2, <1>3, <1>6 DEF MutexIInv

\* A locker takes wait_lock and queues its waiter.
LEMMA LockSlowStep ==
    ASSUME MutexIInv, NEW t \in Tasks, LockSlow(t)
    PROVE  MutexIInv' /\ OwnerStep
  <1> DEFINE where == IF count = 1 THEN "got" ELSE "try"
  <1>a. /\ Goto(t, where) /\ UNCHANGED <<call, state, sig>> /\ pc[t] = "slow"
        /\ WaitLockFree /\ count' = -1
    BY DEF LockSlow
  <1>b. /\ pc' \in [Tasks -> Places]
        /\ pc'[t] = where /\ \A u \in Tasks : u # t => pc'[u] = pc[u]
        /\ Owners' = IF where = "got" THEN Owners \cup {t} ELSE Owners \ {t}
        /\ Queued' = Queued \cup {t}
    BY <1>a, MoveFacts DEF MutexIInv, Places
  <1>c. t \notin Queued /\ t \notin Owners /\ t \notin Entries(wait_list)
    BY <1>a DEF MutexIInv, Queued, Owners, MutexWaitListExact
  <1>1. /\ wait_list' \in Seq(Tasks)
        /\ Entries(wait_list') = Entries(wait_list) \cup {t}
        /\ NoDuplicates(wait_list')
    <2>1. /\ wait_list \in Seq(Tasks) /\ NoDuplicates(wait_list)
          /\ wait_list' = ListAddTail(t, wait_list)
      BY DEF MutexIInv, MutexTypeOK, MutexWaitListExact, LockSlow
    <2>2. ListAddTail(t, wait_list) \in Seq(Tasks)
      BY <2>1, ListAddTailFacts
    <2>3. Entries(ListAddTail(t, wait_list)) = Entries(wait_list) \cup {t}
      BY <2>1, EntriesAddTail
    <2>4. NoDuplicates(ListAddTail(t, wait_list))
      BY <2>1, <1>c, ListAddTailFacts
    <2> QED
      BY <2>1, <2>2, <2>3, <2>4
  <1>2. MutexTypeOK'
    BY <1>a, <1>b, <1>1, SlowFinite DEF MutexIInv, MutexTypeOK
  <1>3. SpinInv' /\ MutexWaitListExact' /\ MutexNoLostWakeUp'
    BY <1>a, <1>b, <1>1
       DEF MutexIInv, SpinInv, Inside, WaitLockFree, MutexWaitListExact, MutexNoLostWakeUp
  <1>4. MarkInv'
    BY <1>a, <1>b DEF MarkInv, WaitLockFree
  <1>5. MutualExclusion' /\ CountExact' /\ OwnerStep
    <2>1. CASE count = 1
      <3>1. Owners = {} /\ Owners' = {t}
        BY <2>1, <1>b DEF MutexIInv, CountExact
      <3> QED
        BY <3>1, <1>a DEF MutualExclusion, CountExact, OwnerStep
    <2>2. CASE count # 1
      <3>1. Owners' = Owners /\ Owners # {}
        BY <2>2, <1>b, <1>c DEF MutexIInv, CountExact
      <3> QED
        BY <3>1, <1>a DEF MutexIInv, MutualExclusion, CountExact, OwnerStep
    <2> QED
      BY <2>1, <2>2
  <1> QED
    BY <1>2, <1>3, <1>4, <1>5 DEF MutexIInv

\* The exchange of the loop takes the mutex or marks it and sleeps.
LEMMA TryStep ==
    ASSUME MutexIInv, NEW t \in Tasks, TryTake(t) \/ TrySleep(t)
    PROVE  MutexIInv' /\ OwnerStep
  <1> DEFINE where == IF count = 1 THEN "got" ELSE "sleep"
  <1>a. /\ Goto(t, where) /\ UNCHANGED <<wait_list, call, sig>> /\ pc[t] = "try"
        /\ count' = -1
    BY DEF TryTake, TrySleep
  <1>b. /\ pc' \in [Tasks -> Places]
        /\ pc'[t] = where /\ \A u \in Tasks : u # t => pc'[u] = pc[u]
        /\ Owners' = IF where = "got" THEN Owners \cup {t} ELSE Owners \ {t}
        /\ Queued' = Queued \cup {t}
    BY <1>a, MoveFacts DEF MutexIInv, Places
  <1>c. t \in Queued /\ t \notin Owners
    BY <1>a DEF Queued, Owners
  <1>d. state' \in [Tasks -> {"TASK_RUNNING", "TASK_INTERRUPTIBLE",
                              "TASK_UNINTERRUPTIBLE", "TASK_KILLABLE"}]
    BY MutexSleepStateType DEF MutexIInv, MutexTypeOK, TryTake, TrySleep
  <1>2. MutexTypeOK'
    BY <1>a, <1>b, <1>d, SlowFinite DEF MutexIInv, MutexTypeOK
  <1>3. SpinInv' /\ MutexWaitListExact' /\ MutexNoLostWakeUp'
    BY <1>a, <1>b, <1>c DEF MutexIInv, SpinInv, Inside, MutexWaitListExact, MutexNoLostWakeUp
  <1>4. MarkInv'
    BY <1>a, <1>b DEF MutexIInv, MarkInv, ListEmpty
  <1>5. MutualExclusion' /\ CountExact' /\ OwnerStep
    <2>1. CASE count = 1
      <3>1. Owners = {} /\ Owners' = {t}
        BY <2>1, <1>b DEF MutexIInv, CountExact
      <3> QED
        BY <3>1, <1>a DEF MutualExclusion, CountExact, OwnerStep
    <2>2. CASE count # 1
      <3>1. Owners' = Owners /\ Owners # {}
        BY <2>2, <1>b, <1>c DEF MutexIInv, CountExact
      <3> QED
        BY <3>1, <1>a DEF MutexIInv, MutualExclusion, CountExact, OwnerStep
    <2> QED
      BY <2>1, <2>2
  <1> QED
    BY <1>2, <1>3, <1>4, <1>5 DEF MutexIInv

\* A waiter leaves with -EINTR.
LEMMA TryGiveUpStep ==
    ASSUME MutexIInv, NEW t \in Tasks, TryGiveUp(t)
    PROVE  MutexIInv' /\ OwnerStep
  <1>a. /\ Goto(t, "idle") /\ UNCHANGED <<state, sig>> /\ pc[t] = "try"
        /\ count' = -1 /\ count # 1 /\ call' = [call EXCEPT ![t] = "none"]
        /\ wait_list' = ListDel(t, wait_list)
    BY DEF TryGiveUp
  <1>b. /\ pc' \in [Tasks -> Places]
        /\ pc'[t] = "idle" /\ \A u \in Tasks : u # t => pc'[u] = pc[u]
        /\ Owners' = Owners \ {t} /\ Queued' = Queued \ {t}
    BY <1>a, MoveFacts DEF MutexIInv, Places
  <1>c. t \in Entries(wait_list) /\ t \notin Owners
    BY <1>a DEF MutexIInv, Queued, Owners, MutexWaitListExact
  <1>1. /\ wait_list' \in Seq(Tasks)
        /\ Entries(wait_list') = Entries(wait_list) \ {t}
        /\ NoDuplicates(wait_list')
    BY <1>a, <1>c, ListDelFacts DEF MutexIInv, MutexTypeOK, MutexWaitListExact
  <1>d. call' \in [Tasks -> MutexCalls \cup {"none"}]
    BY <1>a, CallType DEF MutexIInv
  <1>e. count' \in Int /\ count' >= -1 - Cardinality(Slow') /\ count' <= 1
    BY <1>a, SlowFinite
  <1>2. MutexTypeOK'
    BY <1>a, <1>b, <1>d, <1>e, <1>1 DEF MutexIInv, MutexTypeOK
  <1>3. SpinInv' /\ MutexWaitListExact' /\ MutexNoLostWakeUp'
    BY <1>a, <1>b, <1>1 DEF MutexIInv, SpinInv, Inside, MutexWaitListExact, MutexNoLostWakeUp
  <1>4. MarkInv'
    BY <1>a, <1>b DEF MutexIInv, SpinInv, Inside, MarkInv
  <1>5. MutualExclusion' /\ CountExact' /\ OwnerStep
    BY <1>a, <1>b, <1>c DEF MutexIInv, MutualExclusion, CountExact, OwnerStep
  <1> QED
    BY <1>2, <1>3, <1>4, <1>5 DEF MutexIInv

\* The new owner unlinks its waiter and may set count to 0.
LEMMA LockDoneStep ==
    ASSUME MutexIInv, NEW t \in Tasks, LockDone(t)
    PROVE  MutexIInv' /\ OwnerStep
  <1>a. /\ Goto(t, "held") /\ UNCHANGED <<state, sig>> /\ pc[t] = "got"
        /\ wait_list' = ListDel(t, wait_list)
        /\ count' = IF ListEmpty(wait_list') THEN 0 ELSE count
        /\ call' = [call EXCEPT ![t] = "none"]
    BY DEF LockDone
  <1>b. /\ pc' \in [Tasks -> Places]
        /\ pc'[t] = "held" /\ \A u \in Tasks : u # t => pc'[u] = pc[u]
        /\ Owners' = Owners \cup {t} /\ Queued' = Queued \ {t} /\ Slow' = Slow \ {t}
    BY <1>a, MoveFacts DEF MutexIInv, Places
  <1>c. t \in Entries(wait_list) /\ t \in Owners /\ t \notin Slow /\ count < 0
    BY <1>a DEF MutexIInv, MarkInv, Queued, Owners, Slow, MutexWaitListExact
  <1>1. /\ wait_list' \in Seq(Tasks)
        /\ Entries(wait_list') = Entries(wait_list) \ {t}
        /\ NoDuplicates(wait_list')
    BY <1>a, <1>c, ListDelFacts DEF MutexIInv, MutexTypeOK, MutexWaitListExact
  <1>d. Slow' = Slow
    BY <1>b, <1>c
  <1>e. call' \in [Tasks -> MutexCalls \cup {"none"}]
    BY <1>a, CallType DEF MutexIInv
  <1>f. count' \in Int /\ count' >= -1 - Cardinality(Slow') /\ count' <= 1
    BY <1>a, <1>d, SlowFinite DEF MutexIInv, MutexTypeOK
  <1>2. MutexTypeOK'
    BY <1>a, <1>b, <1>e, <1>f, <1>1 DEF MutexIInv, MutexTypeOK
  <1>3. SpinInv' /\ MutexWaitListExact'
    BY <1>a, <1>b, <1>1 DEF MutexIInv, SpinInv, Inside, MutexWaitListExact
  <1>4. MutexNoLostWakeUp'
    BY <1>a, <1>c, <1>2 DEF MutexIInv, MutexTypeOK, MutexNoLostWakeUp
  <1>5. MarkInv'
    BY <1>a, <1>b DEF MutexIInv, SpinInv, Inside, MarkInv
  <1>6. MutualExclusion' /\ CountExact' /\ OwnerStep
    BY <1>a, <1>b, <1>c DEF MutexIInv, MutexTypeOK, MutualExclusion, CountExact, OwnerStep
  <1> QED
    BY <1>2, <1>3, <1>4, <1>5, <1>6 DEF MutexIInv

\* The slow unlock sets count to 1.
LEMMA UnlockSlowStep ==
    ASSUME MutexIInv, NEW t \in Tasks, UnlockSlow(t)
    PROVE  MutexIInv' /\ OwnerStep
  <1> DEFINE where == IF ListEmpty(wait_list) THEN "idle" ELSE "uwake"
  <1>a. /\ Goto(t, where) /\ UNCHANGED <<wait_list, call, state, sig>> /\ pc[t] = "uslow"
        /\ count' = 1 /\ WaitLockFree
    BY DEF UnlockSlow
  <1>b. /\ pc' \in [Tasks -> Places]
        /\ pc'[t] = where /\ \A u \in Tasks : u # t => pc'[u] = pc[u]
        /\ Owners' = Owners \ {t} /\ Queued' = Queued \ {t}
    BY <1>a, MoveFacts DEF MutexIInv, Places
  <1>c. t \notin Queued /\ Owners = {t}
    BY <1>a DEF MutexIInv, MutualExclusion, Queued, Owners
  <1>2. MutexTypeOK'
    BY <1>a, <1>b, SlowFinite DEF MutexIInv, MutexTypeOK
  <1>3. SpinInv' /\ MutexWaitListExact'
    BY <1>a, <1>b, <1>c DEF MutexIInv, SpinInv, Inside, WaitLockFree, MutexWaitListExact
  <1>4. MutexNoLostWakeUp'
    BY <1>a, <1>b DEF MutexNoLostWakeUp, ListEmpty
  <1>5. MarkInv'
    BY <1>a, <1>b DEF MarkInv, WaitLockFree, ListEmpty
  <1>6. MutualExclusion' /\ CountExact' /\ OwnerStep
    BY <1>a, <1>b, <1>c DEF MutualExclusion, CountExact, OwnerStep
  <1> QED
    BY <1>2, <1>3, <1>4, <1>5, <1>6 DEF MutexIInv

\* The slow unlock wakes the first waiter.
LEMMA UnlockWakeStep ==
    ASSUME MutexIInv, NEW t \in Tasks, UnlockWake(t)
    PROVE  MutexIInv' /\ OwnerStep
  <1> DEFINE h == Head(wait_list)
  <1>a. /\ Goto(t, "idle") /\ UNCHANGED <<count, wait_list, call, sig>> /\ pc[t] = "uwake"
        /\ state' = [state EXCEPT ![h] = "TASK_RUNNING"]
    BY DEF UnlockWake
  <1>b. /\ pc' \in [Tasks -> Places]
        /\ pc'[t] = "idle" /\ \A u \in Tasks : u # t => pc'[u] = pc[u]
        /\ Owners' = Owners \ {t} /\ Queued' = Queued \ {t} /\ Slow' = Slow \ {t}
    BY <1>a, MoveFacts DEF MutexIInv, Places
  <1>c. Owners' = Owners /\ Queued' = Queued /\ Slow' = Slow
    BY <1>a, <1>b DEF Queued, Owners, Slow
  <1>d. h \in Tasks /\ h \in Queued
    BY <1>a, TailFacts DEF MutexIInv, MutexTypeOK, MarkInv, MutexWaitListExact, ListEmpty
  <1> HIDE DEF h
  <1>2. MutexTypeOK'
    BY <1>a, <1>b, <1>c, <1>d DEF MutexIInv, MutexTypeOK
  <1>3. SpinInv' /\ MutexWaitListExact'
    BY <1>a, <1>b, <1>c DEF MutexIInv, SpinInv, Inside, MutexWaitListExact
  <1>4. MutexNoLostWakeUp'
    <2>1. state'[h] = "TASK_RUNNING"
      BY <1>a, <1>d DEF MutexIInv, MutexTypeOK
    <2>2. h \in Awake'
      BY <1>c, <1>d, <2>1 DEF Awake
    <2> QED
      BY <2>2 DEF MutexNoLostWakeUp
  <1>5. MarkInv'
    BY <1>a, <1>b DEF MutexIInv, MarkInv, ListEmpty
  <1>6. MutualExclusion' /\ CountExact' /\ OwnerStep
    BY <1>a, <1>c DEF MutexIInv, MutualExclusion, CountExact, OwnerStep
  <1> QED
    BY <1>2, <1>3, <1>4, <1>5, <1>6 DEF MutexIInv

\* A woken waiter takes wait_lock again.
LEMMA ResumeStep ==
    ASSUME MutexIInv, NEW t \in Tasks, MutexResume(t)
    PROVE  MutexIInv' /\ OwnerStep
  <1>a. /\ Goto(t, "try") /\ UNCHANGED <<count, wait_list, call, state, sig>>
        /\ pc[t] = "sleep" /\ WaitLockFree
    BY DEF MutexResume
  <1>b. /\ pc' \in [Tasks -> Places]
        /\ pc'[t] = "try" /\ \A u \in Tasks : u # t => pc'[u] = pc[u]
        /\ Owners' = Owners \ {t} /\ Queued' = Queued \cup {t} /\ Slow' = Slow \ {t}
    BY <1>a, MoveFacts DEF MutexIInv, Places
  <1>c. Owners' = Owners /\ Queued' = Queued /\ Slow' = Slow /\ t \in Queued
    BY <1>a, <1>b DEF Queued, Owners, Slow
  <1>2. MutexTypeOK'
    BY <1>a, <1>b, <1>c DEF MutexIInv, MutexTypeOK
  <1>3. SpinInv' /\ MutexWaitListExact'
    BY <1>a, <1>b, <1>c DEF MutexIInv, SpinInv, Inside, WaitLockFree, MutexWaitListExact
  <1>4. MutexNoLostWakeUp'
    <2>1. t \in Awake'
      BY <1>b, <1>c DEF Awake
    <2> QED
      BY <2>1 DEF MutexNoLostWakeUp
  <1>5. MarkInv'
    BY <1>a, <1>b DEF MarkInv, WaitLockFree
  <1>6. MutualExclusion' /\ CountExact' /\ OwnerStep
    BY <1>a, <1>c DEF MutexIInv, MutualExclusion, CountExact, OwnerStep
  <1> QED
    BY <1>2, <1>3, <1>4, <1>5, <1>6 DEF MutexIInv

\* Signals and stray wake-ups only ever make waiters runnable.
LEMMA EnvironmentStep ==
    ASSUME MutexIInv, MutexTypeOK', UNCHANGED <<count, wait_list, pc>>,
           \A u \in Tasks : state[u] = "TASK_RUNNING" => state'[u] = "TASK_RUNNING"
    PROVE  MutexIInv' /\ OwnerStep
  <1>1. Owners' = Owners /\ Queued' = Queued
    BY DEF Owners, Queued
  <1>2. Awake # {} => Awake' # {}
    BY <1>1 DEF Awake, Queued
  <1>3. MutexNoLostWakeUp'
    BY <1>2 DEF MutexIInv, MutexNoLostWakeUp, ListEmpty
  <1> QED
    BY <1>1, <1>3 DEF MutexIInv, SpinInv, MarkInv, MutualExclusion, CountExact, MutexWaitListExact,
                      OwnerStep, ListEmpty

-----------------------------------------------------------------------------
\* Every step keeps the invariant and changes the owner as the abstract semaphore would.
LEMMA MutexNextIInv == MutexIInv /\ [MutexNext]_mutexVars => MutexIInv' /\ OwnerStep
  <1> SUFFICES ASSUME MutexIInv, [MutexNext]_mutexVars PROVE MutexIInv' /\ OwnerStep
    OBVIOUS
  <1>1. ASSUME NEW t \in Tasks, NEW s \in {"signal", "fatal"}, MutexSendSignal(t, s)
        PROVE  MutexIInv' /\ OwnerStep
    <2>1. MutexTypeOK'
      BY <1>1 DEF MutexIInv, MutexTypeOK, MutexSendSignal, Signals, Slow
    <2> QED
      BY <1>1, <2>1, EnvironmentStep DEF MutexIInv, MutexTypeOK, MutexSendSignal
  <1>2. ASSUME NEW t \in Tasks, MutexClearSignal(t) \/ MutexStrayWakeUp(t)
        PROVE  MutexIInv' /\ OwnerStep
    <2>1. MutexTypeOK'
      BY ZenonT(30), <1>2
         DEF MutexIInv, MutexTypeOK, MutexClearSignal, MutexStrayWakeUp, Signals, Slow
    <2> QED
      BY <1>2, <2>1, EnvironmentStep DEF MutexIInv, MutexTypeOK, MutexClearSignal, MutexStrayWakeUp
  <1>3. CASE UNCHANGED mutexVars
    <2>1. MutexTypeOK'
      BY <1>3 DEF MutexIInv, MutexTypeOK, mutexVars, Slow
    <2> QED
      BY <1>3, <2>1, EnvironmentStep DEF mutexVars
  <1> QED
    BY <1>1, <1>2, <1>3, FastStep, FastLockFailsStep, LockSlowStep, TryStep, TryGiveUpStep,
       LockDoneStep, UnlockSlowStep, UnlockWakeStep, ResumeStep DEF MutexNext

\* The inductive invariant of the mutex.
THEOREM MutexSpecIInv == MutexSpec => []MutexIInv
  BY MutexInitIInv, MutexNextIInv, PTL DEF MutexSpec

\* count stays between -1 - |Slow| and 1, whatever the fast paths store.
THEOREM MutexTypeCorrect == MutexSpec => []MutexTypeOK
  BY MutexSpecIInv, PTL DEF MutexIInv

\* At most one task owns the mutex.
THEOREM MutualExclusionCorrect == MutexSpec => []MutualExclusion
  BY MutexSpecIInv, PTL DEF MutexIInv

\* count is 1 exactly when the mutex is free.
THEOREM CountCorrect == MutexSpec => []CountExact
  BY MutexSpecIInv, PTL DEF MutexIInv

\* The wait list links exactly the waiters.
THEOREM MutexWaitListCorrect == MutexSpec => []MutexWaitListExact
  BY MutexSpecIInv, PTL DEF MutexIInv

\* No unlock that skips the wait list leaves all waiters asleep.
THEOREM MutexWakeUpCorrect == MutexSpec => []MutexNoLostWakeUp
  BY MutexSpecIInv, PTL DEF MutexIInv

\* count, the wait list and the owner agree, whatever the fast paths store.
THEOREM MutexConsistentCorrect == MutexSpec => []MutexConsistent
  BY MutexTypeCorrect, MutualExclusionCorrect, CountCorrect, MutexWaitListCorrect, PTL
     DEF MutexConsistent

\* The mutex implements a counting semaphore of one unit.
THEOREM MutexRefinement == MutexSpec => RefinesSemaphore
  <1>1. MutexInit => OneUnit!AInit
    <2> SUFFICES ASSUME MutexInit PROVE OneUnit!AInit
      OBVIOUS
    <2>1. Owners = {}
      BY DEF MutexInit, Owners
    <2> QED
      BY <2>1, FS_EmptySet DEF OneUnit!AInit
  <1>2. OwnerStep => [OneUnit!ANext]_(OneUnit!avars)
    <2> SUFFICES ASSUME OwnerStep PROVE [OneUnit!ANext]_(OneUnit!avars)
      OBVIOUS
    <2>1. Cardinality({}) = 0 /\ \A t : Cardinality({t}) = 1
      BY FS_EmptySet, FS_Singleton
    <2>2. ASSUME NEW t \in Tasks, Owners = {}, Owners' = {t} PROVE OneUnit!ANext
      <3>1. t \notin Owners /\ Owners' = Owners \cup {t}
        BY <2>2
      <3>2. Cardinality(Owners) = 0 /\ Cardinality(Owners') = 1
        BY <2>1, <2>2
      <3> QED
        BY <3>1, <3>2 DEF OneUnit!ANext, OneUnit!Acquire
    <2>3. ASSUME NEW t \in Tasks, Owners = {t}, Owners' = {} PROVE OneUnit!ANext
      <3>1. t \in Owners /\ Owners' = Owners \ {t}
        BY <2>3
      <3>2. Cardinality(Owners) = 1 /\ Cardinality(Owners') = 0
        BY <2>1, <2>3
      <3> QED
        BY <3>1, <3>2 DEF OneUnit!ANext, OneUnit!Release
    <2> QED
      BY <2>2, <2>3 DEF OwnerStep, OneUnit!avars
  <1> QED
    BY <1>1, <1>2, MutexNextIInv, MutexSpecIInv, PTL
       DEF MutexSpec, RefinesSemaphore, OneUnit!ASpec
=============================================================================
