-------------------------- MODULE CountingSemaphore --------------------------
(***************************************************************************)
(* What a counting semaphore promises its callers, with no queue, no       *)
(* spinlock and no scheduler: a pool of units, the tasks that hold one,    *)
(* and the rule that a unit is taken only when the pool has one.           *)
(* Semaphore.tla is shown to implement this module.                        *)
(***************************************************************************)
EXTENDS Naturals

CONSTANTS Tasks,      \* the tasks that may acquire the semaphore
          InitCount   \* the value given to sema_init()

VARIABLES avail,      \* units nobody has acquired yet
          holders     \* tasks whose down*() returned 0 and that have not released

avars == <<avail, holders>>

AInit == /\ avail = InitCount
         /\ holders = {}

\* A successful down(), down_interruptible(), ..., down_trylock().
Acquire(t) == /\ t \notin holders
              /\ avail > 0
              /\ avail' = avail - 1
              /\ holders' = holders \cup {t}

\* up() by a task that acquired.
Release(t) == /\ t \in holders
              /\ avail' = avail + 1
              /\ holders' = holders \ {t}

\* up() by a task or an interrupt that never called down().
Post == /\ avail' = avail + 1
        /\ UNCHANGED holders

ANext == \/ \E t \in Tasks : Acquire(t) \/ Release(t)
         \/ Post

ASpec == AInit /\ [][ANext]_avars
=============================================================================
