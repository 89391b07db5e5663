---------------------------- MODULE ReadWriteLock ----------------------------
(***************************************************************************)
(* What a reader/writer semaphore promises: any number of readers or one   *)
(* writer, and a writer that can turn into a reader without letting        *)
(* another writer in between.                                              *)
(***************************************************************************)
CONSTANT Tasks

VARIABLES readers,   \* tasks that have been given the lock for reading
          writers    \* tasks that have been given the lock for writing

avars == <<readers, writers>>

AInit == readers = {} /\ writers = {}

AcquireRead(t) == /\ writers = {} /\ t \notin readers
                  /\ readers' = readers \cup {t}
                  /\ UNCHANGED writers

AcquireWrite(t) == /\ writers = {} /\ readers = {}
                   /\ writers' = {t}
                   /\ UNCHANGED readers

ReleaseRead(t) == /\ t \in readers
                  /\ readers' = readers \ {t}
                  /\ UNCHANGED writers

ReleaseWrite(t) == /\ writers = {t}
                   /\ writers' = {}
                   /\ UNCHANGED readers

Downgrade(t) == /\ writers = {t}
                /\ writers' = {}
                /\ readers' = readers \cup {t}

ANext == \E t \in Tasks : \/ AcquireRead(t) \/ AcquireWrite(t)
                          \/ ReleaseRead(t) \/ ReleaseWrite(t)
                          \/ Downgrade(t)

ASpec == AInit /\ [][ANext]_avars
=============================================================================
