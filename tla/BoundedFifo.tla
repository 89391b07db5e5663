----------------------------- MODULE BoundedFifo -----------------------------
(***************************************************************************)
(* What a kfifo promises: a bounded queue of bytes.  A put accepts some    *)
(* bytes that fit and later makes all of them visible at once; a get       *)
(* removes bytes from the front and returns exactly those.                 *)
(***************************************************************************)
EXTENDS Naturals, Sequences

CONSTANTS Values,     \* what a byte can be
          Size        \* the capacity

VARIABLES queue,      \* bytes put and not got yet, oldest first
          accepted,   \* bytes a put has accepted and not made visible yet
          got,        \* what the last get returned
          resettable  \* whether its users may drop the contents

fvars == <<queue, accepted, got, resettable>>

FInit == queue = <<>> /\ accepted = <<>> /\ got = <<>> /\ resettable \in BOOLEAN

Accept == /\ accepted = <<>>
          /\ accepted' \in Seq(Values)
          /\ Len(queue) + Len(accepted') <= Size
          /\ UNCHANGED <<queue, got>>

Commit == /\ queue' = queue \o accepted
          /\ accepted' = <<>>
          /\ UNCHANGED got

Get == \E n \in 0..Len(queue) :
          /\ got' = SubSeq(queue, 1, n)
          /\ queue' = SubSeq(queue, n + 1, Len(queue))
          /\ UNCHANGED accepted

\* All bytes are dropped.
Reset == resettable /\ queue' = <<>> /\ UNCHANGED <<accepted, got>>

FNext == (Accept \/ Commit \/ Get \/ Reset) /\ UNCHANGED resettable

FSpec == FInit /\ [][FNext]_fvars
=============================================================================
