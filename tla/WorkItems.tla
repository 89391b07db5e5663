------------------------------ MODULE WorkItems ------------------------------
(***************************************************************************)
(* What the workqueue promises about a work item: a queued work is         *)
(* executed once, or is cancelled; an execution needs a queueing of its    *)
(* own; a workqueue executes one work at a time; and a work that somebody  *)
(* is cancelling cannot be queued.                                         *)
(***************************************************************************)
CONSTANTS Works, Queues

VARIABLES status,    \* of each work: "idle", "pending" or "claimed" by a cancel
          running    \* the pairs <<work, workqueue>> that are executing

ivars == <<status, running>>

IInit == status = [w \in Works |-> "idle"] /\ running = {}

Become(w, s) == status' = [status EXCEPT ![w] = s]

Queue(w) == status[w] = "idle" /\ Become(w, "pending") /\ UNCHANGED running

Begin(w, q) == /\ status[w] = "pending" /\ Become(w, "idle")
               /\ \A x \in Works : <<x, q>> \notin running
               /\ running' = running \cup {<<w, q>>}

End(w, q) == /\ <<w, q>> \in running
             /\ running' = running \ {<<w, q>>}
             /\ UNCHANGED status

Claim(w) == status[w] # "claimed" /\ Become(w, "claimed") /\ UNCHANGED running

Release(w) == status[w] = "claimed" /\ Become(w, "idle") /\ UNCHANGED running

INext == /\ ivars' # ivars
         /\ \E w \in Works : \/ Queue(w) \/ Claim(w) \/ Release(w)
                            \/ \E q \in Queues : Begin(w, q) \/ End(w, q)

ISpec == IInit /\ [][INext]_ivars
=============================================================================
