----------------------------- MODULE GracePeriod -----------------------------
(***************************************************************************)
(* What sleepable RCU promises: synchronize_srcu() returns only after      *)
(* every read-side critical section that had begun when it was called has  *)
(* ended. It need not wait for sections that begin later.                  *)
(***************************************************************************)
CONSTANTS Readers, Updaters, NULL

VARIABLES inside,     \* the readers that may hold references to protected data
          waitsFor    \* of each updater: the sections it must outlast, or NULL

gvars == <<inside, waitsFor>>

GInit == inside = {} /\ waitsFor = [u \in Updaters |-> NULL]

Enter(r) == r \notin inside /\ inside' = inside \cup {r} /\ UNCHANGED waitsFor

Leave(r) ==
    /\ r \in inside
    /\ inside' = inside \ {r}
    /\ waitsFor' = [u \in Updaters |-> IF waitsFor[u] = NULL THEN NULL ELSE waitsFor[u] \ {r}]

Call(u) == waitsFor[u] = NULL /\ waitsFor' = [waitsFor EXCEPT ![u] = inside] /\ UNCHANGED inside

Return(u) == waitsFor[u] = {} /\ waitsFor' = [waitsFor EXCEPT ![u] = NULL] /\ UNCHANGED inside

GNext == /\ gvars' # gvars
         /\ \/ \E r \in Readers : Enter(r) \/ Leave(r)
            \/ \E u \in Updaters : Call(u) \/ Return(u)

GSpec == GInit /\ [][GNext]_gvars
=============================================================================
