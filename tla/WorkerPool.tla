----------------------------- MODULE WorkerPool -----------------------------
(***************************************************************************)
(* What IRenderExecutor promises the scheduler, without queues, locks and  *)
(* threads (execution/IRenderExecutor.hpp, the contract of Executor.hpp).  *)
(* An accepted tile is finished or, by a shutdown, dropped; a job of which *)
(* every tile is finished is handed back once, unless a new session begins *)
(* first; a pool that has been stopped holds no tile.                      *)
(***************************************************************************)
CONSTANTS Job, Tile

VARIABLES
    phase,      \* of the session
    tile,       \* what became of each tile of each job
    result,     \* what became of each job
    cancelled   \* the jobs that are not to be used

vars == <<phase, tile, result, cancelled>>

Accepted == {t \in Job \X Tile : tile[t] = "accepted"}
Done(j) == \A i \in Tile : tile[<<j, i>>] = "finished"

Init ==
    /\ phase = "closed"
    /\ tile = [t \in Job \X Tile |-> "client"]
    /\ result = [j \in Job |-> "open"]
    /\ cancelled = {}

Open ==
    /\ phase = "closed"
    /\ phase' = "opening"
    /\ UNCHANGED <<tile, result, cancelled>>

\* What an older session left behind is forgotten before anything is finished.
Serve ==
    /\ phase = "opening"
    /\ phase' = "serving"
    /\ result' = [j \in Job |-> IF result[j] = "returned" THEN "forgotten"
                                ELSE result[j]]
    /\ UNCHANGED <<tile, cancelled>>

Accept(t) ==
    /\ phase \in {"opening", "serving"}
    /\ tile[t] = "client"
    /\ tile' = [tile EXCEPT ![t] = "accepted"]
    /\ UNCHANGED <<phase, result, cancelled>>

Finish(t) ==
    /\ phase \in {"serving", "closing"}
    /\ tile[t] = "accepted"
    /\ tile' = [tile EXCEPT ![t] = "finished"]
    /\ cancelled' \in {cancelled, cancelled \cup {t[1]}}
    /\ UNCHANGED <<phase, result>>

Return(j) ==
    /\ Done(j)
    /\ result[j] = "open"
    /\ result' = [result EXCEPT ![j] = "returned"]
    /\ UNCHANGED <<phase, tile, cancelled>>

Deliver(j) ==
    /\ result[j] = "returned"
    /\ result' = [result EXCEPT ![j] = "delivered"]
    /\ UNCHANGED <<phase, tile, cancelled>>

\* Tiles may be dropped now and not later; their jobs are cancelled.
Close ==
    /\ phase = "serving"
    /\ phase' = "closing"
    /\ \E dropped \in SUBSET Accepted :
          /\ tile' = [t \in Job \X Tile |->
                         IF t \in dropped THEN "dropped" ELSE tile[t]]
          /\ cancelled' = cancelled \cup {t[1] : t \in dropped}
    /\ UNCHANGED result

Closed ==
    /\ phase = "closing"
    /\ Accepted = {}
    /\ \A j \in Job : Done(j) => result[j] # "open"
    /\ phase' = "closed"
    /\ UNCHANGED <<tile, result, cancelled>>

Next ==
    \/ Open \/ Serve \/ Close \/ Closed
    \/ \E t \in Job \X Tile : Accept(t) \/ Finish(t)
    \/ \E j \in Job : Return(j) \/ Deliver(j)

Spec == Init /\ [][Next]_vars

=============================================================================
