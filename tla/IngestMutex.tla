----------------------------- MODULE IngestMutex ----------------------------
(***************************************************************************)
(* What the trip-ingest mutex promises its callers, without Redis, history *)
(* rows or ARQ: a submitted job either ingests once, alone, or is dropped. *)
(***************************************************************************)
CONSTANT Jobs
VARIABLE phase   \* "new", "waiting", "inside" the ingest, or "done"

Init == phase = [j \in Jobs |-> "new"]

Move(j, from, to) == phase[j] = from /\ phase' = [phase EXCEPT ![j] = to]

Submit(j) == Move(j, "new", "waiting")

(* Nobody else is inside when a job enters.                                *)
Enter(j) == Move(j, "waiting", "inside") /\ \A k \in Jobs : phase[k] # "inside"

(* A job leaves once and for all; a blocked or interrupted one never gets in. *)
Leave(j) == Move(j, "inside", "done")
Drop(j)  == Move(j, "waiting", "done")

Next == \E j \in Jobs : Submit(j) \/ Enter(j) \/ Leave(j) \/ Drop(j)

Spec == Init /\ [][Next]_phase
=============================================================================
