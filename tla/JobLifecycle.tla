---------------------------- MODULE JobLifecycle ----------------------------
(***************************************************************************)
(* What the queue promises a caller who only submits jobs and holds the    *)
(* queue: the abstract life of a job.  It says nothing of threads,         *)
(* transactions, flags or the working states in between.                   *)
(* JobControl implements it when no per-job command is issued.             *)
(***************************************************************************)
CONSTANT Jobs

VARIABLES
  phase,   (* where each job stands                                        *)
  held     (* the queue is paused                                          *)

vars == <<phase, held>>

Init ==
  /\ phase = [j \in Jobs |-> "absent"]
  /\ held = FALSE

Step(j, from, to) ==
  /\ phase[j] = from
  /\ phase' = [phase EXCEPT ![j] = to]
  /\ UNCHANGED held

(* A submitted job waits, also while the queue is held. *)
Arrive(j) == Step(j, "absent", "waiting")

(* A job is started once, and never while the queue is held. *)
Start(j) == ~held /\ Step(j, "waiting", "running")

(* Publication begins only from a run, and ends the job one way. *)
Commit(j) == Step(j, "running", "committing")
Finish(j) == Step(j, "committing", "done")
Fail(j)   == Step(j, "running", "failed") \/ Step(j, "committing", "failed")

Hold(value) == held' = value /\ UNCHANGED phase

Next ==
  \/ \E j \in Jobs : Arrive(j) \/ Start(j) \/ Commit(j) \/ Finish(j) \/ Fail(j)
  \/ \E value \in BOOLEAN : Hold(value)

Spec == Init /\ [][Next]_vars
=============================================================================
