------------------------------ MODULE JobQueue ------------------------------
(***************************************************************************)
(* The durable queue of src/webmedia_dl/queue.py: one SQLite file shared   *)
(* by the threads of the loopback worker and by every CLI process.         *)
(*                                                                         *)
(* Each Session / engine.begin() block of the source opens with BEGIN      *)
(* IMMEDIATE, so one block is one atomic step.  An operator below is one   *)
(* such block.  QueueStore.set_state is NOT one block: it reads the flags, *)
(* reads the job and writes the job in three transactions, so it is given  *)
(* here as its decision (Verdict) and the write it ends in; the threads of *)
(* JobControl take the three steps one by one.                             *)
(***************************************************************************)
EXTENDS Naturals

CONSTANT Jobs   (* jobs, numbered by Job.created_at *)

ASSUME JobsAssumption == Jobs \subseteq Nat

VARIABLES
  jobState,     (* jobs.state, "absent" before the row is inserted         *)
  pauseFlag,    (* job_context.pause_requested                             *)
  cancelFlag,   (* job_context.cancel_requested                            *)
  hasContext,   (* put_context has stored html, cookie grant and evidence  *)
  queuePaused   (* queue_control.paused                                    *)

queueVars == <<jobState, pauseFlag, cancelFlag, hasContext, queuePaused>>

(* domain/enums.py also has "quarantined"; no code ever stores it. *)
Working  == {"discovering", "planning", "acquiring", "exporting", "validating"}
Terminal == {"completed", "failed", "cancelled"}
States   == Working \cup Terminal \cup {"absent", "accepted", "publishing", "paused"}

(* The states in which a cancel or pause request is a conflict. *)
Committed == Terminal \cup {"publishing"}

QueueInit ==
  /\ jobState = [j \in Jobs |-> "absent"]
  /\ pauseFlag = [j \in Jobs |-> FALSE]
  /\ cancelFlag = [j \in Jobs |-> FALSE]
  /\ hasContext = [j \in Jobs |-> FALSE]
  /\ queuePaused = FALSE

QueueTypeOK ==
  /\ jobState \in [Jobs -> States]
  /\ pauseFlag \in [Jobs -> BOOLEAN]
  /\ cancelFlag \in [Jobs -> BOOLEAN]
  /\ hasContext \in [Jobs -> BOOLEAN]
  /\ queuePaused \in BOOLEAN

-----------------------------------------------------------------------------
(* put_job: insert or overwrite the row, whatever state it is in. *)
PutJob(j, s) ==
  /\ jobState' = [jobState EXCEPT ![j] = s]
  /\ UNCHANGED <<pauseFlag, cancelFlag, hasContext, queuePaused>>

(* Mutants of Claimable: the claim without the look at queue_control, and  *)
(* a retry of failed jobs.                                                 *)
ClaimableWhilePaused(j) == jobState[j] = "accepted"
ClaimableForRetry(j) == ~queuePaused /\ jobState[j] \in {"accepted", "failed"}

(* claim: the paused switch and the state are read in the transaction that *)
(* moves the row, so a claim is a compare-and-set.                         *)
Claimable(j) == ~queuePaused /\ jobState[j] = "accepted"

Claim(j) == Claimable(j) /\ PutJob(j, "discovering")

(* Mutant: ORDER BY created_at over every row, not only the accepted ones. *)
OldestOfAll(j) == \A k \in Jobs : jobState[k] # "absent" => j <= k

(* claim_next: ORDER BY created_at, the oldest accepted job. *)
Oldest(j) == \A k \in Jobs : jobState[k] = "accepted" => j <= k

ClaimNext(j) == Oldest(j) /\ Claim(j)

(* pause_unless_committed and cancel_unless_committed *)
TransitionUnlessCommitted(j, s) ==
  /\ jobState[j] \notin Committed \cup {"absent"}
  /\ PutJob(j, s)

(* set_state, once it holds the flags and the job state it has read: what  *)
(* its put_job will store.  It raises CancelledError or PauseRequested     *)
(* exactly when it stores something else than its target.                  *)
Commits(seen, target) == seen = "publishing" /\ target = "completed"

(* Mutants: no branch for a publication that has committed, and no branch  *)
(* for one of the two requests.                                            *)
VerdictWithoutCommit(pause, cancel, seen, target) ==
  IF cancel THEN "cancelled"
  ELSE IF pause /\ target \notin Terminal THEN "paused"
  ELSE target

VerdictWithoutPause(pause, cancel, seen, target) ==
  IF cancel /\ ~Commits(seen, target) THEN "cancelled" ELSE target

VerdictWithoutCancel(pause, cancel, seen, target) ==
  IF pause /\ target \notin Terminal THEN "paused" ELSE target

Verdict(pause, cancel, seen, target) ==
  IF Commits(seen, target) THEN target
  ELSE IF cancel THEN "cancelled"
  ELSE IF pause /\ target \notin Terminal THEN "paused"
  ELSE target

(* set_job_flags, one column at a time: kind is the state the flag asks for *)
SetFlag(j, kind, value) ==
  /\ pauseFlag' = IF kind = "paused" THEN [pauseFlag EXCEPT ![j] = value] ELSE pauseFlag
  /\ cancelFlag' = IF kind = "cancelled" THEN [cancelFlag EXCEPT ![j] = value] ELSE cancelFlag
  /\ UNCHANGED <<jobState, hasContext, queuePaused>>

ClearFlags(j) ==
  /\ pauseFlag' = [pauseFlag EXCEPT ![j] = FALSE]
  /\ cancelFlag' = [cancelFlag EXCEPT ![j] = FALSE]
  /\ UNCHANGED <<jobState, hasContext, queuePaused>>

(* put_context leaves the flags and the checkpoint columns alone. *)
PutContext(j) ==
  /\ hasContext' = [hasContext EXCEPT ![j] = TRUE]
  /\ UNCHANGED <<jobState, pauseFlag, cancelFlag, queuePaused>>

SetPaused(value) ==
  /\ queuePaused' = value
  /\ UNCHANGED <<jobState, pauseFlag, cancelFlag, hasContext>>
=============================================================================
