---------------------------- MODULE DurableWork -----------------------------
(***************************************************************************)
(* What a job promises its user about the work it does, over every pause,  *)
(* crash and resume: work that was recorded is never taken back, only      *)
(* recorded work is delivered, and delivery closes the record.             *)
(***************************************************************************)
CONSTANT Artifacts

VARIABLES
  deliverable, (* what the user asked for: fixed                           *)
  status,      (* the job is open, done or dead                            *)
  work,        (* the artifacts recorded for it                            *)
  delivered    (* the artifacts at the destination                         *)

vars == <<deliverable, status, work, delivered>>

Init == deliverable \subseteq Artifacts /\ status = "open" /\ work = {} /\ delivered = {}

Keep ==
  /\ status = "open" /\ delivered = {}
  /\ work \subseteq work' /\ work' \subseteq Artifacts
  /\ UNCHANGED <<deliverable, status, delivered>>

Deliver ==
  /\ status = "open"
  /\ \E a \in (work \cap deliverable) \ delivered : delivered' = delivered \cup {a}
  /\ UNCHANGED <<deliverable, status, work>>

Close(end) == status = "open" /\ status' = end /\ UNCHANGED <<deliverable, work, delivered>>
Finish == delivered # {} /\ Close("done")
GiveUp == delivered = {} /\ Close("dead")

Next == Keep \/ Deliver \/ Finish \/ GiveUp

Spec == Init /\ [][Next]_vars
=============================================================================
