------------------------------ MODULE JobOwner ------------------------------
(***************************************************************************)
(* For whom a thread of the worker process acts.  Pipeline keeps the       *)
(* client profile, the worker and its profile in thread-local fields:      *)
(* submit and explain set them for the client of a request, _activate_job  *)
(* sets them for the job a run takes from the queue, and _authorize reads  *)
(* them for every capability.  The threads of the HTTP server and of the   *)
(* dispatcher are used again and again, so the fields a thread begins a    *)
(* run with are those of whatever it did before.  The queue holds the      *)
(* profile, worker and surface of a job; a restart keeps nothing else.     *)
(***************************************************************************)
EXTENDS Naturals, PythonNone

CONSTANTS
  Threads, Jobs, Pairings,
  Surfaces,      \* surfaces requests come from
  Capabilities,  \* capabilities that runs ask for
  MaxRuns        \* runs of all jobs together

VARIABLES
  tls,        \* thread -> [profile, worker]; None where nothing was set yet
  jobs,       \* the queue: job -> [profile, workerId, surface], None before it is submitted
  running,    \* thread -> the job it runs, or None
  pairing,    \* pairing -> "offered", "confirmed", "expired"
  runs,       \* runs begun
  planned,    \* history: job -> capabilities its request had
  basis,      \* history: job -> what the request stood on, see Standings
  used        \* history: job -> capabilities it has used

vars == <<tls, jobs, running, pairing, runs, planned, basis, used>>

-----------------------------------------------------------------------------
\* builtin_profiles: the capabilities by profile.
Full       == {"discover.direct", "acquire.http", "acquire.ytdlp", "queue.events"}
Restricted == {"discover.direct", "acquire.http", "queue.events"}
Capture    == {"discover.direct", "queue.events"}
Watch      == {"queue.events"}
Profiles == {"personal-full", "personal-restricted", "browser-capture", "watch-capture"}
Allowed == [profile \in Profiles |->
              IF profile = "personal-full" THEN Full
              ELSE IF profile = "personal-restricted" THEN Restricted
              ELSE IF profile = "browser-capture" THEN Capture ELSE Watch]
Pairable == Profiles \ {"personal-full"}
SameMachine == {"cli", "macos", "chrome"}

\* default_worker_for_surface.  Only the one of the full profile runs subprocesses.
Worker(id, profile) == [id |-> id, profile |-> profile]
SubprocessCapable(worker) == worker.profile = "personal-full"
DefaultWorker(surface) ==
    IF surface = "watchos" THEN Worker("local-macos-watch", "watch-capture")
    ELSE IF surface = "chrome" THEN Worker("local-macos-browser", "browser-capture")
    ELSE IF surface = "ios" THEN Worker("local-macos-mobile", "personal-restricted")
    ELSE Worker("local-macos", "personal-full")
HostWorker == DefaultWorker("macos")

Owner(profile, worker) == [profile |-> profile, worker |-> worker]
Host == Owner(HostWorker.profile, HostWorker)

\* _job_owner: a request stands on a pairing, on the host that makes it its own
\* (only a capture that a companion forwards), on a user of this machine, or on
\* its surface alone.
Standings == {"paired", "companion", "machine", "surface"}
Standing(surface, confirmed, hostOwned, p) ==
    IF p # None THEN "paired"
    ELSE IF hostOwned THEN "companion"
    ELSE IF confirmed /\ surface \in SameMachine THEN "machine" ELSE "surface"
OwnersOn(standing, surface, profiles) ==
    IF standing = "paired" THEN {Owner(profile, HostWorker) : profile \in profiles}
    ELSE IF standing \in {"companion", "machine"} THEN {Host}
    ELSE {Owner(DefaultWorker(surface).profile, DefaultWorker(surface))}
\* require_confirmed: the profiles a client can have paired with; none where it refuses.
PairedProfiles(p) == IF p # None /\ pairing[p] = "confirmed" THEN Pairable ELSE {}
\* Mutant: one who says to be at this machine is, on every surface.
OwnersConfirmed(surface, confirmed, hostOwned, p) ==
    OwnersOn(IF p = None /\ confirmed THEN "machine" ELSE Standing(surface, confirmed, hostOwned, p),
             surface, PairedProfiles(p))
OwnersOf(surface, confirmed, hostOwned, p) ==
    OwnersOn(Standing(surface, confirmed, hostOwned, p), surface, PairedProfiles(p))

\* What a request says of its client.
Clients == [surface : Surfaces, confirmed : BOOLEAN, pairing : Pairings \cup {None}]

\* What is written to the queue and to the fields; None is neither.
WorkerIds == {"local-macos", "local-macos-watch", "local-macos-browser", "local-macos-mobile"}
Workers == [id : WorkerIds, profile : Profiles]
Owners == [profile : Profiles, worker : Workers]
Records == [profile : Profiles, workerId : WorkerIds, surface : Surfaces]
ASSUME NoneAssumption == None \notin Owners \cup Records \cup Jobs \cup Pairings

\* The fields of a thread; the host's where nothing was set.
Fields(t) == IF tls[t] = None THEN Host ELSE tls[t]

\* _capability_profile, assert_worker_capability, assert_no_privilege_escalation:
\* what _authorize lets pass in a thread with these fields.
Authorized(owner) ==
    LET delegated == owner.worker.id = HostWorker.id /\ owner.profile \in Pairable
        runnable  == {c \in Allowed[owner.worker.profile] :
                        c = "acquire.ytdlp" => SubprocessCapable(owner.worker)}
    IN  IF delegated THEN runnable ELSE runnable \cap Allowed[owner.profile]

-----------------------------------------------------------------------------
Init ==
    /\ tls = [t \in Threads |-> None]
    /\ jobs = [j \in Jobs |-> None]
    /\ running = [t \in Threads |-> None]
    /\ pairing = [p \in Pairings |-> "offered"]
    /\ runs = 0
    /\ planned = [j \in Jobs |-> {}]
    /\ basis = [j \in Jobs |-> None]
    /\ used = [j \in Jobs |-> {}]

Confirm(p) ==
    /\ pairing[p] = "offered" /\ pairing' = [pairing EXCEPT ![p] = "confirmed"]
    /\ UNCHANGED <<tls, jobs, running, runs, planned, basis, used>>

Expire(p) ==
    /\ pairing[p] # "expired" /\ pairing' = [pairing EXCEPT ![p] = "expired"]
    /\ UNCHANGED <<tls, jobs, running, runs, planned, basis, used>>

\* submit, up to the run: the owner is set for the thread and put in the queue.
Submit(t, j, surface, confirmed, hostOwned, p) ==
    /\ running[t] = None /\ jobs[j] = None
    /\ \E owner \in OwnersOf(surface, confirmed, hostOwned, p) :
         /\ tls' = [tls EXCEPT ![t] = owner]
         /\ jobs' = [jobs EXCEPT ![j] = [profile |-> owner.profile, workerId |-> owner.worker.id,
                                         surface |-> surface]]
         /\ planned' = [planned EXCEPT ![j] = Authorized(owner)]
         /\ basis' = [basis EXCEPT ![j] = Standing(surface, confirmed, hostOwned, p)]
    /\ UNCHANGED <<running, pairing, runs, used>>

\* handle_companion, kind capture: submit for the host, on whichever surface the
\* message names and without a pairing of the job.
CompanionCapture(t, j, surface) == Submit(t, j, surface, TRUE, TRUE, None)

\* explain, for any client; no caller asks it for the host.
Explain(t) ==
    /\ running[t] = None
    /\ \E owner \in UNION {OwnersOf(c.surface, c.confirmed, FALSE, c.pairing) : c \in Clients} :
         tls' = [tls EXCEPT ![t] = owner]
    /\ UNCHANGED <<jobs, running, pairing, runs, planned, basis, used>>

\* _activate_job
\* Mutant: the worker of the thread is kept.
ActivateProfile(t, job) == tls' = [tls EXCEPT ![t] = Owner(job.profile, Fields(t).worker)]
Activated(job) ==
    Owner(job.profile, IF job.workerId = HostWorker.id THEN HostWorker ELSE DefaultWorker(job.surface))
Activate(t, job) == tls' = [tls EXCEPT ![t] = Activated(job)]

\* A thread claims a job: a request that waits, a resume, or the dispatcher.
Run(t, j) ==
    /\ running[t] = None /\ jobs[j] # None /\ runs < MaxRuns
    /\ \A u \in Threads : running[u] # j
    /\ running' = [running EXCEPT ![t] = j] /\ runs' = runs + 1
    /\ Activate(t, jobs[j])
    /\ UNCHANGED <<jobs, pairing, planned, basis, used>>

\* _authorize in the run; a refusal ends it.
Ask(t, c) ==
    /\ running[t] # None
    /\ IF c \in Authorized(Fields(t))
       THEN used' = [used EXCEPT ![running[t]] = @ \cup {c}] /\ UNCHANGED running
       ELSE running' = [running EXCEPT ![t] = None] /\ UNCHANGED used
    /\ UNCHANGED <<tls, jobs, pairing, runs, planned, basis>>

\* The run is over: published, failed, paused or cancelled.
EndRun(t) ==
    /\ running[t] # None /\ running' = [running EXCEPT ![t] = None]
    /\ UNCHANGED <<tls, jobs, pairing, runs, planned, basis, used>>

Restart ==
    /\ tls' = [t \in Threads |-> None] /\ running' = [t \in Threads |-> None]
    /\ UNCHANGED <<jobs, pairing, runs, planned, basis, used>>

Next ==
    \/ \E t \in Threads, j \in Jobs, surface \in Surfaces :
         \/ \E confirmed \in BOOLEAN, p \in Pairings \cup {None} :
              Submit(t, j, surface, confirmed, FALSE, p)
         \/ CompanionCapture(t, j, surface)
    \/ \E t \in Threads : Explain(t)
    \/ \E t \in Threads, j \in Jobs : Run(t, j)
    \/ \E t \in Threads, c \in Capabilities : Ask(t, c)
    \/ \E t \in Threads : EndRun(t)
    \/ \E p \in Pairings : Confirm(p) \/ Expire(p)
    \/ Restart

Spec == Init /\ [][Next]_vars

-----------------------------------------------------------------------------
\* A run has the capabilities that the request of its job had, whatever the
\* thread did before, whichever thread it is, and across restarts: the record
\* in the queue is enough to find the owner again.
RunsAsItsOwner ==
    \A t \in Threads : running[t] # None => Authorized(Fields(t)) = planned[running[t]]

\* "Restricted workers never inherit extra power" (policy/profiles.py:1).  What
\* a job has used, its surface may use on its own, unless the request stood on a
\* confirmed pairing, on a user of this machine, or was a capture forwarded by a
\* companion.  And whatever it stood on, subprocess work is that of the host:
\* such a capture does not make the watch's own worker one that runs yt-dlp.
NoInheritedPower ==
    \A j \in Jobs :
        /\ basis[j] = "surface" =>
             used[j] \subseteq Allowed[DefaultWorker(jobs[j].surface).profile]
        /\ "acquire.ytdlp" \in used[j] => jobs[j].workerId = HostWorker.id
=============================================================================
