----------------------------- MODULE JobControl -----------------------------
(***************************************************************************)
(* The control of jobs in src/webmedia_dl/pipeline.py: every thread that   *)
(* can touch a job, each step one transaction of JobQueue or one access to *)
(* the provider runtime's in-memory stop events.                           *)
(*                                                                         *)
(* A dispatcher thread (dispatcher.py) repeats run_next.  A client thread  *)
(* is a request handler of service.py's thread pool or a CLI process; it   *)
(* runs one command at a time, and submit(wait), resume_job and run-next   *)
(* run the job in the calling thread.  What a run does to media is left to *)
(* other modules: here a run is the order in which it checks for stop      *)
(* requests, moves the job's state and calls providers.                    *)
(***************************************************************************)
EXTENDS JobQueue, FiniteSets

CONSTANTS
  Dispatchers,  (* queue runner threads                                    *)
  Clients,      (* request threads and CLI processes                       *)
  Cli,          (* the clients that are processes of their own             *)
  Commands,     (* the commands clients issue                              *)
  NoJob,        (* the job of an idle thread                               *)
  MaxLaps,      (* times a run goes back in its loops over kinds, sources, *)
                (* operations and artifacts                                *)
  MaxFaults     (* threads lost to a crash or an unexpected exception      *)

Threads == Dispatchers \cup Clients
Worker  == Threads \ Cli   (* threads of the worker process, sharing one runtime *)

AllCommands == {"submit", "submit_cookies", "cancel", "pause", "resume",
                "run_next", "pause_queue", "resume_queue"}

ASSUME ControlAssumption ==
  /\ Dispatchers \cap Clients = {}
  /\ Cli \subseteq Clients
  /\ Commands \subseteq AllCommands
  /\ NoJob \notin Jobs
  /\ MaxLaps \in Nat
  /\ MaxFaults \in Nat

VARIABLES
  thread,       (* program counter and locals of each thread               *)
  pauseEvent,   (* ProviderRuntime._pauses of the worker process, per job  *)
  cancelEvent,  (* ProviderRuntime._cancels, likewise                      *)
  published,    (* history: publish_artifacts has committed files          *)
  stopped,      (* history: the stop a client was told has succeeded,      *)
                (* "raced" when another thread was in a position to undo it *)
  bare,         (* history: jobs run without the context they came with    *)
  faults

runtimeVars == <<pauseEvent, cancelEvent>>
historyVars == <<published, stopped, bare, faults>>
vars == <<queueVars, thread, runtimeVars, historyVars>>

-----------------------------------------------------------------------------
(* Control points.  A run is in a RunPoint from its claim to its return.   *)

(* _check_control: get_context, then get_job, then perhaps set_state *)
CheckPoints == {"checkRun", "checkKind", "checkLive", "checkSource", "checkOperation",
                "checkExported", "checkArtifact", "checkPublish"}

(* Mutant: a failed run is stored under a state the queue does not have.   *)
SetTargetError ==
  [setDiscovering |-> "discovering", setPlanning |-> "planning",
   setAcquiring |-> "acquiring", setExporting |-> "exporting",
   setValidating |-> "validating", setPublishing |-> "publishing",
   setCompleted |-> "completed", setFailed |-> "error",
   setAccepted |-> "accepted", setRefused |-> "error"]

(* set_state and the state each call asks for *)
SetTarget ==
  [setDiscovering |-> "discovering", setPlanning |-> "planning",
   setAcquiring |-> "acquiring", setExporting |-> "exporting",
   setValidating |-> "validating", setPublishing |-> "publishing",
   setCompleted |-> "completed", setFailed |-> "failed",
   setAccepted |-> "accepted", setRefused |-> "failed"]
SetPoints == DOMAIN SetTarget

(* provider and publication work *)
WorkPoints == {"discover", "acquire", "operate", "publish"}

SubmitPoints == {"storeContext", "claimSubmitted", "setRefused"}
StopPoints   == {"stopFlag", "stopSignal", "stopRow", "stopUndo"}
ResumePoints == {"resumeFlag", "resumeEvents", "setAccepted", "claimResumed"}

RunPoints == {"loadContext"} \cup CheckPoints \cup WorkPoints
               \cup (SetPoints \ {"setAccepted", "setRefused"})

Points == {"idle"} \cup RunPoints \cup SubmitPoints \cup StopPoints \cup ResumePoints

(* Where a point may lead when it raises nothing; "setFailed" stands for a *)
(* WebMediaError that reaches _execute_stored, "idle" for the return.      *)
Flow ==
  [loadContext    |-> {"checkRun"},
   checkRun       |-> {"setDiscovering", "setFailed"},
   setDiscovering |-> {"discover"},
   discover       |-> {"checkKind", "checkSource", "checkExported", "setFailed"},
   checkKind      |-> {"setPlanning", "setAcquiring", "checkSource", "setFailed"},
   setPlanning    |-> {"setAcquiring", "checkSource", "setFailed"},
   setAcquiring   |-> {"acquire"},
   acquire        |-> {"checkSource", "setFailed"},
   checkLive      |-> {"acquire"},
   checkSource    |-> {"setExporting", "checkExported"},
   setExporting   |-> {"checkOperation", "checkExported"},
   checkOperation |-> {"operate", "checkExported"},
   operate        |-> {"checkExported"},
   checkExported  |-> {"setValidating"},
   setValidating  |-> {"checkArtifact"},
   checkArtifact  |-> {"checkPublish", "setFailed"},
   checkPublish   |-> {"setPublishing"},
   setPublishing  |-> {"publish"},
   publish        |-> {"setCompleted", "setFailed"},
   setCompleted   |-> {"idle"},
   setFailed      |-> {"idle"}]

(* The back edges: the loops over strategies, live segments, candidate     *)
(* kinds, operations of a plan, sources and artifacts.                     *)
Loop ==
  [p \in RunPoints |->
    IF p \in {"checkKind", "setPlanning"} THEN {"checkKind"}
    ELSE IF p = "acquire" THEN {"checkKind", "acquire", "checkLive"}
    ELSE IF p \in {"checkSource", "setExporting"} THEN {"checkSource"}
    ELSE IF p \in {"checkOperation", "operate"} THEN {"checkOperation", "checkSource"}
    ELSE IF p = "checkArtifact" THEN {"checkArtifact"}
    ELSE {}]

FirstStep(p) ==
  IF p \in CheckPoints THEN "context"
  ELSE IF p \in SetPoints THEN "flags"
  ELSE IF p \in WorkPoints THEN "start"
  ELSE "go"

Steps == {"go", "context", "row", "flags", "state", "write", "clear",
          "start", "finish"}

ThreadStates ==
  [at: Points, step: Steps, job: Jobs \cup {NoJob}, target: States,
   pause: BOOLEAN, cancel: BOOLEAN, seen: States, laps: 0..MaxLaps]

Idle == [at |-> "idle", step |-> "go", job |-> NoJob, target |-> "absent",
         pause |-> FALSE, cancel |-> FALSE, seen |-> "absent", laps |-> 0]

(* A thread record on entry to point p: locals of the last point are dead. *)
Enter(r, p) ==
  [r EXCEPT !.at = p, !.step = FirstStep(p),
            !.target = IF p \in SetPoints THEN SetTarget[p] ELSE "absent",
            !.pause = FALSE, !.cancel = FALSE, !.seen = "absent"]

Become(t, r) == thread' = [thread EXCEPT ![t] = r]
Goto(t, p)   == Become(t, Enter(thread[t], p))
Return(t)    == Become(t, Idle)
At(t, p, s)  == thread[t].at = p /\ thread[t].step = s
IsIdle(t)    == thread[t].at = "idle"
Running(t)   == thread[t].at \in RunPoints

(* Leave the current point of a run normally. *)
Proceed(t) ==
  LET r == thread[t] IN
  \/ "idle" \in Flow[r.at] /\ Return(t)
  \/ \E p \in Flow[r.at] \ {"idle"} : Goto(t, p)
  \/ /\ r.laps < MaxLaps
     /\ \E p \in Loop[r.at] : Become(t, [Enter(r, p) EXCEPT !.laps = @ + 1])

-----------------------------------------------------------------------------
Init ==
  /\ QueueInit
  /\ thread = [t \in Threads |-> Idle]
  /\ pauseEvent = [j \in Jobs |-> FALSE]
  /\ cancelEvent = [j \in Jobs |-> FALSE]
  /\ published = [j \in Jobs |-> FALSE]
  /\ stopped = [j \in Jobs |-> "no"]
  /\ bare = {}
  /\ faults = 0

(* A client takes up a command on job j at point p. *)
Begin(t, j, p) == Become(t, Enter([Idle EXCEPT !.job = j], p))

(* submit: the job row is visible before its context is. *)
Submit(t, j) ==
  /\ t \in Clients /\ IsIdle(t)
  /\ {"submit", "submit_cookies"} \cap Commands # {}
  /\ jobState[j] = "absent"
  /\ PutJob(j, "accepted")
  /\ Begin(t, j, "storeContext")
  /\ UNCHANGED <<runtimeVars, historyVars>>

(* Mutant: the context is stored only for a run of the caller's own.       *)
StoreContextOfOwnRun(t) ==
  /\ At(t, "storeContext", "go")
  /\ \/ Return(t) /\ UNCHANGED queueVars
     \/ PutContext(thread[t].job) /\ Goto(t, "claimSubmitted")
  /\ UNCHANGED <<runtimeVars, historyVars>>

(* put_context, then either return the job (wait=False) or go on to run it *)
StoreContext(t) ==
  /\ At(t, "storeContext", "go")
  /\ PutContext(thread[t].job)
  /\ Return(t) \/ Goto(t, "claimSubmitted")
  /\ UNCHANGED <<runtimeVars, historyVars>>

(* A cookie path the policy refuses fails the job before put_context. *)
RefuseCookies(t) ==
  /\ At(t, "storeContext", "go")
  /\ "submit_cookies" \in Commands
  /\ Goto(t, "setRefused")
  /\ UNCHANGED <<queueVars, runtimeVars, historyVars>>

(* Mutants: the claim is won but the job is only returned; the run goes on *)
(* although claim returned None.                                           *)
ClaimSubmittedAndReturn(t) ==
  /\ At(t, "claimSubmitted", "go")
  /\ Claim(thread[t].job) \/ (~Claimable(thread[t].job) /\ UNCHANGED queueVars)
  /\ Return(t)
  /\ UNCHANGED <<runtimeVars, historyVars>>

ClaimSubmittedUnchecked(t) ==
  /\ At(t, "claimSubmitted", "go")
  /\ Claim(thread[t].job) \/ (~Claimable(thread[t].job) /\ UNCHANGED queueVars)
  /\ Goto(t, "checkRun")
  /\ UNCHANGED <<runtimeVars, historyVars>>

(* _run claims the job it was given; None means another thread has it or   *)
(* the queue is paused, and the caller gets the job as it stands.          *)
ClaimSubmitted(t) ==
  /\ At(t, "claimSubmitted", "go")
  /\ \/ Claim(thread[t].job) /\ Goto(t, "checkRun")
     \/ ~Claimable(thread[t].job) /\ Return(t) /\ UNCHANGED queueVars
  /\ UNCHANGED <<runtimeVars, historyVars>>

RunNext(t) ==
  /\ t \in Dispatchers \/ "run_next" \in Commands
  /\ IsIdle(t)
  /\ \E j \in Jobs : ClaimNext(j) /\ Begin(t, j, "loadContext")
  /\ UNCHANGED <<runtimeVars, historyVars>>

(* _execute_stored reads html, cookie grant and evidence back. *)
LoadContext(t) ==
  /\ At(t, "loadContext", "go")
  /\ bare' = IF hasContext[thread[t].job] THEN bare ELSE bare \cup {thread[t].job}
  /\ Goto(t, "checkRun")
  /\ UNCHANGED <<queueVars, runtimeVars, published, stopped, faults>>

-----------------------------------------------------------------------------
(* _check_control, first transaction: the flags *)
CheckContext(t) ==
  LET r == thread[t] IN
  /\ r.step = "context"
  /\ Become(t, [r EXCEPT !.step = "row", !.pause = pauseFlag[r.job],
                         !.cancel = cancelFlag[r.job]])
  /\ UNCHANGED <<queueVars, runtimeVars, historyVars>>

(* The stop a check finds, given the flags and the state it has read *)
StopFound(r, now) ==
  IF now = "publishing" THEN "none"
  ELSE IF r.cancel \/ now = "cancelled" THEN "cancelled"
  ELSE IF r.pause \/ now = "paused" THEN "paused"
  ELSE "none"

(* Second transaction: the job, and the decision.  A stop the state does   *)
(* not show yet is recorded by set_state before the exception is raised.   *)
CheckRow(t) ==
  LET r == thread[t]
      s == StopFound(r, jobState[r.job])
  IN
  /\ r.step = "row"
  /\ \/ s = "none" /\ Proceed(t)
     \/ s = jobState[r.job] /\ Return(t)
     \/ /\ s \notin {"none", jobState[r.job]}
        /\ Become(t, [r EXCEPT !.step = "flags", !.target = s])
  /\ UNCHANGED <<queueVars, runtimeVars, historyVars>>

(* set_state, first transaction *)
SetFlags(t) ==
  LET r == thread[t] IN
  /\ r.step = "flags"
  /\ Become(t, [r EXCEPT !.step = "state", !.pause = pauseFlag[r.job],
                         !.cancel = cancelFlag[r.job]])
  /\ UNCHANGED <<queueVars, runtimeVars, historyVars>>

(* Second transaction *)
SetRead(t) ==
  LET r == thread[t] IN
  /\ r.step = "state"
  /\ Become(t, [r EXCEPT !.step = "write", !.seen = jobState[r.job]])
  /\ UNCHANGED <<queueVars, runtimeVars, historyVars>>

(* What the caller of set_state does when it returns. *)
AfterSet(t) ==
  LET p == thread[t].at IN
  CASE p = "setAccepted" -> Goto(t, "claimResumed")
    [] p \in CheckPoints \cup {"setRefused"} -> Return(t)
    [] OTHER -> Proceed(t)

(* Third transaction: put_job of the row read in the second.  CancelledError *)
(* and PauseRequested end the run, the resume or the failure they rise in. *)
SetWrite(t) ==
  LET r == thread[t]
      v == Verdict(r.pause, r.cancel, r.seen, r.target)
  IN
  /\ r.step = "write"
  /\ PutJob(r.job, v)
  /\ CASE Commits(r.seen, r.target) -> Become(t, [r EXCEPT !.step = "clear"])
       [] v # r.target              -> Return(t)
       [] OTHER                     -> AfterSet(t)
  /\ UNCHANGED <<runtimeVars, historyVars>>

(* A committed publication drops both requests. *)
SetClear(t) ==
  /\ thread[t].step = "clear"
  /\ ClearFlags(thread[t].job)
  /\ Return(t)
  /\ UNCHANGED <<runtimeVars, historyVars>>

-----------------------------------------------------------------------------
(* Provider work.  execute and _tracked_run look at the stop events before *)
(* and after the provider runs; http and live downloads look at fewer of   *)
(* them, so work may also run to its end with an event set.  Whatever the  *)
(* work produced, it leaves through the edges of Flow and Loop.            *)
WorkStart(t) ==
  /\ thread[t].at \in WorkPoints \ {"publish"}
  /\ thread[t].step = "start"
  /\ Become(t, [thread[t] EXCEPT !.step = "finish"])
  /\ UNCHANGED <<queueVars, runtimeVars, historyVars>>

WorkFinish(t) ==
  /\ thread[t].step = "finish"
  /\ Proceed(t)
  /\ UNCHANGED <<queueVars, runtimeVars, historyVars>>

(* _raise_if_stopped clears the event it raises for, the cancel first.     *)
(* _manifest_candidates takes the exception for a failed discovery and     *)
(* carries on; everywhere else it ends the run, which writes no state.     *)
Interrupted(t) ==
  LET j == thread[t].job IN
  /\ t \in Worker
  /\ thread[t].at \in WorkPoints \ {"publish"}
  /\ \/ /\ cancelEvent[j]
        /\ cancelEvent' = [cancelEvent EXCEPT ![j] = FALSE]
        /\ UNCHANGED pauseEvent
     \/ /\ ~cancelEvent[j] /\ pauseEvent[j]
        /\ pauseEvent' = [pauseEvent EXCEPT ![j] = FALSE]
        /\ UNCHANGED cancelEvent
  /\ IF thread[t].at = "discover" THEN Proceed(t) ELSE Return(t)
  /\ UNCHANGED <<queueVars, historyVars>>

(* publish_artifacts; an OSError or a refusal of every artifact fails the  *)
(* job with nothing published.  (An error in the clean-up of its temporary *)
(* directory, once files are in place, is left out.)                       *)
Publish(t) ==
  /\ At(t, "publish", "start")
  /\ \/ /\ published' = [published EXCEPT ![thread[t].job] = TRUE]
        /\ Goto(t, "setCompleted")
     \/ Goto(t, "setFailed") /\ UNCHANGED published
  /\ UNCHANGED <<queueVars, runtimeVars, stopped, bare, faults>>

-----------------------------------------------------------------------------
(* cancel and pause_job; kind is the state they ask for. *)
StopCommand == [paused |-> "pause", cancelled |-> "cancel"]

(* get_job: a job in a Committed state is a conflict and nothing happens. *)
RequestStop(t, j, kind) ==
  /\ t \in Clients /\ IsIdle(t)
  /\ StopCommand[kind] \in Commands
  /\ jobState[j] \notin Committed \cup {"absent"}
  /\ Become(t, [Idle EXCEPT !.at = "stopFlag", !.job = j, !.target = kind])
  /\ UNCHANGED <<queueVars, runtimeVars, historyVars>>

StopFlag(t) ==
  /\ At(t, "stopFlag", "go")
  /\ SetFlag(thread[t].job, thread[t].target, TRUE)
  /\ Become(t, [thread[t] EXCEPT !.at = "stopSignal"])
  /\ UNCHANGED <<runtimeVars, historyVars>>

(* cancel_running and pause_running reach the runs of their own process.   *)
StopSignal(t) ==
  LET r == thread[t] IN
  /\ At(t, "stopSignal", "go")
  /\ \/ t \in Cli /\ UNCHANGED runtimeVars
     \/ /\ t \in Worker
        /\ pauseEvent' = [pauseEvent EXCEPT ![r.job] = @ \/ r.target = "paused"]
        /\ cancelEvent' = [cancelEvent EXCEPT ![r.job] = @ \/ r.target = "cancelled"]
  /\ Become(t, [r EXCEPT !.at = "stopRow"])
  /\ UNCHANGED <<queueVars, historyVars>>

(* Another thread between the reads and the write of set_state, in the     *)
(* middle of a stop or a resume, or past the point of publishing.          *)
Interfering(t, j) ==
  \E u \in Threads \ {t} :
    /\ thread[u].job = j
    /\ \/ thread[u].step \in {"state", "write", "clear"}
       \/ thread[u].at \in StopPoints \cup ResumePoints \cup {"publish"}

(* The request this thread made has not been withdrawn by another's undo.  *)
FlagStands(r) ==
  IF r.target = "paused" THEN pauseFlag[r.job] ELSE cancelFlag[r.job]

(* The transition that answers the client: the job is stopped, or it is    *)
(* committed and the request is withdrawn.                                 *)
StopRow(t) ==
  LET r == thread[t] IN
  /\ At(t, "stopRow", "go")
  /\ \/ /\ TransitionUnlessCommitted(r.job, r.target)
        /\ stopped' = [stopped EXCEPT ![r.job] =
                          IF FlagStands(r) /\ ~Interfering(t, r.job)
                            THEN r.target ELSE "raced"]
        /\ Return(t)
     \/ /\ jobState[r.job] \in Committed
        /\ Become(t, [r EXCEPT !.at = "stopUndo"])
        /\ UNCHANGED <<queueVars, stopped>>
  /\ UNCHANGED <<runtimeVars, published, bare, faults>>

StopUndo(t) ==
  /\ At(t, "stopUndo", "go")
  /\ SetFlag(thread[t].job, thread[t].target, FALSE)
  /\ Return(t)
  /\ UNCHANGED <<runtimeVars, historyVars>>

(* resume_job *)
RequestResume(t, j) ==
  /\ t \in Clients /\ IsIdle(t)
  /\ "resume" \in Commands
  /\ jobState[j] \in {"paused", "accepted"}
  /\ Become(t, [Idle EXCEPT !.at = "resumeFlag", !.job = j, !.seen = jobState[j]])
  /\ stopped' = [stopped EXCEPT ![j] = "no"]
  /\ UNCHANGED <<queueVars, runtimeVars, published, bare, faults>>

ResumeFlag(t) ==
  /\ At(t, "resumeFlag", "go")
  /\ SetFlag(thread[t].job, "paused", FALSE)
  /\ Become(t, [thread[t] EXCEPT !.at = "resumeEvents"])
  /\ UNCHANGED <<runtimeVars, historyVars>>

ResumeEvents(t) ==
  LET j == thread[t].job IN
  /\ At(t, "resumeEvents", "go")
  /\ \/ t \in Cli /\ UNCHANGED runtimeVars
     \/ /\ t \in Worker
        /\ pauseEvent' = [pauseEvent EXCEPT ![j] = FALSE]
        /\ cancelEvent' = [cancelEvent EXCEPT ![j] = FALSE]
  /\ Goto(t, IF thread[t].seen = "paused" THEN "setAccepted" ELSE "claimResumed")
  /\ UNCHANGED <<queueVars, historyVars>>

ClaimResumed(t) ==
  /\ At(t, "claimResumed", "go")
  /\ \/ Claim(thread[t].job) /\ Goto(t, "loadContext")
     \/ ~Claimable(thread[t].job) /\ Return(t) /\ UNCHANGED queueVars
  /\ UNCHANGED <<runtimeVars, historyVars>>

(* pause_queue and resume_queue *)
HoldQueue(t, value) ==
  /\ t \in Clients /\ IsIdle(t)
  /\ (IF value THEN "pause_queue" ELSE "resume_queue") \in Commands
  /\ queuePaused # value
  /\ SetPaused(value)
  /\ UNCHANGED <<thread, runtimeVars, historyVars>>

-----------------------------------------------------------------------------
(* One thread stops where it is: a CLI process is killed, or an exception  *)
(* that is no WebMediaError leaves the pipeline and is logged.             *)
Abort(t) ==
  /\ ~IsIdle(t) /\ faults < MaxFaults
  /\ faults' = faults + 1
  /\ Return(t)
  /\ UNCHANGED <<queueVars, runtimeVars, published, stopped, bare>>

(* The worker process dies and is started again: its threads and its stop  *)
(* events are gone, the queue file is as it was.                           *)
Restart ==
  /\ faults < MaxFaults
  /\ faults' = faults + 1
  /\ thread' = [t \in Threads |-> IF t \in Worker THEN Idle ELSE thread[t]]
  /\ pauseEvent' = [j \in Jobs |-> FALSE]
  /\ cancelEvent' = [j \in Jobs |-> FALSE]
  /\ UNCHANGED <<queueVars, published, stopped, bare>>

(* A step of the program inside thread t, once it has taken up its work. *)
Work(t) ==
  \/ StoreContext(t) \/ RefuseCookies(t) \/ ClaimSubmitted(t) \/ LoadContext(t)
  \/ CheckContext(t) \/ CheckRow(t)
  \/ SetFlags(t) \/ SetRead(t) \/ SetWrite(t) \/ SetClear(t)
  \/ WorkStart(t) \/ WorkFinish(t) \/ Interrupted(t) \/ Publish(t)
  \/ StopFlag(t) \/ StopSignal(t) \/ StopRow(t) \/ StopUndo(t)
  \/ ResumeFlag(t) \/ ResumeEvents(t) \/ ClaimResumed(t)

(* A command a client decides to issue. *)
Command(t) ==
  \/ \E j \in Jobs : Submit(t, j) \/ RequestResume(t, j)
  \/ \E j \in Jobs, kind \in {"paused", "cancelled"} : RequestStop(t, j, kind)
  \/ \E value \in BOOLEAN : HoldQueue(t, value)

Next ==
  \/ \E t \in Threads : Work(t) \/ RunNext(t) \/ Command(t) \/ Abort(t)
  \/ Restart

Spec == Init /\ [][Next]_vars

(* Threads that have work are scheduled, providers end (_tracked_run has a  *)
(* deadline), and the dispatcher keeps polling run_next.  Clients owe no    *)
(* command, and nothing is assumed of faults.                               *)
Fairness ==
  /\ \A t \in Threads : WF_vars(Work(t))
  /\ \A t \in Dispatchers : WF_vars(RunNext(t))

LiveSpec == Spec /\ Fairness

-----------------------------------------------------------------------------
Runners(j)  == {t \in Threads : Running(t) /\ thread[t].job = j}
Attended(j) == \E t \in Threads : thread[t].job = j
Active(j)   == jobState[j] \in Working \cup {"publishing"}

(* Every variable keeps its type; in particular jobs.state only ever holds *)
(* a JobState the pipeline uses.                                           *)
TypeOK ==
  /\ QueueTypeOK
  /\ thread \in [Threads -> ThreadStates]
  /\ pauseEvent \in [Jobs -> BOOLEAN]
  /\ cancelEvent \in [Jobs -> BOOLEAN]
  /\ published \in [Jobs -> BOOLEAN]
  /\ stopped \in [Jobs -> {"no", "raced", "paused", "cancelled"}]
  /\ bare \in SUBSET Jobs
  /\ faults \in 0..MaxFaults

(* No two threads run the same job, although set_state overwrites the row  *)
(* unconditionally: claim and claim_next hand a job to one thread, and the *)
(* writes of that thread never make the job claimable again.  resume_job   *)
(* is the exception: it accepts a job whose old run may not have stopped.  *)
AtMostOneRunner == \A j \in Jobs : \A t, u \in Runners(j) : t = u

(* Files are published exactly for the jobs that say so: a published job is *)
(* publishing or completed, and a completed job is published.  A stop that  *)
(* is answered late, or a thread lost at any point, never leaves a job that *)
(* reads cancelled, paused or failed with its files at the destination.     *)
PublishedIsCommitted ==
  \A j \in Jobs :
    /\ published[j] => jobState[j] \in {"publishing", "completed"}
    /\ jobState[j] = "completed" => published[j]

(* Without faults a job in a working or publishing state has a thread that *)
(* is about to move it on.                                                 *)
ActiveHasRunner ==
  faults = 0 => \A j \in Jobs : Active(j) => Attended(j)

(* A stop that was answered while its request stood and no other thread    *)
(* was inside set_state or another command is final, whatever the run still*)
(* does and whatever is asked for later: the job is not published and does *)
(* not read as working again, and a cancelled job stays cancelled.         *)
CleanStopHolds ==
  \A j \in Jobs :
    /\ stopped[j] = "cancelled" => jobState[j] = "cancelled" /\ ~published[j]
    /\ stopped[j] = "paused" =>
         jobState[j] \in {"paused", "cancelled", "failed"} /\ ~published[j]

(* The part of it that survives resume_job and the two runs it can leave:  *)
(* neither a run nor a resume revives a job that was cancelled cleanly.    *)
CancelHolds == \A j \in Jobs : stopped[j] = "cancelled" => jobState[j] = "cancelled"

(* Spec scenario "Queue is paused": no thread starts a run while the queue *)
(* is paused, whichever of the three ways to claim it uses.                *)
NoStartWhilePaused ==
  [][queuePaused => \A t \in Threads : Running(t)' => Running(t)]_vars

(* Same scenario, of the job: while the queue is paused an accepted job    *)
(* stays accepted unless it is stopped or refused by name; no write left   *)
(* over from an earlier run moves it on.                                   *)
AcceptedIsHeld ==
  [][queuePaused => \A j \in Jobs :
       jobState[j] = "accepted" =>
         jobState'[j] \in {"accepted", "paused", "cancelled", "failed"}]_vars

(* A run lacks the context of its job only while the submission of that    *)
(* very job is still under way: once submit was answered, every run there  *)
(* is has html, cookie grant and evidence (put_context, get_context).      *)
(* Refused cookies and faults leave a job without context for good.        *)
ContextOnceAnswered ==
  [][\A j \in bare' \ bare :
       \E t \in Clients : thread[t].job = j /\ thread[t].at = "storeContext"]_vars

(* A submitted job reaches a terminal state, unless the queue is paused or *)
(* a fault took the thread that was running this very job: no job waits    *)
(* behind another for ever, and waiting jobs survive every fault.          *)
JobsSettle ==
  \A j \in Jobs :
    jobState[j] # "absent" ~>
      jobState[j] \in Terminal \/ queuePaused \/ (Active(j) /\ ~Attended(j))

(* Without per-job commands the durable state goes through the abstract    *)
(* lifecycle, one step at a time.                                          *)
Phase(s) ==
  CASE s = "accepted"   -> "waiting"
    [] s \in Working    -> "running"
    [] s = "publishing" -> "committing"
    [] s = "completed"  -> "done"
    [] OTHER            -> s

Lifecycle == INSTANCE JobLifecycle
               WITH phase <- [j \in Jobs |-> Phase(jobState[j])], held <- queuePaused

LifecycleSpec == Lifecycle!Spec

-----------------------------------------------------------------------------
(* What the repository says of the program and some interleaving refutes.  *)

(* "In-flight pause_job SHALL stop before the next stage": a job whose     *)
(* pause was answered with success is not published before it is resumed.  *)
PauseStopsBeforePublication == \A j \in Jobs : stopped[j] # "no" => ~published[j]
=============================================================================
