--------------------------- MODULE JobStops_proofs ---------------------------
(***************************************************************************)
(* What holds without per-job commands, for any number of jobs,            *)
(* dispatchers and clients.  An active job has a thread that runs it:      *)
(* nothing but a fault parts a run from its job before it has written how  *)
(* the job ended.  And the rows go through the abstract life of            *)
(* JobLifecycle, since where a run stands tells which row it has left.     *)
(*                                                                         *)
(* What holds with them, for any number of threads.  A stop that was       *)
(* answered cleanly is final: a cancel under every command there is, a     *)
(* pause as long as nobody resumes.  The argument is that a clean answer   *)
(* leaves the request standing and no thread between the reads and the     *)
(* write of set_state, so every later set_state reads the request.  The    *)
(* last part is about the context of a job, with the same summary of what  *)
(* a thread's step may do to the job it is about.                          *)
(***************************************************************************)
EXTENDS JobControl_proofs

(* No stop was asked for, in the queue file or in the worker's memory. *)
NoStopAsked ==
  \A j \in Jobs : ~pauseFlag[j] /\ ~cancelFlag[j] /\ ~pauseEvent[j] /\ ~cancelEvent[j]

(* The rows a run may find while it is the only one to write them. *)
RunRows == Working \cup {"publishing", "completed"}

(* What a thread knows when nobody stops jobs: it has read no request, the *)
(* checks of its run never record a stop, and its row tells that it runs.  *)
UndisturbedOK(r, row) ==
  /\ ~r.pause /\ ~r.cancel
  /\ r.at \notin StopPoints \cup {"setRefused"}
  /\ r.step \in {"flags", "state", "write", "clear"} => r.at \notin CheckPoints
  /\ r.at \in RunPoints => row \in RunRows
  /\ r.step = "clear" => row = "completed"

(* An active job is being run, not only attended: a thread that submitted  *)
(* the job may leave it while another one runs it.                         *)
ActiveIsRun ==
  faults = 0 => \A j \in Jobs : Active(j) => \E t \in Threads : Running(t) /\ thread[t].job = j

AttendedInv ==
  /\ ClaimInv
  /\ NoStopAsked
  /\ ActiveIsRun
  /\ \A t \in Threads : UndisturbedOK(thread[t], jobState[thread[t].job])

QueueCommands == {"submit", "run_next", "pause_queue", "resume_queue"}

-----------------------------------------------------------------------------
(* Only the last points of a run return. *)
LEMMA FlowReturns ==
  ASSUME NEW p \in RunPoints, "idle" \in Flow[p]
  PROVE  p \in {"setCompleted", "setFailed"}
<1>1. p \in {"loadContext"} \cup CheckPoints \cup WorkPoints
        \cup {"setDiscovering", "setPlanning", "setAcquiring", "setExporting",
              "setValidating", "setPublishing", "setCompleted", "setFailed"}
  BY DEF RunPoints, SetPoints, SetTarget
<1>2. CASE p \in {"loadContext"} \cup CheckPoints
  BY <1>2 DEF Flow, CheckPoints
<1>3. CASE p \in WorkPoints
  BY <1>3 DEF Flow, WorkPoints
<1>4. CASE p \in {"setDiscovering", "setPlanning", "setAcquiring", "setExporting",
                  "setValidating", "setPublishing"}
  BY <1>4 DEF Flow
<1>q. QED BY <1>1, <1>2, <1>3, <1>4

(* A thread that enters a point has dead locals and the point's first step. *)
Fresh(s, p) ==
  /\ s.at = p /\ s.step = FirstStep(p)
  /\ ~s.pause /\ ~s.cancel

LEMMA GotoFresh ==
  ASSUME TypeInv, NEW t \in Threads, NEW p, Goto(t, p)
  PROVE  Fresh(thread'[t], p) /\ thread'[t].job = thread[t].job
BY TypeInvParts DEF TypeInv, TypeOK, Goto, Become, Enter, ThreadStates, Fresh

(* Everywhere else a run that goes on is still a run of the same job. *)
LEMMA ProceedFresh ==
  ASSUME TypeInv, NEW t \in Threads, thread[t].at \in RunPoints, Proceed(t)
  PROVE  \/ /\ thread[t].at \in {"setCompleted", "setFailed"}
            /\ thread'[t] = Idle
         \/ \E p \in RunPoints : Fresh(thread'[t], p) /\ thread'[t].job = thread[t].job
<1> DEFINE r == thread[t]
<1>1. r \in ThreadStates /\ thread \in [Threads -> ThreadStates] /\ r.job \in Jobs
  BY TypeInvParts, PointSets DEF TypeInv, TypeOK
<1>2. Flow[r.at] \subseteq RunPoints \cup {"idle"} /\ Loop[r.at] \subseteq RunPoints
  BY FlowType
<1>3. CASE "idle" \in Flow[r.at] /\ Return(t)
  BY <1>3, FlowReturns, ReturnAt
<1>4. CASE \E p \in Flow[r.at] \ {"idle"} : Goto(t, p)
  BY <1>2, <1>4, GotoFresh
<1>5. CASE \E p \in Loop[r.at] : Become(t, [Enter(r, p) EXCEPT !.laps = @ + 1])
  <2>1. PICK p \in Loop[r.at] : Become(t, [Enter(r, p) EXCEPT !.laps = @ + 1])
    BY <1>5
  <2>2. Fresh(thread'[t], p) /\ thread'[t].job = r.job
    BY <1>1, <2>1 DEF Become, Enter, ThreadStates, Fresh
  <2>q. QED BY <1>2, <2>1, <2>2
<1>q. QED BY <1>3, <1>4, <1>5 DEF Proceed

(* A fresh thread is undisturbed if its row says that it runs. *)
LEMMA FreshOK ==
  ASSUME NEW p \in RunPoints, NEW s, Fresh(s, p), NEW row \in RunRows
  PROVE  UndisturbedOK(s, row)
<1>1. p \notin StopPoints \cup {"setRefused"}
  BY PointSets DEF RunPoints, CheckPoints, WorkPoints, SetPoints, SetTarget, StopPoints
<1>2. FirstStep(p) # "clear" /\ (p \in CheckPoints => FirstStep(p) = "context")
  BY DEF FirstStep
<1>q. QED BY <1>1, <1>2 DEF Fresh, UndisturbedOK

(* A thread outside the runs that has just moved there. *)
LEMMA FreshOutsideOK ==
  ASSUME NEW p \in {"idle", "storeContext", "claimSubmitted"}, NEW s, Fresh(s, p), NEW row
  PROVE  UndisturbedOK(s, row)
<1>1. p \notin RunPoints /\ p \notin StopPoints /\ p \notin CheckPoints \cup SetPoints
  BY DEF RunPoints, CheckPoints, WorkPoints, SetPoints, SetTarget, StopPoints
<1>2. FirstStep(p) # "clear"
  BY DEF FirstStep
<1>3. p # "setRefused"
  OBVIOUS
<1>q. QED BY <1>1, <1>2, <1>3 DEF Fresh, UndisturbedOK

LEMMA IdleFresh == Fresh(Idle, "idle")
BY DEF Fresh, Idle, FirstStep, CheckPoints, SetPoints, SetTarget, WorkPoints

-----------------------------------------------------------------------------
(* One thread moves, no row changes, and the thread gives up no active job. *)
LEMMA AttendedQuiet ==
  ASSUME AttendedInv, ClaimInv', NEW t \in Threads, NoStopAsked',
         \A u \in Threads \ {t} : thread'[u] = thread[u],
         UNCHANGED <<jobState, faults>>,
         UndisturbedOK(thread'[t], jobState[thread'[t].job]),
         Running(t) /\ Active(thread[t].job) => Running(t)' /\ thread'[t].job = thread[t].job
  PROVE  AttendedInv'
<1>1. ActiveIsRun'
  <2> SUFFICES ASSUME faults' = 0, NEW j \in Jobs, Active(j)'
               PROVE  \E u \in Threads : Running(u)' /\ thread'[u].job = j
    BY DEF ActiveIsRun
  <2>1. PICK u \in Threads : Running(u) /\ thread[u].job = j
    BY DEF AttendedInv, ActiveIsRun, Active
  <2>2. CASE u = t
    BY <2>1, <2>2 DEF Active
  <2>3. CASE u # t
    BY <2>1, <2>3 DEF Running
  <2>q. QED BY <2>2, <2>3
<1>q. QED BY <1>1 DEF AttendedInv

(* One thread moves and writes the row of a job that nobody else runs. *)
LEMMA AttendedFrame ==
  ASSUME AttendedInv, ClaimInv', NEW t \in Threads, NEW j \in Jobs, NoStopAsked',
         \A u \in Threads \ {t} : thread'[u] = thread[u],
         \A k \in Jobs \ {j} : jobState'[k] = jobState[k],
         faults' = faults,
         UndisturbedOK(thread'[t], jobState'[thread'[t].job]),
         \A u \in Threads \ {t} : Running(u) => thread[u].job # j,
         Running(t) => thread[t].job = j,
         Active(j)' => Running(t)' /\ thread'[t].job = j
  PROVE  AttendedInv'
<1>1. ActiveIsRun'
  <2> SUFFICES ASSUME faults' = 0, NEW k \in Jobs, Active(k)'
               PROVE  \E u \in Threads : Running(u)' /\ thread'[u].job = k
    BY DEF ActiveIsRun
  <2>1. CASE k = j
    BY <2>1
  <2>2. CASE k # j
    <3>1. PICK u \in Threads : Running(u) /\ thread[u].job = k
      BY <2>2 DEF AttendedInv, ActiveIsRun, Active
    <3>2. u # t
      BY <2>2, <3>1
    <3>q. QED BY <3>1, <3>2 DEF Running
  <2>q. QED BY <2>1, <2>2
<1>2. ASSUME NEW u \in Threads \ {t}
      PROVE  UndisturbedOK(thread'[u], jobState'[thread'[u].job])
  <2>1. UndisturbedOK(thread[u], jobState[thread[u].job]) /\ LocalOK(thread[u])
    BY TypeInvParts DEF AttendedInv, ClaimInv
  <2>2. CASE Running(u)
    <3>1. thread[u].job \in Jobs \ {j}
      BY <2>2, TypeInvParts, PointSets DEF AttendedInv, ClaimInv, Running
    <3>q. QED BY <2>1, <3>1
  <2>3. CASE ~Running(u)
    <3>1. thread[u].step # "clear"
      BY <2>1, <2>3 DEF LocalOK, Running, RunPoints, SetPoints, SetTarget
    <3>q. QED BY <2>1, <2>3, <3>1 DEF UndisturbedOK, Running
  <2>q. QED BY <2>2, <2>3
<1>q. QED BY <1>1, <1>2 DEF AttendedInv

(* A run that goes on keeps its job, unless it was at its end. *)
LEMMA ProceedAttends ==
  ASSUME AttendedInv, NEW t \in Threads, Proceed(t),
         thread[t].at \in RunPoints \ {"setCompleted", "setFailed"}
  PROVE  /\ UndisturbedOK(thread'[t], jobState[thread'[t].job])
         /\ Running(t)' /\ thread'[t].job = thread[t].job
<1>1. TypeInv /\ jobState[thread[t].job] \in RunRows
  BY DEF AttendedInv, ClaimInv, UndisturbedOK
<1>2. PICK p \in RunPoints : Fresh(thread'[t], p) /\ thread'[t].job = thread[t].job
  BY <1>1, ProceedFresh
<1>q. QED BY <1>1, <1>2, FreshOK DEF Running, Fresh

(* The steps of a run that write no row. *)
LEMMA AttendedRun ==
  ASSUME AttendedInv, ClaimInv', NEW t \in Threads,
         \A u \in Threads \ {t} : thread'[u] = thread[u],
         "submit_cookies" \notin Commands,
         \/ StoreContext(t) \/ RefuseCookies(t) \/ LoadContext(t)
         \/ CheckContext(t) \/ CheckRow(t)
         \/ SetFlags(t) \/ SetRead(t) \/ SetClear(t)
         \/ WorkStart(t) \/ WorkFinish(t) \/ Interrupted(t) \/ Publish(t)
  PROVE  AttendedInv'
<1> DEFINE r == thread[t]
           j == r.job
<1>1. /\ TypeInv /\ LocalOK(r) /\ r \in ThreadStates /\ UndisturbedOK(r, jobState[j])
      /\ (r.at # "idle" => j \in Jobs)
  BY TypeInvParts DEF AttendedInv, ClaimInv
<1>2. UNCHANGED <<jobState, faults>>
  BY DEF StoreContext, RefuseCookies, LoadContext, CheckContext, CheckRow, SetFlags, SetRead, SetClear,
         WorkStart, WorkFinish, Interrupted, Publish, PutContext, ClearFlags, queueVars, historyVars
<1>3. ~Interrupted(t)
  <2>1. r.at \in WorkPoints => j \in Jobs
    BY <1>1 DEF WorkPoints
  <2>q. QED BY <2>1 DEF Interrupted, AttendedInv, NoStopAsked
<1>4. NoStopAsked'
  <2>1. CASE SetClear(t)
    <3>1. UNCHANGED <<pauseEvent, cancelEvent>>
      BY <2>1 DEF SetClear, runtimeVars
    <3>2. \A k \in Jobs : ~pauseFlag'[k] /\ ~cancelFlag'[k]
      BY <1>1, <2>1 DEF SetClear, ClearFlags, AttendedInv, NoStopAsked, TypeInv, TypeOK, QueueTypeOK
    <3>q. QED BY <3>1, <3>2 DEF AttendedInv, NoStopAsked
  <2>2. CASE UNCHANGED <<pauseFlag, cancelFlag, pauseEvent, cancelEvent>>
    BY <2>2 DEF AttendedInv, NoStopAsked
  <2>q. QED BY <1>3, <2>1, <2>2
            DEF StoreContext, RefuseCookies, LoadContext, CheckContext, CheckRow, SetFlags, SetRead,
                WorkStart, WorkFinish, Publish, PutContext, queueVars, runtimeVars
<1> DEFINE Fine == /\ UndisturbedOK(thread'[t], jobState[thread'[t].job])
                   /\ (Running(t) /\ Active(j) => Running(t)' /\ thread'[t].job = j)
<1>5. SUFFICES Fine
  BY <1>2, <1>4, AttendedQuiet
<1>6. CASE StoreContext(t)
  <2>1. r.at \notin RunPoints
    BY <1>6, PointSets DEF StoreContext, At, SubmitPoints
  <2>2. CASE Return(t)
    BY <1>1, <2>1, <2>2, ReturnAt, IdleFresh, FreshOutsideOK DEF Running
  <2>3. CASE Goto(t, "claimSubmitted")
    BY <1>1, <2>1, <2>3, GotoFresh, FreshOutsideOK DEF Running
  <2>q. QED BY <1>6, <2>2, <2>3 DEF StoreContext
<1>7. CASE LoadContext(t)
  <2>1. r.at = "loadContext" /\ "loadContext" \in RunPoints /\ "checkRun" \in RunPoints
    BY <1>7 DEF LoadContext, At, RunPoints, CheckPoints
  <2>2. jobState[j] \in RunRows
    BY <1>1, <2>1 DEF UndisturbedOK
  <2>3. Fresh(thread'[t], "checkRun") /\ thread'[t].job = j
    BY <1>1, <1>7, GotoFresh DEF LoadContext
  <2>q. QED BY <2>1, <2>2, <2>3, FreshOK DEF Running, Fresh
<1>8. CASE CheckContext(t)
  <2>1. j \in Jobs /\ r.at \in CheckPoints
    BY <1>1, <1>8, PointSets DEF CheckContext, LocalOK
  <2>2. /\ thread'[t].at = r.at /\ thread'[t].job = j /\ thread'[t].step = "row"
        /\ thread'[t].pause = pauseFlag[j] /\ thread'[t].cancel = cancelFlag[j]
    BY <1>1, <1>8 DEF CheckContext, Become, TypeInv, TypeOK, ThreadStates
  <2>q. QED BY <1>1, <2>1, <2>2 DEF AttendedInv, NoStopAsked, UndisturbedOK, Running
<1>9. CASE CheckRow(t)
  <2>1. r.at \in CheckPoints /\ r.at \in RunPoints \ {"setCompleted", "setFailed"}
    BY <1>1, <1>9, PointSets DEF CheckRow, LocalOK, CheckPoints
  <2>2. jobState[j] \notin {"cancelled", "paused"} /\ ~r.pause /\ ~r.cancel
    BY <1>1, <2>1 DEF UndisturbedOK, RunRows, Working
  <2>3. StopFound(r, jobState[j]) = "none" /\ jobState[j] # "none"
    BY <1>1, <2>1, <2>2 DEF StopFound, UndisturbedOK, RunRows, Working
  <2>4. Proceed(t)
    BY <1>9, <2>3 DEF CheckRow
  <2>q. QED BY <2>1, <2>4, ProceedAttends
<1>10. CASE SetFlags(t) \/ SetRead(t)
  <2>1. j \in Jobs
    BY <1>1, <1>10 DEF SetFlags, SetRead, LocalOK, CheckPoints, SetPoints, SetTarget
  <2>2. CASE SetFlags(t)
    <3>1. /\ thread'[t].at = r.at /\ thread'[t].job = j /\ thread'[t].step = "state"
          /\ thread'[t].pause = pauseFlag[j] /\ thread'[t].cancel = cancelFlag[j]
      BY <1>1, <2>2 DEF SetFlags, Become, TypeInv, TypeOK, ThreadStates
    <3>q. QED BY <1>1, <2>1, <2>2, <3>1
              DEF SetFlags, AttendedInv, NoStopAsked, UndisturbedOK, Running
  <2>3. CASE SetRead(t)
    <3>1. /\ thread'[t].at = r.at /\ thread'[t].job = j /\ thread'[t].step = "write"
          /\ thread'[t].pause = r.pause /\ thread'[t].cancel = r.cancel
      BY <1>1, <2>3 DEF SetRead, Become, TypeInv, TypeOK, ThreadStates
    <3>q. QED BY <1>1, <2>3, <3>1 DEF SetRead, UndisturbedOK, Running
  <2>q. QED BY <1>10, <2>2, <2>3
<1>11. CASE SetClear(t)
  <2>1. ~Active(j)
    BY <1>1, <1>11 DEF SetClear, UndisturbedOK, Active, Working
  <2>2. thread'[t] = Idle
    BY <1>1, <1>11, ReturnAt DEF SetClear
  <2>q. QED BY <2>1, <2>2, IdleFresh, FreshOutsideOK
<1>12. CASE WorkStart(t)
  <2>1. r.at \in WorkPoints /\ r.at \notin CheckPoints
    BY <1>12 DEF WorkStart, WorkPoints, CheckPoints
  <2>2. /\ thread'[t].at = r.at /\ thread'[t].job = j /\ thread'[t].step = "finish"
        /\ thread'[t].pause = r.pause /\ thread'[t].cancel = r.cancel
    BY <1>1, <1>12 DEF WorkStart, Become, TypeInv, TypeOK, ThreadStates
  <2>q. QED BY <1>1, <2>1, <2>2 DEF UndisturbedOK, Running
<1>13. CASE WorkFinish(t)
  <2>1. r.at \in RunPoints \ {"setCompleted", "setFailed"}
    BY <1>1, <1>13, PointSets DEF WorkFinish, LocalOK, WorkPoints
  <2>q. QED BY <1>13, <2>1, ProceedAttends DEF WorkFinish
<1>14. CASE Publish(t)
  <2>1. r.at = "publish" /\ {"publish", "setCompleted", "setFailed"} \subseteq RunPoints
    BY <1>14 DEF Publish, At, RunPoints, WorkPoints, SetPoints, SetTarget
  <2>2. jobState[j] \in RunRows
    BY <1>1, <2>1 DEF UndisturbedOK
  <2>3. PICK p \in {"setCompleted", "setFailed"} : Goto(t, p)
    BY <1>14 DEF Publish
  <2>4. Fresh(thread'[t], p) /\ thread'[t].job = j
    BY <1>1, <2>3, GotoFresh
  <2>q. QED BY <2>1, <2>2, <2>3, <2>4, FreshOK DEF Running, Fresh
<1>15. ~RefuseCookies(t)
  BY DEF RefuseCookies
<1>q. QED BY <1>3, <1>6, <1>7, <1>8, <1>9, <1>10, <1>11, <1>12, <1>13, <1>14, <1>15

(* set_state writes what it was asked for; the run leaves the job only     *)
(* behind a state that ends it.                                            *)
LEMMA AttendedSetWrite ==
  ASSUME AttendedInv, ClaimInv', NEW t \in Threads,
         \A u \in Threads \ {t} : thread'[u] = thread[u],
         SetWrite(t)
  PROVE  AttendedInv'
<1> DEFINE r == thread[t]
           j == r.job
<1>1. /\ TypeInv /\ LocalOK(r) /\ r \in ThreadStates /\ r.step = "write"
      /\ UndisturbedOK(r, jobState[j])
      /\ r.at \notin ResumePoints
  BY TypeInvParts DEF AttendedInv, ClaimInv, SetWrite
<1>2. r.at \in SetPoints \ {"setAccepted", "setRefused"} /\ r.target = SetTarget[r.at]
  BY <1>1 DEF LocalOK, UndisturbedOK, ResumePoints
<1>3. r.at \in RunPoints /\ j \in Jobs
  BY <1>1, <1>2, PointSets, TypeInvParts
<1>4. \A u \in Threads \ {t} : Running(u) => thread[u].job # j
  BY <1>3 DEF AttendedInv, ClaimInv, AtMostOneRunner, Runners, Running
<1>5. Verdict(r.pause, r.cancel, r.seen, r.target) = r.target
  BY <1>1 DEF Verdict, UndisturbedOK
<1>6. /\ jobState'[j] = r.target
      /\ \A k \in Jobs \ {j} : jobState'[k] = jobState[k]
      /\ faults' = faults /\ NoStopAsked'
  BY <1>1, <1>3, <1>5 DEF SetWrite, PutJob, historyVars, runtimeVars, TypeInv, TypeOK, QueueTypeOK,
                          AttendedInv, NoStopAsked
<1>7. r.target \in RunRows \cup {"failed"}
  BY <1>2 DEF SetPoints, SetTarget, RunRows, Working
<1>8. SUFFICES /\ UndisturbedOK(thread'[t], jobState'[thread'[t].job])
               /\ jobState'[j] \in Working \cup {"publishing"} =>
                    Running(t)' /\ thread'[t].job = j
  <2>1. \A k \in Jobs : jobState'[k] \in Working \cup {"publishing"} <=> Active(k)'
    BY DEF Active
  <2>2. PICK k \in Jobs : k = j
    BY <1>3
  <2>q. QED BY <1>4, <1>6, <1>8, <2>1, <2>2, AttendedFrame
<1>9. CASE Commits(r.seen, r.target)
  <2>1. r.target = "completed" /\ Become(t, [r EXCEPT !.step = "clear"])
    <3>1. r.target = "completed" /\ r.seen = "publishing"
      BY <1>9 DEF Commits
    <3>2. Become(t, [r EXCEPT !.step = "clear"])
      BY <3>1 DEF SetWrite, Commits, Verdict
    <3>q. QED BY <3>1, <3>2
  <2>2. /\ thread'[t].at = r.at /\ thread'[t].job = j /\ thread'[t].step = "clear"
        /\ thread'[t].pause = r.pause /\ thread'[t].cancel = r.cancel
    BY <1>1, <2>1 DEF Become, TypeInv, TypeOK, ThreadStates
  <2>q. QED BY <1>1, <1>6, <2>1, <2>2 DEF UndisturbedOK, RunRows, Working
<1>10. CASE ~Commits(r.seen, r.target)
  <2>1. r.at \notin CheckPoints
    BY <1>1 DEF UndisturbedOK
  <2>2. Proceed(t)
    BY <1>2, <1>5, <1>10, <2>1 DEF SetWrite, AfterSet
  <2>3. CASE r.at \in {"setCompleted", "setFailed"} /\ thread'[t] = Idle
    <3>1. r.target \in {"completed", "failed"}
      BY <1>2, <2>3 DEF SetTarget
    <3>2. jobState'[j] \notin Working \cup {"publishing"}
      BY <1>6, <3>1 DEF Working
    <3>q. QED BY <2>3, <3>2, IdleFresh, FreshOutsideOK
  <2>4. CASE \E p \in RunPoints : Fresh(thread'[t], p) /\ thread'[t].job = j
    <3>1. PICK p \in RunPoints : Fresh(thread'[t], p) /\ thread'[t].job = j
      BY <2>4
    <3>2. CASE r.target \in RunRows
      BY <1>6, <3>1, <3>2, FreshOK DEF Running, Fresh
    <3>3. CASE r.target = "failed"
      <4>1. r.at = "setFailed"
        BY <1>2, <3>3 DEF SetPoints, SetTarget
      <4>2. Flow[r.at] = {"idle"} /\ Loop[r.at] = {}
        BY <1>3, <4>1 DEF Flow, Loop
      <4>3. thread'[t] = Idle
        BY <1>1, <1>3, <2>2, <4>2, ReturnAt DEF Proceed
      <4>q. QED BY <3>1, <4>3, IdleType, PointSets DEF Fresh
    <3>q. QED BY <1>7, <3>2, <3>3
  <2>q. QED BY <1>1, <1>3, <2>2, <2>3, <2>4, ProceedFresh
<1>q. QED BY <1>9, <1>10

(* Commands and claims: a thread outside the runs takes up a job, and only *)
(* a claim makes a job active.                                             *)
LEMMA AttendedClaim ==
  ASSUME AttendedInv, ClaimInv', NEW t \in Threads, ClaimSubmitted(t) \/ RunNext(t)
  PROVE  AttendedInv'
<1>1. TypeInv /\ ThreadInv
  BY TypeInvParts DEF AttendedInv, ClaimInv
<1>2. /\ faults' = faults
      /\ UNCHANGED <<pauseFlag, cancelFlag, pauseEvent, cancelEvent>>
  BY DEF ClaimSubmitted, RunNext, ClaimNext, Claim, PutJob, queueVars, runtimeVars, historyVars
<1>3. NoStopAsked'
  BY <1>2 DEF AttendedInv, NoStopAsked
<1>4. ~Running(t)
  <2>1. thread[t].at \in {"claimSubmitted", "idle"}
    BY DEF ClaimSubmitted, RunNext, At, IsIdle
  <2>q. QED BY <2>1, PointSets DEF SubmitPoints, Running
<1>5. {"checkRun", "loadContext"} \subseteq RunPoints
  BY DEF RunPoints, CheckPoints
<1>6. ASSUME NEW j \in Jobs, NEW p \in {"checkRun", "loadContext"}, Claim(j),
             Fresh(thread'[t], p), thread'[t].job = j,
             \A u \in Threads \ {t} : thread'[u] = thread[u]
      PROVE  AttendedInv'
  <2>1. jobState[j] = "accepted" /\ jobState'[j] = "discovering"
        /\ \A k \in Jobs \ {j} : jobState'[k] = jobState[k]
    BY <1>1, <1>6 DEF Claim, Claimable, PutJob, TypeInv, TypeOK, QueueTypeOK
  <2>2. \A u \in Threads \ {t} : Running(u) => thread[u].job # j
    BY <2>1 DEF AttendedInv, ClaimInv
  <2>3. jobState'[j] \in RunRows
    BY <2>1 DEF RunRows, Working
  <2>4. UndisturbedOK(thread'[t], jobState'[thread'[t].job])
    BY <1>5, <1>6, <2>3, FreshOK
  <2>5. Running(t)'
    BY <1>5, <1>6 DEF Running, Fresh
  <2>q. QED BY <1>2, <1>3, <1>4, <1>6, <2>1, <2>2, <2>4, <2>5, AttendedFrame
<1>7. CASE ClaimSubmitted(t)
  <2>1. \A u \in Threads \ {t} : thread'[u] = thread[u]
    BY <1>1, <1>7 DEF ClaimSubmitted, Return, Goto, Become, ThreadInv
  <2>2. thread[t].job \in Jobs
    BY <1>1, <1>7, TypeInvParts DEF ClaimSubmitted, At
  <2>3. CASE Claim(thread[t].job) /\ Goto(t, "checkRun")
    BY <1>1, <1>6, <2>1, <2>2, <2>3, GotoFresh
  <2>4. CASE Return(t) /\ UNCHANGED queueVars
    <3>1. UndisturbedOK(thread'[t], jobState[thread'[t].job]) /\ jobState' = jobState
      BY <1>1, <2>4, ReturnAt, IdleFresh, FreshOutsideOK DEF queueVars
    <3>q. QED BY <1>2, <1>3, <1>4, <2>1, <3>1, AttendedQuiet
  <2>q. QED BY <1>7, <2>3, <2>4 DEF ClaimSubmitted
<1>8. CASE RunNext(t)
  <2>1. PICK j \in Jobs : Claim(j) /\ Begin(t, j, "loadContext")
    BY <1>8 DEF RunNext, ClaimNext
  <2>2. Fresh(thread'[t], "loadContext") /\ thread'[t].job = j
    BY <1>1, <2>1, IdleType DEF Begin, Become, Enter, Fresh, ThreadInv, ThreadStates
  <2>3. \A u \in Threads \ {t} : thread'[u] = thread[u]
    BY <1>1, <2>1 DEF Begin, Become, ThreadInv
  <2>q. QED BY <1>6, <2>1, <2>2, <2>3
<1>q. QED BY <1>7, <1>8

LEMMA AttendedCommand ==
  ASSUME AttendedInv, ClaimInv', NEW t \in Threads, Command(t), Commands \subseteq QueueCommands
  PROVE  AttendedInv'
<1>1. TypeInv /\ ThreadInv
  BY TypeInvParts DEF AttendedInv, ClaimInv
<1>2. ASSUME NEW j \in Jobs, Submit(t, j)
      PROVE  AttendedInv'
  <2>1. Fresh(thread'[t], "storeContext") /\ thread'[t].job = j
    BY <1>1, <1>2, IdleType DEF Submit, Begin, Become, Enter, Fresh, ThreadInv, ThreadStates
  <2>2. \A u \in Threads \ {t} : thread'[u] = thread[u]
    BY <1>1, <1>2 DEF Submit, Begin, Become, ThreadInv
  <2>3. /\ jobState[j] = "absent" /\ jobState'[j] = "accepted" /\ faults' = faults
        /\ \A k \in Jobs \ {j} : jobState'[k] = jobState[k]
    BY <1>1, <1>2 DEF Submit, PutJob, historyVars, TypeInv, TypeOK, QueueTypeOK
  <2>4. NoStopAsked'
    BY <1>2 DEF Submit, PutJob, runtimeVars, AttendedInv, NoStopAsked
  <2>5. ~Running(t) /\ ~Active(j)' /\ \A u \in Threads \ {t} : Running(u) => thread[u].job # j
    BY <1>2, <2>3, PointSets DEF Submit, IsIdle, Running, Active, Working, AttendedInv, ClaimInv
  <2>6. UndisturbedOK(thread'[t], jobState'[thread'[t].job])
    BY <2>1, FreshOutsideOK
  <2>q. QED BY <2>2, <2>3, <2>4, <2>5, <2>6, AttendedFrame
<1>3. ASSUME NEW value \in BOOLEAN, HoldQueue(t, value)
      PROVE  AttendedInv'
  <2>1. UNCHANGED <<jobState, pauseFlag, cancelFlag, pauseEvent, cancelEvent, thread, faults>>
    BY <1>3 DEF HoldQueue, SetPaused, runtimeVars, historyVars
  <2>q. QED BY <2>1 DEF AttendedInv, NoStopAsked, ActiveIsRun, Active, Running
<1>4. ASSUME NEW j \in Jobs, NEW kind \in {"paused", "cancelled"}
      PROVE  ~RequestStop(t, j, kind)
  <2>1. StopCommand[kind] \notin QueueCommands
    BY DEF StopCommand, QueueCommands
  <2>q. QED BY <2>1 DEF RequestStop
<1>5. ASSUME NEW j \in Jobs
      PROVE  ~RequestResume(t, j)
  BY DEF RequestResume, QueueCommands
<1>q. QED BY <1>2, <1>3, <1>4, <1>5 DEF Command

LEMMA AttendedInvStep ==
  ASSUME AttendedInv, [Next]_vars, Commands \subseteq QueueCommands
  PROVE  AttendedInv'
<1>1. ClaimInv /\ ClaimInv' /\ TypeInv /\ ThreadInv
  BY ClaimInvStep, TypeInvParts DEF AttendedInv, ClaimInv, QueueCommands
<1>2. CASE UNCHANGED vars
  BY <1>1, <1>2 DEF AttendedInv, NoStopAsked, ActiveIsRun, Active, Running, vars, queueVars,
                    runtimeVars, historyVars
<1>3. ASSUME NEW t \in Threads, Work(t)
      PROVE  AttendedInv'
  <2>1. CASE ClaimSubmitted(t)
    BY <1>1, <2>1, AttendedClaim
  <2>2. ~ResumeFlag(t) /\ ~ResumeEvents(t) /\ ~ClaimResumed(t)
    BY <1>1 DEF ClaimInv, ResumeFlag, ResumeEvents, ClaimResumed, At, ResumePoints
  <2>3. ~StopFlag(t) /\ ~StopSignal(t) /\ ~StopRow(t) /\ ~StopUndo(t)
    BY DEF AttendedInv, UndisturbedOK, StopFlag, StopSignal, StopRow, StopUndo, At, StopPoints
  <2>4. CASE ~ClaimSubmitted(t)
    <3>1. \E s : Moves(t, s)
      BY <1>1, <1>3, <2>2, <2>3, <2>4, SubmitWork, CheckWork, SetWork, ProviderWork
         DEF Work, Carries
    <3>2. \A u \in Threads \ {t} : thread'[u] = thread[u]
      BY <1>1, <3>1, MovesInv
    <3>3. "submit_cookies" \notin Commands
      BY DEF QueueCommands
    <3>q. QED BY <1>1, <1>3, <2>2, <2>3, <2>4, <3>2, <3>3, AttendedRun, AttendedSetWrite DEF Work
  <2>q. QED BY <2>1, <2>4
<1>4. ASSUME NEW t \in Threads, Abort(t) \/ Restart
      PROVE  AttendedInv'
  <2>1. ASSUME NEW u \in Threads
        PROVE  thread'[u] = Idle \/ thread'[u] = thread[u]
    BY <1>1, <1>4 DEF Abort, Restart, Return, Become, ThreadInv
  <2>2. UNCHANGED jobState /\ faults' # 0
    BY <1>1, <1>4, ControlAssumption DEF Abort, Restart, queueVars, TypeInv, TypeOK
  <2>3. NoStopAsked'
    BY <1>4 DEF Abort, Restart, queueVars, runtimeVars, AttendedInv, NoStopAsked
  <2>4. \A u \in Threads : UndisturbedOK(thread'[u], jobState'[thread'[u].job])
    BY <2>1, <2>2, IdleFresh, FreshOutsideOK DEF AttendedInv
  <2>q. QED BY <1>1, <2>2, <2>3, <2>4 DEF AttendedInv, ActiveIsRun
<1>5. CASE Restart /\ Threads = {}
  <2>1. NoStopAsked' /\ UNCHANGED jobState /\ faults' # 0
    BY <1>1, <1>5, ControlAssumption
       DEF Restart, queueVars, TypeInv, TypeOK, AttendedInv, NoStopAsked
  <2>q. QED BY <1>1, <1>5, <2>1 DEF AttendedInv, ActiveIsRun
<1>q. QED BY <1>1, <1>2, <1>3, <1>4, <1>5, AttendedClaim, AttendedCommand DEF Next

LEMMA AttendedInvInit == Init => AttendedInv
<1> SUFFICES ASSUME Init PROVE AttendedInv
  OBVIOUS
<1>1. NoStopAsked /\ ActiveIsRun
  BY DEF Init, QueueInit, NoStopAsked, ActiveIsRun, Active, Working
<1>q. QED BY <1>1, ClaimInvInit, IdleFresh, FreshOutsideOK DEF Init, AttendedInv

(* Without faults and per-job commands a job that reads as being worked on *)
(* has a thread that will move it on, however many threads claim jobs.     *)
(* One pause refutes it: when set_state overwrites the row of the pause,   *)
(* the run ends at the stop event and leaves the job in a working state.   *)
THEOREM ActiveIsAttended ==
  ASSUME Commands \subseteq QueueCommands
  PROVE  Spec => []ActiveHasRunner
<1>1. AttendedInv => ActiveHasRunner
  BY DEF AttendedInv, ActiveIsRun, ActiveHasRunner, Attended
<1>2. AttendedInv /\ [Next]_vars => AttendedInv'
  BY AttendedInvStep
<1>q. QED BY AttendedInvInit, <1>1, <1>2, PTL DEF Spec
-----------------------------------------------------------------------------
(* The refinement of JobLifecycle. *)

(* Where a run stands tells its row. *)
RowFits(r, row) ==
  /\ r.at \in RunPoints \ {"publish", "setCompleted", "setFailed"} => row \in Working
  /\ r.at = "publish" => row = "publishing"
  /\ r.at = "setCompleted" /\ r.step # "clear" => row = "publishing"
  /\ r.at = "setFailed" => row \in Working \cup {"publishing"}

LifeInv ==
  AttendedInv /\ \A t \in Threads : RowFits(thread[t], jobState[thread[t].job])

LifeNext == Lifecycle!Next \/ UNCHANGED Lifecycle!vars

(* Before set_state stores publishing, no edge leads behind it. *)
LEMMA FlowBefore ==
  ASSUME NEW p \in RunPoints \ {"setPublishing", "publish", "setCompleted", "setFailed"},
         NEW q \in Flow[p] \cup Loop[p]
  PROVE  q \notin {"publish", "setCompleted", "idle"}
<1>1. p \in {"loadContext"} \cup CheckPoints \cup {"discover", "acquire", "operate"}
        \cup {"setDiscovering", "setPlanning", "setAcquiring", "setExporting", "setValidating"}
  BY DEF RunPoints, SetPoints, SetTarget, WorkPoints
<1>2. q \in Flow[p] => q \notin {"publish", "setCompleted", "idle"}
  <2>1. CASE p \in {"loadContext"} \cup CheckPoints
    BY <2>1 DEF Flow, CheckPoints
  <2>2. CASE p \in {"discover", "acquire", "operate"}
    BY <2>2 DEF Flow
  <2>3. CASE p \in {"setDiscovering", "setPlanning", "setAcquiring", "setExporting",
                    "setValidating"}
    BY <2>3 DEF Flow
  <2>q. QED BY <1>1, <2>1, <2>2, <2>3
<1>3. q \in Loop[p] => q \notin {"publish", "setCompleted", "idle"}
  BY DEF Loop
<1>q. QED BY <1>2, <1>3

(* A run that goes on without a write still fits a working row. *)
LEMMA ProceedFits ==
  ASSUME TypeInv, NEW t \in Threads, Proceed(t), NEW row \in Working,
         thread[t].at \in RunPoints \ {"setPublishing", "publish", "setCompleted", "setFailed"}
  PROVE  RowFits(thread'[t], row)
<1>1. PICK s : /\ Moves(t, s)
               /\ \/ s = Idle
                  \/ s.at \in RunPoints /\ s.at \in Flow[thread[t].at] \cup Loop[thread[t].at]
  BY TypeInvParts, ProceedMoves
<1>2. thread'[t] = s
  BY <1>1, TypeInvParts, MovesInv
<1>3. s.at \notin {"publish", "setCompleted"}
  BY <1>1, FlowBefore, IdleType
<1>q. QED BY <1>2, <1>3 DEF RowFits

LEMMA OutsideFits ==
  ASSUME NEW s, s.at \notin RunPoints, NEW row
  PROVE  RowFits(s, row)
<1>1. {"publish", "setCompleted", "setFailed"} \subseteq RunPoints
  BY DEF RunPoints, WorkPoints, SetPoints, SetTarget
<1>q. QED BY <1>1 DEF RowFits

(* One thread moves, and writes at most the row of a job nobody else runs. *)
LEMMA LifeFrame ==
  ASSUME LifeInv, AttendedInv', NEW t \in Threads, NEW j \in Jobs,
         \A u \in Threads \ {t} : thread'[u] = thread[u],
         \A k \in Jobs \ {j} : jobState'[k] = jobState[k],
         jobState'[j] = jobState[j] \/ \A u \in Threads \ {t} : Running(u) => thread[u].job # j,
         RowFits(thread'[t], jobState'[thread'[t].job])
  PROVE  LifeInv'
<1>1. ASSUME NEW u \in Threads \ {t}
      PROVE  RowFits(thread'[u], jobState'[thread'[u].job])
  <2>1. thread'[u] = thread[u] /\ RowFits(thread[u], jobState[thread[u].job])
    BY DEF LifeInv
  <2>2. CASE Running(u)
    <3>1. thread[u].job \in Jobs
      BY <2>2, TypeInvParts, PointSets DEF LifeInv, AttendedInv, ClaimInv, Running
    <3>2. jobState'[thread[u].job] = jobState[thread[u].job]
      BY <2>2, <3>1
    <3>q. QED BY <2>1, <3>2
  <2>3. CASE ~Running(u)
    BY <2>1, <2>3, OutsideFits DEF Running
  <2>q. QED BY <2>2, <2>3
<1>q. QED BY <1>1 DEF LifeInv

(* A write of one row is a step of one phase, or none. *)
LEMMA PhaseStep ==
  ASSUME TypeInv, NEW j \in Jobs, NEW s,
         jobState' = [jobState EXCEPT ![j] = s], queuePaused' = queuePaused
  PROVE  /\ Phase(jobState[j]) = Phase(s) => UNCHANGED Lifecycle!vars
         /\ Lifecycle!Step(j, Phase(jobState[j]), Phase(s))
<1>1. jobState \in [Jobs -> States]
  BY DEF TypeInv, TypeOK, QueueTypeOK
<1>2. \A k \in Jobs : Phase(jobState'[k]) = IF k = j THEN Phase(s) ELSE Phase(jobState[k])
  BY <1>1
<1>q. QED BY <1>2 DEF Lifecycle!vars, Lifecycle!Step

LEMMA PhaseValues ==
  /\ \A s \in Working : Phase(s) = "running"
  /\ Phase("accepted") = "waiting" /\ Phase("publishing") = "committing"
  /\ Phase("completed") = "done" /\ Phase("failed") = "failed" /\ Phase("absent") = "absent"
BY DEF Phase, Working

(* The abstract state only depends on two columns. *)
LEMMA PhaseQuiet ==
  ASSUME UNCHANGED <<jobState, queuePaused>>
  PROVE  UNCHANGED Lifecycle!vars
BY DEF Lifecycle!vars

-----------------------------------------------------------------------------
(* The steps of a run that write no row. *)
LEMMA LifeRun ==
  ASSUME LifeInv, AttendedInv', NEW t \in Threads,
         \A u \in Threads \ {t} : thread'[u] = thread[u],
         "submit_cookies" \notin Commands,
         \/ StoreContext(t) \/ RefuseCookies(t) \/ LoadContext(t)
         \/ CheckContext(t) \/ CheckRow(t)
         \/ SetFlags(t) \/ SetRead(t) \/ SetClear(t)
         \/ WorkStart(t) \/ WorkFinish(t) \/ Interrupted(t) \/ Publish(t)
  PROVE  LifeInv' /\ LifeNext
<1> DEFINE r == thread[t]
           j == r.job
<1>1. /\ TypeInv /\ LocalOK(r) /\ r \in ThreadStates /\ UndisturbedOK(r, jobState[j])
      /\ (r.at # "idle" => j \in Jobs) /\ RowFits(r, jobState[j])
  BY TypeInvParts DEF LifeInv, AttendedInv, ClaimInv
<1>2. UNCHANGED <<jobState, queuePaused>>
  BY DEF StoreContext, RefuseCookies, LoadContext, CheckContext, CheckRow, SetFlags, SetRead, SetClear,
         WorkStart, WorkFinish, Interrupted, Publish, PutContext, ClearFlags, queueVars
<1>3. ~Interrupted(t) /\ ~RefuseCookies(t)
  <2>1. r.at \in WorkPoints => j \in Jobs
    BY <1>1 DEF WorkPoints
  <2>q. QED BY <2>1 DEF Interrupted, RefuseCookies, LifeInv, AttendedInv, NoStopAsked
<1>4. SUFFICES RowFits(thread'[t], jobState[thread'[t].job])
  <2>1. LifeNext
    BY <1>2, PhaseQuiet DEF LifeNext
  <2>2. LifeInv'
    BY <1>2, <1>4 DEF LifeInv
  <2>q. QED BY <2>1, <2>2
<1>5. CASE Return(t)
  BY <1>1, <1>5, ReturnAt, IdleType, OutsideFits, PointSets
<1>6. ASSUME r.at \in RunPoints \ {"setPublishing", "publish", "setCompleted", "setFailed"},
             Proceed(t)
      PROVE  RowFits(thread'[t], jobState[thread'[t].job])
  <2>1. jobState[j] \in Working
    BY <1>1, <1>6 DEF RowFits
  <2>2. thread'[t] = Idle \/ thread'[t].job = j
    BY <1>1, <1>6, ProceedFresh
  <2>3. RowFits(thread'[t], jobState[j])
    BY <1>1, <1>6, <2>1, ProceedFits
  <2>q. QED BY <2>2, <2>3, IdleType, OutsideFits, PointSets
<1>7. CASE StoreContext(t)
  <2>1. CASE Goto(t, "claimSubmitted")
    <3>1. thread'[t].at = "claimSubmitted"
      BY <1>1, <2>1, GotoFresh DEF Fresh
    <3>q. QED BY <3>1, OutsideFits, PointSets DEF SubmitPoints
  <2>q. QED BY <1>5, <1>7, <2>1 DEF StoreContext
<1>8. CASE LoadContext(t)
  <2>1. r.at = "loadContext" /\ "loadContext" \in RunPoints /\ Goto(t, "checkRun")
    BY <1>8 DEF LoadContext, At, RunPoints
  <2>2. jobState[j] \in Working
    BY <1>1, <2>1 DEF RowFits
  <2>3. thread'[t].at = "checkRun" /\ thread'[t].job = j
    BY <1>1, <2>1, GotoFresh DEF Fresh
  <2>q. QED BY <2>2, <2>3 DEF RowFits
<1>9. ASSUME thread'[t].at = r.at, thread'[t].job = j, thread'[t].step # "clear",
             r.step # "clear"
      PROVE  RowFits(thread'[t], jobState[thread'[t].job])
  BY <1>1, <1>9 DEF RowFits
<1>10. CASE CheckContext(t) \/ CheckRow(t)
  <2>1. r.step \in {"context", "row"} /\ r.at \in CheckPoints
    BY <1>1, <1>10 DEF CheckContext, CheckRow, LocalOK
  <2>2. CASE CheckContext(t)
    BY <1>1, <1>9, <2>1, <2>2 DEF CheckContext, Become, TypeInv, TypeOK, ThreadStates
  <2>3. CASE CheckRow(t) /\ Proceed(t)
    <3>1. r.at \in RunPoints \ {"setPublishing", "publish", "setCompleted", "setFailed"}
      BY <2>1, PointSets DEF CheckPoints
    <3>q. QED BY <1>6, <2>3, <3>1
  <2>4. CASE Become(t, [r EXCEPT !.step = "flags", !.target = StopFound(r, jobState[j])])
    BY <1>1, <1>9, <2>1, <2>4 DEF Become, TypeInv, TypeOK, ThreadStates
  <2>q. QED BY <1>5, <1>10, <2>2, <2>3, <2>4 DEF CheckRow
<1>11. CASE SetFlags(t) \/ SetRead(t)
  <2>1. CASE SetFlags(t)
    BY <1>1, <1>9, <2>1 DEF SetFlags, Become, TypeInv, TypeOK, ThreadStates
  <2>2. CASE SetRead(t)
    BY <1>1, <1>9, <2>2 DEF SetRead, Become, TypeInv, TypeOK, ThreadStates
  <2>q. QED BY <1>11, <2>1, <2>2
<1>12. CASE WorkStart(t)
  BY <1>1, <1>9, <1>12 DEF WorkStart, Become, TypeInv, TypeOK, ThreadStates
<1>13. CASE WorkFinish(t)
  <2>1. r.at \in WorkPoints \ {"publish"}
    BY <1>1, <1>13 DEF WorkFinish, LocalOK
  <2>2. r.at \in RunPoints \ {"setPublishing", "publish", "setCompleted", "setFailed"}
    BY <2>1, PointSets DEF WorkPoints
  <2>q. QED BY <1>6, <1>13, <2>2 DEF WorkFinish
<1>14. CASE Publish(t)
  <2>1. jobState[j] = "publishing"
    BY <1>1, <1>14 DEF Publish, At, RowFits
  <2>2. PICK p \in {"setCompleted", "setFailed"} : Goto(t, p)
    BY <1>14 DEF Publish
  <2>3. thread'[t].at = p /\ thread'[t].job = j
    BY <1>1, <2>2, GotoFresh DEF Fresh
  <2>q. QED BY <2>1, <2>3 DEF RowFits
<1>15. CASE SetClear(t)
  BY <1>5, <1>15 DEF SetClear
<1>q. QED BY <1>3, <1>7, <1>8, <1>10, <1>11, <1>12, <1>13, <1>14, <1>15

(* set_state: within the run, from the run to the publication, or to the end. *)
LEMMA LifeSetWrite ==
  ASSUME LifeInv, AttendedInv', NEW t \in Threads,
         \A u \in Threads \ {t} : thread'[u] = thread[u],
         SetWrite(t)
  PROVE  LifeInv' /\ LifeNext
<1> DEFINE r == thread[t]
           j == r.job
<1>1. /\ TypeInv /\ LocalOK(r) /\ r \in ThreadStates /\ r.step = "write"
      /\ UndisturbedOK(r, jobState[j]) /\ RowFits(r, jobState[j])
      /\ r.at \notin ResumePoints
  BY TypeInvParts DEF LifeInv, AttendedInv, ClaimInv, SetWrite
<1>2. r.at \in SetPoints \ {"setAccepted", "setRefused"} /\ r.target = SetTarget[r.at]
  BY <1>1 DEF LocalOK, UndisturbedOK, ResumePoints
<1>3. r.at \in RunPoints /\ j \in Jobs
  BY <1>1, <1>2, PointSets, TypeInvParts
<1>4. \A u \in Threads \ {t} : Running(u) => thread[u].job # j
  BY <1>3 DEF LifeInv, AttendedInv, ClaimInv, AtMostOneRunner, Runners, Running
<1>5. Verdict(r.pause, r.cancel, r.seen, r.target) = r.target
  BY <1>1 DEF Verdict, UndisturbedOK
<1>6. /\ jobState' = [jobState EXCEPT ![j] = r.target]
      /\ queuePaused' = queuePaused
      /\ jobState'[j] = r.target
      /\ \A k \in Jobs \ {j} : jobState'[k] = jobState[k]
  BY <1>1, <1>3, <1>5 DEF SetWrite, PutJob, TypeInv, TypeOK, QueueTypeOK
<1>7. /\ Phase(jobState[j]) = Phase(r.target) => UNCHANGED Lifecycle!vars
      /\ Lifecycle!Step(j, Phase(jobState[j]), Phase(r.target))
  BY <1>1, <1>3, <1>6, PhaseStep
<1>8. SUFFICES LifeNext /\ RowFits(thread'[t], jobState'[thread'[t].job])
  BY <1>3, <1>4, <1>6, LifeFrame
<1>9. ~Commits(r.seen, r.target) => Proceed(t)
  <2>1. r.at \notin CheckPoints
    BY <1>1 DEF UndisturbedOK
  <2>q. QED BY <1>2, <1>5, <2>1 DEF SetWrite, AfterSet
<1>10. CASE r.at \in {"setDiscovering", "setPlanning", "setAcquiring", "setExporting",
                      "setValidating"}
  <2>1. r.target \in Working /\ jobState[j] \in Working
    BY <1>1, <1>2, <1>3, <1>10 DEF SetTarget, Working, RowFits
  <2>2. LifeNext
    <3>1. Phase(jobState[j]) = "running" /\ Phase(r.target) = "running"
      BY <2>1, PhaseValues
    <3>2. UNCHANGED Lifecycle!vars
      BY <1>7, <3>1
    <3>q. QED BY <3>2 DEF LifeNext
  <2>3. Proceed(t)
    BY <1>9, <2>1 DEF Commits, Working
  <2>4. RowFits(thread'[t], r.target)
    BY <1>1, <1>3, <1>10, <2>1, <2>3, ProceedFits
  <2>5. thread'[t] = Idle \/ thread'[t].job = j
    BY <1>1, <1>3, <2>3, ProceedFresh
  <2>q. QED BY <1>6, <2>2, <2>4, <2>5, IdleType, OutsideFits, PointSets
<1>11. CASE r.at = "setPublishing"
  <2>1. r.target = "publishing" /\ jobState[j] \in Working
    BY <1>1, <1>2, <1>3, <1>11 DEF SetTarget, RowFits
  <2>2. Lifecycle!Step(j, "running", "committing")
    BY <1>7, <2>1, PhaseValues
  <2>3. LifeNext
    BY <1>3, <2>2 DEF LifeNext, Lifecycle!Next, Lifecycle!Commit
  <2>4. Proceed(t)
    BY <1>9, <2>1 DEF Commits
  <2>5. Flow[r.at] = {"publish"} /\ Loop[r.at] = {}
    BY <1>3, <1>11 DEF Flow, Loop
  <2>6. Goto(t, "publish")
    BY <2>4, <2>5 DEF Proceed
  <2>7. thread'[t].at = "publish" /\ thread'[t].job = j
    BY <1>1, <2>6, GotoFresh DEF Fresh
  <2>q. QED BY <1>6, <2>1, <2>3, <2>7 DEF RowFits
<1>12. CASE r.at = "setCompleted"
  <2>1. r.target = "completed" /\ jobState[j] = "publishing"
    BY <1>1, <1>2, <1>12 DEF SetTarget, RowFits
  <2>2. Lifecycle!Step(j, "committing", "done")
    BY <1>7, <2>1, PhaseValues
  <2>3. LifeNext
    BY <1>3, <2>2 DEF LifeNext, Lifecycle!Next, Lifecycle!Finish
  <2>4. CASE Commits(r.seen, r.target)
    <3>1. Become(t, [r EXCEPT !.step = "clear"])
      BY <1>5, <2>4 DEF SetWrite
    <3>2. thread'[t].at = "setCompleted" /\ thread'[t].step = "clear"
      BY <1>1, <1>12, <3>1 DEF Become, TypeInv, TypeOK, ThreadStates
    <3>q. QED BY <2>3, <3>2 DEF RowFits
  <2>5. CASE ~Commits(r.seen, r.target)
    <3>1. Flow[r.at] = {"idle"} /\ Loop[r.at] = {}
      BY <1>3, <1>12 DEF Flow, Loop
    <3>2. thread'[t] = Idle
      BY <1>1, <1>9, <2>5, <3>1, ReturnAt DEF Proceed
    <3>q. QED BY <2>3, <3>2, IdleType, OutsideFits, PointSets
  <2>q. QED BY <2>4, <2>5
<1>13. CASE r.at = "setFailed"
  <2>1. r.target = "failed" /\ jobState[j] \in Working \cup {"publishing"}
    BY <1>1, <1>2, <1>13 DEF SetTarget, RowFits
  <2>2. Lifecycle!Step(j, "running", "failed") \/ Lifecycle!Step(j, "committing", "failed")
    BY <1>7, <2>1, PhaseValues
  <2>3. LifeNext
    BY <1>3, <2>2 DEF LifeNext, Lifecycle!Next, Lifecycle!Fail
  <2>4. Proceed(t)
    BY <1>9, <2>1 DEF Commits
  <2>5. Flow[r.at] = {"idle"} /\ Loop[r.at] = {}
    BY <1>3, <1>13 DEF Flow, Loop
  <2>6. thread'[t] = Idle
    BY <1>1, <2>4, <2>5, ReturnAt DEF Proceed
  <2>q. QED BY <2>3, <2>6, IdleType, OutsideFits, PointSets
<1>q. QED BY <1>2, <1>10, <1>11, <1>12, <1>13 DEF SetPoints, SetTarget

(* A claim starts a waiting job; submission brings it in. *)
LEMMA LifeClaim ==
  ASSUME LifeInv, AttendedInv', NEW t \in Threads, ClaimSubmitted(t) \/ RunNext(t)
  PROVE  LifeInv' /\ LifeNext
<1>1. TypeInv /\ ThreadInv
  BY TypeInvParts DEF LifeInv, AttendedInv, ClaimInv
<1>2. {"checkRun", "loadContext"} \subseteq RunPoints \ {"publish", "setCompleted", "setFailed"}
  BY DEF RunPoints, CheckPoints
<1>3. ASSUME NEW j \in Jobs, NEW p \in {"checkRun", "loadContext"}, Claim(j),
             Fresh(thread'[t], p), thread'[t].job = j,
             \A u \in Threads \ {t} : thread'[u] = thread[u]
      PROVE  LifeInv' /\ LifeNext
  <2>1. /\ jobState[j] = "accepted" /\ jobState' = [jobState EXCEPT ![j] = "discovering"]
        /\ ~queuePaused /\ queuePaused' = queuePaused
        /\ jobState'[j] = "discovering" /\ \A k \in Jobs \ {j} : jobState'[k] = jobState[k]
    BY <1>1, <1>3 DEF Claim, Claimable, PutJob, TypeInv, TypeOK, QueueTypeOK
  <2>2. \A u \in Threads \ {t} : Running(u) => thread[u].job # j
    BY <2>1 DEF LifeInv, AttendedInv, ClaimInv
  <2>3. RowFits(thread'[t], jobState'[thread'[t].job])
    BY <1>2, <1>3, <2>1 DEF RowFits, Fresh, Working
  <2>4. "discovering" \in Working
    BY DEF Working
  <2>5. Lifecycle!Step(j, "waiting", "running")
    BY <1>1, <2>1, <2>4, PhaseStep, PhaseValues
  <2>6. LifeNext
    BY <2>1, <2>5 DEF LifeNext, Lifecycle!Next, Lifecycle!Start
  <2>q. QED BY <1>3, <2>1, <2>2, <2>3, <2>6, LifeFrame
<1>4. CASE ClaimSubmitted(t)
  <2>1. \A u \in Threads \ {t} : thread'[u] = thread[u]
    BY <1>1, <1>4 DEF ClaimSubmitted, Return, Goto, Become, ThreadInv
  <2>2. thread[t].job \in Jobs
    BY <1>1, <1>4, TypeInvParts DEF ClaimSubmitted, At
  <2>3. CASE Claim(thread[t].job) /\ Goto(t, "checkRun")
    BY <1>1, <1>3, <2>1, <2>2, <2>3, GotoFresh
  <2>4. CASE Return(t) /\ UNCHANGED queueVars
    <3>1. thread'[t] = Idle /\ UNCHANGED <<jobState, queuePaused>>
      BY <1>1, <2>4, ReturnAt DEF queueVars
    <3>2. RowFits(thread'[t], jobState'[thread'[t].job])
      BY <3>1, IdleType, OutsideFits, PointSets
    <3>q. QED BY <2>1, <2>2, <3>1, <3>2, LifeFrame, PhaseQuiet DEF LifeNext
  <2>q. QED BY <1>4, <2>3, <2>4 DEF ClaimSubmitted
<1>5. CASE RunNext(t)
  <2>1. PICK j \in Jobs : Claim(j) /\ Begin(t, j, "loadContext")
    BY <1>5 DEF RunNext, ClaimNext
  <2>2. Fresh(thread'[t], "loadContext") /\ thread'[t].job = j
    BY <1>1, <2>1, IdleType DEF Begin, Become, Enter, Fresh, ThreadInv, ThreadStates
  <2>3. \A u \in Threads \ {t} : thread'[u] = thread[u]
    BY <1>1, <2>1 DEF Begin, Become, ThreadInv
  <2>q. QED BY <1>3, <2>1, <2>2, <2>3
<1>q. QED BY <1>4, <1>5

LEMMA LifeCommand ==
  ASSUME LifeInv, AttendedInv', NEW t \in Threads, Command(t), Commands \subseteq QueueCommands
  PROVE  LifeInv' /\ LifeNext
<1>1. TypeInv /\ ThreadInv
  BY TypeInvParts DEF LifeInv, AttendedInv, ClaimInv
<1>2. ASSUME NEW j \in Jobs, Submit(t, j)
      PROVE  LifeInv' /\ LifeNext
  <2>1. Fresh(thread'[t], "storeContext")
    BY <1>1, <1>2, IdleType DEF Submit, Begin, Become, Enter, Fresh, ThreadInv, ThreadStates
  <2>2. \A u \in Threads \ {t} : thread'[u] = thread[u]
    BY <1>1, <1>2 DEF Submit, Begin, Become, ThreadInv
  <2>3. /\ jobState[j] = "absent" /\ jobState' = [jobState EXCEPT ![j] = "accepted"]
        /\ queuePaused' = queuePaused
        /\ \A k \in Jobs \ {j} : jobState'[k] = jobState[k]
    BY <1>1, <1>2 DEF Submit, PutJob, TypeInv, TypeOK, QueueTypeOK
  <2>4. \A u \in Threads \ {t} : Running(u) => thread[u].job # j
    BY <2>3 DEF LifeInv, AttendedInv, ClaimInv
  <2>5. RowFits(thread'[t], jobState'[thread'[t].job])
    BY <2>1, OutsideFits, PointSets DEF Fresh, SubmitPoints
  <2>6. Lifecycle!Step(j, "absent", "waiting")
    BY <1>1, <2>3, PhaseStep, PhaseValues
  <2>7. LifeNext
    BY <2>6 DEF LifeNext, Lifecycle!Next, Lifecycle!Arrive
  <2>q. QED BY <2>2, <2>3, <2>4, <2>5, <2>7, LifeFrame
<1>3. ASSUME NEW value \in BOOLEAN, HoldQueue(t, value)
      PROVE  LifeInv' /\ LifeNext
  <2>1. UNCHANGED <<jobState, thread>> /\ queuePaused' = value
    BY <1>3 DEF HoldQueue, SetPaused
  <2>2. Lifecycle!Hold(value)
    BY <2>1 DEF Lifecycle!Hold
  <2>3. LifeNext
    BY <2>2 DEF LifeNext, Lifecycle!Next
  <2>q. QED BY <2>1, <2>3 DEF LifeInv
<1>4. ASSUME NEW j \in Jobs, NEW kind \in {"paused", "cancelled"}
      PROVE  ~RequestStop(t, j, kind)
  <2>1. StopCommand[kind] \notin QueueCommands
    BY DEF StopCommand, QueueCommands
  <2>q. QED BY <2>1 DEF RequestStop
<1>5. ASSUME NEW j \in Jobs
      PROVE  ~RequestResume(t, j)
  BY DEF RequestResume, QueueCommands
<1>q. QED BY <1>2, <1>3, <1>4, <1>5 DEF Command

LEMMA LifeInvStep ==
  ASSUME LifeInv, [Next]_vars, Commands \subseteq QueueCommands
  PROVE  LifeInv' /\ LifeNext
<1>1. AttendedInv /\ AttendedInv' /\ ClaimInv /\ TypeInv /\ ThreadInv
  BY AttendedInvStep, TypeInvParts DEF LifeInv, AttendedInv, ClaimInv
<1>2. CASE UNCHANGED vars
  <2>1. UNCHANGED <<jobState, queuePaused, thread>>
    BY <1>2 DEF vars, queueVars
  <2>q. QED BY <1>1, <2>1, PhaseQuiet DEF LifeInv, LifeNext
<1>3. ASSUME NEW t \in Threads, Work(t)
      PROVE  LifeInv' /\ LifeNext
  <2>1. CASE ClaimSubmitted(t)
    BY <1>1, <2>1, LifeClaim
  <2>2. ~ResumeFlag(t) /\ ~ResumeEvents(t) /\ ~ClaimResumed(t)
    BY <1>1 DEF ClaimInv, ResumeFlag, ResumeEvents, ClaimResumed, At, ResumePoints
  <2>3. ~StopFlag(t) /\ ~StopSignal(t) /\ ~StopRow(t) /\ ~StopUndo(t)
    BY <1>1 DEF AttendedInv, UndisturbedOK, StopFlag, StopSignal, StopRow, StopUndo, At, StopPoints
  <2>4. CASE ~ClaimSubmitted(t)
    <3>1. \E s : Moves(t, s)
      BY <1>1, <1>3, <2>2, <2>3, <2>4, SubmitWork, CheckWork, SetWork, ProviderWork
         DEF Work, Carries
    <3>2. \A u \in Threads \ {t} : thread'[u] = thread[u]
      BY <1>1, <3>1, MovesInv
    <3>3. "submit_cookies" \notin Commands
      BY DEF QueueCommands
    <3>q. QED BY <1>1, <1>3, <2>2, <2>3, <2>4, <3>2, <3>3, LifeRun, LifeSetWrite DEF Work
  <2>q. QED BY <2>1, <2>4
<1>4. CASE (\E t \in Threads : Abort(t)) \/ Restart
  <2>1. ASSUME NEW u \in Threads
        PROVE  thread'[u] = Idle \/ thread'[u] = thread[u]
    BY <1>1, <1>4 DEF Abort, Restart, Return, Become, ThreadInv
  <2>2. UNCHANGED <<jobState, queuePaused>>
    BY <1>4 DEF Abort, Restart, queueVars
  <2>3. \A u \in Threads : RowFits(thread'[u], jobState'[thread'[u].job])
    BY <2>1, <2>2, IdleType, OutsideFits, PointSets DEF LifeInv
  <2>q. QED BY <1>1, <2>2, <2>3, PhaseQuiet DEF LifeInv, LifeNext
<1>q. QED BY <1>1, <1>2, <1>3, <1>4, LifeClaim, LifeCommand DEF Next

LEMMA LifeInvInit == Init => LifeInv /\ Lifecycle!Init
<1> SUFFICES ASSUME Init PROVE LifeInv /\ Lifecycle!Init
  OBVIOUS
<1>1. LifeInv
  BY AttendedInvInit, IdleType, OutsideFits, PointSets DEF Init, LifeInv
<1>2. Lifecycle!Init
  BY PhaseValues DEF Init, QueueInit, Lifecycle!Init
<1>q. QED BY <1>1, <1>2

(* Without per-job commands every step of every thread, faults included,   *)
(* is one step of the abstract life of one job, a hold of the queue, or    *)
(* nothing: a job is started once, never while the queue is held, and ends *)
(* one way.                                                                *)
THEOREM ImplementsLifecycle ==
  ASSUME Commands \subseteq QueueCommands
  PROVE  Spec => LifecycleSpec
<1>1. LifeInv /\ [Next]_vars => LifeInv' /\ [Lifecycle!Next]_(Lifecycle!vars)
  BY LifeInvStep DEF LifeNext
<1>q. QED BY LifeInvInit, <1>1, PTL DEF Spec, LifecycleSpec, Lifecycle!Spec

-----------------------------------------------------------------------------
(* Stops. *)

(* What a thread on job j may be at once j was cancelled: it is no stop    *)
(* and no resume, and if it has read the flags it has read the request.    *)
CancelOK(r, j) ==
  r.job = j =>
    /\ r.at \notin StopPoints \cup ResumePoints
    /\ r.step # "clear"
    /\ r.step \in {"state", "write"} => r.cancel
    /\ r.step = "write" => r.seen # "publishing"

CancelStands(j) ==
  /\ jobState[j] = "cancelled"
  /\ cancelFlag[j]
  /\ \A u \in Threads : CancelOK(thread[u], j)

CancelInv ==
  /\ TypeInv
  /\ \A j \in Jobs : stopped[j] = "cancelled" => CancelStands(j)

-----------------------------------------------------------------------------
(* A step inside a thread stays with the thread's job or ends its work. *)
LEMMA WorkKeepsJob ==
  ASSUME TypeInv, NEW t \in Threads, Work(t)
  PROVE  /\ thread'[t] = Idle \/ thread'[t].job = thread[t].job
         /\ \A u \in Threads \ {t} : thread'[u] = thread[u]
         /\ thread[t].job \in Jobs
<1> DEFINE r == thread[t]
<1>1. r \in ThreadStates /\ thread \in [Threads -> ThreadStates] /\ LocalOK(r)
  BY TypeInvParts DEF TypeInv, TypeOK
<1>2. ASSUME NEW s, s.job = r.job, Become(t, s)
      PROVE  thread'[t].job = r.job /\ \A u \in Threads \ {t} : thread'[u] = thread[u]
  BY <1>1, <1>2 DEF Become
<1>3. Return(t) => thread'[t] = Idle /\ \A u \in Threads \ {t} : thread'[u] = thread[u]
  BY <1>1 DEF Return, Become
<1>4. ASSUME NEW p, Goto(t, p)
      PROVE  thread'[t].job = r.job /\ \A u \in Threads \ {t} : thread'[u] = thread[u]
  <2>1. Enter(r, p).job = r.job
    BY <1>1 DEF Enter, ThreadStates
  <2>q. QED BY <1>2, <1>4, <2>1 DEF Goto
<1>5. ASSUME Proceed(t)
      PROVE  /\ thread'[t] = Idle \/ thread'[t].job = r.job
             /\ \A u \in Threads \ {t} : thread'[u] = thread[u]
  <2>1. ASSUME NEW p, Become(t, [Enter(r, p) EXCEPT !.laps = @ + 1])
        PROVE  thread'[t].job = r.job /\ \A u \in Threads \ {t} : thread'[u] = thread[u]
    <3>1. [Enter(r, p) EXCEPT !.laps = @ + 1].job = r.job
      BY <1>1 DEF Enter, ThreadStates
    <3>q. QED BY <1>2, <2>1, <3>1
  <2>q. QED BY <1>3, <1>4, <1>5, <2>1 DEF Proceed
<1>6. CASE StoreContext(t) \/ RefuseCookies(t) \/ ClaimSubmitted(t) \/ LoadContext(t)
             \/ WorkFinish(t) \/ Interrupted(t) \/ Publish(t) \/ SetClear(t)
             \/ ResumeEvents(t) \/ ClaimResumed(t)
  BY <1>3, <1>4, <1>5, <1>6, TypeInvParts
     DEF StoreContext, RefuseCookies, ClaimSubmitted, LoadContext, WorkFinish, Interrupted, Publish,
         SetClear, ResumeEvents, ClaimResumed, At, LocalOK, WorkPoints
<1>7. CASE CheckContext(t) \/ CheckRow(t)
  <2>1. r.job \in Jobs
    BY <1>1, <1>7 DEF CheckContext, CheckRow, LocalOK, CheckPoints
  <2>2. CASE CheckContext(t)
    <3> DEFINE s == [r EXCEPT !.step = "row", !.pause = pauseFlag[r.job], !.cancel = cancelFlag[r.job]]
    <3>1. s.job = r.job /\ Become(t, s)
      BY <1>1, <2>2 DEF CheckContext, ThreadStates
    <3>q. QED BY <1>2, <2>1, <3>1
  <2>3. CASE CheckRow(t)
    <3>1. ASSUME NEW x, Become(t, [r EXCEPT !.step = "flags", !.target = x])
          PROVE  thread'[t].job = r.job /\ \A u \in Threads \ {t} : thread'[u] = thread[u]
      <4>1. [r EXCEPT !.step = "flags", !.target = x].job = r.job
        BY <1>1 DEF ThreadStates
      <4>q. QED BY <1>2, <3>1, <4>1
    <3>q. QED BY <1>3, <1>5, <2>1, <2>3, <3>1 DEF CheckRow
  <2>q. QED BY <1>7, <2>2, <2>3
<1>8. CASE SetFlags(t) \/ SetRead(t) \/ SetWrite(t)
  <2>1. r.job \in Jobs
    BY <1>1, <1>8 DEF SetFlags, SetRead, SetWrite, LocalOK, CheckPoints, SetPoints, SetTarget
  <2>2. CASE SetFlags(t)
    <3> DEFINE s == [r EXCEPT !.step = "state", !.pause = pauseFlag[r.job], !.cancel = cancelFlag[r.job]]
    <3>1. s.job = r.job /\ Become(t, s)
      BY <1>1, <2>2 DEF SetFlags, ThreadStates
    <3>q. QED BY <1>2, <2>1, <3>1
  <2>3. CASE SetRead(t)
    <3> DEFINE s == [r EXCEPT !.step = "write", !.seen = jobState[r.job]]
    <3>1. s.job = r.job /\ Become(t, s)
      BY <1>1, <2>3 DEF SetRead, ThreadStates
    <3>q. QED BY <1>2, <2>1, <3>1
  <2>4. CASE SetWrite(t)
    <3>1. CASE Become(t, [r EXCEPT !.step = "clear"])
      <4>1. [r EXCEPT !.step = "clear"].job = r.job
        BY <1>1 DEF ThreadStates
      <4>q. QED BY <1>2, <2>1, <3>1, <4>1
    <3>2. CASE AfterSet(t)
      <4>1. Goto(t, "claimResumed") \/ Return(t) \/ Proceed(t)
        BY <3>2 DEF AfterSet
      <4>q. QED BY <1>3, <1>4, <1>5, <2>1, <4>1
    <3>q. QED BY <1>3, <2>1, <2>4, <3>1, <3>2 DEF SetWrite
  <2>q. QED BY <1>8, <2>2, <2>3, <2>4
<1>9. CASE WorkStart(t)
  <2>1. [r EXCEPT !.step = "finish"].job = r.job /\ r.job \in Jobs
    BY <1>1, <1>9 DEF WorkStart, ThreadStates, LocalOK, WorkPoints
  <2>q. QED BY <1>2, <1>9, <2>1 DEF WorkStart
<1>10. CASE StopFlag(t) \/ StopSignal(t) \/ StopRow(t) \/ StopUndo(t) \/ ResumeFlag(t)
  <2>1. r.job \in Jobs
    BY <1>1, <1>10 DEF StopFlag, StopSignal, StopRow, StopUndo, ResumeFlag, At, LocalOK
  <2>2. ASSUME NEW p, Become(t, [r EXCEPT !.at = p])
        PROVE  thread'[t].job = r.job /\ \A u \in Threads \ {t} : thread'[u] = thread[u]
    <3>1. [r EXCEPT !.at = p].job = r.job
      BY <1>1 DEF ThreadStates
    <3>q. QED BY <1>2, <2>2, <3>1
  <2>q. QED BY <1>3, <1>10, <2>1, <2>2 DEF StopFlag, StopSignal, StopRow, StopUndo, ResumeFlag
<1>q. QED BY <1>6, <1>7, <1>8, <1>9, <1>10 DEF Work

(* A step inside a thread writes the row and the flags of its own job. *)
LEMMA WorkKeepsRows ==
  ASSUME TypeInv, NEW t \in Threads, Work(t), NEW j \in Jobs, j # thread[t].job
  PROVE  /\ jobState'[j] = jobState[j]
         /\ pauseFlag'[j] = pauseFlag[j] /\ cancelFlag'[j] = cancelFlag[j]
         /\ stopped'[j] = stopped[j]
<1> DEFINE k == thread[t].job
<1>1. /\ jobState \in [Jobs -> States] /\ pauseFlag \in [Jobs -> BOOLEAN]
      /\ cancelFlag \in [Jobs -> BOOLEAN] /\ DOMAIN stopped = Jobs
  BY DEF TypeInv, TypeOK, QueueTypeOK
<1>2. \A s : PutJob(k, s) => /\ jobState'[j] = jobState[j]
                             /\ pauseFlag'[j] = pauseFlag[j] /\ cancelFlag'[j] = cancelFlag[j]
  BY <1>1 DEF PutJob
<1>3. Claim(k) => /\ jobState'[j] = jobState[j]
                  /\ pauseFlag'[j] = pauseFlag[j] /\ cancelFlag'[j] = cancelFlag[j]
  BY <1>2 DEF Claim
<1>4. \A kind, value : SetFlag(k, kind, value) =>
        /\ jobState'[j] = jobState[j]
        /\ pauseFlag'[j] = pauseFlag[j] /\ cancelFlag'[j] = cancelFlag[j]
  BY <1>1 DEF SetFlag
<1>5. ClearFlags(k) \/ PutContext(k) \/ UNCHANGED queueVars =>
        /\ jobState'[j] = jobState[j]
        /\ pauseFlag'[j] = pauseFlag[j] /\ cancelFlag'[j] = cancelFlag[j]
  BY <1>1 DEF ClearFlags, PutContext, queueVars
<1>6. CASE StopRow(t)
  <2>1. stopped'[j] = stopped[j]
    BY <1>1, <1>6 DEF StopRow
  <2>q. QED BY <1>2, <1>5, <1>6, <2>1 DEF StopRow, TransitionUnlessCommitted
<1>7. CASE SetWrite(t) \/ ClaimSubmitted(t) \/ ClaimResumed(t)
  BY <1>2, <1>3, <1>5, <1>7 DEF SetWrite, ClaimSubmitted, ClaimResumed, historyVars
<1>8. CASE StopFlag(t) \/ StopUndo(t) \/ ResumeFlag(t)
  BY <1>4, <1>8 DEF StopFlag, StopUndo, ResumeFlag, historyVars
<1>9. CASE StoreContext(t) \/ RefuseCookies(t) \/ LoadContext(t) \/ CheckContext(t) \/ CheckRow(t)
             \/ SetFlags(t) \/ SetRead(t) \/ SetClear(t) \/ WorkStart(t) \/ WorkFinish(t)
             \/ Interrupted(t) \/ Publish(t) \/ StopSignal(t) \/ ResumeEvents(t)
  BY <1>5, <1>9
     DEF StoreContext, RefuseCookies, LoadContext, CheckContext, CheckRow, SetFlags, SetRead, SetClear,
         WorkStart, WorkFinish, Interrupted, Publish, StopSignal, ResumeEvents, historyVars
<1>q. QED BY <1>6, <1>7, <1>8, <1>9 DEF Work

(* Threads that have just entered a point, or left all of them. *)
LEMMA FreshCancelOK ==
  ASSUME NEW j, NEW p \in Points \ (StopPoints \cup ResumePoints), NEW s, Fresh(s, p)
  PROVE  CancelOK(s, j)
BY DEF Fresh, CancelOK, FirstStep

LEMMA IdleCancelOK ==
  ASSUME NEW j
  PROVE  CancelOK(Idle, j)
BY PointSets, IdleFresh, FreshCancelOK DEF ResumePoints

(* A run that goes on does so at a fresh point. *)
LEMMA ProceedCancelOK ==
  ASSUME TypeInv, NEW t \in Threads, thread[t].at \in RunPoints, Proceed(t), NEW j
  PROVE  CancelOK(thread'[t], j)
<1>1. RunPoints \subseteq Points \ (StopPoints \cup ResumePoints)
  BY PointSets
<1>q. QED BY <1>1, ProceedFresh, FreshCancelOK, IdleCancelOK

(* The steps of the threads that are on the cancelled job itself. *)
LEMMA CancelOwn ==
  ASSUME TypeInv, NEW t \in Threads, Work(t), NEW j \in Jobs, j = thread[t].job, CancelStands(j)
  PROVE  /\ CancelOK(thread'[t], j)
         /\ jobState'[j] = "cancelled" /\ cancelFlag'[j]
<1> DEFINE r == thread[t]
<1>1. /\ r \in ThreadStates /\ thread \in [Threads -> ThreadStates] /\ LocalOK(r)
      /\ jobState \in [Jobs -> States]
  BY TypeInvParts DEF TypeInv, TypeOK, QueueTypeOK
<1>2. /\ r.at \notin StopPoints \cup ResumePoints /\ r.step # "clear"
      /\ (r.step \in {"state", "write"} => r.cancel)
      /\ (r.step = "write" => r.seen # "publishing")
      /\ jobState[j] = "cancelled" /\ cancelFlag[j]
  BY DEF CancelStands, CancelOK
<1>3. /\ ~StopFlag(t) /\ ~StopSignal(t) /\ ~StopRow(t) /\ ~StopUndo(t)
      /\ ~ResumeFlag(t) /\ ~ResumeEvents(t) /\ ~ClaimResumed(t) /\ ~SetClear(t)
  BY <1>2 DEF StopFlag, StopSignal, StopRow, StopUndo, ResumeFlag, ResumeEvents, ClaimResumed,
              SetClear, At, StopPoints, ResumePoints
<1>4. ~Claim(j)
  BY <1>2 DEF Claim, Claimable
<1>5. CASE SetWrite(t)
  <2>1. r.step = "write" /\ r.cancel /\ ~Commits(r.seen, r.target)
    BY <1>2, <1>5 DEF SetWrite, Commits
  <2>2. Verdict(r.pause, r.cancel, r.seen, r.target) = "cancelled"
    BY <2>1 DEF Verdict
  <2>3. jobState'[j] = "cancelled" /\ cancelFlag'[j]
    BY <1>1, <1>2, <1>5, <2>2 DEF SetWrite, PutJob
  <2>4. r.at # "setAccepted"
    BY <1>2 DEF ResumePoints
  <2>5. Return(t) \/ (r.at \in SetPoints \ {"setAccepted", "setRefused"} /\ Proceed(t))
    BY <1>1, <1>5, <2>1, <2>4 DEF SetWrite, AfterSet, LocalOK
  <2>6. CancelOK(thread'[t], j)
    BY <1>1, <2>5, ReturnAt, IdleCancelOK, ProceedCancelOK, PointSets
  <2>q. QED BY <2>3, <2>6
<1>6. CASE ~SetWrite(t)
  <2>1. jobState'[j] = "cancelled" /\ cancelFlag'[j]
    BY <1>2, <1>3, <1>4, <1>6
       DEF Work, StoreContext, RefuseCookies, ClaimSubmitted, LoadContext, CheckContext, CheckRow,
           SetFlags, SetRead, WorkStart, WorkFinish, Interrupted, Publish, PutContext, queueVars
  <2> SUFFICES CancelOK(thread'[t], j)
    BY <2>1
  <2>2. CASE Return(t)
    BY <1>1, <2>2, ReturnAt, IdleCancelOK
  <2>3. ASSUME NEW p \in {"claimSubmitted", "setRefused", "checkRun", "setCompleted", "setFailed"},
               Goto(t, p)
        PROVE  CancelOK(thread'[t], j)
    <3>1. p \in Points \ (StopPoints \cup ResumePoints)
      BY <2>3, PointSets
         DEF Points, SubmitPoints, RunPoints, CheckPoints, SetPoints, SetTarget, StopPoints, ResumePoints
    <3>q. QED BY <2>3, <3>1, GotoFresh, FreshCancelOK
  <2>4. ASSUME r.at \in RunPoints, Proceed(t)
        PROVE  CancelOK(thread'[t], j)
    BY <2>4, ProceedCancelOK
  <2>5. CASE CheckContext(t) \/ CheckRow(t)
    <3>1. r.at \in CheckPoints /\ r.at \in RunPoints
      BY <1>1, <2>5, PointSets DEF CheckContext, CheckRow, LocalOK
    <3>2. CASE CheckContext(t)
      <4>1. thread'[t].at = r.at /\ thread'[t].step = "row"
        BY <1>1, <3>2 DEF CheckContext, Become, ThreadStates
      <4>q. QED BY <1>2, <4>1 DEF CancelOK
    <3>3. ASSUME NEW x, Become(t, [r EXCEPT !.step = "flags", !.target = x])
          PROVE  CancelOK(thread'[t], j)
      <4>1. thread'[t].at = r.at /\ thread'[t].step = "flags"
        BY <1>1, <3>3 DEF Become, ThreadStates
      <4>q. QED BY <1>2, <4>1 DEF CancelOK
    <3>q. QED BY <2>2, <2>4, <2>5, <3>1, <3>2, <3>3 DEF CheckRow
  <2>6. CASE SetFlags(t)
    <3>1. thread'[t].at = r.at /\ thread'[t].step = "state" /\ thread'[t].cancel = cancelFlag[j]
      BY <1>1, <2>6 DEF SetFlags, Become, ThreadStates
    <3>q. QED BY <1>2, <3>1 DEF CancelOK
  <2>7. CASE SetRead(t)
    <3>1. /\ thread'[t].at = r.at /\ thread'[t].step = "write" /\ thread'[t].cancel = r.cancel
          /\ thread'[t].seen = "cancelled" /\ r.step = "state"
      BY <1>1, <1>2, <2>7 DEF SetRead, Become, ThreadStates
    <3>q. QED BY <1>2, <3>1 DEF CancelOK
  <2>8. CASE WorkStart(t)
    <3>1. thread'[t].at = r.at /\ thread'[t].step = "finish"
      BY <1>1, <2>8 DEF WorkStart, Become, ThreadStates
    <3>q. QED BY <1>2, <3>1 DEF CancelOK
  <2>9. CASE WorkFinish(t) \/ Interrupted(t)
    <3>1. r.at \in RunPoints
      BY <1>1, <2>9, PointSets DEF WorkFinish, Interrupted, LocalOK
    <3>q. QED BY <2>2, <2>4, <2>9, <3>1 DEF WorkFinish, Interrupted
  <2>10. CASE StoreContext(t) \/ RefuseCookies(t) \/ ClaimSubmitted(t) \/ LoadContext(t) \/ Publish(t)
    BY <1>4, <2>2, <2>3, <2>10 DEF StoreContext, RefuseCookies, ClaimSubmitted, LoadContext, Publish
  <2>q. QED BY <1>3, <1>6, <2>5, <2>6, <2>7, <2>8, <2>9, <2>10 DEF Work
<1>q. QED BY <1>5, <1>6

(* A cancel that stands keeps standing, whoever moves. *)
LEMMA CancelStays ==
  ASSUME TypeInv, Next, NEW j \in Jobs, CancelStands(j)
  PROVE  CancelStands(j)'
<1>1. ASSUME NEW t \in Threads, \A u \in Threads \ {t} : thread'[u] = thread[u],
             CancelOK(thread'[t], j), jobState'[j] = "cancelled", cancelFlag'[j]
      PROVE  CancelStands(j)'
  BY <1>1 DEF CancelStands
<1>2. jobState[j] = "cancelled" /\ cancelFlag[j] /\ j # NoJob /\ Idle.job = NoJob
  BY ControlAssumption DEF CancelStands, Idle
<1>3. thread \in [Threads -> ThreadStates] /\ jobState \in [Jobs -> States]
  BY DEF TypeInv, TypeOK, QueueTypeOK
<1>4. ASSUME NEW t \in Threads, Work(t)
      PROVE  CancelStands(j)'
  <2>1. CASE j = thread[t].job
    BY <1>1, <1>4, <2>1, CancelOwn, WorkKeepsJob
  <2>2. CASE j # thread[t].job
    <3>1. CancelOK(thread'[t], j)
      BY <1>2, <1>4, <2>2, WorkKeepsJob DEF CancelOK
    <3>q. QED BY <1>1, <1>2, <1>4, <2>2, <3>1, WorkKeepsJob, WorkKeepsRows
  <2>q. QED BY <2>1, <2>2
<1>5. ASSUME NEW t \in Threads, RunNext(t)
      PROVE  CancelStands(j)'
  <2>1. PICK k \in Jobs : Claim(k) /\ Begin(t, k, "loadContext")
    BY <1>5 DEF RunNext, ClaimNext
  <2>2. k # j
    BY <1>2, <2>1 DEF Claim, Claimable
  <2>3. thread'[t].job = k /\ \A u \in Threads \ {t} : thread'[u] = thread[u]
    BY <1>3, <2>1, IdleType DEF Begin, Become, Enter, ThreadStates
  <2>4. jobState'[j] = "cancelled" /\ cancelFlag'[j]
    BY <1>2, <1>3, <2>1, <2>2 DEF Claim, PutJob
  <2>q. QED BY <1>1, <2>2, <2>3, <2>4 DEF CancelOK
<1>6. ASSUME NEW t \in Threads, Command(t)
      PROVE  CancelStands(j)'
  <2>1. ASSUME NEW k \in Jobs, Submit(t, k)
        PROVE  CancelStands(j)'
    <3>1. k # j
      BY <1>2, <2>1 DEF Submit
    <3>2. thread'[t].job = k /\ \A u \in Threads \ {t} : thread'[u] = thread[u]
      BY <1>3, <2>1, IdleType DEF Submit, Begin, Become, Enter, ThreadStates
    <3>3. jobState'[j] = "cancelled" /\ cancelFlag'[j]
      BY <1>2, <1>3, <2>1, <3>1 DEF Submit, PutJob
    <3>q. QED BY <1>1, <3>1, <3>2, <3>3 DEF CancelOK
  <2>2. ASSUME NEW k \in Jobs, NEW kind \in {"paused", "cancelled"},
               RequestStop(t, k, kind) \/ RequestResume(t, k)
        PROVE  CancelStands(j)'
    <3>1. k # j
      BY <1>2, <2>2 DEF RequestStop, RequestResume, Committed, Terminal
    <3>2. thread'[t].job = k /\ \A u \in Threads \ {t} : thread'[u] = thread[u]
      <4>1. CASE RequestStop(t, k, kind)
        <5>1. [Idle EXCEPT !.at = "stopFlag", !.job = k, !.target = kind].job = k
          BY DEF Idle
        <5>q. QED BY <1>3, <4>1, <5>1 DEF RequestStop, Become
      <4>2. CASE RequestResume(t, k)
        <5>1. [Idle EXCEPT !.at = "resumeFlag", !.job = k, !.seen = jobState[k]].job = k
          BY DEF Idle
        <5>q. QED BY <1>3, <4>2, <5>1 DEF RequestResume, Become
      <4>q. QED BY <2>2, <4>1, <4>2
    <3>3. jobState'[j] = "cancelled" /\ cancelFlag'[j]
      BY <1>2, <2>2 DEF RequestStop, RequestResume, queueVars
    <3>q. QED BY <1>1, <3>1, <3>2, <3>3 DEF CancelOK
  <2>3. ASSUME NEW value \in BOOLEAN, HoldQueue(t, value)
        PROVE  CancelStands(j)'
    BY <2>3 DEF HoldQueue, SetPaused, CancelStands
  <2>q. QED BY <1>6, <2>1, <2>2, <2>3 DEF Command
<1>7. ASSUME NEW t \in Threads, Abort(t)
      PROVE  CancelStands(j)'
  <2>1. thread'[t] = Idle /\ \A u \in Threads \ {t} : thread'[u] = thread[u]
    BY <1>3, <1>7 DEF Abort, Return, Become
  <2>q. QED BY <1>1, <1>2, <1>7, <2>1, IdleCancelOK DEF Abort, queueVars
<1>8. CASE Restart
  <2>1. \A u \in Threads : CancelOK(thread'[u], j)
    BY <1>8, RestartThread, IdleCancelOK DEF CancelStands
  <2>q. QED BY <1>2, <1>8, <2>1 DEF Restart, queueVars, CancelStands
<1>q. QED BY <1>4, <1>5, <1>6, <1>7, <1>8 DEF Next

(* Only the transition that answers a stop changes what was answered, and  *)
(* it remembers the stop itself when nothing could interfere.              *)
LEMMA AnswerGiven ==
  ASSUME TypeInv, Next, NEW j \in Jobs, stopped'[j] # stopped[j], stopped'[j] # "no",
         stopped'[j] # "raced"
  PROVE  \E t \in Threads :
           /\ thread[t].at = "stopRow" /\ thread[t].job = j
           /\ thread[t].target = stopped'[j]
           /\ FlagStands(thread[t]) /\ ~Interfering(t, j)
           /\ TransitionUnlessCommitted(j, thread[t].target)
           /\ Return(t)
<1>1. DOMAIN stopped = Jobs
  BY DEF TypeInv, TypeOK
<1>2. ASSUME NEW t \in Threads, StopRow(t)
      PROVE  /\ thread[t].at = "stopRow" /\ thread[t].job = j
             /\ thread[t].target = stopped'[j]
             /\ FlagStands(thread[t]) /\ ~Interfering(t, j)
             /\ TransitionUnlessCommitted(j, thread[t].target)
             /\ Return(t)
  BY <1>1, <1>2 DEF StopRow, At
<1>3. ASSUME NEW t \in Threads, Work(t), ~StopRow(t)
      PROVE  FALSE
  BY <1>3 DEF Work, StoreContext, RefuseCookies, ClaimSubmitted, LoadContext, CheckContext, CheckRow,
              SetFlags, SetRead, SetWrite, SetClear, WorkStart, WorkFinish, Interrupted, Publish,
              StopFlag, StopSignal, StopUndo, ResumeFlag, ResumeEvents, ClaimResumed, historyVars
<1>4. ASSUME NEW t \in Threads, RunNext(t) \/ Abort(t) \/ Restart
      PROVE  FALSE
  BY <1>4 DEF RunNext, Abort, Restart, historyVars
<1>5. ASSUME NEW t \in Threads, Command(t)
      PROVE  FALSE
  <2>1. ASSUME NEW k \in Jobs, RequestResume(t, k)
        PROVE  FALSE
    BY <1>1, <2>1 DEF RequestResume
  <2>q. QED BY <1>5, <2>1 DEF Command, Submit, RequestStop, HoldQueue, historyVars
<1>6. ~Restart
  BY DEF Restart
<1>q. QED BY <1>2, <1>3, <1>4, <1>5, <1>6 DEF Next

LEMMA CancelInvStep == CancelInv /\ [Next]_vars => CancelInv'
<1> SUFFICES ASSUME CancelInv, [Next]_vars PROVE CancelInv'
  OBVIOUS
<1>1. TypeInv /\ TypeInv'
  BY TypeInvStep DEF CancelInv
<1>2. CASE UNCHANGED vars
  BY <1>1, <1>2 DEF CancelInv, CancelStands, vars, queueVars, historyVars
<1>3. CASE Next
  <2> SUFFICES ASSUME NEW j \in Jobs, stopped'[j] = "cancelled" PROVE CancelStands(j)'
    BY <1>1 DEF CancelInv
  <2>1. CASE stopped[j] = "cancelled"
    BY <1>1, <1>3, <2>1, CancelStays DEF CancelInv
  <2>2. CASE stopped[j] # "cancelled"
    <3>1. PICK t \in Threads :
             /\ thread[t].job = j /\ thread[t].target = "cancelled"
             /\ FlagStands(thread[t]) /\ ~Interfering(t, j)
             /\ TransitionUnlessCommitted(j, "cancelled")
             /\ Return(t)
      BY <1>1, <1>3, <2>2, AnswerGiven
    <3>2. jobState'[j] = "cancelled" /\ cancelFlag'[j]
      BY <1>1, <3>1
         DEF FlagStands, TransitionUnlessCommitted, PutJob, TypeInv, TypeOK, QueueTypeOK
    <3>3. thread'[t] = Idle /\ \A u \in Threads \ {t} : thread'[u] = thread[u]
      BY <1>1, <3>1 DEF Return, Become, TypeInv, TypeOK
    <3>4. ASSUME NEW u \in Threads \ {t}
          PROVE  CancelOK(thread[u], j)
      BY <3>1 DEF Interfering, CancelOK
    <3>q. QED BY <3>2, <3>3, <3>4, IdleCancelOK DEF CancelStands
  <2>q. QED BY <2>1, <2>2
<1>q. QED BY <1>2, <1>3

LEMMA CancelInvInit == Init => CancelInv
BY TypeInvInit DEF Init, CancelInv

(* A cancel that was answered while its request stood and no other thread  *)
(* could undo it is final: no run, no pause, no resume and no second       *)
(* cancel makes the job read as anything else, under every command.        *)
THEOREM CancelIsFinal == Spec => []CancelHolds
<1>1. CancelInv => CancelHolds
  BY DEF CancelInv, CancelStands, CancelHolds
<1>q. QED BY CancelInvInit, CancelInvStep, <1>1, PTL DEF Spec

-----------------------------------------------------------------------------
(* A thread on a paused job: it does not withdraw a request, and a run     *)
(* that has read the flags has read the pause.                             *)
PauseOK(r, j) ==
  r.job = j =>
    /\ r.at # "stopUndo"
    /\ r.at \in RunPoints /\ r.step \in {"state", "write"} => r.pause

(* A clean pause before and after the run has noticed it: until then the   *)
(* request stands, from then on nobody runs the job.                       *)
PauseStands(j) ==
  /\ jobState[j] = "paused"
  /\ pauseFlag[j]
  /\ \A u \in Threads : PauseOK(thread[u], j)

PauseOver(j) ==
  /\ jobState[j] \in {"paused", "cancelled", "failed"}
  /\ \A u \in Threads : Running(u) => thread[u].job # j

PauseInv ==
  /\ PublishInv
  /\ \A j \in Jobs : stopped[j] = "paused" => PauseStands(j) \/ PauseOver(j)

LEMMA FreshPauseOK ==
  ASSUME NEW j, NEW p, p # "stopUndo", NEW s, Fresh(s, p)
  PROVE  PauseOK(s, j)
BY DEF Fresh, PauseOK, FirstStep

LEMMA IdlePauseOK ==
  ASSUME NEW j
  PROVE  PauseOK(Idle, j)
BY IdleFresh, FreshPauseOK

LEMMA ProceedPauseOK ==
  ASSUME TypeInv, NEW t \in Threads, thread[t].at \in RunPoints, Proceed(t), NEW j
  PROVE  PauseOK(thread'[t], j)
<1>1. "stopUndo" \notin RunPoints
  BY PointSets DEF StopPoints
<1>q. QED BY <1>1, ProceedFresh, FreshPauseOK, IdlePauseOK

(* set_state that has read the pause ends the run. *)
LEMMA PauseSetWrite ==
  ASSUME PublishInv, NEW t \in Threads, SetWrite(t), NEW j \in Jobs, j = thread[t].job,
         PauseStands(j)
  PROVE  /\ thread[t].at \in RunPoints
         /\ thread'[t] = Idle
         /\ jobState'[j] \in {"paused", "cancelled", "failed"}
<1> DEFINE r == thread[t]
           v == Verdict(r.pause, r.cancel, r.seen, r.target)
<1>1. /\ TypeInv /\ LocalOK(r) /\ r \in ThreadStates /\ r.step = "write"
      /\ PublishOK(r, jobState[j], published[j]) /\ r.at \notin ResumePoints
      /\ jobState \in [Jobs -> States]
  BY TypeInvParts DEF PublishInv, ClaimInv, SetWrite, TypeInv, TypeOK, QueueTypeOK
<1>2. r.at \in CheckPoints \cup (SetPoints \ {"setAccepted", "setRefused"}) /\ r.at \in RunPoints
  BY <1>1, PointSets DEF LocalOK, PublishOK, ResumePoints
<1>3. r.pause
  BY <1>1, <1>2 DEF PauseStands, PauseOK
<1>4. r.at # "setCompleted"
  BY <1>1 DEF PublishOK, PauseStands
<1>5. r.target # "completed" /\ ~Commits(r.seen, r.target)
  BY <1>1, <1>2, <1>4 DEF LocalOK, SetPoints, SetTarget, Commits
<1>6. jobState'[j] = v
  BY <1>1 DEF SetWrite, PutJob
<1>7. v = "cancelled" \/ (v = "paused" /\ r.target \notin Terminal) \/ (v = r.target /\ r.target \in Terminal)
  BY <1>3, <1>5 DEF Verdict
<1>8. v \in {"paused", "cancelled", "failed"}
  BY <1>5, <1>7 DEF Terminal
<1>9. v = r.target => r.at \in CheckPoints \cup {"setFailed"}
  BY <1>1, <1>2, <1>4, <1>8 DEF LocalOK, SetPoints, SetTarget
<1>10. thread'[t] = Idle
  <2>1. CASE Return(t)
    BY <1>1, <2>1, ReturnAt
  <2>2. CASE v = r.target /\ r.at = "setFailed" /\ Proceed(t)
    <3>1. Flow["setFailed"] = {"idle"} /\ Loop["setFailed"] = {}
      BY <1>2, <2>2 DEF Flow, Loop
    <3>2. Return(t)
      BY <2>2, <3>1 DEF Proceed
    <3>q. QED BY <1>1, <3>2, ReturnAt
  <2>3. v # r.target => Return(t)
    BY <1>5 DEF SetWrite
  <2>4. v = r.target => AfterSet(t)
    BY <1>5 DEF SetWrite
  <2>5. AfterSet(t) /\ r.at \in CheckPoints => Return(t)
    BY DEF AfterSet, CheckPoints
  <2>6. AfterSet(t) /\ r.at = "setFailed" => Proceed(t)
    BY DEF AfterSet, CheckPoints
  <2>q. QED BY <1>9, <2>1, <2>2, <2>3, <2>4, <2>5, <2>6
<1>q. QED BY <1>2, <1>6, <1>8, <1>10

(* The other steps of the threads on the paused job leave the pause alone. *)
LEMMA PauseOwn ==
  ASSUME PublishInv, NEW t \in Threads, Work(t), ~SetWrite(t), ~StopRow(t),
         NEW j \in Jobs, j = thread[t].job, PauseStands(j)
  PROVE  PauseOK(thread'[t], j) /\ jobState'[j] = "paused" /\ pauseFlag'[j]
<1> DEFINE r == thread[t]
<1>1. /\ TypeInv /\ LocalOK(r) /\ r \in ThreadStates /\ thread \in [Threads -> ThreadStates]
      /\ pauseFlag \in [Jobs -> BOOLEAN]
      /\ PublishOK(r, jobState[j], published[j]) /\ r.at \notin ResumePoints
  BY TypeInvParts DEF PublishInv, ClaimInv, TypeInv, TypeOK, QueueTypeOK
<1>2. jobState[j] = "paused" /\ pauseFlag[j] /\ PauseOK(r, j)
  BY DEF PauseStands
<1>3. r.at # "stopUndo" /\ r.at # "publish" /\ r.step # "clear"
  BY <1>1, <1>2 DEF PauseOK, PublishOK, LocalOK, PublishInv, PublishedIsCommitted
<1>4. /\ ~StopUndo(t) /\ ~Publish(t) /\ ~SetClear(t)
      /\ ~ResumeFlag(t) /\ ~ResumeEvents(t) /\ ~ClaimResumed(t)
  BY <1>1, <1>3 DEF StopUndo, Publish, SetClear, ResumeFlag, ResumeEvents, ClaimResumed, At, ResumePoints
<1>5. ~Claim(j)
  BY <1>2 DEF Claim, Claimable
<1>6. jobState'[j] = "paused" /\ pauseFlag'[j]
  <2>1. CASE StopFlag(t)
    BY <1>1, <1>2, <2>1 DEF StopFlag, SetFlag
  <2>2. CASE ~StopFlag(t)
    BY <1>2, <1>4, <1>5, <2>2
       DEF Work, StoreContext, RefuseCookies, ClaimSubmitted, LoadContext, CheckContext, CheckRow,
           SetFlags, SetRead, WorkStart, WorkFinish, Interrupted, StopSignal, PutContext, queueVars
  <2>q. QED BY <2>1, <2>2
<1> SUFFICES PauseOK(thread'[t], j)
  BY <1>6
<1>7. Return(t) => PauseOK(thread'[t], j)
  BY <1>1, ReturnAt, IdlePauseOK
<1>8. \A p \in {"claimSubmitted", "setRefused", "checkRun"} : Goto(t, p) => PauseOK(thread'[t], j)
  BY <1>1, GotoFresh, FreshPauseOK
<1>9. r.at \in RunPoints /\ Proceed(t) => PauseOK(thread'[t], j)
  BY <1>1, ProceedPauseOK
<1>10. CASE CheckContext(t) \/ CheckRow(t)
  <2>1. r.at \in RunPoints
    BY <1>1, <1>10, PointSets DEF CheckContext, CheckRow, LocalOK
  <2>2. ASSUME thread'[t].at = r.at, thread'[t].step \in {"row", "flags"}
        PROVE  PauseOK(thread'[t], j)
    BY <1>3, <2>2 DEF PauseOK
  <2>3. CASE CheckContext(t)
    BY <1>1, <2>2, <2>3 DEF CheckContext, Become, ThreadStates
  <2>4. ASSUME NEW x, Become(t, [r EXCEPT !.step = "flags", !.target = x])
        PROVE  PauseOK(thread'[t], j)
    BY <1>1, <2>2, <2>4 DEF Become, ThreadStates
  <2>q. QED BY <1>7, <1>9, <1>10, <2>1, <2>3, <2>4 DEF CheckRow
<1>11. CASE SetFlags(t)
  <2>1. thread'[t].at = r.at /\ thread'[t].pause = pauseFlag[j]
    BY <1>1, <1>11 DEF SetFlags, Become, ThreadStates
  <2>q. QED BY <1>2, <1>3, <2>1 DEF PauseOK
<1>12. CASE SetRead(t)
  <2>1. thread'[t].at = r.at /\ thread'[t].pause = r.pause /\ r.step = "state"
    BY <1>1, <1>12 DEF SetRead, Become, ThreadStates
  <2>q. QED BY <1>2, <1>3, <2>1 DEF PauseOK
<1>13. CASE WorkStart(t)
  <2>1. thread'[t].at = r.at /\ thread'[t].step = "finish"
    BY <1>1, <1>13 DEF WorkStart, Become, ThreadStates
  <2>q. QED BY <1>3, <2>1 DEF PauseOK
<1>14. CASE WorkFinish(t) \/ Interrupted(t)
  <2>1. r.at \in RunPoints
    BY <1>1, <1>14, PointSets DEF WorkFinish, Interrupted, LocalOK
  <2>q. QED BY <1>7, <1>9, <1>14, <2>1 DEF WorkFinish, Interrupted
<1>15. CASE StopFlag(t) \/ StopSignal(t)
  <2>1. PICK p \in {"stopSignal", "stopRow"} : Become(t, [r EXCEPT !.at = p])
    BY <1>15 DEF StopFlag, StopSignal
  <2>2. thread'[t].at = p /\ p \notin RunPoints
    BY <1>1, <2>1, PointSets DEF Become, ThreadStates, StopPoints
  <2>q. QED BY <2>2 DEF PauseOK
<1>16. CASE StoreContext(t) \/ RefuseCookies(t) \/ ClaimSubmitted(t) \/ LoadContext(t)
  BY <1>5, <1>7, <1>8, <1>16 DEF StoreContext, RefuseCookies, ClaimSubmitted, LoadContext
<1>q. QED BY <1>4, <1>10, <1>11, <1>12, <1>13, <1>14, <1>15, <1>16 DEF Work

(* The transition that answers a clean pause. *)
LEMMA PauseAnswered ==
  ASSUME TypeInv, NEW t \in Threads, NEW j \in Jobs,
         thread[t].job = j, thread[t].target = "paused",
         FlagStands(thread[t]), ~Interfering(t, j),
         TransitionUnlessCommitted(j, "paused"), Return(t)
  PROVE  PauseStands(j)'
<1>1. jobState'[j] = "paused" /\ pauseFlag'[j]
  BY DEF FlagStands, TransitionUnlessCommitted, PutJob, TypeInv, TypeOK, QueueTypeOK
<1>2. thread'[t] = Idle /\ \A u \in Threads \ {t} : thread'[u] = thread[u]
  BY DEF Return, Become, TypeInv, TypeOK
<1>3. ASSUME NEW u \in Threads \ {t}
      PROVE  PauseOK(thread[u], j)
  BY DEF Interfering, PauseOK, StopPoints
<1>q. QED BY <1>1, <1>2, <1>3, IdlePauseOK DEF PauseStands

(* A job whose run is over is run by nobody again: its row is not accepted. *)
LEMMA OverIsNotRun ==
  ASSUME PublishInv, Next, "resume" \notin Commands, NEW j \in Jobs, PauseOver(j)
  PROVE  \A u \in Threads : Running(u)' => thread'[u].job # j
<1>1. TypeInv /\ ThreadInv
  BY TypeInvParts DEF PublishInv, ClaimInv
<1>2. ASSUME NEW t \in Threads, NEW s, Moves(t, s), SameRun(t, s) \/ s.job # j
      PROVE  \A u \in Threads : Running(u)' => thread'[u].job # j
  <2>1. thread'[t] = s /\ \A u \in Threads \ {t} : thread'[u] = thread[u]
    BY <1>1, <1>2, MovesInv
  <2>q. QED BY <1>2, <2>1 DEF SameRun, Running, PauseOver
<1>3. \A k : Claim(k) => k # j
  BY DEF Claim, Claimable, PauseOver
<1>4. CASE UNCHANGED <<thread, jobState>>
  BY <1>4 DEF PauseOver, Running
<1>5. CASE Restart
  BY <1>1, <1>5, RestartThread, IdleType, PointSets DEF PauseOver, Running
<1>q. QED BY <1>1, <1>2, <1>3, <1>4, <1>5, StepMoves DEF Carries, Starts

(* Without resume and cookie refusals only runs write rows with set_state. *)
LEMMA WriterRuns ==
  ASSUME PublishInv, NEW t \in Threads, SetWrite(t)
  PROVE  Running(t)
<1>1. /\ LocalOK(thread[t]) /\ thread[t].step = "write" /\ thread[t].at \notin ResumePoints
      /\ PublishOK(thread[t], jobState[thread[t].job], published[thread[t].job])
  BY TypeInvParts DEF PublishInv, ClaimInv, SetWrite
<1>q. QED BY <1>1, PointSets DEF LocalOK, PublishOK, ResumePoints, Running

(* The steps of a thread, seen from a job that was paused cleanly. *)
LEMMA PauseWork ==
  ASSUME PublishInv, Next, NEW t \in Threads, Work(t), "resume" \notin Commands,
         NEW j \in Jobs, stopped'[j] = "paused", PauseStands(j) \/ PauseOver(j)
  PROVE  PauseStands(j)' \/ PauseOver(j)'
<1> DEFINE r == thread[t]
<1>1. TypeInv /\ jobState \in [Jobs -> States] /\ DOMAIN stopped = Jobs
  BY DEF PublishInv, ClaimInv, TypeInv, TypeOK, QueueTypeOK
<1>2. /\ thread'[t] = Idle \/ thread'[t].job = r.job
      /\ \A u \in Threads \ {t} : thread'[u] = thread[u]
  BY <1>1, WorkKeepsJob
<1>3. ASSUME PauseStands(j), PauseOK(thread'[t], j), jobState'[j] = "paused", pauseFlag'[j]
      PROVE  PauseStands(j)'
  BY <1>2, <1>3 DEF PauseStands
<1>4. ASSUME PauseOver(j), jobState'[j] = jobState[j]
      PROVE  PauseOver(j)'
  BY <1>4, OverIsNotRun DEF PauseOver
<1>5. CASE r.job # j
  <2>1. jobState'[j] = jobState[j] /\ pauseFlag'[j] = pauseFlag[j]
    BY <1>1, <1>5, WorkKeepsRows
  <2>2. PauseOK(thread'[t], j)
    BY <1>2, <1>5, IdlePauseOK DEF PauseOK
  <2>q. QED BY <1>3, <1>4, <2>1, <2>2 DEF PauseStands
<1>6. CASE r.job = j /\ StopRow(t)
  <2>1. CASE TransitionUnlessCommitted(j, r.target) /\ Return(t)
              /\ stopped' = [stopped EXCEPT ![j] = IF FlagStands(r) /\ ~Interfering(t, j)
                                                     THEN r.target ELSE "raced"]
    <3>1. r.target = "paused" /\ FlagStands(r) /\ ~Interfering(t, j)
      BY <1>1, <2>1
    <3>q. QED BY <1>1, <1>6, <2>1, <3>1, PauseAnswered
  <2>2. CASE jobState[j] \in Committed /\ UNCHANGED queueVars
    <3>1. ~PauseStands(j)
      BY <2>2 DEF PauseStands, Committed, Terminal
    <3>q. QED BY <1>4, <2>2, <3>1 DEF queueVars
  <2>q. QED BY <1>6, <2>1, <2>2 DEF StopRow
<1>7. CASE r.job = j /\ SetWrite(t)
  <2>1. ~PauseOver(j) /\ PauseStands(j)
    BY <1>7, WriterRuns DEF PauseOver
  <2>2. Running(t) /\ thread'[t] = Idle /\ jobState'[j] \in {"paused", "cancelled", "failed"}
    BY <1>7, <2>1, PauseSetWrite DEF Running
  <2>3. \A u \in Threads \ {t} : Running(u) => thread[u].job # j
    BY <1>7, <2>2 DEF PublishInv, ClaimInv, AtMostOneRunner, Runners
  <2>4. ~Running(t)'
    BY <2>2, IdleType, PointSets DEF Running
  <2>5. \A u \in Threads : Running(u)' => thread'[u].job # j
    BY <1>2, <2>3, <2>4 DEF Running
  <2>q. QED BY <2>2, <2>5 DEF PauseOver
<1>8. CASE r.job = j /\ ~StopRow(t) /\ ~SetWrite(t)
  <2>1. CASE PauseStands(j)
    BY <1>3, <1>8, <2>1, PauseOwn
  <2>2. CASE PauseOver(j)
    <3>1. ~Claim(j)
      BY <2>2 DEF PauseOver, Claim, Claimable
    <3>2. jobState'[j] = jobState[j]
      BY <1>8, <3>1
         DEF Work, StoreContext, RefuseCookies, ClaimSubmitted, LoadContext, CheckContext, CheckRow,
             SetFlags, SetRead, SetClear, WorkStart, WorkFinish, Interrupted, Publish,
             StopFlag, StopSignal, StopUndo, ResumeFlag, ResumeEvents, ClaimResumed,
             PutContext, SetFlag, ClearFlags, queueVars
    <3>q. QED BY <1>4, <2>2, <3>2
  <2>q. QED BY <2>1, <2>2
<1>q. QED BY <1>5, <1>6, <1>7, <1>8

LEMMA PauseInvStep ==
  ASSUME PauseInv, [Next]_vars, "resume" \notin Commands, "submit_cookies" \notin Commands
  PROVE  PauseInv'
<1>1. PublishInv /\ PublishInv' /\ TypeInv /\ thread \in [Threads -> ThreadStates]
      /\ jobState \in [Jobs -> States] /\ Idle.job = NoJob
  BY PublishInvStep DEF PauseInv, PublishInv, ClaimInv, TypeInv, TypeOK, QueueTypeOK, Idle
<1>2. CASE UNCHANGED vars
  BY <1>1, <1>2 DEF PauseInv, PauseStands, PauseOver, Running, vars, queueVars, historyVars
<1>3. CASE Next
  <2> SUFFICES ASSUME NEW j \in Jobs, stopped'[j] = "paused"
               PROVE  PauseStands(j)' \/ PauseOver(j)'
    BY <1>1 DEF PauseInv
  <2>1. CASE stopped[j] # "paused"
    BY <1>1, <1>3, <2>1, AnswerGiven, PauseAnswered
  <2>2. CASE stopped[j] = "paused"
    <3>1. PauseStands(j) \/ PauseOver(j)
      BY <2>2 DEF PauseInv
    <3>2. ASSUME jobState'[j] = jobState[j], pauseFlag'[j] = pauseFlag[j],
                 \A u \in Threads : PauseOK(thread[u], j) => PauseOK(thread'[u], j)
          PROVE  PauseStands(j)' \/ PauseOver(j)'
      <4>1. CASE PauseStands(j)
        BY <3>2, <4>1 DEF PauseStands
      <4>2. CASE PauseOver(j)
        BY <1>1, <1>3, <3>2, <4>2, OverIsNotRun DEF PauseOver
      <4>q. QED BY <3>1, <4>1, <4>2
    <3>3. ASSUME NEW t \in Threads, NEW k \in Jobs, k # j,
                 thread'[t].job = k, \A u \in Threads \ {t} : thread'[u] = thread[u]
          PROVE  \A u \in Threads : PauseOK(thread[u], j) => PauseOK(thread'[u], j)
      BY <3>3 DEF PauseOK
    <3>4. ASSUME NEW t \in Threads, NEW k \in Jobs, NEW p, Begin(t, k, p)
          PROVE  /\ thread'[t].job = k /\ \A u \in Threads \ {t} : thread'[u] = thread[u]
      BY <1>1, <3>4, IdleType DEF Begin, Become, Enter, ThreadStates
    <3>5. ASSUME NEW t \in Threads, RunNext(t)
          PROVE  PauseStands(j)' \/ PauseOver(j)'
      <4>1. PICK k \in Jobs : Claim(k) /\ Begin(t, k, "loadContext")
        BY <3>5 DEF RunNext, ClaimNext
      <4>2. k # j
        BY <3>1, <4>1 DEF Claim, Claimable, PauseStands, PauseOver
      <4>3. jobState'[j] = jobState[j] /\ pauseFlag'[j] = pauseFlag[j]
        BY <1>1, <4>1, <4>2 DEF Claim, PutJob
      <4>q. QED BY <3>2, <3>3, <3>4, <4>1, <4>2, <4>3
    <3>6. ASSUME NEW t \in Threads, NEW k \in Jobs, Submit(t, k)
          PROVE  PauseStands(j)' \/ PauseOver(j)'
      <4>1. k # j
        BY <3>1, <3>6 DEF Submit, PauseStands, PauseOver
      <4>2. jobState'[j] = jobState[j] /\ pauseFlag'[j] = pauseFlag[j]
        BY <1>1, <3>6, <4>1 DEF Submit, PutJob
      <4>3. Begin(t, k, "storeContext")
        BY <3>6 DEF Submit
      <4>q. QED BY <3>2, <3>3, <3>4, <4>1, <4>2, <4>3
    <3>7. ASSUME NEW t \in Threads, NEW k \in Jobs, NEW kind \in {"paused", "cancelled"},
                 RequestStop(t, k, kind)
          PROVE  PauseStands(j)' \/ PauseOver(j)'
      <4>1. [Idle EXCEPT !.at = "stopFlag", !.job = k, !.target = kind].at = "stopFlag"
        BY DEF Idle
      <4>2. /\ thread'[t].at = "stopFlag" /\ \A u \in Threads \ {t} : thread'[u] = thread[u]
            /\ UNCHANGED queueVars
        BY <1>1, <3>7, <4>1 DEF RequestStop, Become
      <4>3. PauseOK(thread'[t], j)
        BY <4>2, PointSets DEF PauseOK, StopPoints
      <4>q. QED BY <3>2, <4>2, <4>3 DEF queueVars
    <3>8. ASSUME NEW t \in Threads, NEW value \in BOOLEAN, HoldQueue(t, value)
          PROVE  PauseStands(j)' \/ PauseOver(j)'
      BY <3>2, <3>8 DEF HoldQueue, SetPaused
    <3>9. ASSUME NEW t \in Threads, Abort(t)
          PROVE  PauseStands(j)' \/ PauseOver(j)'
      <4>1. thread'[t] = Idle /\ (\A u \in Threads \ {t} : thread'[u] = thread[u]) /\ UNCHANGED queueVars
        BY <1>1, <3>9 DEF Abort, Return, Become
      <4>q. QED BY <3>2, <4>1, IdlePauseOK DEF queueVars
    <3>10. CASE Restart
      BY <1>1, <3>2, <3>10, RestartThread, IdlePauseOK DEF Restart, queueVars
    <3>11. ASSUME NEW t \in Threads, NEW k \in Jobs
           PROVE  ~RequestResume(t, k)
      BY DEF RequestResume
    <3>12. ASSUME NEW t \in Threads, Work(t)
           PROVE  PauseStands(j)' \/ PauseOver(j)'
      BY <1>1, <1>3, <3>1, <3>12, PauseWork
    <3>q. QED BY <1>3, <3>5, <3>6, <3>7, <3>8, <3>9, <3>10, <3>11, <3>12 DEF Next, Command
  <2>q. QED BY <2>1, <2>2
<1>q. QED BY <1>2, <1>3

LEMMA PauseInvInit == Init => PauseInv
BY PublishInvInit DEF Init, PauseInv

(* A stop that was answered cleanly is final as long as nobody resumes: a  *)
(* cancelled job stays cancelled, a paused one is not published and does   *)
(* not read as working again, whatever its run still does and whatever     *)
(* other stops follow.                                                     *)
THEOREM CleanStopIsFinal ==
  ASSUME "resume" \notin Commands, "submit_cookies" \notin Commands
  PROVE  Spec => []CleanStopHolds
<1>1. CancelInv /\ PauseInv => CleanStopHolds
  <2> SUFFICES ASSUME CancelInv, PauseInv PROVE CleanStopHolds
    OBVIOUS
  <2>1. \A j \in Jobs : published[j] => jobState[j] \in {"publishing", "completed"}
    BY DEF PauseInv, PublishInv, PublishedIsCommitted
  <2>2. \A j \in Jobs : stopped[j] = "cancelled" => jobState[j] = "cancelled"
    BY DEF CancelInv, CancelStands
  <2>3. \A j \in Jobs : stopped[j] = "paused" => jobState[j] \in {"paused", "cancelled", "failed"}
    BY DEF PauseInv, PauseStands, PauseOver
  <2>q. QED BY <2>1, <2>2, <2>3 DEF CleanStopHolds
<1>2. PauseInv /\ [Next]_vars => PauseInv'
  BY PauseInvStep
<1>q. QED BY CancelInvInit, CancelInvStep, PauseInvInit, <1>1, <1>2, PTL DEF Spec
-----------------------------------------------------------------------------
(* The context of a job: it is stored, or its submission is under way. *)
Storing(j) == \E t \in Clients : thread[t].job = j /\ thread[t].at = "storeContext"

ContextInv ==
  /\ TypeInv
  /\ \A t \in Threads : thread[t].at # "idle" => jobState[thread[t].job] # "absent"
  /\ \A j \in Jobs : jobState[j] # "absent" => hasContext[j] \/ Storing(j)

(* A row that was inserted stays, and a context that was stored. *)
LEMMA RowsStay ==
  ASSUME TypeInv, Next, NEW j \in Jobs
  PROVE  /\ jobState[j] # "absent" => jobState'[j] # "absent"
         /\ hasContext[j] => hasContext'[j]
<1>1. /\ jobState \in [Jobs -> States] /\ hasContext \in [Jobs -> BOOLEAN]
      /\ \A s : PutJob(j, s) => jobState'[j] = s
  BY DEF TypeInv, TypeOK, QueueTypeOK, PutJob
<1>2. hasContext[j] => hasContext'[j]
  <2>1. ASSUME NEW t \in Threads, Work(t)
        PROVE  hasContext' = hasContext \/ PutContext(thread[t].job)
    <3>1. CASE StoreContext(t)
      BY <3>1 DEF StoreContext
    <3>2. CASE RefuseCookies(t) \/ LoadContext(t) \/ CheckContext(t) \/ CheckRow(t) \/ SetFlags(t)
                 \/ SetRead(t) \/ WorkStart(t) \/ WorkFinish(t) \/ Interrupted(t) \/ Publish(t)
                 \/ StopSignal(t) \/ ResumeEvents(t)
      BY <3>2 DEF RefuseCookies, LoadContext, CheckContext, CheckRow, SetFlags, SetRead, WorkStart,
                  WorkFinish, Interrupted, Publish, StopSignal, ResumeEvents, queueVars
    <3>3. CASE ClaimSubmitted(t) \/ ClaimResumed(t) \/ SetWrite(t) \/ StopRow(t)
      BY <3>3 DEF ClaimSubmitted, ClaimResumed, SetWrite, StopRow, Claim, PutJob,
                  TransitionUnlessCommitted, queueVars
    <3>4. CASE SetClear(t) \/ StopFlag(t) \/ StopUndo(t) \/ ResumeFlag(t)
      BY <3>4 DEF SetClear, StopFlag, StopUndo, ResumeFlag, ClearFlags, SetFlag
    <3>q. QED BY <2>1, <3>1, <3>2, <3>3, <3>4 DEF Work
  <2>2. ASSUME NEW t \in Threads, RunNext(t) \/ Command(t) \/ Abort(t) \/ Restart
        PROVE  hasContext' = hasContext
    BY <2>2 DEF RunNext, ClaimNext, Claim, PutJob, Command, Submit, RequestStop, RequestResume,
                HoldQueue, SetPaused, Abort, Restart, queueVars
  <2>3. Restart => hasContext' = hasContext
    BY DEF Restart, queueVars
  <2>q. QED BY <1>1, <2>1, <2>2, <2>3 DEF PutContext, Next
<1>3. ASSUME NEW t \in Threads, SetWrite(t)
      PROVE  jobState'[j] = jobState[j] \/ jobState'[j] # "absent"
  <2> DEFINE r == thread[t]
  <2>1. LocalOK(r) /\ r.step = "write"
    BY <1>3, TypeInvParts DEF SetWrite
  <2>2. r.target # "absent"
    BY <2>1 DEF LocalOK, SetPoints, SetTarget
  <2>3. Verdict(r.pause, r.cancel, r.seen, r.target) # "absent"
    BY <2>2, VerdictType
  <2>q. QED BY <1>1, <1>3, <2>3 DEF SetWrite, PutJob
<1>4. ASSUME NEW t \in Threads, StopRow(t)
      PROVE  jobState'[j] = jobState[j] \/ jobState'[j] # "absent"
  <2>1. thread[t].target \in {"paused", "cancelled"}
    BY <1>4, TypeInvParts DEF StopRow, At, LocalOK, StopPoints
  <2>q. QED BY <1>1, <1>4, <2>1 DEF StopRow, TransitionUnlessCommitted, PutJob, queueVars
<1>5. ASSUME NEW k, Claim(k) \/ PutJob(k, "accepted")
      PROVE  jobState'[j] = jobState[j] \/ jobState'[j] # "absent"
  BY <1>1, <1>5 DEF Claim, PutJob
<1>6. jobState'[j] = jobState[j] \/ jobState'[j] # "absent"
  BY <1>3, <1>4, <1>5
     DEF Next, Work, Command, StoreContext, RefuseCookies, ClaimSubmitted, LoadContext, CheckContext,
         CheckRow, SetFlags, SetRead, SetClear, WorkStart, WorkFinish, Interrupted, Publish,
         StopFlag, StopSignal, StopUndo, ResumeFlag, ResumeEvents, ClaimResumed, RunNext, ClaimNext,
         Submit, RequestStop, RequestResume, HoldQueue, Abort, Restart, PutContext, SetFlag,
         ClearFlags, SetPaused, queueVars
<1>q. QED BY <1>2, <1>6

(* A thread leaves storeContext only behind put_context. *)
LEMMA StoringEnds ==
  ASSUME TypeInv, NEW t \in Threads, Work(t), thread[t].at = "storeContext",
         "submit_cookies" \notin Commands
  PROVE  hasContext'[thread[t].job]
<1>1. LocalOK(thread[t]) /\ thread[t].job \in Jobs /\ DOMAIN hasContext = Jobs
  BY TypeInvParts DEF TypeInv, TypeOK, QueueTypeOK
<1>2. StoreContext(t)
  <2>1. thread[t].step \notin {"context", "row", "flags", "state", "write", "clear", "start", "finish"}
    BY <1>1 DEF LocalOK, CheckPoints, SetPoints, SetTarget, WorkPoints
  <2>2. thread[t].at \notin WorkPoints
    BY DEF WorkPoints
  <2>q. QED BY <2>1, <2>2
            DEF Work, RefuseCookies, ClaimSubmitted, LoadContext, CheckContext, CheckRow, SetFlags,
                SetRead, SetWrite, SetClear, WorkStart, WorkFinish, Interrupted, Publish, StopFlag,
                StopSignal, StopRow, StopUndo, ResumeFlag, ResumeEvents, ClaimResumed, At
<1>q. QED BY <1>1, <1>2 DEF StoreContext, PutContext

LEMMA ContextWork ==
  ASSUME ContextInv, TypeInv', NEW t \in Threads, Work(t), "submit_cookies" \notin Commands
  PROVE  ContextInv'
<1>1. /\ thread'[t] = Idle \/ thread'[t].job = thread[t].job
      /\ \A u \in Threads \ {t} : thread'[u] = thread[u]
      /\ thread[t].job \in Jobs /\ TypeInv /\ Next
  BY WorkKeepsJob DEF ContextInv, Next
<1>2. jobState[thread[t].job] # "absent"
  <2>1. thread[t].at # "idle"
    BY <1>1, TypeInvParts
       DEF Work, StoreContext, RefuseCookies, ClaimSubmitted, LoadContext, CheckContext, CheckRow,
           SetFlags, SetRead, SetWrite, SetClear, WorkStart, WorkFinish, Interrupted, Publish,
           StopFlag, StopSignal, StopRow, StopUndo, ResumeFlag, ResumeEvents, ClaimResumed,
           At, LocalOK, CheckPoints, SetPoints, SetTarget, WorkPoints
  <2>q. QED BY <2>1 DEF ContextInv
<1>3. ASSUME NEW u \in Threads, thread'[u].at # "idle"
      PROVE  jobState'[thread'[u].job] # "absent"
  <2>1. CASE u = t
    BY <1>1, <1>2, <1>3, <2>1, RowsStay, IdleType
  <2>2. CASE u # t
    <3>1. thread[u].job \in Jobs /\ jobState[thread[u].job] # "absent"
      BY <1>1, <1>3, <2>2, TypeInvParts DEF ContextInv
    <3>q. QED BY <1>1, <2>2, <3>1, RowsStay
  <2>q. QED BY <2>1, <2>2
<1>4. ASSUME NEW j \in Jobs, jobState'[j] # "absent"
      PROVE  hasContext'[j] \/ Storing(j)'
  <2>1. jobState[j] # "absent"
    <3>1. CASE j = thread[t].job
      BY <1>2, <3>1
    <3>2. CASE j # thread[t].job
      BY <1>1, <1>4, <3>2, WorkKeepsRows
    <3>q. QED BY <3>1, <3>2
  <2>2. CASE hasContext[j]
    BY <1>1, <2>2, RowsStay
  <2>3. CASE Storing(j)
    <3>1. PICK u \in Clients : thread[u].job = j /\ thread[u].at = "storeContext"
      BY <2>3 DEF Storing
    <3>2. CASE u = t
      BY <1>1, <3>1, <3>2, StoringEnds
    <3>3. CASE u # t
      <4>1. thread'[u] = thread[u]
        BY <1>1, <3>3 DEF Threads
      <4>q. QED BY <3>1, <4>1 DEF Storing
    <3>q. QED BY <3>2, <3>3
  <2>q. QED BY <2>1, <2>2, <2>3 DEF ContextInv
<1>q. QED BY <1>3, <1>4 DEF ContextInv

(* An idle thread takes up a job: only Submit inserts a row, and the       *)
(* client that does so is the one that stores the context.                 *)
LEMMA ContextBegins ==
  ASSUME ContextInv, TypeInv', NEW t \in Threads, RunNext(t) \/ Command(t)
  PROVE  ContextInv'
<1>1. TypeInv /\ ThreadInv /\ Next /\ jobState \in [Jobs -> States]
  BY TypeInvParts DEF ContextInv, Next, TypeInv, TypeOK, QueueTypeOK
<1>2. ASSUME NEW j \in Jobs, jobState'[j] # "absent",
             \A u \in Threads \ {t} : thread'[u] = thread[u],
             thread'[t].at # "idle" => thread'[t].job = j,
             thread[t].at = "idle",
             \A k \in Jobs \ {j} : jobState'[k] = jobState[k],
             jobState[j] # "absent" \/ Storing(j)'
      PROVE  ContextInv'
  <2>1. ASSUME NEW u \in Threads, thread'[u].at # "idle"
        PROVE  jobState'[thread'[u].job] # "absent"
    <3>1. CASE u = t
      BY <1>2, <2>1, <3>1
    <3>2. CASE u # t
      <4>1. thread'[u] = thread[u] /\ thread[u].job \in Jobs /\ jobState[thread[u].job] # "absent"
        BY <1>1, <1>2, <2>1, <3>2, TypeInvParts DEF ContextInv
      <4>q. QED BY <1>1, <4>1, RowsStay
    <3>q. QED BY <3>1, <3>2
  <2>2. ASSUME NEW k \in Jobs, jobState'[k] # "absent"
        PROVE  hasContext'[k] \/ Storing(k)'
    <3>1. CASE jobState[k] = "absent"
      BY <1>2, <2>2, <3>1
    <3>2. CASE hasContext[k]
      BY <1>1, <3>2, RowsStay
    <3>3. CASE Storing(k)
      <4>1. PICK u \in Clients : thread[u].job = k /\ thread[u].at = "storeContext"
        BY <3>3 DEF Storing
      <4>2. thread'[u] = thread[u]
        BY <1>2, <4>1 DEF Threads
      <4>q. QED BY <4>1, <4>2 DEF Storing
    <3>q. QED BY <3>1, <3>2, <3>3 DEF ContextInv
  <2>q. QED BY <2>1, <2>2 DEF ContextInv
<1>3. CASE RunNext(t)
  <2>1. PICK j \in Jobs : Claim(j) /\ Begin(t, j, "loadContext")
    BY <1>3 DEF RunNext, ClaimNext
  <2>2. Fresh(thread'[t], "loadContext") /\ thread'[t].job = j
    BY <1>1, <2>1, IdleType DEF Begin, Become, Enter, Fresh, ThreadInv, ThreadStates
  <2>3. \A u \in Threads \ {t} : thread'[u] = thread[u]
    BY <1>1, <2>1 DEF Begin, Become, ThreadInv
  <2>4. /\ jobState[j] = "accepted" /\ jobState'[j] = "discovering" /\ thread[t].at = "idle"
        /\ \A k \in Jobs \ {j} : jobState'[k] = jobState[k]
    BY <1>1, <1>3, <2>1 DEF RunNext, IsIdle, Claim, Claimable, PutJob
  <2>q. QED BY <1>2, <2>2, <2>3, <2>4
<1>4. ASSUME NEW j \in Jobs, Submit(t, j)
      PROVE  ContextInv'
  <2>1. Fresh(thread'[t], "storeContext") /\ thread'[t].job = j
    BY <1>1, <1>4, IdleType DEF Submit, Begin, Become, Enter, Fresh, ThreadInv, ThreadStates
  <2>2. \A u \in Threads \ {t} : thread'[u] = thread[u]
    BY <1>1, <1>4 DEF Submit, Begin, Become, ThreadInv
  <2>3. /\ jobState'[j] = "accepted" /\ thread[t].at = "idle" /\ t \in Clients
        /\ \A k \in Jobs \ {j} : jobState'[k] = jobState[k]
    BY <1>1, <1>4 DEF Submit, IsIdle, PutJob
  <2>4. Storing(j)'
    BY <2>1, <2>3 DEF Storing, Fresh
  <2>q. QED BY <1>2, <2>1, <2>2, <2>3, <2>4
<1>5. ASSUME NEW j \in Jobs,
             RequestResume(t, j) \/ \E kind \in {"paused", "cancelled"} : RequestStop(t, j, kind)
      PROVE  ContextInv'
  <2>1. /\ jobState' = jobState /\ jobState[j] # "absent" /\ thread[t].at = "idle"
    BY <1>5 DEF RequestResume, RequestStop, IsIdle, queueVars
  <2>2. PICK s : s.job = j /\ Become(t, s)
    <3>1. ASSUME RequestResume(t, j)
          PROVE  \E s : s.job = j /\ Become(t, s)
      <4>1. [Idle EXCEPT !.at = "resumeFlag", !.job = j, !.seen = jobState[j]].job = j
        BY DEF Idle
      <4>q. QED BY <3>1, <4>1 DEF RequestResume
    <3>2. ASSUME NEW kind, RequestStop(t, j, kind)
          PROVE  \E s : s.job = j /\ Become(t, s)
      <4>1. [Idle EXCEPT !.at = "stopFlag", !.job = j, !.target = kind].job = j
        BY DEF Idle
      <4>q. QED BY <3>2, <4>1 DEF RequestStop
    <3>q. QED BY <1>5, <3>1, <3>2
  <2>3. thread'[t].job = j /\ \A u \in Threads \ {t} : thread'[u] = thread[u]
    BY <1>1, <2>2 DEF Become, ThreadInv
  <2>q. QED BY <1>2, <2>1, <2>3
<1>6. ASSUME NEW value \in BOOLEAN, HoldQueue(t, value)
      PROVE  ContextInv'
  <2>1. UNCHANGED <<jobState, hasContext, thread>>
    BY <1>6 DEF HoldQueue, SetPaused
  <2>q. QED BY <2>1 DEF ContextInv, Storing
<1>q. QED BY <1>3, <1>4, <1>5, <1>6 DEF Command

LEMMA ContextInvStep ==
  ASSUME ContextInv, [Next]_vars, "submit_cookies" \notin Commands, MaxFaults = 0
  PROVE  ContextInv'
<1>1. TypeInv /\ TypeInv'
  BY TypeInvStep DEF ContextInv
<1>2. CASE UNCHANGED vars
  <2>1. UNCHANGED <<jobState, hasContext, thread>>
    BY <1>2 DEF vars, queueVars
  <2>q. QED BY <1>1, <2>1 DEF ContextInv, Storing
<1>3. ~Restart /\ \A t \in Threads : ~Abort(t)
  BY <1>1 DEF Restart, Abort, TypeInv, TypeOK
<1>q. QED BY <1>1, <1>2, <1>3, ContextWork, ContextBegins DEF Next

LEMMA ContextInvInit == Init => ContextInv
BY TypeInvInit DEF Init, QueueInit, Idle, ContextInv

(* Once a submission was answered, every run of the job has its context:   *)
(* only LoadContext finds none, and only while the client that inserted    *)
(* the row has not reached put_context.  Refused cookies never reach it,   *)
(* and a fault may take the client in between.                             *)
THEOREM AnsweredHasContext ==
  ASSUME "submit_cookies" \notin Commands, MaxFaults = 0
  PROVE  Spec => ContextOnceAnswered
<1>1. ASSUME ContextInv, Next, NEW j \in bare' \ bare
      PROVE  \E t \in Clients : thread[t].job = j /\ thread[t].at = "storeContext"
  <2>1. PICK t \in Threads : LoadContext(t)
    BY <1>1 DEF Next, Work, Command, StoreContext, RefuseCookies, ClaimSubmitted, CheckContext,
                CheckRow, SetFlags, SetRead, SetWrite, SetClear, WorkStart, WorkFinish, Interrupted,
                Publish, StopFlag, StopSignal, StopRow, StopUndo, ResumeFlag, ResumeEvents,
                ClaimResumed, RunNext, Submit, RequestStop, RequestResume, HoldQueue, Abort, Restart,
                historyVars
  <2>2. j = thread[t].job /\ ~hasContext[j] /\ thread[t].at = "loadContext"
    BY <1>1, <2>1 DEF LoadContext, At
  <2>3. j \in Jobs /\ jobState[j] # "absent"
    BY <1>1, <2>2, TypeInvParts DEF ContextInv
  <2>q. QED BY <1>1, <2>2, <2>3 DEF ContextInv, Storing
<1>2. ContextInv /\ [Next]_vars =>
        [\A j \in bare' \ bare :
           \E t \in Clients : thread[t].job = j /\ thread[t].at = "storeContext"]_vars
  BY <1>1
<1>3. ContextInv /\ [Next]_vars => ContextInv'
  BY ContextInvStep
<1>q. QED BY ContextInvInit, <1>2, <1>3, PTL DEF Spec, ContextOnceAnswered
=============================================================================
