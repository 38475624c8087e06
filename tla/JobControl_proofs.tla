------------------------- MODULE JobControl_proofs -------------------------
(***************************************************************************)
(* Proofs about JobControl, for any number of jobs, threads, commands,     *)
(* laps and faults.                                                        *)
(*                                                                         *)
(* The argument has three layers.  LocalOK says what a thread's program    *)
(* counter tells about its locals; with the types it is inductive by       *)
(* itself.  StepMoves then sums up what one step may do to the runs, and   *)
(* RowStep what it may do to the rows; from them follow the invariants     *)
(* that relate threads to each other and to the rows.                      *)
(***************************************************************************)
EXTENDS JobControl, TLAPS

(* What the control point of a thread tells about its locals. *)
LocalOK(r) ==
  /\ r.at # "idle" => r.job \in Jobs
  /\ r.at \in StopPoints => r.target \in {"paused", "cancelled"}
  /\ r.step \in {"context", "row"} => r.at \in CheckPoints
  /\ r.step \in {"flags", "state", "write"} =>
       \/ r.at \in CheckPoints /\ r.target \in {"paused", "cancelled"}
       \/ r.at \in SetPoints /\ r.target = SetTarget[r.at]
  /\ r.step \in {"start", "finish"} => r.at \in WorkPoints
  /\ r.step = "clear" => r.at = "setCompleted"
  /\ r.at = "setCompleted" => r.step \in {"flags", "state", "write", "clear"}
  /\ r.at = "publish" => r.step = "start"

TypeInv == TypeOK /\ \A t \in Threads : LocalOK(thread[t])

(* A claimed job has left the accepted state for good, so nobody else can  *)
(* claim it.                                                               *)
ClaimInv ==
  /\ TypeInv
  /\ \A t \in Threads : thread[t].at \notin ResumePoints
  /\ AtMostOneRunner
  /\ \A t \in Threads :
       Running(t) => jobState[thread[t].job] \notin {"absent", "accepted"}

(* What a thread knows of its row and its files: a run whose files are     *)
(* published only has to say so, and nobody else may touch the row.        *)
PublishOK(r, row, done) ==
  /\ r.at # "setRefused"
  /\ r.at = "publish" => row = "publishing"
  /\ r.at \in RunPoints /\ done => r.at = "setCompleted"
  /\ r.at = "setCompleted" =>
       /\ done
       /\ r.step # "clear" => row = "publishing"
       /\ r.step = "write" => r.seen = "publishing"

PublishInv ==
  /\ ClaimInv
  /\ PublishedIsCommitted
  /\ \A t \in Threads :
       PublishOK(thread[t], jobState[thread[t].job], published[thread[t].job])

-----------------------------------------------------------------------------
(* Facts about the control points. *)

(* Every point of a run has its successors in the run or returns. *)
LEMMA FlowType ==
  ASSUME NEW p \in RunPoints
  PROVE  /\ Flow[p] \subseteq RunPoints \cup {"idle"}
         /\ Loop[p] \subseteq RunPoints
<1>1. p \in {"loadContext"} \cup CheckPoints \cup WorkPoints
        \cup {"setDiscovering", "setPlanning", "setAcquiring", "setExporting",
              "setValidating", "setPublishing", "setCompleted", "setFailed"}
  BY DEF RunPoints, SetPoints, SetTarget
<1>2. Flow[p] \subseteq RunPoints \cup {"idle"}
  <2>1. CASE p \in {"loadContext"} \cup CheckPoints
    BY <2>1 DEF Flow, RunPoints, CheckPoints, SetPoints, SetTarget, WorkPoints
  <2>2. CASE p \in WorkPoints
    BY <2>2 DEF Flow, RunPoints, CheckPoints, SetPoints, SetTarget, WorkPoints
  <2>3. CASE p \in {"setDiscovering", "setPlanning", "setAcquiring", "setExporting",
                    "setValidating", "setPublishing", "setCompleted", "setFailed"}
    BY <2>3 DEF Flow, RunPoints, CheckPoints, SetPoints, SetTarget, WorkPoints
  <2>q. QED BY <1>1, <2>1, <2>2, <2>3
<1>3. Loop[p] \subseteq RunPoints
  BY DEF Loop, RunPoints, CheckPoints, WorkPoints
<1>q. QED BY <1>2, <1>3

(* Entering a point keeps the record's type and sets its locals right. *)
LEMMA EnterType ==
  ASSUME NEW r \in ThreadStates, r.job \in Jobs, NEW p \in Points \ StopPoints
  PROVE  /\ Enter(r, p) \in ThreadStates
         /\ Enter(r, p).at = p
         /\ Enter(r, p).job = r.job
         /\ LocalOK(Enter(r, p))
<1> DEFINE e == Enter(r, p)
<1>1. FirstStep(p) \in Steps
  BY DEF FirstStep, Steps
<1>2. (IF p \in SetPoints THEN SetTarget[p] ELSE "absent") \in States
  BY DEF SetPoints, SetTarget, States, Working, Terminal
<1>3. e \in ThreadStates
  BY <1>1, <1>2 DEF Enter, ThreadStates, States
<1>4. /\ e.at = p /\ e.job = r.job /\ e.step = FirstStep(p)
      /\ e.target = IF p \in SetPoints THEN SetTarget[p] ELSE "absent"
  BY DEF Enter, ThreadStates
<1>5. p \in CheckPoints => p \notin SetPoints /\ p \notin WorkPoints
  BY DEF CheckPoints, SetPoints, SetTarget, WorkPoints
<1>6. p \in SetPoints => p \notin WorkPoints
  BY DEF SetPoints, SetTarget, WorkPoints
<1>7. "setCompleted" \in SetPoints /\ "publish" \in WorkPoints
  BY DEF SetPoints, SetTarget, WorkPoints
<1>8. LocalOK(e)
  BY <1>4, <1>5, <1>6, <1>7 DEF LocalOK, FirstStep
<1>q. QED BY <1>3, <1>4, <1>8

(* The idle thread. *)
LEMMA IdleType ==
  Idle \in ThreadStates /\ Idle.at = "idle" /\ LocalOK(Idle)
<1>1. Idle \in ThreadStates
  BY ControlAssumption DEF Idle, ThreadStates, Points, Steps, States
<1>2. Idle.at = "idle" /\ Idle.step = "go"
  BY DEF Idle
<1>3. LocalOK(Idle)
  BY <1>2 DEF LocalOK, StopPoints
<1>q. QED BY <1>1, <1>2, <1>3

-----------------------------------------------------------------------------
(* Layer one: types and locals. *)

(* The thread t becomes s, and s is well formed. *)
Moves(t, s) ==
  /\ s \in ThreadStates
  /\ LocalOK(s)
  /\ thread' = [thread EXCEPT ![t] = s]

(* s stands where thread t may be in the run it was in, or in no run. *)
SameRun(t, s) ==
  s.at \in RunPoints => thread[t].at \in RunPoints /\ s.job = thread[t].job

ThreadInv ==
  thread \in [Threads -> ThreadStates] /\ \A t \in Threads : LocalOK(thread[t])

LEMMA MovesInv ==
  ASSUME ThreadInv, NEW t \in Threads, NEW s, Moves(t, s)
  PROVE  /\ ThreadInv'
         /\ thread'[t] = s
         /\ \A u \in Threads \ {t} : thread'[u] = thread[u]
BY DEF ThreadInv, Moves, LocalOK

LEMMA ReturnMoves ==
  ASSUME ThreadInv, NEW t \in Threads, Return(t)
  PROVE  Moves(t, Idle) /\ SameRun(t, Idle)
<1>1. "idle" \notin RunPoints
  BY DEF RunPoints, CheckPoints, WorkPoints, SetPoints, SetTarget
<1>q. QED BY <1>1, IdleType DEF Return, Become, Moves, SameRun

LEMMA GotoMoves ==
  ASSUME ThreadInv, NEW t \in Threads, thread[t].job \in Jobs,
         NEW p \in Points \ StopPoints, Goto(t, p)
  PROVE  /\ Moves(t, Enter(thread[t], p))
         /\ Enter(thread[t], p).at = p
         /\ Enter(thread[t], p).job = thread[t].job
BY EnterType DEF Goto, Become, Moves, ThreadInv

(* A point is a point. *)
LEMMA PointSets ==
  /\ RunPoints \subseteq Points \ (StopPoints \cup ResumePoints \cup SubmitPoints)
  /\ SubmitPoints \subseteq Points \ StopPoints
  /\ ResumePoints \subseteq Points \ StopPoints
  /\ StopPoints \subseteq Points
  /\ "idle" \in Points \ (StopPoints \cup RunPoints \cup ResumePoints)
  /\ CheckPoints \cup WorkPoints \subseteq RunPoints
  /\ SetPoints \ {"setAccepted", "setRefused"} \subseteq RunPoints
BY DEF Points, RunPoints, StopPoints, ResumePoints, SubmitPoints, CheckPoints,
       WorkPoints, SetPoints, SetTarget

(* A thread that goes on in its run: where it may be, and at which step. *)
LEMMA ProceedMoves ==
  ASSUME ThreadInv, NEW t \in Threads, thread[t].at \in RunPoints, Proceed(t)
  PROVE  \E s : /\ Moves(t, s)
                /\ SameRun(t, s)
                /\ \/ s = Idle
                   \/ /\ s.at \in RunPoints
                      /\ s.at \in Flow[thread[t].at] \cup Loop[thread[t].at]
                      /\ s.step = FirstStep(s.at)
<1> DEFINE r == thread[t]
<1>1. r \in ThreadStates /\ LocalOK(r)
  BY DEF ThreadInv
<1>2. r.job \in Jobs /\ r.laps \in 0..MaxLaps
  BY <1>1, PointSets DEF LocalOK, ThreadStates
<1>3. Flow[r.at] \subseteq RunPoints \cup {"idle"} /\ Loop[r.at] \subseteq RunPoints
  BY FlowType
<1>4. CASE Return(t)
  BY <1>4, ReturnMoves
<1>5. CASE \E p \in Flow[r.at] \ {"idle"} : Goto(t, p)
  <2>1. PICK p \in Flow[r.at] \ {"idle"} : Goto(t, p)
    BY <1>5
  <2>2. p \in RunPoints /\ p \in Points \ StopPoints
    BY <1>3, <2>1, PointSets
  <2>3. Moves(t, Enter(r, p)) /\ Enter(r, p).at = p /\ Enter(r, p).job = r.job
    BY <1>2, <2>1, <2>2, GotoMoves
  <2>4. Enter(r, p).step = FirstStep(p)
    BY <1>1 DEF Enter, ThreadStates
  <2>q. QED BY <2>2, <2>3, <2>4, <2>1 DEF SameRun
<1>6. CASE /\ r.laps < MaxLaps
           /\ \E p \in Loop[r.at] : Become(t, [Enter(r, p) EXCEPT !.laps = @ + 1])
  <2>1. PICK p \in Loop[r.at] : Become(t, [Enter(r, p) EXCEPT !.laps = @ + 1])
    BY <1>6
  <2>2. p \in RunPoints /\ p \in Points \ StopPoints
    BY <1>3, <2>1, PointSets
  <2> DEFINE e == Enter(r, p)
             s == [e EXCEPT !.laps = @ + 1]
  <2>3. e \in ThreadStates /\ e.at = p /\ e.job = r.job /\ LocalOK(e)
    BY <1>1, <1>2, <2>2, EnterType
  <2>4. e.step = FirstStep(p) /\ e.laps = r.laps
    BY <1>1 DEF Enter, ThreadStates
  <2>5. s.laps \in 0..MaxLaps
    BY <1>2, <1>6, <2>3, <2>4, ControlAssumption DEF ThreadStates
  <2>6. /\ s \in ThreadStates
        /\ s.at = p /\ s.job = r.job /\ s.step = e.step /\ s.target = e.target
    BY <2>3, <2>5 DEF ThreadStates
  <2>7. LocalOK(s)
    BY <2>3, <2>6 DEF LocalOK
  <2>q. QED BY <2>1, <2>2, <2>4, <2>6, <2>7 DEF Moves, SameRun, Become
<1>q. QED BY <1>4, <1>5, <1>6 DEF Proceed

-----------------------------------------------------------------------------
(* What each kind of step does to the thread that takes it. *)

(* The usual step: thread t moves within its run or outside any run, and   *)
(* does not enter a resume it was not in.                                  *)
Carries(t, s) ==
  /\ Moves(t, s)
  /\ SameRun(t, s)
  /\ s.at \in ResumePoints => thread[t].at \in ResumePoints

LEMMA TypeInvParts ==
  /\ TypeInv => ThreadInv
  /\ TypeInv => \A t \in Threads :
       /\ thread[t] \in ThreadStates
       /\ LocalOK(thread[t])
       /\ thread[t].at # "idle" => thread[t].job \in Jobs
BY DEF TypeInv, TypeOK, ThreadInv, LocalOK

LEMMA ReturnCarries ==
  ASSUME TypeInv, NEW t \in Threads, Return(t)
  PROVE  Carries(t, Idle)
BY TypeInvParts, ReturnMoves, PointSets, IdleType DEF Carries

(* To a point outside the runs, or from one point of a run to another. *)
LEMMA GotoCarries ==
  ASSUME TypeInv, NEW t \in Threads, thread[t].at # "idle",
         NEW p \in Points \ StopPoints, Goto(t, p),
         p \in RunPoints => thread[t].at \in RunPoints,
         p \in ResumePoints => thread[t].at \in ResumePoints
  PROVE  Carries(t, Enter(thread[t], p))
BY TypeInvParts, GotoMoves DEF Carries, SameRun

LEMMA ProceedCarries ==
  ASSUME TypeInv, NEW t \in Threads, thread[t].at \in RunPoints, Proceed(t)
  PROVE  \E s : Carries(t, s)
<1>1. PICK s : Moves(t, s) /\ SameRun(t, s) /\ (s = Idle \/ s.at \in RunPoints)
  BY TypeInvParts, ProceedMoves
<1>2. s.at \notin ResumePoints
  BY <1>1, IdleType, PointSets
<1>q. QED BY <1>1, <1>2 DEF Carries

(* The thread stays at its point and updates its locals. *)
LEMMA LocalCarries ==
  ASSUME TypeInv, NEW t \in Threads, NEW s \in ThreadStates, LocalOK(s),
         Become(t, s), s.at = thread[t].at, s.job = thread[t].job
  PROVE  Carries(t, s)
BY DEF Carries, Moves, SameRun, Become

LEMMA SubmitWork ==
  ASSUME TypeInv, NEW t \in Threads,
         StoreContext(t) \/ RefuseCookies(t) \/ LoadContext(t)
  PROVE  \E s : Carries(t, s)
<1>1. thread[t].at \in {"storeContext", "loadContext"}
  BY DEF StoreContext, RefuseCookies, LoadContext, At
<1>2. "claimSubmitted" \in SubmitPoints /\ "setRefused" \in SubmitPoints
  BY DEF SubmitPoints
<1>3. "loadContext" \in RunPoints /\ "checkRun" \in RunPoints
  BY DEF RunPoints, CheckPoints
<1>4. /\ \A p \in SubmitPoints : p \notin ResumePoints /\ p \notin RunPoints
      /\ \A p \in RunPoints : p \notin ResumePoints
  BY DEF SubmitPoints, ResumePoints, RunPoints, CheckPoints, WorkPoints, SetPoints, SetTarget
<1>5. CASE Return(t)
  BY <1>5, ReturnCarries
<1>6. CASE Goto(t, "claimSubmitted") \/ Goto(t, "setRefused")
  BY <1>1, <1>2, <1>4, <1>6, GotoCarries, PointSets
<1>7. CASE LoadContext(t)
  <2>1. Goto(t, "checkRun") /\ thread[t].at = "loadContext"
    BY <1>7 DEF LoadContext, At
  <2>q. QED BY <1>3, <1>4, <2>1, GotoCarries, PointSets
<1>q. QED BY <1>5, <1>6, <1>7 DEF StoreContext, RefuseCookies

LEMMA CheckWork ==
  ASSUME TypeInv, NEW t \in Threads, CheckContext(t) \/ CheckRow(t)
  PROVE  \E s : Carries(t, s)
<1> DEFINE r == thread[t]
<1>1. r \in ThreadStates /\ LocalOK(r) /\ r.at \in CheckPoints
  BY TypeInvParts DEF CheckContext, CheckRow, LocalOK
<1>2. r.at # "setCompleted" /\ r.at # "publish" /\ r.at # "idle" /\ r.at \notin StopPoints
  BY <1>1 DEF CheckPoints, StopPoints
<1>3. r.job \in Jobs
  BY <1>1, <1>2 DEF LocalOK
<1>4. CASE CheckContext(t)
  <2> DEFINE s == [r EXCEPT !.step = "row", !.pause = pauseFlag[r.job],
                            !.cancel = cancelFlag[r.job]]
  <2>1. pauseFlag[r.job] \in BOOLEAN /\ cancelFlag[r.job] \in BOOLEAN
    BY <1>3 DEF TypeInv, TypeOK, QueueTypeOK
  <2>2. s \in ThreadStates /\ s.at = r.at /\ s.job = r.job /\ s.step = "row"
    BY <1>1, <2>1 DEF ThreadStates, Steps
  <2>3. LocalOK(s)
    BY <1>1, <1>2, <1>3, <2>2 DEF LocalOK
  <2>q. QED BY <1>4, <2>2, <2>3, LocalCarries DEF CheckContext
<1>5. CASE CheckRow(t)
  <2> DEFINE x == StopFound(r, jobState[r.job])
             s == [r EXCEPT !.step = "flags", !.target = x]
  <2>1. CASE Proceed(t)
    BY <1>1, <2>1, PointSets, ProceedCarries
  <2>2. CASE Return(t)
    BY <2>2, ReturnCarries
  <2>3. CASE x # "none" /\ Become(t, s)
    <3>1. x \in {"paused", "cancelled"}
      BY <2>3 DEF StopFound
    <3>2. /\ s \in ThreadStates /\ s.at = r.at /\ s.job = r.job
          /\ s.step = "flags" /\ s.target = x
      BY <1>1, <3>1 DEF ThreadStates, Steps, States, Terminal
    <3>3. LocalOK(s)
      BY <1>1, <1>2, <1>3, <3>1, <3>2 DEF LocalOK
    <3>q. QED BY <2>3, <3>2, <3>3, LocalCarries
  <2>q. QED BY <1>5, <2>1, <2>2, <2>3 DEF CheckRow
<1>q. QED BY <1>4, <1>5

(* The three transactions of set_state, and the clearing of the flags. *)
LEMMA SetWork ==
  ASSUME TypeInv, NEW t \in Threads,
         SetFlags(t) \/ SetRead(t) \/ SetWrite(t) \/ SetClear(t)
  PROVE  \E s : Carries(t, s)
<1> DEFINE r == thread[t]
<1>1. /\ r \in ThreadStates /\ LocalOK(r)
      /\ r.step \in {"flags", "state", "write", "clear"}
  BY TypeInvParts DEF SetFlags, SetRead, SetWrite, SetClear
<1>2. r.at \in CheckPoints \cup SetPoints
  BY <1>1 DEF LocalOK, SetPoints, SetTarget
<1>3. r.at # "publish" /\ r.at # "idle" /\ r.at \notin StopPoints
  BY <1>2 DEF CheckPoints, StopPoints, SetPoints, SetTarget
<1>4. r.job \in Jobs
  BY <1>1, <1>3 DEF LocalOK
<1>5. CASE SetFlags(t)
  <2> DEFINE s == [r EXCEPT !.step = "state", !.pause = pauseFlag[r.job],
                            !.cancel = cancelFlag[r.job]]
  <2>1. pauseFlag[r.job] \in BOOLEAN /\ cancelFlag[r.job] \in BOOLEAN
    BY <1>4 DEF TypeInv, TypeOK, QueueTypeOK
  <2>2. /\ s \in ThreadStates /\ s.at = r.at /\ s.job = r.job
        /\ s.step = "state" /\ s.target = r.target
    BY <1>1, <2>1 DEF ThreadStates, Steps
  <2>3. r.step = "flags"
    BY <1>5 DEF SetFlags
  <2>4. LocalOK(s)
    BY <1>1, <1>3, <1>4, <2>2, <2>3 DEF LocalOK
  <2>q. QED BY <1>5, <2>2, <2>4, LocalCarries DEF SetFlags
<1>6. CASE SetRead(t)
  <2> DEFINE s == [r EXCEPT !.step = "write", !.seen = jobState[r.job]]
  <2>1. jobState[r.job] \in States
    BY <1>4 DEF TypeInv, TypeOK, QueueTypeOK
  <2>2. /\ s \in ThreadStates /\ s.at = r.at /\ s.job = r.job
        /\ s.step = "write" /\ s.target = r.target
    BY <1>1, <2>1 DEF ThreadStates, Steps
  <2>3. r.step = "state"
    BY <1>6 DEF SetRead
  <2>4. LocalOK(s)
    BY <1>1, <1>3, <1>4, <2>2, <2>3 DEF LocalOK
  <2>q. QED BY <1>6, <2>2, <2>4, LocalCarries DEF SetRead
<1>7. CASE SetWrite(t)
  <2>1. CASE Commits(r.seen, r.target) /\ Become(t, [r EXCEPT !.step = "clear"])
    <3> DEFINE s == [r EXCEPT !.step = "clear"]
    <3>1. r.at = "setCompleted"
      <4>1. r.target = "completed" /\ r.step = "write"
        BY <1>7, <2>1 DEF SetWrite, Commits
      <4>q. QED BY <1>1, <4>1 DEF LocalOK, SetPoints, SetTarget
    <3>2. /\ s \in ThreadStates /\ s.at = r.at /\ s.job = r.job /\ s.step = "clear"
      BY <1>1 DEF ThreadStates, Steps
    <3>3. LocalOK(s)
      BY <1>1, <1>3, <1>4, <3>1, <3>2 DEF LocalOK
    <3>q. QED BY <2>1, <3>2, <3>3, LocalCarries
  <2>2. CASE Return(t)
    BY <2>2, ReturnCarries
  <2>3. CASE AfterSet(t)
    <3>1. CASE r.at = "setAccepted" /\ Goto(t, "claimResumed")
      <4>1. /\ "claimResumed" \in ResumePoints /\ "setAccepted" \in ResumePoints
            /\ "claimResumed" \notin RunPoints
        BY DEF ResumePoints, RunPoints, CheckPoints, WorkPoints, SetPoints, SetTarget
      <4>q. QED BY <1>3, <3>1, <4>1, GotoCarries, PointSets
    <3>2. CASE Return(t)
      BY <3>2, ReturnCarries
    <3>3. CASE /\ r.at \notin CheckPoints \cup {"setAccepted", "setRefused"}
               /\ Proceed(t)
      BY <1>2, <3>3, PointSets, ProceedCarries
    <3>q. QED BY <2>3, <3>1, <3>2, <3>3 DEF AfterSet
  <2>q. QED BY <1>7, <2>1, <2>2, <2>3 DEF SetWrite
<1>8. CASE SetClear(t)
  BY <1>8, ReturnCarries DEF SetClear
<1>q. QED BY <1>5, <1>6, <1>7, <1>8

LEMMA ProviderWork ==
  ASSUME TypeInv, NEW t \in Threads,
         WorkStart(t) \/ WorkFinish(t) \/ Interrupted(t) \/ Publish(t)
  PROVE  \E s : Carries(t, s)
<1> DEFINE r == thread[t]
<1>1. r \in ThreadStates /\ LocalOK(r) /\ r.at \in WorkPoints
  BY TypeInvParts DEF WorkStart, WorkFinish, Interrupted, Publish, At, LocalOK, WorkPoints
<1>2. r.at # "idle" /\ r.at \notin StopPoints /\ r.at # "setCompleted" /\ r.job \in Jobs
  BY <1>1 DEF LocalOK, WorkPoints, StopPoints
<1>3. CASE WorkStart(t)
  <2> DEFINE s == [r EXCEPT !.step = "finish"]
  <2>1. s \in ThreadStates /\ s.at = r.at /\ s.job = r.job /\ s.step = "finish"
    BY <1>1 DEF ThreadStates, Steps
  <2>2. LocalOK(s)
    BY <1>1, <1>2, <1>3, <2>1 DEF LocalOK, WorkStart
  <2>q. QED BY <1>3, <2>1, <2>2, LocalCarries DEF WorkStart
<1>4. CASE Proceed(t)
  BY <1>1, <1>4, PointSets, ProceedCarries
<1>5. CASE Return(t)
  BY <1>5, ReturnCarries
<1>6. CASE Goto(t, "setCompleted") \/ Goto(t, "setFailed")
  <2>1. {"setCompleted", "setFailed"} \subseteq RunPoints
    BY DEF RunPoints, SetPoints, SetTarget
  <2>q. QED BY <1>1, <1>2, <1>6, <2>1, GotoCarries, PointSets
<1>q. QED BY <1>3, <1>4, <1>5, <1>6 DEF WorkFinish, Interrupted, Publish

(* The four steps of a stop. *)
LEMMA StopWork ==
  ASSUME TypeInv, NEW t \in Threads,
         StopFlag(t) \/ StopSignal(t) \/ StopRow(t) \/ StopUndo(t)
  PROVE  \E s : Carries(t, s)
<1> DEFINE r == thread[t]
<1>1. r \in ThreadStates /\ LocalOK(r) /\ r.at \in StopPoints /\ r.step = "go"
  BY TypeInvParts DEF StopFlag, StopSignal, StopRow, StopUndo, At, StopPoints
<1>2. r.job \in Jobs /\ r.target \in {"paused", "cancelled"}
  BY <1>1 DEF LocalOK, StopPoints
<1>3. CASE Return(t)
  BY <1>3, ReturnCarries
<1>4. ASSUME NEW p \in StopPoints, Become(t, [r EXCEPT !.at = p])
      PROVE  \E s : Carries(t, s)
  <2> DEFINE s == [r EXCEPT !.at = p]
  <2>1. p # "setCompleted" /\ p # "publish" /\ p \in Points
    BY <1>4, PointSets DEF StopPoints
  <2>2. /\ s \in ThreadStates /\ s.at = p /\ s.job = r.job /\ s.step = "go"
        /\ s.target = r.target
    BY <1>1, <2>1 DEF ThreadStates
  <2>3. LocalOK(s)
    BY <1>2, <2>1, <2>2 DEF LocalOK
  <2>4. s.at \notin RunPoints /\ s.at \notin ResumePoints
    BY <1>4, <2>2, PointSets DEF StopPoints, ResumePoints
  <2>q. QED BY <1>4, <2>2, <2>3, <2>4 DEF Carries, Moves, SameRun, Become
<1>q. QED BY <1>3, <1>4 DEF StopFlag, StopSignal, StopRow, StopUndo, StopPoints

LEMMA ResumeWork ==
  ASSUME TypeInv, NEW t \in Threads, ResumeFlag(t) \/ ResumeEvents(t)
  PROVE  \E s : Carries(t, s)
<1> DEFINE r == thread[t]
<1>1. r \in ThreadStates /\ LocalOK(r) /\ r.at \in ResumePoints /\ r.step = "go" /\ r.at # "idle"
  BY TypeInvParts DEF ResumeFlag, ResumeEvents, At, ResumePoints
<1>2. r.job \in Jobs
  BY <1>1 DEF LocalOK
<1>3. CASE ResumeFlag(t)
  <2> DEFINE s == [r EXCEPT !.at = "resumeEvents"]
  <2>1. /\ s \in ThreadStates /\ s.at = "resumeEvents" /\ s.job = r.job /\ s.step = "go"
    BY <1>1 DEF ThreadStates, Points, ResumePoints
  <2>2. s.at \notin StopPoints /\ s.at \notin RunPoints
    BY <2>1 DEF StopPoints, RunPoints, CheckPoints, WorkPoints, SetPoints, SetTarget
  <2>3. LocalOK(s)
    BY <1>2, <2>1, <2>2 DEF LocalOK
  <2>q. QED BY <1>1, <1>3, <2>1, <2>2, <2>3 DEF Carries, Moves, SameRun, Become, ResumeFlag
<1>4. CASE ResumeEvents(t)
  <2>1. PICK p \in {"setAccepted", "claimResumed"} : Goto(t, p)
    BY <1>4 DEF ResumeEvents
  <2>2. p \in ResumePoints /\ p \notin RunPoints
    BY <2>1 DEF ResumePoints, RunPoints, CheckPoints, WorkPoints, SetPoints, SetTarget
  <2>q. QED BY <1>1, <2>1, <2>2, PointSets, GotoCarries
<1>q. QED BY <1>3, <1>4

(* A step that wins a claim on job j puts its thread into a run of j. *)
Starts(t, j, s) ==
  /\ Claim(j)
  /\ Moves(t, s)
  /\ s.job = j
  /\ s.at \in {"checkRun", "loadContext"}

LEMMA BeginMoves ==
  ASSUME TypeInv, NEW t \in Threads, NEW j \in Jobs, NEW p \in Points \ StopPoints,
         Begin(t, j, p)
  PROVE  \E s : Moves(t, s) /\ s.at = p /\ s.job = j
<1> DEFINE i == [Idle EXCEPT !.job = j]
<1>1. i \in ThreadStates /\ i.job = j
  BY IdleType DEF ThreadStates
<1>2. Enter(i, p) \in ThreadStates /\ Enter(i, p).at = p /\ Enter(i, p).job = j /\ LocalOK(Enter(i, p))
  BY <1>1, EnterType
<1>q. QED BY <1>2 DEF Begin, Become, Moves

LEMMA ClaimWork ==
  ASSUME TypeInv, NEW t \in Threads,
         ClaimSubmitted(t) \/ ClaimResumed(t) \/ RunNext(t)
  PROVE  \/ \E s : Carries(t, s) /\ UNCHANGED jobState
         \/ \E j \in Jobs : \E s : Starts(t, j, s)
<1>1. {"checkRun", "loadContext"} \subseteq RunPoints
  BY DEF RunPoints, CheckPoints
<1>2. CASE Return(t) /\ UNCHANGED jobState
  BY <1>2, ReturnCarries
<1>3. ASSUME NEW p \in {"checkRun", "loadContext"}, thread[t].at # "idle",
             Claim(thread[t].job), Goto(t, p)
      PROVE  \E j \in Jobs : \E s : Starts(t, j, s)
  <2>1. thread[t].job \in Jobs
    BY <1>3, TypeInvParts
  <2>2. p \in RunPoints /\ p \in Points \ StopPoints
    BY <1>1, PointSets
  <2>3. /\ Moves(t, Enter(thread[t], p)) /\ Enter(thread[t], p).at = p
        /\ Enter(thread[t], p).job = thread[t].job
    BY <1>3, <2>1, <2>2, TypeInvParts, GotoMoves
  <2>q. QED BY <1>3, <2>1, <2>2, <2>3 DEF Starts
<1>4. CASE RunNext(t)
  <2>1. PICK j \in Jobs : ClaimNext(j) /\ Begin(t, j, "loadContext")
    BY <1>4 DEF RunNext
  <2>2. PICK s : Moves(t, s) /\ s.at = "loadContext" /\ s.job = j
    BY <1>1, <2>1, PointSets, BeginMoves
  <2>q. QED BY <1>1, <2>1, <2>2 DEF Starts, ClaimNext
<1>q. QED BY <1>2, <1>3, <1>4 DEF ClaimSubmitted, ClaimResumed, At, queueVars

(* A command leaves its thread outside any run. *)
LEMMA CommandMoves ==
  ASSUME TypeInv, NEW t \in Threads, Command(t)
  PROVE  \/ \E s : Carries(t, s)
         \/ "resume" \in Commands /\ \E s : Moves(t, s) /\ s.at \notin RunPoints
         \/ UNCHANGED <<thread, jobState>>
<1>1. ASSUME NEW j \in Jobs, Submit(t, j)
      PROVE  \E s : Carries(t, s)
  <2>1. "storeContext" \in Points \ (StopPoints \cup RunPoints \cup ResumePoints)
    BY PointSets DEF SubmitPoints, StopPoints, ResumePoints
  <2>2. PICK s : Moves(t, s) /\ s.at = "storeContext" /\ s.job = j
    BY <1>1, <2>1, BeginMoves DEF Submit
  <2>q. QED BY <2>1, <2>2 DEF Carries, SameRun
<1>2. ASSUME NEW j \in Jobs, NEW kind \in {"paused", "cancelled"}, RequestStop(t, j, kind)
      PROVE  \E s : Carries(t, s)
  <2> DEFINE s == [Idle EXCEPT !.at = "stopFlag", !.job = j, !.target = kind]
  <2>1. "stopFlag" \in Points \ (RunPoints \cup ResumePoints)
    BY PointSets DEF StopPoints, ResumePoints
  <2>2. /\ s \in ThreadStates /\ s.at = "stopFlag" /\ s.job = j /\ s.step = "go"
        /\ s.target = kind
    BY <1>2, <2>1, IdleType DEF ThreadStates, Idle, States, Terminal
  <2>3. LocalOK(s)
    BY <1>2, <2>2 DEF LocalOK
  <2>q. QED BY <1>2, <2>1, <2>2, <2>3 DEF Carries, Moves, SameRun, RequestStop, Become
<1>3. ASSUME NEW j \in Jobs, RequestResume(t, j)
      PROVE  "resume" \in Commands /\ \E s : Moves(t, s) /\ s.at \notin RunPoints
  <2> DEFINE s == [Idle EXCEPT !.at = "resumeFlag", !.job = j, !.seen = jobState[j]]
  <2>1. "resumeFlag" \in Points \ (StopPoints \cup RunPoints)
    BY PointSets DEF StopPoints, ResumePoints
  <2>2. jobState[j] \in States
    BY DEF TypeInv, TypeOK, QueueTypeOK
  <2>3. s \in ThreadStates /\ s.at = "resumeFlag" /\ s.job = j /\ s.step = "go"
    BY <2>1, <2>2, IdleType DEF ThreadStates, Idle
  <2>4. LocalOK(s)
    BY <2>1, <2>3 DEF LocalOK
  <2>q. QED BY <1>3, <2>1, <2>3, <2>4 DEF Moves, RequestResume, Become
<1>4. ASSUME NEW value \in BOOLEAN, HoldQueue(t, value)
      PROVE  UNCHANGED <<thread, jobState>>
  BY <1>4 DEF HoldQueue, SetPaused
<1>q. QED BY <1>1, <1>2, <1>3, <1>4 DEF Command

(* Every step of the system, seen from the threads. *)
LEMMA StepMoves ==
  ASSUME TypeInv, Next
  PROVE  \/ \E t \in Threads : \E s : Carries(t, s)
         \/ \E t \in Threads, j \in Jobs : \E s : Starts(t, j, s)
         \/ "resume" \in Commands /\ \E t \in Threads : \E s : Moves(t, s) /\ s.at \notin RunPoints
         \/ UNCHANGED <<thread, jobState>>
         \/ Restart
<1>1. ASSUME NEW t \in Threads, Work(t)
      PROVE  \/ \E s : Carries(t, s)
             \/ \E j \in Jobs : \E s : Starts(t, j, s)
  BY <1>1, SubmitWork, CheckWork, SetWork, ProviderWork, StopWork, ResumeWork, ClaimWork
     DEF Work
<1>2. ASSUME NEW t \in Threads, RunNext(t)
      PROVE  \/ \E s : Carries(t, s)
             \/ \E j \in Jobs : \E s : Starts(t, j, s)
  BY <1>2, ClaimWork
<1>3. ASSUME NEW t \in Threads, Abort(t)
      PROVE  \E s : Carries(t, s)
  BY <1>3, ReturnCarries DEF Abort
<1>q. QED BY <1>1, <1>2, <1>3, CommandMoves DEF Next

DataTypeOK ==
  /\ QueueTypeOK
  /\ pauseEvent \in [Jobs -> BOOLEAN]
  /\ cancelEvent \in [Jobs -> BOOLEAN]
  /\ published \in [Jobs -> BOOLEAN]
  /\ stopped \in [Jobs -> {"no", "raced", "paused", "cancelled"}]
  /\ bare \in SUBSET Jobs
  /\ faults \in 0..MaxFaults

(* set_state stores a state of the queue. *)
LEMMA VerdictType ==
  ASSUME NEW pause, NEW cancel, NEW seen, NEW target
  PROVE  Verdict(pause, cancel, seen, target) \in {target, "cancelled", "paused"}
BY DEF Verdict

(* The operations of the queue keep its types. *)
LEMMA QueueType ==
  ASSUME QueueTypeOK, NEW j \in Jobs
  PROVE  /\ \A s \in States : PutJob(j, s) => QueueTypeOK'
         /\ Claim(j) => QueueTypeOK'
         /\ \A s \in States : TransitionUnlessCommitted(j, s) => QueueTypeOK'
         /\ \A kind : SetFlag(j, kind, TRUE) \/ SetFlag(j, kind, FALSE) => QueueTypeOK'
         /\ ClearFlags(j) => QueueTypeOK'
         /\ PutContext(j) => QueueTypeOK'
         /\ \A value \in BOOLEAN : SetPaused(value) => QueueTypeOK'
         /\ UNCHANGED queueVars => QueueTypeOK'
<1>1. \A s \in States : PutJob(j, s) => QueueTypeOK'
  BY DEF QueueTypeOK, PutJob
<1>2. Claim(j) => QueueTypeOK'
  BY <1>1 DEF Claim, States, Working
<1>3. \A s \in States : TransitionUnlessCommitted(j, s) => QueueTypeOK'
  BY <1>1 DEF TransitionUnlessCommitted
<1>4. \A kind : SetFlag(j, kind, TRUE) \/ SetFlag(j, kind, FALSE) => QueueTypeOK'
  BY DEF QueueTypeOK, SetFlag
<1>5. ClearFlags(j) => QueueTypeOK'
  BY DEF QueueTypeOK, ClearFlags
<1>6. PutContext(j) => QueueTypeOK'
  BY DEF QueueTypeOK, PutContext
<1>7. \A value \in BOOLEAN : SetPaused(value) => QueueTypeOK'
  BY DEF QueueTypeOK, SetPaused
<1>8. UNCHANGED queueVars => QueueTypeOK'
  BY DEF QueueTypeOK, queueVars
<1>q. QED BY <1>1, <1>2, <1>3, <1>4, <1>5, <1>6, <1>7, <1>8

LEMMA DataType ==
  ASSUME TypeInv, Next
  PROVE  DataTypeOK'
<1> USE DEF DataTypeOK
<1>1. DataTypeOK
  BY DEF TypeInv, TypeOK
<1>2. ASSUME NEW t \in Threads, thread[t].job \in Jobs, Work(t)
      PROVE  DataTypeOK'
  <2> DEFINE r == thread[t]
             j == r.job
  <2>1. r \in ThreadStates /\ LocalOK(r) /\ j \in Jobs
    BY <1>2, TypeInvParts
  <2>2. CASE StoreContext(t) \/ RefuseCookies(t) \/ ClaimSubmitted(t) \/ ClaimResumed(t)
    BY <1>1, <2>1, <2>2, QueueType
       DEF StoreContext, RefuseCookies, ClaimSubmitted, ClaimResumed, runtimeVars, historyVars
  <2>3. CASE LoadContext(t)
    BY <1>1, <2>1, <2>3, QueueType DEF LoadContext, runtimeVars
  <2>4. CASE CheckContext(t) \/ CheckRow(t) \/ SetFlags(t) \/ SetRead(t)
               \/ WorkStart(t) \/ WorkFinish(t)
    BY <1>1, <2>1, <2>4, QueueType
       DEF CheckContext, CheckRow, SetFlags, SetRead, WorkStart, WorkFinish, runtimeVars, historyVars
  <2>5. CASE SetWrite(t)
    <3>1. r.target \in States /\ {"cancelled", "paused"} \subseteq States
      BY <2>1 DEF ThreadStates, States, Terminal
    <3>2. Verdict(r.pause, r.cancel, r.seen, r.target) \in States
      BY <3>1, VerdictType
    <3>3. PutJob(j, Verdict(r.pause, r.cancel, r.seen, r.target))
      BY <2>5 DEF SetWrite
    <3>4. QueueTypeOK'
      BY <1>1, <2>1, <3>2, <3>3, QueueType
    <3>q. QED BY <1>1, <2>5, <3>4 DEF SetWrite, runtimeVars, historyVars
  <2>6. CASE SetClear(t)
    BY <1>1, <2>1, <2>6, QueueType DEF SetClear, runtimeVars, historyVars
  <2>7. CASE Interrupted(t)
    BY <1>1, <2>1, <2>7, QueueType DEF Interrupted, historyVars
  <2>8. CASE Publish(t)
    BY <1>1, <2>1, <2>8, QueueType DEF Publish, runtimeVars
  <2>9. CASE StopFlag(t) \/ StopUndo(t) \/ ResumeFlag(t)
    BY <1>1, <2>1, <2>9, QueueType DEF StopFlag, StopUndo, ResumeFlag, runtimeVars, historyVars
  <2>10. CASE StopSignal(t)
    <3>1. /\ pauseEvent' \in [Jobs -> BOOLEAN] /\ cancelEvent' \in [Jobs -> BOOLEAN]
      <4>1. CASE UNCHANGED runtimeVars
        BY <1>1, <4>1 DEF runtimeVars
      <4>2. CASE /\ pauseEvent' = [pauseEvent EXCEPT ![j] = @ \/ r.target = "paused"]
                 /\ cancelEvent' = [cancelEvent EXCEPT ![j] = @ \/ r.target = "cancelled"]
        BY <1>1, <2>1, <4>2
      <4>q. QED BY <2>10, <4>1, <4>2 DEF StopSignal
    <3>q. QED BY <1>1, <2>1, <2>10, <3>1, QueueType DEF StopSignal, historyVars
  <2>11. CASE StopRow(t)
    <3>1. r.target \in {"paused", "cancelled"} /\ r.target \in States
      BY <2>1, <2>11 DEF StopRow, At, LocalOK, StopPoints, ThreadStates
    <3>2. QueueTypeOK'
      BY <1>1, <2>1, <2>11, <3>1, QueueType DEF StopRow
    <3>3. stopped' \in [Jobs -> {"no", "raced", "paused", "cancelled"}]
      BY <1>1, <2>1, <2>11, <3>1 DEF StopRow
    <3>q. QED BY <1>1, <2>11, <3>2, <3>3 DEF StopRow, runtimeVars
  <2>12. CASE ResumeEvents(t)
    BY <1>1, <2>1, <2>12, QueueType DEF ResumeEvents, runtimeVars, historyVars
  <2>q. QED BY <1>2, <2>2, <2>3, <2>4, <2>5, <2>6, <2>7, <2>8, <2>9, <2>10, <2>11, <2>12
            DEF Work
<1>3. ASSUME NEW t \in Threads, Work(t)
      PROVE  thread[t].job \in Jobs
  <2>1. thread[t].at # "idle"
    BY <1>3, TypeInvParts
       DEF Work, StoreContext, RefuseCookies, ClaimSubmitted, LoadContext, CheckContext, CheckRow,
           SetFlags, SetRead, SetWrite, SetClear, WorkStart, WorkFinish, Interrupted, Publish,
           StopFlag, StopSignal, StopRow, StopUndo, ResumeFlag, ResumeEvents, ClaimResumed,
           At, LocalOK, CheckPoints, SetPoints, SetTarget, WorkPoints
  <2>q. QED BY <2>1, TypeInvParts
<1>4. ASSUME NEW t \in Threads, RunNext(t)
      PROVE  DataTypeOK'
  BY <1>1, <1>4, QueueType DEF RunNext, ClaimNext, runtimeVars, historyVars
<1>5. ASSUME NEW t \in Threads, Command(t)
      PROVE  DataTypeOK'
  <2>1. ASSUME NEW j \in Jobs, Submit(t, j) \/ RequestResume(t, j)
                 \/ \E kind \in {"paused", "cancelled"} : RequestStop(t, j, kind)
        PROVE  DataTypeOK'
    <3>1. "accepted" \in States
      BY DEF States
    <3>q. QED BY <1>1, <2>1, <3>1, QueueType
              DEF Submit, RequestResume, RequestStop, runtimeVars, historyVars
  <2>2. ASSUME NEW value \in BOOLEAN, HoldQueue(t, value)
        PROVE  DataTypeOK'
    BY <1>1, <2>2 DEF HoldQueue, SetPaused, QueueTypeOK, runtimeVars, historyVars
  <2>q. QED BY <1>5, <2>1, <2>2 DEF Command
<1>6. ASSUME NEW t \in Threads, Abort(t)
      PROVE  DataTypeOK'
  BY <1>1, <1>6, ControlAssumption DEF Abort, QueueTypeOK, queueVars, runtimeVars
<1>7. CASE Restart
  BY <1>1, <1>7, ControlAssumption DEF Restart, QueueTypeOK, queueVars
<1>q. QED BY <1>2, <1>3, <1>4, <1>5, <1>6, <1>7 DEF Next

LEMMA TypeInvInit == Init => TypeInv
<1> SUFFICES ASSUME Init PROVE TypeInv
  OBVIOUS
<1>1. QueueTypeOK
  BY DEF Init, QueueInit, QueueTypeOK, States
<1>q. QED BY <1>1, IdleType, ControlAssumption DEF Init, TypeInv, TypeOK

LEMMA RestartThread ==
  ASSUME TypeInv, Restart, NEW t \in Threads
  PROVE  thread'[t] = Idle \/ thread'[t] = thread[t]
BY DEF Restart

LEMMA TypeInvStep == TypeInv /\ [Next]_vars => TypeInv'
<1> SUFFICES ASSUME TypeInv, [Next]_vars PROVE TypeInv'
  OBVIOUS
<1>1. CASE UNCHANGED vars
  <2>1. /\ QueueTypeOK' /\ UNCHANGED <<thread, pauseEvent, cancelEvent, published, stopped, bare, faults>>
    BY <1>1 DEF TypeInv, TypeOK, QueueTypeOK, vars, queueVars, runtimeVars, historyVars
  <2>q. QED BY <2>1 DEF TypeInv, TypeOK, LocalOK
<1>2. CASE Next
  <2>1. DataTypeOK'
    BY <1>2, DataType
  <2>2. ThreadInv'
    <3>1. ThreadInv
      BY TypeInvParts
    <3>2. CASE Restart
      BY <3>1, <3>2, IdleType DEF Restart, ThreadInv
    <3>3. CASE UNCHANGED <<thread, jobState>>
      BY <3>1, <3>3 DEF ThreadInv, LocalOK
    <3>4. CASE \E t \in Threads : \E s : Moves(t, s)
      BY <3>1, <3>4, MovesInv
    <3>q. QED BY <1>2, <3>2, <3>3, <3>4, StepMoves DEF Carries, Starts
  <2>q. QED BY <2>1, <2>2 DEF TypeInv, TypeOK, DataTypeOK, ThreadInv
<1>q. QED BY <1>1, <1>2

(* Every variable keeps its type, whatever commands are issued and         *)
(* whatever threads are lost.                                              *)
THEOREM TypeCorrect == Spec => []TypeOK
<1>1. TypeInv => TypeOK
  BY DEF TypeInv
<1>q. QED BY TypeInvInit, TypeInvStep, <1>1, PTL DEF Spec

(* A paused queue starts no run: every way into a run is a claim, whatever *)
(* commands are issued.                                                    *)
THEOREM PausedQueueStartsNothing == Spec => NoStartWhilePaused
<1> DEFINE Held == queuePaused => \A t \in Threads : Running(t)' => Running(t)
<1>1. ASSUME TypeInv, [Next]_vars
      PROVE  Held
  <2>1. SUFFICES ASSUME queuePaused, NEW u \in Threads, Running(u)'
                 PROVE  Running(u)
    OBVIOUS
  <2>2. CASE UNCHANGED vars
    BY <2>1, <2>2 DEF vars, Running
  <2>3. ASSUME NEW t \in Threads, NEW s, Moves(t, s), SameRun(t, s) \/ s.at \notin RunPoints
        PROVE  Running(u)
    <3>1. thread'[t] = s /\ \A w \in Threads \ {t} : thread'[w] = thread[w]
      BY <1>1, <2>3, TypeInvParts, MovesInv
    <3>q. QED BY <2>1, <2>3, <3>1 DEF SameRun, Running
  <2>4. \A j : ~Claim(j)
    BY <2>1 DEF Claim, Claimable
  <2>5. CASE UNCHANGED <<thread, jobState>>
    BY <2>1, <2>5 DEF Running
  <2>6. CASE Restart
    BY <1>1, <2>1, <2>6, RestartThread, IdleType, PointSets DEF Running
  <2>q. QED BY <1>1, <2>2, <2>3, <2>4, <2>5, <2>6, StepMoves DEF Carries, Starts
<1>2. TypeInv /\ [Next]_vars => [Held]_vars
  BY <1>1
<1>q. QED BY TypeInvInit, TypeInvStep, <1>2, PTL DEF Spec, NoStartWhilePaused

-----------------------------------------------------------------------------
(* Layer two: claims are exclusive, unless jobs are resumed. *)

(* A row becomes accepted only when it is inserted, for only set_state of  *)
(* resume_job asks for that state again.                                   *)
LEMMA RowStep ==
  ASSUME TypeInv, Next, \A t \in Threads : thread[t].at \notin ResumePoints, NEW j \in Jobs
  PROVE  \/ jobState'[j] = jobState[j]
         \/ jobState[j] = "absent"
         \/ jobState'[j] \notin {"absent", "accepted"}
<1>1. jobState \in [Jobs -> States]
  BY DEF TypeInv, TypeOK, QueueTypeOK
<1>2. ASSUME NEW k, Claim(k)
      PROVE  jobState'[j] = jobState[j] \/ jobState'[j] = "discovering"
  BY <1>1, <1>2 DEF Claim, PutJob
<1>3. ASSUME NEW t \in Threads, SetWrite(t)
      PROVE  jobState'[j] = jobState[j] \/ jobState'[j] \notin {"absent", "accepted"}
  <2> DEFINE r == thread[t]
  <2>1. LocalOK(r) /\ r.step = "write" /\ r.at # "setAccepted"
    BY <1>3, TypeInvParts DEF SetWrite, ResumePoints
  <2>2. r.target \notin {"absent", "accepted"}
    BY <2>1 DEF LocalOK, SetPoints, SetTarget
  <2>3. Verdict(r.pause, r.cancel, r.seen, r.target) \notin {"absent", "accepted"}
    BY <2>2, VerdictType
  <2>q. QED BY <1>1, <1>3, <2>3 DEF SetWrite, PutJob
<1>4. ASSUME NEW t \in Threads, StopRow(t)
      PROVE  jobState'[j] = jobState[j] \/ jobState'[j] \notin {"absent", "accepted"}
  <2>1. thread[t].target \in {"paused", "cancelled"}
    BY <1>4, TypeInvParts DEF StopRow, At, LocalOK, StopPoints
  <2>q. QED BY <1>1, <1>4, <2>1 DEF StopRow, TransitionUnlessCommitted, PutJob, queueVars
<1>5. ASSUME NEW t \in Threads, Work(t)
      PROVE  jobState'[j] = jobState[j] \/ jobState'[j] \notin {"absent", "accepted"}
  BY <1>2, <1>3, <1>4, <1>5
     DEF Work, StoreContext, RefuseCookies, ClaimSubmitted, LoadContext, CheckContext, CheckRow,
         SetFlags, SetRead, SetClear, WorkStart, WorkFinish, Interrupted, Publish,
         StopFlag, StopSignal, StopUndo, ResumeFlag, ResumeEvents, ClaimResumed,
         PutContext, SetFlag, ClearFlags, queueVars
<1>6. ASSUME NEW t \in Threads, RunNext(t)
      PROVE  jobState'[j] = jobState[j] \/ jobState'[j] = "discovering"
  BY <1>2, <1>6 DEF RunNext, ClaimNext
<1>7. ASSUME NEW t \in Threads, Command(t)
      PROVE  jobState'[j] = jobState[j] \/ jobState[j] = "absent"
  BY <1>1, <1>7 DEF Command, Submit, PutJob, RequestStop, RequestResume, HoldQueue, SetPaused, queueVars
<1>q. QED BY <1>5, <1>6, <1>7 DEF Next, Abort, Restart, queueVars

LEMMA ClaimInvStep ==
  ASSUME ClaimInv, [Next]_vars, "resume" \notin Commands
  PROVE  ClaimInv'
<1> USE DEF Running
<1>1. TypeInv /\ TypeInv' /\ ThreadInv
  BY TypeInvStep, TypeInvParts DEF ClaimInv
<1>2. CASE UNCHANGED vars
  BY <1>1, <1>2 DEF ClaimInv, AtMostOneRunner, Runners, vars, queueVars
<1>3. CASE Next
  <2>1. \A j \in Jobs : \/ jobState'[j] = jobState[j]
                        \/ jobState[j] = "absent"
                        \/ jobState'[j] \notin {"absent", "accepted"}
    BY <1>1, <1>3, RowStep DEF ClaimInv
  <2>2. ASSUME \A u \in Threads : Running(u)' => Running(u) /\ thread'[u].job = thread[u].job,
               \A u \in Threads : thread'[u].at \in ResumePoints => thread[u].at \in ResumePoints
        PROVE  ClaimInv'
    <3>1. \A u \in Threads : Running(u)' => thread[u].job \in Jobs
      BY <2>2, TypeInvParts, <1>1, PointSets
    <3>2. \A u \in Threads : Running(u)' => jobState'[thread'[u].job] \notin {"absent", "accepted"}
      BY <2>1, <2>2, <3>1 DEF ClaimInv
    <3>3. AtMostOneRunner'
      BY <2>2 DEF ClaimInv, AtMostOneRunner, Runners
    <3>q. QED BY <1>1, <2>2, <3>2, <3>3 DEF ClaimInv
  <2>3. ASSUME NEW t \in Threads, NEW s, Carries(t, s)
        PROVE  ClaimInv'
    <3>1. thread'[t] = s /\ \A u \in Threads \ {t} : thread'[u] = thread[u]
      BY <1>1, <2>3, MovesInv DEF Carries
    <3>q. QED BY <2>2, <2>3, <3>1 DEF Carries, SameRun
  <2>4. ASSUME NEW t \in Threads, NEW j \in Jobs, NEW s, Starts(t, j, s)
        PROVE  ClaimInv'
    <3>1. thread'[t] = s /\ \A u \in Threads \ {t} : thread'[u] = thread[u]
      BY <1>1, <2>4, MovesInv DEF Starts
    <3>2. \A u \in Threads : Running(u) => thread[u].job # j
      BY <2>4 DEF Starts, Claim, Claimable, ClaimInv
    <3>3. s.at \notin ResumePoints
      BY <2>4 DEF Starts, ResumePoints
    <3>4. jobState'[j] = "discovering"
      BY <1>1, <2>4 DEF Starts, Claim, PutJob, TypeInv, TypeOK, QueueTypeOK
    <3>5. \A u \in Threads \ {t} : Running(u)' => jobState'[thread'[u].job] \notin {"absent", "accepted"}
      BY <1>1, <2>1, <3>1, TypeInvParts, PointSets DEF ClaimInv
    <3>6. AtMostOneRunner'
      BY <2>4, <3>1, <3>2 DEF ClaimInv, AtMostOneRunner, Runners, Starts
    <3>q. QED BY <1>1, <2>4, <3>1, <3>3, <3>4, <3>5, <3>6 DEF ClaimInv, Starts
  <2>5. CASE UNCHANGED <<thread, jobState>>
    BY <2>2, <2>5
  <2>6. CASE Restart
    <3>1. "idle" \notin RunPoints /\ "idle" \notin ResumePoints
      BY PointSets
    <3>q. QED BY <1>1, <2>2, <2>6, <3>1, RestartThread, IdleType
  <2>q. QED BY <1>1, <1>3, <2>3, <2>4, <2>5, <2>6, StepMoves
<1>q. QED BY <1>2, <1>3

LEMMA ClaimInvInit == Init => ClaimInv
<1> SUFFICES ASSUME Init PROVE ClaimInv
  OBVIOUS
<1>1. \A t \in Threads : thread[t].at = "idle"
  BY IdleType DEF Init
<1>q. QED BY <1>1, TypeInvInit, PointSets DEF ClaimInv, AtMostOneRunner, Runners, Running

(* No two threads run the same job, however many dispatchers and clients   *)
(* claim, stop and lose runs, as long as nobody uses resume_job.  The run  *)
(* resume_twice shows that the condition is needed.                        *)
THEOREM ClaimIsExclusive ==
  ASSUME "resume" \notin Commands
  PROVE  Spec => []AtMostOneRunner
<1>1. ClaimInv => AtMostOneRunner
  BY DEF ClaimInv
<1>2. ClaimInv /\ [Next]_vars => ClaimInv'
  BY ClaimInvStep
<1>q. QED BY ClaimInvInit, <1>1, <1>2, PTL DEF Spec

(* While the queue is paused an accepted job waits, unless it is stopped   *)
(* or refused by name: without resume_job no run is left that could still  *)
(* write its row.                                                          *)
THEOREM PausedQueueHoldsJobs ==
  ASSUME "resume" \notin Commands
  PROVE  Spec => AcceptedIsHeld
<1> DEFINE Held == queuePaused => \A j \in Jobs :
                     jobState[j] = "accepted" =>
                       jobState'[j] \in {"accepted", "paused", "cancelled", "failed"}
<1>1. ASSUME ClaimInv, [Next]_vars
      PROVE  Held
  <2> SUFFICES ASSUME queuePaused, NEW j \in Jobs, jobState[j] = "accepted"
               PROVE  jobState'[j] \in {"accepted", "paused", "cancelled", "failed"}
    OBVIOUS
  <2>1. TypeInv /\ jobState \in [Jobs -> States]
    BY <1>1 DEF ClaimInv, TypeInv, TypeOK, QueueTypeOK
  <2>2. CASE UNCHANGED jobState
    BY <2>2
  <2>3. \A k : ~Claim(k)
    BY DEF Claim, Claimable
  <2>4. ASSUME NEW t \in Threads, SetWrite(t), thread[t].job = j
        PROVE  jobState'[j] \in {"accepted", "paused", "cancelled", "failed"}
    <3> DEFINE r == thread[t]
    <3>1. /\ LocalOK(r) /\ r.step = "write" /\ r.at \notin ResumePoints
          /\ r.at \notin RunPoints
      BY <1>1, <2>1, <2>4, TypeInvParts DEF SetWrite, ClaimInv, Running
    <3>2. r.at = "setRefused" /\ r.target = "failed"
      <4>1. r.at \notin CheckPoints
        BY <3>1, PointSets
      <4>2. r.at \in SetPoints /\ r.target = SetTarget[r.at]
        BY <3>1, <4>1 DEF LocalOK
      <4>3. r.at # "setAccepted"
        BY <3>1 DEF ResumePoints
      <4>4. r.at = "setRefused"
        BY <3>1, <4>2, <4>3, PointSets
      <4>q. QED BY <4>2, <4>4 DEF SetTarget
    <3>3. Verdict(r.pause, r.cancel, r.seen, r.target) \in {"failed", "cancelled", "paused"}
      BY <3>2, VerdictType
    <3>q. QED BY <2>1, <2>4, <3>3 DEF SetWrite, PutJob
  <2>5. ASSUME NEW t \in Threads, StopRow(t)
        PROVE  jobState'[j] \in {"accepted", "paused", "cancelled", "failed"}
    <3>1. thread[t].target \in {"paused", "cancelled"}
      BY <2>1, <2>5, TypeInvParts DEF StopRow, At, LocalOK, StopPoints
    <3>q. QED BY <2>1, <2>5, <3>1 DEF StopRow, TransitionUnlessCommitted, PutJob, queueVars
  <2>6. ASSUME NEW t \in Threads, Work(t)
        PROVE  jobState'[j] \in {"accepted", "paused", "cancelled", "failed"}
    <3>1. CASE SetWrite(t) /\ thread[t].job # j
      BY <2>1, <3>1 DEF SetWrite, PutJob
    <3>q. QED BY <2>2, <2>3, <2>4, <2>5, <2>6, <3>1
              DEF Work, StoreContext, RefuseCookies, ClaimSubmitted, LoadContext, CheckContext,
                  CheckRow, SetFlags, SetRead, SetClear, WorkStart, WorkFinish, Interrupted,
                  Publish, StopFlag, StopSignal, StopUndo, ResumeFlag, ResumeEvents,
                  ClaimResumed, PutContext, SetFlag, ClearFlags, queueVars
  <2>7. ASSUME NEW t \in Threads, Command(t)
        PROVE  jobState'[j] \in {"accepted", "paused", "cancelled", "failed"}
    BY <2>1, <2>7 DEF Command, Submit, PutJob, RequestStop, RequestResume, HoldQueue, SetPaused, queueVars
  <2>8. \A t \in Threads : ~RunNext(t)
    BY <2>3 DEF RunNext, ClaimNext
  <2>q. QED BY <1>1, <2>2, <2>6, <2>7, <2>8 DEF Next, Abort, Restart, vars, queueVars
<1>2. ClaimInv /\ [Next]_vars => [Held]_vars
  BY <1>1
<1>3. ClaimInv /\ [Next]_vars => ClaimInv'
  BY ClaimInvStep
<1>q. QED BY ClaimInvInit, <1>2, <1>3, PTL DEF Spec, AcceptedIsHeld

-----------------------------------------------------------------------------
(* Layer three: published files and the rows that speak of them. *)

(* Publication is entered from set_state(publishing) alone, and completion *)
(* from publication alone.                                                 *)
LEMMA FlowEnds ==
  ASSUME NEW p \in RunPoints
  PROVE  /\ "publish" \in Flow[p] \cup Loop[p] => p = "setPublishing"
         /\ "setCompleted" \in Flow[p] \cup Loop[p] => p = "publish"
         /\ p = "setCompleted" => Flow[p] \cup Loop[p] \subseteq {"idle"}
<1>1. p \in {"loadContext"} \cup CheckPoints \cup WorkPoints
        \cup {"setDiscovering", "setPlanning", "setAcquiring", "setExporting",
              "setValidating", "setPublishing", "setCompleted", "setFailed"}
  BY DEF RunPoints, SetPoints, SetTarget
<1>2. CASE p \in {"loadContext"} \cup CheckPoints
  BY <1>2 DEF Flow, Loop, CheckPoints
<1>3. CASE p \in WorkPoints
  BY <1>3 DEF Flow, Loop, WorkPoints
<1>4. CASE p \in {"setDiscovering", "setPlanning", "setAcquiring", "setExporting",
                  "setValidating", "setPublishing", "setCompleted", "setFailed"}
  BY <1>4 DEF Flow, Loop
<1>q. QED BY <1>1, <1>2, <1>3, <1>4

LEMMA GotoAt ==
  ASSUME TypeInv, NEW t \in Threads, NEW p, Goto(t, p)
  PROVE  /\ thread'[t].at = p
         /\ thread'[t].job = thread[t].job
         /\ thread'[t].step = FirstStep(p)
BY TypeInvParts DEF TypeInv, TypeOK, Goto, Become, Enter, ThreadStates

LEMMA ReturnAt ==
  ASSUME TypeInv, NEW t \in Threads, Return(t)
  PROVE  thread'[t] = Idle
BY DEF TypeInv, TypeOK, Return, Become

LEMMA ProceedAt ==
  ASSUME TypeInv, NEW t \in Threads, thread[t].at \in RunPoints, Proceed(t)
  PROVE  \/ thread'[t] = Idle
         \/ /\ thread'[t].at \in RunPoints
            /\ thread'[t].at \in Flow[thread[t].at] \cup Loop[thread[t].at]
            /\ thread'[t].job = thread[t].job
BY TypeInvParts, ProceedMoves, MovesInv DEF SameRun

(* A thread outside the runs has nothing to know. *)
LEMMA OutsideOK ==
  ASSUME NEW r, NEW row, NEW done, r.at \notin RunPoints, r.at # "setRefused"
  PROVE  PublishOK(r, row, done)
<1>1. "publish" \in RunPoints /\ "setCompleted" \in RunPoints
  BY DEF RunPoints, WorkPoints, SetPoints, SetTarget
<1>q. QED BY <1>1 DEF PublishOK

LEMMA IdleOK ==
  ASSUME NEW row, NEW done
  PROVE  PublishOK(Idle, row, done)
BY OutsideOK, PointSets, IdleType

(* One thread moves, the row and the files of one job change, and no other *)
(* thread runs that job.                                                   *)
LEMMA PublishFrame ==
  ASSUME PublishInv, ClaimInv', NEW t \in Threads, NEW j \in Jobs,
         \A u \in Threads \ {t} : thread'[u] = thread[u],
         \A k \in Jobs \ {j} : jobState'[k] = jobState[k] /\ published'[k] = published[k],
         published'[j] => jobState'[j] \in {"publishing", "completed"},
         jobState'[j] = "completed" => published'[j],
         PublishOK(thread'[t], jobState'[thread'[t].job], published'[thread'[t].job]),
         \A u \in Threads \ {t} : Running(u) => thread[u].job # j
  PROVE  PublishInv'
<1>1. PublishedIsCommitted'
  BY DEF PublishInv, PublishedIsCommitted
<1>2. ASSUME NEW u \in Threads \ {t}
      PROVE  PublishOK(thread'[u], jobState'[thread'[u].job], published'[thread'[u].job])
  <2>1. PublishOK(thread[u], jobState[thread[u].job], published[thread[u].job])
    BY DEF PublishInv
  <2>2. CASE Running(u)
    <3>1. thread[u].job \in Jobs \ {j}
      BY <2>2, TypeInvParts, PointSets DEF PublishInv, ClaimInv, Running
    <3>q. QED BY <2>1, <3>1
  <2>3. CASE ~Running(u)
    BY <2>1, <2>3, OutsideOK DEF Running, PublishOK
  <2>q. QED BY <2>2, <2>3
<1>q. QED BY <1>1, <1>2 DEF PublishInv

(* One thread moves and no row or file changes. *)
LEMMA PublishQuiet ==
  ASSUME PublishInv, ClaimInv', NEW t \in Threads,
         \A u \in Threads \ {t} : thread'[u] = thread[u],
         UNCHANGED <<jobState, published>>,
         PublishOK(thread'[t], jobState[thread'[t].job], published[thread'[t].job])
  PROVE  PublishInv'
BY DEF PublishInv, PublishedIsCommitted

LEMMA ProceedOK ==
  ASSUME PublishInv, NEW t \in Threads, Proceed(t),
         thread[t].at \in RunPoints \ {"publish", "setPublishing"}
  PROVE  PublishOK(thread'[t], jobState[thread'[t].job], published[thread'[t].job])
<1> DEFINE r == thread[t]
<1>1. PublishOK(r, jobState[r.job], published[r.job])
  BY DEF PublishInv
<1>2. TypeInv
  BY DEF PublishInv, ClaimInv
<1>3. CASE thread'[t] = Idle
  BY <1>3, IdleOK
<1>4. CASE /\ thread'[t].at \in RunPoints
           /\ thread'[t].at \in Flow[r.at] \cup Loop[r.at]
           /\ thread'[t].job = r.job
  <2>1. thread'[t].at # "publish" /\ thread'[t].at # "setCompleted"
    BY <1>4, FlowEnds
  <2>2. r.at # "setCompleted"
    BY <1>4, FlowEnds, PointSets
  <2>3. "setRefused" \notin RunPoints
    BY DEF RunPoints, CheckPoints, WorkPoints, SetPoints, SetTarget
  <2>4. ~published[r.job]
    BY <1>1, <2>2 DEF PublishOK
  <2>q. QED BY <1>4, <2>1, <2>3, <2>4 DEF PublishOK
<1>q. QED BY <1>2, <1>3, <1>4, ProceedAt

(* The steps of a run that write no row. *)
LEMMA PublishRunQuiet ==
  ASSUME PublishInv, ClaimInv', NEW t \in Threads,
         \A u \in Threads \ {t} : thread'[u] = thread[u],
         "submit_cookies" \notin Commands,
         \/ StoreContext(t) \/ RefuseCookies(t) \/ LoadContext(t)
         \/ CheckContext(t) \/ CheckRow(t)
         \/ SetFlags(t) \/ SetRead(t) \/ SetClear(t)
         \/ WorkStart(t) \/ WorkFinish(t) \/ Interrupted(t)
  PROVE  PublishInv'
<1> DEFINE r == thread[t]
<1>1. /\ TypeInv /\ LocalOK(r) /\ r \in ThreadStates
      /\ PublishOK(r, jobState[r.job], published[r.job])
  BY TypeInvParts DEF PublishInv, ClaimInv
<1>2. UNCHANGED <<jobState, published>>
  BY DEF StoreContext, RefuseCookies, LoadContext, CheckContext, CheckRow, SetFlags, SetRead,
         SetClear, WorkStart, WorkFinish, Interrupted, PutContext, ClearFlags, queueVars, historyVars
<1>3. SUFFICES PublishOK(thread'[t], jobState[thread'[t].job], published[thread'[t].job])
  BY <1>2, PublishQuiet
<1>4. CASE Return(t)
  BY <1>1, <1>4, ReturnAt, IdleOK
<1>5. CASE StoreContext(t)
  <2>1. CASE Goto(t, "claimSubmitted")
    <3>1. "claimSubmitted" \notin RunPoints
      BY PointSets DEF SubmitPoints
    <3>q. QED BY <1>1, <2>1, <3>1, GotoAt, OutsideOK
  <2>q. QED BY <1>4, <1>5, <2>1 DEF StoreContext
<1>6. CASE RefuseCookies(t)
  BY <1>6 DEF RefuseCookies
<1>7. CASE LoadContext(t)
  <2>1. r.at = "loadContext" /\ "loadContext" \in RunPoints
    BY <1>7 DEF LoadContext, At, RunPoints
  <2>2. ~published[r.job]
    BY <1>1, <2>1 DEF PublishOK
  <2>3. thread'[t].at = "checkRun" /\ thread'[t].job = r.job
    BY <1>1, <1>7, GotoAt DEF LoadContext
  <2>q. QED BY <2>2, <2>3 DEF PublishOK
<1>8. ASSUME thread'[t].at = r.at, thread'[t].job = r.job, r.at # "setCompleted"
      PROVE  PublishOK(thread'[t], jobState[thread'[t].job], published[thread'[t].job])
  BY <1>1, <1>8 DEF PublishOK
<1>9. CASE CheckContext(t) \/ CheckRow(t)
  <2>1. r.at \in CheckPoints
    BY <1>1, <1>9 DEF CheckContext, CheckRow, LocalOK
  <2>2. r.at # "setCompleted" /\ r.at \in RunPoints \ {"publish", "setPublishing"}
    BY <2>1, PointSets DEF CheckPoints
  <2>3. CASE Proceed(t)
    BY <2>2, <2>3, ProceedOK
  <2>4. CASE CheckContext(t)
    <3>1. thread'[t].at = r.at /\ thread'[t].job = r.job
      BY <1>1, <2>4 DEF CheckContext, Become, TypeInv, TypeOK, ThreadStates
    <3>q. QED BY <1>8, <2>2, <3>1
  <2>5. CASE \E x : Become(t, [r EXCEPT !.step = "flags", !.target = x])
    <3>1. thread'[t].at = r.at /\ thread'[t].job = r.job
      BY <1>1, <2>5 DEF Become, TypeInv, TypeOK, ThreadStates
    <3>q. QED BY <1>8, <2>2, <3>1
  <2>q. QED BY <1>4, <1>9, <2>3, <2>4, <2>5 DEF CheckRow
<1>10. CASE SetFlags(t)
  <2>1. thread'[t].at = r.at /\ thread'[t].job = r.job /\ thread'[t].step = "state" /\ r.step = "flags"
    BY <1>1, <1>10 DEF SetFlags, Become, TypeInv, TypeOK, ThreadStates
  <2>q. QED BY <1>1, <2>1 DEF PublishOK
<1>11. CASE SetRead(t)
  <2>1. /\ thread'[t].at = r.at /\ thread'[t].job = r.job /\ thread'[t].step = "write"
        /\ thread'[t].seen = jobState[r.job] /\ r.step = "state"
    BY <1>1, <1>11 DEF SetRead, Become, TypeInv, TypeOK, ThreadStates
  <2>q. QED BY <1>1, <2>1 DEF PublishOK
<1>12. CASE SetClear(t)
  BY <1>4, <1>12 DEF SetClear
<1>13. CASE WorkStart(t) \/ WorkFinish(t) \/ Interrupted(t)
  <2>1. r.at \in WorkPoints \ {"publish"}
    BY <1>1, <1>13 DEF WorkStart, WorkFinish, Interrupted, LocalOK
  <2>2. r.at # "setCompleted" /\ r.at \in RunPoints \ {"publish", "setPublishing"}
    BY <2>1, PointSets DEF WorkPoints
  <2>3. CASE Proceed(t)
    BY <2>2, <2>3, ProceedOK
  <2>4. CASE WorkStart(t)
    <3>1. thread'[t].at = r.at /\ thread'[t].job = r.job
      BY <1>1, <2>4 DEF WorkStart, Become, TypeInv, TypeOK, ThreadStates
    <3>q. QED BY <1>8, <2>2, <3>1
  <2>q. QED BY <1>4, <1>13, <2>3, <2>4 DEF WorkFinish, Interrupted
<1>q. QED BY <1>5, <1>6, <1>7, <1>9, <1>10, <1>11, <1>12, <1>13

(* set_state writes the row of the one thread that runs the job. *)
LEMMA PublishSetWrite ==
  ASSUME PublishInv, ClaimInv', NEW t \in Threads,
         \A u \in Threads \ {t} : thread'[u] = thread[u],
         SetWrite(t)
  PROVE  PublishInv'
<1> DEFINE r == thread[t]
           j == r.job
           v == Verdict(r.pause, r.cancel, r.seen, r.target)
<1>1. /\ TypeInv /\ LocalOK(r) /\ r \in ThreadStates /\ r.step = "write"
      /\ PublishOK(r, jobState[j], published[j])
      /\ r.at \notin ResumePoints
  BY TypeInvParts DEF PublishInv, ClaimInv, SetWrite
<1>2. r.at \in RunPoints
  <2>1. r.at \in CheckPoints \cup (SetPoints \ {"setAccepted", "setRefused"})
    BY <1>1 DEF LocalOK, PublishOK, ResumePoints
  <2>q. QED BY <2>1, PointSets
<1>3. j \in Jobs /\ r.at # "idle"
  BY <1>1, <1>2, PointSets DEF LocalOK
<1>4. \A u \in Threads \ {t} : Running(u) => thread[u].job # j
  BY <1>2, <1>3 DEF PublishInv, ClaimInv, AtMostOneRunner, Runners, Running
<1>5. /\ jobState'[j] = v
      /\ \A k \in Jobs \ {j} : jobState'[k] = jobState[k]
      /\ published' = published
  BY <1>1, <1>3 DEF SetWrite, PutJob, historyVars, TypeInv, TypeOK, QueueTypeOK
<1>6. CASE r.at = "setCompleted"
  <2>1. r.seen = "publishing" /\ r.target = "completed" /\ published[j]
    BY <1>1, <1>6 DEF PublishOK, LocalOK, SetTarget, SetPoints, CheckPoints
  <2>2. v = "completed" /\ Become(t, [r EXCEPT !.step = "clear"])
    BY <2>1 DEF SetWrite, Commits, Verdict
  <2>3. thread'[t].at = "setCompleted" /\ thread'[t].job = j /\ thread'[t].step = "clear"
    BY <1>1, <1>6, <2>2 DEF Become, TypeInv, TypeOK, ThreadStates
  <2>4. PublishOK(thread'[t], jobState'[thread'[t].job], published'[thread'[t].job])
    BY <1>5, <2>1, <2>3 DEF PublishOK
  <2>q. QED BY <1>3, <1>4, <1>5, <2>1, <2>2, <2>4, PublishFrame
<1>7. CASE r.at # "setCompleted"
  <2>1. ~published[j]
    BY <1>1, <1>2, <1>7 DEF PublishOK
  <2>2. r.target # "completed"
    BY <1>1, <1>7 DEF LocalOK, SetTarget, SetPoints
  <2>3. ~Commits(r.seen, r.target) /\ v # "completed"
    BY <2>2 DEF Commits, Verdict
  <2>4. PublishOK(thread'[t], jobState'[thread'[t].job], published'[thread'[t].job])
    <3>1. CASE Return(t)
      BY <1>1, <3>1, ReturnAt, IdleOK
    <3>2. CASE v = r.target /\ Proceed(t)
      <4>1. CASE thread'[t] = Idle
        BY <4>1, IdleOK
      <4>2. CASE /\ thread'[t].at \in RunPoints
                 /\ thread'[t].at \in Flow[r.at] \cup Loop[r.at]
                 /\ thread'[t].job = j
        <5>1. r.at # "publish"
          BY <1>1 DEF PublishOK, LocalOK, WorkPoints
        <5>2. thread'[t].at # "setCompleted"
          BY <1>2, <4>2, <5>1, FlowEnds
        <5>3. thread'[t].at = "publish" => jobState'[j] = "publishing"
          <6>1. SUFFICES ASSUME thread'[t].at = "publish" PROVE v = "publishing"
            BY <1>5
          <6>2. r.at = "setPublishing"
            BY <1>2, <4>2, <6>1, FlowEnds
          <6>3. r.target = "publishing"
            BY <1>1, <6>2 DEF LocalOK, SetTarget, SetPoints, CheckPoints
          <6>q. QED BY <3>2, <6>3
        <5>4. "setRefused" \notin RunPoints
          BY DEF RunPoints, CheckPoints, WorkPoints, SetPoints, SetTarget
        <5>q. QED BY <1>5, <2>1, <4>2, <5>2, <5>3, <5>4 DEF PublishOK
      <4>q. QED BY <1>1, <1>2, <3>2, <4>1, <4>2, ProceedAt
    <3>3. r.at # "setAccepted"
      BY <1>1 DEF ResumePoints
    <3>4. v = r.target => Return(t) \/ Proceed(t)
      BY <2>3, <3>3 DEF SetWrite, AfterSet
    <3>5. v # r.target => Return(t)
      BY <2>3 DEF SetWrite
    <3>q. QED BY <3>1, <3>2, <3>4, <3>5
  <2>q. QED BY <1>3, <1>4, <1>5, <2>1, <2>3, <2>4, PublishFrame
<1>q. QED BY <1>6, <1>7

LEMMA PublishPublish ==
  ASSUME PublishInv, ClaimInv', NEW t \in Threads,
         \A u \in Threads \ {t} : thread'[u] = thread[u],
         Publish(t)
  PROVE  PublishInv'
<1> DEFINE r == thread[t]
           j == r.job
<1>1. /\ TypeInv /\ r.at = "publish" /\ r.at \in RunPoints
      /\ PublishOK(r, jobState[j], published[j])
  BY PointSets DEF PublishInv, ClaimInv, Publish, At, WorkPoints
<1>2. j \in Jobs
  BY <1>1, TypeInvParts
<1>3. \A u \in Threads \ {t} : Running(u) => thread[u].job # j
  BY <1>1, <1>2 DEF PublishInv, ClaimInv, AtMostOneRunner, Runners, Running
<1>4. jobState[j] = "publishing" /\ ~published[j] /\ jobState' = jobState
  BY <1>1 DEF PublishOK, Publish, queueVars
<1>5. CASE published' = [published EXCEPT ![j] = TRUE] /\ Goto(t, "setCompleted")
  <2>1. thread'[t].at = "setCompleted" /\ thread'[t].job = j /\ thread'[t].step = "flags"
    BY <1>1, <1>5, GotoAt DEF FirstStep, CheckPoints, SetPoints, SetTarget
  <2>2. published'[j] = TRUE /\ \A k \in Jobs \ {j} : published'[k] = published[k]
    BY <1>1, <1>2, <1>5 DEF TypeInv, TypeOK
  <2>3. PublishOK(thread'[t], jobState'[thread'[t].job], published'[thread'[t].job])
    BY <1>4, <2>1, <2>2 DEF PublishOK
  <2>q. QED BY <1>2, <1>3, <1>4, <2>2, <2>3, PublishFrame
<1>6. CASE UNCHANGED published /\ Goto(t, "setFailed")
  <2>1. thread'[t].at = "setFailed" /\ thread'[t].job = j
    BY <1>1, <1>6, GotoAt
  <2>2. PublishOK(thread'[t], jobState[thread'[t].job], published[thread'[t].job])
    BY <1>4, <2>1 DEF PublishOK
  <2>q. QED BY <1>4, <1>6, <2>2, PublishQuiet
<1>q. QED BY <1>5, <1>6 DEF Publish

(* A stop never writes a row that is publishing or completed. *)
LEMMA PublishStop ==
  ASSUME PublishInv, ClaimInv', NEW t \in Threads,
         \A u \in Threads \ {t} : thread'[u] = thread[u],
         StopFlag(t) \/ StopSignal(t) \/ StopRow(t) \/ StopUndo(t)
  PROVE  PublishInv'
<1> DEFINE r == thread[t]
           j == r.job
<1>1. /\ TypeInv /\ LocalOK(r) /\ r \in ThreadStates /\ r.at \in StopPoints
  BY TypeInvParts DEF PublishInv, ClaimInv, StopFlag, StopSignal, StopRow, StopUndo, At, StopPoints
<1>2. j \in Jobs /\ r.target \in {"paused", "cancelled"}
  BY <1>1 DEF LocalOK, StopPoints
<1>3. thread'[t].at \notin RunPoints /\ thread'[t].at # "setRefused"
  <2>1. CASE Return(t)
    BY <1>1, <2>1, ReturnAt, IdleType, PointSets
  <2>2. CASE \E p \in StopPoints : Become(t, [r EXCEPT !.at = p])
    <3>1. thread'[t].at \in StopPoints
      BY <1>1, <2>2 DEF Become, TypeInv, TypeOK, ThreadStates
    <3>q. QED BY <3>1, PointSets DEF StopPoints
  <2>q. QED BY <2>1, <2>2 DEF StopFlag, StopSignal, StopRow, StopUndo, StopPoints
<1>4. PublishOK(thread'[t], jobState'[thread'[t].job], published'[thread'[t].job])
  BY <1>3, OutsideOK
<1>5. CASE UNCHANGED <<jobState, published>>
  BY <1>4, <1>5, PublishQuiet
<1>6. CASE TransitionUnlessCommitted(j, r.target) /\ published' = published
  <2>1. jobState[j] \notin {"publishing", "completed"} /\ jobState'[j] = r.target
    BY <1>1, <1>2, <1>6
       DEF TransitionUnlessCommitted, PutJob, Committed, Terminal, TypeInv, TypeOK, QueueTypeOK
  <2>2. ~published[j]
    BY <1>2, <2>1 DEF PublishInv, PublishedIsCommitted
  <2>3. \A k \in Jobs \ {j} : jobState'[k] = jobState[k]
    BY <1>1, <1>6 DEF TransitionUnlessCommitted, PutJob, TypeInv, TypeOK, QueueTypeOK
  <2>4. PublishedIsCommitted'
    BY <1>2, <1>6, <2>1, <2>2, <2>3 DEF PublishInv, PublishedIsCommitted
  <2>5. ASSUME NEW u \in Threads \ {t}
        PROVE  PublishOK(thread'[u], jobState'[thread'[u].job], published'[thread'[u].job])
    <3>1. PublishOK(thread[u], jobState[thread[u].job], published[thread[u].job])
      BY DEF PublishInv
    <3>2. CASE ~Running(u)
      BY <3>1, <3>2, OutsideOK DEF Running, PublishOK
    <3>3. CASE Running(u) /\ thread[u].job # j
      <4>1. thread[u].job \in Jobs \ {j}
        BY <1>1, <3>3, TypeInvParts, PointSets DEF Running
      <4>q. QED BY <1>6, <2>3, <3>1, <4>1
    <3>4. CASE thread[u].job = j
      BY <1>6, <2>1, <2>2, <3>1, <3>4 DEF PublishOK
    <3>q. QED BY <3>2, <3>3, <3>4
  <2>q. QED BY <1>4, <2>4, <2>5 DEF PublishInv
<1>q. QED BY <1>5, <1>6 DEF StopFlag, StopSignal, StopRow, StopUndo, SetFlag, queueVars, historyVars

LEMMA PublishClaim ==
  ASSUME PublishInv, ClaimInv', NEW t \in Threads,
         ClaimSubmitted(t) \/ RunNext(t)
  PROVE  PublishInv'
<1>1. TypeInv /\ ThreadInv /\ published' = published
  BY TypeInvParts DEF PublishInv, ClaimInv, ClaimSubmitted, RunNext, historyVars
<1>2. CASE \E s : Carries(t, s) /\ UNCHANGED jobState
  <2>1. PICK s : Carries(t, s) /\ UNCHANGED jobState
    BY <1>2
  <2>2. thread'[t] = s /\ \A u \in Threads \ {t} : thread'[u] = thread[u]
    BY <1>1, <2>1, MovesInv DEF Carries
  <2>3. CASE thread'[t].at \notin RunPoints \cup {"setRefused"}
    BY <1>1, <2>1, <2>2, <2>3, OutsideOK, PublishQuiet
  <2>4. CASE thread'[t].at \in RunPoints \cup {"setRefused"}
    <3>1. thread[t].at \in {"claimSubmitted", "idle"}
      BY DEF ClaimSubmitted, RunNext, At, IsIdle
    <3>2. thread[t].at \notin RunPoints
      BY <3>1, PointSets DEF SubmitPoints
    <3>3. thread'[t].at = "setRefused"
      BY <2>1, <2>2, <2>4, <3>2 DEF Carries, SameRun
    <3>4. ClaimSubmitted(t) => Return(t) \/ Goto(t, "checkRun")
      BY DEF ClaimSubmitted
    <3>5. RunNext(t) => \E j \in Jobs : Begin(t, j, "loadContext")
      BY DEF RunNext
    <3>6. "loadContext" \in Points \ StopPoints
      BY PointSets DEF RunPoints
    <3>7. \A j \in Jobs : Begin(t, j, "loadContext") => thread'[t].at = "loadContext"
      BY <1>1, <3>6, BeginMoves, MovesInv
    <3>8. (Return(t) \/ Goto(t, "checkRun")) => thread'[t].at \in {"idle", "checkRun"}
      BY <1>1, ReturnAt, GotoAt, IdleType
    <3>q. QED BY <3>3, <3>4, <3>5, <3>7, <3>8
  <2>q. QED BY <2>3, <2>4
<1>3. CASE \E j \in Jobs : \E s : Starts(t, j, s)
  <2>1. PICK j \in Jobs : \E s : Starts(t, j, s)
    BY <1>3
  <2>s. PICK s : Starts(t, j, s)
    BY <2>1
  <2>2. thread'[t] = s /\ \A u \in Threads \ {t} : thread'[u] = thread[u]
    BY <1>1, <2>s, MovesInv DEF Starts
  <2>3. jobState[j] = "accepted" /\ jobState' = [jobState EXCEPT ![j] = "discovering"]
    BY <2>s DEF Starts, Claim, Claimable, PutJob
  <2>4. jobState'[j] = "discovering" /\ \A k \in Jobs \ {j} : jobState'[k] = jobState[k]
    BY <1>1, <2>3 DEF TypeInv, TypeOK, QueueTypeOK
  <2>5. ~published[j]
    BY <2>3 DEF PublishInv, PublishedIsCommitted
  <2>6. PublishOK(thread'[t], jobState'[thread'[t].job], published'[thread'[t].job])
    BY <1>1, <2>s, <2>2, <2>5 DEF PublishOK, Starts
  <2>7. \A u \in Threads \ {t} : Running(u) => thread[u].job # j
    BY <2>3 DEF PublishInv, ClaimInv
  <2>q. QED BY <1>1, <2>2, <2>4, <2>5, <2>6, <2>7, PublishFrame
<1>q. QED BY <1>1, <1>2, <1>3, ClaimWork

LEMMA PublishCommand ==
  ASSUME PublishInv, ClaimInv', NEW t \in Threads, Command(t), "resume" \notin Commands
  PROVE  PublishInv'
<1>1. TypeInv /\ ThreadInv
  BY TypeInvParts DEF PublishInv, ClaimInv
<1>2. ASSUME NEW j \in Jobs, Submit(t, j)
      PROVE  PublishInv'
  <2>1. "storeContext" \in Points \ (StopPoints \cup RunPoints)
    BY PointSets DEF SubmitPoints
  <2>2. PICK s : Moves(t, s) /\ s.at = "storeContext"
    BY <1>1, <1>2, <2>1, BeginMoves DEF Submit
  <2>3. thread'[t] = s /\ \A u \in Threads \ {t} : thread'[u] = thread[u]
    BY <1>1, <2>2, MovesInv
  <2>4. /\ jobState[j] = "absent" /\ jobState'[j] = "accepted" /\ published' = published
        /\ \A k \in Jobs \ {j} : jobState'[k] = jobState[k]
    BY <1>1, <1>2 DEF Submit, PutJob, historyVars, TypeInv, TypeOK, QueueTypeOK
  <2>5. ~published[j]
    BY <2>4 DEF PublishInv, PublishedIsCommitted
  <2>6. \A u \in Threads \ {t} : Running(u) => thread[u].job # j
    BY <2>4 DEF PublishInv, ClaimInv
  <2>7. PublishOK(thread'[t], jobState'[thread'[t].job], published'[thread'[t].job])
    BY <2>1, <2>2, <2>3, OutsideOK
  <2>q. QED BY <2>3, <2>4, <2>5, <2>6, <2>7, PublishFrame
<1>3. ASSUME NEW j \in Jobs, NEW kind \in {"paused", "cancelled"}, RequestStop(t, j, kind)
      PROVE  PublishInv'
  <2>1. /\ thread'[t].at = "stopFlag" /\ \A u \in Threads \ {t} : thread'[u] = thread[u]
        /\ UNCHANGED <<jobState, published>>
    BY <1>1, <1>3 DEF RequestStop, Become, Idle, ThreadInv, queueVars, historyVars
  <2>2. "stopFlag" \notin RunPoints
    BY PointSets DEF StopPoints
  <2>q. QED BY <2>1, <2>2, OutsideOK, PublishQuiet
<1>4. ASSUME NEW value \in BOOLEAN, HoldQueue(t, value)
      PROVE  PublishInv'
  <2>1. UNCHANGED <<jobState, published, thread>>
    BY <1>4 DEF HoldQueue, SetPaused, historyVars
  <2>q. QED BY <2>1 DEF PublishInv, PublishedIsCommitted
<1>q. QED BY <1>2, <1>3, <1>4 DEF Command, RequestResume

LEMMA PublishInvStep ==
  ASSUME PublishInv, [Next]_vars, "resume" \notin Commands, "submit_cookies" \notin Commands
  PROVE  PublishInv'
<1>1. ClaimInv /\ ClaimInv' /\ TypeInv /\ ThreadInv
  BY ClaimInvStep, TypeInvParts DEF PublishInv, ClaimInv
<1>2. CASE UNCHANGED vars
  BY <1>1, <1>2 DEF PublishInv, PublishedIsCommitted, vars, queueVars, historyVars
<1>3. ASSUME NEW t \in Threads, Work(t)
      PROVE  PublishInv'
  <2>1. CASE ClaimSubmitted(t)
    BY <1>1, <2>1, PublishClaim
  <2>2. ~ResumeFlag(t) /\ ~ResumeEvents(t) /\ ~ClaimResumed(t)
    BY <1>1 DEF ClaimInv, ResumeFlag, ResumeEvents, ClaimResumed, At, ResumePoints
  <2>3. CASE ~ClaimSubmitted(t)
    <3>1. \E s : Moves(t, s)
      BY <1>1, <1>3, <2>2, <2>3, SubmitWork, CheckWork, SetWork, ProviderWork, StopWork
         DEF Work, Carries
    <3>2. \A u \in Threads \ {t} : thread'[u] = thread[u]
      BY <1>1, <3>1, MovesInv
    <3>q. QED BY <1>1, <1>3, <2>2, <2>3, <3>2, PublishRunQuiet, PublishSetWrite,
                 PublishPublish, PublishStop DEF Work
  <2>q. QED BY <2>1, <2>3
<1>4. ASSUME NEW t \in Threads, Abort(t)
      PROVE  PublishInv'
  <2>1. thread'[t] = Idle /\ \A u \in Threads \ {t} : thread'[u] = thread[u]
    BY <1>1, <1>4, ReturnAt DEF Abort, Return, Become, ThreadInv
  <2>2. UNCHANGED <<jobState, published>>
    BY <1>4 DEF Abort, queueVars
  <2>q. QED BY <1>1, <2>1, <2>2, IdleOK, PublishQuiet
<1>5. CASE Restart
  <2>1. UNCHANGED <<jobState, published>>
    BY <1>5 DEF Restart, queueVars
  <2>q. QED BY <1>1, <1>5, <2>1, RestartThread, IdleOK DEF PublishInv, PublishedIsCommitted
<1>q. QED BY <1>1, <1>2, <1>3, <1>4, <1>5, PublishClaim, PublishCommand DEF Next

LEMMA PublishInvInit == Init => PublishInv
<1> SUFFICES ASSUME Init PROVE PublishInv
  OBVIOUS
<1>1. PublishedIsCommitted
  BY DEF Init, QueueInit, PublishedIsCommitted
<1>q. QED BY <1>1, ClaimInvInit, IdleOK DEF Init, PublishInv

(* Published files and the rows that speak of them agree, however many     *)
(* threads claim, stop and lose runs, as long as nobody uses resume_job    *)
(* and no submit is refused for its cookies: those two write rows that     *)
(* another thread may be running.                                          *)
THEOREM PublicationIsCommitted ==
  ASSUME "resume" \notin Commands, "submit_cookies" \notin Commands
  PROVE  Spec => []PublishedIsCommitted
<1>1. PublishInv => PublishedIsCommitted
  BY DEF PublishInv
<1>2. PublishInv /\ [Next]_vars => PublishInv'
  BY PublishInvStep
<1>q. QED BY PublishInvInit, <1>1, <1>2, PTL DEF Spec
=============================================================================
