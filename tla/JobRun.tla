------------------------------- MODULE JobRun -------------------------------
(***************************************************************************)
(* The work of one remote job, Pipeline._run in src/webmedia_dl/pipeline.py*)
(* with execute_export_plan (processing.py) and publish_artifacts          *)
(* (publish.py): acquire each chosen kind, export each source, validate,   *)
(* publish.  Every step writes durable state at most once, so a run can be *)
(* lost between any two writes.  What survives it is the checkpoint, the   *)
(* files in the staging directory and the files at the destination; a      *)
(* resumed run starts again from them.                                     *)
(*                                                                         *)
(* Who runs a job and when it may be stopped is JobControl; here there is  *)
(* one run at a time, and cancellation, which only ends a run, is left to  *)
(* it.  The page offers the same candidates to every run.                  *)
(* Files with different names have different contents, so a file stands    *)
(* for its artifact id; a derivative is the pair of source and operation.  *)
(***************************************************************************)
EXTENDS ExportPlan, Naturals, FiniteSets

CONSTANTS
  Chosen,        (* preferred_by_kind: the kinds of the candidates, in order *)
  Files,         (* the files the page's candidates can deliver            *)
  Offer,         (* the files behind each kind                             *)
  Programs,      (* the kinds fetched by yt-dlp or gallery-dl              *)
  KindOf,        (* the kind a file is registered as: its suffix's, the    *)
                 (* candidate's for other suffixes, the recorder's if live *)
  Container,     (* a file's suffix                                        *)
  Broken,        (* the artifacts that do not pass validation              *)
  Intents,       (* the export intents jobs are submitted with             *)
  NoFile,        (* the file of a run that is not exporting                *)
  MaxStops       (* pauses and crashes of the job                          *)

Kinds == {Chosen[i] : i \in 1..Len(Chosen)}
Artifacts == Files \X Operations
Original(f) == <<f, "keep-original">>

ASSUME RunAssumption ==
  /\ Chosen \in Seq(STRING) /\ Chosen # <<>>
  /\ \A i, j \in 1..Len(Chosen) : Chosen[i] = Chosen[j] => i = j
  /\ Offer \in [Kinds -> SUBSET Files]
  /\ Programs \subseteq Kinds
  /\ KindOf \in [Files -> STRING]
  /\ Container \in [Files -> STRING]
  /\ Broken \subseteq Artifacts
  /\ Intents \subseteq IntentType
  /\ NoFile \notin Files
  /\ MaxStops \in Nat

VARIABLES
  intent,      (* the job's export intent, fixed at submission             *)
  row,         (* the job's state                                          *)
  checkpoint,  (* job_context.checkpoint                                   *)
  staged,      (* the files in each kind's staging directory               *)
  placed,      (* the destination: file name to artifact                   *)
  delivered,   (* the paths publish_artifacts has put in place             *)
  spoiled,     (* history: artifacts whose copy failed                     *)
  report,      (* payload of the job.completed event, once emitted         *)
  run,         (* program counter and locals of the run                    *)
  stops        (* pauses and crashes so far                                *)

vars == <<intent, row, checkpoint, staged, placed, delivered, spoiled, report, run, stops>>

-----------------------------------------------------------------------------
(* State. *)

Stages == {"none", "acquiring", "acquired", "exporting", "exported", "validating", "publishing"}

(* JobState, the working states before publishing as one *)
Rows == {"accepted", "active", "publishing", "paused", "completed", "failed"}

Points == {"idle", "restore", "discover", "kinds", "fetch", "saveKind", "sources",
           "operations", "saveOperation", "validate", "check", "publish", "setPublishing",
           "copy", "complete", "report", "fail"}

NoRun == [at |-> "idle", next |-> 1, sources |-> {}, acquired |-> {}, failed |-> {},
          errors |-> FALSE, produced |-> {}, pending |-> {}, before |-> {}, got |-> {},
          file |-> NoFile, op |-> 1, bad |-> {}, primary |-> {}]

NoReport == [partial |-> FALSE, failed |-> {}, sent |-> FALSE]

Init ==
  /\ intent \in Intents
  /\ row = "accepted"
  /\ checkpoint = [stage |-> "none", sources |-> {}, acquired |-> {}, failed |-> {},
                   produced |-> {}, done |-> {}]
  /\ staged = [k \in Kinds |-> {}]
  /\ placed = {}
  /\ delivered = {} /\ spoiled = {}
  /\ report = NoReport
  /\ run = NoRun
  /\ stops = 0

-----------------------------------------------------------------------------
(* Helpers. *)

At(p) == run.at = p
Goto(p) == run' = [run EXCEPT !.at = p]

(* Mutant: the payload is built anew instead of from the stored one.       *)
SavedAnew(stage) ==
  [checkpoint EXCEPT !.stage = stage, !.sources = run.sources, !.done = {},
                     !.acquired = run.acquired, !.failed = run.failed]

(* _save_acquire_checkpoint, with the fields every call sets *)
Saved(stage) ==
  [checkpoint EXCEPT !.stage = stage, !.sources = run.sources,
                     !.acquired = run.acquired, !.failed = run.failed]

(* _restored_kinds_cover: the file kinds that stand for a candidate's kind *)
Aliases(kind) ==
  CASE kind = "gallery"     -> {"gallery", "image"}
    [] kind = "live_stream" -> {"live_stream", "video", "audio"}
    [] OTHER                -> {kind}
RestoredKindsCover ==
  checkpoint.sources = {} \/
    \A k \in checkpoint.acquired : \E f \in checkpoint.sources : KindOf[f] \in Aliases(k)

Kind == Chosen[run.next]
Plan == PlanOf(KindOf[run.file], Container[run.file], intent)
Operation == Plan[run.op]
Output == <<run.file, Operation>>

(* An artifact that may leave the job: not a preview, the source only if   *)
(* the intent keeps it.                                                    *)
Wanted(a) ==
  /\ RoleOf(a[2]) # "preview"
  /\ RoleOf(a[2]) = "source" => intent.original
Publishable(a) == Wanted(a) /\ a \notin Broken

(* What the checkpoint records as this job's work. *)
Work == {Original(f) : f \in checkpoint.sources} \cup checkpoint.done

files == <<intent, placed, delivered, spoiled, report>>
durable == <<staged, files>>

-----------------------------------------------------------------------------
(* From the queue into a run. *)

(* claim: by a dispatcher or by resume_job *)
Claim ==
  /\ row = "accepted"
  /\ row' = "active"
  /\ run' = [NoRun EXCEPT !.at = "restore"]
  /\ UNCHANGED <<checkpoint, durable, stops>>

(* _run: read the checkpoint back, refuse one that its sources do not cover*)
Restore ==
  /\ At("restore")
  /\ run' = IF RestoredKindsCover
            THEN [run EXCEPT !.at = "discover", !.sources = checkpoint.sources,
                             !.acquired = checkpoint.acquired, !.failed = checkpoint.failed]
            ELSE [run EXCEPT !.at = "fail"]
  /\ UNCHANGED <<row, checkpoint, durable, stops>>

(* Mutant: any checkpoint with sources ends acquisition. *)
DiscoverEndsAcquisition ==
  /\ At("discover")
  /\ run' = IF checkpoint.sources = {} THEN [run EXCEPT !.at = "kinds"]
            ELSE [run EXCEPT !.at = "sources", !.pending = run.sources]
  /\ UNCHANGED <<row, checkpoint, durable, stops>>

(* Mutant: a job that had begun validation is not validated again. *)
DiscoverTrustsValidation ==
  /\ At("discover")
  /\ run' = CASE checkpoint.stage \in {"none", "acquiring"} -> [run EXCEPT !.at = "kinds"]
              [] checkpoint.stage \in {"acquired", "exporting", "exported"} ->
                   [run EXCEPT !.at = "sources", !.pending = run.sources]
              [] OTHER -> [run EXCEPT !.at = "publish", !.produced = checkpoint.produced]
  /\ UNCHANGED <<row, checkpoint, durable, stops>>

(* Discovery is repeated by every run.  The stage of the checkpoint says   *)
(* where the run goes on.                                                  *)
Discover ==
  /\ At("discover")
  /\ run' = CASE checkpoint.stage \in {"none", "acquiring"} -> [run EXCEPT !.at = "kinds"]
              [] checkpoint.stage = "acquired" ->
                   [run EXCEPT !.at = "sources", !.pending = run.sources]
              [] checkpoint.stage = "exporting" ->
                   [run EXCEPT !.at = "sources", !.pending = run.sources,
                               !.produced = checkpoint.produced]
              [] OTHER ->
                   [run EXCEPT !.at = IF checkpoint.produced = {} THEN "sources" ELSE "validate",
                               !.pending = run.sources, !.produced = checkpoint.produced]
  /\ UNCHANGED <<row, checkpoint, durable, stops>>

DiscoverFails == At("discover") /\ Goto("fail") /\ UNCHANGED <<row, checkpoint, durable, stops>>

-----------------------------------------------------------------------------
(* Acquisition: one candidate of each kind, a failure of one contained.    *)

(* Next kind, unless an earlier run has it already. *)
SkipKind ==
  /\ At("kinds") /\ run.next <= Len(Chosen) /\ Kind \in run.acquired
  /\ run' = [run EXCEPT !.next = @ + 1]
  /\ UNCHANGED <<row, checkpoint, durable, stops>>

(* _acquire_remote, ProviderRuntime.execute: note what is in the directory *)
BeginFetch ==
  /\ At("kinds") /\ run.next <= Len(Chosen) /\ Kind \notin run.acquired
  /\ run' = [run EXCEPT !.at = "fetch", !.before = staged[Kind], !.got = {}]
  /\ UNCHANGED <<row, checkpoint, durable, stops>>

(* A file arrives in the staging directory. *)
Fetch(f) ==
  /\ At("fetch") /\ f \in Offer[Kind] \ run.got
  /\ staged' = [staged EXCEPT ![Kind] = @ \cup {f}]
  /\ run' = [run EXCEPT !.got = @ \cup {f}]
  /\ UNCHANGED <<row, checkpoint, files, stops>>

(* The files the run learns of: a program is not asked, its directory is   *)
(* compared with what was there before.                                    *)
Delivered == IF Kind \in Programs THEN staged[Kind] \ run.before ELSE run.got

(* The provider is done; its files become registered sources. *)
EndFetch ==
  /\ At("fetch") /\ run.got = Offer[Kind] /\ Delivered # {}
  /\ run' = [run EXCEPT !.at = "saveKind", !.sources = @ \cup Delivered,
                        !.acquired = @ \cup {Kind}]
  /\ UNCHANGED <<row, checkpoint, durable, stops>>

(* Mutant: a failed kind is tried again at once. *)
FetchFailsRetried ==
  /\ At("fetch")
  /\ run' = [run EXCEPT !.at = "kinds", !.failed = @ \cup {Kind}]
  /\ UNCHANGED <<row, checkpoint, durable, stops>>

(* A refusal, an error exit or no new file: the kind failed, go on. *)
FetchFails ==
  /\ At("fetch")
  /\ run' = [run EXCEPT !.at = "kinds", !.next = @ + 1, !.failed = @ \cup {Kind}]
  /\ UNCHANGED <<row, checkpoint, durable, stops>>

SaveKind ==
  /\ At("saveKind")
  /\ checkpoint' = Saved("acquiring")
  /\ run' = [run EXCEPT !.at = "kinds", !.next = @ + 1]
  /\ UNCHANGED <<row, durable, stops>>

EndKinds ==
  /\ At("kinds") /\ run.next > Len(Chosen)
  /\ IF run.sources = {}
     THEN Goto("fail") /\ UNCHANGED checkpoint
     ELSE /\ checkpoint' = Saved("acquired")
          /\ run' = [run EXCEPT !.at = "sources", !.pending = run.sources]
  /\ UNCHANGED <<row, durable, stops>>

-----------------------------------------------------------------------------
(* Export: every operation of every source, a failure of one contained.    *)

NextSource ==
  /\ At("sources")
  /\ \E f \in run.pending :
       run' = [run EXCEPT !.at = "operations", !.pending = @ \ {f},
                          !.file = f, !.op = 1, !.bad = {}]
  /\ UNCHANGED <<row, checkpoint, durable, stops>>

AtOperation == At("operations") /\ run.op <= Len(Plan)

(* The checkpoint has its output, or it is the fallback of a remux that    *)
(* worked. *)
Unneeded ==
  \/ Output \in checkpoint.done
  \/ Operation = "transcode" /\ <<run.file, "remux">> \in checkpoint.done

SkipOperation ==
  /\ AtOperation /\ Unneeded
  /\ run' = [run EXCEPT !.op = @ + 1]
  /\ UNCHANGED <<row, checkpoint, durable, stops>>

(* The provider has run and its output is validated and registered. *)
Operate ==
  /\ AtOperation /\ ~Unneeded
  /\ Operation # "keep-original" => Output \notin Broken
  /\ Goto("saveOperation")
  /\ UNCHANGED <<row, checkpoint, durable, stops>>

OperationFails ==
  /\ AtOperation /\ ~Unneeded /\ Operation # "keep-original"
  /\ run' = [run EXCEPT !.op = @ + 1,
                        !.bad = IF Optional(Operation) THEN @ ELSE @ \cup {Operation}]
  /\ UNCHANGED <<row, checkpoint, durable, stops>>

(* on_progress *)
SaveOperation ==
  /\ At("saveOperation")
  /\ checkpoint' = [Saved("exporting") EXCEPT
       !.done = @ \cup {Output},
       !.produced = (IF @ = {} THEN {Original(f) : f \in run.sources} ELSE @) \cup {Output}]
  /\ run' = [run EXCEPT !.at = "operations", !.op = @ + 1]
  /\ UNCHANGED <<row, durable, stops>>

(* Mutant: a source with a failed operation yields nothing. *)
EndSourceUnlessFailed ==
  /\ At("operations") /\ run.op > Len(Plan)
  /\ run' = [run EXCEPT !.at = "sources", !.file = NoFile, !.bad = {},
                        !.errors = @ \/ run.bad # {},
                        !.produced = IF run.bad # {} THEN @
                                     ELSE @ \cup {Original(run.file)} \cup checkpoint.done]
  /\ UNCHANGED <<row, checkpoint, durable, stops>>

(* execute_export_plan returns the source and every output it knows of,    *)
(* also when it raises RequiredOperationFailed.                            *)
EndSource ==
  /\ At("operations") /\ run.op > Len(Plan)
  /\ run' = [run EXCEPT !.at = "sources", !.file = NoFile, !.bad = {},
                        !.errors = @ \/ run.bad # {},
                        !.produced = @ \cup {Original(run.file)} \cup checkpoint.done]
  /\ UNCHANGED <<row, checkpoint, durable, stops>>

EndSources ==
  /\ At("sources") /\ run.pending = {}
  /\ checkpoint' = [Saved("exported") EXCEPT !.produced = run.produced]
  /\ Goto("validate")
  /\ UNCHANGED <<row, durable, stops>>

-----------------------------------------------------------------------------
(* Validation and publication. *)

SaveValidating ==
  /\ At("validate")
  /\ checkpoint' = [Saved("validating") EXCEPT !.produced = run.produced]
  /\ Goto("check")
  /\ UNCHANGED <<row, durable, stops>>

Validate ==
  /\ At("check")
  /\ LET passed == {a \in run.produced : Publishable(a)}
     IN  run' = [run EXCEPT !.at = IF passed = {} THEN "fail" ELSE "publish",
                            !.produced = passed,
                            !.errors = @ \/ \E a \in run.produced : Wanted(a) /\ a \in Broken]
  /\ UNCHANGED <<row, checkpoint, durable, stops>>

SavePublishing ==
  /\ At("publish")
  /\ checkpoint' = [Saved("publishing") EXCEPT !.produced = run.produced]
  /\ Goto("setPublishing")
  /\ UNCHANGED <<row, durable, stops>>

(* _primary_stem: the artifact whose name a subtitle borrows *)
Primaries(artifacts) ==
  LET media == {a \in artifacts : KindOf[a[1]] \in {"video", "audio", "live_stream"}}
  IN  IF media = {} THEN artifacts ELSE media

(* _publish_name: a stem and a suffix *)
Suffix(a) ==
  IF RoleOf(a[2]) = "source" \/ intent.preference = "none"
  THEN Container[a[1]] ELSE intent.preference
Name(a) == <<IF KindOf[a[1]] = "subtitle" THEN run.primary ELSE {a}, Suffix(a)>>

SetPublishing ==
  /\ At("setPublishing")
  /\ row' = "publishing"
  /\ \E p \in Primaries(run.produced) : run' = [run EXCEPT !.at = "copy", !.primary = {p}]
  /\ UNCHANGED <<checkpoint, durable, stops>>

Uncopied == run.produced \ (delivered \cup spoiled)

(* os.replace puts the copy in place of whatever has that name. *)
Copy(a) ==
  /\ At("copy") /\ a \in Uncopied
  /\ placed' = {p \in placed : p.name # Name(a)} \cup {[name |-> Name(a), artifact |-> a]}
  /\ delivered' = delivered \cup {a}
  /\ UNCHANGED <<intent, row, checkpoint, staged, spoiled, report, run, stops>>

CopyFails(a) ==
  /\ At("copy") /\ a \in Uncopied
  /\ spoiled' = spoiled \cup {a}
  /\ UNCHANGED <<intent, row, checkpoint, staged, placed, delivered, report, run, stops>>

(* publish_artifacts raises only if nothing was put in place. *)
EndCopy ==
  /\ At("copy") /\ Uncopied = {}
  /\ Goto(IF delivered = {} THEN "fail" ELSE "complete")
  /\ UNCHANGED <<row, checkpoint, durable, stops>>

Complete ==
  /\ At("complete")
  /\ row' = "completed"
  /\ Goto("report")
  /\ UNCHANGED <<checkpoint, durable, stops>>

Report ==
  /\ At("report")
  /\ report' = [sent |-> TRUE, partial |-> run.failed # {} \/ run.errors, failed |-> run.failed]
  /\ run' = NoRun
  /\ UNCHANGED <<intent, row, checkpoint, staged, placed, delivered, spoiled, stops>>

(* _fail *)
Fail ==
  /\ At("fail")
  /\ row' = "failed"
  /\ run' = NoRun
  /\ UNCHANGED <<checkpoint, durable, stops>>

-----------------------------------------------------------------------------
(* Stops. *)

(* Where the run looks for a stop request before it does anything else.    *)
Stoppable ==
  \/ run.at \in {"restore", "discover", "fetch", "validate", "check", "publish",
                 "setPublishing", "fail"}
  \/ At("kinds") /\ run.next <= Len(Chosen)
  \/ At("sources") /\ run.pending # {}
  \/ AtOperation

(* pause_job, seen by the run *)
Pause ==
  /\ row = "active" /\ Stoppable /\ stops < MaxStops
  /\ row' = "paused" /\ run' = NoRun /\ stops' = stops + 1
  /\ UNCHANGED <<checkpoint, durable>>

(* The worker dies; nothing tells the queue. *)
Crash ==
  /\ ~At("idle") /\ stops < MaxStops
  /\ run' = NoRun /\ stops' = stops + 1
  /\ UNCHANGED <<row, checkpoint, durable>>

(* pause_job of a job no run holds, waiting or left behind by a crash *)
PauseUnattended ==
  /\ row \in {"accepted", "active"} /\ At("idle") /\ stops < MaxStops
  /\ row' = "paused" /\ stops' = stops + 1
  /\ UNCHANGED <<checkpoint, durable, run>>

(* resume_job *)
Resume ==
  /\ row = "paused"
  /\ row' = "accepted"
  /\ UNCHANGED <<checkpoint, durable, run, stops>>

-----------------------------------------------------------------------------
(* Specification. *)

Acquire == SkipKind \/ BeginFetch \/ (\E f \in Files : Fetch(f)) \/ EndFetch \/ FetchFails
             \/ SaveKind \/ EndKinds
Export == NextSource \/ SkipOperation \/ Operate \/ OperationFails \/ SaveOperation
             \/ EndSource \/ EndSources
Publish == SaveValidating \/ Validate \/ SavePublishing \/ SetPublishing
             \/ (\E a \in Artifacts : Copy(a) \/ CopyFails(a)) \/ EndCopy \/ Complete \/ Report

Step == Claim \/ Restore \/ Discover \/ DiscoverFails \/ Acquire \/ Export \/ Publish \/ Fail

Next == Step \/ Pause \/ Crash \/ PauseUnattended \/ Resume

(* A run goes on by itself and an idle worker takes an accepted job; users *)
(* need not resume, and nothing need stop a run.                           *)
Spec == Init /\ [][Next]_vars /\ WF_vars(Step)

-----------------------------------------------------------------------------
(* Properties. *)

Checkpoints == [stage : Stages, sources : SUBSET Files, acquired : SUBSET Kinds,
                failed : SUBSET Kinds, produced : SUBSET Artifacts, done : SUBSET Artifacts]

Runs == [at : Points, next : 1..Len(Chosen) + 1, sources : SUBSET Files,
         acquired : SUBSET Kinds, failed : SUBSET Kinds, errors : BOOLEAN,
         produced : SUBSET Artifacts, pending : SUBSET Files, before : SUBSET Files,
         got : SUBSET Files, file : Files \cup {NoFile}, op : Nat \ {0},
         bad : SUBSET Operations, primary : SUBSET Artifacts]

TypeOK ==
  /\ intent \in Intents
  /\ row \in Rows
  /\ checkpoint \in Checkpoints
  /\ staged \in [Kinds -> SUBSET Files]
  /\ \A p \in placed : p.artifact \in Artifacts
  /\ delivered \in SUBSET Artifacts /\ spoiled \in SUBSET Artifacts
  /\ report \in [partial : BOOLEAN, failed : SUBSET Kinds, sent : BOOLEAN]
  /\ run \in Runs
  /\ stops \in 0..MaxStops

(* A completed job has delivered all the work its checkpoint records and   *)
(* nothing else, however often it was paused, lost and resumed in between; *)
(* only a copy that failed is missing.                                     *)
NothingLost ==
  row = "completed" => delivered \cup spoiled = {a \in Work : Publishable(a)}

(* Every kind of a completed job was acquired or is recorded as failed,    *)
(* and the report names those that were not acquired as its partial result.*)
KindsAreSettled ==
  /\ row = "completed" => Kinds = checkpoint.acquired \cup checkpoint.failed
  /\ report.sent /\ Kinds # checkpoint.acquired =>
       report.partial /\ Kinds \ checkpoint.acquired \subseteq report.failed

(* "resume_job SHALL skip kinds already acquired": no provider is asked    *)
(* for a kind the checkpoint records, in whichever run that was.           *)
AcquiredIsNotFetched == At("fetch") => Kind \notin checkpoint.acquired

(* "A derivative never publishes before its mandatory validation passes":  *)
(* no file of the destination is one that does not pass, also when a       *)
(* resumed run goes straight to publication.                               *)
OnlyValidated == \A p \in placed : p.artifact \notin Broken

(* Recorded work stays recorded, delivery happens once and closes the job. *)
Deliverable == {a \in Artifacts : Publishable(a)}
Status == CASE row = "completed" -> "done"
            [] row = "failed"    -> "dead"
            [] OTHER             -> "open"
Promise == INSTANCE DurableWork
             WITH deliverable <- Deliverable, status <- Status, work <- Work
PromiseKept == Promise!Spec

(* Every run ends, and no accepted job is left waiting.                    *)
RunsEnd == <>[](At("idle") /\ row # "accepted")

-----------------------------------------------------------------------------
(* What the repository says of the program and some behaviour refutes.     *)

(* A kind that is recorded as acquired has all of its files.               *)
KindIsComplete == \A k \in checkpoint.acquired : Offer[k] \subseteq checkpoint.sources
=============================================================================
