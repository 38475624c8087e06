---------------------------- MODULE JobRun_proofs ----------------------------
(***************************************************************************)
(* Proofs about JobRun: its safety properties for every page, every set of *)
(* damaged artifacts, every intent and any number of pauses and crashes.   *)
(*                                                                         *)
(* PointOK says what the program counter tells about the locals; with the  *)
(* types it is inductive.  On top of it KindsInv follows the kinds through *)
(* acquisition, and WorkInv the artifacts from the first checkpoint to the *)
(* destination: what a stage of the checkpoint, and the point of a run,    *)
(* say about the artifacts at hand.                                        *)
(***************************************************************************)
EXTENDS JobRun, TLAPS

PointOK ==
  /\ run.at \in {"fetch", "saveKind"} => run.next \in 1..Len(Chosen)
  /\ run.at \in {"operations", "saveOperation"} => run.file \in Files
  /\ run.at = "saveOperation" => run.op \in 1..Len(Plan)

TypeInv == TypeOK /\ PointOK

(* Which rows the points of a run go with. *)
RowOK ==
  /\ run.at \in Points \ {"idle", "copy", "complete", "report", "fail"} => row = "active"
  /\ run.at \in {"copy", "complete"} => row = "publishing"
  /\ run.at = "report" => row = "completed"
  /\ run.at = "fail" => row \in {"active", "publishing"}

(* No kind before the current one is left open; the checkpoint is never    *)
(* ahead of the run; past acquisition both say the same.                   *)
Acquiring == {"discover", "kinds", "fetch", "saveKind"}
KindsDone == {"sources", "operations", "saveOperation", "validate", "check", "publish",
              "setPublishing", "copy", "complete", "report"}
Settled(acquired, failed) == Kinds \subseteq acquired \cup failed

KindsInv ==
  /\ RowOK
  /\ run.at \in {"restore", "discover"} => run.next = 1
  /\ run.at \in Acquiring => checkpoint.acquired \subseteq run.acquired
  /\ run.at = "fetch" => Kind \notin run.acquired
  /\ run.at \in {"kinds", "fetch"} =>
       \A i \in 1..run.next - 1 : Chosen[i] \in run.acquired \cup run.failed
  /\ run.at = "saveKind" =>
       \A i \in 1..run.next : Chosen[i] \in run.acquired \cup run.failed
  /\ run.at = "discover" =>
       run.acquired = checkpoint.acquired /\ run.failed = checkpoint.failed
  /\ run.at \in KindsDone =>
       /\ run.acquired = checkpoint.acquired /\ run.failed = checkpoint.failed
       /\ Settled(run.acquired, run.failed)
  /\ checkpoint.stage \notin {"none", "acquiring"} =>
       Settled(checkpoint.acquired, checkpoint.failed)
  /\ row \in {"publishing", "completed"} => Settled(checkpoint.acquired, checkpoint.failed)
  /\ report.sent =>
       /\ row = "completed" /\ run.at = "idle"
       /\ report.failed = checkpoint.failed
       /\ checkpoint.failed # {} => report.partial

Passing == {a \in Work : Publishable(a)}

(* What the stage of the checkpoint says of its artifacts. *)
StageOK ==
  /\ checkpoint.produced \subseteq Work
  /\ checkpoint.stage \notin {"none", "acquiring"} => checkpoint.sources # {}
  /\ checkpoint.stage \in {"exported", "validating", "publishing"} =>
       Passing \subseteq checkpoint.produced

(* What the point of a run says of the artifacts it holds. *)
HeldOK ==
  /\ run.at \in Acquiring \cup {"restore"} => run.produced = {} /\ run.file = NoFile
  /\ run.at \in Acquiring => checkpoint.sources \subseteq run.sources
  /\ run.at = "discover" \/ run.at \in KindsDone => run.sources = checkpoint.sources
  /\ run.at \in KindsDone => run.sources # {}
  /\ run.at \in KindsDone => run.produced \subseteq Work
  /\ run.at \in {"sources", "operations", "saveOperation"} =>
       /\ run.pending \subseteq run.sources
       /\ \A f \in run.sources \ (run.pending \cup {run.file}) : Original(f) \in run.produced
  /\ run.at \in {"operations", "saveOperation"} => run.file \in run.sources
  /\ run.at = "sources" =>
       /\ run.file = NoFile
       /\ run.pending = run.sources \/ checkpoint.done \subseteq run.produced
  /\ run.at \in {"validate", "check"} => Passing \subseteq run.produced
  /\ run.at \in {"publish", "setPublishing", "copy", "complete", "report"} =>
       run.produced = Passing

DeliveredOK ==
  /\ run.at = "fail" => delivered = {}
  /\ row \in {"accepted", "active", "paused"} => delivered = {} /\ spoiled = {}
  /\ run.at = "copy" => delivered \cup spoiled \subseteq Passing
  /\ run.at = "complete" => delivered # {}
  /\ run.at = "complete" \/ row = "completed" => delivered \cup spoiled = Passing
  /\ \A p \in placed : p.artifact \notin Broken

WorkInv == StageOK /\ HeldOK /\ DeliveredOK

-----------------------------------------------------------------------------
(* Types. *)

(* The planner plans known operations. *)
LEMMA PlanType ==
  ASSUME NEW kind, NEW container, NEW i
  PROVE  PlanOf(kind, container, i) \in Seq(Operations)
<1> DEFINE changed   == i.preference # "none" /\ i.preference # container
           converted == CASE changed -> Conversion(kind, container, i)
                          [] ~changed /\ i.lossy /\ ~ImageLike(kind, container) -> <<"transcode">>
                          [] OTHER -> <<>>
           oriented  == IF ImageLike(kind, container) /\ i.preference = "none"
                        THEN <<"image-orient">> ELSE <<>>
<1>1. Conversion(kind, container, i) \in Seq(Operations)
  BY DEF Conversion, Operations
<1>2. /\ <<>> \in Seq(Operations) /\ <<"transcode">> \in Seq(Operations)
      /\ <<"image-orient">> \in Seq(Operations) /\ <<"keep-original">> \in Seq(Operations)
  BY DEF Operations
<1>3. converted \in Seq(Operations)
  BY <1>1, <1>2
<1>4. oriented \in Seq(Operations)
  BY <1>2
<1> HIDE DEF converted, oriented
<1>5. (IF kind \in PassthroughKinds THEN <<>> ELSE converted \o oriented) \in Seq(Operations)
  BY <1>2, <1>3, <1>4
<1>6. <<"keep-original">> \o (IF kind \in PassthroughKinds THEN <<>> ELSE converted \o oriented)
        \in Seq(Operations)
  BY <1>2, <1>5
<1>q. QED BY <1>6 DEF PlanOf, converted, oriented

LEMMA OperationType ==
  ASSUME run.op \in 1..Len(Plan), run.file \in Files
  PROVE  Operation \in Operations /\ Output \in Artifacts
BY PlanType DEF Operation, Plan, Output, Artifacts

LEMMA KindType ==
  ASSUME run.next \in 1..Len(Chosen)
  PROVE  Kind \in Kinds
BY DEF Kind, Kinds

LEMMA NoRunType == NoRun \in Runs
BY RunAssumption DEF NoRun, Runs, Points

LEMMA TypeInit == Init => TypeInv
<1> SUFFICES ASSUME Init PROVE TypeInv
  OBVIOUS
<1> USE RunAssumption DEF Init
<1>1. checkpoint \in Checkpoints
  BY DEF Checkpoints, Stages
<1>2. TypeOK
  BY <1>1, NoRunType DEF TypeOK, NoReport, Rows
<1>q. QED BY <1>2 DEF TypeInv, PointOK, NoRun

(* A checkpoint of a well-typed run is well-typed. *)
LEMMA SavedType ==
  ASSUME run \in Runs, checkpoint \in Checkpoints, NEW stage \in Stages
  PROVE  Saved(stage) \in Checkpoints
BY DEF Saved, Checkpoints, Runs

LEMMA SavedFields ==
  ASSUME checkpoint \in Checkpoints, NEW stage
  PROVE  /\ Saved(stage).stage = stage
         /\ Saved(stage).sources = run.sources
         /\ Saved(stage).acquired = run.acquired
         /\ Saved(stage).failed = run.failed
         /\ Saved(stage).produced = checkpoint.produced
         /\ Saved(stage).done = checkpoint.done
BY DEF Saved, Checkpoints

(* Most actions touch the run, its checkpoint and its row only. *)
LEMMA Frame ==
  ASSUME TypeInv, run' \in Runs, PointOK', checkpoint' \in Checkpoints,
         row' \in Rows, stops' \in 0..MaxStops, UNCHANGED durable
  PROVE  TypeInv'
BY DEF TypeInv, TypeOK, durable, files

LEMMA TypeAcquire ==
  ASSUME TypeInv, Acquire
  PROVE  TypeInv'
<1>0. /\ run \in Runs /\ PointOK /\ checkpoint \in Checkpoints /\ Len(Chosen) \in Nat
      /\ row \in Rows /\ stops \in 0..MaxStops /\ MaxStops \in Nat
  BY RunAssumption DEF TypeInv, TypeOK
<1> USE DEF At
<1>1. CASE SkipKind
  <2>1a. run' \in Runs
    BY <1>0, <1>1 DEF SkipKind, Runs
  <2>1b. PointOK'
    BY <1>0, <1>1 DEF SkipKind, PointOK, Runs
  <2>1. run' \in Runs /\ PointOK'
    BY <2>1a, <2>1b
  <2>q. QED BY <1>0, <1>1, <2>1, Frame DEF SkipKind
<1>2. CASE BeginFetch
  <2>0. staged[Kind] \subseteq Files
    BY <1>0, <1>2, KindType DEF BeginFetch, TypeInv, TypeOK, Runs
  <2>1a. run' \in Runs
    BY <1>0, <1>2, <2>0 DEF BeginFetch, Runs, Points
  <2>1b. PointOK'
    BY <1>0, <1>2, KindType DEF BeginFetch, PointOK, Runs, Points
  <2>1. run' \in Runs /\ PointOK'
    BY <2>1a, <2>1b
  <2>q. QED BY <1>0, <1>2, <2>1, Frame DEF BeginFetch
<1>3. ASSUME NEW f \in Files, Fetch(f) PROVE TypeInv'
  <2>1a. run' \in Runs
    BY <1>0, <1>3 DEF Fetch, Runs
  <2>1b. PointOK'
    BY <1>0, <1>3 DEF Fetch, PointOK, Runs
  <2>1. run' \in Runs /\ PointOK'
    BY <2>1a, <2>1b
  <2>2. Kind \in Kinds
    BY <1>0, <1>3, KindType DEF Fetch, PointOK
  <2>3. staged' \in [Kinds -> SUBSET Files]
    BY <1>0, <1>3, <2>2 DEF Fetch, TypeInv, TypeOK
  <2>q. QED BY <1>0, <1>3, <2>1, <2>3 DEF Fetch, files, TypeInv, TypeOK
<1>4. CASE EndFetch
  <2>1. Kind \in Kinds
    BY <1>0, <1>4, KindType DEF EndFetch, PointOK
  <2>2. Delivered \subseteq Files
    BY <1>0, <2>1 DEF Delivered, Runs, TypeInv, TypeOK
  <2>3. run' \in Runs
    BY <1>0, <1>4, <2>1, <2>2 DEF EndFetch, Runs, Points
  <2>4. PointOK'
    BY <1>0, <1>4 DEF EndFetch, PointOK, Runs
  <2>q. QED BY <1>0, <1>4, <2>3, <2>4, Frame DEF EndFetch
<1>5. CASE FetchFails
  <2>1. Kind \in Kinds
    BY <1>0, <1>5, KindType DEF FetchFails, PointOK
  <2>2a. run' \in Runs
    <3>1. run.next + 1 \in 1..Len(Chosen) + 1 /\ "kinds" \in Points
      BY <1>0, <1>5 DEF FetchFails, PointOK, Points
    <3>q. QED BY <1>0, <1>5, <2>1, <3>1 DEF FetchFails, Runs
  <2>2b. PointOK'
    BY <1>0, <1>5, <2>1 DEF FetchFails, PointOK, Runs, Points
  <2>2. run' \in Runs /\ PointOK'
    BY <2>2a, <2>2b
  <2>q. QED BY <1>0, <1>5, <2>2, Frame DEF FetchFails
<1>6. CASE SaveKind
  <2>1a. run' \in Runs
    <3>1. run.next + 1 \in 1..Len(Chosen) + 1 /\ "kinds" \in Points
      BY <1>0, <1>6 DEF SaveKind, PointOK, Points
    <3>q. QED BY <1>0, <1>6, <3>1 DEF SaveKind, Runs
  <2>1b. PointOK'
    BY <1>0, <1>6 DEF SaveKind, PointOK, Runs, Points
  <2>1. run' \in Runs /\ PointOK'
    BY <2>1a, <2>1b
  <2>2. checkpoint' \in Checkpoints
    BY <1>0, <1>6, SavedType DEF SaveKind, Stages
  <2>q. QED BY <1>0, <1>6, <2>1, <2>2, Frame DEF SaveKind
<1>7. CASE EndKinds
  <2>1a. run' \in Runs
    <3>1. "fail" \in Points /\ "sources" \in Points
      BY DEF Points
    <3>2. CASE run.sources = {}
      BY <1>0, <1>7, <3>1, <3>2 DEF EndKinds, Runs, Goto
    <3>3. CASE run.sources # {}
      <4>1. run' = [run EXCEPT !.at = "sources", !.pending = run.sources]
        BY <1>7, <3>3 DEF EndKinds
      <4>2. run.sources \in SUBSET Files
        BY <1>0 DEF Runs
      <4>q. QED BY <1>0, <3>1, <4>1, <4>2 DEF Runs
    <3>q. QED BY <3>2, <3>3
  <2>1b. PointOK'
    <3>1. run'.at \in {"fail", "sources"}
      BY <1>0, <1>7 DEF EndKinds, Runs, Goto
    <3>q. QED BY <3>1 DEF PointOK
  <2>1. run' \in Runs /\ PointOK'
    BY <2>1a, <2>1b
  <2>2. checkpoint' \in Checkpoints
    BY <1>0, <1>7, SavedType DEF EndKinds, Stages
  <2>q. QED BY <1>0, <1>7, <2>1, <2>2, Frame DEF EndKinds
<1>q. QED BY <1>1, <1>2, <1>3, <1>4, <1>5, <1>6, <1>7 DEF Acquire

LEMMA TypeExport ==
  ASSUME TypeInv, Export
  PROVE  TypeInv'
<1>0. /\ run \in Runs /\ PointOK /\ checkpoint \in Checkpoints /\ Len(Chosen) \in Nat
      /\ row \in Rows /\ stops \in 0..MaxStops /\ MaxStops \in Nat
  BY RunAssumption DEF TypeInv, TypeOK
<1> USE DEF At
<1>1. CASE NextSource
  <2>1a. run' \in Runs
    <3>1. PICK f \in run.pending :
             run' = [run EXCEPT !.at = "operations", !.pending = @ \ {f},
                                !.file = f, !.op = 1, !.bad = {}]
      BY <1>1 DEF NextSource
    <3>2. f \in Files \cup {NoFile} /\ run.pending \ {f} \in SUBSET Files
      BY <1>0 DEF Runs
    <3>3. "operations" \in Points /\ 1 \in Nat \ {0} /\ {} \in SUBSET Operations
      BY DEF Points
    <3>q. QED BY <1>0, <3>1, <3>2, <3>3 DEF Runs
  <2>1b. PointOK'
    BY <1>0, <1>1 DEF NextSource, PointOK, Runs, Points
  <2>1. run' \in Runs /\ PointOK'
    BY <2>1a, <2>1b
  <2>q. QED BY <1>0, <1>1, <2>1, Frame DEF NextSource
<1>2. CASE SkipOperation
  <2>1a. run' \in Runs
    BY <1>0, <1>2 DEF SkipOperation, AtOperation, Runs
  <2>1b. PointOK'
    BY <1>0, <1>2 DEF SkipOperation, AtOperation, PointOK, Runs
  <2>1. run' \in Runs /\ PointOK'
    BY <2>1a, <2>1b
  <2>q. QED BY <1>0, <1>2, <2>1, Frame DEF SkipOperation
<1>3. CASE Operate
  <2>1. run' \in Runs
    BY <1>0, <1>3 DEF Operate, Goto, Runs, Points
  <2>2. Plan' = Plan /\ Len(Plan) \in Nat
    BY <1>0, <1>3, PlanType DEF Operate, Goto, Plan, durable, files, Runs
  <2>3. PointOK'
    BY <1>0, <1>3, <2>2 DEF Operate, AtOperation, Goto, PointOK, Runs
  <2>q. QED BY <1>0, <1>3, <2>1, <2>3, Frame DEF Operate
<1>4. CASE OperationFails
  <2>1. Operation \in Operations
    BY <1>0, <1>4, OperationType DEF OperationFails, AtOperation, PointOK, Runs
  <2>2a. run' \in Runs
    <3>1. run.op + 1 \in Nat \ {0}
      BY <1>0 DEF Runs
    <3>2. run' = [run EXCEPT !.op = @ + 1, !.bad = run'.bad]
            /\ run'.bad \in SUBSET Operations
      BY <1>0, <1>4, <2>1 DEF OperationFails, Runs
    <3>q. QED BY <1>0, <3>1, <3>2 DEF Runs
  <2>2b. PointOK'
    BY <1>0, <1>4, <2>1 DEF OperationFails, AtOperation, PointOK, Runs
  <2>2. run' \in Runs /\ PointOK'
    BY <2>2a, <2>2b
  <2>q. QED BY <1>0, <1>4, <2>2, Frame DEF OperationFails
<1>5. CASE SaveOperation
  <2>1. Output \in Artifacts
    BY <1>0, <1>5, OperationType DEF SaveOperation, PointOK
  <2>2a. run' \in Runs
    <3>1. run.op + 1 \in Nat \ {0} /\ "operations" \in Points
      BY <1>0 DEF Runs, Points
    <3>q. QED BY <1>0, <1>5, <3>1 DEF SaveOperation, Runs
  <2>2b. PointOK'
    BY <1>0, <1>5 DEF SaveOperation, PointOK, Runs, Points
  <2>2. run' \in Runs /\ PointOK'
    BY <2>2a, <2>2b
  <2>3. {Original(f) : f \in run.sources} \subseteq Artifacts
    BY <1>0 DEF Original, Artifacts, Operations, Runs
  <2>4. checkpoint' \in Checkpoints
    BY <1>0, <1>5, <2>1, <2>3, SavedType DEF SaveOperation, Stages, Checkpoints
  <2>q. QED BY <1>0, <1>5, <2>2, <2>4, Frame DEF SaveOperation
<1>6. CASE EndSource
  <2>1. Original(run.file) \in Artifacts
    BY <1>0, <1>6 DEF EndSource, PointOK, Original, Artifacts, Operations
  <2>2a. run' \in Runs
    <3>1. run.produced \cup {Original(run.file)} \cup checkpoint.done \in SUBSET Artifacts
      BY <1>0, <2>1 DEF Runs, Checkpoints
    <3>2. "sources" \in Points /\ {} \in SUBSET Operations
      BY DEF Points
    <3>3. (run.errors \/ run.bad # {}) \in BOOLEAN
      OBVIOUS
    <3>4. run' = [run EXCEPT !.at = "sources", !.file = NoFile, !.bad = {},
                             !.errors = run.errors \/ run.bad # {},
                             !.produced = run.produced \cup {Original(run.file)}
                                          \cup checkpoint.done]
      BY <1>0, <1>6 DEF EndSource, Runs
    <3>q. QED BY <1>0, <3>1, <3>2, <3>3, <3>4 DEF Runs
  <2>2b. PointOK'
    BY <1>0, <1>6, <2>1 DEF EndSource, PointOK, Runs, Points, Checkpoints
  <2>2. run' \in Runs /\ PointOK'
    BY <2>2a, <2>2b
  <2>q. QED BY <1>0, <1>6, <2>2, Frame DEF EndSource
<1>7. CASE EndSources
  <2>1a. run' \in Runs
    BY <1>0, <1>7 DEF EndSources, Runs, Points, Goto
  <2>1b. PointOK'
    BY <1>0, <1>7 DEF EndSources, PointOK, Runs, Points, Goto
  <2>1. run' \in Runs /\ PointOK'
    BY <2>1a, <2>1b
  <2>2. checkpoint' \in Checkpoints
    BY <1>0, <1>7, SavedType DEF EndSources, Stages, Checkpoints, Runs
  <2>q. QED BY <1>0, <1>7, <2>1, <2>2, Frame DEF EndSources
<1>q. QED BY <1>1, <1>2, <1>3, <1>4, <1>5, <1>6, <1>7 DEF Export

LEMMA TypePublish ==
  ASSUME TypeInv, Publish
  PROVE  TypeInv'
<1>0. /\ run \in Runs /\ PointOK /\ checkpoint \in Checkpoints /\ Len(Chosen) \in Nat
      /\ row \in Rows /\ stops \in 0..MaxStops /\ MaxStops \in Nat
  BY RunAssumption DEF TypeInv, TypeOK
<1> USE DEF At
<1>1. CASE SaveValidating
  <2>1a. run' \in Runs
    BY <1>0, <1>1 DEF SaveValidating, Runs, Points, Goto
  <2>1b. PointOK'
    BY <1>0, <1>1 DEF SaveValidating, PointOK, Runs, Points, Goto
  <2>1. run' \in Runs /\ PointOK'
    BY <2>1a, <2>1b
  <2>2. checkpoint' \in Checkpoints
    BY <1>0, <1>1, SavedType DEF SaveValidating, Stages, Checkpoints, Runs
  <2>q. QED BY <1>0, <1>1, <2>1, <2>2, Frame DEF SaveValidating
<1>2. CASE Validate
  <2> DEFINE passed == {a \in run.produced : Publishable(a)}
             flawed == \E a \in run.produced : Wanted(a) /\ a \in Broken
  <2>1. passed \subseteq run.produced
    OBVIOUS
  <2>2. flawed \in BOOLEAN
    OBVIOUS
  <2>3. run' = [run EXCEPT !.at = IF passed = {} THEN "fail" ELSE "publish",
                           !.produced = passed, !.errors = @ \/ flawed]
    BY <1>0, <1>2 DEF Validate
  <2> HIDE DEF passed, flawed
  <2>4a. run' \in Runs
    <3>1. (IF passed = {} THEN "fail" ELSE "publish") \in Points
      BY DEF Points
    <3>2. (run.errors \/ flawed) \in BOOLEAN
      BY <2>2
    <3>q. QED BY <1>0, <2>1, <2>3, <3>1, <3>2 DEF Runs
  <2>4b. PointOK'
    BY <2>1, <2>2, <2>3 DEF PointOK, Runs, Points
  <2>4. run' \in Runs /\ PointOK'
    BY <2>4a, <2>4b
  <2>q. QED BY <1>0, <1>2, <2>4, Frame DEF Validate
<1>3. CASE SavePublishing
  <2>1a. run' \in Runs
    BY <1>0, <1>3 DEF SavePublishing, Runs, Points, Goto
  <2>1b. PointOK'
    BY <1>0, <1>3 DEF SavePublishing, PointOK, Runs, Points, Goto
  <2>1. run' \in Runs /\ PointOK'
    BY <2>1a, <2>1b
  <2>2. checkpoint' \in Checkpoints
    BY <1>0, <1>3, SavedType DEF SavePublishing, Stages, Checkpoints, Runs
  <2>q. QED BY <1>0, <1>3, <2>1, <2>2, Frame DEF SavePublishing
<1>4. CASE SetPublishing
  <2>1. Primaries(run.produced) \subseteq Artifacts
    BY <1>0 DEF Primaries, Runs
  <2>2a. run' \in Runs
    <3>1. PICK p \in Primaries(run.produced) :
             run' = [run EXCEPT !.at = "copy", !.primary = {p}]
      BY <1>4 DEF SetPublishing
    <3>2. {p} \in SUBSET Artifacts /\ "copy" \in Points
      BY <2>1 DEF Points
    <3>q. QED BY <1>0, <3>1, <3>2 DEF Runs
  <2>2b. PointOK'
    BY <1>0, <1>4, <2>1 DEF SetPublishing, PointOK, Runs, Points
  <2>2. run' \in Runs /\ PointOK'
    BY <2>2a, <2>2b
  <2>q. QED BY <1>0, <1>4, <2>2, Frame DEF SetPublishing, Rows
<1>5. ASSUME NEW a \in Artifacts, Copy(a) PROVE TypeInv'
  BY <1>0, <1>5 DEF Copy, PointOK, Plan, TypeInv, TypeOK
<1>6. ASSUME NEW a \in Artifacts, CopyFails(a) PROVE TypeInv'
  BY <1>0, <1>6 DEF CopyFails, PointOK, Plan, TypeInv, TypeOK
<1>7. CASE EndCopy
  <2>1a. run' \in Runs
    BY <1>0, <1>7 DEF EndCopy, Runs, Points, Goto
  <2>1b. PointOK'
    BY <1>0, <1>7 DEF EndCopy, PointOK, Runs, Points, Goto
  <2>1. run' \in Runs /\ PointOK'
    BY <2>1a, <2>1b
  <2>q. QED BY <1>0, <1>7, <2>1, Frame DEF EndCopy
<1>8. CASE Complete
  <2>1a. run' \in Runs
    BY <1>0, <1>8 DEF Complete, Runs, Points, Goto
  <2>1b. PointOK'
    BY <1>0, <1>8 DEF Complete, PointOK, Runs, Points, Goto
  <2>1. run' \in Runs /\ PointOK'
    BY <2>1a, <2>1b
  <2>q. QED BY <1>0, <1>8, <2>1, Frame DEF Complete, Rows
<1>9. CASE Report
  <2>1a. run' \in Runs
    BY <1>0, <1>9, NoRunType DEF Report, NoRun
  <2>1b. PointOK'
    BY <1>0, <1>9, NoRunType DEF Report, PointOK, NoRun
  <2>1. run' \in Runs /\ PointOK'
    BY <2>1a, <2>1b
  <2>2. (run.failed # {} \/ run.errors) \in BOOLEAN
    OBVIOUS
  <2>3. report' \in [partial : BOOLEAN, failed : SUBSET Kinds, sent : BOOLEAN]
    BY <1>0, <1>9, <2>2 DEF Report, Runs
  <2>q. QED BY <1>0, <1>9, <2>1, <2>3, <1>0 DEF Report, TypeInv, TypeOK
<1>q. QED BY <1>1, <1>2, <1>3, <1>4, <1>5, <1>6, <1>7, <1>8, <1>9 DEF Publish

LEMMA TypeStep == TypeInv /\ [Next]_vars => TypeInv'
<1> SUFFICES ASSUME TypeInv, [Next]_vars PROVE TypeInv'
  OBVIOUS
<1>0. /\ run \in Runs /\ PointOK /\ checkpoint \in Checkpoints /\ Len(Chosen) \in Nat
      /\ row \in Rows /\ stops \in 0..MaxStops /\ MaxStops \in Nat
  BY RunAssumption DEF TypeInv, TypeOK
<1> USE DEF At
<1>1. CASE Claim
  <2>1a. run' \in Runs
    BY <1>1, NoRunType DEF Claim, Runs, Points
  <2>1b. PointOK'
    BY <1>0, <1>1 DEF Claim, PointOK, NoRun, Runs, Points
  <2>1. run' \in Runs /\ PointOK'
    BY <2>1a, <2>1b
  <2>q. QED BY <1>0, <1>1, <2>1, Frame DEF Claim, Rows
<1>2. CASE Restore
  <2>1a. run' \in Runs
    BY <1>0, <1>2 DEF Restore, Runs, Points, Checkpoints
  <2>1b. PointOK'
    BY <1>0, <1>2 DEF Restore, PointOK, Runs, Points, Checkpoints
  <2>1. run' \in Runs /\ PointOK'
    BY <2>1a, <2>1b
  <2>q. QED BY <1>0, <1>2, <2>1, Frame DEF Restore
<1>3. CASE Discover
  <2>1a. run' \in Runs
    BY <1>0, <1>3 DEF Discover, Runs, Points, Checkpoints
  <2>1b. PointOK'
    BY <1>0, <1>3 DEF Discover, PointOK, Runs, Points, Checkpoints
  <2>1. run' \in Runs /\ PointOK'
    BY <2>1a, <2>1b
  <2>q. QED BY <1>0, <1>3, <2>1, Frame DEF Discover
<1>4. CASE DiscoverFails
  <2>1a. run' \in Runs
    BY <1>0, <1>4 DEF DiscoverFails, Goto, Runs, Points
  <2>1b. PointOK'
    BY <1>0, <1>4 DEF DiscoverFails, Goto, PointOK, Runs, Points
  <2>1. run' \in Runs /\ PointOK'
    BY <2>1a, <2>1b
  <2>q. QED BY <1>0, <1>4, <2>1, Frame DEF DiscoverFails
<1>5. CASE Fail
  <2>1a. run' \in Runs
    BY <1>5, NoRunType DEF Fail
  <2>1b. PointOK'
    BY <1>0, <1>5 DEF Fail, PointOK, NoRun
  <2>1. run' \in Runs /\ PointOK'
    BY <2>1a, <2>1b
  <2>q. QED BY <1>0, <1>5, <2>1, Frame DEF Fail, Rows
<1>6. CASE Pause \/ Crash
  <2>1a. run' \in Runs
    BY <1>6, NoRunType DEF Pause, Crash
  <2>1b. PointOK'
    BY <1>0, <1>6 DEF Pause, Crash, PointOK, NoRun
  <2>1. run' \in Runs /\ PointOK'
    BY <2>1a, <2>1b
  <2>2. stops' \in 0..MaxStops
    BY <1>0, <1>6 DEF Pause, Crash
  <2>q. QED BY <1>0, <1>6, <2>1, <2>2, Frame DEF Pause, Crash, Rows
<1>7. CASE PauseUnattended
  <2>1. stops' \in 0..MaxStops
    BY <1>0, <1>7 DEF PauseUnattended
  <2>q. QED BY <1>0, <1>7, <2>1, Frame DEF PauseUnattended, Rows, PointOK, Plan
<1>8. CASE Resume
  BY <1>0, <1>8, Frame DEF Resume, Rows, PointOK, Plan, durable, files
<1>9. CASE UNCHANGED vars
  BY <1>0, <1>9, Frame DEF vars, PointOK, Plan, durable, files
<1>q. QED BY <1>1, <1>2, <1>3, <1>4, <1>5, <1>6, <1>7, <1>8, <1>9,
             TypeAcquire, TypeExport, TypePublish DEF Next, Step

(* Every variable of a job's run keeps its type. *)
THEOREM RunTypeCorrect == Spec => []TypeOK
<1>1. TypeInv => TypeOK
  BY DEF TypeInv
<1>q. QED BY TypeInit, TypeStep, <1>1, PTL DEF Spec

-----------------------------------------------------------------------------
(* Kinds. *)

LEMMA KindsInit == Init => KindsInv
BY DEF Init, KindsInv, NoRun, NoReport, RowOK, Acquiring, KindsDone, Settled

(* The loop over the chosen kinds has been through all of them. *)
LEMMA AllKinds ==
  ASSUME TypeInv, KindsInv, run.at = "kinds", run.next > Len(Chosen)
  PROVE  Settled(run.acquired, run.failed)
<1>1. run.next \in 1..Len(Chosen) + 1 /\ Len(Chosen) \in Nat
  BY RunAssumption DEF TypeInv, TypeOK, Runs
<1>2. run.next - 1 = Len(Chosen)
  BY <1>1
<1>q. QED BY <1>2 DEF KindsInv, Settled, Kinds

LEMMA KindsAcquire ==
  ASSUME TypeInv, KindsInv, Acquire
  PROVE  KindsInv'
<1>0. run \in Runs /\ PointOK /\ checkpoint \in Checkpoints /\ Len(Chosen) \in Nat
  BY RunAssumption DEF TypeInv, TypeOK
<1> USE <1>0 DEF At, KindsInv, RowOK, Points, Acquiring, KindsDone, Runs, Checkpoints, durable, files
<1>1. CASE SkipKind
  BY <1>1 DEF SkipKind, Kind
<1>2. CASE BeginFetch
  BY <1>2 DEF BeginFetch, Kind
<1>3. ASSUME NEW f \in Files, Fetch(f) PROVE KindsInv'
  BY <1>3 DEF Fetch, Kind
<1>4. CASE EndFetch
  BY <1>4 DEF EndFetch, Kind, PointOK
<1>5. CASE FetchFails
  BY <1>5 DEF FetchFails, Kind, PointOK
<1>6. CASE SaveKind
  <2>1. run'.next - 1 = run.next
    BY <1>6 DEF SaveKind
  <2>q. QED BY <1>6, <2>1 DEF SaveKind, Saved
<1>7. CASE EndKinds
  <2>1. CASE run.sources = {}
    BY <1>7, <2>1 DEF EndKinds, Goto
  <2>2. CASE run.sources # {}
    <3>1. Settled(run.acquired, run.failed)
      BY <1>7, AllKinds DEF EndKinds
    <3>2. /\ run'.at = "sources" /\ run'.acquired = run.acquired /\ run'.failed = run.failed
      <4>1. run' = [run EXCEPT !.at = "sources", !.pending = run.sources]
        BY <1>7, <2>2 DEF EndKinds
      <4>q. QED BY <4>1
    <3>3. /\ checkpoint'.stage = "acquired" /\ checkpoint'.acquired = run.acquired
          /\ checkpoint'.failed = run.failed
      BY <1>7, <2>2, SavedFields DEF EndKinds
    <3>q. QED BY <1>7, <3>1, <3>2, <3>3 DEF EndKinds
  <2>q. QED BY <2>1, <2>2
<1>q. QED BY <1>1, <1>2, <1>3, <1>4, <1>5, <1>6, <1>7 DEF Acquire

LEMMA KindsExport ==
  ASSUME TypeInv, KindsInv, Export
  PROVE  KindsInv'
<1>0. run \in Runs /\ checkpoint \in Checkpoints
  BY DEF TypeInv, TypeOK
<1> USE <1>0 DEF At, KindsInv, RowOK, Points, Acquiring, KindsDone, Runs, Checkpoints, durable, files
<1>1. CASE NextSource
  BY <1>1 DEF NextSource
<1>2. CASE SkipOperation
  BY <1>2 DEF SkipOperation, AtOperation
<1>3. CASE Operate
  BY <1>3 DEF Operate, AtOperation, Goto
<1>4. CASE OperationFails
  BY <1>4 DEF OperationFails, AtOperation
<1>5. CASE SaveOperation
  BY <1>5 DEF SaveOperation, Saved
<1>6. CASE EndSource
  BY <1>6 DEF EndSource
<1>7. CASE EndSources
  BY <1>7 DEF EndSources, Saved, Goto
<1>q. QED BY <1>1, <1>2, <1>3, <1>4, <1>5, <1>6, <1>7 DEF Export

LEMMA KindsPublish ==
  ASSUME TypeInv, KindsInv, Publish
  PROVE  KindsInv'
<1>0. run \in Runs /\ checkpoint \in Checkpoints
  BY DEF TypeInv, TypeOK
<1> USE <1>0 DEF At, KindsInv, RowOK, Points, Acquiring, KindsDone, Runs, Checkpoints, durable, files
<1>1. CASE SaveValidating
  BY <1>1 DEF SaveValidating, Saved, Goto
<1>2. CASE Validate
  BY <1>2 DEF Validate
<1>3. CASE SavePublishing
  BY <1>3 DEF SavePublishing, Saved, Goto
<1>4. CASE SetPublishing
  BY <1>4 DEF SetPublishing
<1>5. ASSUME NEW a \in Artifacts, Copy(a) \/ CopyFails(a) PROVE KindsInv'
  BY <1>5 DEF Copy, CopyFails, Kind
<1>6. CASE EndCopy
  BY <1>6 DEF EndCopy, Goto
<1>7. CASE Complete
  BY <1>7 DEF Complete, Goto
<1>8. CASE Report
  BY <1>8 DEF Report, NoRun
<1>q. QED BY <1>1, <1>2, <1>3, <1>4, <1>5, <1>6, <1>7, <1>8 DEF Publish

LEMMA KindsStep == TypeInv /\ KindsInv /\ [Next]_vars => KindsInv'
<1> SUFFICES ASSUME TypeInv, KindsInv, [Next]_vars PROVE KindsInv'
  OBVIOUS
<1>0. run \in Runs /\ checkpoint \in Checkpoints
  BY DEF TypeInv, TypeOK
<1> USE <1>0 DEF At, KindsInv, RowOK, Points, Acquiring, KindsDone, Runs, Checkpoints, durable, files
<1>1. CASE Claim
  BY <1>1 DEF Claim, NoRun
<1>2. CASE Restore
  BY <1>2 DEF Restore
<1>3. CASE Discover
  BY <1>3 DEF Discover, Stages
<1>4. CASE DiscoverFails
  BY <1>4 DEF DiscoverFails, Goto
<1>5. CASE Fail
  BY <1>5 DEF Fail, NoRun
<1>6. CASE Pause \/ Crash
  BY <1>6 DEF Pause, Crash, NoRun, Stoppable
<1>7. CASE PauseUnattended \/ Resume
  BY <1>7 DEF PauseUnattended, Resume, Kind
<1>8. CASE UNCHANGED vars
  BY <1>8 DEF vars, Kind
<1>q. QED BY <1>1, <1>2, <1>3, <1>4, <1>5, <1>6, <1>7, <1>8,
             KindsAcquire, KindsExport, KindsPublish DEF Next, Step

(* The kinds of a completed job are settled and its report names those     *)
(* that were not acquired (_run, kinds loop and job.completed).            *)
THEOREM KindsSettled == Spec => []KindsAreSettled
<1>1. TypeInv /\ KindsInv => KindsAreSettled
  <2> SUFFICES ASSUME TypeInv, KindsInv PROVE KindsAreSettled
    OBVIOUS
  <2>1. checkpoint.acquired \cup checkpoint.failed \subseteq Kinds
    BY DEF TypeInv, TypeOK, Checkpoints
  <2>q. QED BY <2>1 DEF KindsInv, KindsAreSettled, Settled
<1>q. QED BY TypeInit, TypeStep, KindsInit, KindsStep, <1>1, PTL DEF Spec

(* No provider is asked for a kind that the checkpoint has, in any run of  *)
(* the job (_kind_already_acquired).                                       *)
THEOREM AcquiredOnce == Spec => []AcquiredIsNotFetched
<1>1. KindsInv => AcquiredIsNotFetched
  BY DEF KindsInv, AcquiredIsNotFetched, At, Acquiring
<1>q. QED BY TypeInit, TypeStep, KindsInit, KindsStep, <1>1, PTL DEF Spec

-----------------------------------------------------------------------------
(* Artifacts. *)

LEMMA SameWork ==
  ASSUME UNCHANGED intent,
         checkpoint'.sources = checkpoint.sources, checkpoint'.done = checkpoint.done
  PROVE  Work' = Work /\ Passing' = Passing
BY DEF Work, Passing, Publishable, Wanted

LEMMA MoreWork ==
  ASSUME checkpoint.sources \subseteq checkpoint'.sources,
         checkpoint.done \subseteq checkpoint'.done
  PROVE  Work \subseteq Work'
BY DEF Work

LEMMA NoFileOutside == TypeInv => NoFile \notin run.sources
BY RunAssumption DEF TypeInv, TypeOK, Runs

LEMMA WorkInit == Init => WorkInv
BY DEF Init, WorkInv, StageOK, HeldOK, DeliveredOK, NoRun, Acquiring, KindsDone

LEMMA WorkAcquire ==
  ASSUME TypeInv, KindsInv, WorkInv, Acquire
  PROVE  WorkInv'
<1>0. run \in Runs /\ checkpoint \in Checkpoints /\ RowOK
  BY DEF TypeInv, TypeOK, KindsInv
<1> USE <1>0 DEF At, WorkInv, StageOK, HeldOK, DeliveredOK, RowOK, Points, Acquiring, KindsDone,
                 Runs, Checkpoints, durable, files
<1>1. CASE SkipKind
  BY <1>1, SameWork DEF SkipKind
<1>2. CASE BeginFetch
  BY <1>2, SameWork DEF BeginFetch
<1>3. ASSUME NEW f \in Files, Fetch(f) PROVE WorkInv'
  BY <1>3, SameWork DEF Fetch
<1>4. CASE EndFetch
  BY <1>4, SameWork DEF EndFetch
<1>5. CASE FetchFails
  BY <1>5, SameWork DEF FetchFails
<1>6. CASE SaveKind
  <2>1. /\ checkpoint'.stage = "acquiring" /\ checkpoint'.sources = run.sources
        /\ checkpoint'.done = checkpoint.done /\ checkpoint'.produced = checkpoint.produced
    BY <1>6, SavedFields DEF SaveKind
  <2>2. Work \subseteq Work'
    BY <1>6, <2>1, MoreWork DEF SaveKind
  <2>q. QED BY <1>6, <2>1, <2>2 DEF SaveKind
<1>7. CASE EndKinds
  <2>1. CASE run.sources = {}
    BY <1>7, <2>1, SameWork DEF EndKinds, Goto
  <2>2. CASE run.sources # {}
    <3>1. /\ checkpoint'.stage = "acquired" /\ checkpoint'.sources = run.sources
          /\ checkpoint'.done = checkpoint.done /\ checkpoint'.produced = checkpoint.produced
      BY <1>7, <2>2, SavedFields DEF EndKinds
    <3>2. Work \subseteq Work'
      BY <1>7, <3>1, MoreWork DEF EndKinds
    <3>3. run' = [run EXCEPT !.at = "sources", !.pending = run.sources]
      BY <1>7, <2>2 DEF EndKinds
    <3>q. QED BY <1>7, <2>2, <3>1, <3>2, <3>3 DEF EndKinds
  <2>q. QED BY <2>1, <2>2
<1>q. QED BY <1>1, <1>2, <1>3, <1>4, <1>5, <1>6, <1>7 DEF Acquire

LEMMA WorkExport ==
  ASSUME TypeInv, KindsInv, WorkInv, Export
  PROVE  WorkInv'
<1>0. run \in Runs /\ checkpoint \in Checkpoints /\ RowOK /\ PointOK
  BY DEF TypeInv, TypeOK, KindsInv
<1> USE <1>0 DEF At, WorkInv, StageOK, HeldOK, DeliveredOK, RowOK, Points, Acquiring, KindsDone,
                 Runs, Checkpoints, durable, files
<1>1. CASE NextSource
  <2>1. Work' = Work /\ Passing' = Passing
    BY <1>1, SameWork DEF NextSource
  <2>2. PICK f \in run.pending :
          run' = [run EXCEPT !.at = "operations", !.pending = @ \ {f},
                             !.file = f, !.op = 1, !.bad = {}]
    BY <1>1 DEF NextSource
  <2>3. /\ run'.at = "operations" /\ run'.pending = run.pending \ {f} /\ run'.file = f
        /\ run'.sources = run.sources /\ run'.produced = run.produced
    BY <2>2
  <2>4. \A g \in run'.sources \ (run'.pending \cup {run'.file}) : Original(g) \in run'.produced
    BY <1>1, <2>3, NoFileOutside DEF NextSource
  <2>q. QED BY <1>1, <2>1, <2>3, <2>4 DEF NextSource
<1>2. CASE SkipOperation
  BY <1>2, SameWork DEF SkipOperation, AtOperation
<1>3. CASE Operate
  BY <1>3, SameWork DEF Operate, AtOperation, Goto
<1>4. CASE OperationFails
  BY <1>4, SameWork DEF OperationFails, AtOperation
<1>5. CASE SaveOperation
  <2>1. /\ checkpoint'.stage = "exporting" /\ checkpoint'.sources = run.sources
        /\ checkpoint'.done = checkpoint.done \cup {Output}
        /\ checkpoint'.produced \subseteq
             checkpoint.produced \cup {Original(f) : f \in run.sources} \cup {Output}
    BY <1>5, SavedFields DEF SaveOperation, Saved
  <2>2. Work' = Work \cup {Output} /\ {Original(f) : f \in run.sources} \subseteq Work
    BY <1>5, <2>1 DEF SaveOperation, Work
  <2>q. QED BY <1>5, <2>1, <2>2 DEF SaveOperation
<1>6. CASE EndSource
  <2>1. Original(run.file) \in Work /\ checkpoint.done \subseteq Work
    BY <1>6 DEF EndSource, Work
  <2>q. QED BY <1>6, <2>1, SameWork DEF EndSource
<1>7. CASE EndSources
  <2>1. /\ checkpoint'.stage = "exported" /\ checkpoint'.sources = run.sources
        /\ checkpoint'.done = checkpoint.done /\ checkpoint'.produced = run.produced
    BY <1>7, SavedFields DEF EndSources, Saved
  <2>2. Work' = Work /\ Passing' = Passing
    BY <1>7, <2>1, SameWork DEF EndSources
  <2>3. Work \subseteq run.produced
    <3>1. \A f \in run.sources : Original(f) \in run.produced
      BY <1>7, NoFileOutside DEF EndSources
    <3>2. checkpoint.done \subseteq run.produced
      BY <1>7 DEF EndSources
    <3>q. QED BY <1>7, <3>1, <3>2 DEF EndSources, Work
  <2>4. Passing \subseteq Work
    BY DEF Passing
  <2>q. QED BY <1>7, <2>1, <2>2, <2>3, <2>4 DEF EndSources, Goto
<1>q. QED BY <1>1, <1>2, <1>3, <1>4, <1>5, <1>6, <1>7 DEF Export

LEMMA WorkPublish ==
  ASSUME TypeInv, KindsInv, WorkInv, Publish
  PROVE  WorkInv'
<1>0. run \in Runs /\ checkpoint \in Checkpoints /\ RowOK
  BY DEF TypeInv, TypeOK, KindsInv
<1>p. Passing \subseteq Work /\ \A a \in Passing : a \notin Broken
  BY DEF Passing, Publishable
<1> USE <1>0 DEF At, WorkInv, StageOK, HeldOK, DeliveredOK, RowOK, Points, Acquiring, KindsDone,
                 Runs, Checkpoints, durable, files
<1>1. CASE SaveValidating
  <2>1. /\ checkpoint'.stage = "validating" /\ checkpoint'.sources = run.sources
        /\ checkpoint'.done = checkpoint.done /\ checkpoint'.produced = run.produced
    BY <1>1, SavedFields DEF SaveValidating, Saved
  <2>q. QED BY <1>1, <2>1, SameWork DEF SaveValidating, Goto
<1>2. CASE Validate
  <2> DEFINE passed == {a \in run.produced : Publishable(a)}
  <2>1. passed = Passing
    BY <1>2 DEF Validate, Passing
  <2>2. run'.produced = Passing /\ run'.sources = run.sources /\ run'.at \in {"fail", "publish"}
    BY <1>2, <2>1 DEF Validate
  <2>q. QED BY <1>2, <2>2, SameWork, <1>p DEF Validate
<1>3. CASE SavePublishing
  <2>1. /\ checkpoint'.stage = "publishing" /\ checkpoint'.sources = run.sources
        /\ checkpoint'.done = checkpoint.done /\ checkpoint'.produced = run.produced
    BY <1>3, SavedFields DEF SavePublishing, Saved
  <2>q. QED BY <1>3, <2>1, <1>p, SameWork DEF SavePublishing, Goto
<1>4. CASE SetPublishing
  <2>1. run'.at = "copy" /\ run'.sources = run.sources /\ run'.produced = run.produced
    BY <1>4 DEF SetPublishing
  <2>q. QED BY <1>4, <2>1, SameWork DEF SetPublishing
<1>5. ASSUME NEW a \in Artifacts, Copy(a) PROVE WorkInv'
  <2>1. a \in Passing
    BY <1>5 DEF Copy, Uncopied
  <2>2. \A p \in placed' : p.artifact \notin Broken
    BY <1>5, <2>1, <1>p DEF Copy
  <2>q. QED BY <1>5, <2>1, <2>2, SameWork DEF Copy
<1>6. ASSUME NEW a \in Artifacts, CopyFails(a) PROVE WorkInv'
  BY <1>6, SameWork DEF CopyFails, Uncopied
<1>7. CASE EndCopy
  <2>1. Passing \subseteq delivered \cup spoiled
    BY <1>7 DEF EndCopy, Uncopied
  <2>q. QED BY <1>7, <2>1, SameWork DEF EndCopy, Goto
<1>8. CASE Complete
  BY <1>8, SameWork DEF Complete, Goto
<1>9. CASE Report
  BY <1>9, SameWork DEF Report, NoRun
<1>q. QED BY <1>1, <1>2, <1>3, <1>4, <1>5, <1>6, <1>7, <1>8, <1>9 DEF Publish

LEMMA WorkStep == TypeInv /\ KindsInv /\ WorkInv /\ [Next]_vars => WorkInv'
<1> SUFFICES ASSUME TypeInv, KindsInv, WorkInv, [Next]_vars PROVE WorkInv'
  OBVIOUS
<1>0. run \in Runs /\ checkpoint \in Checkpoints /\ RowOK
  BY DEF TypeInv, TypeOK, KindsInv
<1> USE <1>0 DEF At, WorkInv, StageOK, HeldOK, DeliveredOK, RowOK, Points, Acquiring, KindsDone,
                 Runs, Checkpoints, durable, files
<1>1. CASE Claim
  BY <1>1, SameWork DEF Claim, NoRun
<1>2. CASE Restore
  BY <1>2, SameWork DEF Restore
<1>3. CASE Discover
  BY <1>3, SameWork DEF Discover, Stages
<1>4. CASE DiscoverFails
  BY <1>4, SameWork DEF DiscoverFails, Goto
<1>5. CASE Fail
  BY <1>5, SameWork DEF Fail, NoRun
<1>6. CASE Pause \/ Crash
  BY <1>6, SameWork DEF Pause, Crash, NoRun
<1>7. CASE PauseUnattended \/ Resume
  BY <1>7, SameWork DEF PauseUnattended, Resume
<1>8. CASE UNCHANGED vars
  BY <1>8, SameWork DEF vars
<1>q. QED BY <1>1, <1>2, <1>3, <1>4, <1>5, <1>6, <1>7, <1>8,
             WorkAcquire, WorkExport, WorkPublish DEF Next, Step

(* Nothing at the destination of a job fails validation, whatever was      *)
(* restored from a checkpoint (validate_artifact before publish_artifacts).*)
THEOREM PublishedIsValid == Spec => []OnlyValidated
<1>1. WorkInv => OnlyValidated
  BY DEF WorkInv, DeliveredOK, OnlyValidated
<1>q. QED BY TypeInit, TypeStep, KindsInit, KindsStep, WorkInit, WorkStep, <1>1, PTL DEF Spec

(* A completed job has delivered what its checkpoint records, short of     *)
(* failed copies, after any number of pauses and crashes.                  *)
THEOREM RecordedIsDelivered == Spec => []NothingLost
<1>1. WorkInv => NothingLost
  BY DEF WorkInv, DeliveredOK, NothingLost, Passing
<1>q. QED BY TypeInit, TypeStep, KindsInit, KindsStep, WorkInit, WorkStep, <1>1, PTL DEF Spec

-----------------------------------------------------------------------------
(* A run keeps the promise of DurableWork. *)

LEMMA PromiseInit == Init => Promise!Init
BY DEF Init, Promise!Init, Deliverable, Status, Work

(* Steps that neither record nor deliver nor close. *)
LEMMA QuietStep ==
  ASSUME UNCHANGED <<intent, delivered>>, Work' = Work, Status' = Status
  PROVE  UNCHANGED Promise!vars
<1>1. Deliverable' = Deliverable
  BY DEF Deliverable, Publishable, Wanted
<1>q. QED BY <1>1 DEF Promise!vars

(* Steps that record. *)
LEMMA KeepStep ==
  ASSUME TypeInv', KindsInv, WorkInv, row = "active", Work \subseteq Work',
         UNCHANGED <<intent, row, delivered>>
  PROVE  Promise!Next
<1>1. Deliverable' = Deliverable
  BY DEF Deliverable, Publishable, Wanted
<1>2. Status = "open" /\ Status' = "open" /\ delivered = {}
  BY DEF Status, WorkInv, DeliveredOK
<1>3. Work' \subseteq Artifacts
  BY DEF Work, TypeInv, TypeOK, Checkpoints, Original, Artifacts, Operations
<1>q. QED BY <1>1, <1>2, <1>3 DEF Promise!Next, Promise!Keep

LEMMA PromiseAcquire ==
  ASSUME TypeInv, TypeInv', KindsInv, WorkInv, Acquire
  PROVE  [Promise!Next]_Promise!vars
<1>0. checkpoint \in Checkpoints
  BY DEF TypeInv, TypeOK
<1>1. CASE \/ SkipKind \/ BeginFetch \/ EndFetch \/ FetchFails
           \/ \E f \in Files : Fetch(f)
  BY <1>1, SameWork, QuietStep
     DEF SkipKind, BeginFetch, EndFetch, FetchFails, Fetch, durable, files, Status
<1>2. CASE SaveKind
  <2>1. checkpoint.sources \subseteq checkpoint'.sources /\ checkpoint'.done = checkpoint.done
    BY <1>0, <1>2, SavedFields DEF SaveKind, At, WorkInv, HeldOK, Acquiring
  <2>2. row = "active"
    BY <1>2 DEF SaveKind, At, KindsInv, RowOK, Points
  <2>q. QED BY <1>2, <2>1, <2>2, MoreWork, KeepStep DEF SaveKind, durable, files
<1>3. CASE EndKinds
  <2>1. checkpoint.sources \subseteq checkpoint'.sources /\ checkpoint'.done = checkpoint.done
    BY <1>0, <1>3, SavedFields DEF EndKinds, At, WorkInv, HeldOK, Acquiring
  <2>2. row = "active"
    BY <1>3 DEF EndKinds, At, KindsInv, RowOK, Points
  <2>q. QED BY <1>3, <2>1, <2>2, MoreWork, KeepStep DEF EndKinds, durable, files
<1>q. QED BY <1>1, <1>2, <1>3 DEF Acquire

LEMMA PromiseExport ==
  ASSUME TypeInv, TypeInv', KindsInv, WorkInv, Export
  PROVE  [Promise!Next]_Promise!vars
<1>0. checkpoint \in Checkpoints
  BY DEF TypeInv, TypeOK
<1>1. CASE NextSource \/ SkipOperation \/ Operate \/ OperationFails \/ EndSource
  BY <1>1, SameWork, QuietStep
     DEF NextSource, SkipOperation, Operate, OperationFails, EndSource, durable, files, Status
<1>2. CASE SaveOperation
  <2>1. checkpoint.sources = checkpoint'.sources /\ checkpoint.done \subseteq checkpoint'.done
    BY <1>0, <1>2, SavedFields
       DEF SaveOperation, At, WorkInv, HeldOK, KindsDone, Saved, Checkpoints
  <2>2. row = "active"
    BY <1>2 DEF SaveOperation, At, KindsInv, RowOK, Points
  <2>q. QED BY <1>2, <2>1, <2>2, MoreWork, KeepStep DEF SaveOperation, durable, files
<1>3. CASE EndSources
  <2>1. checkpoint'.sources = checkpoint.sources /\ checkpoint'.done = checkpoint.done
    BY <1>0, <1>3, SavedFields
       DEF EndSources, At, WorkInv, HeldOK, KindsDone, Saved, Checkpoints
  <2>q. QED BY <1>3, <2>1, SameWork, QuietStep DEF EndSources, durable, files, Status
<1>q. QED BY <1>1, <1>2, <1>3 DEF Export

LEMMA PromisePublish ==
  ASSUME TypeInv, TypeInv', KindsInv, WorkInv, Publish
  PROVE  [Promise!Next]_Promise!vars
<1>0. checkpoint \in Checkpoints
  BY DEF TypeInv, TypeOK
<1>1. CASE Validate \/ EndCopy \/ Report \/ \E a \in Artifacts : CopyFails(a)
  BY <1>1, SameWork, QuietStep DEF Validate, EndCopy, Report, CopyFails, durable, files, Status
<1>2. CASE SaveValidating \/ SavePublishing
  <2>1. checkpoint'.sources = checkpoint.sources /\ checkpoint'.done = checkpoint.done
    BY <1>0, <1>2, SavedFields
       DEF SaveValidating, SavePublishing, At, WorkInv, HeldOK, KindsDone, Saved, Checkpoints
  <2>q. QED BY <1>2, <2>1, SameWork, QuietStep
            DEF SaveValidating, SavePublishing, durable, files, Status
<1>3. CASE SetPublishing
  <2>1. row = "active"
    BY <1>3 DEF SetPublishing, At, KindsInv, RowOK, Points
  <2>q. QED BY <1>3, <2>1, SameWork, QuietStep DEF SetPublishing, durable, files, Status
<1>4. ASSUME NEW a \in Artifacts, Copy(a) PROVE Promise!Next
  <2>1. a \in (Work \cap Deliverable) \ delivered
    BY <1>4 DEF Copy, Uncopied, At, WorkInv, HeldOK, Passing, Deliverable
  <2>2. Status = "open"
    BY <1>4 DEF Copy, At, KindsInv, RowOK, Status
  <2>3. Deliverable' = Deliverable /\ Work' = Work /\ Status' = Status
    BY <1>4, SameWork DEF Copy, Deliverable, Publishable, Wanted, Status
  <2>q. QED BY <1>4, <2>1, <2>2, <2>3 DEF Copy, Promise!Next, Promise!Deliver
<1>5. CASE Complete
  <2>1. Status = "open" /\ Status' = "done" /\ delivered # {}
    BY <1>5 DEF Complete, At, KindsInv, RowOK, WorkInv, DeliveredOK, Status
  <2>2. Deliverable' = Deliverable /\ Work' = Work
    BY <1>5, SameWork DEF Complete, durable, files, Deliverable, Publishable, Wanted
  <2>q. QED BY <1>5, <2>1, <2>2
            DEF Complete, durable, files, Promise!Next, Promise!Finish, Promise!Close
<1>q. QED BY <1>1, <1>2, <1>3, <1>4, <1>5 DEF Publish

LEMMA PromiseStep ==
  TypeInv /\ TypeInv' /\ KindsInv /\ WorkInv /\ [Next]_vars => [Promise!Next]_Promise!vars
<1> SUFFICES ASSUME TypeInv, TypeInv', KindsInv, WorkInv, [Next]_vars
             PROVE  [Promise!Next]_Promise!vars
  OBVIOUS
<1>1. CASE Claim \/ Restore \/ Discover \/ DiscoverFails
  BY <1>1, SameWork, QuietStep
     DEF Claim, Restore, Discover, DiscoverFails, durable, files, Status
<1>2. CASE Fail
  <2>1. Status = "open" /\ Status' = "dead" /\ delivered = {}
    BY <1>2 DEF Fail, At, KindsInv, RowOK, WorkInv, DeliveredOK, Status
  <2>2. Deliverable' = Deliverable /\ Work' = Work
    BY <1>2, SameWork DEF Fail, durable, files, Deliverable, Publishable, Wanted
  <2>q. QED BY <1>2, <2>1, <2>2
            DEF Fail, durable, files, Promise!Next, Promise!GiveUp, Promise!Close
<1>3. CASE Pause \/ Crash \/ PauseUnattended \/ Resume
  BY <1>3, SameWork, QuietStep DEF Pause, Crash, PauseUnattended, Resume, durable, files, Status
<1>4. CASE UNCHANGED vars
  BY <1>4, SameWork, QuietStep DEF vars, Status
<1>q. QED BY <1>1, <1>2, <1>3, <1>4,
             PromiseAcquire, PromiseExport, PromisePublish DEF Next, Step

(* Every run of a job, stopped and resumed as it may be, implements the    *)
(* promise: recorded work is never taken back, only recorded work is       *)
(* delivered, and delivery closes the job.                                 *)
THEOREM RunImplementsPromise == Spec => PromiseKept
<1>q. QED BY TypeInit, TypeStep, KindsInit, KindsStep, WorkInit, WorkStep,
             PromiseInit, PromiseStep, PTL DEF Spec, PromiseKept, Promise!Spec
=============================================================================
