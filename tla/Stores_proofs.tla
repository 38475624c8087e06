----------------------------- MODULE Stores_proofs -----------------------------
(***************************************************************************)
(* The stores that several processes share, for any number of processes,   *)
(* grants, jobs, files, registrations and crashes: a grant whose issue     *)
(* returned stays in the file; what is in the index of the artifacts only  *)
(* grows, and the index follows the memory of the process that writes it.  *)
(*                                                                         *)
(* IssuedIsKept is not inductive: Replace writes what Merge read, so the   *)
(* invariant says that an issue which has merged holds the lock and is     *)
(* about to write all the file holds and its own grant.                    *)
(*                                                                         *)
(* Neither are MergeKeeps and IndexFollowsMemory: Save writes records as   *)
(* they were when the lock was taken or as they are now, and a merge       *)
(* starts from a record that was read before the copy.  StoreInv says that *)
(* both are at least what the index holds, and that a call which has       *)
(* merged after the lock was taken is going to save once more.             *)
(***************************************************************************)
EXTENDS CookieGrants, ArtifactStore, TLAPS

Typed ==
    /\ up \in SUBSET Procs
    /\ grants \in [Procs -> SUBSET Grants] /\ merged \in [Grants -> SUBSET Grants]
    /\ store \in SUBSET Grants
    /\ lock \in Grants \cup {None}
    /\ issue \in [Grants -> {"new", "made", "merged", "issued", "lost"}]

MergedIsLocked == \A g \in Grants : issue[g] = "merged" => lock = g
MergedIsComplete ==
    \A g \in Grants : issue[g] = "merged" => g \in merged[g] /\ store \subseteq merged[g]
MadeIsHeld ==
    \A g \in Grants :
        /\ issue[g] \in {"made", "merged"} => IssuerOf[g] \in up
        /\ issue[g] = "made" => g \in grants[IssuerOf[g]]

Inv == Typed /\ MergedIsLocked /\ MergedIsComplete /\ MadeIsHeld /\ IssuedIsKept

LEMMA InitInv == Init => Inv
BY ConstantsAssumption DEF Init, Inv, Typed, MergedIsLocked, MergedIsComplete, MadeIsHeld, IssuedIsKept

LEMMA StepInv ==
    ASSUME Inv, Next PROVE Inv'
<1> USE ConstantsAssumption DEF Inv, Typed, MergedIsLocked, MergedIsComplete, MadeIsHeld, IssuedIsKept
<1>1. ASSUME NEW p \in Procs, Start(p) PROVE Inv'
  BY <1>1 DEF Start
<1>2. ASSUME NEW p \in Procs, Crash(p) PROVE Inv'
  BY <1>2 DEF Crash
<1>3. ASSUME NEW g \in Grants, Issue(g) PROVE Inv'
  BY <1>3 DEF Issue
<1>4. ASSUME NEW g \in Grants, Merge(g) PROVE Inv'
  BY <1>4 DEF Merge
<1>5. ASSUME NEW g \in Grants, Replace(g) PROVE Inv'
  BY <1>5 DEF Replace
<1>6. ASSUME NEW f \in Files, Change(f) PROVE Inv'
  BY <1>6 DEF Change
<1>7. ASSUME NEW p \in Procs, NEW g \in Grants, NEW j \in Jobs, Resolve(p, g, j) PROVE Inv'
  BY <1>7 DEF Resolve
<1> QED BY <1>1, <1>2, <1>3, <1>4, <1>5, <1>6, <1>7 DEF Next

LEMMA NextInv == Inv /\ [Next]_vars => Inv'
<1>1. Inv /\ UNCHANGED vars => Inv'
  BY DEF Inv, Typed, MergedIsLocked, MergedIsComplete, MadeIsHeld, IssuedIsKept, vars
<1> QED BY <1>1, StepInv

\* A grant whose issue returned stays in the file, whatever other processes issue
\* at the same time and whenever they die (_save merges under the lock).
THEOREM IssuedKept == Spec => []IssuedIsKept
<1>1. Inv => IssuedIsKept
  BY DEF Inv
<1> QED BY <1>1, InitInv, NextInv, PTL DEF Spec

-----------------------------------------------------------------------------
(* ArtifactStore *)

Records == Artifacts \cup {None}
Indexes == [Digests -> Records]

StoreTyped ==
    /\ running \in SUBSET Pipelines
    /\ records \in [Pipelines -> Indexes] /\ index \in Indexes
    /\ indexLock \in Calls \cup {None}
    /\ at \in [Calls -> {"new", "copy", "copying", "merge", "save", "locked", "done"}]
    /\ existing \in [Calls -> Records] /\ dump \in [Calls -> Indexes]
    /\ raced \in SUBSET Digests /\ shared \in BOOLEAN

\* A call is made by a process that runs, and a call that writes has the lock.
CallsRun ==
    \A c \in Calls : /\ Busy(c) => CallerOf[c] \in running
                     /\ at[c] = "locked" => indexLock = c

\* Two calls that register the same digest at once have raced.
OverlapIsRaced ==
    \A b, c \in Calls : Busy(b) /\ Busy(c) /\ b # c /\ DigestOf[b] = DigestOf[c]
                          => DigestOf[c] \in raced

\* A process that is not alone began while another ran.
AloneUnlessShared == ~shared => \A p, q \in running : p = q

\* Before it merges, a call still holds the record of its digest.
FoundIsCurrent ==
    ~shared => \A c \in Calls :
        at[c] \in {"copy", "copying", "merge"} /\ DigestOf[c] \notin raced
          => existing[c] = records[CallerOf[c]][DigestOf[c]]

\* The memory is ahead of the index, and between them is what is being written.
MemoryIsAhead ==
    ~shared => \A d \in Digests \ raced :
        /\ \A p \in running : Grows(index[d], records[p][d])
        /\ \A c \in Calls : at[c] = "locked" =>
             Grows(index[d], dump[c][d]) /\ Grows(dump[c][d], records[CallerOf[c]][d])

\* What has been merged is in the index, or a call is yet to save it.
Unsaved == \E c \in Calls : at[c] \in {"save", "locked"}
MergedIsSaved ==
    ~shared =>
        /\ Unsaved \/ \A p \in running : index = records[p]
        /\ \A c \in Calls : at[c] = "locked" =>
             dump[c] = records[CallerOf[c]] \/ \E b \in Calls : at[b] = "save"

StoreInv ==
    /\ StoreTyped /\ CallsRun /\ OverlapIsRaced /\ AloneUnlessShared
    /\ FoundIsCurrent /\ MemoryIsAhead /\ MergedIsSaved

LEMMA GrowsItself == \A r : Grows(r, r)
BY DEF Grows

LEMMA GrowsOn == \A r, q, t : Grows(r, q) /\ Grows(q, t) => Grows(r, t)
BY DEF Grows

LEMMA StoreInitInv == StoreInit => StoreInv
<1> SUFFICES ASSUME StoreInit PROVE StoreInv
  OBVIOUS
<1>1. StoreTyped
  BY StoreAssumption DEF StoreInit, StoreTyped, Indexes, Records, Empty
<1>2. CallsRun /\ OverlapIsRaced /\ AloneUnlessShared /\ FoundIsCurrent
  BY DEF StoreInit, CallsRun, OverlapIsRaced, AloneUnlessShared, FoundIsCurrent, Busy
<1>3. MemoryIsAhead /\ MergedIsSaved
  BY DEF StoreInit, MemoryIsAhead, MergedIsSaved
<1> QED BY <1>1, <1>2, <1>3 DEF StoreInv

\* What MergeRecord puts in the place of the record it found.
MergedRecord(c) == IF existing[c] = None THEN Fresh(c) ELSE Merged(existing[c], c)

\* A merge yields a record, and loses nothing of the one it began with.
LEMMA MergedIsRecord ==
    ASSUME StoreTyped, NEW c \in Calls
    PROVE  MergedRecord(c) \in Artifacts /\ Grows(existing[c], MergedRecord(c))
<1>1. CASE existing[c] = None
  BY <1>1, StoreAssumption DEF StoreTyped, MergedRecord, Fresh, Artifacts, Grows
<1>2. CASE existing[c] # None
  <2> DEFINE r == existing[c]
             role == IF "source" \in {r.role, RoleOf[c]} THEN "source" ELSE r.role
             new == [role |-> role, parents |-> r.parents \cup ParentsOf[c],
                     occurrences |-> r.occurrences \cup {c}]
  <2>1. r \in Artifacts
    BY <1>2 DEF StoreTyped, Records
  <2>2. MergedRecord(c) = new
    BY <1>2, <2>1 DEF MergedRecord, Merged, Artifacts
  <2>3. new \in Artifacts
    BY <2>1, StoreAssumption DEF Artifacts
  <2>4. Grows(r, new)
    BY <2>1, <2>3, StoreAssumption DEF Grows, Artifacts
  <2> QED BY <2>2, <2>3, <2>4
<1> QED BY <1>1, <1>2

\* What a call writes is an index, made of what it found and of what there is.
LEMMA WrittenIsBetween ==
    ASSUME StoreTyped, NEW c \in Calls, NEW new \in Written(c)
    PROVE  /\ new \in Indexes
           /\ \A d \in Digests : new[d] \in {dump[c][d], records[CallerOf[c]][d]}
<1>1. PICK late \in SUBSET Held(dump[c]) :
        new = [d \in Digests |-> IF d \in late THEN records[CallerOf[c]][d] ELSE dump[c][d]]
  BY DEF Written
<1>2. dump[c] \in Indexes /\ records[CallerOf[c]] \in Indexes
  BY StoreAssumption DEF StoreTyped
<1> QED BY <1>1, <1>2 DEF Indexes

LEMMA LoadKeeps == ASSUME StoreInv, NEW p \in Pipelines, Load(p) PROVE StoreInv'
<1> USE StoreAssumption DEF StoreInv, Goto
<1>1. StoreTyped'
  BY DEF Load, StoreTyped, Indexes, Records
<1>2. CallsRun'
  BY DEF Load, StoreTyped, Indexes, Records, CallsRun, Busy
<1>3. OverlapIsRaced'
  BY DEF Load, StoreTyped, Indexes, Records, CallsRun, Busy, OverlapIsRaced
<1>4. AloneUnlessShared'
  BY DEF Load, StoreTyped, Indexes, Records, CallsRun, Busy, AloneUnlessShared
<1>5. FoundIsCurrent'
  BY DEF Load, StoreTyped, Indexes, Records, CallsRun, Busy, FoundIsCurrent
<1>6. MemoryIsAhead'
  <2>1. CASE running = {}
    <3>1. \A c \in Calls : at[c] # "locked"
      BY <2>1 DEF CallsRun, Busy
    <3>2. \A d \in Digests : records'[p][d] = index[d]
      BY DEF Load, StoreTyped
    <3>3. running' = {p} /\ index' = index /\ at' = at
      BY <2>1 DEF Load
    <3> QED BY <3>1, <3>2, <3>3, GrowsItself DEF MemoryIsAhead
  <2>2. CASE running # {}
    BY <2>2 DEF Load, MemoryIsAhead
  <2> QED BY <2>1, <2>2
<1>7. MergedIsSaved'
  <2>1. CASE running = {}
    <3>1. \A c \in Calls : at[c] # "locked"
      BY <2>1 DEF CallsRun, Busy
    <3>2. running' = {p} /\ records'[p] = index' /\ at' = at
      BY <2>1 DEF Load, StoreTyped
    <3> QED BY <3>1, <3>2 DEF MergedIsSaved
  <2>2. CASE running # {}
    BY <2>2 DEF Load, MergedIsSaved
  <2> QED BY <2>1, <2>2
<1> QED BY <1>1, <1>2, <1>3, <1>4, <1>5, <1>6, <1>7 DEF StoreInv

LEMMA DieKeeps == ASSUME StoreInv, NEW p \in Pipelines, Die(p) PROVE StoreInv'
<1> USE StoreAssumption DEF StoreInv, Goto
<1>1. StoreTyped'
  <2>1. records' \in [Pipelines -> Indexes]
    BY DEF Die, StoreTyped, Indexes, Records, Empty
  <2> QED BY <2>1 DEF Die, StoreTyped
<1>2. CallsRun'
  BY DEF Die, StoreTyped, Indexes, Records, CallsRun, Busy
<1>3. OverlapIsRaced'
  BY DEF Die, StoreTyped, Indexes, Records, CallsRun, Busy, OverlapIsRaced
<1>4. AloneUnlessShared'
  BY DEF Die, StoreTyped, Indexes, Records, CallsRun, Busy, AloneUnlessShared
<1>5. FoundIsCurrent'
  BY DEF Die, StoreTyped, Indexes, Records, CallsRun, Busy, FoundIsCurrent
<1>6. MemoryIsAhead'
  BY DEF Die, StoreTyped, Indexes, Records, CallsRun, Busy, MemoryIsAhead
<1>7. MergedIsSaved'
  <2> SUFFICES ASSUME ~shared PROVE MergedIsSaved'
    BY DEF Die, MergedIsSaved
  <2>1. running = {p} /\ running' = {}
    BY DEF Die, AloneUnlessShared
  <2>2. \A c \in Calls : at'[c] # "locked"
    BY <2>1 DEF Die, StoreTyped, CallsRun, Busy
  <2> QED BY <2>1, <2>2 DEF MergedIsSaved
<1> QED BY <1>1, <1>2, <1>3, <1>4, <1>5, <1>6, <1>7 DEF StoreInv

LEMMA RegisterKeeps == ASSUME StoreInv, NEW c \in Calls, Register(c) PROVE StoreInv'
<1> USE StoreAssumption DEF StoreInv, Goto
<1>1. StoreTyped'
  <2>1. existing' \in [Calls -> Records]
    <3>1. existing' = [existing EXCEPT ![c] = records[CallerOf[c]][DigestOf[c]]]
      BY DEF Register
    <3>2. records[CallerOf[c]] \in Indexes
      BY DEF StoreTyped
    <3>3. records[CallerOf[c]][DigestOf[c]] \in Records
      BY <3>2 DEF Indexes
    <3> QED BY <3>1, <3>3 DEF StoreTyped
  <2>2. raced' \in SUBSET Digests
    <3>1. raced' = raced \cup {DigestOf[c]} \/ raced' = raced
      BY DEF Register
    <3> QED BY <3>1 DEF StoreTyped
  <2>3. at' \in [Calls -> {"new", "copy", "copying", "merge", "save", "locked", "done"}]
    <3>1. at' = [at EXCEPT ![c] = "copy"] \/ at' = [at EXCEPT ![c] = "merge"]
      BY DEF Register
    <3> QED BY <3>1 DEF StoreTyped
  <2> QED BY <2>1, <2>2, <2>3 DEF Register, StoreTyped
<1>2. CallsRun'
  BY DEF Register, StoreTyped, Indexes, Records, CallsRun, Busy
<1>3. OverlapIsRaced'
  BY DEF Register, StoreTyped, Indexes, Records, CallsRun, Busy, OverlapIsRaced
<1>4. AloneUnlessShared'
  BY DEF Register, StoreTyped, Indexes, Records, CallsRun, Busy, AloneUnlessShared
<1>5. FoundIsCurrent'
  BY DEF Register, StoreTyped, Indexes, Records, CallsRun, Busy, FoundIsCurrent
<1>6. MemoryIsAhead'
  BY DEF Register, StoreTyped, Indexes, Records, CallsRun, Busy, MemoryIsAhead
<1>7. MergedIsSaved'
  BY DEF Register, StoreTyped, Indexes, Records, CallsRun, Busy, MergedIsSaved, Unsaved
<1> QED BY <1>1, <1>2, <1>3, <1>4, <1>5, <1>6, <1>7 DEF StoreInv

LEMMA CopyKeeps == ASSUME StoreInv, NEW c \in Calls, Copy(c) PROVE StoreInv'
<1> USE StoreAssumption DEF StoreInv, Goto
<1>1. StoreTyped'
  BY DEF Copy, StoreTyped, Indexes, Records
<1>2. CallsRun'
  BY DEF Copy, StoreTyped, Indexes, Records, CallsRun, Busy
<1>3. OverlapIsRaced'
  BY DEF Copy, StoreTyped, Indexes, Records, CallsRun, Busy, OverlapIsRaced
<1>4. AloneUnlessShared'
  BY DEF Copy, StoreTyped, Indexes, Records, CallsRun, Busy, AloneUnlessShared
<1>5. FoundIsCurrent'
  BY DEF Copy, StoreTyped, Indexes, Records, CallsRun, Busy, FoundIsCurrent
<1>6. MemoryIsAhead'
  BY DEF Copy, StoreTyped, Indexes, Records, CallsRun, Busy, MemoryIsAhead
<1>7. MergedIsSaved'
  BY DEF Copy, StoreTyped, Indexes, Records, CallsRun, Busy, MergedIsSaved, Unsaved
<1> QED BY <1>1, <1>2, <1>3, <1>4, <1>5, <1>6, <1>7 DEF StoreInv

LEMMA CopiedKeeps == ASSUME StoreInv, NEW c \in Calls, Copied(c) PROVE StoreInv'
<1> USE StoreAssumption DEF StoreInv, Goto
<1>1. StoreTyped'
  BY DEF Copied, StoreTyped, Indexes, Records
<1>2. CallsRun'
  BY DEF Copied, StoreTyped, Indexes, Records, CallsRun, Busy
<1>3. OverlapIsRaced'
  BY DEF Copied, StoreTyped, Indexes, Records, CallsRun, Busy, OverlapIsRaced
<1>4. AloneUnlessShared'
  BY DEF Copied, StoreTyped, Indexes, Records, CallsRun, Busy, AloneUnlessShared
<1>5. FoundIsCurrent'
  BY DEF Copied, StoreTyped, Indexes, Records, CallsRun, Busy, FoundIsCurrent
<1>6. MemoryIsAhead'
  BY DEF Copied, StoreTyped, Indexes, Records, CallsRun, Busy, MemoryIsAhead
<1>7. MergedIsSaved'
  BY DEF Copied, StoreTyped, Indexes, Records, CallsRun, Busy, MergedIsSaved, Unsaved
<1> QED BY <1>1, <1>2, <1>3, <1>4, <1>5, <1>6, <1>7 DEF StoreInv

LEMMA MergeRecordKeeps == ASSUME StoreInv, NEW c \in Calls, MergeRecord(c) PROVE StoreInv'
<1> USE StoreAssumption DEF StoreInv, Goto
<1>1. StoreTyped'
  <2>1. records' \in [Pipelines -> Indexes]
    <3>1. MergedRecord(c) \in Artifacts
      BY MergedIsRecord DEF StoreTyped
    <3> QED BY <3>1 DEF MergeRecord, MergedRecord, StoreTyped, Indexes, Records
  <2> QED BY <2>1 DEF MergeRecord, StoreTyped
<1>2. CallsRun'
  BY DEF MergeRecord, StoreTyped, Indexes, Records, CallsRun, Busy
<1>3. OverlapIsRaced'
  BY DEF MergeRecord, StoreTyped, Indexes, Records, CallsRun, Busy, OverlapIsRaced
<1>4. AloneUnlessShared'
  BY DEF MergeRecord, StoreTyped, Indexes, Records, CallsRun, Busy, AloneUnlessShared
<1>5. FoundIsCurrent'
  <2> SUFFICES ASSUME ~shared, NEW b \in Calls, at[b] \in {"copy", "copying", "merge"}, b # c,
                      DigestOf[b] \notin raced
               PROVE  existing[b] = records'[CallerOf[b]][DigestOf[b]]
    BY DEF MergeRecord, StoreTyped, FoundIsCurrent
  <2>1. DigestOf[b] # DigestOf[c]
    BY DEF MergeRecord, OverlapIsRaced, Busy
  <2>2. existing[b] = records[CallerOf[b]][DigestOf[b]]
    BY DEF FoundIsCurrent
  <2> QED BY <2>1, <2>2 DEF MergeRecord, StoreTyped, Indexes
<1>6. MemoryIsAhead'
  <2> SUFFICES ASSUME ~shared, NEW d \in Digests, d \notin raced
               PROVE  /\ \A p \in running : Grows(index[d], records'[p][d])
                      /\ \A b \in Calls : at[b] = "locked" =>
                           Grows(index[d], dump[b][d]) /\ Grows(dump[b][d], records'[CallerOf[b]][d])
    BY DEF MergeRecord, StoreTyped, MemoryIsAhead
  <2>1. \A p \in Pipelines : Grows(records[p][d], records'[p][d])
    <3>1. CASE DigestOf[c] = d
      <4>1. existing[c] = records[CallerOf[c]][d]
        BY <3>1 DEF MergeRecord, FoundIsCurrent
      <4>2. Grows(existing[c], MergedRecord(c))
        BY MergedIsRecord DEF StoreTyped
      <4> QED BY <3>1, <4>1, <4>2, GrowsItself DEF MergeRecord, MergedRecord, StoreTyped, Indexes
    <3>2. CASE DigestOf[c] # d
      BY <3>2, GrowsItself DEF MergeRecord, StoreTyped, Indexes
    <3> QED BY <3>1, <3>2
  <2>2. \A p \in running : Grows(index[d], records[p][d])
    BY DEF MemoryIsAhead
  <2>3. \A b \in Calls : at[b] = "locked" =>
          Grows(index[d], dump[b][d]) /\ Grows(dump[b][d], records[CallerOf[b]][d])
    BY DEF MemoryIsAhead
  <2> QED BY <2>1, <2>2, <2>3, GrowsOn DEF StoreTyped
<1>7. MergedIsSaved'
  BY DEF MergeRecord, StoreTyped, Indexes, Records, CallsRun, Busy, MergedIsSaved, Unsaved
<1> QED BY <1>1, <1>2, <1>3, <1>4, <1>5, <1>6, <1>7 DEF StoreInv

LEMMA LockKeeps == ASSUME StoreInv, NEW c \in Calls, Lock(c) PROVE StoreInv'
<1> USE StoreAssumption DEF StoreInv, Goto
<1>1. StoreTyped'
  BY DEF Lock, StoreTyped, Indexes, Records
<1>2. CallsRun'
  BY DEF Lock, StoreTyped, Indexes, Records, CallsRun, Busy
<1>3. OverlapIsRaced'
  BY DEF Lock, StoreTyped, Indexes, Records, CallsRun, Busy, OverlapIsRaced
<1>4. AloneUnlessShared'
  BY DEF Lock, StoreTyped, Indexes, Records, CallsRun, Busy, AloneUnlessShared
<1>5. FoundIsCurrent'
  BY DEF Lock, StoreTyped, Indexes, Records, CallsRun, Busy, FoundIsCurrent
<1>6. MemoryIsAhead'
  <2> SUFFICES ASSUME ~shared, NEW d \in Digests, d \notin raced
               PROVE  /\ Grows(index[d], records[CallerOf[c]][d])
                      /\ Grows(records[CallerOf[c]][d], records[CallerOf[c]][d])
    BY DEF Lock, StoreTyped, CallsRun, MemoryIsAhead
  <2>1. CallerOf[c] \in running
    BY DEF Lock, CallsRun, Busy
  <2> QED BY <2>1, GrowsItself DEF MemoryIsAhead
<1>7. MergedIsSaved'
  BY DEF Lock, StoreTyped, Indexes, Records, CallsRun, Busy, MergedIsSaved, Unsaved
<1> QED BY <1>1, <1>2, <1>3, <1>4, <1>5, <1>6, <1>7 DEF StoreInv

LEMMA SaveKeeps == ASSUME StoreInv, NEW c \in Calls, Save(c) PROVE StoreInv'
<1> USE StoreAssumption DEF StoreInv, Goto
<1>1. StoreTyped'
  <2>1. index' \in Indexes
    BY WrittenIsBetween DEF Save, StoreTyped
  <2> QED BY <2>1 DEF Save, StoreTyped
<1>2. CallsRun'
  BY DEF Save, StoreTyped, Indexes, Records, CallsRun, Busy
<1>3. OverlapIsRaced'
  BY DEF Save, StoreTyped, Indexes, Records, CallsRun, Busy, OverlapIsRaced
<1>4. AloneUnlessShared'
  BY DEF Save, StoreTyped, Indexes, Records, CallsRun, Busy, AloneUnlessShared
<1>5. FoundIsCurrent'
  BY DEF Save, StoreTyped, Indexes, Records, CallsRun, Busy, FoundIsCurrent
<1>6. MemoryIsAhead'
  <2> SUFFICES ASSUME ~shared, NEW d \in Digests, d \notin raced, NEW p \in running
               PROVE  Grows(index'[d], records[p][d])
    BY DEF Save, StoreTyped, CallsRun, MemoryIsAhead
  <2>1. p = CallerOf[c]
    BY DEF Save, CallsRun, Busy, AloneUnlessShared
  <2>2. Grows(index[d], dump[c][d]) /\ Grows(dump[c][d], records[p][d])
    BY <2>1 DEF Save, MemoryIsAhead
  <2>3. index'[d] \in {index[d], dump[c][d], records[p][d]}
    BY <2>1, WrittenIsBetween DEF Save, StoreTyped
  <2> QED BY <2>2, <2>3, GrowsItself, GrowsOn
<1>7. MergedIsSaved'
  <2>1. \A b \in Calls : at'[b] # "locked"
    BY DEF Save, StoreTyped, CallsRun
  <2>2. CASE \E b \in Calls : at[b] = "save"
    BY <2>1, <2>2 DEF Save, StoreTyped, MergedIsSaved, Unsaved
  <2>3. CASE ~ \E b \in Calls : at[b] = "save"
    <3> SUFFICES ASSUME ~shared, NEW p \in running PROVE index' = records[p]
      BY <2>1 DEF Save, StoreTyped, MergedIsSaved
    <3>1. p = CallerOf[c]
      BY DEF Save, CallsRun, Busy, AloneUnlessShared
    <3>2. dump[c] = records[p]
      BY <2>3, <3>1 DEF Save, MergedIsSaved
    <3>3. index' \in Indexes /\ \A d \in Digests : index'[d] = records[p][d]
      BY <3>1, <3>2, WrittenIsBetween DEF Save, StoreTyped
    <3> QED BY <3>3 DEF StoreTyped, Indexes
  <2> QED BY <2>2, <2>3
<1> QED BY <1>1, <1>2, <1>3, <1>4, <1>5, <1>6, <1>7 DEF StoreInv

LEMMA StoreStepInv == ASSUME StoreInv, StoreNext PROVE StoreInv'
BY LoadKeeps, DieKeeps, RegisterKeeps, CopyKeeps, CopiedKeeps, MergeRecordKeeps, LockKeeps, SaveKeeps
   DEF StoreNext, StoreStep

LEMMA StoreNextInv == StoreInv /\ [StoreNext]_storeVars => StoreInv'
<1>1. StoreInv /\ UNCHANGED storeVars => StoreInv'
  BY DEF StoreInv, StoreTyped, CallsRun, OverlapIsRaced, AloneUnlessShared, FoundIsCurrent,
         MemoryIsAhead, MergedIsSaved, Unsaved, Busy, storeVars
<1> QED BY <1>1, StoreStepInv

\* Once the calls of a process have returned, the index is what the process has
\* in memory, although calls overlap, fail to save and are cut short by crashes,
\* as long as the processes follow each other (_save, _load).
THEOREM IndexFollows == StoreSpec => []IndexFollowsMemory
<1>1. StoreInv => IndexFollowsMemory
  BY DEF StoreInv, MergedIsSaved, Unsaved, IndexFollowsMemory, Settled, Busy
<1> QED BY <1>1, StoreInitInv, StoreNextInv, PTL DEF StoreSpec

LEMMA StepGrows ==
    ASSUME StoreInv, [StoreNext]_storeVars, NEW d \in Digests, ~shared, d \notin raced
    PROVE  Grows(index[d], index'[d])
<1>1. CASE index' = index
  BY <1>1, GrowsItself
<1>2. CASE \E c \in Calls : Save(c) /\ index' \in Written(c)
  <2> PICK c \in Calls : Save(c) /\ index' \in Written(c)
    BY <1>2
  <2>1. CallerOf[c] \in running
    BY DEF Save, StoreInv, CallsRun, Busy
  <2>2. Grows(index[d], dump[c][d]) /\ Grows(index[d], records[CallerOf[c]][d])
    BY <2>1 DEF Save, StoreInv, MemoryIsAhead
  <2>3. index'[d] \in {dump[c][d], records[CallerOf[c]][d]}
    BY WrittenIsBetween DEF StoreInv
  <2> QED BY <2>2, <2>3
<1>3. StoreNext => index' = index \/ \E c \in Calls : Save(c) /\ index' \in Written(c)
  BY DEF StoreNext, StoreStep, Load, Die, Register, Copy, Copied, MergeRecord, Lock, Save
<1>4. UNCHANGED storeVars => index' = index
  BY DEF storeVars
<1> QED BY <1>1, <1>2, <1>3, <1>4

\* The record of a digest in the index never loses a parent, an occurrence or
\* its role, whatever is registered at the same time and whenever the process
\* dies, unless two calls register that digest at once (register).
THEOREM MergesKeep == StoreSpec => MergeKeeps
<1>1. StoreInv /\ [StoreNext]_storeVars =>
        [\A d \in Digests : ~shared /\ d \notin raced => Grows(index[d], index'[d])]_storeVars
  BY StepGrows
<1> QED BY <1>1, StoreInitInv, StoreNextInv, PTL DEF StoreSpec, MergeKeeps
=============================================================================
