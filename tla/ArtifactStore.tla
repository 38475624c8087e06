---------------------------- MODULE ArtifactStore ----------------------------
(***************************************************************************)
(* ArtifactStore (artifacts.py): content-addressed files and their index.  *)
(*                                                                         *)
(* Every process reads index.json once, when its Pipeline is built, and    *)
(* keeps its own copy of the records.  register merges into that copy and  *)
(* writes the whole of it over index.json under a file lock.  A call of    *)
(* register is an actor of its own: the runs of one process overlap (the   *)
(* dispatcher and POST /v1/queue/run-next), and so do processes.           *)
(***************************************************************************)
EXTENDS Naturals, FiniteSets, PythonNone

CONSTANTS Pipelines,  \* processes with a Pipeline on one data directory
          Calls,      \* calls of register
          CallerOf,   \* the process of each call
          Digests,    \* sha256 of the bytes registered
          DigestOf,   \* the digest of the file each call registers
          RoleOf,     \* "source" or "derivative"
          ParentsOf,  \* the digests each call names as parents
          MaxRuns,    \* how many calls of one process overlap
          MaxCrashes  \* bound on crashes

\* An index entry: Artifact, as far as a registration changes it.
Artifacts == [role : {"source", "derivative"}, parents : SUBSET Digests, occurrences : SUBSET Calls]

ASSUME StoreAssumption ==
    /\ CallerOf \in [Calls -> Pipelines] /\ DigestOf \in [Calls -> Digests]
    /\ RoleOf \in [Calls -> {"source", "derivative"}] /\ ParentsOf \in [Calls -> SUBSET Digests]
    /\ None \notin Artifacts /\ None \notin Calls

VARIABLES running,   \* processes that run
          records,   \* _records of each process
          index,     \* index.json
          indexLock, \* the call that holds index.lock
          file,      \* the stored bytes of each digest: "none", "part" or "whole"
          at,        \* where each call stands
          existing,  \* the record each call found before it merged
          dump,      \* the records each call found when it had the lock
          crashes,
          raced,     \* history: digests that two calls were registering at once
          shared     \* history: a process began while another ran

storeVars == <<running, records, index, indexLock, file, at, existing, dump, crashes, raced, shared>>

Empty == [d \in Digests |-> None]

StoreInit ==
    /\ running = {}
    /\ records = [p \in Pipelines |-> Empty]
    /\ index = Empty
    /\ indexLock = None
    /\ file = [d \in Digests |-> "none"]
    /\ at = [c \in Calls |-> "new"]
    /\ existing = [c \in Calls |-> None]
    /\ dump = [c \in Calls |-> Empty]
    /\ crashes = 0
    /\ raced = {} /\ shared = FALSE

Busy(c) == at[c] \notin {"new", "done"}
Held(s) == {d \in Digests : s[d] # None}
Goto(c, step) == at' = [at EXCEPT ![c] = step]

(* __init__ and _load *)
Load(p) ==
    /\ p \notin running
    /\ running' = running \cup {p}
    /\ records' = [records EXCEPT ![p] = index]
    /\ shared' = (running # {})
    /\ raced' = IF running = {} THEN {} ELSE raced
    /\ UNCHANGED <<index, indexLock, file, at, existing, dump, crashes>>

\* The bytes are hashed, the record and the stored file are looked up.  A run
\* names as parents what it has registered.
Register(c) ==
    LET p == CallerOf[c]
        d == DigestOf[c]
    IN /\ at[c] = "new" /\ p \in running
       /\ Cardinality({b \in Calls : Busy(b) /\ CallerOf[b] = p}) < MaxRuns
       /\ ParentsOf[c] \subseteq Held(records[p])
       /\ existing' = [existing EXCEPT ![c] = records[p][d]]
       /\ Goto(c, IF file[d] = "none" THEN "copy" ELSE "merge")
       /\ raced' = IF \E b \in Calls : Busy(b) /\ DigestOf[b] = d THEN raced \cup {d} ELSE raced
       /\ UNCHANGED <<running, records, index, indexLock, file, dump, crashes, shared>>

\* shutil.copy2 empties the target, then fills it.
Copy(c) ==
    /\ at[c] = "copy"
    /\ file' = [file EXCEPT ![DigestOf[c]] = "part"]
    /\ Goto(c, "copying")
    /\ UNCHANGED <<running, records, index, indexLock, existing, dump, crashes, raced, shared>>

Copied(c) ==
    /\ at[c] = "copying"
    /\ file' = [file EXCEPT ![DigestOf[c]] = "whole"]
    /\ Goto(c, "merge")
    /\ UNCHANGED <<running, records, index, indexLock, existing, dump, crashes, raced, shared>>

Fresh(c) == [role |-> RoleOf[c], parents |-> ParentsOf[c], occurrences |-> {c}]

\* Mutant: the latest registration decides the role.
LastRole(r, c) ==
    [r EXCEPT !.role = RoleOf[c], !.parents = @ \cup ParentsOf[c], !.occurrences = @ \cup {c}]
Merged(r, c) ==
    [r EXCEPT !.role = IF "source" \in {@, RoleOf[c]} THEN "source" ELSE @,
              !.parents = @ \cup ParentsOf[c],
              !.occurrences = @ \cup {c}]

\* The merge starts from the record that was looked up before the copy.
MergeRecord(c) ==
    LET r == IF existing[c] = None THEN Fresh(c) ELSE Merged(existing[c], c)
    IN /\ at[c] = "merge"
       /\ records' = [records EXCEPT ![CallerOf[c]][DigestOf[c]] = r]
       /\ Goto(c, "save")
       /\ UNCHANGED <<running, index, indexLock, file, existing, dump, crashes, raced, shared>>

(* _save: the lock is taken, then the records are read and written. *)
\* Mutant: a call that finds the lock taken goes on without saving.
LockOrSkip(c) ==
    /\ at[c] = "save"
    /\ IF indexLock = None THEN indexLock' = c /\ Goto(c, "locked")
                           ELSE UNCHANGED indexLock /\ Goto(c, "done")
    /\ dump' = [dump EXCEPT ![c] = records[CallerOf[c]]]
    /\ UNCHANGED <<running, records, index, file, existing, crashes, raced, shared>>
Lock(c) ==
    /\ at[c] = "save" /\ indexLock = None
    /\ indexLock' = c
    /\ Goto(c, "locked")
    /\ dump' = [dump EXCEPT ![c] = records[CallerOf[c]]]
    /\ UNCHANGED <<running, records, index, file, existing, crashes, raced, shared>>

\* The records are read one by one while others merge into them: each as it was
\* when the lock was taken, or as it is now.
Written(c) ==
    {[d \in Digests |-> IF d \in late THEN records[CallerOf[c]][d] ELSE dump[c][d]]
       : late \in SUBSET Held(dump[c])}

\* A dict that gains a key under the iteration raises, and nothing is written.
Save(c) ==
    /\ at[c] = "locked"
    /\ indexLock' = None
    /\ \/ index' \in Written(c)
       \/ Held(dump[c]) # Held(records[CallerOf[c]]) /\ UNCHANGED index
    /\ Goto(c, "done")
    /\ UNCHANGED <<running, records, file, existing, dump, crashes, raced, shared>>

\* The process dies: the lock goes with it, its files stay as they are, and
\* the runs that were under way register again when they are resumed.
Die(p) ==
    /\ p \in running /\ crashes < MaxCrashes
    /\ crashes' = crashes + 1
    /\ running' = running \ {p}
    /\ records' = [records EXCEPT ![p] = Empty]
    /\ indexLock' = IF indexLock # None /\ CallerOf[indexLock] = p THEN None ELSE indexLock
    /\ at' = [c \in Calls |-> IF CallerOf[c] = p /\ Busy(c) THEN "new" ELSE at[c]]
    /\ UNCHANGED <<index, file, existing, dump, raced, shared>>

StoreStep(c) ==
    Register(c) \/ Copy(c) \/ Copied(c) \/ MergeRecord(c) \/ Lock(c) \/ Save(c)

StoreNext == (\E p \in Pipelines : Load(p) \/ Die(p)) \/ (\E c \in Calls : StoreStep(c))

StoreSpec == StoreInit /\ [][StoreNext]_storeVars

-----------------------------------------------------------------------------
Settled == \A c \in Calls : ~Busy(c)

\* A record that has been merged into another one.
Grows(old, new) ==
    old # None => /\ new # None
                  /\ old.parents \subseteq new.parents
                  /\ old.occurrences \subseteq new.occurrences
                  /\ old.role = "source" => new.role = "source"

\* What is in the index grows: a later registration of the same bytes keeps the
\* parents and the occurrences there were and never makes a source anything
\* less, whatever else is registered at the same time and over restarts
\* (register).  Of two registrations of the same bytes that overlap, one may
\* overwrite what the other merged, and so may a second process.
MergeKeeps ==
    [][\A d \in Digests : ~shared /\ d \notin raced => Grows(index[d], index'[d])]_storeVars

\* Although a call may fail to save, the index of a store with one process at a
\* time ends up equal to its memory once its calls have returned: the last to
\* take the lock reads the records after it has it (_save).
IndexFollowsMemory == Settled /\ ~shared => \A p \in running : index = records[p]
=============================================================================
