---------------------------- MODULE CookieGrants ----------------------------
(***************************************************************************)
(* CookieGrantLedger (security.py): grants of a cookie file to one job.    *)
(* A process that takes an intent with --cookies issues a grant and puts   *)
(* its id into the context of the job; the process that runs the job       *)
(* resolves the id when a provider needs the file.  Each ledger reads      *)
(* cookie-grants.json when it is built and merges it into its own grants   *)
(* whenever it saves.                                                      *)
(***************************************************************************)
EXTENDS Naturals, FiniteSets, PythonNone

CONSTANTS Procs,     \* processes with a ledger on one data directory
          Grants,    \* grant ids, each issued once
          IssuerOf,  \* the process that issues each grant
          JobOf,     \* the job each grant is bound to
          Jobs,
          FileOf,    \* the cookie file of each job
          Files

ASSUME ConstantsAssumption ==
    /\ IssuerOf \in [Grants -> Procs]
    /\ JobOf \in [Grants -> Jobs] /\ FileOf \in [Jobs -> Files]
    /\ None \notin Grants

\* What a path can be when resolve_cookie_path looks at it.
Kinds == {"cookies", "html", "missing", "elsewhere"}

VARIABLES up,      \* processes whose ledger is built
          grants,  \* _grants of each process
          store,   \* the grants in cookie-grants.json
          lock,    \* the grant whose issue holds cookie-grants.lock
          issue,   \* how far the issue of each grant is
          merged,  \* what each issue is about to write
          path,    \* what the path of each file is now
          flags    \* the last --cookies argument a provider got: [job, grant, file]

vars == <<up, grants, store, lock, issue, merged, path, flags>>

Init ==
    /\ up = {}
    /\ grants = [p \in Procs |-> {}]
    /\ store = {}
    /\ lock = None
    /\ issue = [g \in Grants |-> "new"]
    /\ merged = [g \in Grants |-> {}]
    /\ path = [f \in Files |-> "cookies"]
    /\ flags = None

Start(p) ==
    /\ p \notin up
    /\ up' = up \cup {p}
    /\ grants' = [grants EXCEPT ![p] = store]
    /\ UNCHANGED <<store, lock, issue, merged, path, flags>>

\* The path is checked before the grant is made.
Issue(g) ==
    LET p == IssuerOf[g]
    IN /\ issue[g] = "new" /\ p \in up
       /\ path[FileOf[JobOf[g]]] = "cookies"
       /\ grants' = [grants EXCEPT ![p] = @ \cup {g}]
       /\ issue' = [issue EXCEPT ![g] = "made"]
       /\ UNCHANGED <<up, store, lock, merged, path, flags>>

(* _save, under the lock: the file is read and merged, then replaced. *)
\* Mutant: the file is read before the lock is taken.
MergeUnlocked(g) ==
    LET p == IssuerOf[g]
    IN /\ issue[g] = "made"
       /\ merged' = [merged EXCEPT ![g] = store \cup grants[p]]
       /\ grants' = [grants EXCEPT ![p] = store \cup @]
       /\ issue' = [issue EXCEPT ![g] = "merged"]
       /\ UNCHANGED <<up, store, lock, path, flags>>
Merge(g) ==
    LET p == IssuerOf[g]
    IN /\ issue[g] = "made" /\ lock = None
       /\ lock' = g
       /\ merged' = [merged EXCEPT ![g] = store \cup grants[p]]
       /\ grants' = [grants EXCEPT ![p] = store \cup @]
       /\ issue' = [issue EXCEPT ![g] = "merged"]
       /\ UNCHANGED <<up, store, path, flags>>

Replace(g) ==
    /\ issue[g] = "merged"
    /\ lock' = None
    /\ store' = merged[g]
    /\ issue' = [issue EXCEPT ![g] = "issued"]
    /\ UNCHANGED <<up, grants, merged, path, flags>>

\* The process dies; the lock goes with it and nothing is half written.
Crash(p) ==
    /\ p \in up
    /\ up' = up \ {p}
    /\ grants' = [grants EXCEPT ![p] = {}]
    /\ issue' = [g \in Grants |->
          IF IssuerOf[g] = p /\ issue[g] \in {"made", "merged"} THEN "lost" ELSE issue[g]]
    /\ lock' = IF lock # None /\ IssuerOf[lock] = p THEN None ELSE lock
    /\ UNCHANGED <<store, merged, path, flags>>

\* The user replaces, removes or relinks a cookie file.
Change(f) ==
    /\ path' \in {[path EXCEPT ![f] = k] : k \in Kinds}
    /\ UNCHANGED <<up, grants, store, lock, issue, merged, flags>>

Flag(j, g) == [job |-> j, grant |-> g, file |-> FileOf[JobOf[g]]]

\* A provider of job j asks process p for grant g: the grant must be known, be
\* bound to that job, and its file must still be what it was.
Resolve(p, g, j) ==
    /\ p \in up /\ g \in grants[p] /\ JobOf[g] = j
    /\ path[FileOf[j]] = "cookies"
    /\ flags' = Flag(j, g)
    /\ UNCHANGED <<up, grants, store, lock, issue, merged, path>>

Next ==
    \/ \E p \in Procs : Start(p) \/ Crash(p)
    \/ \E g \in Grants : Issue(g) \/ Merge(g) \/ Replace(g)
    \/ \E f \in Files : Change(f)
    \/ \E p \in Procs, g \in Grants, j \in Jobs : Resolve(p, g, j)

Spec == Init /\ [][Next]_vars

-----------------------------------------------------------------------------
\* A grant whose issue returned stays in the file, whatever other processes
\* issue at the same time and whenever they die (_save merges under the lock).
IssuedIsKept == \A g \in Grants : issue[g] = "issued" => g \in store
=============================================================================
