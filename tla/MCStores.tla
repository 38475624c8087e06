------------------------------- MODULE MCStores -------------------------------
(***************************************************************************)
(* Small instances of CookieGrants and ArtifactStore for TLC.  The two     *)
(* share no state; a behaviour is about one of them:                       *)
(*   "grants"     two processes issue grants of one cookie file            *)
(*   "artifacts"  registrations of one process that overlap, crashes, and  *)
(*                a second process                                         *)
(***************************************************************************)
EXTENDS CookieGrants, ArtifactStore, TLC

CONSTANTS w, v, g1, g2, g3, j1, j2, f1

VARIABLE setting

\* The first and the third grant are bound to the same job.
Issuers == g1 :> w @@ g2 :> v @@ g3 :> v
Bound == g1 :> j1 @@ g2 :> j2 @@ g3 :> j1
OneFile == j1 :> f1 @@ j2 :> f1

\* Three files: the second is made from the first, the third and the fourth have
\* the bytes of the first, and the fourth is made from the second.
Registrations == {"first", "second", "third", "fourth"}
Callers == [r \in Registrations |-> IF r = "fourth" THEN v ELSE w]
Bytes == [first |-> "a", second |-> "b", third |-> "a", fourth |-> "a"]
Roles == [first |-> "source", second |-> "derivative", third |-> "derivative", fourth |-> "derivative"]
Parents == [first |-> {}, second |-> {"a"}, third |-> {}, fourth |-> {"b"}]

allVars == <<setting, vars, storeVars>>

StoresInit == setting \in {"grants", "artifacts"} /\ Init /\ StoreInit

CookieFiles == setting = "grants" /\ Next /\ UNCHANGED <<setting, storeVars>>
Registering == setting = "artifacts" /\ StoreNext /\ UNCHANGED <<setting, vars>>

StoresSpec == StoresInit /\ [][CookieFiles \/ Registering]_allVars
=============================================================================
