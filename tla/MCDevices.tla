------------------------------ MODULE MCDevices ------------------------------
(***************************************************************************)
(* Small instances of Pairing and Companion for TLC.  The two share no     *)
(* state; a behaviour is about one of four settings:                       *)
(*   "sealed"   requests of two threads carry the same sealed envelope     *)
(*   "alone"    one request at a time, and a crash at any step of it       *)
(*   "overlap"  two threads create and confirm two pairings, no crash      *)
(*   "relay"    messages of an Apple TV, a watch and a Mac                 *)
(***************************************************************************)
EXTENDS Pairing, Companion, TLC

CONSTANTS w, t1, t2, k1, i1, i2, i3, view

VARIABLE setting

OneProc == [t \in Threads |-> w]
OfTheFirst == [e \in Envelopes |-> k1]
\* The two threads of one process are alike, and so are the files.
Alike == {f @@ g : f \in Permutations({t1, t2}), g \in Permutations({i1, i2, i3})}

allVars == <<setting, vars, relayVars>>

Busied == {t \in Threads : ~At(t, "idle")}
\* The states of a setting.
Within ==
  CASE setting = "sealed"  -> \A k \in Pairings \ {k1} : expires[k] = None
    [] setting = "alone"   -> /\ now < MaxTime /\ Cardinality(Busied) <= 1
                              /\ \A t \in Threads : req[t].op # "envelope"
    [] setting = "overlap" -> now < TTL /\ \A t \in Threads : req[t].op # "envelope"

DevicesInit == setting \in {"sealed", "alone", "overlap", "relay"} /\ Init /\ RelayInit

Worker == /\ setting # "relay" /\ Next
          /\ UNCHANGED <<setting, relayVars>>
          /\ Within'
          /\ setting = "overlap" => up \subseteq up'
Devices == /\ setting = "relay" /\ RelayNext
           /\ UNCHANGED <<setting, vars>>

DevicesSpec == DevicesInit /\ [][Worker \/ Devices]_allVars
=============================================================================
