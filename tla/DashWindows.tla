------------------------------ MODULE DashWindows ------------------------------
(***************************************************************************)
(* _period_window_seconds of live.py: how long each Period of a DASH       *)
(* manifest lasts.  A Period may state its start, its duration, both or    *)
(* neither, and the MPD its whole duration; what is missing is derived in  *)
(* passes over the Periods until a pass derives nothing.                   *)
(***************************************************************************)
EXTENDS Integers, PythonNone

CONSTANTS MaxPeriods,  \* Periods of a manifest (bound of the model)
          Seconds      \* durations and starts that are stated

ASSUME WindowsAssumption ==
    MaxPeriods \in Nat \ {0} /\ Seconds \subseteq Nat /\ None \notin Int

VARIABLES count,      \* Periods
          stated,     \* what the manifest states: starts, durations, total
          starts, durations,
          pass,       \* the loop that runs: "durations", "starts", "last" or "done"
          index,      \* where it is
          changed

vars == <<count, stated, starts, durations, pass, index, changed>>

\* _iso8601_duration_seconds: calendar units and empty durations are refused.
Times == Seconds \cup {None}

Init ==
    /\ count \in 1 .. MaxPeriods
    /\ stated \in [starts: [1 .. count -> Times], durations: [1 .. count -> Times], total: Times]
    /\ starts = [stated.starts EXCEPT ![1] = IF @ = None THEN 0 ELSE @]
    /\ durations = stated.durations
    /\ pass = "durations" /\ index = 1 /\ changed = FALSE

\* The next turn of the loop, or the loop that follows it.
Advance(last, following) ==
    IF index < last THEN index' = index + 1 /\ UNCHANGED pass
                    ELSE index' = 1 /\ pass' = following

Derived(until) == durations[index] = None /\ starts[index] # None /\ until # None

\* Mutant: a duration is derived again in every pass.
DurationAgain ==
    /\ pass = "durations"
    /\ IF index < count /\ starts[index] # None /\ starts[index + 1] # None
       THEN /\ durations' = [durations EXCEPT ![index] = starts[index + 1] - starts[index]]
            /\ changed' = TRUE
       ELSE UNCHANGED <<durations, changed>>
    /\ Advance(count - 1, "starts")
    /\ UNCHANGED <<count, stated, starts>>

\* A duration from two starts.
Duration ==
    /\ pass = "durations"
    /\ IF index < count /\ Derived(starts[index + 1]) /\ starts[index + 1] > starts[index]
       THEN /\ durations' = [durations EXCEPT ![index] = starts[index + 1] - starts[index]]
            /\ changed' = TRUE
       ELSE UNCHANGED <<durations, changed>>
    /\ Advance(count - 1, "starts")
    /\ UNCHANGED <<count, stated, starts>>

\* A start from the Period before.
Start ==
    /\ pass = "starts"
    /\ IF index < count /\ starts[index + 1] = None
          /\ starts[index] # None /\ durations[index] # None
       THEN /\ starts' = [starts EXCEPT ![index + 1] = starts[index] + durations[index]]
            /\ changed' = TRUE
       ELSE UNCHANGED <<starts, changed>>
    /\ Advance(count - 1, "last")
    /\ UNCHANGED <<count, stated, durations>>

\* Mutant: the loop runs once.
EndOfPassOnce ==
    /\ pass = "last"
    /\ pass' = "done" /\ index' = 1 /\ changed' = FALSE
    /\ UNCHANGED <<count, stated, starts, durations>>

\* The last Period lasts until the end of the presentation.
EndOfPass ==
    LET left == IF durations[count] # None \/ stated.total = None \/ starts[count] = None THEN 0
                ELSE stated.total - starts[count]
    IN /\ pass = "last"
       /\ durations' = IF left > 0 THEN [durations EXCEPT ![count] = left] ELSE durations
       /\ pass' = IF changed \/ left > 0 THEN "durations" ELSE "done"
       /\ index' = 1 /\ changed' = FALSE
       /\ UNCHANGED <<count, stated, starts>>

Next == Duration \/ Start \/ EndOfPass

Spec == Init /\ [][Next]_vars

-----------------------------------------------------------------------------
\* The start of a Period is what it states, or else the end of the one before; the
\* first begins at 0.
StartFollows(i) ==
    starts[i] = IF stated.starts[i] # None THEN stated.starts[i]
                ELSE IF i = 1 THEN 0
                ELSE IF starts[i - 1] # None /\ durations[i - 1] # None
                     THEN starts[i - 1] + durations[i - 1] ELSE None

\* It lasts as long as it states, or else until the next stated start, the last one
\* until the end of the presentation.
Until(i) == IF i < count THEN stated.starts[i + 1] ELSE stated.total
WindowFollows(i) ==
    durations[i] = IF stated.durations[i] # None THEN stated.durations[i]
                   ELSE IF starts[i] # None /\ Until(i) # None /\ Until(i) > starts[i]
                   THEN Until(i) - starts[i] ELSE None

\* The windows are those of one walk from the first Period to the last, whatever
\* the passes took from each other: the equations have one solution.
WindowsAreResolved == pass = "done" => \A i \in 1 .. count : StartFollows(i) /\ WindowFollows(i)

\* What the manifest states is kept, and what a pass has derived is final: a
\* window that a segment count was computed from never changes.
DerivedIsFinal ==
    [][\A i \in 1 .. count : /\ durations[i] # None => durations'[i] = durations[i]
                             /\ starts[i] # None => starts'[i] = starts[i]]_vars
=============================================================================
