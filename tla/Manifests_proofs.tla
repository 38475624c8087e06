-------------------------- MODULE Manifests_proofs --------------------------
(***************************************************************************)
(* Theorems about the readers of manifests, for manifests of any size.  A  *)
(* further line of a master changes the video that is recorded only for    *)
(* the better, and brings no audio that is in the variant.  A start or     *)
(* duration of a Period once known is never changed, and when the passes   *)
(* end nothing that could be derived is missing.  The locators of a        *)
(* SegmentTemplate are the first of those its timeline stands for, up to   *)
(* the bound, and those that are counted fill the Period.  Of every Period *)
(* the best representation of each kind is recorded, by the addressing     *)
(* nearest to it, and Periods add up.                                      *)
(***************************************************************************)
EXTENDS HlsMaster, DashManifest, DashWindows, DashTemplate, FiniteSetTheorems,
        WellFoundedInduction, SequenceTheorems, TLAPS

-----------------------------------------------------------------------------
(* Windows of Periods. *)
Moments == Int \cup {None}

\* What the loops rely on: both arrays have an entry for every Period, the index
\* stays among them, and the length of the presentation is a time or None.
Shape ==
    /\ count \in Nat \ {0}
    /\ starts \in [1 .. count -> Moments]
    /\ durations \in [1 .. count -> Moments]
    /\ index \in 1 .. count
    /\ stated.total \in Moments

\* The times a manifest states are integers, or None.
LEMMA TimesAreKnown == Times \subseteq Moments
  <1>1. \A t \in Seconds : t \in Int
    BY WindowsAssumption
  <1> QED
    BY <1>1 DEF Times, Moments

\* The first pass begins on the stated times, the first start completed by 0.
LEMMA ShapeInit == Init => Shape
  <1> SUFFICES ASSUME Init PROVE Shape
    OBVIOUS
  <1>1. count \in Nat \ {0} /\ index \in 1 .. count
    BY WindowsAssumption DEF Init
  <1>2. stated.starts \in [1 .. count -> Moments] /\ stated.durations \in [1 .. count -> Moments]
        /\ stated.total \in Moments
    BY TimesAreKnown DEF Init
  <1>3. starts \in [1 .. count -> Moments]
    <2> DEFINE first == IF stated.starts[1] = None THEN 0 ELSE stated.starts[1]
    <2>1. first \in Moments
      BY <1>1, <1>2 DEF Moments
    <2>2. starts = [stated.starts EXCEPT ![1] = first]
      BY DEF Init
    <2> QED
      BY <1>2, <2>1, <2>2
  <1> QED
    BY <1>1, <1>2, <1>3 DEF Init, Shape

\* A turn of a loop moves the index on, or back to the first Period.
LEMMA AdvanceStays ==
  ASSUME Shape, NEW following, Advance(count - 1, following)
  PROVE  index' \in 1 .. count
  BY DEF Shape, Advance

\* No step takes an entry away or puts anything but a time in it.
LEMMA ShapeStep == Shape /\ [Next]_vars => Shape'
  <1> SUFFICES ASSUME Shape, [Next]_vars PROVE Shape'
    OBVIOUS
  <1> USE DEF Shape, Moments
  <1>1. CASE Duration
    <2>1. index' \in 1 .. count /\ count' = count /\ starts' = starts
        /\ stated' = stated
      BY <1>1, AdvanceStays DEF Duration
    <2>2. durations' \in [1 .. count -> Moments]
      BY <1>1, WindowsAssumption DEF Duration, Derived
    <2> QED
      BY <2>1, <2>2
  <1>2. CASE Start
    <2>1. index' \in 1 .. count /\ count' = count /\ durations' = durations
        /\ stated' = stated
      BY <1>2, AdvanceStays DEF Start
    <2>2. starts' \in [1 .. count -> Moments]
      BY <1>2, WindowsAssumption DEF Start
    <2> QED
      BY <2>1, <2>2
  <1>3. CASE EndOfPass
    <2> DEFINE rest == IF durations[count] # None \/ stated.total = None \/ starts[count] = None
                       THEN 0 ELSE stated.total - starts[count]
    <2>1. index' \in 1 .. count /\ count' = count /\ starts' = starts
        /\ stated' = stated
      BY <1>3 DEF EndOfPass
    <2>2. durations' \in [1 .. count -> Moments]
      BY <1>3 DEF EndOfPass
    <2> QED
      BY <2>1, <2>2
  <1>4. CASE UNCHANGED vars
    BY <1>4 DEF vars
  <1> QED
    BY <1>1, <1>2, <1>3, <1>4 DEF Next

-----------------------------------------------------------------------------
\* A window that a segment count was computed from never changes: every step
\* writes an entry only where it found None.
THEOREM DerivedStays == Spec => DerivedIsFinal
  <1> DEFINE Kept == \A i \in 1 .. count :
                        /\ durations[i] # None => durations'[i] = durations[i]
                        /\ starts[i] # None => starts'[i] = starts[i]
  <1>1. Shape /\ [Next]_vars => [Kept]_vars
    <2> SUFFICES ASSUME Shape, Next, NEW i \in 1 .. count
                 PROVE  /\ durations[i] # None => durations'[i] = durations[i]
                        /\ starts[i] # None => starts'[i] = starts[i]
      OBVIOUS
    <2> USE DEF Shape
    <2>1. CASE Duration
      BY <2>1 DEF Duration, Derived
    <2>2. CASE Start
      BY <2>2 DEF Start
    <2>3. CASE EndOfPass
      BY <2>3 DEF EndOfPass
    <2> QED
      BY <2>1, <2>2, <2>3 DEF Next
  <1>2. Spec => [][Kept]_vars
    BY ShapeInit, ShapeStep, <1>1, PTL DEF Spec
  <1> QED
    BY <1>2 DEF DerivedIsFinal

-----------------------------------------------------------------------------
\* What is known is stated or follows from what is known of its neighbours.
StartOK(i) ==
    /\ stated.starts[i] # None => starts[i] = stated.starts[i]
    /\ stated.starts[i] = None /\ i = 1 => starts[i] = 0
    /\ stated.starts[i] = None /\ i # 1 /\ starts[i] # None =>
         /\ starts[i - 1] # None /\ durations[i - 1] # None
         /\ starts[i] = starts[i - 1] + durations[i - 1]
WindowOK(i) ==
    /\ stated.durations[i] # None => durations[i] = stated.durations[i]
    /\ stated.durations[i] = None /\ durations[i] # None =>
         /\ starts[i] # None /\ Until(i) # None /\ Until(i) > starts[i]
         /\ durations[i] = Until(i) - starts[i]

\* What the loops have nothing left to do with.
DurationDone(i) ==
    durations[i] # None \/ starts[i] = None \/ starts[i + 1] = None \/ starts[i + 1] <= starts[i]
StartDone(i) == starts[i + 1] # None \/ starts[i] = None \/ durations[i] = None
LastDone ==
    \/ durations[count] # None \/ stated.total = None \/ starts[count] = None
    \/ stated.total <= starts[count]

Stated ==
    /\ stated.starts \in [1 .. count -> Moments] /\ stated.durations \in [1 .. count -> Moments]
    /\ \A i \in 1 .. count : StartOK(i) /\ WindowOK(i)

\* A pass that has changed nothing so far has left nothing behind it undone.
PassInv ==
    /\ pass \in {"durations", "starts", "last", "done"}
    /\ pass = "durations" /\ ~changed => \A i \in 1 .. (count - 1) : i < index => DurationDone(i)
    /\ pass \in {"starts", "last", "done"} /\ ~changed => \A i \in 1 .. (count - 1) : DurationDone(i)
    /\ pass = "starts" /\ ~changed => \A i \in 1 .. (count - 1) : i < index => StartDone(i)
    /\ pass \in {"last", "done"} /\ ~changed => \A i \in 1 .. (count - 1) : StartDone(i)
    /\ pass = "done" => ~changed /\ LastDone

WindowInv == Shape /\ Stated /\ PassInv

LEMMA WindowInit == Init => WindowInv
<1> SUFFICES ASSUME Init PROVE WindowInv
  OBVIOUS
<1>1. Shape /\ count \in Nat \ {0} /\ stated.starts \in [1 .. count -> Moments]
      /\ stated.durations \in [1 .. count -> Moments]
  BY ShapeInit, TimesAreKnown DEF Init, Shape
<1>2. /\ durations = stated.durations /\ pass = "durations" /\ index = 1 /\ changed = FALSE
      /\ \A i \in 1 .. count : starts[i] = IF i = 1 /\ stated.starts[1] = None THEN 0 ELSE stated.starts[i]
  BY <1>1 DEF Init
<1>3. 0 # None
  BY WindowsAssumption
<1>4. \A i \in 1 .. count : StartOK(i) /\ WindowOK(i)
  BY <1>1, <1>2, <1>3 DEF StartOK, WindowOK
<1>5. PassInv
  BY <1>1, <1>2 DEF PassInv
<1> QED BY <1>1, <1>4, <1>5 DEF WindowInv, Stated

\* A duration that is derived is what the stated start of the next Period gives:
\* a start is only derived from a duration that is known.
LEMMA DurationKeeps ==
  ASSUME WindowInv, Duration
  PROVE  Stated' /\ PassInv'
<1>1. /\ count \in Nat \ {0} /\ index \in 1 .. count /\ starts \in [1 .. count -> Moments]
      /\ durations \in [1 .. count -> Moments] /\ pass = "durations"
      /\ stated.starts \in [1 .. count -> Moments] /\ stated.durations \in [1 .. count -> Moments]
      /\ UNCHANGED <<count, stated, starts>>
  BY DEF WindowInv, Shape, Stated, Duration
<1>2. /\ \A i \in 1 .. count : StartOK(i) /\ WindowOK(i)
      /\ ~changed => \A i \in 1 .. (count - 1) : i < index => DurationDone(i)
  BY <1>1 DEF WindowInv, Stated, PassInv
<1>3. \/ index < count - 1 /\ index' = index + 1 /\ pass' = "durations"
      \/ ~(index < count - 1) /\ index' = 1 /\ pass' = "starts"
  BY <1>1 DEF Duration, Advance
<1>4. CASE index < count /\ Derived(starts[index + 1]) /\ starts[index + 1] > starts[index]
  <2>1. /\ durations' = [durations EXCEPT ![index] = starts[index + 1] - starts[index]]
        /\ changed' = TRUE /\ durations[index] = None /\ starts[index] # None
        /\ starts[index + 1] # None /\ index + 1 \in 1 .. count /\ index + 1 # 1
    BY <1>1, <1>4 DEF Duration, Derived
  <2>2. stated.starts[index + 1] = starts[index + 1]
    BY <1>1, <1>2, <2>1 DEF StartOK
  <2>3. \A i \in 1 .. count : StartOK(i)'
    <3>1. \A i \in 1 .. count : durations[i] # None => durations'[i] = durations[i]
      BY <1>1, <2>1
    <3>2. \A i \in 1 .. count : i # 1 => i - 1 \in 1 .. count
      BY <1>1
    <3> QED BY <1>1, <1>2, <3>1, <3>2 DEF StartOK
  <2>4. \A i \in 1 .. count : WindowOK(i)'
    <3>1. \A i \in 1 .. count : i # index => durations'[i] = durations[i]
      BY <1>1, <2>1
    <3>2. durations'[index] = Until(index) - starts[index] /\ Until(index) # None
          /\ Until(index) > starts[index] /\ stated.durations[index] = None
      BY <1>1, <1>2, <1>4, <2>1, <2>2 DEF Until, WindowOK
    <3>3. \A i \in 1 .. count : Until(i)' = Until(i)
      BY <1>1 DEF Until
    <3> QED BY <1>1, <1>2, <2>1, <3>1, <3>2, <3>3 DEF WindowOK
  <2>5. PassInv'
    BY <1>3, <2>1 DEF PassInv
  <2> QED BY <1>1, <2>3, <2>4, <2>5 DEF Stated
<1>5. CASE ~(index < count /\ Derived(starts[index + 1]) /\ starts[index + 1] > starts[index])
  <2>1. UNCHANGED <<durations, changed>>
    BY <1>5 DEF Duration
  <2>2. Stated'
    BY <1>1, <1>2, <2>1 DEF Stated, StartOK, WindowOK, Until
  <2>3. index < count => DurationDone(index)
    BY <1>1, <1>5 DEF Derived, DurationDone, Moments
  <2>4. ~changed => \A i \in 1 .. (count - 1) : i <= index => DurationDone(i)'
    BY <1>1, <1>2, <2>1, <2>3 DEF DurationDone
  <2>5. PassInv'
    BY <1>1, <1>3, <2>1, <2>4 DEF PassInv
  <2> QED BY <2>2, <2>5
<1> QED BY <1>4, <1>5

LEMMA StartKeeps ==
  ASSUME WindowInv, Start
  PROVE  Stated' /\ PassInv'
<1>1. /\ count \in Nat \ {0} /\ index \in 1 .. count /\ starts \in [1 .. count -> Moments]
      /\ durations \in [1 .. count -> Moments] /\ pass = "starts"
      /\ stated.starts \in [1 .. count -> Moments] /\ stated.durations \in [1 .. count -> Moments]
      /\ UNCHANGED <<count, stated, durations>>
  BY DEF WindowInv, Shape, Stated, Start
<1>2. /\ \A i \in 1 .. count : StartOK(i) /\ WindowOK(i)
      /\ ~changed => \A i \in 1 .. (count - 1) : DurationDone(i) /\ (i < index => StartDone(i))
  BY <1>1 DEF WindowInv, Stated, PassInv
<1>3. \/ index < count - 1 /\ index' = index + 1 /\ pass' = "starts"
      \/ ~(index < count - 1) /\ index' = 1 /\ pass' = "last"
  BY <1>1 DEF Start, Advance
<1>4. CASE index < count /\ starts[index + 1] = None /\ starts[index] # None /\ durations[index] # None
  <2>1. /\ starts' = [starts EXCEPT ![index + 1] = starts[index] + durations[index]]
        /\ changed' = TRUE /\ index + 1 \in 1 .. count /\ index + 1 # 1 /\ (index + 1) - 1 = index
    BY <1>1, <1>4 DEF Start
  <2>2. /\ \A i \in 1 .. count : i # index + 1 => starts'[i] = starts[i]
        /\ starts'[index + 1] = starts[index] + durations[index] /\ starts'[index] = starts[index]
    BY <1>1, <2>1
  <2>3. stated.starts[index + 1] = None
    BY <1>2, <1>4, <2>1 DEF StartOK
  <2>4. \A i \in 1 .. count : StartOK(i)'
    <3> SUFFICES ASSUME NEW i \in 1 .. count PROVE StartOK(i)'
      OBVIOUS
    <3>1. CASE i = index + 1
      BY <1>1, <1>4, <2>1, <2>2, <2>3, <3>1 DEF StartOK
    <3>2. CASE i # index + 1 /\ i = 1
      BY <1>1, <1>2, <2>2, <3>2 DEF StartOK
    <3>3. CASE i # index + 1 /\ i # 1
      <4>1. i - 1 \in 1 .. count /\ starts'[i] = starts[i]
            /\ (starts[i - 1] # None => starts'[i - 1] = starts[i - 1])
        BY <1>1, <1>4, <2>2, <3>3
      <4> QED BY <1>1, <1>2, <3>3, <4>1 DEF StartOK
    <3> QED BY <3>1, <3>2, <3>3
  <2>5. \A i \in 1 .. count : WindowOK(i)'
    <3>1. \A i \in 1 .. count : starts[i] # None => starts'[i] = starts[i]
      BY <1>4, <2>2
    <3> QED BY <1>1, <1>2, <3>1 DEF WindowOK, Until
  <2>6. PassInv'
    BY <1>3, <2>1 DEF PassInv
  <2> QED BY <1>1, <2>4, <2>5, <2>6 DEF Stated
<1>5. CASE ~(index < count /\ starts[index + 1] = None /\ starts[index] # None /\ durations[index] # None)
  <2>1. UNCHANGED <<starts, changed>>
    BY <1>5 DEF Start
  <2>2. Stated'
    BY <1>1, <1>2, <2>1 DEF Stated, StartOK, WindowOK, Until
  <2>3. index < count => StartDone(index)
    BY <1>5 DEF StartDone
  <2>4. ~changed => \A i \in 1 .. (count - 1) : DurationDone(i)' /\ (i <= index => StartDone(i)')
    BY <1>1, <1>2, <2>1, <2>3 DEF DurationDone, StartDone
  <2>5. PassInv'
    BY <1>1, <1>3, <2>1, <2>4 DEF PassInv
  <2> QED BY <2>2, <2>5
<1> QED BY <1>4, <1>5

LEMMA EndKeeps ==
  ASSUME WindowInv, EndOfPass
  PROVE  Stated' /\ PassInv'
<1> DEFINE rest == IF durations[count] # None \/ stated.total = None \/ starts[count] = None THEN 0
                   ELSE stated.total - starts[count]
<1>1. /\ count \in Nat \ {0} /\ index' = 1 /\ starts \in [1 .. count -> Moments]
      /\ durations \in [1 .. count -> Moments] /\ pass = "last" /\ changed' = FALSE
      /\ stated.starts \in [1 .. count -> Moments] /\ stated.durations \in [1 .. count -> Moments]
      /\ stated.total \in Moments /\ UNCHANGED <<count, stated, starts>>
      /\ durations' = (IF rest > 0 THEN [durations EXCEPT ![count] = rest] ELSE durations)
      /\ pass' = (IF changed \/ rest > 0 THEN "durations" ELSE "done")
  BY DEF WindowInv, Shape, Stated, EndOfPass
<1>2. /\ \A i \in 1 .. count : StartOK(i) /\ WindowOK(i)
      /\ ~changed => \A i \in 1 .. (count - 1) : DurationDone(i) /\ StartDone(i)
  BY <1>1 DEF WindowInv, Stated, PassInv
<1>3. rest \in Int
  BY <1>1 DEF Moments
<1>4. CASE rest > 0
  <2>1. /\ durations[count] = None /\ stated.total # None /\ starts[count] # None
        /\ rest = stated.total - starts[count]
    BY <1>4
  <2>2. /\ durations' = [durations EXCEPT ![count] = rest] /\ pass' = "durations"
        /\ \A i \in 1 .. count : i # count => durations'[i] = durations[i]
        /\ durations'[count] = rest
    BY <1>1, <1>4
  <2>3. \A i \in 1 .. count : StartOK(i)'
    <3>1. \A i \in 1 .. count : i # 1 => durations'[i - 1] = durations[i - 1]
      BY <1>1, <2>2
    <3> QED BY <1>1, <1>2, <3>1 DEF StartOK
  <2>4. \A i \in 1 .. count : WindowOK(i)'
    <3>1. Until(count) = stated.total /\ stated.durations[count] = None /\ stated.total > starts[count]
      BY <1>1, <1>2, <1>4, <2>1 DEF Until, WindowOK, Moments
    <3>2. \A i \in 1 .. count : Until(i)' = Until(i)
      BY <1>1 DEF Until
    <3> HIDE DEF rest
    <3> QED BY <1>1, <1>2, <2>1, <2>2, <3>1, <3>2 DEF WindowOK
  <2>5. PassInv'
    BY <1>1, <2>2 DEF PassInv
  <2> QED BY <1>1, <2>3, <2>4, <2>5 DEF Stated
<1>5. CASE ~(rest > 0)
  <2>1. durations' = durations /\ pass' = (IF changed THEN "durations" ELSE "done")
    BY <1>1, <1>5
  <2>2. Stated'
    BY <1>1, <1>2, <2>1 DEF Stated, StartOK, WindowOK, Until
  <2>3. LastDone
    BY <1>1, <1>5 DEF LastDone, Moments
  <2>4. ~changed => LastDone' /\ \A i \in 1 .. (count - 1) : DurationDone(i)' /\ StartDone(i)'
    BY <1>1, <1>2, <2>1, <2>3 DEF LastDone, DurationDone, StartDone
  <2>5. PassInv'
    BY <1>1, <2>1, <2>4 DEF PassInv
  <2> QED BY <2>2, <2>5
<1> QED BY <1>4, <1>5

LEMMA WindowNext == WindowInv /\ [Next]_vars => WindowInv'
<1> SUFFICES ASSUME WindowInv, [Next]_vars PROVE WindowInv'
  OBVIOUS
<1>1. Shape'
  BY ShapeStep DEF WindowInv
<1>2. CASE Next
  BY <1>2, DurationKeeps, StartKeeps, EndKeeps, <1>1 DEF Next, WindowInv
<1>3. CASE UNCHANGED vars
  BY <1>1, <1>3 DEF vars, WindowInv, Stated, PassInv, StartOK, WindowOK, Until, DurationDone,
                    StartDone, LastDone
<1> QED BY <1>2, <1>3

\* When the passes end, every start and window is the one that a single walk over
\* the Periods gives, however many passes it took (_period_window_seconds).
THEOREM WindowsResolved == Spec => []WindowsAreResolved
<1>1. WindowInv => WindowsAreResolved
  <2> SUFFICES ASSUME WindowInv, pass = "done", NEW i \in 1 .. count
               PROVE  StartFollows(i) /\ WindowFollows(i)
    BY DEF WindowsAreResolved
  <2>1. /\ count \in Nat \ {0} /\ starts \in [1 .. count -> Moments] /\ durations \in [1 .. count -> Moments]
        /\ stated.starts \in [1 .. count -> Moments] /\ stated.total \in Moments
        /\ \A j \in 1 .. count : StartOK(j) /\ WindowOK(j)
        /\ LastDone /\ \A j \in 1 .. (count - 1) : DurationDone(j) /\ StartDone(j)
    BY DEF WindowInv, Shape, Stated, PassInv
  <2>2. StartFollows(i)
    <3>1. CASE stated.starts[i] # None \/ i = 1
      BY <2>1, <3>1 DEF StartOK, StartFollows
    <3>2. CASE stated.starts[i] = None /\ i # 1
      <4>1. i - 1 \in 1 .. (count - 1) /\ (i - 1) + 1 = i
        BY <2>1, <3>2
      <4>2. StartDone(i - 1) /\ StartOK(i)
        BY <2>1, <4>1
      <4> QED BY <3>2, <4>1, <4>2 DEF StartDone, StartOK, StartFollows
    <3> QED BY <3>1, <3>2
  <2>3. WindowFollows(i)
    <3>1. CASE durations[i] # None
      BY <2>1, <3>1 DEF WindowOK, WindowFollows
    <3>2. CASE durations[i] = None
      <4>1. stated.durations[i] = None
        BY <2>1, <3>2 DEF WindowOK
      <4>2. CASE i = count
        BY <2>1, <3>2, <4>1, <4>2 DEF LastDone, Until, WindowFollows, Moments
      <4>3. CASE i < count
        <5>1. i \in 1 .. (count - 1) /\ i + 1 \in 1 .. count
          BY <2>1, <4>3
        <5>2. stated.starts[i + 1] # None => starts[i + 1] = stated.starts[i + 1]
          BY <2>1, <5>1 DEF StartOK
        <5>3. starts[i] = None \/ starts[i + 1] = None \/ starts[i + 1] <= starts[i]
          BY <2>1, <3>2, <5>1 DEF DurationDone
        <5> QED BY <2>1, <3>2, <4>1, <4>3, <5>1, <5>2, <5>3 DEF Until, WindowFollows, Moments
      <4> QED BY <2>1, <4>2, <4>3
    <3> QED BY <3>1, <3>2
  <2> QED BY <2>2, <2>3
<1> QED BY <1>1, WindowInit, WindowNext, PTL DEF Spec

-----------------------------------------------------------------------------
(* Induction over the numbers, for sets, and functions that go on from their own value. *)
Below == {ss \in Nat \X Nat : ss[1] < ss[2]}

\* Counting down comes to an end.
LEMMA BelowWF == IsWellFoundedOn(Below, Nat)
BY NatLessThanWellFounded DEF OpToRel, Below

\* A set of numbers that is not empty has a least one.
LEMMA Least ==
  ASSUME NEW T, T \subseteq Nat, T # {}
  PROVE  \E x \in T : \A y \in T : x <= y
<1>1. PICK x \in T : \A y \in T : ~(<<y, x>> \in Below)
  BY BelowWF, WFMin
<1>2. ASSUME NEW y \in T PROVE x <= y
  <2>1. <<y, x>> \in Nat \X Nat /\ x \in Nat /\ y \in Nat
    BY <1>1
  <2>2. <<y, x>> \notin Below
    BY <1>1
  <2>3. ~(<<y, x>>[1] < <<y, x>>[2])
    BY <2>1, <2>2 DEF Below
  <2> QED BY <2>1, <2>3
<1> QED BY <1>2

\* A set that holds 0 and goes on holds every number.
LEMMA Induct ==
  ASSUME NEW P, 0 \in P, \A n \in Nat : n \in P => n + 1 \in P
  PROVE  \A n \in Nat : n \in P
<1> SUFFICES ASSUME NEW m \in Nat, m \notin P PROVE FALSE
  OBVIOUS
<1> DEFINE T == {n \in Nat : n \notin P}
<1>1. PICK x \in T : \A y \in T : x <= y
  <2>1. T \subseteq Nat /\ T # {}
    OBVIOUS
  <2> QED BY <2>1, Least
<1>2. x # 0 /\ x - 1 \in Nat /\ x - 1 \in P
  BY <1>1
<1> QED BY <1>2, <1>1

\* f begins at base and goes on by G.
Unfolding(D, base, N, G, f) ==
  /\ f \in [0..N -> D] /\ f[0] = base
  /\ \A n \in 1..N : f[n] = G[<<f[n-1], n>>]

\* A function that goes on by a step that stays in D exists.
LEMMA Unfolds ==
  ASSUME NEW D, NEW base \in D, NEW N \in Nat, NEW G \in [D \X Nat -> D]
  PROVE  \E f : Unfolding(D, base, N, G, f)
<1> DEFINE Upto(f, m) == /\ f \in [0..m -> D] /\ f[0] = base
                         /\ \A n \in 1..m : f[n] = G[<<f[n-1], n>>]
           Ms == {m \in Nat : \E f : Upto(f, m)}
<1>1. 0 \in Ms
  <2> DEFINE g == [n \in 0..0 |-> base]
  <2>1. Upto(g, 0)
    OBVIOUS
  <2> QED BY <2>1, Zenon
<1>2. ASSUME NEW m \in Nat, m \in Ms PROVE m + 1 \in Ms
  <2>1. PICK f : Upto(f, m)
    BY <1>2
  <2> DEFINE g == [n \in 0..m + 1 |-> IF n <= m THEN f[n] ELSE G[<<f[m], m + 1>>]]
  <2>2. f[m] \in D /\ G[<<f[m], m + 1>>] \in D
    BY <2>1
  <2>3. \A n \in 0..m : g[n] = f[n]
    OBVIOUS
  <2>4. g[m + 1] = G[<<f[m], m + 1>>]
    OBVIOUS
  <2>5. g \in [0..m + 1 -> D]
    BY <2>1, <2>2
  <2> HIDE DEF g
  <2>6. ASSUME NEW n \in 1..m + 1 PROVE g[n] = G[<<g[n-1], n>>]
    <3>1. n - 1 \in 0..m /\ g[n-1] = f[n-1]
      BY <2>3
    <3>2. CASE n \in 1..m
      BY <2>1, <2>3, <3>1, <3>2
    <3>3. CASE n = m + 1
      BY <2>4, <3>1, <3>3
    <3> QED BY <3>2, <3>3
  <2>7. Upto(g, m + 1)
    BY <2>1, <2>3, <2>5, <2>6
  <2> HIDE DEF Upto
  <2> QED BY <2>7
<1> HIDE DEF Ms
<1>3. N \in Ms
  BY <1>1, <1>2, Induct
<1> QED BY <1>3 DEF Ms, Unfolding

-----------------------------------------------------------------------------
(* The choice of a variant. *)

\* i is the first of the highest bandwidth.
FirstBestAt(streams, at, i) ==
  i \in at /\ \A j \in at : /\ streams[j].bandwidth <= streams[i].bandwidth
                            /\ j < i => streams[j].bandwidth < streams[i].bandwidth

\* Of streams with a bandwidth there is one first of the highest.
LEMMA SomeFirstBest ==
  ASSUME NEW streams, NEW n \in Nat, NEW at, at \subseteq 1 .. n, at # {},
         \A i \in at : streams[i].bandwidth \in Int
  PROVE  \E i \in at : FirstBestAt(streams, at, i)
<1> DEFINE Upto(m) == {i \in at : i <= m}
           P == {m \in Nat : Upto(m) = {} \/ \E i \in Upto(m) : FirstBestAt(streams, Upto(m), i)}
<1>1. 0 \in P
  <2>1. Upto(0) = {}
    <3> SUFFICES ASSUME NEW i \in at, i <= 0 PROVE FALSE
      OBVIOUS
    <3>1. i \in 1 .. n
      OBVIOUS
    <3> QED BY <3>1
  <2> HIDE DEF Upto
  <2> QED BY <2>1
<1>2. ASSUME NEW m \in Nat, m \in P PROVE m + 1 \in P
  <2> DEFINE k == m + 1
  <2>1. \A j \in at : j \in Int /\ (j \in Upto(k) <=> j \in Upto(m) \/ j = k)
    OBVIOUS
  <2>2. CASE k \notin at
    <3>1. Upto(k) = Upto(m)
      BY <2>1, <2>2
    <3> HIDE DEF Upto
    <3> QED BY <1>2, <3>1
  <2>3. CASE k \in at /\ Upto(m) = {}
    <3>1. Upto(k) = {k}
      <4>1. \A j \in Upto(k) : j = k
        BY <2>1, <2>3
      <4>2. k \in Upto(k)
        BY <2>1, <2>3
      <4> HIDE DEF Upto
      <4> QED BY <4>1, <4>2
    <3>2. FirstBestAt(streams, {k}, k)
      BY <2>3 DEF FirstBestAt
    <3> HIDE DEF Upto, k
    <3>3. FirstBestAt(streams, Upto(k), k) /\ k \in Upto(k)
      BY <3>1, <3>2
    <3> QED BY <3>3 DEF k
  <2>4. CASE k \in at /\ Upto(m) # {}
    <3>1. PICK i \in Upto(m) : FirstBestAt(streams, Upto(m), i)
      BY <1>2, <2>4
    <3>2. Upto(k) = Upto(m) \cup {k} /\ i \in Upto(k) /\ k \in Upto(k) /\ i < k /\ k \in Int
          /\ \A j \in Upto(m) : j \in Int /\ j < k
      <4>1. \A j \in Upto(m) : j \in at /\ j \in Int /\ j < k
        BY <2>1
      <4>2. \A j \in Upto(k) : j \in at
        OBVIOUS
      <4>3. i \in Upto(m)
        OBVIOUS
      <4> HIDE DEF Upto
      <4>4. Upto(k) = Upto(m) \cup {k}
        BY <2>1, <2>4, <4>1, <4>2
      <4> QED BY <4>1, <4>3, <4>4
    <3>3. \A j \in Upto(k) : streams[j].bandwidth \in Int
      OBVIOUS
    <3> HIDE DEF Upto, k
    <3>4. CASE streams[k].bandwidth > streams[i].bandwidth
      <4>1. FirstBestAt(streams, Upto(k), k)
        <5> SUFFICES ASSUME NEW j \in Upto(k), j # k
                     PROVE  streams[j].bandwidth < streams[k].bandwidth
          BY <3>2, <3>3 DEF FirstBestAt
        <5>1. j \in Upto(m) /\ streams[j].bandwidth <= streams[i].bandwidth
          BY <3>1, <3>2 DEF FirstBestAt
        <5> QED BY <3>2, <3>3, <3>4, <5>1
      <4> QED BY <3>2, <4>1 DEF k
    <3>5. CASE ~(streams[k].bandwidth > streams[i].bandwidth)
      <4>1. k \in Int /\ i \in Int
        BY <3>2 DEF k
      <4>2. FirstBestAt(streams, Upto(k), i)
        <5>1. \A j \in Upto(m) : /\ streams[j].bandwidth <= streams[i].bandwidth
                                 /\ j < i => streams[j].bandwidth < streams[i].bandwidth
          BY <3>1 DEF FirstBestAt
        <5>2. streams[k].bandwidth <= streams[i].bandwidth /\ ~(k < i)
          BY <3>2, <3>3, <3>5, <4>1
        <5> QED BY <3>2, <5>1, <5>2 DEF FirstBestAt
      <4> QED BY <3>2, <4>2 DEF k
    <3> QED BY <3>4, <3>5
  <2> QED BY <2>2, <2>3, <2>4
<1> HIDE DEF P
<1>3. n \in P
  BY <1>1, <1>2, Induct
<1>4. Upto(n) = at
  <2>1. \A i \in at : i \in 1 .. n /\ i <= n
    OBVIOUS
  <2> QED BY <2>1
<1> HIDE DEF Upto
<1> QED BY <1>3, <1>4 DEF P

LEMMA IndexIs ==
  ASSUME NEW streams, NEW n \in Nat, NEW at, at \subseteq 1 .. n, at # {},
         \A i \in at : streams[i].bandwidth \in Int
  PROVE  FirstBestAt(streams, at, IndexOfMax(streams, at))
<1>1. PICK i \in at : FirstBestAt(streams, at, i)
  BY SomeFirstBest
<1> QED BY <1>1, Zenon DEF FirstBestAt, IndexOfMax

\* There is no other.
LEMMA OneFirstBest ==
  ASSUME NEW streams, NEW at, at \subseteq Nat, \A i \in at : streams[i].bandwidth \in Int,
         NEW i, FirstBestAt(streams, at, i), NEW j, FirstBestAt(streams, at, j)
  PROVE  i = j
BY DEF FirstBestAt

\* The lines that were read are lines.
MasterTypeOK == variants \in Seq(Variants)

LEMMA MasterTyped == MasterSpec => []MasterTypeOK
<1>1. MasterInit => MasterTypeOK
  BY DEF MasterInit, MasterTypeOK
<1>2. MasterTypeOK /\ [MasterNext]_masterVars => MasterTypeOK'
  BY DEF MasterTypeOK, MasterNext, ReadVariant, ReadMedia, ReadTagged, masterVars
<1> QED BY <1>1, <1>2, PTL DEF MasterSpec

\* A further variant leaves the choice as it is, or is better.
LEMMA VariantAdded ==
  ASSUME MasterTypeOK, NEW v \in Variants, variants' = Append(variants, v)
  PROVE  VariantKeptUnlessBetter
<1> DEFINE n == Len(variants)
           at == Usable(variants)
           bt == Usable(variants')
<1>1. n \in Nat /\ variants' \in Seq(Variants) /\ Len(variants') = n + 1 /\ variants'[n + 1] = v
      /\ \A i \in 1 .. n : variants'[i] = variants[i]
      /\ DOMAIN variants = 1 .. n /\ DOMAIN variants' = 1 .. n + 1
  BY DEF MasterTypeOK
<1>2. at \subseteq 1 .. n /\ bt \subseteq 1 .. n + 1
      /\ \A i \in 1 .. n : i \in bt <=> i \in at
  BY <1>1 DEF Usable
<1>3. /\ \A i \in at : variants[i].bandwidth \in Int /\ variants'[i].bandwidth = variants[i].bandwidth
      /\ \A i \in bt : variants'[i].bandwidth \in Int
  <2>1. \A i \in 1 .. n : variants[i] \in Variants
    BY <1>1 DEF MasterTypeOK
  <2>2. \A i \in 1 .. n + 1 : variants'[i] \in Variants
    BY <1>1
  <2> QED BY <1>1, <1>2, <2>1, <2>2, MasterAssumption DEF Usable
<1> DEFINE i == IndexOfMax(variants, at)
           k == IndexOfMax(variants', bt)
<1>4. CASE at = {}
  BY <1>4 DEF VariantKeptUnlessBetter, PreferredHlsStream
<1>5. CASE at # {}
  <2>1. bt # {}
    BY <1>1, <1>2, <1>5
  <2>2. PreferredHlsStream = variants[i] /\ PreferredHlsStream' = variants'[k]
    BY <1>5, <2>1 DEF PreferredHlsStream
  <2> HIDE DEF at, bt
  <2>3. FirstBestAt(variants, at, i)
    BY <1>1, <1>2, <1>3, <1>5, IndexIs
  <2>4. FirstBestAt(variants', bt, k)
    <3>1. n + 1 \in Nat
      BY <1>1
    <3> QED BY <1>2, <1>3, <2>1, <3>1, IndexIs
  <2> HIDE DEF i, k
  <2>5. i \in 1 .. n /\ i \in bt /\ k \in 1 .. n + 1 /\ variants'[i] = variants[i]
    BY <1>1, <1>2, <2>3, <2>4 DEF FirstBestAt
  <2>6. CASE k \in 1 .. n
    <3>1. FirstBestAt(variants, at, k)
      BY <1>1, <1>2, <1>3, <2>4, <2>6 DEF FirstBestAt
    <3>2. at \subseteq Nat
      BY <1>1, <1>2
    <3>3. i = k
      BY <1>3, <2>3, <3>1, <3>2, OneFirstBest
    <3> QED BY <2>2, <2>5, <3>3 DEF VariantKeptUnlessBetter
  <2>7. CASE k = n + 1
    <3>1. i < k
      BY <1>1, <2>5, <2>7
    <3>2. variants'[i].bandwidth < variants'[k].bandwidth
      BY <2>4, <2>5, <3>1 DEF FirstBestAt
    <3>3. variants'[i].bandwidth \in Int /\ variants'[k].bandwidth \in Int
      BY <1>3, <2>4, <2>5 DEF FirstBestAt
    <3>4. variants'[k].bandwidth > variants[i].bandwidth
      BY <2>5, <3>2, <3>3
    <3> QED BY <2>2, <3>4 DEF VariantKeptUnlessBetter
  <2> QED BY <1>1, <2>5, <2>6, <2>7
<1> QED BY <1>4, <1>5

\* A rendition inside the variant keeps its alternates out.
LEMMA MuxedKeepsOut ==
  ASSUME NEW i \in DOMAIN media, media[i].kind = "audio", media[i].uri = None, media[i].default,
         GroupOf("audio") \in {None, media[i].group}
  PROVE  AudioUrls = <<>>
<1>1. i \in Entries(media, "audio", GroupOf("audio"))
  BY DEF Entries
<1>2. Muxed(media, "audio", GroupOf("audio"))
  BY <1>1, Zenon DEF Muxed
<1> QED BY <1>2 DEF AudioUrls, RenditionUrls

\* Whatever lines a master has and in whatever order.
THEOREM ChoiceStays == MasterSpec => ChoiceIsStable
<1>1. MuxedAudioIsNotRecorded
  BY MuxedKeepsOut DEF MuxedAudioIsNotRecorded
<1>2. ASSUME MasterTypeOK, [MasterNext]_masterVars PROVE VariantKeptUnlessBetter
  <2>1. CASE \E v \in Variants : variants' = Append(variants, v)
    BY <1>2, <2>1, VariantAdded
  <2>2. CASE variants' = variants
    BY <2>2 DEF VariantKeptUnlessBetter, PreferredHlsStream
  <2> QED BY <1>2, <2>1, <2>2 DEF MasterNext, ReadVariant, ReadMedia, ReadTagged, masterVars
<1>3. VideoBeforeIframes
  <2> SUFFICES ASSUME RenditionUrls(media, "video", GroupOf("video")) # <<>>, media' = media, variants' = variants
               PROVE  VideoUrls' = VideoUrls
    BY DEF VideoBeforeIframes
  <2>1. GroupOf("video")' = GroupOf("video")
    BY DEF GroupOf, PreferredHlsStream
  <2> DEFINE group == GroupOf("video")
  <2>2. VideoUrls = RenditionUrls(media, "video", group)
    BY DEF VideoUrls
  <2>3. VideoUrls' = RenditionUrls(media', "video", group')
    BY <2>1 DEF VideoUrls
  <2> QED BY <2>1, <2>2, <2>3
<1>4. MasterTypeOK /\ [MasterNext]_masterVars => [VariantKeptUnlessBetter /\ VideoBeforeIframes]_masterVars
  BY <1>2, <1>3
<1> QED BY <1>1, <1>4, MasterTyped, PTL DEF MasterSpec, ChoiceIsStable

-----------------------------------------------------------------------------
(* What a template says: a walk over its S elements. *)

\* A segment of a duration begins before the length is over exactly if it is one
\* of those that fit.
LEMMA FittedBegin ==
  ASSUME NEW length \in Int, NEW d \in Nat \ {0}
  PROVE  /\ Fitted(length, d) \in Int
         /\ \A e \in Int : e < Fitted(length, d) <=> e * d < length
<1> DEFINE a == length + d - 1
           q == a \div d
<1>1. a \in Int
  OBVIOUS
<1>2. q \in Int /\ q * d <= a /\ a < q * d + d
  <2> HIDE DEF a
  <2> QED BY <1>1
<1> HIDE DEF q
<1>3. ASSUME NEW e \in Int PROVE e < q <=> e * d < length
  <2>1. \A x, y \in Int : x <= y => x * d <= y * d
    OBVIOUS
  <2>2. (e + 1) * d = e * d + d /\ e * d \in Int /\ q * d \in Int
    BY <1>2
  <2>3. CASE e < q
    <3>1. (e + 1) * d <= q * d
      <4>1. e + 1 \in Int /\ e + 1 <= q
        BY <1>2, <2>3
      <4> QED BY <1>2, <2>1, <4>1
    <3> QED BY <1>2, <2>2, <2>3, <3>1
  <2>4. CASE ~(e < q)
    <3>1. q * d <= e * d
      BY <1>2, <2>1, <2>4
    <3> QED BY <1>2, <2>2, <2>4, <3>1
  <2> QED BY <2>3, <2>4
<1> QED BY <1>2, <1>3 DEF Fitted, q

\* A locator, and how far a walk over the elements has come.
Located == [number: Int, time: Int \cup {None}, sub: Int \cup {None}]
Walk == [clock: Int, number: Int, urls: Seq(Located)]

\* What an S element says after a walk: where it begins, how often it repeats, and
\* its locators.
From(walk, s) == IF s.t = None THEN walk.clock ELSE s.t
First(walk, s) == IF s.n = None THEN walk.number ELSE s.n
Numbered(s) == Keyed /\ s.k # None /\ s.r = 0
Turns(walk, s) ==
  IF s.r >= 0 THEN s.r + 1
  ELSE IF s.d > 0 /\ Period # None THEN Greater(Fitted(Period - From(walk, s), s.d), 0)
  ELSE MaxSegments
Said(walk, s) ==
  IF Numbered(s) THEN [j \in 1 .. Greater(s.k, 1) |-> Named(First(walk, s), From(walk, s), j)]
  ELSE IF Keyed THEN <<>>
  ELSE [i \in 1 .. Turns(walk, s) |-> Named(First(walk, s) + i - 1, From(walk, s) + (i - 1) * s.d, None)]

\* Expanded in these terms.
LEMMA ExpandedIs ==
  ASSUME NEW walk, NEW s
  PROVE  Expanded(walk, s) =
           [clock |-> From(walk, s) + Turns(walk, s) * s.d,
            number |-> First(walk, s) + Turns(walk, s),
            urls |-> walk.urls \o Said(walk, s)]
BY DEF Expanded, From, First, Turns, Said, Numbered

\* The parts of a template.
LEMMA TemplateTyped ==
  ASSUME template \in Templates
  PROVE  /\ Timeline \in Seq(Sample) /\ Period \in Nat \cup {None}
         /\ EndNumber \in Int \cup {None} /\ Keyed \in BOOLEAN
<1>1. template \in SegmentTemplate
  BY TemplateAssumption
<1> QED BY <1>1 DEF SegmentTemplate, Timeline, Period, EndNumber, Keyed

\* An element says as many locators as it has segments or subsegments.
LEMMA SaidTyped ==
  ASSUME template \in Templates, NEW walk \in Walk, NEW s \in Sample
  PROVE  /\ From(walk, s) \in Int /\ First(walk, s) \in Int /\ Turns(walk, s) \in Nat
         /\ Numbered(s) \in BOOLEAN /\ (Numbered(s) => s.k \in Int /\ Turns(walk, s) = 1)
         /\ Said(walk, s) \in Seq(Located)
         /\ Len(Said(walk, s)) = IF Numbered(s) THEN Greater(s.k, 1)
                                 ELSE IF Keyed THEN 0 ELSE Turns(walk, s)
<1>1. From(walk, s) \in Int /\ First(walk, s) \in Int /\ Numbered(s) \in BOOLEAN
  BY TemplateTyped DEF From, First, Numbered, Walk, Sample
<1>2. Turns(walk, s) \in Nat
  <2>1. CASE s.r >= 0
    BY <2>1 DEF Turns, Sample
  <2>2. CASE ~(s.r >= 0) /\ s.d > 0 /\ Period # None
    <3>1. Period - From(walk, s) \in Int /\ s.d \in Nat \ {0}
      BY <1>1, <2>2, TemplateTyped DEF Sample
    <3>2. Fitted(Period - From(walk, s), s.d) \in Int
      BY <3>1, FittedBegin
    <3> QED BY <2>2, <3>2 DEF Turns, Greater
  <2>3. CASE ~(s.r >= 0) /\ ~(s.d > 0 /\ Period # None)
    BY <2>3, TemplateAssumption DEF Turns
  <2> QED BY <2>1, <2>2, <2>3
<1>3. Numbered(s) => s.k \in Int /\ Turns(walk, s) = 1
  BY DEF Numbered, Turns, Sample
<1> DEFINE f == First(walk, s)
           from == From(walk, s)
           times == Turns(walk, s)
<1> HIDE DEF f, from, times
<1>4. CASE Numbered(s)
  <2> DEFINE n == Greater(s.k, 1)
             said == [j \in 1 .. n |-> Named(f, from, j)]
  <2>1. n \in Nat
    BY <1>3, <1>4 DEF Greater
  <2> HIDE DEF n
  <2>2. \A j \in 1 .. n : Named(f, from, j) \in Located
    BY <1>1, <2>1 DEF Named, Located, f, from
  <2>3. said \in Seq(Located) /\ Len(said) = n
    BY <2>1, <2>2
  <2>4. Said(walk, s) = said
    BY <1>4 DEF Said, f, from, n
  <2> HIDE DEF said
  <2> QED BY <1>1, <1>2, <1>3, <1>4, <2>3, <2>4 DEF n
<1>5. CASE ~Numbered(s) /\ Keyed
  <2>1. Said(walk, s) = <<>>
    BY <1>5 DEF Said
  <2> QED BY <1>1, <1>2, <1>3, <1>5, <2>1
<1>6. CASE ~Numbered(s) /\ ~Keyed
  <2> DEFINE at(i) == Named(f + i - 1, from + (i - 1) * s.d, None)
             said == [i \in 1 .. times |-> at(i)]
  <2>1. ASSUME NEW i \in 1 .. times PROVE at(i) \in Located
    <3>1. i \in Int /\ f \in Int /\ from \in Int /\ s.d \in Int
      BY <1>1, <1>2 DEF f, from, times, Sample
    <3>2. \A x, y \in Int : x * y \in Int
      OBVIOUS
    <3>3. i - 1 \in Int
      BY <3>1
    <3>4. (i - 1) * s.d \in Int
      BY <3>1, <3>2, <3>3
    <3>5. from + (i - 1) * s.d \in Int /\ f + i - 1 \in Int
      BY <3>1, <3>4
    <3> DEFINE t == from + (i - 1) * s.d
               n == f + i - 1
    <3> HIDE DEF t, n
    <3>6. Named(n, t, None) \in Located
      BY <3>5 DEF Named, Located, t, n
    <3> QED BY <3>6 DEF t, n
  <2> HIDE DEF at
  <2>2. said \in Seq(Located) /\ Len(said) = times
    BY <1>2, <2>1 DEF times
  <2>3. Said(walk, s) = said
    BY <1>6 DEF Said, f, from, times, at
  <2> HIDE DEF said
  <2> QED BY <1>1, <1>2, <1>3, <1>6, <2>2, <2>3 DEF times
<1> QED BY <1>1, <1>4, <1>5, <1>6

\* The walk over the elements exists, and it is what its definition says.
LEMMA Walks ==
  ASSUME template \in Templates
  PROVE  /\ Walked[0] = [clock |-> 0, number |-> StartNumber, urls |-> <<>>]
         /\ \A n \in 1 .. Len(Timeline) : Walked[n] = Expanded(Walked[n - 1], Timeline[n])
         /\ \A n \in 0 .. Len(Timeline) : Walked[n] \in Walk
<1> DEFINE N == Len(Timeline)
           start == [clock |-> 0, number |-> StartNumber, urls |-> <<>>]
           After(f, n) == IF n = 0 THEN start ELSE Expanded(f[n - 1], Timeline[n])
           Reads(f) == f = [n \in 0 .. N |-> After(f, n)]
           G == [q \in Walk \X Nat |-> IF q[2] \in 1 .. N THEN Expanded(q[1], Timeline[q[2]]) ELSE start]
<1>1. N \in Nat /\ \A i \in 1 .. N : Timeline[i] \in Sample
  BY TemplateTyped
<1>2. start \in Walk
  BY TemplateAssumption DEF Walk
<1>3. ASSUME NEW walk \in Walk, NEW s \in Sample PROVE Expanded(walk, s) \in Walk
  <2>1. walk.urls \o Said(walk, s) \in Seq(Located)
    BY SaidTyped, ConcatProperties DEF Walk
  <2>2. From(walk, s) + Turns(walk, s) * s.d \in Int /\ First(walk, s) + Turns(walk, s) \in Int
    <3>1. From(walk, s) \in Int /\ First(walk, s) \in Int /\ Turns(walk, s) \in Int /\ s.d \in Int
      BY SaidTyped DEF Sample
    <3>2. \A x, y, z \in Int : x + y * z \in Int
      OBVIOUS
    <3> QED BY <3>1, <3>2
  <2> DEFINE clock0 == From(walk, s) + Turns(walk, s) * s.d
             number0 == First(walk, s) + Turns(walk, s)
             urls0 == walk.urls \o Said(walk, s)
  <2>3. Expanded(walk, s) = [clock |-> clock0, number |-> number0, urls |-> urls0]
    BY ExpandedIs
  <2> HIDE DEF clock0, number0, urls0
  <2> QED BY <2>1, <2>2, <2>3 DEF Walk, clock0, number0, urls0
<1>4. G \in [Walk \X Nat -> Walk]
  <2> HIDE DEF start, N
  <2> QED BY <1>1, <1>2, <1>3
<1>5. \E f : Reads(f)
  <2> HIDE DEF G
  <2>1. PICK f : Unfolding(Walk, start, N, G, f)
    <3> HIDE DEF N, start
    <3> QED BY <1>1, <1>2, <1>4, Unfolds
  <2>2. f \in [0..N -> Walk] /\ f[0] = start /\ \A n \in 1..N : f[n] = G[<<f[n-1], n>>]
    BY <2>1 DEF Unfolding
  <2>3. \A n \in 0 .. N : f[n] = After(f, n)
    <3> SUFFICES ASSUME NEW n \in 1 .. N PROVE f[n] = Expanded(f[n - 1], Timeline[n])
      BY <2>2
    <3> DEFINE q == <<f[n - 1], n>>
    <3>1. q \in Walk \X Nat /\ q[1] = f[n - 1] /\ q[2] = n
      <4>1. n - 1 \in 0 .. N /\ f[n - 1] \in Walk
        BY <1>1, <2>2
      <4> QED BY <1>1, <4>1
    <3>2. G[q] = Expanded(f[n - 1], Timeline[n])
      <4> HIDE DEF q
      <4> QED BY <3>1 DEF G
    <3> QED BY <2>2, <3>2
  <2>4. f = [n \in 0 .. N |-> f[n]]
    BY <2>2
  <2> HIDE DEF After
  <2>5. f = [n \in 0 .. N |-> After(f, n)]
    BY <2>3, <2>4
  <2> QED BY <2>5, Zenon
<1> DEFINE F == CHOOSE f : Reads(f)
<1>6. Reads(F)
  BY <1>5, Zenon
<1>7. Walked = F
  BY Zenon DEF Walked
<1> HIDE DEF F
<1>8. \A n \in 0 .. N : F[n] = After(F, n)
  <2> HIDE DEF After
  <2> QED BY <1>6
<1>9. F[0] = start /\ \A n \in 1 .. N : F[n] = Expanded(F[n - 1], Timeline[n])
  BY <1>1, <1>8
<1> DEFINE Ms == {m \in Nat : m <= N => F[m] \in Walk}
<1> HIDE DEF start
<1>10. 0 \in Ms
  BY <1>2, <1>9
<1>11. ASSUME NEW m \in Nat, m \in Ms PROVE m + 1 \in Ms
  <2> SUFFICES ASSUME m + 1 <= N PROVE F[m + 1] \in Walk
    OBVIOUS
  <2>1. m + 1 \in 1 .. N /\ (m + 1) - 1 = m /\ F[m] \in Walk
    BY <1>1, <1>11
  <2>2. F[m + 1] = Expanded(F[m], Timeline[m + 1])
    BY <1>9, <2>1
  <2> QED BY <1>1, <1>3, <2>1, <2>2
<1> HIDE DEF Ms
<1>12. \A m \in Nat : m \in Ms
  BY <1>10, <1>11, Induct
<1>13. \A m \in 0 .. N : F[m] \in Walk
  BY <1>1, <1>12 DEF Ms
<1> QED BY <1>7, <1>9, <1>13 DEF start

\* IsPrefix, element by element.
Prefix(s, t) == Len(s) <= Len(t) /\ \A i \in 1 .. Len(s) : s[i] = t[i]

\* What is appended leaves the beginning as it is.
LEMMA PrefixAppended ==
  ASSUME NEW S, NEW s \in Seq(S), NEW t \in Seq(S)
  PROVE  /\ Prefix(s, s \o t)
         /\ \A u \in Seq(S) : Prefix(u, s) => Prefix(u, s \o t)
<1>1. Len(s) \in Nat /\ Len(t) \in Nat /\ Len(s \o t) = Len(s) + Len(t)
      /\ \A i \in 1 .. Len(s) : (s \o t)[i] = s[i]
  OBVIOUS
<1>2. \A u \in Seq(S) : Len(u) \in Nat
  OBVIOUS
<1> QED BY <1>1, <1>2 DEF Prefix

\* A walk has a clock, a number and locators.
LEMMA WalkTyped ==
  ASSUME template \in Templates, NEW n \in 0 .. Len(Timeline)
  PROVE  /\ Walked[n].urls \in Seq(Located) /\ Len(Walked[n].urls) \in Nat
         /\ Walked[n].clock \in Int /\ Walked[n].number \in Int
<1>1. Walked[n] \in Walk
  BY Walks
<1> QED BY <1>1 DEF Walk

\* An element adds to what was said before.
LEMMA WalkGoesOn ==
  ASSUME template \in Templates, NEW n \in 1 .. Len(Timeline)
  PROVE  /\ n - 1 \in 0 .. Len(Timeline) /\ Timeline[n] \in Sample /\ Walked[n - 1] \in Walk
         /\ Walked[n].urls = Walked[n - 1].urls \o Said(Walked[n - 1], Timeline[n])
         /\ Walked[n].number = First(Walked[n - 1], Timeline[n]) + Turns(Walked[n - 1], Timeline[n])
         /\ Walked[n].clock = From(Walked[n - 1], Timeline[n])
                                + Turns(Walked[n - 1], Timeline[n]) * Timeline[n].d
<1>1. n - 1 \in 0 .. Len(Timeline) /\ Timeline[n] \in Sample
  BY TemplateTyped
<1> DEFINE walk == Walked[n - 1]
           s == Timeline[n]
<1>2. Walked[n] = Expanded(walk, s) /\ walk \in Walk
  BY <1>1, Walks
<1> HIDE DEF walk, s
<1>3. /\ Expanded(walk, s).urls = walk.urls \o Said(walk, s)
      /\ Expanded(walk, s).number = First(walk, s) + Turns(walk, s)
      /\ Expanded(walk, s).clock = From(walk, s) + Turns(walk, s) * s.d
  BY ExpandedIs
<1> QED BY <1>1, <1>2, <1>3 DEF walk, s

\* What an element says begins what the whole timeline says.
LEMMA WalkGrows ==
  ASSUME template \in Templates, NEW m \in 0 .. Len(Timeline), NEW u \in Seq(Located),
         Prefix(u, Walked[m].urls)
  PROVE  Prefix(u, Walked[Len(Timeline)].urls)
<1> DEFINE N == Len(Timeline)
           Ms == {j \in Nat : m + j <= N => Prefix(u, Walked[m + j].urls)}
<1>1. N \in Nat /\ m \in Nat /\ m <= N
  BY TemplateTyped
<1>2. 0 \in Ms
  <2>1. m + 0 = m
    BY <1>1
  <2> QED BY <2>1
<1>3. ASSUME NEW j \in Nat, j \in Ms PROVE j + 1 \in Ms
  <2> SUFFICES ASSUME m + (j + 1) <= N PROVE Prefix(u, Walked[m + (j + 1)].urls)
    OBVIOUS
  <2> DEFINE n == m + (j + 1)
  <2>1. n \in 1 .. N /\ n - 1 = m + j /\ m + j <= N
    BY <1>1
  <2>2. Prefix(u, Walked[m + j].urls)
    BY <1>3, <2>1
  <2> HIDE DEF n
  <2>3. /\ Walked[n].urls = Walked[n - 1].urls \o Said(Walked[n - 1], Timeline[n])
        /\ n - 1 \in 0 .. N /\ Timeline[n] \in Sample /\ Walked[n - 1] \in Walk
    BY <2>1, WalkGoesOn
  <2>4. Walked[n - 1].urls \in Seq(Located) /\ Said(Walked[n - 1], Timeline[n]) \in Seq(Located)
    BY <2>3, SaidTyped DEF Walk
  <2>5. Prefix(u, Walked[n - 1].urls)
    BY <2>1, <2>2
  <2>6. Prefix(u, Walked[n].urls)
    BY <2>3, <2>4, <2>5, PrefixAppended
  <2> QED BY <2>6 DEF n
<1> HIDE DEF Ms
<1>4. \A j \in Nat : j \in Ms
  BY <1>2, <1>3, Induct
<1>5. N - m \in Nat /\ m + (N - m) = N
  BY <1>1
<1>6. N - m \in Ms
  BY <1>4, <1>5
<1> QED BY <1>1, <1>5, <1>6 DEF Ms

\* The S elements that were read.
Read == Len(Timeline) - Len(left)

\* What the steps rely on: the elements that are left are the last of the timeline,
\* and no more is written than the bound allows.
TemplateTypeOK ==
  /\ template \in Templates
  /\ left \in Seq(Sample) /\ Len(left) <= Len(Timeline)
  /\ \A i \in 1 .. Len(left) : left[i] = Timeline[Read + i]
  /\ repeats \in Nat /\ subs \in (Nat \ {0}) \cup {None}
  /\ number \in Int /\ clock \in Int \cup {None} /\ (Timeline # <<>> => clock \in Int)
  /\ urls \in Seq(Located) /\ Len(urls) <= MaxSegments

\* Segments that are counted: so many are written and so many are left.
CountsUp ==
  EndNumber = None /\ SegmentDuration > 0 /\ ~Keyed /\ Period \notin {None, 0} =>
    /\ subs = None /\ clock = Len(urls) * SegmentDuration
    /\ Len(urls) + repeats = Lesser(Fitted(Period, SegmentDuration), MaxSegments)

\* Nothing is left of the S element that was read last.
Settled ==
  /\ Len(urls) = Len(Walked[Read].urls)
  /\ \/ Keyed /\ left = <<>>
     \/ number = Walked[Read].number /\ clock = Walked[Read].clock

\* So many of its repeats are behind, and those to come are the rest or fill the
\* bound, if they are not those of an S without locators at the end.
Within(walk, s, behind) ==
  LET all == behind + repeats
  IN  /\ behind \in Nat /\ all <= Turns(walk, s)
      /\ number = First(walk, s) + behind /\ clock = From(walk, s) + behind * s.d
      /\ subs = IF Numbered(s) THEN Greater(s.k, 1) ELSE None
      /\ Len(urls) = Len(walk.urls) + (IF Keyed THEN 0 ELSE behind)
      /\ all < Turns(walk, s) => \/ Keyed /\ left = <<>>
                                 \/ ~Keyed /\ Len(walk.urls) + all >= MaxSegments

\* What is written begins what the elements read so far say, and unless the bound is
\* reached the number and the clock are where the walk has them.
WalksOn ==
  /\ Prefix(urls, Walked[Read].urls)
  /\ Len(urls) < MaxSegments /\ repeats = 0 => Settled
  /\ Len(urls) < MaxSegments /\ repeats > 0 =>
       Read >= 1 /\ Within(Walked[Read - 1], Timeline[Read], number - First(Walked[Read - 1], Timeline[Read]))

\* Counted without a timeline, read with one.
TemplateInv ==
  /\ TemplateTypeOK
  /\ Timeline = <<>> => CountsUp
  /\ Timeline # <<>> => WalksOn

-----------------------------------------------------------------------------
\* The template is taken with nothing written yet.
LEMMA TemplateInvInit == TemplateInit => TemplateInv
<1> SUFFICES ASSUME TemplateInit PROVE TemplateInv
  OBVIOUS
<1>1. template \in Templates /\ left = Timeline /\ urls = <<>> /\ number = StartNumber /\ subs = None
      /\ Timeline \in Seq(Sample) /\ Period \in Nat \cup {None}
      /\ EndNumber \in Int \cup {None} /\ Keyed \in BOOLEAN
  BY TemplateTyped DEF TemplateInit
<1>2. Read = 0 /\ Len(left) = Len(Timeline) /\ Len(urls) = 0 /\ Len(Timeline) \in Nat
  BY <1>1 DEF Read
<1>3. /\ Timeline = <<>> => repeats = Counted /\ (LastNumber # None => clock = 0)
      /\ Timeline # <<>> => repeats = 0 /\ clock = 0
      /\ clock \in {0, None}
  <2>1. repeats = IF Timeline = <<>> THEN Counted ELSE 0
    BY Zenon DEF TemplateInit
  <2>2. clock = IF Timeline = <<>> /\ LastNumber = None THEN None ELSE 0
    BY Zenon DEF TemplateInit
  <2> QED BY <2>1, <2>2
<1> DEFINE fit == Fitted(Period, SegmentDuration)
<1>4. ASSUME SegmentDuration > 0, Period \notin {None, 0} PROVE fit \in Nat \ {0}
  <2>1. SegmentDuration \in Nat \ {0} /\ Period \in Int /\ Period > 0
    BY <1>1, <1>4, TemplateAssumption
  <2>2. fit \in Int /\ (0 < fit <=> 0 * SegmentDuration < Period)
    BY <2>1, FittedBegin
  <2> HIDE DEF fit
  <2> QED BY <2>1, <2>2
<1> HIDE DEF fit
<1>5. Counted \in Nat
  <2>1. CASE EndNumber # None
    BY <1>1, <2>1, TemplateAssumption DEF Counted, LastNumber, Lesser, Greater
  <2>2. CASE EndNumber = None /\ SegmentDuration > 0 /\ Period \notin {None, 0}
    <3>1. LastNumber = StartNumber + Lesser(fit, MaxSegments) - 1
      BY <2>2 DEF LastNumber, fit
    <3> QED BY <1>4, <2>2, <3>1, TemplateAssumption DEF Counted, Lesser
  <2>3. CASE EndNumber = None /\ ~(SegmentDuration > 0 /\ Period \notin {None, 0})
    BY <2>3 DEF Counted, LastNumber
  <2> QED BY <2>1, <2>2, <2>3
<1>6. TemplateTypeOK
  <2>1. \A i \in 1 .. Len(left) : left[i] = Timeline[Read + i]
    BY <1>1, <1>2
  <2>2. urls \in Seq(Located) /\ Len(urls) <= MaxSegments
    BY <1>1, <1>2, TemplateAssumption
  <2> QED BY <1>1, <1>2, <1>3, <1>5, <2>1, <2>2, TemplateAssumption DEF TemplateTypeOK
<1>7. ASSUME Timeline = <<>> PROVE CountsUp
  <2> SUFFICES ASSUME EndNumber = None, SegmentDuration > 0, ~Keyed, Period \notin {None, 0}
               PROVE  /\ clock = Len(urls) * SegmentDuration
                      /\ Len(urls) + repeats = Lesser(fit, MaxSegments)
    BY <1>1 DEF CountsUp, fit
  <2>1. LastNumber = StartNumber + Lesser(fit, MaxSegments) - 1
    BY DEF LastNumber, fit
  <2>2. Lesser(fit, MaxSegments) \in Nat
    BY <1>4, TemplateAssumption DEF Lesser
  <2>3. LastNumber # None /\ Counted = Lesser(fit, MaxSegments)
    BY <2>1, <2>2, TemplateAssumption DEF Counted
  <2> QED BY <1>2, <1>3, <1>7, <2>2, <2>3, TemplateAssumption
<1>8. ASSUME Timeline # <<>> PROVE WalksOn
  <2>1. Walked[0].urls = <<>> /\ Walked[0].number = StartNumber /\ Walked[0].clock = 0
    BY <1>1, Walks
  <2>2. Prefix(urls, Walked[0].urls)
    BY <1>1, <2>1 DEF Prefix
  <2> QED BY <1>1, <1>2, <1>3, <1>8, <2>1, <2>2 DEF WalksOn, Settled
<1> QED BY <1>6, <1>7, <1>8 DEF TemplateInv

\* The template stays, and with it what it says.
LEMMA SameTemplate ==
  ASSUME template' = template
  PROVE  /\ Timeline' = Timeline /\ Period' = Period /\ EndNumber' = EndNumber /\ Keyed' = Keyed
         /\ Walked' = Walked
BY DEF Timeline, Period, EndNumber, Keyed, Walked, Expanded

\* How often S is repeated in the code.
LEMMA CountFits ==
  ASSUME TemplateTypeOK, RepeatsFit, NEW walk \in Walk, NEW n \in 1 .. Len(Timeline),
         Len(urls) = Len(walk.urls), Len(urls) < MaxSegments
  PROVE  LET s == Timeline[n]
             often == Greater(Count(s, From(walk, s)), 0)
         IN  /\ often \in Nat /\ often <= Turns(walk, s)
             /\ often = 0 => Turns(walk, s) = 0
             /\ often < Turns(walk, s) => \/ Keyed /\ n = Len(Timeline)
                                          \/ ~Keyed /\ Len(walk.urls) + often >= MaxSegments
<1> DEFINE s == Timeline[n]
           from == From(walk, s)
           times == Turns(walk, s)
           room == MaxSegments - Len(urls)
           fit == Fitted(Period - from, s.d)
<1>1. s \in Sample /\ Len(urls) \in Nat /\ Keyed \in BOOLEAN /\ room \in Nat \ {0} /\ MaxSegments \in Nat
      /\ Period \in Nat \cup {None} /\ template \in Templates /\ Len(Timeline) \in Nat
  BY TemplateTyped, TemplateAssumption DEF TemplateTypeOK
<1>2. from \in Int /\ times \in Nat /\ s.r \in Int
  <2> HIDE DEF s
  <2> QED BY <1>1, SaidTyped DEF Sample
<1>3. Keyed /\ n # Len(Timeline) => s.r \in 0 .. MaxSegments - 1
  <2> SUFFICES ASSUME Keyed, n # Len(Timeline) PROVE s.r \in 0 .. MaxSegments - 1
    OBVIOUS
  <2>1. n \in DOMAIN Timeline /\ n < Len(Timeline)
    BY <1>1, TemplateTyped
  <2> QED BY <1>1, <2>1 DEF RepeatsFit, Timeline, Keyed
<1>4. CASE s.r >= 0
  <2>1. Count(s, from) = Lesser(s.r + 1, MaxSegments) /\ times = s.r + 1
    BY <1>4 DEF Count, Turns
  <2> HIDE DEF s, from, times
  <2> QED BY <1>1, <1>2, <1>3, <1>4, <2>1 DEF Lesser, Greater, s, from, times
<1>5. CASE ~(s.r >= 0) /\ s.d > 0 /\ Period # None
  <2>1. Count(s, from) = Lesser(Greater(room, 1), fit) /\ times = Greater(fit, 0)
    BY <1>5 DEF Count, Turns
  <2>2. fit \in Int
    <3>1. Period - from \in Int /\ s.d \in Nat \ {0}
      BY <1>1, <1>2, <1>5 DEF Sample
    <3> QED BY <3>1, FittedBegin
  <2>3. ~(Keyed /\ n # Len(Timeline))
    BY <1>2, <1>3, <1>5
  <2> HIDE DEF fit, from, times
  <2>4. Count(s, from) = IF fit < room THEN fit ELSE room
    BY <1>1, <2>1, <2>2 DEF Lesser, Greater
  <2>5. Len(walk.urls) + room = MaxSegments
    BY <1>1
  <2> HIDE DEF room
  <2> QED BY <1>1, <1>2, <2>1, <2>2, <2>3, <2>4, <2>5 DEF Greater, from, times
<1>6. CASE ~(s.r >= 0) /\ ~(s.d > 0 /\ Period # None)
  <2>1. Count(s, from) = Greater(room, 1) /\ times = MaxSegments
    BY <1>6 DEF Count, Turns
  <2>2. ~(Keyed /\ n # Len(Timeline))
    BY <1>2, <1>3, <1>6
  <2>3. Len(walk.urls) + room = MaxSegments /\ room \in Nat \ {0} /\ room <= MaxSegments
    BY <1>1
  <2> HIDE DEF room, from, times
  <2>4. Greater(Count(s, from), 0) = room
    BY <2>1, <2>3 DEF Greater
  <2> HIDE DEF s
  <2> QED BY <1>1, <1>2, <2>1, <2>2, <2>3, <2>4 DEF from, times, s
<1> QED BY <1>4, <1>5, <1>6

\* Reading an S element (_template_urls, at the head of its loop).
LEMMA ReadSStep ==
  ASSUME TemplateInv, RepeatsFit, ReadS
  PROVE  TemplateInv'
<1> DEFINE s == Head(left)
           from == IF s.t = None THEN clock ELSE s.t
           n == Read + 1
<1>1. TemplateTypeOK /\ template \in Templates /\ left \in Seq(Sample) /\ left # <<>>
      /\ Timeline \in Seq(Sample) /\ Len(left) <= Len(Timeline) /\ Timeline # <<>>
      /\ urls \in Seq(Located) /\ Keyed \in BOOLEAN /\ number \in Int /\ repeats = 0
  BY TemplateTyped DEF TemplateInv, TemplateTypeOK, ReadS
<1>2. clock \in Int /\ WalksOn
  BY <1>1 DEF TemplateInv, TemplateTypeOK
<1>3. /\ left' = Tail(left) /\ clock' = from /\ number' = IF s.n = None THEN number ELSE s.n
      /\ repeats' = Greater(Count(s, from), 0)
      /\ subs' = IF Keyed /\ s.k # None /\ s.r = 0 THEN Greater(s.k, 1) ELSE None
      /\ template' = template /\ urls' = urls
  BY DEF ReadS
<1>4. Timeline' = Timeline /\ Period' = Period /\ Keyed' = Keyed /\ Walked' = Walked
  BY <1>3, SameTemplate
<1>5. Len(left) \in Nat \ {0} /\ left' \in Seq(Sample) /\ Len(left') = Len(left) - 1
      /\ \A i \in 1 .. Len(left') : left'[i] = left[i + 1]
  BY <1>1, <1>3
<1>6. n \in 1 .. Len(Timeline) /\ Read' = n /\ Read \in Nat /\ n - 1 = Read /\ s = Timeline[n]
  <2>1. s = left[1]
    BY <1>1
  <2>2. left[1] = Timeline[Read + 1]
    BY <1>1, <1>5 DEF TemplateTypeOK
  <2> QED BY <1>1, <1>4, <1>5, <2>1, <2>2 DEF Read
<1>7. s \in Sample /\ from \in Int /\ number' \in Int /\ (n = Len(Timeline) => left' = <<>>)
  <2>1. s \in Sample
    BY <1>1
  <2>2. from \in Int /\ number' \in Int
    BY <1>1, <1>2, <1>3, <2>1 DEF Sample
  <2>3. n = Len(Timeline) => Len(left') = 0
    BY <1>1, <1>5 DEF Read
  <2> QED BY <1>5, <2>1, <2>2, <2>3
<1> DEFINE walk == Walked[n - 1]
<1>8. /\ walk \in Walk /\ Walked[n].urls = walk.urls \o Said(walk, s)
      /\ Walked[n].number = First(walk, s) + Turns(walk, s)
      /\ Walked[n].clock = From(walk, s) + Turns(walk, s) * s.d
      /\ walk.urls \in Seq(Located) /\ Said(walk, s) \in Seq(Located)
  <2>1. walk \in Walk /\ Walked[n].urls = walk.urls \o Said(walk, s)
        /\ Walked[n].number = First(walk, s) + Turns(walk, s)
        /\ Walked[n].clock = From(walk, s) + Turns(walk, s) * s.d
    BY <1>1, <1>6, WalkGoesOn
  <2> QED BY <1>1, <1>7, <2>1, SaidTyped DEF Walk
<1> HIDE DEF s, from, n, walk
<1>9. Prefix(urls, Walked[n].urls)
  <2>1. Prefix(urls, walk.urls)
    BY <1>2, <1>6 DEF WalksOn, walk
  <2> QED BY <1>1, <1>8, <2>1, PrefixAppended
<1>10. repeats' \in Nat
  <2>1. Count(s, from) \in Int
    <3>1. s.d \in Int /\ s.r \in Int /\ MaxSegments \in Nat /\ Len(urls) \in Nat /\ Period \in Nat \cup {None}
      BY <1>1, <1>7, TemplateTyped, TemplateAssumption DEF Sample
    <3>2. s.d > 0 /\ Period # None => Fitted(Period - from, s.d) \in Int
      <4> SUFFICES ASSUME s.d > 0, Period # None PROVE Fitted(Period - from, s.d) \in Int
        OBVIOUS
      <4>1. Period - from \in Int /\ s.d \in Nat \ {0}
        BY <1>7, <3>1
      <4> QED BY <4>1, FittedBegin
    <3> QED BY <1>7, <3>1, <3>2 DEF Count, Lesser, Greater
  <2> QED BY <1>3, <2>1 DEF Greater
<1>11. subs' \in (Nat \ {0}) \cup {None}
  BY <1>3, <1>7 DEF Greater, Sample
<1>12. TemplateTypeOK'
  <2>1. ASSUME NEW i \in 1 .. Len(left') PROVE left'[i] = Timeline[n + i]
    <3>1. i + 1 \in 1 .. Len(left) /\ left'[i] = left[i + 1]
      BY <1>5
    <3>2. left[i + 1] = Timeline[Read + (i + 1)]
      BY <1>1, <3>1 DEF TemplateTypeOK
    <3>3. Read + (i + 1) = n + i
      BY <1>5, <1>6 DEF n
    <3> QED BY <3>1, <3>2, <3>3
  <2>2. urls' \in Seq(Located) /\ Len(urls') <= MaxSegments
    BY <1>1, <1>3 DEF TemplateTypeOK
  <2>3. Len(left') <= Len(Timeline')
    BY <1>1, <1>4, <1>5
  <2>4. \A i \in 1 .. Len(left') : left'[i] = Timeline'[Read' + i]
    BY <1>4, <1>6, <2>1
  <2> QED BY <1>1, <1>3, <1>4, <1>5, <1>7, <1>10, <1>11, <2>2, <2>3, <2>4 DEF TemplateTypeOK
<1>13. ASSUME Len(urls) < MaxSegments
       PROVE  /\ repeats' = 0 => Settled'
              /\ Within(Walked[Read - 1], Timeline[Read], number - First(Walked[Read - 1], Timeline[Read]))'
  <2>1. Len(urls) = Len(walk.urls) /\ number = walk.number /\ clock = walk.clock
    BY <1>1, <1>2, <1>6, <1>13 DEF WalksOn, Settled, walk
  <2>2. from = From(walk, s) /\ number' = First(walk, s)
    BY <1>3, <2>1 DEF from, From, First
  <2>3. /\ repeats' <= Turns(walk, s) /\ (repeats' = 0 => Turns(walk, s) = 0)
        /\ repeats' < Turns(walk, s) => \/ Keyed /\ n = Len(Timeline)
                                        \/ ~Keyed /\ Len(walk.urls) + repeats' >= MaxSegments
    BY <1>1, <1>3, <1>6, <1>8, <1>13, <2>1, <2>2, CountFits
  <2>4. First(walk, s) \in Int /\ From(walk, s) \in Int /\ Turns(walk, s) \in Nat /\ s.d \in Int
        /\ (Numbered(s) => Turns(walk, s) = 1)
        /\ Len(Said(walk, s)) = IF Numbered(s) THEN Greater(s.k, 1) ELSE IF Keyed THEN 0 ELSE Turns(walk, s)
    BY <1>1, <1>7, <1>8, SaidTyped DEF Sample
  <2>5. 0 * s.d = 0
    BY <2>4
  <2>6. ASSUME repeats' = 0 PROVE Settled'
    <3>1. Turns(walk, s) = 0 /\ Len(Said(walk, s)) = 0
      BY <2>3, <2>4, <2>6
    <3>2. Len(Walked[n].urls) = Len(walk.urls)
      BY <1>8, <3>1
    <3>3. Walked[n].number = number' /\ Walked[n].clock = clock'
      BY <1>3, <1>8, <2>2, <2>4, <2>5, <3>1
    <3> QED BY <1>3, <1>4, <1>6, <2>1, <3>2, <3>3 DEF Settled
  <2>7. Within(Walked[Read - 1], Timeline[Read], number - First(Walked[Read - 1], Timeline[Read]))'
    <3>1. Walked'[Read' - 1] = walk /\ Timeline'[Read'] = s
      BY <1>4, <1>6 DEF walk
    <3>2. number' - First(walk, s) = 0 /\ number' = First(walk, s) + 0 /\ clock' = From(walk, s) + 0 * s.d
      BY <1>3, <2>2, <2>4, <2>5
    <3>3. subs' = IF Numbered(s) THEN Greater(s.k, 1) ELSE None
      BY <1>3 DEF Numbered
    <3>4. Len(urls') = Len(walk.urls) + (IF Keyed THEN 0 ELSE 0)
      BY <1>1, <1>3, <1>8, <2>1
    <3>5. /\ 0 + repeats' <= Turns(walk, s)
          /\ 0 + repeats' < Turns(walk, s) => \/ Keyed /\ left' = <<>>
                                              \/ ~Keyed /\ Len(walk.urls) + (0 + repeats') >= MaxSegments
      BY <1>7, <1>10, <2>3
    <3> QED BY <1>3, <1>4, <3>1, <3>2, <3>3, <3>4, <3>5 DEF Within, Turns, Numbered, First, From
  <2> QED BY <2>6, <2>7
<1>14. WalksOn'
  <2>1. Prefix(urls', Walked'[Read'].urls) /\ Read' >= 1
    BY <1>3, <1>4, <1>6, <1>9
  <2>2. Len(urls') < MaxSegments => Len(urls) < MaxSegments
    BY <1>3
  <2> QED BY <1>13, <2>1, <2>2 DEF WalksOn, Prefix
<1> QED BY <1>1, <1>4, <1>12, <1>14 DEF TemplateInv

\* What is written goes on with the next of what is said.
LEMMA Appended ==
  ASSUME NEW S, NEW a \in Seq(S), NEW b \in Seq(S), NEW u \in Seq(S), NEW app \in Seq(S),
         Prefix(u, a \o b), NEW e \in Nat, Len(u) = Len(a) + e, e + Len(app) <= Len(b),
         \A i \in 1 .. Len(app) : app[i] = b[e + i]
  PROVE  Prefix(u \o app, a \o b)
<1> DEFINE t == a \o b
<1>1. Len(a) \in Nat /\ Len(b) \in Nat /\ Len(u) \in Nat /\ Len(app) \in Nat
  OBVIOUS
<1>2. t \in Seq(S) /\ Len(t) = Len(a) + Len(b)
      /\ \A i \in 1 .. Len(t) : t[i] = IF i <= Len(a) THEN a[i] ELSE b[i - Len(a)]
  BY ConcatProperties
<1>3. Len(u \o app) = Len(u) + Len(app)
      /\ \A i \in 1 .. Len(u) + Len(app) : (u \o app)[i] = IF i <= Len(u) THEN u[i] ELSE app[i - Len(u)]
  BY ConcatProperties
<1> HIDE DEF t
<1>4. ASSUME NEW i \in 1 .. Len(u) + Len(app) PROVE (u \o app)[i] = t[i]
  <2>1. CASE i <= Len(u)
    <3>1. u[i] = t[i]
      BY <1>1, <2>1 DEF Prefix, t
    <3> QED BY <1>3, <2>1, <3>1
  <2>2. CASE i > Len(u)
    <3> DEFINE j == i - Len(u)
    <3>1. j \in 1 .. Len(app) /\ i - Len(a) = e + j /\ i \in 1 .. Len(t) /\ ~(i <= Len(a)) /\ ~(i <= Len(u))
      BY <1>1, <1>2, <2>2
    <3>2. (u \o app)[i] = app[j]
      BY <1>3, <3>1
    <3>3. t[i] = b[e + j]
      BY <1>2, <3>1
    <3> HIDE DEF j
    <3> QED BY <3>1, <3>2, <3>3
  <2> QED BY <1>1, <2>1, <2>2
<1> QED BY <1>1, <1>2, <1>3, <1>4 DEF Prefix, t

\* What Emit writes.
Room == MaxSegments - Len(urls)
Emitted == IF subs = None THEN (IF Keyed THEN 0 ELSE 1) ELSE Lesser(subs, Room)
Added == [i \in 1 .. Emitted |-> Locator(IF subs = None THEN None ELSE i)]

\* The effect of Emit.
LEMMA EmitIs ==
  ASSUME TemplateTypeOK, Emit
  PROVE  /\ Room \in Nat \ {0} /\ Emitted \in Nat /\ Emitted <= Room
         /\ Added \in Seq(Located) /\ Len(Added) = Emitted
         /\ urls' = urls \o Added /\ urls' \in Seq(Located) /\ Len(urls') = Len(urls) + Emitted
         /\ Len(urls) \in Nat /\ repeats \in Nat /\ repeats > 0 /\ number \in Int /\ clock \in Int \cup {None}
         /\ template \in Templates /\ template' = template /\ left' = left /\ subs' = subs
         /\ repeats' = repeats - 1 /\ number' = number + 1
         /\ clock' = IF clock = None THEN None ELSE clock + Step
<1>1. /\ Room > 0 /\ urls' = urls \o Added /\ repeats > 0
      /\ template' = template /\ left' = left /\ subs' = subs
      /\ repeats' = repeats - 1 /\ number' = number + 1
  BY DEF Emit, Room, Emitted, Added
<1>2. clock' = IF clock = None THEN None ELSE clock + Step
  BY Zenon DEF Emit
<1>3. /\ urls \in Seq(Located) /\ Len(urls) \in Nat /\ subs \in (Nat \ {0}) \cup {None}
      /\ repeats \in Nat /\ number \in Int /\ clock \in Int \cup {None} /\ template \in Templates
      /\ Keyed \in BOOLEAN
  BY TemplateTyped DEF TemplateTypeOK
<1>4. Room \in Nat \ {0}
  BY <1>1, <1>3, TemplateAssumption DEF Room
<1>5. Emitted \in Nat /\ Emitted <= Room
  BY <1>3, <1>4, TemplateAssumption DEF Emitted, Lesser
<1>6. Added \in Seq(Located) /\ Len(Added) = Emitted
  <2> DEFINE at(i) == Locator(IF subs = None THEN None ELSE i)
  <2>1. \A i \in 1 .. Emitted : at(i) \in Located
    <3> SUFFICES ASSUME NEW i \in 1 .. Emitted PROVE at(i) \in Located
      OBVIOUS
    <3> DEFINE sub == IF subs = None THEN None ELSE i
    <3>1. sub \in Int \cup {None}
      BY <1>5
    <3> HIDE DEF sub
    <3>2. Locator(sub) \in Located
      BY <1>3, <3>1 DEF Locator, Named, Located
    <3> QED BY <3>2 DEF sub
  <2>2. Added = [i \in 1 .. Emitted |-> at(i)]
    BY DEF Added
  <2> HIDE DEF at
  <2> QED BY <1>5, <2>1, <2>2
<1>7. urls \o Added \in Seq(Located) /\ Len(urls \o Added) = Len(urls) + Len(Added)
  BY <1>3, <1>6, ConcatProperties
<1> QED BY <1>1, <1>2, <1>3, <1>4, <1>5, <1>6, <1>7

\* Emit writes no more than there is room for.
LEMMA EmitTyping ==
  ASSUME TemplateInv, Emit
  PROVE  TemplateTypeOK'
<1>1. TemplateTypeOK
  BY DEF TemplateInv
<1>2. Timeline' = Timeline /\ Read' = Read
  BY <1>1, EmitIs, SameTemplate DEF Read
<1>3. Step \in Int
  <2>1. CASE Timeline = <<>>
    BY <2>1, TemplateAssumption DEF Step
  <2>2. CASE Timeline # <<>>
    <3>1. ~(Len(left) = Len(Timeline))
      <4> SUFFICES ASSUME Len(left) = Len(Timeline) PROVE FALSE
        OBVIOUS
      <4>1. Read = 0 /\ Len(urls) < MaxSegments /\ repeats > 0
        <5>1. Len(Timeline) \in Nat
          BY <1>1, EmitIs, TemplateTyped
        <5>2. Room \in Nat \ {0} /\ Len(urls) \in Nat
          BY <1>1, EmitIs
        <5> QED BY <1>1, <5>1, <5>2, EmitIs, TemplateAssumption DEF Read, Room
      <4> QED BY <2>2, <4>1 DEF TemplateInv, WalksOn
    <3>2. Read \in 1 .. Len(Timeline) /\ Timeline \in Seq(Sample)
      BY <1>1, <3>1, EmitIs, TemplateTyped DEF Read, TemplateTypeOK
    <3>3. Timeline[Read] \in Sample
      BY <3>2
    <3> QED BY <2>2, <3>3 DEF Step, Current, Read, Sample
  <2> QED BY <2>1, <2>2
<1>4. clock' \in Int \cup {None} /\ (Timeline # <<>> => clock' \in Int)
  BY <1>1, <1>3, EmitIs, TemplateAssumption DEF TemplateTypeOK
<1>5. Len(urls') <= MaxSegments
  BY <1>1, EmitIs, TemplateAssumption DEF Room
<1>6. repeats' \in Nat /\ number' \in Int
  BY <1>1, EmitIs
<1> QED BY <1>1, <1>2, <1>4, <1>5, <1>6, EmitIs DEF TemplateTypeOK

\* Emit without a timeline.
LEMMA EmitCounts ==
  ASSUME TemplateInv, Emit, Timeline = <<>>
  PROVE  CountsUp'
<1>1. TemplateTypeOK /\ CountsUp
  BY DEF TemplateInv
<1>2. Period' = Period /\ EndNumber' = EndNumber /\ Keyed' = Keyed
  BY <1>1, EmitIs, SameTemplate
<1> SUFFICES ASSUME EndNumber = None, SegmentDuration > 0, ~Keyed, Period \notin {None, 0}
             PROVE  /\ subs' = None /\ clock' = Len(urls') * SegmentDuration
                    /\ Len(urls') + repeats' = Lesser(Fitted(Period, SegmentDuration), MaxSegments)
  BY <1>2 DEF CountsUp
<1>3. /\ subs = None /\ clock = Len(urls) * SegmentDuration
      /\ Len(urls) + repeats = Lesser(Fitted(Period, SegmentDuration), MaxSegments)
  BY <1>1 DEF CountsUp
<1>4. Emitted = 1 /\ Step = SegmentDuration
  BY <1>3 DEF Emitted, Step
<1>5. Len(urls) \in Nat /\ Len(urls') = Len(urls) + 1 /\ repeats' = repeats - 1 /\ repeats \in Nat /\ subs' = subs
  BY <1>1, <1>4, EmitIs
<1>6. clock' = Len(urls') * SegmentDuration
  <2>1. \A x \in Nat, y \in Int : x * y \in Int /\ x * y + y = (x + 1) * y
    OBVIOUS
  <2>2. Len(urls) * SegmentDuration \in Int
        /\ Len(urls) * SegmentDuration + SegmentDuration = (Len(urls) + 1) * SegmentDuration
    BY <1>5, <2>1, TemplateAssumption
  <2>3. clock # None
    BY <1>3, <2>2, TemplateAssumption
  <2>4. clock' = clock + SegmentDuration
    BY <1>1, <1>4, <2>3, EmitIs
  <2> QED BY <1>3, <1>5, <2>2, <2>4
<1>7. Len(urls') + repeats' = Len(urls) + repeats
  BY <1>5
<1> QED BY <1>3, <1>5, <1>6, <1>7

\* Emit with a timeline: the subsegments of one segment, a segment, or none.
LEMMA EmitWalks ==
  ASSUME TemplateInv, Emit, Timeline # <<>>
  PROVE  WalksOn'
<1> DEFINE n == Read
           walk == Walked[n - 1]
           s == Timeline[n]
           b == number - First(walk, s)
<1>1. TemplateTypeOK /\ WalksOn /\ template \in Templates
  BY EmitIs DEF TemplateInv, TemplateTypeOK
<1>2. Timeline' = Timeline /\ Period' = Period /\ Keyed' = Keyed /\ Walked' = Walked /\ Read' = Read
  BY <1>1, EmitIs, SameTemplate DEF Read
<1>3. Len(urls) < MaxSegments /\ Room = MaxSegments - Len(urls) /\ Len(urls) \in Nat
  BY <1>1, EmitIs, TemplateAssumption DEF Room
<1>4. Read >= 1 /\ Within(walk, s, b)
  BY <1>1, <1>3, EmitIs DEF WalksOn
<1>5. n \in 1 .. Len(Timeline)
  BY <1>1, <1>4, TemplateTyped DEF Read, TemplateTypeOK
<1>6. /\ s \in Sample /\ walk \in Walk /\ walk.urls \in Seq(Located)
      /\ Walked[n].urls = walk.urls \o Said(walk, s)
      /\ Walked[n].number = First(walk, s) + Turns(walk, s)
      /\ Walked[n].clock = From(walk, s) + Turns(walk, s) * s.d
  BY <1>1, <1>5, WalkGoesOn DEF Walk
<1>7. Step = s.d
  BY DEF Step, Current, Read
<1> HIDE DEF n, walk, s
<1>8. /\ First(walk, s) \in Int /\ From(walk, s) \in Int /\ Turns(walk, s) \in Nat /\ s.d \in Int
      /\ Numbered(s) \in BOOLEAN /\ Keyed \in BOOLEAN /\ (Numbered(s) => Turns(walk, s) = 1 /\ Keyed)
      /\ Said(walk, s) \in Seq(Located)
      /\ Len(Said(walk, s)) = IF Numbered(s) THEN Greater(s.k, 1) ELSE IF Keyed THEN 0 ELSE Turns(walk, s)
      /\ Len(walk.urls) \in Nat
  <2>1. (Numbered(s) => Keyed) /\ s.d \in Int /\ Len(walk.urls) \in Nat /\ Keyed \in BOOLEAN
    BY <1>1, <1>6, TemplateTyped DEF Sample, Numbered
  <2> QED BY <1>1, <1>6, <2>1, SaidTyped
<1> HIDE DEF b
<1>9. /\ b \in Nat /\ b + repeats <= Turns(walk, s)
      /\ number = First(walk, s) + b /\ clock = From(walk, s) + b * s.d
      /\ subs = (IF Numbered(s) THEN Greater(s.k, 1) ELSE None)
      /\ Len(urls) = Len(walk.urls) + (IF Keyed THEN 0 ELSE b)
      /\ b + repeats < Turns(walk, s) => \/ Keyed /\ left = <<>>
                                         \/ ~Keyed /\ Len(walk.urls) + (b + repeats) >= MaxSegments
  BY <1>4 DEF Within
<1>10. \A x, y \in Int : (x + y) + 1 = x + (y + 1) /\ x * y \in Int /\ x * y + y = (x + 1) * y /\ 1 * y = y /\ 0 * y = 0
  OBVIOUS
<1>11. b * s.d \in Int /\ b * s.d + s.d = (b + 1) * s.d /\ 1 * s.d = s.d /\ 0 * s.d = 0
  BY <1>8, <1>9, <1>10
<1>12. /\ repeats' = repeats - 1 /\ repeats \in Nat /\ repeats > 0
       /\ number' = First(walk, s) + (b + 1) /\ clock' = From(walk, s) + (b + 1) * s.d
       /\ subs' = subs /\ left' = left /\ Len(urls') = Len(urls) + Emitted
  <2>1. repeats' = repeats - 1 /\ repeats \in Nat /\ repeats > 0 /\ number' = number + 1
        /\ subs' = subs /\ left' = left /\ Len(urls') = Len(urls) + Emitted
        /\ clock' = IF clock = None THEN None ELSE clock + s.d
    BY <1>1, <1>7, EmitIs
  <2>2. clock # None /\ clock \in Int
    BY <1>8, <1>9, <1>11, TemplateAssumption
  <2>3. number' = First(walk, s) + (b + 1)
    <3>1. number = First(walk, s) + b /\ b \in Nat /\ First(walk, s) \in Int
      BY <1>8, <1>9
    <3> QED BY <2>1, <3>1
  <2>4. clock' = From(walk, s) + (b + 1) * s.d
    <3> DEFINE p == b * s.d
               q == (b + 1) * s.d
    <3>1. From(walk, s) \in Int /\ s.d \in Int /\ p \in Int /\ p + s.d = q /\ clock = From(walk, s) + p
      BY <1>8, <1>9, <1>11
    <3> HIDE DEF p, q
    <3>2. clock + s.d = From(walk, s) + q
      BY <3>1
    <3> QED BY <2>1, <2>2, <3>2 DEF q
  <2> QED BY <2>1, <2>3, <2>4
<1>17. /\ b \in Nat /\ Emitted \in Nat /\ Turns(walk, s) \in Nat /\ Len(walk.urls) \in Nat
       /\ Len(urls') = Len(walk.urls) + (IF Keyed THEN 0 ELSE b) + Emitted /\ Keyed \in BOOLEAN
       /\ ~Keyed => ~Numbered(s)
       /\ Len(Walked[n].urls) = Len(walk.urls) + Len(Said(walk, s)) /\ Len(Said(walk, s)) \in Nat
       /\ Len(Said(walk, s)) = IF Numbered(s) THEN Greater(s.k, 1) ELSE IF Keyed THEN 0 ELSE Turns(walk, s)
  <2>1. Len(walk.urls \o Said(walk, s)) = Len(walk.urls) + Len(Said(walk, s)) /\ Len(Said(walk, s)) \in Nat
    <3> DEFINE a == walk.urls
               c == Said(walk, s)
    <3>1. a \in Seq(Located) /\ c \in Seq(Located)
      BY <1>6, <1>8
    <3> HIDE DEF a, c
    <3>2. Len(a \o c) = Len(a) + Len(c) /\ Len(c) \in Nat
      BY <3>1, ConcatProperties
    <3> QED BY <3>2 DEF a, c
  <2>2. b \in Nat /\ Len(urls) = Len(walk.urls) + (IF Keyed THEN 0 ELSE b)
    BY <1>9
  <2>3. Emitted \in Nat /\ Len(urls') = Len(urls) + Emitted
    BY <1>1, EmitIs
  <2> QED BY <1>6, <1>8, <2>1, <2>2, <2>3
<1>13. /\ Emitted + (IF Keyed THEN 0 ELSE b) <= Len(Said(walk, s))
       /\ \A i \in 1 .. Emitted : Added[i] = Said(walk, s)[(IF Keyed THEN 0 ELSE b) + i]
       /\ ~Numbered(s) => Emitted = (IF Keyed THEN 0 ELSE 1)
       /\ Numbered(s) => b = 0 /\ repeats = 1 /\ Emitted = Lesser(Len(Said(walk, s)), Room)
  <2>1. CASE Numbered(s)
    <3>1. b = 0 /\ repeats = 1
      BY <1>8, <1>9, <1>12, <2>1
    <3>2. Said(walk, s) = [j \in 1 .. Greater(s.k, 1) |-> Named(First(walk, s), From(walk, s), j)]
      BY <2>1 DEF Said
    <3>3. subs = Greater(s.k, 1) /\ Len(Said(walk, s)) = subs /\ subs \in Nat /\ subs # None
      BY <1>1, <1>8, <1>9, <2>1, TemplateAssumption DEF TemplateTypeOK
    <3>4. Emitted = Lesser(subs, Room)
      BY <3>3 DEF Emitted
    <3>5. Emitted <= subs /\ Emitted \in Nat
      BY <1>1, <3>3, <3>4, EmitIs DEF Lesser
    <3>6. number = First(walk, s) /\ clock = From(walk, s)
      BY <1>8, <1>9, <1>11, <3>1
    <3>7. ASSUME NEW i \in 1 .. Emitted PROVE Added[i] = Said(walk, s)[i]
      <4>1. i \in 1 .. Greater(s.k, 1)
        BY <3>3, <3>5
      <4>2. Added[i] = Named(number, clock, i)
        BY <3>3 DEF Added, Locator
      <4> QED BY <3>2, <3>6, <4>1, <4>2
    <3>8. \A i \in 1 .. Emitted : 0 + i = i
      BY <3>5
    <3> QED BY <1>8, <2>1, <3>1, <3>3, <3>4, <3>5, <3>7, <3>8
  <2>2. CASE ~Numbered(s) /\ Keyed
    <3>1. Emitted = 0
      BY <1>9, <2>2 DEF Emitted
    <3> QED BY <1>8, <2>2, <3>1
  <2>3. CASE ~Keyed
    <3>1. ~Numbered(s) /\ subs = None /\ Emitted = 1
      BY <1>8, <1>9, <2>3 DEF Emitted
    <3>2. Said(walk, s) = [i \in 1 .. Turns(walk, s) |->
                             Named(First(walk, s) + i - 1, From(walk, s) + (i - 1) * s.d, None)]
      BY <2>3, <3>1 DEF Said
    <3>3. b + 1 \in 1 .. Turns(walk, s)
      BY <1>8, <1>9, <1>12
    <3>4. Added[1] = Named(number, clock, None)
      BY <3>1 DEF Added, Locator
    <3>5. Said(walk, s)[b + 1] = Named(First(walk, s) + (b + 1) - 1, From(walk, s) + ((b + 1) - 1) * s.d, None)
      BY <3>2, <3>3
    <3>6. (b + 1) - 1 = b /\ First(walk, s) + (b + 1) - 1 = First(walk, s) + b
      BY <1>8, <1>9
    <3>7. Added[1] = Said(walk, s)[b + 1]
      BY <1>9, <3>4, <3>5, <3>6
    <3>8. \A i \in 1 .. Emitted : i = 1
      BY <3>1
    <3>9. Emitted + b <= Len(Said(walk, s))
      BY <1>17, <2>3, <3>1, <3>3
    <3> QED BY <2>3, <3>1, <3>7, <3>8, <3>9
  <2> QED BY <1>8, <2>1, <2>2, <2>3
<1>14. Prefix(urls', Walked[n].urls)
  <2> DEFINE e == IF Keyed THEN 0 ELSE b
  <2>1. Prefix(urls, Walked[n].urls)
    BY <1>1 DEF WalksOn, n
  <2>2. /\ urls \in Seq(Located) /\ Added \in Seq(Located) /\ Len(Added) = Emitted
        /\ urls' = urls \o Added /\ Emitted \in Nat
    BY <1>1, EmitIs DEF TemplateTypeOK
  <2>3. e \in Nat /\ Len(urls) = Len(walk.urls) + e
    BY <1>9
  <2>4. e + Len(Added) <= Len(Said(walk, s)) /\ \A i \in 1 .. Len(Added) : Added[i] = Said(walk, s)[e + i]
    <3>1. e + Emitted <= Len(Said(walk, s))
      BY <1>8, <1>13, <2>2, <2>3
    <3> QED BY <1>13, <2>2, <3>1
  <2> HIDE DEF e
  <2> QED BY <1>6, <1>8, <2>1, <2>2, <2>3, <2>4, Appended
<1>15. ASSUME Len(urls') < MaxSegments, repeats' = 0 PROVE Settled'
  <2>1. repeats = 1
    BY <1>12, <1>15
  <2>3. CASE b + 1 = Turns(walk, s)
    <3>1. number' = Walked[n].number /\ clock' = Walked[n].clock
      BY <1>6, <1>12, <2>3
    <3>2. Len(urls') = Len(Walked[n].urls)
      <4>1. CASE Numbered(s)
        <5>1. Emitted = Lesser(Len(Said(walk, s)), Room) /\ Len(urls) = Len(walk.urls)
          BY <1>8, <1>9, <1>13, <4>1
        <5>2. Len(Said(walk, s)) \in Nat
          BY <1>8
        <5> QED BY <1>3, <1>8, <1>12, <1>15, <1>17, <5>1, <5>2, TemplateAssumption DEF Lesser
      <4>2. CASE ~Numbered(s) /\ Keyed
        BY <1>13, <1>17, <4>2
      <4>3. CASE ~Numbered(s) /\ ~Keyed
        <5> DEFINE l == Len(walk.urls)
                   said == Len(Said(walk, s))
        <5>1. Emitted = 1 /\ said = b + 1
          BY <1>13, <1>17, <2>3, <4>3
        <5>2. l \in Nat /\ b \in Nat /\ Len(urls') = l + b + Emitted /\ Len(Walked[n].urls) = l + said
          BY <1>17, <4>3
        <5> HIDE DEF l, said
        <5> QED BY <5>1, <5>2
      <4> QED BY <1>8, <4>1, <4>2, <4>3
    <3> QED BY <1>2, <3>1, <3>2 DEF Settled, n
  <2>4. CASE b + 1 # Turns(walk, s)
    <3>1. b + repeats < Turns(walk, s)
      BY <1>8, <1>9, <2>1, <2>4
    <3>2. ~Numbered(s)
      BY <1>8, <1>9, <3>1, <2>1
    <3>3. CASE Keyed /\ left = <<>>
      <4>1. Len(urls') = Len(Walked[n].urls)
        BY <1>13, <1>17, <3>2, <3>3
      <4> QED BY <1>2, <1>12, <3>3, <4>1 DEF Settled, n
    <3>4. CASE ~Keyed /\ Len(walk.urls) + (b + repeats) >= MaxSegments
      <4>1. Len(urls') = Len(walk.urls) + (b + 1)
        <5>1. Emitted = 1
          BY <1>13, <3>2, <3>4
        <5>2. /\ b \in Nat /\ Len(walk.urls) \in Nat /\ ~Keyed
              /\ Len(urls') = Len(walk.urls) + (IF Keyed THEN 0 ELSE b) + Emitted
          BY <1>17, <3>4
        <5>3. Len(urls') = (Len(walk.urls) + b) + 1
          BY <5>1, <5>2
        <5> DEFINE l == Len(walk.urls)
        <5>4. l \in Nat /\ Len(urls') = (l + b) + 1 /\ b \in Nat
          BY <5>2, <5>3
        <5> HIDE DEF l
        <5>5. (l + b) + 1 = l + (b + 1)
          BY <5>4
        <5>6. Len(urls') = l + (b + 1)
          BY <5>4, <5>5
        <5> QED BY <5>6 DEF l
      <4>2. Len(walk.urls) + (b + 1) >= MaxSegments
        BY <2>1, <3>4
      <4>3. Len(urls') \in Nat /\ MaxSegments \in Nat
        BY <1>1, EmitIs, TemplateAssumption
      <4>4. Len(urls') >= MaxSegments
        BY <4>1, <4>2
      <4> QED BY <1>15, <4>3, <4>4
    <3> QED BY <1>9, <3>1, <3>3, <3>4
  <2> QED BY <2>3, <2>4
<1>16. ASSUME repeats' > 0
       PROVE  Within(Walked[Read - 1], Timeline[Read], number - First(Walked[Read - 1], Timeline[Read]))'
  <2>1. Walked'[Read' - 1] = walk /\ Timeline'[Read'] = s
    BY <1>2 DEF walk, s, n
  <2>2. ~Numbered(s)
    BY <1>12, <1>13, <1>16
  <2>3. number' - First(walk, s) = b + 1 /\ b + 1 \in Nat
    BY <1>8, <1>9, <1>12
  <2>4. Len(urls') = Len(walk.urls) + (IF Keyed THEN 0 ELSE b + 1)
    <3>1. CASE Keyed
      BY <1>13, <1>17, <2>2, <3>1
    <3>2. CASE ~Keyed
      <4>1. Emitted = 1
        BY <1>13, <2>2, <3>2
      <4>2. b \in Nat /\ Len(walk.urls) \in Nat
            /\ Len(urls') = Len(walk.urls) + (IF Keyed THEN 0 ELSE b) + Emitted
        BY <1>17
      <4>3. Len(urls') = (Len(walk.urls) + b) + 1
        BY <3>2, <4>1, <4>2
      <4>4. Len(urls') = Len(walk.urls) + (b + 1)
        <5> DEFINE l == Len(walk.urls)
        <5>4. l \in Nat /\ Len(urls') = (l + b) + 1 /\ b \in Nat
          BY <4>2, <4>3
        <5> HIDE DEF l
        <5>5. (l + b) + 1 = l + (b + 1)
          BY <5>4
        <5>6. Len(urls') = l + (b + 1)
          BY <5>4, <5>5
        <5> QED BY <5>6 DEF l
      <4> QED BY <3>2, <4>4
    <3> QED BY <3>1, <3>2
  <2>5. (b + 1) + repeats' = b + repeats
    BY <1>9, <1>12
  <2>6. number' = First(walk, s) + (b + 1) /\ clock' = From(walk, s) + (b + 1) * s.d
        /\ subs' = (IF Numbered(s) THEN Greater(s.k, 1) ELSE None) /\ left' = left
    BY <1>9, <1>12
  <2> DEFINE b1 == b + 1
  <2>7. /\ b1 \in Nat /\ b1 + repeats' <= Turns(walk, s) /\ number' - First(walk, s) = b1
        /\ number' = First(walk, s) + b1 /\ clock' = From(walk, s) + b1 * s.d
        /\ Len(urls') = Len(walk.urls) + (IF Keyed THEN 0 ELSE b1)
        /\ b1 + repeats' < Turns(walk, s) => \/ Keyed /\ left' = <<>>
                                             \/ ~Keyed /\ Len(walk.urls) + (b1 + repeats') >= MaxSegments
    BY <1>9, <2>3, <2>4, <2>5, <2>6
  <2> HIDE DEF b1
  <2> QED BY <1>2, <2>1, <2>6, <2>7 DEF Within, Turns, Numbered, First, From
<1>18. Prefix(urls', Walked'[Read'].urls) /\ Read' >= 1
  BY <1>2, <1>4, <1>14 DEF n
<1> QED BY <1>15, <1>16, <1>18 DEF WalksOn, Prefix

\* The bound is reached: what is left is dropped.
LEMMA FullStep ==
  ASSUME TemplateInv, Full
  PROVE  TemplateInv'
<1>1. /\ TemplateTypeOK /\ Len(urls) >= MaxSegments /\ repeats' = 0 /\ template' = template /\ left' = left
      /\ subs' = subs /\ number' = number /\ clock' = clock /\ urls' = urls /\ repeats > 0
  BY DEF TemplateInv, Full
<1>2. Timeline' = Timeline /\ Period' = Period /\ EndNumber' = EndNumber /\ Keyed' = Keyed
      /\ Walked' = Walked /\ Read' = Read
  BY <1>1, SameTemplate DEF Read
<1>3. TemplateTypeOK'
  BY <1>1, <1>2 DEF TemplateTypeOK
<1>4. Timeline = <<>> => CountsUp'
  <2> SUFFICES ASSUME Timeline = <<>>, EndNumber = None, SegmentDuration > 0, ~Keyed, Period \notin {None, 0}
               PROVE  /\ subs = None /\ clock = Len(urls) * SegmentDuration
                      /\ Len(urls) + 0 = Lesser(Fitted(Period, SegmentDuration), MaxSegments)
    BY <1>1, <1>2 DEF CountsUp
  <2>1. /\ subs = None /\ clock = Len(urls) * SegmentDuration
        /\ Len(urls) + repeats = Lesser(Fitted(Period, SegmentDuration), MaxSegments)
    BY DEF CountsUp, TemplateInv
  <2>2. template \in Templates /\ Len(urls) \in Nat /\ repeats \in Nat
    BY <1>1 DEF TemplateTypeOK
  <2>3. Fitted(Period, SegmentDuration) \in Int
    <3>1. Period \in Int /\ SegmentDuration \in Nat \ {0}
      BY <2>2, TemplateTyped, TemplateAssumption
    <3> QED BY <3>1, FittedBegin
  <2>4. Lesser(Fitted(Period, SegmentDuration), MaxSegments) <= MaxSegments
    BY <2>3, TemplateAssumption DEF Lesser
  <2> QED BY <1>1, <2>1, <2>2, <2>4, TemplateAssumption
<1>5. Timeline # <<>> => WalksOn'
  <2>1. Len(urls) \in Nat /\ MaxSegments \in Nat
    BY <1>1, TemplateAssumption DEF TemplateTypeOK
  <2> QED BY <1>1, <1>2, <2>1 DEF WalksOn, TemplateInv, Prefix
<1> QED BY <1>2, <1>3, <1>4, <1>5 DEF TemplateInv

\* Every step keeps the invariant.
LEMMA TemplateInvStep ==
  ASSUME TemplateInv, RepeatsFit, [TemplateNext]_templateVars
  PROVE  TemplateInv'
<1>1. CASE ReadS
  BY <1>1, ReadSStep
<1>2. CASE Emit
  <2>1. Timeline' = Timeline
    BY <1>2, EmitIs, SameTemplate DEF TemplateInv
  <2> QED BY <1>2, <2>1, EmitTyping, EmitCounts, EmitWalks DEF TemplateInv
<1>3. CASE Full
  BY <1>3, FullStep
<1>4. CASE UNCHANGED templateVars
  <2>1. /\ left' = left /\ repeats' = repeats /\ template' = template
        /\ subs' = subs /\ number' = number /\ clock' = clock /\ urls' = urls
    BY <1>4 DEF templateVars
  <2>2. Timeline' = Timeline /\ Period' = Period /\ EndNumber' = EndNumber /\ Keyed' = Keyed
        /\ Walked' = Walked /\ Read' = Read
    BY <2>1, SameTemplate DEF Read
  <2>3. TemplateTypeOK' /\ (CountsUp' <=> CountsUp)
    BY <2>1, <2>2 DEF TemplateTypeOK, CountsUp, TemplateInv
  <2>4. WalksOn' <=> WalksOn
    BY <2>1, <2>2 DEF WalksOn, Prefix, Settled, Within, Turns, Numbered, First, From
  <2> QED BY <2>2, <2>3, <2>4 DEF TemplateInv
<1> QED BY <1>1, <1>2, <1>3, <1>4 DEF TemplateNext

\* What is written begins what is said, and only the bound cuts it.
LEMMA CutsTheEnd ==
  ASSUME TemplateInv
  PROVE  BoundCutsTheEnd
<1> SUFFICES ASSUME Timeline # <<>>
             PROVE  IsPrefix(urls, Expansion) /\ (Done => Len(urls) = Lesser(Len(Expansion), MaxSegments))
  BY DEF BoundCutsTheEnd
<1>1. WalksOn /\ TemplateTypeOK /\ template \in Templates /\ urls \in Seq(Located)
      /\ left \in Seq(Sample) /\ Len(left) <= Len(Timeline) /\ Timeline \in Seq(Sample)
      /\ Len(urls) \in Nat /\ Len(urls) <= MaxSegments
  BY TemplateTyped DEF TemplateInv, TemplateTypeOK
<1>2. Read \in 0 .. Len(Timeline) /\ Len(Timeline) \in 0 .. Len(Timeline)
  BY <1>1 DEF Read
<1>3. Prefix(urls, Expansion)
  BY <1>1, <1>2, WalkGrows DEF WalksOn, Expansion
<1>4. Expansion \in Seq(Located) /\ Len(Expansion) \in Nat
  BY <1>1, <1>2, WalkTyped DEF Expansion
<1>5. Len(urls) <= Len(Expansion) /\ \A i \in 1 .. Len(urls) : urls[i] = Expansion[i]
  BY <1>3 DEF Prefix
<1> HIDE DEF Expansion
<1>6. SubSeq(urls, 1, Len(urls)) = SubSeq(Expansion, 1, Len(urls))
  <2>1. SubSeq(urls, 1, Len(urls)) \in Seq(Located) /\ Len(SubSeq(urls, 1, Len(urls))) = Len(urls)
        /\ \A i \in 1 .. Len(urls) : SubSeq(urls, 1, Len(urls))[i] = urls[i]
    BY <1>1
  <2>2. SubSeq(Expansion, 1, Len(urls)) \in Seq(Located) /\ Len(SubSeq(Expansion, 1, Len(urls))) = Len(urls)
        /\ \A i \in 1 .. Len(urls) : SubSeq(Expansion, 1, Len(urls))[i] = Expansion[i]
    BY <1>1, <1>4, <1>5
  <2> QED BY <1>5, <2>1, <2>2, SeqEqual
<1>7. ASSUME Done PROVE Len(urls) = Lesser(Len(Expansion), MaxSegments)
  <2>1. repeats = 0 /\ Read = Len(Timeline)
    BY <1>1, <1>7 DEF Done, Read
  <2>2. CASE Len(urls) < MaxSegments
    <3>1. Len(urls) = Len(Expansion)
      BY <1>1, <2>1, <2>2 DEF WalksOn, Settled, Expansion
    <3> QED BY <2>2, <3>1 DEF Lesser
  <2>3. CASE ~(Len(urls) < MaxSegments)
    BY <1>1, <1>4, <1>5, <2>3, TemplateAssumption DEF Lesser
  <2> QED BY <2>2, <2>3
<1> QED BY <1>5, <1>6, <1>7 DEF IsPrefix

\* The segments that begin before the end of the Period are those that fit.
LEMMA FillThePeriod ==
  ASSUME TemplateInv
  PROVE  SegmentsFillPeriod
<1> SUFFICES ASSUME FillsPeriod, ~Keyed, Period \notin {None, 0}
             PROVE  IF repeats > 0 THEN clock < Period \/ Len(urls) = MaxSegments
                    ELSE Len(urls) < MaxSegments => clock >= Period
  BY DEF SegmentsFillPeriod
<1>1. /\ TemplateTypeOK /\ template \in Templates /\ left \in Seq(Sample) /\ Len(left) <= Len(Timeline)
      /\ Timeline \in Seq(Sample) /\ Period \in Int /\ Len(urls) \in Nat /\ Len(urls) <= MaxSegments
      /\ repeats \in Nat /\ MaxSegments \in Nat
  BY TemplateTyped, TemplateAssumption DEF TemplateInv, TemplateTypeOK
<1>2. CASE Timeline = <<>>
  <2> DEFINE fit == Fitted(Period, SegmentDuration)
  <2>1. EndNumber = None /\ SegmentDuration \in Nat \ {0}
    BY <1>2, TemplateAssumption DEF FillsPeriod
  <2>2. clock = Len(urls) * SegmentDuration /\ Len(urls) + repeats = Lesser(fit, MaxSegments)
    BY <1>2, <2>1 DEF TemplateInv, CountsUp
  <2>3. fit \in Int /\ (Len(urls) < fit <=> Len(urls) * SegmentDuration < Period)
    <3>1. fit \in Int /\ \A e \in Int : e < fit <=> e * SegmentDuration < Period
      BY <1>1, <2>1, FittedBegin
    <3> HIDE DEF fit
    <3> QED BY <1>1, <3>1
  <2> HIDE DEF fit
  <2>4. clock \in Int
    <3>1. \A x, y \in Int : x * y \in Int
      OBVIOUS
    <3> QED BY <1>1, <2>1, <2>2, <3>1
  <2>5. repeats > 0 => Len(urls) < fit
    BY <1>1, <2>2, <2>3 DEF Lesser
  <2>6. repeats = 0 /\ Len(urls) < MaxSegments => Len(urls) = fit
    BY <1>1, <2>2, <2>3 DEF Lesser
  <2> QED BY <1>1, <2>2, <2>3, <2>4, <2>5, <2>6
<1>3. CASE Timeline # <<>>
  <2> DEFINE n == Read
             walk == Walked[n - 1]
             s == Timeline[n]
             length == Period - From(walk, s)
             fit == Fitted(length, s.d)
  <2>1. WalksOn /\ left # Timeline /\ s.r < 0 /\ s.d > 0
    BY <1>3 DEF FillsPeriod, Current, Read, TemplateInv
  <2>2. n \in 1 .. Len(Timeline)
    <3>1. ASSUME Len(left) = Len(Timeline) PROVE FALSE
      <4>1. \A i \in 1 .. Len(left) : left[i] = Timeline[i]
        <5>1. Read = 0 /\ \A i \in Int : Read + i = i
          BY <1>1, <3>1 DEF Read
        <5> QED BY <1>1, <5>1 DEF TemplateTypeOK
      <4> QED BY <1>1, <2>1, <3>1, <4>1, SeqEqual
    <3> QED BY <1>1, <3>1 DEF Read
  <2>3. /\ s \in Sample /\ walk \in Walk
        /\ Walked[n].clock = From(walk, s) + Turns(walk, s) * s.d
    BY <1>1, <2>2, WalkGoesOn
  <2>4. From(walk, s) \in Int /\ s.d \in Nat \ {0} /\ Turns(walk, s) \in Nat
    <3> HIDE DEF walk, s
    <3> QED BY <1>1, <2>1, <2>3, SaidTyped DEF Sample
  <2>5. length \in Int
    BY <1>1, <2>4
  <2>6. Turns(walk, s) = Greater(fit, 0)
    <3>1. ~(s.r >= 0)
      BY <2>1, <2>3 DEF Sample
    <3> QED BY <2>1, <3>1 DEF Turns
  <2>7. fit \in Int /\ \A e \in Int : e < fit <=> e * s.d < length
    <3> HIDE DEF length, s
    <3> QED BY <2>4, <2>5, FittedBegin
  <2> HIDE DEF n, walk, s, fit
  <2>8. CASE repeats > 0 /\ Len(urls) < MaxSegments
    <3> DEFINE b == number - First(walk, s)
    <3>1. Within(walk, s, b)
      BY <2>1, <2>8 DEF WalksOn, walk, s, n
    <3> HIDE DEF b
    <3>2. b \in Nat /\ b + repeats <= Turns(walk, s) /\ clock = From(walk, s) + b * s.d
      BY <3>1 DEF Within
    <3>3. b < fit
      <4>1. repeats \in Nat \ {0} /\ b + repeats <= Greater(fit, 0) /\ fit \in Int
        BY <1>1, <2>6, <2>7, <2>8, <3>2
      <4>2. b + repeats <= fit
        <5>1. b + repeats > 0
          BY <3>2, <4>1
        <5> QED BY <3>2, <4>1, <5>1 DEF Greater
      <4> QED BY <3>2, <4>1, <4>2
    <3>4. b * s.d < length
      BY <2>7, <3>2, <3>3
    <3> DEFINE p == b * s.d
    <3>5. p \in Int
      <4>1. \A x, y \in Int : x * y \in Int
        OBVIOUS
      <4> QED BY <2>4, <3>2, <4>1
    <3> HIDE DEF p
    <3>6. clock = From(walk, s) + p /\ p < Period - From(walk, s)
      BY <3>2, <3>4 DEF p
    <3>7. clock < Period
      BY <1>1, <2>4, <3>5, <3>6
    <3> QED BY <2>8, <3>7
  <2>9. CASE repeats = 0 /\ Len(urls) < MaxSegments
    <3>1. clock = Walked[n].clock
      BY <2>1, <2>9 DEF WalksOn, Settled, n
    <3>2. ~(Turns(walk, s) < fit)
      BY <2>4, <2>6, <2>7 DEF Greater
    <3>3. ~(Turns(walk, s) * s.d < length)
      BY <2>4, <2>7, <3>2
    <3> DEFINE p == Turns(walk, s) * s.d
    <3>4. p \in Int
      <4>1. \A x, y \in Int : x * y \in Int
        OBVIOUS
      <4> QED BY <2>4, <4>1
    <3> HIDE DEF p
    <3>5. clock = From(walk, s) + p /\ ~(p < Period - From(walk, s))
      BY <2>3, <3>1, <3>3 DEF p
    <3>6. clock >= Period
      BY <1>1, <2>4, <3>4, <3>5
    <3> QED BY <2>9, <3>6
  <2> QED BY <1>1, <2>8, <2>9
<1> QED BY <1>2, <1>3

\* Of every template whose S elements without locators repeat no more often than
\* the bound, the locators are the first 64 of what its timeline says, in order,
\* and those that are counted fill the Period (_template_urls).
THEOREM TemplatesFilled ==
  ASSUME RepeatsFit
  PROVE  TemplateSpec => []TemplateIsFilled
<1>1. TemplateInit => TemplateInv
  BY TemplateInvInit
<1>2. TemplateInv /\ [TemplateNext]_templateVars => TemplateInv'
  BY TemplateInvStep
<1>3. TemplateInv => TemplateIsFilled
  BY CutsTheEnd, FillThePeriod DEF TemplateIsFilled
<1> QED BY <1>1, <1>2, <1>3, PTL DEF TemplateSpec

-----------------------------------------------------------------------------
(* What is recorded of a Period. *)

\* Lists, and what they are put together of.
LEMMA ListIs ==
  ASSUME NEW n \in Nat, NEW f, DOMAIN f = 1 .. n, f = [i \in 1 .. n |-> f[i]]
  PROVE  IsList(f) /\ Len(f) = n
<1>1. f \in [1 .. n -> ToSet(f)]
  BY DEF ToSet
<1> QED BY <1>1 DEF IsList

LEMMA ListJoins ==
  ASSUME NEW s, IsList(s), NEW t, IsList(t)
  PROVE  /\ IsList(s \o t)
         /\ ToSet(s \o t) = ToSet(s) \cup ToSet(t)
         /\ s \o t = <<>> => s = <<>> /\ t = <<>>
         /\ IsPrefix(s, s \o t)
<1> DEFINE D == ToSet(s) \cup ToSet(t)
           u == s \o t
<1>1. s \in Seq(D) /\ t \in Seq(D) /\ Len(s) \in Nat /\ Len(t) \in Nat
  BY DEF IsList
<1>2. /\ u \in Seq(D) /\ Len(u) = Len(s) + Len(t)
      /\ \A i \in 1 .. Len(s) : u[i] = s[i]
      /\ \A i \in 1 .. Len(t) : u[Len(s) + i] = t[i]
  BY <1>1
<1>3. DOMAIN s = 1 .. Len(s) /\ DOMAIN t = 1 .. Len(t) /\ DOMAIN u = 1 .. Len(u)
  BY <1>1, <1>2
<1> HIDE DEF u
<1>4. ToSet(u) = ToSet(s) \cup ToSet(t)
  <2>1. \A i \in DOMAIN u : 
               i \in DOMAIN s \/ ((i - Len(s)) \in DOMAIN t /\ Len(s) + (i - Len(s)) = i)
    BY <1>1, <1>2, <1>3
  <2>2. ASSUME NEW x \in ToSet(u) PROVE x \in ToSet(s) \cup ToSet(t)
    <3>1. PICK i \in DOMAIN u : x = u[i]
      BY DEF ToSet
    <3>2. CASE i \in DOMAIN s
      BY <1>2, <1>3, <3>1, <3>2 DEF ToSet
    <3>3. CASE i \notin DOMAIN s
      <4>1. (i - Len(s)) \in DOMAIN t /\ u[i] = t[i - Len(s)]
        BY <1>2, <1>3, <2>1, <3>3
      <4> QED BY <3>1, <4>1 DEF ToSet
    <3> QED BY <3>2, <3>3
  <2>3. ASSUME NEW x \in ToSet(s) PROVE x \in ToSet(u)
    <3>1. PICK i \in DOMAIN s : x = s[i]
      BY DEF ToSet
    <3>2. i \in DOMAIN u /\ u[i] = s[i]
      BY <1>1, <1>2, <1>3
    <3> QED BY <3>1, <3>2 DEF ToSet
  <2>4. ASSUME NEW x \in ToSet(t) PROVE x \in ToSet(u)
    <3>1. PICK i \in DOMAIN t : x = t[i]
      BY DEF ToSet
    <3>2. Len(s) + i \in DOMAIN u /\ u[Len(s) + i] = t[i]
      BY <1>1, <1>2, <1>3
    <3> QED BY <3>1, <3>2 DEF ToSet
  <2> QED BY <2>2, <2>3, <2>4
<1>5. IsPrefix(s, u)
  <2>1. SubSeq(s, 1, Len(s)) = s
    BY <1>1
  <2>2. SubSeq(u, 1, Len(s)) \in Seq(D) /\ Len(SubSeq(u, 1, Len(s))) = Len(s)
        /\ \A i \in 1 .. Len(s) : SubSeq(u, 1, Len(s))[i] = u[i]
    BY <1>1, <1>2
  <2>3. SubSeq(u, 1, Len(s)) = s
    BY <1>1, <1>2, <2>2, SeqEqual
  <2> QED BY <1>1, <1>2, <2>1, <2>3 DEF IsPrefix
<1>6. u = <<>> => s = <<>> /\ t = <<>>
  BY <1>1, <1>2
<1> QED BY <1>2, <1>4, <1>5, <1>6 DEF u, IsList

\* A list that is short of nothing, of parts that are written down.
LEMMA ListOne == ASSUME NEW x PROVE IsList(<<x>>) /\ ToSet(<<x>>) = {x} /\ <<x>> # <<>>
<1>1. <<x>> \in Seq({x}) /\ DOMAIN <<x>> = 1 .. 1 /\ <<x>>[1] = x
  OBVIOUS
<1>2. ToSet(<<x>>) = {x}
  <2> DEFINE s == <<x>>
  <2>1. DOMAIN s = {1} /\ s[1] = x
    BY <1>1
  <2> HIDE DEF s
  <2>2. ToSet(s) = {x}
    BY <2>1 DEF ToSet
  <2> QED BY <2>2 DEF s
<1> QED BY <1>1, <1>2 DEF IsList

LEMMA ListTwo ==
  ASSUME NEW x, NEW y PROVE IsList(<<x, y>>) /\ ToSet(<<x, y>>) = {x, y} /\ <<x, y>> # <<>>
<1> DEFINE s == <<x, y>>
<1>1. s \in Seq({x, y}) /\ DOMAIN s = {1, 2} /\ s[1] = x /\ s[2] = y /\ s # <<>>
  OBVIOUS
<1> HIDE DEF s
<1>2. ToSet(s) = {x, y}
  BY <1>1 DEF ToSet
<1>3. IsList(s)
  BY <1>1, <1>2 DEF IsList
<1> QED BY <1>1, <1>2, <1>3 DEF s

LEMMA ListNone == IsList(<<>>) /\ ToSet(<<>>) = {}
BY DEF IsList, ToSet

\* The numbers of a range are in order, and no set that has a member is left out.
LEMMA InOrderRange ==
  ASSUME NEW n \in Nat PROVE InOrder(1 .. n) = [k \in 1 .. n |-> k]
<1>1. Cardinality(1 .. n) = n
  BY FS_Interval
<1>2. \A i \in 1 .. n : Cardinality({j \in 1 .. n : j <= i}) = i
  <2> SUFFICES ASSUME NEW i \in 1 .. n PROVE Cardinality({j \in 1 .. n : j <= i}) = i
    OBVIOUS
  <2>1. {j \in 1 .. n : j <= i} = 1 .. i
    OBVIOUS
  <2>2. Cardinality(1 .. i) = i
    BY FS_Interval
  <2> QED BY <2>1, <2>2
<1>3. ASSUME NEW k \in 1 .. n
      PROVE  (CHOOSE i \in 1 .. n : Cardinality({j \in 1 .. n : j <= i}) = k) = k
  <2> DEFINE Q(i) == Cardinality({j \in 1 .. n : j <= i})
  <2>1. \A i \in 1 .. n : Q(i) = i
    BY <1>2
  <2> HIDE DEF Q
  <2>2. (CHOOSE i \in 1 .. n : Q(i) = k) = k
    BY <2>1
  <2> QED BY <2>2, Zenon DEF Q
<1> DEFINE P(k) == CHOOSE i \in 1 .. n : Cardinality({j \in 1 .. n : j <= i}) = k
<1>4. InOrder(1 .. n) = [k \in 1 .. n |-> P(k)]
  BY <1>1, Zenon DEF InOrder
<1>5. \A k \in 1 .. n : P(k) = k
  BY <1>3
<1> HIDE DEF P
<1> QED BY <1>4, <1>5

LEMMA InOrderKeeps ==
  ASSUME NEW n \in Nat, NEW at, at \subseteq 1 .. n
  PROVE  \E k \in Nat : DOMAIN InOrder(at) = 1 .. k /\ (at # {} => k >= 1)
<1>1. IsFiniteSet(1 .. n)
  BY FS_Interval
<1>2. IsFiniteSet(at)
  BY <1>1, FS_Subset
<1>3. Cardinality(at) \in Nat /\ (Cardinality(at) = 0 <=> at = {})
  BY <1>2, FS_CardinalityType, FS_EmptySet
<1>4. DOMAIN InOrder(at) = 1 .. Cardinality(at)
  BY DEF InOrder
<1> HIDE DEF InOrder
<1> DEFINE k == Cardinality(at)
<1>5. k \in Nat /\ (k = 0 <=> at = {})
  BY <1>3
<1> HIDE DEF k
<1>6. at # {} => k >= 1
  <2>1. \A x \in Nat : x # 0 => x >= 1
    OBVIOUS
  <2> QED BY <1>5, <2>1, Zenon
<1> QED BY <1>4, <1>5, <1>6 DEF k

\* Sequences are flattened one after the other.
LEMMA Flattens ==
  ASSUME NEW D, NEW seqs \in Seq(Seq(D))
  PROVE  \E f \in [0..Len(seqs) -> Seq(D)] :
           /\ f[0] = <<>>
           /\ \A i \in 1..Len(seqs) : f[i] = f[i - 1] \o seqs[i]
           /\ FlattenSeq(seqs) = f[Len(seqs)]
<1> DEFINE N == Len(seqs)
           Next1(f, i) == IF i = 1 THEN seqs[i] ELSE f[i - 1] \o seqs[i]
           Joins(f) == f = [i \in 1..N |-> Next1(f, i)]
           F == CHOOSE f : Joins(f)
           G == [q \in Seq(D) \X Nat |-> IF q[2] \in 1..N THEN q[1] \o seqs[q[2]] ELSE <<>>]
<1>1. N \in Nat /\ \A i \in 1..N : seqs[i] \in Seq(D)
  OBVIOUS
<1>2. CASE N = 0
  <2> DEFINE f == [i \in 0..0 |-> <<>>]
  <2>1. f \in [0..0 -> Seq(D)] /\ f[0] = <<>>
    OBVIOUS
  <2>2. FlattenSeq(seqs) = <<>> /\ Len(seqs) = 0 /\ 1..0 = {}
    BY <1>2 DEF FlattenSeq
  <2> HIDE DEF f
  <2> QED BY <2>1, <2>2
<1>3. CASE N # 0
  <2>1. G \in [Seq(D) \X Nat -> Seq(D)]
    <3>1. ASSUME NEW q \in Seq(D) \X Nat PROVE G[q] \in Seq(D)
      <4>1. q[1] \in Seq(D)
        OBVIOUS
      <4>2. ASSUME q[2] \in 1..N PROVE q[1] \o seqs[q[2]] \in Seq(D)
        BY <1>1, <4>1, <4>2, ConcatProperties
      <4> QED BY <4>2
    <3> QED BY <3>1
  <2>2. <<>> \in Seq(D)
    OBVIOUS
  <2>3. PICK f : Unfolding(Seq(D), <<>>, N, G, f)
    <3> HIDE DEF G, N
    <3> QED BY <1>1, <2>1, <2>2, Unfolds
  <2>4. f \in [0..N -> Seq(D)] /\ f[0] = <<>> /\ \A i \in 1..N : f[i] = G[<<f[i - 1], i>>]
    BY <2>3 DEF Unfolding
  <2> DEFINE g == [i \in 1..N |-> f[i]]
  <2>5. \A i \in 1..N : f[i] = f[i - 1] \o seqs[i]
    <3> SUFFICES ASSUME NEW i \in 1..N PROVE f[i] = f[i - 1] \o seqs[i]
      OBVIOUS
    <3>1. i - 1 \in 0..N /\ f[i - 1] \in Seq(D)
      <4> HIDE DEF G, N
      <4> QED BY <1>1, <2>4
    <3> DEFINE q == <<f[i - 1], i>>
    <3>2. q \in Seq(D) \X Nat /\ q[1] = f[i - 1] /\ q[2] = i
      BY <3>1
    <3>3. G[q] = f[i - 1] \o seqs[i]
      <4> HIDE DEF q
      <4> QED BY <3>2
    <3> HIDE DEF G
    <3> QED BY <2>4, <3>3
  <2>6. \A i \in 1..N : g[i] = Next1(g, i)
    <3> SUFFICES ASSUME NEW i \in 1..N PROVE g[i] = Next1(g, i)
      OBVIOUS
    <3>1. CASE i = 1
      <4>1. f[0] \o seqs[1] = seqs[1]
        BY <1>1, <2>4, <3>1, ConcatEmptySeq
      <4>2. 1 \in 1..N /\ 1 - 1 = 0 /\ g[1] = f[1]
        BY <3>1
      <4>3. g[1] = f[0] \o seqs[1]
        <5> HIDE DEF g, N
        <5> QED BY <2>5, <4>2
      <4> QED BY <3>1, <4>1, <4>3
    <3>2. CASE i # 1
      <4>1. i - 1 \in 1..N /\ g[i - 1] = f[i - 1] /\ g[i] = f[i]
        BY <1>1, <3>2
      <4> HIDE DEF g
      <4> QED BY <2>5, <3>2, <4>1
    <3> QED BY <3>1, <3>2
  <2>7. Joins(g)
    <3>1. g = [i \in 1..N |-> g[i]]
      OBVIOUS
    <3> HIDE DEF g, Next1
    <3> QED BY <2>6, <3>1
  <2>8. Joins(F)
    <3> HIDE DEF Joins
    <3> QED BY <2>7, Zenon
  <2>9. FlattenSeq(seqs) = F[N]
    BY <1>3, Zenon DEF FlattenSeq
  <2> HIDE DEF F
  <2>10. \A i \in 1..N : F[i] = Next1(F, i)
    <3> HIDE DEF Next1
    <3> QED BY <2>8
  <2> DEFINE Ms == {m \in Nat : m + 1 <= N => F[m + 1] = f[m + 1]}
  <2>11. 0 \in Ms
    <3>1. 1 \in 1..N /\ g[1] = f[1]
      BY <1>1, <1>3
    <3> HIDE DEF g
    <3> QED BY <2>6, <2>10, <3>1
  <2>12. ASSUME NEW m \in Nat, m \in Ms PROVE m + 1 \in Ms
    <3> SUFFICES ASSUME (m + 1) + 1 <= N PROVE F[(m + 1) + 1] = f[(m + 1) + 1]
      OBVIOUS
    <3>1. (m + 1) + 1 \in 1..N /\ ((m + 1) + 1) - 1 = m + 1 /\ (m + 1) + 1 # 1 /\ F[m + 1] = f[m + 1]
      BY <1>1, <2>12
    <3>2. F[(m + 1) + 1] = F[m + 1] \o seqs[(m + 1) + 1]
      BY <2>10, <3>1
    <3> QED BY <2>5, <3>1, <3>2
  <2> HIDE DEF Ms
  <2>13. \A m \in Nat : m \in Ms
    BY <2>11, <2>12, Induct
  <2>14. N - 1 \in Ms /\ (N - 1) + 1 = N
    BY <1>1, <1>3, <2>13
  <2>15. F[N] = f[N]
    BY <1>1, <2>14 DEF Ms
  <2> HIDE DEF G
  <2> QED BY <2>4, <2>5, <2>9, <2>15
<1> QED BY <1>2, <1>3


\* What is flattened holds what the lists hold.
LEMMA FlattenHolds ==
  ASSUME NEW n \in Nat, NEW seqs, DOMAIN seqs = 1 .. n, seqs = [i \in 1 .. n |-> seqs[i]],
         \A i \in 1 .. n : IsList(seqs[i])
  PROVE  /\ IsList(FlattenSeq(seqs))
         /\ \A x : x \in ToSet(FlattenSeq(seqs)) <=> \E i \in 1 .. n : x \in ToSet(seqs[i])
<1> DEFINE D == UNION {ToSet(seqs[i]) : i \in 1 .. n}
<1>1. \A i \in 1 .. n : seqs[i] \in Seq(D)
  <2> SUFFICES ASSUME NEW i \in 1 .. n PROVE seqs[i] \in Seq(D)
    OBVIOUS
  <2>1. seqs[i] \in Seq(ToSet(seqs[i])) /\ ToSet(seqs[i]) \subseteq D
    BY DEF IsList
  <2> HIDE DEF D
  <2> QED BY <2>1
<1> HIDE DEF D
<1>2. seqs \in Seq(Seq(D)) /\ Len(seqs) = n
  <2>1. seqs \in [1 .. n -> Seq(D)]
    BY <1>1
  <2> QED BY <2>1
<1>3. PICK f \in [0 .. n -> Seq(D)] : /\ f[0] = <<>>
                                      /\ \A i \in 1 .. n : f[i] = f[i - 1] \o seqs[i]
                                      /\ FlattenSeq(seqs) = f[n]
  BY <1>2, Flattens
<1> DEFINE Holds(m) == \A x : x \in ToSet(f[m]) <=> \E i \in 1 .. m : x \in ToSet(seqs[i])
           Ms == {m \in Nat : m <= n => IsList(f[m]) /\ Holds(m)}
<1>4. 0 \in Ms
  <2>1. IsList(f[0]) /\ ToSet(f[0]) = {}
    BY <1>3, ListNone
  <2>2. 1 .. 0 = {}
    OBVIOUS
  <2> QED BY <2>1, <2>2
<1>5. ASSUME NEW m \in Nat, m \in Ms PROVE m + 1 \in Ms
  <2> SUFFICES ASSUME m + 1 <= n PROVE IsList(f[m + 1]) /\ Holds(m + 1)
    OBVIOUS
  <2>1. IsList(f[m]) /\ Holds(m)
    BY <1>5
  <2>2. m + 1 \in 1 .. n /\ f[m + 1] = f[m] \o seqs[m + 1] /\ IsList(seqs[m + 1])
    <3>1. m + 1 \in 1 .. n /\ (m + 1) - 1 = m
      OBVIOUS
    <3>2. f[m + 1] = f[(m + 1) - 1] \o seqs[m + 1]
      BY <1>3, <3>1
    <3> QED BY <3>1, <3>2
  <2>3. IsList(f[m + 1]) /\ ToSet(f[m + 1]) = ToSet(f[m]) \cup ToSet(seqs[m + 1])
    BY <2>1, <2>2, ListJoins
  <2>4. ASSUME NEW x
        PROVE  x \in ToSet(f[m + 1]) <=> \E i \in 1 .. m + 1 : x \in ToSet(seqs[i])
    <3>1. x \in ToSet(f[m]) <=> \E i \in 1 .. m : x \in ToSet(seqs[i])
      BY <2>1
    <3>2. \A i : i \in 1 .. m + 1 <=> i \in 1 .. m \/ i = m + 1
      OBVIOUS
    <3> QED BY <2>3, <3>1, <3>2
  <2> QED BY <2>3, <2>4
<1> HIDE DEF Ms
<1>6. n \in Ms
  BY <1>4, <1>5, Induct
<1>7. IsList(f[n]) /\ Holds(n)
  BY <1>6 DEF Ms
<1> QED BY <1>3, <1>7

-----------------------------------------------------------------------------
(* What is read of a level. *)

\* The BaseURLs that are files give a list of parts, empty only when there are none.
LEMMA FilesAre ==
  ASSUME NEW dir, NEW level, IsLevel(level)
  PROVE  /\ IsList(Files(dir, level))
         /\ level.addr \notin {"list", "ranges", "base"} /\ level.base # <<>>
              /\ Last(level.base).form = "file" => Files(dir, level) # <<>>
<1> DEFINE n == Len(level.base)
           at == {i \in DOMAIN level.base : level.base[i].form = "file"}
           files == InOrder(at)
           File1(i) == Part(Append(AdvanceBase(dir, SubSeq(level.base, 1, i - 1)), level.base[i].name), None, 0)
           all == [m \in DOMAIN files |-> File1(files[m])]
<1>1. n \in Nat /\ DOMAIN level.base = 1 .. n
  BY DEF IsLevel, IsList
<1>2. PICK k \in Nat : DOMAIN files = 1 .. k /\ (at # {} => k >= 1)
  BY <1>1, InOrderKeeps
<1>3. IsList(all) /\ Len(all) = k
  <2>1. DOMAIN all = 1 .. k /\ all = [m \in 1 .. k |-> all[m]]
    BY <1>2
  <2> HIDE DEF all
  <2> QED BY <2>1, ListIs
<1>4. Files(dir, level) = IF level.addr \in {"list", "ranges", "base"} THEN <<>> ELSE all
  BY Zenon DEF Files
<1>5. level.base # <<>> /\ Last(level.base).form = "file" => at # {}
  <2> SUFFICES ASSUME level.base # <<>>, Last(level.base).form = "file" PROVE at # {}
    OBVIOUS
  <2>1. n \in DOMAIN level.base
    BY <1>1 DEF IsLevel, IsList
  <2> QED BY <2>1 DEF Last
<1>6. k >= 1 => all # <<>>
  BY <1>2
<1> HIDE DEF all, at, files
<1> QED BY <1>2, <1>3, <1>4, <1>5, <1>6, ListNone

\* A list of representations whose end tags come first is what is read of it.
LEMMA BlocksAre ==
  ASSUME NEW reps, AreRepresentations(reps), EndTagsFirst(reps)
  PROVE  Blocks(reps) = reps
<1> DEFINE n == Len(reps)
           closes(i) == {j \in i .. n : reps[j].open}
           next(i)   == CHOOSE j \in closes(i) : \A k \in closes(i) : j <= k
           block(i)  == IF closes(i) = {} THEN reps[i]
                        ELSE [reps[i] EXCEPT !.base = reps[next(i)].base, !.addr = reps[next(i)].addr]
           at == {i \in DOMAIN reps : i = 1 \/ reps[i - 1].open \/ closes(i) = {}}
           begins == InOrder(at)
<1>1. /\ n \in Nat /\ DOMAIN reps = 1 .. n /\ reps = [i \in 1 .. n |-> reps[i]]
      /\ \A i \in 1 .. n : IsRepresentation(reps[i])
  BY DEF AreRepresentations, IsList, ToSet
<1>2. \A i \in 1 .. n : closes(i) # {} => reps[i].open
  <2> SUFFICES ASSUME NEW i \in 1 .. n, NEW j \in closes(i) PROVE reps[i].open
    OBVIOUS
  <2>1. j \in 1 .. n /\ (i < j \/ i = j) /\ reps[j].open
    OBVIOUS
  <2> QED BY <1>1, <2>1 DEF EndTagsFirst
<1>3. ASSUME NEW i \in 1 .. n PROVE block(i) = reps[i]
  <2>1. CASE closes(i) = {}
    BY <2>1
  <2>2. CASE closes(i) # {}
    <3>1. i \in closes(i) /\ \A k \in closes(i) : i <= k
      BY <1>2, <2>2
    <3>2. next(i) = i
      <4>1. next(i) \in closes(i) /\ \A k \in closes(i) : next(i) <= k
        <5> HIDE DEF closes
        <5> QED BY <3>1
      <4>2. \A j \in closes(i) : j \in Int
        BY <1>1
      <4> HIDE DEF next, closes
      <4>3. next(i) <= i /\ i <= next(i) /\ next(i) \in Int
        BY <3>1, <4>1, <4>2
      <4> QED BY <4>3
    <3> HIDE DEF next, closes
    <3>3. block(i) = [reps[i] EXCEPT !.base = reps[i].base, !.addr = reps[i].addr]
      BY <2>2, <3>2
    <3> QED BY <1>1, <3>3 DEF IsRepresentation
  <2> QED BY <2>1, <2>2
<1>4. at = 1 .. n
  <2> SUFFICES ASSUME NEW i \in 1 .. n PROVE i = 1 \/ reps[i - 1].open \/ closes(i) = {}
    BY <1>1
  <2>1. CASE i # 1 /\ closes(i) # {}
    <3>1. i - 1 \in 1 .. n /\ i - 1 < i /\ reps[i].open
      BY <1>2, <2>1
    <3> QED BY <1>1, <3>1 DEF EndTagsFirst
  <2> QED BY <2>1
<1>5. begins = [k \in 1 .. n |-> k]
  BY <1>1, <1>4, InOrderRange
<1>6. Blocks(reps) = [m \in DOMAIN begins |-> block(begins[m])]
  BY Zenon DEF Blocks
<1>7. \A m \in 1 .. n : block(begins[m]) = reps[m]
  <2> HIDE DEF block, begins
  <2> QED BY <1>3, <1>5
<1> HIDE DEF block, begins
<1>8. DOMAIN begins = 1 .. n
  BY <1>5
<1>9. Blocks(reps) = [m \in 1 .. n |-> reps[m]]
  BY <1>6, <1>7, <1>8
<1> QED BY <1>1, <1>9


\* Of numbers up to a bound there is a greatest.
LEMMA Greatest ==
  ASSUME NEW n \in Nat, NEW at, at \subseteq 1 .. n, at # {}
  PROVE  \E i \in at : \A j \in at : j <= i
<1> DEFINE T == {n - i : i \in at}
<1>1. T \subseteq Nat /\ T # {}
  <2>1. \A i \in at : i \in 1 .. n /\ n - i \in Nat
    OBVIOUS
  <2> QED BY <2>1
<1>2. PICK x \in T : \A y \in T : x <= y
  <2> HIDE DEF T
  <2> QED BY <1>1, Least
<1>3. PICK i \in at : x = n - i
  BY <1>2
<1>4. ASSUME NEW j \in at PROVE j <= i
  <2>1. n - j \in T /\ x <= n - j /\ i \in 1 .. n /\ j \in 1 .. n
    BY <1>2
  <2> HIDE DEF T
  <2> QED BY <1>3, <2>1
<1> QED BY <1>4

\* Levels from the outermost to the innermost.
AreLevels(above) == IsList(above) /\ \A level \in ToSet(above) : IsLevel(level)

\* What addresses the segments of a representation is the level nearest to it.
LEMMA NearestIs ==
  ASSUME NEW above, AreLevels(above), NEW rep, IsLevel(rep)
  PROVE  /\ Nearest(Append(above, rep)) = Source(above, rep)
         /\ IsLevel(Source(above, rep))
<1> DEFINE n == Len(above)
           has == {i \in DOMAIN above : above[i].addr # "none"}
           levels == Append(above, rep)
           hasAll == {i \in DOMAIN levels : levels[i].addr # "none"}
<1>1. /\ n \in Nat /\ DOMAIN above = 1 .. n
      /\ \A i \in 1 .. n : IsLevel(above[i])
  BY DEF AreLevels, IsList, ToSet
<1>2. /\ DOMAIN levels = 1 .. n + 1
      /\ \A i \in 1 .. n : levels[i] = above[i]
      /\ levels[n + 1] = rep
  BY <1>1 DEF AreLevels, IsList
<1> DEFINE nil == [addr |-> "none", base |-> <<>>, name |-> None]
<1>3. Nearest(above) = IF has = {} THEN nil ELSE above[CHOOSE i \in has : \A j \in has : j <= i]
  BY DEF Nearest
<1>4. Nearest(levels) = IF hasAll = {} THEN nil
                        ELSE levels[CHOOSE i \in hasAll : \A j \in hasAll : j <= i]
  BY DEF Nearest
<1> HIDE DEF levels
<1>5. CASE rep.addr # "none"
  <2>1. n + 1 \in hasAll /\ \A j \in hasAll : j <= n + 1 /\ j \in Int
    BY <1>1, <1>2, <1>5
  <2> HIDE DEF hasAll
  <2>2. (CHOOSE i \in hasAll : \A j \in hasAll : j <= i) = n + 1
    <3> DEFINE m == CHOOSE i \in hasAll : \A j \in hasAll : j <= i
    <3>1. m \in hasAll /\ \A j \in hasAll : j <= m
      BY <2>1
    <3>2. m <= n + 1 /\ n + 1 <= m /\ m \in Int /\ n + 1 \in Int
      BY <1>1, <2>1, <3>1
    <3> HIDE DEF m
    <3>3. m = n + 1
      BY <3>2
    <3> QED BY <3>3 DEF m
  <2>3. hasAll # {}
    BY <2>1
  <2>4. Nearest(levels) = rep
    BY <1>2, <1>4, <2>2, <2>3
  <2>5. Source(above, rep) = rep
    BY <1>5 DEF Source
  <2> QED BY <2>4, <2>5 DEF levels
<1>6. CASE rep.addr = "none"
  <2>1. hasAll = has
    <3>1. \A i : i \in 1 .. n + 1 <=> i \in 1 .. n \/ i = n + 1
      BY <1>1
    <3> QED BY <1>1, <1>2, <1>6, <3>1
  <2>2. has \subseteq 1 .. n
    BY <1>1
  <2>3. Source(above, rep) = Nearest(above)
    BY <1>6 DEF Source
  <2>4. CASE has = {}
    <3>1. IsLevel(nil)
      BY ListNone DEF IsLevel
    <3> HIDE DEF nil, has, hasAll
    <3> QED BY <1>3, <1>4, <2>1, <2>3, <2>4, <3>1 DEF levels
  <2>5. CASE has # {}
    <3> DEFINE m == CHOOSE i \in has : \A j \in has : j <= i
    <3>1. m \in has
      <4>1. \E i \in has : \A j \in has : j <= i
        <5> HIDE DEF has
        <5> QED BY <1>1, <2>2, <2>5, Greatest
      <4> HIDE DEF has
      <4> QED BY <4>1
    <3> HIDE DEF has
    <3>2. Nearest(above) = above[m] /\ Nearest(levels) = levels[m]
      <4> HIDE DEF nil, hasAll
      <4> QED BY <1>3, <1>4, <2>1, <2>5
    <3> HIDE DEF m, hasAll
    <3>3. m \in 1 .. n
      BY <2>2, <3>1
    <3> QED BY <1>1, <1>2, <2>3, <3>2, <3>3 DEF levels
  <2> QED BY <2>4, <2>5
<1> QED BY <1>5, <1>6

\* Whether the level that addresses a representation, or its own last BaseURL,
\* gives it a locator; and the locators that come from a template or a list.
Locates(levels, rep) ==
  \/ Nearest(levels).addr \in {"template", "list", "base"}
  \/ rep.base # <<>> /\ Last(rep.base).form = "file"
Addressed(levels, rep, dir) ==
  LET from == Nearest(levels)
  IN  CASE from.addr = "template" -> {dir \o <<from.name, rep.id, "init">>, dir \o <<from.name, rep.id, "media">>}
        [] from.addr = "list" -> {dir \o <<from.name, "segment">>}
        [] OTHER -> {}
UrisOf(parts) == {p.uri : p \in ToSet(parts)}

\* What a representation is read to.
LEMMA CollectIs ==
  ASSUME NEW above, AreLevels(above), NEW rep, IsLevel(rep), NEW dir
  PROVE  LET parts == CollectRepresentation(above, rep, dir)
             levels == Append(above, rep)
         IN  /\ IsList(parts)
             /\ Locates(levels, rep) => parts # <<>>
             /\ Addressed(levels, rep, AdvanceBase(dir, rep.base)) \subseteq UrisOf(parts)
<1> DEFINE from == Source(above, rep)
           hrefs == (IF from = rep THEN <<>> ELSE from.base) \o rep.base
           here == AdvanceBase(dir, rep.base)
           own == IF from.addr \in {"list", "ranges"} THEN <<>> ELSE Files(dir, rep)
           segments == CollectSegments(from, rep, here, hrefs)
           object == IF NamesFile(hrefs) THEN FileBaseurl(dir, hrefs) ELSE here
           parts == CollectRepresentation(above, rep, dir)
           levels == Append(above, rep)
<1>1. Nearest(levels) = from /\ IsLevel(from)
  BY NearestIs
<1>2. parts = IF from.addr = "base" THEN CollectSegmentBase(object) ELSE own \o segments
  BY Zenon DEF CollectRepresentation
<1>3. IsList(own) /\ (from.addr = "none" /\ rep.base # <<>> /\ Last(rep.base).form = "file" => own # <<>>)
  <2>1. IsList(Files(dir, rep))
        /\ (rep.addr \notin {"list", "ranges", "base"} /\ rep.base # <<>>
              /\ Last(rep.base).form = "file" => Files(dir, rep) # <<>>)
    BY FilesAre
  <2>2. from.addr = "none" => rep.addr = "none"
    BY DEF Source
  <2> QED BY <2>1, <2>2, ListNone
<1>4. rep.base # <<>> /\ Last(rep.base).form = "file" => NamesFile(hrefs)
  <2> SUFFICES ASSUME rep.base # <<>>, Last(rep.base).form = "file" PROVE NamesFile(hrefs)
    OBVIOUS
  <2> DEFINE before == IF from = rep THEN <<>> ELSE from.base
  <2>1. IsList(before) /\ IsList(rep.base)
    BY <1>1, ListNone DEF IsLevel
  <2> HIDE DEF before, from
  <2> DEFINE D == ToSet(before) \cup ToSet(rep.base)
  <2>2. before \in Seq(D) /\ rep.base \in Seq(D)
    BY <2>1 DEF IsList
  <2> HIDE DEF D
  <2>3. Last(before \o rep.base) = Last(rep.base) /\ before \o rep.base # <<>>
    BY <2>2 DEF Last
  <2> QED BY <2>3 DEF before, from, NamesFile
<1>5. from.addr \in {"none", "template", "list", "ranges", "base"}
  BY <1>1 DEF IsLevel
<1> HIDE DEF from, here, own, object, hrefs
<1>6. CASE from.addr = "base"
  <2>1. parts = <<Part(object, 0, 0), Part(object, 1, 0)>>
    BY <1>2, <1>6 DEF CollectSegmentBase
  <2>2. Addressed(levels, rep, here) = {}
    BY <1>1, <1>6 DEF Addressed
  <2> HIDE DEF parts, levels
  <2>3. IsList(parts) /\ parts # <<>>
    BY <2>1, ListTwo
  <2> QED BY <2>2, <2>3 DEF parts, levels, here
<1>7. CASE from.addr = "template"
  <2> DEFINE x == Part(here \o <<from.name, rep.id, "init">>, None, 0)
             y == Part(here \o <<from.name, rep.id, "media">>, None, 0)
  <2>1. segments = <<x, y>>
    BY <1>7 DEF CollectSegments, Resolved
  <2>2. Addressed(levels, rep, here) = {x.uri, y.uri}
    BY <1>1, <1>7 DEF Addressed, Part
  <2> HIDE DEF x, y, segments
  <2>3. IsList(segments) /\ ToSet(segments) = {x, y} /\ segments # <<>>
    BY <2>1, ListTwo
  <2>4. parts = own \o segments
    BY <1>2, <1>7
  <2> HIDE DEF parts, levels
  <2>5. IsList(parts) /\ parts # <<>> /\ ToSet(segments) \subseteq ToSet(parts)
    BY <1>3, <2>3, <2>4, ListJoins
  <2>6. Addressed(levels, rep, here) \subseteq UrisOf(parts)
    BY <2>2, <2>3, <2>5 DEF UrisOf
  <2> QED BY <2>5, <2>6 DEF parts, levels, here
<1>8. CASE from.addr = "list"
  <2> DEFINE x == Part(here \o <<from.name, "segment">>, None, 0)
  <2>1. segments = <<x>>
    BY <1>8 DEF CollectSegments
  <2>2. Addressed(levels, rep, here) = {x.uri}
    BY <1>1, <1>8 DEF Addressed, Part
  <2> HIDE DEF x, segments
  <2>3. IsList(segments) /\ ToSet(segments) = {x} /\ segments # <<>>
    BY <2>1, ListOne
  <2>4. parts = own \o segments
    BY <1>2, <1>8
  <2> HIDE DEF parts, levels
  <2>5. IsList(parts) /\ parts # <<>> /\ ToSet(segments) \subseteq ToSet(parts)
    BY <1>3, <2>3, <2>4, ListJoins
  <2>6. Addressed(levels, rep, here) \subseteq UrisOf(parts)
    BY <2>2, <2>3, <2>5 DEF UrisOf
  <2> QED BY <2>5, <2>6 DEF parts, levels, here
<1>9. CASE from.addr \in {"ranges", "none"}
  <2> DEFINE o == FileBaseurl(here, hrefs)
  <2>1. segments = IF from.addr = "ranges" /\ NamesFile(hrefs)
                   THEN <<Part(o, 0, 0), Part(o, 1, 0)>> ELSE <<>>
    BY <1>9 DEF CollectSegments
  <2>2. IsList(segments) /\ (from.addr = "ranges" /\ NamesFile(hrefs) => segments # <<>>)
    <3> HIDE DEF o, segments
    <3> QED BY <2>1, ListTwo, ListNone
  <2>3. parts = own \o segments
    BY <1>2, <1>9
  <2> HIDE DEF parts, segments
  <2>4. IsList(parts) /\ (parts = <<>> => own = <<>> /\ segments = <<>>)
    BY <1>3, <2>2, <2>3, ListJoins
  <2>5. Locates(levels, rep) => parts # <<>>
    BY <1>1, <1>3, <1>4, <1>9, <2>2, <2>4 DEF Locates
  <2>6. Addressed(levels, rep, here) = {}
    BY <1>1, <1>9 DEF Addressed
  <2> HIDE DEF levels
  <2> QED BY <2>4, <2>5, <2>6 DEF parts, levels, here
<1> QED BY <1>5, <1>6, <1>7, <1>8, <1>9


-----------------------------------------------------------------------------
(* The groups of a Period are its candidates. *)

\* A representation of a list of them, at some levels; and what is read of it.
Candidate(rep, levels, kind) ==
  [rep |-> rep, levels |-> levels, kind |-> IF rep.kind = "unknown" THEN kind ELSE rep.kind]
Matches(g, c, dir) ==
  /\ g.bandwidth = c.rep.bandwidth /\ g.kind = c.kind /\ g.id = c.rep.id
  /\ IsList(g.parts)
  /\ HasLocator(c) => g.parts # <<>>
  /\ Addressed(Append(c.levels, c.rep), c.rep, AdvanceBase(dir, c.rep.base)) \subseteq UrisOf(g.parts)

LEMMA GroupMatches ==
  ASSUME NEW above, AreLevels(above), NEW rep, IsLevel(rep), NEW kind, NEW files, IsList(files), NEW dir
  PROVE  Matches(Group(rep, kind, files \o CollectRepresentation(above, rep, dir)),
                 Candidate(rep, above, kind), dir)
<1> DEFINE parts == CollectRepresentation(above, rep, dir)
           all == files \o parts
           c == Candidate(rep, above, kind)
           g == Group(rep, kind, all)
           levels == Append(above, rep)
<1>1. /\ IsList(parts)
      /\ Locates(levels, rep) => parts # <<>>
      /\ Addressed(levels, rep, AdvanceBase(dir, rep.base)) \subseteq UrisOf(parts)
  BY CollectIs
<1> HIDE DEF parts
<1>2. IsList(all) /\ (parts # <<>> => all # <<>>) /\ ToSet(parts) \subseteq ToSet(all)
  BY <1>1, ListJoins
<1> HIDE DEF all
<1>3. /\ c.rep = rep /\ c.levels = above /\ g.bandwidth = rep.bandwidth /\ g.id = rep.id
      /\ g.kind = c.kind /\ g.parts = all
  BY DEF Candidate, Group
<1> HIDE DEF g, c
<1>4. HasLocator(c) => Locates(levels, rep)
  BY <1>3 DEF HasLocator, Locates
<1> HIDE DEF levels
<1>5. Addressed(levels, rep, AdvanceBase(dir, rep.base)) \subseteq UrisOf(all)
  BY <1>1, <1>2 DEF UrisOf
<1>6. Matches(g, c, dir)
  BY <1>1, <1>2, <1>3, <1>4, <1>5 DEF Matches, levels
<1> QED BY <1>6 DEF g, c, all, parts

\* Every representation of a list gives a group, and nothing else does.
LEMMA ListOfGroups ==
  ASSUME NEW above, AreLevels(above), NEW reps, AreRepresentations(reps), NEW kind,
         NEW files, IsList(files), NEW dir, NEW groups,
         groups = [n \in DOMAIN reps |->
                     Group(reps[n], kind, files \o CollectRepresentation(above, reps[n], dir))]
  PROVE  /\ IsList(groups) /\ DOMAIN groups = 1 .. Len(reps)
         /\ \A g \in ToSet(groups) : \E rep \in ToSet(reps) : Matches(g, Candidate(rep, above, kind), dir)
         /\ \A rep \in ToSet(reps) : \E g \in ToSet(groups) : Matches(g, Candidate(rep, above, kind), dir)
<1> DEFINE n == Len(reps)
<1>1. n \in Nat /\ DOMAIN reps = 1 .. n /\ \A i \in 1 .. n : IsLevel(reps[i])
  BY DEF AreRepresentations, IsRepresentation, IsList, ToSet
<1>2. \A i \in 1 .. n : Matches(groups[i], Candidate(reps[i], above, kind), dir)
  <2> SUFFICES ASSUME NEW i \in 1 .. n PROVE Matches(groups[i], Candidate(reps[i], above, kind), dir)
    OBVIOUS
  <2>1. groups[i] = Group(reps[i], kind, files \o CollectRepresentation(above, reps[i], dir))
    BY <1>1
  <2> QED BY <1>1, <2>1, GroupMatches
<1>3. DOMAIN groups = 1 .. n /\ groups = [i \in 1 .. n |-> groups[i]]
  BY <1>1
<1>4. IsList(groups)
  BY <1>1, <1>3, ListIs
<1> QED BY <1>1, <1>2, <1>3, <1>4 DEF ToSet

\* The levels of a manifest.
LEMMA LevelsAre ==
  /\ \A m, p : IsLevel(m) /\ IsLevel(p) => AreLevels(<<m, p>>)
  /\ \A m, p, s : IsLevel(m) /\ IsLevel(p) /\ IsLevel(s) => AreLevels(<<m, p, s>>)
<1>1. ASSUME NEW m, NEW p, IsLevel(m), IsLevel(p) PROVE AreLevels(<<m, p>>)
  BY <1>1, ListTwo DEF AreLevels
<1>2. ASSUME NEW m, NEW p, NEW s, IsLevel(m), IsLevel(p), IsLevel(s) PROVE AreLevels(<<m, p, s>>)
  <2> DEFINE u == <<m, p, s>>
  <2>1. DOMAIN u = 1 .. 3 /\ u = [i \in 1 .. 3 |-> u[i]] /\ u[1] = m /\ u[2] = p /\ u[3] = s
    OBVIOUS
  <2>2. \A i \in 1 .. 3 : i = 1 \/ i = 2 \/ i = 3
    OBVIOUS
  <2> HIDE DEF u
  <2>3. IsList(u)
    BY <2>1, ListIs
  <2>4. \A level \in ToSet(u) : IsLevel(level)
    BY <1>2, <2>1, <2>2 DEF ToSet
  <2>5. AreLevels(u)
    BY <2>3, <2>4 DEF AreLevels
  <2> QED BY <2>5 DEF u
<1> QED BY <1>1, <1>2

LEMMA Nests ==
  \A m, p, s : Append(<<m>>, p) = <<m, p>> /\ Append(<<m, p>>, s) = <<m, p, s>>
<1> TAKE m, p, s
<1> DEFINE D == {m, p, s}
<1>1. /\ <<m>> \in Seq(D) /\ <<m, p>> \in Seq(D) /\ <<m, p, s>> \in Seq(D)
      /\ m \in D /\ p \in D /\ s \in D
  OBVIOUS
<1> HIDE DEF D
<1>2. Append(<<m>>, p) = <<m, p>>
  <2>1. Append(<<m>>, p) \in Seq(D) /\ Len(Append(<<m>>, p)) = 2
        /\ Append(<<m>>, p)[1] = m /\ Append(<<m>>, p)[2] = p
    BY <1>1
  <2>2. \A i \in 1 .. 2 : Append(<<m>>, p)[i] = <<m, p>>[i]
    BY <2>1
  <2> QED BY <1>1, <2>1, <2>2, SeqEqual
<1>3. Append(<<m, p>>, s) = <<m, p, s>>
  <2>1. Append(<<m, p>>, s) \in Seq(D) /\ Len(Append(<<m, p>>, s)) = 3
        /\ Append(<<m, p>>, s)[1] = m /\ Append(<<m, p>>, s)[2] = p /\ Append(<<m, p>>, s)[3] = s
    BY <1>1
  <2>2. \A i \in 1 .. 3 : Append(<<m, p>>, s)[i] = <<m, p, s>>[i]
    BY <2>1
  <2> QED BY <1>1, <2>1, <2>2, SeqEqual
<1> QED BY <1>2, <1>3

\* A Period of a manifest that is read.
IsPeriod(m, p) ==
  /\ IsLevel(m) /\ IsLevel(p) /\ AreRepresentations(p.reps) /\ IsList(p.sets)
  /\ p.sets # <<>> => p.reps = <<>>
  /\ \A s \in ToSet(p.sets) : IsLevel(s) /\ AreRepresentations(s.reps) /\ EndTagsFirst(s.reps)
  /\ EndTagsFirst(p.reps)

\* The candidate a group was read from, and where its BaseURLs lead.
DirOf(m, p, c) ==
  IF p.sets = <<>>
  THEN LET bodies == FlattenSeq([i \in DOMAIN p.reps |-> p.reps[i].base])
           base == AdvanceBase(<<>>, m.base)
       IN  AdvanceBase(AdvanceBase(AdvanceBase(base, p.base), bodies), p.base)
  ELSE AdvanceBase(AdvanceBase(AdvanceBase(<<>>, m.base), p.base), c.levels[3].base)

\* The groups of a Period are one for every candidate.
LEMMA GroupsAre ==
  ASSUME NEW m, NEW p, IsPeriod(m, p)
  PROVE  LET groups == PeriodGroups(m, p)
         IN  /\ IsList(groups)
             /\ \A g \in ToSet(groups) : \E c \in Candidates(m, p) : Matches(g, c, DirOf(m, p, c))
             /\ \A c \in Candidates(m, p) : \E g \in ToSet(groups) : Matches(g, c, DirOf(m, p, c))
<1> DEFINE groups == PeriodGroups(m, p)
           Of(levels, reps, kind) == {Candidate(r, levels, kind) : r \in ToSet(reps)}
           base == AdvanceBase(<<>>, m.base)
           dir == AdvanceBase(base, p.base)
<1>1. Candidates(m, p) = Of(<<m, p>>, p.reps, "unknown")
                         \cup UNION {Of(<<m, p, s>>, s.reps, s.kind) : s \in ToSet(p.sets)}
  BY DEF Candidates, Candidate
<1>2. CASE p.sets = <<>>
  <2> DEFINE bodies == FlattenSeq([i \in DOMAIN p.reps |-> p.reps[i].base])
             passed == AdvanceBase(dir, bodies)
             there == AdvanceBase(passed, p.base)
  <2>1. Append(<<m>>, p) = <<m, p>>
    BY Nests
  <2>2. groups = ScopeGroups(<<m>>, p, base)
    BY <1>2 DEF PeriodGroups
  <2>3. Blocks(p.reps) = p.reps
    BY BlocksAre DEF IsPeriod
  <2>4. ScopeGroups(<<m>>, p, base)
          = [n \in DOMAIN p.reps |->
               Group(p.reps[n], "unknown",
                     Files(passed, p) \o CollectRepresentation(<<m, p>>, p.reps[n], there))]
    BY <2>1, <2>3 DEF ScopeGroups
  <2>5. IsList(Files(passed, p))
    BY FilesAre DEF IsPeriod
  <2>6. AreLevels(<<m, p>>) /\ AreRepresentations(p.reps)
    BY LevelsAre DEF IsPeriod
  <2>7. \A c : DirOf(m, p, c) = there
    BY <1>2 DEF DirOf
  <2>8. ToSet(p.sets) = {}
    BY <1>2, ListNone
  <2> HIDE DEF groups, there, passed
  <2>9. /\ IsList(groups)
        /\ \A g \in ToSet(groups) : \E r \in ToSet(p.reps) :
             Matches(g, Candidate(r, <<m, p>>, "unknown"), there)
        /\ \A r \in ToSet(p.reps) : \E g \in ToSet(groups) :
             Matches(g, Candidate(r, <<m, p>>, "unknown"), there)
    <3> DEFINE files == Files(passed, p)
               levels == <<m, p>>
    <3>1. groups = [n \in DOMAIN p.reps |->
                      Group(p.reps[n], "unknown",
                            files \o CollectRepresentation(levels, p.reps[n], there))]
      BY <2>2, <2>4
    <3>2. IsList(files) /\ AreLevels(levels) /\ AreRepresentations(p.reps)
      BY <2>5, <2>6
    <3> HIDE DEF files, levels
    <3>3. /\ IsList(groups)
          /\ \A g \in ToSet(groups) : \E r \in ToSet(p.reps) :
               Matches(g, Candidate(r, levels, "unknown"), there)
          /\ \A r \in ToSet(p.reps) : \E g \in ToSet(groups) :
               Matches(g, Candidate(r, levels, "unknown"), there)
      BY <3>1, <3>2, ListOfGroups
    <3> QED BY <3>3 DEF levels
  <2>10. Candidates(m, p) = {Candidate(r, <<m, p>>, "unknown") : r \in ToSet(p.reps)}
    BY <1>1, <2>8
  <2>11. /\ IsList(groups)
         /\ \A g \in ToSet(groups) : \E c \in Candidates(m, p) : Matches(g, c, DirOf(m, p, c))
         /\ \A c \in Candidates(m, p) : \E g \in ToSet(groups) : Matches(g, c, DirOf(m, p, c))
    <3> HIDE DEF Of
    <3> QED BY <2>7, <2>9, <2>10
  <2> QED BY <2>11 DEF groups
<1>3. CASE p.sets # <<>>
  <2> DEFINE N == Len(p.sets)
             One(s) == AdaptationGroups(<<m, p>>, s, dir)
             seqs == [i \in DOMAIN p.sets |-> One(p.sets[i])]
             There(s) == AdvanceBase(dir, s.base)
  <2>1. groups = FlattenSeq(seqs)
    BY <1>3 DEF PeriodGroups
  <2>2. /\ N \in Nat /\ DOMAIN p.sets = 1 .. N
        /\ \A i \in 1 .. N : p.sets[i] \in ToSet(p.sets)
        /\ \A s \in ToSet(p.sets) : \E i \in 1 .. N : s = p.sets[i]
    BY DEF IsPeriod, IsList, ToSet
  <2>3. ASSUME NEW s \in ToSet(p.sets)
        PROVE  /\ IsList(One(s))
               /\ \A g \in ToSet(One(s)) : \E r \in ToSet(s.reps) :
                    Matches(g, Candidate(r, <<m, p, s>>, s.kind), There(s))
               /\ \A r \in ToSet(s.reps) : \E g \in ToSet(One(s)) :
                    Matches(g, Candidate(r, <<m, p, s>>, s.kind), There(s))
    <3>1. Append(<<m, p>>, s) = <<m, p, s>>
      BY Nests
    <3>2. Blocks(s.reps) = s.reps
      BY BlocksAre DEF IsPeriod
    <3>3. One(s) = [n \in DOMAIN s.reps |->
                      Group(s.reps[n], s.kind,
                            Files(dir, s) \o CollectRepresentation(<<m, p, s>>, s.reps[n], There(s)))]
      BY <3>1, <3>2 DEF AdaptationGroups
    <3>4. IsList(Files(dir, s)) /\ AreLevels(<<m, p, s>>) /\ AreRepresentations(s.reps)
      BY FilesAre, LevelsAre DEF IsPeriod
    <3> DEFINE files == Files(dir, s)
               levels == <<m, p, s>>
               groupsOfS == One(s)
               there == There(s)
    <3>5. groupsOfS = [n \in DOMAIN s.reps |->
                         Group(s.reps[n], s.kind,
                               files \o CollectRepresentation(levels, s.reps[n], there))]
      BY <3>3
    <3>6. IsList(files) /\ AreLevels(levels) /\ AreRepresentations(s.reps)
      BY <3>4
    <3> HIDE DEF files, levels, groupsOfS, there
    <3>7. /\ IsList(groupsOfS)
          /\ \A g \in ToSet(groupsOfS) : \E r \in ToSet(s.reps) :
               Matches(g, Candidate(r, levels, s.kind), there)
          /\ \A r \in ToSet(s.reps) : \E g \in ToSet(groupsOfS) :
               Matches(g, Candidate(r, levels, s.kind), there)
      BY <3>5, <3>6, ListOfGroups
    <3> HIDE DEF One, There
    <3> QED BY <3>7 DEF levels, groupsOfS, there
  <2>4. /\ DOMAIN seqs = 1 .. N /\ seqs = [i \in 1 .. N |-> seqs[i]]
        /\ \A i \in 1 .. N : seqs[i] = One(p.sets[i])
    BY <2>2
  <2> HIDE DEF groups, seqs, One, N
  <2>5. \A i \in 1 .. N : IsList(seqs[i])
    BY <2>2, <2>3, <2>4
  <2>6. IsList(groups) /\ \A x : x \in ToSet(groups) <=> \E i \in 1 .. N : x \in ToSet(seqs[i])
    BY <2>1, <2>2, <2>4, <2>5, FlattenHolds
  <2>7. \A x : x \in ToSet(groups) <=> \E s \in ToSet(p.sets) : x \in ToSet(One(s))
    BY <2>2, <2>4, <2>6
  <2>8. ToSet(p.reps) = {}
    BY <1>3, ListNone DEF IsPeriod
  <2>9. \A r, s : DirOf(m, p, Candidate(r, <<m, p, s>>, s.kind)) = There(s)
    BY <1>3 DEF DirOf, Candidate
  <2>10. \A c : c \in Candidates(m, p) <=>
                  \E s \in ToSet(p.sets) : \E r \in ToSet(s.reps) : c = Candidate(r, <<m, p, s>>, s.kind)
    <3>1. Of(<<m, p>>, p.reps, "unknown") = {}
      BY <2>8
    <3>2. \A s, c : c \in Of(<<m, p, s>>, s.reps, s.kind)
                      <=> \E r \in ToSet(s.reps) : c = Candidate(r, <<m, p, s>>, s.kind)
      OBVIOUS
    <3>3. \A c : c \in Candidates(m, p)
                  <=> \E s \in ToSet(p.sets) : c \in Of(<<m, p, s>>, s.reps, s.kind)
      <4> HIDE DEF Of
      <4> QED BY <1>1, <3>1
    <3> HIDE DEF Of
    <3>4. ASSUME NEW c \in Candidates(m, p)
          PROVE  \E s \in ToSet(p.sets) : \E r \in ToSet(s.reps) : c = Candidate(r, <<m, p, s>>, s.kind)
      <4>1. PICK s \in ToSet(p.sets) : c \in Of(<<m, p, s>>, s.reps, s.kind)
        BY <3>3
      <4>2. \E r \in ToSet(s.reps) : c = Candidate(r, <<m, p, s>>, s.kind)
        BY <3>2, <4>1
      <4> QED BY <4>2
    <3>5. ASSUME NEW c, NEW s \in ToSet(p.sets), NEW r \in ToSet(s.reps),
                 c = Candidate(r, <<m, p, s>>, s.kind)
          PROVE  c \in Candidates(m, p)
      <4>1. c \in Of(<<m, p, s>>, s.reps, s.kind)
        BY <3>2, <3>5
      <4> QED BY <3>3, <4>1
    <3> QED BY <3>4, <3>5
  <2> HIDE DEF There
  <2>11. ASSUME NEW g \in ToSet(groups)
         PROVE  \E c \in Candidates(m, p) : Matches(g, c, DirOf(m, p, c))
    <3>1. PICK s \in ToSet(p.sets) : g \in ToSet(One(s))
      BY <2>7
    <3>2. PICK r \in ToSet(s.reps) : Matches(g, Candidate(r, <<m, p, s>>, s.kind), There(s))
      BY <2>3, <3>1
    <3> QED BY <2>9, <2>10, <3>2
  <2>12. ASSUME NEW c \in Candidates(m, p)
         PROVE  \E g \in ToSet(groups) : Matches(g, c, DirOf(m, p, c))
    <3>1. PICK s \in ToSet(p.sets) : \E r \in ToSet(s.reps) : c = Candidate(r, <<m, p, s>>, s.kind)
      BY <2>10
    <3>2. PICK r \in ToSet(s.reps) : c = Candidate(r, <<m, p, s>>, s.kind)
      BY <3>1
    <3>3. PICK g \in ToSet(One(s)) : Matches(g, Candidate(r, <<m, p, s>>, s.kind), There(s))
      BY <2>3
    <3> QED BY <2>7, <2>9, <3>2, <3>3
  <2> QED BY <2>6, <2>11, <2>12 DEF groups
<1> QED BY <1>2, <1>3


-----------------------------------------------------------------------------
(* The choice of a Period. *)

LEMMA FirstBestIs ==
  ASSUME NEW groups, NEW n \in Nat, NEW at, at \subseteq 1 .. n, at # {},
         \A i \in at : groups[i].bandwidth \in Int
  PROVE  \E i \in at : /\ FirstBest(groups, at) = groups[i]
                       /\ \A j \in at : groups[j].bandwidth <= groups[i].bandwidth
<1>1. PICK i \in at : FirstBestAt(groups, at, i)
  BY SomeFirstBest
<1> DEFINE P(k) == \A j \in at : /\ groups[j].bandwidth <= groups[k].bandwidth
                                 /\ j < k => groups[j].bandwidth < groups[k].bandwidth
           x == CHOOSE k \in at : P(k)
<1>2. i \in at /\ P(i)
  BY <1>1 DEF FirstBestAt
<1>3. FirstBest(groups, at) = groups[x]
  BY Zenon DEF FirstBest
<1>4. x \in at /\ P(x)
  <2> HIDE DEF P
  <2> QED BY <1>2, Zenon
<1> HIDE DEF x
<1> QED BY <1>3, <1>4

\* Every kind that has parts gets the group with the highest bandwidth.
LEMMA SelectIs ==
  ASSUME NEW groups, IsList(groups),
         \A g \in ToSet(groups) : g.bandwidth \in Int /\ g.kind \in Kinds
  PROVE  LET selected == SelectKinds(groups)
         IN  /\ \A kind \in DOMAIN selected :
                  /\ kind # "unknown"
                  /\ selected[kind] \in ToSet(groups) /\ selected[kind].parts # <<>>
                  /\ \A g \in ToSet(groups) : g.kind = kind /\ g.parts # <<>> =>
                                                g.bandwidth <= selected[kind].bandwidth
             /\ \A g \in ToSet(groups) : g.kind # "unknown" /\ g.parts # <<>> =>
                                           g.kind \in DOMAIN selected
<1> DEFINE n == Len(groups)
           populated == {i \in DOMAIN groups : groups[i].parts # <<>>}
           of(kind)  == {i \in populated : groups[i].kind = kind}
           kinds     == {kind \in Kinds \ {"unknown"} : of(kind) # {}}
           selected  == SelectKinds(groups)
<1>1. /\ n \in Nat /\ DOMAIN groups = 1 .. n
      /\ \A i \in 1 .. n : groups[i] \in ToSet(groups)
      /\ \A g \in ToSet(groups) : \E i \in 1 .. n : g = groups[i]
  BY DEF IsList, ToSet
<1>2. \A i \in 1 .. n : groups[i].bandwidth \in Int /\ groups[i].kind \in Kinds
  BY <1>1
<1>3. /\ populated \subseteq 1 .. n
      /\ \A kind : of(kind) \subseteq 1 .. n
  BY <1>1
<1>4. selected = IF kinds = {} /\ populated # {}
                 THEN [kind \in {"video"} |-> FirstBest(groups, populated)]
                 ELSE [kind \in kinds |-> FirstBest(groups, of(kind))]
  BY Zenon DEF SelectKinds
<1>5. ASSUME NEW g \in ToSet(groups), g.kind # "unknown", g.parts # <<>>
      PROVE  g.kind \in kinds /\ \E i \in of(g.kind) : g = groups[i]
  <2>1. PICK i \in 1 .. n : g = groups[i]
    BY <1>1
  <2>2. i \in of(g.kind) /\ g.kind \in Kinds
    BY <1>1, <1>2, <1>5, <2>1
  <2> QED BY <1>5, <2>1, <2>2
<1> HIDE DEF selected
<1>6. CASE kinds = {} /\ populated # {}
  <2>1. PICK i \in populated : FirstBest(groups, populated) = groups[i]
    <3> HIDE DEF populated
    <3> QED BY <1>1, <1>2, <1>3, <1>6, FirstBestIs
  <2>2. DOMAIN selected = {"video"} /\ selected["video"] = groups[i]
    BY <1>4, <1>6, <2>1
  <2>3. \A g \in ToSet(groups) : ~(g.kind # "unknown" /\ g.parts # <<>>)
    <3> HIDE DEF kinds, of
    <3> QED BY <1>5, <1>6
  <2>4. groups[i] \in ToSet(groups) /\ groups[i].parts # <<>>
    BY <1>1
  <2>5. \A kind \in DOMAIN selected : kind = "video"
    BY <2>2
  <2> HIDE DEF populated, of, kinds
  <2>6. ASSUME NEW kind \in DOMAIN selected
        PROVE  /\ kind # "unknown"
               /\ selected[kind] \in ToSet(groups) /\ selected[kind].parts # <<>>
               /\ \A g \in ToSet(groups) : g.kind = kind /\ g.parts # <<>> =>
                                             g.bandwidth <= selected[kind].bandwidth
    <3>1. kind = "video"
      BY <2>5
    <3> QED BY <2>2, <2>3, <2>4, <3>1
  <2> QED BY <2>3, <2>6 DEF selected
<1>7. CASE ~(kinds = {} /\ populated # {})
  <2>1. selected = [kind \in kinds |-> FirstBest(groups, of(kind))]
    BY <1>4, <1>7
  <2>2. ASSUME NEW kind \in kinds
        PROVE  /\ kind # "unknown"
               /\ selected[kind] \in ToSet(groups) /\ selected[kind].parts # <<>>
               /\ \A g \in ToSet(groups) : g.kind = kind /\ g.parts # <<>> =>
                                             g.bandwidth <= selected[kind].bandwidth
    <3>1. of(kind) # {} /\ kind # "unknown"
      OBVIOUS
    <3>2. selected[kind] = FirstBest(groups, of(kind))
      BY <2>1
    <3>3. PICK i \in of(kind) : /\ FirstBest(groups, of(kind)) = groups[i]
                                /\ \A j \in of(kind) : groups[j].bandwidth <= groups[i].bandwidth
      <4> DEFINE at == of(kind)
      <4>1. at \subseteq 1 .. n /\ at # {} /\ \A i \in at : groups[i].bandwidth \in Int
        BY <1>2, <1>3, <3>1
      <4> HIDE DEF at
      <4>2. \E i \in at : /\ FirstBest(groups, at) = groups[i]
                          /\ \A j \in at : groups[j].bandwidth <= groups[i].bandwidth
        BY <1>1, <4>1, FirstBestIs
      <4> QED BY <4>2 DEF at
    <3>4. groups[i] \in ToSet(groups) /\ groups[i].parts # <<>>
      BY <1>1
    <3> HIDE DEF of, kinds
    <3>5. ASSUME NEW g \in ToSet(groups), g.kind = kind, g.parts # <<>>
          PROVE  g.bandwidth <= selected[kind].bandwidth
      <4>1. PICK j \in of(g.kind) : g = groups[j]
        BY <1>5, <3>1, <3>5
      <4>2. j \in of(kind)
        BY <3>5, <4>1
      <4> QED BY <3>2, <3>3, <4>1, <4>2
    <3> QED BY <3>1, <3>2, <3>3, <3>4, <3>5
  <2>3. DOMAIN selected = kinds
    BY <2>1
  <2> HIDE DEF kinds, of, populated
  <2> QED BY <1>5, <2>2, <2>3 DEF selected
<1> QED BY <1>6, <1>7

\* Where the BaseURLs of four levels lead.
LEMMA PathIs ==
  ASSUME NEW m, NEW p, NEW s, NEW r
  PROVE  Path(Append(<<m, p, s>>, r))
           = AdvanceBase(AdvanceBase(AdvanceBase(AdvanceBase(<<>>, m.base), p.base), s.base), r.base)
<1> DEFINE levels == Append(<<m, p, s>>, r)
           Next1(f, n) == IF n = 0 THEN <<>> ELSE AdvanceBase(f[n - 1], levels[n].base)
           Leads(f) == f = [n \in 0 .. Len(levels) |-> Next1(f, n)]
           F == CHOOSE f : Leads(f)
           a1 == AdvanceBase(<<>>, m.base)
           a2 == AdvanceBase(a1, p.base)
           a3 == AdvanceBase(a2, s.base)
           a4 == AdvanceBase(a3, r.base)
           g == [n \in 0 .. 4 |-> IF n = 0 THEN <<>> ELSE IF n = 1 THEN a1 ELSE IF n = 2 THEN a2
                                  ELSE IF n = 3 THEN a3 ELSE a4]
<1>1. Len(levels) = 4 /\ levels[1] = m /\ levels[2] = p /\ levels[3] = s /\ levels[4] = r
  <2> DEFINE D == {m, p, s, r}
  <2>1. <<m, p, s>> \in Seq(D) /\ r \in D
    OBVIOUS
  <2> HIDE DEF D
  <2> QED BY <2>1
<1>2. Path(levels) = F[Len(levels)]
  BY Zenon DEF Path
<1> HIDE DEF levels
<1>3. g[0] = <<>> /\ g[1] = a1 /\ g[2] = a2 /\ g[3] = a3 /\ g[4] = a4
  <2> HIDE DEF a1, a2, a3, a4
  <2> QED OBVIOUS
<1>4. \A n \in 0 .. 4 : n = 0 \/ n = 1 \/ n = 2 \/ n = 3 \/ n = 4
  OBVIOUS
<1>5. g = [n \in 0 .. 4 |-> g[n]]
  OBVIOUS
<1> HIDE DEF g
<1>6. ASSUME NEW n \in 0 .. 4 PROVE g[n] = Next1(g, n)
  <2>1. CASE n = 0
    BY <1>3, <2>1
  <2>2. CASE n = 1
    <3>1. n - 1 = 0 BY <2>2
    <3> QED BY <1>1, <1>3, <2>2, <3>1
  <2>3. CASE n = 2
    <3>1. n - 1 = 1 BY <2>3
    <3> QED BY <1>1, <1>3, <2>3, <3>1
  <2>4. CASE n = 3
    <3>1. n - 1 = 2 BY <2>4
    <3> QED BY <1>1, <1>3, <2>4, <3>1
  <2>5. CASE n = 4
    <3>1. n - 1 = 3 BY <2>5
    <3> QED BY <1>1, <1>3, <2>5, <3>1
  <2> QED BY <1>4, <2>1, <2>2, <2>3, <2>4, <2>5
<1> HIDE DEF Next1
<1>7. Leads(g)
  BY <1>1, <1>5, <1>6
<1>8. Leads(F)
  <2> HIDE DEF Leads
  <2> QED BY <1>7, Zenon
<1> HIDE DEF F
<1>9. \A n \in 0 .. 4 : F[n] = Next1(F, n)
  BY <1>1, <1>8
<1>10. F[0] = <<>> /\ \A n \in 1 .. 4 : F[n] = AdvanceBase(F[n - 1], levels[n].base)
  BY <1>9 DEF Next1
<1>11. /\ F[1] = AdvanceBase(F[0], m.base) /\ F[2] = AdvanceBase(F[1], p.base)
       /\ F[3] = AdvanceBase(F[2], s.base) /\ F[4] = AdvanceBase(F[3], r.base)
  <2>1. /\ F[1] = AdvanceBase(F[1 - 1], levels[1].base) /\ F[2] = AdvanceBase(F[2 - 1], levels[2].base)
        /\ F[3] = AdvanceBase(F[3 - 1], levels[3].base) /\ F[4] = AdvanceBase(F[4 - 1], levels[4].base)
    BY <1>10
  <2>2. 1 - 1 = 0 /\ 2 - 1 = 1 /\ 3 - 1 = 2 /\ 4 - 1 = 3
    OBVIOUS
  <2> QED BY <1>1, <2>1, <2>2
<1> QED BY <1>1, <1>2, <1>10, <1>11 DEF levels


-----------------------------------------------------------------------------
(* A manifest, one Period after the other. *)

LEMMA PeriodsAre ==
  ASSUME WellWritten, NEW m \in Manifests, NEW i \in 1 .. Len(m.periods)
  PROVE  /\ IsPeriod(m, m.periods[i])
         /\ \A c, d \in Candidates(m, m.periods[i]) : c.rep.id = d.rep.id => c = d
         /\ \A s \in ToSet(m.periods[i].sets) : s.kind \in Kinds
<1>1. IsLevel(m) /\ IsList(m.periods)
  BY ManifestAssumption
<1>2. m.periods[i] \in ToSet(m.periods)
  BY <1>1 DEF IsList, ToSet
<1> QED BY <1>1, <1>2, ManifestAssumption DEF WellWritten, IsPeriod

\* What a candidate of a Period is.
LEMMA CandidatesAre ==
  ASSUME WellWritten, NEW m \in Manifests, NEW i \in 1 .. Len(m.periods),
         NEW c \in Candidates(m, m.periods[i])
  PROVE  /\ c.rep.bandwidth \in Int /\ c.kind \in Kinds
         /\ m.periods[i].sets # <<>> =>
              \E s \in ToSet(m.periods[i].sets) : c.levels = <<m, m.periods[i], s>>
<1> DEFINE p == m.periods[i]
           Of(levels, reps, kind) == {Candidate(r, levels, kind) : r \in ToSet(reps)}
<1>1. /\ IsPeriod(m, p) /\ \A s \in ToSet(p.sets) : s.kind \in Kinds
  BY PeriodsAre
<1> HIDE DEF p
<1>2. Candidates(m, p) = Of(<<m, p>>, p.reps, "unknown")
                         \cup UNION {Of(<<m, p, s>>, s.reps, s.kind) : s \in ToSet(p.sets)}
  BY DEF Candidates, Candidate
<1>3. \A reps : AreRepresentations(reps) =>
        \A r \in ToSet(reps) : r.bandwidth \in Int /\ r.kind \in Kinds
  BY DEF AreRepresentations, IsRepresentation
<1>4. c \in Candidates(m, p)
  BY DEF p
<1>5. CASE c \in Of(<<m, p>>, p.reps, "unknown")
  <2>1. PICK r \in ToSet(p.reps) : c = Candidate(r, <<m, p>>, "unknown")
    BY <1>5
  <2>2. r.bandwidth \in Int /\ r.kind \in Kinds
    BY <1>1, <1>3 DEF IsPeriod
  <2>3. c.rep = r /\ c.kind \in Kinds
    BY <2>1, <2>2 DEF Candidate, Kinds
  <2>4. p.sets = <<>>
    BY <1>1, ListNone DEF IsPeriod
  <2> QED BY <2>2, <2>3, <2>4 DEF p
<1>6. CASE \E s \in ToSet(p.sets) : c \in Of(<<m, p, s>>, s.reps, s.kind)
  <2>1. PICK s \in ToSet(p.sets) : c \in Of(<<m, p, s>>, s.reps, s.kind)
    BY <1>6
  <2>2. PICK r \in ToSet(s.reps) : c = Candidate(r, <<m, p, s>>, s.kind)
    BY <2>1
  <2>3. r.bandwidth \in Int /\ r.kind \in Kinds /\ s.kind \in Kinds
    BY <1>1, <1>3 DEF IsPeriod
  <2>4. c.rep = r /\ c.kind \in Kinds /\ c.levels = <<m, p, s>>
    BY <2>2, <2>3 DEF Candidate, Kinds
  <2> QED BY <2>3, <2>4 DEF p
<1>7. c \in Of(<<m, p>>, p.reps, "unknown")
      \/ \E s \in ToSet(p.sets) : c \in Of(<<m, p, s>>, s.reps, s.kind)
  <2> HIDE DEF Of
  <2> QED BY <1>2, <1>4
<1> QED BY <1>5, <1>6, <1>7

\* The choice of Period i of a manifest.
ChoiceOf(m, i) == SelectKinds(PeriodGroups(m, m.periods[i]))

LEMMA ChoiceIs ==
  ASSUME WellWritten, NEW m \in Manifests, NEW i \in 1 .. Len(m.periods)
  PROVE  LET p == m.periods[i]
             choice == ChoiceOf(m, i)
         IN  /\ \A kind \in DOMAIN choice :
                  /\ IsList(choice[kind].parts) /\ choice[kind].parts # <<>>
                  /\ \E c \in Candidates(m, p) : Matches(choice[kind], c, DirOf(m, p, c))
                  /\ \A c \in Candidates(m, p) : c.kind = kind /\ HasLocator(c) =>
                                                  c.rep.bandwidth <= choice[kind].bandwidth
             /\ \A c \in Candidates(m, p) : c.kind # "unknown" /\ HasLocator(c) =>
                                             c.kind \in DOMAIN choice
<1> DEFINE p == m.periods[i]
           groups == PeriodGroups(m, p)
           choice == ChoiceOf(m, i)
<1>1. IsPeriod(m, p)
  BY PeriodsAre
<1>2. \A c \in Candidates(m, p) : c.rep.bandwidth \in Int /\ c.kind \in Kinds
  BY CandidatesAre
<1>3. choice = SelectKinds(groups)
  BY DEF ChoiceOf
<1> HIDE DEF p, choice
<1>4. /\ IsList(groups)
      /\ \A g \in ToSet(groups) : \E c \in Candidates(m, p) : Matches(g, c, DirOf(m, p, c))
      /\ \A c \in Candidates(m, p) : \E g \in ToSet(groups) : Matches(g, c, DirOf(m, p, c))
  BY <1>1, GroupsAre
<1> HIDE DEF groups
<1>5. \A g \in ToSet(groups) : g.bandwidth \in Int /\ g.kind \in Kinds
  BY <1>2, <1>4 DEF Matches
<1>6. /\ \A kind \in DOMAIN choice :
           /\ kind # "unknown"
           /\ choice[kind] \in ToSet(groups) /\ choice[kind].parts # <<>>
           /\ \A g \in ToSet(groups) : g.kind = kind /\ g.parts # <<>> =>
                                         g.bandwidth <= choice[kind].bandwidth
      /\ \A g \in ToSet(groups) : g.kind # "unknown" /\ g.parts # <<>> =>
                                    g.kind \in DOMAIN choice
  BY <1>3, <1>4, <1>5, SelectIs
<1>7. ASSUME NEW c \in Candidates(m, p), HasLocator(c)
      PROVE  \E g \in ToSet(groups) :
               g.kind = c.kind /\ g.bandwidth = c.rep.bandwidth /\ g.parts # <<>>
  BY <1>4, <1>7 DEF Matches
<1>8. \A kind \in DOMAIN choice :
        /\ \E c \in Candidates(m, p) : Matches(choice[kind], c, DirOf(m, p, c))
        /\ IsList(choice[kind].parts)
  BY <1>4, <1>6 DEF Matches
<1>9. ASSUME NEW kind \in DOMAIN choice, NEW c \in Candidates(m, p), c.kind = kind, HasLocator(c)
      PROVE  c.rep.bandwidth <= choice[kind].bandwidth
  <2>1. PICK g \in ToSet(groups) : g.kind = c.kind /\ g.bandwidth = c.rep.bandwidth /\ g.parts # <<>>
    BY <1>7, <1>9
  <2> QED BY <1>6, <1>9, <2>1
<1>10. ASSUME NEW c \in Candidates(m, p), c.kind # "unknown", HasLocator(c)
       PROVE  c.kind \in DOMAIN choice
  <2>1. PICK g \in ToSet(groups) : g.kind = c.kind /\ g.bandwidth = c.rep.bandwidth /\ g.parts # <<>>
    BY <1>7, <1>10
  <2> QED BY <1>6, <1>10, <2>1
<1> QED BY <1>6, <1>8, <1>9, <1>10 DEF p, choice

\* The parts that a Period adds: some of those it has, with the index of the Period.
LEMMA OfPeriodIs ==
  ASSUME NEW parts, IsList(parts), parts # <<>>, NEW period
  PROVE  /\ IsList(OfPeriod(parts, period))
         /\ \E x \in ToSet(OfPeriod(parts, period)) : x.occurrence = period
<1> DEFINE n == Len(parts)
           at == {i \in DOMAIN parts : \A j \in 1 .. i - 1 :
                    <<parts[j].uri, parts[j].start>> # <<parts[i].uri, parts[i].start>>}
           first == InOrder(at)
           One(m) == Part(parts[first[m]].uri, parts[first[m]].start, period)
           all == [m \in DOMAIN first |-> One(m)]
<1>1. n \in Nat /\ n >= 1 /\ DOMAIN parts = 1 .. n
  BY DEF IsList
<1>2. at \subseteq 1 .. n
  BY <1>1
<1>3. 1 \in at
  <2>1. 1 .. 1 - 1 = {} /\ 1 \in DOMAIN parts
    BY <1>1
  <2> QED BY <2>1
<1>4. PICK k \in Nat : DOMAIN first = 1 .. k /\ (at # {} => k >= 1)
  <2> HIDE DEF at
  <2> QED BY <1>1, <1>2, InOrderKeeps
<1>5. k >= 1
  <2> HIDE DEF at
  <2> QED BY <1>3, <1>4
<1>6. OfPeriod(parts, period) = all
  BY Zenon DEF OfPeriod
<1> HIDE DEF first, at
<1>7. DOMAIN all = 1 .. k /\ all = [m \in 1 .. k |-> all[m]] /\ all[1] = One(1)
  BY <1>4, <1>5
<1>8. One(1).occurrence = period
  BY DEF Part
<1> HIDE DEF all, One
<1>9. IsList(all)
  BY <1>7, ListIs
<1>10. all[1] \in ToSet(all)
  BY <1>5, <1>7 DEF ToSet
<1> QED BY <1>6, <1>7, <1>8, <1>9, <1>10

\* What is picked is the choice of every Period that was read.
ManifestInv ==
  /\ mpd \in Manifests
  /\ periods \in 0 .. Len(mpd.periods)
  /\ IsList(picked) /\ Len(picked) = periods
  /\ \A i \in 1 .. periods : picked[i] = ChoiceOf(mpd, i)
  /\ \A kind \in DOMAIN buckets : IsList(buckets[kind])

LEMMA ManifestInvInit == ManifestInit => ManifestInv
<1> SUFFICES ASSUME ManifestInit PROVE ManifestInv
  OBVIOUS
<1>1. IsList(mpd.periods)
  BY ManifestAssumption DEF ManifestInit
<1>2. Len(mpd.periods) \in Nat
  BY <1>1 DEF IsList
<1>3. 1 .. 0 = {} /\ DOMAIN <<>> = {} /\ Len(<<>>) = 0
  OBVIOUS
<1> QED BY <1>2, <1>3, ListNone DEF ManifestInit, ManifestInv

\* What there is of a kind before a Period, and what there is after it.
Before(kind) == IF kind \in DOMAIN buckets THEN buckets[kind] ELSE Files(<<>>, mpd)
Gained(kind) == Before(kind) \o OfPeriod(ChoiceOf(mpd, periods + 1)[kind].parts, periods)

LEMMA BucketsAfter ==
  ASSUME ReadPeriod
  PROVE  /\ DOMAIN buckets' = DOMAIN ChoiceOf(mpd, periods + 1) \cup DOMAIN buckets
         /\ \A kind \in DOMAIN ChoiceOf(mpd, periods + 1) : buckets'[kind] = Gained(kind)
         /\ \A kind \in DOMAIN buckets : kind \notin DOMAIN ChoiceOf(mpd, periods + 1) =>
                                           buckets'[kind] = buckets[kind]
<1> DEFINE selected == ChoiceOf(mpd, periods + 1)
<1>1. buckets' = [kind \in DOMAIN selected \cup DOMAIN buckets |->
                    IF kind \in DOMAIN selected THEN Gained(kind) ELSE buckets[kind]]
  BY DEF ReadPeriod, ChoiceOf, Gained, Before
<1> HIDE DEF selected
<1> QED BY <1>1 DEF selected

LEMMA GainedIs ==
  ASSUME WellWritten, ManifestInv, ReadPeriod, NEW kind \in DOMAIN ChoiceOf(mpd, periods + 1)
  PROVE  /\ IsList(Gained(kind))
         /\ IsPrefix(Before(kind), Gained(kind))
         /\ \E x \in ToSet(Gained(kind)) : x.occurrence = periods
<1> DEFINE selected == ChoiceOf(mpd, periods + 1)
           added == OfPeriod(selected[kind].parts, periods)
<1>1. periods + 1 \in 1 .. Len(mpd.periods) /\ mpd \in Manifests
  <2>1. IsList(mpd.periods)
    BY ManifestAssumption DEF ManifestInv
  <2>2. Len(mpd.periods) \in Nat
    BY <2>1 DEF IsList
  <2> QED BY <2>2 DEF ManifestInv, ReadPeriod
<1>2. IsList(selected[kind].parts) /\ selected[kind].parts # <<>>
  BY <1>1, ChoiceIs
<1> HIDE DEF selected
<1>3. IsList(added) /\ \E x \in ToSet(added) : x.occurrence = periods
  BY <1>2, OfPeriodIs
<1> HIDE DEF added
<1>4. IsList(Before(kind))
  <2>1. IsList(Files(<<>>, mpd))
    BY <1>1, FilesAre, ManifestAssumption
  <2> QED BY <2>1 DEF Before, ManifestInv
<1>5. Gained(kind) = Before(kind) \o added
  BY DEF Gained, added, selected
<1> QED BY <1>3, <1>4, <1>5, ListJoins

LEMMA ManifestInvStep ==
  ASSUME WellWritten, ManifestInv, [ManifestNext]_manifestVars
  PROVE  ManifestInv'
<1>1. CASE ReadPeriod
  <2> DEFINE selected == ChoiceOf(mpd, periods + 1)
  <2>1. IsList(mpd.periods)
    BY ManifestAssumption DEF ManifestInv
  <2>2. Len(mpd.periods) \in Nat
    BY <2>1 DEF IsList
  <2>3. mpd' = mpd /\ periods' = periods + 1 /\ picked' = Append(picked, selected)
    BY <1>1 DEF ReadPeriod, ChoiceOf
  <2>4. periods \in Nat /\ periods' \in 0 .. Len(mpd.periods)
    BY <1>1, <2>2, <2>3 DEF ManifestInv, ReadPeriod
  <2> DEFINE D == ToSet(picked) \cup {selected}
  <2>5. picked \in Seq(D) /\ Len(picked) = periods
    BY DEF ManifestInv, IsList
  <2> HIDE DEF D
  <2>6. selected \in D
    BY DEF D
  <2> HIDE DEF selected
  <2>7. /\ picked' \in Seq(D) /\ Len(picked') = periods + 1 /\ picked'[periods + 1] = selected
        /\ \A i \in 1 .. periods : picked'[i] = picked[i]
    BY <2>3, <2>4, <2>5, <2>6
  <2>8. DOMAIN picked' = 1 .. periods + 1 /\ picked' = [i \in 1 .. periods + 1 |-> picked'[i]]
    BY <2>4, <2>7
  <2>9. IsList(picked')
    <3> DEFINE q == picked'
    <3>1. DOMAIN q = 1 .. periods + 1 /\ q = [i \in 1 .. periods + 1 |-> q[i]] /\ periods + 1 \in Nat
      BY <2>4, <2>8
    <3> HIDE DEF q
    <3>2. IsList(q)
      BY <3>1, ListIs
    <3> QED BY <3>2 DEF q
  <2>10. \A i \in 1 .. periods + 1 : picked'[i] = ChoiceOf(mpd, i)
    <3> SUFFICES ASSUME NEW i \in 1 .. periods + 1 PROVE picked'[i] = ChoiceOf(mpd, i)
      OBVIOUS
    <3>1. CASE i = periods + 1
      BY <2>7, <3>1 DEF selected
    <3>2. CASE i # periods + 1
      <4>1. i \in 1 .. periods
        BY <2>4, <3>2
      <4> QED BY <2>7, <4>1 DEF ManifestInv
    <3> QED BY <3>1, <3>2
  <2>11. \A kind \in DOMAIN buckets' : IsList(buckets'[kind])
    <3> SUFFICES ASSUME NEW kind \in DOMAIN buckets' PROVE IsList(buckets'[kind])
      OBVIOUS
    <3>1. CASE kind \in DOMAIN selected
      BY <1>1, <3>1, BucketsAfter, GainedIs DEF selected
    <3>2. CASE kind \notin DOMAIN selected
      BY <1>1, <3>2, BucketsAfter DEF selected, ManifestInv
    <3> QED BY <3>1, <3>2
  <2>12. \A i : ChoiceOf(mpd', i) = ChoiceOf(mpd, i)
    BY <2>3
  <2>13. periods' = periods + 1 /\ mpd' \in Manifests /\ Len(mpd'.periods) = Len(mpd.periods)
    BY <2>3 DEF ManifestInv
  <2> QED BY <2>3, <2>4, <2>7, <2>9, <2>10, <2>11, <2>13 DEF ManifestInv
<1>2. CASE UNCHANGED manifestVars
  BY <1>2 DEF manifestVars, ManifestInv
<1> QED BY <1>1, <1>2 DEF ManifestNext

\* Of every Period the representation with the highest bandwidth among those of
\* a kind that have a locator is recorded, whatever the order of the sets and
\* representations, and its locators are those of the addressing nearest to it
\* under the BaseURLs of all levels (_select_dash_kinds, _collect_representation).
THEOREM BestIsRecorded ==
  ASSUME WellWritten
  PROVE  ManifestSpec => []SelectionHolds
<1>1. ManifestInv => SelectionHolds
  <2> SUFFICES ASSUME ManifestInv PROVE SelectionHolds
    OBVIOUS
  <2>1. ASSUME NEW i \in DOMAIN picked
        PROVE  i \in 1 .. Len(mpd.periods) /\ picked[i] = ChoiceOf(mpd, i)
    <3>1. DOMAIN picked = 1 .. periods
      BY DEF ManifestInv, IsList
    <3> QED BY <3>1 DEF ManifestInv
  <2>2. mpd \in Manifests
    BY DEF ManifestInv
  <2>3. HighestIsRecorded
    <3> SUFFICES ASSUME NEW i \in DOMAIN picked, NEW kind \in DOMAIN picked[i],
                        NEW c \in Candidates(mpd, mpd.periods[i]), c.kind = kind, HasLocator(c)
                 PROVE  c.rep.bandwidth <= picked[i][kind].bandwidth
      BY DEF HighestIsRecorded
    <3> QED BY <2>1, <2>2, ChoiceIs
  <2>4. NearestAddressing
    <3> SUFFICES ASSUME NEW i \in DOMAIN picked, NEW kind \in DOMAIN picked[i],
                        mpd.periods[i].sets # <<>>
                 PROVE  LET c      == Chosen(i, kind)
                            levels == Append(c.levels, c.rep)
                            from   == Nearest(levels)
                            uris   == CASE from.addr = "template" -> {<<from.name, c.rep.id, "init">>,
                                                                      <<from.name, c.rep.id, "media">>}
                                        [] from.addr = "list" -> {<<from.name, "segment">>}
                                        [] OTHER -> {}
                        IN  {Path(levels) \o uri : uri \in uris}
                              \subseteq {p.uri : p \in ToSet(picked[i][kind].parts)}
      BY DEF NearestAddressing
    <3> DEFINE p == mpd.periods[i]
               g == picked[i][kind]
               c == Chosen(i, kind)
    <3>1. i \in 1 .. Len(mpd.periods) /\ picked[i] = ChoiceOf(mpd, i)
      BY <2>1
    <3>2. PICK d \in Candidates(mpd, p) : Matches(g, d, DirOf(mpd, p, d))
      BY <2>2, <3>1, ChoiceIs
    <3>3. c \in Candidates(mpd, p) /\ c.rep.id = g.id
      <4>1. d.rep.id = g.id
        BY <3>2 DEF Matches
      <4> QED BY <4>1 DEF Chosen
    <3>4. c = d
      BY <2>2, <3>1, <3>2, <3>3, PeriodsAre DEF Matches
    <3>5. PICK s : c.levels = <<mpd, p, s>>
      BY <2>2, <3>1, <3>3, CandidatesAre
    <3> HIDE DEF c
    <3> DEFINE levels == Append(c.levels, c.rep)
               from == Nearest(levels)
               dir == AdvanceBase(DirOf(mpd, p, c), c.rep.base)
    <3>6. Path(levels) = dir
      <4>1. DirOf(mpd, p, c)
              = AdvanceBase(AdvanceBase(AdvanceBase(<<>>, mpd.base), p.base), c.levels[3].base)
        BY DEF DirOf
      <4>2. <<mpd, p, s>>[3] = s
        OBVIOUS
      <4>3. c.levels[3] = s
        BY <3>5, <4>2
      <4>4. Path(Append(<<mpd, p, s>>, c.rep))
              = AdvanceBase(AdvanceBase(AdvanceBase(AdvanceBase(<<>>, mpd.base), p.base), s.base), c.rep.base)
        BY PathIs
      <4> HIDE DEF p
      <4> QED BY <3>5, <4>1, <4>3, <4>4
    <3>7. Addressed(levels, c.rep, dir) \subseteq {q.uri : q \in ToSet(g.parts)}
      BY <3>2, <3>4 DEF Matches, UrisOf
    <3> DEFINE uris == CASE from.addr = "template" -> {<<from.name, c.rep.id, "init">>,
                                                      <<from.name, c.rep.id, "media">>}
                         [] from.addr = "list" -> {<<from.name, "segment">>}
                         [] OTHER -> {}
    <3> HIDE DEF dir, levels
    <3>8. {dir \o uri : uri \in uris} = Addressed(levels, c.rep, dir)
      <4>1. CASE from.addr = "template"
        <5>1. uris = {<<from.name, c.rep.id, "init">>, <<from.name, c.rep.id, "media">>}
          BY <4>1
        <5>2. Addressed(levels, c.rep, dir)
                = {dir \o <<from.name, c.rep.id, "init">>, dir \o <<from.name, c.rep.id, "media">>}
          BY <4>1 DEF Addressed
        <5> HIDE DEF uris, from
        <5> QED BY <5>1, <5>2
      <4>2. CASE from.addr = "list"
        <5>1. uris = {<<from.name, "segment">>}
          BY <4>2
        <5>2. Addressed(levels, c.rep, dir) = {dir \o <<from.name, "segment">>}
          BY <4>2 DEF Addressed
        <5> HIDE DEF uris, from
        <5> QED BY <5>1, <5>2
      <4>3. CASE from.addr \notin {"template", "list"}
        <5>1. uris = {}
          BY <4>3
        <5>2. Addressed(levels, c.rep, dir) = {}
          BY <4>3 DEF Addressed
        <5> HIDE DEF uris, from
        <5> QED BY <5>1, <5>2
      <4> QED BY <4>1, <4>2, <4>3
    <3> HIDE DEF uris, from
    <3>9. {Path(levels) \o uri : uri \in uris} \subseteq {q.uri : q \in ToSet(g.parts)}
      BY <3>6, <3>7, <3>8
    <3> QED BY <3>9 DEF uris, from, levels, c
  <2> QED BY <2>3, <2>4 DEF SelectionHolds
<1> QED BY <1>1, ManifestInvInit, ManifestInvStep, PTL DEF ManifestSpec

\* A Period adds parts of its own to every kind it has a locator of, and what the
\* Periods before it gave stays where it is (_dash_kind_parts).
THEOREM PeriodsAddUp ==
  ASSUME WellWritten
  PROVE  ManifestSpec => PeriodsAccumulate
<1> DEFINE Adds ==
      periods' > periods =>
         /\ \A kind \in DOMAIN buckets : IsPrefix(buckets[kind], buckets'[kind])
         /\ \A c \in Candidates(mpd, mpd.periods[periods']) :
              HasLocator(c) /\ c.kind # "unknown" =>
                \E p \in ToSet(buckets'[c.kind]) : p.occurrence = periods' - 1
<1>1. ManifestInv /\ [ManifestNext]_manifestVars => [Adds]_manifestVars
  <2> SUFFICES ASSUME ManifestInv, ReadPeriod PROVE Adds
    BY DEF ManifestNext
  <2> DEFINE selected == ChoiceOf(mpd, periods + 1)
  <2>1. IsList(mpd.periods)
    BY ManifestAssumption DEF ManifestInv
  <2>2. Len(mpd.periods) \in Nat
    BY <2>1 DEF IsList
  <2>3. periods' = periods + 1 /\ periods' - 1 = periods /\ periods + 1 \in 1 .. Len(mpd.periods)
        /\ mpd \in Manifests
    BY <2>2 DEF ManifestInv, ReadPeriod
  <2>4. ASSUME NEW kind \in DOMAIN buckets PROVE IsPrefix(buckets[kind], buckets'[kind])
    <3>1. CASE kind \in DOMAIN selected
      <4>1. Before(kind) = buckets[kind]
        BY DEF Before
      <4> QED BY <3>1, <4>1, BucketsAfter, GainedIs
    <3>2. CASE kind \notin DOMAIN selected
      <4>1. buckets'[kind] = buckets[kind]
        BY <3>2, BucketsAfter
      <4>2. IsList(buckets[kind])
        BY DEF ManifestInv
      <4>3. Len(buckets[kind]) \in Nat
        BY <4>2 DEF IsList
      <4> QED BY <4>1, <4>3 DEF IsPrefix
    <3> QED BY <3>1, <3>2
  <2>5. ASSUME NEW c \in Candidates(mpd, mpd.periods[periods + 1]), HasLocator(c), c.kind # "unknown"
        PROVE  \E p \in ToSet(buckets'[c.kind]) : p.occurrence = periods
    <3>1. c.kind \in DOMAIN selected
      BY <2>3, <2>5, ChoiceIs
    <3>2. buckets'[c.kind] = Gained(c.kind)
      BY <3>1, BucketsAfter
    <3>3. \E p \in ToSet(Gained(c.kind)) : p.occurrence = periods
      BY <3>1, GainedIs
    <3> QED BY <3>2, <3>3
  <2> QED BY <2>3, <2>4, <2>5
<1>2. ManifestSpec => [][Adds]_manifestVars
  BY <1>1, ManifestInvInit, ManifestInvStep, PTL DEF ManifestSpec
<1> QED BY <1>2 DEF PeriodsAccumulate
=============================================================================
