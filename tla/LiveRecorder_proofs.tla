-------------------------- MODULE LiveRecorder_proofs --------------------------
(***************************************************************************)
(* For every recording whose origin serves what Style allows: the files on *)
(* disk are together what the byte budget has counted, a stream that       *)
(* turned out to be protected ends the recording, nothing behind a key or  *)
(* in a gap is requested or written, what is written is in order and none  *)
(* of it twice, and a round leaves out nothing that its text lists.        *)
(***************************************************************************)
EXTENDS LiveRecorder, FiniteSetTheorems, WellFoundedInduction, SequenceTheorems, TLAPS

-----------------------------------------------------------------------------
(* Induction over the numbers, for sets. *)
Below == {ss \in Nat \X Nat : ss[1] < ss[2]}

LEMMA BelowWF == IsWellFoundedOn(Below, Nat)
BY NatLessThanWellFounded DEF OpToRel, Below

LEMMA Least ==
  ASSUME NEW T, T \subseteq Nat, T # {}
  PROVE  \E x \in T : \A y \in T : x <= y
<1>1. PICK x \in T : \A y \in T : ~(<<y, x>> \in Below)
  BY BelowWF, WFMin
<1>2. ASSUME NEW y \in T PROVE x <= y
  <2>1. <<y, x>> \in Nat \X Nat /\ x \in Nat /\ y \in Nat
    BY <1>1
  <2>2. <<y, x>> \notin Below
    BY <1>1
  <2>3. ~(<<y, x>>[1] < <<y, x>>[2])
    BY <2>1, <2>2 DEF Below
  <2> QED BY <2>1, <2>3
<1> QED BY <1>2

LEMMA Induct ==
  ASSUME NEW P, 0 \in P, \A n \in Nat : n \in P => n + 1 \in P
  PROVE  \A n \in Nat : n \in P
<1> SUFFICES ASSUME NEW m \in Nat, m \notin P PROVE FALSE
  OBVIOUS
<1> DEFINE T == {n \in Nat : n \notin P}
<1>1. PICK x \in T : \A y \in T : x <= y
  <2>1. T \subseteq Nat /\ T # {}
    OBVIOUS
  <2> QED BY <2>1, Least
<1>2. x # 0 /\ x - 1 \in Nat /\ x - 1 \in P
  BY <1>1
<1> QED BY <1>2, <1>1

\* f begins at base and goes on by G.
Unfolding(D, base, N, G, f) ==
  /\ f \in [0..N -> D] /\ f[0] = base
  /\ \A n \in 1..N : f[n] = G[<<f[n-1], n>>]

\* A function that goes on by a step that stays in D exists.
LEMMA Unfolds ==
  ASSUME NEW D, NEW base \in D, NEW N \in Nat, NEW G \in [D \X Nat -> D]
  PROVE  \E f : Unfolding(D, base, N, G, f)
<1> DEFINE Upto(f, m) == /\ f \in [0..m -> D] /\ f[0] = base
                         /\ \A n \in 1..m : f[n] = G[<<f[n-1], n>>]
           Ms == {m \in Nat : \E f : Upto(f, m)}
<1>1. 0 \in Ms
  <2> DEFINE g == [n \in 0..0 |-> base]
  <2>1. Upto(g, 0)
    OBVIOUS
  <2> QED BY <2>1, Zenon
<1>2. ASSUME NEW m \in Nat, m \in Ms PROVE m + 1 \in Ms
  <2>1. PICK f : Upto(f, m)
    BY <1>2
  <2> DEFINE g == [n \in 0..m + 1 |-> IF n <= m THEN f[n] ELSE G[<<f[m], m + 1>>]]
  <2>2. f[m] \in D /\ G[<<f[m], m + 1>>] \in D
    BY <2>1
  <2>3. \A n \in 0..m : g[n] = f[n]
    OBVIOUS
  <2>4. g[m + 1] = G[<<f[m], m + 1>>]
    OBVIOUS
  <2>5. g \in [0..m + 1 -> D]
    BY <2>1, <2>2
  <2> HIDE DEF g
  <2>6. ASSUME NEW n \in 1..m + 1 PROVE g[n] = G[<<g[n-1], n>>]
    <3>1. n - 1 \in 0..m /\ g[n-1] = f[n-1]
      BY <2>3
    <3>2. CASE n \in 1..m
      BY <2>1, <2>3, <3>1, <3>2
    <3>3. CASE n = m + 1
      BY <2>4, <3>1, <3>3
    <3> QED BY <3>2, <3>3
  <2>7. Upto(g, m + 1)
    BY <2>1, <2>3, <2>5, <2>6
  <2> HIDE DEF Upto
  <2> QED BY <2>7
<1> HIDE DEF Ms
<1>3. N \in Ms
  BY <1>1, <1>2, Induct
<1> QED BY <1>3 DEF Ms, Unfolding

-----------------------------------------------------------------------------
(* What the reader of a playlist makes of its lines. *)

PlaylistLine(Locators) ==
  [tag: {"sequence", "skip"}, number: Nat]
  \cup [tag: {"key"}, clear: BOOLEAN]
  \cup [tag: {"break", "gap"}]
  \cup [tag: {"map"}, uri: Locators, start: Offsets, length: Offsets]
  \cup [tag: {"part"}, uri: Locators, start: Offsets, length: Offsets, gap: BOOLEAN]
  \cup [tag: {"range"}, start: Offsets, length: Offsets]
  \cup [tag: {"uri"}, uri: Locators]

PartOf(Locators) ==
  [uri: Locators, start: Offsets, length: Offsets, occurrence: Int, partial: BOOLEAN]

Dicts(Keys, Values) == UNION {[K -> Values] : K \in SUBSET Keys}

ReaderState(Locators) ==
  [parts: Seq(PartOf(Locators)), held: Seq(PartOf(Locators)),
   pending: [start: Offsets, length: Offsets] \cup {None}, gap: BOOLEAN,
   reach: Dicts(Locators, Nat), sequence: Nat, index: Nat, open: BOOLEAN]

LEMMA UpdatedDict ==
  ASSUME NEW Keys, NEW Values, NEW d \in Dicts(Keys, Values), NEW x \in Keys, NEW y \in Values
  PROVE  Updated(d, x, y) \in Dicts(Keys, Values)
<1>1. PICK K \in SUBSET Keys : d \in [K -> Values]
  BY DEF Dicts
<1>2. Updated(d, x, y) \in [K \cup {x} -> Values]
  BY <1>1 DEF Updated
<1>3. K \cup {x} \in SUBSET Keys
  OBVIOUS
<1> QED BY <1>2, <1>3 DEF Dicts

LEMMA DictValue ==
  ASSUME NEW Keys, NEW Values, NEW d \in Dicts(Keys, Values), NEW x \in DOMAIN d
  PROVE  x \in Keys /\ d[x] \in Values
BY DEF Dicts

LEMMA FlushTyped ==
  ASSUME NEW U, NEW p \in ReaderState(U)
  PROVE  FlushHeld(p) \in ReaderState(U)
<1>1. p.parts \o p.held \in Seq(PartOf(U))
  BY ConcatProperties DEF ReaderState
<1>2. CASE p.held = <<>>
  BY <1>2 DEF FlushHeld
<1>3. CASE p.held # <<>>
  <2> DEFINE joined == p.parts \o p.held
  <2>1. FlushHeld(p) = [p EXCEPT !.parts = joined, !.held = <<>>, !.index = @ + 1]
    BY <1>3 DEF FlushHeld
  <2>2. joined \in Seq(PartOf(U)) /\ <<>> \in Seq(PartOf(U))
    BY <1>1
  <2>3. p.index + 1 \in Nat
    BY DEF ReaderState
  <2> HIDE DEF joined
  <2>4. [p EXCEPT !.parts = joined, !.held = <<>>, !.index = @ + 1] \in ReaderState(U)
    BY <2>2, <2>3, Zenon DEF ReaderState
  <2> QED BY <2>1, <2>4
<1> QED BY <1>2, <1>3

LEMMA ReachTyped ==
  ASSUME NEW U, NEW p \in ReaderState(U), NEW uri \in U, NEW start \in Offsets, NEW length \in Offsets
  PROVE  Reach(p, uri) \in Nat /\ Reached(p, uri, start, length) \in Dicts(U, Nat)
<1>1. p.reach \in Dicts(U, Nat)
  BY DEF ReaderState
<1>2. Reach(p, uri) \in Nat
  <2>1. CASE uri \in DOMAIN p.reach
    <3> DEFINE d == p.reach
    <3>1. d \in Dicts(U, Nat) /\ uri \in DOMAIN d /\ Reach(p, uri) = d[uri]
      BY <1>1, <2>1 DEF Reach
    <3> HIDE DEF d
    <3> QED BY <3>1, DictValue
  <2>2. CASE uri \notin DOMAIN p.reach
    BY <2>2 DEF Reach
  <2> QED BY <2>1, <2>2
<1>3. CASE start = None \/ length = None
  BY <1>1, <1>2, <1>3 DEF Reached
<1>4. CASE ~(start = None \/ length = None)
  <2>1. start + length \in Nat
    BY <1>4 DEF Offsets
  <2> DEFINE d == p.reach
             y == start + length
  <2>2. d \in Dicts(U, Nat) /\ y \in Nat /\ Reached(p, uri, start, length) = Updated(d, uri, y)
    BY <1>1, <1>4, <2>1 DEF Reached
  <2> HIDE DEF d, y
  <2>3. Updated(d, uri, y) \in Dicts(U, Nat)
    BY <2>2, UpdatedDict
  <2> QED BY <1>2, <2>2, <2>3
<1> QED BY <1>2, <1>3, <1>4

LEMMA ManifestPartTyped ==
  ASSUME NEW U, NEW uri \in U, NEW start \in Offsets, NEW length \in Offsets, NEW occurrence \in Int,
         NEW partial \in BOOLEAN
  PROVE  ManifestPart(uri, start, length, occurrence, partial) \in PartOf(U)
BY DEF ManifestPart, PartOf

\* A part is added to the parts or the held ones, and the ranges go on.
LEMMA AddedTyped ==
  ASSUME NEW U, NEW p \in ReaderState(U), NEW part \in PartOf(U), NEW reach \in Dicts(U, Nat)
  PROVE  /\ [p EXCEPT !.parts = Append(@, part), !.index = @ + 1, !.reach = reach] \in ReaderState(U)
         /\ [p EXCEPT !.held = Append(@, part), !.reach = reach] \in ReaderState(U)
         /\ [p EXCEPT !.parts = Append(@, part), !.reach = reach] \in ReaderState(U)
         /\ [p EXCEPT !.parts = Append(@, part)] \in ReaderState(U)
<1> DEFINE ps == Append(p.parts, part)
           hs == Append(p.held, part)
<1>1. ps \in Seq(PartOf(U)) /\ hs \in Seq(PartOf(U))
  BY AppendProperties DEF ReaderState
<1>2. p.index + 1 \in Nat
  BY DEF ReaderState
<1>3. /\ [p EXCEPT !.parts = ps, !.index = @ + 1, !.reach = reach] \in ReaderState(U)
      /\ [p EXCEPT !.held = hs, !.reach = reach] \in ReaderState(U)
      /\ [p EXCEPT !.parts = ps, !.reach = reach] \in ReaderState(U)
      /\ [p EXCEPT !.parts = ps] \in ReaderState(U)
  <2> HIDE DEF ps, hs
  <2> QED BY <1>1, <1>2, Zenon DEF ReaderState
<1> QED BY <1>3

LEMMA ReadMapTyped ==
  ASSUME NEW U, NEW p \in ReaderState(U), NEW l, l.uri \in U, l.start \in Offsets, l.length \in Offsets
  PROVE  ReadMap(p, l) \in ReaderState(U)
<1> DEFINE start == IF l.start = None THEN 0 ELSE l.start
           part  == ManifestPart(l.uri, start, l.length, Occurrence(p), FALSE)
           reach == Reached(p, l.uri, start, l.length)
<1>1. start \in Offsets /\ Occurrence(p) \in Int
  BY DEF Offsets, Occurrence, ReaderState
<1>2. part \in PartOf(U) /\ reach \in Dicts(U, Nat)
  <2> HIDE DEF start
  <2> QED BY <1>1, ManifestPartTyped, ReachTyped
<1>3. ReadMap(p, l) = IF l.uri = None THEN p
                      ELSE [p EXCEPT !.parts = Append(@, part), !.index = @ + 1, !.reach = reach]
  BY DEF ReadMap
<1> HIDE DEF part, reach, start
<1>4. [p EXCEPT !.parts = Append(@, part), !.index = @ + 1, !.reach = reach] \in ReaderState(U)
  BY <1>2, AddedTyped
<1> QED BY <1>3, <1>4

LEMMA ReadPartTyped ==
  ASSUME NEW U, NEW p \in ReaderState(U), NEW l, l.uri \in U, l.start \in Offsets, l.length \in Offsets
  PROVE  ReadPart(p, l) \in ReaderState(U)
<1> DEFINE start == IF l.start = None /\ l.length # None THEN Reach(p, l.uri) ELSE l.start
           part  == ManifestPart(l.uri, start, l.length, Occurrence(p), TRUE)
           reach == Reached(p, l.uri, start, l.length)
<1>0. Reach(p, l.uri) \in Nat
  BY ReachTyped
<1>1. start \in Offsets /\ Occurrence(p) \in Int
  BY <1>0 DEF Offsets, Occurrence, ReaderState
<1>2. part \in PartOf(U) /\ reach \in Dicts(U, Nat)
  <2> HIDE DEF start
  <2> QED BY <1>1, ManifestPartTyped, ReachTyped
<1>3. ReadPart(p, l) = IF l.uri = None \/ l.gap THEN p
                       ELSE [p EXCEPT !.held = Append(@, part), !.reach = reach]
  BY DEF ReadPart
<1> HIDE DEF part, reach, start
<1>4. [p EXCEPT !.held = Append(@, part), !.reach = reach] \in ReaderState(U)
  BY <1>2, AddedTyped
<1> QED BY <1>3, <1>4

LEMMA ReadUriTyped ==
  ASSUME NEW U, NEW p \in ReaderState(U), NEW l, l.uri \in U
  PROVE  ReadUri(p, l) \in ReaderState(U)
<1> DEFINE start  == IF p.pending.start = None THEN Reach(p, l.uri) ELSE p.pending.start
           length == p.pending.length
           past   == [p EXCEPT !.held = <<>>, !.pending = None, !.gap = FALSE, !.index = @ + 1]
           part(from, count) == ManifestPart(l.uri, from, count, Occurrence(p), FALSE)
           reach  == Reached(p, l.uri, start, length)
<1>1. past \in ReaderState(U)
  <2>1. <<>> \in Seq(PartOf(U))
    OBVIOUS
  <2>2. p.index + 1 \in Nat
    BY DEF ReaderState
  <2> QED BY <2>1, <2>2, Zenon DEF ReaderState
<1>2. Occurrence(p) \in Int /\ None \in Offsets
  BY DEF Offsets, Occurrence, ReaderState
<1>3. ReadUri(p, l) = IF l.uri = None \/ p.gap THEN past
                      ELSE IF p.pending = None THEN [past EXCEPT !.parts = Append(@, part(None, None))]
                      ELSE [past EXCEPT !.parts = Append(@, part(start, length)), !.reach = reach]
  BY DEF ReadUri
<1>4. CASE l.uri = None \/ p.gap
  BY <1>1, <1>3, <1>4
<1>5. CASE ~(l.uri = None \/ p.gap) /\ p.pending = None
  <2>1. part(None, None) \in PartOf(U)
    BY <1>2, ManifestPartTyped
  <2> DEFINE q == part(None, None)
  <2>2. q \in PartOf(U) /\ ReadUri(p, l) = [past EXCEPT !.parts = Append(@, q)]
    BY <1>3, <1>5, <2>1
  <2> HIDE DEF q, past
  <2>3. {} \in SUBSET U /\ [z \in {} |-> 0] \in [{} -> Nat]
    OBVIOUS
  <2>4. \E reached : reached \in Dicts(U, Nat)
    BY <2>3 DEF Dicts
  <2> QED BY <1>1, <2>2, <2>4, AddedTyped
<1>6. CASE ~(l.uri = None \/ p.gap) /\ p.pending # None
  <2>1. p.pending \in [start: Offsets, length: Offsets]
    BY <1>6 DEF ReaderState
  <2>2. Reach(p, l.uri) \in Nat
    BY ReachTyped, <1>2
  <2>3. start \in Offsets /\ length \in Offsets
    BY <2>1, <2>2 DEF Offsets
  <2> DEFINE q == part(start, length)
  <2>4. q \in PartOf(U) /\ reach \in Dicts(U, Nat)
    <3> HIDE DEF start, length
    <3> QED BY <1>2, <2>3, ManifestPartTyped, ReachTyped
  <2>5. ReadUri(p, l) = [past EXCEPT !.parts = Append(@, q), !.reach = reach]
    BY <1>3, <1>6
  <2> HIDE DEF q, past, reach, start, length
  <2>6. [past EXCEPT !.parts = Append(@, q), !.reach = reach] \in ReaderState(U)
    BY <1>1, <2>4, AddedTyped
  <2> QED BY <2>5, <2>6
<1> QED BY <1>4, <1>5, <1>6

LEMMA ReadLineTyped ==
  ASSUME NEW U, NEW p \in ReaderState(U), NEW l \in PlaylistLine(U)
  PROVE  ReadLine(p, l) \in ReaderState(U)
<1>1. CASE ~p.open
  BY <1>1 DEF ReadLine
<1>2. CASE p.open
  <2>1. CASE l \in [tag: {"sequence", "skip"}, number: Nat]
    <3>1. l.number \in Nat /\ l.tag \in {"sequence", "skip"}
      BY <2>1
    <3>2. ReadLine(p, l) = IF l.tag = "sequence" THEN [p EXCEPT !.sequence = l.number]
                           ELSE [p EXCEPT !.index = @ + l.number]
      BY <1>2, <3>1 DEF ReadLine
    <3>3. p.index + l.number \in Nat
      BY <3>1 DEF ReaderState
    <3>4. /\ [p EXCEPT !.sequence = l.number] \in ReaderState(U)
          /\ [p EXCEPT !.index = @ + l.number] \in ReaderState(U)
      BY <3>1, <3>3, Zenon DEF ReaderState
    <3> QED BY <3>2, <3>4
  <2>2. CASE l \in [tag: {"key"}, clear: BOOLEAN]
    <3>1. ReadLine(p, l) = IF l.clear THEN p ELSE [FlushHeld(p) EXCEPT !.open = FALSE]
      BY <1>2, <2>2 DEF ReadLine
    <3>2. FlushHeld(p) \in ReaderState(U)
      BY FlushTyped
    <3>3. [FlushHeld(p) EXCEPT !.open = FALSE] \in ReaderState(U)
      BY <3>2 DEF ReaderState
    <3> QED BY <3>1, <3>3
  <2>3. CASE l \in [tag: {"break", "gap"}]
    <3>1. ReadLine(p, l) = IF l.tag = "break" THEN FlushHeld(p) ELSE [p EXCEPT !.held = <<>>, !.gap = TRUE]
      BY <1>2, <2>3 DEF ReadLine
    <3>2. [p EXCEPT !.held = <<>>, !.gap = TRUE] \in ReaderState(U)
      <4>1. <<>> \in Seq(PartOf(U))
        OBVIOUS
      <4> QED BY <4>1 DEF ReaderState
    <3> QED BY <3>1, <3>2, FlushTyped
  <2>4. CASE l \in [tag: {"map"}, uri: U, start: Offsets, length: Offsets]
    <3>1. ReadLine(p, l) = ReadMap(p, l)
      BY <1>2, <2>4 DEF ReadLine
    <3> QED BY <2>4, <3>1, ReadMapTyped
  <2>5. CASE l \in [tag: {"part"}, uri: U, start: Offsets, length: Offsets, gap: BOOLEAN]
    <3>1. ReadLine(p, l) = ReadPart(p, l)
      BY <1>2, <2>5 DEF ReadLine
    <3> QED BY <2>5, <3>1, ReadPartTyped
  <2>6. CASE l \in [tag: {"range"}, start: Offsets, length: Offsets]
    <3>1. ReadLine(p, l) = [p EXCEPT !.pending = [start |-> l.start, length |-> l.length]]
      BY <1>2, <2>6 DEF ReadLine
    <3> DEFINE pending == [start |-> l.start, length |-> l.length]
    <3>2. pending \in [start: Offsets, length: Offsets]
      BY <2>6
    <3> HIDE DEF pending
    <3>3. ReadLine(p, l) = [p EXCEPT !.pending = pending]
      BY <3>1 DEF pending
    <3> QED BY <3>2, <3>3 DEF ReaderState
  <2>7. CASE l \in [tag: {"uri"}, uri: U]
    <3>1. ReadLine(p, l) = ReadUri(p, l)
      BY <1>2, <2>7 DEF ReadLine
    <3> QED BY <2>7, <3>1, ReadUriTyped
  <2> QED BY <2>1, <2>2, <2>3, <2>4, <2>5, <2>6, <2>7 DEF PlaylistLine
<1> QED BY <1>1, <1>2

LEMMA BlankTyped == ASSUME NEW U PROVE Blank \in ReaderState(U)
<1>1. <<>> \in Seq(PartOf(U))
  OBVIOUS
<1>2. <<>> \in Dicts(U, Nat)
  <2>1. <<>> \in [{} -> Nat] /\ {} \in SUBSET U
    OBVIOUS
  <2> QED BY <2>1 DEF Dicts
<1> QED BY <1>1, <1>2 DEF Blank, ReaderState

\* The reader has a state after every line.
LEMMA Reading ==
  ASSUME NEW U, NEW lines \in Seq(PlaylistLine(U))
  PROVE  \E F \in [0..Len(lines) -> ReaderState(U)] :
           /\ F[0] = Blank
           /\ \A n \in 1..Len(lines) : F[n] = ReadLine(F[n - 1], lines[n])
           /\ ClearHlsParts(lines) = FlushHeld(F[Len(lines)]).parts
<1> DEFINE N == Len(lines)
           D == ReaderState(U)
           Next1(f, n) == IF n = 0 THEN Blank ELSE ReadLine(f[n - 1], lines[n])
           Reads(f) == f = [n \in 0..N |-> Next1(f, n)]
           F == CHOOSE f : Reads(f)
           G == [q \in D \X Nat |-> IF q[2] \in 1..N THEN ReadLine(q[1], lines[q[2]]) ELSE Blank]
<1>1. N \in Nat /\ \A i \in 1..N : lines[i] \in PlaylistLine(U)
  OBVIOUS
<1>2. G \in [D \X Nat -> D]
  BY <1>1, ReadLineTyped, BlankTyped
<1>3. \E f : Reads(f)
  <2> HIDE DEF G
  <2>0. PICK f : Unfolding(D, Blank, N, G, f)
    <3>1. Blank \in D /\ N \in Nat
      BY <1>1, BlankTyped
    <3> HIDE DEF D, N
    <3> QED BY <1>2, <3>1, Unfolds
  <2>1. f \in [0..N -> D] /\ f[0] = Blank /\ \A n \in 1..N : f[n] = G[<<f[n-1], n>>]
    BY <2>0 DEF Unfolding
  <2>2. \A n \in 0..N : f[n] = Next1(f, n)
    <3> SUFFICES ASSUME NEW n \in 1..N PROVE f[n] = ReadLine(f[n - 1], lines[n])
      BY <2>1
    <3>1. n - 1 \in 0..N /\ f[n - 1] \in D
      BY <1>1, <2>1
    <3> DEFINE q == <<f[n - 1], n>>
    <3>2. q \in D \X Nat /\ q[1] = f[n - 1] /\ q[2] = n
      BY <3>1
    <3>3. G[q] = ReadLine(f[n - 1], lines[n])
      <4> HIDE DEF q
      <4> QED BY <3>2 DEF G
    <3> QED BY <2>1, <3>3
  <2>3. f = [n \in 0..N |-> f[n]]
    BY <2>1
  <2> HIDE DEF Next1
  <2>4. f = [n \in 0..N |-> Next1(f, n)]
    BY <2>2, <2>3
  <2> QED BY <2>4, Zenon
<1>4. Reads(F)
  BY <1>3, Zenon
<1>5. ClearHlsParts(lines) = FlushHeld(F[N]).parts
  BY Zenon DEF ClearHlsParts
<1> HIDE DEF F
<1>6. F = [n \in 0..N |-> F[n]] /\ \A n \in 0..N : F[n] = Next1(F, n)
  <2> HIDE DEF Next1
  <2> QED BY <1>4
<1>7. F[0] = Blank /\ \A n \in 1..N : F[n] = ReadLine(F[n - 1], lines[n])
  BY <1>1, <1>6
<1> DEFINE Ms == {m \in Nat : m <= N => F[m] \in D}
<1>8. 0 \in Ms
  BY <1>7, BlankTyped
<1>9. ASSUME NEW m \in Nat, m \in Ms PROVE m + 1 \in Ms
  <2> SUFFICES ASSUME m + 1 <= N PROVE F[m + 1] \in D
    OBVIOUS
  <2>1. m + 1 \in 1..N /\ (m + 1) - 1 = m /\ F[m] \in D
    BY <1>1, <1>9
  <2>2. F[m + 1] = ReadLine(F[m], lines[m + 1])
    BY <1>7, <2>1
  <2> QED BY <1>1, <2>1, <2>2, ReadLineTyped
<1> HIDE DEF Ms
<1>10. \A m \in Nat : m \in Ms
  BY <1>8, <1>9, Induct
<1>11. \A m \in 0..N : F[m] \in D
  BY <1>1, <1>10 DEF Ms
<1>12. F \in [0..N -> D]
  BY <1>6, <1>11
<1> QED BY <1>5, <1>7, <1>12

LEMMA ClearPartsTyped ==
  ASSUME NEW U, NEW lines \in Seq(PlaylistLine(U))
  PROVE  ClearHlsParts(lines) \in Seq(PartOf(U))
<1>1. PICK F \in [0..Len(lines) -> ReaderState(U)] : ClearHlsParts(lines) = FlushHeld(F[Len(lines)]).parts
  BY Reading
<1>2. F[Len(lines)] \in ReaderState(U)
  OBVIOUS
<1>3. FlushHeld(F[Len(lines)]) \in ReaderState(U)
  BY <1>2, FlushTyped
<1> QED BY <1>1, <1>3 DEF ReaderState

-----------------------------------------------------------------------------
(* The playlists an origin serves are of such lines. *)

Lines0 == PlaylistLine(Urls)
Part == PartOf(Urls)

\* Sequences are flattened one after the other.
LEMMA Flattens ==
  ASSUME NEW D, NEW seqs \in Seq(Seq(D))
  PROVE  \E f \in [0..Len(seqs) -> Seq(D)] :
           /\ f[0] = <<>>
           /\ \A i \in 1..Len(seqs) : f[i] = f[i - 1] \o seqs[i]
           /\ FlattenSeq(seqs) = f[Len(seqs)]
<1> DEFINE N == Len(seqs)
           Next1(f, i) == IF i = 1 THEN seqs[i] ELSE f[i - 1] \o seqs[i]
           Joins(f) == f = [i \in 1..N |-> Next1(f, i)]
           F == CHOOSE f : Joins(f)
           G == [q \in Seq(D) \X Nat |-> IF q[2] \in 1..N THEN q[1] \o seqs[q[2]] ELSE <<>>]
<1>1. N \in Nat /\ \A i \in 1..N : seqs[i] \in Seq(D)
  OBVIOUS
<1>2. CASE N = 0
  <2> DEFINE f == [i \in 0..0 |-> <<>>]
  <2>1. f \in [0..0 -> Seq(D)] /\ f[0] = <<>>
    OBVIOUS
  <2>2. FlattenSeq(seqs) = <<>> /\ Len(seqs) = 0 /\ 1..0 = {}
    BY <1>2 DEF FlattenSeq
  <2> HIDE DEF f
  <2> QED BY <2>1, <2>2
<1>3. CASE N # 0
  <2>1. G \in [Seq(D) \X Nat -> Seq(D)]
    <3>1. ASSUME NEW q \in Seq(D) \X Nat PROVE G[q] \in Seq(D)
      <4>1. q[1] \in Seq(D)
        OBVIOUS
      <4>2. ASSUME q[2] \in 1..N PROVE q[1] \o seqs[q[2]] \in Seq(D)
        BY <1>1, <4>1, <4>2, ConcatProperties
      <4> QED BY <4>2
    <3> QED BY <3>1
  <2>2. <<>> \in Seq(D)
    OBVIOUS
  <2>3. PICK f : Unfolding(Seq(D), <<>>, N, G, f)
    <3> HIDE DEF G, N
    <3> QED BY <1>1, <2>1, <2>2, Unfolds
  <2>4. f \in [0..N -> Seq(D)] /\ f[0] = <<>> /\ \A i \in 1..N : f[i] = G[<<f[i - 1], i>>]
    BY <2>3 DEF Unfolding
  <2> DEFINE g == [i \in 1..N |-> f[i]]
  <2>5. \A i \in 1..N : f[i] = f[i - 1] \o seqs[i]
    <3> SUFFICES ASSUME NEW i \in 1..N PROVE f[i] = f[i - 1] \o seqs[i]
      OBVIOUS
    <3>1. i - 1 \in 0..N /\ f[i - 1] \in Seq(D)
      <4> HIDE DEF G, N
      <4> QED BY <1>1, <2>4
    <3> DEFINE q == <<f[i - 1], i>>
    <3>2. q \in Seq(D) \X Nat /\ q[1] = f[i - 1] /\ q[2] = i
      BY <3>1
    <3>3. G[q] = f[i - 1] \o seqs[i]
      <4> HIDE DEF q
      <4> QED BY <3>2
    <3> HIDE DEF G
    <3> QED BY <2>4, <3>3
  <2>6. \A i \in 1..N : g[i] = Next1(g, i)
    <3> SUFFICES ASSUME NEW i \in 1..N PROVE g[i] = Next1(g, i)
      OBVIOUS
    <3>1. CASE i = 1
      <4>1. f[0] \o seqs[1] = seqs[1]
        BY <1>1, <2>4, <3>1, ConcatEmptySeq
      <4>2. 1 \in 1..N /\ 1 - 1 = 0 /\ g[1] = f[1]
        BY <3>1
      <4>3. g[1] = f[0] \o seqs[1]
        <5> HIDE DEF g, N
        <5> QED BY <2>5, <4>2
      <4> QED BY <3>1, <4>1, <4>3
    <3>2. CASE i # 1
      <4>1. i - 1 \in 1..N /\ g[i - 1] = f[i - 1] /\ g[i] = f[i]
        BY <1>1, <3>2
      <4> HIDE DEF g
      <4> QED BY <2>5, <3>2, <4>1
    <3> QED BY <3>1, <3>2
  <2>7. Joins(g)
    <3>1. g = [i \in 1..N |-> g[i]]
      OBVIOUS
    <3> HIDE DEF g, Next1
    <3> QED BY <2>6, <3>1
  <2>8. Joins(F)
    <3> HIDE DEF Joins
    <3> QED BY <2>7, Zenon
  <2>9. FlattenSeq(seqs) = F[N]
    BY <1>3, Zenon DEF FlattenSeq
  <2> HIDE DEF F
  <2>10. \A i \in 1..N : F[i] = Next1(F, i)
    <3> HIDE DEF Next1
    <3> QED BY <2>8
  <2> DEFINE Ms == {m \in Nat : m + 1 <= N => F[m + 1] = f[m + 1]}
  <2>11. 0 \in Ms
    <3>1. 1 \in 1..N /\ g[1] = f[1]
      BY <1>1, <1>3
    <3> HIDE DEF g
    <3> QED BY <2>6, <2>10, <3>1
  <2>12. ASSUME NEW m \in Nat, m \in Ms PROVE m + 1 \in Ms
    <3> SUFFICES ASSUME (m + 1) + 1 <= N PROVE F[(m + 1) + 1] = f[(m + 1) + 1]
      OBVIOUS
    <3>1. (m + 1) + 1 \in 1..N /\ ((m + 1) + 1) - 1 = m + 1 /\ (m + 1) + 1 # 1 /\ F[m + 1] = f[m + 1]
      BY <1>1, <2>12
    <3>2. F[(m + 1) + 1] = F[m + 1] \o seqs[(m + 1) + 1]
      BY <2>10, <3>1
    <3> QED BY <2>5, <3>1, <3>2
  <2> HIDE DEF Ms
  <2>13. \A m \in Nat : m \in Ms
    BY <2>11, <2>12, Induct
  <2>14. N - 1 \in Ms /\ (N - 1) + 1 = N
    BY <1>1, <1>3, <2>13
  <2>15. F[N] = f[N]
    BY <1>1, <2>14 DEF Ms
  <2> HIDE DEF G
  <2> QED BY <2>4, <2>5, <2>9, <2>15
<1> QED BY <1>2, <1>3

LEMMA FlattenTyped ==
  ASSUME NEW D, NEW seqs \in Seq(Seq(D))
  PROVE  FlattenSeq(seqs) \in Seq(D)
<1>1. PICK f \in [0..Len(seqs) -> Seq(D)] : FlattenSeq(seqs) = f[Len(seqs)]
  BY Flattens
<1>2. Len(seqs) \in 0..Len(seqs)
  OBVIOUS
<1> QED BY <1>1, <1>2

LEMMA SegmentLinesTyped ==
  ASSUME NEW o \in Style, NEW k \in Nat, NEW first \in Nat
  PROVE  SegmentLines(o, k, first) \in Seq(Lines0)
<1> DEFINE key == IF o.locked # {} /\ (k = first \/ (k \in o.locked) # (k - 1 \in o.locked))
                  THEN <<[tag |-> "key", clear |-> k \notin o.locked]>> ELSE <<>>
           break == IF k \in o.breaks THEN <<Line("break")>> ELSE <<>>
<1>1. /\ [tag |-> "key", clear |-> k \notin o.locked] \in Lines0
      /\ Line("break") \in Lines0
  BY DEF Lines0, PlaylistLine, Line
<1>2. key \in Seq(Lines0) /\ break \in Seq(Lines0)
  BY <1>1
<1>3. SegmentLines(o, k, first) = key \o break
  BY DEF SegmentLines
<1> HIDE DEF key, break
<1> QED BY <1>2, <1>3, ConcatProperties

LEMMA ListedSegmentTyped ==
  ASSUME NEW o \in Style, NEW k \in Nat \ {0}, NEW first \in Nat
  PROVE  ListedSegment(o, k, first) \in Seq(Lines0)
<1> DEFINE head == SegmentLines(o, k, first)
           gap == IF k \in o.gaps THEN <<Line("gap")>> ELSE <<>>
           start == IF k = first THEN (k - 1) * Units ELSE None
           range == [tag |-> "range", length |-> Units, start |-> start]
           last == IF o.ranged THEN <<range, [tag |-> "uri", uri |-> <<"file", 0>>]>>
                   ELSE <<[tag |-> "uri", uri |-> <<"seg", k>>]>>
<1>1. head \in Seq(Lines0)
  BY SegmentLinesTyped
<1>2. gap \in Seq(Lines0)
  <2>1. Line("gap") \in Lines0
    BY DEF Lines0, PlaylistLine, Line
  <2> QED BY <2>1
<1>3. start \in Offsets /\ Units \in Offsets
  <2>1. k - 1 \in Nat /\ Units \in Nat
    BY SettingsAssumption
  <2>2. (k - 1) * Units \in Nat
    BY <2>1
  <2> QED BY <2>1, <2>2 DEF Offsets
<1>4. range \in Lines0
  <2> HIDE DEF start
  <2> QED BY <1>3 DEF Lines0, PlaylistLine
<1>5. <<"file", 0>> \in Urls /\ <<"seg", k>> \in Urls
  BY DEF Urls
<1>6. [tag |-> "uri", uri |-> <<"file", 0>>] \in Lines0 /\ [tag |-> "uri", uri |-> <<"seg", k>>] \in Lines0
  BY <1>5 DEF Lines0, PlaylistLine
<1>7. last \in Seq(Lines0)
  <2> HIDE DEF range
  <2> QED BY <1>4, <1>6
<1>8. ListedSegment(o, k, first) = head \o gap \o last
  BY DEF ListedSegment
<1> HIDE DEF head, gap, last
<1>9. head \o gap \in Seq(Lines0)
  BY <1>1, <1>2, ConcatProperties
<1> QED BY <1>7, <1>8, <1>9, ConcatProperties

LEMMA ListedPartsTyped ==
  ASSUME NEW o \in Style, NEW k \in Nat \ {0}, NEW first \in Nat, NEW units \in Nat,
         (k - 1) * Units <= units
  PROVE  ListedParts(o, k, first, units) \in Seq(Lines0)
<1> DEFINE part(j) == IF o.parts = "files"
                      THEN [tag |-> "part", uri |-> <<"part", (k - 1) * Units + j>>,
                            start |-> None, length |-> None, gap |-> k \in o.gaps]
                      ELSE [tag |-> "part", length |-> 1, gap |-> k \in o.gaps,
                            uri |-> IF o.ranged THEN <<"file", 0>> ELSE <<"seg", k>>,
                            start |-> IF j > 1 THEN None
                                      ELSE IF o.ranged THEN (k - 1) * Units ELSE 0]
           count == units - (k - 1) * Units
           parts == [j \in 1 .. count |-> part(j)]
           head == SegmentLines(o, k, first)
<1>1. (k - 1) * Units \in Nat /\ count \in Nat
  <2>1. k - 1 \in Nat /\ Units \in Nat
    BY SettingsAssumption
  <2>2. (k - 1) * Units \in Nat
    BY <2>1
  <2> QED BY <2>2
<1>2. ASSUME NEW j \in 1 .. count PROVE part(j) \in Lines0
  <2>1. CASE o.parts = "files"
    <3> DEFINE uri == <<"part", (k - 1) * Units + j>>
               gap == k \in o.gaps
    <3>1. uri \in Urls /\ gap \in BOOLEAN /\ None \in Offsets
      BY <1>1 DEF Urls, Offsets
    <3>2. part(j) = [tag |-> "part", uri |-> uri, start |-> None, length |-> None, gap |-> gap]
      BY <2>1
    <3> HIDE DEF uri, gap
    <3>3. [tag |-> "part", uri |-> uri, start |-> None, length |-> None, gap |-> gap] \in Lines0
      BY <3>1 DEF Lines0, PlaylistLine
    <3> QED BY <3>2, <3>3
  <2>2. CASE o.parts # "files"
    <3> DEFINE uri == IF o.ranged THEN <<"file", 0>> ELSE <<"seg", k>>
               gap == k \in o.gaps
               start == IF j > 1 THEN None ELSE IF o.ranged THEN (k - 1) * Units ELSE 0
    <3>1. uri \in Urls /\ gap \in BOOLEAN /\ start \in Offsets /\ 1 \in Offsets
      BY <1>1 DEF Urls, Offsets
    <3>2. part(j) = [tag |-> "part", length |-> 1, gap |-> gap, uri |-> uri, start |-> start]
      BY <2>2
    <3> HIDE DEF uri, gap, start
    <3>3. [tag |-> "part", length |-> 1, gap |-> gap, uri |-> uri, start |-> start] \in Lines0
      BY <3>1 DEF Lines0, PlaylistLine
    <3> QED BY <3>2, <3>3
  <2> QED BY <2>1, <2>2
<1>3. head \in Seq(Lines0)
  BY SegmentLinesTyped
<1>4. parts \in Seq(Lines0)
  <2> HIDE DEF part, count
  <2> QED BY <1>1, <1>2
<1>5. ListedParts(o, k, first, units) = IF o.parts = "none" \/ units = (k - 1) * Units THEN <<>> ELSE head \o parts
  BY DEF ListedParts
<1> HIDE DEF head, parts
<1>6. head \o parts \in Seq(Lines0)
  BY <1>3, <1>4, ConcatProperties
<1> QED BY <1>5, <1>6

LEMMA CompleteFits ==
  ASSUME NEW units \in Nat
  PROVE  Complete(units) \in Nat /\ Complete(units) * Units <= units
<1>1. Units \in Nat /\ Units > 0
  BY SettingsAssumption
<1> QED BY <1>1 DEF Complete

LEMMA ListedFrom ==
  ASSUME NEW o \in Style, NEW units \in Nat
  PROVE  /\ FirstListed(o, units) \in Nat \ {0}
         /\ FirstListed(o, units) <= Complete(units) + 1
<1>1. o.window \in Nat /\ Complete(units) \in Nat
  BY CompleteFits DEF Style
<1> QED BY <1>1 DEF FirstListed

LEMMA LinesTyped ==
  ASSUME NEW o \in Style, NEW units \in Nat, NEW delta \in BOOLEAN, NEW level \in Nat
  PROVE  Lines(o, units, delta, level) \in Seq(Lines0)
<1> DEFINE last    == Complete(units)
           first   == FirstListed(o, units)
           skipped == IF o.delta /\ delta /\ last > first THEN last - first ELSE 0
           count   == last - first - skipped + 1
           shown   == [i \in 1 .. count |-> ListedSegment(o, first + skipped + i - 1, first + skipped)]
           master  == <<[tag |-> "uri", uri |-> <<"list", level + 1>>]>>
           number  == <<[tag |-> "sequence", number |-> first]>>
           skip    == IF skipped > 0 THEN <<[tag |-> "skip", number |-> skipped]>> ELSE <<>>
           section == IF o.map /\ skipped = 0
                      THEN <<[tag |-> "map", uri |-> <<"init", 0>>, start |-> None, length |-> None]>>
                      ELSE <<>>
           parts   == ListedParts(o, last + 1, first, units)
<1>1. last \in Nat /\ first \in Nat \ {0} /\ first <= last + 1
  BY CompleteFits, ListedFrom
<1>2. skipped \in Nat /\ count \in Nat
  <2> HIDE DEF last, first
  <2> QED BY <1>1
<1>3. shown \in Seq(Seq(Lines0))
  <2> HIDE DEF last, first, skipped, count
  <2>1. ASSUME NEW i \in 1 .. count
        PROVE  ListedSegment(o, first + skipped + i - 1, first + skipped) \in Seq(Lines0)
    <3>1. first + skipped + i - 1 \in Nat \ {0} /\ first + skipped \in Nat
      BY <1>1, <1>2
    <3> QED BY <3>1, ListedSegmentTyped
  <2> QED BY <1>2, <2>1
<1>4. FlattenSeq(shown) \in Seq(Lines0)
  <2> HIDE DEF shown
  <2> QED BY <1>3, FlattenTyped
<1>5. parts \in Seq(Lines0)
  <2>1. (last + 1) - 1 = last /\ last + 1 \in Nat \ {0} /\ last * Units <= units
    <3>1. last * Units <= units
      BY CompleteFits
    <3> HIDE DEF last
    <3> QED BY <1>1, <3>1
  <2> HIDE DEF last, first
  <2>2. ((last + 1) - 1) * Units <= units
    BY <2>1
  <2> QED BY <1>1, <2>1, <2>2, ListedPartsTyped
<1>6. master \in Seq(Lines0)
  <2>1. <<"list", level + 1>> \in Urls
    BY DEF Urls
  <2>2. [tag |-> "uri", uri |-> <<"list", level + 1>>] \in Lines0
    BY <2>1 DEF Lines0, PlaylistLine
  <2> QED BY <2>2
<1>7. number \in Seq(Lines0) /\ skip \in Seq(Lines0)
  <2> HIDE DEF first, skipped
  <2>1. [tag |-> "sequence", number |-> first] \in Lines0 /\ [tag |-> "skip", number |-> skipped] \in Lines0
    BY <1>1, <1>2 DEF Lines0, PlaylistLine
  <2> QED BY <2>1
<1>8. section \in Seq(Lines0)
  <2>1. <<"init", 0>> \in Urls /\ None \in Offsets
    BY DEF Urls, Offsets
  <2>2. [tag |-> "map", uri |-> <<"init", 0>>, start |-> None, length |-> None] \in Lines0
    BY <2>1 DEF Lines0, PlaylistLine
  <2> HIDE DEF skipped
  <2> QED BY <2>2
<1>9. Lines(o, units, delta, level) =
        IF level < o.nesting THEN master ELSE number \o skip \o section \o FlattenSeq(shown) \o parts
  BY DEF Lines
<1> HIDE DEF master, number, skip, section, shown, parts
<1>10. number \o skip \in Seq(Lines0)
  BY <1>7, ConcatProperties
<1>11. number \o skip \o section \in Seq(Lines0)
  BY <1>8, <1>10, ConcatProperties
<1>12. number \o skip \o section \o FlattenSeq(shown) \in Seq(Lines0)
  BY <1>4, <1>11, ConcatProperties
<1>13. number \o skip \o section \o FlattenSeq(shown) \o parts \in Seq(Lines0)
  BY <1>5, <1>12, ConcatProperties
<1> QED BY <1>6, <1>9, <1>13

LEMMA DashPartsTyped ==
  ASSUME NEW o \in Style, NEW units \in Nat
  PROVE  DashParts(o, units) \in Seq(Part)
<1> DEFINE first == FirstListed(o, units)
           periodOf(k) == (k - 1) \div o.period
           count == Complete(units) - first + 1
           part(i) == ManifestPart(<<"seg", first + i - 1>>, None, None,
                                   periodOf(first + i - 1) - periodOf(first), FALSE)
<1>1. first \in Nat \ {0} /\ count \in Nat /\ o.period \in Nat \ {0}
  <2> HIDE DEF first
  <2>1. first \in Nat \ {0} /\ first <= Complete(units) + 1 /\ Complete(units) \in Nat
    BY CompleteFits, ListedFrom DEF first
  <2> QED BY <2>1 DEF Style
<1>2. ASSUME NEW i \in 1 .. count PROVE part(i) \in Part
  <2> HIDE DEF first, count
  <2>1. periodOf(first + i - 1) \in Int /\ periodOf(first) \in Int
    BY <1>1
  <2> DEFINE occurrence == periodOf(first + i - 1) - periodOf(first)
             uri == <<"seg", first + i - 1>>
  <2>2. occurrence \in Int
    <3> HIDE DEF periodOf
    <3> QED BY <2>1
  <2>3. uri \in Urls /\ None \in Offsets
    BY <1>1, <1>2 DEF Urls, Offsets
  <2> HIDE DEF occurrence, uri
  <2>4. ManifestPart(uri, None, None, occurrence, FALSE) \in Part
    BY <2>2, <2>3, ManifestPartTyped DEF Part
  <2> QED BY <2>4 DEF occurrence, uri
<1>3. DashParts(o, units) = [i \in 1 .. count |-> part(i)]
  BY DEF DashParts
<1> HIDE DEF part, count
<1> QED BY <1>1, <1>2, <1>3

-----------------------------------------------------------------------------
(* The invariant. *)

LiveTypeOK ==
  /\ setting \in Settings
  /\ edge \in [Streams -> 0 .. Length]
  /\ pc \in {"enter", "round", "part", "poll", "close", "sidecar"} \cup Final
  /\ stream \in Streams /\ seen \in 0 .. Length /\ depth \in 0 .. MaxNesting /\ round \in Nat
  /\ todo \in Seq(Part)
  /\ cache \in Dicts(Urls \X Int, Seq(Int))
  /\ through \in Dicts(Urls \X Int, Nat)
  /\ written \in Nat /\ spent \in Nat
  /\ out \in [Streams -> Seq(Int)]
  /\ drm \in SUBSET Streams

\* A stream is recorded once: its file is new when it begins.
Untouched ==
  \A s \in Streams : s > stream \/ (s = stream /\ pc \in {"enter", "sidecar"}) => out[s] = <<>>

\* Sidecars are those of an HLS master, after its main stream.
SidecarsFollow == pc = "sidecar" => ~Dash /\ stream > 1

LiveInv ==
  /\ LiveTypeOK /\ Untouched /\ SidecarsFollow /\ RefusalIsFinal
  /\ IsFiniteSet(OnDisk) /\ BudgetHolds

\* What the assumption says of the recording that is made.
LEMMA SettingTyped ==
  ASSUME setting \in Settings
  PROVE  /\ Origin \in Seq(Style) /\ Len(Origin) \in Nat \ {0} /\ Streams = 1 .. Len(Origin)
         /\ \A s \in Streams : Origin[s] \in Style /\ Origin[s].start \in 0 .. Length
         /\ Dash \in BOOLEAN /\ Length \in Nat /\ MaxSegments \in Nat /\ MaxBytes \in Nat
<1>1. setting \in Setting /\ setting.origin # <<>>
      /\ \A s \in DOMAIN setting.origin : setting.origin[s].start <= setting.length
  BY SettingsAssumption
<1>2. Origin \in Seq(Style) /\ Dash \in BOOLEAN /\ Length \in Nat /\ MaxSegments \in Nat /\ MaxBytes \in Nat
  BY <1>1 DEF Setting, Origin, Dash, Length, MaxSegments, MaxBytes
<1>3. Len(Origin) \in Nat \ {0} /\ Streams = 1 .. Len(Origin) /\ \A s \in Streams : Origin[s] \in Style
  BY <1>1, <1>2 DEF Origin, Streams
<1>4. ASSUME NEW s \in Streams PROVE Origin[s].start \in 0 .. Length
  <2>1. Origin[s].start \in Nat
    BY <1>3 DEF Style
  <2>2. Origin[s].start <= Length
    BY <1>1 DEF Origin, Length, Streams
  <2> QED BY <1>2, <2>1, <2>2
<1> QED BY <1>2, <1>3, <1>4

LEMMA PartsRead ==
  ASSUME LiveTypeOK, NEW s \in Streams
  PROVE  Parts(s) = IF Dash THEN DashParts(Origin[s], seen)
                    ELSE ClearHlsParts(Lines(Origin[s], seen, round > 0, depth))
<1> DEFINE delta == round > 0
<1>1. /\ setting \in Settings /\ s \in DOMAIN setting.origin
      /\ seen \in 0 .. setting.length /\ delta \in BOOLEAN /\ depth \in 0 .. MaxNesting
  BY SettingTyped DEF LiveTypeOK, Streams, Origin, Length
<1>2. Text(s) = [parts |-> IF setting.dash THEN DashParts(setting.origin[s], seen)
                           ELSE ClearHlsParts(Lines(setting.origin[s], seen, delta, depth)),
                 keyed |-> ~setting.dash /\ HasKey(Lines(setting.origin[s], seen, delta, depth))]
  <2> HIDE DEF delta
  <2> QED BY <1>1 DEF Text, Manifests, delta
<1> HIDE DEF delta
<1> QED BY <1>2 DEF Parts, Dash, Origin, delta

LEMMA PartsTyped ==
  ASSUME LiveTypeOK, NEW s \in Streams
  PROVE  Parts(s) \in Seq(Part)
<1> DEFINE delta == round > 0
           lines == Lines(Origin[s], seen, delta, depth)
<1>1. Origin[s] \in Style /\ seen \in Nat /\ depth \in Nat /\ delta \in BOOLEAN
  BY SettingTyped, SettingsAssumption DEF LiveTypeOK
<1>2. Parts(s) = IF Dash THEN DashParts(Origin[s], seen) ELSE ClearHlsParts(lines)
  BY PartsRead
<1> HIDE DEF delta
<1>3. DashParts(Origin[s], seen) \in Seq(Part)
  BY <1>1, DashPartsTyped
<1>4. lines \in Seq(PlaylistLine(Urls))
  BY <1>1, LinesTyped DEF Lines0
<1> HIDE DEF lines
<1>5. ClearHlsParts(lines) \in Seq(Part)
  BY <1>4, ClearPartsTyped DEF Part
<1> QED BY <1>2, <1>3, <1>5

\* A request returns units.
LEMMA ContentTyped ==
  ASSUME LiveTypeOK, NEW uri \in Urls
  PROVE  Content(stream, uri) \in Seq(Int)
<1> DEFINE served == edge[stream] - Origin[stream].lag
           upTo(first, last) == [i \in 1 .. (IF last < first THEN 0 ELSE last - first + 1) |-> first + i - 1]
           lesser(a, b) == IF a < b THEN a ELSE b
<1>1. ASSUME NEW a \in Int, NEW b \in Int PROVE upTo(a, b) \in Seq(Int)
  <2> DEFINE n == IF b < a THEN 0 ELSE b - a + 1
  <2>1. n \in Nat
    OBVIOUS
  <2> HIDE DEF n
  <2>2. [i \in 1 .. n |-> a + i - 1] \in Seq(Int)
    BY <2>1
  <2> QED BY <2>2 DEF n
<1>2. served \in Int /\ Units \in Nat /\ uri[2] \in Nat /\ uri[1] \in {"init", "list", "part", "file", "seg"}
  <2>1. Origin[stream] \in Style /\ edge[stream] \in 0 .. Length /\ Length \in Nat
    BY SettingTyped DEF LiveTypeOK
  <2>2. Origin[stream].lag \in Nat
    BY <2>1 DEF Style
  <2>3. uri[2] \in Nat /\ uri[1] \in {"init", "list", "part", "file", "seg"}
    BY DEF Urls
  <2> QED BY <2>1, <2>2, <2>3, SettingsAssumption
<1>3. (uri[2] - 1) * Units + 1 \in Int /\ lesser(uri[2] * Units, served) \in Int
  <2> HIDE DEF served
  <2>1. \A a, b \in Int : a * b \in Int
    OBVIOUS
  <2>2. uri[2] - 1 \in Int /\ uri[2] \in Int /\ Units \in Int
    BY <1>2
  <2>3. (uri[2] - 1) * Units \in Int /\ uri[2] * Units \in Int
    BY <2>1, <2>2
  <2> QED BY <1>2, <2>3
<1>4. upTo(1, served) \in Seq(Int)
      /\ upTo((uri[2] - 1) * Units + 1, lesser(uri[2] * Units, served)) \in Seq(Int)
  <2> DEFINE a == (uri[2] - 1) * Units + 1
             b == lesser(uri[2] * Units, served)
  <2> HIDE DEF upTo, served, a, b
  <2>1. upTo(1, served) \in Seq(Int)
    BY <1>1, <1>2
  <2>2. upTo(a, b) \in Seq(Int)
    BY <1>1, <1>3 DEF a, b
  <2> QED BY <2>1, <2>2 DEF a, b
<1>5. \/ uri[1] = "init" /\ Content(stream, uri) = <<0>>
      \/ uri[1] = "list" /\ Content(stream, uri) = <<-1>>
      \/ uri[1] = "part" /\ Content(stream, uri) = <<uri[2]>>
      \/ uri[1] = "file" /\ Content(stream, uri) = upTo(1, served)
      \/ uri[1] = "seg" /\ Content(stream, uri) = upTo((uri[2] - 1) * Units + 1, lesser(uri[2] * Units, served))
  BY <1>2 DEF Content
<1>6. <<0>> \in Seq(Int) /\ <<-1>> \in Seq(Int) /\ <<uri[2]>> \in Seq(Int)
  BY <1>2
<1> HIDE DEF upTo, served, lesser
<1> QED BY <1>4, <1>5, <1>6

LEMMA FetchedTyped ==
  ASSUME LiveTypeOK, NEW part \in Part
  PROVE  Object(part) \in Urls \X Int /\ Fetched(part) \in Seq(Int)
<1>1. part.uri \in Urls /\ part.occurrence \in Int
  BY DEF Part, PartOf
<1>2. Object(part) \in Urls \X Int
  BY <1>1 DEF Object
<1>3. Content(stream, part.uri) \in Seq(Int)
  BY <1>1, ContentTyped
<1>4. ASSUME ~NeedsFetch(part) PROVE cache[Object(part)] \in Seq(Int)
  <2>1. Object(part) \in DOMAIN cache
    BY <1>4 DEF NeedsFetch
  <2> QED BY <2>1, DictValue DEF LiveTypeOK
<1> QED BY <1>2, <1>3, <1>4 DEF Fetched

LEMMA SliceTyped ==
  ASSUME LiveTypeOK, NEW part \in Part, NEW data \in Seq(Int)
  PROVE  /\ Slice(part, data).from \in Nat /\ Slice(part, data).to \in Nat
         /\ Slice(part, data).to <= Len(data)
         /\ Chunk(part, data) \in Seq(Int)
<1>1. part.start \in Offsets /\ part.length \in Offsets /\ Len(data) \in Nat
  BY DEF Part, PartOf
<1>2. Through(part) \in Nat
  <2>1. CASE Object(part) \in DOMAIN through
    <3>1. through[Object(part)] \in Nat
      BY <2>1, DictValue DEF LiveTypeOK
    <3> QED BY <2>1, <3>1 DEF Through
  <2>2. CASE Object(part) \notin DOMAIN through
    BY <2>2 DEF Through
  <2> QED BY <2>1, <2>2
<1>3. /\ Slice(part, data).from \in Nat /\ Slice(part, data).to \in Nat
      /\ Slice(part, data).to <= Len(data)
  BY <1>1, <1>2 DEF Slice, Offsets
<1> DEFINE a == Slice(part, data).from + 1
           b == Slice(part, data).to
<1>4. a \in Int /\ b \in Int /\ \A i \in a .. b : data[i] \in Int
  <2>1. a \in Nat /\ a >= 1 /\ b \in Nat /\ b <= Len(data)
    BY <1>3
  <2> HIDE DEF a, b
  <2> QED BY <1>1, <2>1
<1>5. Chunk(part, data) \in Seq(Int)
  <2> HIDE DEF a, b
  <2>1. SubSeq(data, a, b) \in Seq(Int)
    BY <1>4, SubSeqProperties
  <2> QED BY <2>1 DEF Chunk, a, b
<1> QED BY <1>3, <1>5

-----------------------------------------------------------------------------
(* What is on disk. *)

\* Bytes that are appended to a file are so many more on disk.
LEMMA DiskGrows ==
  ASSUME LiveTypeOK, IsFiniteSet(OnDisk), NEW chunk \in Seq(Int),
         setting' = setting, out' = [out EXCEPT ![stream] = @ \o chunk]
  PROVE  IsFiniteSet(OnDisk') /\ Cardinality(OnDisk') = Cardinality(OnDisk) + Len(chunk)
<1> DEFINE old == Len(out[stream])
           new == {stream} \X (old + 1 .. old + Len(chunk))
<1>1. /\ out \in [Streams -> Seq(Int)] /\ stream \in Streams /\ Streams' = Streams
      /\ old \in Nat /\ Len(chunk) \in Nat
  BY DEF LiveTypeOK, Streams, Origin
<1>2. \A s \in Streams : s # stream => out'[s] = out[s]
  BY <1>1
<1>3. out'[stream] = out[stream] \o chunk
  BY <1>1
<1>4. DOMAIN out[stream] = 1 .. old /\ DOMAIN out'[stream] = 1 .. old + Len(chunk)
  <2>1. out[stream] \o chunk \in Seq(Int) /\ Len(out[stream] \o chunk) = old + Len(chunk)
    BY <1>1, ConcatProperties
  <2> QED BY <1>1, <1>3, <2>1
<1>5. DOMAIN out'[stream] = DOMAIN out[stream] \cup (old + 1 .. old + Len(chunk))
  <2> HIDE DEF old
  <2> QED BY <1>1, <1>4
<1>6. OnDisk' = OnDisk \cup new
  <2> HIDE DEF old
  <2> QED BY <1>1, <1>2, <1>5 DEF OnDisk
<1>7. OnDisk \cap new = {}
  <2>1. \A i \in DOMAIN out[stream] : i \notin old + 1 .. old + Len(chunk)
    BY <1>1, <1>4
  <2> HIDE DEF old
  <2> QED BY <2>1 DEF OnDisk
<1>8. IsFiniteSet(new) /\ Cardinality(new) = Len(chunk)
  <2> HIDE DEF old
  <2>1. IsFiniteSet({stream}) /\ Cardinality({stream}) = 1
    BY FS_Singleton
  <2> DEFINE range == old + 1 .. old + Len(chunk)
  <2>2. IsFiniteSet(range) /\ Cardinality(range) = Len(chunk)
    <3> DEFINE from == old + 1
               to == old + Len(chunk)
    <3>1. from \in Int /\ to \in Int
      BY <1>1
    <3>2. IsFiniteSet(from .. to) /\ Cardinality(from .. to) = IF from > to THEN 0 ELSE to - from + 1
      <4> HIDE DEF from, to
      <4> QED BY <3>1, FS_Interval
    <3>3. (IF from > to THEN 0 ELSE to - from + 1) = Len(chunk)
      BY <1>1
    <3> QED BY <3>2, <3>3
  <2> HIDE DEF range
  <2>3. IsFiniteSet({stream} \X range) /\ Cardinality({stream} \X range) = 1 * Len(chunk)
    BY <2>1, <2>2, FS_Product
  <2> QED BY <1>1, <2>3 DEF range
<1> HIDE DEF new
<1>9. IsFiniteSet(OnDisk \cup new)
      /\ Cardinality(OnDisk \cup new) = Cardinality(OnDisk) + Cardinality(new) - Cardinality(OnDisk \cap new)
  BY <1>8, FS_Union
<1>10. Cardinality(OnDisk) \in Nat /\ Cardinality(OnDisk \cap new) = 0
  BY <1>7, FS_CardinalityType, FS_EmptySet
<1> QED BY <1>1, <1>6, <1>8, <1>9, <1>10

LEMMA LiveInit == Init => LiveInv
<1> SUFFICES ASSUME Init PROVE LiveInv
  OBVIOUS
<1> USE DEF Init
<1>1. setting \in Settings /\ 1 \in Streams
  BY SettingTyped
<1>2. LiveTypeOK
  <2>1. edge \in [Streams -> 0 .. Length] /\ seen \in 0 .. Length /\ stream \in Streams
        /\ out \in [Streams -> Seq(Int)] /\ todo \in Seq(Part)
    BY <1>1, SettingTyped
  <2>2. depth \in 0 .. MaxNesting
    BY SettingsAssumption
  <2>3. <<>> \in [{} -> Seq(Int)] /\ <<>> \in [{} -> Nat] /\ {} \in SUBSET (Urls \X Int)
    OBVIOUS
  <2>4. cache \in Dicts(Urls \X Int, Seq(Int)) /\ through \in Dicts(Urls \X Int, Nat)
    BY <2>3 DEF Dicts
  <2> QED BY <1>1, <2>1, <2>2, <2>4 DEF LiveTypeOK
<1>3. OnDisk = {}
  BY DEF OnDisk
<1>4. IsFiniteSet(OnDisk) /\ BudgetHolds
  BY <1>1, <1>3, SettingTyped, FS_EmptySet DEF BudgetHolds
<1>5. Untouched /\ SidecarsFollow /\ RefusalIsFinal
  BY DEF Untouched, SidecarsFollow, RefusalIsFinal
<1> QED BY <1>2, <1>4, <1>5 DEF LiveInv

-----------------------------------------------------------------------------
(* The steps. *)

Entered == pc \notin {"enter", "sidecar"}

LEMMA StreamNumbers ==
  ASSUME LiveInv
  PROVE  /\ Len(Origin) \in Nat \ {0} /\ Streams = 1 .. Len(Origin) /\ stream \in Streams
         /\ \A s \in Streams : s > stream => s # stream
<1>1. setting \in Settings /\ stream \in Streams
  BY DEF LiveInv, LiveTypeOK
<1>2. Len(Origin) \in Nat \ {0} /\ Streams = 1 .. Len(Origin)
  BY <1>1, SettingTyped
<1> QED BY <1>1, <1>2

LEMMA DiskKept ==
  ASSUME LiveInv, UNCHANGED <<setting, out, spent>>
  PROVE  IsFiniteSet(OnDisk)' /\ BudgetHolds' /\ Streams' = Streams
BY DEF LiveInv, OnDisk, BudgetHolds, Streams, Origin, MaxBytes

\* Nothing but the place where the recorder is changes.
LEMMA MovedOn ==
  ASSUME LiveInv, UNCHANGED <<setting, edge, stream, local, out, spent>>,
         pc' \in {"round", "part", "poll", "close"} \cup Final,
         drm' = drm \/ (Entered /\ drm' = drm \cup {stream})
  PROVE  LiveInv'
<1>1. /\ Streams' = Streams /\ Length' = Length /\ Origin' = Origin /\ Dash' = Dash
      /\ UNCHANGED <<seen, depth, round, todo, cache, through, written>>
  BY DEF Streams, Length, Origin, Dash, local
<1>2. drm' \in SUBSET Streams
  BY DEF LiveInv, LiveTypeOK
<1>3. LiveTypeOK'
  BY <1>1, <1>2 DEF LiveInv, LiveTypeOK
<1>4. Untouched' /\ SidecarsFollow'
  BY <1>1 DEF LiveInv, Untouched, SidecarsFollow, Final
<1>5. RefusalIsFinal'
  BY <1>1 DEF LiveInv, RefusalIsFinal
<1> QED BY <1>3, <1>4, <1>5, DiskKept DEF LiveInv

\* Another text of the stream at hand is looked at.
LEMMA LookedAgain ==
  ASSUME LiveInv, UNCHANGED <<setting, edge, stream, out, spent, drm>>,
         seen' \in 0 .. Length, depth' \in 0 .. MaxNesting, round' \in Nat,
         UNCHANGED <<todo, cache, through, written>>,
         \/ pc' = "enter" /\ pc \in {"enter", "sidecar"}
         \/ pc' = "round" /\ Entered
  PROVE  LiveInv'
<1>1. /\ Streams' = Streams /\ Length' = Length /\ Origin' = Origin /\ Dash' = Dash
  BY DEF Streams, Length, Origin, Dash
<1>2. LiveTypeOK'
  BY <1>1 DEF LiveInv, LiveTypeOK
<1>3. Untouched' /\ SidecarsFollow'
  BY <1>1 DEF LiveInv, Untouched, SidecarsFollow, Entered
<1>4. RefusalIsFinal'
  BY <1>1 DEF LiveInv, RefusalIsFinal
<1> QED BY <1>2, <1>3, <1>4, DiskKept DEF LiveInv

LEMMA EdgeSeen == LiveInv => edge[stream] \in 0 .. Length
BY DEF LiveInv, LiveTypeOK

LEMMA PublishStep ==
  ASSUME LiveInv, NEW s \in Streams, Publish(s)
  PROVE  LiveInv'
<1>1. /\ Streams' = Streams /\ Length' = Length /\ Origin' = Origin /\ Dash' = Dash
      /\ UNCHANGED <<setting, pc, stream, out, spent, drm>>
      /\ UNCHANGED <<seen, depth, round, todo, cache, through, written>>
  BY DEF Publish, Streams, Length, Origin, Dash, local
<1>2. edge' \in [Streams -> 0 .. Length]
  <2>1. edge \in [Streams -> 0 .. Length] /\ Length \in Nat /\ edge[s] < Length
        /\ edge' = [edge EXCEPT ![s] = @ + 1]
    BY SettingTyped DEF LiveInv, LiveTypeOK, Publish
  <2>2. edge[s] + 1 \in 0 .. Length
    BY <2>1
  <2> QED BY <2>1, <2>2
<1>3. LiveTypeOK'
  BY <1>1, <1>2 DEF LiveInv, LiveTypeOK
<1>4. Untouched' /\ SidecarsFollow' /\ RefusalIsFinal'
  BY <1>1 DEF LiveInv, Untouched, SidecarsFollow, RefusalIsFinal
<1> QED BY <1>1, <1>3, <1>4, DiskKept DEF LiveInv

\* record_clear_stream begins with an empty file, and there was none.
LEMMA EnterMediaStep ==
  ASSUME LiveInv, EnterMedia
  PROVE  LiveInv'
<1>1. /\ setting' = setting /\ edge' = edge /\ stream' = stream /\ seen' = seen /\ depth' = depth
      /\ spent' = spent /\ drm' = drm /\ pc = "enter" /\ pc' = "round"
      /\ round' = 0 /\ todo' = <<>> /\ cache' = <<>> /\ through' = <<>> /\ written' = 0
      /\ out' = [out EXCEPT ![stream] = <<>>]
  BY DEF EnterMedia, Goto
<1>2. /\ Streams' = Streams /\ Length' = Length /\ Origin' = Origin /\ Dash' = Dash
  BY <1>1 DEF Streams, Length, Origin, Dash
<1>3. out' = out
  <2>1. out[stream] = <<>> /\ out \in [Streams -> Seq(Int)] /\ stream \in Streams
    BY <1>1 DEF LiveInv, Untouched, LiveTypeOK
  <2> QED BY <1>1, <2>1
<1>4. LiveTypeOK'
  <2>1. <<>> \in [{} -> Seq(Int)] /\ <<>> \in [{} -> Nat] /\ {} \in SUBSET (Urls \X Int)
    OBVIOUS
  <2>2. cache' \in Dicts(Urls \X Int, Seq(Int)) /\ through' \in Dicts(Urls \X Int, Nat)
    BY <1>1, <2>1 DEF Dicts
  <2>3. todo' \in Seq(Part)
    BY <1>1
  <2> QED BY <1>1, <1>2, <1>3, <2>2, <2>3 DEF LiveInv, LiveTypeOK
<1>5. Untouched' /\ SidecarsFollow' /\ RefusalIsFinal'
  BY <1>1, <1>2, <1>3 DEF LiveInv, Untouched, SidecarsFollow, RefusalIsFinal
<1> QED BY <1>1, <1>3, <1>4, <1>5, DiskKept DEF LiveInv

LEMMA BeginRoundStep ==
  ASSUME LiveInv, BeginRound
  PROVE  LiveInv'
<1>1. /\ setting' = setting /\ edge' = edge /\ stream' = stream /\ seen' = seen /\ depth' = depth
      /\ round' = round /\ cache' = cache /\ through' = through /\ written' = written
      /\ out' = out /\ spent' = spent /\ drm' = drm /\ pc = "round" /\ pc' = "part"
      /\ todo' = FirstParts(Parts(stream))
  BY DEF BeginRound, Goto
<1>2. /\ Streams' = Streams /\ Length' = Length /\ Origin' = Origin /\ Dash' = Dash
  BY <1>1 DEF Streams, Length, Origin, Dash
<1>3. todo' \in Seq(Part)
  <2>1. Parts(stream) \in Seq(Part) /\ MaxSegments \in Nat
    BY PartsTyped, SettingTyped DEF LiveInv, LiveTypeOK
  <2> DEFINE n == IF Len(Parts(stream)) < MaxSegments THEN Len(Parts(stream)) ELSE MaxSegments
  <2>2. n \in 0 .. Len(Parts(stream))
    BY <2>1
  <2>3. \A i \in 1 .. n : Parts(stream)[i] \in Part
    <3> HIDE DEF n
    <3> QED BY <2>1, <2>2
  <2>4. SubSeq(Parts(stream), 1, n) \in Seq(Part)
    <3> HIDE DEF n
    <3>1. n \in Int
      BY <2>1, <2>2
    <3> QED BY <2>3, <3>1, SubSeqProperties
  <2> QED BY <1>1, <2>4 DEF FirstParts
<1>4. LiveTypeOK'
  BY <1>1, <1>2, <1>3 DEF LiveInv, LiveTypeOK
<1>5. Untouched' /\ SidecarsFollow' /\ RefusalIsFinal'
  BY <1>1, <1>2 DEF LiveInv, Untouched, SidecarsFollow, RefusalIsFinal
<1> QED BY <1>1, <1>4, <1>5, DiskKept DEF LiveInv

\* A part is done: what is fetched and how far its ranges have come is kept.
LEMMA PartDone ==
  ASSUME LiveInv, UNCHANGED <<setting, edge, pc, stream, seen, depth, round, drm>>, pc = "part",
         todo # <<>>, todo' = Tail(todo),
         cache' \in Dicts(Urls \X Int, Seq(Int)), through' \in Dicts(Urls \X Int, Nat),
         written' \in Nat, spent' \in Nat,
         NEW chunk \in Seq(Int), out' = [out EXCEPT ![stream] = @ \o chunk],
         IsFiniteSet(OnDisk)', BudgetHolds'
  PROVE  LiveInv'
<1>1. /\ Streams' = Streams /\ Length' = Length /\ Origin' = Origin /\ Dash' = Dash
  BY DEF Streams, Length, Origin, Dash
<1>2. todo' \in Seq(Part)
  BY DEF LiveInv, LiveTypeOK
<1>3. out' \in [Streams -> Seq(Int)] /\ \A s \in Streams : s # stream => out'[s] = out[s]
  <2>1. out \in [Streams -> Seq(Int)] /\ stream \in Streams
    BY DEF LiveInv, LiveTypeOK
  <2>2. out[stream] \o chunk \in Seq(Int)
    BY <2>1, ConcatProperties
  <2> QED BY <2>1, <2>2
<1>4. LiveTypeOK'
  BY <1>1, <1>2, <1>3 DEF LiveInv, LiveTypeOK
<1>5. Untouched'
  <2>1. stream \in Streams /\ \A s \in Streams : s > stream => s # stream
    BY StreamNumbers
  <2> QED BY <1>1, <1>3, <2>1 DEF LiveInv, Untouched
<1>6. SidecarsFollow' /\ RefusalIsFinal'
  BY <1>1 DEF LiveInv, SidecarsFollow, RefusalIsFinal
<1> QED BY <1>4, <1>5, <1>6 DEF LiveInv

LEMMA NothingWritten ==
  ASSUME LiveInv
  PROVE  out = [out EXCEPT ![stream] = @ \o <<>>]
<1>1. out \in [Streams -> Seq(Int)] /\ stream \in Streams
  BY DEF LiveInv, LiveTypeOK
<1>2. out[stream] \o <<>> = out[stream]
  BY <1>1, ConcatEmptySeq
<1> QED BY <1>1, <1>2

LEMMA SkipPartStep ==
  ASSUME LiveInv, SkipPart
  PROVE  LiveInv'
<1>1. /\ UNCHANGED <<setting, edge, pc, stream, seen, depth, round, drm>> /\ pc = "part"
      /\ todo # <<>> /\ todo' = Tail(todo)
      /\ UNCHANGED <<cache, through, written, spent, out>>
  BY DEF SkipPart
<1>2. /\ cache' \in Dicts(Urls \X Int, Seq(Int)) /\ through' \in Dicts(Urls \X Int, Nat)
      /\ written' \in Nat /\ spent' \in Nat
  BY <1>1 DEF LiveInv, LiveTypeOK
<1>3. out' = [out EXCEPT ![stream] = @ \o <<>>] /\ <<>> \in Seq(Int)
  BY <1>1, NothingWritten
<1>4. IsFiniteSet(OnDisk)' /\ BudgetHolds'
  BY <1>1, DiskKept
<1> QED BY <1>1, <1>2, <1>3, <1>4, PartDone

LEMMA HeadPart ==
  ASSUME LiveInv, AtPart
  PROVE  Head(todo) \in Part /\ pc = "part" /\ todo # <<>>
BY DEF LiveInv, LiveTypeOK, AtPart

LEMMA NothingNewStep ==
  ASSUME LiveInv, NothingNew
  PROVE  LiveInv'
<1> DEFINE part == Head(todo)
           data == Fetched(part)
<1>1. part \in Part /\ pc = "part" /\ todo # <<>>
  BY HeadPart DEF NothingNew
<1>2. /\ UNCHANGED <<setting, edge, pc, stream, seen, depth, round, drm>>
      /\ todo' = Tail(todo) /\ UNCHANGED <<through, written, spent, out>>
      /\ cache' = Updated(cache, Object(part), data)
  BY DEF NothingNew
<1>3. Object(part) \in Urls \X Int /\ data \in Seq(Int) /\ cache \in Dicts(Urls \X Int, Seq(Int))
  <2>1. LiveTypeOK
    BY DEF LiveInv
  <2> HIDE DEF part
  <2> QED BY <1>1, <2>1, FetchedTyped DEF LiveTypeOK
<1>4. cache' \in Dicts(Urls \X Int, Seq(Int))
  <2> DEFINE object == Object(part)
  <2> HIDE DEF part, data, object
  <2>1. Updated(cache, object, data) \in Dicts(Urls \X Int, Seq(Int))
    BY <1>3, UpdatedDict DEF object
  <2> QED BY <1>2, <2>1 DEF object
<1>5. through' \in Dicts(Urls \X Int, Nat) /\ written' \in Nat /\ spent' \in Nat
  BY <1>2 DEF LiveInv, LiveTypeOK
<1>6. out' = [out EXCEPT ![stream] = @ \o <<>>] /\ <<>> \in Seq(Int)
  BY <1>2, NothingWritten
<1>7. IsFiniteSet(OnDisk)' /\ BudgetHolds'
  BY <1>2, DiskKept
<1> QED BY <1>1, <1>2, <1>4, <1>5, <1>6, <1>7, PartDone

\* What is appended to a file is charged to the budget, if it fits.
LEMMA Charged ==
  ASSUME LiveInv, NEW chunk \in Seq(Int), Fits(Len(chunk)), setting' = setting,
         out' = [out EXCEPT ![stream] = @ \o chunk], spent' = spent + Len(chunk)
  PROVE  IsFiniteSet(OnDisk)' /\ BudgetHolds' /\ spent' \in Nat
<1>1. LiveTypeOK /\ IsFiniteSet(OnDisk) /\ spent = Cardinality(OnDisk) /\ spent \in Nat /\ Len(chunk) \in Nat
  BY DEF LiveInv, LiveTypeOK, BudgetHolds
<1>2. IsFiniteSet(OnDisk') /\ Cardinality(OnDisk') = Cardinality(OnDisk) + Len(chunk)
  BY <1>1, DiskGrows
<1>3. spent' <= MaxBytes' /\ MaxBytes' = MaxBytes
  BY DEF Fits, MaxBytes
<1> QED BY <1>1, <1>2, <1>3 DEF BudgetHolds

LEMMA WritePartStep ==
  ASSUME LiveInv, WritePart
  PROVE  LiveInv'
<1> DEFINE part == Head(todo)
           data == Fetched(part)
           chunk == Chunk(part, data)
           object == Object(part)
           to == Slice(part, data).to
<1>1. part \in Part /\ pc = "part" /\ todo # <<>>
  BY HeadPart DEF WritePart
<1>2. /\ UNCHANGED <<setting, edge, pc, stream, seen, depth, round, drm>>
      /\ todo' = Tail(todo)
      /\ Fits(Len(chunk))
      /\ cache' = Updated(cache, object, data)
      /\ through' = IF part.start = None THEN through ELSE Updated(through, object, to)
      /\ written' = written + Len(chunk)
      /\ out' = [out EXCEPT ![stream] = @ \o chunk]
      /\ spent' = spent + Len(chunk)
  BY Zenon DEF WritePart
<1>3. /\ cache \in Dicts(Urls \X Int, Seq(Int)) /\ through \in Dicts(Urls \X Int, Nat)
      /\ written \in Nat /\ LiveTypeOK
  BY DEF LiveInv, LiveTypeOK
<1>4. object \in Urls \X Int /\ data \in Seq(Int)
  <2> HIDE DEF part
  <2> QED BY <1>1, <1>3, FetchedTyped
<1>5. chunk \in Seq(Int) /\ to \in Nat
  <2> HIDE DEF part, data
  <2> QED BY <1>1, <1>3, <1>4, SliceTyped
<1> HIDE DEF part, data, chunk, object, to
<1>6. cache' \in Dicts(Urls \X Int, Seq(Int))
  <2>1. Updated(cache, object, data) \in Dicts(Urls \X Int, Seq(Int))
    BY <1>3, <1>4, UpdatedDict
  <2> QED BY <1>2, <2>1
<1>7. through' \in Dicts(Urls \X Int, Nat)
  <2>1. Updated(through, object, to) \in Dicts(Urls \X Int, Nat)
    BY <1>3, <1>4, <1>5, UpdatedDict
  <2> QED BY <1>2, <1>3, <2>1
<1>8. written' \in Nat
  BY <1>2, <1>3, <1>5
<1>9. IsFiniteSet(OnDisk)' /\ BudgetHolds' /\ spent' \in Nat
  BY <1>2, <1>5, Charged
<1> QED BY <1>1, <1>2, <1>5, <1>6, <1>7, <1>8, <1>9, PartDone

\* The next stream is begun where no refusal forbids it.
LEMMA CloseStep ==
  ASSUME LiveInv, Close
  PROVE  LiveInv'
<1>1. UNCHANGED <<setting, edge, todo, cache, recorded, through, filled, written, out, spent, drm>>
      /\ pc = "close"
  BY DEF Close
<1>2. /\ Streams' = Streams /\ Length' = Length /\ Origin' = Origin /\ Dash' = Dash
  BY <1>1 DEF Streams, Length, Origin, Dash
<1>3. CASE LastStream
  <2>1. pc' = "done" /\ UNCHANGED <<stream, seen, depth, round>>
    BY <1>3 DEF Close, Goto
  <2> QED BY <1>1, <2>1, MovedOn DEF local, Final
<1>4. CASE ~LastStream
  <2>1. /\ stream' = stream + 1 /\ depth' = 0 /\ round' = 0
        /\ \/ Dash /\ pc' = "enter" /\ seen' = Origin[stream + 1].start
           \/ ~Dash /\ pc' = "sidecar" /\ seen' = seen
    BY <1>4 DEF Close, Goto
  <2>2. stream # Len(Origin) /\ (drm = {} \/ (~Dash /\ stream # 1))
    BY <1>4 DEF LastStream
  <2>3. stream + 1 \in Streams /\ stream \in Nat \ {0}
    BY <2>2, StreamNumbers
  <2>4. seen' \in 0 .. Length /\ depth' \in 0 .. MaxNesting
    <3>1. Origin[stream + 1].start \in 0 .. Length
      BY <2>3, SettingTyped DEF LiveInv, LiveTypeOK
    <3>2. seen \in 0 .. Length /\ 0 \in 0 .. MaxNesting
      BY SettingsAssumption DEF LiveInv, LiveTypeOK
    <3> QED BY <2>1, <3>1, <3>2
  <2>5. LiveTypeOK'
    BY <1>1, <1>2, <2>1, <2>3, <2>4 DEF LiveInv, LiveTypeOK
  <2>6. Untouched'
    <3> SUFFICES ASSUME NEW s \in Streams, s >= stream + 1 PROVE out[s] = <<>>
      BY <1>1, <1>2, <2>1, StreamNumbers DEF Untouched
    <3>1. s > stream
      BY <2>3, StreamNumbers
    <3> QED BY <3>1 DEF LiveInv, Untouched
  <2>7. SidecarsFollow'
    BY <1>2, <2>1, <2>3 DEF SidecarsFollow
  <2>8. RefusalIsFinal'
    <3>1. 1 \in drm => stream = 1
      BY DEF LiveInv, RefusalIsFinal
    <3> QED BY <1>1, <1>2, <2>2, <3>1 DEF RefusalIsFinal
  <2> QED BY <1>1, <2>5, <2>6, <2>7, <2>8, DiskKept DEF LiveInv
<1> QED BY <1>3, <1>4

LEMMA SidecarObjectStep ==
  ASSUME LiveInv, SidecarObject
  PROVE  LiveInv'
<1> DEFINE data == Content(stream, <<"file", 0>>)
<1>1. UNCHANGED <<setting, edge, local, drm>> /\ pc = "sidecar"
  BY DEF SidecarObject
<1>2. /\ Streams' = Streams /\ Length' = Length /\ Origin' = Origin /\ Dash' = Dash
      /\ UNCHANGED <<seen, depth, round, todo, cache, through, written>>
  BY <1>1 DEF Streams, Length, Origin, Dash, local
<1>3. ~Dash /\ stream > 1 /\ out[stream] = <<>> /\ out \in [Streams -> Seq(Int)] /\ stream \in Streams
  BY <1>1 DEF LiveInv, SidecarsFollow, Untouched, LiveTypeOK
<1>4. data \in Seq(Int)
  <2>1. <<"file", 0>> \in Urls
    BY DEF Urls
  <2> QED BY <2>1, ContentTyped DEF LiveInv
<1>5. CASE ~Fits(Len(data))
  <2>1. pc' = "failed" /\ UNCHANGED <<stream, out, spent>>
    BY <1>5 DEF SidecarObject, Goto
  <2> QED BY <1>1, <2>1, MovedOn DEF Final
<1>6. CASE Fits(Len(data))
  <2>1. /\ out' = [out EXCEPT ![stream] = data] /\ spent' = spent + Len(data)
        /\ \/ stream = Len(Origin) /\ pc' = "done" /\ stream' = stream
           \/ stream # Len(Origin) /\ pc' = "sidecar" /\ stream' = stream + 1
    BY <1>6 DEF SidecarObject, Goto
  <2> HIDE DEF data
  <2>2. out' = [out EXCEPT ![stream] = @ \o data]
    <3>1. out[stream] \o data = data
      BY <1>3, <1>4, ConcatEmptySeq
    <3> QED BY <1>3, <2>1, <3>1
  <2>3. IsFiniteSet(OnDisk)' /\ BudgetHolds' /\ spent' \in Nat
    BY <1>1, <1>4, <1>6, <2>1, <2>2, Charged
  <2>4. stream' \in Streams /\ stream \in Nat /\ stream' >= stream
    BY <2>1, StreamNumbers
  <2>5. out' \in [Streams -> Seq(Int)] /\ \A s \in Streams : s # stream => out'[s] = out[s]
    BY <1>3, <1>4, <2>1
  <2>6. LiveTypeOK'
    BY <1>1, <1>2, <2>1, <2>3, <2>4, <2>5 DEF LiveInv, LiveTypeOK, Final
  <2>7. Untouched'
    <3> SUFFICES ASSUME NEW s \in Streams, s > stream PROVE out'[s] = <<>>
      BY <1>2, <2>1, <2>4, StreamNumbers DEF Untouched
    <3>1. s # stream
      BY StreamNumbers
    <3> QED BY <2>5, <3>1 DEF LiveInv, Untouched
  <2>8. SidecarsFollow' /\ RefusalIsFinal'
    BY <1>1, <1>2, <1>3, <2>1, <2>4 DEF LiveInv, SidecarsFollow, RefusalIsFinal
  <2> QED BY <2>3, <2>6, <2>7, <2>8 DEF LiveInv
<1> QED BY <1>5, <1>6

LEMMA RaiseStep ==
  ASSUME LiveInv, NEW outcome \in Final \cup {"close"}, Raise(outcome)
  PROVE  LiveInv'
BY MovedOn DEF Raise, Goto

LEMMA RecordStep ==
  ASSUME LiveInv, Record
  PROVE  LiveInv'
<1>1. CASE EnterRefused \/ EnterEmpty \/ OverBudget \/ CloseEmpty
  <2>1. \E outcome \in Final : Raise(outcome)
    BY <1>1 DEF EnterRefused, EnterEmpty, OverBudget, CloseEmpty, Final
  <2> QED BY <2>1, RaiseStep
<1>2. CASE EnterMaster
  <2>1. edge[stream] \in 0 .. Length /\ depth + 1 \in 0 .. MaxNesting /\ round \in Nat
    BY <1>2, EdgeSeen, SettingsAssumption DEF LiveInv, LiveTypeOK, EnterMaster, IsMaster
  <2> QED BY <1>2, <2>1, LookedAgain DEF EnterMaster
<1>3. CASE EnterMedia
  BY <1>3, EnterMediaStep
<1>4. CASE BeginRound
  BY <1>4, BeginRoundStep
<1>5. CASE RefusedInRound
  BY <1>5, MovedOn DEF RefusedInRound, Goto, Entered, Final
<1>6. CASE SkipPart
  BY <1>6, SkipPartStep
<1>7. CASE NothingNew
  BY <1>7, NothingNewStep
<1>8. CASE WritePart
  BY <1>8, WritePartStep
<1>9. CASE EndRound
  BY <1>9, MovedOn DEF EndRound, Goto
<1>10. CASE Poll
  <2>1. edge[stream] \in 0 .. Length /\ depth \in 0 .. MaxNesting /\ round + 1 \in Nat
    BY EdgeSeen DEF LiveInv, LiveTypeOK
  <2> QED BY <1>10, <2>1, LookedAgain DEF Poll, Goto, Entered
<1>11. CASE Close
  BY <1>11, CloseStep
<1>12. CASE SidecarPlaylist
  <2>1. edge[stream] \in 0 .. Length /\ depth \in 0 .. MaxNesting /\ round \in Nat
    BY EdgeSeen DEF LiveInv, LiveTypeOK
  <2> QED BY <1>12, <2>1, LookedAgain DEF SidecarPlaylist, Goto
<1>13. CASE SidecarObject
  BY <1>13, SidecarObjectStep
<1> QED BY <1>1, <1>2, <1>3, <1>4, <1>5, <1>6, <1>7, <1>8, <1>9, <1>10, <1>11, <1>12, <1>13 DEF Record

LEMMA LiveStep == LiveInv /\ [Next]_vars => LiveInv'
<1> SUFFICES ASSUME LiveInv, [Next]_vars PROVE LiveInv'
  OBVIOUS
<1>1. CASE Record
  BY <1>1, RecordStep
<1>2. CASE Stop
  <2>1. Raise("stopped")
    BY <1>2 DEF Stop
  <2> QED BY <2>1, RaiseStep DEF Final
<1>3. CASE RequestFails
  <2>1. Raise("close") \/ Raise("failed")
    BY <1>3 DEF RequestFails
  <2> QED BY <2>1, RaiseStep DEF Final
<1>4. CASE PublishSome
  BY <1>4, PublishStep DEF PublishSome
<1>5. CASE UNCHANGED vars
  <2>1. /\ Streams' = Streams /\ Length' = Length /\ Origin' = Origin /\ Dash' = Dash
        /\ UNCHANGED <<setting, edge, pc, stream, out, spent, drm>>
        /\ UNCHANGED <<seen, depth, round, todo, cache, through, written>>
    BY <1>5 DEF vars, local, Streams, Length, Origin, Dash
  <2>2. LiveTypeOK' /\ Untouched' /\ SidecarsFollow' /\ RefusalIsFinal'
    BY <2>1 DEF LiveInv, LiveTypeOK, Untouched, SidecarsFollow, RefusalIsFinal
  <2> QED BY <2>1, <2>2, DiskKept DEF LiveInv
<1> QED BY <1>1, <1>2, <1>3, <1>4, <1>5 DEF Next

-----------------------------------------------------------------------------
(* Reading a playlist piece by piece. *)

St == ReaderState(Urls)

\* The reader gets from state p to state q over the lines.
ReadsTo(p, ls, q) ==
  \E F \in [0..Len(ls) -> St] : /\ F[0] = p /\ F[Len(ls)] = q
                                /\ \A n \in 1..Len(ls) : F[n] = ReadLine(F[n - 1], ls[n])

LEMMA ReadsEnd ==
  ASSUME NEW ls \in Seq(Lines0), NEW p, NEW q, ReadsTo(p, ls, q)
  PROVE  q \in St
<1>1. PICK F \in [0..Len(ls) -> St] : F[Len(ls)] = q
  BY DEF ReadsTo
<1>2. Len(ls) \in 0..Len(ls)
  OBVIOUS
<1> QED BY <1>1, <1>2

LEMMA ReadsNone ==
  ASSUME NEW p, NEW q, ReadsTo(p, <<>>, q)
  PROVE  q = p
BY DEF ReadsTo

LEMMA ReadsOne ==
  ASSUME NEW p, NEW l, NEW q, ReadsTo(p, <<l>>, q)
  PROVE  q = ReadLine(p, l) /\ q \in St
<1> DEFINE ls == <<l>>
<1>1. Len(ls) = 1 /\ ls[1] = l
  OBVIOUS
<1> HIDE DEF ls
<1>2. PICK F \in [0..1 -> St] : F[0] = p /\ F[1] = q /\ \A n \in 1..1 : F[n] = ReadLine(F[n - 1], ls[n])
  <2>1. ReadsTo(p, ls, q)
    BY DEF ls
  <2> QED BY <1>1, <2>1 DEF ReadsTo
<1>3. F[1] = ReadLine(F[0], ls[1])
  <2>1. 1 \in 1..1 /\ 1 - 1 = 0
    OBVIOUS
  <2> QED BY <1>2, <2>1
<1> QED BY <1>1, <1>2, <1>3

\* Lines are read one after the other.
LEMMA ReadsBoth ==
  ASSUME NEW ls \in Seq(Lines0), NEW more \in Seq(Lines0), NEW p, NEW q, ReadsTo(p, ls \o more, q)
  PROVE  \E m \in St : ReadsTo(p, ls, m) /\ ReadsTo(m, more, q)
<1> DEFINE a == Len(ls)
           b == Len(more)
           all == ls \o more
<1>1. /\ a \in Nat /\ b \in Nat /\ Len(all) = a + b
      /\ \A i \in 1..a : all[i] = ls[i]
      /\ \A i \in 1..b : all[a + i] = more[i]
  <2>1. /\ a \in Nat /\ b \in Nat /\ Len(all) = a + b
        /\ \A i \in 1..a + b : all[i] = IF i <= a THEN ls[i] ELSE more[i - a]
    BY ConcatProperties
  <2> HIDE DEF a, b, all
  <2>2. \A i \in 1..b : a + i \in 1..a + b /\ ~(a + i <= a) /\ (a + i) - a = i
    BY <2>1
  <2>3. \A i \in 1..a : i \in 1..a + b /\ i <= a
    BY <2>1
  <2> QED BY <2>1, <2>2, <2>3
<1> HIDE DEF all
<1>2. PICK F \in [0..a + b -> St] : /\ F[0] = p /\ F[a + b] = q
                                    /\ \A n \in 1..a + b : F[n] = ReadLine(F[n - 1], all[n])
  BY <1>1 DEF ReadsTo, all
<1> HIDE DEF a, b
<1>3. F[a] \in St
  <2>1. a \in 0..a + b
    BY <1>1
  <2> QED BY <1>2, <2>1
<1>4. ReadsTo(p, ls, F[a])
  <2> DEFINE G == [i \in 0..a |-> F[i]]
  <2>1. G \in [0..a -> St] /\ G[0] = p /\ G[a] = F[a]
    <3>1. \A i \in 0..a : i \in 0..a + b
      BY <1>1
    <3>2. 0 \in 0..a /\ a \in 0..a
      BY <1>1
    <3> QED BY <1>2, <3>1, <3>2
  <2>2. ASSUME NEW n \in 1..a PROVE G[n] = ReadLine(G[n - 1], ls[n])
    <3>1. n \in 1..a + b /\ n \in 0..a /\ n - 1 \in 0..a
      BY <1>1
    <3>2. G[n] = F[n] /\ G[n - 1] = F[n - 1] /\ all[n] = ls[n]
      BY <1>1, <3>1
    <3> QED BY <1>2, <3>1, <3>2
  <2> HIDE DEF G
  <2> QED BY <2>1, <2>2 DEF ReadsTo, a
<1>5. ReadsTo(F[a], more, q)
  <2> DEFINE G == [i \in 0..b |-> F[a + i]]
  <2>1. G \in [0..b -> St] /\ G[0] = F[a] /\ G[b] = q
    <3>1. \A i \in 0..b : a + i \in 0..a + b
      BY <1>1
    <3>2. 0 \in 0..b /\ b \in 0..b /\ a + 0 = a
      BY <1>1
    <3> QED BY <1>2, <3>1, <3>2
  <2>2. ASSUME NEW n \in 1..b PROVE G[n] = ReadLine(G[n - 1], more[n])
    <3>1. a + n \in 1..a + b /\ n \in 0..b /\ n - 1 \in 0..b /\ a + (n - 1) = (a + n) - 1
      BY <1>1
    <3>2. G[n] = F[a + n] /\ G[n - 1] = F[(a + n) - 1] /\ all[a + n] = more[n]
      BY <1>1, <3>1
    <3> QED BY <1>2, <3>1, <3>2
  <2> HIDE DEF G
  <2> QED BY <2>1, <2>2 DEF ReadsTo, b
<1> QED BY <1>3, <1>4, <1>5

\* What holds of the reader before a line and is kept by every line holds at the end.
LEMMA ReadsOver ==
  ASSUME NEW ls \in Seq(Lines0), NEW J, NEW p, NEW q, ReadsTo(p, ls, q),
         p \in J[0],
         \A i \in 1..Len(ls) : \A m \in St : m \in J[i - 1] /\ ReadLine(m, ls[i]) \in St => ReadLine(m, ls[i]) \in J[i]
  PROVE  q \in J[Len(ls)]
<1>1. PICK F \in [0..Len(ls) -> St] : /\ F[0] = p /\ F[Len(ls)] = q
                                      /\ \A n \in 1..Len(ls) : F[n] = ReadLine(F[n - 1], ls[n])
  BY DEF ReadsTo
<1> DEFINE Ms == {m \in Nat : m <= Len(ls) => F[m] \in J[m]}
<1>2. 0 \in Ms
  BY <1>1
<1>3. ASSUME NEW m \in Nat, m \in Ms PROVE m + 1 \in Ms
  <2> SUFFICES ASSUME m + 1 <= Len(ls) PROVE F[m + 1] \in J[m + 1]
    OBVIOUS
  <2>1. m + 1 \in 1..Len(ls) /\ (m + 1) - 1 = m /\ F[m] \in J[m] /\ F[m] \in St /\ F[m + 1] \in St
    BY <1>1, <1>3
  <2> QED BY <1>1, <2>1
<1> HIDE DEF Ms
<1>4. \A m \in Nat : m \in Ms
  BY <1>2, <1>3, Induct
<1>5. Len(ls) \in Nat
  OBVIOUS
<1> QED BY <1>1, <1>4, <1>5 DEF Ms

\* Behind the first key nothing is read.
LEMMA ClosedStays ==
  ASSUME NEW ls \in Seq(Lines0), NEW p, NEW q, ReadsTo(p, ls, q), ~p.open
  PROVE  q = p
<1> DEFINE J == [n \in 0..Len(ls) |-> {p}]
<1>1. p \in J[0]
  OBVIOUS
<1>2. ASSUME NEW i \in 1..Len(ls), NEW m \in St, m \in J[i - 1] PROVE ReadLine(m, ls[i]) \in J[i]
  <2>1. i - 1 \in 0..Len(ls) /\ i \in 0..Len(ls)
    OBVIOUS
  <2>2. m = p
    BY <1>2, <2>1
  <2>3. ReadLine(p, ls[i]) = p
    BY Zenon DEF ReadLine
  <2> QED BY <2>1, <2>2, <2>3
<1>3. Len(ls) \in 0..Len(ls)
  OBVIOUS
<1>4. q \in J[Len(ls)]
  <2> HIDE DEF J
  <2> QED BY <1>1, <1>2, ReadsOver
<1> QED BY <1>3, <1>4

\* The same for pieces of a text: what every piece keeps holds at the end.
LEMMA ReadsThrough ==
  ASSUME NEW pieces \in Seq(Seq(Lines0)), NEW J, NEW p, NEW q, ReadsTo(p, FlattenSeq(pieces), q),
         p \in J[0],
         \A i \in 1..Len(pieces) : \A a, b \in St : a \in J[i - 1] /\ ReadsTo(a, pieces[i], b) => b \in J[i]
  PROVE  q \in J[Len(pieces)]
<1> DEFINE N == Len(pieces)
<1>1. PICK F \in [0..N -> Seq(Lines0)] : /\ F[0] = <<>>
                                         /\ \A i \in 1..N : F[i] = F[i - 1] \o pieces[i]
                                         /\ FlattenSeq(pieces) = F[N]
  BY Flattens
<1>2. N \in Nat /\ \A i \in 1..N : pieces[i] \in Seq(Lines0)
  OBVIOUS
<1> HIDE DEF N
<1> DEFINE Ms == {m \in Nat : m <= N => \A b : ReadsTo(p, F[m], b) => b \in J[m]}
<1>3. 0 \in Ms
  <2>1. ASSUME NEW b, ReadsTo(p, F[0], b) PROVE b \in J[0]
    <3>1. ReadsTo(p, <<>>, b)
      BY <1>1, <2>1
    <3> QED BY <3>1, ReadsNone
  <2> QED BY <2>1
<1>4. ASSUME NEW m \in Nat, m \in Ms PROVE m + 1 \in Ms
  <2> SUFFICES ASSUME m + 1 <= N, NEW b, ReadsTo(p, F[m + 1], b) PROVE b \in J[m + 1]
    OBVIOUS
  <2>1. m + 1 \in 1..N /\ (m + 1) - 1 = m /\ m \in 0..N /\ m <= N
    BY <1>2
  <2>2. F[m + 1] = F[m] \o pieces[m + 1] /\ F[m] \in Seq(Lines0) /\ pieces[m + 1] \in Seq(Lines0)
    BY <1>1, <1>2, <2>1
  <2>3. PICK a \in St : ReadsTo(p, F[m], a) /\ ReadsTo(a, pieces[m + 1], b)
    BY <2>2, ReadsBoth
  <2>4. a \in J[m]
    BY <1>4, <2>1, <2>3
  <2>5. b \in St
    BY <2>2, <2>3, ReadsEnd
  <2> QED BY <2>1, <2>3, <2>4, <2>5 DEF N
<1> HIDE DEF Ms
<1>5. N \in Ms
  BY <1>2, <1>3, <1>4, Induct
<1> QED BY <1>1, <1>2, <1>5 DEF Ms, N

-----------------------------------------------------------------------------
(* What a part holds. *)

\* The units an object begins behind, and how many it has.
Base(uri) ==
  IF uri[1] = "seg" THEN (uri[2] - 1) * Units
  ELSE IF uri[1] = "part" THEN uri[2] - 1
  ELSE IF uri[1] = "file" THEN 0
  ELSE IF uri[1] = "init" THEN -1 ELSE -2
Size(uri) == IF uri[1] = "seg" THEN Units ELSE 1

\* The first and the last unit of a part.
Begins(x) == Base(x.uri) + (IF x.start = None THEN 0 ELSE x.start) + 1
Stops(x) == Base(x.uri) + (IF x.start = None \/ x.length = None THEN Size(x.uri) ELSE x.start + x.length)

\* A part that names nothing behind a key or in a gap.
ClearUnits(o) == {u \in Nat : \A k \in Barred(o) : u \notin UnitsOf(k)}
MayRead(o, x) ==
  /\ \A u \in Int : Begins(x) <= u /\ u <= Stops(x) => u \in ClearUnits(o)
  /\ x.uri[1] = "seg" => x.uri[2] \notin Barred(o)
  /\ x.uri[1] = "file" => x.start \in Nat /\ x.length \in Nat
Fair(o) == {x \in Part : MayRead(o, x)}

\* The parts a playlist has: the initialization section, segments, and the PARTs
\* of the segment in progress; c is the occurrence.
File == <<"file", 0>>
Section(c) == ManifestPart(<<"init", 0>>, 0, None, c, FALSE)
Whole(o, k, c) ==
  IF o.ranged THEN ManifestPart(File, (k - 1) * Units, Units, c, FALSE)
  ELSE ManifestPart(<<"seg", k>>, None, None, c, FALSE)
Piece(o, k, j, c) ==
  IF o.parts = "files" THEN ManifestPart(<<"part", (k - 1) * Units + j>>, None, None, c, TRUE)
  ELSE IF o.ranged THEN ManifestPart(File, (k - 1) * Units + (j - 1), 1, c, TRUE)
  ELSE ManifestPart(<<"seg", k>>, j - 1, 1, c, TRUE)

LEMMA SegmentsApart ==
  ASSUME NEW j \in Nat, NEW k \in Nat, j # k
  PROVE  UnitsOf(j) \cap UnitsOf(k) = {}
<1>1. Units \in Nat
  BY SettingsAssumption
<1>2. ASSUME NEW a \in Nat, NEW b \in Nat, a < b PROVE a * Units <= (b - 1) * Units
  <2>1. a <= b - 1 /\ b - 1 \in Nat
    BY <1>2
  <2> QED BY <1>1, <2>1
<1>3. /\ j < k => j * Units <= (k - 1) * Units
      /\ k < j => k * Units <= (j - 1) * Units
  BY <1>2
<1>4. \A a \in Int : a * Units \in Int
  BY <1>1
<1>5. j * Units \in Int /\ k * Units \in Int /\ (j - 1) * Units \in Int /\ (k - 1) * Units \in Int
  BY <1>4
<1> QED BY <1>3, <1>5 DEF UnitsOf

LEMMA ClearSegment ==
  ASSUME NEW o \in Style, NEW k \in Nat \ {0}, k \notin Barred(o)
  PROVE  UnitsOf(k) \subseteq ClearUnits(o)
<1>1. UnitsOf(k) \subseteq Nat
  <2>1. k - 1 \in Nat /\ Units \in Nat
    BY SettingsAssumption
  <2>2. (k - 1) * Units \in Nat /\ k * Units \in Nat
    BY <2>1
  <2> QED BY <2>2 DEF UnitsOf
<1>2. ASSUME NEW j \in Barred(o) PROVE UnitsOf(k) \cap UnitsOf(j) = {}
  <2>1. j \in Nat /\ j # k
    BY DEF Barred, Style
  <2> QED BY <2>1, SegmentsApart
<1> QED BY <1>1, <1>2 DEF ClearUnits

\* Where segment k is.
LEMMA SegmentAt ==
  ASSUME NEW k \in Nat \ {0}
  PROVE  /\ (k - 1) * Units \in Nat /\ k * Units \in Nat /\ k * Units = (k - 1) * Units + Units
         /\ Units \in Nat \ {0}
<1>1. Units \in Nat \ {0} /\ k - 1 \in Nat /\ k \in Nat
  BY SettingsAssumption
<1> QED BY <1>1

LEMMA PartPlaces ==
  ASSUME NEW x \in Part
  PROVE  Base(x.uri) \in Int /\ Size(x.uri) \in Nat /\ Begins(x) \in Int /\ Stops(x) \in Int
<1>1. x.uri \in Urls /\ x.start \in Offsets /\ x.length \in Offsets
  BY DEF Part, PartOf
<1>2. Base(x.uri) \in Int /\ Size(x.uri) \in Nat
  <2>1. x.uri[2] \in Int /\ Units \in Nat
    BY <1>1, SettingsAssumption DEF Urls
  <2>2. (x.uri[2] - 1) * Units \in Int
    <3>1. x.uri[2] - 1 \in Int
      BY <2>1
    <3> QED BY <2>1, <3>1
  <2> QED BY <2>1, <2>2 DEF Base, Size
<1> QED BY <1>1, <1>2 DEF Begins, Stops, Offsets

LEMMA SectionPart ==
  ASSUME NEW o \in Style, NEW c \in Int
  PROVE  /\ Section(c) \in Fair(o) /\ Begins(Section(c)) = 0 /\ Stops(Section(c)) = 0
         /\ ~Section(c).partial
<1> DEFINE at == <<"init", 0>>
           x == ManifestPart(at, 0, None, c, FALSE)
<1>1. at \in Urls /\ at[1] = "init" /\ 0 \in Offsets /\ None \in Offsets /\ 0 # None
  BY NoneAssumption DEF Urls, Offsets
<1>2. Base(at) = -1 /\ Size(at) = 1
  BY <1>1 DEF Base, Size
<1> HIDE DEF at
<1>3. x \in Part /\ x.uri = at /\ x.start = 0 /\ x.length = None /\ x.partial = FALSE
  BY <1>1, ManifestPartTyped DEF Part, ManifestPart
<1> HIDE DEF x
<1>4. Begins(x) = 0 /\ Stops(x) = 0
  BY <1>1, <1>2, <1>3 DEF Begins, Stops
<1>5. 0 \in ClearUnits(o)
  <2>1. ASSUME NEW k \in Barred(o) PROVE 0 \notin UnitsOf(k)
    <3>1. k \in Nat \ {0}
      BY DEF Barred, Style
    <3>2. (k - 1) * Units \in Nat
      BY <3>1, SegmentAt
    <3> QED BY <3>2 DEF UnitsOf
  <2> QED BY <2>1 DEF ClearUnits
<1>6. MayRead(o, x)
  <2>1. \A u \in Int : 0 <= u /\ u <= 0 => u = 0
    OBVIOUS
  <2> QED BY <1>1, <1>3, <1>4, <1>5, <2>1 DEF MayRead
<1> QED BY <1>3, <1>4, <1>6 DEF Section, Fair, x, at

LEMMA WholePart ==
  ASSUME NEW o \in Style, NEW k \in Nat \ {0}, NEW c \in Int
  PROVE  LET x == Whole(o, k, c)
         IN  /\ x \in Part /\ Begins(x) = (k - 1) * Units + 1 /\ Stops(x) = k * Units
             /\ k \notin Barred(o) => x \in Fair(o)
             /\ ~x.partial /\ x.occurrence = c /\ x.uri = (IF o.ranged THEN File ELSE <<"seg", k>>)
             /\ ~o.ranged => x.start = None /\ x.length = None
             /\ o.ranged => x.start = (k - 1) * Units /\ x.length = Units
<1> DEFINE from == (k - 1) * Units
           to == k * Units
           at == IF o.ranged THEN File ELSE <<"seg", k>>
           start == IF o.ranged THEN from ELSE None
           length == IF o.ranged THEN Units ELSE None
           x == ManifestPart(at, start, length, c, FALSE)
<1>1. Whole(o, k, c) = x
  BY DEF Whole
<1>2. from \in Nat /\ to \in Nat /\ to = from + Units /\ Units \in Nat \ {0}
  BY SegmentAt
<1>3. /\ at \in Urls /\ at = (IF o.ranged THEN File ELSE <<"seg", k>>)
      /\ at[1] = (IF o.ranged THEN "file" ELSE "seg") /\ (~o.ranged => at[2] = k)
  BY DEF Urls, File
<1>4. Base(at) = (IF o.ranged THEN 0 ELSE from) /\ (~o.ranged => Size(at) = Units)
  <2> HIDE DEF at
  <2> QED BY <1>3 DEF Base, Size
<1> HIDE DEF from, to, at
<1>5. start \in Offsets /\ length \in Offsets /\ from # None /\ Units # None
  BY <1>2, NoneAssumption DEF Offsets
<1>6. /\ start = (IF o.ranged THEN from ELSE None) /\ length = (IF o.ranged THEN Units ELSE None)
  OBVIOUS
<1> HIDE DEF start, length
<1>7. /\ x \in Part /\ x.uri = at /\ x.start = start /\ x.length = length /\ x.partial = FALSE
      /\ x.occurrence = c
  BY <1>3, <1>5, ManifestPartTyped DEF Part, ManifestPart
<1> HIDE DEF x
<1>8. Begins(x) = from + 1 /\ Stops(x) = to
  <2>1. CASE o.ranged
    BY <1>2, <1>4, <1>5, <1>6, <1>7, <2>1 DEF Begins, Stops
  <2>2. CASE ~o.ranged
    BY <1>2, <1>4, <1>5, <1>6, <1>7, <2>2 DEF Begins, Stops
  <2> QED BY <2>1, <2>2
<1>9. ASSUME k \notin Barred(o) PROVE x \in Fair(o)
  <2>1. UnitsOf(k) \subseteq ClearUnits(o)
    BY <1>9, ClearSegment
  <2>2. UnitsOf(k) = from + 1 .. to
    BY DEF UnitsOf, from, to
  <2>3. \A u \in Int : Begins(x) <= u /\ u <= Stops(x) => u \in ClearUnits(o)
    BY <1>2, <1>8, <2>1, <2>2
  <2>4. x.uri[1] = "seg" => x.uri[2] \notin Barred(o)
    BY <1>3, <1>7, <1>9
  <2>5. x.uri[1] = "file" => x.start \in Nat /\ x.length \in Nat
    BY <1>2, <1>3, <1>6, <1>7
  <2> QED BY <1>7, <2>3, <2>4, <2>5 DEF Fair, MayRead
<1> QED BY <1>1, <1>3, <1>6, <1>7, <1>8, <1>9 DEF from, to

LEMMA PiecePart ==
  ASSUME NEW o \in Style, NEW k \in Nat \ {0}, NEW j \in 1 .. Units, NEW c \in Int
  PROVE  LET x == Piece(o, k, j, c)
         IN  /\ x \in Part /\ Begins(x) = (k - 1) * Units + j /\ Stops(x) = (k - 1) * Units + j
             /\ k \notin Barred(o) => x \in Fair(o)
             /\ x.partial /\ x.occurrence = c
             /\ o.ranged /\ o.parts # "files" => x.uri = File /\ x.start # None
             /\ o.parts = "files" => x.uri[1] = "part" /\ x.start = None
             /\ x.length # None <=> x.start # None
<1> DEFINE from == (k - 1) * Units
           to == k * Units
           at == IF o.parts = "files" THEN <<"part", from + j>>
                 ELSE IF o.ranged THEN File ELSE <<"seg", k>>
           start == IF o.parts = "files" THEN None ELSE IF o.ranged THEN from + (j - 1) ELSE j - 1
           length == IF o.parts = "files" THEN None ELSE 1
           x == ManifestPart(at, start, length, c, TRUE)
<1>1. Piece(o, k, j, c) = x
  BY DEF Piece
<1>2. from \in Nat /\ to \in Nat /\ to = from + Units /\ Units \in Nat \ {0} /\ j \in Nat \ {0} /\ j <= Units
  BY SegmentAt
<1>3. /\ at \in Urls
      /\ o.parts = "files" => at[1] = "part" /\ at[2] = from + j
      /\ o.parts # "files" /\ o.ranged => at = File /\ at[1] = "file"
      /\ o.parts # "files" /\ ~o.ranged => at[1] = "seg" /\ at[2] = k
  <2> HIDE DEF from
  <2> QED BY <1>2 DEF Urls, File
<1>4. /\ o.parts = "files" => Base(at) = from + j - 1 /\ Size(at) = 1
      /\ o.parts # "files" /\ o.ranged => Base(at) = 0
      /\ o.parts # "files" /\ ~o.ranged => Base(at) = from
  <2> HIDE DEF at
  <2> QED BY <1>2, <1>3 DEF Base, Size
<1> HIDE DEF from, to, at
<1>5. start \in Offsets /\ length \in Offsets /\ 1 # None /\ (o.parts # "files" => start # None /\ start \in Nat)
  BY <1>2, NoneAssumption DEF Offsets
<1>6. /\ o.parts = "files" => start = None /\ length = None
      /\ o.parts # "files" => length = 1 /\ start = (IF o.ranged THEN from + (j - 1) ELSE j - 1)
  OBVIOUS
<1> HIDE DEF start, length
<1>7. /\ x \in Part /\ x.uri = at /\ x.start = start /\ x.length = length /\ x.partial = TRUE
      /\ x.occurrence = c
  BY <1>3, <1>5, ManifestPartTyped DEF Part, ManifestPart
<1> HIDE DEF x
<1>8. Begins(x) = from + j /\ Stops(x) = from + j
  <2>1. CASE o.parts = "files"
    BY <1>2, <1>4, <1>5, <1>6, <1>7, <2>1 DEF Begins, Stops
  <2>2. CASE o.parts # "files" /\ o.ranged
    BY <1>2, <1>4, <1>5, <1>6, <1>7, <2>2 DEF Begins, Stops
  <2>3. CASE o.parts # "files" /\ ~o.ranged
    BY <1>2, <1>4, <1>5, <1>6, <1>7, <2>3 DEF Begins, Stops
  <2> QED BY <2>1, <2>2, <2>3
<1>9. ASSUME k \notin Barred(o) PROVE x \in Fair(o)
  <2>1. UnitsOf(k) \subseteq ClearUnits(o)
    BY <1>9, ClearSegment
  <2>2. UnitsOf(k) = from + 1 .. to
    BY DEF UnitsOf, from, to
  <2>3. \A u \in Int : Begins(x) <= u /\ u <= Stops(x) => u \in ClearUnits(o)
    BY <1>2, <1>8, <2>1, <2>2
  <2>4. x.uri[1] = "seg" => x.uri[2] \notin Barred(o)
    BY <1>3, <1>7, <1>9
  <2>5. x.uri[1] = "file" => x.start \in Nat /\ x.length \in Nat
    BY <1>3, <1>5, <1>6, <1>7
  <2> QED BY <1>7, <2>3, <2>4, <2>5 DEF Fair, MayRead
<1> QED BY <1>1, <1>3, <1>5, <1>6, <1>7, <1>8, <1>9 DEF from

-----------------------------------------------------------------------------
(* Parts in the order of their units. *)

InSequence(xs) == \A i, j \in DOMAIN xs : i < j => Stops(xs[i]) < Begins(xs[j])

LEMMA JoinedSet ==
  ASSUME NEW D, NEW xs \in Seq(D), NEW ys \in Seq(D)
  PROVE  ToSet(xs \o ys) = ToSet(xs) \cup ToSet(ys)
<1> DEFINE all == xs \o ys
           m == Len(xs)
           n == Len(ys)
<1>1. /\ m \in Nat /\ n \in Nat /\ DOMAIN xs = 1 .. m /\ DOMAIN ys = 1 .. n
      /\ all \in Seq(D) /\ Len(all) = m + n
      /\ \A i \in 1 .. m + n : all[i] = IF i <= m THEN xs[i] ELSE ys[i - m]
  BY ConcatProperties
<1>2. DOMAIN all = 1 .. m + n
  BY <1>1
<1> HIDE DEF all, m, n
<1>3. ASSUME NEW x \in ToSet(all) PROVE x \in ToSet(xs) \cup ToSet(ys)
  <2>1. PICK i \in 1 .. m + n : x = all[i]
    BY <1>2 DEF ToSet
  <2>2. CASE i <= m
    <3>1. i \in 1 .. m /\ all[i] = xs[i]
      BY <1>1, <2>2
    <3> QED BY <1>1, <2>1, <3>1 DEF ToSet
  <2>3. CASE ~(i <= m)
    <3>1. i - m \in 1 .. n /\ all[i] = ys[i - m]
      BY <1>1, <2>3
    <3> QED BY <1>1, <2>1, <3>1 DEF ToSet
  <2> QED BY <2>2, <2>3
<1>4. ASSUME NEW x \in ToSet(xs) PROVE x \in ToSet(all)
  <2>1. PICK i \in 1 .. m : x = xs[i]
    BY <1>1 DEF ToSet
  <2>2. i \in 1 .. m + n /\ all[i] = x
    BY <1>1, <2>1
  <2> QED BY <1>2, <2>2 DEF ToSet
<1>5. ASSUME NEW x \in ToSet(ys) PROVE x \in ToSet(all)
  <2>1. PICK i \in 1 .. n : x = ys[i]
    BY <1>1 DEF ToSet
  <2>2. m + i \in 1 .. m + n /\ ~(m + i <= m) /\ (m + i) - m = i
    BY <1>1
  <2>3. all[m + i] = x
    BY <1>1, <2>1, <2>2
  <2> QED BY <1>2, <2>2, <2>3 DEF ToSet
<1> QED BY <1>3, <1>4, <1>5 DEF all

LEMMA SequenceJoined ==
  ASSUME NEW D, NEW xs \in Seq(D), NEW ys \in Seq(D), InSequence(xs), InSequence(ys),
         \A x \in ToSet(xs), y \in ToSet(ys) : Stops(x) < Begins(y)
  PROVE  InSequence(xs \o ys) /\ ToSet(xs \o ys) = ToSet(xs) \cup ToSet(ys)
<1> DEFINE all == xs \o ys
           m == Len(xs)
           n == Len(ys)
<1>1. /\ m \in Nat /\ n \in Nat /\ DOMAIN xs = 1 .. m /\ DOMAIN ys = 1 .. n
      /\ all \in Seq(D) /\ Len(all) = m + n
      /\ \A i \in 1 .. m + n : all[i] = IF i <= m THEN xs[i] ELSE ys[i - m]
  BY ConcatProperties
<1>2. DOMAIN all = 1 .. m + n
  BY <1>1
<1> HIDE DEF all, m, n
<1>3. ASSUME NEW i \in 1 .. m + n
      PROVE  \/ i \in 1 .. m /\ all[i] = xs[i]
             \/ i - m \in 1 .. n /\ ~(i <= m) /\ all[i] = ys[i - m]
  BY <1>1
<1>4. ASSUME NEW i \in 1 .. m + n, NEW j \in 1 .. m + n, i < j PROVE Stops(all[i]) < Begins(all[j])
  <2>1. CASE i \in 1 .. m /\ j \in 1 .. m
    <3>1. all[i] = xs[i] /\ all[j] = xs[j] /\ Stops(xs[i]) < Begins(xs[j])
      BY <1>1, <1>4, <2>1 DEF InSequence
    <3> QED BY <3>1
  <2>2. CASE i - m \in 1 .. n /\ ~(i <= m)
    <3>1. j - m \in 1 .. n /\ ~(j <= m) /\ i - m < j - m
      BY <1>1, <1>4, <2>2
    <3>2. all[i] = ys[i - m] /\ all[j] = ys[j - m]
      BY <1>1, <2>2, <3>1
    <3>3. Stops(ys[i - m]) < Begins(ys[j - m])
      BY <1>1, <2>2, <3>1 DEF InSequence
    <3> QED BY <3>2, <3>3
  <2>3. CASE i \in 1 .. m /\ j - m \in 1 .. n /\ ~(j <= m)
    <3>1. all[i] = xs[i] /\ all[j] = ys[j - m]
      BY <1>1, <2>3
    <3>2. xs[i] \in ToSet(xs) /\ ys[j - m] \in ToSet(ys)
      BY <1>1, <2>3 DEF ToSet
    <3> QED BY <3>1, <3>2
  <2> QED BY <1>3, <2>1, <2>2, <2>3
<1>5. InSequence(all)
  BY <1>2, <1>4 DEF InSequence
<1> QED BY <1>5, JoinedSet DEF all

LEMMA SequenceGrows ==
  ASSUME NEW D, NEW xs \in Seq(D), NEW y \in D, InSequence(xs), \A x \in ToSet(xs) : Stops(x) < Begins(y)
  PROVE  InSequence(Append(xs, y)) /\ ToSet(Append(xs, y)) = ToSet(xs) \cup {y}
<1> DEFINE one == <<y>>
<1>1. Append(xs, y) = xs \o one /\ one \in Seq(D) /\ DOMAIN one = {1} /\ one[1] = y
  OBVIOUS
<1> HIDE DEF one
<1>2. InSequence(one) /\ ToSet(one) = {y}
  BY <1>1 DEF InSequence, ToSet
<1> QED BY <1>1, <1>2, SequenceJoined

-----------------------------------------------------------------------------
(* The pieces of a playlist. *)

\* What stands before a segment: from a key on that is not clear nothing is read.
LEMMA ReadSegmentLines ==
  ASSUME NEW o \in Style, NEW k \in Nat \ {0}, NEW from \in Nat, NEW p \in St, NEW q,
         p.held = <<>>, p.open /\ k # from => k - 1 \notin o.locked,
         ReadsTo(p, SegmentLines(o, k, from), q)
  PROVE  /\ q \in St /\ q.parts = p.parts /\ q.held = <<>>
         /\ q.open => q = p /\ k \notin o.locked
         /\ ~q.open => ~p.open \/ k \in o.locked
<1> DEFINE new == o.locked # {} /\ (k = from \/ (k \in o.locked) # (k - 1 \in o.locked))
           line == [tag |-> "key", clear |-> k \notin o.locked]
           key == IF new THEN <<line>> ELSE <<>>
           break == IF k \in o.breaks THEN <<Line("break")>> ELSE <<>>
<1>1. line \in Lines0 /\ Line("break") \in Lines0
  BY DEF Lines0, PlaylistLine, Line
<1>2. key \in Seq(Lines0) /\ break \in Seq(Lines0)
  BY <1>1
<1>3. PICK m \in St : ReadsTo(p, key, m) /\ ReadsTo(m, break, q)
  <2>1. ReadsTo(p, key \o break, q)
    BY DEF SegmentLines
  <2> HIDE DEF key, break
  <2> QED BY <1>2, <2>1, ReadsBoth
<1>4. q \in St
  <2> HIDE DEF break
  <2> QED BY <1>2, <1>3, ReadsEnd
<1>5. /\ m.parts = p.parts /\ m.held = <<>>
      /\ m.open => m = p /\ k \notin o.locked
      /\ ~m.open => ~p.open \/ k \in o.locked
  <2>1. CASE ~p.open
    <3> HIDE DEF key
    <3> QED BY <1>2, <1>3, <2>1, ClosedStays
  <2>2. CASE p.open /\ ~new
    <3>1. key = <<>>
      BY <2>2
    <3>2. m = p
      <4> HIDE DEF key
      <4> QED BY <1>3, <3>1, ReadsNone
    <3>3. k \notin o.locked
      BY <2>2
    <3> QED BY <3>2, <3>3
  <2>3. CASE p.open /\ new
    <3>1. key = <<line>>
      BY <2>3
    <3>2. m = ReadLine(p, line)
      <4> HIDE DEF key, line
      <4> QED BY <1>3, <3>1, ReadsOne
    <3>3. line.tag = "key" /\ line.clear = (k \notin o.locked)
      OBVIOUS
    <3>4. ReadLine(p, line) = IF line.clear THEN p ELSE [FlushHeld(p) EXCEPT !.open = FALSE]
      <4> HIDE DEF line
      <4> QED BY <2>3, <3>3 DEF ReadLine
    <3>5. FlushHeld(p) = p
      BY DEF FlushHeld
    <3>6. CASE k \notin o.locked
      BY <3>2, <3>3, <3>4, <3>6
    <3>7. CASE k \in o.locked
      <4>1. m = [p EXCEPT !.open = FALSE]
        BY <3>2, <3>3, <3>4, <3>5, <3>7
      <4> QED BY <3>7, <4>1 DEF St, ReaderState
    <3> QED BY <3>6, <3>7
  <2> HIDE DEF new
  <2> QED BY <2>1, <2>2, <2>3
<1>6. q = m
  <2>1. CASE k \notin o.breaks
    <3>1. break = <<>>
      BY <2>1
    <3> HIDE DEF break
    <3> QED BY <1>3, <3>1, ReadsNone
  <2>2. CASE k \in o.breaks
    <3>1. ReadsTo(m, <<Line("break")>>, q)
      BY <1>3, <2>2
    <3>2. q = ReadLine(m, Line("break"))
      BY <3>1, ReadsOne
    <3>3. FlushHeld(m) = m
      BY <1>5 DEF FlushHeld
    <3>4. Line("break").tag = "break"
      BY DEF Line
    <3> DEFINE l == Line("break")
    <3> HIDE DEF l
    <3>5. ReadLine(m, l) = m
      BY <3>3, <3>4 DEF ReadLine, l
    <3> QED BY <3>2, <3>5 DEF l
  <2> QED BY <2>1, <2>2
<1> QED BY <1>4, <1>5, <1>6

\* A segment that is listed: it is read unless it is behind a key or in a gap.
LEMMA ReadListedSegment ==
  ASSUME NEW o \in Style, o.ranged => o.gaps = {}, NEW first \in Nat \ {0}, NEW k \in Nat, k >= first,
         NEW p \in St, p.held = <<>>,
         p.open => /\ ~p.gap /\ p.pending = None
                   /\ k # first => k - 1 \notin o.locked
                   /\ o.ranged /\ k # first => Reach(p, File) = (k - 1) * Units,
         NEW q, ReadsTo(p, ListedSegment(o, k, first), q)
  PROVE  /\ q \in St /\ q.held = <<>>
         /\ \/ ~q.open /\ q.parts = p.parts /\ (~p.open \/ k \in o.locked)
            \/ /\ q.open /\ p.open /\ k \notin o.locked /\ ~q.gap /\ q.pending = None
               /\ Occurrence(q) = Occurrence(p) + 1
               /\ o.ranged => Reach(q, File) = k * Units
               /\ q.parts = IF k \in o.gaps THEN p.parts ELSE Append(p.parts, Whole(o, k, Occurrence(p)))
<1> DEFINE head == SegmentLines(o, k, first)
           gap == IF k \in o.gaps THEN <<Line("gap")>> ELSE <<>>
           start == IF k = first THEN (k - 1) * Units ELSE None
           range == [tag |-> "range", length |-> Units, start |-> start]
           uri(at) == [tag |-> "uri", uri |-> at]
           last == IF o.ranged THEN <<range, uri(File)>> ELSE <<uri(<<"seg", k>>)>>
<1>1. /\ k \in Nat \ {0} /\ first \in Nat /\ Units \in Nat /\ (k - 1) * Units \in Nat
  <2>1. k - 1 \in Nat /\ Units \in Nat
    BY SettingsAssumption
  <2> QED BY <2>1
<1>2. /\ head \in Seq(Lines0)
      /\ Line("gap") \in Lines0 /\ range \in Lines0 /\ uri(File) \in Lines0 /\ uri(<<"seg", k>>) \in Lines0
  <2>1. head \in Seq(Lines0)
    BY <1>1, SegmentLinesTyped
  <2>2. start \in Offsets /\ Units \in Offsets
    BY <1>1 DEF Offsets
  <2>3. range \in Lines0
    <3> HIDE DEF start
    <3> QED BY <2>2 DEF Lines0, PlaylistLine
  <2>4. File \in Urls /\ <<"seg", k>> \in Urls
    BY DEF Urls, File
  <2>5. uri(File) \in Lines0 /\ uri(<<"seg", k>>) \in Lines0 /\ Line("gap") \in Lines0
    BY <2>4 DEF Lines0, PlaylistLine, Line
  <2> QED BY <2>1, <2>3, <2>5
<1>3. gap \in Seq(Lines0) /\ last \in Seq(Lines0) /\ <<range>> \in Seq(Lines0) /\ <<uri(File)>> \in Seq(Lines0)
  <2> HIDE DEF range, uri
  <2> QED BY <1>2
<1>4. PICK m \in St, a \in St : ReadsTo(p, head, m) /\ ReadsTo(m, gap, a) /\ ReadsTo(a, last, q)
  <2>1. ReadsTo(p, head \o gap \o last, q)
    BY DEF ListedSegment, File
  <2> HIDE DEF head, gap, last
  <2>2. head \o gap \in Seq(Lines0)
    BY <1>2, <1>3, ConcatProperties
  <2>3. PICK a \in St : ReadsTo(p, head \o gap, a) /\ ReadsTo(a, last, q)
    BY <1>3, <2>1, <2>2, ReadsBoth
  <2>4. PICK m \in St : ReadsTo(p, head, m) /\ ReadsTo(m, gap, a)
    BY <1>2, <1>3, <2>3, ReadsBoth
  <2> QED BY <2>3, <2>4
<1>5. /\ p \in St /\ p.held = <<>>
      /\ p.open => /\ ~p.gap /\ p.pending = None
                   /\ o.ranged /\ k # first => Reach(p, File) = (k - 1) * Units
  OBVIOUS
<1>6. /\ m.parts = p.parts /\ m.held = <<>>
      /\ m.open => m = p /\ k \notin o.locked
      /\ ~m.open => ~p.open \/ k \in o.locked
  BY <1>1, <1>4, ReadSegmentLines
<1>7. CASE ~m.open
  <2> HIDE DEF gap, last
  <2>1. a = m /\ q = m
    BY <1>3, <1>4, <1>7, ClosedStays
  <2> QED BY <1>4, <1>6, <1>7, <2>1
<1>8. CASE m.open
  <2>1. m = p /\ k \notin o.locked /\ p.open
    BY <1>6, <1>8
  <2>3. a = [p EXCEPT !.gap = k \in o.gaps]
    <3>1. CASE k \in o.gaps
      <4>1. ReadsTo(p, <<Line("gap")>>, a)
        BY <1>4, <2>1, <3>1
      <4>2. a = ReadLine(p, Line("gap"))
        BY <4>1, ReadsOne
      <4>3. ReadLine(p, Line("gap")) = [p EXCEPT !.held = <<>>, !.gap = TRUE]
        <5>1. Line("gap").tag = "gap"
          BY DEF Line
        <5> DEFINE l == Line("gap")
        <5> HIDE DEF l
        <5> QED BY <2>1, <5>1 DEF ReadLine, l
      <4> QED BY <1>5, <3>1, <4>2, <4>3 DEF St, ReaderState
    <3>2. CASE k \notin o.gaps
      <4>1. gap = <<>>
        BY <3>2
      <4>2. a = p
        <5> HIDE DEF gap
        <5> QED BY <1>4, <2>1, <4>1, ReadsNone
      <4> QED BY <1>5, <2>1, <3>2, <4>2 DEF St, ReaderState
    <3> QED BY <3>1, <3>2
  <2>4. q \in St
    <3> HIDE DEF last
    <3> QED BY <1>3, <1>4, ReadsEnd
  <2>5. CASE o.ranged
    <3>1. k \notin Barred(o) /\ k \notin o.gaps /\ a = p
      BY <1>5, <2>1, <2>3, <2>5 DEF Barred, St, ReaderState
    <3>2. PICK r \in St : ReadsTo(p, <<range>>, r) /\ ReadsTo(r, <<uri(File)>>, q)
      <4>1. last = <<range>> \o <<uri(File)>>
        BY <2>5
      <4> HIDE DEF last, range, uri
      <4> QED BY <1>3, <1>4, <3>1, <4>1, ReadsBoth
    <3>3. r = [p EXCEPT !.pending = [start |-> start, length |-> Units]]
      <4>1. r = ReadLine(p, range)
        <5> HIDE DEF range
        <5> QED BY <3>2, ReadsOne
      <4>2. range.tag = "range" /\ range.start = start /\ range.length = Units
        OBVIOUS
      <4> HIDE DEF range, start
      <4> QED BY <2>1, <4>1, <4>2 DEF ReadLine
    <3>4. q = ReadUri(r, uri(File))
      <4>1. q = ReadLine(r, uri(File))
        <5> HIDE DEF uri
        <5> QED BY <3>2, ReadsOne
      <4>2. uri(File).tag = "uri" /\ r.open
        BY <2>1, <3>3, <1>5 DEF St, ReaderState
      <4> DEFINE l == uri(File)
      <4> HIDE DEF l
      <4>3. ReadLine(r, l) = ReadUri(r, l)
        BY <4>2 DEF ReadLine, l
      <4> QED BY <4>1, <4>3 DEF l
    <3> DEFINE from == (k - 1) * Units
               part == ManifestPart(File, from, Units, Occurrence(r), FALSE)
    <3>5. Reach(r, File) = Reach(p, File) /\ r.parts = p.parts /\ r.pending # None
          /\ r.pending.start = start /\ r.pending.length = Units /\ ~r.gap /\ r.held = <<>> /\ r.open
      <4>1. /\ r.reach = p.reach /\ r.parts = p.parts /\ r.gap = p.gap /\ r.held = p.held /\ r.open = p.open
            /\ r.pending = [start |-> start, length |-> Units]
        <5> HIDE DEF start
        <5> QED BY <1>5, <3>3 DEF St, ReaderState
      <4>2. r.pending # None
        <5>1. start \in Offsets /\ Units \in Offsets
          BY <1>1 DEF Offsets
        <5> HIDE DEF start
        <5> QED BY <4>1, <5>1, NoneAssumption
      <4> QED BY <1>5, <2>1, <4>1, <4>2 DEF Reach
    <3>6. (IF r.pending.start = None THEN Reach(r, File) ELSE r.pending.start) = from
      <4>1. CASE k = first
        <5>1. from # None /\ start = from
          BY <1>1, <4>1, NoneAssumption
        <5> QED BY <3>5, <5>1
      <4>2. CASE k # first
        <5>1. start = None
          BY <4>2
        <5> QED BY <1>5, <2>1, <2>5, <3>5, <4>2, <5>1
      <4> QED BY <4>1, <4>2
    <3>7. File # None /\ from # None /\ Units # None
      <4>1. File \in Urls
        BY DEF Urls, File
      <4> QED BY <1>1, <4>1, NoneAssumption
    <3>8. Reached(r, File, from, Units) = Updated(r.reach, File, from + Units)
      <4> HIDE DEF from
      <4> QED BY <3>7 DEF Reached
    <3>9. q = [r EXCEPT !.held = <<>>, !.pending = None, !.gap = FALSE, !.index = @ + 1,
                        !.parts = Append(@, part), !.reach = Reached(r, File, from, Units)]
      <4>1. uri(File).uri = File
        OBVIOUS
      <4> DEFINE l == uri(File)
      <4> HIDE DEF from, l
      <4> QED BY <3>4, <3>5, <3>6, <3>7, <4>1, Zenon DEF ReadUri, l
    <3>10. /\ part = Whole(o, k, Occurrence(p))
           /\ q.index = r.index + 1 /\ q.sequence = r.sequence /\ r.index = p.index /\ r.sequence = p.sequence
      <4>1. r.index = p.index /\ r.sequence = p.sequence
        <5> HIDE DEF start
        <5> QED BY <3>3 DEF St, ReaderState
      <4>2. part = Whole(o, k, Occurrence(p))
        BY <2>5, <4>1 DEF Whole, Occurrence
      <4> HIDE DEF from, part
      <4> QED BY <3>2, <3>9, <4>1, <4>2 DEF St, ReaderState
    <3> HIDE DEF from, part
    <3>11. /\ q.parts = Append(p.parts, part) /\ q.held = <<>> /\ ~q.gap /\ q.pending = None
           /\ q.reach = Reached(r, File, from, Units) /\ q.open
      BY <3>2, <3>5, <3>9 DEF St, ReaderState
    <3>12. Occurrence(q) = Occurrence(p) + 1
      BY <2>4, <3>2, <3>10 DEF Occurrence, St, ReaderState
    <3>13. Reach(q, File) = from + Units
      BY <3>8, <3>11 DEF Reach, Updated
    <3>14. from + Units = k * Units
      BY <1>1 DEF from
    <3> QED BY <2>1, <2>4, <3>1, <3>10, <3>11, <3>12, <3>13, <3>14
  <2>6. CASE ~o.ranged
    <3> DEFINE at == <<"seg", k>>
               part == ManifestPart(at, None, None, Occurrence(a), FALSE)
    <3>1. ReadsTo(a, <<uri(at)>>, q)
      BY <1>4, <2>6
    <3>2. q = ReadUri(a, uri(at))
      <4>1. q = ReadLine(a, uri(at))
        <5> HIDE DEF uri
        <5> QED BY <3>1, ReadsOne
      <4>2. uri(at).tag = "uri" /\ a.open
        BY <1>5, <2>1, <2>3 DEF St, ReaderState
      <4> DEFINE l == uri(at)
      <4> HIDE DEF l
      <4>3. ReadLine(a, l) = ReadUri(a, l)
        BY <4>2 DEF ReadLine, l
      <4> QED BY <4>1, <4>3 DEF l
    <3>3. /\ a.parts = p.parts /\ a.held = <<>> /\ a.pending = None /\ a.open /\ a.gap = (k \in o.gaps)
      BY <1>5, <2>1, <2>3 DEF St, ReaderState
    <3>4. q.parts = IF k \in o.gaps THEN a.parts ELSE Append(a.parts, part)
      <4>1. uri(at).uri = at /\ at # None
        BY NoneAssumption DEF Urls
      <4> DEFINE l == uri(at)
      <4> HIDE DEF at, l
      <4> QED BY <1>4, <3>2, <3>3, <4>1 DEF ReadUri, l, St, ReaderState
    <3>5. q.held = <<>> /\ ~q.gap /\ q.pending = None /\ q.open /\ q.index = a.index + 1 /\ q.sequence = a.sequence
      <4> DEFINE l == uri(at)
      <4> HIDE DEF at, l
      <4> QED BY <1>4, <3>2, <3>3 DEF ReadUri, l, St, ReaderState
    <3>6. Occurrence(a) = Occurrence(p)
      BY <2>3 DEF Occurrence, St, ReaderState
    <3>7. part = Whole(o, k, Occurrence(p))
      BY <2>6, <3>6 DEF Whole
    <3> HIDE DEF part
    <3>8. Occurrence(q) = Occurrence(a) + 1
      BY <1>4, <2>4, <3>5 DEF Occurrence, St, ReaderState
    <3> QED BY <2>1, <2>4, <2>6, <3>3, <3>4, <3>5, <3>6, <3>7, <3>8
  <2> QED BY <2>5, <2>6
<1> QED BY <1>7, <1>8

\* The PARTs of the segment in progress, in order.
PieceSeq(o, k, count, c) == [j \in 1 .. count |-> Piece(o, k, j, c)]
PieceSet(o, k, count, c) == {Piece(o, k, j, c) : j \in 1 .. count}

\* The PARTs of a segment in progress.
LEMMA ReadListedParts ==
  ASSUME NEW o \in Style, o.ranged => o.gaps = {}, NEW k \in Nat \ {0}, NEW first \in Nat,
         NEW units \in Nat, (k - 1) * Units <= units, units < k * Units,
         NEW p \in St, p.held = <<>>,
         p.open /\ k # first => k - 1 \notin o.locked,
         NEW q, ReadsTo(p, ListedParts(o, k, first, units), q)
  PROVE  /\ q \in St /\ q.parts = p.parts
         /\ o.parts # "none" /\ p.open /\ k \notin o.locked /\ k \notin o.gaps
              => q.held = PieceSeq(o, k, units - (k - 1) * Units, Occurrence(p))
         /\ ~(o.parts # "none" /\ p.open /\ k \notin o.locked /\ k \notin o.gaps) => q.held = <<>>
<1> DEFINE before == (k - 1) * Units
           part(j) == IF o.parts = "files"
                      THEN [tag |-> "part", uri |-> <<"part", before + j>>,
                            start |-> None, length |-> None, gap |-> k \in o.gaps]
                      ELSE [tag |-> "part", length |-> 1, gap |-> k \in o.gaps,
                            uri |-> IF o.ranged THEN <<"file", 0>> ELSE <<"seg", k>>,
                            start |-> IF j > 1 THEN None
                                      ELSE IF o.ranged THEN before ELSE 0]
           count == units - before
           parts == [j \in 1 .. count |-> part(j)]
           head == SegmentLines(o, k, first)
           uri(j) == IF o.parts = "files" THEN <<"part", before + j>>
                     ELSE IF o.ranged THEN File ELSE <<"seg", k>>
           start(j) == IF o.parts = "files" \/ j > 1 THEN None ELSE IF o.ranged THEN before ELSE 0
           length == IF o.parts = "files" THEN None ELSE 1
           pieces(n) == [j \in 1 .. n |-> Piece(o, k, j, Occurrence(p))]
<1>1. before \in Nat /\ count \in Nat /\ Units \in Nat /\ \A j \in 1 .. count : before + j \in UnitsOf(k)
  <2>1. k - 1 \in Nat /\ Units \in Nat
    BY SettingsAssumption
  <2>2. before \in Nat /\ k * Units \in Nat
    BY <2>1
  <2> QED BY <2>1, <2>2 DEF UnitsOf
<1> HIDE DEF before, count
<1>2. ASSUME NEW j \in 1 .. count
      PROVE  /\ part(j) = [tag |-> "part", uri |-> uri(j), start |-> start(j), length |-> length,
                           gap |-> k \in o.gaps]
             /\ uri(j) \in Urls /\ start(j) \in Offsets /\ length \in Offsets
  <2>1. uri(j) \in Urls /\ start(j) \in Offsets /\ length \in Offsets
    BY <1>1 DEF Urls, Offsets, File
  <2> QED BY <2>1 DEF File
<1>3. \A j \in 1 .. count : part(j) \in Lines0
  <2> SUFFICES ASSUME NEW j \in 1 .. count PROVE part(j) \in Lines0
    OBVIOUS
  <2> DEFINE gap == k \in o.gaps
  <2>1. /\ part(j) = [tag |-> "part", uri |-> uri(j), start |-> start(j), length |-> length, gap |-> gap]
        /\ uri(j) \in Urls /\ start(j) \in Offsets /\ length \in Offsets /\ gap \in BOOLEAN
    BY <1>2
  <2> HIDE DEF part, uri, start, length, gap
  <2> QED BY <2>1 DEF Lines0, PlaylistLine
<1>4. head \in Seq(Lines0) /\ parts \in Seq(Lines0)
  <2>1. head \in Seq(Lines0)
    BY SegmentLinesTyped
  <2> HIDE DEF part
  <2> QED BY <1>1, <1>3, <2>1
<1>5. pieces(0) = <<>>
  OBVIOUS
<1>9. pieces(count) = PieceSeq(o, k, units - (k - 1) * Units, Occurrence(p))
  BY DEF PieceSeq, count, before
<1>6. CASE ListedParts(o, k, first, units) = <<>> /\ (o.parts = "none" \/ count = 0)
  <2>1. q = p
    BY <1>6, ReadsNone
  <2>2. o.parts # "none" => count = 0 /\ pieces(count) = <<>>
    BY <1>5, <1>6
  <2> HIDE DEF pieces
  <2> QED BY <1>9, <2>1, <2>2
<1>7. CASE ListedParts(o, k, first, units) = head \o parts /\ o.parts # "none"
  <2>1. PICK m \in St : ReadsTo(p, head, m) /\ ReadsTo(m, parts, q)
    <3> HIDE DEF head, parts
    <3> QED BY <1>4, <1>7, ReadsBoth
  <2>2. /\ m.parts = p.parts /\ m.held = <<>> /\ (m.open => m = p /\ k \notin o.locked)
        /\ ~m.open => ~p.open \/ k \in o.locked
    BY <2>1, ReadSegmentLines
  <2>3. q \in St
    <3> HIDE DEF parts
    <3> QED BY <1>4, <2>1, ReadsEnd
  <2>4. CASE ~m.open
    <3>1. q = m
      <4> HIDE DEF parts
      <4> QED BY <1>4, <2>1, <2>4, ClosedStays
    <3> QED BY <2>2, <2>3, <2>4, <3>1
  <2>5. CASE m.open
    <3> DEFINE Js == [j \in 0 .. count |->
                        {x \in St : /\ x.parts = p.parts /\ x.open /\ x.index = p.index /\ x.sequence = p.sequence
                                    /\ x.held = IF k \in o.gaps THEN <<>> ELSE pieces(j)
                                    /\ j >= 1 /\ o.parts # "files" /\ k \notin o.gaps
                                         => Reach(x, uri(j)) = (IF o.ranged THEN before ELSE 0) + j}]
    <3>1. m \in Js[0] /\ Len(parts) = count
      <4>1. Len(parts) = count
        <5> HIDE DEF part
        <5> QED BY <1>1
      <4>2. 0 \in 0 .. count /\ ~(0 >= 1)
        BY <1>1
      <4> HIDE DEF parts, part, pieces, uri
      <4> QED BY <1>5, <2>1, <2>2, <2>5, <4>1, <4>2
    <3>2. ASSUME NEW j \in 1 .. count, NEW x \in St, x \in Js[j - 1], ReadLine(x, parts[j]) \in St
          PROVE  ReadLine(x, parts[j]) \in Js[j]
      <4> DEFINE y == ReadLine(x, parts[j])
      <4>1. j \in 0 .. count /\ j - 1 \in 0 .. count
        BY <1>1
      <4>2. /\ x.parts = p.parts /\ x.open /\ x.index = p.index /\ x.sequence = p.sequence
            /\ x.held = IF k \in o.gaps THEN <<>> ELSE pieces(j - 1)
            /\ j > 1 /\ o.parts # "files" /\ k \notin o.gaps
                 => Reach(x, uri(j)) = (IF o.ranged THEN before ELSE 0) + (j - 1)
        <5>1. o.parts # "files" => uri(j) = uri(j - 1)
          OBVIOUS
        <5> HIDE DEF uri, pieces
        <5> QED BY <3>2, <4>1, <5>1
      <4>3. /\ y = ReadPart(x, part(j))
            /\ part(j).uri = uri(j) /\ part(j).start = start(j) /\ part(j).length = length
            /\ part(j).gap = (k \in o.gaps)
        <5>1. parts[j] = part(j)
          OBVIOUS
        <5>2. part(j).tag = "part" /\ part(j).uri = uri(j) /\ part(j).start = start(j)
              /\ part(j).length = length /\ part(j).gap = (k \in o.gaps)
          <6> HIDE DEF part, uri, start, length
          <6> QED BY <1>2
        <5> DEFINE l == part(j)
        <5>3. ReadLine(x, l) = ReadPart(x, l)
          <6> HIDE DEF l
          <6> QED BY <4>2, <5>2 DEF ReadLine, l
        <5> HIDE DEF part, uri, start, length, parts
        <5> QED BY <5>1, <5>2, <5>3
      <4>4. CASE k \in o.gaps
        <5>1. y = x
          <6> HIDE DEF part, uri, start, length
          <6> QED BY <4>3, <4>4 DEF ReadPart
        <5> HIDE DEF y, uri, pieces
        <5>2. y \in St
          BY <3>2 DEF y
        <5>3. y \in Js[j]
          BY <4>1, <4>2, <4>4, <5>1, <5>2
        <5> QED BY <5>3 DEF y
      <4>5. CASE k \notin o.gaps
        <5> DEFINE from == IF start(j) = None /\ length # None THEN Reach(x, uri(j)) ELSE start(j)
                   new == ManifestPart(uri(j), from, length, Occurrence(x), TRUE)
        <5>1. uri(j) # None
          <6> HIDE DEF uri
          <6> QED BY <1>2, NoneAssumption
        <5>2. y = [x EXCEPT !.held = Append(@, new), !.reach = Reached(x, uri(j), from, length)]
          <6> HIDE DEF part, uri, start, length, y
          <6> QED BY <4>3, <4>5, <5>1 DEF ReadPart
        <5>3. /\ y.parts = x.parts /\ y.open /\ y.held = Append(x.held, new)
              /\ y.reach = Reached(x, uri(j), from, length) /\ y.index = x.index /\ y.sequence = x.sequence
          <6> HIDE DEF new, from, uri, length, start, y
          <6> QED BY <4>2, <5>2 DEF St, ReaderState
        <5>4. from \in Offsets
          <6>1. Reach(x, uri(j)) \in Nat
            <7> HIDE DEF uri, start, length
            <7> QED BY <1>2, ReachTyped DEF St
          <6> HIDE DEF uri, start, length
          <6> QED BY <1>2, <6>1 DEF Offsets
        <5> DEFINE base == IF o.ranged THEN before ELSE 0
        <5>5. o.parts # "files" => from = base + (j - 1) /\ length = 1
          <6> SUFFICES ASSUME o.parts # "files" PROVE from = base + (j - 1) /\ length = 1
            OBVIOUS
          <6>1. length = 1 /\ start(j) = (IF j > 1 THEN None ELSE base) /\ 1 # None /\ base \in Nat /\ base # None
            BY <1>1, NoneAssumption
          <6>2. CASE j > 1
            <7> HIDE DEF uri, start, length, base
            <7>1. from = Reach(x, uri(j))
              BY <6>1, <6>2
            <7> QED BY <4>2, <4>5, <6>1, <6>2, <7>1 DEF base
          <6>3. CASE ~(j > 1)
            <7> HIDE DEF uri, start, length, base
            <7>1. j = 1
              BY <6>3
            <7> QED BY <6>1, <7>1
          <6> QED BY <6>2, <6>3
        <5>6. new = Piece(o, k, j, Occurrence(p))
          <6>1. Occurrence(x) = Occurrence(p)
            BY <4>2 DEF Occurrence
          <6>2. CASE o.parts = "files"
            <7>1. from = None /\ length = None
              BY <6>2
            <7> HIDE DEF from, length
            <7> QED BY <6>1, <6>2, <7>1 DEF Piece, before
          <6>3. CASE o.parts # "files"
            <7>1. uri(j) = (IF o.ranged THEN File ELSE <<"seg", k>>)
              BY <6>3
            <7>2. from = (IF o.ranged THEN before + (j - 1) ELSE j - 1) /\ length = 1
              <8> HIDE DEF from, length
              <8> QED BY <1>1, <5>5, <6>3
            <7> HIDE DEF from, length, uri
            <7> QED BY <6>1, <6>3, <7>1, <7>2 DEF Piece, before
          <6> QED BY <6>2, <6>3
        <5>7. y.held = pieces(j)
          <6>1. x.held = pieces(j - 1)
            BY <4>2, <4>5
          <6>2. Append(pieces(j - 1), Piece(o, k, j, Occurrence(p))) = pieces(j)
            <7> DEFINE e(i) == Piece(o, k, i, Occurrence(p))
                       n == j - 1
            <7> HIDE DEF e
            <7>1. n \in Nat /\ n + 1 = j
              OBVIOUS
            <7> HIDE DEF n
            <7>2. Append([i \in 1 .. n |-> e(i)], e(n + 1)) = [i \in 1 .. n + 1 |-> e(i)]
              BY <7>1
            <7> QED BY <7>1, <7>2 DEF e, n
          <6> HIDE DEF pieces, new, y
          <6> QED BY <5>3, <5>6, <6>1, <6>2
        <5>8. o.parts # "files" => Reach(y, uri(j)) = base + j
          <6> SUFFICES ASSUME o.parts # "files" PROVE Reach(y, uri(j)) = base + j
            OBVIOUS
          <6>1. base \in Nat
            BY <1>1
          <6> HIDE DEF base
          <6>2. y.reach = Reached(x, uri(j), base + (j - 1), 1) /\ base + (j - 1) # None /\ 1 # None
            <7> HIDE DEF from, length, uri, y
            <7> QED BY <5>3, <5>5, <6>1, NoneAssumption
          <6>3. y.reach = Updated(x.reach, uri(j), base + j)
            <7>1. base + (j - 1) + 1 = base + j
              BY <6>1
            <7> HIDE DEF y, uri
            <7> QED BY <6>2, <7>1 DEF Reached
          <6> HIDE DEF y, uri
          <6> QED BY <6>3 DEF Reach, Updated
        <5> HIDE DEF y, uri, pieces, base, from, length, new
        <5>9. y \in St
          BY <3>2 DEF y
        <5>10. y \in Js[j]
          BY <4>1, <4>2, <4>5, <5>3, <5>7, <5>8, <5>9 DEF base
        <5> QED BY <5>10 DEF y
      <4> QED BY <4>4, <4>5
    <3>3. q \in Js[count]
      <4> HIDE DEF parts, Js
      <4> QED BY <1>4, <2>1, <3>1, <3>2, ReadsOver
    <3>4. m = p /\ count \in 0 .. count
      BY <1>1, <2>2, <2>5
    <3>5. q.parts = p.parts /\ q.held = IF k \in o.gaps THEN <<>> ELSE pieces(count)
      <4> HIDE DEF pieces, uri
      <4> QED BY <3>3, <3>4
    <3> HIDE DEF pieces
    <3> QED BY <1>7, <1>9, <2>2, <2>3, <2>5, <3>4, <3>5
  <2> QED BY <2>4, <2>5
<1>8. IF o.parts = "none" \/ count = 0 THEN ListedParts(o, k, first, units) = <<>>
      ELSE ListedParts(o, k, first, units) = head \o parts
  <2>1. count = 0 <=> units = before
    BY <1>1 DEF count
  <2>2. ListedParts(o, k, first, units) = IF o.parts = "none" \/ units = before THEN <<>> ELSE head \o parts
    BY DEF ListedParts, before, count
  <2> HIDE DEF head, parts
  <2> QED BY <2>1, <2>2
<1> HIDE DEF parts, head
<1> QED BY <1>6, <1>7, <1>8

\* The head of a text.
HeadLines(first, skipped, map) ==
  <<[tag |-> "sequence", number |-> first]>>
  \o (IF skipped > 0 THEN <<[tag |-> "skip", number |-> skipped]>> ELSE <<>>)
  \o (IF map THEN <<[tag |-> "map", uri |-> <<"init", 0>>, start |-> None, length |-> None]>> ELSE <<>>)

LEMMA ReadHead ==
  ASSUME NEW first \in Nat, NEW skipped \in Nat, NEW map \in BOOLEAN, map => skipped = 0, NEW q,
         ReadsTo(Blank, HeadLines(first, skipped, map), q)
  PROVE  /\ q \in St /\ q.held = <<>> /\ q.open /\ ~q.gap /\ q.pending = None
         /\ q.parts = IF map THEN <<Section(first)>> ELSE <<>>
         /\ Occurrence(q) = first + skipped + (IF map THEN 1 ELSE 0)
<1> DEFINE l1 == [tag |-> "sequence", number |-> first]
           l2 == [tag |-> "skip", number |-> skipped]
           l3 == [tag |-> "map", uri |-> <<"init", 0>>, start |-> None, length |-> None]
           number  == <<l1>>
           skip    == IF skipped > 0 THEN <<l2>> ELSE <<>>
           section == IF map THEN <<l3>> ELSE <<>>
           Plain(p) == /\ p \in St /\ p.held = <<>> /\ p.open /\ ~p.gap /\ p.pending = None
<1>1. l1 \in Lines0 /\ l2 \in Lines0 /\ l3 \in Lines0
  <2>1. <<"init", 0>> \in Urls /\ None \in Offsets
    BY DEF Urls, Offsets
  <2> QED BY <2>1 DEF Lines0, PlaylistLine
<1>2. number \in Seq(Lines0) /\ skip \in Seq(Lines0) /\ section \in Seq(Lines0)
  <2> HIDE DEF l1, l2, l3
  <2> QED BY <1>1
<1>3. PICK m \in St, a \in St : ReadsTo(Blank, number, m) /\ ReadsTo(m, skip, a) /\ ReadsTo(a, section, q)
  <2> HIDE DEF number, skip, section
  <2>1. number \o skip \in Seq(Lines0)
    BY <1>2, ConcatProperties
  <2>2. HeadLines(first, skipped, map) = number \o skip \o section
    BY DEF HeadLines, number, skip, section
  <2>5. ReadsTo(Blank, number \o skip \o section, q)
    BY <2>2
  <2>3. PICK a \in St : ReadsTo(Blank, number \o skip, a) /\ ReadsTo(a, section, q)
    BY <1>2, <2>1, <2>5, ReadsBoth
  <2>4. PICK m \in St : ReadsTo(Blank, number, m) /\ ReadsTo(m, skip, a)
    BY <1>2, <2>3, ReadsBoth
  <2> QED BY <2>3, <2>4
<1>4. Plain(m) /\ m.parts = <<>> /\ m.sequence = first /\ m.index = 0
  <2>1. m = ReadLine(Blank, l1)
    <3> HIDE DEF l1
    <3> QED BY <1>3, ReadsOne
  <2>2. l1.tag = "sequence" /\ l1.number = first
    OBVIOUS
  <2>3. ReadLine(Blank, l1) = [Blank EXCEPT !.sequence = l1.number]
    <3> HIDE DEF l1
    <3> QED BY <2>2 DEF ReadLine, Blank
  <2> HIDE DEF l1
  <2> QED BY <1>3, <2>1, <2>2, <2>3 DEF Blank
<1>5. Plain(a) /\ a.parts = <<>> /\ a.sequence = first /\ a.index = skipped
  <2>1. CASE skipped > 0
    <3>1. a = ReadLine(m, l2)
      <4> HIDE DEF l2
      <4> QED BY <1>3, <2>1, ReadsOne
    <3>2. l2.tag = "skip" /\ l2.number = skipped
      OBVIOUS
    <3>3. ReadLine(m, l2) = [m EXCEPT !.index = @ + l2.number]
      <4> HIDE DEF l2
      <4> QED BY <1>4, <3>2 DEF ReadLine
    <3> HIDE DEF l2
    <3> QED BY <1>3, <1>4, <3>1, <3>2, <3>3 DEF St, ReaderState
  <2>2. CASE ~(skipped > 0)
    <3>1. skip = <<>>
      BY <2>2
    <3> HIDE DEF skip
    <3> QED BY <1>3, <1>4, <2>2, <3>1, ReadsNone
  <2> QED BY <2>1, <2>2
<1>6. /\ Plain(q) /\ q.parts = IF map THEN <<Section(first)>> ELSE <<>>
      /\ q.sequence = first /\ q.index = skipped + (IF map THEN 1 ELSE 0)
  <2>2. CASE map
    <3> DEFINE at == <<"init", 0>>
               part == ManifestPart(at, 0, None, Occurrence(a), FALSE)
    <3>1. q = ReadLine(a, l3) /\ q \in St
      <4> HIDE DEF l3
      <4> QED BY <1>3, <2>2, ReadsOne
    <3>2. l3.tag = "map" /\ l3.uri = at /\ l3.start = None /\ l3.length = None
      OBVIOUS
    <3>3. ReadLine(a, l3) = ReadMap(a, l3)
      <4> HIDE DEF l3, at
      <4> QED BY <1>5, <3>2 DEF ReadLine
    <3>4. at \in Urls /\ at # None /\ at[1] = "init" /\ None \in Offsets /\ 0 \in Offsets
      BY NoneAssumption DEF Urls, Offsets
    <3> HIDE DEF at
    <3>5. ReadMap(a, l3) = [a EXCEPT !.parts = Append(@, part), !.index = @ + 1,
                                     !.reach = Reached(a, at, 0, None)]
      <4> HIDE DEF l3
      <4> QED BY <3>2, <3>4 DEF ReadMap
    <3>6. part = Section(first)
      <4>1. Occurrence(a) = first
        BY <1>5, <2>2 DEF Occurrence
      <4> QED BY <4>1 DEF Section, at
    <3> HIDE DEF part, l3
    <3>7. q.parts = Append(a.parts, part) /\ q.held = a.held /\ q.open = a.open /\ q.gap = a.gap /\ q.pending = a.pending
          /\ q.index = a.index + 1 /\ q.sequence = a.sequence
      BY <1>3, <3>1, <3>3, <3>5 DEF St, ReaderState
    <3>8. Append(<<>>, part) = <<part>>
      OBVIOUS
    <3> QED BY <1>5, <2>2, <3>1, <3>6, <3>7, <3>8
  <2>3. CASE ~map
    <3>1. section = <<>>
      BY <2>3
    <3> HIDE DEF section
    <3> QED BY <1>3, <1>5, <2>3, <3>1, ReadsNone
  <2> QED BY <2>2, <2>3
<1> HIDE DEF number, skip, section
<1> QED BY <1>6 DEF Occurrence

LEMMA CompleteIsAll ==
  ASSUME NEW units \in Nat
  PROVE  units < (Complete(units) + 1) * Units
<1>1. Units \in Nat /\ Units > 0
  BY SettingsAssumption
<1>2. units = Units * (units \div Units) + (units % Units) /\ units % Units < Units /\ units \div Units \in Int
  BY <1>1
<1> DEFINE n == units \div Units
<1>3. units = Units * n + (units % Units) /\ units % Units < Units /\ n \in Int /\ units % Units \in Int
  BY <1>1, <1>2
<1> HIDE DEF n
<1>4. (n + 1) * Units = Units * n + Units
  BY <1>1, <1>3
<1>5. Units * n \in Int
  BY <1>1, <1>3
<1> QED BY <1>1, <1>3, <1>4, <1>5 DEF Complete, n

-----------------------------------------------------------------------------
(* What a text lists. *)

\* Of the segments from .. k those that are in no gap and before the first key.
Opened(o, from, k) == {j \in from .. k : j \notin o.gaps /\ \A i \in from .. j : i \notin o.locked}

Skipped(o, units, delta) ==
  IF o.delta /\ delta /\ Complete(units) > FirstListed(o, units)
  THEN Complete(units) - FirstListed(o, units) ELSE 0
From(o, units, delta) == FirstListed(o, units) + Skipped(o, units, delta)
Mapped(o, units, delta) == o.map /\ Skipped(o, units, delta) = 0
Shift(o, units, delta) == IF Mapped(o, units, delta) THEN 1 ELSE 0

Sections(o, units, delta) == IF Mapped(o, units, delta) THEN {Section(FirstListed(o, units))} ELSE {}
Wholes(o, from, k, shift) == {Whole(o, j, j + shift) : j \in Opened(o, from, k)}
Pieces(o, k, from, count, shift) ==
  IF o.parts # "none" /\ k \in Opened(o, from, k)
  THEN {Piece(o, k, j, k + shift) : j \in 1 .. count} ELSE {}
TextParts(o, units, delta) ==
  LET from  == From(o, units, delta)
      shift == Shift(o, units, delta)
      last  == Complete(units)
  IN  Sections(o, units, delta) \cup Wholes(o, from, last, shift)
      \cup Pieces(o, last + 1, from, units - last * Units, shift)

\* The reader behind segment k of a text whose segments begin with from.
Between(o, from, k, head, shift) ==
  {p \in St : /\ p.held = <<>> /\ InSequence(p.parts)
              /\ \A x \in ToSet(p.parts) : Stops(x) <= k * Units
              /\ ToSet(p.parts) = head \cup Wholes(o, from, k, shift)
              /\ ~p.open => \E j \in from .. k : j \in o.locked
              /\ p.open => /\ ~p.gap /\ p.pending = None
                           /\ \A j \in from .. k : j \notin o.locked
                           /\ Occurrence(p) = k + 1 + shift
                           /\ o.ranged /\ k >= from => Reach(p, File) = k * Units}

LEMMA SegmentBetween ==
  ASSUME NEW o \in Style, o.ranged => o.gaps = {}, NEW from \in Nat \ {0}, NEW k \in Nat, k >= from,
         NEW head, NEW shift \in Int,
         NEW p \in Between(o, from, k - 1, head, shift), NEW q, ReadsTo(p, ListedSegment(o, k, from), q)
  PROVE  q \in Between(o, from, k, head, shift)
<1> DEFINE x == Whole(o, k, k + shift)
<1>1. /\ p \in St /\ p.held = <<>> /\ InSequence(p.parts)
      /\ \A y \in ToSet(p.parts) : Stops(y) <= (k - 1) * Units
      /\ ToSet(p.parts) = head \cup Wholes(o, from, k - 1, shift)
      /\ ~p.open => \E j \in from .. k - 1 : j \in o.locked
      /\ p.open => /\ ~p.gap /\ p.pending = None
                   /\ \A j \in from .. k - 1 : j \notin o.locked
                   /\ Occurrence(p) = (k - 1) + 1 + shift
                   /\ o.ranged /\ k - 1 >= from => Reach(p, File) = (k - 1) * Units
  BY DEF Between
<1>2. k # from => k - 1 \in from .. k - 1 /\ k - 1 >= from
  OBVIOUS
<1>3. /\ q \in St /\ q.held = <<>>
      /\ \/ ~q.open /\ q.parts = p.parts /\ (~p.open \/ k \in o.locked)
         \/ /\ q.open /\ p.open /\ k \notin o.locked /\ ~q.gap /\ q.pending = None
            /\ Occurrence(q) = Occurrence(p) + 1
            /\ o.ranged => Reach(q, File) = k * Units
            /\ q.parts = IF k \in o.gaps THEN p.parts ELSE Append(p.parts, Whole(o, k, Occurrence(p)))
  BY <1>1, <1>2, ReadListedSegment
<1>4. k \in Nat \ {0} /\ k + shift \in Int /\ (k - 1) + 1 + shift = k + shift
  OBVIOUS
<1>5. /\ x \in Part /\ Begins(x) = (k - 1) * Units + 1 /\ Stops(x) = k * Units
      /\ (k - 1) * Units \in Nat /\ k * Units \in Nat /\ (k - 1) * Units <= k * Units
  <2> DEFINE c == k + shift
  <2>1. c \in Int /\ k \in Nat \ {0}
    BY <1>4
  <2> HIDE DEF c
  <2>2. LET y == Whole(o, k, c) IN y \in Part /\ Begins(y) = (k - 1) * Units + 1 /\ Stops(y) = k * Units
    BY <2>1, WholePart
  <2> QED BY <2>1, <2>2, SegmentAt DEF c
<1>6. \A j \in from .. k - 1 : j \in from .. k
  OBVIOUS
<1>8. \A y \in ToSet(p.parts) : Stops(y) \in Int
  <2>1. \A y \in ToSet(p.parts) : y \in Part
    BY <1>1 DEF ToSet, St, ReaderState, Part
  <2> QED BY <2>1, PartPlaces
<1>9. CASE ~q.open /\ q.parts = p.parts /\ (~p.open \/ k \in o.locked)
  <2>1. PICK l \in from .. k : l \in o.locked
    BY <1>1, <1>6, <1>9
  <2>2. Opened(o, from, k) = Opened(o, from, k - 1)
    <3>1. ASSUME NEW j \in Opened(o, from, k) PROVE j \in from .. k - 1
      <4>1. j \in from .. k /\ (l <= j => FALSE)
        BY <2>1 DEF Opened
      <4> QED BY <2>1, <4>1
    <3> QED BY <1>6, <3>1 DEF Opened
  <2>3. \A y \in ToSet(p.parts) : Stops(y) <= k * Units
    BY <1>1, <1>5, <1>8
  <2> QED BY <1>1, <1>3, <1>9, <2>1, <2>2, <2>3 DEF Between, Wholes
<1>10. CASE /\ q.open /\ p.open /\ k \notin o.locked /\ ~q.gap /\ q.pending = None
            /\ Occurrence(q) = Occurrence(p) + 1
            /\ o.ranged => Reach(q, File) = k * Units
            /\ q.parts = IF k \in o.gaps THEN p.parts ELSE Append(p.parts, Whole(o, k, Occurrence(p)))
  <2>1. \A j \in from .. k : j \notin o.locked
    BY <1>1, <1>10
  <2>2. Opened(o, from, k) = Opened(o, from, k - 1) \cup (IF k \in o.gaps THEN {} ELSE {k})
    <3>1. ASSUME NEW j \in Opened(o, from, k) PROVE j \in Opened(o, from, k - 1) \/ (j = k /\ k \notin o.gaps)
      BY DEF Opened
    <3>2. ASSUME k \notin o.gaps PROVE k \in Opened(o, from, k)
      BY <2>1, <3>2 DEF Opened
    <3>3. ASSUME NEW j \in Opened(o, from, k - 1) PROVE j \in Opened(o, from, k)
      BY <1>6 DEF Opened
    <3> QED BY <3>1, <3>2, <3>3
  <2>3. Wholes(o, from, k, shift) = Wholes(o, from, k - 1, shift) \cup (IF k \in o.gaps THEN {} ELSE {x})
    <3> HIDE DEF x
    <3> QED BY <2>2 DEF Wholes, x
  <2>4. Occurrence(p) = k + shift /\ Occurrence(q) = k + 1 + shift
    <3>1. Occurrence(p) \in Int
      BY <1>1 DEF Occurrence, St, ReaderState
    <3> QED BY <1>1, <1>4, <1>10, <3>1
  <2>5. q.parts = IF k \in o.gaps THEN p.parts ELSE Append(p.parts, x)
    BY <1>10, <2>4
  <2> HIDE DEF x
  <2>6. CASE k \in o.gaps
    <3>1. \A y \in ToSet(p.parts) : Stops(y) <= k * Units
      BY <1>1, <1>5, <1>8
    <3> QED BY <1>1, <1>3, <1>10, <2>1, <2>3, <2>4, <2>5, <2>6, <3>1 DEF Between
  <2>7. CASE k \notin o.gaps
    <3>1. \A y \in ToSet(p.parts) : Stops(y) < Begins(x)
      BY <1>1, <1>5, <1>8
    <3>2. p.parts \in Seq(Part)
      BY <1>1 DEF St, ReaderState, Part
    <3>3. InSequence(q.parts) /\ ToSet(q.parts) = ToSet(p.parts) \cup {x}
      BY <1>1, <1>5, <2>5, <2>7, <3>1, <3>2, SequenceGrows
    <3>4. \A y \in ToSet(q.parts) : Stops(y) <= k * Units
      BY <1>1, <1>5, <1>8, <3>3
    <3> QED BY <1>1, <1>3, <1>10, <2>1, <2>3, <2>4, <2>7, <3>3, <3>4 DEF Between
  <2> QED BY <2>6, <2>7
<1> QED BY <1>3, <1>9, <1>10

LEMMA PiecesInOrder ==
  ASSUME NEW o \in Style, NEW k \in Nat \ {0}, NEW count \in Nat, count < Units, NEW c \in Int
  PROVE  /\ PieceSeq(o, k, count, c) \in Seq(Part) /\ InSequence(PieceSeq(o, k, count, c))
         /\ ToSet(PieceSeq(o, k, count, c)) = PieceSet(o, k, count, c)
         /\ \A x \in PieceSet(o, k, count, c) : (k - 1) * Units < Begins(x)
<1> DEFINE xs == PieceSeq(o, k, count, c)
<1>1. (k - 1) * Units \in Nat /\ Units \in Nat
  BY SegmentAt
<1>2. ASSUME NEW j \in 1 .. count
      PROVE  /\ Piece(o, k, j, c) \in Part
             /\ Begins(Piece(o, k, j, c)) = (k - 1) * Units + j /\ Stops(Piece(o, k, j, c)) = (k - 1) * Units + j
  <2>1. j \in 1 .. Units
    BY <1>1
  <2> QED BY <2>1, PiecePart
<1> DEFINE at == (k - 1) * Units
           piece(j) == Piece(o, k, j, c)
<1> HIDE DEF at, piece
<1>3. /\ at \in Nat /\ xs = [j \in 1 .. count |-> piece(j)]
      /\ \A j \in 1 .. count : piece(j) \in Part /\ Begins(piece(j)) = at + j /\ Stops(piece(j)) = at + j
  BY <1>1, <1>2 DEF at, piece, PieceSeq
<1>4. xs \in Seq(Part) /\ DOMAIN xs = 1 .. count /\ \A j \in 1 .. count : xs[j] = piece(j)
  BY <1>3
<1> HIDE DEF xs
<1>5. InSequence(xs)
  BY <1>3, <1>4 DEF InSequence
<1>6. ToSet(xs) = {piece(j) : j \in 1 .. count}
  BY <1>4 DEF ToSet
<1>7. \A x \in ToSet(xs) : at < Begins(x)
  BY <1>3, <1>6
<1>8. {piece(j) : j \in 1 .. count} = PieceSet(o, k, count, c)
  BY DEF piece, PieceSet
<1> QED BY <1>4, <1>5, <1>6, <1>7, <1>8 DEF at, xs

\* Of a media playlist, whatever its style.
LEMMA TextRead ==
  ASSUME NEW o \in Style, o.ranged => o.gaps = {}, NEW units \in Nat, NEW delta \in BOOLEAN, NEW level \in Nat,
         level >= o.nesting
  PROVE  LET parts == ClearHlsParts(Lines(o, units, delta, level))
         IN  parts \in Seq(Part) /\ InSequence(parts) /\ ToSet(parts) = TextParts(o, units, delta)
<1> DEFINE last    == Complete(units)
           first   == FirstListed(o, units)
           skipped == IF o.delta /\ delta /\ last > first THEN last - first ELSE 0
           from    == first + skipped
           count   == last - first - skipped + 1
           shown   == [i \in 1 .. count |-> ListedSegment(o, first + skipped + i - 1, first + skipped)]
           map     == o.map /\ skipped = 0
           head    == HeadLines(first, skipped, map)
           parts   == ListedParts(o, last + 1, first, units)
           lines   == Lines(o, units, delta, level)
<1>1. last \in Nat /\ first \in Nat \ {0} /\ first <= last + 1
  BY CompleteFits, ListedFrom
<1>2. last * Units <= units /\ units < (last + 1) * Units
  BY CompleteFits, CompleteIsAll
<1> HIDE DEF last, first
<1>3. /\ skipped \in Nat /\ count \in Nat /\ from \in Nat \ {0} /\ from + count - 1 = last
      /\ last + 1 # first => last \in from .. last
  BY <1>1
<1>4. map \in BOOLEAN
  <2> HIDE DEF skipped
  <2> QED BY DEF Style
<1> HIDE DEF map
<1>5. head \in Seq(Lines0)
  <2> HIDE DEF skipped
  <2>1. <<"init", 0>> \in Urls /\ None \in Offsets
    BY DEF Urls, Offsets
  <2>2. /\ [tag |-> "sequence", number |-> first] \in Lines0
        /\ [tag |-> "skip", number |-> skipped] \in Lines0
        /\ [tag |-> "map", uri |-> <<"init", 0>>, start |-> None, length |-> None] \in Lines0
    BY <1>1, <1>3, <2>1 DEF Lines0, PlaylistLine
  <2> DEFINE number == <<[tag |-> "sequence", number |-> first]>>
             skip == IF skipped > 0 THEN <<[tag |-> "skip", number |-> skipped]>> ELSE <<>>
             section == IF map THEN <<[tag |-> "map", uri |-> <<"init", 0>>, start |-> None, length |-> None]>> ELSE <<>>
  <2>3. number \in Seq(Lines0) /\ skip \in Seq(Lines0) /\ section \in Seq(Lines0)
    BY <2>2
  <2>4. head = number \o skip \o section
    BY DEF HeadLines
  <2> HIDE DEF number, skip, section, head
  <2>5. number \o skip \in Seq(Lines0)
    BY <2>3, ConcatProperties
  <2> QED BY <2>3, <2>4, <2>5, ConcatProperties
<1>6. \A i \in 1 .. count : ListedSegment(o, from + i - 1, from) \in Seq(Lines0)
  <2> HIDE DEF skipped, count, from
  <2>1. ASSUME NEW i \in 1 .. count PROVE ListedSegment(o, from + i - 1, from) \in Seq(Lines0)
    <3>1. from + i - 1 \in Nat \ {0} /\ from \in Nat
      BY <1>3
    <3> QED BY <3>1, ListedSegmentTyped
  <2> QED BY <2>1
<1>7. shown = [i \in 1 .. count |-> ListedSegment(o, from + i - 1, from)]
  OBVIOUS
<1>8. shown \in Seq(Seq(Lines0)) /\ Len(shown) = count /\ FlattenSeq(shown) \in Seq(Lines0)
  <2> HIDE DEF skipped, count, from
  <2>1. shown \in Seq(Seq(Lines0)) /\ Len(shown) = count
    <3> HIDE DEF shown
    <3> QED BY <1>3, <1>6, <1>7
  <2> HIDE DEF shown
  <2> QED BY <2>1, FlattenTyped
<1>9. parts \in Seq(Lines0)
  <2>1. (last + 1) - 1 = last /\ last + 1 \in Nat \ {0}
    BY <1>1
  <2>2. ((last + 1) - 1) * Units <= units
    BY <1>2, <2>1
  <2> QED BY <1>1, <2>1, <2>2, ListedPartsTyped
<1>10. lines = head \o FlattenSeq(shown) \o parts
  <2>1. ~(level < o.nesting)
    BY DEF Style
  <2> HIDE DEF skipped
  <2> QED BY <2>1 DEF Lines, HeadLines, last, first, map, skipped
<1>11. PICK F \in [0..Len(lines) -> St] :
         /\ F[0] = Blank /\ \A n \in 1..Len(lines) : F[n] = ReadLine(F[n - 1], lines[n])
         /\ ClearHlsParts(lines) = FlushHeld(F[Len(lines)]).parts
  <2>1. lines \in Seq(PlaylistLine(Urls))
    BY LinesTyped DEF Lines0
  <2> HIDE DEF lines
  <2> QED BY <2>1, Reading DEF St
<1> DEFINE q == F[Len(lines)]
<1>12. ReadsTo(Blank, lines, q)
  <2> HIDE DEF lines
  <2> QED BY <1>11 DEF ReadsTo
<1>13. PICK a \in St, b \in St : /\ ReadsTo(Blank, head, a) /\ ReadsTo(a, FlattenSeq(shown), b)
                                 /\ ReadsTo(b, parts, q)
  <2> HIDE DEF head, shown, parts, lines, q
  <2>1. head \o FlattenSeq(shown) \in Seq(Lines0)
    BY <1>5, <1>8, ConcatProperties
  <2>2. PICK b \in St : ReadsTo(Blank, head \o FlattenSeq(shown), b) /\ ReadsTo(b, parts, q)
    BY <1>9, <1>10, <1>12, <2>1, ReadsBoth
  <2>3. PICK a \in St : ReadsTo(Blank, head, a) /\ ReadsTo(a, FlattenSeq(shown), b)
    BY <1>5, <1>8, <2>2, ReadsBoth
  <2> QED BY <2>2, <2>3
<1> HIDE DEF lines, q
<1> DEFINE shift == Shift(o, units, delta)
           sections == Sections(o, units, delta)
<1>14. /\ skipped = Skipped(o, units, delta) /\ from = From(o, units, delta)
       /\ map = Mapped(o, units, delta) /\ shift = IF map THEN 1 ELSE 0
       /\ sections = IF map THEN {Section(first)} ELSE {}
  BY DEF Skipped, From, Mapped, Shift, Sections, last, first, map
<1>15. shift \in Int /\ shift = (IF map THEN 1 ELSE 0)
  BY <1>14
<1>16. a \in Between(o, from, from - 1, sections, shift)
  <2>1. map => skipped = 0
    BY DEF map
  <2>2. first \in Nat /\ skipped \in Nat
    BY <1>1, <1>3
  <2>8. skipped \in Nat /\ map \in BOOLEAN /\ (map => skipped = 0) /\ first \in Nat
        /\ ReadsTo(Blank, HeadLines(first, skipped, map), a)
    BY <1>4, <1>13, <2>1, <2>2
  <2> HIDE DEF skipped, head
  <2>3. /\ a \in St /\ a.held = <<>> /\ a.open /\ ~a.gap /\ a.pending = None
        /\ a.parts = IF map THEN <<Section(first)>> ELSE <<>>
        /\ Occurrence(a) = first + skipped + (IF map THEN 1 ELSE 0)
    BY <2>8, ReadHead
  <2>4. Occurrence(a) = (from - 1) + 1 + shift
    BY <1>1, <1>3, <1>15, <2>2, <2>3
  <2>5. (from - 1) * Units \in Nat
    BY <1>3, SegmentAt
  <2> HIDE DEF from, sections, shift
  <2>6. Opened(o, from, from - 1) = {} /\ ~(from - 1 >= from) /\ from .. from - 1 = {}
    <3>1. \A x \in Nat : ~(x - 1 >= x) /\ x .. x - 1 = {}
      OBVIOUS
    <3>2. ~(from - 1 >= from) /\ from .. from - 1 = {}
      BY <1>3, <3>1
    <3> QED BY <3>2 DEF Opened
  <2>7. InSequence(a.parts) /\ ToSet(a.parts) = sections /\ \A x \in sections : Stops(x) = 0
    <3> DEFINE section == Section(first)
    <3>1. Stops(section) = 0
      BY <2>2, SectionPart
    <3> HIDE DEF section
    <3>2. /\ ToSet(<<>>) = {} /\ InSequence(<<>>) /\ ToSet(<<section>>) = {section} /\ InSequence(<<section>>)
      BY DEF ToSet, InSequence
    <3> QED BY <1>14, <2>3, <3>1, <3>2 DEF section
  <2> QED BY <2>3, <2>4, <2>5, <2>6, <2>7 DEF Between, Wholes
<1>17. b \in Between(o, from, last, sections, shift)
  <2> HIDE DEF skipped, from, count, shown, sections, shift
  <2> DEFINE Js == [i \in 0 .. count |-> Between(o, from, from + i - 1, sections, shift)]
  <2>1. a \in Js[0]
    <3>1. from + 0 - 1 = from - 1 /\ 0 \in 0 .. count
      BY <1>3
    <3> QED BY <1>16, <3>1
  <2>2. ASSUME NEW i \in 1 .. count, NEW x \in St, NEW y \in St, x \in Js[i - 1], ReadsTo(x, shown[i], y)
        PROVE  y \in Js[i]
    <3>1. i \in 0 .. count /\ i - 1 \in 0 .. count /\ from + (i - 1) - 1 = (from + i - 1) - 1
          /\ from + i - 1 \in Nat /\ from + i - 1 >= from
      BY <1>3
    <3>2. x \in Between(o, from, (from + i - 1) - 1, sections, shift)
      BY <2>2, <3>1
    <3>3. shown[i] = ListedSegment(o, from + i - 1, from)
      BY <1>7
    <3>4. y \in Between(o, from, from + i - 1, sections, shift)
      BY <1>3, <1>15, <2>2, <3>1, <3>2, <3>3, SegmentBetween
    <3> QED BY <3>1, <3>4
  <2>3. b \in Js[count]
    <3> HIDE DEF Js
    <3> QED BY <1>8, <1>13, <2>1, <2>2, ReadsThrough
  <2>4. count \in 0 .. count
    BY <1>3
  <2> QED BY <1>3, <2>3, <2>4
<1> DEFINE left == units - last * Units
           next == last + 1
           pieces == PieceSeq(o, next, left, next + shift)
           inside == o.parts # "none" /\ next \in Opened(o, from, next)
<1> HIDE DEF skipped, from, count, shown, sections, shift, map, head
<1>18. /\ b.held = <<>> /\ InSequence(b.parts)
       /\ \A x \in ToSet(b.parts) : Stops(x) <= last * Units
       /\ ToSet(b.parts) = sections \cup Wholes(o, from, last, shift)
       /\ ~b.open => \E j \in from .. last : j \in o.locked
       /\ b.open => (\A j \in from .. last : j \notin o.locked) /\ Occurrence(b) = next + shift
  BY <1>17 DEF Between
<1>19. /\ next \in Nat \ {0} /\ next - 1 = last /\ (next - 1) * Units <= units /\ units < next * Units
       /\ left \in Nat /\ left < Units /\ left = units - (next - 1) * Units /\ (next - 1) * Units \in Nat
  <2>1. next \in Nat \ {0} /\ next - 1 = last
    BY <1>1
  <2>2. (next - 1) * Units \in Nat /\ next * Units = (next - 1) * Units + Units /\ Units \in Nat
    BY <2>1, SegmentAt
  <2> HIDE DEF next
  <2> QED BY <1>2, <2>1, <2>2 DEF next
<1>20. inside <=> o.parts # "none" /\ b.open /\ next \notin o.locked /\ next \notin o.gaps
  <2>1. next \in from .. next /\ \A j \in from .. next : j \in from .. last \/ j = next
    BY <1>1, <1>3
  <2>2. \A j \in from .. last : j \in from .. next
    BY <1>1, <1>3
  <2> HIDE DEF next
  <2> QED BY <1>18, <2>1, <2>2 DEF Opened
<1>21. q \in St /\ q.parts = b.parts /\ q.held = IF inside THEN pieces ELSE <<>>
  <2>1. b.open /\ next # first => next - 1 \notin o.locked
    BY <1>3, <1>18, <1>19
  <2>2. first \in Nat
    BY <1>1
  <2> HIDE DEF next, left, inside
  <2>3. /\ q \in St /\ q.parts = b.parts
        /\ o.parts # "none" /\ b.open /\ next \notin o.locked /\ next \notin o.gaps
             => q.held = PieceSeq(o, next, units - (next - 1) * Units, Occurrence(b))
        /\ ~(o.parts # "none" /\ b.open /\ next \notin o.locked /\ next \notin o.gaps) => q.held = <<>>
    <3>1. /\ next \in Nat \ {0} /\ (next - 1) * Units <= units /\ units < next * Units
          /\ b.held = <<>> /\ ReadsTo(b, ListedParts(o, next, first, units), q)
      BY <1>13, <1>18, <1>19 DEF next
    <3> HIDE DEF parts, pieces
    <3> QED BY <2>1, <2>2, <3>1, ReadListedParts
  <2>4. left = units - (next - 1) * Units
    BY <1>19
  <2>5. inside => b.open /\ Occurrence(b) = next + shift
    BY <1>18, <1>20
  <2>7. CASE inside
    BY <1>20, <2>3, <2>4, <2>5, <2>7
  <2>8. CASE ~inside
    BY <1>20, <2>3, <2>8
  <2> QED BY <2>7, <2>8
<1>22. TextParts(o, units, delta)
         = sections \cup Wholes(o, from, last, shift)
           \cup (IF inside THEN PieceSet(o, next, left, next + shift) ELSE {})
  BY <1>14 DEF TextParts, Pieces, PieceSet, last, sections, shift
<1>23. b.parts \in Seq(Part)
  BY DEF St, ReaderState, Part
<1> DEFINE text == ClearHlsParts(lines)
<1>24. text = FlushHeld(q).parts
  BY <1>11 DEF q, lines
<1> HIDE DEF text
<1>25. CASE ~inside
  <2>1. FlushHeld(q) = q
    BY <1>21, <1>25 DEF FlushHeld
  <2>2. text = b.parts
    BY <1>21, <1>24, <2>1
  <2> HIDE DEF inside
  <2> QED BY <1>18, <1>22, <1>23, <1>25, <2>2 DEF text, lines
<1>26. CASE inside
  <2> DEFINE c == next + shift
  <2>0. c \in Int
    BY <1>15, <1>19 DEF shift
  <2>1. /\ pieces \in Seq(Part) /\ InSequence(pieces)
        /\ ToSet(pieces) = PieceSet(o, next, left, c)
        /\ \A x \in ToSet(pieces) : (next - 1) * Units < Begins(x)
    <3>1. next \in Nat \ {0} /\ left \in Nat /\ left < Units
      BY <1>19
    <3> HIDE DEF next, left, c
    <3>2. /\ PieceSeq(o, next, left, c) \in Seq(Part) /\ InSequence(PieceSeq(o, next, left, c))
          /\ ToSet(PieceSeq(o, next, left, c)) = PieceSet(o, next, left, c)
          /\ \A x \in PieceSet(o, next, left, c) : (next - 1) * Units < Begins(x)
      BY <2>0, <3>1, PiecesInOrder
    <3>3. pieces = PieceSeq(o, next, left, c)
      BY DEF c
    <3> QED BY <3>2, <3>3
  <2> HIDE DEF inside, pieces, next, left, c
  <2>2. \A x \in ToSet(b.parts), y \in ToSet(pieces) : Stops(x) < Begins(y)
    <3>1. ASSUME NEW x \in ToSet(b.parts), NEW y \in ToSet(pieces)
          PROVE  /\ Stops(x) \in Int /\ Begins(y) \in Int
                 /\ Stops(x) <= (next - 1) * Units /\ (next - 1) * Units < Begins(y)
      <4>1. x \in Part /\ y \in Part
        BY <1>23, <2>1 DEF ToSet
      <4>2. Stops(x) <= (next - 1) * Units /\ (next - 1) * Units < Begins(y)
        BY <1>18, <1>19, <2>1
      <4> QED BY <4>1, <4>2, PartPlaces
    <3> DEFINE at == (next - 1) * Units
    <3>2. at \in Int
      BY <1>19
    <3> HIDE DEF at
    <3>3. ASSUME NEW x \in ToSet(b.parts), NEW y \in ToSet(pieces) PROVE Stops(x) < Begins(y)
      <4>1. Stops(x) \in Int /\ Begins(y) \in Int /\ Stops(x) <= at /\ at < Begins(y)
        BY <3>1 DEF at
      <4> QED BY <3>2, <4>1
    <3> QED BY <3>3
  <2>3. /\ InSequence(b.parts \o pieces) /\ ToSet(b.parts \o pieces) = ToSet(b.parts) \cup ToSet(pieces)
        /\ b.parts \o pieces \in Seq(Part)
    BY <1>18, <1>23, <2>1, <2>2, SequenceJoined, ConcatProperties
  <2>4. text = b.parts \o pieces
    <3>1. b.parts \o <<>> = b.parts
      BY <1>23, ConcatEmptySeq
    <3>2. q.held = pieces
      BY <1>21, <1>26
    <3>3. FlushHeld(q).parts = q.parts \o q.held
      BY <1>21, <3>1, <3>2 DEF FlushHeld, St, ReaderState
    <3> QED BY <1>21, <1>24, <3>2, <3>3
  <2> QED BY <1>18, <1>22, <1>26, <2>1, <2>3, <2>4 DEF text, lines, c
<1> QED BY <1>25, <1>26

-----------------------------------------------------------------------------
(* Texts that are published later. *)

LEMMA Scaled ==
  ASSUME NEW a \in Nat, NEW b \in Nat, a < b
  PROVE  a * Units \in Nat /\ b * Units \in Nat /\ a * Units + Units <= b * Units
<1>1. Units \in Nat
  BY SettingsAssumption
<1>2. (a + 1) * Units = a * Units + Units /\ a * Units \in Nat /\ b * Units \in Nat
  BY <1>1
<1>3. (a + 1) * Units <= b * Units
  <2>1. a + 1 <= b /\ a + 1 \in Nat
    OBVIOUS
  <2> QED BY <1>1, <2>1
<1> QED BY <1>1, <1>2, <1>3

LEMMA ListedLater ==
  ASSUME NEW o \in Style, NEW u1 \in Nat, NEW u2 \in Nat, u1 <= u2
  PROVE  Complete(u1) <= Complete(u2) /\ FirstListed(o, u1) <= FirstListed(o, u2)
<1> DEFINE c1 == Complete(u1)
           c2 == Complete(u2)
<1>1. c1 \in Nat /\ c2 \in Nat /\ c1 * Units <= u1 /\ u2 < (c2 + 1) * Units
  BY CompleteFits, CompleteIsAll
<1>2. c1 <= c2
  <2> SUFFICES ASSUME c2 + 1 <= c1 PROVE FALSE
    BY <1>1
  <2> HIDE DEF c1, c2
  <2>1. (c2 + 1) * Units <= c1 * Units /\ (c2 + 1) * Units \in Nat /\ c1 * Units \in Nat
    <3>1. c2 + 1 \in Nat /\ Units \in Nat
      BY <1>1, SettingsAssumption
    <3>2. CASE c2 + 1 = c1
      BY <3>1, <3>2
    <3>3. CASE c2 + 1 < c1
      <4>1. (c2 + 1) * Units + Units <= c1 * Units /\ (c2 + 1) * Units \in Nat /\ c1 * Units \in Nat
        BY <1>1, <3>1, <3>3, Scaled
      <4> QED BY <3>1, <4>1
    <3> QED BY <1>1, <3>1, <3>2, <3>3
  <2> QED BY <1>1, <2>1
<1> HIDE DEF c1, c2
<1>3. o.window \in Nat
  BY DEF Style
<1> QED BY <1>1, <1>2, <1>3 DEF FirstListed, c1, c2

LEMMA FromLater ==
  ASSUME NEW o \in Style, NEW u1 \in Nat, NEW u2 \in Nat, u1 <= u2,
         NEW d1 \in BOOLEAN, NEW d2 \in BOOLEAN, d1 => d2
  PROVE  From(o, u1, d1) <= From(o, u2, d2) /\ From(o, u1, d1) \in Nat \ {0} /\ From(o, u2, d2) \in Nat \ {0}
<1> DEFINE c1 == Complete(u1)
           c2 == Complete(u2)
           f1 == FirstListed(o, u1)
           f2 == FirstListed(o, u2)
<1>1. /\ c1 \in Nat /\ c2 \in Nat /\ c1 <= c2 /\ f1 <= f2
      /\ f1 \in Nat \ {0} /\ f2 \in Nat \ {0} /\ f1 <= c1 + 1 /\ f2 <= c2 + 1
  BY CompleteFits, ListedFrom, ListedLater
<1>2. /\ From(o, u1, d1) = f1 + (IF o.delta /\ d1 /\ c1 > f1 THEN c1 - f1 ELSE 0)
      /\ From(o, u2, d2) = f2 + (IF o.delta /\ d2 /\ c2 > f2 THEN c2 - f2 ELSE 0)
  BY DEF From, Skipped
<1> HIDE DEF c1, c2, f1, f2
<1>3. From(o, u1, d1) = IF o.delta /\ d1 /\ c1 > f1 THEN c1 ELSE f1
  BY <1>1, <1>2
<1>4. From(o, u2, d2) = IF o.delta /\ d2 /\ c2 > f2 THEN c2 ELSE f2
  BY <1>1, <1>2
<1> QED BY <1>1, <1>3, <1>4

\* The occurrences of a playlist whose section is always listed, or never.
Lead(o) == IF o.map THEN 1 ELSE 0

LEMMA LeadStays ==
  ASSUME NEW o \in Style, NEW length \in Nat, NEW u \in 0 .. length, NEW d \in BOOLEAN,
         o.map => ~o.delta /\ FirstListed(o, length) = 1
  PROVE  /\ Shift(o, u, d) = Lead(o)
         /\ Sections(o, u, d) = IF o.map THEN {Section(1)} ELSE {}
<1>1. CASE o.map
  <2>1. FirstListed(o, u) = 1
    <3>1. FirstListed(o, u) <= 1 /\ FirstListed(o, u) \in Nat \ {0}
      BY <1>1, ListedLater, ListedFrom
    <3> QED BY <3>1
  <2>2. Skipped(o, u, d) = 0
    BY <1>1 DEF Skipped
  <2> QED BY <1>1, <2>1, <2>2 DEF Shift, Mapped, Sections, Lead
<1>2. CASE ~o.map
  BY <1>2 DEF Shift, Mapped, Sections, Lead
<1> QED BY <1>1, <1>2

\* A PART, and its segment of which it is the first to be written.
Mates(p, q) ==
  /\ p.partial /\ ~q.partial /\ q.occurrence = p.occurrence
  /\ IF q.start = None THEN q.length = None ELSE p.start # None /\ q.uri = p.uri

\* What the parts of a text leave to a later one: what of it is not behind a part
\* p is in the text, or the segment of p.
Covers(t1, t2) == \A p \in t1, q \in t2 : Begins(q) <= Stops(p) => q \in t1 \/ Mates(p, q)

LEMMA PlaylistCovers ==
  ASSUME NEW o \in Style, NEW length \in Nat, NEW u2 \in 0 .. length, NEW u1 \in 0 .. u2,
         NEW d1 \in BOOLEAN, NEW d2 \in BOOLEAN, d1 => d2,
         ~(o.ranged /\ o.parts = "files"), o.map => ~o.delta /\ FirstListed(o, length) = 1
  PROVE  Covers(TextParts(o, u1, d1), TextParts(o, u2, d2))
<1> DEFINE c1 == Complete(u1)
           c2 == Complete(u2)
           f1 == From(o, u1, d1)
           f2 == From(o, u2, d2)
           n1 == u1 - c1 * Units
           n2 == u2 - c2 * Units
           lead == Lead(o)
           section == IF o.map THEN {Section(1)} ELSE {}
           rest1 == o.parts # "none" /\ c1 + 1 \in Opened(o, f1, c1 + 1)
           rest2 == o.parts # "none" /\ c2 + 1 \in Opened(o, f2, c2 + 1)
<1>1. /\ c1 \in Nat /\ c2 \in Nat /\ c1 <= c2
      /\ f1 \in Nat \ {0} /\ f2 \in Nat \ {0} /\ f1 <= f2
      /\ Units \in Nat \ {0} /\ lead \in Int
  <2>1. u1 \in Nat /\ u2 \in Nat /\ u1 <= u2
    OBVIOUS
  <2>2. lead \in Int
    BY DEF Lead
  <2> HIDE DEF lead
  <2> QED BY <2>1, <2>2, CompleteFits, ListedLater, FromLater, SettingsAssumption
<1>2. n1 \in Nat /\ n1 < Units /\ n2 \in Nat /\ n2 < Units
  <2>1. ASSUME NEW u \in Nat, NEW c, c = Complete(u) PROVE u - c * Units \in Nat /\ u - c * Units < Units
    <3>1. c * Units <= u /\ u < (c + 1) * Units /\ c \in Nat
      BY <2>1, CompleteFits, CompleteIsAll
    <3>2. (c + 1) * Units = c * Units + Units /\ c * Units \in Nat
      BY <1>1, <3>1
    <3> QED BY <1>1, <3>1, <3>2
  <2> QED BY <2>1
<1>3. /\ TextParts(o, u1, d1) = section \cup {Whole(o, j, j + lead) : j \in Opened(o, f1, c1)}
           \cup (IF rest1 THEN {Piece(o, c1 + 1, j, c1 + 1 + lead) : j \in 1 .. n1} ELSE {})
      /\ TextParts(o, u2, d2) = section \cup {Whole(o, j, j + lead) : j \in Opened(o, f2, c2)}
           \cup (IF rest2 THEN {Piece(o, c2 + 1, j, c2 + 1 + lead) : j \in 1 .. n2} ELSE {})
  <2>1. u1 \in 0 .. length
    OBVIOUS
  <2>2. Shift(o, u1, d1) = lead /\ Shift(o, u2, d2) = lead
        /\ Sections(o, u1, d1) = section /\ Sections(o, u2, d2) = section
    BY <2>1, LeadStays
  <2> HIDE DEF section, lead
  <2> QED BY <2>2 DEF TextParts, Wholes, Pieces
<1> HIDE DEF c1, c2, f1, f2, n1, n2, lead
\* The kinds of parts of a text.
<1>4. ASSUME NEW p \in TextParts(o, u1, d1)
      PROVE  \/ p = Section(1) /\ Stops(p) = 0 /\ o.map
             \/ /\ Stops(p) \in Int
                /\ \E k \in Opened(o, f1, c1) : Stops(p) = k * Units
             \/ /\ rest1 /\ Stops(p) \in Int
                /\ \E j \in 1 .. n1 : p = Piece(o, c1 + 1, j, c1 + 1 + lead) /\ Stops(p) = c1 * Units + j
  <2>1. CASE p \in section
    <3>1. p = Section(1) /\ o.map
      BY <2>1
    <3> QED BY <3>1, SectionPart
  <2>2. CASE p \in {Whole(o, j, j + lead) : j \in Opened(o, f1, c1)}
    <3>1. PICK k \in Opened(o, f1, c1) : p = Whole(o, k, k + lead)
      BY <2>2
    <3> DEFINE c == k + lead
    <3>2. k \in Nat \ {0} /\ c \in Int
      BY <1>1 DEF Opened
    <3> HIDE DEF c
    <3>3. Stops(Whole(o, k, c)) = k * Units
      BY <3>2, WholePart
    <3>4. k * Units \in Int
      BY <3>2, SegmentAt
    <3> QED BY <3>1, <3>3, <3>4 DEF c
  <2>3. CASE rest1 /\ p \in {Piece(o, c1 + 1, j, c1 + 1 + lead) : j \in 1 .. n1}
    <3>1. PICK j \in 1 .. n1 : p = Piece(o, c1 + 1, j, c1 + 1 + lead)
      BY <2>3
    <3> DEFINE c == c1 + 1 + lead
               k == c1 + 1
    <3>2. k \in Nat \ {0} /\ c \in Int /\ j \in 1 .. Units /\ k - 1 = c1
      BY <1>1, <1>2
    <3> HIDE DEF c, k
    <3>3. Stops(Piece(o, k, j, c)) = (k - 1) * Units + j
      BY <3>2, PiecePart
    <3>4. Stops(Piece(o, k, j, c)) = c1 * Units + j /\ c1 * Units \in Nat
      BY <1>1, <3>2, <3>3
    <3>5. Stops(p) = c1 * Units + j /\ Stops(p) \in Int
      BY <3>1, <3>4 DEF c, k
    <3> QED BY <2>3, <3>1, <3>5
  <2> QED BY <1>3, <2>1, <2>2, <2>3
<1>5. ASSUME NEW q \in TextParts(o, u2, d2)
      PROVE  \/ q = Section(1) /\ o.map
             \/ \E k \in Opened(o, f2, c2) : q = Whole(o, k, k + lead) /\ Begins(q) = (k - 1) * Units + 1
             \/ /\ rest2
                /\ \E j \in 1 .. n2 : q = Piece(o, c2 + 1, j, c2 + 1 + lead) /\ Begins(q) = c2 * Units + j
  <2>1. CASE q \in section
    BY <2>1
  <2>2. CASE q \in {Whole(o, j, j + lead) : j \in Opened(o, f2, c2)}
    <3>1. PICK k \in Opened(o, f2, c2) : q = Whole(o, k, k + lead)
      BY <2>2
    <3> DEFINE c == k + lead
    <3>2. k \in Nat \ {0} /\ c \in Int
      BY <1>1 DEF Opened
    <3> HIDE DEF c
    <3>3. Begins(Whole(o, k, c)) = (k - 1) * Units + 1
      BY <3>2, WholePart
    <3> QED BY <3>1, <3>3 DEF c
  <2>3. CASE rest2 /\ q \in {Piece(o, c2 + 1, j, c2 + 1 + lead) : j \in 1 .. n2}
    <3>1. PICK j \in 1 .. n2 : q = Piece(o, c2 + 1, j, c2 + 1 + lead)
      BY <2>3
    <3> DEFINE c == c2 + 1 + lead
               k == c2 + 1
    <3>2. k \in Nat \ {0} /\ c \in Int /\ j \in 1 .. Units /\ k - 1 = c2
      BY <1>1, <1>2
    <3> HIDE DEF c, k
    <3>3. Begins(Piece(o, k, j, c)) = (k - 1) * Units + j
      BY <3>2, PiecePart
    <3>4. Begins(Piece(o, k, j, c)) = c2 * Units + j
      BY <3>2, <3>3
    <3>5. Begins(q) = c2 * Units + j
      BY <3>1, <3>4 DEF c, k
    <3> QED BY <2>3, <3>1, <3>5
  <2> QED BY <1>3, <2>1, <2>2, <2>3
<1> HIDE DEF rest1, rest2, section
<1>6. ASSUME NEW p \in TextParts(o, u1, d1), NEW q \in TextParts(o, u2, d2), Begins(q) <= Stops(p)
      PROVE  q \in TextParts(o, u1, d1) \/ Mates(p, q)
  <2>1. CASE q = Section(1) /\ o.map
    BY <1>3, <2>1 DEF section
  <2>2. CASE \E k \in Opened(o, f2, c2) : q = Whole(o, k, k + lead) /\ Begins(q) = (k - 1) * Units + 1
    <3>1. PICK k \in Opened(o, f2, c2) : q = Whole(o, k, k + lead) /\ Begins(q) = (k - 1) * Units + 1
      BY <2>2
    <3>2. k \in f2 .. c2 /\ k \in Nat \ {0} /\ k \notin o.gaps
      BY <1>1, <3>1 DEF Opened
    <3>3. (k - 1) * Units \in Nat /\ k * Units = (k - 1) * Units + Units
      BY <3>2, SegmentAt
    \* A segment of the first text up to one that is open is open.
    <3>4. ASSUME NEW m \in Int, m >= k, \A i \in f1 .. m : i \notin o.locked, k <= c1 PROVE q \in TextParts(o, u1, d1)
      <4>1. k \in f1 .. c1 /\ \A i \in f1 .. k : i \in f1 .. m
        BY <1>1, <3>2, <3>4
      <4>2. k \in Opened(o, f1, c1)
        BY <3>2, <3>4, <4>1 DEF Opened
      <4> QED BY <1>3, <3>1, <4>2
    <3>5. CASE p = Section(1) /\ Stops(p) = 0
      BY <1>6, <3>1, <3>3, <3>5
    <3>6. CASE \E m \in Opened(o, f1, c1) : Stops(p) = m * Units
      <4>1. PICK m \in Opened(o, f1, c1) : Stops(p) = m * Units
        BY <3>6
      <4>2. m \in Nat \ {0} /\ m <= c1 /\ \A i \in f1 .. m : i \notin o.locked
        BY <1>1, <4>1 DEF Opened
      <4>3. m >= k
        <5> SUFFICES ASSUME m < k PROVE FALSE
          BY <3>2, <4>2
        <5>1. m * Units + Units <= k * Units /\ m * Units \in Nat
          BY <3>2, <4>2, Scaled
        <5> DEFINE mu == m * Units
                   ku == k * Units
                   lu == (k - 1) * Units
        <5>2. mu \in Nat /\ lu \in Nat /\ ku = lu + Units /\ mu + Units <= ku /\ lu + 1 <= mu
          BY <1>6, <3>1, <3>3, <4>1, <5>1
        <5> HIDE DEF mu, ku, lu
        <5> QED BY <1>1, <5>2
      <4> QED BY <1>1, <3>4, <4>2, <4>3, <3>2
    <3>7. CASE /\ rest1
               /\ \E j \in 1 .. n1 : p = Piece(o, c1 + 1, j, c1 + 1 + lead) /\ Stops(p) = c1 * Units + j
      <4>1. PICK j \in 1 .. n1 : p = Piece(o, c1 + 1, j, c1 + 1 + lead) /\ Stops(p) = c1 * Units + j
        BY <3>7
      <4>2. /\ o.parts # "none" /\ c1 + 1 \in Nat \ {0} /\ c1 + 1 \notin o.gaps
            /\ \A i \in f1 .. c1 + 1 : i \notin o.locked
        BY <1>1, <3>7 DEF rest1, Opened
      <4>3. k <= c1 + 1
        <5> SUFFICES ASSUME c1 + 1 < k PROVE FALSE
          BY <1>1, <3>2
        <5>1. c1 < k - 1 /\ k - 1 \in Nat
          BY <1>1, <3>2
        <5>2. c1 * Units + Units <= (k - 1) * Units /\ c1 * Units \in Nat
          BY <1>1, <5>1, Scaled
        <5> DEFINE cu == c1 * Units
                   lu == (k - 1) * Units
        <5>3. cu \in Nat /\ lu \in Nat /\ cu + Units <= lu /\ lu + 1 <= cu + j
          BY <1>6, <3>1, <3>3, <4>1, <5>2
        <5> HIDE DEF cu, lu
        <5> QED BY <1>1, <1>2, <5>3
      <4>4. CASE k <= c1
        BY <1>1, <3>2, <3>4, <4>2, <4>4
      <4>5. CASE k = c1 + 1
        <5> DEFINE c == k + lead
        <5>1. c \in Int /\ k \in Nat \ {0} /\ j \in 1 .. Units
          BY <1>1, <1>2, <3>2
        <5> HIDE DEF c
        <5>2. p = Piece(o, k, j, c) /\ q = Whole(o, k, c)
          BY <3>1, <4>1, <4>5 DEF c
        <5>3. /\ ~q.partial /\ q.occurrence = c /\ q.uri = (IF o.ranged THEN File ELSE <<"seg", k>>)
              /\ ~o.ranged => q.start = None /\ q.length = None
              /\ o.ranged => q.start = (k - 1) * Units /\ q.length = Units
          BY <5>1, <5>2, WholePart
        <5>4. /\ p.partial /\ p.occurrence = c
              /\ o.ranged /\ o.parts # "files" => p.uri = File /\ p.start # None
          BY <5>1, <5>2, PiecePart
        <5>5. (k - 1) * Units # None
          BY <3>3, NoneAssumption
        <5> QED BY <5>3, <5>4, <5>5 DEF Mates
      <4> QED BY <1>1, <3>2, <4>3, <4>4, <4>5
    <3> QED BY <1>4, <3>5, <3>6, <3>7
  <2>3. CASE /\ rest2
             /\ \E j \in 1 .. n2 : q = Piece(o, c2 + 1, j, c2 + 1 + lead) /\ Begins(q) = c2 * Units + j
    <3>1. PICK j \in 1 .. n2 : q = Piece(o, c2 + 1, j, c2 + 1 + lead) /\ Begins(q) = c2 * Units + j
      BY <2>3
    <3>2. \A k \in Nat : k <= c2 => k * Units <= c2 * Units /\ k * Units \in Nat /\ c2 * Units \in Nat
      <4>1. ASSUME NEW k \in Nat, k < c2 PROVE k * Units <= c2 * Units /\ k * Units \in Nat
        <5> DEFINE ku == k * Units
                   cu == c2 * Units
        <5>1. ku + Units <= cu /\ ku \in Nat /\ cu \in Nat
          BY <1>1, <4>1, Scaled
        <5> HIDE DEF ku, cu
        <5>2. ku <= cu /\ ku \in Nat
          BY <1>1, <5>1
        <5> QED BY <5>2 DEF ku, cu
      <4>2. c2 * Units \in Nat
        BY <1>1
      <4> QED BY <1>1, <4>1, <4>2
    <3>3. c2 * Units \in Nat /\ j \in Nat \ {0}
      BY <1>1, <1>2, <3>2
    <3>4. CASE p = Section(1) /\ Stops(p) = 0
      BY <1>6, <3>1, <3>3, <3>4
    <3>5. CASE \E m \in Opened(o, f1, c1) : Stops(p) = m * Units
      <4>1. PICK m \in Opened(o, f1, c1) : Stops(p) = m * Units
        BY <3>5
      <4>2. m \in Nat /\ m <= c2
        BY <1>1, <4>1 DEF Opened
      <4>3. m * Units <= c2 * Units /\ m * Units \in Nat
        BY <3>2, <4>2
      <4> QED BY <1>6, <3>1, <3>3, <4>1, <4>3
    <3>6. CASE /\ rest1
               /\ \E i \in 1 .. n1 : p = Piece(o, c1 + 1, i, c1 + 1 + lead) /\ Stops(p) = c1 * Units + i
      <4>1. PICK i \in 1 .. n1 : p = Piece(o, c1 + 1, i, c1 + 1 + lead) /\ Stops(p) = c1 * Units + i
        BY <3>6
      <4>2. c1 = c2
        <5> SUFFICES ASSUME c1 < c2 PROVE FALSE
          BY <1>1
        <5> DEFINE cu == c1 * Units
                   du == c2 * Units
        <5>1. cu + Units <= du /\ cu \in Nat /\ du \in Nat
          BY <1>1, Scaled
        <5>2. du + j <= cu + i
          BY <1>6, <3>1, <4>1
        <5> HIDE DEF cu, du
        <5> QED BY <1>1, <1>2, <3>3, <5>1, <5>2
      <4>3. j \in 1 .. n1
        <5> DEFINE du == c2 * Units
        <5>1. du + j <= du + i /\ du \in Nat
          BY <1>6, <3>1, <3>3, <4>1, <4>2
        <5> HIDE DEF du
        <5> QED BY <1>2, <3>3, <5>1
      <4> QED BY <1>3, <3>1, <3>6, <4>2, <4>3
    <3> QED BY <1>4, <3>4, <3>5, <3>6
  <2> QED BY <1>5, <2>1, <2>2, <2>3
<1> QED BY <1>6 DEF Covers

\* Segment k of a DASH manifest.
Dashed(k, c) == ManifestPart(<<"seg", k>>, None, None, c, FALSE)

LEMMA DashedPart ==
  ASSUME NEW o \in Style, NEW k \in Nat \ {0}, NEW c \in Int
  PROVE  /\ Dashed(k, c) \in Part
         /\ Begins(Dashed(k, c)) = (k - 1) * Units + 1 /\ Stops(Dashed(k, c)) = k * Units
         /\ k \notin Barred(o) => Dashed(k, c) \in Fair(o)
<1> DEFINE style == [o EXCEPT !.ranged = FALSE]
<1>1. style \in Style /\ ~style.ranged /\ Barred(style) = Barred(o)
  BY DEF Style, Barred
<1> HIDE DEF style
<1>2. Whole(style, k, c) = Dashed(k, c)
  BY <1>1 DEF Whole, Dashed
<1>3. Fair(style) = Fair(o)
  BY <1>1 DEF Fair, MayRead, ClearUnits
<1>4. LET x == Whole(style, k, c)
      IN  /\ x \in Part /\ Begins(x) = (k - 1) * Units + 1 /\ Stops(x) = k * Units
          /\ k \notin Barred(style) => x \in Fair(style)
  BY <1>1, WholePart
<1> QED BY <1>1, <1>2, <1>3, <1>4

\* Of a DASH manifest.
LEMMA DashRead ==
  ASSUME NEW o \in Style, NEW units \in Nat
  PROVE  LET parts == DashParts(o, units)
             first == FirstListed(o, units)
             of(k) == (k - 1) \div o.period - (first - 1) \div o.period
         IN  /\ parts \in Seq(Part) /\ InSequence(parts)
             /\ ToSet(parts) = {Dashed(k, of(k)) : k \in first .. Complete(units)}
             /\ \A k \in first .. Complete(units) : k \in Nat \ {0} /\ of(k) \in Int
<1> DEFINE parts == DashParts(o, units)
           first == FirstListed(o, units)
           last == Complete(units)
           periodOf(k) == (k - 1) \div o.period
           of(k) == periodOf(k) - periodOf(first)
           count == last - first + 1
           part(k) == Dashed(k, of(k))
<1>1. first \in Nat \ {0} /\ last \in Nat /\ first <= last + 1 /\ o.period \in Nat \ {0}
  BY CompleteFits, ListedFrom DEF Style
<1>2. parts = [i \in 1 .. count |-> part(first + i - 1)]
  BY DEF DashParts, Dashed
<1> HIDE DEF parts, first, last
<1>3. \A k \in first .. last : k \in Nat \ {0} /\ of(k) \in Int
  <2>1. ASSUME NEW k \in first .. last PROVE periodOf(k) \in Int /\ periodOf(first) \in Int /\ k \in Nat \ {0}
    BY <1>1
  <2> HIDE DEF periodOf
  <2> QED BY <2>1
<1> HIDE DEF of, periodOf
<1>4. count \in Nat /\ first + count - 1 = last
  BY <1>1
<1> HIDE DEF count
<1>5. ASSUME NEW k \in first .. last
      PROVE  part(k) \in Part /\ Begins(part(k)) = (k - 1) * Units + 1 /\ Stops(part(k)) = k * Units
  <2> DEFINE c == of(k)
  <2>1. k \in Nat \ {0} /\ c \in Int
    BY <1>3
  <2> HIDE DEF c
  <2>2. Dashed(k, c) \in Part /\ Begins(Dashed(k, c)) = (k - 1) * Units + 1 /\ Stops(Dashed(k, c)) = k * Units
    BY <2>1, DashedPart
  <2> QED BY <2>2 DEF c
<1> HIDE DEF part
<1>6. \A i \in 1 .. count : first + i - 1 \in first .. last
  BY <1>1, <1>4
<1>7. /\ parts \in Seq(Part) /\ DOMAIN parts = 1 .. count
      /\ \A i \in 1 .. count : parts[i] = part(first + i - 1)
  BY <1>2, <1>4, <1>5, <1>6
<1>8. InSequence(parts)
  <2> SUFFICES ASSUME NEW i \in 1 .. count, NEW j \in 1 .. count, i < j PROVE Stops(parts[i]) < Begins(parts[j])
    BY <1>7 DEF InSequence
  <2> DEFINE a == first + i - 1
             b == first + j - 1
  <2>1. a \in first .. last /\ b \in first .. last /\ a \in Nat \ {0} /\ b \in Nat \ {0} /\ a < b
    BY <1>1, <1>6
  <2>2. parts[i] = part(a) /\ parts[j] = part(b)
    BY <1>7
  <2> HIDE DEF a, b
  <2>3. Stops(part(a)) = a * Units /\ Begins(part(b)) = (b - 1) * Units + 1
    BY <1>5, <2>1
  <2>4. (b - 1) * Units \in Nat /\ a * Units \in Nat /\ a * Units <= (b - 1) * Units
    <3> DEFINE n == b - 1
    <3>1. n \in Nat /\ a \in Nat /\ (a = n \/ a < n) /\ Units \in Nat
      BY <2>1, SettingsAssumption
    <3> HIDE DEF n
    <3> DEFINE au == a * Units
               nu == n * Units
    <3>2. au \in Nat /\ nu \in Nat /\ (a = n => au = nu) /\ (a < n => au + Units <= nu)
      BY <3>1, Scaled
    <3> HIDE DEF au, nu
    <3>3. au <= nu
      BY <3>1, <3>2
    <3> QED BY <3>2, <3>3 DEF au, nu, n
  <2> DEFINE au == a * Units
             bu == (b - 1) * Units
  <2>5. au \in Nat /\ bu \in Nat /\ au <= bu /\ Stops(part(a)) = au /\ Begins(part(b)) = bu + 1
    BY <2>3, <2>4
  <2> HIDE DEF au, bu
  <2> QED BY <2>2, <2>5
<1>9. ToSet(parts) = {part(k) : k \in first .. last}
  <2>1. ASSUME NEW k \in first .. last PROVE \E i \in 1 .. count : first + i - 1 = k
    <3>1. k - first + 1 \in 1 .. count /\ first + (k - first + 1) - 1 = k
      BY <1>1, <1>4
    <3> QED BY <3>1
  <2>2. ASSUME NEW k \in first .. last PROVE part(k) \in ToSet(parts)
    <3>1. PICK i \in 1 .. count : first + i - 1 = k
      BY <2>1
    <3> QED BY <1>7, <3>1 DEF ToSet
  <2>3. ASSUME NEW x \in ToSet(parts) PROVE \E k \in first .. last : x = part(k)
    <3>1. PICK i \in 1 .. count : x = parts[i]
      BY <1>7 DEF ToSet
    <3> QED BY <1>6, <1>7, <3>1
  <2> QED BY <2>2, <2>3
<1> QED BY <1>3, <1>7, <1>8, <1>9 DEF parts, first, last, of, periodOf, part

LEMMA DashCovers ==
  ASSUME NEW o \in Style, NEW length \in Nat, NEW u2 \in 0 .. length, NEW u1 \in 0 .. u2,
         FirstListed(o, length) <= o.period
  PROVE  Covers(ToSet(DashParts(o, u1)), ToSet(DashParts(o, u2)))
<1> DEFINE part(k) == Dashed(k, (k - 1) \div o.period)
           parts(u) == {part(k) : k \in FirstListed(o, u) .. Complete(u)}
<1>1. ASSUME NEW u \in 0 .. length PROVE ToSet(DashParts(o, u)) = parts(u)
  <2> DEFINE first == FirstListed(o, u)
             of(k) == (k - 1) \div o.period - (first - 1) \div o.period
  <2>1. first \in Nat \ {0} /\ first <= o.period /\ o.period \in Nat \ {0}
    <3>1. first <= FirstListed(o, length) /\ first \in Nat \ {0} /\ FirstListed(o, length) \in Nat
      BY ListedLater, ListedFrom
    <3> HIDE DEF first
    <3> QED BY <3>1 DEF Style
  <2>2. (first - 1) \div o.period = 0
    <3>1. \A m \in Nat, n \in Nat \ {0} : m < n => m \div n = 0
      OBVIOUS
    <3> HIDE DEF first
    <3>2. first - 1 \in Nat /\ first - 1 < o.period
      BY <2>1
    <3> QED BY <2>1, <3>1, <3>2
  <2>3. ToSet(DashParts(o, u)) = {Dashed(k, of(k)) : k \in first .. Complete(u)}
        /\ \A k \in first .. Complete(u) : k \in Nat \ {0}
    BY DashRead
  <2>4. \A k \in first .. Complete(u) : of(k) = (k - 1) \div o.period
    <3> HIDE DEF first
    <3>1. ASSUME NEW k \in first .. Complete(u) PROVE (k - 1) \div o.period - 0 = (k - 1) \div o.period
      <4>1. (k - 1) \div o.period \in Int
        BY <2>1, <2>3
      <4> QED BY <4>1
    <3> QED BY <2>2, <3>1
  <2> QED BY <2>3, <2>4
<1> DEFINE f1 == FirstListed(o, u1)
           f2 == FirstListed(o, u2)
           c1 == Complete(u1)
           c2 == Complete(u2)
<1>2. f1 \in Nat \ {0} /\ f2 \in Nat \ {0} /\ c1 \in Nat /\ c2 \in Nat /\ f1 <= f2
  BY ListedFrom, ListedLater, CompleteFits
<1>3. \A k \in Nat \ {0} : /\ Begins(part(k)) = (k - 1) * Units + 1 /\ Stops(part(k)) = k * Units
  <2>1. ASSUME NEW k \in Nat \ {0} PROVE Begins(part(k)) = (k - 1) * Units + 1 /\ Stops(part(k)) = k * Units
    <3> DEFINE c == (k - 1) \div o.period
    <3>1. c \in Int
      BY DEF Style
    <3> HIDE DEF c
    <3>2. Begins(Dashed(k, c)) = (k - 1) * Units + 1 /\ Stops(Dashed(k, c)) = k * Units
      BY <3>1, DashedPart
    <3> QED BY <3>2 DEF c
  <2> QED BY <2>1
<1>4. u1 \in 0 .. length
  OBVIOUS
<1>5. parts(u1) = {part(k) : k \in f1 .. c1} /\ parts(u2) = {part(k) : k \in f2 .. c2}
  OBVIOUS
<1> HIDE DEF part, parts, f1, f2, c1, c2
<1>6. ASSUME NEW p \in parts(u1), NEW q \in parts(u2), Begins(q) <= Stops(p) PROVE q \in parts(u1)
  <2>1. PICK m \in f1 .. c1 : p = part(m)
    BY <1>5
  <2>2. PICK k \in f2 .. c2 : q = part(k)
    BY <1>5
  <2>3. m \in Nat \ {0} /\ k \in Nat \ {0} /\ Units \in Nat \ {0}
    BY <1>2, SettingsAssumption
  <2>4. k <= m
    <3> SUFFICES ASSUME m < k PROVE FALSE
      BY <2>3
    <3>1. m * Units + Units <= k * Units /\ m * Units \in Nat
      BY <2>3, Scaled
    <3>2. k * Units = (k - 1) * Units + Units /\ (k - 1) * Units \in Nat
      BY <2>3, SegmentAt
    <3> DEFINE mu == m * Units
               ku == k * Units
               lu == (k - 1) * Units
    <3>3. mu + Units <= ku /\ mu \in Nat /\ ku = lu + Units /\ lu \in Nat /\ lu + 1 <= mu
      BY <1>3, <1>6, <2>1, <2>2, <2>3, <3>1, <3>2
    <3> HIDE DEF mu, ku, lu
    <3> QED BY <2>3, <3>3
  <2>5. k \in f1 .. c1
    BY <1>2, <2>3, <2>4
  <2> QED BY <1>5, <2>2, <2>5
<1> QED BY <1>1, <1>4, <1>6 DEF Covers

LEMMA Marks ==
  ASSUME MarkedPlaylists, setting \in Settings, NEW s \in Streams
  PROVE  /\ Origin[s].nesting <= MaxNesting
         /\ Dash \/ Origin[s].direct => Barred(Origin[s]) = {}
         /\ Origin[s].ranged => Origin[s].gaps = {}
BY DEF MarkedPlaylists, Streams, Origin, Dash

\* The parts of the text with this many units, be it a delta or not.
TextAt(s, units, delta) ==
  IF Dash THEN DashParts(Origin[s], units) ELSE ClearHlsParts(Lines(Origin[s], units, delta, depth))

LEMMA TextFair ==
  ASSUME LiveTypeOK, MarkedPlaylists, NEW s \in Streams, Dash \/ depth >= Origin[s].nesting,
         NEW u \in Nat, NEW d \in BOOLEAN
  PROVE  TextAt(s, u, d) \in Seq(Fair(Origin[s])) /\ InSequence(TextAt(s, u, d))
<1> DEFINE o == Origin[s]
           text == TextAt(s, u, d)
<1>1. o \in Style /\ depth \in Nat /\ setting \in Settings
  BY SettingTyped, SettingsAssumption DEF LiveTypeOK
<1>2. ASSUME text \in Seq(Part), \A x \in ToSet(text) : x \in Fair(o) PROVE text \in Seq(Fair(o))
  <2> HIDE DEF text, o
  <2>1. \A i \in 1 .. Len(text) : text[i] \in Fair(o)
    BY <1>2 DEF ToSet
  <2> QED BY <1>2, <2>1
<1>3. CASE ~Dash
  <2>1. text = ClearHlsParts(Lines(o, u, d, depth))
    BY <1>3 DEF TextAt
  <2>2. o.ranged => o.gaps = {}
    BY <1>1, Marks
  <2>3. depth >= o.nesting
    BY <1>3
  <2>4. text \in Seq(Part) /\ InSequence(text) /\ ToSet(text) = TextParts(o, u, d)
    <3> HIDE DEF o, text
    <3> QED BY <1>1, <2>1, <2>2, <2>3, TextRead
  <2> DEFINE from == From(o, u, d)
             shift == Shift(o, u, d)
             last == Complete(u)
             left == u - last * Units
  <2>5. from \in Nat \ {0} /\ shift \in Int /\ last \in Nat /\ left \in Nat /\ left < Units
    <3>1. from \in Nat \ {0}
      BY <1>1, FromLater
    <3>2. last \in Nat /\ last * Units <= u /\ u < (last + 1) * Units
      BY CompleteFits, CompleteIsAll
    <3>3. (last + 1) * Units = last * Units + Units /\ last * Units \in Nat /\ Units \in Nat
      BY <3>2, SettingsAssumption
    <3>4. shift \in Int
      BY DEF Shift
    <3> HIDE DEF last
    <3> QED BY <3>1, <3>2, <3>3, <3>4
  <2>6. TextParts(o, u, d) = Sections(o, u, d) \cup Wholes(o, from, last, shift)
                             \cup Pieces(o, last + 1, from, left, shift)
    BY DEF TextParts
  <2> HIDE DEF from, shift, last, left
  <2>7. ASSUME NEW x \in Sections(o, u, d) PROVE x \in Fair(o)
    <3> DEFINE c == FirstListed(o, u)
    <3>1. x = Section(c)
      BY DEF Sections
    <3>2. c \in Int
      BY <1>1, ListedFrom
    <3> HIDE DEF c, o
    <3> QED BY <1>1, <3>1, <3>2, SectionPart
  <2>8. ASSUME NEW x \in Wholes(o, from, last, shift) PROVE x \in Fair(o)
    <3>1. PICK k \in Opened(o, from, last) : x = Whole(o, k, k + shift)
      BY DEF Wholes
    <3> DEFINE c == k + shift
    <3>2. k \in Nat \ {0} /\ c \in Int /\ k \notin Barred(o)
      BY <2>5 DEF Opened, Barred
    <3> HIDE DEF c, o
    <3>3. Whole(o, k, c) \in Fair(o)
      BY <1>1, <3>2, WholePart
    <3> QED BY <3>1, <3>3 DEF c
  <2>9. ASSUME NEW x \in Pieces(o, last + 1, from, left, shift) PROVE x \in Fair(o)
    <3> DEFINE k == last + 1
               c == k + shift
    <3>1. k \in Opened(o, from, k) /\ \E j \in 1 .. left : x = Piece(o, k, j, c)
      BY DEF Pieces
    <3>2. PICK j \in 1 .. left : x = Piece(o, k, j, c)
      BY <3>1
    <3>3. k \in Nat \ {0} /\ c \in Int /\ k \notin Barred(o) /\ j \in 1 .. Units
      <4>1. Units \in Nat
        BY SettingsAssumption
      <4>2. k \in Nat \ {0} /\ c \in Int /\ j \in 1 .. Units
        BY <2>5, <4>1
      <4>3. k \in from .. k
        BY <3>1 DEF Opened
      <4> HIDE DEF k
      <4>4. k \notin Barred(o)
        BY <3>1, <4>3 DEF Opened, Barred
      <4> QED BY <4>2, <4>4
    <3> HIDE DEF c, k, o
    <3> QED BY <1>1, <3>2, <3>3, PiecePart
  <2> HIDE DEF text, o
  <2> QED BY <1>2, <2>4, <2>6, <2>7, <2>8, <2>9 DEF text, o
<1>4. CASE Dash
  <2>1. Barred(o) = {}
    BY <1>1, <1>4, Marks
  <2>2. text = DashParts(o, u)
    BY <1>4 DEF TextAt
  <2> DEFINE first == FirstListed(o, u)
             of(k) == (k - 1) \div o.period - (first - 1) \div o.period
  <2>3. /\ text \in Seq(Part) /\ InSequence(text)
        /\ ToSet(text) = {Dashed(k, of(k)) : k \in first .. Complete(u)}
        /\ \A k \in first .. Complete(u) : k \in Nat \ {0} /\ of(k) \in Int
    BY <1>1, <2>2, DashRead
  <2> HIDE DEF of, first, text, o
  <2>4. ASSUME NEW x \in ToSet(text) PROVE x \in Fair(o)
    <3>1. PICK k \in first .. Complete(u) : x = Dashed(k, of(k))
      BY <2>3
    <3> DEFINE c == of(k)
    <3>2. k \in Nat \ {0} /\ c \in Int /\ k \notin Barred(o)
      BY <2>1, <2>3
    <3> HIDE DEF c
    <3>3. Dashed(k, c) \in Fair(o)
      BY <1>1, <3>2, DashedPart
    <3> QED BY <3>1, <3>3 DEF c
  <2> QED BY <1>2, <2>3, <2>4 DEF text, o
<1> QED BY <1>3, <1>4

LEMMA PartsAt ==
  ASSUME LiveTypeOK, NEW s \in Streams
  PROVE  Parts(s) = TextAt(s, seen, round > 0)
BY PartsRead DEF TextAt

LEMMA PartsClear ==
  ASSUME LiveTypeOK, MarkedPlaylists, NEW s \in Streams, Dash \/ depth >= Origin[s].nesting
  PROVE  Parts(s) \in Seq(Fair(Origin[s])) /\ InSequence(Parts(s))
<1> DEFINE d == round > 0
<1>1. seen \in Nat /\ d \in BOOLEAN /\ Parts(s) = TextAt(s, seen, d)
  BY PartsAt, SettingTyped DEF LiveTypeOK
<1> HIDE DEF d
<1> QED BY <1>1, TextFair

LEMMA TextCovers ==
  ASSUME LiveTypeOK, MarkedPlaylists, Orderly, NEW s \in Streams, Dash \/ depth >= Origin[s].nesting,
         NEW u2 \in 0 .. Length, NEW u1 \in 0 .. u2, NEW d1 \in BOOLEAN, NEW d2 \in BOOLEAN, d1 => d2
  PROVE  Covers(ToSet(TextAt(s, u1, d1)), ToSet(TextAt(s, u2, d2)))
<1> DEFINE o == Origin[s]
<1>1. o \in Style /\ depth \in Nat /\ setting \in Settings /\ Length \in Nat /\ u1 \in Nat /\ u2 \in Nat
  BY SettingTyped, SettingsAssumption DEF LiveTypeOK
<1>2. IF Dash THEN FirstListed(o, Length) <= o.period
      ELSE /\ ~(o.ranged /\ o.parts = "files")
           /\ o.map => ~o.delta /\ FirstListed(o, Length) = 1
  BY <1>1 DEF Orderly, Streams, Origin, Dash, Length
<1>3. CASE ~Dash
  <2>1. o.ranged => o.gaps = {}
    BY <1>1, Marks
  <2>2. depth >= o.nesting
    BY <1>3
  <2>3. TextAt(s, u1, d1) = ClearHlsParts(Lines(o, u1, d1, depth))
        /\ TextAt(s, u2, d2) = ClearHlsParts(Lines(o, u2, d2, depth))
    BY <1>3 DEF TextAt
  <2> HIDE DEF o
  <2>4. ToSet(TextAt(s, u1, d1)) = TextParts(o, u1, d1)
    BY <1>1, <2>1, <2>2, <2>3, TextRead
  <2>5. ToSet(TextAt(s, u2, d2)) = TextParts(o, u2, d2)
    BY <1>1, <2>1, <2>2, <2>3, TextRead
  <2>6. Covers(TextParts(o, u1, d1), TextParts(o, u2, d2))
    BY <1>1, <1>2, <1>3, PlaylistCovers
  <2> QED BY <2>4, <2>5, <2>6
<1>4. CASE Dash
  <2>1. TextAt(s, u1, d1) = DashParts(o, u1) /\ TextAt(s, u2, d2) = DashParts(o, u2)
    BY <1>4 DEF TextAt
  <2> HIDE DEF o
  <2>2. Covers(ToSet(DashParts(o, u1)), ToSet(DashParts(o, u2)))
    BY <1>1, <1>2, <1>4, DashCovers
  <2> QED BY <2>1, <2>2
<1> QED BY <1>3, <1>4

\* The text of a master begins with a playlist.
LEMMA MasterText ==
  ASSUME LiveTypeOK, ~Dash, depth < Origin[stream].nesting
  PROVE  Head(Parts(stream)).uri[1] = "list"
<1> DEFINE at == <<"list", depth + 1>>
           line == [tag |-> "uri", uri |-> at]
           lines == <<line>>
<1>1. stream \in Streams /\ depth \in Nat
  BY SettingsAssumption DEF LiveTypeOK
<1>2. Parts(stream) = ClearHlsParts(lines)
  BY <1>1, PartsRead DEF Lines
<1>3. at \in Urls /\ at # None /\ at[1] = "list"
  BY <1>1, NoneAssumption DEF Urls
<1> HIDE DEF at
<1>4. line \in PlaylistLine(Urls) /\ line.tag = "uri" /\ line.uri = at
  BY <1>3 DEF PlaylistLine
<1>5. lines \in Seq(PlaylistLine(Urls)) /\ Len(lines) = 1 /\ lines[1] = line
  <2> HIDE DEF line
  <2> QED BY <1>4
<1> HIDE DEF lines, line
<1>6. PICK F \in [0..Len(lines) -> St] :
         /\ F[0] = Blank /\ \A n \in 1..Len(lines) : F[n] = ReadLine(F[n - 1], lines[n])
         /\ ClearHlsParts(lines) = FlushHeld(F[Len(lines)]).parts
  BY <1>5, Reading DEF St
<1>7. F[1] = ReadLine(Blank, line) /\ ClearHlsParts(lines) = FlushHeld(F[1]).parts /\ F[1] \in St
  <2>1. 1 \in 1..Len(lines) /\ 1 - 1 = 0 /\ 1 \in 0..Len(lines)
    BY <1>5
  <2> QED BY <1>5, <1>6, <2>1
<1> DEFINE part == ManifestPart(at, None, None, Occurrence(Blank), FALSE)
<1>8. ReadLine(Blank, line) = ReadUri(Blank, line)
  BY <1>4 DEF ReadLine, Blank
<1>9. F[1].parts = Append(<<>>, part) /\ F[1].held = <<>>
  <2> HIDE DEF part
  <2> DEFINE past == [Blank EXCEPT !.held = <<>>, !.pending = None, !.gap = FALSE, !.index = @ + 1]
  <2>1. Blank.pending = None /\ Blank.gap = FALSE
    BY DEF Blank
  <2>2. past.parts = <<>> /\ past.held = <<>>
    BY DEF Blank
  <2>3. ReadUri(Blank, line) = [past EXCEPT !.parts = Append(@, part)]
    <3> HIDE DEF past
    <3> QED BY <1>3, <1>4, <2>1 DEF ReadUri, past, part
  <2>4. DOMAIN past = {"parts", "held", "pending", "gap", "reach", "sequence", "index", "open"}
    BY DEF Blank
  <2> HIDE DEF past
  <2> QED BY <1>7, <1>8, <2>2, <2>3, <2>4
<1>10. FlushHeld(F[1]) = F[1]
  BY <1>9 DEF FlushHeld
<1>11. Head(Append(<<>>, part)) = part /\ part.uri = at
  BY DEF ManifestPart
<1> QED BY <1>2, <1>3, <1>7, <1>9, <1>10, <1>11

-----------------------------------------------------------------------------
(* What objects give. *)

\* The units of an object, from the first on.
Gives(uri, data) ==
  \A i \in DOMAIN data : data[i] = Base(uri) + i /\ (uri[1] # "file" => i <= Size(uri))

LEMMA ContentGives ==
  ASSUME LiveTypeOK, NEW uri \in Urls
  PROVE  Gives(uri, Content(stream, uri))
<1> DEFINE served == edge[stream] - Origin[stream].lag
           upTo(first, last) == [i \in 1 .. (IF last < first THEN 0 ELSE last - first + 1) |-> first + i - 1]
           lesser(a, b) == IF a < b THEN a ELSE b
           before == (uri[2] - 1) * Units
           end == uri[2] * Units
<1>1. served \in Int /\ before \in Int /\ end \in Int
  <2>1. Origin[stream] \in Style /\ edge[stream] \in 0 .. Length /\ Length \in Nat
    BY SettingTyped DEF LiveTypeOK
  <2>2. Origin[stream].lag \in Nat /\ Units \in Int /\ uri[2] \in Int /\ uri[2] - 1 \in Int
    BY <2>1, SettingsAssumption DEF Style, Urls
  <2>3. \A a, b \in Int : a * b \in Int
    OBVIOUS
  <2> QED BY <2>1, <2>2, <2>3
<1>2. ASSUME NEW a \in Int, NEW b \in Int
      PROVE  \A i \in DOMAIN upTo(a, b) : i \in Nat \ {0} /\ upTo(a, b)[i] = a + i - 1 /\ a + i - 1 \in a .. b
  <2> DEFINE n == IF b < a THEN 0 ELSE b - a + 1
  <2>1. n \in Nat
    OBVIOUS
  <2>2. \A i \in 1 .. n : i \in Nat \ {0} /\ a + i - 1 \in a .. b
    BY <2>1
  <2> QED BY <2>2
<1>3. uri[1] = "file" => Content(stream, uri) = upTo(1, served)
  BY DEF Content
<1>4. uri[1] = "seg" => Content(stream, uri) = upTo(before + 1, lesser(end, served))
  BY DEF Content
<1>5. uri[1] = "init" => Content(stream, uri) = <<0>>
  BY DEF Content
<1>11. uri[1] = "list" => Content(stream, uri) = <<-1>>
  BY DEF Content
<1>6. uri[1] = "part" => Content(stream, uri) = <<uri[2]>>
  BY DEF Content
<1>7. /\ uri[1] \in {"init", "list", "part", "file", "seg"} /\ uri[2] \in Nat
      /\ end = before + Units /\ Units \in Nat
  <2>1. uri[1] \in {"init", "list", "part", "file", "seg"} /\ uri[2] \in Nat /\ Units \in Nat
    BY SettingsAssumption DEF Urls
  <2> QED BY <2>1
<1>12. /\ uri[1] = "init" => Base(uri) = -1 /\ Size(uri) = 1
       /\ uri[1] = "list" => Base(uri) = -2 /\ Size(uri) = 1
       /\ uri[1] = "part" => Base(uri) = uri[2] - 1 /\ Size(uri) = 1
       /\ uri[1] = "file" => Base(uri) = 0
       /\ uri[1] = "seg" => Base(uri) = before /\ Size(uri) = Units
  BY DEF Base, Size
<1> HIDE DEF served, before, end
<1>8. lesser(end, served) \in Int /\ lesser(end, served) <= end
  BY <1>1
<1> DEFINE last == lesser(end, served)
<1>9. CASE uri[1] = "file"
  <2>1. \A i \in DOMAIN upTo(1, served) : i \in Nat \ {0} /\ upTo(1, served)[i] = 1 + i - 1
    BY <1>1, <1>2
  <2> HIDE DEF upTo
  <2>2. \A i \in DOMAIN upTo(1, served) : upTo(1, served)[i] = 0 + i
    BY <2>1
  <2> QED BY <1>3, <1>9, <1>12, <2>2 DEF Gives
<1>10. CASE uri[1] = "seg"
  <2> DEFINE from == before + 1
             data == upTo(from, last)
  <2>1. from \in Int /\ last \in Int
    BY <1>1, <1>8
  <2> HIDE DEF from, last
  <2>2. \A i \in DOMAIN data : i \in Nat \ {0} /\ data[i] = from + i - 1 /\ from + i - 1 \in from .. last
    BY <1>2, <2>1
  <2> HIDE DEF data, upTo
  <2>3. \A i \in DOMAIN data : data[i] = before + i /\ i <= Units
    <3> SUFFICES ASSUME NEW i \in DOMAIN data PROVE data[i] = before + i /\ i <= Units
      OBVIOUS
    <3>1. i \in Nat /\ data[i] = from + i - 1 /\ from + i - 1 <= last
      BY <2>1, <2>2
    <3>2. last <= before + Units
      BY <1>7, <1>8 DEF last
    <3> QED BY <1>1, <1>7, <2>1, <3>1, <3>2 DEF from
  <2>4. Content(stream, uri) = data
    BY <1>4, <1>10 DEF data, from, last
  <2> QED BY <1>10, <1>12, <2>3, <2>4 DEF Gives
<1>13. CASE uri[1] \in {"init", "list", "part"}
  <2>1. Content(stream, uri) = <<Base(uri) + 1>> /\ Size(uri) = 1
    BY <1>5, <1>6, <1>7, <1>11, <1>12, <1>13
  <2> DEFINE unit == Base(uri) + 1
             data == <<unit>>
  <2>2. DOMAIN data = {1} /\ data[1] = unit
    OBVIOUS
  <2> HIDE DEF data
  <2> QED BY <2>1, <2>2 DEF Gives, unit, data
<1> QED BY <1>7, <1>9, <1>10, <1>13

\* Where what is written of a part is.
LEMMA ChunkPlaces ==
  ASSUME LiveTypeOK, NEW o \in Style, NEW part \in Fair(o), NEW data \in Seq(Int), Gives(part.uri, data)
  PROVE  LET chunk == Chunk(part, data)
             slice == Slice(part, data)
         IN  /\ chunk \in Seq(Int) /\ slice.from \in Nat /\ slice.to \in Nat
             /\ \A i \in DOMAIN chunk :
                  /\ i \in Nat \ {0} /\ chunk[i] = Base(part.uri) + slice.from + i
                  /\ chunk[i] <= Base(part.uri) + slice.to
                  /\ Begins(part) <= chunk[i] /\ chunk[i] <= Stops(part)
<1> DEFINE from == Slice(part, data).from
           to == Slice(part, data).to
           chunk == Chunk(part, data)
           base == Base(part.uri)
           start == IF part.start = None THEN 0 ELSE part.start
<1>1. part \in Part /\ MayRead(o, part)
  BY DEF Fair
<1>2. from \in Nat /\ to \in Nat /\ to <= Len(data) /\ chunk \in Seq(Int) /\ Len(data) \in Nat
  BY <1>1, SliceTyped
<1>3. chunk = SubSeq(data, from + 1, to)
  BY DEF Chunk
<1>4. base \in Int /\ Size(part.uri) \in Nat /\ Begins(part) \in Int /\ Stops(part) \in Int
  BY <1>1, PartPlaces
<1>5. Through(part) \in Nat
  <2>1. CASE Object(part) \in DOMAIN through
    <3>1. through[Object(part)] \in Nat
      BY <2>1, DictValue DEF LiveTypeOK
    <3> QED BY <2>1, <3>1 DEF Through
  <2>2. CASE Object(part) \notin DOMAIN through
    BY <2>2 DEF Through
  <2> QED BY <2>1, <2>2
<1>6. part.start \in Offsets /\ part.length \in Offsets
  BY <1>1 DEF Part, PartOf
<1>7. start \in Nat /\ start <= from /\ Begins(part) = base + start + 1
  <2>1. start \in Nat
    BY <1>6 DEF Offsets
  <2>2. start <= from
    BY <1>2, <1>5, <1>6, NoneAssumption DEF Slice, Offsets
  <2>3. Begins(part) = base + start + 1
    BY <1>4 DEF Begins
  <2> QED BY <2>1, <2>2, <2>3
<1>8. part.start # None /\ part.length # None => to <= part.start + part.length
  <2> SUFFICES ASSUME part.start # None, part.length # None PROVE to <= part.start + part.length
    OBVIOUS
  <2>1. part.start \in Nat /\ part.length \in Nat
    BY <1>6 DEF Offsets
  <2> QED BY <1>2, <2>1 DEF Slice
<1> HIDE DEF from, to, chunk, base, start
<1>9. ASSUME NEW i \in DOMAIN chunk
      PROVE  /\ i \in Nat \ {0} /\ chunk[i] = data[from + i]
             /\ from + i \in from + 1 .. to /\ from + i \in DOMAIN data
  <2> DEFINE a == from + 1
  <2>1. a \in Int /\ to \in Int /\ \A j \in a .. to : data[j] \in Int
    BY <1>2
  <2>2. /\ Len(SubSeq(data, a, to)) = IF a <= to THEN to - a + 1 ELSE 0
        /\ \A j \in 1 .. to - a + 1 : SubSeq(data, a, to)[j] = data[a + j - 1]
    <3> HIDE DEF a
    <3> QED BY <2>1, SubSeqProperties
  <2>3. DOMAIN chunk = 1 .. Len(chunk)
    BY <1>2
  <2>4. i \in 1 .. to - a + 1 /\ a + i - 1 = from + i
    BY <1>2, <1>3, <1>9, <2>2, <2>3
  <2> HIDE DEF chunk
  <2>5. i \in Int /\ 1 <= i /\ i <= to - a + 1
    BY <2>1, <2>4
  <2>6. i \in Nat \ {0} /\ from + i \in from + 1 .. to /\ from + i \in 1 .. Len(data)
    <3>1. from \in Int /\ to \in Int /\ 0 <= from /\ to <= Len(data) /\ Len(data) \in Int
      BY <1>2
    <3>2. i \in Int /\ 1 <= i /\ i <= to - from
      BY <2>5, <3>1
    <3> HIDE DEF a
    <3>3. \A x, y, z, n \in Int : 0 <= x /\ z <= n /\ 1 <= y /\ y <= z - x
                                 => y \in Nat \ {0} /\ x + y \in x + 1 .. z /\ x + y \in 1 .. n
      OBVIOUS
    <3> QED BY <3>1, <3>2, <3>3
  <2>7. DOMAIN data = 1 .. Len(data)
    OBVIOUS
  <2>8. chunk[i] = data[a + i - 1]
    BY <1>3, <2>2, <2>4
  <2>9. a + i - 1 = from + i
    BY <2>4
  <2> HIDE DEF a
  <2> QED BY <2>6, <2>7, <2>8, <2>9
<1>10. ASSUME NEW i \in DOMAIN chunk
       PROVE  /\ i \in Nat \ {0} /\ chunk[i] = base + from + i /\ chunk[i] <= base + to
              /\ Begins(part) <= chunk[i] /\ chunk[i] <= Stops(part)
  <2>1. /\ i \in Nat \ {0} /\ chunk[i] = base + (from + i) /\ from + i <= to
        /\ part.uri[1] # "file" => from + i <= Size(part.uri)
    BY <1>2, <1>9 DEF Gives, base
  <2>2. chunk[i] = base + from + i /\ chunk[i] <= base + to /\ chunk[i] \in Int
    <3>1. \A b, f, n, t \in Int : f + n <= t => b + (f + n) = b + f + n /\ b + (f + n) <= b + t
      OBVIOUS
    <3>2. from \in Int /\ to \in Int /\ i \in Int /\ base \in Int /\ from + i <= to
      BY <1>2, <1>4, <2>1
    <3>3. base + (from + i) = base + from + i /\ base + (from + i) <= base + to
      BY <3>1, <3>2
    <3>4. base + (from + i) \in Int
      BY <3>2
    <3> QED BY <2>1, <3>3, <3>4
  <2>3. Begins(part) <= chunk[i]
    BY <1>2, <1>4, <1>7, <2>1, <2>2
  <2>4. chunk[i] <= Stops(part)
    <3>1. CASE part.start = None \/ part.length = None
      <4>1. Stops(part) = base + Size(part.uri)
        BY <3>1 DEF Stops, base
      <4>2. part.uri[1] # "file"
        BY <1>1, <3>1, NoneAssumption DEF MayRead
      <4> QED BY <1>2, <1>4, <2>1, <4>1, <4>2
    <3>2. CASE part.start # None /\ part.length # None
      <4>1. Stops(part) = base + (part.start + part.length)
        BY <3>2 DEF Stops, base
      <4>2. part.start \in Nat /\ part.length \in Nat
        BY <1>6, <3>2 DEF Offsets
      <4>3. to <= part.start + part.length
        BY <1>8, <3>2
      <4> DEFINE end == part.start + part.length
      <4>4. end \in Int /\ to <= end /\ Stops(part) = base + end
        BY <4>1, <4>2, <4>3
      <4> HIDE DEF end
      <4>5. base + to <= base + end
        BY <1>2, <1>4, <4>4
      <4> DEFINE far == base + to
                 stop == base + end
                 v == chunk[i]
      <4>6. far \in Int /\ stop \in Int /\ v \in Int /\ v <= far /\ far <= stop
        BY <1>2, <1>4, <2>2, <4>4, <4>5
      <4> HIDE DEF far, stop, v
      <4>7. v <= stop
        BY <4>6
      <4> QED BY <4>4, <4>7 DEF v, stop
    <3> QED BY <3>1, <3>2
  <2> QED BY <2>1, <2>2, <2>3, <2>4
<1> QED BY <1>2, <1>10 DEF from, to, chunk, base

\* What is written of a part is clear.
LEMMA ChunkClear ==
  ASSUME LiveTypeOK, NEW o \in Style, NEW part \in Fair(o), NEW data \in Seq(Int), Gives(part.uri, data)
  PROVE  \A i \in DOMAIN Chunk(part, data) : Chunk(part, data)[i] \in ClearUnits(o)
<1> DEFINE chunk == Chunk(part, data)
<1>1. MayRead(o, part)
  BY DEF Fair
<1>2. chunk \in Seq(Int) /\ \A i \in DOMAIN chunk : Begins(part) <= chunk[i] /\ chunk[i] <= Stops(part)
  BY ChunkPlaces
<1> HIDE DEF chunk
<1>3. ASSUME NEW i \in DOMAIN chunk PROVE chunk[i] \in ClearUnits(o)
  <2>1. chunk[i] \in Int
    BY <1>2
  <2> QED BY <1>1, <1>2, <2>1 DEF MayRead
<1> QED BY <1>3 DEF chunk

-----------------------------------------------------------------------------
(* What is protected is left alone. *)

Recording == {"round", "part", "poll", "close"}

\* The recorder is below the masters; the parts to be written, what has been
\* fetched for this stream and what has been written of any are clear.
BelowMasters == pc \in Recording => Dash \/ depth >= Origin[stream].nesting
TodoFair == pc = "part" => todo \in Seq(Fair(Origin[stream]))
KeptClear(o, object, data) ==
  (object[1][1] = "seg" => object[1][2] \notin Barred(o)) /\ Gives(object[1], data)
CacheClear ==
  pc \in Recording => \A object \in DOMAIN cache : KeptClear(Origin[stream], object, cache[object])
OutClear == \A s \in Streams : \A i \in DOMAIN out[s] : out[s][i] \in ClearUnits(Origin[s])
ClearInv == BelowMasters /\ TodoFair /\ CacheClear /\ OutClear

\* No stream is being recorded after the step.
LEMMA NotRecording ==
  ASSUME ClearInv, UNCHANGED <<setting, out>>, pc' \notin Recording
  PROVE  ClearInv'
<1>1. Streams' = Streams /\ Origin' = Origin /\ \A s \in Streams : ClearUnits(Origin[s])' = ClearUnits(Origin[s])
  BY DEF Streams, Origin, ClearUnits, Barred, UnitsOf
<1>2. OutClear'
  BY <1>1 DEF ClearInv, OutClear
<1> QED BY <1>2 DEF ClearInv, BelowMasters, TodoFair, CacheClear, Recording

\* The recording of a stream goes on with what it has fetched and written.
LEMMA SameStream ==
  ASSUME ClearInv, UNCHANGED <<setting, stream, depth, cache, out>>,
         pc \in Recording \/ pc' \notin Recording,
         pc' = "part" => todo' \in Seq(Fair(Origin[stream]))
  PROVE  ClearInv'
<1>1. CASE pc' \notin Recording
  BY <1>1, NotRecording
<1>2. CASE pc' \in Recording
  <2>1. Streams' = Streams /\ Origin' = Origin /\ Dash' = Dash
    BY DEF Streams, Origin, Dash
  <2>2. BelowMasters'
    BY <1>2, <2>1 DEF ClearInv, BelowMasters
  <2>3. TodoFair'
    BY <2>1 DEF TodoFair, Fair, MayRead, Begins, Stops, Base, Size, Barred, ClearUnits, UnitsOf, Part, PartOf
  <2>4. CacheClear'
    BY <1>2, <2>1 DEF ClearInv, CacheClear, KeptClear, Barred, Gives, Base, Size
  <2>5. OutClear'
    BY <2>1 DEF ClearInv, OutClear, ClearUnits, Barred, UnitsOf
  <2> QED BY <2>2, <2>3, <2>4, <2>5 DEF ClearInv
<1> QED BY <1>1, <1>2

LEMMA RaiseClear ==
  ASSUME ClearInv, NEW outcome \in Final, Raise(outcome)
  PROVE  ClearInv'
BY NotRecording DEF Raise, Goto, Final, Recording

\* A text that is not taken for a master is that of a playlist of segments.
LEMMA EnterMediaClear ==
  ASSUME LiveInv, MarkedPlaylists, ClearInv, EnterMedia
  PROVE  ClearInv'
<1>1. /\ setting' = setting /\ stream' = stream /\ depth' = depth
      /\ pc' = "round" /\ cache' = <<>> /\ out' = [out EXCEPT ![stream] = <<>>] /\ ~IsMaster
  BY DEF EnterMedia, Goto
<1>2. Streams' = Streams /\ Origin' = Origin /\ Dash' = Dash
  BY <1>1 DEF Streams, Origin, Dash
<1>3. Dash \/ depth >= Origin[stream].nesting
  <2> SUFFICES ASSUME ~Dash, depth < Origin[stream].nesting PROVE FALSE
    <3>1. stream \in Streams /\ setting \in Settings /\ depth \in Int
      BY SettingsAssumption DEF LiveInv, LiveTypeOK
    <3>2. Origin[stream].nesting \in Nat
      BY <3>1, SettingTyped DEF Style
    <3> QED BY <3>1, <3>2
  <2>1. stream \in Streams /\ setting \in Settings /\ LiveTypeOK /\ depth \in Nat /\ MaxNesting \in Nat
    BY SettingsAssumption DEF LiveInv, LiveTypeOK
  <2>2. Origin[stream].nesting <= MaxNesting /\ Origin[stream].nesting \in Nat
    BY <2>1, Marks, SettingTyped DEF Style
  <2>3. depth < MaxNesting
    BY <2>1, <2>2
  <2>4. Head(Parts(stream)).uri[1] = "list"
    BY <2>1, MasterText
  <2> QED BY <1>1, <2>3, <2>4 DEF IsMaster
<1>4. BelowMasters'
  BY <1>1, <1>2, <1>3 DEF BelowMasters
<1>5. TodoFair' /\ CacheClear'
  BY <1>1 DEF TodoFair, CacheClear
<1>6. OutClear'
  <2> SUFFICES ASSUME NEW s \in Streams, NEW i \in DOMAIN out'[s] PROVE out'[s][i] \in ClearUnits(Origin[s])
    BY <1>2 DEF OutClear, ClearUnits, Barred, UnitsOf
  <2>1. out \in [Streams -> Seq(Int)]
    BY DEF LiveInv, LiveTypeOK
  <2>2. s # stream /\ out'[s] = out[s]
    BY <1>1, <2>1
  <2> QED BY <2>2 DEF ClearInv, OutClear
<1> QED BY <1>4, <1>5, <1>6 DEF ClearInv

LEMMA BeginRoundClear ==
  ASSUME LiveInv, MarkedPlaylists, ClearInv, BeginRound
  PROVE  ClearInv'
<1>1. UNCHANGED <<setting, stream, depth, cache, out>> /\ pc = "round" /\ todo' = FirstParts(Parts(stream))
  BY DEF BeginRound
<1>2. Parts(stream) \in Seq(Fair(Origin[stream])) /\ MaxSegments \in Nat
  <2>1. stream \in Streams /\ LiveTypeOK /\ setting \in Settings
    BY DEF LiveInv, LiveTypeOK
  <2>2. Dash \/ depth >= Origin[stream].nesting
    BY <1>1 DEF ClearInv, BelowMasters, Recording
  <2> QED BY <2>1, <2>2, PartsClear, SettingTyped
<1>3. todo' \in Seq(Fair(Origin[stream]))
  <2> DEFINE S == Fair(Origin[stream])
             n == IF Len(Parts(stream)) < MaxSegments THEN Len(Parts(stream)) ELSE MaxSegments
  <2> HIDE DEF S
  <2>1. Parts(stream) \in Seq(S)
    BY <1>2 DEF S
  <2>2. n \in 0 .. Len(Parts(stream))
    BY <1>2, <2>1
  <2>3. \A i \in 1 .. n : Parts(stream)[i] \in S
    <3> HIDE DEF n
    <3> QED BY <2>1, <2>2
  <2>4. SubSeq(Parts(stream), 1, n) \in Seq(S)
    <3> HIDE DEF n
    <3>1. n \in Int
      BY <2>1, <2>2
    <3> QED BY <2>3, <3>1, SubSeqProperties
  <2> QED BY <1>1, <2>4 DEF FirstParts, S
<1> QED BY <1>1, <1>3, SameStream DEF Recording

LEMMA SkipPartClear ==
  ASSUME ClearInv, SkipPart
  PROVE  ClearInv'
<1>1. /\ UNCHANGED <<setting, stream, depth, cache, out>> /\ pc = "part"
      /\ todo # <<>> /\ todo' = Tail(todo)
  BY DEF SkipPart
<1>2. todo' \in Seq(Fair(Origin[stream]))
  <2> DEFINE S == Fair(Origin[stream])
  <2>1. todo \in Seq(S)
    BY <1>1 DEF ClearInv, TodoFair
  <2> HIDE DEF S
  <2>2. todo' \in Seq(S)
    BY <1>1, <2>1
  <2> QED BY <2>2 DEF S
<1> QED BY <1>1, <1>2, SameStream DEF Recording

\* The part at hand is clear, and so is what there is of its object.
LEMMA PartAtHand ==
  ASSUME LiveInv, ClearInv, AtPart
  PROVE  /\ Head(todo) \in Fair(Origin[stream]) /\ Tail(todo) \in Seq(Fair(Origin[stream]))
         /\ KeptClear(Origin[stream], Object(Head(todo)), Fetched(Head(todo)))
<1> DEFINE S == Fair(Origin[stream])
           part == Head(todo)
<1>1. todo \in Seq(S) /\ todo # <<>> /\ pc \in Recording
  BY DEF AtPart, ClearInv, TodoFair, Recording
<1>2. part \in S /\ Tail(todo) \in Seq(S)
  <2> HIDE DEF S
  <2> QED BY <1>1
<1> HIDE DEF part
<1>3. part \in Part /\ MayRead(Origin[stream], part)
  BY <1>2 DEF Fair
<1>4. part.uri \in Urls /\ Object(part)[1] = part.uri
  BY <1>3 DEF Part, PartOf, Object
<1>5. part.uri[1] = "seg" => part.uri[2] \notin Barred(Origin[stream])
  BY <1>3 DEF MayRead
<1>6. Gives(part.uri, Fetched(part))
  <2>1. CASE NeedsFetch(part)
    <3>1. Gives(part.uri, Content(stream, part.uri))
      BY <1>4, ContentGives DEF LiveInv
    <3> QED BY <2>1, <3>1 DEF Fetched
  <2>2. CASE ~NeedsFetch(part)
    <3>1. Object(part) \in DOMAIN cache
      BY <2>2 DEF NeedsFetch
    <3>2. KeptClear(Origin[stream], Object(part), cache[Object(part)])
      BY <1>1, <3>1 DEF ClearInv, CacheClear
    <3> QED BY <1>4, <2>2, <3>2 DEF Fetched, KeptClear
  <2> QED BY <2>1, <2>2
<1> QED BY <1>2, <1>4, <1>5, <1>6 DEF KeptClear, part

\* A part is done: what was fetched of it is kept, what is written of it is clear.
LEMMA PartDoneClear ==
  ASSUME LiveInv, ClearInv, AtPart, UNCHANGED <<setting, pc, stream, depth>>, todo' = Tail(todo),
         cache' = Updated(cache, Object(Head(todo)), Fetched(Head(todo))),
         NEW chunk \in Seq(Int), \A i \in DOMAIN chunk : chunk[i] \in ClearUnits(Origin[stream]),
         out' = [out EXCEPT ![stream] = @ \o chunk]
  PROVE  ClearInv'
<1> DEFINE o == Origin[stream]
           object == Object(Head(todo))
           data == Fetched(Head(todo))
<1>1. Streams' = Streams /\ Origin' = Origin /\ Dash' = Dash /\ pc = "part" /\ pc' = pc
  BY DEF Streams, Origin, Dash, AtPart
<1>2. BelowMasters'
  BY <1>1 DEF ClearInv, BelowMasters
<1>3. TodoFair'
  <2>1. Tail(todo) \in Seq(Fair(Origin[stream]))
    BY PartAtHand
  <2> QED BY <1>1, <2>1 DEF TodoFair, Fair, MayRead, Begins, Stops, Base, Size, Barred, ClearUnits, UnitsOf, Part, PartOf
<1>4. CacheClear'
  <2>1. KeptClear(o, object, data)
    BY PartAtHand
  <2>2. ASSUME NEW x \in DOMAIN cache PROVE KeptClear(o, x, cache[x])
    BY <1>1 DEF ClearInv, CacheClear, Recording
  <2> HIDE DEF object, data
  <2>3. DOMAIN cache' = DOMAIN cache \cup {object}
        /\ \A x \in DOMAIN cache' : cache'[x] = IF x = object THEN data ELSE cache[x]
    BY DEF Updated, object, data
  <2> HIDE DEF o
  <2>4. \A x \in DOMAIN cache' : KeptClear(o, x, cache'[x])
    <3> SUFFICES ASSUME NEW x \in DOMAIN cache' PROVE KeptClear(o, x, cache'[x])
      OBVIOUS
    <3>1. CASE x = object
      BY <2>1, <2>3, <3>1
    <3>2. CASE x # object
      BY <2>2, <2>3, <3>2
    <3> QED BY <3>1, <3>2
  <2> QED BY <1>1, <2>4 DEF CacheClear, KeptClear, Barred, Gives, Base, Size, o
<1>5. OutClear'
  <2> SUFFICES ASSUME NEW s \in Streams, NEW i \in DOMAIN out'[s] PROVE out'[s][i] \in ClearUnits(Origin[s])
    BY <1>1 DEF OutClear, ClearUnits, Barred, UnitsOf
  <2>1. out \in [Streams -> Seq(Int)] /\ stream \in Streams
    BY DEF LiveInv, LiveTypeOK
  <2>2. ASSUME NEW j \in DOMAIN out[s] PROVE out[s][j] \in ClearUnits(Origin[s])
    BY DEF ClearInv, OutClear
  <2>3. CASE s # stream
    <3>1. out'[s] = out[s]
      BY <2>1, <2>3
    <3> QED BY <2>2, <3>1
  <2>4. CASE s = stream
    <3> DEFINE before == out[stream]
    <3>1. out'[s] = before \o chunk /\ before \in Seq(Int)
      BY <2>1, <2>4
    <3> HIDE DEF before
    <3> DEFINE whole == before \o chunk
    <3>2. /\ whole \in Seq(Int) /\ Len(whole) = Len(before) + Len(chunk)
          /\ \A j \in 1 .. Len(before) : whole[j] = before[j]
          /\ \A j \in Len(before) + 1 .. Len(before) + Len(chunk) : whole[j] = chunk[j - Len(before)]
      BY <3>1, ConcatProperties
    <3>3. /\ Len(before) \in Nat /\ Len(chunk) \in Nat
          /\ DOMAIN before = 1 .. Len(before) /\ DOMAIN chunk = 1 .. Len(chunk)
      BY <3>1
    <3>4. out'[s] = whole
      BY <3>1
    <3> HIDE DEF whole
    <3>5. i \in 1 .. Len(before) + Len(chunk)
      BY <3>2, <3>4
    <3>6. CASE i <= Len(before)
      <4>1. i \in DOMAIN before /\ out'[s][i] = before[i]
        BY <3>2, <3>3, <3>4, <3>5, <3>6
      <4> QED BY <2>2, <2>4, <4>1 DEF before
    <3>7. CASE ~(i <= Len(before))
      <4>1. i - Len(before) \in 1 .. Len(chunk) /\ i \in Len(before) + 1 .. Len(before) + Len(chunk)
        BY <3>3, <3>5, <3>7
      <4>2. i - Len(before) \in DOMAIN chunk /\ out'[s][i] = chunk[i - Len(before)]
        BY <3>2, <3>3, <3>4, <4>1
      <4> QED BY <2>4, <4>2
    <3> QED BY <3>6, <3>7
  <2> QED BY <2>3, <2>4
<1> QED BY <1>2, <1>3, <1>4, <1>5 DEF ClearInv

LEMMA NothingNewClear ==
  ASSUME LiveInv, ClearInv, NothingNew
  PROVE  ClearInv'
<1>1. /\ AtPart /\ UNCHANGED <<setting, pc, stream, depth, out>> /\ todo' = Tail(todo)
      /\ cache' = Updated(cache, Object(Head(todo)), Fetched(Head(todo)))
  BY DEF NothingNew
<1>2. out' = [out EXCEPT ![stream] = @ \o <<>>] /\ <<>> \in Seq(Int)
  BY <1>1, NothingWritten
<1>3. \A i \in DOMAIN <<>> : <<>>[i] \in ClearUnits(Origin[stream])
  OBVIOUS
<1> QED BY <1>1, <1>2, <1>3, PartDoneClear

LEMMA WritePartClear ==
  ASSUME LiveInv, ClearInv, WritePart
  PROVE  ClearInv'
<1> DEFINE part == Head(todo)
           data == Fetched(part)
           chunk == Chunk(part, data)
<1>1. /\ AtPart /\ UNCHANGED <<setting, pc, stream, depth>> /\ todo' = Tail(todo)
      /\ cache' = Updated(cache, Object(part), data)
      /\ out' = [out EXCEPT ![stream] = @ \o chunk]
  BY Zenon DEF WritePart
<1>2. part \in Fair(Origin[stream]) /\ KeptClear(Origin[stream], Object(part), data)
  BY <1>1, PartAtHand
<1>3. LiveTypeOK /\ Origin[stream] \in Style
  BY SettingTyped DEF LiveInv, LiveTypeOK
<1>4. data \in Seq(Int)
  <2>1. part \in Part
    BY <1>2 DEF Fair
  <2> HIDE DEF part
  <2> QED BY <1>3, <2>1, FetchedTyped
<1>5. Gives(part.uri, data)
  BY <1>2 DEF KeptClear, Object
<1>6. chunk \in Seq(Int) /\ \A i \in DOMAIN chunk : chunk[i] \in ClearUnits(Origin[stream])
  <2>1. part \in Part
    BY <1>2 DEF Fair
  <2> HIDE DEF part, data
  <2>2. chunk \in Seq(Int)
    BY <1>3, <1>4, <2>1, SliceTyped
  <2>3. \A i \in DOMAIN chunk : chunk[i] \in ClearUnits(Origin[stream])
    BY <1>2, <1>3, <1>4, <1>5, ChunkClear
  <2> QED BY <2>2, <2>3
<1> HIDE DEF chunk
<1> QED BY <1>1, <1>6, PartDoneClear

\* Of a sidecar that is an object nothing is barred.
LEMMA SidecarObjectClear ==
  ASSUME LiveInv, MarkedPlaylists, ClearInv, SidecarObject
  PROVE  ClearInv'
<1> DEFINE data == Content(stream, <<"file", 0>>)
<1>1. setting' = setting /\ pc' \notin Recording /\ Origin[stream].direct
  BY DEF SidecarObject, Goto, Recording
<1>2. CASE out' = out
  BY <1>1, <1>2, NotRecording
<1>3. CASE out' # out
  <2>1. out' = [out EXCEPT ![stream] = data]
    BY <1>3 DEF SidecarObject
  <2>2. LiveTypeOK /\ stream \in Streams /\ out \in [Streams -> Seq(Int)] /\ setting \in Settings
    BY DEF LiveInv, LiveTypeOK
  <2>3. data \in Seq(Int) /\ \A i \in DOMAIN data : data[i] = i
    <3>1. <<"file", 0>> \in Urls
      BY DEF Urls
    <3>2. Gives(<<"file", 0>>, data)
      BY <2>2, <3>1, ContentGives
    <3>3. data \in Seq(Int)
      BY <2>2, <3>1, ContentTyped
    <3>4. Base(<<"file", 0>>) = 0
      BY DEF Base
    <3> HIDE DEF data
    <3> QED BY <3>2, <3>3, <3>4 DEF Gives
  <2>4. ClearUnits(Origin[stream]) = Nat
    BY <1>1, <2>2, Marks DEF ClearUnits
  <2>5. Streams' = Streams /\ Origin' = Origin
    BY <1>1 DEF Streams, Origin
  <2> HIDE DEF data
  <2>6. OutClear'
    <3> SUFFICES ASSUME NEW s \in Streams, NEW i \in DOMAIN out'[s] PROVE out'[s][i] \in ClearUnits(Origin[s])
      BY <2>5 DEF OutClear, ClearUnits, Barred, UnitsOf
    <3>1. CASE s # stream
      BY <2>1, <2>2, <3>1 DEF ClearInv, OutClear
    <3>2. CASE s = stream
      <4>1. out'[s] = data
        BY <2>1, <2>2, <3>2
      <4>2. i \in Nat
        BY <2>3, <4>1
      <4> QED BY <2>3, <2>4, <3>2, <4>1, <4>2
    <3> QED BY <3>1, <3>2
  <2> QED BY <1>1, <2>6 DEF ClearInv, BelowMasters, TodoFair, CacheClear, Recording
<1> QED BY <1>2, <1>3

LEMMA RecordClear ==
  ASSUME LiveInv, MarkedPlaylists, ClearInv, Record
  PROVE  ClearInv'
<1>1. CASE EnterRefused \/ EnterEmpty \/ OverBudget \/ CloseEmpty
  <2>1. \E outcome \in Final : Raise(outcome)
    BY <1>1 DEF EnterRefused, EnterEmpty, OverBudget, CloseEmpty, Final
  <2> QED BY <2>1, RaiseClear
<1>2. CASE EnterMaster
  BY <1>2, NotRecording DEF EnterMaster, Recording
<1>3. CASE EnterMedia
  BY <1>3, EnterMediaClear
<1>4. CASE BeginRound
  BY <1>4, BeginRoundClear
<1>5. CASE RefusedInRound
  BY <1>5, SameStream DEF RefusedInRound, Goto, Recording, local
<1>6. CASE SkipPart
  BY <1>6, SkipPartClear
<1>7. CASE NothingNew
  BY <1>7, NothingNewClear
<1>8. CASE WritePart
  BY <1>8, WritePartClear
<1>9. CASE EndRound
  BY <1>9, SameStream DEF EndRound, AtEnd, Goto, Recording, local
<1>10. CASE Poll
  BY <1>10, SameStream DEF Poll, Goto, Recording
<1>11. CASE Close
  BY <1>11, NotRecording DEF Close, Goto, Recording
<1>12. CASE SidecarPlaylist
  BY <1>12, NotRecording DEF SidecarPlaylist, Goto, Recording
<1>13. CASE SidecarObject
  BY <1>13, SidecarObjectClear
<1> QED BY <1>1, <1>2, <1>3, <1>4, <1>5, <1>6, <1>7, <1>8, <1>9, <1>10, <1>11, <1>12, <1>13 DEF Record

LEMMA ClearStep == LiveInv /\ MarkedPlaylists /\ ClearInv /\ [Next]_vars => ClearInv'
<1> SUFFICES ASSUME LiveInv, MarkedPlaylists, ClearInv, [Next]_vars PROVE ClearInv'
  OBVIOUS
<1>1. CASE Record
  BY <1>1, RecordClear
<1>2. CASE Stop
  BY <1>2, RaiseClear DEF Stop, Final
<1>3. CASE RequestFails
  <2>1. CASE pc = "poll"
    BY <1>3, <2>1, SameStream DEF RequestFails, Raise, Goto, Recording, local
  <2>2. CASE pc # "poll"
    BY <1>3, <2>2, RaiseClear DEF RequestFails, Final
  <2> QED BY <2>1, <2>2
<1>4. CASE PublishSome \/ UNCHANGED vars
  <2>1. UNCHANGED <<setting, pc, stream, depth, cache, out, todo>>
    BY <1>4 DEF PublishSome, Publish, vars, local
  <2>2. pc' = "part" => todo' \in Seq(Fair(Origin[stream]))
    BY <2>1 DEF ClearInv, TodoFair
  <2> QED BY <2>1, <2>2, SameStream
<1> QED BY <1>1, <1>2, <1>3, <1>4 DEF Next

LEMMA ClearInit == Init => ClearInv
BY DEF Init, ClearInv, BelowMasters, TodoFair, CacheClear, OutClear, Recording

LEMMA ClearIsEnough == LiveInv /\ ClearInv => ProtectionHolds
<1> SUFFICES ASSUME LiveInv, ClearInv PROVE OnlyClear
  BY DEF LiveInv, ProtectionHolds
<1>1. ASSUME NEW s \in Streams, NEW i \in DOMAIN out[s], NEW k \in Barred(Origin[s])
      PROVE  out[s][i] \notin UnitsOf(k)
  <2>1. out[s][i] \in ClearUnits(Origin[s])
    BY DEF ClearInv, OutClear
  <2> QED BY <2>1 DEF ClearUnits
<1>2. ASSUME NEW s \in Streams, NEW i \in DOMAIN out[s] PROVE out[s][i] \notin -1 .. -1
  <2>1. out[s][i] \in ClearUnits(Origin[s])
    BY DEF ClearInv, OutClear
  <2>2. out[s][i] \in Nat
    BY <2>1 DEF ClearUnits
  <2> QED BY <2>2
<1>3. ASSUME NEW s \in Streams, NEW u \in ToSet(out[s]) PROVE \E i \in DOMAIN out[s] : out[s][i] = u
  BY DEF ToSet
<1>4. ASSUME pc \in Recording, NEW object \in DOMAIN cache
      PROVE  object[1][1] = "seg" => object[1][2] \notin Barred(Origin[stream])
  BY <1>4 DEF ClearInv, CacheClear, KeptClear
<1> QED BY <1>1, <1>2, <1>3, <1>4 DEF OnlyClear, Recording

-----------------------------------------------------------------------------
(* What is written is in order. *)

\* The texts that the recording may still read: the one at hand, and what is
\* published of it from now on.
Ahead(u, d) == \/ u = seen /\ d = (round > 0)
               \/ LiveMode /\ d /\ u >= seen

\* Nothing of a part is written, or everything behind which it would be written is
\* skipped (written_through).
Beyond(q) ==
  \A n \in ToSet(out[stream]) :
    n < Begins(q) \/ (LiveMode /\ q.start # None /\ n <= Base(q.uri) + Through(q))
Settled(q) == Key(q) \in recorded \/ Superseded(q) \/ Beyond(q)
AllSettled ==
  pc \in Recording =>
    \A u \in 0 .. Length, d \in BOOLEAN :
      Ahead(u, d) => \A q \in ToSet(TextAt(stream, u, d)) : Settled(q)

\* What is left of a round are the parts of the text behind those that are recorded.
Rest(text, n) ==
  /\ n + Len(todo) <= Len(text)
  /\ \A i \in 1 .. n : Key(text[i]) \in recorded
  /\ \A i \in 1 .. Len(todo) : todo[i] = text[n + i]
TodoRest == pc = "part" => \E n \in Nat : Rest(TextAt(stream, seen, round > 0), n)

PollLive == pc = "poll" => LiveMode
SeenPublished ==
  /\ pc \in Recording \cup {"enter"} => seen <= edge[stream]
  /\ \A s \in Streams : Origin[s].start <= edge[s]

OrderInv == RecordedInOrder /\ AllSettled /\ TodoRest /\ PollLive /\ SeenPublished

LEMMA TextKept ==
  ASSUME UNCHANGED <<setting, depth>>
  PROVE  \A s, u, d : TextAt(s, u, d)' = TextAt(s, u, d)
BY DEF TextAt, Dash, Origin

LEMMA SettingKept ==
  ASSUME UNCHANGED setting
  PROVE  Streams' = Streams /\ Origin' = Origin /\ Dash' = Dash /\ Length' = Length /\ LiveMode' = LiveMode
BY DEF Streams, Origin, Dash, Length, LiveMode, Polls, MaxPolls

LEMMA StillPublished ==
  ASSUME SeenPublished, UNCHANGED <<setting, edge, stream, seen>>,
         pc' \in Recording \cup {"enter"} => pc \in Recording \cup {"enter"}
  PROVE  SeenPublished'
BY SettingKept DEF SeenPublished

LEMMA SeenStep == LiveInv /\ SeenPublished /\ [Next]_vars => SeenPublished'
<1> SUFFICES ASSUME LiveInv, SeenPublished, [Next]_vars PROVE SeenPublished'
  OBVIOUS
<1>1. /\ edge \in [Streams -> 0 .. Length] /\ Length \in Nat /\ stream \in Streams /\ seen \in 0 .. Length
      /\ \A s \in Streams : Origin[s].start \in Int
  <2>1. \A s \in Streams : Origin[s].start \in 0 .. Length /\ Length \in Nat
    BY SettingTyped DEF LiveInv, LiveTypeOK
  <2> QED BY <2>1, SettingTyped DEF LiveInv, LiveTypeOK
\* A text is fetched as it is published now.
<1>2. ASSUME UNCHANGED <<setting, edge, stream>>, seen' = edge[stream] PROVE SeenPublished'
  BY <1>1, <1>2, SettingKept DEF SeenPublished
<1>3. CASE EnterRefused \/ EnterEmpty \/ OverBudget \/ CloseEmpty \/ Stop
  <2>1. UNCHANGED <<setting, edge, stream, seen>> /\ pc' \in Final
    BY <1>3 DEF EnterRefused, EnterEmpty, OverBudget, CloseEmpty, Stop, Raise, Goto, local, Final
  <2> QED BY <2>1, StillPublished DEF Final, Recording
<1>4. CASE EnterMaster
  BY <1>2, <1>4 DEF EnterMaster
<1>5. CASE EnterMedia \/ BeginRound \/ RefusedInRound \/ SkipPart \/ EndRound
  <2>1. UNCHANGED <<setting, edge, stream, seen>> /\ pc \in Recording \cup {"enter"}
    BY <1>5 DEF EnterMedia, BeginRound, RefusedInRound, SkipPart, EndRound, AtEnd, Goto, local, Recording
  <2> QED BY <2>1, StillPublished
<1>6. CASE NothingNew \/ WritePart
  <2>1. UNCHANGED <<setting, edge, stream, seen, pc>>
    BY <1>6, Zenon DEF NothingNew, WritePart
  <2> QED BY <2>1, StillPublished
<1>7. CASE Poll
  BY <1>2, <1>7 DEF Poll
<1>8. CASE Close
  <2>1. CASE pc' \notin Recording \cup {"enter"}
    <3>1. UNCHANGED <<setting, edge>>
      BY <1>8 DEF Close
    <3> QED BY <2>1, <3>1, SettingKept DEF SeenPublished
  <2>2. CASE pc' \in Recording \cup {"enter"}
    <3>1. /\ UNCHANGED <<setting, edge>> /\ ~LastStream
          /\ stream' = stream + 1 /\ seen' = Origin[stream + 1].start
      BY <1>8, <2>2 DEF Close, Goto, Recording
    <3>2. stream + 1 \in Streams
      <4>1. Len(Origin) \in Nat /\ Streams = 1 .. Len(Origin) /\ stream # Len(Origin)
        BY <3>1, StreamNumbers DEF LastStream
      <4> QED BY <1>1, <4>1
    <3> QED BY <3>1, <3>2, SettingKept DEF SeenPublished
  <2> QED BY <2>1, <2>2
<1>9. CASE SidecarPlaylist
  BY <1>2, <1>9 DEF SidecarPlaylist
<1>10. CASE SidecarObject
  <2>1. UNCHANGED <<setting, edge>> /\ pc' \notin Recording \cup {"enter"}
    BY <1>10 DEF SidecarObject, Goto, Recording
  <2> QED BY <2>1, SettingKept DEF SeenPublished
<1>11. CASE RequestFails
  <2>1. /\ UNCHANGED <<setting, edge, stream, seen>>
        /\ pc' \in Recording \cup {"enter"} => pc = "poll"
    BY <1>11 DEF RequestFails, Raise, Goto, local, Recording
  <2> QED BY <2>1, StillPublished DEF Recording
<1>12. CASE PublishSome
  <2>1. PICK s \in Streams : edge' = [edge EXCEPT ![s] = @ + 1]
    BY <1>12 DEF PublishSome, Publish
  <2>2. UNCHANGED <<setting, pc, stream, seen>>
    BY <1>12 DEF PublishSome, Publish, local
  <2>3. \A r \in Streams : edge'[r] \in Int /\ edge[r] <= edge'[r] /\ edge[r] \in Int
    <3>1. \A r \in Streams : edge[r] \in Int /\ edge'[r] = IF r = s THEN edge[r] + 1 ELSE edge[r]
      BY <1>1, <2>1
    <3> QED BY <3>1
  <2> QED BY <1>1, <2>2, <2>3, SettingKept DEF SeenPublished
<1>13. CASE UNCHANGED vars
  BY <1>13, StillPublished DEF vars, local
<1> QED BY <1>3, <1>4, <1>5, <1>6, <1>7, <1>8, <1>9, <1>10, <1>11, <1>12, <1>13 DEF Next, Record

\* No stream is being recorded after the step.
LEMMA NothingMore ==
  ASSUME OrderInv, UNCHANGED <<setting, out>>, pc' \notin Recording
  PROVE  RecordedInOrder' /\ AllSettled' /\ TodoRest' /\ PollLive'
<1>1. RecordedInOrder'
  BY SettingKept DEF OrderInv, RecordedInOrder
<1> QED BY <1>1 DEF AllSettled, TodoRest, PollLive, Recording

\* Nothing is written.
LEMMA StillSettled ==
  ASSUME LiveInv, OrderInv, pc \in Recording, UNCHANGED <<setting, stream, depth, through, filled, out>>,
         recorded \subseteq recorded',
         \A u \in 0 .. Length, d \in BOOLEAN : Ahead(u, d)' => Ahead(u, d)
  PROVE  RecordedInOrder' /\ AllSettled'
<1>1. Streams' = Streams /\ Origin' = Origin /\ Dash' = Dash /\ Length' = Length /\ LiveMode' = LiveMode
  BY SettingKept
<1>2. RecordedInOrder'
  BY <1>1 DEF OrderInv, RecordedInOrder
<1>3. ASSUME NEW q, Settled(q) PROVE Settled(q)'
  BY <1>1, <1>3 DEF Settled, Key, Superseded, Beyond, Through, Object
<1>4. ASSUME NEW u \in 0 .. Length, NEW d \in BOOLEAN, Ahead(u, d)', NEW q \in ToSet(TextAt(stream, u, d))
      PROVE  Settled(q)'
  <2>1. Settled(q)
    BY <1>4 DEF OrderInv, AllSettled
  <2> QED BY <1>3, <2>1
<1>5. \A u, d : TextAt(stream, u, d)' = TextAt(stream, u, d)
  BY TextKept DEF TextAt, Dash, Origin
<1> QED BY <1>1, <1>2, <1>4, <1>5 DEF AllSettled

\* The step leaves the recorder where it is, or ends the round.
LEMMA SameRound ==
  ASSUME LiveInv, OrderInv, UNCHANGED <<setting, stream, local, out>>,
         pc' = pc \/ pc' \notin Recording \/ (pc \in Recording /\ pc' \in {"poll", "close"}),
         pc' = "poll" => LiveMode
  PROVE  RecordedInOrder' /\ AllSettled' /\ TodoRest' /\ PollLive'
<1>1. UNCHANGED <<setting, stream, depth, through, filled, out, recorded, todo, seen, round>>
  BY DEF local
<1>2. LiveMode' = LiveMode
  BY SettingKept
<1>3. CASE pc' \notin Recording
  BY <1>1, <1>3, NothingMore
<1>4. CASE pc' \in Recording
  <2>1. pc \in Recording
    BY <1>4
  <2>2. \A u \in 0 .. Length, d \in BOOLEAN : Ahead(u, d)' => Ahead(u, d)
    BY <1>1, <1>2 DEF Ahead
  <2>3. RecordedInOrder' /\ AllSettled'
    BY <1>1, <2>1, <2>2, StillSettled
  <2>4. \A u, d : TextAt(stream, u, d)' = TextAt(stream, u, d)
    BY <1>1 DEF TextAt, Dash, Origin
  <2>5. TodoRest'
    <3> SUFFICES ASSUME pc' = "part" PROVE TodoRest'
      BY DEF TodoRest
    <3> DEFINE text == TextAt(stream, seen, round > 0)
    <3>1. PICK n \in Nat : Rest(text, n)
      BY <1>4 DEF OrderInv, TodoRest
    <3>2. text' = text
      BY <1>1 DEF TextAt, Dash, Origin
    <3> HIDE DEF text
    <3>3. Rest(text, n)'
      BY <1>1, <3>1, <3>2 DEF Rest, Key
    <3> QED BY <3>3 DEF TodoRest, text
  <2>6. PollLive'
    BY <1>2, <1>4 DEF PollLive
  <2> QED BY <2>3, <2>5, <2>6
<1> QED BY <1>3, <1>4

LEMMA EnterMediaOrder ==
  ASSUME LiveInv, OrderInv, EnterMedia
  PROVE  RecordedInOrder' /\ AllSettled' /\ TodoRest' /\ PollLive'
<1>1. UNCHANGED <<setting, stream>> /\ pc' = "round" /\ out' = [out EXCEPT ![stream] = <<>>]
  BY DEF EnterMedia, Goto
<1>2. Streams' = Streams /\ Length' = Length
  BY <1>1, SettingKept
<1>3. out \in [Streams -> Seq(Int)] /\ stream \in Streams
  BY DEF LiveInv, LiveTypeOK
<1>4. out'[stream] = <<>> /\ \A s \in Streams : s # stream => out'[s] = out[s]
  BY <1>1, <1>3
<1>5. RecordedInOrder'
  <2> SUFFICES ASSUME NEW s \in Streams, NEW i \in DOMAIN out'[s], NEW j \in DOMAIN out'[s], i < j
               PROVE  out'[s][i] < out'[s][j]
    BY <1>2 DEF RecordedInOrder
  <2>1. s # stream
    BY <1>4
  <2> QED BY <1>4, <2>1 DEF OrderInv, RecordedInOrder
<1>6. \A q : Beyond(q)'
  BY <1>1, <1>4 DEF Beyond, ToSet
<1>7. AllSettled'
  BY <1>6 DEF AllSettled, Settled
<1> QED BY <1>1, <1>5, <1>7 DEF TodoRest, PollLive

LEMMA BeginRoundOrder ==
  ASSUME LiveInv, OrderInv, BeginRound
  PROVE  RecordedInOrder' /\ AllSettled' /\ TodoRest' /\ PollLive'
<1>1. /\ UNCHANGED <<setting, stream, depth, through, filled, out, recorded, seen, round>>
      /\ pc = "round" /\ pc' = "part" /\ todo' = FirstParts(Parts(stream))
  BY DEF BeginRound, Goto
<1>2. \A u \in 0 .. Length, d \in BOOLEAN : Ahead(u, d)' => Ahead(u, d)
  BY <1>1, SettingKept DEF Ahead
<1>3. RecordedInOrder' /\ AllSettled'
  BY <1>1, <1>2, StillSettled DEF Recording
<1>4. LiveTypeOK /\ stream \in Streams /\ MaxSegments \in Nat
  BY SettingTyped DEF LiveInv, LiveTypeOK
<1> DEFINE text == TextAt(stream, seen, round > 0)
           n == IF Len(text) < MaxSegments THEN Len(text) ELSE MaxSegments
<1>5. text = Parts(stream) /\ text \in Seq(Part)
  BY <1>4, PartsAt, PartsTyped
<1>6. text' = text
  BY <1>1 DEF TextAt, Dash, Origin
<1> HIDE DEF text
<1>7. todo' = SubSeq(text, 1, n) /\ n \in Nat /\ n <= Len(text) /\ Len(text) \in Nat
  BY <1>1, <1>4, <1>5 DEF FirstParts
<1> HIDE DEF n
<1>8. Len(todo') = n /\ \A i \in 1 .. n : todo'[i] = text[i]
  <2>1. 1 \in Int /\ n \in Int /\ \A i \in 1 .. n : text[i] \in Part
    BY <1>5, <1>7
  <2>2. /\ Len(SubSeq(text, 1, n)) = IF 1 <= n THEN n - 1 + 1 ELSE 0
        /\ \A i \in 1 .. n - 1 + 1 : SubSeq(text, 1, n)[i] = text[1 + i - 1]
    BY <2>1, SubSeqProperties
  <2>3. n - 1 + 1 = n /\ (1 <= n \/ n = 0) /\ \A i \in 1 .. n : 1 + i - 1 = i
    BY <1>7
  <2> QED BY <1>7, <2>2, <2>3
<1>9. Rest(text, 0)'
  <2>1. 0 + Len(todo') <= Len(text)
    BY <1>7, <1>8
  <2>2. \A i \in 1 .. Len(todo') : todo'[i] = text[0 + i]
    BY <1>8
  <2>3. \A i \in 1 .. 0 : FALSE
    OBVIOUS
  <2> QED BY <1>6, <2>1, <2>2, <2>3 DEF Rest
<1>10. TodoRest'
  BY <1>9 DEF TodoRest, text
<1> QED BY <1>1, <1>3, <1>10 DEF PollLive

\* One part of a round is done.
LEMMA RestMoves ==
  ASSUME LiveInv, OrderInv, pc = "part", todo # <<>>,
         UNCHANGED <<setting, pc, stream, depth, seen, round>>, todo' = Tail(todo),
         recorded' = recorded \cup {Key(Head(todo))}
  PROVE  TodoRest'
<1> DEFINE text == TextAt(stream, seen, round > 0)
<1>1. PICK n \in Nat : Rest(text, n)
  BY DEF OrderInv, TodoRest
<1>2. text' = text
  BY DEF TextAt, Dash, Origin
<1>3. text \in Seq(Part)
  <2>1. LiveTypeOK /\ stream \in Streams
    BY DEF LiveInv, LiveTypeOK
  <2> QED BY <2>1, PartsAt, PartsTyped
<1> HIDE DEF text
<1>4. todo \in Seq(Part) /\ Len(text) \in Nat
  BY <1>3 DEF LiveInv, LiveTypeOK
<1>5. /\ Len(todo) \in Nat \ {0} /\ Head(todo) = todo[1] /\ Len(todo') = Len(todo) - 1
      /\ \A i \in 1 .. Len(todo) - 1 : todo'[i] = todo[i + 1]
  BY <1>4
<1>6. /\ n + Len(todo) <= Len(text)
      /\ \A i \in 1 .. n : Key(text[i]) \in recorded
      /\ \A i \in 1 .. Len(todo) : todo[i] = text[n + i]
  BY <1>1 DEF Rest
<1>7. \A x : Key(x)' = Key(x)
  BY DEF Key
<1>8. (n + 1) + Len(todo') <= Len(text)
  BY <1>4, <1>5, <1>6
<1>9. \A i \in 1 .. n + 1 : Key(text[i]) \in recorded'
  <2>1. text[n + 1] = Head(todo)
    BY <1>5, <1>6
  <2> SUFFICES ASSUME NEW i \in 1 .. n + 1 PROVE Key(text[i]) \in recorded'
    OBVIOUS
  <2>2. i \in 1 .. n \/ i = n + 1
    OBVIOUS
  <2> QED BY <1>6, <2>1, <2>2
<1>10. \A i \in 1 .. Len(todo') : todo'[i] = text[(n + 1) + i]
  <2> SUFFICES ASSUME NEW i \in 1 .. Len(todo) - 1 PROVE todo'[i] = text[(n + 1) + i]
    BY <1>5
  <2>1. i + 1 \in 1 .. Len(todo) /\ n + (i + 1) = (n + 1) + i
    BY <1>5
  <2> QED BY <1>5, <1>6, <2>1
<1>11. Rest(text, n + 1)'
  BY <1>2, <1>7, <1>8, <1>9, <1>10 DEF Rest
<1>12. n + 1 \in Nat
  OBVIOUS
<1> QED BY <1>11, <1>12 DEF TodoRest, text

LEMMA NotWrittenOrder ==
  ASSUME LiveInv, OrderInv, SkipPart \/ NothingNew
  PROVE  RecordedInOrder' /\ AllSettled' /\ TodoRest' /\ PollLive'
<1>1. /\ UNCHANGED <<setting, pc, stream, depth, seen, round, through, filled, out>>
      /\ todo' = Tail(todo) /\ recorded' = recorded \cup {Key(Head(todo))}
      /\ pc = "part" /\ todo # <<>>
  BY Zenon DEF SkipPart, NothingNew, AtPart
<1>2. \A u \in 0 .. Length, d \in BOOLEAN : Ahead(u, d)' => Ahead(u, d)
  BY <1>1, SettingKept DEF Ahead
<1>3. RecordedInOrder' /\ AllSettled'
  BY <1>1, <1>2, StillSettled DEF Recording
<1>4. TodoRest'
  BY <1>1, RestMoves
<1> QED BY <1>1, <1>3, <1>4 DEF PollLive

\* A poll looks at a later text.
LEMMA PollOrder ==
  ASSUME LiveInv, OrderInv, Poll
  PROVE  RecordedInOrder' /\ AllSettled' /\ TodoRest' /\ PollLive'
<1>1. /\ UNCHANGED <<setting, stream, depth, through, filled, out, recorded>>
      /\ pc = "poll" /\ pc' = "round" /\ seen' = edge[stream] /\ round' = round + 1
  BY DEF Poll, Goto
<1>2. seen <= edge[stream] /\ LiveMode /\ LiveMode' /\ seen \in Int /\ edge[stream] \in Int /\ round \in Nat
  <2>1. seen <= edge[stream] /\ LiveMode
    BY <1>1 DEF OrderInv, SeenPublished, PollLive, Recording
  <2> QED BY <1>1, <2>1, EdgeSeen, SettingKept DEF LiveInv, LiveTypeOK
<1>3. \A u \in 0 .. Length, d \in BOOLEAN : Ahead(u, d)' => Ahead(u, d)
  BY <1>1, <1>2 DEF Ahead
<1>4. RecordedInOrder' /\ AllSettled'
  BY <1>1, <1>3, StillSettled DEF Recording
<1> QED BY <1>1, <1>4 DEF TodoRest, PollLive

\* An object is in order.
LEMMA SidecarObjectOrder ==
  ASSUME LiveInv, OrderInv, SidecarObject
  PROVE  RecordedInOrder' /\ AllSettled' /\ TodoRest' /\ PollLive'
<1> DEFINE data == Content(stream, <<"file", 0>>)
<1>1. setting' = setting /\ pc' \notin Recording /\ (out' = out \/ out' = [out EXCEPT ![stream] = data])
  BY DEF SidecarObject, Goto, Recording
<1>2. LiveTypeOK /\ stream \in Streams /\ out \in [Streams -> Seq(Int)]
  BY DEF LiveInv, LiveTypeOK
<1>3. data \in Seq(Int) /\ \A i \in DOMAIN data : data[i] = i
  <2>1. <<"file", 0>> \in Urls
    BY DEF Urls
  <2>2. Gives(<<"file", 0>>, data) /\ data \in Seq(Int)
    BY <1>2, <2>1, ContentGives, ContentTyped
  <2>3. Base(<<"file", 0>>) = 0
    BY DEF Base
  <2> HIDE DEF data
  <2> QED BY <2>2, <2>3 DEF Gives
<1> HIDE DEF data
<1>4. RecordedInOrder'
  <2> SUFFICES ASSUME NEW s \in Streams, NEW i \in DOMAIN out'[s], NEW j \in DOMAIN out'[s], i < j
               PROVE  out'[s][i] < out'[s][j]
    BY <1>1, SettingKept DEF RecordedInOrder
  <2>1. CASE out'[s] = out[s]
    BY <2>1 DEF OrderInv, RecordedInOrder
  <2>2. CASE out'[s] = data
    BY <1>3, <2>2
  <2>3. out'[s] = out[s] \/ out'[s] = data
    BY <1>1, <1>2
  <2> QED BY <2>1, <2>2, <2>3
<1> QED BY <1>1, <1>4 DEF AllSettled, TodoRest, PollLive, Recording

LEMMA ThroughTyped ==
  ASSUME LiveTypeOK, NEW q
  PROVE  Through(q) \in Nat
<1>1. CASE Object(q) \in DOMAIN through
  <2>1. through[Object(q)] \in Nat
    BY <1>1, DictValue DEF LiveTypeOK
  <2> QED BY <1>1, <2>1 DEF Through
<1>2. CASE Object(q) \notin DOMAIN through
  BY <1>2 DEF Through
<1> QED BY <1>1, <1>2

\* A range is written from where the last one of its object has come to.
LEMMA SliceGoesOn ==
  ASSUME LiveTypeOK, NEW part \in Part, NEW data \in Seq(Int), LiveMode, part.start # None,
         ~Slice(part, data).none
  PROVE  Through(part) <= Slice(part, data).from /\ Through(part) <= Slice(part, data).to
<1>1. part.start \in Nat /\ part.length \in Offsets /\ Len(data) \in Nat /\ Through(part) \in Nat
  BY ThroughTyped DEF Part, PartOf, Offsets
<1> DEFINE size == Len(data)
           end == IF part.length = None THEN size ELSE part.start + part.length
           begin == IF Through(part) > part.start THEN Through(part) ELSE part.start
<1>2. /\ Slice(part, data).from = begin /\ Slice(part, data).to = IF end > size THEN size ELSE end
      /\ ~(begin >= end \/ begin >= size)
  <2> HIDE DEF size
  <2> QED BY DEF Slice, size
<1>3. /\ size \in Int /\ end \in Int /\ begin \in Int /\ Through(part) <= begin
  <2>1. part.length # None => part.length \in Nat
    BY <1>1 DEF Offsets
  <2> QED BY <1>1, <2>1
<1> HIDE DEF size, end, begin
<1> QED BY <1>1, <1>2, <1>3

\* What is written of a part is behind everything that is.
LEMMA WritePartOrder ==
  ASSUME LiveInv, MarkedPlaylists, Orderly, ClearInv, OrderInv, WritePart
  PROVE  RecordedInOrder' /\ AllSettled' /\ TodoRest' /\ PollLive'
<1> DEFINE part == Head(todo)
           data == Fetched(part)
           chunk == Chunk(part, data)
           from == Slice(part, data).from
           to == Slice(part, data).to
           base == Base(part.uri)
           text == TextAt(stream, seen, round > 0)
           before == out[stream]
<1>1. /\ AtPart /\ UNCHANGED <<setting, pc, stream, seen, depth, round>> /\ todo' = Tail(todo)
      /\ ~Slice(part, data).none
      /\ through' = IF part.start = None THEN through ELSE Updated(through, Object(part), to)
      /\ recorded' = recorded \cup {Key(part)}
      /\ filled' = IF part.partial THEN filled \cup {part.occurrence} ELSE filled
      /\ out' = [out EXCEPT ![stream] = @ \o chunk]
  BY Zenon DEF WritePart
<1>2. /\ pc = "part" /\ todo # <<>> /\ Key(part) \notin recorded /\ ~Superseded(part)
  BY <1>1 DEF AtPart
<1>3. /\ LiveTypeOK /\ Origin[stream] \in Style /\ stream \in Streams /\ out \in [Streams -> Seq(Int)]
      /\ Length \in Nat /\ seen \in 0 .. Length /\ round \in Nat
  BY SettingTyped DEF LiveInv, LiveTypeOK
<1>4. part \in Fair(Origin[stream]) /\ KeptClear(Origin[stream], Object(part), data)
  BY <1>1, PartAtHand
<1>5. part \in Part /\ data \in Seq(Int) /\ Gives(part.uri, data)
  <2>1. part \in Part
    BY <1>4 DEF Fair
  <2>2. Gives(part.uri, data)
    BY <1>4 DEF KeptClear, Object
  <2> HIDE DEF part
  <2> QED BY <1>3, <2>1, <2>2, FetchedTyped
<1>6. /\ chunk \in Seq(Int) /\ from \in Nat /\ to \in Nat
      /\ \A i \in DOMAIN chunk :
           /\ i \in Nat \ {0} /\ chunk[i] = base + from + i /\ chunk[i] <= base + to
           /\ Begins(part) <= chunk[i] /\ chunk[i] <= Stops(part)
  <2> HIDE DEF part, data
  <2> QED BY <1>3, <1>4, <1>5, ChunkPlaces
<1>7. base \in Int /\ Begins(part) \in Int /\ Stops(part) \in Int
  BY <1>5, PartPlaces
<1>8. LiveMode /\ part.start # None => Through(part) <= from /\ Through(part) <= to
  <2> HIDE DEF part, data
  <2> QED BY <1>1, <1>3, <1>5, SliceGoesOn
<1>9. Through(part) \in Nat
  BY <1>3, ThroughTyped
<1>10. /\ text \in Seq(Part) /\ InSequence(text)
       /\ Dash \/ depth >= Origin[stream].nesting
  <2>1. Dash \/ depth >= Origin[stream].nesting
    BY <1>2 DEF ClearInv, BelowMasters, Recording
  <2>2. InSequence(Parts(stream)) /\ Parts(stream) \in Seq(Part)
    BY <1>3, <2>1, PartsClear, PartsTyped
  <2> QED BY <1>3, <2>1, <2>2, PartsAt
<1>11. PICK n \in Nat : Rest(text, n)
  BY <1>2 DEF OrderInv, TodoRest
<1>12. /\ n + 1 \in DOMAIN text /\ text[n + 1] = part
       /\ \A i \in 1 .. n : Key(text[i]) \in recorded
  <2> HIDE DEF text
  <2>1. todo \in Seq(Part) /\ todo # <<>>
    BY <1>2, <1>3 DEF LiveTypeOK
  <2>2. Len(todo) \in Nat \ {0} /\ part = todo[1]
    BY <2>1
  <2>3. n + Len(todo) <= Len(text) /\ Len(text) \in Nat /\ DOMAIN text = 1 .. Len(text)
    BY <1>10, <1>11 DEF Rest
  <2>4. n + 1 \in 1 .. Len(text) /\ 1 \in 1 .. Len(todo)
    BY <2>2, <2>3
  <2> HIDE DEF part
  <2> QED BY <1>11, <2>2, <2>3, <2>4 DEF Rest
<1>13. part \in ToSet(text)
  <2> HIDE DEF text, part
  <2> QED BY <1>12 DEF ToSet
<1> HIDE DEF part, data, chunk, from, to, base
<1>14. Beyond(part)
  <2> DEFINE d == round > 0
  <2>1. d \in BOOLEAN /\ Ahead(seen, d)
    BY DEF Ahead
  <2>2. Settled(part)
    BY <1>2, <1>3, <1>13, <2>1 DEF OrderInv, AllSettled, Recording
  <2> QED BY <1>2, <2>2 DEF Settled
<1>15. before \in Seq(Int)
  BY <1>3
<1>16. ASSUME NEW m \in ToSet(before), NEW i \in DOMAIN chunk PROVE m \in Int /\ m < chunk[i]
  <2>1. m \in Int /\ chunk[i] \in Int
    BY <1>6, <1>15 DEF ToSet
  <2>2. CASE m < Begins(part)
    BY <1>6, <1>7, <2>1, <2>2
  <2>3. CASE LiveMode /\ part.start # None /\ m <= base + Through(part)
    <3>1. chunk[i] = base + from + i /\ i \in Nat \ {0} /\ Through(part) <= from
      BY <1>6, <1>8, <2>3
    <3>2. \A b, f, x, t, y \in Int : t <= f /\ x > 0 /\ y <= b + t => y < b + f + x
      OBVIOUS
    <3>3. base \in Int /\ from \in Int /\ i \in Int /\ i > 0 /\ Through(part) \in Int
      BY <1>6, <1>7, <1>9
    <3>4. m < base + from + i
      BY <2>1, <2>3, <3>1, <3>2, <3>3
    <3> QED BY <2>1, <3>1, <3>4
  <2> QED BY <1>14, <2>1, <2>2, <2>3 DEF Beyond, base
<1> HIDE DEF before
<1> DEFINE whole == before \o chunk
<1>17. /\ whole \in Seq(Int) /\ Len(before) \in Nat /\ Len(chunk) \in Nat
       /\ DOMAIN whole = 1 .. Len(before) + Len(chunk)
       /\ DOMAIN before = 1 .. Len(before) /\ DOMAIN chunk = 1 .. Len(chunk)
       /\ \A i \in 1 .. Len(before) : whole[i] = before[i]
       /\ \A i \in Len(before) + 1 .. Len(before) + Len(chunk) : whole[i] = chunk[i - Len(before)]
  BY <1>6, <1>15, ConcatProperties
<1>18. out'[stream] = whole /\ \A s \in Streams : s # stream => out'[s] = out[s]
  BY <1>1, <1>3 DEF before
<1> HIDE DEF whole
<1>19. ASSUME NEW i \in DOMAIN whole
       PROVE  \/ i \in DOMAIN before /\ whole[i] = before[i] /\ whole[i] \in ToSet(before)
              \/ /\ i - Len(before) \in DOMAIN chunk /\ whole[i] = chunk[i - Len(before)]
                 /\ ~(i \in DOMAIN before)
  <2>1. CASE i <= Len(before)
    BY <1>17, <2>1 DEF ToSet
  <2>2. CASE ~(i <= Len(before))
    <3>1. i \in Len(before) + 1 .. Len(before) + Len(chunk) /\ i - Len(before) \in 1 .. Len(chunk)
      BY <1>17, <2>2
    <3> QED BY <1>17, <2>2, <3>1
  <2> QED BY <2>1, <2>2
<1>20. RecordedInOrder'
  <2> SUFFICES ASSUME NEW s \in Streams, NEW i \in DOMAIN out'[s], NEW j \in DOMAIN out'[s], i < j
               PROVE  out'[s][i] < out'[s][j]
    BY <1>1, SettingKept DEF RecordedInOrder
  <2>1. CASE s # stream
    BY <1>18, <2>1 DEF OrderInv, RecordedInOrder
  <2>2. CASE s = stream
    <3>1. i \in DOMAIN whole /\ j \in DOMAIN whole /\ i \in Int /\ j \in Int
      BY <1>17, <1>18, <2>2
    <3>2. CASE j \in DOMAIN before
      <4>1. i \in DOMAIN before
        BY <1>17, <3>1, <3>2
      <4>2. whole[i] = before[i] /\ whole[j] = before[j]
        BY <1>17, <3>2, <4>1
      <4>3. before[i] < before[j]
        BY <1>3, <3>2, <4>1 DEF OrderInv, RecordedInOrder, before
      <4> QED BY <1>18, <2>2, <4>2, <4>3
    <3>3. CASE j \notin DOMAIN before /\ i \in DOMAIN before
      <4>1. whole[i] \in ToSet(before)
        BY <1>19, <3>1, <3>3
      <4>2. j - Len(before) \in DOMAIN chunk /\ whole[j] = chunk[j - Len(before)]
        BY <1>19, <3>1, <3>3
      <4> QED BY <1>16, <1>18, <2>2, <4>1, <4>2
    <3>4. CASE j \notin DOMAIN before /\ i \notin DOMAIN before
      <4> DEFINE x == i - Len(before)
                 y == j - Len(before)
      <4>1. x \in DOMAIN chunk /\ whole[i] = chunk[x] /\ y \in DOMAIN chunk /\ whole[j] = chunk[y]
        BY <1>19, <3>1, <3>4
      <4>2. x < y
        BY <1>17, <3>1
      <4> HIDE DEF x, y
      <4>3. chunk[x] = base + from + x /\ chunk[y] = base + from + y /\ x \in Int /\ y \in Int
        BY <1>6, <4>1
      <4>4. base + from + x < base + from + y
        BY <1>6, <1>7, <4>2, <4>3
      <4> QED BY <1>18, <2>2, <4>1, <4>3, <4>4
    <3> QED BY <3>2, <3>3, <3>4
  <2> QED BY <2>1, <2>2
<1>21. ASSUME NEW m \in ToSet(out'[stream])
       PROVE  m \in ToSet(before) \/ (m \in Int /\ m <= base + to /\ m <= Stops(part))
  <2>1. PICK i \in DOMAIN whole : m = whole[i]
    BY <1>18 DEF ToSet
  <2>2. CASE i \in DOMAIN before
    BY <1>19, <2>1, <2>2
  <2>3. CASE i \notin DOMAIN before
    <3>1. i - Len(before) \in DOMAIN chunk /\ m = chunk[i - Len(before)]
      BY <1>19, <2>1, <2>3
    <3>2. m \in Int
      BY <1>6, <3>1
    <3> QED BY <1>6, <3>1, <3>2
  <2> QED BY <2>2, <2>3
\* Ranges go on.
<1>22. ASSUME NEW q
       PROVE  /\ Through(q)' = IF part.start # None /\ Object(q) = Object(part) THEN to ELSE Through(q)
              /\ LiveMode => Through(q) <= Through(q)'
              /\ Through(q)' \in Nat /\ Through(q) \in Nat
  <2>1. Through(q) \in Nat
    BY <1>3, ThroughTyped
  <2>2. Object(q)' = Object(q)
    BY DEF Object
  <2>3. CASE part.start = None
    BY <1>1, <2>1, <2>2, <2>3 DEF Through
  <2>4. CASE part.start # None
    <3>1. /\ DOMAIN through' = DOMAIN through \cup {Object(part)}
          /\ \A x \in DOMAIN through' : through'[x] = IF x = Object(part) THEN to ELSE through[x]
      BY <1>1, <2>4 DEF Updated
    <3>2. CASE Object(q) = Object(part)
      <4>1. Through(q)' = to
        BY <2>2, <3>1, <3>2 DEF Through
      <4>2. Through(q) = Through(part)
        BY <3>2 DEF Through
      <4> QED BY <1>6, <1>8, <2>1, <2>4, <3>2, <4>1, <4>2
    <3>3. CASE Object(q) # Object(part)
      <4>1. Through(q)' = Through(q)
        BY <2>2, <3>1, <3>3 DEF Through
      <4> QED BY <2>1, <3>3, <4>1
    <3> QED BY <3>2, <3>3
  <2> QED BY <2>3, <2>4
<1>23. Streams' = Streams /\ Origin' = Origin /\ Dash' = Dash /\ Length' = Length /\ LiveMode' = LiveMode
  BY <1>1, SettingKept
<1>24. ASSUME NEW u \in 0 .. Length, NEW d \in BOOLEAN, Ahead(u, d), NEW q \in ToSet(TextAt(stream, u, d))
       PROVE  Settled(q)'
  <2>1. Settled(q)
    BY <1>2, <1>24 DEF OrderInv, AllSettled, Recording
  <2>2. q \in Part
    <3>1. TextAt(stream, u, d) \in Seq(Fair(Origin[stream]))
      BY <1>3, <1>10, TextFair
    <3>2. q \in Fair(Origin[stream])
      BY <3>1 DEF ToSet
    <3> QED BY <3>2 DEF Fair
  <2>3. Begins(q) \in Int /\ Base(q.uri) \in Int
    BY <2>2, PartPlaces
  <2>4. CASE Key(q) \in recorded'
    BY <2>4 DEF Settled, Key
  <2>5. CASE Superseded(q)
    <3>1. filled \subseteq filled'
      BY <1>1
    <3> QED BY <2>5, <3>1 DEF Settled, Superseded
  <2>6. CASE Beyond(q)
    \* What was written before is still before it.
    <3>1. ASSUME NEW m \in ToSet(before)
          PROVE  m < Begins(q) \/ (LiveMode /\ q.start # None /\ m <= Base(q.uri) + Through(q)')
      <4>1. m < Begins(q) \/ (LiveMode /\ q.start # None /\ m <= Base(q.uri) + Through(q))
        BY <2>6 DEF Beyond, before
      <4>2. ASSUME LiveMode, m <= Base(q.uri) + Through(q) PROVE m <= Base(q.uri) + Through(q)'
        <5> DEFINE t1 == Through(q)
                   t2 == Through(q)'
        <5>1. t1 <= t2 /\ t1 \in Int /\ t2 \in Int /\ m \in Int
          BY <1>15, <1>22, <4>2 DEF ToSet
        <5> HIDE DEF t1, t2
        <5>2. m <= Base(q.uri) + t1 => m <= Base(q.uri) + t2
          BY <2>3, <5>1
        <5> QED BY <4>2, <5>2 DEF t1, t2
      <4> QED BY <4>1, <4>2
    <3>2. CASE \A m \in ToSet(out'[stream]) :
                 m < Begins(q) \/ (LiveMode /\ q.start # None /\ m <= Base(q.uri) + Through(q)')
      <4>1. Beyond(q)'
        BY <1>1, <1>23, <3>2 DEF Beyond
      <4> QED BY <4>1 DEF Settled
    <3>3. CASE Begins(q) > Stops(part)
      <4>1. ASSUME NEW m \in ToSet(out'[stream])
            PROVE  m < Begins(q) \/ (LiveMode /\ q.start # None /\ m <= Base(q.uri) + Through(q)')
        BY <1>7, <1>21, <2>3, <3>1, <3>3
      <4> QED BY <3>2, <4>1
    <3>4. CASE q \in ToSet(text) /\ Begins(q) <= Stops(part)
      <4>1. PICK i \in DOMAIN text : q = text[i]
        BY <3>4 DEF ToSet
      <4>2. i \in Nat /\ i >= 1
        BY <1>10, <4>1
      <4>3. ~(n + 1 < i)
        <5>1. n + 1 < i => Stops(part) < Begins(q)
          BY <1>10, <1>12, <4>1 DEF InSequence
        <5> QED BY <1>7, <2>3, <3>4, <5>1
      <4>4. i \in 1 .. n \/ i = n + 1
        BY <4>2, <4>3
      <4>5. Key(q) \in recorded'
        BY <1>1, <1>12, <4>1, <4>4
      <4> QED BY <2>4, <4>5
    <3>5. CASE q \notin ToSet(text) /\ Begins(q) <= Stops(part)
      <4> DEFINE t == round > 0
      <4>1. t \in BOOLEAN /\ text = TextAt(stream, seen, t)
        OBVIOUS
      <4>2. LiveMode /\ d /\ u >= seen
        BY <1>24, <3>5 DEF Ahead
      <4>3. seen \in 0 .. u
        BY <1>3, <4>2
      <4> HIDE DEF t, text
      <4>4. Covers(ToSet(text), ToSet(TextAt(stream, u, d)))
        <5>1. t => d
          BY <4>2
        <5>2. Covers(ToSet(TextAt(stream, seen, t)), ToSet(TextAt(stream, u, d)))
          BY <1>3, <1>10, <4>1, <4>3, <5>1, TextCovers
        <5> QED BY <4>1, <5>2
      <4>5. Mates(part, q)
        BY <1>13, <3>5, <4>4 DEF Covers
      <4>6. CASE q.start = None
        <5>1. ~q.partial /\ q.length = None /\ q.occurrence \in filled'
          BY <1>1, <4>5, <4>6 DEF Mates
        <5>2. Superseded(q)'
          BY <4>6, <5>1 DEF Superseded
        <5> QED BY <5>2 DEF Settled
      <4>7. CASE q.start # None
        <5>1. part.start # None /\ Object(q) = Object(part) /\ Base(q.uri) = base
          BY <4>5, <4>7 DEF Mates, Object, base
        <5>2. Through(q)' = to
          BY <1>22, <5>1
        <5>3. ASSUME NEW m \in ToSet(out'[stream])
              PROVE  m < Begins(q) \/ (LiveMode /\ q.start # None /\ m <= Base(q.uri) + Through(q)')
          BY <1>21, <3>1, <4>2, <4>7, <5>1, <5>2
        <5> QED BY <3>2, <5>3
      <4> QED BY <4>6, <4>7
    <3>6. Begins(q) > Stops(part) \/ Begins(q) <= Stops(part)
      BY <1>7, <2>3
    <3> QED BY <3>3, <3>4, <3>5, <3>6
  <2> QED BY <1>1, <2>1, <2>4, <2>5, <2>6 DEF Settled
<1>25. AllSettled'
  <2>1. \A u \in 0 .. Length, d \in BOOLEAN : Ahead(u, d)' => Ahead(u, d)
    BY <1>1, <1>23 DEF Ahead
  <2>2. \A u, d : TextAt(stream, u, d)' = TextAt(stream, u, d)
    BY <1>1 DEF TextAt, Dash, Origin
  <2> QED BY <1>23, <1>24, <2>1, <2>2 DEF AllSettled
<1>26. TodoRest'
  BY <1>1, <1>2, RestMoves DEF part
<1> QED BY <1>1, <1>2, <1>20, <1>25, <1>26 DEF PollLive

LEMMA OrderStep ==
  LiveInv /\ MarkedPlaylists /\ Orderly /\ ClearInv /\ OrderInv /\ [Next]_vars => OrderInv'
<1> SUFFICES ASSUME LiveInv, MarkedPlaylists, Orderly, ClearInv, OrderInv, [Next]_vars
             PROVE  RecordedInOrder' /\ AllSettled' /\ TodoRest' /\ PollLive'
  BY SeenStep DEF OrderInv
<1>1. CASE EnterRefused \/ EnterEmpty \/ OverBudget \/ CloseEmpty \/ Stop
  <2>1. UNCHANGED <<setting, out>> /\ pc' \in Final
    BY <1>1 DEF EnterRefused, EnterEmpty, OverBudget, CloseEmpty, Stop, Raise, Goto, Final
  <2> QED BY <2>1, NothingMore DEF Final, Recording
<1>2. CASE EnterMaster
  <2>1. UNCHANGED <<setting, out, pc>> /\ pc = "enter"
    BY <1>2 DEF EnterMaster
  <2> QED BY <2>1, NothingMore DEF Recording
<1>3. CASE EnterMedia
  BY <1>3, EnterMediaOrder
<1>4. CASE BeginRound
  BY <1>4, BeginRoundOrder
<1>5. CASE RefusedInRound
  <2>1. /\ UNCHANGED <<setting, stream, local, out>>
        /\ pc = "round" /\ pc' \in {"close", "refused"}
    BY <1>5 DEF RefusedInRound, Goto
  <2> QED BY <2>1, SameRound DEF Recording
<1>6. CASE SkipPart \/ NothingNew
  BY <1>6, NotWrittenOrder
<1>7. CASE WritePart
  BY <1>7, WritePartOrder
<1>8. CASE EndRound
  <2>1. /\ UNCHANGED <<setting, stream, local, out>> /\ pc = "part"
        /\ pc' = IF round + 1 < Polls /\ IsLive(stream) THEN "poll" ELSE "close"
    BY <1>8 DEF EndRound, AtEnd, Goto
  <2>2. pc' = "poll" => LiveMode
    <3>1. round \in Nat /\ Polls \in Nat
      <4>1. setting \in Setting
        BY SettingsAssumption DEF LiveInv, LiveTypeOK
      <4>2. MaxPolls \in Nat
        BY <4>1 DEF Setting, MaxPolls
      <4> QED BY <4>2 DEF LiveInv, LiveTypeOK, Polls
    <3> QED BY <2>1, <3>1 DEF LiveMode
  <2> QED BY <2>1, <2>2, SameRound DEF Recording
<1>9. CASE Poll
  BY <1>9, PollOrder
<1>10. CASE Close
  <2>1. UNCHANGED <<setting, out>> /\ pc' \notin Recording
    BY <1>10 DEF Close, Goto, Recording
  <2> QED BY <2>1, NothingMore
<1>11. CASE SidecarPlaylist
  <2>1. UNCHANGED <<setting, out>> /\ pc' \notin Recording
    BY <1>11 DEF SidecarPlaylist, Goto, Recording
  <2> QED BY <2>1, NothingMore
<1>12. CASE SidecarObject
  BY <1>12, SidecarObjectOrder
<1>13. CASE RequestFails
  <2>1. /\ UNCHANGED <<setting, stream, local, out>>
        /\ \/ pc = "poll" /\ pc' = "close"
           \/ pc' = "failed"
    BY <1>13 DEF RequestFails, Raise, Goto
  <2> QED BY <2>1, SameRound DEF Recording
<1>14. CASE PublishSome \/ UNCHANGED vars
  <2>1. UNCHANGED <<setting, stream, local, out, pc>>
    BY <1>14 DEF PublishSome, Publish, vars
  <2>2. pc' = "poll" => LiveMode
    BY <2>1 DEF OrderInv, PollLive
  <2> QED BY <2>1, <2>2, SameRound
<1> QED BY <1>1, <1>2, <1>3, <1>4, <1>5, <1>6, <1>7, <1>8, <1>9, <1>10, <1>11, <1>12, <1>13, <1>14
    DEF Next, Record

LEMMA OrderInit == Init => OrderInv
<1> SUFFICES ASSUME Init PROVE OrderInv
  OBVIOUS
<1>1. \A s \in Streams : out[s] = <<>> /\ edge[s] = Origin[s].start /\ Origin[s].start \in Int
  <2>1. \A s \in Streams : Origin[s] \in Style
    BY SettingTyped DEF Init
  <2>2. \A s \in Streams : Origin[s].start \in Int
    BY <2>1 DEF Style
  <2> QED BY <2>2 DEF Init
<1>2. RecordedInOrder
  BY <1>1 DEF RecordedInOrder
<1>3. 1 \in Streams
  BY SettingTyped DEF Init
<1>4. SeenPublished
  BY <1>1, <1>3 DEF SeenPublished, Init
<1> QED BY <1>2, <1>4 DEF OrderInv, AllSettled, TodoRest, PollLive, Init, Recording

-----------------------------------------------------------------------------
(* A round leaves out nothing it lists. *)

\* What the parts of a text are where no PART is a file of its own and no PART is
\* cut from the file of its segment.
Media(x) == x.uri[1] \in {"seg", "file"}
Shaped(x, units, ranged) ==
  /\ x \in Part /\ Stops(x) <= units
  /\ IF x.uri[1] = "file" THEN ranged /\ x.start # None /\ x.length # None
     ELSE ~x.partial /\ (x.uri[1] = "seg" => ~ranged /\ x.start = None /\ x.length = None)

InRanges(o) == o.parts = "none" \/ (o.parts = "ranges" /\ o.ranged)

LEMMA SectionShaped ==
  ASSUME NEW c \in Int, NEW units \in Nat, NEW ranged \in BOOLEAN
  PROVE  Shaped(Section(c), units, ranged) /\ Section(c).uri = <<"init", 0>>
<1> DEFINE at == <<"init", 0>>
           x == ManifestPart(at, 0, None, c, FALSE)
<1>1. at \in Urls /\ at[1] = "init" /\ 0 \in Offsets /\ None \in Offsets /\ 0 # None
  BY NoneAssumption DEF Urls, Offsets
<1>2. Base(at) = -1 /\ Size(at) = 1
  BY <1>1 DEF Base, Size
<1> HIDE DEF at
<1>3. x \in Part /\ x.uri = at /\ x.start = 0 /\ x.length = None /\ x.partial = FALSE
  BY <1>1, ManifestPartTyped DEF Part, ManifestPart
<1>4. Section(c) = x
  BY DEF Section, at
<1> HIDE DEF x
<1>5. Stops(x) = 0
  BY <1>1, <1>2, <1>3 DEF Stops
<1> QED BY <1>1, <1>3, <1>4, <1>5 DEF Shaped, at

LEMMA WholeShaped ==
  ASSUME NEW o \in Style, NEW k \in Nat \ {0}, NEW c \in Int, NEW units \in Nat, k * Units <= units
  PROVE  /\ Shaped(Whole(o, k, c), units, o.ranged) /\ Media(Whole(o, k, c))
         /\ Begins(Whole(o, k, c)) = (k - 1) * Units + 1 /\ Stops(Whole(o, k, c)) = k * Units
<1> DEFINE x == Whole(o, k, c)
<1>1. /\ x \in Part /\ Begins(x) = (k - 1) * Units + 1 /\ Stops(x) = k * Units /\ ~x.partial
      /\ x.uri = (IF o.ranged THEN File ELSE <<"seg", k>>)
      /\ ~o.ranged => x.start = None /\ x.length = None
      /\ o.ranged => x.start = (k - 1) * Units /\ x.length = Units
  BY WholePart
<1>2. (k - 1) * Units # None /\ Units # None
  BY SegmentAt, NoneAssumption
<1> HIDE DEF x
<1>3. x.uri[1] = IF o.ranged THEN "file" ELSE "seg"
  BY <1>1 DEF File
<1> QED BY <1>1, <1>2, <1>3 DEF Shaped, Media, x

LEMMA PieceShaped ==
  ASSUME NEW o \in Style, InRanges(o), o.parts # "none", NEW k \in Nat \ {0}, NEW j \in 1 .. Units, NEW c \in Int,
         NEW units \in Nat, (k - 1) * Units + j <= units
  PROVE  Shaped(Piece(o, k, j, c), units, o.ranged) /\ Piece(o, k, j, c).uri = File
<1> DEFINE x == Piece(o, k, j, c)
<1>1. /\ x \in Part /\ Stops(x) = (k - 1) * Units + j /\ x.partial
      /\ o.ranged /\ o.parts # "files" => x.uri = File /\ x.start # None
      /\ x.length # None <=> x.start # None
  BY PiecePart
<1> HIDE DEF x
<1> QED BY <1>1 DEF Shaped, InRanges, File, x

\* The parts of a playlist.
LEMMA PlaylistShaped ==
  ASSUME NEW o \in Style, InRanges(o), NEW u \in Nat, NEW d \in BOOLEAN, NEW x \in TextParts(o, u, d)
  PROVE  Shaped(x, u, o.ranged)
<1> DEFINE from == From(o, u, d)
           shift == Shift(o, u, d)
           last == Complete(u)
           rest == u - last * Units
<1>1. /\ from \in Nat \ {0} /\ last \in Nat /\ last * Units <= u /\ u < (last + 1) * Units
      /\ FirstListed(o, u) \in Int
  BY CompleteFits, CompleteIsAll, FromLater, ListedFrom
<1>2. shift \in Int /\ o.ranged \in BOOLEAN
  BY DEF Shift, Style
<1>3. x \in Sections(o, u, d) \cup Wholes(o, from, last, shift) \cup Pieces(o, last + 1, from, rest, shift)
  BY DEF TextParts
<1> HIDE DEF from, shift, last
<1>4. rest \in Nat /\ rest < Units /\ last + 1 \in Nat \ {0} /\ (last + 1) - 1 = last
  <2>1. (last + 1) * Units = last * Units + Units /\ last * Units \in Nat /\ Units \in Nat
    BY <1>1, SettingsAssumption
  <2> QED BY <1>1, <2>1
<1>5. CASE x \in Sections(o, u, d)
  BY <1>1, <1>2, <1>5, SectionShaped DEF Sections
<1>6. CASE x \in Wholes(o, from, last, shift)
  <2>1. PICK k \in from .. last : x = Whole(o, k, k + shift)
    BY <1>6 DEF Wholes, Opened
  <2>2. k \in Nat \ {0} /\ k \in Nat /\ k + shift \in Int /\ (k = last \/ k < last)
    BY <1>1, <1>2
  <2>3. k * Units <= u
    <3>1. CASE k = last
      BY <1>1, <3>1
    <3>2. CASE k < last
      <4>1. k * Units \in Nat /\ last * Units \in Nat /\ k * Units + Units <= last * Units /\ Units \in Nat
        BY <1>1, <2>2, <3>2, Scaled, SettingsAssumption
      <4> QED BY <1>1, <4>1
    <3> QED BY <2>2, <3>1, <3>2
  <2> QED BY <2>1, <2>2, <2>3, WholeShaped
<1>7. CASE x \in Pieces(o, last + 1, from, rest, shift)
  <2> DEFINE k == last + 1
  <2>1. PICK j \in 1 .. rest : x = Piece(o, k, j, k + shift)
    BY <1>7 DEF Pieces
  <2>2. o.parts # "none"
    BY <1>7 DEF Pieces
  <2>3. k \in Nat \ {0} /\ j \in 1 .. Units /\ k + shift \in Int /\ (k - 1) * Units + j <= u
    <3>1. Units \in Nat /\ last * Units \in Nat
      BY <1>1, SettingsAssumption
    <3>2. j \in Nat /\ j >= 1 /\ j <= rest
      BY <1>4
    <3>3. last * Units + j <= u
      BY <3>1, <3>2
    <3>4. j \in 1 .. Units /\ (k - 1) * Units = last * Units
      <4> HIDE DEF rest
      <4> QED BY <1>4, <3>1, <3>2
    <3> HIDE DEF rest
    <3> QED BY <1>2, <1>4, <3>3, <3>4
  <2> HIDE DEF k
  <2> QED BY <2>1, <2>2, <2>3, PieceShaped
<1> QED BY <1>3, <1>5, <1>6, <1>7

\* A segment that is listed before the first key and is in no gap is a part.
LEMMA PlaylistLists ==
  ASSUME NEW o \in Style, ~o.delta, NEW u \in Nat, NEW d \in BOOLEAN, NEW k \in FirstListed(o, u) .. Complete(u),
         k \notin o.gaps, \A j \in FirstListed(o, u) .. k : j \notin o.locked
  PROVE  \E x \in TextParts(o, u, d) : Media(x) /\ Begins(x) = (k - 1) * Units + 1 /\ Stops(x) = k * Units
<1> DEFINE shift == Shift(o, u, d)
           x == Whole(o, k, k + shift)
<1>1. FirstListed(o, u) \in Nat \ {0} /\ Complete(u) \in Nat /\ Complete(u) * Units <= u
  BY ListedFrom, CompleteFits
<1>2. From(o, u, d) = FirstListed(o, u)
  BY <1>1 DEF From, Skipped
<1>3. k \in Nat \ {0} /\ k + shift \in Int
  <2>1. shift \in Int
    BY DEF Shift
  <2> HIDE DEF shift
  <2> QED BY <1>1, <2>1
<1>4. Begins(x) = (k - 1) * Units + 1 /\ Stops(x) = k * Units
  <2> HIDE DEF shift
  <2>1. k * Units \in Nat /\ k * Units <= k * Units
    BY <1>3, SegmentAt
  <2> QED BY <1>3, <2>1, WholeShaped
<1>5. Media(x)
  <2> HIDE DEF shift
  <2>1. k * Units \in Nat /\ k * Units <= k * Units
    BY <1>3, SegmentAt
  <2> QED BY <1>3, <2>1, WholeShaped
<1>6. k \in Opened(o, From(o, u, d), Complete(u))
  BY <1>2 DEF Opened
<1>7. x \in TextParts(o, u, d)
  <2>1. x \in Wholes(o, From(o, u, d), Complete(u), shift)
    BY <1>6 DEF Wholes
  <2> HIDE DEF x
  <2> QED BY <2>1 DEF TextParts
<1> HIDE DEF x
<1> QED BY <1>4, <1>5, <1>7

\* The PARTs of a segment before one of them.
LEMMA PiecesBefore ==
  ASSUME NEW o \in Style, InRanges(o), NEW length \in Nat, NEW u1 \in 0 .. length, NEW u2 \in 0 .. length,
         NEW d1 \in BOOLEAN, NEW d2 \in BOOLEAN, o.map => ~o.delta /\ FirstListed(o, length) = 1,
         NEW p \in TextParts(o, u1, d1), NEW q \in TextParts(o, u2, d2), Mates(p, q), q.start # None,
         NEW n \in Int, Begins(q) <= n, n <= Stops(p)
  PROVE  \E x \in TextParts(o, u1, d1) : Media(x) /\ Begins(x) = n /\ Stops(x) = n
<1> DEFINE lead == Lead(o)
           k == Complete(u1) + 1
           rest == u1 - Complete(u1) * Units
           f1 == From(o, u1, d1)
           f2 == From(o, u2, d2)
<1>1. lead \in Int
  BY DEF Lead
<1>2. /\ Shift(o, u1, d1) = lead /\ Sections(o, u1, d1) = (IF o.map THEN {Section(1)} ELSE {})
      /\ Shift(o, u2, d2) = lead /\ Sections(o, u2, d2) = (IF o.map THEN {Section(1)} ELSE {})
  BY LeadStays
<1>3. /\ p \in Sections(o, u1, d1) \cup Wholes(o, f1, Complete(u1), lead) \cup Pieces(o, k, f1, rest, lead)
      /\ q \in Sections(o, u2, d2) \cup Wholes(o, f2, Complete(u2), lead)
               \cup Pieces(o, Complete(u2) + 1, f2, u2 - Complete(u2) * Units, lead)
      /\ Pieces(o, k, f1, rest, lead) \subseteq TextParts(o, u1, d1)
  BY <1>2 DEF TextParts
<1>4. /\ f1 \in Nat \ {0} /\ f2 \in Nat \ {0} /\ k \in Nat \ {0} /\ rest \in Nat /\ rest < Units
      /\ Complete(u1) \in Nat /\ Complete(u2) \in Nat
      /\ (k - 1) * Units \in Nat
  <2>1. /\ Complete(u1) \in Nat /\ Complete(u1) * Units <= u1 /\ u1 < (Complete(u1) + 1) * Units
        /\ Complete(u2) \in Nat /\ f1 \in Nat \ {0} /\ f2 \in Nat \ {0} /\ u1 \in Nat
    BY CompleteFits, CompleteIsAll, FromLater
  <2> DEFINE c == Complete(u1)
  <2>2. c \in Nat /\ c * Units <= u1 /\ u1 < (c + 1) * Units
    BY <2>1
  <2> HIDE DEF c
  <2>3. (c + 1) * Units = c * Units + Units /\ c * Units \in Nat /\ Units \in Nat /\ (c + 1) - 1 = c
    BY <2>2, SettingsAssumption
  <2>4. u1 - c * Units \in Nat /\ u1 - c * Units < Units /\ c + 1 \in Nat \ {0} /\ ((c + 1) - 1) * Units \in Nat
    BY <2>1, <2>2, <2>3
  <2> QED BY <2>1, <2>4 DEF c
<1> HIDE DEF lead, k, rest, f1, f2
<1>5. p.partial /\ ~q.partial /\ q.occurrence = p.occurrence /\ p.start # None /\ q.uri = p.uri
  BY DEF Mates
<1>6. PICK j \in 1 .. rest : p = Piece(o, k, j, k + lead)
  <2>1. p \notin Sections(o, u1, d1)
    BY <1>2, <1>5, SectionPart
  <2>2. p \notin Wholes(o, f1, Complete(u1), lead)
    <3> SUFFICES ASSUME NEW i \in f1 .. Complete(u1), p = Whole(o, i, i + lead) PROVE FALSE
      BY DEF Wholes, Opened
    <3>1. i \in Nat \ {0} /\ i + lead \in Int
      BY <1>1, <1>4
    <3> QED BY <1>5, <3>1, WholePart
  <2> QED BY <1>3, <2>1, <2>2 DEF Pieces
<1>7. o.parts # "none" /\ k \in Opened(o, f1, k) /\ Pieces(o, k, f1, rest, lead) = {Piece(o, k, i, k + lead) : i \in 1 .. rest}
  <2>1. p \in Pieces(o, k, f1, rest, lead)
    <3>1. p \notin Sections(o, u1, d1)
      BY <1>2, <1>5, SectionPart
    <3>2. p \notin Wholes(o, f1, Complete(u1), lead)
      <4> SUFFICES ASSUME NEW i \in f1 .. Complete(u1), p = Whole(o, i, i + lead) PROVE FALSE
        BY DEF Wholes, Opened
      <4>1. i \in Nat \ {0} /\ i + lead \in Int
        BY <1>1, <1>4
      <4> QED BY <1>5, <4>1, WholePart
    <3> QED BY <1>3, <3>1, <3>2
  <2> QED BY <2>1 DEF Pieces
<1> DEFINE at == (k - 1) * Units
<1>8. /\ j \in Nat /\ j <= rest /\ j \in 1 .. Units /\ k + lead \in Int /\ Units \in Nat
  BY <1>1, <1>4, SettingsAssumption
<1>9. Stops(p) = at + j /\ p.occurrence = k + lead /\ p.uri = File
  <2>1. LET x == Piece(o, k, j, k + lead)
        IN  Stops(x) = (k - 1) * Units + j /\ x.occurrence = k + lead
            /\ (o.ranged /\ o.parts # "files" => x.uri = File)
    BY <1>4, <1>8, PiecePart
  <2> QED BY <1>6, <1>7, <2>1 DEF InRanges
<1>10. Begins(q) = at + 1
  <2>1. q \notin Sections(o, u2, d2)
    <3>1. Section(1).uri = <<"init", 0>>
      BY SectionShaped
    <3>2. <<"init", 0>> # File
      BY DEF File
    <3> QED BY <1>2, <1>5, <1>9, <3>1, <3>2
  <2>2. q \notin Pieces(o, Complete(u2) + 1, f2, u2 - Complete(u2) * Units, lead)
    <3> DEFINE k2 == Complete(u2) + 1
               rest2 == u2 - Complete(u2) * Units
    <3> SUFFICES ASSUME NEW i \in 1 .. rest2, q = Piece(o, k2, i, k2 + lead) PROVE FALSE
      BY DEF Pieces
    <3>1. k2 \in Nat \ {0} /\ k2 + lead \in Int /\ i \in 1 .. Units
      <4>1. /\ Complete(u2) \in Nat /\ Complete(u2) * Units <= u2 /\ u2 < (Complete(u2) + 1) * Units /\ u2 \in Nat
        BY CompleteFits, CompleteIsAll
      <4> DEFINE c == Complete(u2)
      <4>2. c \in Nat /\ c * Units <= u2 /\ u2 < (c + 1) * Units /\ i \in 1 .. u2 - c * Units
        BY <4>1
      <4> HIDE DEF c
      <4>3. (c + 1) * Units = c * Units + Units /\ c * Units \in Nat
        BY <1>8, <4>2
      <4>4. u2 - c * Units < Units /\ u2 - c * Units \in Int
        BY <1>8, <4>1, <4>2, <4>3
      <4>5. i \in 1 .. Units
        BY <1>8, <4>2, <4>4
      <4> QED BY <1>1, <1>4, <4>5
    <3> HIDE DEF k2, rest2
    <3>2. Piece(o, k2, i, k2 + lead).partial
      BY <3>1, PiecePart
    <3> QED BY <1>5, <3>2
  <2>3. PICK i \in f2 .. Complete(u2) : q = Whole(o, i, i + lead)
    BY <1>3, <2>1, <2>2 DEF Wholes, Opened
  <2>4. i \in Nat \ {0} /\ i + lead \in Int
    BY <1>1, <1>4
  <2>5. Begins(q) = (i - 1) * Units + 1 /\ q.occurrence = i + lead
    BY <2>3, <2>4, WholePart
  <2>6. i = k
    BY <1>1, <1>4, <1>5, <1>9, <2>4, <2>5
  <2> QED BY <2>5, <2>6
<1> DEFINE m == n - at
           x == Piece(o, k, m, k + lead)
<1>11. m \in 1 .. rest /\ m \in 1 .. Units /\ n = at + m
  <2>1. at \in Int /\ at + 1 <= n /\ n <= at + j
    BY <1>4, <1>9, <1>10
  <2> HIDE DEF at
  <2>2. \A a, b, c, r, t \in Int : a + 1 <= b /\ b <= a + c /\ c <= r /\ r < t
                                  => b - a \in 1 .. r /\ b - a \in 1 .. t /\ b = a + (b - a)
    OBVIOUS
  <2> QED BY <1>4, <1>8, <2>1, <2>2
<1> HIDE DEF m
<1>12. Begins(x) = n /\ Stops(x) = n /\ x.uri = File
  <2>1. /\ Begins(x) = at + m /\ Stops(x) = at + m
        /\ (o.ranged /\ o.parts # "files" => x.uri = File)
    BY <1>4, <1>8, <1>11, PiecePart
  <2> QED BY <1>7, <1>11, <2>1 DEF InRanges
<1>13. x \in TextParts(o, u1, d1)
  BY <1>3, <1>7, <1>11
<1> HIDE DEF x
<1>14. Media(x)
  BY <1>12 DEF Media, File
<1> QED BY <1>12, <1>13, <1>14

LEMMA SegmentFits ==
  ASSUME NEW u \in Nat, NEW k \in Nat \ {0}, k <= Complete(u)
  PROVE  k * Units <= u
<1> DEFINE last == Complete(u)
<1>1. last \in Nat /\ last * Units <= u
  BY CompleteFits
<1>2. k <= last
  OBVIOUS
<1> HIDE DEF last
<1>3. CASE k = last
  BY <1>1, <1>3
<1>4. CASE k < last
  <2>1. k * Units \in Nat /\ last * Units \in Nat /\ k * Units + Units <= last * Units /\ Units \in Nat
    BY <1>1, <1>4, Scaled, SettingsAssumption
  <2> QED BY <1>1, <2>1
<1> QED BY <1>1, <1>2, <1>3, <1>4

LEMMA DashedShaped ==
  ASSUME NEW o \in Style, NEW k \in Nat \ {0}, NEW c \in Int, NEW units \in Nat, k * Units <= units
  PROVE  /\ Shaped(Dashed(k, c), units, FALSE) /\ Media(Dashed(k, c))
         /\ Begins(Dashed(k, c)) = (k - 1) * Units + 1 /\ Stops(Dashed(k, c)) = k * Units
<1> DEFINE style == [o EXCEPT !.ranged = FALSE]
<1>1. style \in Style /\ style.ranged = FALSE
  BY DEF Style
<1> HIDE DEF style
<1>2. Whole(style, k, c) = Dashed(k, c)
  BY <1>1 DEF Whole, Dashed
<1>3. /\ Shaped(Whole(style, k, c), units, style.ranged) /\ Media(Whole(style, k, c))
      /\ Begins(Whole(style, k, c)) = (k - 1) * Units + 1 /\ Stops(Whole(style, k, c)) = k * Units
  BY <1>1, WholeShaped
<1> QED BY <1>1, <1>2, <1>3

\* What Unabridged says of a stream.
LEMMA UnabridgedStream ==
  ASSUME setting \in Settings, Unabridged(setting), NEW s \in Streams
  PROVE  Origin[s].lag = 0 /\ ~Origin[s].delta /\ InRanges(Origin[s])
BY DEF Unabridged, Streams, Origin, InRanges

\* The parts of any text of a stream.
LEMMA TextShaped ==
  ASSUME LiveTypeOK, MarkedPlaylists, Unabridged(setting), NEW s \in Streams, Dash \/ depth >= Origin[s].nesting,
         NEW u \in Nat, NEW d \in BOOLEAN, NEW x \in ToSet(TextAt(s, u, d))
  PROVE  Shaped(x, u, ~Dash /\ Origin[s].ranged)
<1> DEFINE o == Origin[s]
<1>1. o \in Style /\ depth \in Nat /\ setting \in Settings
  BY SettingTyped, SettingsAssumption DEF LiveTypeOK
<1>2. InRanges(o)
  BY <1>1, UnabridgedStream
<1>3. CASE ~Dash
  <2>1. (o.ranged => o.gaps = {}) /\ depth >= o.nesting
    BY <1>1, <1>3, Marks
  <2>2. TextAt(s, u, d) = ClearHlsParts(Lines(o, u, d, depth))
    BY <1>3 DEF TextAt
  <2> HIDE DEF o
  <2>3. ToSet(TextAt(s, u, d)) = TextParts(o, u, d)
    BY <1>1, <2>1, <2>2, TextRead
  <2>4. Shaped(x, u, o.ranged)
    BY <1>1, <1>2, <2>3, PlaylistShaped
  <2>5. (~Dash /\ o.ranged) = o.ranged
    BY <1>1, <1>3 DEF Style
  <2> QED BY <2>4, <2>5 DEF o
<1>4. CASE Dash
  <2>1. TextAt(s, u, d) = DashParts(o, u)
    BY <1>4 DEF TextAt
  <2> HIDE DEF o
  <2> DEFINE first == FirstListed(o, u)
             of(k) == (k - 1) \div o.period - (first - 1) \div o.period
  <2>2. /\ ToSet(DashParts(o, u)) = {Dashed(k, of(k)) : k \in first .. Complete(u)}
        /\ \A k \in first .. Complete(u) : k \in Nat \ {0} /\ of(k) \in Int
    BY <1>1, DashRead
  <2> HIDE DEF of, first
  <2>3. PICK k \in first .. Complete(u) : x = Dashed(k, of(k))
    BY <2>1, <2>2
  <2> DEFINE c == of(k)
  <2>4. k \in Nat \ {0} /\ c \in Int /\ k <= Complete(u) /\ x = Dashed(k, c)
    BY <2>2, <2>3, CompleteFits
  <2> HIDE DEF c
  <2>5. k * Units <= u
    BY <2>4, SegmentFits
  <2>6. Shaped(x, u, FALSE)
    BY <1>1, <2>4, <2>5, DashedShaped
  <2> QED BY <1>4, <2>6 DEF Shaped
<1> QED BY <1>3, <1>4

\* What is listed of a stream is in the text at hand.
LEMMA ListedIsPart ==
  ASSUME LiveTypeOK, MarkedPlaylists, Unabridged(setting), NEW s \in Streams, Dash \/ depth >= Origin[s].nesting,
         NEW d \in BOOLEAN, NEW k \in ListedClear(s)
  PROVE  \E x \in ToSet(TextAt(s, seen, d)) : Media(x) /\ Begins(x) = (k - 1) * Units + 1 /\ Stops(x) = k * Units
<1> DEFINE o == Origin[s]
           u == seen
<1>1. o \in Style /\ depth \in Nat /\ setting \in Settings /\ u \in Nat
  BY SettingTyped, SettingsAssumption DEF LiveTypeOK
<1>2. ~o.delta
  BY <1>1, UnabridgedStream
<1>3. /\ k \in FirstListed(o, u) .. Complete(u) /\ k \notin o.gaps
      /\ \A j \in FirstListed(o, u) .. k : j \notin o.locked
  BY DEF ListedClear
<1>4. CASE ~Dash
  <2>1. (o.ranged => o.gaps = {}) /\ depth >= o.nesting
    BY <1>1, <1>4, Marks
  <2>2. TextAt(s, u, d) = ClearHlsParts(Lines(o, u, d, depth))
    BY <1>4 DEF TextAt
  <2> HIDE DEF o, u
  <2>3. ToSet(TextAt(s, u, d)) = TextParts(o, u, d)
    BY <1>1, <2>1, <2>2, TextRead
  <2>4. \E x \in TextParts(o, u, d) : Media(x) /\ Begins(x) = (k - 1) * Units + 1 /\ Stops(x) = k * Units
    BY <1>1, <1>2, <1>3, PlaylistLists
  <2>5. \E x \in ToSet(TextAt(s, u, d)) : Media(x) /\ Begins(x) = (k - 1) * Units + 1 /\ Stops(x) = k * Units
    BY <2>3, <2>4
  <2> QED BY <2>5 DEF u
<1>5. CASE Dash
  <2>1. TextAt(s, u, d) = DashParts(o, u)
    BY <1>5 DEF TextAt
  <2> HIDE DEF o, u
  <2> DEFINE first == FirstListed(o, u)
             of(i) == (i - 1) \div o.period - (first - 1) \div o.period
  <2>2. /\ ToSet(DashParts(o, u)) = {Dashed(i, of(i)) : i \in first .. Complete(u)}
        /\ \A i \in first .. Complete(u) : i \in Nat \ {0} /\ of(i) \in Int
    BY <1>1, DashRead
  <2> HIDE DEF of
  <2> DEFINE c == of(k)
  <2>3. k \in Nat \ {0} /\ c \in Int /\ k <= Complete(u)
    BY <1>1, <1>3, <2>2, CompleteFits
  <2>4. Dashed(k, c) \in ToSet(TextAt(s, u, d))
    BY <1>3, <2>1, <2>2
  <2> HIDE DEF c
  <2>5. k * Units <= u
    BY <1>1, <2>3, SegmentFits
  <2>6. /\ Media(Dashed(k, c)) /\ Begins(Dashed(k, c)) = (k - 1) * Units + 1
        /\ Stops(Dashed(k, c)) = k * Units
    BY <1>1, <2>3, <2>5, DashedShaped
  <2>7. \E x \in ToSet(TextAt(s, u, d)) : Media(x) /\ Begins(x) = (k - 1) * Units + 1 /\ Stops(x) = k * Units
    BY <2>4, <2>6
  <2> QED BY <2>7 DEF u
<1> QED BY <1>4, <1>5

LEMMA MatesBefore ==
  ASSUME LiveTypeOK, MarkedPlaylists, Orderly, Unabridged(setting), NEW s \in Streams,
         Dash \/ depth >= Origin[s].nesting,
         NEW u1 \in 0 .. Length, NEW u2 \in 0 .. Length, NEW d1 \in BOOLEAN, NEW d2 \in BOOLEAN,
         NEW p \in ToSet(TextAt(s, u1, d1)), NEW q \in ToSet(TextAt(s, u2, d2)), Mates(p, q), q.start # None,
         NEW n \in Int, Begins(q) <= n, n <= Stops(p)
  PROVE  \E x \in ToSet(TextAt(s, u1, d1)) : Media(x) /\ Begins(x) = n /\ Stops(x) = n
<1> DEFINE o == Origin[s]
<1>1. o \in Style /\ depth \in Nat /\ setting \in Settings /\ Length \in Nat /\ u1 \in Nat /\ u2 \in Nat
  BY SettingTyped, SettingsAssumption DEF LiveTypeOK
<1>2. InRanges(o)
  BY <1>1, UnabridgedStream
<1>3. ~Dash
  <2> SUFFICES ASSUME Dash PROVE FALSE
    OBVIOUS
  <2>1. Shaped(p, u1, ~Dash /\ Origin[s].ranged)
    BY <1>1, TextShaped
  <2>2. ~p.partial
    BY <2>1 DEF Shaped
  <2> QED BY <2>2 DEF Mates
<1>4. o.map => ~o.delta /\ FirstListed(o, Length) = 1
  BY <1>1, <1>3 DEF Orderly, Streams, Origin, Dash, Length
<1>5. (o.ranged => o.gaps = {}) /\ depth >= o.nesting
  BY <1>1, <1>3, Marks
<1>6. TextAt(s, u1, d1) = ClearHlsParts(Lines(o, u1, d1, depth))
      /\ TextAt(s, u2, d2) = ClearHlsParts(Lines(o, u2, d2, depth))
  BY <1>3 DEF TextAt
<1> HIDE DEF o
<1>7. ToSet(TextAt(s, u1, d1)) = TextParts(o, u1, d1)
  BY <1>1, <1>5, <1>6, TextRead
<1>8. ToSet(TextAt(s, u2, d2)) = TextParts(o, u2, d2)
  BY <1>1, <1>5, <1>6, TextRead
<1>9. p \in TextParts(o, u1, d1) /\ q \in TextParts(o, u2, d2)
  BY <1>7, <1>8
<1>10. \E x \in TextParts(o, u1, d1) : Media(x) /\ Begins(x) = n /\ Stops(x) = n
  BY <1>1, <1>2, <1>4, <1>9, PiecesBefore
<1> QED BY <1>7, <1>10

\* What is served of a locator whose units are published.
LEMMA ContentWhole ==
  ASSUME LiveTypeOK, Origin[stream].lag = 0, NEW uri \in Urls
  PROVE  /\ uri[1] = "file" => Len(Content(stream, uri)) = edge[stream]
         /\ uri[1] = "seg" /\ uri[2] * Units <= edge[stream] => Len(Content(stream, uri)) = Units
<1> DEFINE served == edge[stream] - Origin[stream].lag
           upTo(first, last) == [i \in 1 .. (IF last < first THEN 0 ELSE last - first + 1) |-> first + i - 1]
           lesser(a, b) == IF a < b THEN a ELSE b
           before == (uri[2] - 1) * Units
           end == uri[2] * Units
<1>1. edge[stream] \in Nat /\ served = edge[stream]
  <2>1. edge[stream] \in 0 .. Length /\ Length \in Nat
    BY SettingTyped DEF LiveTypeOK
  <2> QED BY <2>1
<1>2. before \in Int /\ end \in Int /\ end = before + Units /\ Units \in Nat \ {0}
  <2>1. uri[2] \in Nat /\ Units \in Nat \ {0}
    BY SettingsAssumption DEF Urls
  <2>2. \A a \in Nat, b \in Nat : (a - 1) * b \in Int /\ a * b \in Int /\ a * b = (a - 1) * b + b
    OBVIOUS
  <2> QED BY <2>1, <2>2
<1>3. uri[1] = "file" => Content(stream, uri) = upTo(1, served)
  BY DEF Content
<1>4. uri[1] = "seg" => Content(stream, uri) = upTo(before + 1, lesser(end, served))
  BY DEF Content
<1>5. ASSUME NEW a \in Int, NEW b \in Int PROVE Len(upTo(a, b)) = IF b < a THEN 0 ELSE b - a + 1
  <2> DEFINE n == IF b < a THEN 0 ELSE b - a + 1
  <2>1. n \in Nat
    OBVIOUS
  <2> HIDE DEF n
  <2>2. Len([i \in 1 .. n |-> a + i - 1]) = n
    BY <2>1
  <2> QED BY <2>2 DEF n
<1> HIDE DEF served, before, end, upTo
<1>6. ASSUME uri[1] = "file" PROVE Len(Content(stream, uri)) = edge[stream]
  <2> DEFINE one == 1
  <2>1. one \in Int /\ served \in Int
    BY <1>1
  <2> HIDE DEF one
  <2>2. Len(upTo(one, served)) = IF served < one THEN 0 ELSE served - one + 1
    BY <1>5, <2>1
  <2>3. Len(upTo(one, served)) = served
    BY <1>1, <2>2 DEF one
  <2> QED BY <1>1, <1>3, <1>6, <2>3 DEF one
<1>7. ASSUME uri[1] = "seg", end <= edge[stream] PROVE Len(Content(stream, uri)) = Units
  <2>1. lesser(end, served) = end
    BY <1>1, <1>2, <1>7
  <2>2. before + 1 \in Int /\ ~(end < before + 1) /\ end - (before + 1) + 1 = Units
    BY <1>2
  <2>3. Len(upTo(before + 1, end)) = Units
    BY <1>2, <1>5, <2>2
  <2> QED BY <1>4, <1>7, <2>1, <2>3
<1> QED BY <1>6, <1>7 DEF end

\* All that a slice is made of is in the chunk.
LEMMA ChunkAll ==
  ASSUME LiveTypeOK, NEW o \in Style, NEW part \in Fair(o), NEW data \in Seq(Int), Gives(part.uri, data),
         NEW n \in Int, Base(part.uri) + Slice(part, data).from < n, n <= Base(part.uri) + Slice(part, data).to
  PROVE  n \in ToSet(Chunk(part, data))
<1> DEFINE from == Slice(part, data).from
           to == Slice(part, data).to
           chunk == Chunk(part, data)
           base == Base(part.uri)
<1>1. /\ chunk \in Seq(Int) /\ from \in Nat /\ to \in Nat
      /\ \A i \in DOMAIN chunk : chunk[i] = base + from + i
  BY ChunkPlaces
<1>2. to <= Len(data) /\ Len(data) \in Nat /\ part \in Part
  <2>1. part \in Part
    BY DEF Fair
  <2> QED BY <2>1, SliceTyped
<1>3. chunk = SubSeq(data, from + 1, to)
  BY DEF Chunk
<1>4. base \in Int
  BY <1>2, PartPlaces
<1> HIDE DEF from, to, chunk
<1> DEFINE a == from + 1
<1>5. Len(chunk) = IF a <= to THEN to - a + 1 ELSE 0
  <2>1. a \in Int /\ to \in Int /\ \A j \in a .. to : data[j] \in Int
    BY <1>1, <1>2
  <2>2. Len(SubSeq(data, a, to)) = IF a <= to THEN to - a + 1 ELSE 0
    <3> HIDE DEF a
    <3> QED BY <2>1, SubSeqProperties
  <2> QED BY <1>3, <2>2
<1> DEFINE i == n - (base + from)
<1>6. i \in Int /\ 1 <= i /\ i <= to - from /\ base + from + i = n
  <2>1. base + from < n /\ n <= base + to
    BY DEF from, to
  <2> HIDE DEF base
  <2>2. \A b, f, t, m \in Int : b + f < m /\ m <= b + t => 1 <= m - (b + f) /\ m - (b + f) <= t - f /\ b + f + (m - (b + f)) = m
    OBVIOUS
  <2>3. from \in Int /\ to \in Int
    BY <1>1
  <2> QED BY <1>4, <2>1, <2>2, <2>3
<1> HIDE DEF i, base
<1>7. i \in 1 .. Len(chunk)
  BY <1>1, <1>5, <1>6
<1>8. DOMAIN chunk = 1 .. Len(chunk)
  BY <1>1
<1>9. chunk[i] = n
  BY <1>1, <1>6, <1>7, <1>8
<1> QED BY <1>7, <1>8, <1>9 DEF ToSet, chunk

\* Where a slice lies of an object that has the units of the part.
LEMMA SliceWhole ==
  ASSUME LiveTypeOK, NEW u \in Nat, NEW ranged, NEW part, Shaped(part, u, ranged), Media(part),
         NEW data \in Seq(Int), Stops(part) <= Base(part.uri) + Len(data)
  PROVE  LET slice == Slice(part, data)
             base == Base(part.uri)
         IN  /\ slice.from \in Nat /\ slice.to \in Nat
             /\ Begins(part) = base + slice.from + 1
                \/ (LiveMode /\ part.start # None /\ slice.from = Through(part))
             /\ Begins(part) <= base + slice.from + 1
             /\ ~slice.none => Stops(part) <= base + slice.to
             /\ part.start # None => base + slice.to <= Stops(part)
             /\ slice.none => Stops(part) <= base + slice.from
<1> DEFINE size == Len(data)
           base == Base(part.uri)
           slice == Slice(part, data)
<1>1. part \in Part /\ base \in Int /\ size \in Nat /\ Through(part) \in Nat /\ Size(part.uri) \in Nat
  <2>1. part \in Part
    BY DEF Shaped
  <2> QED BY <2>1, PartPlaces, ThroughTyped
<1>2. part.start \in Offsets /\ part.length \in Offsets
  BY <1>1 DEF Part, PartOf
<1>3. CASE part.start = None
  <2>1. part.uri[1] # "file"
    BY <1>3 DEF Shaped
  <2>2. part.length = None
    BY <2>1 DEF Shaped, Media
  <2>3. slice.from = 0 /\ slice.to = size /\ slice.none = FALSE
    BY <1>1, <1>3 DEF Slice
  <2>4. Begins(part) = base + 0 + 1
    BY <1>3 DEF Begins
  <2> HIDE DEF slice, size, base
  <2> QED BY <1>1, <1>3, <2>3, <2>4 DEF size, slice, base
<1>4. CASE part.start # None
  <2>1. part.uri[1] = "file"
    BY <1>4 DEF Shaped, Media
  <2>2. part.start \in Nat /\ part.length \in Nat /\ part.length # None
    BY <1>2, <2>1 DEF Shaped, Offsets
  <2> DEFINE start == part.start
             end == part.start + part.length
             begin == IF LiveMode /\ Through(part) > start THEN Through(part) ELSE start
  <2>3. start \in Nat /\ end \in Nat /\ start <= end
    BY <2>2
  <2>4. slice.from = begin /\ slice.to = (IF end > size THEN size ELSE end)
        /\ (slice.none <=> begin >= end \/ begin >= size)
    BY <1>4, <2>2 DEF Slice
  <2>5. Begins(part) = base + start + 1 /\ Stops(part) = base + end
    BY <1>4, <2>2 DEF Begins, Stops
  <2>6. begin \in Nat /\ start <= begin /\ (begin = start \/ (LiveMode /\ begin = Through(part)))
    BY <1>1, <2>3
  <2>7. end <= size
    <3>1. base + end <= base + size
      BY <2>5
    <3> HIDE DEF end, size, base
    <3> QED BY <1>1, <2>3, <3>1
  <2> HIDE DEF start, end, begin, size, slice, base
  <2>8. slice.to = end
    BY <1>1, <2>3, <2>4, <2>7
  <2>9. slice.none => end <= begin
    BY <1>1, <2>3, <2>4, <2>6, <2>7
  <2>10. \A b, e, f \in Int : e <= f => b + e <= b + f
    OBVIOUS
  <2>11. slice.none => Stops(part) <= base + slice.from
    BY <1>1, <2>3, <2>4, <2>5, <2>6, <2>9, <2>10
  <2>12. Begins(part) <= base + slice.from + 1
    BY <1>1, <2>3, <2>4, <2>5, <2>6
  <2>13. Stops(part) <= base + slice.to /\ base + slice.to <= Stops(part)
    BY <1>1, <2>3, <2>5, <2>8
  <2>14. slice.from \in Nat /\ slice.to \in Nat
    BY <2>3, <2>4, <2>6, <2>8
  <2>15. Begins(part) = base + slice.from + 1 \/ (LiveMode /\ slice.from = Through(part))
    BY <2>4, <2>5, <2>6
  <2> QED BY <1>4, <2>11, <2>12, <2>13, <2>14, <2>15 DEF slice, base
<1> QED BY <1>3, <1>4

-----------------------------------------------------------------------------
\* All units of a part are written.
Held(x) == \A n \in Begins(x) .. Stops(x) : n \in ToSet(out[stream])

\* What is kept of an object is enough for every part of the text at hand.
Enough(object, data) ==
  /\ object[1][1] = "seg" => Len(data) >= Units
  /\ object[1][1] = "file" /\ ~LiveMode => Len(data) >= seen
CacheEnough == pc \in Recording => \A object \in DOMAIN cache : Enough(object, cache[object])

DoneIsHeld == pc \in Recording => \A x \in Part : Key(x) \in recorded /\ Media(x) => Held(x)

\* What written_through skips of a range is written.
ThroughIsHeld ==
  pc \in Recording /\ LiveMode =>
    \A u \in 0 .. Length, d \in BOOLEAN :
      Ahead(u, d) =>
        \A x \in ToSet(TextAt(stream, u, d)) :
          Media(x) /\ x.start # None =>
            \A n \in Begins(x) .. Stops(x) : n <= Base(x.uri) + Through(x) => n \in ToSet(out[stream])

\* No segment is skipped for a PART of it.
NoneFilled == pc \in Recording /\ ~(~Dash /\ Origin[stream].ranged) => filled = {}

\* A round takes all parts of its text.
AllTaken ==
  pc = "part" => \A x \in ToSet(TextAt(stream, seen, round > 0)) : Key(x) \in recorded \/ x \in ToSet(todo)

RoundInv == CacheEnough /\ DoneIsHeld /\ ThroughIsHeld /\ NoneFilled /\ AllTaken

LEMMA RoundIsEnough ==
  ASSUME LiveInv, MarkedPlaylists, ClearInv, RoundInv, Unabridged(setting)
  PROVE  RoundIsComplete
<1> SUFFICES ASSUME AtEnd, NEW k \in ListedClear(stream), NEW n \in UnitsOf(k)
             PROVE  n \in ToSet(out[stream])
  BY DEF RoundIsComplete
<1> DEFINE d == round > 0
<1>1. pc = "part" /\ todo = <<>> /\ LiveTypeOK /\ stream \in Streams /\ d \in BOOLEAN
  BY DEF AtEnd, LiveInv, LiveTypeOK
<1>2. Dash \/ depth >= Origin[stream].nesting
  BY <1>1 DEF ClearInv, BelowMasters, Recording
<1>3. \A x \in ToSet(TextAt(stream, seen, d)) : Key(x) \in recorded
  BY <1>1 DEF RoundInv, AllTaken, ToSet
<1> HIDE DEF d
<1>4. PICK x \in ToSet(TextAt(stream, seen, d)) :
        Media(x) /\ Begins(x) = (k - 1) * Units + 1 /\ Stops(x) = k * Units
  BY <1>1, <1>2, ListedIsPart
<1>5. x \in Part
  <2>1. seen \in Nat
    BY <1>1, SettingTyped DEF LiveTypeOK
  <2>2. Shaped(x, seen, ~Dash /\ Origin[stream].ranged)
    BY <1>1, <1>2, <2>1, TextShaped
  <2> QED BY <2>2 DEF Shaped
<1>6. Held(x)
  BY <1>1, <1>3, <1>4, <1>5 DEF RoundInv, DoneIsHeld, Recording
<1>7. n \in Begins(x) .. Stops(x)
  BY <1>4 DEF UnitsOf
<1> QED BY <1>6, <1>7 DEF Held

\* Where the part at hand is in its text.
LEMMA HeadPlace ==
  ASSUME LiveInv, MarkedPlaylists, ClearInv, OrderInv, pc = "part", todo # <<>>
  PROVE  LET text == TextAt(stream, seen, round > 0)
         IN  /\ Head(todo) \in ToSet(text) /\ Head(todo) \in Fair(Origin[stream])
             /\ \A x \in ToSet(text) : x \in Part
             /\ \A x \in ToSet(text) : Begins(x) <= Stops(Head(todo)) => Key(x) \in recorded \/ x = Head(todo)
<1> DEFINE part == Head(todo)
           text == TextAt(stream, seen, round > 0)
<1>1. LiveTypeOK /\ stream \in Streams
  BY DEF LiveInv, LiveTypeOK
<1>2. text \in Seq(Fair(Origin[stream]))
  <2>1. Dash \/ depth >= Origin[stream].nesting
    BY DEF ClearInv, BelowMasters, Recording
  <2> QED BY <1>1, <2>1, PartsClear, PartsAt
<1>3. text \in Seq(Part) /\ InSequence(text)
  <2>1. Dash \/ depth >= Origin[stream].nesting
    BY DEF ClearInv, BelowMasters, Recording
  <2>2. InSequence(Parts(stream)) /\ Parts(stream) \in Seq(Part)
    BY <1>1, <2>1, PartsClear, PartsTyped
  <2> QED BY <1>1, <2>2, PartsAt
<1>4. PICK n \in Nat : Rest(text, n)
  BY DEF OrderInv, TodoRest
<1>5. n + 1 \in DOMAIN text /\ text[n + 1] = part /\ \A i \in 1 .. n : Key(text[i]) \in recorded
  <2> HIDE DEF text
  <2>1. todo \in Seq(Part) /\ todo # <<>>
    BY <1>1 DEF LiveTypeOK
  <2>2. Len(todo) \in Nat \ {0} /\ part = todo[1]
    BY <2>1
  <2>3. n + Len(todo) <= Len(text) /\ Len(text) \in Nat /\ DOMAIN text = 1 .. Len(text)
    BY <1>3, <1>4 DEF Rest
  <2>4. n + 1 \in 1 .. Len(text) /\ 1 \in 1 .. Len(todo)
    BY <2>2, <2>3
  <2> HIDE DEF part
  <2> QED BY <1>4, <2>2, <2>3, <2>4 DEF Rest
<1> HIDE DEF text, part
<1>6. part \in ToSet(text) /\ part \in Fair(Origin[stream])
  BY <1>2, <1>5 DEF ToSet
<1>7. \A x \in ToSet(text) : x \in Part
  BY <1>3 DEF ToSet
<1>8. ASSUME NEW x \in ToSet(text), Begins(x) <= Stops(part) PROVE Key(x) \in recorded \/ x = part
  <2>1. PICK i \in DOMAIN text : x = text[i]
    BY DEF ToSet
  <2>2. i \in Nat /\ i >= 1
    BY <1>3, <2>1
  <2>3. ~(n + 1 < i)
    <3>1. n + 1 < i => Stops(part) < Begins(x)
      BY <1>3, <1>5, <2>1 DEF InSequence
    <3>2. Stops(part) \in Int /\ Begins(x) \in Int
      BY <1>6, <1>7, PartPlaces
    <3> QED BY <1>8, <3>1, <3>2
  <2>4. i \in 1 .. n \/ i = n + 1
    BY <2>2, <2>3
  <2> QED BY <1>5, <2>1, <2>4
<1> QED BY <1>6, <1>7, <1>8 DEF text, part

\* The part at hand.
LEMMA HeadShaped ==
  ASSUME LiveInv, MarkedPlaylists, Unabridged(setting), ClearInv, OrderInv, pc = "part", todo # <<>>
  PROVE  /\ Shaped(Head(todo), seen, ~Dash /\ Origin[stream].ranged)
         /\ LiveTypeOK /\ stream \in Streams /\ seen \in Nat
         /\ Dash \/ depth >= Origin[stream].nesting
<1> DEFINE d == round > 0
<1>1. LiveTypeOK /\ stream \in Streams /\ d \in BOOLEAN /\ seen \in Nat
  BY SettingTyped DEF LiveInv, LiveTypeOK
<1>2. Dash \/ depth >= Origin[stream].nesting
  BY DEF ClearInv, BelowMasters, Recording
<1>3. Head(todo) \in ToSet(TextAt(stream, seen, d))
  BY HeadPlace
<1> HIDE DEF d
<1> QED BY <1>1, <1>2, <1>3, TextShaped

\* What is fetched of it is enough.
LEMMA FetchedEnough ==
  ASSUME LiveInv, MarkedPlaylists, Unabridged(setting), ClearInv, OrderInv, RoundInv, AtPart
  PROVE  /\ Enough(Object(Head(todo)), Fetched(Head(todo)))
         /\ Media(Head(todo)) => Stops(Head(todo)) <= Base(Head(todo).uri) + Len(Fetched(Head(todo)))
<1> DEFINE part == Head(todo)
           data == Fetched(part)
           uri == part.uri
           base == Base(uri)
           size == Len(data)
<1>1. /\ Shaped(part, seen, ~Dash /\ Origin[stream].ranged)
      /\ pc = "part" /\ LiveTypeOK /\ stream \in Streams /\ seen \in Nat
  BY HeadShaped DEF AtPart
<1> HIDE DEF part
<1>2. part \in Part /\ uri \in Urls /\ Object(part)[1] = uri /\ part.start \in Offsets /\ part.length \in Offsets
  BY <1>1 DEF Shaped, Part, PartOf, Object
<1>3. seen <= edge[stream] /\ edge[stream] \in Nat
  <2>1. edge[stream] \in 0 .. Length /\ Length \in Nat
    BY <1>1, SettingTyped DEF LiveTypeOK
  <2> QED BY <1>1, <2>1 DEF OrderInv, SeenPublished, Recording
<1>4. data \in Seq(Int) /\ size \in Nat
  BY <1>1, <1>2, FetchedTyped
<1>5. Units \in Nat \ {0} /\ uri[2] \in Nat /\ base \in Int
  BY <1>2, SettingsAssumption, PartPlaces DEF Urls
<1>6. uri[1] = "seg" => Stops(part) = base + Units /\ base + Units = uri[2] * Units /\ Stops(part) <= seen
  <2> SUFFICES ASSUME uri[1] = "seg" PROVE Stops(part) = base + Units /\ base + Units = uri[2] * Units /\ Stops(part) <= seen
    OBVIOUS
  <2>1. Stops(part) = base + Units
    BY <1>1 DEF Shaped, Stops, Size
  <2>2. base = (uri[2] - 1) * Units
    BY DEF Base
  <2>3. \A a \in Nat, b \in Nat : (a - 1) * b + b = a * b
    OBVIOUS
  <2> QED BY <1>1, <1>5, <2>1, <2>2, <2>3 DEF Shaped
<1>7. uri[1] = "file" => /\ base = 0 /\ Stops(part) <= seen /\ Stops(part) = part.start + part.length
                         /\ part.start \in Nat /\ part.length \in Nat /\ part.start # None /\ part.length # None
  <2> SUFFICES ASSUME uri[1] = "file"
               PROVE  /\ base = 0 /\ Stops(part) <= seen /\ Stops(part) = part.start + part.length
                      /\ part.start \in Nat /\ part.length \in Nat /\ part.start # None /\ part.length # None
    OBVIOUS
  <2>1. base = 0
    BY DEF Base
  <2>2. part.start \in Nat /\ part.length \in Nat /\ part.start # None /\ part.length # None /\ Stops(part) <= seen
    BY <1>1, <1>2 DEF Shaped, Offsets
  <2>3. Stops(part) = base + (part.start + part.length)
    BY <2>2 DEF Stops
  <2> QED BY <2>1, <2>2, <2>3
<1>8. CASE NeedsFetch(part)
  <2>1. Origin[stream].lag = 0
    BY <1>1, UnabridgedStream DEF LiveTypeOK
  <2>2. data = Content(stream, uri)
    BY <1>8 DEF Fetched
  <2>3. uri[1] = "file" => size = edge[stream]
    BY <1>1, <1>2, <2>1, <2>2, ContentWhole
  <2>4. uri[1] = "seg" => size = Units
    <3>1. uri[1] = "seg" => uri[2] * Units <= edge[stream]
      <4> DEFINE end == uri[2] * Units
      <4>1. uri[1] = "seg" => end <= seen
        BY <1>6
      <4>2. end \in Int
        BY <1>5
      <4> HIDE DEF end
      <4>3. uri[1] = "seg" => end <= edge[stream]
        BY <1>1, <1>3, <4>1, <4>2
      <4> QED BY <4>3 DEF end
    <3> QED BY <1>1, <1>2, <2>1, <2>2, <3>1, ContentWhole
  <2> HIDE DEF size, base, data, uri
  <2>5. uri[1] = "file" => size >= seen
    BY <1>1, <1>3, <2>3
  <2>6. uri[1] = "seg" => size >= Units
    BY <1>5, <2>4
  <2>7. Enough(Object(part), data)
    BY <1>2, <2>5, <2>6 DEF Enough, size
  <2>8. uri[1] = "file" => Stops(part) <= base + size
    BY <1>1, <1>4, <1>7, <2>5
  <2>9. uri[1] = "seg" => Stops(part) <= base + size
    BY <1>4, <1>5, <1>6, <2>6
  <2> QED BY <2>7, <2>8, <2>9 DEF Media, part, data, size, base, uri
<1>9. CASE ~NeedsFetch(part)
  <2>1. Object(part) \in DOMAIN cache /\ data = cache[Object(part)]
    BY <1>9 DEF NeedsFetch, Fetched
  <2>2. Enough(Object(part), data)
    BY <1>1, <2>1 DEF RoundInv, CacheEnough, Recording
  <2>3. uri[1] = "seg" => size >= Units
    BY <1>2, <2>2 DEF Enough
  <2>4. uri[1] = "file" => size >= seen \/ ~(part.start + part.length > size)
    <3>1. CASE LiveMode
      <4>1. part.start # None /\ part.length # None => ~(part.start + part.length > Len(cache[Object(part)]))
        BY <1>9, <2>1, <3>1 DEF NeedsFetch
      <4> QED BY <1>7, <2>1, <4>1
    <3>2. CASE ~LiveMode
      BY <1>2, <2>2, <3>2 DEF Enough
    <3> QED BY <3>1, <3>2
  <2> HIDE DEF size, base, data, uri
  <2>5. uri[1] = "file" => Stops(part) <= base + size
    BY <1>1, <1>4, <1>7, <2>4
  <2>6. uri[1] = "seg" => Stops(part) <= base + size
    BY <1>4, <1>5, <1>6, <2>3
  <2> QED BY <2>2, <2>5, <2>6 DEF Media, part, data, size, base, uri
<1> QED BY <1>8, <1>9

\* Its units are written already, or in the chunk.
LEMMA PartUnits ==
  ASSUME LiveInv, MarkedPlaylists, Unabridged(setting), ClearInv, OrderInv, RoundInv, AtPart, Media(Head(todo)),
         NEW n \in Begins(Head(todo)) .. Stops(Head(todo))
  PROVE  \/ n \in ToSet(out[stream])
         \/ /\ ~Slice(Head(todo), Fetched(Head(todo))).none
            /\ n \in ToSet(Chunk(Head(todo), Fetched(Head(todo))))
<1> DEFINE part == Head(todo)
           data == Fetched(part)
           base == Base(part.uri)
           ranged == ~Dash /\ Origin[stream].ranged
           slice == Slice(part, data)
           text == TextAt(stream, seen, round > 0)
<1>1. /\ Shaped(part, seen, ranged) /\ pc = "part" /\ LiveTypeOK /\ stream \in Streams /\ seen \in Nat
  BY HeadShaped DEF AtPart
<1>2. part \in ToSet(text) /\ part \in Fair(Origin[stream])
  BY HeadPlace DEF AtPart
<1>3. KeptClear(Origin[stream], Object(part), data)
  BY PartAtHand
<1>4. Stops(part) <= base + Len(data)
  BY FetchedEnough
<1> HIDE DEF part, text, ranged
<1>5. part \in Part /\ Origin[stream] \in Style
  BY <1>1, SettingTyped DEF Shaped, LiveTypeOK
<1>6. data \in Seq(Int) /\ Gives(part.uri, data)
  <2>1. Gives(part.uri, data)
    BY <1>3 DEF KeptClear, Object
  <2> QED BY <1>1, <1>5, <2>1, FetchedTyped
<1>7. base \in Int /\ Begins(part) \in Int /\ Stops(part) \in Int
  BY <1>5, PartPlaces
<1> HIDE DEF data
<1>8. /\ slice.from \in Nat /\ slice.to \in Nat
      /\ Begins(part) = base + slice.from + 1
         \/ (LiveMode /\ part.start # None /\ slice.from = Through(part))
      /\ ~slice.none => Stops(part) <= base + slice.to
      /\ slice.none => Stops(part) <= base + slice.from
  BY <1>1, <1>4, <1>6, SliceWhole DEF part
<1> DEFINE from == slice.from
           to == slice.to
<1>9. n \in Int /\ Begins(part) <= n /\ n <= Stops(part)
  BY <1>7 DEF part
<1>10. CASE n <= base + from
  <2>1. Begins(part) # base + from + 1
    <3> HIDE DEF from, base
    <3> QED BY <1>7, <1>8, <1>9, <1>10 DEF from
  <2>2. LiveMode /\ part.start # None /\ from = Through(part)
    BY <1>8, <2>1
  <2> DEFINE d == round > 0
  <2>3. d \in BOOLEAN /\ seen \in 0 .. Length /\ Ahead(seen, d) /\ text = TextAt(stream, seen, d)
    BY <1>1 DEF Ahead, LiveTypeOK, text
  <2> HIDE DEF d
  <2>4. n \in ToSet(out[stream])
    <3>1. Media(part) /\ n \in Begins(part) .. Stops(part)
      BY DEF part
    <3> QED BY <1>1, <1>2, <1>10, <2>2, <2>3, <3>1 DEF RoundInv, ThroughIsHeld, Recording
  <2> QED BY <2>4
<1>11. CASE ~(n <= base + from)
  <2>1. ~slice.none /\ n <= base + to /\ base + from < n
    <3> DEFINE a == base + from
               b == base + to
    <3>1. a \in Int /\ b \in Int
      BY <1>7, <1>8
    <3>2. slice.none => Stops(part) <= a
      BY <1>8
    <3>3. ~slice.none => Stops(part) <= b
      BY <1>8
    <3>4. ~(n <= a)
      BY <1>11
    <3> HIDE DEF a, b, slice
    <3>5. ~slice.none /\ n <= b /\ a < n
      BY <1>7, <1>9, <3>1, <3>2, <3>3, <3>4
    <3> QED BY <3>5 DEF a, b
  <2>2. n \in ToSet(Chunk(part, data))
    <3> HIDE DEF base
    <3> QED BY <1>1, <1>2, <1>5, <1>6, <1>9, <2>1, ChunkAll DEF base
  <2> QED BY <2>1, <2>2 DEF part, data
<1> QED BY <1>10, <1>11

-----------------------------------------------------------------------------
\* No stream is being recorded after the step.
LEMMA RoundOver ==
  ASSUME pc' \notin Recording
  PROVE  RoundInv'
BY DEF RoundInv, CacheEnough, DoneIsHeld, ThroughIsHeld, NoneFilled, AllTaken, Recording

\* What is written stays, and so what is held.
LEMMA HeldStays ==
  ASSUME NEW x, Held(x), ToSet(out[stream]) \subseteq ToSet(out'[stream]), stream' = stream
  PROVE  Held(x)'
<1>1. Begins(x)' = Begins(x) /\ Stops(x)' = Stops(x)
  BY DEF Begins, Stops, Base, Size
<1> QED BY <1>1 DEF Held

\* The recorder looks at what it looked at.
LEMMA ThroughStays ==
  ASSUME RoundInv, pc \in Recording, UNCHANGED <<setting, stream, depth, through>>,
         \A u \in 0 .. Length, d \in BOOLEAN : Ahead(u, d)' => Ahead(u, d),
         ToSet(out[stream]) \subseteq ToSet(out'[stream])
  PROVE  ThroughIsHeld'
<1>1. Streams' = Streams /\ Origin' = Origin /\ Dash' = Dash /\ Length' = Length /\ LiveMode' = LiveMode
  BY SettingKept
<1>2. \A u, d : TextAt(stream, u, d)' = TextAt(stream, u, d)
  BY TextKept DEF TextAt, Dash, Origin
<1>3. \A x : Begins(x)' = Begins(x) /\ Stops(x)' = Stops(x) /\ Base(x.uri)' = Base(x.uri) /\ Through(x)' = Through(x)
  BY DEF Begins, Stops, Base, Size, Through, Object
<1> SUFFICES ASSUME LiveMode, NEW u \in 0 .. Length, NEW d \in BOOLEAN, Ahead(u, d)',
                    NEW x \in ToSet(TextAt(stream, u, d)), Media(x), x.start # None,
                    NEW n \in Begins(x) .. Stops(x), n <= Base(x.uri) + Through(x)
             PROVE  n \in ToSet(out'[stream])
  BY <1>1, <1>2, <1>3 DEF ThroughIsHeld, Media
<1> QED BY DEF RoundInv, ThroughIsHeld

LEMMA SameRoundHeld ==
  ASSUME RoundInv, UNCHANGED <<setting, stream, local, out>>,
         pc' \in Recording => pc \in Recording, pc' = "part" => pc = "part"
  PROVE  RoundInv'
<1>1. UNCHANGED <<setting, stream, depth, through, filled, out, recorded, todo, seen, round, cache>>
  BY DEF local
<1>2. Origin' = Origin /\ Dash' = Dash /\ Length' = Length /\ LiveMode' = LiveMode
  BY SettingKept
<1>3. CASE pc' \notin Recording
  BY <1>3, RoundOver
<1>4. CASE pc' \in Recording
  <2>1. CacheEnough'
    BY <1>1, <1>2, <1>4 DEF RoundInv, CacheEnough, Enough
  <2>2. DoneIsHeld'
    <3> SUFFICES ASSUME NEW x \in Part, Key(x) \in recorded, Media(x) PROVE Held(x)'
      BY <1>1 DEF DoneIsHeld, Part, PartOf, Key, Media
    <3>1. Held(x)
      BY <1>4 DEF RoundInv, DoneIsHeld
    <3> QED BY <1>1, <3>1, HeldStays
  <2>3. ThroughIsHeld'
    <3>1. \A u \in 0 .. Length, d \in BOOLEAN : Ahead(u, d)' => Ahead(u, d)
      BY <1>1, <1>2 DEF Ahead
    <3> QED BY <1>1, <1>4, <3>1, ThroughStays
  <2>4. NoneFilled'
    BY <1>1, <1>2, <1>4 DEF RoundInv, NoneFilled
  <2>5. AllTaken'
    <3>1. \A s, u, d : TextAt(s, u, d)' = TextAt(s, u, d)
      BY <1>1, TextKept
    <3> QED BY <1>1, <3>1 DEF RoundInv, AllTaken, Key, TextAt, Dash, Origin
  <2> QED BY <2>1, <2>2, <2>3, <2>4, <2>5 DEF RoundInv
<1> QED BY <1>3, <1>4

\* Nothing is fetched or written when a stream is begun.
LEMMA EnterMediaHeld ==
  ASSUME LiveInv, MarkedPlaylists, Unabridged(setting), ClearInv, EnterMedia
  PROVE  RoundInv'
<1>1. /\ UNCHANGED <<setting, edge, stream, seen, depth>> /\ pc' = "round"
      /\ cache' = <<>> /\ recorded' = {} /\ through' = <<>> /\ filled' = {}
  BY DEF EnterMedia, Goto
<1>2. Streams' = Streams /\ Origin' = Origin /\ Dash' = Dash /\ Length' = Length /\ LiveMode' = LiveMode
  BY <1>1, SettingKept
<1>3. LiveTypeOK /\ stream \in Streams /\ Length \in Nat
  BY SettingTyped DEF LiveInv, LiveTypeOK
<1>4. Dash \/ depth >= Origin[stream].nesting
  <2>1. BelowMasters'
    BY EnterMediaClear DEF ClearInv
  <2> QED BY <1>1, <1>2, <2>1 DEF BelowMasters, Recording
<1>5. CacheEnough' /\ DoneIsHeld' /\ NoneFilled' /\ AllTaken'
  BY <1>1 DEF CacheEnough, DoneIsHeld, NoneFilled, AllTaken
<1>6. \A u, d : TextAt(stream, u, d)' = TextAt(stream, u, d)
  BY <1>1, TextKept
<1>7. \A x : /\ Begins(x)' = Begins(x) /\ Stops(x)' = Stops(x) /\ Base(x.uri)' = Base(x.uri)
             /\ Through(x)' = 0
  BY <1>1 DEF Begins, Stops, Base, Size, Through, Object
<1>8. ThroughIsHeld'
  <2> SUFFICES ASSUME NEW u \in 0 .. Length, NEW d \in BOOLEAN,
                      NEW x \in ToSet(TextAt(stream, u, d)), Media(x), x.start # None,
                      NEW n \in Begins(x) .. Stops(x), n <= Base(x.uri) + 0
               PROVE  FALSE
    BY <1>1, <1>2, <1>6, <1>7 DEF ThroughIsHeld, Media
  <2>1. u \in Nat
    BY <1>3
  <2>2. Shaped(x, u, ~Dash /\ Origin[stream].ranged)
    BY <1>3, <1>4, <2>1, TextShaped
  <2>3. x \in Part /\ x.start \in Nat
    BY <2>2 DEF Shaped, Part, PartOf, Offsets
  <2>4. Begins(x) = Base(x.uri) + x.start + 1
    BY DEF Begins
  <2>5. Base(x.uri) \in Int
    BY <2>3, PartPlaces
  <2> DEFINE b == Base(x.uri)
  <2> HIDE DEF b
  <2>6. n \in Int /\ b \in Int /\ b + x.start + 1 <= n /\ n <= b
    BY <2>3, <2>4, <2>5 DEF b
  <2> QED BY <2>3, <2>6
<1> QED BY <1>5, <1>8 DEF RoundInv

\* A round takes all parts of its text.
LEMMA BeginRoundHeld ==
  ASSUME LiveInv, Unabridged(setting), RoundInv, BeginRound
  PROVE  RoundInv'
<1>1. /\ UNCHANGED <<setting, stream, depth, through, filled, out, recorded, seen, round, cache>>
      /\ pc = "round" /\ pc' = "part" /\ todo' = FirstParts(Parts(stream))
  BY DEF BeginRound, Goto
<1>2. Origin' = Origin /\ Dash' = Dash /\ Length' = Length /\ LiveMode' = LiveMode
  BY <1>1, SettingKept
<1>3. LiveTypeOK /\ stream \in Streams /\ MaxSegments \in Nat
  BY SettingTyped DEF LiveInv, LiveTypeOK
<1>4. CacheEnough'
  BY <1>1, <1>2 DEF RoundInv, CacheEnough, Enough, Recording
<1>5. DoneIsHeld'
  <2> SUFFICES ASSUME NEW x \in Part, Key(x) \in recorded, Media(x) PROVE Held(x)'
    BY <1>1 DEF DoneIsHeld, Part, PartOf, Key, Media
  <2>1. Held(x)
    BY <1>1 DEF RoundInv, DoneIsHeld, Recording
  <2> QED BY <1>1, <2>1, HeldStays
<1>6. ThroughIsHeld'
  <2>1. \A u \in 0 .. Length, d \in BOOLEAN : Ahead(u, d)' => Ahead(u, d)
    BY <1>1, <1>2 DEF Ahead
  <2> QED BY <1>1, <2>1, ThroughStays DEF Recording
<1>7. NoneFilled'
  BY <1>1, <1>2 DEF RoundInv, NoneFilled, Recording
<1>8. AllTaken'
  <2> DEFINE text == TextAt(stream, seen, round > 0)
             parts == Parts(stream)
  <2>1. text = parts /\ parts \in Seq(Part)
    BY <1>3, PartsAt, PartsTyped
  <2>2. Len(parts) <= MaxSegments
    <3> DEFINE d == round > 0
    <3>1. /\ seen \in 0 .. setting.length /\ d \in BOOLEAN /\ depth \in 0 .. MaxNesting
          /\ stream \in DOMAIN setting.origin
      BY <1>3 DEF LiveTypeOK, Streams, Origin, Length
    <3>2. parts = Manifests[setting][stream][seen][d][depth].parts
      BY DEF Parts, Text
    <3> HIDE DEF d
    <3> QED BY <3>1, <3>2 DEF Unabridged, MaxSegments
  <2> HIDE DEF parts
  <2>3. todo' = SubSeq(parts, 1, Len(parts))
    <3>1. Len(parts) \in Nat
      BY <2>1
    <3>2. (IF Len(parts) < MaxSegments THEN Len(parts) ELSE MaxSegments) = Len(parts)
      BY <1>3, <2>2, <3>1
    <3> QED BY <1>1, <3>2 DEF FirstParts, parts
  <2>4. todo' = parts
    BY <2>1, <2>3
  <2>5. text' = text
    BY <1>1, <1>2 DEF TextAt
  <2> QED BY <2>1, <2>4, <2>5 DEF AllTaken
<1> QED BY <1>4, <1>5, <1>6, <1>7, <1>8 DEF RoundInv

\* A poll looks at a later text.
LEMMA PollHeld ==
  ASSUME LiveInv, OrderInv, RoundInv, Poll
  PROVE  RoundInv'
<1>1. /\ UNCHANGED <<setting, stream, depth, through, filled, out, recorded, cache>>
      /\ pc = "poll" /\ pc' = "round" /\ seen' = edge[stream] /\ round' = round + 1
  BY DEF Poll, Goto
<1>2. Origin' = Origin /\ Dash' = Dash /\ Length' = Length /\ LiveMode' = LiveMode
  BY <1>1, SettingKept
<1>3. seen <= edge[stream] /\ LiveMode /\ seen \in Int /\ edge[stream] \in Int /\ round \in Nat
  <2>1. seen <= edge[stream] /\ LiveMode
    BY <1>1 DEF OrderInv, SeenPublished, PollLive, Recording
  <2> QED BY <2>1, EdgeSeen DEF LiveInv, LiveTypeOK
<1>4. CacheEnough'
  BY <1>1, <1>2, <1>3 DEF RoundInv, CacheEnough, Enough, Recording
<1>5. DoneIsHeld'
  <2> SUFFICES ASSUME NEW x \in Part, Key(x) \in recorded, Media(x) PROVE Held(x)'
    BY <1>1 DEF DoneIsHeld, Part, PartOf, Key, Media
  <2>1. Held(x)
    BY <1>1 DEF RoundInv, DoneIsHeld, Recording
  <2> QED BY <1>1, <2>1, HeldStays
<1>6. ThroughIsHeld'
  <2>1. \A u \in 0 .. Length, d \in BOOLEAN : Ahead(u, d)' => Ahead(u, d)
    BY <1>1, <1>2, <1>3 DEF Ahead
  <2> QED BY <1>1, <2>1, ThroughStays DEF Recording
<1>7. NoneFilled'
  BY <1>1, <1>2 DEF RoundInv, NoneFilled, Recording
<1>8. AllTaken'
  BY <1>1 DEF AllTaken
<1> QED BY <1>4, <1>5, <1>6, <1>7, <1>8 DEF RoundInv

\* A part is done when its units are written.
LEMMA DoneHeld ==
  ASSUME RoundInv, pc = "part", UNCHANGED <<setting, pc, stream>>,
         NEW part \in Part, recorded' = recorded \cup {Key(part)},
         ToSet(out[stream]) \subseteq ToSet(out'[stream]), Media(part) => Held(part)'
  PROVE  DoneIsHeld'
<1> SUFFICES ASSUME NEW x \in Part, Key(x) \in recorded \/ Key(x) = Key(part), Media(x) PROVE Held(x)'
  BY DEF DoneIsHeld, Part, PartOf, Key, Media
<1>1. CASE Key(x) \in recorded
  <2>1. Held(x)
    BY <1>1 DEF RoundInv, DoneIsHeld, Recording
  <2> QED BY <2>1, HeldStays
<1>2. CASE Key(x) = Key(part)
  <2>1. x.uri = part.uri /\ x.start = part.start /\ x.length = part.length
    BY <1>2 DEF Key
  <2>2. Media(part) /\ Begins(x)' = Begins(part)' /\ Stops(x)' = Stops(part)'
    BY <2>1 DEF Media, Begins, Stops
  <2> QED BY <2>2 DEF Held
<1> QED BY <1>1, <1>2

\* The parts left of the round.
LEMMA TakenMoves ==
  ASSUME LiveInv, RoundInv, pc = "part", todo # <<>>,
         UNCHANGED <<setting, pc, stream, depth, seen, round>>, todo' = Tail(todo),
         recorded' = recorded \cup {Key(Head(todo))}
  PROVE  AllTaken'
<1> DEFINE text == TextAt(stream, seen, round > 0)
<1>1. text' = text
  BY DEF TextAt, Dash, Origin
<1>2. todo \in Seq(Part)
  BY DEF LiveInv, LiveTypeOK
<1>3. \A x \in ToSet(todo) : x = Head(todo) \/ x \in ToSet(Tail(todo))
  <2> SUFFICES ASSUME NEW i \in DOMAIN todo, i # 1 PROVE \E j \in DOMAIN Tail(todo) : todo[i] = Tail(todo)[j]
    BY <1>2 DEF ToSet
  <2>1. i - 1 \in DOMAIN Tail(todo) /\ Tail(todo)[i - 1] = todo[(i - 1) + 1] /\ (i - 1) + 1 = i
    BY <1>2
  <2> QED BY <2>1
<1>4. \A x \in ToSet(text) : Key(x) \in recorded \/ x \in ToSet(todo)
  BY DEF RoundInv, AllTaken
<1> HIDE DEF text
<1>5. \A x \in ToSet(text) : Key(x) \in recorded' \/ x \in ToSet(todo')
  BY <1>3, <1>4
<1> QED BY <1>1, <1>5 DEF AllTaken, text, Key

\* A part that is skipped has been done before.
LEMMA SkipPartHeld ==
  ASSUME LiveInv, MarkedPlaylists, Unabridged(setting), ClearInv, OrderInv, RoundInv, SkipPart
  PROVE  RoundInv'
<1> DEFINE part == Head(todo)
           ranged == ~Dash /\ Origin[stream].ranged
<1>1. /\ UNCHANGED <<setting, pc, stream, depth, seen, round, through, filled, out, cache>>
      /\ todo' = Tail(todo) /\ recorded' = recorded \cup {Key(part)}
      /\ pc = "part" /\ todo # <<>> /\ (Key(part) \in recorded \/ Superseded(part))
  BY Zenon DEF SkipPart
<1>2. Origin' = Origin /\ Dash' = Dash /\ Length' = Length /\ LiveMode' = LiveMode
  BY <1>1, SettingKept
<1>3. LiveTypeOK /\ stream \in Streams /\ seen \in Nat /\ todo \in Seq(Part)
  BY SettingTyped DEF LiveInv, LiveTypeOK
<1>4. part \in Part
  BY <1>1, <1>3
<1>5. CacheEnough'
  BY <1>1, <1>2 DEF RoundInv, CacheEnough, Enough
<1>6. Key(part) \notin recorded /\ Media(part) => FALSE
  <2> SUFFICES ASSUME Key(part) \notin recorded, Media(part) PROVE FALSE
    OBVIOUS
  <2>2. Shaped(part, seen, ranged)
    BY <1>1, HeadShaped
  <2>3. part.start = None /\ part.occurrence \in filled
    BY <1>1 DEF Superseded
  <2>4. part.uri[1] = "seg" /\ ~ranged
    BY <2>2, <2>3 DEF Shaped, Media
  <2>5. filled = {}
    BY <1>1, <2>4 DEF RoundInv, NoneFilled, Recording
  <2> QED BY <2>3, <2>5
<1> HIDE DEF part
<1>7. DoneIsHeld'
  <2> SUFFICES ASSUME NEW x \in Part, Key(x) \in recorded', Media(x) PROVE Held(x)'
    BY <1>1 DEF DoneIsHeld, Part, PartOf, Key, Media
  <2>1. Key(x) \in recorded
    <3> SUFFICES ASSUME Key(x) = Key(part) PROVE Key(x) \in recorded
      BY <1>1
    <3>1. Media(part)
      BY DEF Key, Media
    <3> QED BY <1>6, <3>1
  <2>2. Held(x)
    BY <1>1, <2>1 DEF RoundInv, DoneIsHeld, Recording
  <2> QED BY <1>1, <2>2, HeldStays
<1>8. ThroughIsHeld'
  <2>1. \A u \in 0 .. Length, d \in BOOLEAN : Ahead(u, d)' => Ahead(u, d)
    BY <1>1, <1>2 DEF Ahead
  <2> QED BY <1>1, <2>1, ThroughStays DEF Recording
<1>9. NoneFilled'
  BY <1>1, <1>2 DEF RoundInv, NoneFilled
<1>10. AllTaken'
  BY <1>1, TakenMoves DEF part
<1> QED BY <1>5, <1>7, <1>8, <1>9, <1>10 DEF RoundInv

\* What is fetched is kept.
LEMMA CacheMoves ==
  ASSUME LiveInv, MarkedPlaylists, Unabridged(setting), ClearInv, OrderInv, RoundInv, AtPart,
         UNCHANGED <<setting, pc, seen>>,
         cache' = Updated(cache, Object(Head(todo)), Fetched(Head(todo)))
  PROVE  CacheEnough'
<1> DEFINE at == Object(Head(todo))
           data == Fetched(Head(todo))
<1>1. Enough(at, data)
  BY FetchedEnough
<1>2. \A object \in DOMAIN cache : Enough(object, cache[object])
  BY DEF AtPart, RoundInv, CacheEnough, Recording
<1> HIDE DEF at, data
<1>3. /\ DOMAIN cache' = DOMAIN cache \cup {at}
      /\ \A object \in DOMAIN cache' : cache'[object] = IF object = at THEN data ELSE cache[object]
  BY DEF Updated, at, data
<1>4. \A object \in DOMAIN cache' : Enough(object, cache'[object])
  BY <1>1, <1>2, <1>3
<1>5. \A object, d : Enough(object, d)' = Enough(object, d)
  BY SettingKept DEF Enough
<1> QED BY <1>4, <1>5, SettingKept DEF CacheEnough, Enough

\* A part of which nothing is new is written.
LEMMA NothingNewHeld ==
  ASSUME LiveInv, MarkedPlaylists, Unabridged(setting), ClearInv, OrderInv, RoundInv, NothingNew
  PROVE  RoundInv'
<1> DEFINE part == Head(todo)
<1>1. /\ AtPart /\ UNCHANGED <<setting, pc, stream, depth, seen, round, through, filled, out>>
      /\ todo' = Tail(todo) /\ recorded' = recorded \cup {Key(part)}
      /\ Slice(part, Fetched(part)).none /\ cache' = Updated(cache, Object(part), Fetched(part))
  BY Zenon DEF NothingNew
<1>2. pc = "part" /\ todo # <<>>
  BY <1>1 DEF AtPart
<1>3. CacheEnough'
  BY <1>1, CacheMoves
<1>4. PICK x : x = part
  OBVIOUS
<1>5. x \in Part
  BY <1>2, <1>4, HeadShaped DEF Shaped
<1>6. DoneIsHeld'
  <2>1. Media(x) => Held(x)'
    <3> SUFFICES ASSUME Media(x) PROVE Held(x)'
      OBVIOUS
    <3>1. \A n \in Begins(x) .. Stops(x) : n \in ToSet(out[stream])
      BY <1>1, <1>4, PartUnits
    <3>2. Held(x)
      BY <3>1 DEF Held
    <3> QED BY <1>1, <3>2, HeldStays
  <2>2. recorded' = recorded \cup {Key(x)}
    BY <1>1, <1>4
  <2> QED BY <1>1, <1>2, <1>5, <2>1, <2>2, DoneHeld
<1>7. ThroughIsHeld'
  <2>1. \A u \in 0 .. Length, d \in BOOLEAN : Ahead(u, d)' => Ahead(u, d)
    BY <1>1, SettingKept DEF Ahead
  <2> QED BY <1>1, <1>2, <2>1, ThroughStays DEF Recording
<1>8. NoneFilled'
  BY <1>1, SettingKept DEF RoundInv, NoneFilled
<1>9. AllTaken'
  BY <1>1, <1>2, TakenMoves
<1> QED BY <1>3, <1>6, <1>7, <1>8, <1>9 DEF RoundInv

\* What of the object of a part is behind it is written, in whatever text it is.
LEMMA BehindIsHeld ==
  ASSUME LiveInv, MarkedPlaylists, Orderly, Unabridged(setting), ClearInv, OrderInv, RoundInv, AtPart,
         UNCHANGED <<setting, pc, stream>>, recorded' = recorded \cup {Key(Head(todo))}, DoneIsHeld',
         NEW u \in 0 .. Length, NEW d \in BOOLEAN, Ahead(u, d),
         NEW x \in ToSet(TextAt(stream, u, d)), Media(x), x.start # None,
         NEW n \in Int, Begins(x) <= n, n <= Stops(x), n <= Stops(Head(todo))
  PROVE  n \in ToSet(out'[stream])
<1> DEFINE part == Head(todo)
           t == round > 0
           text == TextAt(stream, seen, t)
<1>1. /\ pc = "part" /\ todo # <<>> /\ LiveTypeOK /\ stream \in Streams /\ Length \in Nat
      /\ seen \in 0 .. Length /\ t \in BOOLEAN
  BY SettingTyped DEF AtPart, LiveInv, LiveTypeOK
<1>2. /\ part \in ToSet(text)
      /\ \A y \in ToSet(text) : y \in Part
      /\ \A y \in ToSet(text) : Begins(y) <= Stops(part) => Key(y) \in recorded \/ y = part
  BY <1>1, HeadPlace
<1>3. Dash \/ depth >= Origin[stream].nesting
  BY <1>1 DEF ClearInv, BelowMasters, Recording
<1>4. Ahead(u, d) => (u = seen /\ d = t) \/ (LiveMode /\ d /\ u >= seen)
  BY DEF Ahead
<1> HIDE DEF t, part
<1>5. ASSUME NEW y \in ToSet(text), Media(y), Begins(y) <= n, n <= Stops(y) PROVE n \in ToSet(out'[stream])
  <2>1. y \in Part /\ part \in Part
    BY <1>2
  <2>2. Begins(y) \in Int /\ Stops(y) \in Int /\ Stops(part) \in Int
    BY <2>1, PartPlaces
  <2>3. Begins(y) <= Stops(part)
    BY <1>5, <2>2 DEF part
  <2>4. Key(y) \in recorded'
    BY <1>2, <2>3 DEF part
  <2>5. Held(y)'
    BY <1>1, <1>5, <2>1, <2>4 DEF DoneIsHeld, Recording, Part, PartOf, Key, Media
  <2>6. Begins(y)' = Begins(y) /\ Stops(y)' = Stops(y)
    BY DEF Begins, Stops, Base, Size
  <2>7. n \in Begins(y) .. Stops(y)
    BY <1>5, <2>2
  <2> QED BY <2>5, <2>6, <2>7 DEF Held
<1>6. CASE x \in ToSet(text)
  BY <1>5, <1>6
<1>7. CASE x \notin ToSet(text)
  <2>1. LiveMode /\ d /\ u >= seen
    BY <1>4, <1>7
  <2>2. seen \in 0 .. u
    BY <1>1, <2>1
  <2>3. Covers(ToSet(text), ToSet(TextAt(stream, u, d)))
    <3>1. t => d
      BY <2>1
    <3> QED BY <1>1, <1>3, <2>2, <3>1, TextCovers
  <2>4. Begins(x) <= Stops(part)
    <3>1. x \in Part
      <4>1. u \in Nat
        BY <1>1
      <4>2. Shaped(x, u, ~Dash /\ Origin[stream].ranged)
        BY <1>1, <1>3, <4>1, TextShaped
      <4> QED BY <4>2 DEF Shaped
    <3>2. Begins(x) \in Int /\ Stops(part) \in Int
      BY <1>2, <3>1, PartPlaces
    <3> QED BY <3>2 DEF part
  <2>5. Mates(part, x)
    BY <1>2, <1>7, <2>3, <2>4 DEF Covers
  <2>6. n <= Stops(part)
    BY DEF part
  <2>7. \E y \in ToSet(text) : Media(y) /\ Begins(y) = n /\ Stops(y) = n
    BY <1>1, <1>2, <1>3, <2>5, <2>6, MatesBefore
  <2>8. PICK y \in ToSet(text) : Media(y) /\ Begins(y) = n /\ Stops(y) = n
    BY <2>7
  <2> QED BY <1>5, <2>8
<1> QED BY <1>6, <1>7

\* A part that is written is written whole.
LEMMA WritePartHeld ==
  ASSUME LiveInv, MarkedPlaylists, Orderly, Unabridged(setting), ClearInv, OrderInv, RoundInv, WritePart
  PROVE  RoundInv'
<1> DEFINE part == Head(todo)
           data == Fetched(part)
           chunk == Chunk(part, data)
           to == Slice(part, data).to
           base == Base(part.uri)
           ranged == ~Dash /\ Origin[stream].ranged
<1>1. /\ AtPart /\ UNCHANGED <<setting, pc, stream, seen, depth, round>> /\ todo' = Tail(todo)
      /\ ~Slice(part, data).none
      /\ cache' = Updated(cache, Object(part), data)
      /\ through' = IF part.start = None THEN through ELSE Updated(through, Object(part), to)
      /\ recorded' = recorded \cup {Key(part)}
      /\ filled' = IF part.partial THEN filled \cup {part.occurrence} ELSE filled
      /\ out' = [out EXCEPT ![stream] = @ \o chunk]
  BY Zenon DEF WritePart
<1>2. pc = "part" /\ todo # <<>>
  BY <1>1 DEF AtPart
<1>3. Streams' = Streams /\ Origin' = Origin /\ Dash' = Dash /\ Length' = Length /\ LiveMode' = LiveMode
  BY <1>1, SettingKept
<1>4. /\ Shaped(part, seen, ranged) /\ LiveTypeOK /\ stream \in Streams /\ seen \in Nat
      /\ Dash \/ depth >= Origin[stream].nesting
  BY <1>2, HeadShaped
<1>5. part \in Part
  BY <1>4 DEF Shaped
<1>6. data \in Seq(Int)
  <2> HIDE DEF part
  <2> QED BY <1>4, <1>5, FetchedTyped
<1>7. chunk \in Seq(Int)
  <2> HIDE DEF part, data
  <2> QED BY <1>4, <1>5, <1>6, SliceTyped
<1>8. ToSet(out'[stream]) = ToSet(out[stream]) \cup ToSet(chunk)
  <2> DEFINE before == out[stream]
  <2>1. before \in Seq(Int) /\ out'[stream] = before \o chunk
    BY <1>1, <1>4 DEF LiveTypeOK
  <2> HIDE DEF before, chunk
  <2>2. ToSet(before \o chunk) = ToSet(before) \cup ToSet(chunk)
    BY <1>7, <2>1, JoinedSet
  <2> QED BY <2>1, <2>2 DEF before
<1>9. CacheEnough'
  BY <1>1, CacheMoves
<1>10. ASSUME NEW x, x = part, Media(x) PROVE Held(x)'
  <2> SUFFICES ASSUME NEW n \in Begins(x) .. Stops(x) PROVE n \in ToSet(out'[stream])
    BY <1>1 DEF Held, Begins, Stops, Base, Size
  <2>1. n \in ToSet(out[stream]) \/ n \in ToSet(chunk)
    BY <1>1, <1>10, PartUnits
  <2> HIDE DEF chunk
  <2> QED BY <1>8, <2>1
<1>11. Media(part) /\ part.start # None => base + to <= Stops(part)
  <2> SUFFICES ASSUME Media(part), part.start # None PROVE base + to <= Stops(part)
    OBVIOUS
  <2>1. Stops(part) <= base + Len(data)
    BY <1>1, FetchedEnough
  <2> HIDE DEF part, data, ranged
  <2> QED BY <1>4, <1>6, <2>1, SliceWhole DEF part
<1>12. base \in Int /\ to \in Nat /\ Stops(part) \in Int
  <2> HIDE DEF part, data
  <2> QED BY <1>4, <1>5, <1>6, PartPlaces, SliceTyped
<1> HIDE DEF data, chunk, to
<1>13. DoneIsHeld'
  <2>1. PICK x : x = part
    OBVIOUS
  <2>2. /\ ToSet(out[stream]) \subseteq ToSet(out'[stream]) /\ x \in Part
        /\ recorded' = recorded \cup {Key(x)} /\ (Media(x) => Held(x)')
    BY <1>1, <1>5, <1>8, <1>10, <2>1
  <2> QED BY <1>1, <1>2, <2>2, DoneHeld
<1>14. NoneFilled'
  <2> SUFFICES ASSUME ~ranged PROVE filled' = {}
    BY <1>3, <1>1 DEF NoneFilled
  <2>1. filled = {}
    BY <1>2 DEF RoundInv, NoneFilled, Recording
  <2>2. ~part.partial
    BY <1>4 DEF Shaped
  <2> QED BY <1>1, <2>1, <2>2
<1>15. ThroughIsHeld'
  <2>1. \A u, d : TextAt(stream, u, d)' = TextAt(stream, u, d)
    BY <1>1, TextKept
  <2>2. \A x : Begins(x)' = Begins(x) /\ Stops(x)' = Stops(x) /\ Base(x.uri)' = Base(x.uri)
    BY DEF Begins, Stops, Base, Size
  <2>3. \A u \in 0 .. Length, d \in BOOLEAN : Ahead(u, d)' => Ahead(u, d)
    BY <1>1, <1>3 DEF Ahead
  <2> SUFFICES ASSUME LiveMode, NEW u \in 0 .. Length, NEW d \in BOOLEAN, Ahead(u, d),
                      NEW x \in ToSet(TextAt(stream, u, d)), Media(x), x.start # None,
                      NEW n \in Begins(x) .. Stops(x), n <= Base(x.uri) + Through(x)'
               PROVE  n \in ToSet(out'[stream])
    BY <1>1, <1>3, <2>1, <2>2, <2>3 DEF ThroughIsHeld, Media
  <2>4. CASE Through(x)' = Through(x)
    <3>1. n \in ToSet(out[stream])
      BY <1>2, <2>4 DEF RoundInv, ThroughIsHeld, Recording
    <3> QED BY <1>8, <3>1
  <2>5. CASE Through(x)' # Through(x)
    <3>1. Object(x)' = Object(x)
      BY DEF Object
    <3>2. part.start # None /\ Object(x) = Object(part) /\ Through(x)' = to
      <4>1. part.start # None
        BY <1>1, <2>5, <3>1 DEF Through
      <4>2. /\ DOMAIN through' = DOMAIN through \cup {Object(part)}
            /\ \A y \in DOMAIN through' : through'[y] = IF y = Object(part) THEN to ELSE through[y]
        BY <1>1, <4>1 DEF Updated
      <4>3. Object(x) = Object(part)
        BY <2>5, <3>1, <4>2 DEF Through
      <4> QED BY <3>1, <4>1, <4>2, <4>3 DEF Through
    <3>3. x.uri = part.uri
      BY <3>2 DEF Object
    <3>4. Media(part) /\ Base(x.uri) = base
      BY <3>3 DEF Media
    <3>5. n \in Int /\ Begins(x) <= n /\ n <= Stops(x)
      <4>1. x \in Part
        <5>1. u \in Nat
          BY <1>4, SettingTyped DEF LiveTypeOK
        <5>2. Shaped(x, u, ranged)
          BY <1>4, <5>1, TextShaped
        <5> QED BY <5>2 DEF Shaped
      <4>2. Begins(x) \in Int /\ Stops(x) \in Int
        BY <4>1, PartPlaces
      <4> QED BY <4>2
    <3>6. n <= Stops(part)
      <4> DEFINE reach == base + to
      <4>1. n <= reach
        BY <3>2, <3>4
      <4>2. reach <= Stops(part) /\ reach \in Int
        BY <1>11, <1>12, <3>2, <3>4
      <4> HIDE DEF reach
      <4> QED BY <1>12, <3>5, <4>1, <4>2
    <3>7. n <= Stops(Head(todo)) /\ recorded' = recorded \cup {Key(Head(todo))}
      BY <1>1, <3>6
    <3> HIDE DEF part
    <3> QED BY <1>1, <1>13, <3>5, <3>7, BehindIsHeld
  <2> QED BY <2>4, <2>5
<1>16. AllTaken'
  BY <1>1, <1>2, TakenMoves
<1> QED BY <1>9, <1>13, <1>14, <1>15, <1>16 DEF RoundInv

LEMMA RoundStep ==
  LiveInv /\ MarkedPlaylists /\ Orderly /\ Unabridged(setting) /\ ClearInv /\ OrderInv /\ RoundInv /\ [Next]_vars
    => RoundInv'
<1> SUFFICES ASSUME LiveInv, MarkedPlaylists, Orderly, Unabridged(setting), ClearInv, OrderInv, RoundInv,
                    [Next]_vars
             PROVE  RoundInv'
  OBVIOUS
<1>1. CASE EnterRefused \/ EnterEmpty \/ OverBudget \/ CloseEmpty \/ Stop
  <2>1. pc' \in Final
    BY <1>1 DEF EnterRefused, EnterEmpty, OverBudget, CloseEmpty, Stop, Raise, Goto, Final
  <2> QED BY <2>1, RoundOver DEF Final, Recording
<1>2. CASE EnterMaster
  <2>1. pc' = "enter"
    BY <1>2 DEF EnterMaster
  <2> QED BY <2>1, RoundOver DEF Recording
<1>3. CASE EnterMedia
  BY <1>3, EnterMediaHeld
<1>4. CASE BeginRound
  BY <1>4, BeginRoundHeld
<1>5. CASE RefusedInRound
  <2>1. /\ UNCHANGED <<setting, stream, local, out>>
        /\ pc = "round" /\ pc' \in {"close", "refused"}
    BY <1>5 DEF RefusedInRound, Goto
  <2> QED BY <2>1, SameRoundHeld DEF Recording
<1>6. CASE SkipPart
  BY <1>6, SkipPartHeld
<1>7. CASE NothingNew
  BY <1>7, NothingNewHeld
<1>8. CASE WritePart
  BY <1>8, WritePartHeld
<1>9. CASE EndRound
  <2>1. /\ UNCHANGED <<setting, stream, local, out>>
        /\ pc = "part" /\ pc' \in {"poll", "close"}
    BY <1>9 DEF EndRound, AtEnd, Goto
  <2> QED BY <2>1, SameRoundHeld DEF Recording
<1>10. CASE Poll
  BY <1>10, PollHeld
<1>11. CASE Close \/ SidecarPlaylist \/ SidecarObject
  <2>1. pc' \notin Recording
    BY <1>11 DEF Close, SidecarPlaylist, SidecarObject, Goto, Recording
  <2> QED BY <2>1, RoundOver
<1>12. CASE RequestFails
  <2>1. /\ UNCHANGED <<setting, stream, local, out>>
        /\ \/ pc = "poll" /\ pc' = "close"
           \/ pc' = "failed"
    BY <1>12 DEF RequestFails, Raise, Goto
  <2> QED BY <2>1, SameRoundHeld DEF Recording
<1>13. CASE PublishSome \/ UNCHANGED vars
  <2>1. UNCHANGED <<setting, stream, local, out, pc>>
    BY <1>13 DEF PublishSome, Publish, vars
  <2> QED BY <2>1, SameRoundHeld
<1> QED BY <1>1, <1>2, <1>3, <1>4, <1>5, <1>6, <1>7, <1>8, <1>9, <1>10, <1>11, <1>12, <1>13
    DEF Next, Record

LEMMA RoundInit == Init => RoundInv
BY DEF Init, RoundInv, CacheEnough, DoneIsHeld, ThroughIsHeld, NoneFilled, AllTaken, Recording

LEMMA SettingStays == [Next]_vars => setting' = setting
<1> SUFFICES ASSUME [Next]_vars PROVE setting' = setting
  OBVIOUS
<1>1. CASE Record
  BY <1>1 DEF Record, EnterRefused, EnterEmpty, EnterMaster, EnterMedia, BeginRound, RefusedInRound,
    SkipPart, NothingNew, WritePart, OverBudget, EndRound, Poll, CloseEmpty, Close, SidecarPlaylist,
    SidecarObject, Raise
<1>2. CASE Stop \/ RequestFails \/ PublishSome \/ UNCHANGED vars
  BY <1>2 DEF Stop, RequestFails, PublishSome, Publish, Raise, vars
<1> QED BY <1>1, <1>2 DEF Next

RoundsHold == Unabridged(setting) => RoundInv

-----------------------------------------------------------------------------
(* The theorems. *)

THEOREM LiveInvHolds == Spec => []LiveInv
BY LiveInit, LiveStep, PTL DEF Spec

\* The bytes on disk of all streams and polls are what the budget has counted, and
\* within the bound of the profile (ByteBudget.consume, one budget for every
\* record_clear_stream and every sidecar).
THEOREM BudgetKept == Spec => []BudgetHolds
<1>1. LiveInv => BudgetHolds
  BY DEF LiveInv
<1> QED BY <1>1, LiveInvHolds, PTL

\* A stream that turned out to be protected is the last that is recorded: the main
\* stream of an HLS master, any kind of a DASH manifest (drm_flag).
THEOREM RefusalStays == Spec => []RefusalIsFinal
<1>1. LiveInv => RefusalIsFinal
  BY DEF LiveInv
<1> QED BY <1>1, LiveInvHolds, PTL

\* Nothing behind a key or marked as a gap is requested or written, no text of a
\* playlist is taken for media, and a refusal is final (_clear_hls_parts,
\* record_clear_stream, record_kind_streams), whatever is published when.
THEOREM ProtectedIsLeftAlone ==
  ASSUME MarkedPlaylists
  PROVE  Spec => []ProtectionHolds
<1>1. Init => LiveInv /\ ClearInv
  BY LiveInit, ClearInit
<1>2. LiveInv /\ ClearInv /\ [Next]_vars => (LiveInv /\ ClearInv)'
  BY LiveStep, ClearStep
<1>3. LiveInv /\ ClearInv => ProtectionHolds
  BY ClearIsEnough
<1> QED BY <1>1, <1>2, <1>3, PTL DEF Spec

\* A recording holds the initialization section and the units of its stream in
\* order, none twice, whatever is published when, over all polls of a sliding
\* window (the keys of parts, written_through, the PARTs that stand for their
\* segment).
THEOREM RecordedOnceInOrder ==
  ASSUME MarkedPlaylists, Orderly
  PROVE  Spec => []RecordedInOrder
<1>1. Init => LiveInv /\ ClearInv /\ OrderInv
  BY LiveInit, ClearInit, OrderInit
<1>2. LiveInv /\ ClearInv /\ OrderInv /\ [Next]_vars => (LiveInv /\ ClearInv /\ OrderInv)'
  BY LiveStep, ClearStep, OrderStep
<1>3. OrderInv => RecordedInOrder
  BY DEF OrderInv
<1> QED BY <1>1, <1>2, <1>3, PTL DEF Spec

\* When a round ends, every complete segment that the manifest lists before the
\* first key has been written, whatever is published when ("SHALL be polled for
\* newly advertised segments"; record_clear_stream, _write_recorded_parts).
THEOREM AdvertisedAreRecorded ==
  ASSUME MarkedPlaylists, Orderly
  PROVE  Spec => []AdvertisedIsRecorded
<1> DEFINE IInv == LiveInv /\ ClearInv /\ OrderInv /\ RoundsHold
<1>1. Init => IInv
  BY LiveInit, ClearInit, OrderInit, RoundInit DEF RoundsHold
<1>2. IInv /\ [Next]_vars => IInv'
  <2> SUFFICES ASSUME IInv, [Next]_vars PROVE IInv'
    OBVIOUS
  <2>1. LiveInv' /\ ClearInv' /\ OrderInv'
    BY LiveStep, ClearStep, OrderStep
  <2>2. Unabridged(setting)' = Unabridged(setting)
    BY SettingStays DEF Unabridged
  <2>3. RoundsHold'
    BY <2>2, RoundStep DEF RoundsHold
  <2> QED BY <2>1, <2>3
<1>3. IInv => AdvertisedIsRecorded
  BY RoundIsEnough DEF RoundsHold, AdvertisedIsRecorded
<1> QED BY <1>1, <1>2, <1>3, PTL DEF Spec
=============================================================================
