----------------------------- MODULE DashTemplate -----------------------------
(***************************************************************************)
(* _template_urls of live.py: the segments a SegmentTemplate stands for.   *)
(* With a SegmentTimeline they are read from its S elements: the fields    *)
(* t, n, d, r and k of S are its attributes, None when it has none; d is   *)
(* 0 when it is missing.  Without one they are counted, up to endNumber or *)
(* to the end of the Period.  Times and the length of the Period are in    *)
(* units of the timescale; a locator is represented by the number, the     *)
(* time and the subsegment that are put into the template.                 *)
(***************************************************************************)
EXTENDS Integers, SequencesExt, PythonNone

CONSTANTS
  Templates,        \* the templates that are read
  SegmentDuration,  \* duration of a segment without a timeline
  StartNumber,
  MaxSegments       \* MAX_TIMELINE_SEGMENTS (64)

\* An S element, and a template: its S elements, the length of its Period, its
\* endNumber, and whether it names $SubNumber$.
Sample == [t: Int \cup {None}, n: Int \cup {None}, d: Int, r: Int, k: Int \cup {None}]
SegmentTemplate ==
    [timeline: Seq(Sample), period: Nat \cup {None}, end: Int \cup {None}, keyed: BOOLEAN]

ASSUME TemplateAssumption ==
    /\ Templates \subseteq SegmentTemplate
    /\ SegmentDuration \in Int /\ StartNumber \in Int /\ MaxSegments \in Nat \ {0}
    /\ None \notin Int

\* An S without a locator, one of a template with $SubNumber$ that repeats, is
\* not beyond the bound: the code counts no more of its repeats than the bound,
\* and what follows it would begin too early.
RepeatsFit ==
    \A x \in Templates : x.keyed =>
        \A i \in DOMAIN x.timeline : i < Len(x.timeline) => x.timeline[i].r \in 0 .. MaxSegments - 1

VARIABLES template, \* the template
          left,     \* S elements that are left
          repeats,  \* segments that are left of the S element being read
          subs,     \* subsegments of each of them; None: not numbered
          number, clock,
          urls

templateVars == <<template, left, repeats, subs, number, clock, urls>>

Timeline  == template.timeline
Period    == template.period
EndNumber == template.end
Keyed     == template.keyed

Lesser(a, b) == IF a < b THEN a ELSE b
Greater(a, b) == IF a > b THEN a ELSE b

\* The segments of a duration that begin before the length is over.
\* Mutant: the one at the end is not counted unless it is whole.
WholeOnly(length, duration) == length \div duration
Fitted(length, duration) == (length + duration - 1) \div duration

\* _template_last_number
LastNumber ==
    CASE EndNumber # None -> Lesser(Greater(EndNumber, StartNumber), StartNumber + MaxSegments - 1)
      [] EndNumber = None /\ SegmentDuration > 0 /\ Period \notin {None, 0} ->
           StartNumber + Lesser(Fitted(Period, SegmentDuration), MaxSegments) - 1
      [] OTHER -> None

\* What is left without a timeline: the numbers up to the last, or one segment.
Counted == IF LastNumber = None THEN 1 ELSE LastNumber - StartNumber + 1

TemplateInit ==
    /\ template \in Templates
    /\ left = Timeline
    /\ repeats = IF Timeline = <<>> THEN Counted ELSE 0
    /\ subs = None /\ urls = <<>>
    /\ number = StartNumber
    /\ clock = IF Timeline = <<>> /\ LastNumber = None THEN None ELSE 0

\* How often S repeats: until the Period ends when r is negative, or without
\* end when that is not known.
Count(s, from) ==
    IF s.r >= 0 THEN Lesser(s.r + 1, MaxSegments)
    ELSE IF s.d > 0 /\ Period # None
         THEN Lesser(Greater(MaxSegments - Len(urls), 1), Fitted(Period - from, s.d))
         ELSE Greater(MaxSegments - Len(urls), 1)

\* The time and the number of an S are taken also when none of it fits.
ReadS ==
    LET s    == Head(left)
        from == IF s.t = None THEN clock ELSE s.t
        numbered == Keyed /\ s.k # None /\ s.r = 0
    IN /\ repeats = 0 /\ left # <<>>
       /\ left' = Tail(left)
       /\ clock' = from
       /\ number' = IF s.n = None THEN number ELSE s.n
       /\ repeats' = Greater(Count(s, from), 0)
       /\ subs' = IF numbered THEN Greater(s.k, 1) ELSE None
       /\ UNCHANGED <<template, urls>>

\* The S element that is read.
Current == Timeline[Len(Timeline) - Len(left)]
Step == IF Timeline = <<>> THEN SegmentDuration ELSE Current.d

\* _expand_dash_template: what is put into the template.
Named(n, t, sub) == [number |-> n, time |-> t, sub |-> sub]
Locator(sub) == Named(number, clock, sub)

\* Mutant: the bound is on segments, not on subsegments.
EmitSegment ==
    LET emit == IF subs = None THEN 1 ELSE subs
    IN /\ repeats > 0 /\ Len(urls) < MaxSegments
       /\ repeats' = repeats - 1
       /\ urls' = urls \o [i \in 1 .. emit |-> Locator(IF subs = None THEN None ELSE i)]
       /\ number' = number + 1
       /\ clock' = IF clock = None THEN None ELSE clock + Step
       /\ UNCHANGED <<template, left, subs>>

\* A segment, or its subsegments as far as there is room; a template with
\* $SubNumber$ has no locator for a segment without subsegments.
Emit ==
    LET room == MaxSegments - Len(urls)
        emit == IF subs = None THEN (IF Keyed THEN 0 ELSE 1) ELSE Lesser(subs, room)
    IN /\ repeats > 0 /\ room > 0
       /\ repeats' = repeats - 1
       /\ urls' = urls \o [i \in 1 .. emit |-> Locator(IF subs = None THEN None ELSE i)]
       /\ number' = number + 1
       /\ clock' = IF clock = None THEN None ELSE clock + Step
       /\ UNCHANGED <<template, left, subs>>

\* No room is left: the rest of the S is dropped.
Full ==
    /\ repeats > 0 /\ Len(urls) >= MaxSegments
    /\ repeats' = 0
    /\ UNCHANGED <<template, left, subs, number, clock, urls>>

TemplateNext == ReadS \/ Emit \/ Full

TemplateSpec == TemplateInit /\ [][TemplateNext]_templateVars

-----------------------------------------------------------------------------
Done == repeats = 0 /\ left = <<>>

\* What the elements of the timeline say, without the bound: each goes on from
\* where the one before it came to, unless it has a time or a number itself.
Expanded(walk, s) ==
    LET from     == IF s.t = None THEN walk.clock ELSE s.t
        first    == IF s.n = None THEN walk.number ELSE s.n
        numbered == Keyed /\ s.k # None /\ s.r = 0
        times    == IF s.r >= 0 THEN s.r + 1
                    ELSE IF s.d > 0 /\ Period # None THEN Greater(Fitted(Period - from, s.d), 0)
                    ELSE MaxSegments
        said     == IF numbered THEN [j \in 1 .. Greater(s.k, 1) |-> Named(first, from, j)]
                    ELSE IF Keyed THEN <<>>
                    ELSE [i \in 1 .. times |-> Named(first + i - 1, from + (i - 1) * s.d, None)]
    IN  [clock |-> from + times * s.d, number |-> first + times, urls |-> walk.urls \o said]
Walked[n \in 0 .. Len(Timeline)] ==
    IF n = 0 THEN [clock |-> 0, number |-> StartNumber, urls |-> <<>>]
    ELSE Expanded(Walked[n - 1], Timeline[n])
Expansion == Walked[Len(Timeline)].urls

\* The bound of 64 locators only cuts the end off: what is recorded is the
\* beginning of what the timeline says, in order, with no segment left out and
\* the subsegments counted ("SegmentTimeline without t keeps a running clock").
BoundCutsTheEnd ==
    Timeline # <<>> => /\ IsPrefix(urls, Expansion)
                       /\ Done => Len(urls) = Lesser(Len(Expansion), MaxSegments)

\* Segments that are counted, or repeated without end, begin before the Period
\* is over and reach its end, unless the bound cuts them off ("so $Number$
\* locators stop at the real duration instead of always filling 64 segments").
FillsPeriod == IF Timeline = <<>> THEN EndNumber = None /\ SegmentDuration > 0
               ELSE left # Timeline /\ Current.r < 0 /\ Current.d > 0
SegmentsFillPeriod ==
    (FillsPeriod /\ ~Keyed /\ Period \notin {None, 0}) =>
        IF repeats > 0 THEN clock < Period \/ Len(urls) = MaxSegments
        ELSE Len(urls) < MaxSegments => clock >= Period

\* The locators of a template are neither too many nor too few (_template_urls).
TemplateIsFilled == BoundCutsTheEnd /\ SegmentsFillPeriod
=============================================================================
