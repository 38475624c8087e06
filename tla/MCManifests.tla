------------------------------ MODULE MCManifests ------------------------------
(***************************************************************************)
(* The four readers of manifests of live.py for TLC.  They share no state: *)
(* a behaviour is about one of them, the part, and the variables of the    *)
(* others keep their first value.                                          *)
(***************************************************************************)
EXTENDS HlsMaster, DashManifest, DashWindows, DashTemplate, SampleManifests

VARIABLE part

-----------------------------------------------------------------------------
\* Lines of a master playlist.
Groups == [audio |-> "a", video |-> "v"]
SomeVariants ==
  {[bandwidth |-> b, uri |-> u, groups |-> Groups] : b \in {1, 2}, u \in {"x", "y"}}
  \cup {[bandwidth |-> None, uri |-> "z", groups |-> Groups],
        [bandwidth |-> 3, uri |-> Unbound, groups |-> Groups],
        [bandwidth |-> 1, uri |-> "w", groups |-> [audio |-> None, video |-> None]]}
Rendition(kind, group, default, autoselect, uri) ==
  [kind |-> kind, group |-> group, default |-> default, autoselect |-> autoselect, uri |-> uri]
SomeRenditions ==
  {Rendition("audio", "a", d, TRUE, u) : d \in BOOLEAN, u \in {None, "p"}}
  \cup {Rendition("audio", "b", TRUE, TRUE, "p"), Rendition("audio", "a", FALSE, FALSE, "q"),
        Rendition("audio", "a", FALSE, FALSE, Unbound), Rendition("video", "v", FALSE, FALSE, "m")}
SomeTagged == {[bandwidth |-> b, uri |-> "i"] : b \in {1, 2}} \cup {[bandwidth |-> 2, uri |-> "j"]}

\* Elements of a SegmentTimeline.
S == [t: {None, 1, 6}, n: {None, 7}, d: {0, 2}, r: {-1, 0, 2}, k: {None, 3}]
SomeS == {s \in S : (s.n = None \/ s.t = None) /\ (s.k = None \/ s.r = 0)}
SomeTimelines == UNION {[1 .. n -> SomeS] : n \in 0 .. 2}
SomeTemplates ==
  {x \in [timeline: SomeTimelines, period: {None, 0, 5, 8}, end: {None, 0, 3, 30}, keyed: BOOLEAN] :
     x.keyed => \A i \in DOMAIN x.timeline : i < Len(x.timeline) => x.timeline[i].r >= 0}

\* The hypotheses of TemplatesFilled and BestIsRecorded in Manifests_proofs.
ASSUME TemplatesFit == RepeatsFit
ASSUME ManifestsAreWellWritten == WellWritten

-----------------------------------------------------------------------------
allVars == <<part, masterVars, manifestVars, vars, templateVars>>

Begin(p) ==
  CASE p = "master"   -> MasterInit
    [] p = "manifest" -> ManifestInit
    [] p = "windows"  -> Init
    [] p = "template" -> TemplateInit

\* The values of the parts that rest.
Resting(p) ==
  CASE p = "master"   -> MasterInit
    [] p = "manifest" -> mpd = None /\ periods = 0 /\ picked = <<>> /\ buckets = <<>>
    [] p = "windows"  ->
         /\ count = 0 /\ stated = None /\ starts = <<>> /\ durations = <<>>
         /\ pass = "done" /\ index = 1 /\ changed = FALSE
    [] p = "template" ->
         /\ template = [timeline |-> <<>>, period |-> None, end |-> None, keyed |-> TRUE]
         /\ left = <<>>
         /\ repeats = 0 /\ subs = None /\ number = 0 /\ clock = None /\ urls = <<>>

Parts == {"master", "manifest", "windows", "template"}
ReadingInit ==
  /\ part \in Parts
  /\ \A p \in Parts : IF p = part THEN Begin(p) ELSE Resting(p)

ReadMaster   == /\ part = "master" /\ MasterNext
                /\ UNCHANGED <<part, manifestVars, vars, templateVars>>
ReadManifest == /\ part = "manifest" /\ ManifestNext
                /\ UNCHANGED <<part, masterVars, vars, templateVars>>
ReadWindows  == /\ part = "windows" /\ Next
                /\ UNCHANGED <<part, masterVars, manifestVars, templateVars>>
ReadTemplate == /\ part = "template" /\ TemplateNext
                /\ UNCHANGED <<part, masterVars, manifestVars, vars>>

ReadingNext == ReadMaster \/ ReadManifest \/ ReadWindows \/ ReadTemplate
ReadingSpec == ReadingInit /\ [][ReadingNext]_allVars

=============================================================================
