----------------------------- MODULE DashManifest -----------------------------
(***************************************************************************)
(* What live.py records of a DASH manifest: _dash_kind_parts walks the     *)
(* Periods in order, takes of every kind of each Period the Representation *)
(* with the highest bandwidth, and appends its parts to those of the kind. *)
(*                                                                         *)
(* MPD, Period, AdaptationSet and Representation are levels, each with     *)
(*   base  its BaseURLs: records with a name and a form, "dir" (it ends in *)
(*         a slash), "bare" (neither slash nor suffix) or "file"           *)
(*   addr  its segment addressing: "none", "template" (SegmentTemplate),   *)
(*         "list" (SegmentList with locators), "ranges" (SegmentList with  *)
(*         ranges of the BaseURL's object) or "base" (SegmentBase)         *)
(*   name  of the level                                                    *)
(* A set also has a kind, a representation a kind, a bandwidth and open:   *)
(* whether it has an end tag of its own.  A locator is the sequence of the *)
(* names it is made of.  A Period without AdaptationSets has sets <<>> and *)
(* its representations in reps; every set has representations.             *)
(***************************************************************************)
EXTENDS Integers, SequencesExt, PythonNone

CONSTANT Manifests  \* the manifests that are read

VARIABLES mpd,      \* the manifest
          periods,  \* Periods read so far
          picked,   \* for each of them, the group chosen of each kind
          buckets   \* the parts of each kind

manifestVars == <<mpd, periods, picked, buckets>>

Kinds == {"video", "audio", "text", "unknown"}

\* What every level has, and what a representation is.
IsList(s) == s \in Seq(ToSet(s))
IsLevel(level) ==
    IsList(level.base) /\ level.addr \in {"none", "template", "list", "ranges", "base"}
IsRepresentation(r) ==
    /\ r \in [id: {r.id}, name: {r.name}, kind: Kinds, bandwidth: Int, open: BOOLEAN,
              base: {r.base}, addr: {r.addr}]
    /\ IsLevel(r)
AreRepresentations(reps) == IsList(reps) /\ \A r \in ToSet(reps) : IsRepresentation(r)

ASSUME ManifestAssumption ==
    \A m \in Manifests :
        /\ IsLevel(m) /\ IsList(m.periods)
        /\ \A p \in ToSet(m.periods) :
              /\ IsLevel(p) /\ AreRepresentations(p.reps) /\ IsList(p.sets)
              /\ p.sets # <<>> => p.reps = <<>>
              /\ \A s \in ToSet(p.sets) :
                    IsLevel(s) /\ s.kind \in Kinds /\ AreRepresentations(s.reps)

Part(uri, start, occurrence) == [uri |-> uri, start |-> start, occurrence |-> occurrence]

\* The numbers of a set in ascending order.
InOrder(at) ==
    [n \in 1 .. Cardinality(at) |-> CHOOSE i \in at : Cardinality({j \in at : j <= i}) = n]

-----------------------------------------------------------------------------
\* BaseURLs.

\* _advance_base: what is not a file becomes a directory of the base.
AdvanceBase(dir, hrefs) ==
    FoldLeft(LAMBDA d, h : IF h.form = "file" THEN d ELSE Append(d, h.name), dir, hrefs)

\* The files among the BaseURLs are parts themselves, unless a list or a
\* SegmentBase addresses ranges of them.
Files(dir, level) ==
    LET files   == InOrder({i \in DOMAIN level.base : level.base[i].form = "file"})
        file(i) == Part(Append(AdvanceBase(dir, SubSeq(level.base, 1, i - 1)), level.base[i].name), None, 0)
    IN  IF level.addr \in {"list", "ranges", "base"} THEN <<>>
        ELSE [n \in DOMAIN files |-> file(files[n])]

\* _file_baseurl: the last BaseURL without a slash names the ranged object.
NamesFile(hrefs) == hrefs # <<>> /\ Last(hrefs).form # "dir"
FileBaseurl(dir, hrefs) == Append(AdvanceBase(dir, Front(hrefs)), Last(hrefs).name)

-----------------------------------------------------------------------------
\* _REPRESENTATION takes a self-closing element for an opening tag when an end
\* tag follows somewhere behind it: it gets the body that ends there, and the
\* elements in between are lost.
Blocks(reps) ==
    LET closes(i) == {j \in i .. Len(reps) : reps[j].open}
        next(i)   == CHOOSE j \in closes(i) : \A k \in closes(i) : j <= k
        block(i)  == IF closes(i) = {} THEN reps[i]
                     ELSE [reps[i] EXCEPT !.base = reps[next(i)].base, !.addr = reps[next(i)].addr]
        begins    == InOrder({i \in DOMAIN reps : i = 1 \/ reps[i - 1].open \/ closes(i) = {}})
    IN  [n \in DOMAIN begins |-> block(begins[n])]

\* The level whose addressing a representation inherits: the nearest one.
Nearest(levels) ==
    LET has == {i \in DOMAIN levels : levels[i].addr # "none"}
    IN  IF has = {} THEN [addr |-> "none", base |-> <<>>, name |-> None]
        ELSE levels[CHOOSE i \in has : \A j \in has : j <= i]

\* Mutant: the addressing of a level above wins over the representation's own.
SourceAbove(above, rep) == IF Nearest(above).addr # "none" THEN Nearest(above) ELSE rep

\* The level that addresses the segments of a representation.
Source(above, rep) == IF rep.addr # "none" THEN rep ELSE Nearest(above)

\* _resolved_dash_href: what identifies the representation is put into the
\* locators of the level that addresses its segments.
Resolved(from, rep, what) == <<from.name, rep.id, what>>

\* _collect_segment_base: the initialization and the index of an object.
CollectSegmentBase(file) == <<Part(file, 0, 0), Part(file, 1, 0)>>

\* _collect_segments: what a template or a list adds, from the base that the
\* representation's own BaseURLs have moved.
CollectSegments(from, rep, local, hrefs) ==
    CASE from.addr = "template" ->
           <<Part(local \o Resolved(from, rep, "init"), None, 0),
             Part(local \o Resolved(from, rep, "media"), None, 0)>>
      [] from.addr = "list"   -> <<Part(local \o <<from.name, "segment">>, None, 0)>>
      [] from.addr = "ranges" ->
           LET object == FileBaseurl(local, hrefs)
           IN  IF NamesFile(hrefs) THEN <<Part(object, 0, 0), Part(object, 1, 0)>> ELSE <<>>
      [] from.addr = "none"   -> <<>>

\* _collect_representation.  What is inherited is the text of the level above,
\* its BaseURLs included.
CollectRepresentation(above, rep, dir) ==
    LET from   == Source(above, rep)
        hrefs  == (IF from = rep THEN <<>> ELSE from.base) \o rep.base
        local  == AdvanceBase(dir, rep.base)
    IN  IF from.addr = "base"
        THEN CollectSegmentBase(IF NamesFile(hrefs) THEN FileBaseurl(dir, hrefs) ELSE local)
        ELSE (IF from.addr \in {"list", "ranges"} THEN <<>> ELSE Files(dir, rep))
             \o CollectSegments(from, rep, local, hrefs)

\* A group is a representation that was read, with its kind and its parts.
Group(rep, kind, parts) ==
    [bandwidth |-> rep.bandwidth, kind |-> IF rep.kind = "unknown" THEN kind ELSE rep.kind,
     id |-> rep.id, parts |-> parts]

\* _dash_adaptation_groups
AdaptationGroups(above, set, base) ==
    LET dir    == AdvanceBase(base, set.base)
        blocks == Blocks(set.reps)
    IN  [n \in DOMAIN blocks |->
           Group(blocks[n], set.kind,
                 Files(base, set)
                 \o CollectRepresentation(Append(above, set), blocks[n], dir))]

\* _dash_scope_groups.  The base has been through every BaseURL of the Period's
\* text before, those of its representations included.
ScopeGroups(above, period, base) ==
    LET blocks == Blocks(period.reps)
        bodies == FlattenSeq([i \in DOMAIN period.reps |-> period.reps[i].base])
        passed == AdvanceBase(AdvanceBase(base, period.base), bodies)
        dir    == AdvanceBase(passed, period.base)
    IN  [n \in DOMAIN blocks |->
           Group(blocks[n], "unknown",
                 Files(passed, period)
                 \o CollectRepresentation(Append(above, period), blocks[n], dir))]

PeriodGroups(m, period) ==
    LET base == AdvanceBase(<<>>, m.base)
        dir  == AdvanceBase(base, period.base)
    IN  IF period.sets = <<>> THEN ScopeGroups(<<m>>, period, base)
        ELSE FlattenSeq([i \in DOMAIN period.sets |->
                           AdaptationGroups(<<m, period>>, period.sets[i], dir)])

-----------------------------------------------------------------------------
\* Mutant: the last of the groups is taken.
LastGroup(groups, at) == groups[CHOOSE i \in at : \A j \in at : j <= i]
\* Of the groups at some indexes the first with the highest bandwidth.
FirstBest(groups, at) ==
    groups[CHOOSE i \in at :
             \A j \in at : /\ groups[j].bandwidth <= groups[i].bandwidth
                           /\ j < i => groups[j].bandwidth < groups[i].bandwidth]

\* _select_dash_kinds
SelectKinds(groups) ==
    LET populated == {i \in DOMAIN groups : groups[i].parts # <<>>}
        of(kind)  == {i \in populated : groups[i].kind = kind}
        kinds     == {kind \in Kinds \ {"unknown"} : of(kind) # {}}
    IN  IF kinds = {} /\ populated # {}
        THEN [kind \in {"video"} |-> FirstBest(groups, populated)]
        ELSE [kind \in kinds |-> FirstBest(groups, of(kind))]

ManifestInit ==
    /\ mpd \in Manifests
    /\ periods = 0 /\ picked = <<>> /\ buckets = <<>>

\* The parts of a Period, each once; the occurrence of a part is the index of its Period.
OfPeriod(parts, period) ==
    LET first == InOrder({i \in DOMAIN parts : \A j \in 1 .. i - 1 :
                            <<parts[j].uri, parts[j].start>> # <<parts[i].uri, parts[i].start>>})
    IN  [n \in DOMAIN first |-> Part(parts[first[n]].uri, parts[first[n]].start, period)]

\* Mutant: the parts of a Period take the place of what there is.
ReadPeriodAlone ==
    LET selected == SelectKinds(PeriodGroups(mpd, mpd.periods[periods + 1]))
    IN /\ periods < Len(mpd.periods)
       /\ periods' = periods + 1
       /\ picked' = Append(picked, selected)
       /\ buckets' = [kind \in DOMAIN selected |-> OfPeriod(selected[kind].parts, periods)] @@ buckets
       /\ UNCHANGED mpd

\* A bucket begins with the files the MPD names.
ReadPeriod ==
    LET selected == SelectKinds(PeriodGroups(mpd, mpd.periods[periods + 1]))
        before(kind) == IF kind \in DOMAIN buckets THEN buckets[kind] ELSE Files(<<>>, mpd)
    IN /\ periods < Len(mpd.periods)
       /\ periods' = periods + 1
       /\ picked' = Append(picked, selected)
       /\ buckets' = [kind \in DOMAIN selected \cup DOMAIN buckets |->
                        IF kind \in DOMAIN selected
                        THEN before(kind) \o OfPeriod(selected[kind].parts, periods)
                        ELSE buckets[kind]]
       /\ UNCHANGED mpd

ManifestNext == ReadPeriod

ManifestSpec == ManifestInit /\ [][ManifestNext]_manifestVars

-----------------------------------------------------------------------------
\* The representations of a Period, with their kind and the levels above.
Candidates(m, period) ==
    LET of(levels, reps, kind) ==
          {[rep |-> r, levels |-> levels, kind |-> IF r.kind = "unknown" THEN kind ELSE r.kind]
             : r \in ToSet(reps)}
    IN  of(<<m, period>>, period.reps, "unknown")
        \cup UNION {of(<<m, period, s>>, s.reps, s.kind) : s \in ToSet(period.sets)}

\* No representation without an end tag of its own stands before one that has
\* one, and those of a Period have different ids.
EndTagsFirst(reps) == \A i, j \in DOMAIN reps : i < j /\ reps[j].open => reps[i].open
WellWritten ==
    \A m \in Manifests : \A p \in ToSet(m.periods) :
        /\ EndTagsFirst(p.reps)
        /\ \A s \in ToSet(p.sets) : EndTagsFirst(s.reps)
        /\ \A c, d \in Candidates(m, p) : c.rep.id = d.rep.id => c = d

HasLocator(c) ==
    \/ Nearest(Append(c.levels, c.rep)).addr \in {"template", "list", "base"}
    \/ c.rep.base # <<>> /\ Last(c.rep.base).form = "file"

\* "recording uses the highest-bandwidth video Representation": the highest of
\* those of a kind that have a locator, in every Period.
HighestIsRecorded ==
    \A i \in DOMAIN picked : \A kind \in DOMAIN picked[i] :
        \A c \in Candidates(mpd, mpd.periods[i]) :
            c.kind = kind /\ HasLocator(c) => c.rep.bandwidth <= picked[i][kind].bandwidth

\* A Period that is read changes nothing of what the Periods before it gave,
\* and every kind it has a locator of gets parts from it ("concatenates the
\* highest-bandwidth video from each Period in order and does not drop later
\* Periods").
PeriodsAccumulate ==
    [][periods' > periods =>
         /\ \A kind \in DOMAIN buckets : IsPrefix(buckets[kind], buckets'[kind])
         /\ \A c \in Candidates(mpd, mpd.periods[periods']) :
              HasLocator(c) /\ c.kind # "unknown" =>
                \E p \in ToSet(buckets'[c.kind]) : p.occurrence = periods' - 1]_manifestVars

\* The candidate a group was read from.
Chosen(i, kind) ==
    CHOOSE c \in Candidates(mpd, mpd.periods[i]) : c.rep.id = picked[i][kind].id
Path(levels) ==
    LET at[n \in 0 .. Len(levels)] ==
          IF n = 0 THEN <<>> ELSE AdvanceBase(at[n - 1], levels[n].base)
    IN  at[Len(levels)]

\* Templates and lists with locators of their own: the parts are those of the
\* level nearest to the representation, under the BaseURLs of every level, once
\* ("a child addressing element still overwrites the parent").
NearestAddressing ==
    \A i \in DOMAIN picked : \A kind \in DOMAIN picked[i] :
        LET c      == Chosen(i, kind)
            levels == Append(c.levels, c.rep)
            from   == Nearest(levels)
            uris   == CASE from.addr = "template" -> {<<from.name, c.rep.id, "init">>,
                                                      <<from.name, c.rep.id, "media">>}
                        [] from.addr = "list" -> {<<from.name, "segment">>}
                        [] OTHER -> {}
        IN  mpd.periods[i].sets # <<>> =>
              {Path(levels) \o uri : uri \in uris}
                \subseteq {p.uri : p \in ToSet(picked[i][kind].parts)}

\* What a Period is recorded from: the best representation of every kind, by
\* the addressing that is its own (_select_dash_kinds, _collect_representation).
SelectionHolds == HighestIsRecorded /\ NearestAddressing
=============================================================================
