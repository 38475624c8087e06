----------------------------- MODULE LiveRecorder -----------------------------
(***************************************************************************)
(* live.py records a stream by polling its manifest while the origin goes  *)
(* on publishing.  record_kind_streams records the main stream and then    *)
(* its sidecars (or the kinds of a DASH manifest) one after another, all   *)
(* under one byte budget.                                                  *)
(*                                                                         *)
(* The media of a stream is a sequence of units 1, 2, ... of one byte; a   *)
(* segment has Units of them.  Unit 0 is the initialization section, unit  *)
(* -1 the text of a playlist.  A manifest text is represented by the       *)
(* number of units the origin had published when it was fetched.           *)
(***************************************************************************)
EXTENDS HlsPlaylist, FiniteSets

CONSTANTS
  Settings,      \* the recordings that are made
  Units,         \* units in a segment
  MaxNesting     \* masters followed (MAX_PLAYLIST_NESTING, 8)

\* How the origin serves a stream.
Style ==
  [window: Nat,                       \* complete segments in the manifest
   parts: {"none", "files", "ranges"},\* PARTs of the segment in progress
   ranged: BOOLEAN,                   \* segments are byte ranges of one file
   map: BOOLEAN,                      \* an initialization section
   delta: BOOLEAN,                    \* polls get a delta playlist
   lag: Nat,                          \* units listed before they are served
   gaps: SUBSET (Nat \ {0}), breaks: SUBSET (Nat \ {0}), locked: SUBSET (Nat \ {0}),   \* segments
   period: Nat \ {0},                 \* segments in a DASH period
   protect: Nat,                      \* the units after which DRM is signalled
   nesting: Nat,                      \* master playlists above this one
   direct: BOOLEAN,                   \* an object, not a playlist
   start: Nat]                        \* units published when recording begins

\* What a recording is made of, and its bounds.
Setting ==
  [origin: Seq(Style),                \* how the origin serves each stream
   dash: BOOLEAN,                     \* the manifest is a DASH manifest
   length: Nat,                       \* units of each stream
   segments: Nat,                     \* parts recorded per round (128 in the code)
   polls: Nat,                        \* rounds per stream (MAX_LIVE_POLLS, 8)
   bytes: Nat,                        \* the profile's byte bound
   failures: Nat]                     \* failed requests and stop requests (bound of the model)

\* A locator: what it is of, and which one.
Urls == {"init", "list", "part", "file", "seg"} \X Nat

\* The start or the length of a range, if it is stated.
Offsets == Nat \cup {None}

\* None is no number, no locator and no range.
ASSUME NoneAssumption ==
  None \notin Int /\ None \notin Urls /\ None \notin [start: Offsets, length: Offsets]

ASSUME SettingsAssumption ==
  /\ Settings \subseteq Setting /\ Units \in Nat \ {0} /\ MaxNesting \in Nat
  /\ \A r \in Settings : /\ r.origin # <<>>
                         /\ \A s \in DOMAIN r.origin : r.origin[s].start <= r.length

\* Complete segments, and the first of them in the window of the manifest.
Complete(units) == units \div Units
FirstListed(o, units) ==
  LET first == Complete(units) - o.window + 1 IN IF first < 1 THEN 1 ELSE first

\* What may not be requested of a stream: segments behind a key and gaps.
Barred(o) == o.locked \cup o.gaps

\* Keys and gaps are lines of a playlist, of which neither a DASH manifest nor a
\* sidecar that is an object has any; a range that follows a gap in the same file
\* would begin with the bytes of the gap.  No more masters than are followed.
MarkedPlaylists ==
  \A r \in Settings : \A s \in DOMAIN r.origin :
    LET o == r.origin[s]
    IN  /\ o.nesting <= MaxNesting
        /\ r.dash \/ o.direct => Barred(o) = {}
        /\ o.ranged => o.gaps = {}

\* What a stream is written in the order of its units under.  A window of a DASH
\* manifest that slides past its first period numbers the periods anew; a delta
\* playlist, and a playlist that slides, moves the occurrence of its segments by
\* the initialization section it leaves out; and the ranges of a file are not
\* matched with PARTs that are files of their own.
Orderly ==
  \A r \in Settings : \A s \in DOMAIN r.origin :
    LET o == r.origin[s]
    IN  IF r.dash THEN FirstListed(o, r.length) <= o.period
        ELSE /\ ~(o.ranged /\ o.parts = "files")
             /\ o.map => ~o.delta /\ FirstListed(o, r.length) = 1

VARIABLE setting  \* the recording: it does not change

Origin      == setting.origin
Dash        == setting.dash
Length      == setting.length
MaxSegments == setting.segments
MaxPolls    == setting.polls
MaxBytes    == setting.bytes
MaxFailures == setting.failures

Streams == DOMAIN Origin          \* in the order they are recorded in

VARIABLES
  edge,       \* units published so far, per stream
  pc,
  stream,     \* index of the stream being recorded
  seen,       \* the units published when the current manifest text was fetched
  depth,      \* masters followed
  round,
  todo,       \* the parts left of this round
  cache,      \* fetched objects by locator and occurrence
  recorded,   \* keys of parts that are done
  through,    \* where the ranges recorded of an object have come to
  filled,     \* occurrences of which a PART has been written
  written,    \* bytes of this stream
  out,        \* the recordings
  spent,      \* bytes of the budget
  drm,        \* streams whose refusal set drm_flag
  failures

local == <<seen, depth, round, todo, cache, recorded, through, filled, written>>
vars == <<setting, edge, pc, stream, local, out, spent, drm, failures>>

-----------------------------------------------------------------------------
\* The origin.

UnitsOf(k) == (k - 1) * Units + 1 .. k * Units
\* What a request for a locator returns.
Content(s, uri) ==
  LET served == edge[s] - Origin[s].lag
      upTo(first, last) == [i \in 1 .. (IF last < first THEN 0 ELSE last - first + 1) |-> first + i - 1]
      lesser(a, b) == IF a < b THEN a ELSE b
  IN  CASE uri[1] = "init" -> <<0>>
        [] uri[1] = "list" -> <<-1>>
        [] uri[1] = "part" -> <<uri[2]>>
        [] uri[1] = "file" -> upTo(1, served)
        [] uri[1] = "seg"  -> upTo((uri[2] - 1) * Units + 1, lesser(uri[2] * Units, served))

Line(tag) == [tag |-> tag]
SegmentLines(o, k, first) ==
  (IF o.locked # {} /\ (k = first \/ (k \in o.locked) # (k - 1 \in o.locked))
   THEN <<[tag |-> "key", clear |-> k \notin o.locked]>> ELSE <<>>)
  \o (IF k \in o.breaks THEN <<Line("break")>> ELSE <<>>)

ListedSegment(o, k, first) ==
  SegmentLines(o, k, first)
  \o (IF k \in o.gaps THEN <<Line("gap")>> ELSE <<>>)
  \o (IF o.ranged THEN <<[tag |-> "range", length |-> Units,
                          start |-> IF k = first THEN (k - 1) * Units ELSE None],
                         [tag |-> "uri", uri |-> <<"file", 0>>]>>
      ELSE <<[tag |-> "uri", uri |-> <<"seg", k>>]>>)

\* The PARTs of the segment in progress; ranges after the first are implicit.
ListedParts(o, k, first, units) ==
  LET part(j) == IF o.parts = "files"
                 THEN [tag |-> "part", uri |-> <<"part", (k - 1) * Units + j>>,
                       start |-> None, length |-> None, gap |-> k \in o.gaps]
                 ELSE [tag |-> "part", length |-> 1, gap |-> k \in o.gaps,
                       uri |-> IF o.ranged THEN <<"file", 0>> ELSE <<"seg", k>>,
                       start |-> IF j > 1 THEN None
                                 ELSE IF o.ranged THEN (k - 1) * Units ELSE 0]
  IN  IF o.parts = "none" \/ units = (k - 1) * Units THEN <<>>
      ELSE SegmentLines(o, k, first) \o [j \in 1 .. units - (k - 1) * Units |-> part(j)]

Lines(o, units, delta, level) ==
  LET last    == Complete(units)
      first   == FirstListed(o, units)
      skipped == IF o.delta /\ delta /\ last > first THEN last - first ELSE 0
      shown   == [i \in 1 .. last - first - skipped + 1 |->
                    ListedSegment(o, first + skipped + i - 1, first + skipped)]
  IN  IF level < o.nesting
      THEN <<[tag |-> "uri", uri |-> <<"list", level + 1>>]>>
      ELSE <<[tag |-> "sequence", number |-> first]>>
           \o (IF skipped > 0 THEN <<[tag |-> "skip", number |-> skipped]>> ELSE <<>>)
           \o (IF o.map /\ skipped = 0
               THEN <<[tag |-> "map", uri |-> <<"init", 0>>, start |-> None, length |-> None]>>
               ELSE <<>>)
           \o FlattenSeq(shown) \o ListedParts(o, last + 1, first, units)

\* The parts of a DASH manifest: the occurrence of a part is the index of its
\* period among the periods of the manifest.
DashParts(o, units) ==
  LET first == FirstListed(o, units)
      periodOf(k) == (k - 1) \div o.period
  IN  [i \in 1 .. Complete(units) - first + 1 |->
         ManifestPart(<<"seg", first + i - 1>>, None, None,
                      periodOf(first + i - 1) - periodOf(first), FALSE)]

\* recordable_parts and inspect_manifest of every text there can be.
Manifests ==
  [r \in Settings |-> [s \in DOMAIN r.origin |->
     [units \in 0 .. r.length |-> [delta \in BOOLEAN |-> [level \in 0 .. MaxNesting |->
        LET lines == Lines(r.origin[s], units, delta, level)
        IN  [parts |-> IF r.dash THEN DashParts(r.origin[s], units) ELSE ClearHlsParts(lines),
             keyed |-> ~r.dash /\ HasKey(lines)]]]]]]
Text(s)    == Manifests[setting][s][seen][round > 0][depth]
Parts(s)   == Text(s).parts
Refused(s) == seen > Origin[s].protect \/ (Parts(s) = <<>> /\ Text(s).keyed)
IsLive(s)  == depth < Origin[s].nesting \/ seen < Length
\* live_polls is decided by the manifest the job was given.
Polls    == IF Origin[1].nesting > 0 \/ Origin[1].start < Length THEN MaxPolls ELSE 1
LiveMode == Polls > 1

Publish(s) ==
  /\ edge[s] < Length
  /\ edge' = [edge EXCEPT ![s] = @ + 1]
  /\ UNCHANGED <<setting, pc, stream, local, out, spent, drm, failures>>

-----------------------------------------------------------------------------
\* The recorder.  One step is a request and what is done with its answer.

Final == {"done", "failed", "refused", "stopped"}
Goto(there) == pc' = there

Init ==
  /\ setting \in Settings
  /\ edge = [s \in Streams |-> Origin[s].start]
  /\ pc = "enter" /\ stream = 1
  /\ seen = Origin[1].start /\ depth = 0 /\ round = 0
  /\ todo = <<>> /\ cache = <<>> /\ recorded = {} /\ through = <<>>
  /\ filled = {} /\ written = 0
  /\ out = [s \in Streams |-> <<>>]
  /\ spent = 0 /\ drm = {} /\ failures = 0

\* Raising ends the recording of every stream.
Raise(outcome) ==
  /\ Goto(outcome)
  /\ UNCHANGED <<setting, edge, stream, local, out, spent, drm>>

\* The start of record_clear_stream on the text at hand.
EnterRefused ==
  /\ pc = "enter"
  /\ Refused(stream)
  /\ Raise("refused") /\ UNCHANGED failures

EnterEmpty ==
  /\ pc = "enter"
  /\ ~Refused(stream) /\ Parts(stream) = <<>>
  /\ Raise("failed") /\ UNCHANGED failures

\* A text whose first locator is a playlist is a master, up to the nesting bound.
IsMaster == ~Dash /\ depth < MaxNesting /\ Head(Parts(stream)).uri[1] = "list"

EnterMaster ==
  /\ pc = "enter"
  /\ ~Refused(stream) /\ Parts(stream) # <<>> /\ IsMaster
  /\ seen' = edge[stream] /\ depth' = depth + 1
  /\ UNCHANGED <<setting, edge, pc, stream, round, todo, cache, recorded, through, filled, written,
                 out, spent, drm, failures>>

EnterMedia ==
  /\ pc = "enter"
  /\ ~Refused(stream) /\ Parts(stream) # <<>> /\ ~IsMaster
  /\ Goto("round")
  /\ round' = 0 /\ todo' = <<>> /\ cache' = <<>> /\ recorded' = {} /\ through' = <<>>
  /\ filled' = {} /\ written' = 0
  /\ out' = [out EXCEPT ![stream] = <<>>]
  /\ UNCHANGED <<setting, edge, stream, seen, depth, spent, drm, failures>>

\* A round looks at the manifest again, and records its first MaxSegments parts.
FirstParts(parts) == SubSeq(parts, 1, IF Len(parts) < MaxSegments THEN Len(parts) ELSE MaxSegments)

BeginRound ==
  /\ pc = "round"
  /\ ~Refused(stream)
  /\ Goto("part")
  /\ todo' = FirstParts(Parts(stream))
  /\ UNCHANGED <<setting, edge, stream, seen, depth, round, cache, recorded, through, filled, written,
                 out, spent, drm, failures>>

RefusedInRound ==
  /\ pc = "round"
  /\ Refused(stream)
  /\ drm' = drm \cup {stream}
  /\ Goto(IF written > 0 THEN "close" ELSE "refused")
  /\ UNCHANGED <<setting, edge, stream, local, out, spent, failures>>

-----------------------------------------------------------------------------
\* _write_recorded_parts, one part.

Key(part) == <<part.uri, part.start, part.length, part.occurrence>>
Object(part) == <<part.uri, part.occurrence>>
Through(part) == IF Object(part) \in DOMAIN through THEN through[Object(part)] ELSE 0

\* The parent of PARTs that have been written is not written again.
Superseded(part) ==
  /\ ~part.partial /\ part.start = None /\ part.length = None
  /\ part.occurrence \in filled

\* A range beyond what was fetched of its object before needs a new request.
NeedsFetch(part) ==
  IF Object(part) \notin DOMAIN cache THEN TRUE
  ELSE LiveMode /\ part.start # None
       /\ (part.length # None => part.start + part.length > Len(cache[Object(part)]))

Fetched(part) == IF NeedsFetch(part) THEN Content(stream, part.uri) ELSE cache[Object(part)]

\* The bytes of the part that are new: from, to (exclusive) in the object.
Slice(part, data) ==
  LET size  == Len(data)
      from  == IF part.start = None THEN 0 ELSE part.start
      end   == IF part.start = None \/ part.length = None THEN size ELSE from + part.length
      begin == IF part.start # None /\ LiveMode /\ Through(part) > from THEN Through(part) ELSE from
  IN  [from |-> begin, to |-> IF end > size THEN size ELSE end,
       none |-> part.start # None /\ (begin >= end \/ begin >= size)]
Chunk(part, data) == SubSeq(data, Slice(part, data).from + 1, Slice(part, data).to)

SkipPart ==
  /\ pc = "part" /\ todo # <<>>
  /\ Key(Head(todo)) \in recorded \/ Superseded(Head(todo))
  /\ recorded' = recorded \cup {Key(Head(todo))}
  /\ todo' = Tail(todo)
  /\ UNCHANGED <<setting, edge, pc, stream, seen, depth, round, cache, through, filled, written,
                 out, spent, drm, failures>>

AtPart == pc = "part" /\ todo # <<>> /\ Key(Head(todo)) \notin recorded /\ ~Superseded(Head(todo))

NothingNew ==
  /\ AtPart
  /\ LET part == Head(todo)
     IN  /\ Slice(part, Fetched(part)).none
         /\ cache' = Updated(cache, Object(part), Fetched(part))
         /\ recorded' = recorded \cup {Key(part)}
  /\ todo' = Tail(todo)
  /\ UNCHANGED <<setting, edge, pc, stream, seen, depth, round, through, filled, written,
                 out, spent, drm, failures>>

\* Mutant: a budget for each stream.
FitsStream(size) == written + size <= MaxBytes

\* ByteBudget.consume
Fits(size) == spent + size <= MaxBytes

WritePart ==
  /\ AtPart
  /\ LET part  == Head(todo)
         data  == Fetched(part)
         chunk == Chunk(part, data)
     IN  /\ ~Slice(part, data).none
         /\ Fits(Len(chunk))
         /\ cache' = Updated(cache, Object(part), data)
         /\ through' = IF part.start = None THEN through
                       ELSE Updated(through, Object(part), Slice(part, data).to)
         /\ recorded' = recorded \cup {Key(part)}
         /\ filled' = IF part.partial THEN filled \cup {part.occurrence} ELSE filled
         /\ written' = written + Len(chunk)
         /\ out' = [out EXCEPT ![stream] = @ \o chunk]
         /\ spent' = spent + Len(chunk)
  /\ todo' = Tail(todo)
  /\ UNCHANGED <<setting, edge, pc, stream, seen, depth, round, drm, failures>>

OverBudget ==
  /\ AtPart
  /\ LET part == Head(todo)
     IN  /\ ~Slice(part, Fetched(part)).none
         /\ ~Fits(Len(Chunk(part, Fetched(part))))
  /\ Raise("failed") /\ UNCHANGED failures

-----------------------------------------------------------------------------
\* After the parts: poll again, or close the stream and go to the next one.

AtEnd == pc = "part" /\ todo = <<>>

\* Mutants: the rounds are not counted; a round forgets the parts.
PollUncounted ==
  /\ pc = "poll"
  /\ Goto("round") /\ seen' = edge[stream]
  /\ UNCHANGED <<setting, edge, stream, depth, round, todo, cache, recorded, through, filled, written,
                 out, spent, drm, failures>>
PollAnew ==
  /\ pc = "poll"
  /\ Goto("round") /\ seen' = edge[stream] /\ round' = round + 1 /\ recorded' = {}
  /\ UNCHANGED <<setting, edge, stream, depth, todo, cache, through, filled, written,
                 out, spent, drm, failures>>

EndRound ==
  /\ AtEnd
  /\ Goto(IF round + 1 < Polls /\ IsLive(stream) THEN "poll" ELSE "close")
  /\ UNCHANGED <<setting, edge, stream, local, out, spent, drm, failures>>

Poll ==
  /\ pc = "poll"
  /\ Goto("round")
  /\ seen' = edge[stream] /\ round' = round + 1
  /\ UNCHANGED <<setting, edge, stream, depth, todo, cache, recorded, through, filled, written,
                 out, spent, drm, failures>>

CloseEmpty ==
  /\ pc = "close" /\ written = 0
  /\ Raise("failed") /\ UNCHANGED failures

\* Mutant: drm_flag is not looked at.
LastStreamOnly == stream = Len(Origin)

\* A refusal ends a DASH recording after the kind, an HLS one after the main stream.
LastStream == \/ stream = Len(Origin)
              \/ drm # {} /\ (Dash \/ stream = 1)

Close ==
  /\ pc = "close" /\ written > 0
  /\ IF LastStream
     THEN Goto("done") /\ UNCHANGED <<stream, seen, depth, round>>
     ELSE /\ stream' = stream + 1 /\ depth' = 0 /\ round' = 0
          /\ IF Dash THEN Goto("enter") /\ seen' = Origin[stream + 1].start
             ELSE Goto("sidecar") /\ UNCHANGED seen
  /\ UNCHANGED <<setting, edge, todo, cache, recorded, through, filled, written, out, spent, drm, failures>>

\* _record_hls_sidecar: a nested playlist, or an object written as it is.
SidecarPlaylist ==
  /\ pc = "sidecar" /\ ~Origin[stream].direct
  /\ Goto("enter") /\ seen' = edge[stream]
  /\ UNCHANGED <<setting, edge, stream, depth, round, todo, cache, recorded, through, filled, written,
                 out, spent, drm, failures>>

SidecarObject ==
  /\ pc = "sidecar" /\ Origin[stream].direct
  /\ LET data == Content(stream, <<"file", 0>>)
     IN  IF Fits(Len(data))
         THEN /\ out' = [out EXCEPT ![stream] = data]
              /\ spent' = spent + Len(data)
              /\ IF stream = Len(Origin) THEN Goto("done") /\ UNCHANGED stream
                 ELSE Goto("sidecar") /\ stream' = stream + 1
         ELSE Goto("failed") /\ UNCHANGED <<stream, out, spent>>
  /\ UNCHANGED <<setting, edge, local, drm, failures>>

-----------------------------------------------------------------------------
\* Requests that fail and stop requests.

\* should_stop runs before every request.
BeforeRequest ==
  \/ pc \in {"poll", "sidecar"}
  \/ pc = "enter" /\ ~Refused(stream) /\ Parts(stream) # <<>> /\ IsMaster
  \/ AtPart

Stop ==
  /\ BeforeRequest /\ failures < MaxFailures
  /\ failures' = failures + 1
  /\ Raise("stopped")

\* An answer of 400 or more: a poll keeps what it has, anything else raises.
RequestFails ==
  /\ failures < MaxFailures
  /\ BeforeRequest /\ (AtPart => NeedsFetch(Head(todo)))
  /\ failures' = failures + 1
  /\ Raise(IF pc = "poll" THEN "close" ELSE "failed")

Record ==
  \/ EnterRefused \/ EnterEmpty \/ EnterMaster \/ EnterMedia
  \/ BeginRound \/ RefusedInRound
  \/ SkipPart \/ NothingNew \/ WritePart \/ OverBudget
  \/ EndRound \/ Poll \/ CloseEmpty \/ Close
  \/ SidecarPlaylist \/ SidecarObject

PublishSome == \E s \in Streams : Publish(s)

Next == Record \/ Stop \/ RequestFails \/ PublishSome

Spec == Init /\ [][Next]_vars
\* The recorder is one thread that goes on until it is done.
FairSpec == Spec /\ WF_vars(Record)

-----------------------------------------------------------------------------
\* The bytes on disk of all kinds and polls together are what the budget has
\* counted, and within the profile's bound (ByteBudget, shared by every
\* record_clear_stream of a job).
OnDisk == UNION {{s} \X DOMAIN out[s] : s \in Streams}
BudgetHolds == spent = Cardinality(OnDisk) /\ spent <= MaxBytes

\* A recording holds the initialization section and the units of its stream in
\* order, none twice, over all polls of a sliding window (keys of parts,
\* written_through and the PARTs that stand for their segment).
RecordedInOrder ==
  \A s \in Streams : \A i, j \in DOMAIN out[s] : i < j => out[s][i] < out[s][j]

\* No locator behind a key or marked as a gap is requested, nothing of it is
\* written, and no playlist text is taken for media.
OnlyClear ==
  LET units(s) == -1 .. -1 \cup UNION {UnitsOf(k) : k \in Barred(Origin[s])}
  IN  /\ \A s \in Streams : units(s) \cap ToSet(out[s]) = {}
      /\ pc \in {"round", "part", "poll", "close"} =>
           \A object \in DOMAIN cache :
             object[1][1] = "seg" => object[1][2] \notin Barred(Origin[stream])

\* When a round ends, every complete segment the manifest lists before the
\* first key has been recorded ("SHALL be polled for newly advertised segments").
ListedClear(s) ==
  {k \in FirstListed(Origin[s], seen) .. Complete(seen) :
     /\ k \notin Origin[s].gaps
     /\ \A j \in FirstListed(Origin[s], seen) .. k : j \notin Origin[s].locked}
RoundIsComplete ==
  AtEnd => \A k \in ListedClear(stream) : UnitsOf(k) \subseteq ToSet(out[stream])

\* A recording of which no round leaves out what it lists: an origin that serves
\* what it lists, no PART whose segment would be skipped for it, nothing that a
\* delta playlist leaves out, and no more parts than a round takes.
Unabridged(r) ==
  \A s \in DOMAIN r.origin :
    LET o == r.origin[s]
    IN  /\ o.lag = 0 /\ ~o.delta
        /\ o.parts = "none" \/ (o.parts = "ranges" /\ o.ranged)
        /\ \A units \in 0 .. r.length, delta \in BOOLEAN, level \in 0 .. MaxNesting :
             Len(Manifests[r][s][units][delta][level].parts) <= r.segments

\* RoundIsComplete of those recordings: a segment is skipped when one PART of it
\* was written (_write_recorded_parts), and so is a range that is not served yet.
AdvertisedIsRecorded == Unabridged(setting) => RoundIsComplete

\* When a stream turns out to be protected, no further stream is begun: none
\* after the main stream of an HLS master, none at all of a DASH manifest.
RefusalIsFinal ==
  /\ 1 \in drm => stream = 1
  /\ Dash /\ drm # {} => drm = {stream}

\* What is protected is left alone (_clear_hls_parts, record_kind_streams).
ProtectionHolds == OnlyClear /\ RefusalIsFinal

\* The recording ends, whatever the origin does.
Ends == <>(pc \in Final)
=============================================================================
