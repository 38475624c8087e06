------------------------------ MODULE HlsMaster ------------------------------
(***************************************************************************)
(* How live.py chooses from an HLS master playlist: the variant that is    *)
(* recorded and the playlists recorded beside it.  A master is read line   *)
(* by line; each step is one line, and the choice is looked at after it.   *)
(*   a variant   bandwidth uri groups       #EXT-X-STREAM-INF              *)
(*   a rendition kind group default autoselect uri   #EXT-X-MEDIA          *)
(*   a tagged    bandwidth uri              #EXT-X-I-FRAME-STREAM-INF      *)
(* A stream with an unusable BANDWIDTH has bandwidth None, a line without  *)
(* a URI has uri None, one with a {$name} nothing binds has uri Unbound.   *)
(***************************************************************************)
EXTENDS Integers, SequencesExt, PythonNone

CONSTANTS
  Unbound,      \* a locator with a variable that nothing binds
  Variants,     \* the variants a line may name
  Renditions,   \* the renditions a line may name
  Tagged,       \* the I-frame streams a line may name
  MaxLines      \* lines of a master (bound of the model)

ASSUME MasterAssumption ==
  (\A v \in Variants : v.bandwidth \in Int \cup {None}) /\ None \notin Int

VARIABLES variants, media, iframes
masterVars == <<variants, media, iframes>>

Known(uri) == uri \notin {None, Unbound}
Usable(streams) ==
  {i \in DOMAIN streams : streams[i].bandwidth # None /\ Known(streams[i].uri)}

\* Mutant: of two equal bandwidths the last one wins.
LastOfMax(streams, at) ==
  CHOOSE i \in at : \A j \in at : /\ streams[j].bandwidth <= streams[i].bandwidth
                                  /\ j > i => streams[j].bandwidth < streams[i].bandwidth

IndexOfMax(streams, at) ==
  CHOOSE i \in at : \A j \in at : /\ streams[j].bandwidth <= streams[i].bandwidth
                                  /\ j < i => streams[j].bandwidth < streams[i].bandwidth

\* The variant that is recorded: the first one of the highest bandwidth.
PreferredHlsStream ==
  IF Usable(variants) = {} THEN None
  ELSE variants[IndexOfMax(variants, Usable(variants))]

\* Every later entry with a locator that has been seen is dropped.
FirstByUri(s) ==
  FoldLeft(LAMBDA kept, e : IF \E i \in DOMAIN kept : kept[i].uri = e.uri
                            THEN kept ELSE Append(kept, e), <<>>, s)
Uris(s) == [i \in DOMAIN s |-> s[i].uri]

\* The renditions of a kind and of the group, if the variant names one.
Entries(lines, kind, group) ==
  {i \in DOMAIN lines : lines[i].kind = kind /\ (group = None \/ lines[i].group = group)}
Found(lines, kind, group) ==
  FirstByUri(SelectSeq(lines, LAMBDA m : /\ m.kind = kind /\ (group = None \/ m.group = group)
                                         /\ Known(m.uri)))

\* The default rendition is in the variant itself, or the one selected without a default.
Muxed(lines, kind, group) ==
  \E i \in Entries(lines, kind, group) :
    /\ lines[i].uri = None
    /\ \/ lines[i].default
       \/ lines[i].autoselect /\ ~\E j \in DOMAIN Found(lines, kind, group) :
                                     Found(lines, kind, group)[j].default

\* The preferred of the renditions first.
PreferredFirst(found) ==
  LET default == SelectSeq(found, LAMBDA m : m.default)
      auto    == SelectSeq(found, LAMBDA m : m.autoselect)
      chosen  == Head(default \o auto \o found).uri
  IN  <<chosen>> \o SelectSeq(Uris(found), LAMBDA u : u # chosen)

\* Mutant: a rendition inside the variant does not keep its alternates out.
UrlsBesideMuxed(lines, kind, group) ==
  IF Found(lines, kind, group) = <<>> THEN <<>> ELSE PreferredFirst(Found(lines, kind, group))

\* The playlists of a kind that are recorded beside the variant.
RenditionUrls(lines, kind, group) ==
  IF Muxed(lines, kind, group) \/ Found(lines, kind, group) = <<>> THEN <<>>
  ELSE PreferredFirst(Found(lines, kind, group))

\* Highest bandwidth first; Python's sort is stable.
TaggedStreamUrls(streams) ==
  LET kept == FirstByUri(SelectSeq(streams, LAMBDA v : v.bandwidth # None /\ Known(v.uri)))
  IN  Uris(SortSeq(kept, LAMBDA a, b : a.bandwidth > b.bandwidth))

GroupOf(kind) == IF PreferredHlsStream = None THEN None ELSE PreferredHlsStream.groups[kind]
AudioUrls == RenditionUrls(media, "audio", GroupOf("audio"))
\* Mutant: I-frame streams before renditions.
IframesFirst ==
  LET uris == TaggedStreamUrls(iframes)
  IN  IF uris # <<>> THEN uris ELSE RenditionUrls(media, "video", GroupOf("video"))

VideoUrls ==
  LET uris == RenditionUrls(media, "video", GroupOf("video"))
  IN  IF uris # <<>> THEN uris ELSE TaggedStreamUrls(iframes)

More == Len(variants) + Len(media) + Len(iframes) < MaxLines

MasterInit == variants = <<>> /\ media = <<>> /\ iframes = <<>>

ReadVariant ==
  /\ More
  /\ \E v \in Variants : variants' = Append(variants, v)
  /\ UNCHANGED <<media, iframes>>
ReadMedia ==
  /\ More
  /\ \E m \in Renditions : media' = Append(media, m)
  /\ UNCHANGED <<variants, iframes>>
ReadTagged ==
  /\ More
  /\ \E t \in Tagged : iframes' = Append(iframes, t)
  /\ UNCHANGED <<variants, media>>

MasterNext == ReadVariant \/ ReadMedia \/ ReadTagged

MasterSpec == MasterInit /\ [][MasterNext]_masterVars

-----------------------------------------------------------------------------
\* A line changes which variant is recorded only for a higher bandwidth: masters
\* that list redundant variants keep the first one (_preferred_hls_stream).
VariantKeptUnlessBetter ==
  \/ PreferredHlsStream' = PreferredHlsStream
  \/ PreferredHlsStream = None
  \/ PreferredHlsStream'.bandwidth > PreferredHlsStream.bandwidth

\* Audio that the chosen variant has in itself is not recorded a second time,
\* wherever in the master the variant, the rendition and its alternates are
\* (muxed_default in _hls_rendition_playlist_urls).
MuxedAudioIsNotRecorded ==
  \A i \in DOMAIN media :
    /\ media[i].kind = "audio" /\ media[i].uri = None /\ media[i].default
    /\ GroupOf("audio") \in {None, media[i].group}
    => AudioUrls = <<>>

\* An I-frame stream never takes the place of a video rendition.
VideoBeforeIframes ==
  RenditionUrls(media, "video", GroupOf("video")) # <<>> /\ media' = media /\ variants' = variants
    => VideoUrls' = VideoUrls

\* Whatever the order of its lines: a further line of the master changes the
\* video that is recorded only for the better, and brings no audio that is
\* recorded already (_preferred_hls_stream, _hls_video_playlist_urls,
\* _hls_rendition_playlist_urls).
ChoiceIsStable ==
  [][VariantKeptUnlessBetter /\ VideoBeforeIframes /\ MuxedAudioIsNotRecorded']_masterVars
=============================================================================
