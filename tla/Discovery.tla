------------------------------ MODULE Discovery ------------------------------
(***************************************************************************)
(* How a job finds what it will acquire.  discover reads a page: the      *)
(* parser of _MediaHTMLParser goes through its elements and keeps which   *)
(* picture, video, audio and object it is in; then the evidence of a      *)
(* browser, the locators of the elements, the Open Graph properties and   *)
(* the JSON-LD blocks become candidates, and a locator that became one is *)
(* seen and not read again.  A locator that names a media object, and a   *)
(* playlist without a suffix, are candidates without a page.  The         *)
(* candidates of the yt-dlp manifest follow, and preferred_by_kind        *)
(* chooses one of every kind.                                             *)
(*                                                                         *)
(* A locator is a record: suffix, the kind its suffix names or "page";    *)
(* script and document, for suffixes that are not media; usable, whether  *)
(* the profile authorizes it; marked, whether its text is a DRM signal.   *)
(***************************************************************************)
EXTENDS Integers, Sequences, FiniteSets, SequencesExt, PythonNone

CONSTANTS
  Locators,
  Samples  \* what jobs, pages, browsers and yt-dlp say

VARIABLES
  sample,    \* what this job is given (see Samples): it does not change
  page,      \* the locator of the job
  step,      \* "fetch", "parse", "seed", "urls", "jsonld", "found", "done", "failed"
  marked,    \* whether the body carries DRM signals
  inside,    \* [picture, video, audio, object]: the parser's flags
  urls,      \* the parser's urls that are not read yet: [url, kind]
  evidence, blocks,   \* not read yet
  seen, found, chosen,
  open,      \* history: the containers that are open, the innermost first
  said,      \* history: [url, kind, by] of every mention
  elements   \* elements read

job == <<sample, page, marked>>
parserVars == <<inside, open, elements>>
pageVars == <<job, step, parserVars, urls, evidence, blocks, seen, found, chosen, said>>

Kinds == <<"video", "live_stream", "audio", "gallery", "image", "document", "subtitle",
           "unknown", "page">>
Rank(kind) == CHOOSE i \in 1..Len(Kinds) : Kinds[i] = kind

Containers == {"picture", "video", "audio"}
Namings == [url : Locators, kind : ToSet(Kinds)]
Members == [url : Locators, key : {"contentUrl", "embedUrl", "url", "caption"}, type : STRING]
Entries == [url : Locators, live : BOOLEAN, drm : BOOLEAN]
Tags ==
    LET mimes == ToSet(Kinds) \cup {None}
    IN  [tag : Containers \cup {"object"}, url : Locators \cup {None}, mime : mimes, attr : {"src", "poster"}]
        \cup [tag : {"source", "img", "track", "a", "iframe", "param"}, url : Locators, mime : mimes]
        \cup [tag : {"link"}, url : Locators, mime : mimes, preload : BOOLEAN,
              as : {"audio", "image", "video", "track", None}]
        \cup [tag : {"itemprop"}, url : Locators, attr : {"contentUrl", "caption"}]
        \cup [tag : {"close"}]
Sample ==
    [pages : SUBSET Locators,        \* locators of a job
     elements : SUBSET Tags,         \* what a page is made of
     size : Nat,                     \* elements of a page
     evidence : SUBSET Seq(Namings),  \* what a browser sends
     properties : SUBSET Seq(Namings),  \* og: and twitter: properties
     blocks : SUBSET Seq(Members),    \* members of JSON-LD nodes
     bodies : SUBSET {"html", "manifest", "bytes", "local"},  \* what there is to read
     formats : SUBSET Seq(Entries)]   \* the yt-dlp manifest

ASSUME DiscoveryAssumption ==
    /\ \A url \in Locators :
         /\ url.suffix \in ToSet(Kinds) \ {"unknown"}
         /\ {url.script, url.document, url.usable, url.marked} \subseteq BOOLEAN
    /\ Samples \subseteq Sample
    /\ None \notin ToSet(Kinds)

Outside == [picture |-> FALSE, video |-> FALSE, audio |-> FALSE, object |-> 0]
Mention(url, kind) == [url |-> url, kind |-> kind]
Said(mentions, by) == {[url |-> m.url, kind |-> m.kind, by |-> by] : m \in mentions}
Candidate(url, kind, drm) == [url |-> url, kind |-> kind, drm |-> drm]

\* The items of a sequence that are in a set (SelectSeq, as a function).
Among(items, set) ==
    LET upTo[n \in 0..Len(items)] ==
          IF n = 0 THEN <<>>
          ELSE IF items[n] \in set THEN Append(upTo[n-1], items[n]) ELSE upTo[n-1]
    IN  upTo[Len(items)]

-----------------------------------------------------------------------------
\* _kind_from_url_or_guess; None is the code's None.
KindOrGuess(url, guessed) ==
    CASE guessed = "subtitle" -> "subtitle"
      [] guessed # "subtitle" /\ url.suffix # "page" -> url.suffix
      [] guessed \in {"unknown", "page"} /\ url.suffix = "page" -> None
      [] OTHER -> guessed

\* _kind_from_evidence
KindOfEvidence(url, hinted) ==
    IF KindOrGuess(url, hinted) = None THEN url.suffix ELSE KindOrGuess(url, hinted)

\* _kind_from_jsonld; type is the family of words of its @type.
KindOfBlock(url, type) ==
    CASE url.suffix # "page" -> url.suffix
      [] url.suffix = "page" /\ type \in {"video", "movie", "clip", "broadcast"} -> "video"
      [] url.suffix = "page" /\ type \in {"audio", "music", "podcast", "song"} -> "audio"
      [] url.suffix = "page" /\ type \in {"image", "photograph", "photo"} -> "image"
      [] OTHER -> "page"

\* _jsonld_caption_locator
CaptionLocator(url) == url.suffix \in {"subtitle", "live_stream"}

\* _candidates_from_evidence.
Seeds(items) ==
    LET kept == Among(items, {e \in ToSet(items) : e.url.usable /\ ~e.url.script})
    IN  [i \in 1..Len(kept) |->
           Candidate(kept[i].url, KindOfEvidence(kept[i].url, kept[i].kind), kept[i].url.marked)]

-----------------------------------------------------------------------------
PageInit ==
    /\ sample \in Samples
    /\ page \in sample.pages /\ step = "fetch" /\ marked \in BOOLEAN
    /\ inside = Outside /\ open = <<>> /\ elements = 0
    /\ urls = <<>> /\ seen = {} /\ found = <<>> /\ chosen = <<>> /\ said = {}
    /\ evidence \in sample.evidence /\ blocks \in sample.blocks

\* A locator that names a media object, a file, or a body that is no page.
NoPage ==
    /\ step = "fetch"
    /\ \/ /\ page.suffix # "page"
          /\ found' = <<Candidate(page, page.suffix, page.marked)>> \o Seeds(evidence)
       \/ /\ "local" \in sample.bodies
          /\ found' = <<Candidate(page, IF page.suffix = "page" THEN "unknown" ELSE page.suffix, FALSE)>>
       \/ /\ page.suffix = "page" /\ "manifest" \in sample.bodies
          /\ found' = <<Candidate(page, "live_stream", marked)>> \o Seeds(evidence)
       \/ /\ page.suffix = "page" /\ "bytes" \in sample.bodies
          /\ found' = <<Candidate(page, "unknown", marked)>>
    /\ step' = "found"
    /\ UNCHANGED <<job, parserVars, urls, evidence, blocks, seen, chosen, said>>

\* The fetch fails or its status is an error.
FetchFailed ==
    /\ step = "fetch" /\ page.suffix = "page"
    /\ step' = "failed"
    /\ UNCHANGED <<job, parserVars, urls, evidence, blocks, seen, found, chosen, said>>

BeginPage ==
    /\ step = "fetch" /\ page.suffix = "page" /\ "html" \in sample.bodies
    /\ step' = "parse"
    /\ UNCHANGED <<job, parserVars, urls, evidence, blocks, seen, found, chosen, said>>

KindOfTag == [picture |-> "image", video |-> "video", audio |-> "audio", img |-> "image"]

\* The kind of a media element: its type, or its tag, or the element it is in.
ElementKind(tag, mime) ==
    CASE mime # None -> mime
      [] mime = None /\ tag # "source" -> KindOfTag[tag]
      [] mime = None /\ tag = "source" /\ inside.picture -> "image"
      [] mime = None /\ tag = "source" /\ ~inside.picture /\ inside.audio -> "audio"
      [] mime = None /\ tag = "source" /\ ~inside.picture /\ ~inside.audio ->
           IF inside.video THEN "video" ELSE "unknown"

\* What the author says with it: a source has the kind of the container it is in.
Meant(tag, mime) ==
    CASE mime # None -> mime
      [] mime = None /\ tag # "source" -> KindOfTag[tag]
      [] OTHER -> LET around == Among(open, Containers)
                  IN  IF around = <<>> THEN "unknown" ELSE KindOfTag[Head(around)]

Parse(element) ==
    /\ step = "parse" /\ elements < sample.size /\ elements' = elements + 1
    /\ UNCHANGED <<job, step, evidence, blocks, seen, found, chosen>>

Says(url, kind, meant) ==
    /\ urls' = Append(urls, Mention(url, kind))
    /\ said' = said \cup Said({Mention(url, meant)}, "element")

\* handle_starttag of picture, video, audio and object.  Elements are nested the
\* way HTML has them: no video or audio in another or in a picture.
OpenElement(element) ==
    /\ element.tag \in Containers \cup {"object"} /\ Parse(element)
    /\ element.tag \in {"video", "audio"} => ToSet(open) \cap Containers = {}
    /\ element.tag = "picture" => "picture" \notin ToSet(open)
    /\ open' = <<element.tag>> \o open
    /\ inside' = IF element.tag = "object" THEN [inside EXCEPT !.object = @ + 1]
                                           ELSE [inside EXCEPT ![element.tag] = TRUE]
    /\ IF element.url = None THEN UNCHANGED <<urls, said>>
       ELSE LET kind == CASE element.tag = "object"  -> "video"
                          [] element.attr = "poster" -> "image"
                          [] OTHER                   -> ElementKind(element.tag, element.mime)
            IN  Says(element.url, kind, kind)

\* Mutant: the end of a picture leaves the parser in it.
CloseElementOnly(element) ==
    /\ element.tag = "close" /\ Parse(element) /\ open # <<>>
    /\ open' = Tail(open)
    /\ inside' = CASE Head(open) = "object"  -> [inside EXCEPT !.object = @ - 1]
                   [] Head(open) = "picture" -> inside
                   [] OTHER                  -> [inside EXCEPT ![Head(open)] = FALSE]
    /\ UNCHANGED <<urls, said>>

\* handle_endtag
CloseElement(element) ==
    /\ element.tag = "close" /\ Parse(element) /\ open # <<>>
    /\ open' = Tail(open)
    /\ inside' = IF Head(open) = "object" THEN [inside EXCEPT !.object = @ - 1]
                                          ELSE [inside EXCEPT ![Head(open)] = FALSE]
    /\ UNCHANGED <<urls, said>>

\* source and img, with src, data-src or srcset.
MediaElement(element) ==
    /\ element.tag \in {"source", "img"} /\ Parse(element)
    /\ Says(element.url, ElementKind(element.tag, element.mime), Meant(element.tag, element.mime))
    /\ UNCHANGED <<inside, open>>

\* track, a, iframe and embed, and param in an object.
OtherElement(element) ==
    /\ element.tag \in {"track", "a", "iframe", "param"} /\ Parse(element)
    /\ element.tag = "param" => inside.object > 0
    /\ LET kind == CASE element.tag = "track" -> "subtitle"
                     [] element.tag = "a"     -> "unknown"
                     [] OTHER                 -> "video"
       IN  Says(element.url, kind, kind)
    /\ UNCHANGED <<inside, open>>

\* link: as is what it is loaded as, or None; mime the kind its type says.
LinkKind(element) ==
    IF "audio" \in {element.as, element.mime} THEN "audio"
    ELSE IF "image" \in {element.as, element.mime} THEN "image"
    ELSE IF element.as = "track" THEN "subtitle"
    ELSE IF element.mime = None THEN "video" ELSE element.mime
LinkElement(element) ==
    LET typed == element.as # None \/ element.mime \notin {None, "live_stream"}
        wanted == \/ element.mime = "live_stream"
                  \/ typed /\ ~element.url.script /\ ~element.url.document
                  \/ element.preload /\ element.url.suffix # "page"
    IN /\ element.tag = "link" /\ Parse(element)
       /\ IF wanted THEN Says(element.url, LinkKind(element), LinkKind(element))
                    ELSE UNCHANGED <<urls, said>>
       /\ UNCHANGED <<inside, open>>

\* itemprop of any element.
ItemElement(element) ==
    /\ element.tag = "itemprop" /\ Parse(element)
    /\ LET kind == CASE element.attr = "contentUrl" -> "video"
                     [] element.attr = "caption" /\ CaptionLocator(element.url) -> "subtitle"
                     [] OTHER -> None
       IN  IF kind = None THEN UNCHANGED <<urls, said>> ELSE Says(element.url, kind, kind)
    /\ UNCHANGED <<inside, open>>

Element(element) ==
    \/ OpenElement(element) \/ CloseElement(element) \/ MediaElement(element)
    \/ OtherElement(element) \/ LinkElement(element) \/ ItemElement(element)

\* The document ends: the Open Graph properties are put after the elements.
EndDocument ==
    /\ step = "parse" /\ step' = "seed"
    /\ \E properties \in sample.properties :
         /\ urls' = urls \o properties
         /\ said' = said \cup Said(ToSet(properties), "property")
    /\ UNCHANGED <<job, parserVars, evidence, blocks, seen, found, chosen>>

\* Mutant: the signals of the page are not put on what the browser saw.
SeedAsSeen ==
    /\ step = "seed" /\ step' = "urls"
    /\ LET seeds == Seeds(evidence)
       IN /\ found' = seeds
          /\ seen' = {seeds[i].url : i \in 1..Len(seeds)}
          /\ said' = said \cup Said(ToSet(evidence), "browser")
    /\ evidence' = <<>>
    /\ UNCHANGED <<job, parserVars, urls, blocks, chosen>>

Seed ==
    /\ step = "seed" /\ step' = "urls"
    /\ LET seeds == Seeds(evidence)
       IN /\ found' = [i \in 1..Len(seeds) |-> [seeds[i] EXCEPT !.drm = @ \/ marked]]
          /\ seen' = {seeds[i].url : i \in 1..Len(seeds)}
          /\ said' = said \cup Said(ToSet(evidence), "browser")
    /\ evidence' = <<>>
    /\ UNCHANGED <<job, parserVars, urls, blocks, chosen>>

Add(url, kind) ==
    /\ seen' = seen \cup {url}
    /\ found' = Append(found, Candidate(url, kind, url.marked \/ marked))

ReadUrl ==
    /\ step = "urls" /\ urls # <<>> /\ urls' = Tail(urls)
    /\ LET m    == Head(urls)
           kind == KindOrGuess(m.url, m.kind)
       IN  IF m.url.usable /\ m.url \notin seen /\ ~m.url.script /\ kind # None
           THEN Add(m.url, kind)
           ELSE UNCHANGED <<seen, found>>
    /\ UNCHANGED <<job, step, parserVars, evidence, blocks, chosen, said>>

\* One member of a JSON-LD node, after the last element.
ReadBlock ==
    /\ step \in {"urls", "jsonld"} /\ urls = <<>> /\ blocks # <<>>
    /\ step' = "jsonld" /\ blocks' = Tail(blocks)
    /\ LET b    == Head(blocks)
           kind == IF b.key = "caption" THEN "subtitle" ELSE KindOfBlock(b.url, b.type)
           read == /\ b.key = "caption" => CaptionLocator(b.url)
                   /\ b.key = "url" => kind # "page"
       IN /\ said' = IF read THEN said \cup Said({Mention(b.url, kind)}, "block") ELSE said
          /\ IF read /\ b.url.usable /\ b.url \notin seen /\ ~b.url.script
             THEN Add(b.url, kind)
             ELSE UNCHANGED <<seen, found>>
    /\ UNCHANGED <<job, parserVars, urls, evidence, chosen>>

OfKind(candidates, kinds) == Among(candidates, {c \in ToSet(candidates) : c.kind \in kinds})
Clear(candidates) == Among(candidates, {c \in ToSet(candidates) : ~c.drm})
Named(candidates) == Among(candidates, {c \in ToSet(candidates) : c.url.suffix # "page"})

\* A page without media is a candidate itself, and three images without sound
\* and pictures that move are a gallery.
EndPage ==
    /\ step \in {"urls", "jsonld"} /\ urls = <<>> /\ blocks = <<>>
    /\ step' = "found"
    /\ LET media   == IF found = <<>> THEN <<Candidate(page, "page", marked)>> ELSE found
           gallery == /\ Len(OfKind(media, {"image"})) >= 3
                      /\ OfKind(media, {"video", "audio"}) = <<>>
       IN  found' = IF gallery THEN Append(media, Candidate(page, "gallery", marked)) ELSE media
    /\ UNCHANGED <<job, parserVars, urls, evidence, blocks, seen, chosen, said>>

\* candidates_from_manifest_json
FromManifest(items) ==
    LET usable == Among(items, {f \in ToSet(items) : f.url.usable})
    IN  [i \in 1..Len(usable) |->
           LET f == usable[i]
           IN  Candidate(f.url, CASE f.live \/ f.url.suffix = "live_stream" -> "live_stream"
                                  [] ~f.live /\ f.url.suffix = "page" -> "video"
                                  [] OTHER -> f.url.suffix, f.drm)]

\* preferred_candidates, the first of the best kind.
Preferred(candidates) ==
    LET pool  == IF Clear(candidates) = <<>> THEN candidates ELSE Clear(candidates)
        best  == CHOOSE i \in 1..Len(pool) : \A j \in 1..Len(pool) :
                   \/ Rank(pool[i].kind) < Rank(pool[j].kind)
                   \/ Rank(pool[i].kind) = Rank(pool[j].kind) /\ i <= j
    IN  <<pool[best]>>

\* Mutant: the first of a kind, clear or not.
FirstNamed(kind, candidates) ==
    LET all == OfKind(candidates, {kind})
    IN  IF kind = "live_stream" /\ Named(all) # <<>> THEN Head(Named(all)) ELSE Head(all)

\* The clear ones of a kind before the protected ones, and of live streams one
\* that is named as such.
FirstOf(kind, candidates) ==
    LET all  == OfKind(candidates, {kind})
        pool == IF Clear(all) = <<>> THEN all ELSE Clear(all)
    IN  IF kind = "live_stream" /\ Named(pool) # <<>> THEN Head(Named(pool)) ELSE Head(pool)

\* preferred_by_kind
PreferredByKind(candidates) ==
    LET kinds  == {candidates[i].kind : i \in 1..Len(candidates)} \ {"page"}
        kept   == IF "gallery" \in kinds THEN kinds \ {"image"} ELSE kinds
        ranked == Among(Kinds, kept)
    IN  IF kinds = {} THEN Preferred(candidates)
        ELSE [i \in 1..Len(ranked) |-> FirstOf(ranked[i], candidates)]

\* _manifest_candidates, which yields nothing when yt-dlp fails, and the choice.
Choose ==
    /\ step = "found" /\ step' = "done"
    /\ \E items \in sample.formats \cup {<<>>} :
         /\ found' = found \o FromManifest(items)
         /\ chosen' = PreferredByKind(found')
    /\ UNCHANGED <<job, parserVars, urls, evidence, blocks, seen, said>>

PageNext ==
    \/ NoPage \/ FetchFailed \/ BeginPage \/ (\E element \in sample.elements : Element(element))
    \/ EndDocument \/ Seed \/ ReadUrl \/ ReadBlock \/ EndPage \/ Choose

PageSpec == PageInit /\ [][PageNext]_pageVars

-----------------------------------------------------------------------------
Chosen == {chosen[i] : i \in 1..Len(chosen)}
Found == {found[i] : i \in 1..Len(found)}

\* "Mixed-media pages SHALL keep one preferred candidate per media kind": of a
\* locator that the page, its properties, its JSON-LD or the browser gives a
\* kind, a candidate of one of these kinds is found, however often and in
\* whatever order they name it, and something of that kind is chosen.  It is
\* lost where the first to name it named no kind, the browser or a JSON-LD
\* member: the locator is a page then, and seen.
KindsOf(url) == {KindOrGuess(url, m.kind) : m \in {n \in said : n.url = url}} \ {None}
FirstNamedAsPage(url) ==
    \E m \in said :
      /\ m.url = url /\ KindOrGuess(url, m.kind) = None
      /\ \/ m.by = "browser"
         \/ /\ m.by = "block"
            /\ \A n \in said : n.url = url /\ KindOrGuess(url, n.kind) # None => n.by = "block"
SameKind(c, kind) == c.kind = kind \/ (kind = "image" /\ c.kind = "gallery")
KindsAreKept ==
    step = "done" =>
      \A m \in said : (m.url.usable /\ ~m.url.script /\ KindsOf(m.url) # {}) =>
        \E c \in Found :
          /\ c.url = m.url
          /\ \/ c.kind \in KindsOf(m.url) /\ \E d \in Chosen : SameKind(d, c.kind)
             \/ c.kind = "page" /\ FirstNamedAsPage(m.url)

\* "DRM signals SHALL be attached, not stripped": a page that carries signals
\* leaves no candidate without them, whoever named it.
SignalsStay ==
    step \in {"urls", "jsonld"} /\ marked => \A c \in Found : c.drm

\* A protected candidate is chosen only where nothing of its kind is clear.
ClearIsPreferred ==
    \A d \in Chosen : d.drm => \A c \in Found : c.kind = d.kind => c.drm

\* Signals reach every candidate, and count in the choice (discover,
\* preferred_by_kind).
SignalsCount == SignalsStay /\ ClearIsPreferred
=============================================================================
