------------------------------ MODULE SampleMedia ------------------------------
(* Candidates and pages for TLC. *)
EXTENDS Naturals, Sequences, PythonNone

-----------------------------------------------------------------------------
\* Candidates, and the strategies that profiles and workers have.
Format(height, rate, video, audio, drm) ==
  [height |-> height, rate |-> rate, video |-> video, audio |-> audio, drm |-> drm]
Renditions == {Format(2, 1, TRUE, FALSE, FALSE), Format(1, 1, TRUE, TRUE, FALSE),
               Format(0, 2, FALSE, TRUE, FALSE), Format(0, 1, FALSE, TRUE, FALSE),
               Format(0, 3, FALSE, FALSE, FALSE), Format(2, 2, TRUE, TRUE, TRUE)}
Offered(kind, direct, drm, alternatives) ==
  [kind |-> kind, direct |-> direct, drm |-> drm, alternatives |-> alternatives]
OfEveryKind == {Offered(kind, direct, drm, {}) : kind \in {"video", "gallery", "live_stream", "page"},
                                                 direct \in BOOLEAN, drm \in BOOLEAN}
OfRenditions == {Offered("video", FALSE, FALSE, formats) : formats \in SUBSET Renditions}
SortedNames == <<"album", "source.mp4", "source.webm">>
SomeCapabilities == {{"http", "ytdlp", "gallery", "live"}, {"http"}}

-----------------------------------------------------------------------------
\* Locators of pages, and the elements that name them.
Locator(id, suffix, what) ==
  [id |-> id, suffix |-> suffix, script |-> what = "script", document |-> what = "document",
   usable |-> what # "blocked", marked |-> what = "marked"]
Page == Locator("page", "page", "plain")
Stream == Locator("stream", "page", "plain")
Object == Locator("object", "page", "plain")
Clip == Locator("clip", "video", "plain")
Playlist == Locator("playlist", "live_stream", "plain")
Player == Locator("player", "page", "script")
About == Locator("about", "page", "document")
Blocked == Locator("blocked", "image", "blocked")
Protected == Locator("protected", "video", "marked")
Images == <<Locator("i1", "image", "plain"), Locator("i2", "image", "plain"), Locator("i3", "image", "plain")>>

Tag(tag, url) == [tag |-> tag, url |-> url, mime |-> None]
Container(tag, attr, url) == [tag |-> tag, url |-> url, mime |-> None, attr |-> attr]
Link(as, mime, preload, url) ==
  [tag |-> "link", as |-> as, mime |-> mime, preload |-> preload, url |-> url]
Item(attr, url) == [tag |-> "itemprop", attr |-> attr, url |-> url]
Close == [tag |-> "close"]

\* Sources in nested containers, and one of every element.
NestedElements ==
  {Container(tag, "src", None) : tag \in {"picture", "video", "audio"}} \cup {Close}
  \cup {Tag("source", u) : u \in {Stream, Object, Clip}}
  \cup {[tag |-> "source", url |-> Object, mime |-> "audio"], Tag("img", Object)}
MixedElements ==
  {Container("video", "src", Stream), Container("video", "poster", Object),
   Container("object", "src", None), Close,
   Tag("param", Stream), Tag("track", Playlist), Tag("a", Stream), Tag("a", Clip), Tag("a", About),
   Tag("iframe", Player), Tag("iframe", Object), Tag("img", Blocked), Tag("source", Protected),
   Link("audio", None, FALSE, Stream), Link(None, "live_stream", FALSE, Object),
   Link("image", None, FALSE, About), Link(None, None, TRUE, Clip), Link("track", None, FALSE, Playlist),
   Item("contentUrl", Object), Item("caption", Playlist), Item("caption", Object)}

\* What the properties, the browser, the JSON-LD and yt-dlp say of a page.
Naming(url, kind) == [url |-> url, kind |-> kind]
Block(url, key, type) == [url |-> url, key |-> key, type |-> type]
SomeProperties == {<<>>, <<Naming(Object, "image"), Naming(Clip, "video")>>,
                   [i \in 1 .. 3 |-> Naming(Images[i], "image")]}
SomeEvidence == {<<>>, <<Naming(Stream, "audio"), Naming(Object, "unknown")>>,
                 <<Naming(Clip, "image"), Naming(Player, "video")>>}
SomeBlocks == {<<>>, <<Block(Object, "url", "page"), Block(Object, "contentUrl", "audio")>>,
               <<Block(Playlist, "caption", "video"), Block(Stream, "contentUrl", "page"),
                 Block(Stream, "embedUrl", "video")>>}
SomeFormats == {<<[url |-> Page, live |-> FALSE, drm |-> TRUE]>>, <<[url |-> Clip, live |-> TRUE, drm |-> FALSE]>>}

EveryLocator == {Page, Stream, Object, Clip, Playlist, Player, About, Blocked, Protected}
                \cup {Images[i] : i \in 1 .. 3}
Nested == [pages |-> {Page}, elements |-> NestedElements, size |-> 5, evidence |-> {<<>>},
           properties |-> {<<>>}, blocks |-> {<<>>}, bodies |-> {"html"}, formats |-> {<<>>}]
Mixed == [pages |-> {Page, Clip}, elements |-> MixedElements, size |-> 3, evidence |-> SomeEvidence,
          properties |-> SomeProperties, blocks |-> SomeBlocks,
          bodies |-> {"html", "manifest", "bytes", "local"}, formats |-> SomeFormats]
SomeSamples == {Nested, Mixed}
=============================================================================
