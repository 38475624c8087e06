---------------------------- MODULE SampleManifests ----------------------------
(* DASH manifests for TLC: their levels, BaseURLs and addressing. *)
EXTENDS Naturals, Sequences

Dir(name)  == [name |-> name, form |-> "dir"]
File(name) == [name |-> name, form |-> "file"]
Bare(name) == [name |-> name, form |-> "bare"]

Rep(id, kind, bandwidth, open, base, addr) ==
  [id |-> id, name |-> id, kind |-> kind, bandwidth |-> bandwidth,
   open |-> open, base |-> base, addr |-> addr]
Set(name, kind, base, addr, reps) ==
  [name |-> name, kind |-> kind, base |-> base, addr |-> addr, reps |-> reps]
Span(base, addr, sets, reps) ==
  [name |-> "period", base |-> base, addr |-> addr, sets |-> sets, reps |-> reps]
Mpd(base, addr, list) == [name |-> "mpd", base |-> base, addr |-> addr, periods |-> list]

\* Two representations of one set, with everything above them.
Own == {"none", "template", "list", "ranges", "base"}
Bodies == {<<>>, <<Dir("r")>>, <<File("f")>>, <<Dir("r"), Bare("g")>>}
Above == {<<base, addr>> : base \in {<<>>, <<Dir("d"), File("e")>>},
                           addr \in {"none", "template", "ranges"}}
Nested ==
  {Mpd(m[1], m[2], <<Span(p[1], p[2], <<Set("set", "video", s[1], s[2],
        <<Rep("a", "unknown", 2, TRUE, body, own), Rep("b", "unknown", 1, TRUE, <<File("h")>>, "none")>>)>>,
        <<>>)>>)
     : m \in Above, p \in Above, s \in Above, body \in Bodies, own \in Own}

\* Periods whose sets differ in kinds, bandwidths and locators.
Reps(id) == {Rep(id, kind, bandwidth, TRUE, <<>>, addr)
               : kind \in {"unknown", "audio"}, bandwidth \in {1, 2}, addr \in {"none", "template"}}
Sets == {Set("set", kind, <<>>, "none", <<r, q>>) : kind \in {"video", "text", "unknown"},
                                                    r \in Reps("a"), q \in Reps("b")}
Mixed(sets) == {Span(<<>>, "none", <<s, Set("other", "audio", <<>>, "none",
                            <<Rep("c", "unknown", 1, TRUE, <<>>, "list")>>)>>, <<>>) : s \in sets}
              \cup {Span(<<Dir("p")>>, "none", <<>>, s.reps) : s \in sets}
Few == {s \in Sets : s.reps[1].bandwidth = 1 /\ s.kind = "video"}
Sequential == {Mpd(<<File("x")>>, "none", <<p, q>>) : p \in Mixed(Sets), q \in Mixed(Few)}

\* Some representations have no end tag of their own; none of them stands
\* before one that has.
Apart ==
  {Mpd(<<>>, "none", <<Span(<<>>, "none", <<Set("set", "video", <<>>, "template",
        <<Rep("a", "unknown", 1, open >= 1, <<>>, "none"), Rep("b", "unknown", 2, open >= 2, <<>>, "none"),
          Rep("c", "unknown", k, open >= 3, <<>>, "none")>>)>>, <<>>)>>)
     : open \in 0 .. 3, k \in {1, 3}}
AllManifests == Nested \cup Sequential \cup Apart
=============================================================================
