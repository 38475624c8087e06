----------------------------- MODULE HlsPlaylist -----------------------------
(***************************************************************************)
(* How live.py reads an HLS playlist.  A playlist is a sequence of lines,  *)
(* each a record with the tag and the attributes that the reader uses:     *)
(*   sequence  number        #EXT-X-MEDIA-SEQUENCE                         *)
(*   skip      number        #EXT-X-SKIP (delta playlist)                  *)
(*   key       clear         #EXT-X-KEY, clear when its method is NONE     *)
(*   break                   #EXT-X-DISCONTINUITY                          *)
(*   gap                     #EXT-X-GAP                                    *)
(*   map       uri start length     #EXT-X-MAP                             *)
(*   part      uri start length gap #EXT-X-PART                            *)
(*   range     start length         #EXT-X-BYTERANGE                       *)
(*   uri       uri           a segment                                     *)
(* A locator with an unbound {$name} is the uri None.  The reader goes     *)
(* over them line by line, and keeps between two lines what Blank has.     *)
(***************************************************************************)
EXTENDS Integers, SequencesExt

CONSTANT None     \* Python's None: an absent offset, length or locator

ManifestPart(uri, start, length, occurrence, partial) ==
  [uri |-> uri, start |-> start, length |-> length,
   occurrence |-> occurrence, partial |-> partial]

Blank == [parts |-> <<>>, held |-> <<>>, pending |-> None, gap |-> FALSE,
          reach |-> <<>>, sequence |-> 0, index |-> 0, open |-> TRUE]

\* The number that tells two segments with one locator apart.
Occurrence(p) == p.sequence + p.index

\* d[x] = y, of a Python dict.
Updated(d, x, y) == [z \in DOMAIN d \cup {x} |-> IF z = x THEN y ELSE d[z]]

\* next_offset: where the ranges of a locator have come to.
Reach(p, uri) == IF uri \in DOMAIN p.reach THEN p.reach[uri] ELSE 0
Reached(p, uri, start, length) ==
  IF start = None \/ length = None THEN p.reach ELSE Updated(p.reach, uri, start + length)

\* PARTs are held back: the URI of their segment replaces them, the end of the
\* playlist, a discontinuity or a key makes them parts of their own.
FlushHeld(p) ==
  IF p.held = <<>> THEN p
  ELSE [p EXCEPT !.parts = @ \o p.held, !.held = <<>>, !.index = @ + 1]

\* The initialization section starts at 0 unless its range says otherwise.
ReadMap(p, l) ==
  LET start == IF l.start = None THEN 0 ELSE l.start
  IN  IF l.uri = None THEN p
      ELSE [p EXCEPT !.parts = Append(@, ManifestPart(l.uri, start, l.length, Occurrence(p), FALSE)),
                     !.index = @ + 1,
                     !.reach = Reached(p, l.uri, start, l.length)]

ReadPart(p, l) ==
  LET start == IF l.start = None /\ l.length # None THEN Reach(p, l.uri) ELSE l.start
  IN  IF l.uri = None \/ l.gap THEN p
      ELSE [p EXCEPT !.held = Append(@, ManifestPart(l.uri, start, l.length, Occurrence(p), TRUE)),
                     !.reach = Reached(p, l.uri, start, l.length)]

\* Mutant: a gap lasts until the end of the playlist.
ReadUriInGap(p, l) ==
  LET past == [p EXCEPT !.held = <<>>, !.pending = None, !.index = @ + 1]
  IN  IF l.uri = None \/ p.gap THEN past
      ELSE [past EXCEPT !.parts = Append(@, ManifestPart(l.uri, None, None, Occurrence(p), FALSE))]

\* Mutant: gaps are not looked at.
ReadUriOverGap(p, l) ==
  LET past == [p EXCEPT !.held = <<>>, !.pending = None, !.gap = FALSE, !.index = @ + 1]
  IN  IF l.uri = None THEN past
      ELSE [past EXCEPT !.parts = Append(@, ManifestPart(l.uri, None, None, Occurrence(p), FALSE))]

ReadUri(p, l) ==
  LET start  == IF p.pending.start = None THEN Reach(p, l.uri) ELSE p.pending.start
      length == p.pending.length
      past   == [p EXCEPT !.held = <<>>, !.pending = None, !.gap = FALSE, !.index = @ + 1]
      part(from, count) == ManifestPart(l.uri, from, count, Occurrence(p), FALSE)
  IN  IF l.uri = None \/ p.gap THEN past
      ELSE IF p.pending = None THEN [past EXCEPT !.parts = Append(@, part(None, None))]
      ELSE [past EXCEPT !.parts = Append(@, part(start, length)),
                        !.reach = Reached(p, l.uri, start, length)]

ReadLine(p, l) ==
  IF ~p.open THEN p
  ELSE CASE l.tag = "sequence" -> [p EXCEPT !.sequence = l.number]
         [] l.tag = "skip"     -> [p EXCEPT !.index = @ + l.number]
         [] l.tag = "key"      -> IF l.clear THEN p ELSE [FlushHeld(p) EXCEPT !.open = FALSE]
         [] l.tag = "break"    -> FlushHeld(p)
         [] l.tag = "gap"      -> [p EXCEPT !.held = <<>>, !.gap = TRUE]
         [] l.tag = "map"      -> ReadMap(p, l)
         [] l.tag = "part"     -> ReadPart(p, l)
         [] l.tag = "range"    -> [p EXCEPT !.pending = [start |-> l.start, length |-> l.length]]
         [] l.tag = "uri"      -> ReadUri(p, l)

ClearHlsParts(lines) ==
  LET read[n \in 0 .. Len(lines)] == IF n = 0 THEN Blank ELSE ReadLine(read[n - 1], lines[n])
  IN  FlushHeld(read[Len(lines)]).parts

\* A playlist whose every part is behind a key is refused, not empty.
HasKey(lines) == \E i \in DOMAIN lines : lines[i].tag = "key" /\ ~lines[i].clear
=============================================================================
