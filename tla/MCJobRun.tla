------------------------------ MODULE MCJobRun ------------------------------
(* Pages for JobRun: what the candidates of a page deliver. *)
EXTENDS JobRun

(* A page with a clip and an album, its picture as retrieved and one of    *)
(* the clip's outputs damaged. *)
MixedChosen    == <<"video", "gallery">>
MixedOffer     == [video |-> {"clip"}, gallery |-> {"picture"}]
MixedKindOf    == [clip |-> "video", picture |-> "image"]
MixedContainer == [clip |-> "mp4", picture |-> "jpg"]
MixedBroken    == {<<"picture", "keep-original">>, <<"clip", "transcode">>}
MixedIntents   == {[preference |-> "mkv", lossy |-> TRUE, original |-> TRUE],
                   [preference |-> "none", lossy |-> FALSE, original |-> TRUE],
                   [preference |-> "png", lossy |-> TRUE, original |-> FALSE]}

(* An album of two pictures. *)
AlbumChosen    == <<"gallery">>
AlbumOffer     == [gallery |-> {"one", "two"}]
AlbumKindOf    == [one |-> "image", two |-> "image"]
AlbumContainer == [one |-> "jpg", two |-> "jpg"]

Nothing == {}
Default == {[preference |-> "none", lossy |-> FALSE, original |-> TRUE]}
=============================================================================
