----------------------------- MODULE ExportPlan -----------------------------
(***************************************************************************)
(* The export planner, src/webmedia_dl/export.py: which operations a job   *)
(* plans for one source, and the order processing.py runs them in.  Every  *)
(* operation reads the source itself.                                      *)
(***************************************************************************)
EXTENDS Sequences

(* The intent: the container asked for or "none" and whether loss is       *)
(* allowed, both after the preset; whether the job submitted with it wants *)
(* the original published.                                                 *)
IntentType == [preference : STRING, lossy : BOOLEAN, original : BOOLEAN]

Operations == {"keep-original", "remux", "transcode", "image-convert", "image-orient"}

ImageContainers  == {"jpg", "jpeg", "png", "webp", "avif", "gif", "tif", "tiff"}
LossyContainers  == {"jpg", "jpeg", "webp", "avif", "gif"}
PassthroughKinds == {"document", "subtitle"}

ImageLike(kind, container) ==
  kind \in {"image", "gallery"} \/ (container \in ImageContainers /\ kind \notin PassthroughKinds)

(* Another container than the source's: convert an image, or remux, with   *)
(* a transcode to fall back on when loss is allowed.                       *)
Conversion(kind, container, intent) ==
  IF ImageLike(kind, container) /\ intent.preference \in ImageContainers
  THEN IF intent.preference \in LossyContainers => intent.lossy
       THEN <<"image-convert">> ELSE <<>>
  ELSE IF intent.lossy THEN <<"remux", "transcode">> ELSE <<"remux">>

(* plan_export, in the order ordered_operations gives it *)
PlanOf(kind, container, intent) ==
  LET changed   == intent.preference # "none" /\ intent.preference # container
      converted == CASE changed -> Conversion(kind, container, intent)
                     [] ~changed /\ intent.lossy /\ ~ImageLike(kind, container) -> <<"transcode">>
                     [] OTHER -> <<>>
      oriented  == IF ImageLike(kind, container) /\ intent.preference = "none"
                   THEN <<"image-orient">> ELSE <<>>
  IN  <<"keep-original">>
        \o (IF kind \in PassthroughKinds THEN <<>> ELSE converted \o oriented)

(* The role an operation's output is registered under. *)
RoleOf(op) ==
  CASE op = "keep-original" -> "source"
    [] op = "image-orient"  -> "preview"
    [] OTHER                -> "derivative"

Optional(op) == op = "image-orient"
=============================================================================
