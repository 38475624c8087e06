----------------------------- MODULE Acquisition -----------------------------
(***************************************************************************)
(* How one candidate of a job is acquired: plan_acquisition ranks the      *)
(* strategies the profile allows, Pipeline._acquire_remote tries them in   *)
(* order until one leaves source files, ProviderRuntime.execute runs a     *)
(* strategy in the staging directory of the kind and tells its new files   *)
(* from those that were there, and _register_acquired takes them into the  *)
(* store.  A stopped run leaves its files behind, and the next run of the  *)
(* kind begins with them.                                                  *)
(*                                                                         *)
(* A file of the directory has a name and what wrote it: the strategy, the *)
(* run and what is in it, "media", "encrypted", "partial" or "refusal"     *)
(* (the body of an HTTP error).  yt-dlp and gallery-dl keep a file that is *)
(* there when they would write one of that name.                           *)
(***************************************************************************)
EXTENDS Integers, Sequences, FiniteSets, SequencesExt, PythonNone

CONSTANTS
  Candidates,  \* kind, direct (the locator names a media object), drm, alternatives
  PlanCapabilities,    \* capabilities of the profiles a plan is made for
  WorkerCapabilities,  \* capabilities of the workers that run it
  Names,       \* file names, in the order they are sorted in
  Suffix,      \* the name of what http-direct writes, "source" and a suffix
  MaxKindRuns  \* runs of the kind: all but the last are stopped

Formats == [height : Int, rate : Int, video : BOOLEAN, audio : BOOLEAN, drm : BOOLEAN]
ASSUME AcquisitionAssumption ==
    /\ \A c \in Candidates : c.alternatives \subseteq Formats /\ IsFiniteSet(c.alternatives)
    /\ Names \in Seq(ToSet(Names)) /\ Suffix \subseteq ToSet(Names) /\ None \notin ToSet(Names)

VARIABLES
  candidate, profile, worker,
  format,     \* typed input format_id
  run,        \* number of the run
  at,         \* "plan", "try", "register", "acquired", "failed"
  left,       \* strategies that are left
  staging,    \* the files of the directory: name to content
  paths,      \* names of the output_paths that are not registered yet
  sources,    \* what the run has registered: name to content
  error,      \* last_error
  failures,   \* history: new files of strategies that failed in this run
  quarantine  \* artifacts in quarantine

given == <<candidate, profile, worker>>
kindVars == <<given, format, run, at, left, staging, paths, sources, error, failures, quarantine>>

NoFiles == [n \in {} |-> None]

\* The files of a directory when new ones are written over them.
Over(new, files) ==
    [n \in DOMAIN new \cup DOMAIN files |-> IF n \in DOMAIN new THEN new[n] ELSE files[n]]

-----------------------------------------------------------------------------
\* preferred_format_id.  The best is the highest, then the one of most bits.
Best(formats) ==
    CHOOSE f \in formats : \A g \in formats :
        f.height > g.height \/ (f.height = g.height /\ f.rate >= g.rate)

\* Mutant: the highest rendition, with sound or without.
HighestFormat(alternatives) ==
    LET usable == {f \in alternatives : ~f.drm}
    IN  IF usable = {} THEN {} ELSE {Best(usable)}

PreferredFormat(alternatives) ==
    LET usable   == {f \in alternatives : ~f.drm}
        combined == {f \in usable : f.video /\ f.audio}
        videos   == {f \in usable : f.video}
        audios   == {f \in usable : f.audio /\ ~f.video}
    IN  CASE combined # {} -> {Best(combined)}
          [] combined = {} /\ videos # {} /\ audios # {} -> {Best(videos), Best(audios)}
          [] usable # {} /\ combined = {} /\ (videos = {} \/ audios = {}) -> {Best(usable)}
          [] usable = {} -> {}

\* plan_acquisition
Strategies(c, capabilities) ==
    LET may(strategy) == IF strategy \in capabilities THEN <<strategy>> ELSE <<>>
    IN  CASE c.kind = "live_stream" -> may("live")
          [] c.kind = "gallery"     -> may("gallery") \o may("ytdlp")
          [] c.direct /\ c.kind \notin {"live_stream", "gallery", "page"} -> may("http") \o may("ytdlp")
          [] c.kind \notin {"live_stream", "gallery"} /\ (c.kind = "page" \/ ~c.direct) -> may("ytdlp")

-----------------------------------------------------------------------------
KindInit ==
    /\ candidate \in Candidates
    /\ profile \in PlanCapabilities /\ worker \in WorkerCapabilities
    /\ format = {} /\ run = 1 /\ at = "plan" /\ left = <<>>
    /\ staging = NoFiles /\ paths = {} /\ sources = NoFiles
    /\ error = None /\ failures = {} /\ quarantine = {}

Plan ==
    /\ at = "plan"
    /\ IF candidate.drm
       THEN at' = "failed" /\ error' = "drm" /\ UNCHANGED <<format, left>>
       ELSE LET planned == Strategies(candidate, profile)
            IN /\ left' = planned
               /\ format' = IF "ytdlp" \in ToSet(planned)
                            THEN PreferredFormat(candidate.alternatives) ELSE {}
               /\ IF planned = <<>> THEN at' = "failed" /\ error' = "no strategy"
                                    ELSE at' = "try" /\ UNCHANGED error
    /\ UNCHANGED <<given, run, staging, paths, sources, failures, quarantine>>

Strategy == Head(left)

\* The next strategy, or the end when there is none.
Fail(why) ==
    /\ error' = why
    /\ left' = Tail(left)
    /\ at' = IF Tail(left) = <<>> THEN "failed" ELSE "try"

\* _authorize refuses it, the program is not installed, the request fails: an
\* error before anything is written.
Raise ==
    /\ at = "try"
    /\ Fail(IF Strategy \in worker THEN "raised" ELSE "denied")
    /\ UNCHANGED <<given, format, run, staging, paths, sources, failures, quarantine>>

Content(what) == [by |-> Strategy, run |-> run, what |-> what]

\* Files that a program wrote, as execute sees them.
\* Mutant: all files of the directory.
AllFiles(after) == DOMAIN after
NewFiles(after) == DOMAIN after \ DOMAIN staging

\* Mutant: what a failed strategy wrote is left where it is.
NotQuarantined(after, output) == UNCHANGED quarantine
Quarantine(after, output) ==
    quarantine' = IF output = {} THEN quarantine
                  ELSE quarantine \cup {<<n, after[n]>> : n \in output}

\* A provider has run and has left the directory as after; output is its
\* output_path, created its output_paths.
Judge(after, created, output, exit) ==
    /\ staging' = after
    /\ IF exit = 0 /\ created # {}
       THEN /\ paths' = created
            /\ at' = "register"
            /\ UNCHANGED <<left, error, failures, quarantine>>
       ELSE /\ IF exit = 0 THEN UNCHANGED <<failures, quarantine>>
               ELSE /\ failures' = failures \cup
                          {{<<n, after[n]>> : n \in DOMAIN after \ DOMAIN staging}}
                    /\ Quarantine(after, output)
            /\ Fail(IF exit = 0 THEN "no files" ELSE "exited")
            /\ UNCHANGED paths

\* _http_direct: the body is written whatever the status.
HttpDirect ==
    /\ at = "try" /\ Strategy = "http" /\ Strategy \in worker
    /\ \E name \in Suffix, what \in {"media", "encrypted", "refusal"} :
         LET after == Over([n \in {name} |-> Content(what)], staging)
         IN Judge(after, {name}, {name}, IF what = "refusal" THEN 1 ELSE 0)
    /\ UNCHANGED <<given, format, run, sources>>

\* yt-dlp and gallery-dl.  Of a failed run the newest of the new files is its
\* output.
Program ==
    /\ at = "try" /\ Strategy \in {"ytdlp", "gallery"} /\ Strategy \in worker
    /\ \E offer \in SUBSET ToSet(Names), exit \in {0, 1} :
         \E contents \in [offer \ DOMAIN staging ->
                            IF exit = 0 THEN {"media", "encrypted"} ELSE {"media", "partial"}] :
           LET written == [n \in offer \ DOMAIN staging |-> Content(contents[n])]
               after   == Over(written, staging)
               created == NewFiles(after)
           IN \E newest \in IF created = {} THEN {None} ELSE created :
                Judge(after, created, {newest} \ {None}, exit)
    /\ UNCHANGED <<given, format, run, sources>>

\* _record_live, which opens its files anew.
RecordLive ==
    /\ at = "try" /\ Strategy = "live" /\ Strategy \in worker
    /\ \E kept \in (SUBSET ToSet(Names)) \ {{}} :
         Judge(Over([n \in kept |-> Content("media")], staging), kept, {}, 0)
    /\ UNCHANGED <<given, format, run, sources>>

\* The file of this name is a source, and the last one ends the acquisition.
Store(name) ==
    /\ sources' = Over([n \in {name} |-> staging[n]], sources)
    /\ paths' = paths \ {name}
    /\ at' = IF paths = {name} THEN "acquired" ELSE at
    /\ UNCHANGED <<left, error, quarantine>>

\* The first of the names.
Following(name) ==
    \E i \in DOMAIN Names : Names[i] = name /\ \A j \in DOMAIN Names : j < i => Names[j] \notin paths

\* Mutant: encryption that the probe finds is an error like any other.
RegisterOrNext ==
    /\ at = "register"
    /\ \E name \in paths :
         /\ Following(name)
         /\ IF staging[name].what = "encrypted"
            THEN /\ quarantine' = quarantine \cup {<<name, staging[name]>>}
                 /\ Fail("drm")
                 /\ UNCHANGED <<paths, sources>>
            ELSE Store(name)
    /\ UNCHANGED <<given, format, run, staging, failures>>

\* _register_acquired, for one path.  Encryption ends the kind.
Register ==
    /\ at = "register"
    /\ \E name \in paths :
         /\ Following(name)
         /\ IF staging[name].what = "encrypted"
            THEN /\ quarantine' = quarantine \cup {<<name, staging[name]>>}
                 /\ at' = "failed" /\ error' = "drm"
                 /\ UNCHANGED <<left, paths, sources>>
            ELSE Store(name)
    /\ UNCHANGED <<given, format, run, staging, failures>>

\* A pause, a cancellation or a crash, and a run that begins again.
Stop ==
    /\ at \in {"plan", "try", "register"} /\ run < MaxKindRuns
    /\ run' = run + 1 /\ at' = "plan"
    /\ left' = <<>> /\ paths' = {} /\ sources' = NoFiles /\ error' = None
    /\ failures' = {} /\ format' = {}
    /\ UNCHANGED <<given, staging, quarantine>>

\* A run is stopped while a program is writing.
StopInProgram ==
    /\ at = "try" /\ Strategy \in {"ytdlp", "gallery"} /\ Strategy \in worker /\ run < MaxKindRuns
    /\ \E name \in ToSet(Names) \ DOMAIN staging, what \in {"media", "partial"} :
         staging' = Over([n \in {name} |-> Content(what)], staging)
    /\ run' = run + 1 /\ at' = "plan"
    /\ left' = <<>> /\ paths' = {} /\ sources' = NoFiles /\ error' = None
    /\ failures' = {} /\ format' = {}
    /\ UNCHANGED <<given, quarantine>>

KindNext == Plan \/ Raise \/ HttpDirect \/ Program \/ RecordLive \/ Register \/ Stop \/ StopInProgram

KindSpec == KindInit /\ [][KindNext]_kindVars

-----------------------------------------------------------------------------
\* What a kind is acquired with is media, and of one strategy of this run: never
\* the body of an error, a partial file, or what an earlier strategy or a
\* stopped run left in the directory.
SourcesAreDelivered ==
    /\ at = "acquired" => sources # NoFiles
    /\ \A n \in DOMAIN sources :
         sources[n].what = "media" /\ sources[n].run = run /\ sources[n].by = Strategy

\* "Probe-discovered encryption is terminal (quarantine, no yt-dlp fallback)":
\* once a file of this run is found encrypted, no other file of the kind is
\* written or registered (_register_acquired).
EncryptionFound == \E a \in quarantine : a[2].what = "encrypted" /\ a[2].run = run
EncryptionIsTerminal ==
    [][EncryptionFound /\ run' = run => staging' = staging /\ sources' = sources]_kindVars

\* "yt-dlp non-zero exits quarantine partial output when a file exists": of the
\* new files of a strategy that failed, one is in quarantine, and none of them
\* is registered by the strategy after it.
FailedIsQuarantined ==
    \A new \in failures :
        new # {} => /\ new \cap quarantine # {}
                    /\ \A n \in DOMAIN sources : <<n, sources[n]>> \notin new

\* The formats that are asked for are in the clear, and have the picture and the
\* sound that the usable formats have.  A format that says neither of itself may
\* be taken for the best where only one of the two is to be had.
HasPicture(formats) == \E f \in formats : f.video
HasSound(formats) == \E f \in formats : f.audio
KeepsSound ==
    LET usable == {f \in candidate.alternatives : ~f.drm}
        plain  == \/ HasPicture(usable) /\ HasSound(usable)
                  \/ \A f \in usable : f.video \/ f.audio
    IN  format # {} =>
          /\ format \subseteq usable
          /\ plain /\ HasPicture(usable) => HasPicture(format)
          /\ plain /\ HasSound(usable) => HasSound(format)

\* A kind is acquired with what was asked for: whole media with its sound, and
\* nothing a failed strategy has left (preferred_format_id, execute,
\* _acquire_remote).
AcquiredIsSound == SourcesAreDelivered /\ FailedIsQuarantined /\ KeepsSound
=============================================================================
