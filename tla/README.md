# webmedia-dl in TLA+

Specifications of webmedia-dl: the job queue and its control, the run of a job with its
checkpoints, discovery and acquisition, live recording with its manifest readers, pairings,
sealed envelopes, cookie grants, the artifact store, and the companion relays; with the TLC
runs that check them and the TLAPS proofs about them.  Every definition is translated
from the source under `src/`; `PROJECT.json` maps each one to its lines, lists
the runs, the mutated definitions that each property must reject, the hazards
of the code and the theorems.  Paths below are relative to
`src/src/webmedia_dl/` unless they start with `src/`.

    tlc -workers 2 -config control_queue.cfg MCJobControl.tla
    tlc -workers 2 -config run_mixed.cfg MCJobRun.tla
    tlc -workers 2 -config live.cfg MCLiveRecorder.tla
    tlc -workers 2 -config devices.cfg MCDevices.tla
    tlapm JobControl_proofs.tla

## 1. Inventory

| Component | Files | State | Operations | Correct when |
|---|---|---|---|---|
| Durable queue | `queue.py` | SQLite: jobs (state, payload, created_at), job_context (html, cookie grant, evidence, checkpoint, two request flags), queue_control (paused, event sequence), events | put_job, claim, claim_next, pause/cancel_unless_committed, set_state, set_job_flags, put_context, put_checkpoint, set_paused, emit | a job is handed to one runner; nothing starts while paused; a stop is not lost; no published job reads as stopped |
| Job control | `pipeline.py`, `dispatcher.py`, stop events in `providers.py` | one thread per request, per CLI process and for the dispatcher; pause and cancel events per job in the worker's memory | submit, run_next, cancel, pause_job, resume_job, pause_queue, resume_queue, `_check_control`, `_fail` | the same, over every interleaving and crash |
| Job run | `pipeline.py` `_run`, `_acquire_remote`; `acquisition.py` | locals and the checkpoint: stage, acquired and failed kinds, sources, operations done, artifacts produced | acquire each kind, export each source, validate, publish | a resumed run neither repeats nor skips work; a partial outcome is reported as such |
| Export | `export.py`, `processing.py` | artifacts by operation, failed operations | plan, topological order, execute | an operation runs on a validated input; a failure does not reach its siblings |
| Publication | `publish.py`, `destinations.py`, `network_policy.py` | files under an approved root | copy to a temporary directory, replace | all or part of the validated files, never an unvalidated one |
| Artifact store | `artifacts.py` | index of records per process, one index file, content-addressed files | register, resolve, lineage | a source never changes; a registration adds to what is known of the bytes; the index follows |
| Staging | `staging.py`, `intake.py` | uploads by owner and digest | ingest | a stored file has its declared digest |
| Pairing | `pairing.py`, `ledger.py`, `envelope.py`, `transport.py`, `continuity.py`, grants in `security.py` | pairing records, used nonces, cookie grants | create, confirm, require_confirmed, seal, open, issue, resolve | only a confirmed, unexpired pairing acts; an envelope is opened once |
| Policy | `policy/profiles.py`, `capabilities.py`, `_job_owner` and `_activate_job` in `pipeline.py` | finite capability sets; client profile and worker in fields of the thread; owner of a job in the queue | authorise a capability for client and worker | a client gets more than its surface's profile only on a pairing, at this machine or by a forwarded capture; a job runs with the power it was accepted with |
| Live recording | `live.py` | parts recorded, PARTs that stand for their segment, ranges written, byte budget, refusals | read a playlist or manifest, choose, poll, fetch, append | the best of each kind is chosen; parts once and in order, none left out, nothing protected, within the bound |
| Discovery | `discovery.py`, `candidates.py`, `fetch.py` | the parser's open elements, locators seen | parse pages and manifests, prefer one candidate per kind | a kind somebody named survives; DRM signals reach every candidate they are about |
| Acquisition | `acquisition.py`, `providers.py`, `_acquire_remote` in `pipeline.py` | files of the staging directory, last error | rank strategies, run one, register or quarantine its files | what is delivered is media of one strategy of this run; encryption ends the kind |
| Validation | `validation.py`, `probe.py` | none | gates on files | - |
| Service, CLI | `service.py`, `cli.py` | bearer token | check arguments, call the pipeline | - |
| Companion relay | `src/apps/WebMediaDLCore/...` | relays in memory, a queue in UserDefaults, tasks in flight | send, transfer, forward, collect | nothing is handled twice; a failed message is kept |
| Apple client core, extensions | `src/apps`, `src/extensions` | on-device jobs | submit, download, share | - |
| Diagnostics, packaging, schemas | `diagnostics.py`, `support.py`, ... | none | reports | - |

**How they interact.**  FastAPI runs the synchronous endpoints of `service.py` in a
thread pool; each calls a method of one shared `Pipeline`.  `QueueDispatcher`
is one more thread that repeats `run_next`.  Every CLI command is a process with
a `Pipeline` of its own on the same data directory.  They share the SQLite file
(every transaction begins with `BEGIN IMMEDIATE`), and the threads of the worker
also share the `ProviderRuntime` with its stop events and running processes.
`submit(wait)`, `resume_job` and `run-next` run the job in the caller's thread.
A run looks for a stop request in `_check_control` between its steps and in
every `set_state`; a stop request from a thread of the worker also kills the
provider process.

**What is hard.**
* `set_state` is three transactions: read the flags, read the row, write the row.
  Everything another thread does in between is overwritten.
* A stop is four steps: look at the state, set the flag, signal the runtime, move
  the row; when the job has committed in the meantime a fifth takes the flag back.
* A stop has four traces (flag, event, row, exception), and a run may meet any of
  them first.
* `resume_job` does not know whether the run it resumes has stopped.
* A job is visible to the dispatcher before its context is stored.
* A crash or an exception that is no `WebMediaError` leaves a job in a working
  state that nobody claims again.
* A run can be lost between any two writes.  What the next run knows is the
  checkpoint, the staging directories and the destination, and each of them is
  written at its own time.
* Kinds mean two things: the kind a candidate is listed under and the kind its
  file turns out to have.
* Failures are contained: a kind, an operation, an artifact or a copy may fail and
  the rest goes on, over every resume.
* A live playlist grows, slides and turns protected while it is recorded; what tells
  two of its parts apart is their place in one text.
* Stores keep a copy of a file in memory and write the whole of it: pairings, artifacts
  and cookie grants, by threads of one process and by several processes.
* A sealed envelope may be replayed, and the ledger that remembers it is pruned.
* A thread serves requests of one client and then runs the job of another.
* The files a refused or stopped strategy leaves lie where the next one writes.
* Messages wait in relays, queues and tasks; a send that throws may have arrived.

## 2. Modules

| Module | Content |
|---|---|
| `JobQueue` | the queue's tables as variables, one operator per transaction; a library of JobControl |
| `JobControl` | every thread that can touch a job; its invariants, action and liveness properties |
| `JobLifecycle` | the abstract life of a job: absent, waiting, running, committing, done or failed, and the hold on the queue |
| `MCJobControl` | JobControl for TLC |
| `JobControl_proofs`, `JobStops_proofs` | theorems about JobControl: exclusion and publication; attendance, refinement, stops and contexts |
| `ExportPlan` | the export planner as operators |
| `JobRun` | what a run does with kinds, sources, artifacts, checkpoints and files, over pauses and crashes |
| `DurableWork` | the abstract promise: work that is recorded is kept, and delivered once |
| `MCJobRun`, `JobRun_proofs` | JobRun for TLC, and its theorems |
| `Discovery` | a page, what a browser saw and a yt-dlp manifest read into candidates, one chosen per kind |
| `Acquisition` | one candidate: ranked strategies, their files, quarantine, encryption |
| `JobOwner` | the client profile and worker a thread acts for, in requests and in runs |
| `SampleMedia`, `MCMedia`, `Media_proofs` | pages and candidates, the last three modules for TLC, and theorems about all three |
| `LiveRecorder` | the recorder and the origin that goes on publishing |
| `HlsPlaylist` | the reader of an HLS media playlist, a library of LiveRecorder |
| `MCLiveRecorder`, `LiveRecorder_proofs` | five recordings for TLC, and theorems about every recording |
| `DashManifest` | levels, BaseURLs, addressing and the choice of representations of an MPD |
| `HlsMaster` | the choice of variant, renditions and I-frame streams of a master |
| `DashWindows` | how long each Period lasts |
| `DashTemplate` | the segments of a SegmentTemplate |
| `Manifests_proofs` | theorems about the last three |
| `SampleManifests`, `MCManifests` | manifests, and the four readers above for TLC |
| `Pairing` | pairings, sealed envelopes, the nonce ledger, `pairing.json` |
| `Companion` | the relays between watch, phone, Apple TV and Mac |
| `MCDevices`, `Devices_proofs` | both for TLC, and theorems about both |
| `CookieGrants` | grants of cookie files over processes |
| `ArtifactStore` | content-addressed files and their index |
| `MCStores`, `Stores_proofs` | both for TLC, and theorems about both |
| `PythonNone` | the `None` that modules share which are checked together |

`JobControl` and `JobRun` cut the same code in two.  `JobControl` has every thread and
every transaction that decides who may run a job and whether it must stop, and
leaves out what a run does; `JobRun` has what a run does, one run at a time, and
takes pauses and crashes as given.  Where `JobControl` shows that two runs of one
job are possible (`resume_twice`), `JobRun` says nothing.  `Acquisition` is the inside of
one fetch of `JobRun`, `LiveRecorder` of one strategy of `Acquisition`, and the manifest
readers are what `LiveRecorder` takes as given of a text.  `JobOwner` is the same
threads as in `JobControl`, seen by what they are allowed.

The four MC modules of several components are sums: the parts share no variable, a first
variable (`part`, `setting`) says which of them a behaviour is about, and the others rest.
A property of a part is not made weaker by it.

### JobControl

**State.**  `jobState`, `pauseFlag`, `cancelFlag`, `hasContext` and `queuePaused`
are columns of the queue file.  `thread[t]` is what thread `t` is doing: `at` is
the call it is in, `step` the transaction within that call, `job` its job,
`target`, `pause`, `cancel`, `seen` the locals of `set_state` and
`_check_control`.  `pauseEvent` and `cancelEvent` are the events of the worker's
`ProviderRuntime`.  `published`, `stopped`, `bare` and `faults` are history: they
are read by properties and (`faults`) by the bound on faults only.

**A run.**  `Flow` is the order in which `_run` and what it calls check for stops,
move the state and call providers, from `loadContext` to `setCompleted`; `Loop`
is its back edges, one for each loop over strategies, live segments, kinds,
operations, sources and artifacts.  Which edge is taken depends on media data
that is not in the model, so a run takes any of them.  A `WebMediaError` is an
edge to `setFailed`.  Adjacent checks with no state change in between are one
check.

**Actions and code.**

| Actions | Code |
|---|---|
| `Submit`, `StoreContext`, `RefuseCookies`, `ClaimSubmitted` | `Pipeline.submit` and the claim at the head of `_run` |
| `RunNext`, `LoadContext` | `run_next`, `_execute_stored`, `QueueDispatcher._loop` |
| `CheckContext`, `CheckRow` | the two transactions of `_check_control` |
| `SetFlags`, `SetRead`, `SetWrite`, `SetClear` | the transactions of `QueueStore.set_state` |
| `WorkStart`, `WorkFinish`, `Interrupted` | provider work, and `_raise_if_stopped` |
| `Publish` | `publish_artifacts` |
| `RequestStop`, `StopFlag`, `StopSignal`, `StopRow`, `StopUndo` | `cancel` and `pause_job` |
| `RequestResume`, `ResumeFlag`, `ResumeEvents`, `ClaimResumed` | `resume_job` |
| `HoldQueue` | `pause_queue`, `resume_queue` |
| `Abort`, `Restart` | an exception or a kill of one thread; a restart of the worker |

**Abstractions.**  The job's payload is its state.  `emit` only appends to the event
log, which no code above reads, and is left out; so are checkpoints, which
decide what a run does and not whether it may.  A job's number is its `created_at`.
A stop event may be seen at any time during provider work or not at all, since
providers differ in how often they look.  `publish_artifacts` is one step.

### JobRun

**State.**  `row` is the job's state, `checkpoint` the column of `job_context`, `staged`
the directory of each kind, `placed` the destination as a set of names with the artifact
behind each, `delivered` the paths `publish_artifacts` has returned, `report` the payload of
`job.completed`.  `run` holds the locals of `_run` and what it calls, with `at` as program
counter; it is reset when the run ends for any reason.  `spoiled` is history.
A file stands for its artifact, an output for the pair of source and operation.

**Steps.**  Every action writes durable state at most once, so a crash between any two
writes is a crash between two actions.

| Actions | Code |
|---|---|
| `Claim`, `Restore`, `Discover`, `DiscoverFails` | the head of `_run`: claim, read the checkpoint back, check it, discover, choose where to go on |
| `SkipKind`, `BeginFetch`, `Fetch`, `EndFetch`, `FetchFails`, `SaveKind`, `EndKinds` | the loop over kinds with `_acquire_remote`, `ProviderRuntime.execute` and `_register_acquired` |
| `NextSource`, `SkipOperation`, `Operate`, `OperationFails`, `SaveOperation`, `EndSource`, `EndSources` | the loop over sources with `execute_export_plan` and `on_progress` |
| `SaveValidating`, `Validate`, `SavePublishing`, `SetPublishing` | validation, and the two checkpoints around it |
| `Copy`, `CopyFails`, `EndCopy`, `Complete`, `Report` | `publish_artifacts`, `set_state(COMPLETED)`, `job.completed` |
| `Fail` | `_fail` |
| `Pause`, `PauseUnattended`, `Resume`, `Crash` | `pause_job` seen by a run or by no run, `resume_job`, the death of the worker |

**Abstractions.**  The page offers every run the same candidates.  The ranked strategies of a
kind, which `Acquisition` takes apart, are one fetch: `Fetch` adds files to the kind's directory, `EndFetch` is an exit
that produced at least one new file, `FetchFails` everything that ends in a
`WebMediaError` or a DRM refusal; quarantined files are no sources.  A program (yt-dlp,
gallery-dl) may find a file from an earlier run in place: it skips it or writes it again,
which leaves the directory the same.  Which artifacts fail validation is the constant `Broken`;
an operation fails at any time as well.  Sources are exported in any order, and the
primary artifact that lends subtitles its name is any of those `_primary_stem` may
find first.  Cancellation only ends a run and is left to `JobControl`.
Left out: jobs on a local file, the html evidence of a page, unknown presets, files
with equal contents, other destinations than an approved path, and two processes over one
artifact index.

### Discovery

**State.**  `sample` is what this job is given: what a page may be made of and what a browser, the
properties, the JSON-LD and yt-dlp may say.  `page` is the locator of the job, `inside` the parser's four flags (picture,
video, audio, object), `urls`, `evidence` and `blocks` what is not read yet, `seen` and `found`
the locators and candidates of `discover`, `chosen` what `preferred_by_kind` makes of them.
`open` and `said` are history: the containers that are really open, and every mention
of a locator with the kind its author meant.

| Actions | Code |
|---|---|
| `NoPage`, `FetchFailed`, `BeginPage` | a direct locator, a manifest body, a local file; the fetch in `discover` |
| `OpenElement`, `CloseElement`, `MediaElement`, `OtherElement`, `LinkElement`, `ItemElement` | `_MediaHTMLParser.handle_starttag`, `handle_endtag` |
| `EndDocument`, `Seed`, `ReadUrl`, `ReadBlock`, `EndPage` | the passes of `discover` over properties, evidence, elements and JSON-LD, and the gallery and page candidates at their end |
| `Choose` | `candidates_from_manifest_json`, `preferred_by_kind` |

**Abstractions.**  A locator is a record of what the code looks at: the kind its suffix
names, script, document, authorized, DRM text.  A JSON-LD node is one member with its type.
`Locators` and `Samples` are any sets of the types `DiscoveryAssumption` states, so that what is
proved holds for pages of any length; elements nest the way HTML has them.

`KindsAreKept` has an exception that the code makes: a locator that the browser, or a JSON-LD
member before any element, names without a kind becomes a candidate of kind page and is seen,
and what names it later with a kind is not read (section 4).

### Acquisition

**State.**  `left` is the ranked strategies not tried yet, `staging` the directory with the origin of
every file (strategy, run, content), `paths` and `sources` what `execute` and
`_register_acquired` made of it, `quarantine` artifacts put aside, `run` the number of the run.

| Actions | Code |
|---|---|
| `Plan` | `plan_acquisition` with `preferred_format_id` |
| `Raise`, `HttpDirect`, `Program`, `RecordLive` | one turn of `_acquire_remote` with `ProviderRuntime.execute`, by strategy |
| `Register` | `_register_acquired` for one path |
| `Stop`, `StopInProgram` | a stop or crash between two steps, or while a program writes; the run that begins again finds the directory as it was |

**Abstractions.**  A file's content is media, encrypted, partial or the body of an error.
yt-dlp and gallery-dl keep a file they would overwrite; `http-direct` and the recorder write anew.
A plan is made with the capabilities of a profile (`PlanCapabilities`) and run by a worker with its
own (`WorkerCapabilities`).  A format may say neither that it has picture nor that it has sound;
`preferred_format_id` falls back to the best of all that are usable where one of the two is not to be
had, and the property `KeepsSound` promises nothing of such a choice.

### JobOwner

**State.**  `tls[t]` is the thread-local client profile and worker, `jobs[j]` the columns of the
queue that say whose job it is, `running[t]` the job a thread runs.  `planned`, `basis` and
`used` are history: what the request could do, what it stood on, what the runs have done.
`Submit`, `CompanionCapture` and `Explain` are the requests, `Run` a claim with `_activate_job`, `Ask` one
`_authorize`, `EndRun` and `Restart` the ends of a run; `Confirm` and `Expire` change a pairing
under them.  Capability sets are those of `builtin_profiles`; the overlay file and custom
host workers are left out.

A request has one of four standings, in the order in which `_job_owner` asks: "paired", with the
profile the client paired with; "companion", `host_owned`; "machine", a user who is confirmed to be
at this machine, on one of its surfaces; "surface", all others.  Only `handle_companion`
(`pipeline.py:984-992`) passes `host_owned`: a capture it is given becomes the host's job with
`personal-full`, on whichever surface the message names (watchOS where it names none) and without a
pairing of the job, as `src/tests/unit/webmedia_dl/test_companion_checkpoint.py:52` asserts.
That the endpoint answers the Mac actor alone, and asks for a confirmed pairing where the message
is sealed or names one, only takes requests away and is not in the model.  `NoInheritedPower`
exempts the first three standings from the profile of the surface, and says of all four that
yt-dlp is run only in a job recorded as the host's, so that a stale field or a
forwarded capture never makes the worker of a watch or a browser run subprocesses.

### LiveRecorder and HlsPlaylist

**State.**  The origin: `edge[s]`, the units of stream `s` it has published.  The
recorder: `pc`, the stream, the text at hand (`seen`, the units published when it was
fetched), `todo` (parts left of this round), `recorded`, `through` and `filled` (the sets and
offsets of `_write_recorded_parts`), `cache`, `out` (the files), `spent` (the budget), `drm`.

A unit is one byte; a segment has `Units` of them.  What the origin serves is
external: `Lines` and `DashParts` say which lines a playlist has at a moment, by
the style of the recording (window, PARTs, ranges, gaps, keys, discontinuities, delta updates,
lag, nesting).  What the recorder reads out of the lines is `ClearHlsParts` of
`HlsPlaylist`, which goes over them line by line as `_clear_hls_parts` does.  `SettingsAssumption` says
what a recording may be made of: at least one stream, in any of the styles, with any bounds.

| Actions | Code |
|---|---|
| `EnterRefused`, `EnterEmpty`, `EnterMaster`, `EnterMedia` | the head of `record_clear_stream` |
| `BeginRound`, `RefusedInRound`, `EndRound`, `Poll`, `CloseEmpty` | its loop over polls |
| `SkipPart`, `NothingNew`, `WritePart`, `OverBudget` | one part in `_write_recorded_parts`, with `ByteBudget.consume` |
| `Close`, `SidecarPlaylist`, `SidecarObject` | `record_kind_streams` and `_record_hls_sidecar`: the next kind, or the end |
| `Stop`, `RequestFails`, `Publish` | `should_stop`, a failed request, the origin going on |

**Abstractions.**  Attribute syntax, locator tokens, byte-order marks and variables are left
out; the text of two polls differs by what the origin has published, and nothing else.

### HlsMaster, DashManifest, DashWindows, DashTemplate

Four readers without concurrency, each a state machine whose steps are the turns of the loop in
the code, so that the order of lines, Periods and S elements is explored, and a property
may speak of what a further line does.
* `HlsMaster`: one line a step (`ReadVariant`, `ReadMedia`, `ReadTagged`); the choice
  (`PreferredHlsStream`, `RenditionUrls`, `VideoUrls`, `AudioUrls`) is looked at after every line.
* `DashManifest`: one Period a step; `CollectRepresentation` resolves BaseURLs and
  addressing over the four levels, `AdaptationGroups` and `SelectKinds` choose.  Its
  properties compare with a definition on the tree of levels.  `WellWritten`, which the manifests
  of the run satisfy, keeps clear of the tags that swallow others (section 4, `live.py:52`).
* `DashWindows`: one turn of a loop of `_period_window_seconds` a step; the reference
  `Walk` is one pass from the first Period to the last.
* `DashTemplate`: `ReadS` takes an S element, `Emit` writes one segment; the reference
  `Expanded` is the timeline without the bound.  `RepeatsFit`, which the templates of the run
  satisfy, keeps clear of a segment count that is wrong (section 4, `live.py:686`).

### Pairing

**State.**  `records[p]` is the copy of the records in process `p`; `names` the directory (the inodes
called `pairing.json` and `pairing.json.tmp`), `data` the content of each inode; `used` the table of
nonces; `req[t]` the request thread `t` is in, with its point, the records it is about to
write and its open file.  `opened` and `answered` are history.

| Actions | Code |
|---|---|
| `Start`, `Load` | `NonceLedger.__init__`, `PairingStore.__init__`, `_load`, `_prune_expired` |
| `Create`, `Confirm`, `Update` | `create`, `confirm` and their routes in `service.py` |
| `Dump`, `Dumped`, `OpenTmp`, `Write`, `Rename` | `_save`: the iteration over the records, the open that empties the file, the write, the rename |
| `OpenEnvelope`, `Look`, `Consume` | `require_confirmed`, the two halves of `NonceLedger.consume` |
| `Crash`, `Tick` | a process dies, time passes |

**Abstractions.**  An envelope is sealed with the key of one pairing or it does not open.  A text
written over a longer one leaves its tail (`Torn`).  A prune is one step, though the code deletes
one pairing after the other.  A request is refused without a step.

### Companion

`Send`, `Answered`, `Failed` and `Restart` are the Apple TV's transports and their queue in
UserDefaults; `Transfer`, `Received` and `Forward` the watch, the system's queue and the iPhone;
`Collect`, `Batch` and `ForwardBatch` the delegate on the Mac.  A call that throws may have
reached the worker.  `handled` counts what the worker was given; the relay server and its
authentication are left out.

### CookieGrants and ArtifactStore

Two stores with the same habit and different care.  `CookieGrants`: `Issue`, `Merge` (read and
merge the file under the lock), `Replace`; `Resolve` hands a file to a provider; `Crash`
releases the lock; `Change` is a user who replaces a cookie file.  `ArtifactStore`:
`Register` (hash, look up), `Copy` and `Copied` (`copy2` empties the target first), `Merge`,
`Lock`, `Save` (which fails when the records change under its iteration), `Crash`.
Digests are given; `mutate_source` and lineage are left out.

## 3. Runs

| Run | Instance | Shows |
|---|---|---|
| `control_queue` | jobs 1 and 2, a dispatcher, a client; submit, pause_queue, resume_queue; one fault; fair | without a fault an active job is attended; an accepted job stays accepted while the queue is held; every job settles, is held or was lost to the fault; the durable state implements `JobLifecycle` |
| `control_stops` | one job, a dispatcher, a request thread and a CLI process; submit, cancel, pause, run_next; one lap | one runner; published files and the state agree; a cleanly answered stop is final; a run finds no context only while the submission is under way |
| `control_resume` | one job, a dispatcher, a client, all eight commands, one fault | types; a clean cancel survives resume; nothing starts while the queue is paused |
| `run_mixed` | a clip and an album, three intents (keep, remux with fallback, convert without the original), one damaged source and one damaged output, three pauses or crashes; fair | recorded work is delivered and nothing else; every kind is settled and the report names what is missing; nothing unvalidated is published; every run ends; `DurableWork` is implemented |
| `live` | five recordings (below); fair | units in order and none twice; nothing protected or marked as a gap is requested or written, and a refusal ends the recording; a round leaves out nothing it listed; the budget holds over streams and polls; the recorder ends |
| `manifests` | the four readers (below) | the best of each kind is recorded by the nearest addressing; the choice changes only for the better; Periods add up; derived windows are those of one walk and final; a template is filled up to the bound |
| `devices` | pairings and relays (below) | an envelope is opened once; a process that starts finds a whole file with every answered confirmation; a running process keeps what it confirmed until it expires; a failed message is neither repeated nor dropped |
| `stores` | grants and artifacts (below) | an issued grant is kept; a registration adds to the record it finds; the index catches up with the memory of a process that has the store to itself |
| `media` | owners, pages and candidates (below) | a job runs as its owner, inherits no power beyond the named standings and runs subprocesses only as the host; kinds and DRM signals reach candidates; what is acquired is media of one strategy, with its sound; failures are quarantined; encryption ends the kind |
| `pause_publish` | one job; submit, pause | **violated:** a paused job is published |
| `resume_twice` | one job; submit, pause, resume | **violated:** two threads run one job |
| `album_resume` | an album of two pictures, one stop | **violated:** a kind counts as acquired without all of its files |

**Clean stops.**  A stop is recorded in `stopped` as clean when, at the moment its row
is written, its flag still stands and no other thread is between the reads
and the write of `set_state`, inside another stop or resume, or past the point of
publishing.  `CleanStopHolds` says that such a stop is final whatever the
run was doing; the run `pause_publish` shows that the condition is needed.

**Bounds of job control.**  `MaxLaps` bounds how often one run goes around a loop; one lap reaches
every back edge, and a second lap meets the same control points with the same
locals.  `MaxFaults` is 1: a second fault acts on a state the first one could have
left.  Two jobs are enough for order and head-of-line blocking, since threads
interact only through one job's row or through the paused switch; two clients
and a dispatcher give every pair of concurrent commands on a running job.
All its safety properties are theorems without these bounds (section 5).

**Bounds of a run.**  Two kinds with one file each are enough to stop between kinds, between
sources and between operations, and the plans of the three intents have all five
operations between them.  `MaxStops` is 3: a stop in acquisition, one in export
and one in publication, or three in the same place.  The safety theorems of section 5
hold for any page and any number of stops; the bounds matter to `RunsEnd` only.

**The five recordings** of `live` have each what can go wrong with one shape of stream:
`Sliding`, whole segments in a window of two with a discontinuity, a gap and a key, in four
polls and under a budget of six bytes; `Ranged`, every segment and PART a range of one growing file;
`Master`, a master whose audio sidecar lags and turns protected and whose subtitles are
one object, with one failed request; `Dynamic`, two kinds of an MPD, the first of which
turns protected; `Low`, PARTs with a file each that are complete segments at the next poll.
A segment has two units, so that every range can be split by a poll.  The numbers that stop the
code (128 parts a round, 8 polls, 8 masters) are small enough here to be hit.
`AdvertisedIsRecorded` speaks of the recordings that are `Unabridged`, of these `Sliding`, `Ranged` and
`Dynamic`: a range that is not served yet is left out, with PART files the code skips (section 4), a delta playlist
does not repeat what it takes to be known, and a text with more parts than a round takes is cut short.

**The manifests.**  Masters of up to 4 lines from 7 variants, 8 renditions and 3 I-frame
streams, so that a duplicate locator, a higher bandwidth and a muxed default meet in every
order.  MPDs with two representations under all combinations of BaseURLs and addressing of
the levels, and two Periods whose sets differ.  1 to 4 Periods with starts
and durations from {none, 1, 3}.  Timelines of up to two S elements with 5 segments at most.

**The devices.**  `devices` has one process with two threads.  "sealed": one pairing, one envelope
that both threads carry, time up to `MaxTime` 5 with TTL 2, `Patience` 1 and `Retention` 3
(the least that `RetentionAssumption` allows, so that a prune of the ledger meets a late request).
"alone": one request at a time, no envelope, crashes everywhere.  "overlap": two threads, two
pairings, no crash and nothing expires.  "relay": two messages each from Apple TV, watch and
Mac, two restarts of the Apple TV's transport, each of which may lose the answer to a request
that reached the worker.  `AnswerIsPersisted` speaks of behaviours in which no request that saves
has begun beside another one or beside another process (`crowded`, a history variable): two
threads share the name of the temporary file, and one may rename what the other has just
emptied (section 4).  `FailedSendIsKept` speaks of the saved queue of an app with one transport.

**The stores.**  "grants": two processes, three grants of one file, two of them for one job.
"artifacts": four registrations of two digests by two processes, up to three at once, two
crashes; a file made from another, and the same bytes as source and as derivative.  `MergeKeeps`
and `IndexFollowsMemory` speak of processes that follow each other (`shared` is FALSE), the first
also of digests that no two calls register at once (`raced`): the code promises no more
(section 4).

**The media.**  "owner": two threads, two jobs, a pairing and two runs; the surfaces are one of this machine
whose own worker is restricted (chrome), a client that may pair (ios) and the watch, so that each
standing gives another owner than the surface would, and captures come from all of them.  "page", with one of two samples: `Nested`, five elements, containers in one another; `Mixed`, three
elements of every sort with evidence, properties, JSON-LD, a manifest body or a yt-dlp manifest,
and locators that are named with a kind, with another and without.
"candidate": every kind, direct or not, protected or not, every set of five formats, and two
runs over one directory.

**Symmetry.**  `devices` permutes the two threads and the three inodes, `media` threads and
jobs; no definition tells them apart, and neither run has a liveness property.

**Deadlock** is not an error in these runs (`CHECK_DEADLOCK FALSE`): clients owe no
command, and a recording, a manifest or an acquisition comes to its end.

**Fairness.**  `control_queue`: weak fairness of `Work(t)` for each thread, since the operating
system schedules threads, SQLite transactions retry, and a provider process is killed
after the 600 s of `_tracked_run`; and of `RunNext(t)` for each
dispatcher, since `_loop` polls for ever and survives exceptions.  Nothing is assumed of
clients, nor of faults.  `run_mixed`: weak fairness of `Step` for the same reasons: a run that
is not stopped goes on, and an idle dispatcher takes an accepted job.  Which of several
enabled steps is taken is left open, so `RunsEnd` holds whether kinds, operations and
copies succeed or fail.  `live`: weak fairness of `Record`, the steps of the one thread
that records; nothing is assumed of the origin, which may stop publishing or never stop.

## 4. What the code does against its documentation

Shown by a run:

1. *A pause can be lost* (`pause_publish`, `queue.py:289`).  A run reads the flags in `set_state`;
   `pause_job` sets flag and row and answers "paused"; the run writes its target over
   the row.  At the next check the flag stops it, unless that write was
   `PUBLISHING`, where `_check_control` and `set_state(COMPLETED)` ignore requests.
   The queue specification says "In-flight `pause_job` SHALL stop before the next stage".
2. *A resumed job can have two runners* (`resume_twice`, `pipeline.py:882`).  The changelog says
   "concurrent workers cannot double-claim the same accepted job".  They do not, but
   `resume_job` makes a job accepted that is still being run.
3. *A resumed gallery can lose pictures* (`album_resume`, `providers.py:404`).  `execute` registers the
   files that are new in the kind's directory.  Pictures that a paused run fetched are there
   already: they are neither new nor in the checkpoint, and the gallery is recorded as
   acquired.  If nothing at all is new, the kind fails.

Met while modelling.  These are read from the code; the passing runs keep
clear of them in the way the properties' comments and section 3 say.

*Jobs.*
* `pipeline.py:223`: the row of a job is visible before `submit` stores its context at line 257; a
  dispatcher that claims it in between runs it without.  The specification says "`run_next` SHALL
  restore HTML, cookie path, and browser evidence from the job context store".
  `ContextOnceAnswered` says that this is the only gap.
* `pipeline.py:911`: after a pause whose row `set_state` overwrote, the killed provider ends the
  run and the job stays in a working state without a runner, where resume refuses it.
  "Per-job pause SHALL set job state to `PAUSED`".
* `pipeline.py:294`: the checkpoint of a page holds the candidate's kind `page`, the file is
  registered as `video`, and no alias covers it: a resume fails the job.
  "`resume_job` SHALL skip kinds already acquired".
* `publish.py:87`: a live recording and its subtitles both end in `.bin`, so the subtitle is
  published under the recording's name.  "Record nested HLS `#EXT-X-MEDIA:TYPE=SUBTITLES`
  playlists (...) as a separate SUBTITLE artifact" (`src/CHANGELOG.md:154`).
* A job completed under a pending resume is accepted and published again; a refused cookie file
  writes FAILED over a job a dispatcher already runs (`pipeline.py:266`).
* A resumed run forgets the export errors of the run before it, and a copy that fails while
  another succeeds is not reported.  `KindsAreSettled` therefore speaks of kinds only.

*Discovery and acquisition.*
* `discovery.py:441-445, 683-687, 722-754`: a locator without a media suffix that the browser or a
  JSON-LD `contentUrl` or `embedUrl` names first, without a kind, becomes a candidate of kind page and
  is seen; an element that names it as video is not read, and a page is not among what is chosen
  by kind.  "Mixed-media pages SHALL keep one preferred candidate per media kind"
  (`src/openspec/changes/build-webmedia-dl-v1/specs/discovery-candidates/spec.md:9`).
* `acquisition.py:56`: where no usable format has both picture and sound, the best is taken of all
  that are usable, one that states neither among them.
* `providers.py:450`: `http-direct` leaves the body of a refused request under the locator's
  suffix.  yt-dlp, tried next, finds or replaces that name, so no file is new, and a kind whose
  media it had fails.
* `discovery.py:650`: when the page itself is a playlist, its DRM signals go to the manifest
  candidate and not to evidence of the same locator.  "DRM signals SHALL be attached, not
  stripped."  The recorder inspects the playlist again and refuses it.
* `src/extensions/shared/capture.js:75`: every JSON-LD type that is neither audio nor image
  becomes video evidence, and the page's own typing is then skipped as seen.

*Live recording.*
* `live.py:1593`: a segment is skipped once one PART of it was written, also when a poll has
  missed the other PARTs.  Playlists "SHALL be polled for newly advertised segments".
* `live.py:1589`: a segment that is a range of another object than its PARTs is written again.
  "the parent is not concatenated twice" (`src/CHANGELOG.md:191`).
* `live.py:410`: `EXT-X-MAP` takes an occurrence number, and a delta playlist has no MAP: its
  segments have another identity.  "delta playlists keep occurrence identity" (`live.py:335`).
* `live.py:449-452`: a segment marked as a gap takes its `EXT-X-BYTERANGE` with it, and `next_offset` stays
  where it was: the next range of the file that states no offset begins with the bytes of the gap.
  "`#EXT-X-GAP` applies to the next URI and is not fetched" (`live.py:335`).  No recording of `live` has
  gaps in one file.
* `live.py:1585`: a round takes the first 128 parts; in a playlist that drops nothing, later ones
  are never reached.
* `live.py:1413`: the identity of a DASH part is the index of its Period in this poll's
  manifest; when a Period is dropped the rest is recorded again.
* `live.py:1471`: a rendition listed twice loses the `DEFAULT` of its second entry.
  "A `DEFAULT=YES` URI still wins over a muxed autoselect" (`src/CHANGELOG.md:149`).
* `live.py:52`: the expression for `Representation` runs on from a self-closing element to the
  end tag of a later one and swallows it.
* `live.py:686`: an S of a template with `$SubNumber$` that has no `k`, or repeats, adds no locator,
  and yet no more than 64 of its repeats are counted: the number and the time
  of what follows are those of the 64th repeat.  `TemplateIsFilled` is false of such a template.
* `live.py:1059`: directory BaseURLs of a ranged object are applied twice.

*Stores.*
* `pairing.py:60`: `_save` writes the records of its own process; one that loaded before another
  process confirmed a pairing undoes the confirmation.  Two threads share
  `pairing.json.tmp`, and one may rename the file the other has just opened.
* `artifacts.py:79`: two threads that register the same bytes merge into the same old record.
  "Same-digest registrations now always merge occurrences and parent ids"
  (`src/CHANGELOG.md:581`).
* `artifacts.py:42`: a second process writes an index without what the first registered since.
* `artifacts.py:75`: a crash in the middle of the copy leaves a partial file under the whole
  one's digest, which no later registration repairs.
* `security.py:192`: a running worker does not see grants another process has issued.
  "Cookie grants persist across worker processes" (`src/CHANGELOG.md:848`).

*Owners.*
* `pipeline.py:172, 984-992`: a capture that a companion forwards is the host's whatever surface it
  comes from: arriving over the companion transport is what gives the job `personal-full`.
  "Companion/Continuity transport SHALL NOT decide capability policy"
  (`src/openspec/changes/build-webmedia-dl-v1/specs/cross-device-workers/spec.md:9`).  The
  specification of the clients allows it: the endpoint "MAY mark the job host-owned so heavy work runs
  on the Mac without granting the watch a subprocess runtime"
  (`.../specs/apple-platform-clients/spec.md:14-16`).  The model follows the code:
  `NoInheritedPower` names the capture as an exception to the first sentence and keeps the second.

*Relays* (`ContinuityBridge.swift`).
* Line 265: a transport reads the saved queue only while its own is empty; two of them
  overwrite each other's.
* Line 268: nothing sends the saved queue again.
* Line 412: the first message of a batch that throws takes those behind it with it.

## 5. Proofs

41 theorems, with the lemmas they rest on, in eight modules.  All hold for every value of the
constants their modules allow; further assumptions are named.

### Job control

| Theorem | Assumes | States |
|---|---|---|
| `TypeCorrect` | - | `Spec => []TypeOK` |
| `PausedQueueStartsNothing` | - | `Spec => NoStartWhilePaused` |
| `PausedQueueHoldsJobs` | no resume | `Spec => AcceptedIsHeld` |
| `ClaimIsExclusive` | no resume | `Spec => []AtMostOneRunner` |
| `PublicationIsCommitted` | no resume, no submit_cookies | `Spec => []PublishedIsCommitted` |
| `ActiveIsAttended` | only submit, run_next, pause_queue, resume_queue | `Spec => []ActiveHasRunner` |
| `ImplementsLifecycle` | the same | `Spec => LifecycleSpec` |
| `CancelIsFinal` | - | `Spec => []CancelHolds` |
| `CleanStopIsFinal` | no resume, no submit_cookies | `Spec => []CleanStopHolds` |
| `AnsweredHasContext` | no submit_cookies, no faults | `Spec => ContextOnceAnswered` |

The assumptions are not conveniences: with `resume`, TLC refutes exclusion
(`resume_twice`), and the job published twice refutes the others; a refused cookie
file refutes the publication; one pause refutes attendance and the lifecycle; a client that
dies in `submit`, or is refused, leaves a job without a context for ever.

The argument is in layers, each an inductive invariant on top of another.
* `TypeInv`: types, and for each thread that its locals fit its control point
  (`LocalOK`): a thread that is not idle has a job, a stop call aims at paused or
  cancelled, a thread half-way through a check or a `set_state` stands at a point
  that makes one and has that point's target, work is done only at work points.
* `ClaimInv`: no thread is in a `resume` call, a job has at most one runner, and the
  row of a job with a runner is neither absent nor accepted.
  Exclusion is not inductive without the last part, which says that a
  claimable job has no runner; it survives because no row write goes back to
  accepted (lemma `RowStep`).
* `PublishInv`: whose files are out.  At `publish` the row is publishing; a run whose
  files are published stands at `setCompleted` and only there; until it has written
  completed the row stays publishing, and what it has read of the row
  still holds when it writes.
* `AttendedInv`, on `ClaimInv`: no stop is asked for, so no check ends a run; without a fault an
  active row has a run; the row of a run is a working one, publishing or completed.
* `LifeInv`, on `AttendedInv`: where a run stands tells its row (`RowFits`): before it has
  passed the write of publishing the row is a working one, at `publish` it is publishing.  Then each
  write of a row is one edge of the abstract lifecycle and every other step stutters.
* `CancelInv`, on `TypeInv`: of a cleanly cancelled job the row is cancelled, the request
  stands, and no thread is in a stop or a resume of it or has read its flags before the request.
* `PauseInv`, on `PublishInv`: a cleanly paused job either stands, its request set and read by
  every run that has read the flags, or nobody runs it any more and it is paused, cancelled or
  failed.
* `ContextInv`, on `TypeInv`: a thread's job has a row, and a job with a row has its
  context or a client that is about to store it.

A step is first summarised by what it does to a thread and its job's row
(`StepMoves`, `Carries`, `Starts`), so that each layer needs one case
per summary and not one per action.

### The run of a job

| Theorem | States |
|---|---|
| `RunTypeCorrect` | `Spec => []TypeOK` |
| `KindsSettled` | `Spec => []KindsAreSettled` |
| `AcquiredOnce` | `Spec => []AcquiredIsNotFetched` |
| `PublishedIsValid` | `Spec => []OnlyValidated` |
| `RecordedIsDelivered` | `Spec => []NothingLost` |
| `RunImplementsPromise` | `Spec => PromiseKept` |

They assume `RunAssumption`: what the constants are, and that kinds are distinct, as
`preferred_by_kind` makes them.  Three layers again.
* `TypeInv`: types, and `PointOK`: a fetch has a kind, an operation a source, a saved
  operation a place in its plan.
* `KindsInv`: the loop leaves no kind before the current one open; the checkpoint is never
  ahead of the run and, past acquisition, says the same.  `RowOK` ties the row to the points
  of a run.
* `WorkInv`: what a stage of the checkpoint says of its artifacts (`StageOK`), what
  the point of a run says of those it holds (`HeldOK`), and what is at the
  destination (`DeliveredOK`).  The hard part is export: between two sources either none has been
  exported, or every recorded output is among the produced ones; without it
  a resumed run might drop outputs of the run before.

The refinement follows from `WorkInv`: steps that save are `Keep` since the checkpoint only
grows, a copy is `Deliver` since the run holds exactly the passing part of the
recorded work, and the rest stutters.

### Pairings and relays

| `Devices_proofs` | States |
|---|---|
| `TypeCorrect` | `Spec => []TypeOK` |
| `EnvelopeOpenedOnce` | `Spec => []OpenedOnce` |
| `ConfirmationStays` | `Spec => ConfirmationHolds` |
| `AnswersArePersisted` | `Spec => []AnswerIsPersisted` |
| `FailedSendsAreKept` | `RelaySpec => []FailedSendIsKept` |

The primary key alone does not make an envelope open once: the ledger is pruned.
The proof needs `RetentionAssumption`, TTL + Patience <= Retention, which is the reason the code's 24
hours are safe while a pairing lives five minutes.  `LifeInv` bounds how long a pairing outlives the
use of its nonces, `RequestInv` says that a request at `look` or `consume` began
before its pairing ran out and deletes only rows of pairings that are gone, and `OnceInv` that an
opened envelope still has its row or belongs to such a pairing.  `ConfirmationStays` needs
`StartsAlone`: a process that is being built is not up and serves no other request, so
that no load replaces records that are in use.

`AnswersArePersisted` says of every point of a save what is where (`PersistInv`): which
inode has which name, that the text to be written is what the memory holds, and that both cover
what was answered.  `RelayInv` counts a message once over all places it can be in: not sent,
under way, in a task, in a batch, in the saved queue; whatever is in one of them has not been
handled.

### Grants and artifacts

| `Stores_proofs` | States |
|---|---|
| `IssuedKept` | `Spec => []IssuedIsKept` |
| `IndexFollows` | `StoreSpec => []IndexFollowsMemory` |
| `MergesKeep` | `StoreSpec => MergeKeeps` |

The invariant of `CookieGrants` says that what an issue has merged is complete as long as it holds
the lock, and that a made grant is in its process's memory.  `StoreInv`, of `ArtifactStore`: with one
process at a time, memory and every record that a save may write are at least what the index
holds; what a call found before it copied is what the memory still says of its digest, unless
another call has raced it; and a call that merged after another took the lock has its own save before it.

### Owners, pages and candidates

| `Media_proofs` | States |
|---|---|
| `OwnerKept` | `Spec => []RunsAsItsOwner` |
| `PowerNotInherited` | `Spec => []NoInheritedPower` |
| `KindsKept` | `PageSpec => []KindsAreKept` |
| `SignalsReach` | `PageSpec => []SignalsCount` |
| `AcquisitionIsSound` | `KindSpec => []AcquiredIsSound` |
| `EncryptionEndsTheKind` | `KindSpec => EncryptionIsTerminal` |

(and `InvHolds`, `PageInvHolds`, the invariants themselves.)

*JobOwner.*  `RecordsSuffice`: from profile, worker id and surface `_activate_job` finds an owner with
the same power as the one that was there; `Authorized` depends on nothing else.  `PlannedOnSurface` and
`HeavyIsOnHost` say of what was planned what `NoInheritedPower` says of what was used, for every set of
surfaces and captures from any of them; `HeavyNeedsHost` is why a request that may run yt-dlp is recorded with
the host's worker.

*Discovery.*  `PageInv` is proved for every set of locators, every page and every order of what is
said of it.  `SaidIsHeard`: what was said of media waits in `urls` or its locator is seen.
`SeenIsFound`: a seen locator has a candidate of a kind it was said to be, or it was first named
without one.  `Nesting`: the parser's flags are the open elements, and of two open containers the
inner is a picture; without it a `source` would not get the kind its author meant.
`ChoiceHolds`: `preferred_by_kind` picks of every kind but page, a gallery for images, and a protected candidate only where no other is.

*Acquisition.*  `KindInv` says by whom every file was written that can still be registered, that no
strategy that is left has failed before, and that past the discovery of encryption nothing
runs.  `HasBest` shows that a finite set of formats has a best one, without which
`preferred_format_id` would be a choice from nothing.

### Live recording

| `LiveRecorder_proofs` | Assumes | States |
|---|---|---|
| `BudgetKept` | - | `Spec => []BudgetHolds` |
| `RefusalStays` | - | `Spec => []RefusalIsFinal` |
| `ProtectedIsLeftAlone` | `MarkedPlaylists` | `Spec => []ProtectionHolds` |
| `RecordedOnceInOrder` | `MarkedPlaylists`, `Orderly` | `Spec => []RecordedInOrder` |
| `AdvertisedAreRecorded` | `MarkedPlaylists`, `Orderly` | `Spec => []AdvertisedIsRecorded` |

(and `LiveInvHolds`, the invariant itself.)  They hold for every number of streams, every style of each
of them and every interleaving of the recorder with the origin.  That the bytes on disk are those the
budget has counted is not inductive alone: `EnterMedia` empties the file of a stream before it records
it.  `Untouched` says that nothing has been written yet of the stream that is being entered, nor of
those after it, since no stream is recorded twice; then each step adds to the disk what it charges (`DiskGrows`).  `SidecarsFollow`
says that a sidecar is only recorded after a main stream that was not refused.  The types need what the
reader makes of a text: `Reading` gives the state it is in after each line, `Unfolds` that a function
that is defined by recursion on a number exists.

*What is protected.*  `MarkedPlaylists`, which TLC evaluates of the five recordings, says that keys and
gaps are those of playlists (a DASH manifest and an object have none), that there are no more masters
than are followed, and that no byte range follows a gap (section 4: such a range begins with the
bytes of the gap, so the theorem would be false).  A text is
read piecewise: `ReadsTo` relates the states before and after some lines, `ReadsBoth` and
`ReadsThrough` take a text apart into the pieces that `Lines` puts together, and `Between` is what
holds of the reader between two segments: which parts it has (`Section`, `Whole`), in which order, that it
holds no PART back, and that the next implicit range begins where the next segment does, unless
a key has closed it.  `TextRead` is the outcome: the parts of a text are `TextParts`, one behind the
other.  None of them names anything behind a key or in a gap (`Fair`, `TextFair`), so no part of any text does
(`PartsClear`).  An object gives the units its locator names, in order, and no others
(`Gives`), also when it is taken from the cache; what is cut from it for a part is therefore what
is behind all that was written, up to the end of the part (`ChunkPlaces`), and clear (`ChunkClear`).
`ClearInv`, on `LiveInv`, says this of the parts to
be written, the cache of the stream at hand and the files of all streams; `BelowMasters` keeps
the text of a master, whose parts are playlists, out of a round.

*Order.*  `Orderly`, which TLC evaluates of the five recordings too, excludes what section 4 reports, where the
theorem would be false: a playlist whose segments are ranges of one file and whose PARTs are files
of their own (`live.py:1589`), an initialization section in a delta playlist or a window that slides past the first
segment (`live.py:410`), and a manifest that drops its first Period (`live.py:1413`).  A part has a place,
from `Begins` to `Stops`.  That files are in order is not inductive: what matters is what a later poll may still
list.  `Covers` relates two texts of a stream: what the later one has that is not behind a part `p` of the earlier one
is in the earlier one too, under the same key, or is the segment of which `p` is a PART (`PlaylistCovers` and `DashCovers`, from
`TextRead` and `DashRead`).  `OrderInv` says of every part of every text that may still be read (`Ahead`) that
its key is recorded, or its PARTs stand for it (`Superseded`), or nothing that is written reaches its place
(`Beyond`; of a segment some of whose PARTs are written, what `written_through` skips).  Writing a part keeps this for the parts
that are not behind it by `Covers`, and for those behind it because what it writes ends where it
does.  `TodoRest` says that what is left of a round is the end of the text at hand, and
`SeenPublished` that this text is no newer than what is published, so that later polls only read what is `Ahead`.

*Rounds.*  `AdvertisedIsRecorded` needs the converse of order: what is done has been written.  `DoneIsHeld` says it of
recorded keys, `ThroughIsHeld` of what `written_through` will skip of any range that may still be listed, and
`AllTaken` that every part of the text is done or left to do, so that at the end of a round all are done, among them every segment that is
listed before the first key (`ListedIsPart`).  A fetched object must hold what the text lists of it
(`FetchedEnough`): an origin without lag serves it, and of a cached one `CacheEnough` says so; the file of ranges
grows while it is cached, which is why the code fetches again beyond its end.
With `written_through` inside a segment, what of the segment is skipped was written as its PARTs, each a unit: they are
all in the text at hand (`MatesBefore`), before the part that is written, hence done.  `NoneFilled`: where PARTs are not
ranges, none stands for its segment.  `Shaped` and `TextShaped` say what the parts of an unabridged recording look like.
TLC evaluates that three of the recordings are unabridged.

### Manifests

| `Manifests_proofs` | Assumes | States |
|---|---|---|
| `ChoiceStays` | - | `MasterSpec => ChoiceIsStable` |
| `BestIsRecorded` | `WellWritten` | `ManifestSpec => []SelectionHolds` |
| `PeriodsAddUp` | `WellWritten` | `ManifestSpec => PeriodsAccumulate` |
| `DerivedStays` | - | `Spec => DerivedIsFinal` |
| `WindowsResolved` | - | `Spec => []WindowsAreResolved` |
| `TemplatesFilled` | `RepeatsFit` | `TemplateSpec => []TemplateIsFilled` |

*Choice.*  `IndexOfMax` is a CHOOSE: that there is a first variant of the highest bandwidth
(`SomeFirstBest`), and only one (`OneFirstBest`), is what makes the choice before a line and after it
comparable.

*Periods.*  `WellWritten`, which TLC evaluates of the manifests of the run, says that in a list no
representation without an end tag of its own stands before one that has one (otherwise `Blocks` loses
representations, section 4), and that those of a Period have different ids, by which the
property finds the one that was chosen.  `GroupsAre` is the heart: the groups that are read of a
Period are, one for one, its candidates, each with parts if it has a locator (`CollectIs`, `NearestIs`: the
level the code inherits from is the nearest that has addressing) and with the locators of that level under
the BaseURLs of all (`PathIs`).  `SelectIs` is the choice among any list of groups, and `ManifestInv`
says that what is picked is that choice of every Period that was read.

*Windows.*  A step writes an entry only where it found None.  `WindowInv`: every derived value satisfies its
equation, and a pass that has come to an index without a change has left nothing to derive before
it; when a whole pass changes nothing, all equations hold.  A walk from the first Period to
the last is the only solution of the equations, since each start depends on what is before it.

*Templates.*  `RepeatsFit`, which TLC evaluates of the templates of the run, is needed: see section 4.
What is to be written is defined by recursion on the elements (`Walked`), and `Walks` shows that this
function exists and that every element adds `Said` to what the elements before it say.
`TemplateInv` relates the reader to this walk while the bound is not reached: between two elements
number and clock are those of the walk (`Settled`); within one, so many of its segments are behind, and
those that are left are all the rest of them, or enough to reach the bound (`Within`).  Once the bound is reached,
only one thing is kept, that what is written is a beginning of what is said (`Prefix`, `WalkGrows`).
That counted segments fill the Period is the arithmetic of the rounded quotient: a segment begins
before the end of the Period exactly if its index is below `Fitted` (`FittedBegin`).

**Induction.**  The library's induction theorems take an operator as a parameter.  Where a proof
needs induction (the best of a finite set, what a fold over a sequence holds), it is over a
subset of the natural numbers: the library's `IsWellFoundedOn` gives a set of numbers
that is not empty a least one (`Least`), and `Induct` follows for sets.  `Among`, the sequence of
the items that are in a set, is a recursive function for this reason; `AmongHolds` is what it does.

### Only model-checked

* Liveness under fairness, which is out of the prover's reach: `JobsSettle`, `RunsEnd`, `Ends`.

Every invariant and every action property of a passing run is stated by a theorem.

## 6. Plan

What is left, in order: `Dispatcher`, whose `stop` waits two seconds for its thread and
forgets it, so that a `start` after it may leave two loops (harmless to `AtMostOneRunner`, which is
proved for any number of dispatchers); `ExportDag`, `ordered_operations` for plans with
dependencies of their own, which no caller makes; and staging.

## 7. Not modelled

* In modelled components: jobs on a local file and the html evidence of a page in `JobRun`; the
  event log; a prune that deletes pairings one at a time, and the KeyError of two at once;
  a second process of `Pairing` in the run (the module takes any number); `mutate_source` and lineage; the policy overlay and custom host workers;
  adaptation sets without representations, `media` templates without tokens,
  presentationTimeOffset, byte ranges that count from the end of a file (`live.py:1617`), and the second application of BaseURLs in Periods without sets; base href, byte caps, JSON-LD syntax, edges and conflicts of the candidate graph,
  and signals beyond the first 2048 characters.
* Cryptography: an envelope opens or does not.
* File validation and probing through ffprobe, argument checking in the service and the CLI, domain
  models, reports, packaging, the Apple client core and the browser extensions: sequential
  text and file processing without state that outlives a call, where a model would restate the code.
