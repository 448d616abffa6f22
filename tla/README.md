# AI-TTS: a verification project

AI-TTS is a local text-to-speech daemon. Clients submit text; the daemon
stores it in SQLite, renders it with a speech engine, and plays it on one
output device, in order, under the control of a listener who may pause,
resume, skip, step between chunks, restart, interrupt by speaking, or have an
urgent text take the device from whatever is playing. Everything has to
survive a crash of the daemon.

This directory holds TLA+ modules translated from the code in
`src/src/aitts` (and the installer in `src/scripts`), the configurations TLC
checks them with, and theorems about them that TLAPS checks.

    tlc -workers 2 -config Pipeline.cfg MCPipeline
    tlc -workers 2 -config StreamPlayback.cfg StreamPlayback
    tlc -workers 2 -config Services.cfg MCServices
    tlapm PipelineProofs.tla

## 1. Inventory

The daemon is one asyncio event loop. Store methods are synchronous, so a
handler is atomic between two `await`s; but it may commit several times, and
every commit is a point after which the process may die. Threads exist at the
edges only: rendering, the sink's playback thread, the PCM feeder, the audio
callback, the microphone probe. They report to the loop with
`call_soon_threadsafe`.

| component | state | operations | interacts by | hard behaviour | correct when |
|---|---|---|---|---|---|
| lifecycle (`model.py`) | the transition table | `can_transition` | used by every writer | - | used as the only way to move a row |
| store (`store.py`) | utterances, their chunks ("segments"), streaming jobs, the durable hold, order keys | submit, claim, start/discard stream, finish, fail, transition, suspend, reset, skip, cancel/clear, reorder, recover | called by all; observers on transition | several commits per operation; recovery that can itself be killed | a settled parent has no open child; the plan is a total order; recovery is idempotent and loses nothing |
| synthesis pool (`synthesis.py`) | which worker renders what (volatile) | take, announce a stream, publish, refuse, fail | claims and publishes through the store | results that arrive after a cancel, a skip or a sibling's failure; SQLite refusing a commit | no unit rendered twice; every accepted text served; a path that is owned names a file |
| daemon start and stop (`daemon.py`) | phase of recovery, tasks | start, stop, warm-up hold | builds everything else | crash in recovery; order of retirement | it comes up in the state recovery was heading for |
| playback controller (`playback.py`) | current clip and chunk, `_sink_active`, watcher, takeover stack, interruption, cue session | plan loop, takeovers, pause/resume/skip/next/previous/restart, interrupt, shutdown | store rows, sink, transport lock | awaits inside handlers while pause, resume, microphone and pool go on | one device session; rows follow the device; nothing suspended is lost; all is said in the end |
| sink and callback output (`playback.py`, `adapters/callback_output.py`) | thread, stop/pause flags, position, prepared stream and its slot | start, pause, resume, stop, prepare, attach | callback thread, file thread | end of a session racing its stop; an output that moves, wavers or fails under it | strictly serialized; every session ends; nothing skipped or repeated |
| PCM streaming (`streaming.py`) | ring, spool, epochs | append, read, seek, finish, fail | render thread, feeder, device | seeks with blocks in flight; ring full or empty | the listener hears the rendered samples, in order, from the seek point |
| input activity and interruption (`application/input_activity.py`, `input_interrupt.py`) | detector window, armed resume | poll, interrupt, resume | controller | debounce; a hold that is not the microphone's | an armed resume releases only the hold it was armed for |
| cache retention, generated storage (`application/cache.py`, `adapters/filesystem_cache.py`, `adapters/generated_storage.py`, `adapters/audio_artifacts.py`) | files, who owns and who pins them | publish, replay, evict, purge, delete, expire, export | store rows, render and export threads | several utterances own one file after a replay; a thread reads while handlers delete | audio that is still owed is there, and is the right one |
| voice assignment (`voice_registry.py`, `application/voice_*.py`, `settings.py`) | voice per source, languages, engine | resolve, claim, pin, release, reconcile | submissions, settings | catalogs and languages change under what was promised | no sharing while a voice is free; a refused request changes nobody's |
| engines and models (`engines/registry.py`, `model_setup.py`, `daemon.py`) | engine objects, locks, states, one setup and one reload | load, warm, reload, set up, cancel | pool, daemon, threads | replacement while in use; cancellation against publication | no render on a closed engine; the pool comes back |
| model workers (`engines/managed.py`, `model_worker.py`) | a process, two pipes, a buffer | ask, read, abandon, restart, close | pipes under a lock | answers nobody waits for any more | an answer is taken for its own request |
| IPC, lease, subscribers (`ipc.py`, `adapters/exclusive_lease.py`, `client.py`) | leases, socket file, subscriptions | start, refuse, stop, subscribe, broadcast, wait | every client | a socket file that outlives its daemon; an event before the subscription | the daemon that serves is reached; whoever waits is answered |
| segmentation (`segmentation.py`) | none | text to chunks | submit | boundaries and tails | nothing dropped, repeated or reordered |
| installer (`scripts/install_application.py`) | tools, application, plists, launchd's services | stage, replace, activate, roll back | launchd | launchd removes after it answers; an interrupt anywhere | a failed activation restores the previous service |
| speech engines, metrics, MCP, TUI, menu bar | derived or none | - | socket API | - | - |

`PROJECT.json` lists them with their status, and the hazards of the code line
by line.

## 2. The modules

| module | what it is |
|---|---|
| `Lifecycle` | states and transition table (`model.py`) |
| `Store` | the database as one record, and every transaction as an operator on it; no variables, so that two components can use it |
| `Pipeline` | accepted text to playable audio: client requests, pool, recovery, a crash after any commit, and the rows playback writes |
| `Playback` | the controller's own state: device, takeovers, transport, hold, microphone, shutdown and rebuilding |
| `PCMTrack` | what a PCM source promises its one reader: the abstract specification |
| `CircularAudioBuffer` | the ring, as operators |
| `SpoolingPCMStream` | one source: producer, ring, spool, feeder thread, seeks, owners |
| `PCMStreamRenderer` | what the device callback does with the frames, as operators |
| `StreamPlayback` | a source from its render thread to the device, with the loop, the registry and the sink's thread |
| `Retention` | audio files and all that removes them |
| `ModelSetup` | engines, their locks, warm-up, reload, setup and cancellation, around a pool that renders |
| `ModelWorker` | one managed engine and its process, line by line |
| `CallbackOutput` | the prepared output that outlives speech sessions |
| `FilePlayback` | the sink's thread when it writes a file block by block |
| `InputInterrupt` | microphone probe, detector, watcher and armed resume |
| `LocalServer` | leases, socket file, start and stop of daemons, a client that waits for a clip |
| `VoiceRegister` | who speaks in which voice |
| `Segmentation` | which words become which segment, by recursive functions |
| `Installation` | the installer's replacements and the rollback of a launch agent |
| `MCPipeline`, `MCPlayback`, `MCServices` | small instances; the last one of all ten modules above |
| `StoreProofs` | what each transaction preserves |
| `PipelineProofs` | the inductive invariant of `Pipeline` and its theorems; restart recovery as one step however often it is interrupted, and documents in step with their chunks |
| `SpoolingPCMStreamProofs` | the ring for every capacity, the invariant of the source and its refinement of `PCMTrack` |
| `StreamPlaybackProofs` | the threads of a session: owners, playhead, endings, and that they use the source as specified |
| `PlaybackProofs` | the controller: every handler, method by method, across the release of the device |
| `PlaybackFailingProofs` | the same handlers when documents and streams fail as they are spoken, and that outcomes are final whatever happens |
| `RetentionProofs` | files that are owed and files that are exported |
| `ServicesProofs` | one inductive invariant each for `ModelSetup`, `ModelWorker`, `FilePlayback`, `InputInterrupt`, `LocalServer`, `VoiceRegister`, `Installation` and `Segmentation` |

`Pipeline` and `Playback` both work on `Store`'s record. `Pipeline` splits each
handler at every commit and abstracts playback to the rows it may write;
`Playback` splits each handler at every `await` and takes each handler's
commits together. Between them they cover both kinds of interruption. A
product of the two is not needed for a property of either: what `Pipeline`
lets playback write includes what `Playback` writes, except that `Pipeline`
leaves out the chunk steps that reopen finished children. The PCM modules are
the inside of what both of those take for one step: `Pipeline`'s streams and
`Playback`'s device session; so are `CallbackOutput` and `FilePlayback`, the two
other ways a session is played, and `ModelWorker`, what a render asks of its
model. `InputInterrupt` is the outside of `Playback`'s microphone: there an
interruption may come at any time, here it comes when the detector says so.
`Retention` and `VoiceRegister` work on columns of the database that `Store`
leaves out. The ten modules share no variable, so that a product of them would
show nothing that each does not; `MCServices` lets one of them run per behavior.

### Store

`state[u]` and `child[<<u, i>>]` are the rows of `utterances` and
`utterance_segments`; `order[u]` the order key; `audio` the units whose
`audio_path` is set; `jobs` the rows of `streaming_jobs`; `held` the setting
`playback_held`. A *unit* is what is rendered in one piece: a chunk, or a whole
clip (`<<u, Whole>>`). Texts, voices, paths, durations, positions and
timestamps are left out. Order keys are integers; of the keys that head
insertion could compute, a bounded window is enough because only their order
is read.

### Pipeline

`db` is durable; `job`, `warm` and `phase` die with the process. A handler is
the sequence of its commits (`Writes`): a step performs all of them, or a
proper prefix followed by the daemon's death (`DiesAmid`). `TakeJob`,
`FirstBuffer`, `StreamReady`, `Publish`, `Fail` and `PublishRefused` are the
pool; `FirstBuffer` is separate from `StreamReady` because the readiness
callback is posted by the render thread and runs later. `Restart`,
`RecoverJobs`, `RecoverChild`, `RecoverParent`, `Reconcile` and `ComeUp` are
`Store.recover` commit by commit. `missing` holds the units whose file the
pool discarded.

### Playback

The controller is one record `s` (see the module's head). Handlers that
release the device take the transport lock and wait twice: for the cancelled
watcher, then for the session they tell to stop (`Handle`, `TellsToStop`,
`Land`). `step` is the handler that has the lock while it waits; later arrivals
for the lock simply come later. Pause, resume, the microphone and the pool do
not take the lock and run in between. `pause` and `interrupt` wait themselves
when the closing cue has the device (`holding`). A start that finds the sink
open, or no audio, raises: `s.raised`, and the supervisor runs the loop again.

Left out: positions and rates; evidence records; failures of commits (in
`Pipeline`). The loop's checkpoints are yield points the code declares, so no
other handler runs inside one pass. The controller's tasks are woken in any
order, where asyncio's ready queue is first-in first-out: the model has more
interleavings than the loop, which costs nothing for the properties that hold.

### The PCM stream

A frame stands for its index in the clip, so that a frame in the wrong place is
told from the right one; gains, ramps and amplitudes are left out. A ring is
its cells, the cell of its first frame and a count, and writes and reads wrap
as `CircularAudioBuffer.write` and `read` do.

`SpoolingPCMStream` cuts the code at its locks. What runs under the condition
is one step (`AppendPublishes`, `Read`, `Seek`, `Finish`, `FeederChecks`,
`FeederCommits`, `Retain`, `Release`); the raw write of `append`, the feeder's
disk read, and the join and file close of `close` run outside it and are steps
of their own (`AppendWrites`, between `FeederChecks` and `FeederCommits`,
`CloseJoins`, `CloseFile`). `writing` holds the writer lock across an append.
A disk read may fail (`FeederFails`). `got` is the reader's last `PCMRead`.

`StreamPlayback` adds the four threads around a source: the render thread
(`Registers`, `Appends`, `RenderEnds`, `RenderFails`, `RefusalEnds`), the event
loop, which publishes or discards the clip (`Collects`), unlists, finishes and
releases it in that order (`LoopFinishes`, `LoopReleases`, `LoopCloses`), may
close the registry (`Shutdown`) and gives the listener's orders; the sink's
thread, one renderer after another (`Opens`, `SessionEnds`, `SinkReleases`);
and the device callback. Source time is in units, several to a frame, and a
playback rate is the number of units per output frame: the code's floating
clock becomes exact arithmetic, where the playhead can be compared with what is
pending. `left` is `silence_left` of the callback.

Left out: a read of a cached file that was closed under it (`ValueError`);
rounding of the floating clock; polling intervals. An unprepared device ends a
session as `done`, a prepared output as an error; the model has both.

### Files, voices and text

`Retention`: a clip's units are its chunks or its one render; `made[u]` is the
artifact a unit was heard from, and `kept` the units whose `audio_path` is set.
After `Replay` the artifact of a row is another row's. `files` is ordered by
last access; a file is of size one, so that `limit` counts files. `_protected_artifacts`,
`protected_audio_paths` and the pins of exports are `ProtectedIds`,
`OwnedPaths` and `PinnedPaths`; `Evicted` is the eviction pass, which every end
of a clip or chunk runs. `Stuck` is a file the system refuses to unlink.

`VoiceRegister`: `Submit` is one request with all of `resolve` in it
(reconciliation with the catalog of today, languages, the decision, the claim);
the listener pins, releases, and changes engine, languages and default voice;
a setup adds an engine and a restart offers another set.

`Segmentation`: a text is the sequence of what stands before each of its words.
The functions are those of the code; `AdmitText` is `_op_submit`'s choice among
them.

### Models, server, sound

`ModelSetup`: an engine object is a number. `Thread(w)` is a worker's render
with the registry's `prepare` inside; `Reloads` and `Setups` are the steps of
the background tasks, each cut at its awaits and thread calls; a cancellation
closes an engine from another thread (`CancelCloses`). `ModelWorker` numbers
requests and lets the worker answer late, die, or be closed without the lock.

`LocalServer` cuts start and stop of daemons at their system calls. The client
subscribes, reads the acknowledgement, asks for the state, then reads events.

`InputInterrupt` has the probe's answer in flight (`seen`), the detector's
window and the hold; `heat` counts readings for the properties only.
`CallbackOutput` has the device thread, the native callback, and two callers of
`prepare`; `Prompt` says that a caller is not five seconds between two adjacent
locks. `FilePlayback` cuts `_play_on_current_device` where it reads a flag, asks
for the default output, writes a block or closes the stream.

### Installation

`service[a]` is what launchd shows for an agent; `Leaving` is a service it has
accepted to remove and still shows, and `Gone` the moment it stops doing so.
`activate_launch_agent` is the stages from `Inspect` to `Bootstrap`; its
exception handler those from `RestorePlist` to `ReloadPrevious`. `Interrupt`
is the user's, before or after the effect of the command it lands in;
`cutShort` remembers, for the properties only, whether it found launchd removing
the previous service.

## 3. What the runs check

| run | instance | shows |
|---|---|---|
| `pipeline` | a streamed document and an urgent one, of the startup engine and rendered to files, two chunks each, 2 workers, 1 crash, refused commits | seven invariants of rows, claims, files and the plan |
| `pipeline_files` | a document rendered to files, an urgent streamed clip, 1 crash, no refused commit, fair | two-transaction publication: `ParentKeepsUp`, `RecoveryIsOneStep`, and `EveryTextIsServed` |
| `pipeline_refused` | a document and a clip, nothing streamed, refused commits | finding: `OwnedAudioExists` fails |
| `playback` | streamed document, preempting alert whose render may fail, device faults, 1 crash or stop, fair | five invariants of rows, device and hold; `EverythingIsSaid` |
| `playback_takeovers` | clip and two preempting alerts, 1 stop | `SuspendedOnce`, through nested takeovers, reorder, restart |
| `playback_failing` | streamed document and clip that may fail, cues on, 1 stop | `RowsFollowDevice` and `OutcomesAreFinal` while parents settle under a sounding chunk and the closing cue has the device |
| `playback_unsilenced`, `playback_reopened`, `playback_stuck` | smallest instances | findings |
| `stream_playback` | one clip of four frames, live or cached, through a ring of two; two sessions; a pause, stop or device change; fair | four invariants, `ReadsTheTrack`, `EverySessionEnds`, `FilesAreReleased` |
| `services` | each of the ten surrounding parts on an instance of its own | eight invariants and six action and liveness properties, one or two of each part |
| `install_interrupted` | one launch agent | finding: `InterruptedActivationIsRestored` fails |

The properties, in words:

* `SettledMeansClosed` - no chunk of a settled utterance is owed, after every
  commit. Broken by a transition that forgets the cascade, a late result, a
  clear cut short.
* `WorkIsClaimedOnce` - no two workers hold the same unit.
* `NothingStranded` - while up, each unit a live utterance owes is queued, in a
  worker's hands, published, or streaming from a live worker.
* `CompletionsAreLegal` - a worker's result is a move the lifecycle permits; a
  `TransitionError` there takes the whole pool down.
* `ParentKeepsUp` - a parent never lags behind its children while up.
* `OwnedAudioExists` - a live owner's path names a file. The code breaks it.
* `LossesAreContained` - what a refused commit can cost: only files of chunks
  that are not streamed; of those the first, whose path is committed before the
  parent it promotes, or the one that completed the document, whose duration
  could not be recorded, and of the latter one per document. A publication in
  another order, a discard on another path, or a second loss breaks it.
* `PlanIsTotal` - no two live rows share a place.
* `RecoveryIsOneStep` - each step of recovery, and a crash in it, leaves the
  database it is heading for unchanged: recovery refines the atomic operator
  `Recovered`, however often it is interrupted.
* `EveryTextIsServed` - queued text is eventually claimed, cancelled or closed.
* `DeviceIsOwned` - no start meets an open session, and the controller always
  knows of the session that is open.
* `RowsFollowDevice` - only the current utterance is Playing; while it has the
  device, its chunk row is in the state it is in, and that chunk is what the
  device was started on.
* `HeldIsSilent`, `UnheldIsHeard` - the hold and the device agree.
* `CurrentHasBegun` - a clip has the device only once it has begun.
* `SuspendedOnce` - every paused clip is current or on the stack, once.
* `OutcomesAreFinal` - what has been played, skipped, cancelled or has failed is
  never moved again, whatever a handler decided before it waited for the device.
  The model's transactions do not consult the lifecycle's table: no handler
  relies on the store to refuse.
* `NoticeMeansHeld` - the microphone's notice and its armed resume belong to a
  hold.
* `RingIsWindow` - the ring holds exactly the frames between reader and feeder,
  and what the feeder carries is what the clip has there.
* `ReadsTheTrack` - the source refines `PCMTrack`: a read returns the clip's own
  next frames and announces its end only when it is published and drained.
* `SourceOutlivesItsUsers` - owners are counted exactly, and the source is open
  while one of them uses it.
* `PlayheadIsTrue` - what is pending is the clip from the playhead on, through
  cues, trimmed silence, underruns, closing fades and changes of rate.
* `NaturalMeansWhole` - a session that ends by itself has played a published
  clip to its end.
* `EverySessionEnds` - no starved renderer or sleeping feeder keeps a session
  that is not paused from ending.
* `FilesAreReleased` - a source nobody lists, makes or plays is closed.
* `EverythingIsSaid` - once orders stop and playback is not held, everything
  ends.
* `OwedAudioIsThere` - every path a live row holds names a file, which is a
  render of that text and that chunk, whoever made it.
* `ExportsKeepTheirFiles` - what an export found when it began stays until it
  ends.
* `ModelsAreAlive` - no job renders with a retired or given-up engine, and none
  is offered; a model said to be ready is loaded.
* `PoolComesBack` - a pool stopped for a reload or a setup is started again on
  every path, failed or cancelled.
* `AnswersMatch` - a caller takes only what answers its own request.
* `OutputSessionsEnd`, `FileSessionsEnd` (together `SessionsEnd`) - a session on
  the prepared output is told of its end, whatever becomes of the stream; one
  that writes a file ends unless it is paused for good, however the identity of
  its output wavers.
* `FilePlaysOn` - over holds, moves, cues and changes of rate nothing is skipped
  or repeated; natural means whole; no stream is closed in mid-speech.
* `InterruptsAreEdges` - one capture interrupts once, at the reading that
  confirms it.
* `ArmedHoldsEnd` - an armed release comes when the microphone is quiet for good,
  even if the feature was switched off since.
* `ServerIsReachable` - the daemon that serves owns the socket file and its state.
* `WaiterIsAnswered` - whoever waits for a clip that has ended returns.
* `VoicesStayApart` - submissions respect pins and catalogs, and a voice is shared
  only when every automatic voice is taken.
* `SegmentsSayTheText` - every word once, in order; no empty or overlong segment,
  none across a Markdown heading, none cut in mid-sentence without need.
* `PreviousServiceIsBack` - a failed installation leaves the agent it was
  replacing as it was; after an interrupt during the removal of its service it
  may be without one, but has no other.
* `InterruptedActivationIsRestored` - the claim of the changelog, without that
  exception. The code breaks it.

The type invariants of the stream, of `Playback` and of the ten parts (`FileTypeOK` and so on)
are stated in their modules and were checked with TLC; no run is spent on them.

**Bounds.** Two chunks give a first, a last and a sibling; one more repeats
them. Two utterances of different priority give every head/tail insertion and
takeover; `playback_takeovers` has three because a stack of two is the first
that can be popped in the wrong order. `pipeline` has a streamed document and
one whose chunks are published in two transactions, so that a refusal can fall
between them. With two chunks a document that loses a file as it is completed
has no third that it could lose: `LossesAreContained` was also checked with a
document of three and a plain clip, both rendered to files, without error
(446 000 states). Two workers race for one unit; with one
crash the recovery is already interrupted at each of its commits, because a
crash during recovery is the crash that counts. `MaxRenders`, `MaxStops`,
`MaxCrashes` are the only counters. `playback` lets only the alert fail: a
document that fails while it sounds is the subject of `playback_failing` and of
two findings, and breaks `HeldIsSilent`, `UnheldIsHeard` and
`SettledMeansClosed` there.

In `stream_playback` (`Capacity = 2`, `Sizes = {2}`, `ClipFrames = 4`,
`Block = 2`, `Fade = 1`, `Rebuffer = 3`, `Unit = 2`, `Rates = {1, 3}`,
`Leading = 1`, `TrimRead = 2`, `Cues = {1}`, `CloseSilence = 2`, `Plays = 2`,
`Touches = 1`) the clip is twice the ring, so that the ring fills, empties and
wraps and the spool has a backlog; the cushion is larger than both the ring and
a block, as `REBUFFER_FRAMES` is larger than a block, so that a renderer must
keep asking; the two rates are half and one and a half frames, so that a block
ends inside a frame; a cue of one frame leaves part of a block to speech; one
leading silent frame makes the trim skip some but not all of a read. One touch
gives a pause at every point, and two sessions give a start on a source whose
ring and feeder are anywhere. Instances with five and six frames and with two
touches (up to 1.6 million states) were also checked without error; they are
too long to repeat each time.

In `services`: two clips, two texts of one and two parts and limits of zero and
one file make eviction choose between a file that is owed and one that is not;
one export, one restart, one refused unlink. Two models, one of them installed
in a runtime of its own, and a third engine object to replace it with. Three
requests, so that a third can meet what two have left. Two sessions, two routes
and two failures of the prepared output. A file clip of eight units in blocks of
two frames at rates of one and three units, so that a block ends inside a frame
and the last one is short; two confirmations, two outputs, two sessions. Two
readings make a capture. Three daemons on two state directories, so that two
contend for a state and a third only for the socket; four starts. Two agents and
the listener on engines of two voices and one, so that the second agent still
finds a voice and then does not. Segment sizes are scaled from the code's 180, 220, 90, 60 and 20 words (target,
maximum, least boundary, document and paragraph minimum) to 3, 4, 2, 3 and 2,
with every text of at most seven words: each size still has texts below, at and
above it. Two launch agents, the second of which begins when the first is replaced; an
interrupt at any stage of an activation.

**Fairness.** `Pipeline!FairSpec`: each worker (a parked one polls every half
second, `synthesis.py`; engines return or fail), recovery (launchd restarts the
daemon) and the end of the warm-up. `Playback!FairSpec`: the plan loop (it is
supervised and wakes by itself at least every few seconds), each waiting
handler, watcher and device (a thread that ends its session on every path), and
the pool. Nothing is assumed of clients, the listener or the microphone:
`EverythingIsSaid` has "the orders stop" and "playback is not held in the end"
as hypotheses. `playback` has cues off; after its crash the daemon holds
whatever was playing, so that only an order releases it.

`StreamPlayback!PlayFairness`: each thread that can run does, the engine's
stream is finite, and the device keeps calling; the callback is driven by the
device until its session is done. Nothing is assumed of pause, resume, stop,
start or shutdown, so a paused session may stay paused.

`MCServices!Fairness`: the threads of the pool, a reload, a setup and the
warm-up go on (each step is a thread that returns or an await that completes);
whoever is inside `prepare` or `close` of the output goes on, and the native
stream runs and is called back; the file thread runs; the watcher polls, and the
closing cue ends; the client reads. Nothing is assumed of listeners, of other
daemons, of models' answers or of launchd.

Deadlock checking is off in `stream_playback`, whose instance is the life of one
clip, and in `services`, where a text is cut once, an installation ends, and
sessions, requests, starts and exports are bounded: they end.

## 4. What is proved

Every theorem holds for all values of the constants that the named assumptions
allow; TLC evaluates the assumptions in the runs. Sets may be infinite where no
assumption says otherwise.

`PipelineProofs`, for any utterances and workers, any chunk
counts, engines, priorities, refused commits and number of crashes
(`StoreAssumption`, `PipelineAssumption`):

| theorem | statement |
|---|---|
| `InductiveInvariant` | `Spec => []IInv` |
| `TypeCorrect` | `Spec => []TypeOK` |
| `SettledIsClosed` | `Spec => []SettledMeansClosed` |
| `ClaimsAreExclusive` | `Spec => []WorkIsClaimedOnce` |
| `NothingIsStranded` | `Spec => []NothingStranded` |
| `ResultsAreLegal` | `Spec => []CompletionsAreLegal` |
| `PlanIsAnOrder` | `Spec => []PlanIsTotal` |
| `OnlyRefusedChunksAreLost` | `Spec => []LossesAreContained` |
| `RecoveryIsAtomic` | `Spec => RecoveryIsOneStep` |
| `DocumentsKeepUp` | `Spec => [](~CommitFaults => ParentKeepsUp)` |

`OwnedAudioExists` is false of the code where SQLite refuses a commit
(`pipeline_refused`). `OnlyRefusedChunksAreLost` has no hypothesis and says how
far that goes: it gives `OwnedAudioExists` where no commit is refused or every
document is streamed, and elsewhere names the chunks it can fail for. A refused
second commit of a pair also leaves a parent behind its chunk, which is why
`ParentKeepsUp` is checked and proved without refusals.

`SpoolingPCMStreamProofs`, for any ring capacity, clip, append, read and seek,
with producer, reader and owners unrestricted (`CapacityIsPositive`); and
`StreamPlaybackProofs`, for any block, rate, fade, cushion, cue and leading
silence (`RendererConstants`, `PlaybackConstants`):

| theorem | statement |
|---|---|
| `StreamTypeCorrect` | `Spec => []TypeOK` |
| `Window` | `Spec => []RingIsWindow` |
| `ImplementsTrack` | `Spec => ReadsTheTrack`, that is, `Track!Spec` |
| `SessionUsesTheStream` | `PlaySpec => Spec /\ []TypeOK /\ []RingIsWindow` |
| `SessionReadsTheTrack` | `PlaySpec => ReadsTheTrack` |
| `OwnersAreCounted` | `PlaySpec => []SourceOutlivesItsUsers` |
| `PlayheadFollowsSound` | `PlaySpec => []PlayheadIsTrue` |
| `NothingEndsEarly` | `PlaySpec => []NaturalMeansWhole` |

`RetentionProofs` and `ServicesProofs`, for any bounds and any numbers of clips,
texts, exports, models, workers, requests, outputs, daemons and agents
(`RetentionAssumption`, `ModelAssumption`, `WorkerAssumption`, `FileAssumption`,
`InputAssumption`, `ServerAssumption`, `VoiceAssumption`, `InstallationAssumption`):

| theorem | statement |
|---|---|
| `OwedAudioStays` | `RetentionSpec => []OwedAudioIsThere` |
| `ExportsAreServed` | `RetentionSpec => []ExportsKeepTheirFiles` |
| `ModelsStayAlive` | `ModelSpec => []ModelsAreAlive` |
| `AnswersAreItsOwn` | `WorkerSpec => []AnswersMatch` |
| `FilesAreHeardWhole` | `FileSpec => []FilePlaysOn` |
| `CapturesInterruptOnce` | `InputSpec => InterruptsAreEdges` |
| `TheServerIsReached` | `ServerSpec => []ServerIsReachable` |
| `VoicesAreKeptApart` | `VoiceSpec => VoicesStayApart` |
| `RollbackIsComplete` | `InstallSpec => []PreviousServiceIsBack` |
| `TextIsSaidWhole` | `SegmentationSpec => []SegmentsSayTheText` |

`PlaybackProofs`, for finitely many utterances of any number, any chunk counts,
priorities, takeovers, renders at a time, device faults, crashes and restarts
(`StoreAssumption`, `PlaybackAssumption`), if `Undisturbed`:

| theorem | statement |
|---|---|
| `DeviceStaysOwned` | `Spec => []DeviceIsOwned` |
| `RowsTellTheDevice` | `Spec => []RowsFollowDevice` |
| `HoldsAreSilent` | `Spec => []HeldIsSilent` |
| `ResumedIsHeard` | `Spec => []UnheldIsHeard` |
| `SettledStaysClosed` | `Spec => []SettledMeansClosed` |
| `PlaybackTypes` | `Spec => []TypeOK` |

and in `PlaybackFailingProofs`, under the same assumptions, if `~Earcons`, that
is, whatever renders fail:

| theorem | statement |
|---|---|
| `NoticesBelongToHolds` | `Spec => []NoticeMeansHeld` |
| `NothingIsForgotten` | `Spec => []SuspendedOnce` |
| `SessionsStayKnown` | `Spec => []SessionIsKnown`, the half of `DeviceIsOwned` about open sessions |

and with no hypothesis on constants but those two assumptions:

| theorem | statement |
|---|---|
| `OutcomesStayFinal` | `Spec => OutcomesAreFinal` |

`Undisturbed` is "no closing cue, and no render of a document or a stream
fails". It and `~Earcons` are hypotheses of the theorems and not of the code, and
the cfg's of the runs satisfy them. They are needed because TLC refutes most of
the properties without them (`Playback.cfg` with the constant changed):

| | `Fallible = {doc}` | `Earcons = TRUE` |
|---|---|---|
| `DeviceIsOwned` | holds here, see section 5 | violated |
| `RowsFollowDevice` | violated | holds |
| `HeldIsSilent` | violated | violated |
| `UnheldIsHeard` | violated | holds |
| `NoticeMeansHeld` | proved | violated |
| `SuspendedOnce` | proved | holds here, see section 5 |
| `SettledMeansClosed` | violated | violated |

For a streamed clip without chunks that fails as it sounds, `HeldIsSilent` and
`UnheldIsHeard` are violated and the rest hold. Section 5 has the reasons. What
"holds" in the table is model-checked only, on the instance of `Playback.cfg`:
`DeviceIsOwned` is violated for longer documents (a start without audio; that no
open session is lost is proved), and `SuspendedOnce` for more clips, so that neither theorem can do without its hypothesis.

**The argument for the pipeline.** `SettledMeansClosed` is about rows and `NothingStranded` about
rows and workers; neither is inductive. `StoreProofs` has the part about rows:
`DbInv` says the rows are typed, closed, that live rows have places of their own,
and that whatever is Ready, Playing or Paused has audio or a stream behind it;
`Advances(d, e)` says a transaction keeps `DbInv`, claims nothing, queues no
parent again, and strands nothing. One lemma per transaction
shows `Advances`. Because a handler is a sequence of such databases, a step that
is cut short needs no new argument: any prefix advances. `IInv` adds what ties
rows to workers: a dead daemon has no workers (`PoolIsDown`), what a worker
holds is claimed (`HeldIsClaimed`), its parent has left the queue
(`OwnersAreAwake`) and its row left Synthesizing once its stream is announced
(`StreamsAreMade`), and every Synthesizing row and every stream
has its worker while up (`MakingHasWorkers`, `StreamsHaveWorkers`) - which a
crash would falsify at once, and recovery restores, pass by pass
(`RecoveryProgress`). `PipelineProofs` has one lemma per action, and the
theorems follow from `IInv`. That results are legal needs the second and third
of these: a result that comes after a cancel finds no active row, and one that
finds an active row finds it in a state the table allows to move.

**The argument for recovery.** What a database recovers to is determined, row by
row, by where each row comes to rest, which children failed, the audio that
survives and the hold (`RecoveredAlike`). Each pass changes rows only towards
their rest, so that the database recovered to stays the same, and when all
passes are done nothing is left to change (`HomewardStep`).
`DocumentsKeepUp` needs an invariant that a crash cannot break (`OrderKept`: in a
live document without a failed chunk, the first chunk is ahead of the parent and
what is spoken is spoken in order) beside the one that only holds while up
(`StepKept`); recovery leads from the first to the second.

**The argument for the controller.** A handler composes methods and runs from
one `await` to the next, so the proof has a lemma per method. `Ctl` holds
wherever a handler has stopped: the rows satisfy `DbInv` (the
transactions are those of `StoreProofs`); only the current clip is Playing;
what is Paused is current or on the stack, once (`Nested`); an open session is
the current chunk's, in its document's state (`Fits`); a chunk that is
remembered without a session is that of a clip adopted under a hold (`Saved`).
`Quiet(t, c)` holds while a handler has the device to itself and `c` is about to
be current: suspending, restoring and beginning lead from it to `Ctl`. `Waiters`
is what makes the gap safe: the handler that waits for the device is the only
one that has told it to stop, nobody watches the session meanwhile, and the
chunk the handler was called for is still the current one, whatever pause,
resume, the microphone, cancellations and the pool did in between. `Freed` is
what is left of that when the device is closed. The stack is handled by
positions: a suspended clip is taken out of it at the one place it has, and a
rebuilt one is in the order of the keys (`FromTheEnd`).

**The argument for a controller whose clips fail.** When a chunk fails, its
document is settled although its session may go on, so none of `DbInv`, `Fits`
and `Single` holds any more, and what begins next may inherit an index that is
not its own (`Misplaced`). What is left is `Kept`: the stack holds every paused
clip that is not current, once, and whatever else is on it is settled
(`Stacked`); notice and armed resume have their hold. `Moves(d, e, c)` says which
transactions keep it: a clip leaves `Paused` only for a settled state, and only
`c` becomes `Paused`. A failure is of that kind, and so is everything a handler
does to a clip it has not yet taken from the stack. `Tied` says that without a
current clip no session is open, and that a Paused row with an open one has an
index of its own, so that resuming it does not raise halfway. `Awaits` is what is left of
`Waiters`: nobody watches the session a handler has told to stop, and the
current clip and its index are those the handler was called for - so what it
suspends when it goes on is what was current, and neither a failure nor a
cancellation in between has put that on the stack. That no open session is lost
needs two facts more: a method either has a session open when it ends or leaves
the device as it was (`Leaves`), and a session that a waiting handler has told
to stop neither sounds nor can be resumed until that handler goes on (`Known`).

**The argument for outcomes.** Every method looks at a row after its last await
and before it writes it, so that each transaction, under the guard its callers
give it, leaves what has ended alone (`Respects`), and so does each composition
of them (`Final`). Of the state this needs only that the record has its fields,
the stack is a sequence and a waiting handler is one of the six (`Serves`);
hence the closing cue and every failure are covered.

**The argument for the stream.** The ring's cells are reached modulo the
capacity. The cells of a ring are
distinct (`CellFacts`), hence a write after `position + frames` extends the
run of consecutive frames the ring holds (`WriteAppends`), and a read takes
a prefix of it and leaves the rest (`ReadTakes`). `RingIsWindow` is then
inductive with `TypeOK`: its last conjunct, about the frames the feeder has in
its hands, is what survives a seek during the disk read, because appended
frames never change. A commit is accepted only at the offset it was captured
for, and that is where the ring ends. The offset check alone is enough for this
argument, and so would the epoch check be: the code has both, and each makes
the other redundant. `ImplementsTrack` maps each step to a step of `PCMTrack`
or to a stutter; feeder, owners and raw writes stutter.

**The argument for a session.** The invariant `PlayInv` joins the source's with
three of the threads'. Owners: who may still retain or release is known from
where producer, loop and sink are (`Registration`), and the count is then
exact. Playhead: what a renderer has pending begins with the frame its playhead is in,
and the source's reader stands behind the last of it; each operator of the
renderer keeps that, at any rate and phase (`LoadedFacts`, `SpokenFacts`,
`HeardFacts`, `FadedOutFacts`). Endings: the end of a read is announced only by a clip that was
sealed, and the session is natural only when that clip was also published without error and
unlisted. Each step is then a step of `SpoolingPCMStream!Spec` or leaves it
alone, so that its theorems carry over (`SessionUsesTheStream`), the refinement
of `PCMTrack` included.

**The argument for files.** A row's path names a minted artifact of the same text
and part (`PathsAreHeard`), which is what makes protection by path and
protection by identity protect the same files; an export's files are among the
identities it pinned (`FoundIsPinned`). Removals take away only what is not
protected. A replay takes the files it reuses out of the order of access and
puts them back at its end: nothing is lost because the chunks it can reuse are
the first ones of one clip (`FirstUnits`). `Only`, the subsequence a removal
leaves, is defined by ranks; that ranks are a bijection is proved by counting
(`RanksAreABijection`), where a fold would need induction.

**The arguments for the parts.** *Models*: no offered engine is closed because
whoever closes one has first taken it off the offer or is still the only one who
has it (`CandidateIsItsOwn`, `NothingOfferedIsClosed`), and no render outlives
that because reload and setup wait for the pool (`LoadsItsOwn`, `LocksAreHeld`). *A file*:
what has sounded is what was written; the tail of a stream is cut short
only at places where the writer was silent (`QuietWhereLeft`). *The microphone*: while
the detector says "no", it has counted exactly the hot readings since the last
cold one, and too few (`DetectorInv`). *Voices*: an agent is given a voice it did
not have only on asking for one that is free, or as the first free one of its
pool; `FirstOf` is there because a set of places has a least one
(`SmallestPlace`). *A worker's* lines are safe because of when a
caller may leave: the line that ends a request is the last of its lines
(`EndIsLast`), so whoever takes it leaves the pipes empty, and whoever leaves
earlier stops the worker (`EmptyPipes`). *The socket file* is safe because
whoever binds or removes it holds the path's lease, and whoever is refused has
bound nothing (`HasPath`, `BoundIsServing`). *The rollback* is complete because of
what is registered at each stage (`AgentFollowsStage`): until bootout the
previous service, after its removal nothing but, maybe, the replacement; and in
a rollback begun by an interrupt during the removal, a service that leaves
(`CutOff`), which the rollback takes for the previous one. *Segments*: spans that lie side by
side and cover a span tile it (`Tiling`); each function that cuts a span makes a
tiling of it, tilings of the parts of a tiling make one of the whole
(`TilingsFlatten`), and one that begins with the first word and ends with the
last says every word once and in order (`TilingSays`). What a recursion over the words
computes - that it is defined, and what it returns - is shown by the least word
at which it would go wrong (`CutHasRests`, `GatherFirst`), since the prover has no
rule of induction to apply.

**Only model-checked:** of `Playback`, what the table above says holds without
being proved, `RowsFollowDevice` in `playback_failing` (cue on,
documents that fail, no takeovers) among it;
and liveness (`EveryTextIsServed`, `EverythingIsSaid`, `EverySessionEnds`,
`FilesAreReleased`, `PoolComesBack`, `SessionsEnd`, `ArmedHoldsEnd`,
`WaiterIsAnswered`), which with `ENABLED` is out of the prover's reach. No module
declares a `RECURSIVE` operator.

## 5. Where the code and its documents disagree

Five runs expect a violation:

1. `pipeline_refused` - a chunk rendered to a file is committed before its
   parent; when SQLite refuses the second commit, `_finish` discards the file
   the child owns.
2. `playback_unsilenced` - `_hold` silences the sink only if the current row is
   Playing. When a later chunk has failed, the row is Failed and the chunk still
   sounds.
3. `playback_reopened` - chunk steps do not look at the parent's state and reopen
   the chunks of a failed document.
4. `playback_stuck` - a preempting document recovered with its first chunk
   queued takes the device before it can speak, is not begun, and blocks the
   queue until it is cancelled.
5. `install_interrupted` - an interrupt after bootout was accepted and before the
   previous service is gone: the rollback still finds it listed, takes it for
   loaded, and neither waits nor bootstraps it (`install_application.py:194-203`);
   then it disappears. `CHANGELOG.md:328` and a test
   (`tests/test_launch_agent_activation.py:4`), whose launchctl removes at once,
   say that the previous registration is restored.

The model shows more under other constants, which no run is spent on:

* `UnheldIsHeard` with a document whose chunk fails while paused
  (`Playback.cfg` with `Fallible = {doc}`): the hold is released, the sink stays
  muted, `_sink_active` stays true, and the queue behind waits.
* `TypeOK` and `RowsFollowDevice` with `Fallible = {doc}` and a preempting alert: `next_segment` raises
  when its chunk failed during the release, the index stays, and `_begin` of a
  whole clip does not reset it (`playback.py:1461`, `1104`).
  A pause of that clip then silences the sink and raises before a row is
  written (`playback.py:1333-1341`): it is Playing under a hold, and its watcher
  raises too and leaves it so (`_finish_segment_playback`).
* `DeviceIsOwned` with a document of three chunks (`Fallible = {doc}`,
  `MaxRenders = 3`): the chunks skipped while their streams still run are
  reopened by `previous_segment` from those streams, a failure behind them has
  settled the parent, so that the second one's stream is discarded when it ends
  (`synthesis.py`, `_finish`), and `next_segment` begins it without audio.
* `DeviceIsOwned` and `NoticeMeansHeld` with `Earcons = TRUE`: the waits for the
  closing cue in `pause` and `interrupt` are outside the transport lock, so a
  continuation may free a session another handler began, or record an
  interruption after a resume (`playback.py:1290`, `1362`). The first needs an
  unusual order of wake-ups. `HeldIsSilent` fails at once, for the cue itself
  while it is being ended, and also for speech, after a continuation has freed
  another handler's session; `SettledMeansClosed` after one has let a second
  session begin and fail inside `previous_segment`'s wait.
* `SuspendedOnce` with `Earcons = TRUE`, one clip and three alerts that preempt
  one another, for the same reason: a continuation of `pause` that is still to
  come when two alerts have taken over leaves the session of the second open to
  be resumed under the third, which waits for it; if that session then ends and
  a resume adopts the first alert, a pause leaves it Paused, and the third
  vacates the place it has (`playback.py:1058-1066`). With three clips it holds.
* After a reorder during a takeover's release, a restarted controller brings
  suspended clips back in another order than the running one would
  (`playback.py:855`): it rebuilds the stack from order keys.
* `AnswerIsTheClips` (`LocalServer`) with `Chunks = 1`: `wait_for_terminal`
  compares only the utterance id of an event, and takes a chunk's
  `segment_state_changed` (`daemon.py:350-358`), which carries the parent's id
  and the chunk's state, for the end of the clip (`client.py:177`).
* `EverythingIsSaid` with `Earcons = TRUE` and preempting alerts fails for the
  reason given for `DeviceIsOwned`.

Read in the code while modelling, and not stated as properties:

* `interrupt` waiting for the closing cue may overwrite the explicit pause that
  came meanwhile with one that resumes by itself (`playback.py:1311-1370`).
* `audio_device.py:37-43` says the device list is refreshed only while no stream
  is open; `prepare_output` refreshes it after the warm-up may have opened the
  prepared stream (`daemon.py:658-661`, `callback_output.py:144`).
* A language choice that only an engine without voice metadata accepts leaves no
  voice at all once the fallback engine takes over; `voice_assignment.py:51`
  calls refusing to speak the worse outcome.

## 6. The plan

Done, in this order: `Lifecycle`, `Store`, `Pipeline` with its proofs,
`Playback`, the PCM stream with its proofs; then the parts around them:
`Retention` (replay, export and the cache pass), `InputInterrupt`,
`CallbackOutput`, `FilePlayback`, `ModelSetup`, `ModelWorker`, `LocalServer`,
`VoiceRegister`, `Segmentation`, `Installation`; then the proofs of recovery, of
sessions on a stream, of retention, of the playback controller, with clips that
fail as well, and of eight of the other parts.

Theorems to come: of `Playback`, `DeviceIsOwned` when only documents rendered to
files fail, and the properties that hold with the cue, which need an invariant
about handlers that wait outside the transport lock; and the writes of
`Playback` as the writes `Pipeline` allows.

Models to come: `Retention` composed with `Pipeline`, whose claims it summarises
now, and the menu bar client's media ducking.

## 7. Not modelled

* Inference (third party) and floating-point audio: fades, resampling, cue
  padding. That frames are played in order and from the right place is covered
  by the PCM modules and `FilePlayback`; that their amplitudes are right is not.
* Argument parsing and screens (`cli.py`, `tui`), and of `client.py` everything
  but its wait for an answer.
* The MCP adapter (a stateless translation), metrics and evidence (reports).
* The encoding of requests, their size limits and the reaping of slow
  subscribers in the server.
* Building, signing and auditing the bundle, and what the installation of a
  runtime does inside; of the installer, the activation and its rollback are
  modelled.
* The Swift menu bar client, whose state is the daemon's.
