--------------------------- MODULE StreamPlayback ---------------------------
(***************************************************************************)
(* One streamed clip from its render thread to the device: the producer     *)
(* (synthesis.py:150-166), the event loop that registers, publishes and     *)
(* controls (synthesis.py:122-148, streaming.py:314-353), the sink's        *)
(* playback thread (playback.py:380-390, 474-534) and the device callback   *)
(* (playback.py:536-567), over the source of SpoolingPCMStream and the      *)
(* renderer of PCMStreamRenderer. The loop's own steps exclude each other;  *)
(* every other thread runs between any two of them.                         *)
(***************************************************************************)
EXTENDS SpoolingPCMStream, PCMStreamRenderer

CONSTANTS
    Sizes,          \* frames the engine may hand over at once
    Offsets,        \* frames a session may be started at
    Block,          \* frames the device asks for
    Rates,          \* playback rates, in units per output frame
    CloseSilence,   \* frames of silence that follow a closing fade
    Cues,           \* frames of earcon that may precede a session
    ClipFrames,     \* bound: frames the engine renders
    Plays,          \* bound: sessions started on the live clip
    Touches         \* bound: pauses, stops and device changes

ASSUME PlaybackConstants ==
    /\ Sizes \subseteq Nat \ {0} /\ Offsets \subseteq Nat
    /\ Cues \subseteq Nat /\ Rates \subseteq Nat \ {0}
    /\ Block \in Nat \ {0} /\ {CloseSilence, ClipFrames} \subseteq Nat

VARIABLES
    producer,   \* "made", "render", "rendered", "failed", "closing", "gone"
    registry,   \* the clip in StreamingRegistry: "absent", "listed", "removed"
    shut,       \* StreamingRegistry._closed
    loop,       \* the event loop's progress through registry.finish
    sink,       \* the playback thread and the flags it shares
    r,          \* its current renderer
    left,       \* silence_left: -1 until a close is latched
    budget      \* what is left of the bounds

sound == <<sink, r, left>>
control == <<producer, registry, shut, loop>>
vars == <<stream, sound, control, budget>>

SinkOff == [at |-> "off", from |-> 0, cue |-> 0, pause |-> FALSE, stop |-> FALSE,
            reopen |-> FALSE, done |-> FALSE, natural |-> FALSE, error |-> FALSE]

Started(from, cue) == [SinkOff EXCEPT !.at = "top", !.from = from, !.cue = cue]

\* A live clip that the render thread has just opened, or a cached one that
\* the playback thread has.
PlayInit ==
    /\ r = Renderer(0, 0) /\ left = -1 /\ shut = FALSE
    /\ loop = [at |-> "idle", failed |-> FALSE]
    /\ budget = [plays |-> Plays, touches |-> Touches]
    /\ registry = "absent"
    /\ \/ /\ Made(0, FALSE)
          /\ producer = "made"
          /\ sink = SinkOff
       \/ /\ Made(ClipFrames, TRUE)
          /\ producer = "gone"
          /\ \E from \in Offsets, cue \in Cues : sink = Started(from, cue)

-----------------------------------------------------------------------------
(* The render thread. *)

\* StreamingRegistry.add; a closed registry closes the source and refuses it.
Registers ==
    /\ producer = "made"
    /\ IF shut THEN Close /\ producer' = "closing" /\ UNCHANGED registry
               ELSE producer' = "render" /\ registry' = "listed" /\ UNCHANGED stream
    /\ UNCHANGED <<shut, loop, sound, budget>>

Appends ==
    /\ producer = "render"
    /\ \E n \in Sizes : spooled + n <= ClipFrames /\ AppendWrites(n)
    /\ UNCHANGED <<control, sound, budget>>

Publishes == AppendPublishes /\ UNCHANGED <<control, sound, budget>>

\* The engine is done; a clip of no frames is an error.
RenderEnds ==
    /\ producer = "render" /\ available > 0
    /\ Seal
    /\ producer' = "rendered"
    /\ UNCHANGED <<registry, shut, loop, sound, budget>>

\* The engine raises, is done with nothing, or finds the source closed.
RenderFails ==
    /\ producer = "render" /\ writing = 0
    /\ producer' = "failed"
    /\ UNCHANGED <<stream, registry, shut, loop, sound, budget>>

RefusalEnds ==
    /\ producer = "closing" /\ closing = "done"
    /\ producer' = "failed"
    /\ UNCHANGED <<stream, registry, shut, loop, sound, budget>>

-----------------------------------------------------------------------------
(* The event loop: _finish_stream and StreamingRegistry.close.              *)

\* finish() of the registry: the clip is unlisted first.
Unlists(failed) ==
    IF registry = "listed"
    THEN registry' = "removed" /\ loop' = [at |-> "finish", failed |-> failed]
    ELSE UNCHANGED <<registry, loop>>

Collects ==
    /\ loop.at = "idle" /\ ~shut
    /\ producer \in {"rendered", "failed"}
    /\ producer' = "gone"
    /\ \E failed \in {producer = "failed", TRUE} : Unlists(failed)
    /\ UNCHANGED <<stream, shut, sound, budget>>

Shutdown ==
    /\ loop.at = "idle" /\ ~shut
    /\ shut' = TRUE
    /\ Unlists(TRUE)
    /\ UNCHANGED <<stream, producer, sound, budget>>

LoopFinishes ==
    /\ loop.at = "finish"
    /\ Finish(loop.failed)
    /\ loop' = [loop EXCEPT !.at = "release"]
    /\ UNCHANGED <<producer, registry, shut, sound, budget>>

\* A thread that releases the last owner goes on to close the source.
Leaving == IF owners = 1 /\ ~closed THEN "closing" ELSE "idle"

LoopReleases ==
    /\ loop.at = "release"
    /\ Release
    /\ loop' = [loop EXCEPT !.at = Leaving]
    /\ UNCHANGED <<producer, registry, shut, sound, budget>>

LoopCloses ==
    /\ loop.at = "closing" /\ closing = "done"
    /\ loop' = [loop EXCEPT !.at = "idle"]
    /\ UNCHANGED <<stream, producer, registry, shut, sound, budget>>

-----------------------------------------------------------------------------
(* The event loop: start_stream, pause, resume and stop of the sink.        *)

StartsStream(from, cue) ==
    /\ loop.at = "idle" /\ registry = "listed"
    /\ sink.at \in {"off", "ended"}
    /\ budget.plays > 0
    /\ budget' = [budget EXCEPT !.plays = @ - 1]
    /\ Retain
    /\ sink' = Started(from, cue)
    /\ UNCHANGED <<r, left, control>>

Touch(flag, value) ==
    /\ loop.at = "idle" /\ sink.at \notin {"off", "ended"}
    /\ sink[flag] # value
    /\ sink' = [sink EXCEPT ![flag] = value]
    /\ UNCHANGED <<stream, r, left, control>>

Pauses ==
    /\ budget.touches > 0
    /\ budget' = [budget EXCEPT !.touches = @ - 1]
    /\ Touch("pause", TRUE)

Resumes == Touch("pause", FALSE) /\ UNCHANGED budget

Stops ==
    /\ budget.touches > 0
    /\ budget' = [budget EXCEPT !.touches = @ - 1]
    /\ Touch("stop", TRUE)

-----------------------------------------------------------------------------
(* The playback thread. *)

\* A renderer is opened at the playhead of the last one; the device may refuse.
Opens ==
    /\ sink.at = "top" /\ ~sink.stop /\ ~sink.pause
    /\ Seek(sink.from)
    /\ r' = Renderer(sink.from, sink.cue)
    /\ left' = -1
    /\ sink' \in {[sink EXCEPT !.at = "open", !.cue = 0, !.reopen = FALSE,
                               !.done = FALSE],
                  [sink EXCEPT !.at = "leave", !.cue = 0, !.error = TRUE]}
    /\ UNCHANGED <<control, budget>>

TopStops ==
    /\ sink.at = "top" /\ sink.stop
    /\ sink' = [sink EXCEPT !.at = "leave"]
    /\ UNCHANGED <<stream, r, left, control, budget>>

\* The default output moves, or the device ends the session by itself, which a
\* prepared output reports as an error.
DeviceChanges ==
    /\ sink.at = "open" /\ ~sink.done
    /\ budget.touches > 0
    /\ budget' = [budget EXCEPT !.touches = @ - 1]
    /\ sink' \in {[sink EXCEPT !.reopen = TRUE], [sink EXCEPT !.done = TRUE],
                  [sink EXCEPT !.at = "leave", !.error = TRUE]}
    /\ UNCHANGED <<stream, r, left, control>>

\* The session is over and its renderer dropped: keep the whole frame the
\* playhead is in, and report an error, a natural end, or go for another pass.
SessionEnds ==
    /\ sink.at = "open" /\ sink.done
    /\ sink' = [sink EXCEPT
                  !.from = r.position \div Unit,
                  !.error = @ \/ r.error,
                  !.natural = r.ended /\ ~r.error,
                  !.at = IF r.error \/ r.ended THEN "leave" ELSE "top"]
    /\ r' = Renderer(0, 0) /\ left' = -1
    /\ UNCHANGED <<stream, control, budget>>

SinkReleases ==
    /\ sink.at = "leave"
    /\ Release
    /\ sink' = [sink EXCEPT !.at = IF Leaving = "idle" THEN "ended" ELSE Leaving]
    /\ UNCHANGED <<r, left, control, budget>>

SinkCloses ==
    /\ sink.at = "closing" /\ closing = "done"
    /\ sink' = [sink EXCEPT !.at = "ended"]
    /\ UNCHANGED <<stream, r, left, control, budget>>

-----------------------------------------------------------------------------
(* The device callback. *)

MustClose == sink.stop \/ sink.pause \/ sink.reopen

Silence ==
    /\ left >= 0
    /\ left' = left - Block
    /\ sink' = [sink EXCEPT !.done = left - Block <= 0]
    /\ UNCHANGED <<stream, r>>

\* A cue that is cut off is dropped; speech is faded from what can be read now.
FadesOut(rate) ==
    /\ left < 0 /\ MustClose
    /\ left' = Lesser(CloseSilence - (Block - Lesser(Block, Fade)), CloseSilence)
    /\ sink' = [sink EXCEPT !.done = left' <= 0]
    /\ IF ReadsToClose(r)
       THEN Read(NeededToClose(r, Block, rate)) /\ r' = FadedOut(r, got')
       ELSE r' = [r EXCEPT !.prefix = 0] /\ UNCHANGED stream

Renders(rate) ==
    LET cued   == CuePlayed(r, Block)
        frames == Block - CueFrames(r, Block)
    IN /\ left < 0 /\ ~MustClose
       /\ IF frames = 0 THEN r' = cued /\ UNCHANGED stream
          ELSE /\ Read(Needed(cued, frames, rate))
               /\ r' = Spoken(cued, got', frames, rate)
       /\ sink' = [sink EXCEPT !.done = r'.ended \/ r'.error]
       /\ UNCHANGED left

Callback ==
    /\ sink.at = "open" /\ ~sink.done
    /\ Silence \/ \E rate \in Rates : FadesOut(rate) \/ Renders(rate)
    /\ UNCHANGED <<control, budget>>

-----------------------------------------------------------------------------
Feeding == Feeds /\ UNCHANGED <<control, sound, budget>>
Closing == Closes /\ UNCHANGED <<control, sound, budget>>

Producing == Registers \/ Appends \/ RenderEnds \/ RenderFails \/ RefusalEnds
Looping == Collects \/ LoopFinishes \/ LoopReleases \/ LoopCloses
Controlling ==
    \/ \E from \in Offsets, cue \in Cues : StartsStream(from, cue)
    \/ Pauses \/ Resumes \/ Stops \/ Shutdown
Sinking == Opens \/ TopStops \/ SessionEnds \/ SinkReleases \/ SinkCloses

PlayNext ==
    \/ Producing \/ Publishes \/ Looping \/ Controlling
    \/ Sinking \/ Callback \/ DeviceChanges
    \/ Feeding \/ Closing

(***************************************************************************)
(* Threads that can run do; an engine's stream comes to an end (its frames  *)
(* are bounded); the device keeps calling. Nobody has to press a key.       *)
(***************************************************************************)
PlayFairness ==
    /\ WF_vars(Producing) /\ WF_vars(Publishes)
    /\ WF_vars(Looping)
    /\ WF_vars(Sinking) /\ WF_vars(Callback)
    /\ WF_vars(Feeding) /\ WF_vars(Closing)

PlaySpec == PlayInit /\ [][PlayNext]_vars /\ PlayFairness

-----------------------------------------------------------------------------
InUse == sink.at \in {"top", "open", "leave"}

\* The owner a source is born with, until the registry gives it up.
Listed ==
    \/ registry = "listed" \/ loop.at \in {"finish", "release"}
    \/ registry = "absent" /\ producer # "gone"

(***************************************************************************)
(* The source is closed under nobody: its owners are the registry's entry   *)
(* and the playing session, and it is open while there is one of them       *)
(* (streaming.py:242-268, synthesis.py:141-144, playback.py:384, 533).      *)
(***************************************************************************)
SourceOutlivesItsUsers ==
    /\ InUse => ~closed
    /\ owners = (IF InUse THEN 1 ELSE 0) + (IF Listed THEN 1 ELSE 0)

(***************************************************************************)
(* The playhead is where the sound is: what is pending is the clip from     *)
(* the frame the playhead is in, through cues, trimmed silence, underruns   *)
(* that fade without consuming, pauses, device moves and changes of rate    *)
(* (streaming.py:445-470, 496-523, 525-577, playback.py:517).               *)
(***************************************************************************)
PlayheadIsTrue ==
    sink.at = "open" =>
       /\ r.pending = Slice(r.position \div Unit, Len(r.pending))
       /\ r.phase = r.position % Unit
       /\ ~got.error => position = r.position \div Unit + Len(r.pending)

(***************************************************************************)
(* A session that ends by itself has played its whole clip, and the clip    *)
(* was published: playback never finishes ahead of cache publication and    *)
(* never takes an underrun for the end (streaming.py:115-118, 199-215).     *)
(***************************************************************************)
NaturalMeansWhole ==
    sink.natural =>
       /\ finished /\ sealed /\ writing = 0
       /\ sink.from >= available
       /\ registry # "listed"

(***************************************************************************)
(* Every session comes to an end unless it is held by a pause: no starved   *)
(* renderer waits for a cushion it will not ask for, no feeder sleeps over  *)
(* frames it should fetch (streaming.py:273-290, 423-427, 449-453).         *)
(***************************************************************************)
EverySessionEnds == sink.at = "top" ~> (sink.at = "ended" \/ sink.pause)

(***************************************************************************)
(* A source nobody lists, makes or plays any more gets its feeder stopped   *)
(* and its file closed (streaming.py:250-268).                              *)
(***************************************************************************)
Unused == ~InUse /\ producer # "made" /\ registry # "listed"

FilesAreReleased ==
    <>[]Unused => <>(closing = "done" /\ feeder.at = "gone")
=============================================================================
