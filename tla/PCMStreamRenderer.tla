------------------------- MODULE PCMStreamRenderer -------------------------
(***************************************************************************)
(* What the device callback does with the frames it reads                  *)
(* (streaming.py:356-587), as operators from a renderer to the next one.   *)
(* Gains, ramps and amplitudes are left out: a block is known by how many  *)
(* source frames it consumes. Source time is counted in Units of a frame,  *)
(* and a rate is the number of units that one output frame consumes, so    *)
(* the float clock of the code is an exact integer here.                   *)
(***************************************************************************)
EXTENDS Integers, Sequences

CONSTANTS Unit,       \* units in a source frame
          Fade,       \* SOFT_FADE_FRAMES
          Rebuffer,   \* REBUFFER_FRAMES
          TrimRead,   \* frames a read takes at least while it skips silence
          Leading     \* frames of digital silence the clip begins with

ASSUME RendererConstants ==
    /\ {Unit, Fade, TrimRead} \subseteq Nat \ {0}
    /\ {Rebuffer, Leading} \subseteq Nat

Most(a, b) == IF a >= b THEN a ELSE b
Least(a, b) == IF a <= b THEN a ELSE b

\* math.ceil(units / by), for any sign of units.
Ceiling(units, by) == -((-units) \div by)

(***************************************************************************)
(* A renderer opened at a source frame, with the frames of a cue to play   *)
(* first. It trims leading silence only when it starts at the beginning.   *)
(***************************************************************************)
Renderer(from, cue) ==
    [position |-> from * Unit,  \* the playhead, in units
     pending  |-> << >>,        \* frames read and not yet played
     phase    |-> 0,            \* units of pending[1] already played
     prefix   |-> cue,
     trim     |-> from = 0,
     started  |-> from > 0,     \* speech has sounded
     starved  |-> FALSE,        \* silent until the cushion is rebuilt
     silent   |-> TRUE,         \* the last block ran out
     ended    |-> FALSE,
     error    |-> FALSE]

\* Frames to read so that `frames` more can be interpolated.
Ahead(r, frames, rate) ==
    Most(0, Ceiling(frames * rate + r.phase, Unit) + 1 - Len(r.pending))

\* Mutant: a starved renderer asks for its block only.
NeededForBlock(r, frames, rate) ==
    IF r.trim THEN Most(Ahead(r, frames, rate), TrimRead) ELSE Ahead(r, frames, rate)

\* Frames a block asks the source for; a starved renderer also asks for
\* enough to know whether its cushion is there.
Needed(r, frames, rate) ==
    LET block   == Ahead(r, frames, rate)
        cushion == IF r.starved THEN Most(block, Ahead(r, Rebuffer, rate))
                                ELSE block
    IN IF r.trim THEN Most(cushion, TrimRead) ELSE cushion

\* How many of the frames just read come before the first that sounds.
Hushed(pcm) == Least(Len(pcm),
                     IF pcm = << >> THEN 0 ELSE Most(0, Leading - pcm[1]))

\* Mutant: trimmed silence does not move the playhead.
LoadedInPlace(r, got) ==
    IF got.error THEN [r EXCEPT !.error = TRUE]
    ELSE IF got.pcm = << >> THEN r
    ELSE LET skip == IF r.trim THEN Hushed(got.pcm) ELSE 0
         IN [r EXCEPT
               !.pending = @ \o SubSeq(got.pcm, skip + 1, Len(got.pcm)),
               !.trim = @ /\ skip = Len(got.pcm) /\ ~got.ended]

(***************************************************************************)
(* _read_into_pending: leading silence moves the playhead without being    *)
(* played, until the first frame that sounds has been seen.                *)
(***************************************************************************)
Loaded(r, got) ==
    IF got.error THEN [r EXCEPT !.error = TRUE]
    ELSE IF got.pcm = << >> THEN r
    ELSE LET skip == IF r.trim THEN Hushed(got.pcm) ELSE 0
         IN [r EXCEPT
               !.position = @ + skip * Unit,
               !.pending = @ \o SubSeq(got.pcm, skip + 1, Len(got.pcm)),
               !.trim = @ /\ skip = Len(got.pcm) /\ ~got.ended]

\* Units that can be played: the last frame is kept back to interpolate
\* towards, until the source has ended.
Usable(r, got) ==
    Len(r.pending) * Unit - r.phase - (IF got.ended THEN 0 ELSE Unit)

\* _consume: the playhead moves by what was heard and no more.
Heard(r, played, rate) ==
    LET advanced == Least(played * rate, Len(r.pending) * Unit - r.phase)
        phase    == r.phase + advanced
    IN [r EXCEPT !.position = @ + advanced,
                 !.pending = SubSeq(@, phase \div Unit + 1, Len(@)),
                 !.phase = phase % Unit]

(***************************************************************************)
(* _render_speech: play what is there; when it runs out before the source  *)
(* is complete, fade it without consuming it and stay silent until a       *)
(* cushion has been rebuilt or nothing more is coming.                     *)
(***************************************************************************)
Spoken(before, got, frames, rate) ==
    LET r        == Loaded(before, got)
        usable   == Usable(r, got)
        noMore   == got.ended \/ got.complete
        count    == Least(frames, Most(0, Ceiling(usable, rate)))
        starving == count < frames /\ ~noMore /\ r.started
        played   == IF starving THEN Most(0, count - Least(frames, Fade))
                                ELSE count
        after    == IF played > 0 THEN Heard(r, played, rate) ELSE r
    IN IF r.error THEN r
       ELSE IF r.starved /\ ~noMore /\ usable < Rebuffer * rate THEN r
       ELSE [after EXCEPT !.starved = starving,
                          !.started = @ \/ count > 0,
                          !.silent = count < frames,
                          !.ended = got.ended /\ after.pending = << >>]

\* render: the cue first, then speech in what is left of the block.
CueFrames(r, frames) == Least(frames, r.prefix)

CuePlayed(r, frames) == [r EXCEPT !.prefix = @ - CueFrames(r, frames)]

(***************************************************************************)
(* close_block: a block that fades to silence. It may read ahead to have   *)
(* something to fade, and it never moves the playhead.                     *)
(***************************************************************************)
ReadsToClose(r) == r.prefix = 0 /\ ~r.silent /\ ~r.trim

NeededToClose(r, frames, rate) == Ahead(r, Least(frames, Fade), rate)

FadedOut(r, got) ==
    IF got.error THEN r ELSE [r EXCEPT !.pending = @ \o got.pcm]
=============================================================================
