------------------------- MODULE StreamPlaybackProofs -------------------------
(***************************************************************************)
(* For every clip, engine chunk, device block, playback rate, cue, fade and *)
(* cushion, and every order of the five threads of a session: its source    *)
(* outlives it, its playhead is where the sound is, and it ends by itself   *)
(* only when the whole clip was published and played.                       *)
(*                                                                          *)
(* The three need each other and the window of SpoolingPCMStreamProofs      *)
(* (PlayInv). Counting owners needs to know who may still give one up       *)
(* (Registration); the playhead needs that a read returns what follows the  *)
(* frames in hand (ReadAnswers) and that each operator of the renderer      *)
(* keeps them headed by the playhead (LoadedFacts, HeardFacts, SpokenFacts, *)
(* FadedOutFacts); a natural end needs that a clip which is finished        *)
(* without an error was sealed and unlisted first (Endings).                *)
(***************************************************************************)
EXTENDS StreamPlayback, SpoolingPCMStreamProofs

Renderers ==
    [position : Nat, pending : Seq(Nat), phase : 0 .. Unit - 1, prefix : Nat,
     trim : BOOLEAN, started : BOOLEAN, starved : BOOLEAN, silent : BOOLEAN,
     ended : BOOLEAN, error : BOOLEAN]

PCMReads ==
    [from : Nat, pcm : Seq(Nat), ended : BOOLEAN, complete : BOOLEAN,
     error : BOOLEAN]

Sinks ==
    [at : {"off", "top", "open", "leave", "closing", "ended"},
     from : Nat, cue : Nat, pause : BOOLEAN, stop : BOOLEAN, reopen : BOOLEAN,
     done : BOOLEAN, natural : BOOLEAN, error : BOOLEAN]

Loops == [at : {"idle", "finish", "release", "closing"}, failed : BOOLEAN]

PlayTypeOK ==
    /\ producer \in {"made", "render", "rendered", "failed", "closing", "gone"}
    /\ registry \in {"absent", "listed", "removed"}
    /\ shut \in BOOLEAN
    /\ loop \in Loops
    /\ sink \in Sinks
    /\ r \in Renderers
    /\ left \in Int
    /\ got \in PCMReads

\* Who still counts on the source, and in which order they come and go.
Registration ==
    /\ loop.at # "idle" => registry = "removed"
    /\ registry = "absent" /\ ~shut => producer \in {"made", "gone"}
    /\ producer = "made" =>
          /\ registry = "absent" /\ sink.at = "off" /\ ~sink.natural
          /\ finished => error

\* What the ends of a clip mean: sealed, published and played out.
Endings ==
    /\ sealed => writing = 0
    /\ producer = "rendered" => sealed
    /\ loop.at = "finish" /\ ~loop.failed => sealed
    /\ finished /\ ~error => sealed /\ registry # "listed"
    /\ sink.at = "open" /\ (r.ended \/ r.error) => sink.done
    /\ sink.at = "open" /\ r.ended /\ ~r.error =>
          /\ finished /\ sealed /\ registry # "listed"
          /\ r.position \div Unit >= available

\* What the last read leaves true of the renderer.
Reading ==
    /\ got.error => error
    /\ r.trim => r.pending = << >>

PlayInv ==
    /\ Inv /\ PlayTypeOK
    /\ Registration /\ SourceOutlivesItsUsers
    /\ Reading /\ PlayheadIsTrue
    /\ Endings /\ NaturalMeansWhole

LEMMA RendererBounds ==
    /\ Unit \in Nat /\ Unit > 0 /\ Fade \in Nat /\ Fade > 0
    /\ TrimRead \in Nat /\ Rebuffer \in Nat /\ Leading \in Nat
  BY RendererConstants

LEMMA DivMod ==
    ASSUME NEW a \in Int, NEW b \in Nat, b > 0
    PROVE  /\ a \div b \in Int /\ a % b \in Nat /\ a % b < b
           /\ a = b * (a \div b) + (a % b)
           /\ a >= 0 => a \div b \in Nat
  BY SMTT(30)

LEMMA DivUnique ==
    ASSUME NEW q \in Int, NEW s \in Nat, NEW b \in Nat, s < b
    PROVE  /\ (b * q + s) \div b = q
           /\ (b * q + s) % b = s
  <1> DEFINE a == b * q + s
             d == a \div b
  <1>1. b * q \in Int /\ a \in Int
    OBVIOUS
  <1>2. d \in Int /\ a % b \in Nat /\ a % b < b /\ a = b * d + (a % b)
    BY <1>1, DivMod
  <1> HIDE DEF d
  <1>3. d = q
    <2>1. b * (d - q) = s - (a % b)
      BY <1>2
    <2>2. b * (d - q) < b /\ b * (d - q) > -b
      BY <1>2, <2>1
    <2>3. CASE d - q >= 1
      <3>1. b * (d - q) >= b
        BY <2>3, <1>2
      <3> QED BY <3>1, <2>2, <1>2
    <2>4. CASE d - q <= -1
      <3>1. b * (d - q) <= -b
        BY <2>4, <1>2
      <3> QED BY <3>1, <2>2, <1>2
    <2> QED BY <2>3, <2>4, <1>2
  <1> QED
    BY <1>2, <1>3 DEF d

LEMMA CeilingFacts ==
    ASSUME NEW units \in Int, NEW by \in Nat, by > 0
    PROVE  /\ Ceiling(units, by) \in Int
           /\ Ceiling(units, by) > 0 => units > 0
  <1>1. /\ -units \in Int /\ (-units) \div by \in Int
        /\ -units >= 0 => (-units) \div by >= 0
    BY DivMod
  <1> QED
    BY <1>1 DEF Ceiling

LEMMA SliceJoins ==
    ASSUME NEW a \in Nat, NEW m \in Nat, NEW n \in Nat
    PROVE  Slice(a, m) \o Slice(a + m, n) = Slice(a, m + n)
  BY SliceFacts DEF Slice

LEMMA SliceTail ==
    ASSUME NEW a \in Nat, NEW n \in Nat, NEW k \in 0 .. n
    PROVE  SubSeq(Slice(a, n), k + 1, n) = Slice(a + k, n - k)
  BY SliceFacts DEF Slice

-----------------------------------------------------------------------------
\* The frames a renderer has in hand are the clip's own, from its playhead on.
Headed(x) ==
    /\ x.pending = Slice(x.position \div Unit, Len(x.pending))
    /\ x.phase = x.position % Unit
    /\ x.trim => x.pending = << >>

\* The frame after the last one in hand.
Reach(x) == (x.position \div Unit) + Len(x.pending)

LEMMA RendererFields ==
    ASSUME NEW x \in Renderers
    PROVE  /\ x.position \in Nat /\ x.pending \in Seq(Nat) /\ Len(x.pending) \in Nat
           /\ x.phase \in Nat /\ x.phase < Unit /\ x.prefix \in Nat
           /\ x.position \div Unit \in Nat /\ Reach(x) \in Nat
  <1>1. /\ x.position \in Nat /\ x.pending \in Seq(Nat) /\ Len(x.pending) \in Nat
        /\ x.phase \in Nat /\ x.phase < Unit /\ x.prefix \in Nat
    BY RendererBounds DEF Renderers
  <1>2. x.position \in Int /\ x.position >= 0 /\ Unit \in Nat /\ Unit > 0
    BY <1>1, RendererBounds
  <1>3. x.position \div Unit \in Nat
    BY <1>2, DivMod
  <1> QED
    BY <1>1, <1>3 DEF Reach

LEMMA Opened ==
    ASSUME NEW from \in Nat, NEW cue \in Nat
    PROVE  /\ Renderer(from, cue) \in Renderers
           /\ Headed(Renderer(from, cue))
           /\ Reach(Renderer(from, cue)) = from
           /\ ~Renderer(from, cue).ended
  <1> DEFINE x == Renderer(from, cue)
  <1>1. /\ x.position = from * Unit /\ x.pending = << >> /\ x.phase = 0
        /\ x.prefix = cue /\ x.trim \in BOOLEAN /\ x.ended = FALSE
    BY DEF Renderer
  <1>2. from * Unit \in Nat /\ 0 \in 0 .. Unit - 1
    BY RendererBounds
  <1>3. x \in Renderers
    BY <1>2 DEF Renderer, Renderers
  <1>4. (from * Unit) \div Unit = from /\ (from * Unit) % Unit = 0
    <2>1. Unit * from + 0 = from * Unit
      BY RendererBounds
    <2> QED
      BY <2>1, RendererBounds, DivUnique
  <1>5. Slice(from, 0) = << >>
    BY SliceFacts DEF Slice
  <1> QED
    BY <1>1, <1>3, <1>4, <1>5 DEF Headed, Reach

\* Moving the playhead by whole frames moves the frame it is in, and no more.
LEMMA PlayheadMoves ==
    ASSUME NEW x \in Nat, NEW k \in Nat
    PROVE  /\ x + k * Unit \in Nat
           /\ (x + k * Unit) \div Unit = (x \div Unit) + k
           /\ (x + k * Unit) % Unit = x % Unit
  <1> DEFINE q == x \div Unit
             m == x % Unit
  <1>1. /\ q \in Int /\ m \in Nat /\ m < Unit /\ x = Unit * q + m
    BY RendererBounds, DivMod
  <1> HIDE DEF q, m
  <1>2. x + k * Unit = Unit * (q + k) + m /\ q + k \in Int
    BY <1>1, RendererBounds
  <1>3. x + k * Unit \in Nat
    BY RendererBounds
  <1>4. /\ (Unit * (q + k) + m) \div Unit = q + k
        /\ (Unit * (q + k) + m) % Unit = m
    BY <1>1, <1>2, RendererBounds, DivUnique
  <1> QED
    BY <1>2, <1>3, <1>4 DEF q, m

(***************************************************************************)
(* _read_into_pending: what was read continues what was in hand, and only   *)
(* silence before the first sound moves the playhead.                       *)
(***************************************************************************)
LEMMA LoadedFacts ==
    ASSUME NEW x \in Renderers, NEW g \in PCMReads, Headed(x),
           g.pcm = Slice(Reach(x), Len(g.pcm))
    PROVE  LET y == Loaded(x, g)
           IN /\ y \in Renderers /\ Headed(y)
              /\ y.error <=> x.error \/ g.error
              /\ ~g.error => Reach(y) = Reach(x) + Len(g.pcm)
              /\ y.ended = x.ended
  <1> DEFINE y == Loaded(x, g)
             skip == IF x.trim THEN Hushed(g.pcm) ELSE 0
             n == Len(g.pcm)
             rest == SubSeq(g.pcm, skip + 1, n)
  <1>1. g.pcm \in Seq(Nat) /\ n \in Nat
    BY DEF PCMReads
  <1>2. CASE g.error
    BY <1>2 DEF Loaded, Renderers, Headed, PCMReads
  <1>3. CASE ~g.error /\ g.pcm = << >>
    BY <1>3, RendererFields DEF Loaded, Renderers, PCMReads, Reach
  <1>4. CASE ~g.error /\ g.pcm # << >>
    <2>1. y = [x EXCEPT !.position = @ + skip * Unit,
                        !.pending = @ \o rest,
                        !.trim = @ /\ skip = n /\ ~g.ended]
      BY <1>4 DEF Loaded
    <2>2. skip \in 0 .. n
      <3>1. g.pcm[1] \in Nat
        BY <1>1, <1>4
      <3> QED
        BY <1>1, <3>1, RendererBounds DEF Hushed, Least, Most
    <2>3. rest = Slice(Reach(x) + skip, n - skip) /\ Len(rest) = n - skip
          /\ rest \in Seq(Nat)
      <3>1. Reach(x) \in Nat /\ Reach(x) + skip \in Nat /\ n - skip \in Nat
        BY <1>1, <2>2, RendererFields
      <3>a. g.pcm = Slice(Reach(x), n)
        OBVIOUS
      <3> HIDE DEF skip, n
      <3>2. rest = Slice(Reach(x) + skip, n - skip)
        BY <1>1, <2>2, <3>1, <3>a, SliceTail, SMTT(60)
      <3> QED
        BY <3>1, <3>2, SliceFacts, ZenonT(60)
    <2>4. skip > 0 => x.trim /\ x.pending = << >>
      BY DEF Headed
    <2>5. y.trim => x.trim /\ skip = n
      BY <2>1, RendererFields DEF Renderers
    <2> HIDE DEF skip, rest
    <2>6. /\ y.position = x.position + skip * Unit
          /\ y.pending = x.pending \o rest
          /\ y.phase = x.phase /\ y.error = x.error /\ y.ended = x.ended
      BY <2>1 DEF Renderers
    <2>7. /\ y.position \in Nat
          /\ y.position \div Unit = (x.position \div Unit) + skip
          /\ y.position % Unit = x.position % Unit
      <3>1. skip \in Nat /\ x.position \in Nat
        BY <1>1, <2>2, RendererFields
      <3> QED
        BY <2>6, <3>1, PlayheadMoves
    <2>8. y.pending \in Seq(Nat) /\ Len(y.pending) = Len(x.pending) + (n - skip)
      <3>1. x.pending \in Seq(Nat) /\ rest \in Seq(Nat)
        BY <2>3, RendererFields
      <3>2. Len(x.pending \o rest) = Len(x.pending) + Len(rest)
            /\ x.pending \o rest \in Seq(Nat)
        BY <3>1
      <3> QED
        BY <2>3, <2>6, <3>2
    <2>9. y \in Renderers
      <3>1. (x.trim /\ skip = n /\ ~g.ended) \in BOOLEAN
        OBVIOUS
      <3> QED
        BY <2>1, <2>7, <2>8, <2>6, <3>1 DEF Renderers
    <2>10. y.pending = Slice(y.position \div Unit, Len(y.pending))
      <3>1. CASE skip = 0
        <4>1. /\ x.pending = Slice(x.position \div Unit, Len(x.pending))
              /\ rest = Slice((x.position \div Unit) + Len(x.pending), n)
          BY <3>1, <2>3, <1>1, RendererFields DEF Headed, Reach
        <4>2. x.position \div Unit \in Nat /\ Len(x.pending) \in Nat
          BY RendererFields
        <4>3. x.pending \o rest = Slice(x.position \div Unit, Len(x.pending) + n)
          BY <4>1, <4>2, <1>1, SliceJoins, ZenonT(90)
        <4>4. /\ Len(y.pending) = Len(x.pending) + n
              /\ y.position \div Unit = x.position \div Unit
          BY <3>1, <4>2, <2>7, <2>8, <1>1
        <4> QED
          BY <4>3, <4>4, <2>6
      <3>2. CASE skip > 0
        <4>1. x.pending = << >> /\ y.pending = rest
              /\ Reach(x) = x.position \div Unit
          <5>1. x.pending = << >> /\ x.position \div Unit \in Nat
            BY <3>2, <2>4, RendererFields
          <5> QED
            BY <5>1, <2>3, <2>6 DEF Reach
        <4> QED
          BY <4>1, <2>3, <2>7
      <3> QED
        BY <2>2, <3>1, <3>2
    <2>11. Headed(y)
      <3>1. y.trim => y.pending = << >>
        <4>1. ASSUME y.trim PROVE y.pending = << >>
          <5>1. x.pending = << >> /\ skip = n
            BY <4>1, <2>5 DEF Headed
          <5>2. Len(y.pending) = 0
            BY <5>1, <2>8, <1>1
          <5> QED
            BY <5>2, <2>8
        <4> QED BY <4>1
      <3> QED
        BY <3>1, <2>6, <2>7, <2>10 DEF Headed
    <2>12. Reach(y) = Reach(x) + n
      <3>1. x.position \div Unit \in Nat /\ Len(x.pending) \in Nat /\ skip \in Nat
        BY <2>2, <1>1, RendererFields
      <3>2. /\ Reach(y) = (y.position \div Unit) + Len(y.pending)
            /\ Reach(x) = (x.position \div Unit) + Len(x.pending)
        BY DEF Reach
      <3> HIDE DEF y, n
      <3> QED
        BY <3>1, <3>2, <2>7, <2>8, <1>1
    <2> QED
      BY <1>4, <2>6, <2>9, <2>11, <2>12
  <1> QED
    BY <1>2, <1>3, <1>4 DEF PCMReads

(***************************************************************************)
(* _consume: whatever the rate, the playhead moves by what was heard, and   *)
(* exactly the frames it has passed are dropped.                            *)
(***************************************************************************)
LEMMA HeardFacts ==
    ASSUME NEW x \in Renderers, Headed(x), NEW played \in Nat, NEW rate \in Nat,
           Len(x.pending) * Unit >= x.phase
    PROVE  LET y == Heard(x, played, rate)
           IN /\ y \in Renderers /\ Headed(y)
              /\ Reach(y) = Reach(x)
              /\ y.error = x.error
  <1> DEFINE y == Heard(x, played, rate)
             n == Len(x.pending)
             moved == Least(played * rate, n * Unit - x.phase)
             phase == x.phase + moved
             gone == phase \div Unit
             q == x.position \div Unit
             rest == SubSeq(x.pending, gone + 1, n)
  <1>1. /\ x.position \in Nat /\ x.phase \in Nat /\ n \in Nat /\ q \in Nat
        /\ n * Unit \in Nat /\ played * rate \in Nat
        /\ x.pending \in Seq(Nat)
    BY RendererFields, RendererBounds
  <1>2. moved \in Nat /\ moved <= n * Unit - x.phase
    BY <1>1 DEF Least
  <1>3. y = [x EXCEPT !.position = @ + moved, !.pending = SubSeq(@, gone + 1, Len(@)),
                      !.phase = phase % Unit]
    BY DEF Heard
  <1>4. y.position = x.position + moved /\ y.pending = rest /\ y.phase = phase % Unit
        /\ y.error = x.error /\ y.trim = x.trim
    BY <1>3 DEF Renderers
  <1>5. phase \in Nat /\ phase <= n * Unit
    BY <1>1, <1>2
  <1>6. /\ gone \in Nat /\ phase % Unit \in Nat /\ phase % Unit < Unit
        /\ phase = Unit * gone + (phase % Unit)
    <2> HIDE DEF phase
    <2> QED
      BY <1>5, RendererBounds, DivMod
  <1>7. gone <= n
    <2> HIDE DEF gone, n, phase
    <2>1. Unit * gone <= Unit * n
      <3>1. Unit * gone \in Nat /\ n * Unit = Unit * n
        BY <1>1, <1>6, RendererBounds
      <3>2. Unit * gone <= n * Unit
        BY <3>1, <1>1, <1>5, <1>6
      <3> QED
        BY <3>1, <3>2
    <2>2. CASE gone >= n + 1
      <3>1. Unit * gone >= Unit * (n + 1)
        BY <2>2, <1>1, <1>6, RendererBounds
      <3>2. Unit * (n + 1) = Unit * n + Unit /\ Unit * n \in Nat
        BY <1>1, RendererBounds
      <3> QED
        BY <2>1, <3>1, <3>2, <1>6, RendererBounds
    <2> QED
      BY <2>2, <1>1, <1>6
  <1>8. /\ (x.position + moved) \div Unit = q + gone
        /\ (x.position + moved) % Unit = phase % Unit
        /\ x.position + moved \in Nat
    <2> DEFINE m == phase % Unit
    <2>1. x.position = Unit * q + x.phase
      <3>1. x.position \in Int /\ Unit \in Nat /\ Unit > 0
        BY <1>1, RendererBounds
      <3>2. x.position = Unit * (x.position \div Unit) + (x.position % Unit)
        BY <3>1, DivMod
      <3> QED
        BY <3>2 DEF Headed
    <2>2. phase = Unit * gone + m /\ m \in Nat /\ m < Unit
      BY <1>6
    <2> HIDE DEF m, gone, q, moved
    <2>3. x.position + moved = Unit * (q + gone) + m
      <3>1. x.position + moved = Unit * q + phase
        BY <1>1, <1>2, <2>1, RendererBounds
      <3>2. Unit * (q + gone) = Unit * q + Unit * gone
            /\ Unit * q \in Nat /\ Unit * gone \in Nat
        BY <1>1, <1>6, RendererBounds
      <3> HIDE DEF phase
      <3> QED
        BY <3>1, <3>2, <2>2, <1>5
    <2>4. q + gone \in Int
      BY <1>1, <1>6
    <2>5. /\ (Unit * (q + gone) + m) \div Unit = q + gone
          /\ (Unit * (q + gone) + m) % Unit = m
      BY <2>2, <2>4, RendererBounds, DivUnique
    <2> QED
      BY <2>3, <2>5, <1>1, <1>2 DEF m
  <1> HIDE DEF gone, moved, phase, q, n
  <1>9. rest = Slice(q + gone, n - gone) /\ Len(rest) = n - gone /\ rest \in Seq(Nat)
    <2>1. x.pending = Slice(q, n)
      BY DEF Headed, q, n
    <2>2. gone \in 0 .. n /\ q + gone \in Nat /\ n - gone \in Nat
      BY <1>1, <1>6, <1>7
    <2>3. rest = Slice(q + gone, n - gone)
      BY <2>1, <2>2, <1>1, SliceTail
    <2> QED
      BY <2>2, <2>3, SliceFacts, ZenonT(60)
  <1>10. y \in Renderers
    <2>1. phase % Unit \in 0 .. Unit - 1
      BY <1>6, RendererBounds
    <2> QED
      BY <1>3, <1>8, <1>9, <2>1 DEF Renderers, n
  <1>11. Headed(y)
    <2>1. y.pending = Slice(y.position \div Unit, Len(y.pending))
      BY <1>4, <1>8, <1>9
    <2>2. y.phase = y.position % Unit
      BY <1>4, <1>8
    <2>3. ASSUME y.trim PROVE y.pending = << >>
      <3>1. n = 0
        BY <2>3, <1>4 DEF Headed, n
      <3>2. Len(y.pending) = 0
        BY <3>1, <1>4, <1>6, <1>7, <1>9
      <3> QED
        BY <3>2, <1>4, <1>9
    <2> QED
      BY <2>1, <2>2, <2>3 DEF Headed
  <1>12. Reach(y) = Reach(x)
    <2>1. Reach(y) = (y.position \div Unit) + Len(y.pending) /\ Reach(x) = q + n
      BY DEF Reach, q, n
    <2> HIDE DEF y
    <2> QED
      BY <2>1, <1>1, <1>4, <1>6, <1>8, <1>9
  <1> QED
    BY <1>4, <1>10, <1>11, <1>12

LEMMA CuePlayedFacts ==
    ASSUME NEW x \in Renderers, Headed(x), NEW frames \in Nat
    PROVE  LET y == CuePlayed(x, frames)
           IN /\ y \in Renderers /\ Headed(y) /\ Reach(y) = Reach(x)
              /\ CueFrames(x, frames) \in 0 .. frames
              /\ y.error = x.error /\ y.ended = x.ended
  <1> DEFINE y == CuePlayed(x, frames)
  <1>1. CueFrames(x, frames) \in 0 .. frames /\ x.prefix - CueFrames(x, frames) \in Nat
    BY RendererFields DEF CueFrames, Least
  <1>2. y = [x EXCEPT !.prefix = x.prefix - CueFrames(x, frames)]
    BY DEF CuePlayed, Renderers
  <1>3. y \in Renderers
    BY <1>1, <1>2 DEF Renderers
  <1>4. /\ y.position = x.position /\ y.pending = x.pending /\ y.phase = x.phase
        /\ y.trim = x.trim /\ y.error = x.error /\ y.ended = x.ended
    BY <1>2 DEF Renderers
  <1> QED
    BY <1>1, <1>3, <1>4 DEF Headed, Reach

LEMMA AheadFacts ==
    ASSUME NEW x \in Renderers, NEW frames \in Nat, NEW rate \in Nat
    PROVE  Ahead(x, frames, rate) \in Nat
  <1>1. frames * rate + x.phase \in Int
    BY RendererFields
  <1>2. Ceiling(frames * rate + x.phase, Unit) \in Int
    BY <1>1, RendererBounds, CeilingFacts
  <1> QED
    BY <1>2, RendererFields DEF Ahead, Most

LEMMA NeededFacts ==
    ASSUME NEW x \in Renderers, NEW frames \in Nat, NEW rate \in Nat
    PROVE  Needed(x, frames, rate) \in Nat /\ NeededToClose(x, frames, rate) \in Nat
  <1>1. Ahead(x, frames, rate) \in Nat /\ Ahead(x, Rebuffer, rate) \in Nat
    BY AheadFacts, RendererBounds
  <1>2. Least(frames, Fade) \in Nat
    BY RendererBounds DEF Least
  <1>3. NeededToClose(x, frames, rate) \in Nat
    BY <1>2, AheadFacts DEF NeededToClose
  <1> QED
    BY <1>1, <1>3, RendererBounds DEF Needed, Most

\* A block ends by setting the renderer's flags.
Flagged(x, starving, begun, short, over) ==
    [x EXCEPT !.starved = starving, !.started = begun, !.silent = short, !.ended = over]

LEMMA FlagsAreSet ==
    ASSUME NEW x \in Renderers, NEW starving \in BOOLEAN, NEW begun \in BOOLEAN,
           NEW short \in BOOLEAN, NEW over \in BOOLEAN
    PROVE  LET y == Flagged(x, starving, begun, short, over) IN
           /\ y \in Renderers
           /\ y.position = x.position /\ y.pending = x.pending
           /\ y.phase = x.phase /\ y.trim = x.trim
           /\ y.error = x.error /\ y.ended = over
  <1> DEFINE a == [x EXCEPT !.starved = starving]
             b == [a EXCEPT !.started = begun]
             c == [b EXCEPT !.silent = short]
             y == Flagged(x, starving, begun, short, over)
  <1>1. y = [c EXCEPT !.ended = over]
    BY DEF Flagged
  <1> HIDE DEF y
  <1>2. /\ a \in Renderers
        /\ a.position = x.position /\ a.pending = x.pending
        /\ a.phase = x.phase /\ a.trim = x.trim /\ a.error = x.error
    BY DEF Renderers
  <1> HIDE DEF a
  <1>3. /\ b \in Renderers
        /\ b.position = a.position /\ b.pending = a.pending
        /\ b.phase = a.phase /\ b.trim = a.trim /\ b.error = a.error
    BY <1>2 DEF Renderers
  <1> HIDE DEF b
  <1>4. /\ c \in Renderers
        /\ c.position = b.position /\ c.pending = b.pending
        /\ c.phase = b.phase /\ c.trim = b.trim /\ c.error = b.error
    BY <1>3 DEF Renderers
  <1> HIDE DEF c
  <1>5. /\ y \in Renderers
        /\ y.position = c.position /\ y.pending = c.pending
        /\ y.phase = c.phase /\ y.trim = c.trim /\ y.error = c.error
        /\ y.ended = over
    BY <1>1, <1>4 DEF Renderers
  <1> QED
    BY <1>2, <1>3, <1>4, <1>5 DEF y

(***************************************************************************)
(* _render_speech: a block plays on from where the playhead was, or leaves  *)
(* it alone; it ends the session only when a read that ended the clip has   *)
(* left nothing in hand.                                                    *)
(***************************************************************************)
LEMMA SpokenFacts ==
    ASSUME NEW x \in Renderers, NEW g \in PCMReads, Headed(x),
           g.pcm = Slice(Reach(x), Len(g.pcm)), ~x.error, ~x.ended,
           NEW frames \in Nat, NEW rate \in Nat \ {0}
    PROVE  LET y == Spoken(x, g, frames, rate)
           IN /\ y \in Renderers /\ Headed(y)
              /\ y.error = g.error
              /\ ~g.error => Reach(y) = Reach(x) + Len(g.pcm)
              /\ y.ended => g.ended /\ y.pending = << >>
  <1> DEFINE y == Spoken(x, g, frames, rate)
             z == Loaded(x, g)
             usable == Usable(z, g)
             noMore == g.ended \/ g.complete
             count == Least(frames, Most(0, Ceiling(usable, rate)))
             starving == count < frames /\ ~noMore /\ z.started
             played == IF starving THEN Most(0, count - Least(frames, Fade))
                                   ELSE count
             after == IF played > 0 THEN Heard(z, played, rate) ELSE z
             last == [after EXCEPT !.starved = starving,
                                   !.started = @ \/ count > 0,
                                   !.silent = count < frames,
                                   !.ended = g.ended /\ after.pending = << >>]
  <1>1. /\ z \in Renderers /\ Headed(z)
        /\ z.error <=> x.error \/ g.error
        /\ ~g.error => Reach(z) = Reach(x) + Len(g.pcm)
        /\ z.ended = x.ended
    BY LoadedFacts
  <1>2. y = IF z.error THEN z
            ELSE IF z.starved /\ ~noMore /\ usable < Rebuffer * rate THEN z
            ELSE last
    BY DEF Spoken
  <1>3. x.error \in BOOLEAN /\ g.error \in BOOLEAN /\ z.error \in BOOLEAN /\ g.ended \in BOOLEAN
        /\ z.started \in BOOLEAN
    BY <1>1 DEF Renderers, PCMReads
  <1>4. z.error = g.error
    BY <1>1, <1>3
  <1>5. usable \in Int /\ (usable > 0 => Len(z.pending) * Unit >= z.phase)
    <2>1. Len(z.pending) \in Nat /\ z.phase \in Nat /\ Unit \in Nat
      BY <1>1, RendererFields, RendererBounds
    <2>2. Len(z.pending) * Unit \in Nat
      BY <2>1
    <2> QED
      BY <2>1, <2>2 DEF Usable
  <1>6. count \in Nat /\ (count > 0 => usable > 0)
    <2> HIDE DEF usable
    <2>1. /\ Ceiling(usable, rate) \in Int
          /\ Ceiling(usable, rate) > 0 => usable > 0
      BY <1>5, CeilingFacts
    <2> QED
      BY <2>1 DEF Least, Most
  <1> HIDE DEF z, usable, noMore
  <1>7. played \in Nat /\ (played > 0 => count > 0)
    <2>1. Least(frames, Fade) \in Nat
      BY RendererBounds DEF Least
    <2> HIDE DEF count
    <2> QED
      BY <2>1, <1>6 DEF Most
  <1>8. after \in Renderers /\ Headed(after) /\ Reach(after) = Reach(z)
        /\ after.error = z.error
    <2> HIDE DEF played, count
    <2>1. CASE played > 0
      <3>1. Len(z.pending) * Unit >= z.phase
        BY <2>1, <1>5, <1>6, <1>7
      <3> QED
        BY <2>1, <3>1, <1>1, <1>7, HeardFacts
    <2>2. CASE ~(played > 0)
      BY <2>2, <1>1
    <2> QED
      BY <2>1, <2>2
  <1>9. starving \in BOOLEAN /\ (count < frames) \in BOOLEAN /\ (count > 0) \in BOOLEAN
    BY <1>3
  <1> HIDE DEF after, starving, count
  <1>10. /\ last \in Renderers
         /\ last.position = after.position /\ last.pending = after.pending
         /\ last.phase = after.phase /\ last.trim = after.trim
         /\ last.error = after.error
         /\ last.ended = (g.ended /\ after.pending = << >>)
    <2> DEFINE begun == after.started \/ count > 0
               over == g.ended /\ after.pending = << >>
               short == count < frames
    <2>1. /\ begun \in BOOLEAN /\ over \in BOOLEAN /\ short \in BOOLEAN
          /\ starving \in BOOLEAN
      BY <1>9
    <2>2. last = Flagged(after, starving, begun, short, over)
      BY <1>8 DEF Renderers, Flagged
    <2>3. over = (g.ended /\ after.pending = << >>)
      OBVIOUS
    <2> HIDE DEF begun, over, short, last
    <2>4. /\ last \in Renderers
          /\ last.position = after.position /\ last.pending = after.pending
          /\ last.phase = after.phase /\ last.trim = after.trim
          /\ last.error = after.error /\ last.ended = over
      <3>1. after \in Renderers
        BY <1>8
      <3> HIDE DEF after
      <3>2. LET z1 == Flagged(after, starving, begun, short, over) IN
            /\ z1 \in Renderers
            /\ z1.position = after.position /\ z1.pending = after.pending
            /\ z1.phase = after.phase /\ z1.trim = after.trim
            /\ z1.error = after.error /\ z1.ended = over
        BY <2>1, <3>1, FlagsAreSet
      <3> QED
        BY <2>2, <3>2
    <2> QED
      BY <2>3, <2>4
  <1>11. Headed(last) /\ Reach(last) = Reach(after)
    BY <1>8, <1>10 DEF Headed, Reach
  <1> HIDE DEF last
  <1>12. CASE y = z
    BY <1>12, <1>1, <1>3, <1>4
  <1>13. CASE y = last
    BY <1>13, <1>1, <1>3, <1>4, <1>8, <1>10, <1>11
  <1> QED
    BY <1>2, <1>12, <1>13

(***************************************************************************)
(* close_block: what is read for a fade stays in hand.                      *)
(***************************************************************************)
LEMMA FadedOutFacts ==
    ASSUME NEW x \in Renderers, NEW g \in PCMReads, Headed(x), ~x.trim,
           g.pcm = Slice(Reach(x), Len(g.pcm))
    PROVE  LET y == FadedOut(x, g)
           IN /\ y \in Renderers /\ Headed(y)
              /\ y.error = x.error /\ y.ended = x.ended
              /\ y.position = x.position
              /\ ~g.error => Reach(y) = Reach(x) + Len(g.pcm)
  <1> DEFINE y == FadedOut(x, g)
             n == Len(g.pcm)
             q == x.position \div Unit
             m == Len(x.pending)
  <1>1. /\ g.pcm \in Seq(Nat) /\ n \in Nat /\ q \in Nat /\ m \in Nat
        /\ x.pending \in Seq(Nat)
    BY RendererFields DEF PCMReads
  <1>2. CASE g.error
    BY <1>2 DEF FadedOut, Renderers, Headed, PCMReads
  <1>3. CASE ~g.error
    <2>1. y = [x EXCEPT !.pending = x.pending \o g.pcm]
      BY <1>3 DEF FadedOut, Renderers
    <2>2. x.pending \o g.pcm \in Seq(Nat) /\ Len(x.pending \o g.pcm) = m + n
      BY <1>1
    <2>3. /\ y \in Renderers /\ y.pending = x.pending \o g.pcm
          /\ y.position = x.position /\ y.phase = x.phase /\ y.trim = x.trim
          /\ y.error = x.error /\ y.ended = x.ended
      BY <2>1, <2>2 DEF Renderers
    <2>4. x.pending \o g.pcm = Slice(q, m + n)
      <3>1. x.pending = Slice(q, m) /\ g.pcm = Slice(q + m, n)
        BY DEF Headed, Reach
      <3> HIDE DEF q, m, n
      <3> QED
        BY <3>1, <1>1, SliceJoins, ZenonT(60)
    <2>5. Headed(y)
      BY <2>2, <2>3, <2>4 DEF Headed
    <2>6. Reach(y) = Reach(x) + n
      <3>1. Reach(y) = q + Len(y.pending) /\ Reach(x) = q + m
        BY <2>3 DEF Reach
      <3>2. Len(y.pending) = m + n
        BY <2>2, <2>3
      <3> HIDE DEF y, q, m, n
      <3> QED
        BY <3>1, <3>2, <1>1
    <2> QED
      BY <2>3, <2>5, <2>6
  <1> QED
    BY <1>2, <1>3

-----------------------------------------------------------------------------
\* What a read of the source answers, from what the ring holds.
LEMMA ReadAnswers ==
    ASSUME Inv, error \in BOOLEAN, NEW n \in Nat, Read(n)
    PROVE  /\ got' \in PCMReads
           /\ got'.pcm = Slice(position, Len(got'.pcm))
           /\ position' = position + Len(got'.pcm)
           /\ got'.error = error
           /\ got'.ended => finished /\ position' >= available
           /\ UNCHANGED <<available, status, life, spooled, writing>>
  <1> DEFINE pcm == Taken(ring, n)
             count == Lesser(n, ring.frames)
  <1>1. /\ ring \in Rings /\ position \in Nat /\ Holds(ring, position)
        /\ ring.frames \in Nat /\ sealed \in BOOLEAN /\ finished \in BOOLEAN
        /\ available \in Nat
    BY DEF Inv, TypeOK, RingIsWindow, Rings
  <1>2. count \in 0 .. ring.frames /\ pcm = Slice(position, count)
    BY <1>1, ReadTakes DEF Read
  <1>3. pcm \in Seq(Nat) /\ Len(pcm) = count
    BY <1>1, <1>2, SliceFacts
  <1>4. /\ got'.from = position /\ got'.pcm = pcm /\ got'.error = error
        /\ got'.ended = (finished /\ position + Len(pcm) >= available)
        /\ position' = position + Len(pcm)
        /\ UNCHANGED <<available, status, life, spooled, writing>>
    BY DEF Read
  <1>5. got' \in PCMReads
    BY <1>1, <1>3 DEF Read, PCMReads
  <1> QED
    BY <1>2, <1>3, <1>4, <1>5

-----------------------------------------------------------------------------
(***************************************************************************)
(* Every step of the clip's threads is a step of its source, or none.       *)
(***************************************************************************)
LEMMA StreamInit == PlayInit => Init
  BY PlaybackConstants DEF PlayInit, Init

LEMMA StreamStep == PlayInv /\ [PlayNext]_vars => [Next]_stream
  <1> SUFFICES ASSUME PlayInv, [PlayNext]_vars PROVE [Next]_stream
    OBVIOUS
  <1>1. CASE Producing
    BY <1>1, PlaybackConstants
       DEF Producing, Registers, Appends, RenderEnds, RenderFails, RefusalEnds, Next
  <1>2. CASE Publishes
    BY <1>2 DEF Publishes, Next
  <1>3. CASE Looping
    BY <1>3 DEF Looping, Collects, LoopFinishes, LoopReleases, LoopCloses, Next,
            PlayInv, PlayTypeOK, Loops
  <1>4. CASE Controlling
    BY <1>4 DEF Controlling, StartsStream, Pauses, Resumes, Stops, Touch, Shutdown,
            Next
  <1>5. CASE Sinking
    <2>1. CASE Opens
      <3>1. sink.from \in Nat
        BY DEF PlayInv, PlayTypeOK, Sinks
      <3> QED
        BY <2>1, <3>1 DEF Opens, Next
    <2> QED
      BY <1>5, <2>1 DEF Sinking, TopStops, SessionEnds, SinkReleases, SinkCloses, Next
  <1>6. CASE Callback
    <2>1. CASE Silence
      BY <2>1 DEF Silence
    <2>2. r \in Renderers /\ Block \in Nat
      BY PlaybackConstants DEF PlayInv, PlayTypeOK
    <2>3. ASSUME NEW rate \in Rates, FadesOut(rate) PROVE [Next]_stream
      <3>1. NeededToClose(r, Block, rate) \in Nat
        BY <2>2, PlaybackConstants, NeededFacts
      <3> QED
        BY <2>3, <3>1 DEF FadesOut, Next
    <2>4. ASSUME NEW rate \in Rates, Renders(rate) PROVE [Next]_stream
      <3> DEFINE cued == CuePlayed(r, Block)
                 frames == Block - CueFrames(r, Block)
      <3>1. Headed(r)
        BY <1>6 DEF Callback, PlayInv, PlayheadIsTrue, Reading, Headed
      <3>2. cued \in Renderers /\ frames \in Nat
        BY <2>2, <3>1, CuePlayedFacts
      <3>3. Needed(cued, frames, rate) \in Nat
        BY <3>2, PlaybackConstants, NeededFacts
      <3> QED
        BY <2>4, <3>3 DEF Renders, Next
    <2> QED
      BY <1>6, <2>1, <2>3, <2>4 DEF Callback
  <1>7. CASE DeviceChanges
    BY <1>7 DEF DeviceChanges
  <1>8. CASE Feeding \/ Closing
    BY <1>8 DEF Feeding, Closing, Next
  <1>9. CASE UNCHANGED vars
    BY <1>9 DEF vars
  <1> QED
    BY <1>1, <1>2, <1>3, <1>4, <1>5, <1>6, <1>7, <1>8, <1>9 DEF PlayNext

-----------------------------------------------------------------------------
(***************************************************************************)
(* What every step of the threads does not undo, and what follows from it.  *)
(***************************************************************************)
LEMMA SoundKept ==
    ASSUME PlayInv, UNCHANGED <<r, position, got>>,
           sink'.at = "open" => sink.at = "open", error => error'
    PROVE  Reading' /\ PlayheadIsTrue'
  BY DEF PlayInv, Reading, PlayheadIsTrue

\* A source that is sealed grows no more and stays as long as it was.
Onwards ==
    /\ sealed => sealed' /\ UNCHANGED <<available, writing>>
    /\ finished => finished'
    /\ error => error'
    /\ sealed' => writing' = 0

LEMMA EndsKept ==
    ASSUME PlayInv, Onwards, UNCHANGED r,
           sink'.at = "open" => sink.at = "open" /\ (sink.done => sink'.done),
           sink'.natural => sink.natural /\ sink'.from = sink.from,
           registry' = "listed" => registry = "listed",
           producer' = "rendered" => producer = "rendered" \/ sealed',
           loop'.at = "finish" /\ ~loop'.failed =>
              sealed \/ (loop.at = "finish" /\ ~loop.failed),
           finished' /\ ~error' => (finished /\ ~error) \/ (sealed' /\ registry' # "listed")
    PROVE  Endings' /\ NaturalMeansWhole'
  <1>1. Endings /\ NaturalMeansWhole
    BY DEF PlayInv
  <1>2. /\ sealed => sealed' /\ available' = available
        /\ finished => finished' /\ (error => error') /\ (sealed' => writing' = 0)
    BY DEF Onwards
  <1>3. /\ error \in BOOLEAN /\ sealed \in BOOLEAN /\ finished \in BOOLEAN
    BY DEF PlayInv, Inv, TypeOK
  <1>4. finished' /\ ~error' => sealed' /\ registry' # "listed"
    BY <1>1, <1>2, <1>3 DEF Endings
  <1>5. producer' = "rendered" => sealed'
    BY <1>1, <1>2 DEF Endings
  <1>6. loop'.at = "finish" /\ ~loop'.failed => sealed'
    BY <1>1, <1>2 DEF Endings
  <1>7. ASSUME sink'.at = "open", (r.ended \/ r.error)
        PROVE  sink'.done
    BY <1>1, <1>7 DEF Endings
  <1>8. ASSUME sink'.at = "open", r.ended, ~r.error
        PROVE  finished' /\ sealed' /\ registry' # "listed"
               /\ r.position \div Unit >= available'
    BY <1>1, <1>2, <1>8 DEF Endings
  <1>9. ASSUME sink'.natural
        PROVE  finished' /\ sealed' /\ writing' = 0 /\ sink'.from >= available'
               /\ registry' # "listed"
    BY <1>1, <1>2, <1>9 DEF NaturalMeansWhole
  <1>10. Endings'
    <2>1. r' = r
      OBVIOUS
    <2>2. sink'.at = "open" /\ (r'.ended \/ r'.error) => sink'.done
      BY <1>7, <2>1
    <2>3. sink'.at = "open" /\ r'.ended /\ ~r'.error =>
             /\ finished' /\ sealed' /\ registry' # "listed"
             /\ r'.position \div Unit >= available'
      BY <1>8, <2>1
    <2>4. sealed' => writing' = 0
      BY DEF Onwards
    <2> QED
      BY <1>4, <1>5, <1>6, <2>2, <2>3, <2>4 DEF Endings
  <1>11. NaturalMeansWhole'
    BY <1>9 DEF NaturalMeansWhole
  <1> QED
    BY <1>10, <1>11

PlayRest ==
    /\ PlayTypeOK
    /\ Registration /\ SourceOutlivesItsUsers
    /\ Reading /\ PlayheadIsTrue
    /\ Endings /\ NaturalMeansWhole

LEMMA Starts == PlayInit => PlayRest
  <1> SUFFICES ASSUME PlayInit PROVE PlayRest
    OBVIOUS
  <1>1. /\ Renderer(0, 0) \in Renderers /\ Renderer(0, 0).trim \in BOOLEAN
        /\ Renderer(0, 0).pending = << >>
    BY Opened DEF Renderer
  <1>2. NoRead \in PCMReads /\ NoRead.error = FALSE
    BY DEF NoRead, PCMReads
  <1>a. /\ r = Renderer(0, 0) /\ left = -1 /\ shut = FALSE
        /\ loop = [at |-> "idle", failed |-> FALSE] /\ registry = "absent"
    BY DEF PlayInit
  <1>b. loop \in Loops /\ loop.at = "idle" /\ left \in Int
    BY <1>a DEF Loops
  <1>3. CASE Made(0, FALSE) /\ producer = "made" /\ sink = SinkOff
    <2>1. /\ sink \in Sinks /\ sink.at = "off" /\ ~sink.natural
      BY <1>3 DEF SinkOff, Sinks
    <2>2. /\ available = 0 /\ ~sealed /\ ~finished /\ ~error /\ ~closed /\ owners = 1
          /\ writing = 0 /\ got = NoRead
      BY <1>3 DEF Made
    <2>3. PlayTypeOK
      BY <1>1, <1>2, <1>3, <1>a, <1>b, <2>1, <2>2 DEF PlayTypeOK
    <2>4. Registration /\ SourceOutlivesItsUsers
      BY <1>3, <1>a, <1>b, <2>1, <2>2
         DEF Registration, SourceOutlivesItsUsers, InUse, Listed
    <2>5. Reading /\ PlayheadIsTrue
      BY <1>1, <1>2, <1>a, <2>1, <2>2 DEF Reading, PlayheadIsTrue
    <2>6. Endings /\ NaturalMeansWhole
      BY <1>3, <1>a, <1>b, <2>1, <2>2 DEF Endings, NaturalMeansWhole
    <2> QED
      BY <2>3, <2>4, <2>5, <2>6 DEF PlayRest
  <1>4. ASSUME NEW from \in Offsets, NEW cue \in Cues,
               Made(ClipFrames, TRUE), producer = "gone", sink = Started(from, cue)
        PROVE  PlayRest
    <2>1. /\ sink \in Sinks /\ sink.at = "top" /\ ~sink.natural
      BY <1>4, PlaybackConstants DEF Started, SinkOff, Sinks
    <2>2. /\ available = ClipFrames /\ sealed /\ finished /\ ~error /\ ~closed
          /\ owners = 1 /\ writing = 0 /\ got = NoRead
      BY <1>4 DEF Made
    <2>3. PlayTypeOK
      BY <1>1, <1>2, <1>4, <1>a, <1>b, <2>1, <2>2 DEF PlayTypeOK
    <2>4. Registration /\ SourceOutlivesItsUsers
      BY <1>4, <1>a, <1>b, <2>1, <2>2
         DEF Registration, SourceOutlivesItsUsers, InUse, Listed
    <2>5. Reading /\ PlayheadIsTrue
      BY <1>1, <1>2, <1>a, <2>1, <2>2 DEF Reading, PlayheadIsTrue
    <2>6. Endings /\ NaturalMeansWhole
      BY <1>4, <1>a, <1>b, <2>1, <2>2 DEF Endings, NaturalMeansWhole
    <2> QED
      BY <2>3, <2>4, <2>5, <2>6 DEF PlayRest
  <1> QED
    BY <1>3, <1>4 DEF PlayInit

(***************************************************************************)
(* One lemma per thread: its steps keep every part of the invariant.        *)
(***************************************************************************)
LEMMA ProducingKeeps ==
    ASSUME PlayInv, Inv', Producing \/ Publishes PROVE PlayRest'
  <1> USE DEF PlayInv
  <1>a. /\ PlayTypeOK /\ Registration /\ SourceOutlivesItsUsers /\ Endings
        /\ NaturalMeansWhole /\ TypeOK
    BY DEF Inv
  <1>b. UNCHANGED <<sound, shut, loop, position, got>> /\ error' = error
    BY DEF Producing, Publishes, Registers, Appends, RenderEnds, RenderFails,
           RefusalEnds, AppendWrites, AppendPublishes, Seal, Close, stream, content,
           status, control
  <1>c. UNCHANGED <<sink, r, left, shut, loop, position, got, error>>
    BY <1>b DEF sound
  <1>1. Reading' /\ PlayheadIsTrue'
    BY <1>c, SoundKept
  <1>2. Onwards
    BY <1>a DEF Producing, Publishes, Registers, Appends, RenderEnds, RenderFails,
           RefusalEnds, AppendWrites, AppendPublishes, Seal, Close, stream, content,
           status, Onwards, TypeOK, Endings
  <1>3. PlayTypeOK'
    BY <1>a, <1>c DEF Producing, Publishes, Registers, Appends, RenderEnds,
           RenderFails, RefusalEnds, PlayTypeOK, control
  <1>4. Registration'
    BY <1>a, <1>c DEF Producing, Publishes, Registers, Appends, RenderEnds,
           RenderFails, RefusalEnds, AppendWrites, AppendPublishes, Seal, Close,
           stream, status, Registration, control
  <1>5. SourceOutlivesItsUsers'
    BY <1>a, <1>c DEF Producing, Publishes, Registers, Appends, RenderEnds,
           RenderFails, RefusalEnds, AppendWrites, AppendPublishes, Seal, Close,
           stream, life, Registration, SourceOutlivesItsUsers, InUse, Listed, control
  <1>6. Endings' /\ NaturalMeansWhole'
    <2>1. finished' = finished
      BY DEF Producing, Publishes, Registers, Appends, RenderEnds, RenderFails,
           RefusalEnds, AppendWrites, AppendPublishes, Seal, Close, stream, status
    <2>2. CASE ~Registers
      <3>1. /\ registry' = registry
            /\ producer' = "rendered" => producer = "rendered" \/ sealed'
        BY <2>2 DEF Producing, Publishes, Appends, RenderEnds, RenderFails,
           RefusalEnds, Seal, control
      <3> QED
        BY <3>1, <2>1, <1>2, <1>c, EndsKept
    <2>3. CASE Registers
      <3>1. /\ producer = "made" /\ producer' \in {"closing", "render"}
            /\ UNCHANGED <<sealed, writing, available, finished>>
        BY <2>3 DEF Registers, Close, stream, content, status
      <3>2. /\ sink.at = "off" /\ ~sink.natural /\ (finished => error)
            /\ loop.at # "finish"
        BY <3>1, <1>a DEF Registration
      <3>3. Endings'
        BY <3>1, <3>2, <1>a, <1>c DEF Endings
      <3>4. NaturalMeansWhole'
        BY <3>2, <1>c DEF NaturalMeansWhole
      <3> QED
        BY <3>3, <3>4
    <2> QED
      BY <2>2, <2>3
  <1> QED
    BY <1>1, <1>3, <1>4, <1>5, <1>6 DEF PlayRest

LEMMA LoopingKeeps ==
    ASSUME PlayInv, Inv', Looping \/ Shutdown PROVE PlayRest'
  <1> USE DEF PlayInv
  <1>a. /\ PlayTypeOK /\ Registration /\ SourceOutlivesItsUsers /\ Endings
        /\ NaturalMeansWhole /\ TypeOK
    BY DEF Inv
  <1>b. UNCHANGED <<sound, position, got, available, writing, sealed>>
        /\ (error => error') /\ (finished => finished')
    BY <1>a DEF Looping, Shutdown, Collects, LoopFinishes, LoopReleases, LoopCloses,
           Finish, Release, stream, content, status, TypeOK
  <1>c. UNCHANGED <<sink, r, left, position, got, available, writing, sealed>>
        /\ (error => error') /\ (finished => finished')
    BY <1>b DEF sound
  <1>1. Reading' /\ PlayheadIsTrue'
    BY <1>c, SoundKept
  <1>2. Onwards
    BY <1>a, <1>c DEF Onwards, Endings
  <1>d. loop.at \in {"idle", "finish", "release", "closing"} /\ loop.failed \in BOOLEAN
    BY <1>a DEF PlayTypeOK, Loops
  <1>e. /\ loop' \in Loops
        /\ registry' \in {registry, "removed"}
        /\ loop'.at # "idle" => registry' = "removed"
        /\ loop'.at = "finish" /\ loop'.failed = FALSE => producer = "rendered"
        /\ producer' \in {producer, "gone"}
    <2>1. ASSUME NEW failed \in BOOLEAN, Unlists(failed), loop.at = "idle",
                 ~failed => producer = "rendered"
          PROVE  /\ loop' \in Loops
                 /\ registry' \in {registry, "removed"}
                 /\ loop'.at # "idle" => registry' = "removed"
                 /\ loop'.at = "finish" /\ loop'.failed = FALSE => producer = "rendered"
      BY <2>1, <1>a DEF Unlists, Loops, PlayTypeOK
    <2>2. CASE Collects
      <3>1. /\ loop.at = "idle" /\ producer' = "gone"
            /\ producer \in {"rendered", "failed"}
        BY <2>2 DEF Collects
      <3>2. PICK failed \in {producer = "failed", TRUE} : Unlists(failed)
        BY <2>2 DEF Collects
      <3>3. failed \in BOOLEAN /\ (~failed => producer = "rendered")
        BY <3>1, <3>2
      <3> QED
        BY <3>1, <3>2, <3>3, <2>1
    <2>3. CASE Shutdown
      BY <2>3, <2>1 DEF Shutdown
    <2>4. CASE LoopFinishes \/ LoopReleases \/ LoopCloses
      <3>1. loop' \in {[loop EXCEPT !.at = "release"], [loop EXCEPT !.at = "closing"],
                       [loop EXCEPT !.at = "idle"]}
            /\ loop.at # "idle" /\ UNCHANGED <<producer, registry>>
        BY <2>4 DEF LoopFinishes, LoopReleases, LoopCloses, Leaving
      <3>2. loop' \in Loops /\ loop'.at # "finish"
        BY <3>1, <1>a DEF PlayTypeOK, Loops
      <3> QED
        BY <3>1, <3>2, <1>a DEF Registration
    <2> QED
      BY <2>2, <2>3, <2>4 DEF Looping
  <1>3. PlayTypeOK'
    <2>1. shut' \in BOOLEAN
      BY <1>a DEF Looping, Shutdown, Collects, LoopFinishes, LoopReleases, LoopCloses,
           PlayTypeOK
    <2> QED
      BY <2>1, <1>a, <1>c, <1>e DEF PlayTypeOK
  <1>4. Registration'
    BY <1>a, <1>c, <1>e DEF Looping, Shutdown, Collects, Unlists, LoopFinishes,
           LoopReleases, LoopCloses, Finish, Release, stream, status, Registration
  <1>5. SourceOutlivesItsUsers'
    <2>1. CASE Collects \/ Shutdown
      <3>1. UNCHANGED <<owners, closed>> /\ loop.at = "idle"
        BY <2>1 DEF Collects, Shutdown, stream, life
      <3>2. Listed' = Listed
        BY <2>1, <1>a DEF Collects, Shutdown, Unlists, Listed, Registration
      <3> QED
        BY <3>1, <3>2, <1>a, <1>c DEF SourceOutlivesItsUsers, InUse
    <2>2. CASE LoopFinishes \/ LoopCloses
      <3>1. UNCHANGED <<owners, closed, registry, producer>>
        BY <2>2 DEF LoopFinishes, LoopCloses, Finish, stream, life
      <3>2. Listed' = Listed
        BY <2>2, <3>1, <1>a, <1>d DEF LoopFinishes, LoopCloses, Listed, PlayTypeOK,
           Loops
      <3> QED
        BY <3>1, <3>2, <1>a, <1>c DEF SourceOutlivesItsUsers, InUse
    <2>3. CASE LoopReleases
      <3>1. /\ loop.at = "release" /\ registry = "removed" /\ owners' = owners - 1
            /\ loop'.at \in {"closing", "idle"} /\ registry' = registry
            /\ (owners # 1 => closed' = closed) /\ owners \in Nat
        BY <2>3, <1>a DEF LoopReleases, Release, Leaving, Registration, TypeOK,
           PlayTypeOK, Loops
      <3>2. Listed /\ ~Listed'
        BY <3>1 DEF Listed
      <3> QED
        BY <3>1, <3>2, <1>a, <1>c DEF SourceOutlivesItsUsers, InUse
    <2> QED
      BY <2>1, <2>2, <2>3 DEF Looping
  <1>6. Endings' /\ NaturalMeansWhole'
    <2>1. finished' /\ ~error' => (finished /\ ~error) \/ (sealed' /\ registry' # "listed")
      BY <1>a, <1>c, <1>e DEF Looping, Shutdown, Collects, LoopFinishes,
           LoopReleases, LoopCloses, Finish, Release, stream, status, Registration,
           Endings, TypeOK
    <2>2. loop'.at = "finish" /\ ~loop'.failed =>
             sealed \/ (loop.at = "finish" /\ ~loop.failed)
      BY <1>a, <1>e DEF Endings
    <2> QED
      BY <2>1, <2>2, <1>2, <1>c, <1>e, EndsKept
  <1> QED
    BY <1>1, <1>3, <1>4, <1>5, <1>6 DEF PlayRest

LEMMA ControllingKeeps ==
    ASSUME PlayInv, Inv', Controlling \/ DeviceChanges, ~Shutdown PROVE PlayRest'
  <1> USE DEF PlayInv
  <1>a. /\ PlayTypeOK /\ Registration /\ SourceOutlivesItsUsers /\ Endings
        /\ NaturalMeansWhole /\ TypeOK /\ sink \in Sinks
    BY DEF Inv, PlayTypeOK
  <1>b. UNCHANGED <<r, left, control, content, status, spooled, writing>>
    BY DEF Controlling, DeviceChanges, StartsStream, Pauses, Resumes, Stops, Touch,
           Retain, stream
  <1>c. UNCHANGED <<r, left, producer, registry, shut, loop, position, got, available,
                    writing, sealed, finished, error>>
    BY <1>b DEF control, content, status
  <1>2. Onwards
    BY <1>a, <1>c DEF Onwards, Endings
  <1>3. ASSUME NEW from \in Offsets, NEW cue \in Cues, StartsStream(from, cue)
        PROVE  PlayRest'
    <2>1. /\ sink' \in Sinks /\ sink'.at = "top" /\ ~sink'.natural
      BY <1>3, PlaybackConstants DEF StartsStream, Started, SinkOff, Sinks
    <2>2. /\ registry = "listed" /\ sink.at \in {"off", "ended"} /\ ~closed
          /\ owners' = owners + 1 /\ closed' = closed
      BY <1>3 DEF StartsStream, Retain
    <2>3. PlayTypeOK'
      BY <2>1, <1>a, <1>c DEF PlayTypeOK
    <2>4. Registration'
      BY <2>2, <1>a, <1>c DEF Registration
    <2>5. SourceOutlivesItsUsers'
      BY <2>1, <2>2, <1>a, <1>c DEF SourceOutlivesItsUsers, InUse, Listed
    <2>6. Reading' /\ PlayheadIsTrue'
      BY <2>1, <1>c, SoundKept
    <2>7. Endings' /\ NaturalMeansWhole'
      BY <2>1, <2>2, <1>2, <1>c, EndsKept
    <2> QED
      BY <2>3, <2>4, <2>5, <2>6, <2>7 DEF PlayRest
  <1>4. CASE Pauses \/ Resumes \/ Stops \/ DeviceChanges
    <2>1. /\ sink' \in Sinks /\ sink'.at \in {sink.at, "leave"}
          /\ sink'.natural = sink.natural /\ sink'.from = sink.from
          /\ sink.done => sink'.done
          /\ sink'.at # sink.at => sink.at = "open"
          /\ sink.at # "off"
      <3>1. CASE DeviceChanges
        BY <3>1, <1>a DEF DeviceChanges, Sinks
      <3>2. ASSUME NEW flag \in {"pause", "stop"}, NEW value \in BOOLEAN,
                   Touch(flag, value)
            PROVE  /\ sink' \in Sinks /\ sink'.at = sink.at /\ sink.at # "off"
                   /\ sink'.natural = sink.natural /\ sink'.from = sink.from
                   /\ sink'.done = sink.done
        BY <3>2, <1>a DEF Touch, Sinks
      <3> QED
        BY <1>4, <3>1, <3>2 DEF Pauses, Resumes, Stops
    <2>2. owners' = owners /\ closed' = closed
      BY <1>4 DEF DeviceChanges, Pauses, Resumes, Stops, Touch, stream, life
    <2>3. PlayTypeOK'
      BY <2>1, <1>a, <1>c DEF PlayTypeOK
    <2>4. Registration'
      BY <2>1, <1>a, <1>c DEF Registration
    <2>5. SourceOutlivesItsUsers'
      BY <2>1, <2>2, <1>a, <1>c DEF SourceOutlivesItsUsers, InUse, Listed
    <2>6. Reading' /\ PlayheadIsTrue'
      BY <2>1, <1>c, SoundKept
    <2>7. Endings' /\ NaturalMeansWhole'
      BY <2>1, <1>2, <1>c, EndsKept
    <2> QED
      BY <2>3, <2>4, <2>5, <2>6, <2>7 DEF PlayRest
  <1> QED
    BY <1>3, <1>4 DEF Controlling

LEMMA SinkingKeeps ==
    ASSUME PlayInv, Inv', Sinking PROVE PlayRest'
  <1> USE DEF PlayInv
  <1>a. /\ PlayTypeOK /\ Registration /\ SourceOutlivesItsUsers /\ Endings
        /\ NaturalMeansWhole /\ TypeOK /\ sink \in Sinks /\ Reading /\ PlayheadIsTrue
        /\ r \in Renderers
    BY DEF Inv, PlayTypeOK
  <1>b. UNCHANGED <<control, status, spooled, writing, available, got>>
    BY DEF Sinking, Opens, TopStops, SessionEnds, SinkReleases, SinkCloses, Seek,
           Release, stream, content
  <1>c. UNCHANGED <<producer, registry, shut, loop, got, available, writing, sealed,
                    finished, error>>
    BY <1>b DEF control, status
  <1>d. Onwards
    BY <1>a, <1>c DEF Onwards, Endings
  <1>1. CASE Opens
    <2>1. /\ sink' \in Sinks /\ sink'.at \in {"open", "leave"} /\ sink.at = "top"
          /\ sink'.natural = sink.natural /\ sink'.from = sink.from
          /\ sink.from \in Nat /\ sink.cue \in Nat
      <3>1. CASE sink' = [sink EXCEPT !.at = "open", !.cue = 0, !.reopen = FALSE,
                                      !.done = FALSE]
        BY <3>1, <1>1, <1>a DEF Opens, Sinks
      <3>2. CASE sink' = [sink EXCEPT !.at = "leave", !.cue = 0, !.error = TRUE]
        BY <3>2, <1>1, <1>a DEF Opens, Sinks
      <3> QED
        BY <1>1, <3>1, <3>2 DEF Opens
    <2>2. /\ r' = Renderer(sink.from, sink.cue) /\ left' = -1
          /\ position' = sink.from /\ UNCHANGED <<owners, closed>>
      BY <1>1 DEF Opens, Seek, stream, content, life
    <2>3. /\ r' \in Renderers /\ Headed(r') /\ Reach(r') = sink.from
          /\ ~r'.ended /\ ~r'.error
      BY <2>1, <2>2, Opened DEF Renderer
    <2>4. PlayTypeOK'
      BY <2>1, <2>2, <2>3, <1>a, <1>c DEF PlayTypeOK
    <2>5. Registration'
      BY <2>1, <1>a, <1>c DEF Registration
    <2>6. SourceOutlivesItsUsers'
      BY <2>1, <2>2, <1>a, <1>c DEF SourceOutlivesItsUsers, InUse, Listed
    <2>7. Reading' /\ PlayheadIsTrue'
      BY <2>2, <2>3, <1>a, <1>c DEF Reading, PlayheadIsTrue, Headed, Reach
    <2>8. Endings' /\ NaturalMeansWhole'
      BY <2>1, <2>3, <1>a, <1>c DEF Endings, NaturalMeansWhole
    <2> QED
      BY <2>4, <2>5, <2>6, <2>7, <2>8 DEF PlayRest
  <1>2. CASE SessionEnds
    <2>1. /\ sink' \in Sinks /\ sink'.at \in {"top", "leave"} /\ sink.at = "open"
          /\ sink'.from = r.position \div Unit
          /\ sink'.natural = (r.ended /\ ~r.error)
      <3>1. r.position \div Unit \in Nat /\ r.ended \in BOOLEAN /\ r.error \in BOOLEAN
        BY <1>a, RendererFields DEF Renderers
      <3> QED
        BY <3>1, <1>2, <1>a, ZenonT(60) DEF SessionEnds, Sinks
    <2>2. /\ r' = Renderer(0, 0) /\ left' = -1
          /\ UNCHANGED <<position, owners, closed>>
      BY <1>2 DEF SessionEnds, stream, content, life
    <2>3. r' \in Renderers /\ r'.pending = << >>
      BY <2>2, Opened DEF Renderer
    <2>4. PlayTypeOK'
      BY <2>1, <2>2, <2>3, <1>a, <1>c DEF PlayTypeOK
    <2>5. Registration'
      BY <2>1, <1>a, <1>c DEF Registration
    <2>6. SourceOutlivesItsUsers'
      BY <2>1, <2>2, <1>a, <1>c DEF SourceOutlivesItsUsers, InUse, Listed
    <2>7. Reading' /\ PlayheadIsTrue'
      BY <2>1, <2>3, <1>a, <1>c DEF Reading, PlayheadIsTrue
    <2>8. Endings' /\ NaturalMeansWhole'
      <3>1. Endings'
        BY <2>1, <1>a, <1>c DEF Endings
      <3>2. NaturalMeansWhole'
        BY <2>1, <1>a, <1>c DEF Endings, NaturalMeansWhole
      <3> QED
        BY <3>1, <3>2
    <2> QED
      BY <2>4, <2>5, <2>6, <2>7, <2>8 DEF PlayRest
  <1>3. CASE TopStops \/ SinkReleases \/ SinkCloses
    <2>1. /\ sink' \in Sinks /\ sink'.at \in {"leave", "closing", "ended"}
          /\ sink'.natural = sink.natural /\ sink'.from = sink.from
          /\ sink.at # "off"
          /\ UNCHANGED <<r, left, position>>
      BY <1>3, <1>a DEF TopStops, SinkReleases, SinkCloses, Leaving, Sinks, Release,
         stream, content
    <2>4. PlayTypeOK'
      BY <2>1, <1>a, <1>c DEF PlayTypeOK
    <2>5. Registration'
      BY <2>1, <1>a, <1>c DEF Registration
    <2>6. SourceOutlivesItsUsers'
      <3>1. Listed' = Listed
        BY <1>c DEF Listed
      <3>2. CASE TopStops \/ SinkCloses
        BY <3>1, <3>2, <1>a DEF TopStops, SinkCloses, SourceOutlivesItsUsers, InUse,
           stream, life, Sinks
      <3>3. CASE SinkReleases
        BY <3>1, <3>3, <1>a DEF SinkReleases, Release, Leaving, Sinks, TypeOK,
           SourceOutlivesItsUsers, InUse
      <3> QED
        BY <1>3, <3>2, <3>3
    <2>7. Reading' /\ PlayheadIsTrue'
      BY <2>1, <1>c, SoundKept
    <2>8. Endings' /\ NaturalMeansWhole'
      BY <2>1, <1>c, <1>d, EndsKept
    <2> QED
      BY <2>4, <2>5, <2>6, <2>7, <2>8 DEF PlayRest
  <1> QED
    BY <1>1, <1>2, <1>3 DEF Sinking

LEMMA FeedingKeeps ==
    ASSUME PlayInv, Inv', Feeding \/ Closing \/ UNCHANGED vars PROVE PlayRest'
  <1> USE DEF PlayInv
  <1>a. /\ PlayTypeOK /\ Registration /\ SourceOutlivesItsUsers /\ Endings
        /\ NaturalMeansWhole /\ TypeOK
    BY DEF Inv
  <1>b. UNCHANGED <<control, sound, available, position, got, writing, owners, closed>>
    BY DEF Feeding, Closing, Feeds, FeederChecks, FeederCommits, FeederFails, Closes,
           CloseJoins, CloseFile, vars, stream, content, life
  <1>c. UNCHANGED <<producer, registry, shut, loop, sink, r, left, available, position,
                    got, writing, owners, closed>>
    BY <1>b DEF control, sound
  <1>d. /\ sealed => sealed'
        /\ finished => finished'
        /\ error => error'
        /\ sealed' => sealed \/ writing = 0
        /\ finished' /\ ~error' => finished /\ ~error
    BY <1>a DEF Feeding, Closing, Feeds, FeederChecks, FeederCommits, FeederFails,
           Closes, CloseJoins, CloseFile, vars, stream, content, status, TypeOK
  <1>1. Onwards
    BY <1>a, <1>c, <1>d DEF Onwards, Endings
  <1>2. PlayTypeOK'
    BY <1>a, <1>c DEF PlayTypeOK
  <1>3. Registration'
    BY <1>a, <1>c, <1>d DEF Registration, Inv, TypeOK
  <1>4. SourceOutlivesItsUsers'
    BY <1>a, <1>c DEF SourceOutlivesItsUsers, InUse, Listed
  <1>5. Reading' /\ PlayheadIsTrue'
    BY <1>c, <1>d, SoundKept
  <1>6. Endings' /\ NaturalMeansWhole'
    BY <1>c, <1>d, <1>1, EndsKept
  <1> QED
    BY <1>2, <1>3, <1>4, <1>5, <1>6 DEF PlayRest

(***************************************************************************)
(* The device callback: what is sounded, faded or waited for leaves the     *)
(* playhead where the sound is.                                             *)
(***************************************************************************)
LEMMA CallbackKeeps ==
    ASSUME PlayInv, Inv', Callback PROVE PlayRest'
  <1> USE DEF PlayInv
  <1>a. /\ PlayTypeOK /\ Registration /\ SourceOutlivesItsUsers /\ Endings
        /\ NaturalMeansWhole /\ TypeOK /\ sink \in Sinks /\ Reading /\ PlayheadIsTrue
        /\ r \in Renderers /\ error \in BOOLEAN /\ position \in Nat /\ available \in Nat
    BY DEF Inv, PlayTypeOK, TypeOK
  <1>b. /\ sink.at = "open" /\ ~sink.done /\ UNCHANGED control
        /\ Headed(r) /\ ~r.ended /\ ~r.error /\ r.error \in BOOLEAN
        /\ ~got.error => position = Reach(r)
        /\ Block \in Nat /\ got \in PCMReads
    BY <1>a, PlaybackConstants
       DEF Callback, Endings, Headed, Reading, PlayheadIsTrue, Reach, PlayTypeOK, Renderers
  \* It is enough to see what becomes of the renderer and of the read.
  <1>c. ASSUME sink' \in Sinks, sink'.at = "open", sink'.natural = sink.natural,
               sink'.from = sink.from, r' \in Renderers, left' \in Int, got' \in PCMReads,
               UNCHANGED <<available, status, owners, closed, writing>>,
               Headed(r'), got'.error => error,
               ~got'.error => position' = Reach(r'),
               r'.ended \/ r'.error => sink'.done,
               r'.ended /\ ~r'.error => /\ finished /\ ~error
                                        /\ r'.position \div Unit >= available
        PROVE  PlayRest'
    <2>1. UNCHANGED <<producer, registry, shut, loop, sealed, finished, error>>
      BY <1>b, <1>c DEF control, status
    <2>2. PlayTypeOK'
      BY <2>1, <1>a, <1>c DEF PlayTypeOK
    <2>3. Registration'
      BY <2>1, <1>a, <1>b, <1>c DEF Registration
    <2>4. SourceOutlivesItsUsers'
      BY <2>1, <1>a, <1>b, <1>c DEF SourceOutlivesItsUsers, InUse, Listed
    <2>5. Reading' /\ PlayheadIsTrue'
      BY <2>1, <1>c DEF Reading, PlayheadIsTrue, Headed, Reach
    <2>6. Endings'
      BY <2>1, <1>a, <1>c DEF Endings
    <2>7. NaturalMeansWhole'
      BY <2>1, <1>a, <1>c DEF NaturalMeansWhole
    <2> QED
      BY <2>2, <2>3, <2>4, <2>5, <2>6, <2>7 DEF PlayRest
  <1>1. CASE Silence
    <2>1. /\ UNCHANGED <<r, position, got, available, status, owners, closed, writing>>
          /\ left \in Int /\ left' = left - Block
          /\ sink' = [sink EXCEPT !.done = left - Block <= 0]
      BY <1>1, <1>a DEF Silence, stream, content, life, PlayTypeOK
    <2>2. (left - Block <= 0) \in BOOLEAN /\ left' \in Int
      BY <2>1, <1>b
    <2>3. sink' \in Sinks /\ sink'.at = "open" /\ sink'.natural = sink.natural
          /\ sink'.from = sink.from
      BY <2>1, <2>2, <1>a, <1>b DEF Sinks
    <2> QED
      BY <2>1, <2>2, <2>3, <1>a, <1>b, <1>c DEF Reading
  <1>2. ASSUME NEW rate \in Rates, FadesOut(rate) PROVE PlayRest'
    <2>1. left' \in Int
      BY <1>2, <1>b, RendererBounds, PlaybackConstants DEF FadesOut, Lesser
    <2>2. /\ sink' \in Sinks /\ sink'.at = "open" /\ sink'.natural = sink.natural
          /\ sink'.from = sink.from
      <3>1. sink' = [sink EXCEPT !.done = left' <= 0] /\ (left' <= 0) \in BOOLEAN
        BY <1>2, <2>1 DEF FadesOut
      <3> QED
        BY <3>1, <1>a, <1>b DEF Sinks
    <2>3. CASE ReadsToClose(r)
      <3> DEFINE n == NeededToClose(r, Block, rate)
      <3>1. Read(n) /\ r' = FadedOut(r, got') /\ n \in Nat
        BY <2>3, <1>2, <1>a, <1>b, PlaybackConstants, NeededFacts DEF FadesOut
      <3> HIDE DEF n
      <3>2. /\ got' \in PCMReads
            /\ got'.pcm = Slice(position, Len(got'.pcm))
            /\ position' = position + Len(got'.pcm)
            /\ got'.error = error
            /\ UNCHANGED <<available, status, owners, closed, writing>>
        BY <3>1, <1>a, ReadAnswers DEF life
      <3>3. CASE got'.error
        <4>1. r' = r
          BY <3>1, <3>3 DEF FadedOut
        <4> QED
          BY <3>2, <3>3, <4>1, <2>1, <2>2, <1>a, <1>b, <1>c
      <3>4. CASE ~got'.error
        <4>1. position = Reach(r) /\ ~r.trim
          BY <3>2, <3>4, <2>3, <1>a, <1>b DEF Reading, ReadsToClose
        <4>2. /\ r' \in Renderers /\ Headed(r') /\ r'.error = r.error
              /\ r'.ended = r.ended /\ Reach(r') = Reach(r) + Len(got'.pcm)
          BY <3>1, <3>2, <3>4, <4>1, <1>a, <1>b, FadedOutFacts
        <4> QED
          BY <3>2, <3>4, <4>1, <4>2, <2>1, <2>2, <1>b, <1>c
      <3> QED
        BY <3>3, <3>4
    <2>4. CASE ~ReadsToClose(r)
      <3>1. r' = [r EXCEPT !.prefix = 0] /\ UNCHANGED stream
        BY <2>4, <1>2 DEF FadesOut
      <3>2. /\ r' \in Renderers /\ Headed(r') /\ Reach(r') = Reach(r)
            /\ ~r'.ended /\ ~r'.error
        BY <3>1, <1>a, <1>b DEF Renderers, Headed, Reach
      <3>3. UNCHANGED <<available, status, owners, closed, writing, got, position>>
        BY <3>1 DEF stream, content, life
      <3> QED
        BY <3>2, <3>3, <2>1, <2>2, <1>a, <1>b, <1>c DEF Reading
    <2> QED
      BY <2>3, <2>4
  <1>3. ASSUME NEW rate \in Rates, Renders(rate) PROVE PlayRest'
    <2> DEFINE cued == CuePlayed(r, Block)
               frames == Block - CueFrames(r, Block)
    <2>1. /\ cued \in Renderers /\ Headed(cued) /\ Reach(cued) = Reach(r)
          /\ frames \in Nat /\ ~cued.error /\ ~cued.ended
      <3>1. /\ cued \in Renderers /\ Headed(cued) /\ Reach(cued) = Reach(r)
            /\ CueFrames(r, Block) \in 0 .. Block
            /\ cued.error = r.error /\ cued.ended = r.ended
        BY <1>a, <1>b, CuePlayedFacts
      <3>2. frames \in Nat
        BY <3>1, <1>b
      <3> QED
        BY <3>1, <3>2, <1>b
    <2>2. rate \in Nat \ {0}
      BY PlaybackConstants
    <2>3. sink' = [sink EXCEPT !.done = r'.ended \/ r'.error] /\ left' = left
      BY <1>3 DEF Renders
    <2>4. ASSUME r' \in Renderers
          PROVE  /\ sink' \in Sinks /\ sink'.at = "open" /\ sink'.natural = sink.natural
                 /\ sink'.from = sink.from /\ (r'.ended \/ r'.error => sink'.done)
      <3>1. (r'.ended \/ r'.error) \in BOOLEAN
        BY <2>4 DEF Renderers
      <3> QED
        BY <3>1, <2>3, <1>a, <1>b DEF Sinks
    <2>5. left' \in Int
      BY <2>3, <1>a DEF PlayTypeOK
    <2>6. CASE frames = 0
      <3>1. r' = cued /\ UNCHANGED stream
        BY <2>6, <1>3 DEF Renders
      <3>2. UNCHANGED <<available, status, owners, closed, writing, got, position>>
        BY <3>1 DEF stream, content, life
      <3> HIDE DEF cued, frames
      <3> QED
        BY <3>1, <3>2, <2>1, <2>4, <2>5, <1>a, <1>b, <1>c DEF Reading
    <2>7. CASE frames # 0
      <3> DEFINE n == Needed(cued, frames, rate)
      <3>1. Read(n) /\ r' = Spoken(cued, got', frames, rate)
        BY <2>7, <1>3 DEF Renders
      <3> HIDE DEF cued, frames
      <3>2. n \in Nat
        BY <2>1, <2>2, NeededFacts
      <3> HIDE DEF n
      <3>3. /\ got' \in PCMReads
            /\ got'.pcm = Slice(position, Len(got'.pcm))
            /\ position' = position + Len(got'.pcm)
            /\ got'.error = error
            /\ got'.ended => finished /\ position' >= available
            /\ UNCHANGED <<available, status, owners, closed, writing>>
        BY <3>1, <3>2, <1>a, ReadAnswers DEF life
      <3>4. CASE got'.error
        <4>1. r' \in Renderers /\ Headed(r') /\ r'.error = TRUE
          <5>1. r' = [cued EXCEPT !.error = TRUE]
            BY <3>1, <3>4 DEF Spoken, Loaded, Renderers
          <5> QED
            BY <5>1, <2>1 DEF Renderers, Headed
        <4> QED
          BY <3>3, <3>4, <4>1, <2>4, <2>5, <1>c
      <3>5. CASE ~got'.error
        <4>1. position = Reach(cued) /\ ~error
          BY <3>3, <3>5, <2>1, <1>a, <1>b DEF Reading
        <4>2. /\ r' \in Renderers /\ Headed(r') /\ r'.error = got'.error
              /\ Reach(r') = Reach(cued) + Len(got'.pcm)
              /\ r'.ended => got'.ended /\ r'.pending = << >>
          BY <3>1, <3>3, <3>5, <4>1, <2>1, <2>2, SpokenFacts
        <4>3. position' = Reach(r')
          BY <3>3, <4>1, <4>2
        <4>4. ASSUME r'.ended PROVE finished /\ r'.position \div Unit >= available
          <5>1. finished /\ Reach(r') >= available /\ r'.pending = << >>
            BY <3>3, <4>2, <4>3, <4>4
          <5>2. r'.position \div Unit \in Nat
            BY <4>2, RendererFields
          <5> QED
            BY <5>1, <5>2 DEF Reach
        <4> QED
          BY <3>3, <3>5, <4>1, <4>2, <4>3, <4>4, <2>4, <2>5, <1>c
      <3> QED
        BY <3>4, <3>5
    <2> QED
      BY <2>6, <2>7
  <1> QED
    BY <1>1, <1>2, <1>3 DEF Callback

LEMMA PlayStarts == PlayInit => PlayInv
  <1>1. PlayInit => Inv
    BY StreamInit, InitInv
  <1>2. PlayInit => PlayRest
    BY Starts
  <1> QED
    BY <1>1, <1>2 DEF PlayInv, PlayRest

LEMMA PlayKeeps == PlayInv /\ [PlayNext]_vars => PlayInv'
  <1> SUFFICES ASSUME PlayInv, [PlayNext]_vars PROVE PlayInv'
    OBVIOUS
  <1>1. Inv'
    BY StreamStep, NextInv DEF PlayInv
  <1>2. CASE Producing \/ Publishes
    BY <1>1, <1>2, ProducingKeeps DEF PlayInv, PlayRest
  <1>3. CASE Looping \/ Shutdown
    BY <1>1, <1>3, LoopingKeeps DEF PlayInv, PlayRest
  <1>4. CASE (Controlling \/ DeviceChanges) /\ ~Shutdown
    BY <1>1, <1>4, ControllingKeeps DEF PlayInv, PlayRest
  <1>5. CASE Sinking
    BY <1>1, <1>5, SinkingKeeps DEF PlayInv, PlayRest
  <1>6. CASE Callback
    BY <1>1, <1>6, CallbackKeeps DEF PlayInv, PlayRest
  <1>7. CASE Feeding \/ Closing \/ UNCHANGED vars
    BY <1>1, <1>7, FeedingKeeps DEF PlayInv, PlayRest
  <1> QED
    BY <1>2, <1>3, <1>4, <1>5, <1>6, <1>7 DEF PlayNext

LEMMA PlayHolds == PlaySpec => []PlayInv
  BY PlayStarts, PlayKeeps, PTL DEF PlaySpec

(***************************************************************************)
(* A session's source is never closed under it, and its owners are exactly  *)
(* the registry's entry and the playing session, for any engine, device and *)
(* order of the five threads (streaming.py:242-268, playback.py:384, 533).  *)
(***************************************************************************)
THEOREM OwnersAreCounted == PlaySpec => []SourceOutlivesItsUsers
  BY PlayHolds, PTL DEF PlayInv

(***************************************************************************)
(* For every rate, block, fade, cushion and cue: what a renderer has in     *)
(* hand is the clip from the frame its playhead is in, so a session resumed *)
(* at the playhead goes on where the sound stopped (streaming.py:445-577).  *)
(***************************************************************************)
THEOREM PlayheadFollowsSound == PlaySpec => []PlayheadIsTrue
  BY PlayHolds, PTL DEF PlayInv

(***************************************************************************)
(* A natural end means a sealed, published and wholly played clip           *)
(* (streaming.py:115-118, 199-215).                                         *)
(***************************************************************************)
THEOREM NothingEndsEarly == PlaySpec => []NaturalMeansWhole
  BY PlayHolds, PTL DEF PlayInv

(***************************************************************************)
(* The threads of a session use the source as its specification allows, so  *)
(* the window theorem and the refinement of PCMTrack hold for the composed  *)
(* system as well (streaming.py:112-311).                                   *)
(***************************************************************************)
THEOREM SessionUsesTheStream == PlaySpec => Spec /\ []TypeOK /\ []RingIsWindow
  <1>1. PlaySpec => Spec
    BY StreamInit, StreamStep, PlayHolds, PTL DEF PlaySpec, Spec
  <1> QED
    BY <1>1, StreamTypeCorrect, Window, PTL

(***************************************************************************)
(* The renderer of a session is given its clip's own frames, in order.      *)
(***************************************************************************)
THEOREM SessionReadsTheTrack == PlaySpec => ReadsTheTrack
  BY SessionUsesTheStream, ImplementsTrack
=============================================================================
