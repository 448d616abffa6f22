------------------------------- MODULE Playback -------------------------------
(***************************************************************************)
(* The playback controller: one output device, the plan loop that feeds    *)
(* it, takeovers and their stack, and the transport - pause, resume, skip, *)
(* chunk steps, restart - with the microphone taking the floor.            *)
(*                                                                         *)
(* Everything runs on one event loop and a handler is atomic between two   *)
(* awaits.  Handlers that release the device wait for it to close; they    *)
(* hold the transport lock meanwhile, so at most one of them is under way, *)
(* but pause, resume, the microphone and the synthesis pool never take     *)
(* that lock and do run in the gap.                                        *)
(*                                                                         *)
(* The controller is one record s, so that a handler is the composition of *)
(* the methods it calls:                                                   *)
(*   s.db       the rows, of which held is also the controller's own flag  *)
(*   s.cur      _current_id                s.idx   _current_segment_index  *)
(*   s.active   _sink_active               s.watch a watcher task awaits   *)
(*   s.device   the sink's thread, and the unit it was started on          *)
(*   s.stack    _preempted_stack, the last suspended clip last             *)
(*   s.mic      interrupted_at is set      s.armed resume when input idle  *)
(*   s.cues     a cue session is open                                      *)
(*   s.raised   the last handler that could start audio raised             *)
(*                                                                         *)
(* Commits are not cut short here: Pipeline does that for the same rows.   *)
(***************************************************************************)
EXTENDS Store, SequencesExt

CONSTANTS Preempt,       \* submitted with priority preempt
          Streamed,      \* rendered by a streaming engine
          Fallible,      \* renders that may fail
          Earcons,       \* the earcon_enabled setting
          DeviceFaults,  \* the device may fail in the middle of a clip
          MaxRenders,    \* bound: renders at a time, the pool's size
          MaxStops       \* bound: how often the daemon dies or is stopped

ASSUME PlaybackAssumption ==
  /\ IsFiniteSet(Utts) /\ {"nobody", "outro"} \cap Utts = {}
  /\ Preempt \subseteq Urgent
  /\ Streamed \subseteq Utts /\ Fallible \subseteq Utts
  /\ Earcons \in BOOLEAN /\ DeviceFaults \in BOOLEAN
  /\ MaxRenders \in Nat /\ MaxStops \in Nat

VARIABLES s,          \* the controller and its rows
          rendering,  \* units in the hands of the pool
          step,       \* the transport handler awaiting the device, if any
          holding,    \* holds awaiting the end of the outro
          stops

vars == <<s, rendering, step, holding, stops>>

Nobody == "nobody"
Outro  == <<"outro", Whole>>
Free   == [op |-> "free"]

TransportOps == {"plan", "skip", "next", "previous", "restart", "shutdown"}
Modes == {"idle", "sounding", "paused", "stopping", "ended", "broken"}

Slots == Units \cup {<<u, Whole>> : u \in Utts}
Holds == {"pause", "interrupt"}
Steps == [op : TransportOps, slot : Slots \cup {<<Nobody, Whole>>},
          next : Utts \cup {Nobody}, told : BOOLEAN]

-----------------------------------------------------------------------------
(* Reading the controller.                                                 *)

CurrentState(t) == IF t.cur = Nobody THEN Absent ELSE t.db.state[t.cur]
CurrentLive(t)  == CurrentState(t) \in Live
Engaged(t)      == CurrentState(t) \in {"Playing", "Paused"}
Slot(t)         == <<t.cur, t.idx>>

(* A chunk step that raises may leave its index to the clip that begins    *)
(* next, which has no such chunk.                                          *)
Misplaced(t)    == t.idx # Whole /\ Slot(t) \notin Parts

HasNext(d, u)   == Unfinished(d, u) # {}
NextChunk(d, u) == CHOOSE p \in Unfinished(d, u) : IsNextUnfinished(d, p)
NextIs(d, u, states) == HasNext(d, u) /\ d.child[NextChunk(d, u)] \in states

Paused(d)       == {u \in Utts : d.state[u] = "Paused"}
First(d, rows)  == CHOOSE u \in rows : \A v \in rows : d.order[u] <= d.order[v]

(* The sink's thread has signalled its end.                                *)
SessionOver(t) == t.device.mode \in {"idle", "ended", "broken"}

-----------------------------------------------------------------------------
(* Beginning to sound.  A sink that is still open, or a unit without       *)
(* audio, raises, after the rows were written.                             *)

Calm(t) == [t EXCEPT !.raised = FALSE]

Start(t, w) ==
  LET e == [t EXCEPT !.cues = Earcons /\ w # Outro]
  IN  IF SessionOver(t) /\ (w = Outro \/ Has(t.db, w))
        THEN [e EXCEPT !.device = [mode |-> "sounding", unit |-> w],
                       !.active = TRUE, !.watch = TRUE]
        ELSE [e EXCEPT !.raised = TRUE]

BeginWhole(t, u) ==
  Start([t EXCEPT !.db = Transition(@, u, "Playing"), !.cur = u], <<u, Whole>>)

(* Mutant: whatever the clip's row says, it is Playing again.              *)
BeginChunkAnyway(t, p) ==
  Start([t EXCEPT !.db = TransitionSegment(Transition(@, p[1], "Playing"), p, "Playing"),
                  !.cur = p[1], !.idx = p[2]], p)

BeginChunk(t, p) ==
  LET d == IF In(t.db, p[1], {"Ready", "Paused"}) THEN Transition(t.db, p[1], "Playing")
                                                  ELSE t.db
  IN  Start([t EXCEPT !.db = TransitionSegment(d, p, "Playing"),
                      !.cur = p[1], !.idx = p[2]], p)

(* The device is left to whichever chunk becomes Ready next.               *)
Adopt(t, u) ==
  [t EXCEPT !.cur = u, !.idx = Whole,
            !.db = IF @.state[u] = "Paused" THEN Transition(@, u, "Playing") ELSE @]

(* _start_saved: a takeover's clip, or a suspended one where it stopped.   *)
StartSaved(t, u, i) ==
  LET found == IF i # Whole THEN <<u, i>> \in Parts ELSE HasNext(t.db, u)
      p == IF i # Whole THEN <<u, i>> ELSE NextChunk(t.db, u)
  IN  CASE found /\ t.db.child[p] \in {"Ready", "Paused"} -> BeginChunk(t, p)
        [] ~found /\ Has(t.db, <<u, Whole>>) -> BeginWhole(t, u)
        [] OTHER -> Adopt(t, u)

Vacated(t) == [t EXCEPT !.cur = Nobody, !.idx = Whole]

(* Mutant: a hold that arrived while the device was released is not seen.  *)
ResumeThroughHold(t, u) ==
  IF NextIs(t.db, u, {"Ready"}) THEN BeginChunk(t, NextChunk(t.db, u)) ELSE t

(* _resume_document_at_next_ready: a hold that arrived meanwhile wins.     *)
ResumeDocument(t, u) ==
  CASE ~HasNext(t.db, u) -> t
    [] HasNext(t.db, u) /\ t.db.held ->
         [t EXCEPT !.db = IF @.state[u] = "Playing" THEN Transition(@, u, "Paused") ELSE @]
    [] ~t.db.held /\ NextIs(t.db, u, {"Ready"}) -> BeginChunk(t, NextChunk(t.db, u))
    [] OTHER -> t

-----------------------------------------------------------------------------
(* Releasing the device: the watcher is cancelled and awaited, then the    *)
(* session that is open by now is told to stop and awaited.                *)

Unwatched(t) == [t EXCEPT !.watch = FALSE]

MustStop(t) == t.active /\ ~SessionOver(t)

Told(t) ==
  [t EXCEPT !.device.mode = IF @ \in {"sounding", "paused"} THEN "stopping" ELSE @]

(* Mutant: the handler goes on without waiting.                            *)
OverAtOnce(t) == TRUE

Over(t) == t.device.mode # "stopping"

Deactivated(t) == [t EXCEPT !.active = FALSE]

-----------------------------------------------------------------------------
(* The plan loop.                                                          *)

(* The preempting clips that may take the device from whatever has it.     *)
Takeovers(t) ==
  {u \in Preempt : /\ t.db.state[u] = "Ready"
                   /\ CurrentLive(t) => t.db.order[u] < t.db.order[t.cur]}

(* _suspend_current, once the device is free of what was in slot.          *)
Suspended(t, slot) ==
  LET live == slot[1] # Nobody /\ In(t.db, slot[1], {"Playing", "Paused"})
  IN  Vacated([t EXCEPT !.db = IF live THEN SuspendPlayback(@, slot) ELSE @,
                        !.stack = IF live THEN Append(@, slot) ELSE @])

(* Mutant: the stack is only popped by Resume.                             *)
RestoredNever(t) == t

(* _restore_preempted: the last suspended clip that is still paused.       *)
Restored(t) ==
  LET alive == {k \in DOMAIN t.stack : t.db.state[t.stack[k][1]] = "Paused"}
      top   == Max(alive)
  IN  IF t.cur # Nobody THEN t
      ELSE IF alive = {} THEN [t EXCEPT !.stack = <<>>]
      ELSE StartSaved([t EXCEPT !.stack = SubSeq(@, 1, top - 1)],
                      t.stack[top][1], t.stack[top][2])

(* The rest of one pass: begin the head of the plan, end a cue session,    *)
(* let go of a clip that ended elsewhere, or go on with the document.  A   *)
(* pass that raised is over: the loop is supervised, and starts again.     *)
HeadBegun(t) ==
  LET u == First(t.db, Pending(t.db))
  IN  CASE Pending(t.db) = {} -> IF t.cues THEN Start(t, Outro) ELSE t
        [] Pending(t.db) # {} /\ t.db.state[u] = "Ready" /\ NextIs(t.db, u, {"Ready"}) ->
             BeginChunk(t, NextChunk(t.db, u))
        [] Pending(t.db) # {} /\ t.db.state[u] = "Ready" /\ ~HasNext(t.db, u)
             /\ Has(t.db, <<u, Whole>>) -> BeginWhole(t, u)
        [] OTHER -> t

RestOfPass(t) ==
  IF t.raised THEN t
  ELSE CASE t.cur = Nobody /\ ~t.db.held /\ ~t.active -> HeadBegun(t)
         [] t.cur # Nobody /\ ~t.active /\ ~CurrentLive(t) -> Vacated(t)
         [] t.cur # Nobody /\ ~t.active /\ ~t.db.held /\ CurrentState(t) = "Playing"
              /\ NextIs(t.db, t.cur, {"Ready"}) -> BeginChunk(t, NextChunk(t.db, t.cur))
         [] OTHER -> t

TakenOver(t, u) ==
  RestOfPass(IF t.db.held THEN t
             ELSE Restored(IF t.db.state[u] = "Ready" THEN StartSaved(t, u, Whole) ELSE t))

-----------------------------------------------------------------------------
(* What each transport handler does once the device is free; slot is what  *)
(* it found in progress before.                                            *)

SkipLands(t, slot) ==
  IF In(t.db, slot[1], {"Playing", "Paused"})
    THEN Vacated([t EXCEPT !.db = SkipUtterance(@, slot[1], slot)])
    ELSE t                                           \* raises TransitionError

NextLands(t, slot) ==
  IF CanTransition(t.db.child[slot], "Skipped")
    THEN ResumeDocument([t EXCEPT !.db = TransitionSegment(@, slot, "Skipped"),
                                  !.idx = Whole], slot[1])
    ELSE t                                           \* raises TransitionError

(* _restore_after_failed_step.                                             *)
RestoreStep(t, u, i) ==
  LET e == [t EXCEPT !.db = IF Has(@, <<u, i>>) THEN ResetSegmentsFrom(@, u, i) ELSE @]
  IN  IF ResetLands(t.db, u, i)
        THEN ResumeDocument([e EXCEPT !.idx = Whole], u)
        ELSE Vacated([e EXCEPT !.db = IF CanTransition(@.state[u], "Failed")
                                        THEN Transition(@, u, "Failed") ELSE @])

PreviousLands(t, slot) ==
  LET u == slot[1]  i == slot[2] - 1
      e == [t EXCEPT !.db = IF Has(@, <<u, i>>) THEN ResetSegmentsFrom(@, u, i) ELSE @]
  IN  IF ResetLands(t.db, u, i)
        THEN ResumeDocument([e EXCEPT !.idx = Whole], u)
        ELSE RestoreStep(e, u, slot[2])

RestartLands(t, slot) ==
  LET u == slot[1]
      e == [t EXCEPT !.db = ResetSegmentsFrom(@, u, 0), !.idx = Whole]
  IN  IF u \in Composite
        THEN CASE NextIs(e.db, u, {"Ready"}) -> ResumeDocument(e, u)
               [] ~NextIs(e.db, u, {"Ready"}) /\ slot[2] # Whole -> RestoreStep(e, u, slot[2])
               [] OTHER -> e
        ELSE CASE ~In(t.db, u, {"Playing", "Paused"}) -> t
               [] In(t.db, u, {"Playing", "Paused"}) /\ t.db.held ->
                    [t EXCEPT !.db = SuspendPlayback(@, <<u, Whole>>)]
               [] OTHER -> Start([t EXCEPT !.db = IF @.state[u] = "Paused"
                                                    THEN Transition(@, u, "Playing") ELSE @],
                                 <<u, Whole>>)

-----------------------------------------------------------------------------
(* Holding and resuming.                                                   *)

(* Mutant: the chunk's row keeps saying Playing.                           *)
HeldParentOnly(t) ==
  IF CurrentState(t) = "Playing"
    THEN [t EXCEPT !.db = Transition([@ EXCEPT !.held = TRUE], t.cur, "Paused"),
                   !.device.mode = IF t.active /\ @ = "sounding" THEN "paused" ELSE @]
    ELSE [t EXCEPT !.db.held = TRUE]

(* It raises once the device is silent and before the rows are written.    *)
HoldRaises(t) == CurrentState(t) = "Playing" /\ t.active /\ Misplaced(t)

(* _hold, up to the point where it may have to wait for the outro.         *)
Held(t) ==
  LET chunk == t.active /\ t.idx # Whole
      d == [t.db EXCEPT !.held = TRUE]
      e == IF chunk THEN TransitionSegment(d, Slot(t), "Paused") ELSE d
  IN  IF CurrentState(t) = "Playing"
        THEN [t EXCEPT !.db = IF HoldRaises(t) THEN d ELSE Transition(e, t.cur, "Paused"),
                       !.device.mode = IF t.active /\ @ = "sounding" THEN "paused" ELSE @]
        ELSE [t EXCEPT !.db = d]

(* Mutant: an armed resume outlives the hold it was armed for.             *)
UnclaimedStillArmed(t) == [t EXCEPT !.mic = FALSE]

Unclaimed(t) == [t EXCEPT !.mic = FALSE, !.armed = FALSE]

(* Mutant: the adopted clip stays on the stack.                            *)
AdoptedTwice(t) ==
  IF t.cur = Nobody /\ Paused(t.db) # {}
    THEN [t EXCEPT !.cur = First(t.db, Paused(t.db))] ELSE t

(* resume adopts the earliest paused clip when nothing is current; a clip  *)
(* is at most once on the stack (SuspendedOnce).                           *)
Adopted(t) ==
  LET u == First(t.db, Paused(t.db))
      places == {k \in DOMAIN t.stack : t.stack[k][1] = u}
  IN  IF t.cur = Nobody /\ Paused(t.db) # {}
        THEN [t EXCEPT !.cur = u,
                       !.stack = IF places = {} THEN @
                                 ELSE RemoveAt(@, CHOOSE k \in places : TRUE)]
        ELSE t

(* Mutant: the rows resume, the device does not.                           *)
ContinuedMuted(t) ==
  LET u == t.cur
      playing(d) == Transition(d, u, "Playing")
  IN  CASE CurrentState(t) # "Paused" -> t
        [] CurrentState(t) = "Paused" /\ t.active ->
             [t EXCEPT !.db = playing(IF t.idx # Whole
                                        THEN TransitionSegment(@, Slot(t), "Playing") ELSE @)]
        [] CurrentState(t) = "Paused" /\ ~t.active /\ NextIs(t.db, u, {"Paused"}) ->
             BeginChunk(t, NextChunk(t.db, u))
        [] CurrentState(t) = "Paused" /\ ~t.active /\ NextIs(t.db, u, State \ {"Paused"}) ->
             [t EXCEPT !.db = playing(@)]
        [] OTHER -> IF Has(t.db, <<u, Whole>>) THEN BeginWhole(t, u) ELSE t

Continued(t) ==
  LET u == t.cur
      playing(d) == Transition(d, u, "Playing")
  IN  CASE CurrentState(t) # "Paused" -> t
        [] CurrentState(t) = "Paused" /\ t.active ->
             [t EXCEPT !.db = IF Misplaced(t) THEN @
                              ELSE playing(IF t.idx # Whole
                                             THEN TransitionSegment(@, Slot(t), "Playing") ELSE @),
                       !.device.mode = IF @ = "paused" THEN "sounding" ELSE @]
        [] CurrentState(t) = "Paused" /\ ~t.active /\ HasNext(t.db, u) ->
             IF NextIs(t.db, u, {"Paused"}) /\ Has(t.db, NextChunk(t.db, u))
               THEN BeginChunk(t, NextChunk(t.db, u))
               ELSE [t EXCEPT !.db = playing(@)]
        [] OTHER -> IF Has(t.db, <<u, Whole>>) THEN BeginWhole(t, u) ELSE t

Resumed(t) == Continued(Adopted(Unclaimed([Calm(t) EXCEPT !.db.held = FALSE])))

-----------------------------------------------------------------------------
(* The daemon comes back: recovery, then a controller that adopts the      *)
(* first paused clip and rebuilds the stack from the order of the rest.    *)

SavedSlot(d, u) ==
  IF NextIs(d, u, {"Paused"}) THEN NextChunk(d, u) ELSE <<u, Whole>>

(* The n-th of some rows when the plan is read from its end.               *)
FromTheEnd(d, rows, n) ==
  CHOOSE u \in rows : Cardinality({v \in rows : d.order[v] >= d.order[u]}) = n

Reborn(t) ==
  LET d == Recovered(t.db)
      adopt == d.held /\ Paused(d) # {}
      first == First(d, Paused(d))
      others == IF adopt THEN Paused(d) \ {first} ELSE Paused(d)
  IN  [db |-> d,
       cur |-> IF adopt THEN first ELSE Nobody,
       idx |-> IF adopt THEN SavedSlot(d, first)[2] ELSE Whole,
       active |-> FALSE, watch |-> FALSE,
       device |-> [mode |-> "idle", unit |-> Outro],
       stack |-> [n \in 1 .. Cardinality(others) |-> SavedSlot(d, FromTheEnd(d, others, n))],
       mic |-> t.mic /\ d.held, armed |-> FALSE, cues |-> FALSE, raised |-> FALSE]

-----------------------------------------------------------------------------
Init ==
  /\ s = [db |-> EmptyDatabase, cur |-> Nobody, idx |-> Whole,
          active |-> FALSE, watch |-> FALSE,
          device |-> [mode |-> "idle", unit |-> Outro],
          stack |-> <<>>, mic |-> FALSE, armed |-> FALSE, cues |-> FALSE, raised |-> FALSE]
  /\ rendering = {}
  /\ step = Free
  /\ holding = {}
  /\ stops = 0

Becomes(t) == s' = t /\ UNCHANGED <<rendering, step, holding, stops>>
Rows(d)    == [s EXCEPT !.db = d]

(* Clients are served until the daemon begins to shut down.                *)
Serving == step.op # "shutdown"

(* A handler that has to release the device gives up the loop while the    *)
(* watcher is cancelled and while the session closes; one that finds       *)
(* neither runs to its end.                                                *)
Waits(op, t, next) ==
  /\ s' = IF t.watch THEN Unwatched(t) ELSE Told(t)
  /\ step' = [op |-> op, slot |-> Slot(t), next |-> next, told |-> ~t.watch]

Handle(op, t, next, Lands(_, _)) ==
  IF t.watch \/ MustStop(t)
    THEN Waits(op, t, next) /\ UNCHANGED <<rendering, holding, stops>>
    ELSE Becomes(Lands(Deactivated(Calm(t)), Slot(t)))

-----------------------------------------------------------------------------
(* The queue and the synthesis pool, as the controller sees them.          *)

Submit(u) ==
  /\ Serving /\ s.db.state[u] = Absent
  /\ \E k \in NewKeys(s.db) :
       /\ IF u \in Urgent THEN IsHeadKey(s.db, k) ELSE IsTailKey(s.db, k)
       /\ Becomes(Rows(SubmitRow(s.db, u, k)))

Cancel(u) ==
  /\ Serving /\ In(s.db, u, InputStates \cup {"Ready"})
  /\ Becomes(Rows(Transition(s.db, u, "Cancelled")))

Reorder ==
  /\ Serving /\ Pending(s.db) # {}
  /\ \E place \in Places(s.db), base \in {0} \cup {s.db.order[u] : u \in Utts} :
       IsReorderBase(s.db, base) /\ Becomes(Rows(Reordered(s.db, place, base)))

(* clear_preempted: one skip_utterance after another.                      *)
SkipAll(d, slots) ==
  LET skipped(u) == \E w \in slots : w[1] = u
  IN  [d EXCEPT
         !.state = [u \in Utts |-> IF skipped(u) THEN "Skipped" ELSE d.state[u]],
         !.child = [p \in Parts |->
                      IF p \in slots /\ d.child[p] \in {"Playing", "Paused"} THEN "Skipped"
                      ELSE IF skipped(p[1]) /\ d.child[p] \notin Terminal THEN "Cancelled"
                      ELSE d.child[p]]]

(* clear queue, clear playback: suspended clips are skipped, then the      *)
(* pending ones cancelled; what has the device goes on.                    *)
Clear(states) ==
  LET slots   == {s.stack[k] : k \in DOMAIN s.stack}
      skipped == SkipAll(s.db, {w \in slots : s.db.state[w[1]] = "Paused"})
  IN  /\ Serving /\ step = Free
      /\ Becomes([s EXCEPT !.db = CancelAll(skipped, {u \in Utts : In(skipped, u, states)}),
                           !.stack = <<>>])

TakeJob(w) ==
  /\ Cardinality(rendering) < MaxRenders
  /\ IsEarliest(s.db, {}, w)
  /\ s' = Rows(Claim(s.db, w))
  /\ rendering' = rendering \cup {w}
  /\ UNCHANGED <<step, holding, stops>>

StreamReady(w) ==
  /\ w \in rendering /\ w[1] \in Streamed /\ w \notin s.db.jobs
  /\ Active(s.db, w)
  /\ Becomes(Rows(StartStreaming(s.db, w)))

Completes(w, commits) ==
  /\ w \in rendering
  /\ s' = Rows(LastOf(s.db, commits))
  /\ rendering' = rendering \ {w}
  /\ UNCHANGED <<step, holding, stops>>

Render(w) ==
  /\ w[1] \in Streamed /\ Active(s.db, w) => w \in s.db.jobs
  /\ Completes(w, SuccessCommits(s.db, w))

RenderFails(w) == w[1] \in Fallible /\ Completes(w, FailureCommits(s.db, w))

-----------------------------------------------------------------------------
(* The device.  A live source ends only once its clip is published; one    *)
(* whose generation failed breaks off.                                     *)
DeviceEnds ==
  /\ s.device.mode = "sounding"
  /\ \E how \in {"ended", "broken"} :
       /\ IF how = "ended" THEN s.device.unit \in s.db.audio \cup {Outro}
          ELSE s.device.unit # Outro /\ (DeviceFaults \/ ~Has(s.db, s.device.unit))
       /\ Becomes([s EXCEPT !.device.mode = how])

(* Told to stop, it closes; a watcher that sees that returns: whoever      *)
(* stopped the sink owns the state change.                                 *)
DeviceCloses ==
  /\ s.device.mode = "stopping"
  /\ Becomes([s EXCEPT !.device.mode = "idle", !.watch = FALSE])

(* _watch and _watch_outro: the session came to its own end.               *)
Finished(t, to) ==
  LET d == IF t.idx = Whole THEN t.db ELSE TransitionSegment(t.db, Slot(t), to)
      closes == to = "Failed" \/ t.idx = Whole \/ Unfinished(d, t.cur) = {}
  IN  IF Engaged(t) /\ ~Misplaced(t)
        THEN [t EXCEPT !.db = IF closes THEN Transition(d, t.cur, to) ELSE d]
        ELSE t

Watch ==
  LET e == Finished(s, IF s.device.mode = "ended" THEN "Played" ELSE "Failed")
      f == [e EXCEPT !.active = FALSE, !.watch = FALSE, !.idx = Whole, !.device.mode = "idle"]
  IN  /\ s.watch /\ s.device.mode \in {"ended", "broken"}
      /\ Becomes(CASE s.device.unit = Outro ->
                        [s EXCEPT !.active = FALSE, !.watch = FALSE, !.device.mode = "idle"]
                   [] s.device.unit # Outro /\ CurrentLive(e) /\ HasNext(e.db, e.cur) -> f
                   [] OTHER -> [f EXCEPT !.cur = Nobody])

-----------------------------------------------------------------------------
(* One pass of the plan loop, up to the next await.                        *)
Plan ==
  /\ step = Free
  /\ IF s.db.held \/ Takeovers(s) = {}
       THEN Becomes(RestOfPass(IF s.db.held THEN Calm(s) ELSE Restored(Calm(s))))
       ELSE LET u == First(s.db, Takeovers(s))
                lands(t, slot) == TakenOver(IF CurrentLive(t) THEN Suspended(t, slot) ELSE t, u)
            IN  Handle("plan", s, u, lands)

Skip ==
  /\ step = Free
  /\ LET t == Unclaimed(s)
     IN  IF Engaged(t) THEN Handle("skip", t, Nobody, SkipLands) ELSE Becomes(t)

(* Chunk steps need an unheld clip with a chunk on the device.             *)
Navigable == step = Free /\ ~s.db.held /\ s.cur # Nobody /\ s.idx # Whole

NextSegment ==
  /\ Navigable /\ s.idx + 1 < Chunks[s.cur]
  /\ Handle("next", s, Nobody, NextLands)

PreviousSegment ==
  /\ Navigable /\ s.idx > 0
  /\ Has(s.db, <<s.cur, s.idx - 1>>)
  /\ Handle("previous", s, Nobody, PreviousLands)

RestartCurrent ==
  /\ step = Free /\ ~s.db.held /\ Engaged(s)
  /\ s.cur \in Composite \/ Has(s.db, <<s.cur, Whole>>)
  /\ Handle("restart", s, Nobody, RestartLands)

(* The watcher is gone: the session, if one is open, is told to stop.      *)
TellsToStop ==
  /\ step # Free
  /\ ~step.told /\ MustStop(s)
  /\ s' = Told(s)
  /\ step' = [step EXCEPT !.told = TRUE]
  /\ UNCHANGED <<rendering, holding, stops>>

(* The device is free: the handler that waited for it goes on.             *)
Released == step # Free /\ IF step.told THEN Over(s) ELSE ~MustStop(s)

Landed(t) ==
  CASE step.op = "plan"     -> TakenOver(Suspended(t, step.slot), step.next)
    [] step.op = "skip"     -> SkipLands(t, step.slot)
    [] step.op = "next"     -> NextLands(t, step.slot)
    [] step.op = "previous" -> PreviousLands(t, step.slot)
    [] step.op = "restart"  -> RestartLands(t, step.slot)

Land ==
  /\ Released /\ Serving
  /\ s' = Landed(Deactivated(Calm(s)))
  /\ step' = Free
  /\ UNCHANGED <<rendering, holding, stops>>

-----------------------------------------------------------------------------
(* Pause, resume and the microphone do not take the transport lock.        *)

(* With nothing current, what the device may be playing is the outro.      *)
Hold(kind, t, Then(_)) ==
  IF t.cur = Nobody /\ t.active /\ (t.watch \/ MustStop(t))
    THEN /\ s' = IF t.watch THEN Unwatched(Held(t)) ELSE Told(Held(t))
         /\ holding' = holding \cup {[kind |-> kind, told |-> ~t.watch]}
         /\ UNCHANGED <<rendering, step, stops>>
    ELSE Becomes(IF HoldRaises(t) THEN Held(t)
                 ELSE Then(IF t.cur = Nobody THEN Deactivated(Held(t)) ELSE Held(t)))

Waiting(kind) == \E told \in BOOLEAN : [kind |-> kind, told |-> told] \in holding

TookFloor(t, arm) == [t EXCEPT !.mic = TRUE, !.armed = @ \/ arm]

Pause ==
  /\ Serving /\ ~Waiting("pause")
  /\ Hold("pause", Unclaimed(s), LAMBDA t : t)

(* The listener starts to speak; the policy may arm the resume at once.    *)
Interrupt ==
  /\ ~s.db.held /\ ~Waiting("interrupt")
  /\ \E arm \in BOOLEAN : Hold("interrupt", s, LAMBDA t : TookFloor(t, arm))

HoldTells(h) ==
  /\ h \in holding /\ ~h.told /\ MustStop(s)
  /\ s' = Told(s)
  /\ holding' = (holding \ {h}) \cup {[h EXCEPT !.told = TRUE]}
  /\ UNCHANGED <<rendering, step, stops>>

HoldLands(h) ==
  /\ h \in holding
  /\ IF h.told THEN Over(s) ELSE ~MustStop(s)
  /\ \E arm \in IF h.kind = "interrupt" THEN BOOLEAN ELSE {FALSE} :
       s' = IF h.kind = "interrupt" THEN TookFloor(Deactivated(s), arm) ELSE Deactivated(s)
  /\ holding' = holding \ {h}
  /\ UNCHANGED <<rendering, step, stops>>

Resume == Serving /\ Becomes(Resumed(s))

Arm ==
  /\ Serving /\ s.db.held
  /\ Becomes([s EXCEPT !.armed = TRUE])

(* The microphone is quiet again.                                          *)
AutoResume == s.armed /\ Becomes(Resumed(s))

-----------------------------------------------------------------------------
(* The daemon dies, or is told to stop: an unheld clip is held, the device *)
(* released, and what it was playing saved.  Both end in a new start.      *)
Begins(t) ==
  /\ s' = Reborn(t)
  /\ rendering' = {} /\ step' = Free /\ holding' = {}

Crash ==
  /\ stops < MaxStops
  /\ stops' = stops + 1
  /\ Begins(s)

Shutdown ==
  LET t == IF CurrentLive(s) /\ ~s.db.held THEN Held(Unclaimed(s)) ELSE s
  IN  /\ step = Free /\ stops < MaxStops
      /\ stops' = stops + 1
      /\ IF t.watch \/ MustStop(t)
           THEN Waits("shutdown", t, Nobody) /\ UNCHANGED <<rendering, holding>>
           ELSE Begins(t)

ShutdownLands ==
  /\ Released /\ ~Serving
  /\ Begins([s EXCEPT !.db = IF s.cur # Nobody THEN SuspendPlayback(@, Slot(s)) ELSE @])
  /\ UNCHANGED stops

-----------------------------------------------------------------------------
Pool   == \E w \in Units : TakeJob(w) \/ StreamReady(w) \/ Render(w) \/ RenderFails(w)
Sink   == DeviceEnds \/ DeviceCloses \/ Watch
Loop   == Plan \/ TellsToStop \/ Land \/ \E h \in holding : HoldTells(h) \/ HoldLands(h)

(* What the listener and their clients ask for.                            *)
Commands ==
  \/ \E u \in Utts : Submit(u) \/ Cancel(u)
  \/ \E states \in {PendingStates, {"Ready"}} : Clear(states)
  \/ Reorder \/ Skip \/ NextSegment \/ PreviousSegment \/ RestartCurrent
  \/ Pause \/ Interrupt \/ Resume \/ Arm \/ AutoResume

Next ==
  \/ Pool \/ Sink \/ Loop \/ Commands
  \/ Crash \/ Shutdown \/ ShutdownLands

Spec == Init /\ [][Next]_vars

(* The loop, the device and the engines go on, and engines return; nothing *)
(* is assumed of the listener, the clients or crashes.                     *)
FairSpec ==
  /\ Spec
  /\ WF_vars(Plan) /\ WF_vars(TellsToStop) /\ WF_vars(Land) /\ WF_vars(ShutdownLands)
  /\ WF_vars(Watch)
  /\ WF_vars(DeviceEnds) /\ WF_vars(DeviceCloses)
  /\ WF_vars(Pool)
  /\ \A h \in [kind : Holds, told : BOOLEAN] : WF_vars(HoldTells(h) \/ HoldLands(h))

-----------------------------------------------------------------------------
(* The controller, its rows and its handlers hold values of their types.   *)
TypeOK ==
  /\ s.db \in Database
  /\ Slot(s) \in Slots \cup {<<Nobody, Whole>>}
  /\ s.active \in BOOLEAN /\ s.watch \in BOOLEAN /\ s.cues \in BOOLEAN
  /\ s.mic \in BOOLEAN /\ s.armed \in BOOLEAN /\ s.raised \in BOOLEAN
  /\ s.device \in [mode : Modes, unit : Units \cup {Outro}]
  /\ s.stack \in Seq(Slots)
  /\ rendering \subseteq Units
  /\ step \in Steps \cup {Free}
  /\ holding \subseteq [kind : Holds, told : BOOLEAN]
  /\ stops \in 0 .. MaxStops

(* Playback is strictly serialized: nothing is started over a session that *)
(* is still open, or without audio behind it.                              *)
DeviceIsExclusive == ~s.raised

(* And the controller always knows when a session is open, so that pause,  *)
(* skip and the next start can stop it.                                    *)
SessionIsKnown == s.active \/ SessionOver(s)

(* The device is the controller's: both of these.                          *)
DeviceIsOwned == DeviceIsExclusive /\ SessionIsKnown

(* The rows say what the device does: only the current utterance is        *)
(* Playing, and while it has the device its chunk is in the state it is    *)
(* in.                                                                     *)
RowsFollowDevice ==
  /\ \A u \in Utts : s.db.state[u] = "Playing" => u = s.cur
  /\ s.active /\ CurrentLive(s) =>
       /\ Engaged(s)
       /\ s.cur \in Composite => s.idx # Whole /\ s.db.child[Slot(s)] = CurrentState(s)
       /\ s.device.unit = Slot(s)

(* While playback is held nothing sounds; an outro being ended may.        *)
HeldIsSilent == s.db.held => s.device.mode # "sounding"

(* While playback is not held, a session the controller believes to be     *)
(* active is not muted.                                                    *)
UnheldIsHeard == ~s.db.held /\ s.active => s.device.mode # "paused"

(* A clip has the device, or is waiting with it, only once it has begun.   *)
CurrentHasBegun == s.cur # Nobody => CurrentState(s) \in {"Playing", "Paused"} \cup Terminal

(* Nothing suspended is forgotten or suspended twice: every paused clip is *)
(* current or on the stack, once.                                          *)
SuspendedOnce ==
  /\ \A u \in Paused(s.db) : u = s.cur \/ \E k \in DOMAIN s.stack : s.stack[k][1] = u
  /\ \A j, k \in DOMAIN s.stack : s.stack[j][1] = s.stack[k][1] => j = k
  /\ \A k \in DOMAIN s.stack : s.stack[k][1] # s.cur

(* No chunk of a settled document is owed, whatever was in flight.         *)
SettledMeansClosed ==
  \A p \in Parts : s.db.state[p[1]] \in Terminal => s.db.child[p] \in Terminal

(* What has been played, skipped, cancelled or has failed stays that way,  *)
(* whatever a handler that waited for the device decided before.           *)
OutcomesAreFinal ==
  [][\A u \in Utts : s.db.state[u] \in Terminal => s'.db.state[u] = s.db.state[u]]_vars

(* The microphone's notice and the armed resume belong to a hold.          *)
NoticeMeansHeld == s.mic \/ s.armed => s.db.held

(* Once the listener stops giving orders and playback is not held, all     *)
(* that was submitted is said, given up or refused.                        *)
EverythingIsSaid ==
  (<>[](~s.db.held) /\ <>[][~Commands]_vars) => <>[](\A u \in Utts : ~IsLive(s.db, u))
=============================================================================
