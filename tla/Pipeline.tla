------------------------------- MODULE Pipeline -------------------------------
(***************************************************************************)
(* From accepted text to playable audio: the store, the synthesis pool and *)
(* restart recovery, with the store writes of playback going on beside     *)
(* them.                                                                   *)
(*                                                                         *)
(* The daemon is one event loop.  A handler runs without interruption      *)
(* between two awaits, but it may commit several times, and the process    *)
(* may die after any of those commits: a handler is the sequence of its    *)
(* commits, and a step either performs all of them or performs a proper    *)
(* prefix and takes the daemon down.                                       *)
(*                                                                         *)
(* Playback appears here only as the rows it writes.  Its own state - the  *)
(* hold, the device, the takeover stack, the awaits inside its handlers,   *)
(* and the chunk navigation that reopens finished children - is not part   *)
(* of this module.                                                         *)
(***************************************************************************)
EXTENDS Store

CONSTANTS Workers,      \* the pool's workers
          Streamed,     \* utterances whose engine is a StreamingEngine
          WarmedUp,     \* utterances whose engine is not the startup engine
          CommitFaults, \* whether a publication's commit may be refused by SQLite
          MaxCrashes    \* bound: how often the daemon dies

ASSUME PipelineAssumption ==
  /\ Streamed \subseteq Utts
  /\ WarmedUp \subseteq Utts
  /\ CommitFaults \in BOOLEAN
  /\ MaxCrashes \in Nat

VARIABLES db,        \* the durable database
          missing,   \* units whose audio_path names a discarded file
          job,       \* job[k]: what worker k is doing (volatile)
          warm,      \* the startup engine's first-run assets are prepared
          phase,     \* "up", "down", or the pass recovery is in
          crashes

vars == <<db, missing, job, warm, phase, crashes>>

(* A worker's render runs on a thread.  A streaming engine's first buffer  *)
(* posts a callback to the loop ("announced"), which advertises the clip   *)
(* when it runs ("streaming").                                             *)
Stage == {"rendering", "announced", "streaming"}
Idle  == [stage |-> "idle"]
Jobs  == [stage : Stage, unit : Units]

Busy(k)    == job[k] # Idle
RecoveryPhases == {"streams", "children", "parents", "reconcile"}

(* Engines held while the startup engine warms up.                         *)
(* Mutant: the hold is never lifted.                                       *)
HoldingForever == Utts \ WarmedUp
Holding == IF warm THEN {} ELSE Utts \ WarmedUp

Down ==
  /\ crashes < MaxCrashes
  /\ crashes' = crashes + 1
  /\ phase' = "down"
  /\ job' = [k \in Workers |-> Idle]
  /\ warm' = FALSE

(* The handler dies after a proper prefix of its commits.                  *)
DiesAmid(commits) ==
  /\ \E i \in 1 .. Len(commits) - 1 : db' = commits[i]
  /\ Down
  /\ UNCHANGED missing

-----------------------------------------------------------------------------
Init ==
  /\ db = EmptyDatabase
  /\ missing = {}
  /\ job = [k \in Workers |-> Idle]
  /\ warm = FALSE
  /\ phase = "up"
  /\ crashes = 0

(* A client submits u, at the head of the plan when its priority asks.     *)
Submit(u) ==
  /\ phase = "up"
  /\ db.state[u] = Absent
  /\ \E k \in NewKeys(db) :
       /\ IF u \in Urgent THEN IsHeadKey(db, k) ELSE IsTailKey(db, k)
       /\ db' = SubmitRow(db, u, k)
  /\ UNCHANGED <<missing, job, warm, phase, crashes>>

Cancel(u) ==
  /\ phase = "up"
  /\ In(db, u, InputStates \cup {"Ready"})
  /\ db' = Transition(db, u, "Cancelled")
  /\ UNCHANGED <<missing, job, warm, phase, crashes>>

(* clear input, clear playback (the Ready rows) and clear queue.           *)
Clear(states) ==
  LET rows == {u \in Utts : In(db, u, states)}
  IN  /\ phase = "up"
      /\ \/ /\ db' = CancelAll(db, rows)
            /\ UNCHANGED <<missing, job, warm, phase, crashes>>
         \/ /\ \E done \in (SUBSET rows) \ {rows, {}} :
                 IsClearedPrefix(db, rows, done) /\ db' = CancelAll(db, done)
            /\ Down
            /\ UNCHANGED missing

Reorder ==
  /\ phase = "up"
  /\ \E place \in Places(db), base \in {0} \cup {db.order[u] : u \in Utts} :
       IsReorderBase(db, base) /\ db' = Reordered(db, place, base)
  /\ UNCHANGED <<missing, job, warm, phase, crashes>>

(* The first-run preparation of the startup engine ends, well or badly.    *)
FinishWarmup ==
  /\ phase = "up"
  /\ ~warm
  /\ warm' = TRUE
  /\ UNCHANGED <<db, missing, job, phase, crashes>>

-----------------------------------------------------------------------------
(* The synthesis pool.                                                     *)

TakeJob(k) ==
  /\ phase = "up"
  /\ ~Busy(k)
  /\ \E w \in Units :
       /\ IsEarliest(db, Holding, w)
       /\ db' = Claim(db, w)
       /\ job' = [job EXCEPT ![k] = [stage |-> "rendering", unit |-> w]]
  /\ UNCHANGED <<missing, warm, phase, crashes>>

(* The render thread appends its first buffer and posts _stream_ready.     *)
FirstBuffer(k) ==
  /\ Busy(k)
  /\ job[k].stage = "rendering"
  /\ job[k].unit[1] \in Streamed
  /\ job' = [job EXCEPT ![k].stage = "announced"]
  /\ UNCHANGED <<db, missing, warm, phase, crashes>>

StreamReady(k) ==
  /\ Busy(k)
  /\ job[k].stage = "announced"
  /\ db' = StartStreaming(db, job[k].unit)
  /\ job' = [job EXCEPT ![k].stage = "streaming"]
  /\ UNCHANGED <<missing, warm, phase, crashes>>

(* The render's result reaches the worker after every callback the thread  *)
(* posted before it.  A result nobody waits for any more is discarded.     *)
Rendered(k) ==
  /\ Busy(k)
  /\ job[k].stage = IF job[k].unit[1] \in Streamed THEN "streaming" ELSE "rendering"

RenderFailed(k) == Busy(k) /\ job[k].stage # "announced"

Complete(k, commits) ==
  \/ /\ db' = LastOf(db, commits)
     /\ job' = [job EXCEPT ![k] = Idle]
     /\ UNCHANGED <<missing, warm, phase, crashes>>
  \/ DiesAmid(commits)

Publish(k) == Rendered(k) /\ Complete(k, SuccessCommits(db, job[k].unit))
Fail(k)    == RenderFailed(k) /\ Complete(k, FailureCommits(db, job[k].unit))

(* SQLite refuses one of the commits of a publication: the transaction is  *)
(* rolled back, the published file is discarded, and the failure is        *)
(* recorded if what was committed before leaves the job active.  After its *)
(* last transition a file-only child has one more commit, the document's   *)
(* duration, once every child of it is measured.                           *)
PublishRefused(k) ==
  LET w == job[k].unit
      commits == PublishCommits(db, w)
      measures == /\ w[2] # Whole /\ w \notin db.jobs
                  /\ ChildrenOf(w[1]) \subseteq db.audio \cup {w}
  IN  /\ CommitFaults
      /\ Rendered(k) /\ Active(db, w)
      /\ \E i \in 0 .. IF measures THEN Len(commits) ELSE Len(commits) - 1 :
           LET kept == IF i = 0 THEN db ELSE commits[i]
           IN  /\ db' = LastOf(kept, FailureCommits(kept, w))
               /\ missing' = IF i = 0 THEN missing ELSE missing \cup {w}
      /\ job' = [job EXCEPT ![k] = Idle]
      /\ UNCHANGED <<warm, phase, crashes>>

-----------------------------------------------------------------------------
(* The rows playback writes.                                               *)

Writes(commits) ==
  \/ /\ db' = LastOf(db, commits)
     /\ UNCHANGED <<missing, job, warm, phase, crashes>>
  \/ DiesAmid(commits)

NobodyElsePlays(u) == \A v \in Utts \ {u} : db.state[v] # "Playing"

(* The plan loop and _start_saved: the parent starts, then its child.      *)
Begin(w) ==
  LET u == w[1]
      e == IF db.state[u] = "Playing" THEN db ELSE Transition(db, u, "Playing")
  IN  /\ phase = "up" /\ ~db.held
      /\ In(db, u, PlaybackStates)
      /\ NobodyElsePlays(u)
      /\ Has(db, w)
      /\ IF w[2] = Whole
           THEN db.state[u] # "Playing" /\ Writes(<<e>>)
           ELSE /\ IsNextUnfinished(db, w)
                /\ db.child[w] \in {"Ready", "Paused"}
                /\ LET f == TransitionSegment(e, w, "Playing")
                   IN  Writes(IF e = db THEN <<f>> ELSE <<e, f>>)

(* _hold: the setting, then the sounding child, then its parent.           *)
ChildPaused(d, u) ==
  [d EXCEPT !.child = [p \in Parts |-> IF p[1] = u /\ d.child[p] = "Playing"
                                         THEN "Paused" ELSE d.child[p]]]

Hold ==
  LET e == [db EXCEPT !.held = TRUE]
  IN  /\ phase = "up"
      /\ \/ /\ \A u \in Utts : db.state[u] # "Playing"
            /\ Writes(<<e>>)
         \/ \E u \in Utts :
              /\ db.state[u] = "Playing"
              /\ LET f == ChildPaused(e, u)
                 IN  Writes(IF f = e THEN <<e, Transition(e, u, "Paused")>>
                                     ELSE <<e, f, Transition(f, u, "Paused")>>)

(* suspend_playback, when a takeover releases the device: one transaction. *)
Suspend(u) ==
  /\ phase = "up"
  /\ db.state[u] = "Playing"
  /\ Writes(<<Transition(ChildPaused(db, u), u, "Paused")>>)

(* resume: the setting, then a paused utterance.  A device that is still   *)
(* open resumes the child before its parent; one that has to be reopened   *)
(* starts the parent first; a chunk that cannot sound yet is left to the   *)
(* plan loop.                                                              *)
Resume(u) ==
  LET e == [db EXCEPT !.held = FALSE]
      f == Transition(e, u, "Playing")
  IN  /\ phase = "up" /\ db.state[u] = "Paused" /\ NobodyElsePlays(u)
      /\ IF u \in Composite
           THEN \E w \in Unfinished(db, u) :
                  /\ IsNextUnfinished(db, w)
                  /\ IF db.child[w] = "Paused" /\ Has(db, w)
                       THEN \/ Writes(<<e, f, TransitionSegment(f, w, "Playing")>>)
                            \/ Writes(<<e, TransitionSegment(e, w, "Playing"),
                                           TransitionSegment(f, w, "Playing")>>)
                       ELSE Writes(<<e, f>>)
           ELSE Has(db, <<u, Whole>>) /\ Writes(<<e, f>>)

ReleaseHold ==
  /\ phase = "up" /\ db.held
  /\ \A u \in Utts : db.state[u] # "Paused"
  /\ Writes(<<[db EXCEPT !.held = FALSE]>>)

(* The clip reaches its end of stream, which a live source is given only   *)
(* once its generation is published: the child, then the parent it was the *)
(* last unfinished child of.                                               *)
EndOfClip(w) ==
  LET u == w[1]
      e == TransitionSegment(db, w, "Played")
  IN  /\ phase = "up"
      /\ UnitState(db, w) = "Playing" /\ db.state[u] = "Playing"
      /\ w \in db.audio /\ w \notin db.jobs
      /\ Writes(CASE w[2] = Whole -> <<Transition(db, u, "Played")>>
                  [] w[2] # Whole /\ Unfinished(e, u) = {} -> <<e, Transition(e, u, "Played")>>
                  [] OTHER -> <<e>>)

DeviceError(w) ==
  LET u == w[1]
      e == TransitionSegment(db, w, "Failed")
  IN  /\ phase = "up"
      /\ UnitState(db, w) = "Playing" /\ db.state[u] = "Playing"
      /\ Writes(IF w[2] = Whole THEN <<Transition(db, u, "Failed")>>
                ELSE <<e, Transition(e, u, "Failed")>>)

(* next_segment: give up the sounding chunk, unless it is the last.        *)
NextSegment(p) ==
  /\ phase = "up"
  /\ db.state[p[1]] = "Playing" /\ db.child[p] = "Playing"
  /\ p[2] + 1 < Chunks[p[1]]
  /\ Writes(<<TransitionSegment(db, p, "Skipped")>>)

(* skip, naming the chunk the controller holds as active (or none).        *)
Skip(u) ==
  /\ phase = "up"
  /\ In(db, u, {"Playing", "Paused"})
  /\ \E w \in ChildrenOf(u) \cup {<<u, Whole>>} :
       /\ IF \E p \in ChildrenOf(u) : db.child[p] \in {"Playing", "Paused"}
            THEN w \in Parts /\ db.child[w] \in {"Playing", "Paused"}
            ELSE w[2] = Whole
       /\ Writes(<<SkipUtterance(db, u, w)>>)

-----------------------------------------------------------------------------
(* The daemon dies between two handlers, and is started again.             *)

Crash ==
  /\ phase # "down"
  /\ Down
  /\ UNCHANGED <<db, missing>>

Restart ==
  /\ phase = "down"
  /\ phase' = "streams"
  /\ UNCHANGED <<db, missing, job, warm, crashes>>

(* Recovery, one transaction at a time.                                    *)
RecoverJobs ==
  /\ phase = "streams"
  /\ db' = RecoverStreams(db)
  /\ phase' = "children"
  /\ UNCHANGED <<missing, job, warm, crashes>>

Unrested  == {"Synthesizing", "Playing"}

RecoverChild(p) ==
  /\ phase = "children"
  /\ db.child[p] \in Unrested
  /\ db' = TransitionSegment(db, p, Rested(db.child[p]))
  /\ UNCHANGED <<missing, job, warm, phase, crashes>>

ChildrenDone ==
  /\ phase = "children"
  /\ \A p \in Parts : db.child[p] \notin Unrested
  /\ phase' = "parents"
  /\ UNCHANGED <<db, missing, job, warm, crashes>>

RecoverParent(u) ==
  /\ phase = "parents"
  /\ db.state[u] \in Unrested
  /\ db' = Transition(db, u, Rested(db.state[u]))
  /\ UNCHANGED <<missing, job, warm, phase, crashes>>

ParentsDone ==
  /\ phase = "parents"
  /\ \A u \in Utts : db.state[u] \notin Unrested
  /\ phase' = "reconcile"
  /\ UNCHANGED <<db, missing, job, warm, crashes>>

Reconcile(u) ==
  /\ phase = "reconcile"
  /\ ReconcileCommits(db, u) # <<>>
  /\ Writes(ReconcileCommits(db, u))

(* Recovery is complete.  The daemon holds playback if anything at all is  *)
(* on the playback side, and starts its workers.                           *)
ComeUp ==
  /\ phase = "reconcile"
  /\ \A u \in Utts : ReconcileCommits(db, u) = <<>>
  /\ db' = [db EXCEPT !.held = @ \/ \E u \in Utts : In(db, u, PlaybackStates)]
  /\ phase' = "up"
  /\ UNCHANGED <<missing, job, warm, crashes>>

-----------------------------------------------------------------------------
Pool(k) == TakeJob(k) \/ FirstBuffer(k) \/ StreamReady(k) \/ Publish(k) \/ Fail(k)
           \/ PublishRefused(k)

Recovery ==
  \/ Restart \/ RecoverJobs \/ ChildrenDone \/ ParentsDone \/ ComeUp
  \/ \E p \in Parts : RecoverChild(p)
  \/ \E u \in Utts : RecoverParent(u) \/ Reconcile(u)

Playback ==
  \/ \E w \in Units : Begin(w) \/ EndOfClip(w) \/ DeviceError(w)
  \/ \E p \in Parts : NextSegment(p)
  \/ \E u \in Utts : Skip(u) \/ Suspend(u) \/ Resume(u)
  \/ Hold \/ ReleaseHold

Next ==
  \/ \E u \in Utts : Submit(u) \/ Cancel(u)
  \/ \E states \in {InputStates, {"Ready"}, PendingStates} : Clear(states)
  \/ Reorder
  \/ FinishWarmup
  \/ \E k \in Workers : Pool(k)
  \/ Playback
  \/ Recovery
  \/ Crash

Spec == Init /\ [][Next]_vars

(* The pool's workers run, engines return or fail, the daemon is started   *)
(* again when it dies and warm-up ends: launchd keeps the process alive,   *)
(* and a parked worker looks for work at least every half second.          *)
FairSpec ==
  /\ Spec
  /\ \A k \in Workers : WF_vars(Pool(k))
  /\ WF_vars(Recovery)
  /\ WF_vars(FinishWarmup)

-----------------------------------------------------------------------------
(* The rows and the pool hold values of their types.                       *)
TypeOK ==
  /\ db \in Database
  /\ missing \subseteq Units
  /\ job \in [Workers -> Jobs \cup {Idle}]
  /\ warm \in BOOLEAN
  /\ phase \in RecoveryPhases \cup {"up", "down"}
  /\ crashes \in Nat

(* After every single commit, a settled utterance has no child that is     *)
(* still owed: nothing can play, be claimed or be published below it.      *)
SettledMeansClosed ==
  \A u \in Utts : db.state[u] \in Terminal =>
    \A p \in ChildrenOf(u) : db.child[p] \in Terminal

(* The plan is a total order: no two live utterances share a place.        *)
PlanIsTotal ==
  \A u, v \in LiveRows(db) : db.order[u] = db.order[v] => u = v

(* No two workers ever render the same text.                               *)
WorkIsClaimedOnce ==
  \A j, k \in Workers : Busy(j) /\ Busy(k) /\ job[j].unit = job[k].unit => j = k

(* While the daemon runs, everything still owed to the listener can        *)
(* reach them: each unit of a live utterance waits to be claimed, is being *)
(* rendered, or has audio - published, or streaming from a worker.  Text   *)
(* survives every crash, recovery and race with a cancellation.            *)
Produces(k, w) == Busy(k) /\ job[k].unit = w
NothingStranded ==
  phase = "up" =>
    \A w \in Units : IsLive(db, w[1]) /\ UnitState(db, w) \notin Terminal =>
      \/ UnitState(db, w) = "Queued"
      \/ UnitState(db, w) = "Synthesizing" /\ \E k \in Workers : Produces(k, w)
      \/ /\ UnitState(db, w) \in PlaybackStates
         /\ \/ w \in db.audio
            \/ w \in db.jobs /\ \E k \in Workers : Produces(k, w) /\ job[k].stage = "streaming"

(* A worker's result is always a move the lifecycle permits.  A            *)
(* TransitionError raised while a failure is recorded leaves the worker    *)
(* and takes the whole pool down with it.                                  *)
CompletionsAreLegal ==
  \A k \in Workers : Busy(k) /\ Active(db, job[k].unit) =>
    LET w == job[k].unit  s == db.state[w[1]]
    IN  /\ CanTransition(s, "Failed")
        /\ w[2] = Whole /\ w \notin db.jobs => CanTransition(s, "Ready")

(* While the daemon runs, a parent is in step with its children: no live   *)
(* parent has a failed child, a parent on the input side has not left its  *)
(* first child behind, and one that has begun still has a child to say.    *)
ParentKeepsUp ==
  phase = "up" => \A u \in Composite : IsLive(db, u) =>
    /\ ~HasFailedChild(db, u)
    /\ Unfinished(db, u) # {}
    /\ In(db, u, InputStates) => db.child[<<u, 0>>] \in InputStates
    /\ db.state[u] = "Synthesizing" => db.child[<<u, 0>>] = "Synthesizing"

(* The file behind every path a live utterance owns exists.                *)
OwnedAudioExists ==
  \A w \in db.audio : IsLive(db, w[1]) => w \notin missing

(* Only a refused commit costs a file, and only that of a chunk that was   *)
(* not streamed: a document's first one, whose path is committed before    *)
(* the parent it promotes, or the one that completed the document, whose   *)
(* duration could not be recorded.  Clips, streams and all other chunks    *)
(* keep theirs.                                                            *)
LossesAreContained ==
  \A w \in missing :
    /\ CommitFaults /\ w \in Parts \cap db.audio /\ w[1] \notin Streamed
    /\ w[2] # 0 => /\ ChildrenOf(w[1]) \subseteq db.audio
                   /\ \A v \in missing : v[1] = w[1] /\ v[2] # 0 => v = w

(* Recovery is the same however often it is interrupted: no step of it,    *)
(* and no crash during it, changes the database it is heading for, and it  *)
(* declares the daemon up exactly there.                                   *)
RecoveryIsOneStep ==
  [][phase # "up" => /\ Recovered(db') = Recovered(db)
                     /\ phase' = "up" => db' = Recovered(db)]_vars

(* Every accepted text is eventually rendered, refused or cancelled.       *)
EveryTextIsServed ==
  \A w \in Units :
    UnitState(db, w) = "Queued" /\ IsLive(db, w[1])
      ~> ~(UnitState(db, w) = "Queued" /\ IsLive(db, w[1]))
=============================================================================
