-------------------------------- MODULE Store --------------------------------
(***************************************************************************)
(* The durable rows of store.py and the operations that rewrite them.      *)
(*                                                                         *)
(* A database is a record d with                                           *)
(*   d.state[u]  state column of utterances (Absent: never submitted)      *)
(*   d.order[u]  order_key column: the plan is read in increasing order    *)
(*   d.child[p]  state column of utterance_segments, p = <<u, index>>      *)
(*   d.audio     units whose audio_path column is not NULL                 *)
(*   d.jobs      rows of streaming_jobs: units advertised as playable      *)
(*               while their generation is still unfinished                *)
(*   d.held      the playback_held setting                                 *)
(*                                                                         *)
(* An operation that commits once is an operator from a database to the    *)
(* next one.  An operation that commits several times, and may be cut      *)
(* short by a crash after any of them, is the sequence of the databases it *)
(* leaves behind, one per commit.                                          *)
(***************************************************************************)
EXTENDS Lifecycle, Integers, Sequences, FiniteSets

CONSTANTS Utts,     \* the utterances that may be submitted
          Chunks,   \* Chunks[u]: number of child rows u is submitted with, 0 if none
          Urgent    \* those submitted with priority urgent or preempt

ASSUME StoreAssumption ==
  /\ Chunks \in [Utts -> Nat]
  /\ Urgent \subseteq Utts

(* The unit of synthesis and playback: a child, or a childless utterance   *)
(* as a whole (COALESCE(segment_index, -1) in the claim's ordering).       *)
Whole       == -1
ChildrenOf(u) == {u} \X (0 .. Chunks[u] - 1)
Parts       == UNION {ChildrenOf(u) : u \in Utts}
Composite   == {u \in Utts : Chunks[u] > 0}
Units       == Parts \cup {<<u, Whole>> : u \in Utts \ Composite}

Database ==
  [state : [Utts -> State \cup {Absent}],
   order : [Utts -> Int],
   child : [Parts -> State \cup {Absent}],
   audio : SUBSET Units,
   jobs  : SUBSET Units,
   held  : BOOLEAN]

EmptyDatabase ==
  [state |-> [u \in Utts |-> Absent],
   order |-> [u \in Utts |-> 0],
   child |-> [p \in Parts |-> Absent],
   audio |-> {},
   jobs  |-> {},
   held  |-> FALSE]

IsLive(d, u) == d.state[u] \in Live
In(d, u, states) == d.state[u] \in states
UnitState(d, w) == IF w[2] = Whole THEN d.state[w[1]] ELSE d.child[w]

(* next_unfinished_segment: the first child still owed.                    *)
Unfinished(d, u) == {p \in ChildrenOf(u) : d.child[p] \notin Terminal}
IsNextUnfinished(d, p) ==
  p \in Unfinished(d, p[1]) /\ \A q \in Unfinished(d, p[1]) : p[2] <= q[2]

-----------------------------------------------------------------------------
(* Submission.  A new row takes the key after every row's, or, at the      *)
(* head, the key before every live row's.                                  *)

Submitted(d) == {u \in Utts : d.state[u] # Absent}
LiveRows(d)  == {u \in Utts : IsLive(d, u)}

IsTailKey(d, k) ==
  IF Submitted(d) = {}
    THEN k = 1
    ELSE \E u \in Submitted(d) : /\ k = d.order[u] + 1
                                 /\ \A v \in Submitted(d) : d.order[v] < k

(* Mutant: forgets to step before the first live row.                      *)
IsHeadKeyShared(d, k) ==
  IF LiveRows(d) = {}
    THEN k = 0
    ELSE \E u \in LiveRows(d) : /\ k = d.order[u]
                                /\ \A v \in LiveRows(d) : k <= d.order[v]

IsHeadKey(d, k) ==
  IF LiveRows(d) = {}
    THEN k = 0
    ELSE \E u \in LiveRows(d) : /\ k = d.order[u] - 1
                                /\ \A v \in LiveRows(d) : k < d.order[v]

(* Every key either rule can choose.                                       *)
NewKeys(d) == {0, 1} \cup {d.order[u] + 1 : u \in Utts} \cup {d.order[u] - 1 : u \in Utts}

SubmitRow(d, u, k) ==
  [d EXCEPT !.state[u] = "Queued",
            !.order[u] = k,
            !.child = [p \in Parts |-> IF p[1] = u THEN "Queued" ELSE d.child[p]]]

-----------------------------------------------------------------------------
(* Transitions.  Settling a parent cancels its unfinished children in the  *)
(* same transaction.                                                       *)

(* Mutant: the children of a settled parent are left open.                 *)
TransitionNoCascade(d, u, to) == [d EXCEPT !.state[u] = to]

Transition(d, u, to) ==
  [d EXCEPT !.state[u] = to,
            !.child = [p \in Parts |->
                         IF to \in Terminal /\ p[1] = u /\ d.child[p] \notin Terminal
                           THEN "Cancelled" ELSE d.child[p]]]

TransitionSegment(d, p, to) == [d EXCEPT !.child[p] = to]

-----------------------------------------------------------------------------
(* Synthesis: claiming, advertising a stream, publishing, failing.         *)

(* One unit of work that claim_for_synthesis may return: a Queued child of *)
(* a live parent or a Queued childless utterance, of an engine not held.   *)
Claimable(d, held, w) ==
  /\ w[1] \notin held
  /\ IF w[2] = Whole THEN d.state[w[1]] = "Queued"
                     ELSE d.child[w] = "Queued" /\ IsLive(d, w[1])

Precedes(d, v, w) ==
  \/ d.order[v[1]] < d.order[w[1]]
  \/ d.order[v[1]] = d.order[w[1]] /\ v[2] < w[2]

IsEarliest(d, held, w) ==
  /\ Claimable(d, held, w)
  /\ \A v \in Units : Claimable(d, held, v) => ~Precedes(d, v, w)

(* Mutants: the claimed child stays Queued; the parent stays Queued.       *)
ClaimUnmarked(d, w) ==
  IF d.state[w[1]] = "Queued" THEN Transition(d, w[1], "Synthesizing") ELSE d
ClaimParentAsleep(d, w) ==
  IF w[2] = Whole THEN Transition(d, w[1], "Synthesizing")
                  ELSE TransitionSegment(d, w, "Synthesizing")

Claim(d, w) ==
  LET u == w[1]
      e == IF w[2] = Whole THEN d ELSE TransitionSegment(d, w, "Synthesizing")
  IN  IF d.state[u] = "Queued" THEN Transition(e, u, "Synthesizing") ELSE e

(* synthesis_work_is_active: whether a claimed job may still publish.      *)
Active(d, w) ==
  /\ IsLive(d, w[1])
  /\ IF w \in d.jobs THEN UnitState(d, w) \notin Terminal
                     ELSE UnitState(d, w) = "Synthesizing"

StartStreaming(d, w) ==
  LET u == w[1]
      e == [d EXCEPT !.jobs = @ \cup {w}]
      f == IF w[2] = Whole THEN e ELSE TransitionSegment(e, w, "Ready")
  IN  IF ~Active(d, w) \/ w \in d.jobs
        THEN d
        ELSE IF w[2] = Whole \/ (w[2] = 0 /\ d.state[u] = "Synthesizing")
               THEN Transition(f, u, "Ready")
               ELSE f

DiscardJob(d, w) == [d EXCEPT !.jobs = @ \ {w}]

(* Mutants: the path goes to the utterance instead of the child; the path  *)
(* and what follows it (the end of the job, the duration) are two          *)
(* transactions; the first child does not promote its parent.              *)
PublishToParent(d, w) ==
  LET e == [d EXCEPT !.audio = @ \cup {<<w[1], Whole>>}]
  IN  IF w \in d.jobs THEN <<DiscardJob(e, w)>>
      ELSE IF w[2] = Whole THEN <<Transition(e, w[1], "Ready")>>
      ELSE <<TransitionSegment(e, w, "Ready")>>
PublishInTwo(d, w) ==
  LET e == [d EXCEPT !.audio = @ \cup {w}]
      f == IF w[2] = Whole THEN Transition(e, w[1], "Ready") ELSE TransitionSegment(e, w, "Ready")
  IN  IF w \in d.jobs THEN <<e, DiscardJob(e, w)>> ELSE <<f, f>>
PublishAlone(d, w) ==
  LET e == [d EXCEPT !.audio = @ \cup {w}]
  IN  IF w \in d.jobs THEN <<DiscardJob(e, w)>>
      ELSE IF w[2] = Whole THEN <<Transition(e, w[1], "Ready")>>
      ELSE <<TransitionSegment(e, w, "Ready")>>

(* finish_synthesis: the databases after each of its commits.  A streamed  *)
(* unit's path and the end of its job are one transaction; a file-only     *)
(* child is committed before the parent it may promote.                    *)
PublishCommits(d, w) ==
  LET u == w[1]
      e == [d EXCEPT !.audio = @ \cup {w}]
      f == TransitionSegment(e, w, "Ready")
  IN  CASE w \in d.jobs -> <<DiscardJob(e, w)>>
        [] w \notin d.jobs /\ w[2] = Whole -> <<Transition(e, u, "Ready")>>
        [] OTHER -> IF w[2] = 0 /\ d.state[u] = "Synthesizing"
                      THEN <<f, Transition(f, u, "Ready")>>
                      ELSE <<f>>

(* fail_synthesis: the failed child and its cancelled siblings are         *)
(* committed before the parent.                                            *)
FailedChild(d, w) ==
  LET failing == {"Synthesizing"} \cup (IF w \in d.jobs THEN PlaybackStates ELSE {})
      e == IF d.child[w] \in failing THEN TransitionSegment(d, w, "Failed") ELSE d
  IN  [e EXCEPT !.child =
         [p \in Parts |-> IF p[1] = w[1] /\ e.child[p] \in {"Queued", "Synthesizing", "Ready"}
                            THEN "Cancelled" ELSE e.child[p]]]

FailCommits(d, w) ==
  IF w[2] = Whole
    THEN <<Transition(d, w[1], "Failed")>>
    ELSE LET e == FailedChild(d, w)
         IN  IF IsLive(e, w[1]) THEN <<e, Transition(e, w[1], "Failed")>> ELSE <<e>>

-----------------------------------------------------------------------------
(* Skipping: the active child, the parent and its unfinished siblings in   *)
(* one transaction.                                                        *)
SkipUtterance(d, u, active) ==
  Transition(IF active \in Parts /\ d.child[active] \in {"Playing", "Paused"}
               THEN TransitionSegment(d, active, "Skipped") ELSE d,
             u, "Skipped")

(* Clearing a queue cancels its rows one transaction after another, in     *)
(* plan order; these are the rows already cancelled part of the way.       *)
CancelAll(d, rows) ==
  [d EXCEPT !.state = [u \in Utts |-> IF u \in rows THEN "Cancelled" ELSE d.state[u]],
            !.child = [p \in Parts |-> IF p[1] \in rows /\ d.child[p] \notin Terminal
                                         THEN "Cancelled" ELSE d.child[p]]]

IsClearedPrefix(d, rows, done) ==
  done \subseteq rows /\ \A u \in done, v \in rows \ done : d.order[u] <= d.order[v]

(* Reordering: an exact permutation of the pending plan, keyed after       *)
(* whatever is playing or paused.                                          *)
Pending(d)  == {u \in Utts : In(d, u, PendingStates)}
Sounding(d) == {u \in Utts : In(d, u, {"Playing", "Paused"})}

IsReorderBase(d, base) ==
  IF Sounding(d) = {}
    THEN base = 0
    ELSE /\ \E u \in Sounding(d) : base = d.order[u]
         /\ \A u \in Sounding(d) : d.order[u] <= base

(* place[u]: where the client put u in the plan.                           *)
Places(d) ==
  {place \in [Pending(d) -> 1 .. Cardinality(Pending(d))] :
     \A u, v \in Pending(d) : place[u] = place[v] => u = v}

Reordered(d, place, base) ==
  [d EXCEPT !.order = [u \in Utts |-> IF u \in Pending(d) THEN base + place[u]
                                                         ELSE d.order[u]]]

-----------------------------------------------------------------------------
(* Restart recovery, first transaction: every unfinished stream goes back  *)
(* to the input queue and whatever it was feeding is held.                 *)
Interrupted(d) == {w \in d.jobs : IsLive(d, w[1])}

(* Mutant: the interrupted units keep the states their streams gave them.  *)
RecoverStreamsUnqueued(d) ==
  [d EXCEPT !.audio = @ \ Interrupted(d), !.jobs = {}]

RecoverStreams(d) ==
  LET lost == Interrupted(d)
      lostOf(v) == {w \in lost : w[1] = v}
  IN  [d EXCEPT
         !.held  = @ \/ \E w \in lost : d.state[w[1]] \in {"Playing", "Paused"},
         !.child = [p \in Parts |-> IF p \in lost /\ d.child[p] \notin Terminal
                                      THEN "Queued" ELSE d.child[p]],
         !.state = [v \in Utts |->
                      IF <<v, Whole>> \in lost THEN "Queued"
                      ELSE IF lostOf(v) # {} /\ d.state[v] = "Playing" THEN "Paused"
                      ELSE d.state[v]],
         !.audio = @ \ {w \in lost : w[2] = Whole \/ d.child[w] \notin Terminal},
         !.jobs  = {}]

(* Recovery's last pass over one utterance: a committed child outcome is   *)
(* carried to the parent that had not caught up with it.                   *)
HasFailedChild(d, u) == \E p \in ChildrenOf(u) : d.child[p] = "Failed"
AllChildrenClosed(d, u) == u \in Composite /\ Unfinished(d, u) = {}
FirstChildReady(d, u) == u \in Composite /\ d.child[<<u, 0>>] = "Ready"

(* Mutant: a finished document stays paused.                               *)
ReconciledUnplayed(d, u) ==
  CASE HasFailedChild(d, u) -> "Failed"
    [] ~HasFailedChild(d, u) /\ d.state[u] = "Queued" /\ FirstChildReady(d, u) -> "Ready"
    [] OTHER -> d.state[u]

ReconciledState(d, u) ==
  CASE HasFailedChild(d, u) -> "Failed"
    [] ~HasFailedChild(d, u) /\ d.state[u] = "Paused" /\ AllChildrenClosed(d, u) -> "Played"
    [] ~HasFailedChild(d, u) /\ d.state[u] = "Queued" /\ FirstChildReady(d, u) -> "Ready"
    [] OTHER -> d.state[u]

ReconcileCommits(d, u) ==
  LET to == ReconciledState(d, u)
      woken == Transition(d, u, "Synthesizing")
  IN  IF ~IsLive(d, u) \/ to = d.state[u] THEN <<>>
      ELSE IF d.state[u] = "Queued" THEN <<woken, Transition(woken, u, to)>>
      ELSE <<Transition(d, u, to)>>

-----------------------------------------------------------------------------
(* What a worker commits when its render returns, and when it fails.  A    *)
(* result nobody waits for any more only ends its job.                     *)
LastOf(d, commits) == IF commits = <<>> THEN d ELSE commits[Len(commits)]

ThenDiscard(d, commits, w) ==
  IF w \in LastOf(d, commits).jobs
    THEN Append(commits, DiscardJob(LastOf(d, commits), w)) ELSE commits

SuccessCommits(d, w) ==
  ThenDiscard(d, IF Active(d, w) THEN PublishCommits(d, w) ELSE <<>>, w)

FailureCommits(d, w) ==
  ThenDiscard(d, IF Active(d, w) THEN FailCommits(d, w) ELSE <<>>, w)

-----------------------------------------------------------------------------
(* Playback's own transactions.                                            *)

(* Has audio: published, or streaming from its worker.                     *)
Has(d, w) == w \in d.audio \cup d.jobs

(* suspend_playback: a stopped device's rows, whatever a hold wrote first. *)
SuspendPlayback(d, w) ==
  IF In(d, w[1], {"Playing", "Paused"})
    THEN [d EXCEPT !.state[w[1]] = "Paused",
                   !.child = [p \in Parts |-> IF p = w THEN "Paused" ELSE d.child[p]]]
    ELSE d

(* reset_segments_from, and restart_segments from child 0: every child     *)
(* from index i on that still has audio is Ready again, heard or not.      *)
Replayable == {"Ready", "Playing", "Paused", "Played", "Skipped"}

ResetSegmentsFrom(d, u, i) ==
  [d EXCEPT !.child = [p \in Parts |->
     IF p[1] = u /\ p[2] >= i /\ Has(d, p) /\ d.child[p] \in Replayable
       THEN "Ready" ELSE d.child[p]]]

ResetLands(d, u, i) == Has(d, <<u, i>>) /\ d.child[<<u, i>>] \in Replayable

-----------------------------------------------------------------------------
(* What recovery as a whole does to a database, row by row.                *)
Rested(s) == IF s = "Synthesizing" THEN "Queued" ELSE IF s = "Playing" THEN "Paused" ELSE s

ParentRested(d, u) ==
  IF <<u, Whole>> \in Interrupted(d) THEN "Queued" ELSE Rested(d.state[u])

ChildRested(d, p) ==
  IF p \in Interrupted(d) /\ d.child[p] \notin Terminal THEN "Queued" ELSE Rested(d.child[p])

ParentRecovered(d, u) ==
  LET s == ParentRested(d, u)
  IN  CASE ~IsLive(d, u) -> s
        [] IsLive(d, u) /\ HasFailedChild(d, u) -> "Failed"
        [] s = "Paused" /\ ~HasFailedChild(d, u) /\ AllChildrenClosed(d, u) -> "Played"
        [] s = "Queued" /\ ~HasFailedChild(d, u) /\ u \in Composite
             /\ ChildRested(d, <<u, 0>>) = "Ready" -> "Ready"
        [] OTHER -> s

ChildRecovered(d, p) ==
  IF ParentRecovered(d, p[1]) \in Terminal /\ d.child[p] \notin Terminal
    THEN "Cancelled" ELSE ChildRested(d, p)

Recovered(d) ==
  LET after == [u \in Utts |-> ParentRecovered(d, u)]
  IN  [state |-> after,
       order |-> d.order,
       child |-> [p \in Parts |-> ChildRecovered(d, p)],
       audio |-> d.audio \ {w \in Interrupted(d) : UnitState(d, w) \notin Terminal},
       jobs  |-> {},
       held  |-> \/ d.held
                 \/ \E w \in Interrupted(d) : In(d, w[1], {"Playing", "Paused"})
                 \/ \E u \in Utts : after[u] \in PlaybackStates]
=============================================================================
