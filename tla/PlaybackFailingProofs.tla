----------------------- MODULE PlaybackFailingProofs -----------------------
(***************************************************************************)
(* What holds of the playback controller when documents and streams fail   *)
(* as well, as long as no closing cue is played. A row may then be settled *)
(* under its own session, and an index may outlive the clips it points to; *)
(* what is suspended stays paused until it is settled or taken from the    *)
(* stack, and every notice and armed resume has a hold of its own.         *)
(*                                                                         *)
(* Kept is the part of Ctl (PlaybackProofs) that survives that, Fine adds  *)
(* what a handler leaves behind, and Moves says which changes of the rows  *)
(* keep both. The proof again follows the methods of the controller.       *)
(*                                                                         *)
(* The last part is about outcomes, and holds with the closing cue as well.*)
(***************************************************************************)
EXTENDS PlaybackProofs

Bookmarks == Utts \X (Nat \cup {Whole})
Rests     == {"Paused"} \cup Terminal

AnyController ==
  [db : Database, cur : Utts \cup {Nobody}, idx : Nat \cup {Whole},
   active : BOOLEAN, watch : BOOLEAN,
   device : [mode : Modes, unit : Units \cup {Outro}],
   stack : Seq(Bookmarks), mic : BOOLEAN, armed : BOOLEAN, cues : BOOLEAN, raised : BOOLEAN]

Lined(d) == d \in Database /\ Ordered(d) /\ \A u \in Utts : d.state[u] # "Submitted"

(* What is paused is c or on the stack q, once.                            *)
Stacked(d, c, q) ==
  /\ \A u \in Paused(d) : u = c \/ \E k \in DOMAIN q : q[k][1] = u
  /\ \A j, k \in DOMAIN q : q[j][1] = q[k][1] => j = k
  /\ \A k \in DOMAIN q : q[k][1] # c /\ d.state[q[k][1]] \in Rests

(* What holds of rows, stack and flags if c is what is current.            *)
Kept(t, c) ==
  /\ t \in AnyController /\ Lined(t.db) /\ Stacked(t.db, c, t.stack)
  /\ t.mic \/ t.armed => t.db.held
  /\ ~t.cues

Tied(t) ==
  /\ t.watch => t.active
  /\ t.cur = Nobody => ~t.active /\ t.idx = Whole
  /\ t.active /\ CurrentState(t) = "Paused" => ~Misplaced(t)

Fine(t) == Kept(t, t.cur) /\ Tied(t)

Inactive(t) == ~t.active /\ ~t.watch

(* The handler that waits finds the slot it was called for.                *)
Awaits(t, p) ==
  p # Free =>
    /\ t.active /\ ~t.watch /\ p.slot = Slot(t)
    /\ p.op = "plan" => p.next \in Utts

Waitings == [op : TransportOps, slot : Bookmarks, next : Utts \cup {Nobody}, told : BOOLEAN]

KeptInv == /\ Fine(s) /\ Awaits(s, step) /\ step \in Waitings \cup {Free}
           /\ holding = {}

LEMMA AnyFields ==
  ASSUME NEW t \in AnyController
  PROVE  /\ t.db \in Database /\ t.cur \in Utts \cup {Nobody} /\ t.idx \in Nat \cup {Whole}
         /\ t.active \in BOOLEAN /\ t.watch \in BOOLEAN
         /\ t.device \in [mode : Modes, unit : Units \cup {Outro}]
         /\ t.stack \in Seq(Bookmarks)
         /\ t.mic \in BOOLEAN /\ t.armed \in BOOLEAN /\ t.cues \in BOOLEAN /\ t.raised \in BOOLEAN
BY DEF AnyController

LEMMA Marked ==
  ASSUME NEW q \in Seq(Bookmarks), NEW k \in DOMAIN q
  PROVE  q[k] \in Bookmarks /\ q[k][1] \in Utts /\ q[k][2] \in Nat \cup {Whole}
BY DEF Bookmarks

-----------------------------------------------------------------------------
(* What a transaction may do to the rows: c may move as it likes as long   *)
(* as it is not revived, no other row is paused, and none that rests moves *)
(* except to its end.                                                      *)
Moves(d, e, c) ==
  /\ e \in Database /\ e.order = d.order
  /\ \A u \in Utts :
       /\ IsLive(e, u) => IsLive(d, u)
       /\ e.state[u] = "Submitted" => d.state[u] = "Submitted"
       /\ u # c => /\ e.state[u] = "Paused" => d.state[u] = "Paused"
                   /\ d.state[u] \in Rests => e.state[u] \in Rests

LEMMA MovesSame ==
  ASSUME NEW d, NEW e \in Database, NEW c, e.order = d.order, e.state = d.state
  PROVE  Moves(d, e, c)
BY DEF Moves, IsLive

LEMMA MovesTrans ==
  ASSUME NEW d, NEW e, NEW f, NEW c, Moves(d, e, c), Moves(e, f, c)
  PROVE  Moves(d, f, c)
BY DEF Moves

LEMMA MovesLined ==
  ASSUME NEW d, NEW e, NEW c, Lined(d), Moves(d, e, c)
  PROVE  Lined(e)
BY DEF Moves, Lined, Ordered

LEMMA MovesStacked ==
  ASSUME NEW d \in Database, NEW e, NEW c, NEW q \in Seq(Bookmarks), Stacked(d, c, q), Moves(d, e, c)
  PROVE  Stacked(e, c, q)
<1>1. \A u \in Paused(e) : u = c \/ u \in Paused(d)
  BY DEF Moves, Paused
<1>2. \A k \in DOMAIN q : e.state[q[k][1]] \in Rests
  BY Marked DEF Moves, Stacked
<1> QED BY <1>1, <1>2 DEF Stacked

LEMMA TransitionMoves ==
  ASSUME NEW d \in Database, NEW u \in Utts, NEW to \in State, NEW c, to # "Submitted",
         to \in Live => IsLive(d, u),
         u = c \/ to \in Terminal \/ (to # "Paused" /\ d.state[u] \notin Rests)
  PROVE  LET e == Transition(d, u, to)
         IN  /\ e \in Database /\ Moves(d, e, c)
             /\ e.state = [d.state EXCEPT ![u] = to]
             /\ e.held = d.held /\ e.audio = d.audio /\ e.jobs = d.jobs
             /\ e.order = d.order
<1> DEFINE e == Transition(d, u, to)
<1>1. /\ e.state = [d.state EXCEPT ![u] = to] /\ e.order = d.order
      /\ e.held = d.held /\ e.audio = d.audio /\ e.jobs = d.jobs
  BY DEF Transition, Database
<1>2. e \in Database
  BY StateFacts, ZenonT(60) DEF Transition, Database
<1>3. \A x \in Utts : e.state[x] = IF x = u THEN to ELSE d.state[x]
  BY <1>1 DEF Database
<1> HIDE DEF e
<1>4. Moves(d, e, c)
  BY <1>1, <1>2, <1>3, StateFacts DEF Moves, IsLive, Rests
<1> QED BY <1>1, <1>2, <1>4 DEF e

LEMMA SegmentMoves ==
  ASSUME NEW d \in Database, NEW p, NEW to \in State, NEW c
  PROVE  LET e == TransitionSegment(d, p, to)
         IN  /\ e \in Database /\ Moves(d, e, c) /\ e.state = d.state /\ e.order = d.order
             /\ e.held = d.held /\ e.audio = d.audio /\ e.jobs = d.jobs
<1> DEFINE e == TransitionSegment(d, p, to)
<1>1. /\ e \in Database /\ e.state = d.state /\ e.order = d.order
      /\ e.held = d.held /\ e.audio = d.audio /\ e.jobs = d.jobs
  BY DEF TransitionSegment, Database
<1> QED BY <1>1, MovesSame

LEMMA ResetMoves ==
  ASSUME NEW d \in Database, NEW u, NEW i, NEW c
  PROVE  LET e == ResetSegmentsFrom(d, u, i)
         IN  /\ e \in Database /\ Moves(d, e, c) /\ e.state = d.state /\ e.order = d.order
             /\ e.held = d.held /\ e.audio = d.audio /\ e.jobs = d.jobs
<1> DEFINE e == ResetSegmentsFrom(d, u, i)
<1>1. /\ e.state = d.state /\ e.order = d.order
      /\ e.held = d.held /\ e.audio = d.audio /\ e.jobs = d.jobs
  BY DEF ResetSegmentsFrom, Database
<1>2. e \in Database
  BY DEF ResetSegmentsFrom, Database, State
<1> QED BY <1>1, <1>2, MovesSame

LEMMA SuspendMoves ==
  ASSUME NEW d \in Database, NEW w, w[1] \in Utts
  PROVE  LET e == SuspendPlayback(d, w)
         IN  /\ e \in Database /\ Moves(d, e, w[1]) /\ e.order = d.order
             /\ e.held = d.held /\ e.audio = d.audio /\ e.jobs = d.jobs
             /\ d.state[w[1]] \in Heard => e.state = [d.state EXCEPT ![w[1]] = "Paused"]
<1> DEFINE e == SuspendPlayback(d, w)
<1>1. CASE d.state[w[1]] \notin Heard
  <2>1. e = d
    BY <1>1 DEF SuspendPlayback, In, Heard
  <2> QED BY <1>1, <2>1, MovesSame
<1>2. CASE d.state[w[1]] \in Heard
  <2>1. e = [d EXCEPT !.state[w[1]] = "Paused",
                      !.child = [p \in Parts |-> IF p = w THEN "Paused" ELSE d.child[p]]]
    BY <1>2 DEF SuspendPlayback, In, Heard
  <2>2. /\ e.state = [d.state EXCEPT ![w[1]] = "Paused"] /\ e.order = d.order
        /\ e.held = d.held /\ e.audio = d.audio /\ e.jobs = d.jobs
    BY <2>1 DEF Database
  <2>3. e \in Database
    <3> DEFINE u == w[1]
               z == [d EXCEPT !.state[u] = "Paused"]
               h == [p \in Parts |-> IF p = w THEN "Paused" ELSE d.child[p]]
    <3>1. z \in Database
      BY DEF Database, State
    <3>2. h \in [Parts -> State \cup {Absent}]
      BY DEF Database, State
    <3>3. e = [z EXCEPT !.child = h]
      BY <2>1 DEF Database
    <3> HIDE DEF e, z, h
    <3> QED BY <3>1, <3>2, <3>3 DEF Database
  <2>4. \A x \in Utts : e.state[x] = IF x = w[1] THEN "Paused" ELSE d.state[x]
    BY <2>2 DEF Database
  <2> HIDE DEF e
  <2>5. Moves(d, e, w[1])
    BY <1>2, <2>2, <2>3, <2>4, StateFacts DEF Moves, IsLive, Heard, Rests
  <2> QED BY <2>2, <2>3, <2>5 DEF e
<1> QED BY <1>1, <1>2

LEMMA SkipMoves ==
  ASSUME NEW d \in Database, NEW u \in Utts, NEW w, NEW c
  PROVE  LET e == SkipUtterance(d, u, w)
         IN  /\ e \in Database /\ Moves(d, e, c) /\ e.held = d.held
             /\ e.state = [d.state EXCEPT ![u] = "Skipped"]
             /\ e.audio = d.audio /\ e.jobs = d.jobs
<1> DEFINE f == IF w \in Parts /\ d.child[w] \in {"Playing", "Paused"}
                  THEN TransitionSegment(d, w, "Skipped") ELSE d
           to == "Skipped"
<1>1. to \in State /\ to \in Terminal /\ to # "Submitted" /\ to \notin Live
  BY StateFacts
<1>2. /\ f \in Database /\ Moves(d, f, c) /\ f.state = d.state
      /\ f.held = d.held /\ f.audio = d.audio /\ f.jobs = d.jobs
  BY <1>1, SegmentMoves, MovesSame
<1>3. SkipUtterance(d, u, w) = Transition(f, u, to)
  BY DEF SkipUtterance
<1> HIDE DEF f, to
<1>4. LET e == Transition(f, u, to)
      IN  /\ e \in Database /\ Moves(f, e, c)
          /\ e.state = [f.state EXCEPT ![u] = to]
          /\ e.held = f.held /\ e.audio = f.audio /\ e.jobs = f.jobs
  BY <1>1, <1>2, TransitionMoves
<1> QED BY <1>2, <1>3, <1>4, MovesTrans DEF to

(* What the pool commits, row by row.                                      *)
LEMMA ClaimRows ==
  ASSUME NEW d \in Database, NEW w \in Units, NEW held, Claimable(d, held, w)
  PROVE  LET e == Claim(d, w)
         IN  /\ e \in Database /\ e.order = d.order /\ e.held = d.held
             /\ e.audio = d.audio /\ e.jobs = d.jobs
             /\ \A u \in Utts : \/ e.state[u] = d.state[u]
                                \/ d.state[u] = "Queued" /\ e.state[u] = "Synthesizing"
             /\ \A p \in Parts : \/ e.child[p] = d.child[p]
                                 \/ d.child[p] = "Queued" /\ e.child[p] = "Synthesizing"
<1> DEFINE f == IF w[2] = Whole THEN d ELSE TransitionSegment(d, w, "Synthesizing")
           to == "Synthesizing"
           u == w[1]
           e == Claim(d, w)
<1>1. u \in Utts /\ to \in State /\ to # "Submitted" /\ to \notin Rests /\ to # "Paused"
  BY UnitShape, StateFacts DEF Rests
<1>2. /\ f \in Database /\ f.state = d.state /\ f.order = d.order /\ f.held = d.held
      /\ f.audio = d.audio /\ f.jobs = d.jobs
  BY <1>1, SegmentMoves
<1>3. \A p \in Parts : \/ f.child[p] = d.child[p]
                       \/ d.child[p] = "Queued" /\ f.child[p] = "Synthesizing"
  BY DEF TransitionSegment, Database, Claimable
<1>4. CASE d.state[u] # "Queued"
  <2>1. e = f
    BY <1>4 DEF Claim
  <2> HIDE DEF f, e
  <2> QED BY <1>2, <1>3, <2>1 DEF e
<1>5. CASE d.state[u] = "Queued"
  <2>1. e = Transition(f, u, to)
    BY <1>5 DEF Claim
  <2> HIDE DEF f, to, e, u
  <2>2. IsLive(f, u) /\ f.state[u] \notin Rests
    BY <1>2, <1>5, StateFacts DEF IsLive, Rests
  <2>3. /\ e \in Database /\ e.state = [f.state EXCEPT ![u] = to]
        /\ e.held = f.held /\ e.audio = f.audio /\ e.jobs = f.jobs /\ e.order = f.order
    BY <1>1, <1>2, <2>1, <2>2, TransitionMoves
  <2>4. e.child = f.child
    BY <1>1, <1>2, <2>1, StateFacts DEF Transition, Database, to
  <2> QED BY <1>1, <1>2, <1>3, <1>5, <2>3, <2>4 DEF Database, e, to
<1> QED BY <1>4, <1>5

LEMMA StreamRows ==
  ASSUME NEW d \in Database, NEW w \in Units
  PROVE  LET e == StartStreaming(d, w)
         IN  /\ e \in Database /\ e.order = d.order /\ e.held = d.held
             /\ e.audio = d.audio /\ e.jobs \subseteq d.jobs \cup {w} /\ d.jobs \subseteq e.jobs
             /\ \A u \in Utts : \/ e.state[u] = d.state[u]
                                \/ /\ d.state[u] = "Synthesizing" /\ e.state[u] = "Ready"
                                   /\ u = w[1] /\ w \in e.jobs
             /\ \A p \in Parts : \/ e.child[p] = d.child[p]
                                 \/ /\ d.child[p] = "Synthesizing" /\ e.child[p] = "Ready"
                                    /\ p = w /\ w \in e.jobs /\ IsLive(d, p[1])
<1> DEFINE j == d.jobs \cup {w}
           g == [d EXCEPT !.jobs = @ \cup {w}]
           f == IF w[2] = Whole THEN g ELSE TransitionSegment(g, w, "Ready")
           to == "Ready"
           u == w[1]
           e == StartStreaming(d, w)
<1>1. CASE ~Active(d, w) \/ w \in d.jobs
  <2>1. e = d
    BY <1>1 DEF StartStreaming
  <2> QED BY <2>1
<1>2. CASE Active(d, w) /\ w \notin d.jobs
  <2>1. UnitState(d, w) = "Synthesizing" /\ u \in Utts /\ IsLive(d, u)
    BY <1>2, UnitShape DEF Active
  <2>2. to \in State /\ to # "Submitted" /\ to \notin Rests /\ to # "Paused" /\ to \notin Terminal
    BY StateFacts DEF Rests
  <2>3. /\ g \in Database /\ g.state = d.state /\ g.child = d.child /\ g.order = d.order
        /\ g.held = d.held /\ g.audio = d.audio /\ g.jobs = j
    BY DEF Database
  <2> HIDE DEF g
  <2>4. /\ f \in Database /\ f.state = d.state /\ f.order = d.order /\ f.held = d.held
        /\ f.audio = d.audio /\ f.jobs = j
    <3> DEFINE h == TransitionSegment(g, w, "Ready")
    <3> HIDE DEF j
    <3>1. /\ h \in Database /\ h.state = g.state /\ h.order = g.order /\ h.held = g.held
          /\ h.audio = g.audio /\ h.jobs = g.jobs
      BY <2>2, <2>3, SegmentMoves
    <3>2. f = g \/ f = h
      OBVIOUS
    <3> HIDE DEF f, h
    <3> QED BY <2>3, <3>1, <3>2
  <2>5. \A p \in Parts : \/ f.child[p] = d.child[p]
                         \/ d.child[p] = "Synthesizing" /\ f.child[p] = "Ready" /\ p = w
    BY <2>1, <2>3 DEF TransitionSegment, Database, UnitState
  <2> DEFINE wakes == w[2] = Whole \/ (w[2] = 0 /\ d.state[u] = "Synthesizing")
  <2>6. e = IF wakes THEN Transition(f, u, to) ELSE f
    BY <1>2 DEF StartStreaming, g
  <2>7. wakes => d.state[u] = "Synthesizing"
    BY <2>1 DEF UnitState
  <2>9. w \in j /\ j \subseteq d.jobs \cup {w} /\ d.jobs \subseteq j
    OBVIOUS
  <2>8. \A p \in Parts : p = w => IsLive(d, p[1])
    BY <2>1
  <2> HIDE DEF f, to, e, u, wakes, j
  <2>10. CASE ~wakes
    BY <2>4, <2>5, <2>6, <2>8, <2>9, <2>10 DEF e
  <2>11. CASE wakes
    <3>1. IsLive(f, u) /\ f.state[u] \notin Rests
      BY <2>4, <2>7, <2>11, StateFacts DEF IsLive, Rests
    <3>2. e = Transition(f, u, to)
      BY <2>6, <2>11
    <3>3. /\ e \in Database /\ e.state = [f.state EXCEPT ![u] = to]
          /\ e.held = f.held /\ e.audio = f.audio /\ e.jobs = f.jobs /\ e.order = f.order
      BY <2>1, <2>2, <2>4, <3>1, <3>2, TransitionMoves
    <3>4. e.child = f.child
      BY <2>2, <2>4, <3>2 DEF Transition, Database
    <3>5. \A x \in Utts : e.state[x] = IF x = u THEN "Ready" ELSE d.state[x]
      BY <2>4, <3>3 DEF Database, to
    <3> QED BY <2>4, <2>5, <2>7, <2>8, <2>9, <2>11, <3>3, <3>4, <3>5 DEF e, u
  <2> QED BY <2>10, <2>11
<1> QED BY <1>1, <1>2

LEMMA LastThenDiscarded ==
  ASSUME NEW d, NEW w, NEW c,
         \/ c = <<>>
         \/ \E g : c = <<g>>
         \/ \E g, h : c = <<g, h>>
  PROVE  LET e == LastOf(d, c)
         IN  LastOf(d, ThenDiscard(d, c, w)) = IF w \in e.jobs THEN DiscardJob(e, w) ELSE e
<1> DEFINE e == LastOf(d, c)
           x == DiscardJob(e, w)
           t == Append(c, x)
<1>1. CASE w \notin e.jobs
  BY <1>1 DEF ThenDiscard
<1>2. CASE w \in e.jobs
  <2>1. ThenDiscard(d, c, w) = t
    BY <1>2 DEF ThenDiscard
  <2> HIDE DEF x
  <2>2. LastOf(d, t) = x
    <3>1. CASE c = <<>>
      BY <3>1 DEF LastOf
    <3>2. CASE \E g : c = <<g>>
      BY <3>2 DEF LastOf
    <3>3. CASE \E g, h : c = <<g, h>>
      BY <3>3 DEF LastOf
    <3> QED BY <3>1, <3>2, <3>3
  <2> QED BY <1>2, <2>1, <2>2 DEF x
<1> QED BY <1>1, <1>2

LEMMA Discarded ==
  ASSUME NEW d \in Database, NEW w
  PROVE  LET e == IF w \in d.jobs THEN DiscardJob(d, w) ELSE d
         IN  /\ e \in Database /\ e.order = d.order /\ e.held = d.held
             /\ e.state = d.state /\ e.child = d.child /\ e.audio = d.audio
             /\ e.jobs = d.jobs \ {w}
<1>1. CASE w \in d.jobs
  <2> DEFINE j == d.jobs \ {w}
             e == DiscardJob(d, w)
  <2>1. /\ e \in Database /\ e.order = d.order /\ e.held = d.held
        /\ e.state = d.state /\ e.child = d.child /\ e.audio = d.audio
        /\ e.jobs = j
    BY DEF DiscardJob, Database
  <2> QED BY <1>1, <2>1
<1>2. CASE w \notin d.jobs
  BY <1>2
<1> QED BY <1>1, <1>2

LEMMA SuccessRows ==
  ASSUME NEW d \in Database, NEW w \in Units
  PROVE  LET e == LastOf(d, SuccessCommits(d, w))
         IN  /\ e \in Database /\ e.order = d.order /\ e.held = d.held
             /\ e.jobs = d.jobs \ {w} /\ d.audio \subseteq e.audio
             /\ Active(d, w) => w \in e.audio
             /\ \A u \in Utts : \/ e.state[u] = d.state[u]
                                \/ /\ d.state[u] = "Synthesizing" /\ e.state[u] = "Ready"
                                   /\ u = w[1] /\ w \in e.audio
             /\ \A p \in Parts : \/ e.child[p] = d.child[p]
                                 \/ /\ d.child[p] = "Synthesizing" /\ e.child[p] = "Ready"
                                    /\ p = w /\ w \in e.audio /\ IsLive(d, p[1])
<1> DEFINE g == [d EXCEPT !.audio = @ \cup {w}]
           f == TransitionSegment(g, w, "Ready")
           to == "Ready"
           u == w[1]
           c == IF Active(d, w) THEN PublishCommits(d, w) ELSE <<>>
           k == LastOf(d, c)
           e == LastOf(d, SuccessCommits(d, w))
<1>1. u \in Utts
  BY UnitShape
<1>2. to \in State /\ to # "Submitted" /\ to \notin Rests /\ to # "Paused" /\ to \notin Terminal
  BY StateFacts DEF Rests
<1>3. /\ g \in Database /\ g.state = d.state /\ g.child = d.child /\ g.order = d.order
      /\ g.held = d.held /\ g.audio = d.audio \cup {w} /\ g.jobs = d.jobs
  BY DEF Database
<1> HIDE DEF g
<1>4. /\ f \in Database /\ f.state = d.state /\ f.order = d.order /\ f.held = d.held
      /\ f.audio = g.audio /\ f.jobs = d.jobs
  BY <1>2, <1>3, SegmentMoves
<1>5. \A x \in Database : x.state[u] = "Synthesizing" =>
        LET y == Transition(x, u, to)
        IN  /\ y \in Database /\ y.order = x.order /\ y.held = x.held /\ y.audio = x.audio
            /\ y.jobs = x.jobs /\ y.child = x.child
            /\ \A v \in Utts : y.state[v] = IF v = u THEN "Ready" ELSE x.state[v]
  <2> SUFFICES ASSUME NEW x \in Database, x.state[u] = "Synthesizing"
               PROVE  LET y == Transition(x, u, to)
                      IN  /\ y \in Database /\ y.order = x.order /\ y.held = x.held
                          /\ y.audio = x.audio /\ y.jobs = x.jobs /\ y.child = x.child
                          /\ \A v \in Utts : y.state[v] = IF v = u THEN "Ready" ELSE x.state[v]
    OBVIOUS
  <2> DEFINE y == Transition(x, u, to)
  <2>1. IsLive(x, u) /\ x.state[u] \notin Rests
    BY StateFacts DEF IsLive, Rests
  <2>2. y.child = x.child
    BY <1>2 DEF Transition, Database
  <2> HIDE DEF to, u
  <2>3. /\ y \in Database /\ y.state = [x.state EXCEPT ![u] = to]
        /\ y.held = x.held /\ y.audio = x.audio /\ y.jobs = x.jobs /\ y.order = x.order
    BY <1>1, <1>2, <2>1, TransitionMoves
  <2> QED BY <2>2, <2>3 DEF Database, to
<1> HIDE DEF to
<1> DEFINE Rowwise(y) ==
             /\ y \in Database /\ y.order = d.order /\ y.held = d.held
             /\ y.jobs \subseteq d.jobs /\ d.jobs \ {w} \subseteq y.jobs
             /\ d.audio \subseteq y.audio /\ (Active(d, w) => w \in y.audio)
             /\ \A v \in Utts : \/ y.state[v] = d.state[v]
                                \/ /\ d.state[v] = "Synthesizing" /\ y.state[v] = "Ready"
                                   /\ v = w[1] /\ w \in y.audio
             /\ \A p \in Parts : \/ y.child[p] = d.child[p]
                                 \/ /\ d.child[p] = "Synthesizing" /\ y.child[p] = "Ready"
                                    /\ p = w /\ w \in y.audio /\ IsLive(d, p[1])
<1>6. /\ \/ c = <<>>
         \/ \E x : c = <<x>>
         \/ \E x, y : c = <<x, y>>
      /\ Rowwise(k)
  <2>1. CASE ~Active(d, w)
    <3>1. c = <<>>
      BY <2>1
    <3>2. k = d
      BY <3>1 DEF LastOf
    <3> HIDE DEF c, k
    <3> QED BY <2>1, <3>1, <3>2
  <2>2. CASE Active(d, w) /\ w \in d.jobs
    <3> DEFINE y == DiscardJob(g, w)
    <3>1. c = <<y>>
      BY <2>2 DEF PublishCommits, g
    <3>2. /\ y \in Database /\ y.order = d.order /\ y.held = d.held
          /\ y.state = d.state /\ y.child = d.child /\ y.audio = d.audio \cup {w}
          /\ y.jobs = d.jobs \ {w}
      BY <1>3, <2>2, Discarded
    <3> HIDE DEF y, c
    <3>3. k = y
      BY <3>1 DEF LastOf
    <3> HIDE DEF k
    <3> QED BY <3>1, <3>2, <3>3
  <2>3. CASE Active(d, w) /\ w \notin d.jobs /\ w[2] = Whole
    <3> DEFINE y == Transition(g, u, to)
    <3>1. c = <<y>>
      BY <2>3 DEF PublishCommits, g, to
    <3>2. g.state[u] = "Synthesizing"
      BY <1>3, <2>3 DEF Active, UnitState
    <3>3. /\ y \in Database /\ y.order = g.order /\ y.held = g.held /\ y.audio = g.audio
          /\ y.jobs = g.jobs /\ y.child = g.child
          /\ \A v \in Utts : y.state[v] = IF v = u THEN "Ready" ELSE g.state[v]
      BY <1>3, <1>5, <3>2
    <3> HIDE DEF y, c
    <3>4. k = y
      BY <3>1 DEF LastOf
    <3> HIDE DEF k
    <3> QED BY <1>1, <1>3, <3>1, <3>2, <3>3, <3>4
  <2>4. CASE Active(d, w) /\ w \notin d.jobs /\ w[2] # Whole
    <3>1. w \in Parts /\ d.child[w] = "Synthesizing" /\ IsLive(d, w[1])
      BY <2>4, UnitShape DEF Active, UnitState
    <3>2. \A p \in Parts : f.child[p] = IF p = w THEN "Ready" ELSE d.child[p]
      BY <1>3, <3>1 DEF TransitionSegment, Database
    <3>3. CASE ~(w[2] = 0 /\ d.state[u] = "Synthesizing")
      <4>1. c = <<f>>
        BY <2>4, <3>3 DEF PublishCommits, g
      <4> HIDE DEF f, c
      <4>2. k = f
        BY <4>1 DEF LastOf
      <4> HIDE DEF k
      <4> QED BY <1>3, <1>4, <3>1, <3>2, <4>1, <4>2
    <3>4. CASE w[2] = 0 /\ d.state[u] = "Synthesizing"
      <4> DEFINE y == Transition(f, u, to)
      <4>1. c = <<f, y>>
        BY <2>4, <3>4 DEF PublishCommits, g, to
      <4> HIDE DEF f, c
      <4>2. /\ y \in Database /\ y.order = f.order /\ y.held = f.held /\ y.audio = f.audio
            /\ y.jobs = f.jobs /\ y.child = f.child
            /\ \A v \in Utts : y.state[v] = IF v = u THEN "Ready" ELSE f.state[v]
        BY <1>4, <1>5, <3>4
      <4> HIDE DEF y
      <4>3. k = y
        BY <4>1 DEF LastOf
      <4> HIDE DEF k
      <4> QED BY <1>3, <1>4, <3>1, <3>2, <3>4, <4>1, <4>2, <4>3
    <3> QED BY <3>3, <3>4
  <2> QED BY <2>1, <2>2, <2>3, <2>4
<1>7. e = IF w \in k.jobs THEN DiscardJob(k, w) ELSE k
  <2>1. SuccessCommits(d, w) = ThenDiscard(d, c, w)
    BY DEF SuccessCommits
  <2> HIDE DEF c, Rowwise
  <2> QED BY <1>6, <2>1, LastThenDiscarded
<1> HIDE DEF k, e
<1>8. /\ e \in Database /\ e.order = k.order /\ e.held = k.held
      /\ e.state = k.state /\ e.child = k.child /\ e.audio = k.audio
      /\ e.jobs = k.jobs \ {w}
  BY <1>6, <1>7, Discarded
<1> QED BY <1>6, <1>8 DEF e

LEMMA FailureRows ==
  ASSUME NEW d \in Database, NEW w \in Units
  PROVE  LET e == LastOf(d, FailureCommits(d, w))
         IN  /\ e \in Database /\ e.order = d.order /\ e.held = d.held
             /\ e.jobs = d.jobs \ {w} /\ e.audio = d.audio
             /\ \A u \in Utts : \/ e.state[u] = d.state[u]
                                \/ IsLive(d, u) /\ e.state[u] = "Failed" /\ u = w[1]
             /\ \A p \in Parts : \/ e.child[p] = d.child[p]
                                 \/ e.child[p] \in Terminal /\ p[1] = w[1]
<1> DEFINE u == w[1]
           to == "Failed"
           c == IF Active(d, w) THEN FailCommits(d, w) ELSE <<>>
           k == LastOf(d, c)
           e == LastOf(d, FailureCommits(d, w))
           Rowwise(y) ==
             /\ y \in Database /\ y.order = d.order /\ y.held = d.held
             /\ y.jobs = d.jobs /\ y.audio = d.audio
             /\ \A v \in Utts : \/ y.state[v] = d.state[v]
                                \/ IsLive(d, v) /\ y.state[v] = "Failed" /\ v = w[1]
             /\ \A p \in Parts : \/ y.child[p] = d.child[p]
                                 \/ y.child[p] \in Terminal /\ p[1] = w[1]
<1>1. u \in Utts /\ to \in State /\ to # "Submitted" /\ to \in Terminal /\ to \notin Live
  BY UnitShape, StateFacts
<1>2. \A x \in Database : Rowwise(x) /\ IsLive(d, u) => Rowwise(Transition(x, u, to))
  <2> SUFFICES ASSUME NEW x \in Database, Rowwise(x), IsLive(d, u)
               PROVE  Rowwise(Transition(x, u, to))
    OBVIOUS
  <2> DEFINE y == Transition(x, u, to)
  <2>1. \A p \in Parts : y.child[p] = x.child[p] \/ (y.child[p] \in Terminal /\ p[1] = u)
    BY <1>1, StateFacts DEF Transition, Database
  <2> HIDE DEF to, u
  <2>2. /\ y \in Database /\ y.state = [x.state EXCEPT ![u] = to]
        /\ y.held = x.held /\ y.audio = x.audio /\ y.jobs = x.jobs /\ y.order = x.order
    BY <1>1, TransitionMoves
  <2>3. \A v \in Utts : y.state[v] = IF v = u THEN "Failed" ELSE x.state[v]
    BY <2>2 DEF Database, to
  <2> HIDE DEF y
  <2>4. Rowwise(y)
    BY <2>1, <2>2, <2>3 DEF u
  <2> QED BY <2>4 DEF y
<1>3. /\ \/ c = <<>>
         \/ \E x : c = <<x>>
         \/ \E x, y : c = <<x, y>>
      /\ Rowwise(k)
  <2>1. CASE ~Active(d, w)
    <3>1. c = <<>>
      BY <2>1
    <3>2. k = d
      BY <3>1 DEF LastOf
    <3> HIDE DEF c, k
    <3> QED BY <3>1, <3>2
  <2>2. CASE Active(d, w) /\ w[2] = Whole
    <3> DEFINE y == Transition(d, u, to)
    <3>1. c = <<y>>
      BY <2>2 DEF FailCommits
    <3>2. Rowwise(y)
      <4>1. IsLive(d, u) /\ Rowwise(d)
        BY <2>2 DEF Active
      <4> HIDE DEF Rowwise, u, to
      <4> QED BY <1>2, <4>1
    <3> HIDE DEF y, c
    <3>3. k = y
      BY <3>1 DEF LastOf
    <3> HIDE DEF k, Rowwise
    <3> QED BY <3>1, <3>2, <3>3
  <2>3. CASE Active(d, w) /\ w[2] # Whole
    <3> DEFINE f == FailedChild(d, w)
               y == Transition(f, u, to)
    <3>1. Rowwise(f) /\ f \in Database /\ f.state = d.state
      <4> DEFINE failing == {"Synthesizing"} \cup (IF w \in d.jobs THEN PlaybackStates ELSE {})
                 g == IF d.child[w] \in failing THEN TransitionSegment(d, w, "Failed") ELSE d
                 h == [p \in Parts |-> IF p[1] = w[1] /\ g.child[p] \in {"Queued", "Synthesizing", "Ready"}
                                         THEN "Cancelled" ELSE g.child[p]]
      <4>1. /\ g \in Database /\ g.state = d.state /\ g.order = d.order /\ g.held = d.held
            /\ g.audio = d.audio /\ g.jobs = d.jobs
        BY <1>1, SegmentMoves
      <4>2. \A p \in Parts : g.child[p] = d.child[p] \/ (g.child[p] \in Terminal /\ p[1] = w[1])
        BY StateFacts DEF TransitionSegment, Database
      <4>3. f = [g EXCEPT !.child = h]
        BY DEF FailedChild
      <4> HIDE DEF g, f
      <4>4. /\ f \in Database /\ f.state = d.state /\ f.order = d.order /\ f.held = d.held
            /\ f.audio = d.audio /\ f.jobs = d.jobs /\ f.child = h
        BY <4>1, <4>3 DEF Database, State
      <4>5. \A p \in Parts : f.child[p] = d.child[p] \/ (f.child[p] \in Terminal /\ p[1] = w[1])
        BY <4>2, <4>4, StateFacts
      <4> QED BY <4>4, <4>5
    <3>2. c = IF IsLive(f, u) THEN <<f, y>> ELSE <<f>>
      BY <2>3 DEF FailCommits
    <3>3. IsLive(f, u) => IsLive(d, u)
      BY <3>1 DEF IsLive
    <3> HIDE DEF f, c, Rowwise, u, to
    <3>4. CASE IsLive(f, u)
      <4>1. Rowwise(y) /\ c = <<f, y>>
        BY <1>2, <3>1, <3>2, <3>3, <3>4
      <4> HIDE DEF y
      <4>2. k = y
        BY <4>1 DEF LastOf
      <4> QED BY <4>1, <4>2
    <3>5. CASE ~IsLive(f, u)
      <4>1. c = <<f>>
        BY <3>2, <3>5
      <4>2. k = f
        BY <4>1 DEF LastOf
      <4> QED BY <3>1, <4>1, <4>2
    <3> QED BY <3>4, <3>5
  <2> QED BY <2>1, <2>2, <2>3
<1>4. e = IF w \in k.jobs THEN DiscardJob(k, w) ELSE k
  <2>1. FailureCommits(d, w) = ThenDiscard(d, c, w)
    BY DEF FailureCommits
  <2> HIDE DEF c, Rowwise
  <2> QED BY <1>3, <2>1, LastThenDiscarded
<1> HIDE DEF k, e
<1>5. /\ e \in Database /\ e.order = k.order /\ e.held = k.held
      /\ e.state = k.state /\ e.child = k.child /\ e.audio = k.audio
      /\ e.jobs = k.jobs \ {w}
  BY <1>3, <1>4, Discarded
<1> QED BY <1>3, <1>5 DEF e

LEMMA SubmitLined ==
  ASSUME NEW d, Lined(d), NEW u \in Utts, d.state[u] = Absent, NEW k \in Int,
         IsHeadKey(d, k) \/ IsTailKey(d, k), NEW c, NEW q \in Seq(Bookmarks), Stacked(d, c, q)
  PROVE  LET e == SubmitRow(d, u, k)
         IN  /\ Lined(e) /\ Stacked(e, c, q) /\ e.held = d.held /\ e.audio = d.audio
             /\ e.jobs = d.jobs
             /\ \A v \in Utts : e.state[v] = IF v = u THEN "Queued" ELSE d.state[v]
             /\ \A p \in Parts : e.child[p] = IF p[1] = u THEN "Queued" ELSE d.child[p]
<1> DEFINE e == SubmitRow(d, u, k)
<1>1. d \in Database
  BY DEF Lined
<1>2. /\ e.held = d.held /\ e.audio = d.audio /\ e.jobs = d.jobs
      /\ \A v \in Utts : /\ e.state[v] = IF v = u THEN "Queued" ELSE d.state[v]
                         /\ e.order[v] = IF v = u THEN k ELSE d.order[v]
      /\ \A p \in Parts : e.child[p] = IF p[1] = u THEN "Queued" ELSE d.child[p]
  BY <1>1 DEF SubmitRow, Database
<1>3. e \in Database
  BY <1>1 DEF SubmitRow, Database, State
<1> HIDE DEF e
<1>4. \A v \in Utts : IsLive(d, v) => d.order[v] # k
  <2> SUFFICES ASSUME NEW v \in Utts, IsLive(d, v) PROVE d.order[v] # k
    OBVIOUS
  <2>1. d.order[v] \in Int /\ v \in LiveRows(d) /\ v \in Submitted(d)
    BY <1>1, StateFacts DEF Database, LiveRows, Submitted, IsLive
  <2>2. d.order[v] < k \/ k < d.order[v]
    BY <2>1 DEF IsHeadKey, IsTailKey
  <2> QED BY <2>1, <2>2
<1>5. Lined(e)
  BY <1>2, <1>3, <1>4 DEF Lined, Ordered, IsLive
<1>6. d.state[u] \notin Rests
  BY StateFacts DEF Rests
<1>7. Paused(e) = Paused(d)
  BY <1>2, <1>6 DEF Paused, Rests
<1>8. \A j \in DOMAIN q : e.state[q[j][1]] \in Rests
  BY <1>2, <1>6, Marked DEF Stacked
<1>9. Stacked(e, c, q)
  BY <1>7, <1>8 DEF Stacked
<1> QED BY <1>2, <1>5, <1>9 DEF e

LEMMA ReorderLined ==
  ASSUME NEW d, Lined(d), NEW place \in Places(d), NEW base \in Int, IsReorderBase(d, base)
  PROVE  LET e == Reordered(d, place, base)
         IN  /\ Lined(e) /\ e.state = d.state /\ e.child = d.child /\ e.held = d.held
             /\ e.audio = d.audio /\ e.jobs = d.jobs
<1> DEFINE e == Reordered(d, place, base)
<1>1. d \in Database
  BY DEF Lined
<1>2. \A u \in Pending(d) : place[u] \in Nat /\ place[u] > 0
  BY FS_CardinalityType DEF Places
<1>3. /\ e.state = d.state /\ e.child = d.child /\ e.audio = d.audio /\ e.jobs = d.jobs
      /\ e.held = d.held
      /\ e.order = [u \in Utts |-> IF u \in Pending(d) THEN base + place[u] ELSE d.order[u]]
  BY <1>1 DEF Reordered, Database
<1>4. e \in Database
  BY <1>1, <1>2 DEF Reordered, Database
<1> HIDE DEF e
<1>5. \A u \in Utts : IsLive(e, u) => IsLive(d, u) /\ (u \in Pending(d) \/ u \in Sounding(d))
  BY <1>1, <1>3, StateFacts DEF IsLive, Pending, Sounding, In, PendingStates, Lined, Database
<1>6. \A u \in Sounding(d) : d.order[u] <= base /\ d.order[u] \in Int
  BY <1>1 DEF IsReorderBase, Database, Sounding
<1>7. \A u, v \in Pending(d) : place[u] = place[v] => u = v
  BY DEF Places
<1>8. Ordered(e)
  <2> SUFFICES ASSUME NEW u \in Utts, NEW v \in Utts, IsLive(e, u), IsLive(e, v),
                      e.order[u] = e.order[v]
               PROVE  u = v
    BY DEF Ordered
  <2>1. CASE u \in Pending(d) /\ v \in Pending(d)
    <3>1. place[u] \in Nat /\ place[v] \in Nat /\ base + place[u] = base + place[v]
      BY <1>2, <1>3, <2>1
    <3>2. place[u] = place[v]
      BY <3>1
    <3> QED BY <1>7, <2>1, <3>2
  <2>2. \A x, y \in Utts : x \in Pending(d) /\ y \in Sounding(d) /\ y \notin Pending(d)
                             => e.order[x] # e.order[y]
    <3> SUFFICES ASSUME NEW x \in Pending(d), NEW y \in Sounding(d), y \notin Pending(d),
                        x \in Utts, y \in Utts
                 PROVE  e.order[x] # e.order[y]
      OBVIOUS
    <3>1. e.order[x] = base + place[x] /\ e.order[y] = d.order[y]
      BY <1>3
    <3> QED BY <1>2, <1>6, <3>1
  <2>3. CASE u \notin Pending(d) /\ v \notin Pending(d)
    BY <1>3, <1>5, <2>3 DEF Ordered, Lined
  <2> QED BY <1>5, <2>1, <2>2, <2>3
<1> QED BY <1>3, <1>4, <1>8 DEF Lined, e

LEMMA CancelMoves ==
  ASSUME NEW d \in Database, NEW rows \in SUBSET Utts, NEW c
  PROVE  LET e == CancelAll(d, rows)
         IN  /\ e \in Database /\ Moves(d, e, c) /\ e.held = d.held
             /\ e.audio = d.audio /\ e.jobs = d.jobs
             /\ \A u \in Utts : e.state[u] = IF u \in rows THEN "Cancelled" ELSE d.state[u]
             /\ \A p \in Parts : e.child[p] = IF p[1] \in rows /\ d.child[p] \notin Terminal
                                                THEN "Cancelled" ELSE d.child[p]
<1> DEFINE e == CancelAll(d, rows)
<1>1. /\ e.order = d.order /\ e.held = d.held /\ e.audio = d.audio /\ e.jobs = d.jobs
      /\ \A u \in Utts : e.state[u] = IF u \in rows THEN "Cancelled" ELSE d.state[u]
      /\ \A p \in Parts : e.child[p] = IF p[1] \in rows /\ d.child[p] \notin Terminal
                                         THEN "Cancelled" ELSE d.child[p]
  BY DEF CancelAll, Database
<1>2. e \in Database
  BY DEF CancelAll, Database, State
<1> HIDE DEF e
<1>3. Moves(d, e, c)
  BY <1>1, <1>2, StateFacts DEF Moves, IsLive, Rests
<1> QED BY <1>1, <1>2, <1>3 DEF e

LEMMA SkipAllMoves ==
  ASSUME NEW d \in Database, NEW slots, NEW c
  PROVE  LET e == SkipAll(d, slots)
         IN  /\ e \in Database /\ Moves(d, e, c) /\ e.held = d.held
             /\ e.audio = d.audio /\ e.jobs = d.jobs
             /\ \A u \in Utts : /\ (\E w \in slots : w[1] = u) => e.state[u] = "Skipped"
                                /\ (\A w \in slots : w[1] # u) => e.state[u] = d.state[u]
             /\ \A p \in Parts : /\ e.child[p] = d.child[p] \/ e.child[p] \in Terminal
                                 /\ (\E w \in slots : w[1] = p[1]) => e.child[p] \in Terminal
<1> DEFINE e == SkipAll(d, slots)
<1>1. /\ e.order = d.order /\ e.held = d.held /\ e.audio = d.audio /\ e.jobs = d.jobs
      /\ \A u \in Utts : /\ (\E w \in slots : w[1] = u) => e.state[u] = "Skipped"
                         /\ (\A w \in slots : w[1] # u) => e.state[u] = d.state[u]
      /\ \A p \in Parts : e.child[p] =
           IF p \in slots /\ d.child[p] \in {"Playing", "Paused"} THEN "Skipped"
           ELSE IF (\E w \in slots : w[1] = p[1]) /\ d.child[p] \notin Terminal THEN "Cancelled"
           ELSE d.child[p]
  BY DEF SkipAll, Database
<1>2. e \in Database
  BY DEF SkipAll, Database, State
<1> HIDE DEF e
<1>3. Moves(d, e, c)
  BY <1>1, <1>2, StateFacts DEF Moves, IsLive, Rests
<1>4. \A p \in Parts : /\ e.child[p] = d.child[p] \/ e.child[p] \in Terminal
                       /\ (\E w \in slots : w[1] = p[1]) => e.child[p] \in Terminal
  BY <1>1, StateFacts
<1> QED BY <1>1, <1>2, <1>3, <1>4 DEF e

LEMMA RecoveredLined ==
  ASSUME NEW d, Lined(d)
  PROVE  LET e == Recovered(d)
         IN  /\ Lined(e) /\ (d.held => e.held) /\ e.jobs = {}
<1> DEFINE e == Recovered(d)
<1>1. \A w \in Interrupted(d) : IsLive(d, w[1])
  BY DEF Interrupted
<1>2. ASSUME NEW u \in Utts
      PROVE  /\ ParentRecovered(d, u) \in State \cup {Absent}
             /\ ParentRecovered(d, u) # "Submitted"
             /\ ParentRecovered(d, u) \in Live => IsLive(d, u)
  <2>1. d.state[u] \in State \cup {Absent} /\ d.state[u] # "Submitted"
    BY DEF Lined, Database
  <2>2. <<u, Whole>> \in Interrupted(d) => IsLive(d, u)
    BY <1>1
  <2>3. /\ ParentRested(d, u) \in State \cup {Absent} /\ ParentRested(d, u) # "Submitted"
        /\ ParentRested(d, u) \in Live => IsLive(d, u)
    BY <2>1, <2>2, RestedStates, StateFacts DEF ParentRested, IsLive
  <2> QED BY <2>3, StateFacts DEF ParentRecovered
<1>3. ASSUME NEW p \in Parts
      PROVE  ChildRecovered(d, p) \in State \cup {Absent}
  <2>1. d.child[p] \in State \cup {Absent}
    BY DEF Lined, Database
  <2> QED BY <2>1, RestedStates, StateFacts DEF ChildRecovered, ChildRested
<1>4. /\ e.state = [u \in Utts |-> ParentRecovered(d, u)] /\ e.order = d.order
      /\ e.child = [p \in Parts |-> ChildRecovered(d, p)]
      /\ e.jobs = {} /\ e.audio \subseteq d.audio /\ e.held \in BOOLEAN /\ (d.held => e.held)
  BY DEF Recovered, Lined, Database
<1>5. e \in Database
  <2>1. e.state \in [Utts -> State \cup {Absent}] /\ e.child \in [Parts -> State \cup {Absent}]
    BY <1>2, <1>3, <1>4
  <2>2. e = [state |-> e.state, order |-> e.order, child |-> e.child,
             audio |-> e.audio, jobs |-> e.jobs, held |-> e.held]
    BY DEF Recovered
  <2> HIDE DEF e
  <2> QED BY <1>4, <2>1, <2>2 DEF Lined, Database
<1> HIDE DEF e
<1>6. \A u \in Utts : /\ IsLive(e, u) => IsLive(d, u)
                      /\ e.state[u] # "Submitted"
  BY <1>2, <1>4 DEF IsLive
<1>7. Ordered(e)
  BY <1>4, <1>6 DEF Ordered, Lined
<1> QED BY <1>4, <1>5, <1>6, <1>7 DEF Lined, e

-----------------------------------------------------------------------------
(* What the controller's methods keep of it.                               *)
LEMMA KeptTyped ==
  ASSUME NEW t, NEW c, Kept(t, c)
  PROVE  /\ t \in AnyController /\ t.db \in Database /\ t.stack \in Seq(Bookmarks)
         /\ t.cur \in Utts \cup {Nobody} /\ t.idx \in Nat \cup {Whole}
         /\ t.active \in BOOLEAN /\ t.watch \in BOOLEAN /\ t.mic \in BOOLEAN /\ t.armed \in BOOLEAN
         /\ t.raised \in BOOLEAN /\ t.cues = FALSE
BY AnyFields DEF Kept

LEMMA MovesKept ==
  ASSUME NEW t, NEW c, Kept(t, c), NEW r \in AnyController, Moves(t.db, r.db, c),
         t.db.held => r.db.held, r.stack = t.stack, r.cues = t.cues,
         r.mic = t.mic, r.armed = t.armed
  PROVE  Kept(r, c)
<1>1. t.db \in Database /\ t.stack \in Seq(Bookmarks)
  BY KeptTyped
<1>2. Lined(r.db)
  BY MovesLined DEF Kept
<1>3. Stacked(r.db, c, r.stack)
  BY <1>1, MovesStacked DEF Kept
<1> QED BY <1>2, <1>3 DEF Kept

(* What is not suspended may become current, and what is current may be    *)
(* let go unless it is paused.                                             *)
LEMMA Elects ==
  ASSUME NEW t, NEW c, Kept(t, c), NEW v,
         c = v \/ c = Nobody \/ (c \in Utts /\ t.db.state[c] # "Paused"),
         v = c \/ v = Nobody \/ (v \in Utts /\ t.db.state[v] \notin Rests)
  PROVE  Kept(t, v)
<1>1. t.stack \in Seq(Bookmarks) /\ t.db \in Database
  BY KeptTyped
<1>2. \A k \in DOMAIN t.stack : t.stack[k][1] \in Utts /\ t.db.state[t.stack[k][1]] \in Rests
  BY <1>1, Marked DEF Kept, Stacked
<1>3. \A k \in DOMAIN t.stack : t.stack[k][1] # v
  BY <1>2, NobodyIsNone DEF Kept, Stacked
<1>4. \A u \in Paused(t.db) : u = v \/ \E k \in DOMAIN t.stack : t.stack[k][1] = u
  BY NobodyIsNone DEF Kept, Stacked, Paused
<1>5. Stacked(t.db, v, t.stack)
  BY <1>2, <1>3, <1>4 DEF Kept, Stacked
<1> QED BY <1>5 DEF Kept

LEMMA StartKeeps ==
  ASSUME ~Earcons, NEW t, NEW c, Kept(t, c), Inactive(t), NEW w
  PROVE  LET r == Start(t, w)
         IN  /\ Kept(r, c) /\ r.db = t.db /\ r.cur = t.cur /\ r.idx = t.idx
             /\ r.active = r.watch
<1> DEFINE v == [mode |-> "sounding", unit |-> w]
           e == [t EXCEPT !.cues = Earcons /\ w # Outro]
           r == Start(t, w)
           starts == SessionOver(t) /\ (w = Outro \/ Has(t.db, w))
<1>1. t \in AnyController /\ t.db \in Database /\ ~t.cues /\ ~t.active /\ ~t.watch
      /\ t.active \in BOOLEAN /\ t.watch \in BOOLEAN
  BY KeptTyped DEF Inactive
<1>2. e = [t EXCEPT !.cues = FALSE]
  OBVIOUS
<1>3. r = IF starts THEN [e EXCEPT !.device = v, !.active = TRUE, !.watch = TRUE]
                    ELSE [e EXCEPT !.raised = TRUE]
  BY DEF Start
<1>4. starts => v \in [mode : Modes, unit : Units \cup {Outro}]
  BY <1>1 DEF Modes, Has, Database
<1> HIDE DEF v, e
<1>5. /\ e \in AnyController /\ e.db = t.db /\ e.cur = t.cur /\ e.idx = t.idx
      /\ e.active = t.active /\ e.watch = t.watch /\ e.stack = t.stack
      /\ e.mic = t.mic /\ e.armed = t.armed /\ e.cues = FALSE
  BY <1>1, <1>2 DEF AnyController
<1>6. /\ r \in AnyController /\ r.db = t.db /\ r.cur = t.cur /\ r.idx = t.idx
      /\ r.active = r.watch /\ r.stack = t.stack
      /\ r.mic = t.mic /\ r.armed = t.armed /\ r.cues = FALSE
  <2>1. CASE starts
    <3> DEFINE x == [e EXCEPT !.device = v]
               y == [x EXCEPT !.active = TRUE]
    <3>1. r = [y EXCEPT !.watch = TRUE]
      BY <1>3, <2>1
    <3>2. /\ x \in AnyController /\ x.db = t.db /\ x.cur = t.cur /\ x.idx = t.idx
          /\ x.stack = t.stack /\ x.mic = t.mic /\ x.armed = t.armed /\ x.cues = FALSE
      BY <1>4, <1>5, <2>1 DEF AnyController
    <3> HIDE DEF x
    <3>3. /\ y \in AnyController /\ y.db = t.db /\ y.cur = t.cur /\ y.idx = t.idx
          /\ y.stack = t.stack /\ y.mic = t.mic /\ y.armed = t.armed /\ y.cues = FALSE
          /\ y.active = TRUE
      BY <3>2 DEF AnyController
    <3> HIDE DEF y, r
    <3> QED BY <3>1, <3>3 DEF AnyController
  <2>2. CASE ~starts
    <3>1. r = [e EXCEPT !.raised = TRUE]
      BY <1>3, <2>2
    <3> HIDE DEF r
    <3> QED BY <1>1, <1>5, <3>1 DEF AnyController
  <2> QED BY <2>1, <2>2
<1> HIDE DEF r
<1>7. Moves(t.db, r.db, c)
  BY <1>1, <1>6, MovesSame
<1>8. Kept(r, c)
  BY <1>1, <1>6, <1>7, KeptTyped, MovesKept
<1> QED BY <1>6, <1>8 DEF r

LEMMA TiedTo ==
  ASSUME NEW r, r.active = r.watch, NEW u \in Utts, r.cur = u, Kept(r, u),
         ~r.active \/ CurrentState(r) = "Playing" \/ Slot(r) \in Parts
  PROVE  Fine(r)
BY NobodyIsNone DEF Fine, Tied, Misplaced

LEMMA WholeBeginsFine ==
  ASSUME ~Earcons, NEW t, NEW u \in Utts, Kept(t, u), Inactive(t), IsLive(t.db, u)
  PROVE  LET r == BeginWhole(t, u)
         IN  Fine(r) /\ r.cur = u /\ r.db.held = t.db.held
<1> DEFINE to == "Playing"
           e == Transition(t.db, u, to)
           q == [t EXCEPT !.db = e, !.cur = u]
           r == BeginWhole(t, u)
<1>1. t \in AnyController /\ t.db \in Database
  BY KeptTyped
<1>2. to \in State /\ to # "Submitted"
  BY StateFacts
<1>3. r = Start(q, <<u, Whole>>)
  BY DEF BeginWhole
<1> HIDE DEF to
<1>4. e \in Database /\ Moves(t.db, e, u) /\ e.held = t.db.held
      /\ e.state = [t.db.state EXCEPT ![u] = to]
  BY <1>1, <1>2, TransitionMoves
<1> HIDE DEF e
<1>5. /\ q \in AnyController /\ q.db = e /\ q.cur = u /\ q.active = t.active
      /\ q.watch = t.watch /\ q.stack = t.stack /\ q.cues = t.cues
      /\ q.mic = t.mic /\ q.armed = t.armed
  BY <1>1, <1>4 DEF AnyController
<1> HIDE DEF q
<1>6. Kept(q, u) /\ Inactive(q)
  BY <1>4, <1>5, MovesKept DEF Inactive
<1> HIDE DEF r
<1>7. Kept(r, u) /\ r.db = q.db /\ r.cur = q.cur /\ r.active = r.watch
  BY <1>3, <1>6, StartKeeps
<1>8. CurrentState(r) = "Playing"
  BY <1>1, <1>4, <1>5, <1>7, NobodyIsNone DEF CurrentState, Database, to
<1> QED BY <1>4, <1>5, <1>7, <1>8, TiedTo DEF r

LEMMA ChunkBeginsFine ==
  ASSUME ~Earcons, NEW t, NEW p \in Parts, Kept(t, p[1]), Inactive(t)
  PROVE  LET r == BeginChunk(t, p)
         IN  Fine(r) /\ r.cur = p[1] /\ r.db.held = t.db.held
<1> DEFINE u == p[1]
           to == "Playing"
           d == IF In(t.db, u, {"Ready", "Paused"}) THEN Transition(t.db, u, to) ELSE t.db
           e == TransitionSegment(d, p, to)
           q == [t EXCEPT !.db = e, !.cur = u, !.idx = p[2]]
           r == BeginChunk(t, p)
<1>1. t \in AnyController /\ t.db \in Database /\ u \in Utts /\ p[2] \in Nat
  BY KeptTyped, UnitShape
<1>2. to \in State /\ to # "Submitted"
  BY StateFacts
<1>3. r = Start(q, p)
  BY DEF BeginChunk
<1> HIDE DEF to
<1>4. d \in Database /\ Moves(t.db, d, u) /\ d.held = t.db.held
  <2>1. CASE In(t.db, u, {"Ready", "Paused"})
    <3>1. IsLive(t.db, u)
      BY <2>1, StateFacts DEF In, IsLive
    <3> QED BY <1>1, <1>2, <2>1, <3>1, TransitionMoves
  <2>2. CASE ~In(t.db, u, {"Ready", "Paused"})
    BY <1>1, <2>2, MovesSame
  <2> QED BY <2>1, <2>2
<1> HIDE DEF d
<1>5. e \in Database /\ Moves(t.db, e, u) /\ e.held = t.db.held
  <2>1. e \in Database /\ Moves(d, e, u) /\ e.held = d.held
    BY <1>2, <1>4, SegmentMoves
  <2> HIDE DEF e
  <2> QED BY <1>4, <2>1, MovesTrans
<1> HIDE DEF e
<1>6. /\ q \in AnyController /\ q.db = e /\ q.cur = u /\ q.active = t.active
      /\ q.watch = t.watch /\ q.stack = t.stack /\ q.cues = t.cues
      /\ q.mic = t.mic /\ q.armed = t.armed /\ q.idx = p[2]
  BY <1>1, <1>5 DEF AnyController
<1> HIDE DEF q
<1>7. Kept(q, u) /\ Inactive(q)
  BY <1>5, <1>6, MovesKept DEF Inactive
<1> HIDE DEF r
<1>8. Kept(r, u) /\ r.db = q.db /\ r.cur = q.cur /\ r.active = r.watch /\ r.idx = q.idx
  BY <1>3, <1>7, StartKeeps
<1>9. Slot(r) \in Parts
  <2>1. p = <<p[1], p[2]>>
    BY UnitShape, SlotShape
  <2> QED BY <1>6, <1>8, <2>1 DEF Slot
<1> QED BY <1>1, <1>5, <1>6, <1>8, <1>9, TiedTo DEF r

LEMMA AdoptsFine ==
  ASSUME NEW t, NEW u \in Utts, Kept(t, u), Inactive(t)
  PROVE  LET r == Adopt(t, u)
         IN  Fine(r) /\ r.cur = u /\ r.db.held = t.db.held
<1> DEFINE to == "Playing"
           e == IF t.db.state[u] = "Paused" THEN Transition(t.db, u, to) ELSE t.db
           r == Adopt(t, u)
<1>1. t \in AnyController /\ t.db \in Database /\ t.active \in BOOLEAN /\ t.watch \in BOOLEAN
  BY KeptTyped
<1>2. to \in State /\ to # "Submitted"
  BY StateFacts
<1>3. r = [t EXCEPT !.cur = u, !.idx = Whole, !.db = e]
  BY DEF Adopt
<1> HIDE DEF to
<1>4. e \in Database /\ Moves(t.db, e, u) /\ e.held = t.db.held
  <2>1. CASE t.db.state[u] = "Paused"
    <3>1. IsLive(t.db, u)
      BY <2>1, StateFacts DEF IsLive
    <3> QED BY <1>1, <1>2, <2>1, <3>1, TransitionMoves
  <2>2. CASE t.db.state[u] # "Paused"
    BY <1>1, <2>2, MovesSame
  <2> QED BY <2>1, <2>2
<1> HIDE DEF e, r
<1>5. /\ r \in AnyController /\ r.db = e /\ r.cur = u /\ r.active = t.active
      /\ r.watch = t.watch /\ r.stack = t.stack /\ r.cues = t.cues
      /\ r.mic = t.mic /\ r.armed = t.armed
  BY <1>1, <1>3, <1>4 DEF AnyController
<1>6. Kept(r, u)
  BY <1>4, <1>5, MovesKept
<1>7. r.active = r.watch /\ ~r.active
  BY <1>1, <1>5 DEF Inactive
<1> QED BY <1>4, <1>5, <1>6, <1>7, TiedTo DEF r

LEMMA SavedStartsFine ==
  ASSUME ~Earcons, NEW t, NEW u \in Utts, NEW i, Kept(t, u), Inactive(t), IsLive(t.db, u)
  PROVE  LET r == StartSaved(t, u, i)
         IN  Fine(r) /\ r.cur = u /\ r.db.held = t.db.held
<1> DEFINE found == IF i # Whole THEN <<u, i>> \in Parts ELSE HasNext(t.db, u)
           p == IF i # Whole THEN <<u, i>> ELSE NextChunk(t.db, u)
           r == StartSaved(t, u, i)
<1>1. found => p \in Parts /\ p[1] = u
  BY NextChunkIsOpen
<1>2. CASE found /\ t.db.child[p] \in {"Ready", "Paused"}
  <2>1. r = BeginChunk(t, p)
    BY <1>2 DEF StartSaved
  <2> HIDE DEF p
  <2> QED BY <1>1, <1>2, <2>1, ChunkBeginsFine
<1>3. CASE ~found /\ Has(t.db, <<u, Whole>>)
  <2>1. r = BeginWhole(t, u)
    BY <1>3 DEF StartSaved
  <2> QED BY <2>1, WholeBeginsFine
<1>4. CASE /\ ~(found /\ t.db.child[p] \in {"Ready", "Paused"})
           /\ ~(~found /\ Has(t.db, <<u, Whole>>))
  <2>1. r = Adopt(t, u)
    BY <1>4 DEF StartSaved
  <2> QED BY <2>1, AdoptsFine
<1> QED BY <1>2, <1>3, <1>4

LEMMA VacatesFine ==
  ASSUME NEW t, NEW c, Kept(t, c), Inactive(t),
         c = Nobody \/ (c \in Utts /\ t.db.state[c] # "Paused")
  PROVE  LET r == Vacated(t)
         IN  Fine(r) /\ Inactive(r) /\ r.cur = Nobody /\ r.db = t.db /\ r.stack = t.stack
<1> DEFINE r == Vacated(t)
<1>1. t \in AnyController
  BY KeptTyped
<1>2. /\ r \in AnyController /\ r.db = t.db /\ r.cur = Nobody /\ r.idx = Whole
      /\ r.active = t.active /\ r.watch = t.watch /\ r.stack = t.stack
      /\ r.mic = t.mic /\ r.armed = t.armed /\ r.cues = t.cues
  BY <1>1 DEF AnyController, Vacated
<1> HIDE DEF r
<1>3. Kept(t, Nobody)
  BY Elects
<1>4. Kept(r, Nobody)
  BY <1>2, <1>3, KeptTyped, MovesSame, MovesKept
<1> QED BY <1>2, <1>4 DEF Fine, Tied, Inactive, r

(* The largest of some places on a stack.                                  *)
LEMMA LargestPlace ==
  ASSUME NEW m \in Nat, NEW T \in SUBSET (1 .. m), T # {}
  PROVE  Max(T) \in T /\ \A j \in T : j <= Max(T)
<1> DEFINE D == {m - j : j \in T}
<1>0. \A j \in T : j \in Nat /\ m - j \in Nat
  <2>1. \A j \in 1 .. m : j \in Nat /\ m - j \in Nat
    OBVIOUS
  <2> QED BY <2>1
<1>1. D \in SUBSET Nat /\ D # {}
  BY <1>0
<1>2. PICK i \in D : \A j \in D : i <= j
  BY <1>1, SmallestPlace
<1>3. PICK k \in T : i = m - k
  BY <1>2
<1>4. ASSUME NEW j \in T PROVE k >= j
  <2>1. m - k <= m - j
    BY <1>2, <1>3
  <2> QED BY <1>0, <1>3, <2>1
<1>5. \E x \in T : \A y \in T : x >= y
  BY <1>3, <1>4
<1> DEFINE n == Max(T)
<1>6. n \in T /\ \A y \in T : n >= y
  BY <1>5 DEF Max
<1> HIDE DEF n
<1>7. \A y \in T : y <= n
  BY <1>0, <1>6
<1> QED BY <1>6, <1>7 DEF n

LEMMA RestoresFine ==
  ASSUME ~Earcons, NEW t, Fine(t)
  PROVE  LET r == Restored(t)
         IN  Fine(r) /\ r.db.held = t.db.held
<1> DEFINE alive == {k \in DOMAIN t.stack : t.db.state[t.stack[k][1]] = "Paused"}
           n == Max(alive)
           r == Restored(t)
<1>1. CASE t.cur # Nobody
  BY <1>1, ZenonT(60) DEF Restored
<1>2. CASE t.cur = Nobody
  <2>1. t \in AnyController /\ t.stack \in Seq(Bookmarks) /\ Kept(t, Nobody)
        /\ Inactive(t) /\ Stacked(t.db, Nobody, t.stack) /\ t.db \in Database
    BY <1>2, KeptTyped DEF Fine, Tied, Inactive, Kept
  <2>2. CASE alive = {}
    <3>1. r = [t EXCEPT !.stack = <<>>]
      BY <1>2, <2>2 DEF Restored
    <3> HIDE DEF r
    <3>2. /\ r \in AnyController /\ r.db = t.db /\ r.cur = t.cur /\ r.idx = t.idx
          /\ r.active = t.active /\ r.watch = t.watch /\ r.stack = <<>>
          /\ r.mic = t.mic /\ r.armed = t.armed /\ r.cues = t.cues
      <4>1. <<>> \in Seq(Bookmarks)
        OBVIOUS
      <4> QED BY <2>1, <3>1, <4>1 DEF AnyController
    <3>3. Stacked(r.db, r.cur, r.stack)
      BY <1>2, <2>1, <2>2, <3>2, NobodyIsNone DEF Stacked, Paused
    <3>4. Kept(r, r.cur)
      BY <2>1, <3>2, <3>3 DEF Kept
    <3>5. Tied(r)
      BY <1>2, <2>1, <3>2 DEF Fine, Tied, Inactive
    <3> QED BY <3>2, <3>4, <3>5 DEF Fine, r
  <2>3. CASE alive # {}
    <3> DEFINE m == Len(t.stack)
               k == SubSeq(t.stack, 1, n - 1)
               w == t.stack[n]
               q == [t EXCEPT !.stack = k]
    <3>0. m \in Nat /\ DOMAIN t.stack = 1 .. m
      BY <2>1
    <3>1. n \in DOMAIN t.stack /\ n \in alive /\ \A j \in alive : j <= n
      <4>1. alive \in SUBSET (1 .. m)
        BY <3>0
      <4> HIDE DEF alive, m
      <4>2. n \in alive /\ \A j \in alive : j <= n
        BY <2>3, <3>0, <4>1, LargestPlace
      <4> QED BY <3>0, <4>1, <4>2
    <3>2. r = StartSaved(q, w[1], w[2])
      BY <1>2, <2>3, ZenonT(60) DEF Restored
    <3> HIDE DEF n
    <3>3. w \in Bookmarks /\ w[1] \in Utts /\ t.db.state[w[1]] = "Paused"
      BY <2>1, <3>1, Marked
    <3>4. /\ k \in Seq(Bookmarks) /\ DOMAIN k = 1 .. (n - 1)
          /\ \A i \in DOMAIN k : i \in DOMAIN t.stack /\ i # n /\ k[i] = t.stack[i]
          /\ \A i \in DOMAIN t.stack : i < n => i \in DOMAIN k
      <4>1. n \in 1 .. m
        BY <3>0, <3>1
      <4>2. k \in Seq(Bookmarks) /\ Len(k) = n - 1 /\ \A i \in 1 .. (n - 1) : k[i] = t.stack[i]
        BY <2>1, <3>0, <4>1
      <4>3. DOMAIN k = 1 .. (n - 1)
        BY <4>2
      <4> QED BY <3>0, <4>1, <4>2, <4>3
    <3> HIDE DEF k
    <3>5. Stacked(t.db, w[1], k)
      <4>1. \A i \in DOMAIN k : k[i][1] # w[1] /\ t.db.state[k[i][1]] \in Rests
        BY <2>1, <3>1, <3>4 DEF Stacked
      <4>2. \A i, j \in DOMAIN k : k[i][1] = k[j][1] => i = j
        BY <2>1, <3>4 DEF Stacked
      <4>3. ASSUME NEW u \in Paused(t.db), u # w[1]
            PROVE  \E i \in DOMAIN k : k[i][1] = u
        <5>1. PICK i \in DOMAIN t.stack : t.stack[i][1] = u
          BY <2>1, <4>3, NobodyIsNone DEF Stacked, Paused
        <5>2. i \in alive /\ i # n
          BY <4>3, <5>1 DEF Paused
        <5>3. i < n
          BY <3>0, <3>1, <5>1, <5>2
        <5> QED BY <3>4, <5>1, <5>3
      <4> QED BY <4>1, <4>2, <4>3 DEF Stacked
    <3>6. /\ q \in AnyController /\ q.db = t.db /\ q.active = t.active /\ q.watch = t.watch
          /\ q.stack = k /\ q.mic = t.mic /\ q.armed = t.armed /\ q.cues = t.cues
      BY <2>1, <3>4 DEF AnyController
    <3> HIDE DEF q
    <3>7. Kept(q, w[1]) /\ Inactive(q)
      BY <2>1, <3>5, <3>6 DEF Kept, Inactive
    <3>8. IsLive(q.db, w[1])
      BY <3>3, <3>6, StateFacts DEF IsLive
    <3> HIDE DEF w, r
    <3>9. Fine(r) /\ r.db.held = q.db.held
      BY <3>2, <3>3, <3>7, <3>8, SavedStartsFine
    <3> QED BY <3>6, <3>9 DEF r
  <2> QED BY <2>2, <2>3
<1> QED BY <1>1, <1>2

LEMMA HeadBeginsFine ==
  ASSUME ~Earcons, NEW t, Fine(t), t.cur = Nobody
  PROVE  Fine(HeadBegun(t))
<1> DEFINE rows == Pending(t.db)
           u == First(t.db, rows)
           p == NextChunk(t.db, u)
           r == HeadBegun(t)
<1>1. Kept(t, Nobody) /\ Inactive(t) /\ t.db \in Database /\ ~t.cues
  BY KeptTyped DEF Fine, Tied, Inactive
<1>2. CASE rows = {}
  <2>1. r = t
    BY <1>1, <1>2 DEF HeadBegun
  <2> QED BY <2>1
<1>3. CASE rows # {}
  <2>1. u \in rows /\ u \in Utts
    <3>1. rows \in SUBSET Utts
      BY DEF Pending
    <3> QED BY <1>1, <1>3, <3>1, FirstIsOne
  <2> HIDE DEF u
  <2>2. ASSUME t.db.state[u] = "Ready" PROVE Kept(t, u) /\ IsLive(t.db, u)
    <3>1. t.db.state[u] \notin Rests /\ IsLive(t.db, u)
      BY <2>2, StateFacts DEF Rests, IsLive
    <3> QED BY <1>1, <2>1, <3>1, Elects
  <2>3. CASE t.db.state[u] = "Ready" /\ NextIs(t.db, u, {"Ready"})
    <3>1. r = BeginChunk(t, p)
      <4>1. HasNext(t.db, u)
        BY <2>3 DEF NextIs
      <4> QED BY <1>3, <2>3, <4>1, ZenonT(30) DEF HeadBegun, u
    <3>2. p \in Parts /\ p[1] = u
      BY <2>1, <2>3, NextChunkIsOpen DEF NextIs
    <3> HIDE DEF p, r
    <3>3. Fine(r)
      BY <1>1, <2>2, <2>3, <3>1, <3>2, ChunkBeginsFine
    <3> QED BY <3>3 DEF r
  <2>4. CASE t.db.state[u] = "Ready" /\ ~HasNext(t.db, u) /\ Has(t.db, <<u, Whole>>)
    <3>1. r = BeginWhole(t, u)
      BY <1>3, <2>4 DEF HeadBegun, u, NextIs
    <3> QED BY <1>1, <2>1, <2>2, <2>4, <3>1, WholeBeginsFine
  <2>5. CASE /\ ~(t.db.state[u] = "Ready" /\ NextIs(t.db, u, {"Ready"}))
             /\ ~(t.db.state[u] = "Ready" /\ ~HasNext(t.db, u) /\ Has(t.db, <<u, Whole>>))
    <3>1. r = t
      BY <1>3, <2>5 DEF HeadBegun, u
    <3> QED BY <3>1
  <2> QED BY <2>3, <2>4, <2>5
<1> QED BY <1>2, <1>3

LEMMA PassEndsFine ==
  ASSUME ~Earcons, NEW t, Fine(t)
  PROVE  Fine(RestOfPass(t))
<1> DEFINE p == NextChunk(t.db, t.cur)
           r == RestOfPass(t)
<1>1. t.cur \in Utts \cup {Nobody} /\ Kept(t, t.cur) /\ (~t.active => Inactive(t))
  BY KeptTyped DEF Fine, Tied, Inactive
<1>2. CASE ~t.raised /\ t.cur = Nobody /\ ~t.db.held /\ ~t.active
  <2>1. r = HeadBegun(t)
    BY <1>2 DEF RestOfPass
  <2> QED BY <1>2, <2>1, HeadBeginsFine
<1>3. CASE ~t.raised /\ t.cur # Nobody /\ ~t.active /\ ~CurrentLive(t)
  <2>1. CurrentState(t) # "Playing"
    BY <1>3, StateFacts DEF CurrentLive
  <2>2. r = Vacated(t)
    BY <1>3, <2>1, ZenonT(30) DEF RestOfPass
  <2>3. t.cur \in Utts /\ t.db.state[t.cur] # "Paused"
    BY <1>1, <1>3, StateFacts DEF CurrentLive, CurrentState
  <2> QED BY <1>1, <1>3, <2>2, <2>3, VacatesFine
<1>4. CASE /\ ~t.raised /\ t.cur # Nobody /\ ~t.active /\ ~t.db.held
           /\ CurrentState(t) = "Playing" /\ NextIs(t.db, t.cur, {"Ready"})
  <2>1. CurrentLive(t)
    BY <1>4, StateFacts DEF CurrentLive
  <2>2. r = BeginChunk(t, p)
    BY <1>4, <2>1 DEF RestOfPass
  <2>3. p \in Parts /\ p[1] = t.cur
    BY <1>1, <1>4, NextChunkIsOpen DEF NextIs
  <2> HIDE DEF p, r
  <2>4. Fine(r)
    BY <1>1, <1>4, <2>2, <2>3, ChunkBeginsFine
  <2> QED BY <2>4 DEF r
<1>5. CASE \/ t.raised
           \/ /\ ~(t.cur = Nobody /\ ~t.db.held /\ ~t.active)
              /\ ~(t.cur # Nobody /\ ~t.active /\ ~CurrentLive(t))
              /\ ~(t.cur # Nobody /\ ~t.active /\ ~t.db.held /\ CurrentState(t) = "Playing"
                   /\ NextIs(t.db, t.cur, {"Ready"}))
  <2>1. CASE t.raised
    BY <2>1, ZenonT(30) DEF RestOfPass
  <2>2. CASE ~t.raised
    <3>1. r = t
      BY <1>5, <2>2, ZenonT(30) DEF RestOfPass
    <3> QED BY <3>1
  <2> QED BY <2>1, <2>2
<1> HIDE DEF r
<1> QED BY <1>2, <1>3, <1>4, <1>5, Zenon

LEMMA TakesOverFine ==
  ASSUME ~Earcons, NEW t, NEW u \in Utts, Fine(t), Inactive(t), ~CurrentLive(t)
  PROVE  Fine(TakenOver(t, u))
<1> DEFINE q == IF t.db.state[u] = "Ready" THEN StartSaved(t, u, Whole) ELSE t
           r == TakenOver(t, u)
<1>1. CASE t.db.held
  <2>1. r = RestOfPass(t)
    BY <1>1 DEF TakenOver
  <2> QED BY <2>1, PassEndsFine
<1>2. CASE ~t.db.held
  <2>1. Fine(q)
    <3>1. CASE t.db.state[u] = "Ready"
      <4>1. t.cur = Nobody \/ (t.cur \in Utts /\ t.db.state[t.cur] # "Paused")
        BY KeptTyped, StateFacts DEF Fine, CurrentLive, CurrentState
      <4>2. t.db.state[u] \notin Rests /\ IsLive(t.db, u)
        BY <3>1, StateFacts DEF Rests, IsLive
      <4>3. Kept(t, u)
        BY <4>1, <4>2, Elects DEF Fine
      <4> QED BY <3>1, <4>2, <4>3, SavedStartsFine
    <3>2. CASE t.db.state[u] # "Ready"
      BY <3>2
    <3> QED BY <3>1, <3>2
  <2>2. r = RestOfPass(Restored(q))
    BY <1>2 DEF TakenOver
  <2> HIDE DEF q
  <2>3. Fine(Restored(q))
    BY <2>1, RestoresFine
  <2> QED BY <2>2, <2>3, PassEndsFine
<1> QED BY <1>1, <1>2

LEMMA SuspendsFine ==
  ASSUME NEW t, Fine(t), Inactive(t)
  PROVE  LET r == Suspended(t, Slot(t))
         IN  Fine(r) /\ Inactive(r) /\ ~CurrentLive(r)
<1> DEFINE u == t.cur
           w == Slot(t)
           live == w[1] # Nobody /\ In(t.db, w[1], {"Playing", "Paused"})
           r == Suspended(t, w)
<1>1. t \in AnyController /\ t.db \in Database /\ u \in Utts \cup {Nobody} /\ Kept(t, u)
      /\ w[1] = u /\ t.idx \in Nat \cup {Whole} /\ t.stack \in Seq(Bookmarks)
      /\ Stacked(t.db, u, t.stack)
  BY KeptTyped DEF Fine, Slot, Kept
<1>2. \A x : x.cur = Nobody => ~CurrentLive(x)
  BY StateFacts DEF CurrentLive, CurrentState
<1>3. CASE ~live
  <2>1. r = Vacated([t EXCEPT !.db = t.db, !.stack = t.stack])
    BY <1>3 DEF Suspended
  <2>2. [t EXCEPT !.db = t.db, !.stack = t.stack] = t
    BY <1>1 DEF AnyController
  <2>3. u = Nobody \/ (u \in Utts /\ t.db.state[u] # "Paused")
    BY <1>1, <1>3 DEF In
  <2> HIDE DEF r, u, w
  <2>4. r = Vacated(t)
    BY <2>1, <2>2
  <2>5. Fine(r) /\ Inactive(r) /\ r.cur = Nobody
    BY <1>1, <2>3, <2>4, VacatesFine
  <2> QED BY <1>2, <2>5 DEF r, w
<1>4. CASE live
  <2> DEFINE e == SuspendPlayback(t.db, w)
             k == Append(t.stack, w)
             q == [t EXCEPT !.db = e, !.stack = k]
             n == Len(t.stack)
  <2>1. u \in Utts /\ t.db.state[u] \in Heard
    BY <1>1, <1>4 DEF In, Heard
  <2>2. w \in Bookmarks
    BY <1>1, <2>1 DEF Slot, Bookmarks
  <2>3. r = Vacated(q)
    BY <1>4 DEF Suspended
  <2> HIDE DEF live, r
  <2>4. /\ e \in Database /\ Moves(t.db, e, u) /\ e.held = t.db.held
        /\ e.state = [t.db.state EXCEPT ![u] = "Paused"]
    <3>1. w[1] = u /\ w[1] \in Utts
      BY <1>1, <2>1
    <3>2. t.db.state[w[1]] \in Heard
      BY <2>1, <3>1
    <3> HIDE DEF w, u
    <3>3. LET f == SuspendPlayback(t.db, w)
          IN  /\ f \in Database /\ Moves(t.db, f, w[1]) /\ f.held = t.db.held
              /\ t.db.state[w[1]] \in Heard => f.state = [t.db.state EXCEPT ![w[1]] = "Paused"]
      BY <1>1, <3>1, SuspendMoves
    <3> QED BY <3>1, <3>2, <3>3
  <2> HIDE DEF e
  <2>5. n \in Nat /\ DOMAIN t.stack = 1 .. n
    BY <1>1
  <2>6. /\ k \in Seq(Bookmarks) /\ DOMAIN k = 1 .. (n + 1) /\ k[n + 1] = w
        /\ \A i \in 1 .. n : k[i] = t.stack[i]
    BY <1>1, <2>2, <2>5
  <2> HIDE DEF k, w, u
  <2>7. Stacked(e, u, t.stack) /\ Lined(e)
    BY <1>1, <2>4, MovesStacked, MovesLined DEF Kept
  <2>8. e.state[u] = "Paused"
    BY <1>1, <2>1, <2>4 DEF Database
  <2>9. Stacked(e, Nobody, k)
    <3>1. \A v \in Paused(e) : \E j \in DOMAIN k : k[j][1] = v
      <4> SUFFICES ASSUME NEW v \in Paused(e) PROVE \E j \in DOMAIN k : k[j][1] = v
        OBVIOUS
      <4>1. CASE v = u
        <5>1. n + 1 \in DOMAIN k /\ k[n + 1][1] = v
          BY <1>1, <2>5, <2>6, <4>1
        <5> QED BY <5>1
      <4>2. CASE v # u
        <5>1. PICK j \in DOMAIN t.stack : t.stack[j][1] = v
          BY <2>7, <4>2 DEF Stacked
        <5> QED BY <2>5, <2>6, <5>1
      <4> QED BY <4>1, <4>2
    <3>2. ASSUME NEW i \in DOMAIN k, NEW j \in DOMAIN k, k[i][1] = k[j][1] PROVE i = j
      <4>1. \A x \in 1 .. n : k[x] = t.stack[x] /\ x \in DOMAIN t.stack /\ t.stack[x][1] # u
        BY <2>5, <2>6, <2>7 DEF Stacked
      <4>2. i \in 1 .. n \/ i = n + 1
        BY <2>5, <2>6
      <4>3. j \in 1 .. n \/ j = n + 1
        BY <2>5, <2>6
      <4>4. CASE i \in 1 .. n /\ j \in 1 .. n
        BY <2>7, <3>2, <4>1, <4>4 DEF Stacked
      <4>5. CASE ~(i \in 1 .. n /\ j \in 1 .. n)
        BY <1>1, <2>6, <3>2, <4>1, <4>2, <4>3, <4>5
      <4> QED BY <4>4, <4>5
    <3>3. ASSUME NEW i \in DOMAIN k PROVE k[i][1] # Nobody /\ e.state[k[i][1]] \in Rests
      <4>1. CASE i = n + 1
        BY <1>1, <2>1, <2>6, <2>8, <4>1, NobodyIsNone DEF Rests
      <4>2. CASE i # n + 1
        <5>1. i \in DOMAIN t.stack /\ k[i] = t.stack[i]
          BY <2>5, <2>6, <4>2
        <5>2. t.stack[i][1] \in Utts
          BY <1>1, <5>1, Marked
        <5> QED BY <2>7, <5>1, <5>2, NobodyIsNone DEF Stacked
      <4> QED BY <4>1, <4>2
    <3> QED BY <3>1, <3>2, <3>3 DEF Stacked
  <2>10. /\ q \in AnyController /\ q.db = e /\ q.active = t.active /\ q.watch = t.watch
         /\ q.stack = k /\ q.mic = t.mic /\ q.armed = t.armed /\ q.cues = t.cues
    BY <1>1, <2>4, <2>6 DEF AnyController
  <2> HIDE DEF q
  <2>11. Kept(q, Nobody) /\ Inactive(q)
    BY <1>1, <2>4, <2>7, <2>9, <2>10 DEF Kept, Inactive
  <2>12. Fine(r) /\ Inactive(r) /\ r.cur = Nobody
    BY <2>3, <2>11, VacatesFine
  <2> QED BY <1>2, <2>12 DEF r, w
<1> QED BY <1>3, <1>4

(* New rows under the same flags.                                          *)
LEMMA NewRows ==
  ASSUME NEW t, NEW c, Kept(t, c), NEW e \in Database, Moves(t.db, e, c), t.db.held => e.held
  PROVE  LET r == [t EXCEPT !.db = e]
         IN  /\ Kept(r, c) /\ r.db = e /\ r.idx = t.idx /\ r.cur = t.cur
             /\ r.active = t.active /\ r.watch = t.watch /\ r.device = t.device
             /\ r.stack = t.stack /\ r.mic = t.mic /\ r.armed = t.armed
<1> DEFINE r == [t EXCEPT !.db = e]
<1>1. t \in AnyController
  BY KeptTyped
<1>2. /\ r \in AnyController /\ r.db = e /\ r.idx = t.idx /\ r.cur = t.cur
      /\ r.active = t.active /\ r.watch = t.watch /\ r.device = t.device
      /\ r.stack = t.stack /\ r.mic = t.mic /\ r.armed = t.armed /\ r.cues = t.cues
  BY <1>1 DEF AnyController
<1> HIDE DEF r
<1>3. Kept(r, c)
  BY <1>2, MovesKept
<1> QED BY <1>2, <1>3 DEF r

(* No chunk is remembered any more.                                        *)
LEMMA NoChunkKept ==
  ASSUME NEW t, NEW c, Kept(t, c)
  PROVE  LET r == [t EXCEPT !.idx = Whole]
         IN  /\ Kept(r, c) /\ r.db = t.db /\ r.idx = Whole /\ r.cur = t.cur
             /\ r.active = t.active /\ r.watch = t.watch /\ r.device = t.device
             /\ r.stack = t.stack /\ r.mic = t.mic /\ r.armed = t.armed
<1> DEFINE r == [t EXCEPT !.idx = Whole]
<1>1. t \in AnyController /\ t.db \in Database
  BY KeptTyped
<1>2. /\ r \in AnyController /\ r.db = t.db /\ r.idx = Whole /\ r.cur = t.cur
      /\ r.active = t.active /\ r.watch = t.watch /\ r.device = t.device
      /\ r.stack = t.stack /\ r.mic = t.mic /\ r.armed = t.armed /\ r.cues = t.cues
  BY <1>1 DEF AnyController
<1> HIDE DEF r
<1>3. Moves(t.db, r.db, c)
  BY <1>1, <1>2, MovesSame
<1>4. Kept(r, c)
  BY <1>2, <1>3, MovesKept
<1> QED BY <1>2, <1>4 DEF r

LEMMA SkipsFine ==
  ASSUME NEW t, Fine(t), Inactive(t), t.cur \in Utts
  PROVE  Fine(SkipLands(t, Slot(t)))
<1> DEFINE u == t.cur
           w == Slot(t)
           e == SkipUtterance(t.db, u, w)
           q == [t EXCEPT !.db = e]
           r == SkipLands(t, w)
<1>1. Kept(t, u) /\ t.db \in Database /\ u \in Utts /\ w[1] = u
  BY KeptTyped DEF Fine, Slot
<1>2. CASE ~In(t.db, u, {"Playing", "Paused"})
  <2>1. r = t
    BY <1>1, <1>2 DEF SkipLands
  <2> QED BY <2>1
<1>3. CASE In(t.db, u, {"Playing", "Paused"})
  <2>1. r = Vacated(q)
    BY <1>1, <1>3 DEF SkipLands
  <2> HIDE DEF w, u, r
  <2>2. /\ e \in Database /\ Moves(t.db, e, u) /\ e.held = t.db.held
        /\ e.state = [t.db.state EXCEPT ![u] = "Skipped"]
    BY <1>1, SkipMoves
  <2> HIDE DEF e
  <2>3. Kept(q, u) /\ q.db = e /\ q.active = t.active /\ q.watch = t.watch
    BY <1>1, <2>2, NewRows
  <2>4. q.db.state[u] # "Paused"
    BY <1>1, <2>2, <2>3 DEF Database
  <2> HIDE DEF q
  <2>5. Fine(r)
    BY <1>1, <2>1, <2>3, <2>4, VacatesFine DEF Inactive
  <2> QED BY <2>5 DEF r, w
<1> QED BY <1>2, <1>3

LEMMA DocumentResumesFine ==
  ASSUME ~Earcons, NEW t, NEW u \in Utts, Kept(t, u), t.cur = u, Inactive(t)
  PROVE  Fine(ResumeDocument(t, u))
<1> DEFINE to == "Paused"
           e == IF t.db.state[u] = "Playing" THEN Transition(t.db, u, to) ELSE t.db
           p == NextChunk(t.db, u)
           r == ResumeDocument(t, u)
<1>1. t.db \in Database /\ to \in State /\ to # "Submitted"
  BY KeptTyped, StateFacts
<1>2. Fine(t)
  BY KeptTyped, TiedTo DEF Inactive
<1>3. CASE HasNext(t.db, u) /\ t.db.held
  <2>1. r = [t EXCEPT !.db = e]
    BY <1>3 DEF ResumeDocument
  <2> HIDE DEF to
  <2>2. e \in Database /\ Moves(t.db, e, u) /\ e.held = t.db.held
    <3>1. CASE t.db.state[u] = "Playing"
      <4>1. IsLive(t.db, u)
        BY <3>1, StateFacts DEF IsLive
      <4> QED BY <1>1, <3>1, <4>1, TransitionMoves
    <3>2. CASE t.db.state[u] # "Playing"
      BY <1>1, <3>2, MovesSame
    <3> QED BY <3>1, <3>2
  <2> HIDE DEF e, r
  <2>3. Kept(r, u) /\ r.cur = u /\ r.active = t.active /\ r.watch = t.watch
    BY <2>1, <2>2, NewRows
  <2>4. r.active = r.watch /\ ~r.active
    BY <2>3, KeptTyped DEF Inactive
  <2>5. Fine(r)
    BY <2>3, <2>4, TiedTo
  <2> QED BY <2>5 DEF r
<1>4. CASE ~t.db.held /\ NextIs(t.db, u, {"Ready"})
  <2>1. HasNext(t.db, u)
    BY <1>4 DEF NextIs
  <2>2. r = BeginChunk(t, p)
    BY <1>4, <2>1, ZenonT(30) DEF ResumeDocument
  <2>3. p \in Parts /\ p[1] = u
    BY <2>1, NextChunkIsOpen
  <2> HIDE DEF p, r
  <2>4. Fine(r)
    BY <2>2, <2>3, ChunkBeginsFine
  <2> QED BY <2>4 DEF r
<1>5. CASE ~(HasNext(t.db, u) /\ t.db.held) /\ ~(~t.db.held /\ NextIs(t.db, u, {"Ready"}))
  <2>1. r = t
    BY <1>5 DEF ResumeDocument, NextIs
  <2> QED BY <1>2, <2>1
<1> QED BY <1>3, <1>4, <1>5

LEMMA NextStepFine ==
  ASSUME ~Earcons, NEW t, Fine(t), Inactive(t), t.cur \in Utts
  PROVE  Fine(NextLands(t, Slot(t)))
<1> DEFINE u == t.cur
           w == Slot(t)
           to == "Skipped"
           e == TransitionSegment(t.db, w, to)
           q == [t EXCEPT !.db = e, !.idx = Whole]
           r == NextLands(t, w)
<1>1. Kept(t, u) /\ t.db \in Database /\ u \in Utts /\ w[1] = u /\ to \in State
  BY KeptTyped, StateFacts DEF Fine, Slot
<1>2. CASE ~CanTransition(t.db.child[w], "Skipped")
  <2>1. r = t
    BY <1>2 DEF NextLands
  <2> QED BY <2>1
<1>3. CASE CanTransition(t.db.child[w], "Skipped")
  <2>1. r = ResumeDocument(q, u)
    BY <1>1, <1>3 DEF NextLands
  <2> HIDE DEF w, u, r, to
  <2>2. e \in Database /\ Moves(t.db, e, u) /\ e.held = t.db.held
    BY <1>1, SegmentMoves
  <2> HIDE DEF e
  <2> DEFINE f == [t EXCEPT !.db = e]
  <2>3. Kept(f, u) /\ f.cur = t.cur /\ f.active = t.active /\ f.watch = t.watch
    BY <1>1, <2>2, NewRows
  <2>4. q = [f EXCEPT !.idx = Whole]
    OBVIOUS
  <2> HIDE DEF f, q
  <2>6. Kept(q, u) /\ q.cur = u /\ Inactive(q)
    BY <2>3, <2>4, NoChunkKept DEF Inactive, u
  <2>5. Fine(r)
    BY <1>1, <2>1, <2>6, DocumentResumesFine
  <2> QED BY <2>5 DEF r, w
<1> QED BY <1>2, <1>3

(* The chunks from i on are reset, if they can be.                         *)
LEMMA RewindsKept ==
  ASSUME NEW t, NEW u \in Utts, Kept(t, u), NEW i
  PROVE  LET d == IF Has(t.db, <<u, i>>) THEN ResetSegmentsFrom(t.db, u, i) ELSE t.db
         IN  d \in Database /\ Moves(t.db, d, u) /\ d.held = t.db.held /\ d.state = t.db.state
<1>1. t.db \in Database
  BY KeptTyped
<1>2. CASE Has(t.db, <<u, i>>)
  BY <1>1, <1>2, ResetMoves
<1>3. CASE ~Has(t.db, <<u, i>>)
  BY <1>1, <1>3, MovesSame
<1> QED BY <1>2, <1>3

LEMMA StepRestoredFine ==
  ASSUME ~Earcons, NEW t, NEW u \in Utts, Kept(t, u), t.cur = u, Inactive(t), NEW i
  PROVE  Fine(RestoreStep(t, u, i))
<1> DEFINE d == IF Has(t.db, <<u, i>>) THEN ResetSegmentsFrom(t.db, u, i) ELSE t.db
           e == [t EXCEPT !.db = d]
           r == RestoreStep(t, u, i)
<1>1. d \in Database /\ Moves(t.db, d, u) /\ d.held = t.db.held /\ t \in AnyController
  BY RewindsKept, KeptTyped
<1>2. r = IF ResetLands(t.db, u, i)
            THEN ResumeDocument([e EXCEPT !.idx = Whole], u)
            ELSE Vacated([e EXCEPT !.db = IF CanTransition(@.state[u], "Failed")
                                            THEN Transition(@, u, "Failed") ELSE @])
  BY DEF RestoreStep
<1> HIDE DEF d, r
<1>3. Kept(e, u) /\ e.db = d /\ e.cur = u /\ e.active = t.active /\ e.watch = t.watch
  BY <1>1, NewRows
<1>4. Inactive(e)
  BY <1>3 DEF Inactive
<1> HIDE DEF e
<1>5. CASE ResetLands(t.db, u, i)
  <2> DEFINE q == [e EXCEPT !.idx = Whole]
  <2>1. Kept(q, u) /\ q.cur = u /\ Inactive(q)
    BY <1>3, <1>4, NoChunkKept DEF Inactive
  <2>2. r = ResumeDocument(q, u)
    BY <1>2, <1>5
  <2> HIDE DEF q
  <2>3. Fine(r)
    BY <2>1, <2>2, DocumentResumesFine
  <2> QED BY <2>3 DEF r
<1>6. CASE ~ResetLands(t.db, u, i)
  <2> DEFINE to == "Failed"
             f == IF CanTransition(e.db.state[u], to) THEN Transition(e.db, u, to) ELSE e.db
             q == [e EXCEPT !.db = f]
  <2>1. r = Vacated(q)
    BY <1>2, <1>6
  <2>2. e.db \in Database /\ to \in State /\ to \in Terminal /\ to \notin Live /\ to # "Submitted"
    BY <1>3, KeptTyped, StateFacts
  <2>3. f \in Database /\ Moves(e.db, f, u) /\ f.held = e.db.held /\ f.state[u] # "Paused"
    <3>1. CASE CanTransition(e.db.state[u], to)
      <4>1. to # "Paused"
        OBVIOUS
      <4> HIDE DEF to
      <4>2. LET g == Transition(e.db, u, to)
            IN  /\ g \in Database /\ Moves(e.db, g, u) /\ g.held = e.db.held
                /\ g.state = [e.db.state EXCEPT ![u] = to]
        BY <2>2, TransitionMoves
      <4> QED BY <2>2, <3>1, <4>1, <4>2 DEF Database
    <3>2. CASE ~CanTransition(e.db.state[u], to)
      <4>1. CanTransition("Paused", "Failed")
        BY DEF CanTransition, Transitions, State
      <4> QED BY <2>2, <3>2, <4>1, MovesSame
    <3> QED BY <3>1, <3>2
  <2> HIDE DEF f
  <2>4. Kept(q, u) /\ q.db = f /\ q.active = e.active /\ q.watch = e.watch
    BY <1>3, <2>3, NewRows
  <2> HIDE DEF q
  <2>5. Fine(r)
    BY <1>4, <2>1, <2>3, <2>4, VacatesFine DEF Inactive
  <2> QED BY <2>5 DEF r
<1> QED BY <1>5, <1>6

LEMMA PreviousStepFine ==
  ASSUME ~Earcons, NEW t, Fine(t), Inactive(t), t.cur \in Utts
  PROVE  Fine(PreviousLands(t, Slot(t)))
<1> DEFINE w == Slot(t)
           u == w[1]
           i == w[2] - 1
           j == w[2]
           d == IF Has(t.db, <<u, i>>) THEN ResetSegmentsFrom(t.db, u, i) ELSE t.db
           e == [t EXCEPT !.db = d]
           q == [e EXCEPT !.idx = Whole]
           r == PreviousLands(t, w)
<1>1. Kept(t, u) /\ u \in Utts /\ t.cur = u /\ t \in AnyController
  BY KeptTyped DEF Fine, Slot
<1>2. r = IF ResetLands(t.db, u, i) THEN ResumeDocument(q, u) ELSE RestoreStep(e, u, j)
  BY DEF PreviousLands
<1> HIDE DEF u, i, j
<1>3. d \in Database /\ Moves(t.db, d, u) /\ d.held = t.db.held
  BY <1>1, RewindsKept
<1> HIDE DEF d
<1>4. Kept(e, u) /\ e.cur = u /\ e.active = t.active /\ e.watch = t.watch
  BY <1>1, <1>3, NewRows
<1>5. Kept(q, u) /\ q.cur = u /\ q.active = t.active /\ q.watch = t.watch
  BY <1>4, NoChunkKept
<1> HIDE DEF e, q, r
<1>6. Fine(r)
  BY <1>1, <1>2, <1>4, <1>5, DocumentResumesFine, StepRestoredFine DEF Inactive
<1> QED BY <1>6 DEF r, w

LEMMA RestartStepFine ==
  ASSUME ~Earcons, NEW t, Fine(t), Inactive(t), t.cur \in Utts
  PROVE  Fine(RestartLands(t, Slot(t)))
<1> DEFINE w == Slot(t)
           u == w[1]
           i == w[2]
           g == ResetSegmentsFrom(t.db, u, 0)
           h == [t EXCEPT !.db = g]
           e == [t EXCEPT !.db = g, !.idx = Whole]
           r == RestartLands(t, w)
<1>1. Kept(t, u) /\ u \in Utts /\ t.cur = u /\ t.db \in Database /\ ~t.active /\ t.active = t.watch
  BY KeptTyped DEF Fine, Slot, Inactive
<1>2. CASE u \in Composite
  <2>1. r = CASE NextIs(e.db, u, {"Ready"}) -> ResumeDocument(e, u)
              [] ~NextIs(e.db, u, {"Ready"}) /\ i # Whole -> RestoreStep(e, u, i)
              [] OTHER -> e
    BY <1>2 DEF RestartLands
  <2> HIDE DEF u, i, r
  <2>2. g \in Database /\ Moves(t.db, g, u) /\ g.held = t.db.held
    BY <1>1, ResetMoves
  <2>3. e = [h EXCEPT !.idx = Whole]
    OBVIOUS
  <2> HIDE DEF g
  <2>4. Kept(h, u) /\ h.cur = u /\ h.active = t.active /\ h.watch = t.watch
    BY <1>1, <2>2, NewRows
  <2> HIDE DEF h, e
  <2>5. Kept(e, u) /\ e.cur = u /\ ~e.active /\ e.active = e.watch /\ Inactive(e)
    BY <1>1, <2>3, <2>4, NoChunkKept DEF Inactive
  <2>6. Fine(e)
    BY <1>1, <2>5, TiedTo
  <2>7. CASE NextIs(e.db, u, {"Ready"})
    <3>1. r = ResumeDocument(e, u)
      BY <2>1, <2>7, ZenonT(30)
    <3>2. Fine(r)
      BY <1>1, <2>5, <3>1, DocumentResumesFine
    <3> QED BY <3>2 DEF r
  <2>8. CASE ~NextIs(e.db, u, {"Ready"}) /\ i # Whole
    <3>1. r = RestoreStep(e, u, i)
      BY <2>1, <2>8, ZenonT(30)
    <3>2. Fine(r)
      BY <1>1, <2>5, <3>1, StepRestoredFine
    <3> QED BY <3>2 DEF r
  <2>9. CASE ~NextIs(e.db, u, {"Ready"}) /\ i = Whole
    <3>1. r = e
      BY <2>1, <2>9, ZenonT(30)
    <3>2. Fine(r)
      BY <2>6, <3>1
    <3> QED BY <3>2 DEF r
  <2> QED BY <2>7, <2>8, <2>9
<1>3. CASE u \notin Composite
  <2> DEFINE y == <<u, Whole>>
  <2>1. CASE ~In(t.db, u, {"Playing", "Paused"})
    <3>1. r = t
      BY <1>3, <2>1 DEF RestartLands
    <3> QED BY <3>1
  <2>2. CASE In(t.db, u, {"Playing", "Paused"}) /\ t.db.held
    <3> DEFINE d == SuspendPlayback(t.db, y)
               q == [t EXCEPT !.db = d]
    <3>1. r = q
      BY <1>3, <2>2 DEF RestartLands
    <3>2. y[1] = u
      OBVIOUS
    <3> HIDE DEF r, u, y
    <3>3. d \in Database /\ Moves(t.db, d, u) /\ d.held = t.db.held
      <4>1. y[1] \in Utts
        BY <1>1, <3>2
      <4>2. d \in Database /\ Moves(t.db, d, y[1]) /\ d.held = t.db.held
        BY <1>1, <4>1, SuspendMoves
      <4> QED BY <3>2, <4>2
    <3> HIDE DEF d
    <3>4. Kept(q, u) /\ q.cur = u /\ q.active = t.active /\ q.watch = t.watch
      BY <1>1, <3>3, NewRows
    <3> HIDE DEF q
    <3>5. Fine(r)
      BY <1>1, <3>1, <3>4, TiedTo
    <3> QED BY <3>5 DEF r
  <2>3. CASE In(t.db, u, {"Playing", "Paused"}) /\ ~t.db.held
    <3> DEFINE to == "Playing"
               d == IF t.db.state[u] = "Paused" THEN Transition(t.db, u, to) ELSE t.db
               q == [t EXCEPT !.db = d]
    <3>1. r = Start(q, y)
      BY <1>3, <2>3, ZenonT(30) DEF RestartLands
    <3>2. IsLive(t.db, u) /\ t.db.state[u] \in {"Playing", "Paused"} /\ to \in State /\ to # "Submitted"
      BY <2>3, StateFacts DEF In, IsLive
    <3>3. /\ d \in Database /\ Moves(t.db, d, u) /\ d.held = t.db.held
          /\ d.state = [t.db.state EXCEPT ![u] = "Playing"]
      <4>1. CASE t.db.state[u] = "Paused"
        <5>1. to = "Playing"
          OBVIOUS
        <5> HIDE DEF to
        <5> QED BY <1>1, <3>2, <4>1, <5>1, TransitionMoves
      <4>2. CASE t.db.state[u] # "Paused"
        <5>1. t.db.state = [t.db.state EXCEPT ![u] = "Playing"]
          BY <1>1, <3>2, <4>2 DEF Database
        <5> QED BY <1>1, <4>2, <5>1, MovesSame
      <4> QED BY <4>1, <4>2
    <3> HIDE DEF d, r, u, y
    <3>4. Kept(q, u) /\ q.db = d /\ q.cur = u /\ q.active = t.active /\ q.watch = t.watch
      BY <1>1, <3>3, NewRows
    <3>5. CurrentState(q) = "Playing"
      BY <1>1, <3>3, <3>4, NobodyIsNone DEF CurrentState, Database
    <3> HIDE DEF q
    <3>6. Kept(r, u) /\ r.db = q.db /\ r.cur = q.cur /\ r.active = r.watch
      BY <1>1, <3>1, <3>4, StartKeeps DEF Inactive
    <3>7. CurrentState(r) = "Playing"
      BY <3>5, <3>6 DEF CurrentState
    <3>8. Fine(r)
      BY <1>1, <3>4, <3>6, <3>7, TiedTo
    <3> QED BY <3>8 DEF r
  <2> QED BY <2>1, <2>2, <2>3
<1> QED BY <1>2, <1>3

-----------------------------------------------------------------------------
(* A change of flags alone.                                                *)
LEMMA FlagsKept ==
  ASSUME NEW t, NEW c, Kept(t, c), NEW r \in AnyController, r.db = t.db, r.stack = t.stack,
         r.cues = t.cues, r.mic \/ r.armed => r.db.held
  PROVE  Kept(r, c)
BY DEF Kept

LEMMA DeviceKept ==
  ASSUME NEW t, Fine(t), NEW v \in Modes
  PROVE  LET r == [t EXCEPT !.device.mode = v]
         IN  /\ Fine(r) /\ r.db = t.db /\ r.cur = t.cur /\ r.idx = t.idx
             /\ r.active = t.active /\ r.watch = t.watch
<1> DEFINE r == [t EXCEPT !.device.mode = v]
<1>1. t \in AnyController /\ Kept(t, t.cur) /\ t.device \in [mode : Modes, unit : Units \cup {Outro}]
  BY AnyFields DEF Fine, Kept
<1>2. [t.device EXCEPT !.mode = v] \in [mode : Modes, unit : Units \cup {Outro}]
  BY <1>1
<1>3. /\ r \in AnyController /\ r.db = t.db /\ r.cur = t.cur /\ r.idx = t.idx
      /\ r.active = t.active /\ r.watch = t.watch /\ r.stack = t.stack
      /\ r.mic = t.mic /\ r.armed = t.armed /\ r.cues = t.cues
  BY <1>1, <1>2 DEF AnyController
<1> HIDE DEF r
<1>4. Kept(r, r.cur)
  BY <1>1, <1>3, FlagsKept DEF Kept
<1>5. Tied(r)
  BY <1>3 DEF Fine, Tied, CurrentState, Misplaced, Slot
<1> QED BY <1>3, <1>4, <1>5 DEF Fine, r

LEMMA HeldFine ==
  ASSUME NEW t, Fine(t)
  PROVE  LET r == Held(t)
         IN  /\ Fine(r) /\ r.db.held /\ r.cur = t.cur /\ r.idx = t.idx
             /\ r.active = t.active /\ r.watch = t.watch
<1> DEFINE chunk == t.active /\ t.idx # Whole
           to == "Paused"
           u == t.cur
           w == Slot(t)
           d == [t.db EXCEPT !.held = TRUE]
           e == IF chunk THEN TransitionSegment(d, w, to) ELSE d
           f == IF HoldRaises(t) THEN d ELSE Transition(e, u, to)
           v == IF t.active /\ t.device.mode = "sounding" THEN "paused" ELSE t.device.mode
           r == Held(t)
<1>1. /\ t \in AnyController /\ Kept(t, u) /\ t.db \in Database /\ u \in Utts \cup {Nobody}
      /\ t.device \in [mode : Modes, unit : Units \cup {Outro}]
  BY KeptTyped, AnyFields DEF Fine
<1>2. d \in Database /\ d.state = t.db.state /\ d.order = t.db.order /\ d.held = TRUE
  BY <1>1 DEF Database
<1>3. Moves(t.db, d, u)
  BY <1>2, MovesSame
<1>4. v \in Modes /\ to \in State /\ to # "Submitted"
  BY <1>1, StateFacts DEF Modes
<1>5. r = IF CurrentState(t) = "Playing" THEN [t EXCEPT !.db = f, !.device.mode = v]
                                         ELSE [t EXCEPT !.db = d]
  BY DEF Held
<1> HIDE DEF d, v, w, chunk
<1>6. CASE CurrentState(t) = "Playing"
  <2>1. u \in Utts /\ t.db.state[u] = "Playing" /\ IsLive(t.db, u)
    BY <1>1, <1>6, StateFacts DEF CurrentState, Absent, IsLive
  <2>2. /\ f \in Database /\ Moves(t.db, f, u) /\ f.held = TRUE
        /\ f.state[u] = "Paused" => ~HoldRaises(t)
    <3>1. CASE HoldRaises(t)
      BY <1>2, <1>3, <2>1, <3>1
    <3>2. CASE ~HoldRaises(t)
      <4> HIDE DEF to
      <4>1. e \in Database /\ Moves(d, e, u) /\ e.held = d.held /\ e.state = d.state
        <5>1. CASE chunk
          BY <1>2, <1>4, <5>1, SegmentMoves
        <5>2. CASE ~chunk
          BY <1>2, <5>2, MovesSame
        <5> QED BY <5>1, <5>2
      <4> HIDE DEF e
      <4>2. IsLive(e, u)
        BY <1>2, <2>1, <4>1 DEF IsLive
      <4> HIDE DEF u
      <4>3. LET g == Transition(e, u, to)
            IN  g \in Database /\ Moves(e, g, u) /\ g.held = e.held
        BY <1>4, <2>1, <4>1, <4>2, TransitionMoves
      <4>4. f \in Database /\ Moves(e, f, u) /\ f.held = e.held
        BY <3>2, <4>3
      <4> HIDE DEF f
      <4> QED BY <1>2, <1>3, <3>2, <4>1, <4>4, MovesTrans
    <3> QED BY <3>1, <3>2
  <2> HIDE DEF f, r
  <2>3. [t.device EXCEPT !.mode = v] \in [mode : Modes, unit : Units \cup {Outro}]
    BY <1>1, <1>4
  <2>4. /\ r \in AnyController /\ r.db = f /\ r.cur = t.cur /\ r.idx = t.idx
        /\ r.active = t.active /\ r.watch = t.watch /\ r.stack = t.stack
        /\ r.mic = t.mic /\ r.armed = t.armed /\ r.cues = t.cues
    <3>1. r = [t EXCEPT !.db = f, !.device.mode = v]
      BY <1>5, <1>6
    <3> DEFINE q == [t EXCEPT !.db = f]
    <3>2. r = [q EXCEPT !.device.mode = v]
      BY <3>1
    <3>3. /\ q \in AnyController /\ q.db = f /\ q.cur = t.cur /\ q.idx = t.idx
          /\ q.active = t.active /\ q.watch = t.watch /\ q.stack = t.stack
          /\ q.mic = t.mic /\ q.armed = t.armed /\ q.cues = t.cues /\ q.device = t.device
      BY <1>1, <2>2 DEF AnyController
    <3> HIDE DEF q
    <3> QED BY <2>3, <3>2, <3>3 DEF AnyController
  <2>5. Kept(r, u)
    BY <1>1, <2>2, <2>4, MovesKept
  <2>6. Tied(r)
    BY <1>6, <2>1, <2>2, <2>4, NobodyIsNone DEF Fine, Tied, CurrentState, HoldRaises, Misplaced, Slot
  <2> QED BY <2>2, <2>4, <2>5, <2>6 DEF Fine, r, u
<1>7. CASE CurrentState(t) # "Playing"
  <2>1. r = [t EXCEPT !.db = d]
    BY <1>5, <1>7
  <2> HIDE DEF r
  <2>2. /\ Kept(r, u) /\ r.db = d /\ r.cur = t.cur /\ r.idx = t.idx
        /\ r.active = t.active /\ r.watch = t.watch
    BY <1>1, <1>2, <1>3, <2>1, NewRows
  <2>3. Tied(r)
    BY <1>2, <2>2 DEF Fine, Tied, CurrentState, Misplaced, Slot
  <2> QED BY <1>2, <2>2, <2>3 DEF Fine, r, u
<1> QED BY <1>6, <1>7

LEMMA UnclaimedFine ==
  ASSUME NEW t, Fine(t)
  PROVE  LET r == Unclaimed(t)
         IN  /\ Fine(r) /\ r.db = t.db /\ r.cur = t.cur /\ r.idx = t.idx
             /\ r.active = t.active /\ r.watch = t.watch /\ r.device = t.device
<1> DEFINE r == Unclaimed(t)
<1>1. t \in AnyController /\ Kept(t, t.cur)
  BY DEF Fine, Kept
<1>2. /\ r \in AnyController /\ r.db = t.db /\ r.cur = t.cur /\ r.idx = t.idx
      /\ r.active = t.active /\ r.watch = t.watch /\ r.stack = t.stack /\ r.device = t.device
      /\ r.mic = FALSE /\ r.armed = FALSE /\ r.cues = t.cues
  BY <1>1 DEF AnyController, Unclaimed
<1> HIDE DEF r
<1>3. Kept(r, r.cur)
  BY <1>1, <1>2, FlagsKept
<1>4. Tied(r)
  BY <1>2 DEF Fine, Tied, CurrentState, Misplaced, Slot
<1> QED BY <1>2, <1>3, <1>4 DEF Fine, r

LEMMA TookFloorFine ==
  ASSUME NEW t, Fine(t), t.db.held, NEW arm \in BOOLEAN
  PROVE  LET r == TookFloor(t, arm)
         IN  /\ Fine(r) /\ r.db = t.db /\ r.cur = t.cur /\ r.idx = t.idx
             /\ r.active = t.active /\ r.watch = t.watch
<1> DEFINE b == t.armed \/ arm
           r == TookFloor(t, arm)
<1>1. t \in AnyController /\ Kept(t, t.cur) /\ b \in BOOLEAN
  BY KeptTyped DEF Fine
<1>2. r = [t EXCEPT !.mic = TRUE, !.armed = b]
  BY DEF TookFloor
<1> HIDE DEF b, r
<1>3. /\ r \in AnyController /\ r.db = t.db /\ r.cur = t.cur /\ r.idx = t.idx
      /\ r.active = t.active /\ r.watch = t.watch /\ r.stack = t.stack /\ r.cues = t.cues
  BY <1>1, <1>2 DEF AnyController
<1>4. Kept(r, r.cur)
  BY <1>1, <1>3, FlagsKept
<1>5. Tied(r)
  BY <1>3 DEF Fine, Tied, CurrentState, Misplaced, Slot
<1> QED BY <1>3, <1>4, <1>5 DEF Fine, r

(* The hold is lifted before the rows and the device follow it.            *)
LEMMA LiftedFine ==
  ASSUME NEW t, Fine(t)
  PROVE  LET r == Unclaimed([Calm(t) EXCEPT !.db.held = FALSE])
         IN  /\ Fine(r) /\ r.cur = t.cur /\ r.idx = t.idx
             /\ r.active = t.active /\ r.watch = t.watch
<1> DEFINE d == [t.db EXCEPT !.held = FALSE]
           g == [t EXCEPT !.raised = FALSE]
           h == [g EXCEPT !.db = d]
           r == Unclaimed([Calm(t) EXCEPT !.db.held = FALSE])
<1>1. t \in AnyController /\ Kept(t, t.cur) /\ t.db \in Database /\ t.stack \in Seq(Bookmarks)
  BY KeptTyped DEF Fine
<1>2. d \in Database /\ d.state = t.db.state /\ d.order = t.db.order
  BY <1>1 DEF Database
<1>3. r = [h EXCEPT !.mic = FALSE, !.armed = FALSE]
  BY <1>1 DEF Unclaimed, Calm, AnyController
<1> HIDE DEF d, r
<1>4. /\ g \in AnyController /\ g.db = t.db /\ g.cur = t.cur /\ g.idx = t.idx
      /\ g.active = t.active /\ g.watch = t.watch /\ g.stack = t.stack /\ g.cues = t.cues
  BY <1>1 DEF AnyController
<1> HIDE DEF g
<1>5. /\ h \in AnyController /\ h.db = d /\ h.cur = t.cur /\ h.idx = t.idx
      /\ h.active = t.active /\ h.watch = t.watch /\ h.stack = t.stack /\ h.cues = t.cues
  BY <1>2, <1>4 DEF AnyController
<1> HIDE DEF h
<1>6. /\ r \in AnyController /\ r.db = d /\ r.cur = t.cur /\ r.idx = t.idx
      /\ r.active = t.active /\ r.watch = t.watch /\ r.stack = t.stack /\ r.cues = t.cues
      /\ r.mic = FALSE /\ r.armed = FALSE
  BY <1>3, <1>5 DEF AnyController
<1>7. Moves(t.db, d, t.cur)
  BY <1>2, MovesSame
<1>8. Lined(r.db) /\ Stacked(r.db, r.cur, r.stack)
  BY <1>1, <1>6, <1>7, MovesLined, MovesStacked DEF Kept
<1>9. Kept(r, r.cur)
  BY <1>1, <1>6, <1>8 DEF Kept
<1>10. Tied(r)
  BY <1>2, <1>6 DEF Fine, Tied, CurrentState, Misplaced, Slot
<1> QED BY <1>6, <1>9, <1>10 DEF Fine, r

LEMMA AdoptedFine ==
  ASSUME NEW t, Fine(t)
  PROVE  LET r == Adopted(t)
         IN  /\ Fine(r) /\ r.active = t.active /\ r.watch = t.watch
             /\ t.active => r.cur = t.cur /\ r.idx = t.idx
<1> DEFINE u == First(t.db, Paused(t.db))
           places == {k \in DOMAIN t.stack : t.stack[k][1] = u}
           m == CHOOSE k \in places : TRUE
           k == IF places = {} THEN t.stack ELSE RemoveAt(t.stack, m)
           r == Adopted(t)
<1>1. CASE ~(t.cur = Nobody /\ Paused(t.db) # {})
  <2>1. r = t
    BY <1>1 DEF Adopted
  <2> QED BY <2>1
<1>2. CASE t.cur = Nobody /\ Paused(t.db) # {}
  <2>1. /\ t \in AnyController /\ t.db \in Database /\ t.stack \in Seq(Bookmarks)
        /\ ~t.active /\ ~t.watch /\ t.active = t.watch
        /\ Kept(t, Nobody) /\ Stacked(t.db, Nobody, t.stack)
    BY <1>2, KeptTyped DEF Fine, Tied, Kept
  <2>2. u \in Paused(t.db) /\ u \in Utts
    <3>1. Paused(t.db) \in SUBSET Utts
      BY DEF Paused
    <3> QED BY <1>2, <2>1, <3>1, FirstIsOne
  <2>3. r = [t EXCEPT !.cur = u, !.stack = k]
    BY <1>2, ZenonT(60) DEF Adopted
  <2> HIDE DEF u
  <2>4. PICK j \in DOMAIN t.stack : t.stack[j][1] = u
    BY <2>1, <2>2, NobodyIsNone DEF Stacked
  <2>5. places # {} /\ m \in places
    BY <2>4
  <2>6. k = RemoveAt(t.stack, m) /\ m \in DOMAIN t.stack /\ t.stack[m][1] = u
    BY <2>5
  <2> HIDE DEF m, places
  <2>8. /\ k \in Seq(Bookmarks)
        /\ \A i \in DOMAIN k : \E j1 \in DOMAIN t.stack \ {m} : k[i] = t.stack[j1]
        /\ \A i, j1 \in DOMAIN k : k[i] = k[j1] /\ i # j1 =>
             \E a, b \in DOMAIN t.stack : a # b /\ t.stack[a] = k[i] /\ t.stack[b] = k[j1]
        /\ \A j1 \in DOMAIN t.stack \ {m} : \E i \in DOMAIN k : k[i] = t.stack[j1]
    <3> DEFINE z == t.stack
               q == RemoveAt(z, m)
    <3>1. z \in Seq(Bookmarks) /\ m \in DOMAIN z /\ k = q
      BY <2>1, <2>6
    <3> HIDE DEF z, k
    <3>2. /\ q \in Seq(Bookmarks)
          /\ \A i \in DOMAIN q : \E j1 \in DOMAIN z \ {m} : q[i] = z[j1]
          /\ \A i, j1 \in DOMAIN q : q[i] = q[j1] /\ i # j1 =>
               \E a, b \in DOMAIN z : a # b /\ z[a] = q[i] /\ z[b] = q[j1]
          /\ \A j1 \in DOMAIN z \ {m} : \E i \in DOMAIN q : q[i] = z[j1]
      BY <3>1, RemovedAt
    <3> HIDE DEF q
    <3> QED BY <3>1, <3>2 DEF z
  <2> HIDE DEF k
  <2>9. \A a, b \in DOMAIN t.stack : t.stack[a][1] = t.stack[b][1] => a = b
    BY <2>1 DEF Stacked
  <2>10. Stacked(t.db, u, k)
    <3>1. ASSUME NEW v \in Paused(t.db), v # u PROVE \E i \in DOMAIN k : k[i][1] = v
      <4>1. PICK a \in DOMAIN t.stack : t.stack[a][1] = v
        BY <2>1, <3>1, NobodyIsNone DEF Stacked, Paused
      <4>2. a # m
        BY <2>6, <3>1, <4>1
      <4> QED BY <2>8, <4>1, <4>2
    <3>2. ASSUME NEW i \in DOMAIN k, NEW j1 \in DOMAIN k, k[i][1] = k[j1][1] PROVE i = j1
      <4>1. PICK a \in DOMAIN t.stack : k[i] = t.stack[a]
        BY <2>8
      <4>2. PICK b \in DOMAIN t.stack : k[j1] = t.stack[b]
        BY <2>8
      <4>3. a = b
        BY <2>9, <3>2, <4>1, <4>2
      <4>4. k[i] = k[j1]
        BY <4>1, <4>2, <4>3
      <4> QED BY <2>8, <2>9, <4>4
    <3>3. ASSUME NEW i \in DOMAIN k PROVE k[i][1] # u /\ t.db.state[k[i][1]] \in Rests
      <4>1. PICK a \in DOMAIN t.stack \ {m} : k[i] = t.stack[a]
        BY <2>8
      <4>2. t.stack[a][1] # u
        BY <2>6, <2>9, <4>1
      <4> QED BY <2>1, <4>1, <4>2 DEF Stacked
    <3> QED BY <3>1, <3>2, <3>3 DEF Stacked
  <2> HIDE DEF r
  <2>11. /\ r \in AnyController /\ r.db = t.db /\ r.cur = u
         /\ r.active = t.active /\ r.watch = t.watch /\ r.stack = k /\ r.cues = t.cues
         /\ r.mic = t.mic /\ r.armed = t.armed
    BY <2>1, <2>2, <2>3, <2>8 DEF AnyController
  <2>12. Kept(r, u)
    BY <2>1, <2>10, <2>11 DEF Kept
  <2>13. Fine(r)
    BY <2>1, <2>2, <2>11, <2>12, TiedTo
  <2> QED BY <2>1, <2>11, <2>13 DEF r
<1> QED BY <1>1, <1>2

LEMMA ContinuedFine ==
  ASSUME ~Earcons, NEW t, Fine(t)
  PROVE  LET r == Continued(t)
         IN  /\ Fine(r)
             /\ t.active => /\ r.cur = t.cur /\ r.idx = t.idx
                            /\ r.active = t.active /\ r.watch = t.watch
<1> DEFINE u == t.cur
           to == "Playing"
           w == Slot(t)
           p == NextChunk(t.db, u)
           r == Continued(t)
<1>1. /\ t \in AnyController /\ Kept(t, u) /\ t.db \in Database /\ u \in Utts \cup {Nobody}
      /\ t.device \in [mode : Modes, unit : Units \cup {Outro}]
      /\ t.active \in BOOLEAN /\ t.watch \in BOOLEAN
  BY KeptTyped, AnyFields DEF Fine
<1>2. CASE CurrentState(t) # "Paused"
  <2>1. r = t
    BY <1>2 DEF Continued
  <2> QED BY <2>1
<1>3. CASE CurrentState(t) = "Paused"
  <2>1. u \in Utts /\ t.db.state[u] = "Paused" /\ IsLive(t.db, u)
    BY <1>1, <1>3, StateFacts DEF CurrentState, Absent, IsLive
  <2>2. to \in State /\ to # "Submitted" /\ to = "Playing"
    BY StateFacts
  <2>3. \A f \in Database : f.state = t.db.state =>
          LET g == Transition(f, u, to)
          IN  /\ g \in Database /\ Moves(f, g, u) /\ g.held = f.held
              /\ g.state = [f.state EXCEPT ![u] = to]
    <3> HIDE DEF to, u
    <3> TAKE f \in Database
    <3> HAVE f.state = t.db.state
    <3>1. IsLive(f, u)
      BY <2>1 DEF IsLive
    <3> QED BY <2>1, <2>2, <3>1, TransitionMoves
  <2>4. CASE t.active
    <3> DEFINE f == IF t.idx # Whole THEN TransitionSegment(t.db, w, to) ELSE t.db
               g == Transition(f, u, to)
               v == IF t.device.mode = "paused" THEN "sounding" ELSE t.device.mode
    <3>1. ~Misplaced(t)
      BY <1>3, <2>4 DEF Fine, Tied
    <3>2. r = [t EXCEPT !.db = g, !.device.mode = v]
      BY <1>3, <2>4, <3>1, ZenonT(60) DEF Continued
    <3>3. v \in Modes
      BY <1>1 DEF Modes
    <3> HIDE DEF w, to, u, v, r
    <3>4. f \in Database /\ Moves(t.db, f, u) /\ f.held = t.db.held /\ f.state = t.db.state
      <4>1. CASE t.idx # Whole
        BY <1>1, <2>2, <4>1, SegmentMoves
      <4>2. CASE t.idx = Whole
        BY <1>1, <4>2, MovesSame
      <4> QED BY <4>1, <4>2
    <3> HIDE DEF f
    <3>5. g \in Database /\ Moves(f, g, u) /\ g.held = f.held
          /\ g.state = [f.state EXCEPT ![u] = to]
      BY <2>3, <3>4
    <3> HIDE DEF g
    <3>6. Moves(t.db, g, u) /\ g.held = t.db.held /\ g.state[u] = "Playing"
      BY <1>1, <2>1, <2>2, <3>4, <3>5, MovesTrans DEF Database
    <3>7. [t.device EXCEPT !.mode = v] \in [mode : Modes, unit : Units \cup {Outro}]
      BY <1>1, <3>3
    <3>8. /\ r \in AnyController /\ r.db = g /\ r.cur = t.cur /\ r.idx = t.idx
          /\ r.active = t.active /\ r.watch = t.watch /\ r.stack = t.stack
          /\ r.mic = t.mic /\ r.armed = t.armed /\ r.cues = t.cues
      <4> DEFINE q == [t EXCEPT !.db = g]
      <4>1. r = [q EXCEPT !.device.mode = v]
        BY <3>2
      <4>2. /\ q \in AnyController /\ q.db = g /\ q.cur = t.cur /\ q.idx = t.idx
            /\ q.active = t.active /\ q.watch = t.watch /\ q.stack = t.stack
            /\ q.mic = t.mic /\ q.armed = t.armed /\ q.cues = t.cues /\ q.device = t.device
        BY <1>1, <3>5 DEF AnyController
      <4> HIDE DEF q
      <4> QED BY <3>7, <4>1, <4>2 DEF AnyController
    <3>9. Kept(r, u)
      BY <1>1, <3>6, <3>8, MovesKept
    <3>10. Tied(r)
      BY <2>1, <3>6, <3>8, NobodyIsNone DEF Fine, Tied, CurrentState, u
    <3> QED BY <3>8, <3>9, <3>10 DEF Fine, r, u
  <2>5. CASE ~t.active
    <3>1. Inactive(t)
      BY <2>5 DEF Fine, Tied, Inactive
    <3>2. CASE HasNext(t.db, u) /\ NextIs(t.db, u, {"Paused"}) /\ Has(t.db, p)
      <4>1. r = BeginChunk(t, p)
        BY <1>3, <2>5, <3>2, ZenonT(60) DEF Continued
      <4>2. p \in Parts /\ p[1] = u
        BY <2>1, <3>2, NextChunkIsOpen
      <4> HIDE DEF p, r, u
      <4>3. Fine(r)
        BY <1>1, <3>1, <4>1, <4>2, ChunkBeginsFine
      <4> QED BY <2>5, <4>3 DEF r
    <3>3. CASE HasNext(t.db, u) /\ ~(NextIs(t.db, u, {"Paused"}) /\ Has(t.db, p))
      <4> DEFINE g == Transition(t.db, u, to)
      <4>1. r = [t EXCEPT !.db = g]
        BY <1>3, <2>5, <3>3, ZenonT(60) DEF Continued
      <4>2. g \in Database /\ Moves(t.db, g, u) /\ g.held = t.db.held
        BY <1>1, <2>3
      <4> HIDE DEF g, r, p
      <4>3. Kept(r, u) /\ r.cur = t.cur /\ r.active = t.active /\ r.watch = t.watch
        BY <1>1, <4>1, <4>2, NewRows
      <4>4. r.active = r.watch /\ ~r.active
        BY <1>1, <2>5, <3>1, <4>3 DEF Inactive
      <4>5. Fine(r)
        BY <2>1, <4>3, <4>4, TiedTo
      <4> QED BY <2>5, <4>5 DEF r
    <3>4. CASE ~HasNext(t.db, u)
      <4>1. r = IF Has(t.db, <<u, Whole>>) THEN BeginWhole(t, u) ELSE t
        BY <1>3, <2>5, <3>4, ZenonT(60) DEF Continued
      <4> HIDE DEF r, u
      <4>2. Fine(r)
        BY <1>1, <2>1, <3>1, <4>1, WholeBeginsFine
      <4> QED BY <2>5, <4>2 DEF r
    <3> QED BY <3>2, <3>3, <3>4
  <2> QED BY <2>4, <2>5
<1> QED BY <1>2, <1>3

LEMMA ResumedFine ==
  ASSUME ~Earcons, NEW t, Fine(t)
  PROVE  LET r == Resumed(t)
         IN  /\ Fine(r)
             /\ t.active => /\ r.cur = t.cur /\ r.idx = t.idx
                            /\ r.active = t.active /\ r.watch = t.watch
<1> DEFINE x == Unclaimed([Calm(t) EXCEPT !.db.held = FALSE])
           y == Adopted(x)
           r == Resumed(t)
<1>1. r = Continued(y)
  BY DEF Resumed
<1>2. Fine(x) /\ x.cur = t.cur /\ x.idx = t.idx /\ x.active = t.active /\ x.watch = t.watch
  BY LiftedFine
<1> HIDE DEF x
<1>3. /\ Fine(y) /\ y.active = x.active /\ y.watch = x.watch
      /\ x.active => y.cur = x.cur /\ y.idx = x.idx
  BY <1>2, AdoptedFine
<1> HIDE DEF y, r
<1>4. /\ Fine(r)
      /\ y.active => /\ r.cur = y.cur /\ r.idx = y.idx
                     /\ r.active = y.active /\ r.watch = y.watch
  BY <1>1, <1>3, ContinuedFine
<1> QED BY <1>2, <1>3, <1>4 DEF r

-----------------------------------------------------------------------------
(* The daemon, the device and its watcher.                                 *)
LEMMA RebornFine ==
  ASSUME NEW t, Lined(t.db), t.mic \in BOOLEAN
  PROVE  Fine(Reborn(t))
<1> DEFINE d == Recovered(t.db)
           adopt == d.held /\ Paused(d) # {}
           first == First(d, Paused(d))
           others == IF adopt THEN Paused(d) \ {first} ELSE Paused(d)
           N == 1 .. Cardinality(others)
           k == [n \in N |-> SavedSlot(d, FromTheEnd(d, others, n))]
           x == IF adopt THEN first ELSE Nobody
           i == IF adopt THEN SavedSlot(d, first)[2] ELSE Whole
           v == [mode |-> "idle", unit |-> Outro]
           m == t.mic /\ d.held
           r == Reborn(t)
<1>1. Lined(d) /\ d \in Database /\ d.held \in BOOLEAN
  BY RecoveredLined DEF Lined, Database
<1> DEFINE e == [db |-> d, cur |-> x, idx |-> i, active |-> FALSE, watch |-> FALSE, device |-> v,
                 stack |-> k, mic |-> m, armed |-> FALSE, cues |-> FALSE, raised |-> FALSE]
<1>2. r = e
  BY DEF Reborn
<1> HIDE DEF d
<1>3. Paused(d) \in SUBSET Utts /\ \A u \in Paused(d) : IsLive(d, u) /\ d.state[u] = "Paused"
  BY StateFacts DEF Paused, IsLive
<1>4. adopt => first \in Paused(d)
  BY <1>1, <1>3, FirstIsOne
<1> HIDE DEF first
<1>5. /\ others \in SUBSET Utts
      /\ \A u \in others : u \in Paused(d) /\ u # x
      /\ \A u \in Paused(d) : u = x \/ u \in others
  BY <1>3, NobodyIsNone
<1>6. \A u, w \in others : d.order[u] = d.order[w] => u = w
  BY <1>1, <1>3, <1>5 DEF Lined, Ordered
<1>7. x \in Utts \cup {Nobody} /\ i \in Nat \cup {Whole} /\ (x = Nobody => i = Whole)
  <2>1. CASE adopt
    <3>1. x = first /\ x \in Utts
      BY <1>3, <1>4, <2>1
    <3>2. SavedSlot(d, first)[2] \in Nat \cup {Whole}
      BY <1>1, <3>1, SavedSlots
    <3>3. i = SavedSlot(d, first)[2]
      BY <2>1
    <3> HIDE DEF x, i
    <3> QED BY <3>1, <3>2, <3>3, NobodyIsNone
  <2>2. CASE ~adopt
    BY <2>2
  <2> QED BY <2>1, <2>2
<1> HIDE DEF others
<1>8. /\ Cardinality(others) \in Nat
      /\ \A n \in N : FromTheEnd(d, others, n) \in others
      /\ \A n, h \in N : FromTheEnd(d, others, n) = FromTheEnd(d, others, h) => n = h
      /\ \A u \in others : \E n \in N : FromTheEnd(d, others, n) = u
  BY <1>1, <1>5, <1>6, PlanFromTheEnd
<1>9. \A n \in N : k[n] \in Bookmarks /\ k[n][1] = FromTheEnd(d, others, n)
  <2> TAKE n \in N
  <2>1. FromTheEnd(d, others, n) \in Utts
    BY <1>5, <1>8
  <2> DEFINE u == FromTheEnd(d, others, n)
             w == SavedSlot(d, u)
  <2>2. w[1] = u /\ w[2] \in Nat \cup {Whole} /\ w = <<u, w[2]>>
    BY <1>1, <2>1, SavedSlots
  <2>3. k[n] = w
    OBVIOUS
  <2> HIDE DEF w, k
  <2> QED BY <2>1, <2>2, <2>3 DEF Bookmarks
<1>10. k \in Seq(Bookmarks) /\ DOMAIN k = N
  <2>1. k \in [N -> Bookmarks]
    BY <1>9
  <2> HIDE DEF k
  <2> QED BY <1>8, <2>1
<1>11. Stacked(d, x, k)
  <2> HIDE DEF k, N, x
  <2>1. \A n \in DOMAIN k : d.state[k[n][1]] \in Rests /\ k[n][1] # x
    BY <1>3, <1>5, <1>8, <1>9, <1>10 DEF Rests
  <2>2. \A n, h \in DOMAIN k : k[n][1] = k[h][1] => n = h
    BY <1>8, <1>9, <1>10
  <2>3. ASSUME NEW u \in Paused(d), u # x PROVE \E n \in DOMAIN k : k[n][1] = u
    BY <1>5, <1>8, <1>9, <1>10, <2>3
  <2> QED BY <2>1, <2>2, <2>3 DEF Stacked
<1>12. v \in [mode : Modes, unit : Units \cup {Outro}]
  BY DEF Modes
<1>13. m \in BOOLEAN /\ (m => d.held)
  BY <1>1
<1> HIDE DEF k, x, i, v, m, adopt
<1>14. /\ e \in AnyController /\ e.db = d /\ e.cur = x /\ e.idx = i
       /\ e.active = FALSE /\ e.watch = FALSE /\ e.stack = k
       /\ e.mic = m /\ e.armed = FALSE /\ e.cues = FALSE
  BY <1>1, <1>7, <1>10, <1>12, <1>13 DEF AnyController
<1> HIDE DEF e
<1>15. Kept(e, x)
  BY <1>1, <1>11, <1>13, <1>14 DEF Kept
<1> QED BY <1>2, <1>7, <1>14, <1>15 DEF Fine, Tied

LEMMA DeactivatedFine ==
  ASSUME NEW t, Fine(t), ~t.watch
  PROVE  LET r == Deactivated(Calm(t))
         IN  /\ Fine(r) /\ Inactive(r) /\ r.cur = t.cur /\ r.idx = t.idx /\ r.db = t.db
<1> DEFINE g == [t EXCEPT !.raised = FALSE]
           r == [g EXCEPT !.active = FALSE]
<1>1. t \in AnyController /\ Kept(t, t.cur)
  BY DEF Fine, Kept
<1>2. /\ g \in AnyController /\ g.db = t.db /\ g.cur = t.cur /\ g.idx = t.idx
      /\ g.watch = t.watch /\ g.stack = t.stack /\ g.cues = t.cues
      /\ g.mic = t.mic /\ g.armed = t.armed
  BY <1>1 DEF AnyController
<1> HIDE DEF g
<1>3. /\ r \in AnyController /\ r.db = t.db /\ r.cur = t.cur /\ r.idx = t.idx
      /\ r.active = FALSE /\ r.watch = t.watch /\ r.stack = t.stack /\ r.cues = t.cues
      /\ r.mic = t.mic /\ r.armed = t.armed
  BY <1>2 DEF AnyController
<1>4. r = Deactivated(Calm(t))
  BY DEF Deactivated, Calm, g
<1> HIDE DEF r
<1>5. Kept(r, r.cur)
  BY <1>1, <1>3, FlagsKept DEF Kept
<1>6. Fine(r) /\ Inactive(r)
  BY <1>3, <1>5 DEF Fine, Tied, Inactive
<1> QED BY <1>3, <1>4, <1>6

LEMMA InactiveStays ==
  ASSUME NEW t, Fine(t), ~t.active
  PROVE  Fine(Deactivated(t)) /\ Deactivated(t).active = FALSE
<1>1. t \in AnyController /\ t.active = FALSE
  BY KeptTyped DEF Fine
<1>2. Deactivated(t) = t
  BY <1>1 DEF Deactivated, AnyController
<1> QED BY <1>1, <1>2

LEMMA UnwatchedFine ==
  ASSUME NEW t, Fine(t)
  PROVE  LET r == Unwatched(t)
         IN  /\ Fine(r) /\ r.cur = t.cur /\ r.idx = t.idx /\ r.active = t.active /\ ~r.watch
<1> DEFINE r == Unwatched(t)
<1>1. t \in AnyController /\ Kept(t, t.cur)
  BY DEF Fine, Kept
<1>2. /\ r \in AnyController /\ r.db = t.db /\ r.cur = t.cur /\ r.idx = t.idx
      /\ r.active = t.active /\ r.watch = FALSE /\ r.stack = t.stack /\ r.cues = t.cues
      /\ r.mic = t.mic /\ r.armed = t.armed
  BY <1>1 DEF AnyController, Unwatched
<1> HIDE DEF r
<1>3. Kept(r, r.cur)
  BY <1>1, <1>2, FlagsKept DEF Kept
<1>4. Tied(r)
  BY <1>2 DEF Fine, Tied, CurrentState, Misplaced, Slot
<1> QED BY <1>2, <1>3, <1>4 DEF Fine, r

LEMMA ToldFine ==
  ASSUME NEW t, Fine(t)
  PROVE  LET r == Told(t)
         IN  /\ Fine(r) /\ r.cur = t.cur /\ r.idx = t.idx
             /\ r.active = t.active /\ r.watch = t.watch
<1> DEFINE v == IF t.device.mode \in {"sounding", "paused"} THEN "stopping" ELSE t.device.mode
<1>1. t.device \in [mode : Modes, unit : Units \cup {Outro}]
  BY AnyFields DEF Fine, Kept
<1>2. v \in Modes
  BY <1>1 DEF Modes
<1>3. Told(t) = [t EXCEPT !.device.mode = v]
  BY DEF Told
<1> HIDE DEF v
<1> QED BY <1>2, <1>3, DeviceKept

(* Rows that leave what is current unsuspended.                            *)
LEMMA RowsFine ==
  ASSUME NEW t, Fine(t), NEW d, Lined(d), d.held = t.db.held, Stacked(d, t.cur, t.stack),
         t.cur \in Utts /\ d.state[t.cur] = "Paused" => t.db.state[t.cur] = "Paused"
  PROVE  LET r == [t EXCEPT !.db = d]
         IN  /\ Fine(r) /\ r.cur = t.cur /\ r.idx = t.idx
             /\ r.active = t.active /\ r.watch = t.watch
<1> DEFINE r == [t EXCEPT !.db = d]
<1>1. t \in AnyController /\ Kept(t, t.cur) /\ t.cur \in Utts \cup {Nobody} /\ d \in Database
  BY KeptTyped DEF Fine, Lined
<1>2. /\ r \in AnyController /\ r.db = d /\ r.cur = t.cur /\ r.idx = t.idx
      /\ r.active = t.active /\ r.watch = t.watch /\ r.stack = t.stack /\ r.cues = t.cues
      /\ r.mic = t.mic /\ r.armed = t.armed
  BY <1>1 DEF AnyController
<1> HIDE DEF r
<1>3. Kept(r, r.cur)
  BY <1>1, <1>2 DEF Kept
<1>4. Tied(r)
  BY <1>1, <1>2, NobodyIsNone DEF Fine, Tied, CurrentState, Misplaced, Slot, Absent
<1> QED BY <1>2, <1>3, <1>4 DEF Fine, r

LEMMA MovesFine ==
  ASSUME NEW t, Fine(t), NEW d, Moves(t.db, d, Nobody), d.held = t.db.held
  PROVE  LET r == [t EXCEPT !.db = d]
         IN  /\ Fine(r) /\ r.cur = t.cur /\ r.idx = t.idx
             /\ r.active = t.active /\ r.watch = t.watch
<1>1. Kept(t, t.cur) /\ t.db \in Database /\ t.stack \in Seq(Bookmarks)
  BY KeptTyped DEF Fine
<1>2. Moves(t.db, d, t.cur)
  BY NobodyIsNone DEF Moves
<1>3. Lined(d) /\ Stacked(d, t.cur, t.stack)
  BY <1>1, <1>2, MovesLined, MovesStacked DEF Kept
<1>4. t.cur \in Utts /\ d.state[t.cur] = "Paused" => t.db.state[t.cur] = "Paused"
  BY NobodyIsNone DEF Moves
<1> QED BY <1>3, <1>4, RowsFine

(* The watcher's session came to its own end.                              *)
LEMMA FinishedFine ==
  ASSUME NEW t, Fine(t), t.active, NEW to \in {"Played", "Failed"}
  PROVE  LET e == Finished(t, to)
         IN  /\ Fine(e) /\ e.cur = t.cur /\ e.cur \in Utts
             /\ e.db.state[e.cur] = "Paused" => HasNext(e.db, e.cur)
<1> DEFINE u == t.cur
           w == Slot(t)
           d == IF t.idx = Whole THEN t.db ELSE TransitionSegment(t.db, w, to)
           closes == to = "Failed" \/ t.idx = Whole \/ Unfinished(d, u) = {}
           g == IF closes THEN Transition(d, u, to) ELSE d
           e == Finished(t, to)
<1>1. /\ t \in AnyController /\ Kept(t, u) /\ t.db \in Database /\ u \in Utts
  BY KeptTyped DEF Fine, Tied
<1>2. to \in State /\ to \in Terminal /\ to # "Submitted" /\ to \notin Live /\ to # "Paused"
  BY StateFacts
<1>3. CASE ~(Engaged(t) /\ ~Misplaced(t))
  <2>1. e = t
    BY <1>3 DEF Finished
  <2>2. t.db.state[u] # "Paused"
    BY <1>1, <1>3, NobodyIsNone DEF Fine, Tied, Engaged, CurrentState
  <2> QED BY <1>1, <2>1, <2>2
<1>4. CASE Engaged(t) /\ ~Misplaced(t)
  <2>1. e = [t EXCEPT !.db = g]
    BY <1>4 DEF Finished
  <2>2. d \in Database /\ Moves(t.db, d, Nobody) /\ d.held = t.db.held /\ d.state = t.db.state
    <3> HIDE DEF w
    <3>1. CASE t.idx = Whole
      BY <1>1, <3>1, MovesSame
    <3>2. CASE t.idx # Whole
      BY <1>1, <1>2, <3>2, SegmentMoves
    <3> QED BY <3>1, <3>2
  <2>3. /\ g \in Database /\ Moves(t.db, g, Nobody) /\ g.held = t.db.held
        /\ g.state[u] = "Paused" => HasNext(g, u)
    <3>1. CASE closes
      <4> HIDE DEF d, u, closes
      <4>1. LET h == Transition(d, u, to)
            IN  h \in Database /\ Moves(d, h, Nobody) /\ h.held = d.held
                /\ h.state = [d.state EXCEPT ![u] = to]
        BY <1>1, <1>2, <2>2, TransitionMoves
      <4>2. /\ g \in Database /\ Moves(d, g, Nobody) /\ g.held = d.held
            /\ g.state = [d.state EXCEPT ![u] = to]
        BY <3>1, <4>1
      <4> HIDE DEF g
      <4>3. g.state[u] = to
        BY <1>1, <2>2, <4>2 DEF Database
      <4> QED BY <1>2, <2>2, <4>2, <4>3, MovesTrans
    <3>2. CASE ~closes
      <4>1. g = d /\ HasNext(d, u)
        BY <3>2 DEF HasNext
      <4> HIDE DEF g, d
      <4> QED BY <2>2, <4>1
    <3> QED BY <3>1, <3>2
  <2> HIDE DEF g, e
  <2>4. Fine(e) /\ e.cur = t.cur /\ e.db = g
    <3>1. Fine(e) /\ e.cur = t.cur
      BY <2>1, <2>3, MovesFine
    <3>2. e.db = g
      BY <1>1, <2>1 DEF AnyController
    <3> QED BY <3>1, <3>2
  <2> QED BY <1>1, <2>3, <2>4 DEF e
<1> QED BY <1>3, <1>4

LEMMA EndedFine ==
  ASSUME NEW t, Fine(t), NEW i \in Nat \cup {Whole}, NEW c \in Utts \cup {Nobody},
         c # t.cur => c = Nobody /\ i = Whole /\ t.cur \in Utts /\ t.db.state[t.cur] # "Paused",
         c = Nobody => i = Whole
  PROVE  LET r == [t EXCEPT !.active = FALSE, !.watch = FALSE, !.idx = i,
                            !.device.mode = "idle", !.cur = c]
         IN  Fine(r)
<1> DEFINE v == [t.device EXCEPT !.mode = "idle"]
           r == [t EXCEPT !.active = FALSE, !.watch = FALSE, !.idx = i,
                          !.device.mode = "idle", !.cur = c]
<1>1. /\ t \in AnyController /\ Kept(t, t.cur)
      /\ t.device \in [mode : Modes, unit : Units \cup {Outro}]
  BY AnyFields DEF Fine, Kept
<1>2. v \in [mode : Modes, unit : Units \cup {Outro}]
  BY <1>1 DEF Modes
<1>3. r = [t EXCEPT !.active = FALSE, !.watch = FALSE, !.idx = i, !.device = v, !.cur = c]
  OBVIOUS
<1> HIDE DEF v, r
<1>4. /\ r \in AnyController /\ r.db = t.db /\ r.cur = c /\ r.idx = i
      /\ r.active = FALSE /\ r.watch = FALSE /\ r.stack = t.stack /\ r.cues = t.cues
      /\ r.mic = t.mic /\ r.armed = t.armed
  BY <1>1, <1>2, <1>3 DEF AnyController
<1>5. Kept(r, t.cur)
  BY <1>1, <1>4, FlagsKept DEF Kept
<1>6. Kept(r, c)
  BY <1>4, <1>5, Elects
<1> QED BY <1>4, <1>6 DEF Fine, Tied, r

(* Suspended clips are skipped, pending ones cancelled.                    *)
LEMMA ClearFine ==
  ASSUME NEW t, Fine(t), NEW states
  PROVE  LET slots   == {t.stack[k] : k \in DOMAIN t.stack}
             skipped == SkipAll(t.db, {w \in slots : t.db.state[w[1]] = "Paused"})
             e == CancelAll(skipped, {u \in Utts : In(skipped, u, states)})
             r == [t EXCEPT !.db = e, !.stack = <<>>]
         IN  /\ Fine(r) /\ r.cur = t.cur /\ r.idx = t.idx
             /\ r.active = t.active /\ r.watch = t.watch
<1> DEFINE slots == {t.stack[k] : k \in DOMAIN t.stack}
           paused == {w \in slots : t.db.state[w[1]] = "Paused"}
           d == SkipAll(t.db, paused)
           rows == {u \in Utts : In(d, u, states)}
           e == CancelAll(d, rows)
           q == [t EXCEPT !.stack = <<>>]
           r == [t EXCEPT !.db = e, !.stack = <<>>]
<1>1. /\ t \in AnyController /\ Kept(t, t.cur) /\ t.db \in Database /\ t.stack \in Seq(Bookmarks)
      /\ t.cur \in Utts \cup {Nobody}
  BY KeptTyped DEF Fine
<1>2. \A k \in DOMAIN t.stack : t.db.state[t.stack[k][1]] = "Paused" => t.stack[k] \in paused
  OBVIOUS
<1> HIDE DEF paused
<1>3. /\ d \in Database /\ Moves(t.db, d, Nobody) /\ d.held = t.db.held
      /\ \A u \in Utts : /\ (\E w \in paused : w[1] = u) => d.state[u] = "Skipped"
                         /\ (\A w \in paused : w[1] # u) => d.state[u] = t.db.state[u]
  BY <1>1, SkipAllMoves
<1> HIDE DEF d
<1>4. rows \in SUBSET Utts
  OBVIOUS
<1> HIDE DEF rows
<1>5. /\ e \in Database /\ Moves(d, e, Nobody) /\ e.held = d.held
      /\ \A u \in Utts : e.state[u] = IF u \in rows THEN "Cancelled" ELSE d.state[u]
  BY <1>3, <1>4, CancelMoves
<1> HIDE DEF e
<1>6. Moves(t.db, e, Nobody) /\ e.held = t.db.held
  BY <1>3, <1>5, MovesTrans
<1>7. ASSUME NEW u \in Paused(e) PROVE u = t.cur
  <2>1. u \in Utts /\ ~(\E w \in paused : w[1] = u) /\ t.db.state[u] = "Paused"
    <3>1. u \in Utts /\ d.state[u] = "Paused"
      BY <1>5 DEF Paused
    <3> QED BY <1>3, <3>1
  <2>2. u = t.cur \/ \E k \in DOMAIN t.stack : t.stack[k][1] = u
    BY <1>1, <2>1 DEF Kept, Stacked, Paused
  <2> QED BY <1>2, <2>1, <2>2
<1>8. Stacked(e, t.cur, <<>>)
  BY <1>7 DEF Stacked
<1>9. Lined(e)
  BY <1>1, <1>6, MovesLined DEF Kept
<1>10. /\ r \in AnyController /\ r.db = e /\ r.cur = t.cur /\ r.idx = t.idx
       /\ r.active = t.active /\ r.watch = t.watch /\ r.stack = <<>> /\ r.cues = t.cues
       /\ r.mic = t.mic /\ r.armed = t.armed
  <2>1. <<>> \in Seq(Bookmarks)
    OBVIOUS
  <2>2. r = [q EXCEPT !.db = e]
    OBVIOUS
  <2>3. /\ q \in AnyController /\ q.db = t.db /\ q.cur = t.cur /\ q.idx = t.idx
        /\ q.active = t.active /\ q.watch = t.watch /\ q.stack = <<>> /\ q.cues = t.cues
        /\ q.mic = t.mic /\ q.armed = t.armed
    BY <1>1, <2>1 DEF AnyController
  <2> HIDE DEF q, r
  <2> QED BY <1>5, <2>2, <2>3 DEF AnyController
<1>11. e = CancelAll(d, rows)
  BY DEF e
<1> HIDE DEF r
<1>12. Kept(r, r.cur)
  BY <1>1, <1>6, <1>8, <1>9, <1>10 DEF Kept
<1>13. Tied(r)
  <2>1. t.cur \in Utts /\ e.state[t.cur] = "Paused" => t.db.state[t.cur] = "Paused"
    BY <1>6, NobodyIsNone DEF Moves
  <2> QED BY <1>1, <1>10, <2>1, NobodyIsNone DEF Fine, Tied, CurrentState, Misplaced, Slot, Absent
<1> QED BY <1>10, <1>12, <1>13 DEF Fine, r, e, d, rows, paused

-----------------------------------------------------------------------------
(* Every step keeps it.                                                    *)
LEMMA KeptStep ==
  ASSUME KeptInv, NEW r, Fine(r), r.cur = s.cur, r.idx = s.idx,
         r.active = s.active, r.watch = s.watch \/ ~r.watch,
         s' = r, step' = step, holding' = holding
  PROVE  KeptInv'
BY DEF KeptInv, Awaits, Slot

LEMMA KeptRan ==
  ASSUME KeptInv, step' = Free, Fine(s'), holding' = holding
  PROVE  KeptInv'
BY DEF KeptInv, Awaits

LEMMA KeptWaits ==
  ASSUME KeptInv, NEW t, Fine(t), t.watch \/ MustStop(t),
         NEW op \in TransportOps, NEW n \in Utts \cup {Nobody}, op = "plan" => n \in Utts,
         Waits(op, t, n), holding' = holding
  PROVE  KeptInv'
<1> DEFINE r == IF t.watch THEN Unwatched(t) ELSE Told(t)
           p == [op |-> op, slot |-> Slot(t), next |-> n, told |-> ~t.watch]
<1>1. s' = r /\ step' = p
  BY DEF Waits
<1>2. t.active /\ t.cur \in Utts /\ t.idx \in Nat \cup {Whole} /\ t.watch \in BOOLEAN
  BY KeptTyped DEF Fine, Tied, MustStop
<1>3. Fine(r) /\ r.cur = t.cur /\ r.idx = t.idx /\ r.active = t.active /\ ~r.watch
  BY UnwatchedFine, ToldFine
<1> HIDE DEF r
<1>4. p \in Waitings
  BY <1>2 DEF Waitings, Slot, Bookmarks
<1>5. Awaits(r, p)
  BY <1>2, <1>3 DEF Awaits, Slot
<1> HIDE DEF p
<1> QED BY <1>1, <1>3, <1>4, <1>5 DEF KeptInv

LEMMA KeptRows ==
  ASSUME KeptInv, NEW d, Moves(s.db, d, Nobody), d.held = s.db.held,
         s' = Rows(d), step' = step, holding' = holding
  PROVE  KeptInv'
<1> DEFINE r == [s EXCEPT !.db = d]
<1>1. Fine(r) /\ r.cur = s.cur /\ r.idx = s.idx /\ r.active = s.active /\ r.watch = s.watch
  BY MovesFine DEF KeptInv
<1>2. s' = r
  BY DEF Rows
<1> HIDE DEF r
<1> QED BY <1>1, <1>2, KeptStep

LEMMA KeptData ==
  ASSUME KeptInv
  PROVE  /\ Fine(s) /\ Lined(s.db) /\ s.db \in Database /\ s.cur \in Utts \cup {Nobody}
         /\ s.stack \in Seq(Bookmarks) /\ s.mic \in BOOLEAN /\ Stacked(s.db, s.cur, s.stack)
         /\ s.active => s.cur \in Utts
BY KeptTyped DEF KeptInv, Fine, Kept, Tied

LEMMA KeptSubmit ==
  ASSUME KeptInv, NEW u \in Utts, Submit(u)
  PROVE  KeptInv'
<1>1. PICK k \in NewKeys(s.db) : /\ IF u \in Urgent THEN IsHeadKey(s.db, k) ELSE IsTailKey(s.db, k)
                                 /\ Becomes(Rows(SubmitRow(s.db, u, k)))
  BY DEF Submit
<1> DEFINE e == SubmitRow(s.db, u, k)
           r == [s EXCEPT !.db = e]
<1>2. s.db.state[u] = Absent /\ (IsHeadKey(s.db, k) \/ IsTailKey(s.db, k))
  BY <1>1 DEF Submit
<1>3. k \in Int
  BY KeptData DEF NewKeys, Database
<1>4. s' = r /\ step' = step /\ holding' = holding
  BY <1>1 DEF Becomes, Rows
<1>5. /\ Lined(e) /\ Stacked(e, s.cur, s.stack) /\ e.held = s.db.held
      /\ \A v \in Utts : e.state[v] = IF v = u THEN "Queued" ELSE s.db.state[v]
  BY <1>2, <1>3, KeptData, SubmitLined
<1> HIDE DEF e
<1>6. s.cur \in Utts /\ e.state[s.cur] = "Paused" => s.db.state[s.cur] = "Paused"
  BY <1>5
<1>7. Fine(r) /\ r.cur = s.cur /\ r.idx = s.idx /\ r.active = s.active /\ r.watch = s.watch
  BY <1>5, <1>6, KeptData, RowsFine
<1> HIDE DEF r
<1> QED BY <1>4, <1>7, KeptStep

LEMMA KeptCancel ==
  ASSUME KeptInv, NEW u \in Utts, Cancel(u)
  PROVE  KeptInv'
<1> DEFINE to == "Cancelled"
           e == Transition(s.db, u, to)
<1>1. to \in State /\ to # "Submitted" /\ to \in Terminal /\ to \notin Live
  BY StateFacts
<1>2. s' = Rows(e) /\ step' = step /\ holding' = holding
  BY DEF Cancel, Becomes
<1> HIDE DEF to
<1>3. e \in Database /\ Moves(s.db, e, Nobody) /\ e.held = s.db.held
  BY <1>1, KeptData, TransitionMoves
<1> HIDE DEF e
<1> QED BY <1>2, <1>3, KeptRows

LEMMA KeptReorder ==
  ASSUME KeptInv, Reorder
  PROVE  KeptInv'
<1>1. PICK place \in Places(s.db), base \in {0} \cup {s.db.order[u] : u \in Utts} :
        IsReorderBase(s.db, base) /\ Becomes(Rows(Reordered(s.db, place, base)))
  BY DEF Reorder
<1> DEFINE e == Reordered(s.db, place, base)
           r == [s EXCEPT !.db = e]
<1>2. base \in Int
  BY KeptData DEF Database
<1>3. s' = r /\ step' = step /\ holding' = holding
  BY <1>1 DEF Becomes, Rows
<1>4. Lined(e) /\ e.state = s.db.state /\ e.held = s.db.held
  BY <1>1, <1>2, KeptData, ReorderLined
<1> HIDE DEF e
<1>5. Stacked(e, s.cur, s.stack)
  BY <1>4, KeptData DEF Stacked, Paused
<1>6. Fine(r) /\ r.cur = s.cur /\ r.idx = s.idx /\ r.active = s.active /\ r.watch = s.watch
  BY <1>4, <1>5, KeptData, RowsFine
<1> HIDE DEF r
<1> QED BY <1>3, <1>6, KeptStep

(* What the pool commits suspends nothing and revives nothing.             *)
LEMMA PoolMoves ==
  ASSUME NEW d \in Database, NEW e \in Database, e.order = d.order,
         \A u \in Utts : \/ e.state[u] = d.state[u]
                         \/ /\ d.state[u] \in {"Queued", "Synthesizing"}
                            /\ e.state[u] \in {"Synthesizing", "Ready"}
                         \/ IsLive(d, u) /\ e.state[u] = "Failed"
  PROVE  Moves(d, e, Nobody)
BY StateFacts DEF Moves, IsLive, Rests

LEMMA KeptTakeJob ==
  ASSUME KeptInv, NEW w \in Units, TakeJob(w)
  PROVE  KeptInv'
<1> DEFINE e == Claim(s.db, w)
<1>1. Claimable(s.db, {}, w)
  BY DEF TakeJob, IsEarliest
<1>2. s' = Rows(e) /\ step' = step /\ holding' = holding
  BY DEF TakeJob
<1>3. /\ e \in Database /\ e.order = s.db.order /\ e.held = s.db.held
      /\ \A u \in Utts : \/ e.state[u] = s.db.state[u]
                         \/ s.db.state[u] = "Queued" /\ e.state[u] = "Synthesizing"
  BY <1>1, KeptData, ClaimRows
<1> HIDE DEF e
<1>4. Moves(s.db, e, Nobody)
  BY <1>3, KeptData, PoolMoves
<1> QED BY <1>2, <1>3, <1>4, KeptRows

LEMMA KeptStreamReady ==
  ASSUME KeptInv, NEW w \in Units, StreamReady(w)
  PROVE  KeptInv'
<1> DEFINE e == StartStreaming(s.db, w)
<1>2. s' = Rows(e) /\ step' = step /\ holding' = holding
  BY DEF StreamReady, Becomes
<1>3. /\ e \in Database /\ e.order = s.db.order /\ e.held = s.db.held
      /\ \A u \in Utts : \/ e.state[u] = s.db.state[u]
                         \/ s.db.state[u] = "Synthesizing" /\ e.state[u] = "Ready"
  BY KeptData, StreamRows
<1> HIDE DEF e
<1>4. Moves(s.db, e, Nobody)
  BY <1>3, KeptData, PoolMoves
<1> QED BY <1>2, <1>3, <1>4, KeptRows

LEMMA KeptRender ==
  ASSUME KeptInv, NEW w \in Units, Render(w)
  PROVE  KeptInv'
<1> DEFINE e == LastOf(s.db, SuccessCommits(s.db, w))
<1>2. s' = Rows(e) /\ step' = step /\ holding' = holding
  BY DEF Render, Completes
<1>3. /\ e \in Database /\ e.order = s.db.order /\ e.held = s.db.held
      /\ \A u \in Utts : \/ e.state[u] = s.db.state[u]
                         \/ s.db.state[u] = "Synthesizing" /\ e.state[u] = "Ready"
  BY KeptData, SuccessRows
<1> HIDE DEF e
<1>4. Moves(s.db, e, Nobody)
  BY <1>3, KeptData, PoolMoves
<1> QED BY <1>2, <1>3, <1>4, KeptRows

LEMMA KeptRenderFails ==
  ASSUME KeptInv, NEW w \in Units, RenderFails(w)
  PROVE  KeptInv'
<1> DEFINE e == LastOf(s.db, FailureCommits(s.db, w))
<1>2. s' = Rows(e) /\ step' = step /\ holding' = holding
  BY DEF RenderFails, Completes
<1>3. /\ e \in Database /\ e.order = s.db.order /\ e.held = s.db.held
      /\ \A u \in Utts : \/ e.state[u] = s.db.state[u]
                         \/ IsLive(s.db, u) /\ e.state[u] = "Failed"
  BY KeptData, FailureRows
<1> HIDE DEF e
<1>4. Moves(s.db, e, Nobody)
  BY <1>3, KeptData, PoolMoves
<1> QED BY <1>2, <1>3, <1>4, KeptRows

LEMMA KeptDeviceEnd ==
  ASSUME KeptInv, DeviceEnds
  PROVE  KeptInv'
<1>1. PICK how \in {"ended", "broken"} : Becomes([s EXCEPT !.device.mode = how])
  BY DEF DeviceEnds
<1> DEFINE r == [s EXCEPT !.device.mode = how]
<1>2. how \in Modes
  BY DEF Modes
<1>3. s' = r /\ step' = step /\ holding' = holding
  BY <1>1 DEF Becomes
<1>4. Fine(r) /\ r.cur = s.cur /\ r.idx = s.idx /\ r.active = s.active /\ r.watch = s.watch
  BY <1>2, KeptData, DeviceKept
<1> HIDE DEF r
<1> QED BY <1>3, <1>4, KeptStep

LEMMA KeptDeviceClose ==
  ASSUME KeptInv, DeviceCloses
  PROVE  KeptInv'
<1> DEFINE idle == "idle"
           q == [s EXCEPT !.device.mode = idle]
           r == Unwatched(q)
<1>1. idle \in Modes
  BY DEF Modes
<1>2. s' = r /\ step' = step /\ holding' = holding
  BY DEF DeviceCloses, Becomes, Unwatched
<1> HIDE DEF idle
<1>3. Fine(q) /\ q.cur = s.cur /\ q.idx = s.idx /\ q.active = s.active
  BY <1>1, KeptData, DeviceKept
<1> HIDE DEF q
<1>4. Fine(r) /\ r.cur = q.cur /\ r.idx = q.idx /\ r.active = q.active /\ ~r.watch
  BY <1>3, UnwatchedFine
<1> HIDE DEF r
<1> QED BY <1>2, <1>3, <1>4, KeptStep

LEMMA KeptWatch ==
  ASSUME KeptInv, Watch
  PROVE  KeptInv'
<1> DEFINE to == IF s.device.mode = "ended" THEN "Played" ELSE "Failed"
           e == Finished(s, to)
           f == [e EXCEPT !.active = FALSE, !.watch = FALSE, !.idx = Whole, !.device.mode = "idle"]
           g == [f EXCEPT !.cur = Nobody]
           h == [s EXCEPT !.active = FALSE, !.watch = FALSE, !.device.mode = "idle"]
           r == CASE s.device.unit = Outro -> h
                  [] s.device.unit # Outro /\ CurrentLive(e) /\ HasNext(e.db, e.cur) -> f
                  [] OTHER -> g
<1>1. /\ s.watch /\ s.active /\ s.cur \in Utts /\ step = Free /\ s \in AnyController
      /\ s.idx \in Nat \cup {Whole}
  BY KeptData, KeptTyped DEF Watch, KeptInv, Awaits, Fine, Tied
<1>2. Becomes(r)
  BY DEF Watch
<1>3. to \in {"Played", "Failed"}
  OBVIOUS
<1>4. Fine(h)
  <2> DEFINE i == s.idx
             c == s.cur
             z == [s EXCEPT !.active = FALSE, !.watch = FALSE, !.idx = i,
                            !.device.mode = "idle", !.cur = c]
  <2>1. i \in Nat \cup {Whole} /\ c \in Utts /\ c # Nobody
    BY <1>1, NobodyIsNone
  <2>2. h = z
    BY <1>1 DEF AnyController
  <2>3. c = s.cur
    OBVIOUS
  <2> HIDE DEF i, c
  <2>4. Fine(z)
    BY <2>1, <2>3, KeptData, EndedFine
  <2> QED BY <2>2, <2>4
<1> HIDE DEF to, h
<1>5. /\ Fine(e) /\ e.cur \in Utts /\ e \in AnyController
      /\ e.db.state[e.cur] = "Paused" => HasNext(e.db, e.cur)
  BY <1>1, <1>3, KeptData, FinishedFine DEF Fine, Kept
<1> HIDE DEF e
<1>6. Fine(f)
  <2> DEFINE i == Whole
             c == e.cur
             z == [e EXCEPT !.active = FALSE, !.watch = FALSE, !.idx = i,
                            !.device.mode = "idle", !.cur = c]
  <2>1. i \in Nat \cup {Whole} /\ c \in Utts /\ c # Nobody
    BY <1>5, NobodyIsNone
  <2>2. f = z
    BY <1>5 DEF AnyController
  <2>3. c = e.cur
    OBVIOUS
  <2> HIDE DEF i, c
  <2>4. Fine(z)
    BY <1>5, <2>1, <2>3, EndedFine
  <2> QED BY <2>2, <2>4
<1>7. ~(CurrentLive(e) /\ HasNext(e.db, e.cur)) => Fine(g)
  <2> SUFFICES ASSUME ~(CurrentLive(e) /\ HasNext(e.db, e.cur)) PROVE Fine(g)
    OBVIOUS
  <2> DEFINE i == Whole
             c == Nobody
             z == [e EXCEPT !.active = FALSE, !.watch = FALSE, !.idx = i,
                            !.device.mode = "idle", !.cur = c]
  <2>1. i \in Nat \cup {Whole} /\ c \in Utts \cup {Nobody} /\ c = Nobody /\ i = Whole
    OBVIOUS
  <2>2. e.db.state[e.cur] # "Paused"
    BY <1>5, NobodyIsNone, StateFacts DEF CurrentLive, CurrentState
  <2>3. g = z
    OBVIOUS
  <2> HIDE DEF i, c, g
  <2>4. Fine(z)
    BY <1>5, <2>1, <2>2, EndedFine
  <2> QED BY <2>3, <2>4
<1> HIDE DEF f, g
<1>8. Fine(r)
  <2>1. CASE s.device.unit = Outro
    BY <1>4, <2>1, ZenonT(30)
  <2>2. CASE s.device.unit # Outro /\ CurrentLive(e) /\ HasNext(e.db, e.cur)
    <3>1. r = f
      BY <2>2, ZenonT(30)
    <3> QED BY <1>6, <3>1
  <2>3. CASE s.device.unit # Outro /\ ~(CurrentLive(e) /\ HasNext(e.db, e.cur))
    <3>1. r = g
      BY <2>3, ZenonT(30)
    <3> QED BY <1>7, <2>3, <3>1
  <2> QED BY <2>1, <2>2, <2>3
<1> HIDE DEF r
<1> QED BY <1>1, <1>2, <1>8, KeptRan DEF Becomes

(* A handler that found nothing to wait for runs to its end.               *)
LEMMA KeptPlan ==
  ASSUME ~Earcons, KeptInv, Plan
  PROVE  KeptInv'
<1>1. step = Free /\ Fine(s)
  BY KeptData DEF Plan
<1>2. CASE s.db.held \/ Takeovers(s) = {}
  <2> DEFINE c == [s EXCEPT !.raised = FALSE]
             q == IF s.db.held THEN Calm(s) ELSE Restored(Calm(s))
             r == RestOfPass(q)
  <2>1. Becomes(r)
    BY <1>2 DEF Plan
  <2>2. Fine(c)
    <3>1. s \in AnyController /\ Kept(s, s.cur)
      BY <1>1 DEF Fine, Kept
    <3>2. /\ c \in AnyController /\ c.db = s.db /\ c.cur = s.cur /\ c.idx = s.idx
          /\ c.active = s.active /\ c.watch = s.watch /\ c.stack = s.stack /\ c.cues = s.cues
          /\ c.mic = s.mic /\ c.armed = s.armed
      BY <3>1 DEF AnyController
    <3> HIDE DEF c
    <3>3. Kept(c, c.cur)
      BY <3>1, <3>2, FlagsKept DEF Kept
    <3>4. Tied(c)
      BY <1>1, <3>2 DEF Fine, Tied, CurrentState, Misplaced, Slot
    <3> QED BY <3>3, <3>4 DEF Fine
  <2>3. Calm(s) = c
    BY DEF Calm
  <2> HIDE DEF c
  <2>4. Fine(q)
    BY <2>2, <2>3, RestoresFine
  <2> HIDE DEF q
  <2>5. Fine(r)
    BY <2>4, PassEndsFine
  <2> HIDE DEF r
  <2> QED BY <1>1, <2>1, <2>5, KeptRan DEF Becomes
<1>3. CASE ~(s.db.held \/ Takeovers(s) = {})
  <2> DEFINE u == First(s.db, Takeovers(s))
             lands(t, slot) == TakenOver(IF CurrentLive(t) THEN Suspended(t, slot) ELSE t, u)
  <2>1. Handle("plan", s, u, lands)
    BY <1>3 DEF Plan
  <2>2. u \in Utts
    <3>1. Takeovers(s) \in SUBSET Utts /\ Takeovers(s) # {}
      BY <1>3, PlaybackAssumption, StoreAssumption DEF Takeovers
    <3> QED BY <3>1, KeptData, FirstIsOne
  <2> HIDE DEF u
  <2>3. CASE s.watch \/ MustStop(s)
    <3>1. Waits("plan", s, u) /\ UNCHANGED <<rendering, holding, stops>>
      BY <2>1, <2>3 DEF Handle
    <3> QED BY <1>1, <2>2, <2>3, <3>1, KeptWaits DEF TransportOps
  <2>4. CASE ~(s.watch \/ MustStop(s))
    <3> DEFINE t == Deactivated(Calm(s))
               q == IF CurrentLive(t) THEN Suspended(t, Slot(t)) ELSE t
               r == TakenOver(q, u)
    <3>1. /\ Fine(t) /\ Inactive(t) /\ t.cur = s.cur /\ t.idx = s.idx
      BY <1>1, <2>4, DeactivatedFine
    <3>2. Becomes(lands(t, Slot(s)))
      BY <2>1, <2>4 DEF Handle
    <3> HIDE DEF t
    <3>3. Slot(s) = Slot(t)
      BY <3>1 DEF Slot
    <3>4. Becomes(r)
      BY <3>2, <3>3
    <3>5. Fine(q) /\ Inactive(q) /\ ~CurrentLive(q)
      BY <3>1, SuspendsFine
    <3> HIDE DEF q
    <3>6. Fine(r)
      BY <2>2, <3>5, TakesOverFine
    <3> HIDE DEF r
    <3> QED BY <1>1, <3>4, <3>6, KeptRan DEF Becomes
  <2> QED BY <2>3, <2>4
<1> QED BY <1>2, <1>3

LEMMA KeptSkip ==
  ASSUME KeptInv, Skip
  PROVE  KeptInv'
<1> DEFINE t == Unclaimed(s)
<1>1. step = Free /\ Fine(t)
  BY KeptData, UnclaimedFine DEF Skip
<1>2. IF Engaged(t) THEN Handle("skip", t, Nobody, SkipLands) ELSE Becomes(t)
  BY DEF Skip
<1> HIDE DEF t
<1>3. CASE Engaged(t) /\ (t.watch \/ MustStop(t))
  <2>1. Waits("skip", t, Nobody) /\ UNCHANGED <<rendering, holding, stops>>
    BY <1>2, <1>3 DEF Handle
  <2> QED BY <1>1, <1>3, <2>1, KeptWaits DEF TransportOps
<1>4. CASE Engaged(t) /\ ~(t.watch \/ MustStop(t))
  <2> DEFINE q == Deactivated(Calm(t))
             r == SkipLands(q, Slot(q))
  <2>1. t.cur \in Utts
    BY <1>1, <1>4, KeptTyped, StateFacts DEF Fine, Engaged, CurrentState, Absent
  <2>2. Fine(q) /\ Inactive(q) /\ q.cur = t.cur /\ q.idx = t.idx
    BY <1>1, <1>4, DeactivatedFine
  <2>3. Becomes(SkipLands(q, Slot(t)))
    BY <1>2, <1>4 DEF Handle
  <2> HIDE DEF q
  <2>4. Slot(t) = Slot(q)
    BY <2>2 DEF Slot
  <2>5. Becomes(r)
    BY <2>3, <2>4
  <2>6. Fine(r)
    BY <2>1, <2>2, SkipsFine
  <2> HIDE DEF r
  <2> QED BY <1>1, <2>5, <2>6, KeptRan DEF Becomes
<1>5. CASE ~Engaged(t)
  BY <1>1, <1>2, <1>5, KeptRan DEF Becomes
<1> QED BY <1>3, <1>4, <1>5

LEMMA KeptNextSegment ==
  ASSUME ~Earcons, KeptInv, NextSegment
  PROVE  KeptInv'
<1>1. step = Free /\ Fine(s) /\ s.cur \in Utts /\ Handle("next", s, Nobody, NextLands)
  BY KeptData DEF NextSegment, Navigable
<1>2. CASE s.watch \/ MustStop(s)
  <2>1. Waits("next", s, Nobody) /\ UNCHANGED <<rendering, holding, stops>>
    BY <1>1, <1>2 DEF Handle
  <2> QED BY <1>1, <1>2, <2>1, KeptWaits DEF TransportOps
<1>3. CASE ~(s.watch \/ MustStop(s))
  <2> DEFINE q == Deactivated(Calm(s))
             r == NextLands(q, Slot(q))
  <2>1. Fine(q) /\ Inactive(q) /\ q.cur = s.cur /\ q.idx = s.idx
    BY <1>1, <1>3, DeactivatedFine
  <2>2. Becomes(NextLands(q, Slot(s)))
    BY <1>1, <1>3 DEF Handle
  <2> HIDE DEF q
  <2>3. Slot(s) = Slot(q)
    BY <2>1 DEF Slot
  <2>4. Becomes(r)
    BY <2>2, <2>3
  <2>5. Fine(r)
    BY <1>1, <2>1, NextStepFine
  <2> HIDE DEF r
  <2> QED BY <1>1, <2>4, <2>5, KeptRan DEF Becomes
<1> QED BY <1>2, <1>3

LEMMA KeptPreviousSegment ==
  ASSUME ~Earcons, KeptInv, PreviousSegment
  PROVE  KeptInv'
<1>1. step = Free /\ Fine(s) /\ s.cur \in Utts /\ Handle("previous", s, Nobody, PreviousLands)
  BY KeptData DEF PreviousSegment, Navigable
<1>2. CASE s.watch \/ MustStop(s)
  <2>1. Waits("previous", s, Nobody) /\ UNCHANGED <<rendering, holding, stops>>
    BY <1>1, <1>2 DEF Handle
  <2> QED BY <1>1, <1>2, <2>1, KeptWaits DEF TransportOps
<1>3. CASE ~(s.watch \/ MustStop(s))
  <2> DEFINE q == Deactivated(Calm(s))
             r == PreviousLands(q, Slot(q))
  <2>1. Fine(q) /\ Inactive(q) /\ q.cur = s.cur /\ q.idx = s.idx
    BY <1>1, <1>3, DeactivatedFine
  <2>2. Becomes(PreviousLands(q, Slot(s)))
    BY <1>1, <1>3 DEF Handle
  <2> HIDE DEF q
  <2>3. Slot(s) = Slot(q)
    BY <2>1 DEF Slot
  <2>4. Becomes(r)
    BY <2>2, <2>3
  <2>5. Fine(r)
    BY <1>1, <2>1, PreviousStepFine
  <2> HIDE DEF r
  <2> QED BY <1>1, <2>4, <2>5, KeptRan DEF Becomes
<1> QED BY <1>2, <1>3

LEMMA KeptRestart ==
  ASSUME ~Earcons, KeptInv, RestartCurrent
  PROVE  KeptInv'
<1>1. step = Free /\ Fine(s) /\ s.cur \in Utts /\ Handle("restart", s, Nobody, RestartLands)
  BY KeptData, StateFacts DEF RestartCurrent, Engaged, CurrentState, Absent
<1>2. CASE s.watch \/ MustStop(s)
  <2>1. Waits("restart", s, Nobody) /\ UNCHANGED <<rendering, holding, stops>>
    BY <1>1, <1>2 DEF Handle
  <2> QED BY <1>1, <1>2, <2>1, KeptWaits DEF TransportOps
<1>3. CASE ~(s.watch \/ MustStop(s))
  <2> DEFINE q == Deactivated(Calm(s))
             r == RestartLands(q, Slot(q))
  <2>1. Fine(q) /\ Inactive(q) /\ q.cur = s.cur /\ q.idx = s.idx
    BY <1>1, <1>3, DeactivatedFine
  <2>2. Becomes(RestartLands(q, Slot(s)))
    BY <1>1, <1>3 DEF Handle
  <2> HIDE DEF q
  <2>3. Slot(s) = Slot(q)
    BY <2>1 DEF Slot
  <2>4. Becomes(r)
    BY <2>2, <2>3
  <2>5. Fine(r)
    BY <1>1, <2>1, RestartStepFine
  <2> HIDE DEF r
  <2> QED BY <1>1, <2>4, <2>5, KeptRan DEF Becomes
<1> QED BY <1>2, <1>3

LEMMA KeptTellToStop ==
  ASSUME KeptInv, TellsToStop
  PROVE  KeptInv'
<1> DEFINE r == Told(s)
           p == [step EXCEPT !.told = TRUE]
<1>1. step # Free /\ s' = r /\ step' = p /\ holding' = holding
  BY DEF TellsToStop
<1>2. step \in Waitings /\ Fine(s) /\ Awaits(s, step)
  BY <1>1 DEF KeptInv
<1>3. Fine(r) /\ r.cur = s.cur /\ r.idx = s.idx /\ r.active = s.active /\ r.watch = s.watch
  BY <1>2, ToldFine
<1>4. p \in Waitings /\ p.op = step.op /\ p.slot = step.slot /\ p.next = step.next
  BY <1>2 DEF Waitings
<1> HIDE DEF r, p
<1>5. Awaits(r, p)
  BY <1>1, <1>2, <1>3, <1>4 DEF Awaits, Slot
<1> QED BY <1>1, <1>3, <1>4, <1>5 DEF KeptInv

LEMMA KeptLand ==
  ASSUME ~Earcons, KeptInv, Land
  PROVE  KeptInv'
<1> DEFINE t == Deactivated(Calm(s))
           w == Slot(t)
           r == Landed(t)
<1>1. /\ step # Free /\ step.op # "shutdown" /\ s' = r /\ step' = Free /\ holding' = holding
  BY DEF Land, Released, Serving
<1>2. /\ step \in Waitings /\ Fine(s) /\ s.active /\ ~s.watch /\ step.slot = Slot(s)
      /\ step.op = "plan" => step.next \in Utts
  BY <1>1 DEF KeptInv, Awaits
<1>3. step.op \in {"plan", "skip", "next", "previous", "restart"}
  BY <1>1, <1>2 DEF Waitings, TransportOps
<1>4. /\ Fine(t) /\ Inactive(t) /\ t.cur = s.cur /\ t.idx = s.idx /\ t.cur \in Utts
  BY <1>2, KeptData, DeactivatedFine
<1>5. step.slot = w
  BY <1>2, <1>4 DEF Slot
<1> HIDE DEF t
<1>6. CASE step.op = "plan"
  <2> DEFINE q == Suspended(t, w)
  <2>1. r = TakenOver(q, step.next)
    BY <1>5, <1>6, ZenonT(30) DEF Landed
  <2>2. Fine(q) /\ Inactive(q) /\ ~CurrentLive(q)
    BY <1>4, SuspendsFine
  <2> HIDE DEF q, r
  <2>3. Fine(r)
    BY <1>2, <1>6, <2>1, <2>2, TakesOverFine
  <2> QED BY <1>1, <2>3, KeptRan
<1>7. CASE step.op = "skip"
  <2>1. r = SkipLands(t, w)
    BY <1>5, <1>7 DEF Landed
  <2>2. Fine(r)
    BY <1>4, <2>1, SkipsFine
  <2> HIDE DEF r
  <2> QED BY <1>1, <2>2, KeptRan
<1>8. CASE step.op = "next"
  <2>1. r = NextLands(t, w)
    BY <1>5, <1>8 DEF Landed
  <2>2. Fine(r)
    BY <1>4, <2>1, NextStepFine
  <2> HIDE DEF r
  <2> QED BY <1>1, <2>2, KeptRan
<1>9. CASE step.op = "previous"
  <2>1. r = PreviousLands(t, w)
    BY <1>5, <1>9 DEF Landed
  <2>2. Fine(r)
    BY <1>4, <2>1, PreviousStepFine
  <2> HIDE DEF r
  <2> QED BY <1>1, <2>2, KeptRan
<1>10. CASE step.op = "restart"
  <2>1. r = RestartLands(t, w)
    BY <1>5, <1>10 DEF Landed
  <2>2. Fine(r)
    BY <1>4, <2>1, RestartStepFine
  <2> HIDE DEF r
  <2> QED BY <1>1, <2>2, KeptRan
<1> QED BY <1>3, <1>6, <1>7, <1>8, <1>9, <1>10

LEMMA KeptClear ==
  ASSUME KeptInv, NEW states, Clear(states)
  PROVE  KeptInv'
<1> DEFINE slots   == {s.stack[k] : k \in DOMAIN s.stack}
           skipped == SkipAll(s.db, {w \in slots : s.db.state[w[1]] = "Paused"})
           e == CancelAll(skipped, {u \in Utts : In(skipped, u, states)})
           r == [s EXCEPT !.db = e, !.stack = <<>>]
<1>1. step = Free /\ Becomes(r)
  BY DEF Clear
<1>2. Fine(r)
  BY KeptData, ClearFine
<1> HIDE DEF r
<1> QED BY <1>1, <1>2, KeptRan DEF Becomes

(* With nothing current nothing is open, so no hold ever waits.            *)
LEMMA KeptPause ==
  ASSUME KeptInv, Pause
  PROVE  KeptInv'
<1> DEFINE t == Unclaimed(s)
           h == Held(t)
<1>1. /\ Fine(t) /\ t.cur = s.cur /\ t.idx = s.idx /\ t.active = s.active /\ t.watch = s.watch
  BY KeptData, UnclaimedFine
<1>2. Hold("pause", t, LAMBDA x : x)
  BY DEF Pause
<1> HIDE DEF t
<1>3. /\ Fine(h) /\ h.cur = t.cur /\ h.idx = t.idx /\ h.active = t.active /\ h.watch = t.watch
  BY <1>1, HeldFine
<1>4. Becomes(h)
  <2>1. CASE t.cur = Nobody
    <3>1. ~t.active
      BY <1>1, <2>1 DEF Fine, Tied
    <3>2. Becomes(h) \/ Becomes(Deactivated(h))
      BY <1>2, <2>1, <3>1 DEF Hold
    <3>3. Deactivated(h) = h
      <4>1. h \in AnyController /\ h.active = FALSE
        BY <1>3, <3>1, KeptTyped DEF Fine
      <4> QED BY <4>1 DEF AnyController, Deactivated
    <3> QED BY <3>2, <3>3
  <2>2. CASE t.cur # Nobody
    BY <1>2, <2>2 DEF Hold
  <2> QED BY <2>1, <2>2
<1> HIDE DEF h
<1> QED BY <1>1, <1>3, <1>4, KeptStep DEF Becomes

LEMMA KeptInterrupt ==
  ASSUME KeptInv, Interrupt
  PROVE  KeptInv'
<1> DEFINE h == Held(s)
<1>1. PICK arm \in BOOLEAN : Hold("interrupt", s, LAMBDA x : TookFloor(x, arm))
  BY DEF Interrupt
<1> DEFINE r == TookFloor(h, arm)
<1>2. /\ Fine(h) /\ h.cur = s.cur /\ h.idx = s.idx /\ h.active = s.active /\ h.watch = s.watch
      /\ h.db.held
  BY KeptData, HeldFine
<1>3. Becomes(h) \/ Becomes(r)
  <2>1. CASE s.cur = Nobody
    <3>1. ~s.active
      BY <2>1 DEF KeptInv, Fine, Tied
    <3>2. Becomes(h) \/ Becomes(TookFloor(Deactivated(h), arm))
      BY <1>1, <2>1, <3>1 DEF Hold
    <3>3. Deactivated(h) = h
      <4>1. h \in AnyController /\ h.active = FALSE
        BY <1>2, <3>1, KeptTyped DEF Fine
      <4> QED BY <4>1 DEF AnyController, Deactivated
    <3> QED BY <3>2, <3>3
  <2>2. CASE s.cur # Nobody
    BY <1>1, <2>2 DEF Hold
  <2> QED BY <2>1, <2>2
<1> HIDE DEF h
<1>4. /\ Fine(r) /\ r.cur = h.cur /\ r.idx = h.idx /\ r.active = h.active /\ r.watch = h.watch
  BY <1>2, TookFloorFine
<1> HIDE DEF r
<1> QED BY <1>2, <1>3, <1>4, KeptStep DEF Becomes

LEMMA KeptHold ==
  ASSUME KeptInv, NEW h \in holding, HoldTells(h) \/ HoldLands(h)
  PROVE  KeptInv'
BY DEF KeptInv

LEMMA KeptResume ==
  ASSUME ~Earcons, KeptInv, Becomes(Resumed(s))
  PROVE  KeptInv'
<1> DEFINE r == Resumed(s)
<1>1. /\ Fine(r)
      /\ s.active => /\ r.cur = s.cur /\ r.idx = s.idx
                     /\ r.active = s.active /\ r.watch = s.watch
  BY KeptData, ResumedFine
<1>2. Becomes(r)
  OBVIOUS
<1> HIDE DEF r
<1>3. CASE s.active
  BY <1>1, <1>2, <1>3, KeptStep DEF Becomes
<1>4. CASE ~s.active
  <2>1. step = Free
    BY <1>4 DEF KeptInv, Awaits
  <2> QED BY <1>1, <1>2, <2>1, KeptRan DEF Becomes
<1> QED BY <1>3, <1>4

LEMMA KeptArm ==
  ASSUME KeptInv, Arm
  PROVE  KeptInv'
<1> DEFINE r == [s EXCEPT !.armed = TRUE]
<1>1. s.db.held /\ s \in AnyController /\ Kept(s, s.cur) /\ Fine(s)
  BY KeptData DEF Arm, Fine, Kept
<1>2. /\ r \in AnyController /\ r.db = s.db /\ r.cur = s.cur /\ r.idx = s.idx
      /\ r.active = s.active /\ r.watch = s.watch /\ r.stack = s.stack /\ r.cues = s.cues
  BY <1>1 DEF AnyController
<1>3. Becomes(r)
  BY DEF Arm
<1> HIDE DEF r
<1>4. Kept(r, r.cur)
  BY <1>1, <1>2, FlagsKept
<1>5. Tied(r)
  BY <1>1, <1>2 DEF Fine, Tied, CurrentState, Misplaced, Slot
<1>6. Fine(r)
  BY <1>4, <1>5 DEF Fine
<1> QED BY <1>2, <1>3, <1>6, KeptStep DEF Becomes

LEMMA KeptBegins ==
  ASSUME KeptInv, NEW t, Lined(t.db), t.mic \in BOOLEAN, Begins(t)
  PROVE  KeptInv'
<1> DEFINE r == Reborn(t)
<1>1. s' = r /\ step' = Free /\ holding' = {}
  BY DEF Begins
<1>2. Fine(r)
  BY RebornFine
<1> HIDE DEF r
<1> QED BY <1>1, <1>2, KeptRan DEF KeptInv

LEMMA KeptCrash ==
  ASSUME KeptInv, Crash
  PROVE  KeptInv'
BY KeptData, KeptBegins DEF Crash

LEMMA KeptShutdown ==
  ASSUME KeptInv, Shutdown
  PROVE  KeptInv'
<1> DEFINE q == Unclaimed(s)
           h == Held(q)
           t == IF CurrentLive(s) /\ ~s.db.held THEN h ELSE s
<1>1. Fine(q)
  BY KeptData, UnclaimedFine
<1> HIDE DEF q
<1>2. Fine(h)
  BY <1>1, HeldFine
<1>3. IF t.watch \/ MustStop(t)
        THEN Waits("shutdown", t, Nobody) /\ UNCHANGED <<rendering, holding>>
        ELSE Begins(t)
  BY DEF Shutdown, q
<1> HIDE DEF h
<1>4. Fine(t)
  BY <1>2, KeptData
<1> HIDE DEF t
<1>5. Lined(t.db) /\ t.mic \in BOOLEAN
  BY <1>4, KeptTyped DEF Fine, Kept
<1>6. CASE t.watch \/ MustStop(t)
  BY <1>3, <1>4, <1>6, KeptWaits DEF TransportOps
<1>7. CASE ~(t.watch \/ MustStop(t))
  BY <1>3, <1>5, <1>7, KeptBegins
<1> QED BY <1>6, <1>7

LEMMA KeptShutdownLand ==
  ASSUME KeptInv, ShutdownLands
  PROVE  KeptInv'
<1> DEFINE w == Slot(s)
           d == IF s.cur # Nobody THEN SuspendPlayback(s.db, w) ELSE s.db
           r == [s EXCEPT !.db = d]
<1>1. Begins(r)
  BY DEF ShutdownLands
<1>2. w[1] = s.cur /\ s \in AnyController
  BY KeptData DEF Slot, Fine, Kept
<1> HIDE DEF w
<1>3. Lined(d)
  <2>1. CASE s.cur # Nobody
    <3>1. LET e == SuspendPlayback(s.db, w) IN Moves(s.db, e, w[1])
      BY <1>2, <2>1, KeptData, SuspendMoves
    <3> QED BY <2>1, <3>1, KeptData, MovesLined
  <2>2. CASE s.cur = Nobody
    BY <2>2, KeptData
  <2> QED BY <2>1, <2>2
<1> HIDE DEF d
<1>4. r.db = d /\ r.mic = s.mic
  BY <1>2 DEF AnyController
<1> HIDE DEF r
<1> QED BY <1>1, <1>3, <1>4, KeptData, KeptBegins

LEMMA KeptInit == Init => KeptInv
<1> SUFFICES ASSUME Init PROVE KeptInv
  OBVIOUS
<1> DEFINE d == EmptyDatabase
           v == [mode |-> "idle", unit |-> Outro]
<1>1. d \in Database /\ \A u \in Utts : d.state[u] = Absent
  BY EmptyInv DEF DbInv, EmptyDatabase
<1> HIDE DEF d
<1>2. v \in [mode : Modes, unit : Units \cup {Outro}] /\ <<>> \in Seq(Bookmarks)
  BY DEF Modes
<1> HIDE DEF v
<1>3. s = [db |-> d, cur |-> Nobody, idx |-> Whole, active |-> FALSE, watch |-> FALSE, device |-> v,
           stack |-> <<>>, mic |-> FALSE, armed |-> FALSE, cues |-> FALSE, raised |-> FALSE]
  BY DEF Init, d, v
<1>4. /\ s \in AnyController /\ s.db = d /\ s.cur = Nobody /\ s.idx = Whole /\ s.active = FALSE
      /\ s.watch = FALSE /\ s.stack = <<>> /\ s.mic = FALSE /\ s.armed = FALSE /\ s.cues = FALSE
  BY <1>1, <1>2, <1>3 DEF AnyController
<1>5. Lined(d) /\ Stacked(d, Nobody, <<>>)
  BY <1>1, StateFacts DEF Lined, Ordered, IsLive, Stacked, Paused
<1> QED BY <1>4, <1>5 DEF Init, KeptInv, Fine, Kept, Tied, Awaits

LEMMA KeptStutter == ASSUME KeptInv, UNCHANGED vars PROVE KeptInv'
BY DEF vars, KeptInv

LEMMA KeptNext == ASSUME ~Earcons, KeptInv, [Next]_vars PROVE KeptInv'
<1>1. CASE Pool
  <2>1. PICK w \in Units : TakeJob(w) \/ StreamReady(w) \/ Render(w) \/ RenderFails(w)
    BY <1>1 DEF Pool
  <2> QED BY <2>1, KeptTakeJob, KeptStreamReady, KeptRender, KeptRenderFails
<1>2. CASE Sink
  BY <1>2, KeptDeviceEnd, KeptDeviceClose, KeptWatch DEF Sink
<1>3. CASE Loop
  BY <1>3, KeptPlan, KeptTellToStop, KeptLand, KeptHold DEF Loop
<1>4. CASE Commands
  <2>1. ASSUME NEW u \in Utts, Submit(u) \/ Cancel(u) PROVE KeptInv'
    BY <2>1, KeptSubmit, KeptCancel
  <2>2. ASSUME NEW states \in {PendingStates, {"Ready"}}, Clear(states) PROVE KeptInv'
    BY <2>2, KeptClear
  <2>3. CASE Reorder \/ Skip \/ NextSegment \/ PreviousSegment \/ RestartCurrent
    BY <2>3, KeptReorder, KeptSkip, KeptNextSegment, KeptPreviousSegment, KeptRestart
  <2>4. CASE Pause \/ Interrupt \/ Arm
    BY <2>4, KeptPause, KeptInterrupt, KeptArm
  <2>5. CASE Resume \/ AutoResume
    BY <2>5, KeptResume DEF Resume, AutoResume
  <2> QED BY <1>4, <2>1, <2>2, <2>3, <2>4, <2>5 DEF Commands
<1>5. CASE Crash \/ Shutdown \/ ShutdownLands
  BY <1>5, KeptCrash, KeptShutdown, KeptShutdownLand
<1>6. CASE UNCHANGED vars
  BY <1>6, KeptStutter
<1> QED BY <1>1, <1>2, <1>3, <1>4, <1>5, <1>6 DEF Next

LEMMA AlwaysKept == ASSUME ~Earcons PROVE Spec => []KeptInv
<1>1. KeptInv /\ [Next]_vars => KeptInv'
  BY KeptNext
<1> QED BY KeptInit, <1>1, PTL DEF Spec

-----------------------------------------------------------------------------
(* The controller knows of every open session, since a method that          *)
(* leaves the controller inactive has left the device alone.               *)
Shaped(t) == DOMAIN t = {"db", "cur", "idx", "active", "watch", "device", "stack",
                         "mic", "armed", "cues", "raised"}

Leaves(t, r) ==
  /\ Shaped(r)
  /\ \/ r.active = TRUE
     \/ r.active = t.active /\ r.device = t.device

LEMMA AnyShaped == ASSUME NEW t \in AnyController PROVE Shaped(t)
BY DEF AnyController, Shaped

LEMMA LeavesTwice ==
  ASSUME NEW t, NEW q, NEW r, Leaves(t, q), Leaves(q, r)
  PROVE  Leaves(t, r)
BY DEF Leaves

LEMMA LeavesShaped == ASSUME NEW t, NEW r, Leaves(t, r) PROVE Shaped(r)
BY DEF Leaves

LEMMA LeavesItself == ASSUME NEW t, Shaped(t) PROVE Leaves(t, t)
BY DEF Leaves

LEMMA StartLeaves == ASSUME NEW t, NEW w, Shaped(t) PROVE Leaves(t, Start(t, w))
<1> DEFINE e == [t EXCEPT !.cues = Earcons /\ w # Outro]
           v == [mode |-> "sounding", unit |-> w]
           q == [e EXCEPT !.device = v, !.active = TRUE, !.watch = TRUE]
           r == [e EXCEPT !.raised = TRUE]
<1>1. Shaped(e) /\ e.active = t.active /\ e.device = t.device
  BY DEF Shaped
<1>2. Start(t, w) = q \/ Start(t, w) = r
  BY DEF Start
<1> HIDE DEF e, v
<1>3. Leaves(t, q) /\ Leaves(t, r)
  BY <1>1 DEF Leaves, Shaped
<1> QED BY <1>2, <1>3

LEMMA SameSession ==
  ASSUME NEW t, NEW d, NEW c, NEW i, NEW q, Shaped(t)
  PROVE  /\ Leaves(t, [t EXCEPT !.db = d])
         /\ Leaves(t, [t EXCEPT !.idx = i])
         /\ Leaves(t, [t EXCEPT !.db = d, !.cur = c])
         /\ Leaves(t, [t EXCEPT !.db = d, !.idx = i])
         /\ Leaves(t, [t EXCEPT !.db = d, !.cur = c, !.idx = i])
         /\ Leaves(t, [t EXCEPT !.db = d, !.stack = q])
         /\ Leaves(t, [t EXCEPT !.stack = q])
BY DEF Leaves, Shaped

LEMMA WholeLeaves == ASSUME NEW t, NEW u, Shaped(t) PROVE Leaves(t, BeginWhole(t, u))
<1> DEFINE d == Transition(t.db, u, "Playing")
           q == [t EXCEPT !.db = d, !.cur = u]
<1>1. Leaves(t, q)
  BY SameSession
<1>2. BeginWhole(t, u) = Start(q, <<u, Whole>>)
  BY DEF BeginWhole
<1> HIDE DEF q
<1> QED BY <1>1, <1>2, StartLeaves, LeavesTwice, LeavesShaped

LEMMA ChunkLeaves == ASSUME NEW t, NEW p, Shaped(t) PROVE Leaves(t, BeginChunk(t, p))
<1> DEFINE d == IF In(t.db, p[1], {"Ready", "Paused"}) THEN Transition(t.db, p[1], "Playing") ELSE t.db
           e == TransitionSegment(d, p, "Playing")
           q == [t EXCEPT !.db = e, !.cur = p[1], !.idx = p[2]]
<1>1. Leaves(t, q)
  BY SameSession
<1>2. BeginChunk(t, p) = Start(q, p)
  BY DEF BeginChunk
<1> HIDE DEF q
<1> QED BY <1>1, <1>2, StartLeaves, LeavesTwice, LeavesShaped

LEMMA VacatedLeaves == ASSUME NEW t, Shaped(t) PROVE Leaves(t, Vacated(t))
BY DEF Vacated, Leaves, Shaped

LEMMA SavedLeaves == ASSUME NEW t, NEW u, NEW i, Shaped(t) PROVE Leaves(t, StartSaved(t, u, i))
<1>1. Leaves(t, Adopt(t, u))
  BY DEF Adopt, Leaves, Shaped
<1>2. Leaves(t, BeginWhole(t, u)) /\ \A p : Leaves(t, BeginChunk(t, p))
  BY WholeLeaves, ChunkLeaves
<1> QED BY <1>1, <1>2 DEF StartSaved

LEMMA DocumentLeaves == ASSUME NEW t, NEW u, Shaped(t) PROVE Leaves(t, ResumeDocument(t, u))
<1>1. \A p : Leaves(t, BeginChunk(t, p))
  BY ChunkLeaves
<1>2. \A d : Leaves(t, [t EXCEPT !.db = d])
  BY SameSession
<1>3. Leaves(t, t)
  BY LeavesItself
<1> QED BY <1>1, <1>2, <1>3 DEF ResumeDocument

LEMMA SuspendedLeaves == ASSUME NEW t, NEW w, Shaped(t) PROVE Leaves(t, Suspended(t, w))
BY DEF Suspended, Vacated, Leaves, Shaped

LEMMA RestoredLeaves == ASSUME NEW t, Shaped(t) PROVE Leaves(t, Restored(t))
<1>1. \A q, u, i : Leaves(t, StartSaved([t EXCEPT !.stack = q], u, i))
  <2> SUFFICES ASSUME NEW q, NEW u, NEW i PROVE Leaves(t, StartSaved([t EXCEPT !.stack = q], u, i))
    OBVIOUS
  <2> DEFINE r == [t EXCEPT !.stack = q]
  <2>1. Leaves(t, r)
    BY SameSession
  <2> HIDE DEF r
  <2> QED BY <2>1, SavedLeaves, LeavesTwice, LeavesShaped DEF r
<1>2. \A q : Leaves(t, [t EXCEPT !.stack = q])
  BY SameSession
<1>3. Leaves(t, t)
  BY LeavesItself
<1> QED BY <1>1, <1>2, <1>3 DEF Restored

LEMMA HeadLeaves == ASSUME NEW t, Shaped(t) PROVE Leaves(t, HeadBegun(t))
<1>1. \A p : Leaves(t, BeginChunk(t, p))
  BY ChunkLeaves
<1>2. \A u : Leaves(t, BeginWhole(t, u))
  BY WholeLeaves
<1>3. Leaves(t, t) /\ Leaves(t, Start(t, Outro))
  BY StartLeaves, LeavesShaped, LeavesItself
<1> QED BY <1>1, <1>2, <1>3 DEF HeadBegun

LEMMA PassLeaves == ASSUME NEW t, Shaped(t) PROVE Leaves(t, RestOfPass(t))
<1>1. \A p : Leaves(t, BeginChunk(t, p))
  BY ChunkLeaves
<1>2. Leaves(t, t) /\ Leaves(t, HeadBegun(t)) /\ Leaves(t, Vacated(t))
  BY HeadLeaves, VacatedLeaves, LeavesShaped, LeavesItself
<1> QED BY <1>1, <1>2 DEF RestOfPass

LEMMA TakesOverLeaves == ASSUME NEW t, NEW u, Shaped(t) PROVE Leaves(t, TakenOver(t, u))
<1> DEFINE q == IF t.db.state[u] = "Ready" THEN StartSaved(t, u, Whole) ELSE t
           r == IF t.db.held THEN t ELSE Restored(q)
<1>1. Leaves(t, q) /\ Leaves(t, t)
  BY SavedLeaves, LeavesShaped, LeavesItself
<1> HIDE DEF q
<1>2. Leaves(t, r)
  BY <1>1, RestoredLeaves, LeavesTwice, LeavesShaped
<1>3. TakenOver(t, u) = RestOfPass(r)
  BY DEF TakenOver, r, q
<1> HIDE DEF r
<1> QED BY <1>2, <1>3, PassLeaves, LeavesTwice, LeavesShaped

LEMMA SkipLeaves == ASSUME NEW t, NEW w, Shaped(t) PROVE Leaves(t, SkipLands(t, w))
BY DEF SkipLands, Vacated, Leaves, Shaped

LEMMA NextLeaves == ASSUME NEW t, NEW w, Shaped(t) PROVE Leaves(t, NextLands(t, w))
<1> DEFINE d == TransitionSegment(t.db, w, "Skipped")
           q == [t EXCEPT !.db = d, !.idx = Whole]
<1>1. Leaves(t, q) /\ Leaves(t, t)
  BY SameSession, LeavesShaped, LeavesItself
<1>2. NextLands(t, w) = ResumeDocument(q, w[1]) \/ NextLands(t, w) = t
  BY DEF NextLands
<1> HIDE DEF q
<1> QED BY <1>1, <1>2, DocumentLeaves, LeavesTwice, LeavesShaped

LEMMA RestoreStepLeaves ==
  ASSUME NEW t, NEW u, NEW i, Shaped(t)
  PROVE  Leaves(t, RestoreStep(t, u, i))
<1> DEFINE d == IF Has(t.db, <<u, i>>) THEN ResetSegmentsFrom(t.db, u, i) ELSE t.db
           e == [t EXCEPT !.db = d]
           q == [e EXCEPT !.idx = Whole]
           f == IF CanTransition(d.state[u], "Failed") THEN Transition(d, u, "Failed") ELSE d
           r == [e EXCEPT !.db = f]
<1>1. Leaves(t, e)
  BY SameSession
<1>2. e.db = d
  BY DEF Shaped
<1>3. RestoreStep(t, u, i) = ResumeDocument(q, u) \/ RestoreStep(t, u, i) = Vacated(r)
  BY <1>2 DEF RestoreStep
<1> HIDE DEF e, d
<1>4. Leaves(e, q) /\ Leaves(e, r)
  BY <1>1, SameSession, LeavesShaped, LeavesItself
<1> HIDE DEF q, r
<1>5. Leaves(e, ResumeDocument(q, u)) /\ Leaves(e, Vacated(r))
  BY <1>4, DocumentLeaves, VacatedLeaves, LeavesTwice, LeavesShaped
<1> QED BY <1>1, <1>3, <1>5, LeavesTwice

LEMMA PreviousLeaves == ASSUME NEW t, NEW w, Shaped(t) PROVE Leaves(t, PreviousLands(t, w))
<1> DEFINE u == w[1]
           i == w[2] - 1
           d == IF Has(t.db, <<u, i>>) THEN ResetSegmentsFrom(t.db, u, i) ELSE t.db
           e == [t EXCEPT !.db = d]
           q == [e EXCEPT !.idx = Whole]
<1>1. Leaves(t, e)
  BY SameSession
<1>2. \/ PreviousLands(t, w) = ResumeDocument(q, u)
      \/ PreviousLands(t, w) = RestoreStep(e, u, w[2])
  BY DEF PreviousLands
<1> HIDE DEF e, u
<1>3. Leaves(e, q)
  BY <1>1, SameSession, LeavesShaped, LeavesItself
<1> HIDE DEF q
<1>4. Leaves(e, ResumeDocument(q, u)) /\ Leaves(e, RestoreStep(e, u, w[2]))
  BY <1>1, <1>3, DocumentLeaves, RestoreStepLeaves, LeavesTwice, LeavesShaped
<1> QED BY <1>1, <1>2, <1>4, LeavesTwice

LEMMA RestartLeaves == ASSUME NEW t, NEW w, Shaped(t) PROVE Leaves(t, RestartLands(t, w))
<1> DEFINE u == w[1]
           d == ResetSegmentsFrom(t.db, u, 0)
           e == [t EXCEPT !.db = d, !.idx = Whole]
           f == IF t.db.state[u] = "Paused" THEN Transition(t.db, u, "Playing") ELSE t.db
           q == [t EXCEPT !.db = f]
           g == SuspendPlayback(t.db, <<u, Whole>>)
           h == [t EXCEPT !.db = g]
<1>1. Leaves(t, e) /\ Leaves(t, q) /\ Leaves(t, h) /\ Leaves(t, t)
  BY SameSession, LeavesShaped, LeavesItself
<1>2. \/ RestartLands(t, w) \in {e, t, h}
      \/ RestartLands(t, w) = ResumeDocument(e, u)
      \/ RestartLands(t, w) = RestoreStep(e, u, w[2])
      \/ RestartLands(t, w) = Start(q, <<u, Whole>>)
  BY DEF RestartLands
<1> HIDE DEF e, q, u, h
<1>3. /\ Leaves(e, ResumeDocument(e, u)) /\ Leaves(e, RestoreStep(e, u, w[2]))
      /\ Leaves(q, Start(q, <<u, Whole>>))
  BY <1>1, DocumentLeaves, RestoreStepLeaves, StartLeaves, LeavesShaped, LeavesItself
<1> QED BY <1>1, <1>2, <1>3, LeavesTwice

(* Holding, resuming and stopping change the mode of an open session only. *)
Reaches(t) == t.active \/ SessionOver(t)

LEMMA LeavesReaches ==
  ASSUME NEW t, NEW r, Reaches(t), Leaves(t, r)
  PROVE  Reaches(r)
BY DEF Reaches, Leaves, SessionOver

(* A session that is told to stop neither sounds nor waits to be resumed.  *)
Stopped(t) == t.device.mode \notin {"sounding", "paused"}

LEMMA HeldReaches ==
  ASSUME NEW t \in AnyController
  PROVE  /\ Held(t) \in AnyController => Held(t).active = t.active
         /\ Reaches(t) => Reaches(Held(t))
         /\ Stopped(t) => Stopped(Held(t))
<1> DEFINE m == IF t.active /\ t.device.mode = "sounding" THEN "paused" ELSE t.device.mode
<1>1. PICK d : Held(t) \in {[t EXCEPT !.db = d, !.device.mode = m], [t EXCEPT !.db = d]}
  BY DEF Held
<1> DEFINE q == [t EXCEPT !.db = d, !.device.mode = m]
           r == [t EXCEPT !.db = d]
           h == Held(t)
<1>2. /\ q.active = t.active /\ q.device.mode = m
      /\ r.active = t.active /\ r.device = t.device
  <2> HIDE DEF m
  <2> QED BY DEF AnyController
<1>3. h = q \/ h = r
  BY <1>1
<1> HIDE DEF q, r, h
<1>4. h.active = t.active /\ (h.device.mode = m \/ h.device.mode = t.device.mode)
  BY <1>2, <1>3
<1>5. CASE h.device.mode = m
  BY <1>4, <1>5 DEF Reaches, Stopped, SessionOver, h
<1>6. CASE h.device.mode = t.device.mode
  BY <1>4, <1>6 DEF Reaches, Stopped, SessionOver, h
<1> QED BY <1>4, <1>5, <1>6

LEMMA ContinuedReaches ==
  ASSUME NEW t \in AnyController, Reaches(t)
  PROVE  /\ Reaches(Continued(t))
         /\ t.active /\ Stopped(t) => Stopped(Continued(t))
<1> DEFINE u == t.cur
           m == IF t.device.mode = "paused" THEN "sounding" ELSE t.device.mode
           r == Continued(t)
<1>1. CASE CurrentState(t) = "Paused" /\ t.active
  <2>1. PICK d : r = [t EXCEPT !.db = d, !.device.mode = m]
    BY <1>1 DEF Continued
  <2>2. r.active = t.active /\ r.device.mode = m
    BY <2>1 DEF AnyController
  <2> QED BY <1>1, <2>2 DEF Reaches, Stopped
<1>2. CASE ~(CurrentState(t) = "Paused" /\ t.active)
  <2>1. Shaped(t)
    BY AnyShaped
  <2>2. /\ Leaves(t, t) /\ \A d : Leaves(t, [t EXCEPT !.db = d])
        /\ Leaves(t, BeginWhole(t, u)) /\ \A p : Leaves(t, BeginChunk(t, p))
    BY <2>1, LeavesItself, SameSession, WholeLeaves, ChunkLeaves
  <2>3. Leaves(t, r)
    BY <1>2, <2>2 DEF Continued
  <2>4. t.active => r = t
    BY <1>2 DEF Continued
  <2>5. Reaches(r)
    BY <2>3, LeavesReaches
  <2> QED BY <2>4, <2>5
<1> QED BY <1>1, <1>2

LEMMA AdoptedKeeps ==
  ASSUME NEW t \in AnyController
  PROVE  /\ Adopted(t).active = t.active /\ Adopted(t).device = t.device
BY DEF Adopted, AnyController

LEMMA ResumedReaches ==
  ASSUME NEW t, Fine(t), Reaches(t)
  PROVE  /\ Reaches(Resumed(t))
         /\ t.active /\ Stopped(t) => Stopped(Resumed(t))
<1> DEFINE q == Unclaimed([Calm(t) EXCEPT !.db.held = FALSE])
           a == Adopted(q)
<1>1. t \in AnyController
  BY KeptTyped DEF Fine
<1>2. q.active = t.active /\ q.device = t.device
  BY <1>1 DEF AnyController, Unclaimed, Calm
<1>3. Fine(q)
  BY LiftedFine
<1>4. q \in AnyController
  BY <1>3, KeptTyped DEF Fine
<1> HIDE DEF q
<1>5. Fine(a)
  BY <1>3, <1>4, AdoptedFine
<1>6. a \in AnyController /\ a.active = t.active /\ a.device = t.device
  BY <1>2, <1>4, <1>5, AdoptedKeeps, KeptTyped DEF Fine
<1>7. Resumed(t) = Continued(a)
  BY DEF Resumed, a, q
<1> HIDE DEF a
<1> QED BY <1>6, <1>7, ContinuedReaches DEF Reaches, Stopped, SessionOver

Known == Reaches(s) /\ (step # Free /\ step.told => Stopped(s))

LEMMA KeptTypes ==
  ASSUME KeptInv
  PROVE  /\ Fine(s) /\ s \in AnyController /\ Shaped(s)
         /\ step # Free => /\ step \in Waitings /\ step.slot = Slot(s) /\ s.active /\ ~s.watch
                           /\ step.op = "plan" => step.next \in Utts
BY KeptTyped, AnyShaped DEF KeptInv, Fine, Awaits

LEMMA KnownSame ==
  ASSUME Known, s'.active = s.active, s'.device = s.device, step' = step
  PROVE  Known'
BY DEF Known, Reaches, SessionOver, Stopped

LEMMA KnownRows ==
  ASSUME KeptInv, Known, NEW d, s' = Rows(d), step' = step
  PROVE  Known'
<1>1. s'.active = s.active /\ s'.device = s.device
  BY KeptTypes DEF Rows, AnyController
<1> QED BY <1>1, KnownSame

LEMMA KnownRan ==
  ASSUME NEW t, NEW r, Reaches(t), Leaves(t, r), s' = r, step' = Free
  PROVE  Known'
BY LeavesReaches DEF Known

LEMMA ToldStops ==
  ASSUME NEW t \in AnyController, Reaches(t)
  PROVE  Reaches(Told(t)) /\ Stopped(Told(t))
<1> DEFINE m == IF t.device.mode \in {"sounding", "paused"} THEN "stopping" ELSE t.device.mode
           r == Told(t)
<1>1. r.active = t.active /\ r.device.mode = m
  BY DEF Told, AnyController
<1> HIDE DEF r
<1>2. CASE t.device.mode \in {"sounding", "paused"}
  BY <1>1, <1>2 DEF Reaches, Stopped, SessionOver, r
<1>3. CASE t.device.mode \notin {"sounding", "paused"}
  BY <1>1, <1>3 DEF Reaches, Stopped, SessionOver, r
<1> QED BY <1>2, <1>3

LEMMA KnownWaits ==
  ASSUME NEW t \in AnyController, Reaches(t), NEW op, NEW n, Waits(op, t, n)
  PROVE  Known'
<1> DEFINE p == [op |-> op, slot |-> Slot(t), next |-> n, told |-> ~t.watch]
<1>1. step' = p /\ s' = IF t.watch THEN Unwatched(t) ELSE Told(t)
  BY DEF Waits
<1>2. p.told = ~t.watch /\ t.watch \in BOOLEAN
  BY DEF AnyController
<1> HIDE DEF p
<1>3. CASE t.watch
  <2>1. s'.active = t.active /\ s'.device = t.device
    BY <1>1, <1>3 DEF Unwatched, AnyController
  <2> QED BY <1>1, <1>2, <1>3, <2>1 DEF Known, Reaches, SessionOver
<1>4. CASE ~t.watch
  BY <1>1, <1>4, ToldStops DEF Known
<1> QED BY <1>3, <1>4

(* The device is free when nothing watches it or has to be stopped.        *)
LEMMA FreedReaches ==
  ASSUME NEW t \in AnyController, Reaches(t), ~MustStop(t)
  PROVE  Reaches(Deactivated(Calm(t))) /\ Shaped(Deactivated(Calm(t)))
<1> DEFINE q == Deactivated(Calm(t))
<1>1. q.device = t.device /\ Shaped(q)
  BY DEF Deactivated, Calm, AnyController, Shaped
<1> HIDE DEF q
<1>2. SessionOver(t)
  BY DEF Reaches, MustStop
<1> QED BY <1>1, <1>2 DEF Reaches, SessionOver, q

LEMMA KnownPool == ASSUME KeptInv, Known, Pool PROVE Known'
<1>1. PICK w \in Units : TakeJob(w) \/ StreamReady(w) \/ Render(w) \/ RenderFails(w)
  BY DEF Pool
<1>2. PICK d : s' = Rows(d) /\ step' = step
  BY <1>1 DEF TakeJob, StreamReady, Render, RenderFails, Completes, Becomes
<1> QED BY <1>2, KnownRows

LEMMA KnownSink == ASSUME KeptInv, Known, Sink PROVE Known'
<1>0. s \in AnyController
  BY KeptTypes
<1>1. CASE DeviceEnds
  <2>1. PICK how \in {"ended", "broken"} : Becomes([s EXCEPT !.device.mode = how])
    BY <1>1 DEF DeviceEnds
  <2>2. s'.device.mode = how /\ s'.active = s.active /\ step' = step
    BY <1>0, <2>1 DEF Becomes, AnyController
  <2> QED BY <2>2 DEF Known, Reaches, SessionOver, Stopped
<1>2. CASE DeviceCloses
  <2>1. s'.device.mode = "idle" /\ step' = step
    BY <1>0, <1>2 DEF DeviceCloses, Becomes, AnyController
  <2> QED BY <2>1 DEF Known, Reaches, SessionOver, Stopped
<1>3. CASE Watch
  <2> DEFINE to == IF s.device.mode = "ended" THEN "Played" ELSE "Failed"
             e == Finished(s, to)
             f == [e EXCEPT !.active = FALSE, !.watch = FALSE, !.idx = Whole, !.device.mode = "idle"]
             g == [f EXCEPT !.cur = Nobody]
             h == [s EXCEPT !.active = FALSE, !.watch = FALSE, !.device.mode = "idle"]
  <2>1. step' = step /\ (s' = h \/ s' = f \/ s' = g)
    BY <1>3 DEF Watch, Becomes
  <2>2. PICK d : e = s \/ e = [s EXCEPT !.db = d]
    BY DEF Finished
  <2>3. Shaped(e) /\ e.device = s.device
    BY <1>0, <2>2, AnyShaped DEF Shaped
  <2> HIDE DEF e
  <2>4. DOMAIN s.device = {"mode", "unit"} /\ Shaped(s)
    BY <1>0, AnyShaped DEF AnyController
  <2>5. f.device.mode = "idle" /\ g.device.mode = "idle" /\ h.device.mode = "idle"
    BY <2>3, <2>4 DEF Shaped
  <2> HIDE DEF f, g, h
  <2>6. s'.device.mode = "idle"
    BY <2>1, <2>5
  <2> QED BY <2>1, <2>6 DEF Known, Reaches, SessionOver, Stopped
<1> QED BY <1>1, <1>2, <1>3 DEF Sink

LEMMA KnownPlan == ASSUME KeptInv, Known, Plan PROVE Known'
<1>1. step = Free /\ s \in AnyController /\ Shaped(s) /\ Reaches(s)
  BY KeptTypes DEF Plan, Known
<1>2. CASE s.db.held \/ Takeovers(s) = {}
  <2> DEFINE c == Calm(s)
             q == IF s.db.held THEN c ELSE Restored(c)
             r == RestOfPass(q)
  <2>1. s' = r /\ step' = Free
    BY <1>1, <1>2 DEF Plan, Becomes
  <2>2. Shaped(c) /\ Leaves(s, c)
    BY <1>1 DEF Calm, Shaped, Leaves
  <2> HIDE DEF c
  <2>3. Leaves(s, q)
    BY <2>2, RestoredLeaves, LeavesTwice
  <2> HIDE DEF q
  <2>4. Leaves(s, r)
    BY <2>3, PassLeaves, LeavesShaped, LeavesTwice
  <2> HIDE DEF r
  <2> QED BY <1>1, <2>1, <2>4, KnownRan
<1>3. CASE ~(s.db.held \/ Takeovers(s) = {})
  <2> DEFINE u == First(s.db, Takeovers(s))
             lands(t, slot) == TakenOver(IF CurrentLive(t) THEN Suspended(t, slot) ELSE t, u)
  <2>1. Handle("plan", s, u, lands)
    BY <1>3 DEF Plan
  <2> HIDE DEF u
  <2>2. CASE s.watch \/ MustStop(s)
    BY <1>1, <2>1, <2>2, KnownWaits DEF Handle
  <2>3. CASE ~(s.watch \/ MustStop(s))
    <3> DEFINE t == Deactivated(Calm(s))
               w == Slot(s)
               q == IF CurrentLive(t) THEN Suspended(t, w) ELSE t
               r == TakenOver(q, u)
    <3>1. s' = r /\ step' = Free
      BY <1>1, <2>1, <2>3 DEF Handle, Becomes
    <3>2. Reaches(t) /\ Shaped(t)
      BY <1>1, <2>3, FreedReaches
    <3> HIDE DEF t, w
    <3>3. Leaves(t, q)
      BY <3>2, SuspendedLeaves, LeavesItself
    <3> HIDE DEF q
    <3>4. Leaves(t, r)
      BY <3>3, TakesOverLeaves, LeavesShaped, LeavesTwice
    <3> HIDE DEF r
    <3> QED BY <3>1, <3>2, <3>4, KnownRan
  <2> QED BY <2>2, <2>3
<1> QED BY <1>2, <1>3

LEMMA KnownLand == ASSUME KeptInv, Known, Land PROVE Known'
<1> DEFINE t == Deactivated(Calm(s))
           r == Landed(t)
<1>1. /\ step # Free /\ step.op # "shutdown" /\ s' = r /\ step' = Free
      /\ IF step.told THEN Over(s) ELSE ~MustStop(s)
  BY DEF Land, Released, Serving
<1>2. s \in AnyController /\ step \in Waitings /\ s.active
  BY <1>1, KeptTypes
<1>3. SessionOver(s)
  <2>1. s.device.mode \in Modes
    BY <1>2 DEF AnyController
  <2> QED BY <1>1, <1>2, <2>1 DEF Known, Stopped, Over, MustStop, SessionOver, Modes
<1>4. Reaches(t) /\ Shaped(t)
  BY <1>2, <1>3, FreedReaches DEF MustStop, Known
<1>5. step.op \in {"plan", "skip", "next", "previous", "restart"}
  BY <1>1, <1>2 DEF Waitings, TransportOps
<1> DEFINE w == step.slot
           q == Suspended(t, w)
<1> HIDE DEF t
<1>6. CASE step.op = "plan"
  <2>1. r = TakenOver(q, step.next)
    BY <1>6, ZenonT(30) DEF Landed
  <2>2. Leaves(t, q)
    BY <1>4, SuspendedLeaves
  <2> HIDE DEF q, r
  <2>3. Leaves(t, r)
    BY <2>1, <2>2, TakesOverLeaves, LeavesShaped, LeavesTwice
  <2> QED BY <1>1, <1>4, <2>3, KnownRan
<1>7. CASE step.op # "plan"
  <2>1. r \in {SkipLands(t, w), NextLands(t, w), PreviousLands(t, w), RestartLands(t, w)}
    BY <1>5, <1>7 DEF Landed
  <2> HIDE DEF r, w
  <2>2. Leaves(t, r)
    BY <1>4, <2>1, SkipLeaves, NextLeaves, PreviousLeaves, RestartLeaves
  <2> QED BY <1>1, <1>4, <2>2, KnownRan
<1> QED BY <1>6, <1>7

LEMMA KnownTellToStop == ASSUME KeptInv, Known, TellsToStop PROVE Known'
<1>1. s' = Told(s)
  BY DEF TellsToStop
<1> QED BY <1>1, KeptTypes, ToldStops DEF Known

LEMMA KnownStep ==
  ASSUME NEW t, Reaches(t), step = Free, step' = step, s' = t
  PROVE  Known'
BY DEF Known

LEMMA KnownSteps ==
  ASSUME KeptInv, Known, Skip \/ NextSegment \/ PreviousSegment \/ RestartCurrent
  PROVE  Known'
<1> DEFINE x == Unclaimed(s)
<1>1. /\ step = Free /\ s \in AnyController /\ Reaches(s)
  BY KeptTypes DEF Skip, NextSegment, PreviousSegment, Navigable, RestartCurrent, Known
<1>2. x \in AnyController /\ Reaches(x)
  <2>1. x \in AnyController /\ x.active = s.active /\ x.device = s.device
    BY <1>1 DEF Unclaimed, AnyController
  <2> HIDE DEF x
  <2> QED BY <1>1, <2>1 DEF Reaches, SessionOver
<1>3. PICK t \in {s, x}, op \in TransportOps :
        \/ Becomes(t)
        \/ Waits(op, t, Nobody)
        \/ /\ ~MustStop(t)
           /\ \E w : Becomes(SkipLands(Deactivated(Calm(t)), w)) \/ Becomes(NextLands(Deactivated(Calm(t)), w))
                   \/ Becomes(PreviousLands(Deactivated(Calm(t)), w))
                   \/ Becomes(RestartLands(Deactivated(Calm(t)), w))
  <2>1. CASE Skip
    BY <2>1 DEF Skip, Handle, TransportOps
  <2>2. CASE NextSegment
    BY <2>2 DEF NextSegment, Handle, TransportOps
  <2>3. CASE PreviousSegment
    BY <2>3 DEF PreviousSegment, Handle, TransportOps
  <2>4. CASE RestartCurrent
    BY <2>4 DEF RestartCurrent, Handle, TransportOps
  <2> QED BY <2>1, <2>2, <2>3, <2>4
<1> HIDE DEF x
<1>4. t \in AnyController /\ Reaches(t)
  BY <1>1, <1>2
<1>5. CASE Becomes(t)
  BY <1>1, <1>4, <1>5, KnownStep DEF Becomes
<1>6. CASE Waits(op, t, Nobody)
  BY <1>4, <1>6, KnownWaits
<1>7. CASE ~(Becomes(t) \/ Waits(op, t, Nobody))
  <2> DEFINE q == Deactivated(Calm(t))
  <2>1. PICK w : \/ Becomes(SkipLands(q, w)) \/ Becomes(NextLands(q, w))
                 \/ Becomes(PreviousLands(q, w)) \/ Becomes(RestartLands(q, w))
    BY <1>3, <1>7
  <2>2. Reaches(q) /\ Shaped(q)
    BY <1>3, <1>4, <1>7, FreedReaches
  <2> HIDE DEF q
  <2>3. step' = Free /\ Leaves(q, s')
    BY <1>1, <2>1, <2>2, SkipLeaves, NextLeaves, PreviousLeaves, RestartLeaves DEF Becomes
  <2> QED BY <2>2, <2>3, KnownRan
<1> QED BY <1>5, <1>6, <1>7

LEMMA KnownHolds == ASSUME KeptInv, Known, Pause \/ Interrupt PROVE Known'
<1> DEFINE x == Unclaimed(s)
<1>1. /\ s \in AnyController /\ Fine(s) /\ Fine(x)
  BY KeptTypes, UnclaimedFine
<1>2. x \in AnyController /\ x.active = s.active /\ x.device = s.device
  BY <1>1, KeptTyped DEF Fine, Unclaimed, AnyController
<1>3. PICK t \in {s, x} :
        /\ step' = step
        /\ \/ t.cur = Nobody /\ t.active
           \/ s' = Held(t)
           \/ t.cur = Nobody /\ s' = Deactivated(Held(t))
           \/ \E arm \in BOOLEAN : s' = TookFloor(Held(t), arm)
           \/ t.cur = Nobody /\ \E arm \in BOOLEAN : s' = TookFloor(Deactivated(Held(t)), arm)
  <2>1. CASE Pause
    <3>1. Hold("pause", x, LAMBDA y : y)
      BY <2>1 DEF Pause
    <3> HIDE DEF x
    <3>2. \/ x.cur = Nobody /\ x.active
          \/ Becomes(Held(x))
          \/ x.cur = Nobody /\ Becomes(Deactivated(Held(x)))
      BY <3>1 DEF Hold
    <3>3. step' = step
      BY <3>1 DEF Hold, Becomes
    <3> QED BY <3>2, <3>3 DEF Becomes
  <2>2. CASE Interrupt
    <3>1. PICK arm \in BOOLEAN : Hold("interrupt", s, LAMBDA y : TookFloor(y, arm))
      BY <2>2 DEF Interrupt
    <3>2. \/ s.cur = Nobody /\ s.active
          \/ Becomes(Held(s)) \/ Becomes(TookFloor(Held(s), arm))
          \/ s.cur = Nobody /\ Becomes(TookFloor(Deactivated(Held(s)), arm))
      BY <3>1 DEF Hold
    <3>3. step' = step
      BY <3>1 DEF Hold, Becomes
    <3> QED BY <3>2, <3>3 DEF Becomes
  <2> QED BY <2>1, <2>2
<1> HIDE DEF x
<1>4. t \in AnyController /\ t.active = s.active /\ t.device = s.device /\ Fine(t)
  BY <1>1, <1>2
<1> DEFINE h == Held(t)
<1>5. Reaches(t) /\ (step # Free /\ step.told => Stopped(t))
  BY <1>4 DEF Known, Reaches, SessionOver, Stopped
<1>6. Fine(h) /\ h \in AnyController /\ h.active = t.active
  BY <1>4, HeldFine, KeptTyped DEF Fine
<1>7. Reaches(h) /\ (Stopped(t) => Stopped(h))
  BY <1>4, <1>5, HeldReaches
<1>8. t.cur = Nobody => ~t.active
  BY <1>4 DEF Fine, Tied
<1> HIDE DEF h
<1>9. s'.device = h.device /\ s'.active = h.active /\ step' = step
  <2>1. t.cur = Nobody => Deactivated(h) = h
    BY <1>6, <1>8 DEF Deactivated, AnyController
  <2>2. \A arm \in BOOLEAN : LET f == TookFloor(h, arm) IN f.device = h.device /\ f.active = h.active
    BY <1>6 DEF TookFloor, AnyController
  <2>3. s' = h \/ \E arm \in BOOLEAN : s' = TookFloor(h, arm)
    BY <1>3, <1>8, <2>1 DEF h
  <2> QED BY <1>3, <2>2, <2>3
<1> QED BY <1>5, <1>7, <1>9 DEF Known, Reaches, SessionOver, Stopped

LEMMA KnownResume == ASSUME KeptInv, Known, Resume \/ AutoResume PROVE Known'
<1> DEFINE r == Resumed(s)
<1>1. s' = r /\ step' = step
  BY DEF Resume, AutoResume, Becomes
<1>2. Reaches(r) /\ (s.active /\ Stopped(s) => Stopped(r))
  BY KeptTypes, ResumedReaches DEF Known
<1> HIDE DEF r
<1> QED BY <1>1, <1>2, KeptTypes DEF Known

LEMMA KnownCommands == ASSUME KeptInv, Known, Commands PROVE Known'
<1>0. s \in AnyController
  BY KeptTypes
<1>1. CASE (\E u \in Utts : Submit(u) \/ Cancel(u)) \/ Reorder
  <2>1. PICK d : s' = Rows(d) /\ step' = step
    BY <1>1 DEF Submit, Cancel, Reorder, Becomes
  <2> QED BY <2>1, KnownRows
<1>2. ASSUME NEW states, Clear(states) PROVE Known'
  <2>1. PICK d : s' = [s EXCEPT !.db = d, !.stack = <<>>] /\ step' = step
    BY <1>2 DEF Clear, Becomes
  <2>2. s'.active = s.active /\ s'.device = s.device
    BY <1>0, <2>1 DEF AnyController
  <2> QED BY <2>1, <2>2, KnownSame
<1>3. CASE Arm
  <2>1. s'.active = s.active /\ s'.device = s.device /\ step' = step
    BY <1>0, <1>3 DEF Arm, Becomes, AnyController
  <2> QED BY <2>1, KnownSame
<1> QED BY <1>1, <1>2, <1>3, KnownSteps, KnownHolds, KnownResume DEF Commands

LEMMA KnownStops == ASSUME KeptInv, Known, Crash \/ Shutdown \/ ShutdownLands PROVE Known'
<1>1. ASSUME NEW t, Begins(t) PROVE Known'
  <2> DEFINE r == Reborn(t)
  <2>1. s' = r /\ step' = Free
    BY <1>1 DEF Begins
  <2>2. r.device.mode = "idle"
    BY DEF Reborn
  <2> HIDE DEF r
  <2> QED BY <2>1, <2>2 DEF Known, Reaches, SessionOver
<1>2. CASE Shutdown
  <2> DEFINE q == Unclaimed(s)
             h == Held(q)
             t == IF CurrentLive(s) /\ ~s.db.held THEN h ELSE s
  <2>1. /\ s \in AnyController /\ Fine(s) /\ Fine(q) /\ Reaches(s)
    BY KeptTypes, UnclaimedFine DEF Known
  <2>2. q \in AnyController /\ q.active = s.active /\ q.device = s.device
    BY <2>1, KeptTyped DEF Fine, Unclaimed, AnyController
  <2>3. Waits("shutdown", t, Nobody) \/ Begins(t)
    BY <1>2 DEF Shutdown
  <2> HIDE DEF q
  <2>4. Reaches(q)
    BY <2>1, <2>2 DEF Reaches, SessionOver
  <2>5. h \in AnyController /\ Reaches(h)
    BY <2>1, <2>2, <2>4, HeldFine, HeldReaches, KeptTyped DEF Fine
  <2> HIDE DEF h
  <2>6. t \in AnyController /\ Reaches(t)
    BY <2>1, <2>5
  <2> HIDE DEF t
  <2> QED BY <1>1, <2>3, <2>6, KnownWaits
<1>3. CASE Crash
  BY <1>1, <1>3 DEF Crash
<1>4. CASE ShutdownLands
  BY <1>1, <1>4 DEF ShutdownLands
<1> QED BY <1>2, <1>3, <1>4

LEMMA KnownNext == ASSUME ~Earcons, KeptInv, Known, [Next]_vars PROVE Known'
<1>1. CASE Loop
  BY <1>1, KnownPlan, KnownTellToStop, KnownLand DEF Loop, KeptInv
<1>2. CASE UNCHANGED vars
  BY <1>2, KnownSame DEF vars
<1> QED BY <1>1, <1>2, KnownPool, KnownSink, KnownCommands, KnownStops DEF Next

-----------------------------------------------------------------------------
(* The notice that the listener speaks, and the resume armed for the end   *)
(* of it, never outlive the hold they belong to, whatever fails.           *)
THEOREM NoticesBelongToHolds == ASSUME ~Earcons PROVE Spec => []NoticeMeansHeld
<1>1. KeptInv => NoticeMeansHeld
  BY DEF KeptInv, Fine, Kept, NoticeMeansHeld
<1> QED BY <1>1, AlwaysKept, PTL

(* However deep takeovers nest, and whatever fails, nothing suspended is   *)
(* forgotten, suspended twice, or suspended while it is current.           *)
THEOREM NothingIsForgotten == ASSUME ~Earcons PROVE Spec => []SuspendedOnce
<1>1. KeptInv => SuspendedOnce
  BY DEF KeptInv, Fine, Kept, Stacked, SuspendedOnce
<1> QED BY <1>1, AlwaysKept, PTL

(* Whatever fails, the controller always knows when a session is open, so  *)
(* that pause, skip and the next start can stop it; a handler that finds   *)
(* none finds the device free.                                             *)
THEOREM SessionsStayKnown == ASSUME ~Earcons PROVE Spec => []SessionIsKnown
<1>1. Init => Known
  BY DEF Init, Known, Reaches, SessionOver
<1>2. KeptInv /\ Known /\ [Next]_vars => Known'
  BY KnownNext
<1>3. Known => SessionIsKnown
  BY DEF Known, Reaches, SessionIsKnown
<1> QED BY <1>1, <1>2, <1>3, AlwaysKept, PTL DEF Spec

-----------------------------------------------------------------------------
(* What has ended stays as it ended. This needs neither types nor a        *)
(* hypothesis: each method looks at a row after its last await and writes  *)
(* it only if it is not settled, so that every step respects the outcomes  *)
(* of the rows (Respects) and keeps the shape of the controller (Final).   *)
Rowed(d) ==
  /\ DOMAIN d = {"state", "order", "child", "audio", "jobs", "held"}
  /\ DOMAIN d.state = Utts

Respects(d, e) ==
  /\ Rowed(e)
  /\ \A u \in Utts : d.state[u] \in Terminal => e.state[u] = d.state[u]

Listed(q)   == \E X : q \in Seq(X)
Proper(t)   == Shaped(t) /\ Rowed(t.db) /\ Listed(t.stack)
Final(t, r) == Shaped(r) /\ Respects(t.db, r.db) /\ Listed(r.stack)

LEMMA RespectsItself == ASSUME NEW d, Rowed(d) PROVE Respects(d, d)
BY DEF Respects

LEMMA RespectsTwice ==
  ASSUME NEW d, NEW e, NEW f, Respects(d, e), Respects(e, f)
  PROVE  Respects(d, f)
BY DEF Respects

LEMMA FinalItself == ASSUME NEW t, Proper(t) PROVE Final(t, t)
BY RespectsItself DEF Final, Proper

LEMMA FinalTwice ==
  ASSUME NEW t, NEW q, NEW r, Final(t, q), Final(q, r)
  PROVE  Final(t, r)
BY RespectsTwice DEF Final

LEMMA FinalProper == ASSUME NEW t, NEW r, Final(t, r) PROVE Proper(r)
BY DEF Final, Respects, Proper

(* The transactions, each under the guard its callers give it.             *)
LEMMA TransitionRespects ==
  ASSUME NEW d, NEW u, NEW to, Rowed(d), u \in Utts => d.state[u] \notin Terminal
  PROVE  Respects(d, Transition(d, u, to))
BY DEF Respects, Rowed, Transition

LEMMA SegmentRespects ==
  ASSUME NEW d, NEW p, NEW to, Rowed(d)
  PROVE  /\ Respects(d, TransitionSegment(d, p, to))
         /\ TransitionSegment(d, p, to).state = d.state
BY DEF Respects, Rowed, TransitionSegment

LEMMA HoldingRespects ==
  ASSUME NEW d, NEW b, Rowed(d)
  PROVE  Respects(d, [d EXCEPT !.held = b]) /\ [d EXCEPT !.held = b].state = d.state
BY DEF Respects, Rowed

LEMMA SkipRespects ==
  ASSUME NEW d, NEW u, NEW w, Rowed(d), In(d, u, {"Playing", "Paused"})
  PROVE  Respects(d, SkipUtterance(d, u, w))
<1> DEFINE e == IF w \in Parts /\ d.child[w] \in {"Playing", "Paused"}
                  THEN TransitionSegment(d, w, "Skipped") ELSE d
<1>1. Respects(d, e) /\ e.state = d.state
  BY SegmentRespects, RespectsItself
<1>2. SkipUtterance(d, u, w) = Transition(e, u, "Skipped")
  BY DEF SkipUtterance
<1> HIDE DEF e
<1>3. Rowed(e) /\ d.state[u] \notin Terminal
  BY <1>1 DEF Respects, In, Terminal
<1> QED BY <1>1, <1>2, <1>3, TransitionRespects, RespectsTwice

LEMMA SuspendRespects ==
  ASSUME NEW d, NEW w, Rowed(d)
  PROVE  Respects(d, SuspendPlayback(d, w))
<1>1. CASE In(d, w[1], {"Playing", "Paused"})
  BY <1>1 DEF SuspendPlayback, Respects, Rowed, In, Terminal
<1>2. CASE ~In(d, w[1], {"Playing", "Paused"})
  BY <1>2, RespectsItself DEF SuspendPlayback
<1> QED BY <1>1, <1>2

LEMMA ResetRespects ==
  ASSUME NEW d, NEW u, NEW i, Rowed(d)
  PROVE  Respects(d, ResetSegmentsFrom(d, u, i))
BY DEF ResetSegmentsFrom, Respects, Rowed

LEMMA ChildrenRespect ==
  ASSUME NEW d, NEW c, NEW a, NEW j, Rowed(d)
  PROVE  /\ Respects(d, [d EXCEPT !.child = c]) /\ [d EXCEPT !.child = c].state = d.state
         /\ Respects(d, [d EXCEPT !.audio = a]) /\ [d EXCEPT !.audio = a].state = d.state
         /\ Respects(d, [d EXCEPT !.jobs = j]) /\ [d EXCEPT !.jobs = j].state = d.state
         /\ Respects(d, [d EXCEPT !.order = j])
BY DEF Respects, Rowed

LEMMA SubmitRespects ==
  ASSUME NEW d, NEW u, NEW k, Rowed(d), d.state[u] = Absent
  PROVE  Respects(d, SubmitRow(d, u, k))
BY DEF SubmitRow, Respects, Rowed, Absent, Terminal

LEMMA ClaimRespects ==
  ASSUME NEW d, NEW w, Rowed(d)
  PROVE  Respects(d, Claim(d, w))
<1> DEFINE u == w[1]
           e == IF w[2] = Whole THEN d ELSE TransitionSegment(d, w, "Synthesizing")
<1>1. Respects(d, e) /\ e.state = d.state
  BY SegmentRespects, RespectsItself
<1>2. Claim(d, w) = IF d.state[u] = "Queued" THEN Transition(e, u, "Synthesizing") ELSE e
  BY DEF Claim
<1> HIDE DEF e, u
<1>3. Rowed(e)
  BY <1>1 DEF Respects
<1>4. CASE d.state[u] = "Queued"
  <2>1. Respects(e, Transition(e, u, "Synthesizing"))
    BY <1>1, <1>3, <1>4, TransitionRespects DEF Terminal
  <2> QED BY <1>1, <1>2, <1>4, <2>1, RespectsTwice
<1> QED BY <1>1, <1>2, <1>4

LEMMA StreamingRespects ==
  ASSUME NEW d, NEW w, Rowed(d)
  PROVE  Respects(d, StartStreaming(d, w))
<1> DEFINE u == w[1]
           e == [d EXCEPT !.jobs = @ \cup {w}]
           f == IF w[2] = Whole THEN e ELSE TransitionSegment(e, w, "Ready")
<1>1. Respects(d, e) /\ e.state = d.state
  BY ChildrenRespect
<1>2. StartStreaming(d, w) \in {d, f} \/ (Active(d, w) /\ StartStreaming(d, w) = Transition(f, u, "Ready"))
  BY DEF StartStreaming
<1> HIDE DEF e
<1>3. Respects(e, f) /\ f.state = e.state
  BY <1>1, SegmentRespects, RespectsItself DEF Respects
<1> HIDE DEF f
<1>4. Respects(d, f) /\ f.state = d.state /\ Rowed(f)
  BY <1>1, <1>3, RespectsTwice DEF Respects
<1>5. CASE Active(d, w)
  <2>1. d.state[u] \notin Terminal
    BY <1>5 DEF Active, IsLive, Live
  <2>2. Respects(f, Transition(f, u, "Ready"))
    BY <1>4, <2>1, TransitionRespects
  <2> QED BY <1>2, <1>4, <2>2, RespectsItself, RespectsTwice
<1>6. CASE ~Active(d, w)
  BY <1>2, <1>4, <1>6, RespectsItself
<1> QED BY <1>5, <1>6

LEMMA DiscardRespects ==
  ASSUME NEW d, NEW w, Rowed(d)
  PROVE  Respects(d, DiscardJob(d, w))
BY ChildrenRespect DEF DiscardJob

LEMMA PublishRespects ==
  ASSUME NEW d, NEW w, Rowed(d), Active(d, w)
  PROVE  LET c == PublishCommits(d, w)
         IN  \/ \E e : c = <<e>> /\ Respects(d, e)
             \/ \E e, f : c = <<e, f>> /\ Respects(d, f)
<1> DEFINE u == w[1]
           e == [d EXCEPT !.audio = @ \cup {w}]
           f == TransitionSegment(e, w, "Ready")
           c == PublishCommits(d, w)
<1>1. Respects(d, e) /\ e.state = d.state
  BY ChildrenRespect
<1>2. \/ c = <<DiscardJob(e, w)>>
      \/ c = <<Transition(e, u, "Ready")>>
      \/ c = <<f>>
      \/ c = <<f, Transition(f, u, "Ready")>>
  BY DEF PublishCommits
<1> HIDE DEF e, c
<1>3. Respects(e, f) /\ f.state = e.state
  BY <1>1, SegmentRespects DEF Respects
<1> HIDE DEF f
<1>4. Respects(d, f) /\ f.state = d.state /\ Rowed(f) /\ Rowed(e)
  BY <1>1, <1>3, RespectsTwice DEF Respects
<1>5. d.state[u] \notin Terminal
  BY DEF Active, IsLive, Live
<1>6. /\ Respects(e, DiscardJob(e, w)) /\ Respects(e, Transition(e, u, "Ready"))
      /\ Respects(f, Transition(f, u, "Ready"))
  BY <1>1, <1>4, <1>5, DiscardRespects, TransitionRespects
<1>7. /\ Respects(d, DiscardJob(e, w)) /\ Respects(d, Transition(e, u, "Ready"))
      /\ Respects(d, Transition(f, u, "Ready"))
  BY <1>1, <1>4, <1>6, RespectsTwice
<1> QED BY <1>2, <1>4, <1>7 DEF c

LEMMA FailRespects ==
  ASSUME NEW d, NEW w, Rowed(d), Active(d, w)
  PROVE  LET c == FailCommits(d, w)
         IN  \/ \E e : c = <<e>> /\ Respects(d, e)
             \/ \E e, f : c = <<e, f>> /\ Respects(d, f)
<1> DEFINE u == w[1]
           e == FailedChild(d, w)
           c == FailCommits(d, w)
<1>1. Respects(d, e) /\ e.state = d.state
  <2>1. PICK x, k : /\ x = d \/ x = TransitionSegment(d, w, "Failed")
                    /\ e = [x EXCEPT !.child = k]
    BY DEF FailedChild
  <2>2. Respects(d, x) /\ x.state = d.state /\ Rowed(x)
    BY <2>1, SegmentRespects, RespectsItself DEF Respects
  <2> HIDE DEF e
  <2>3. Respects(x, e) /\ e.state = x.state
    BY <2>1, <2>2, ChildrenRespect
  <2> QED BY <2>2, <2>3, RespectsTwice
<1>2. \/ c = <<Transition(d, u, "Failed")>>
      \/ c = <<e>>
      \/ c = <<e, Transition(e, u, "Failed")>>
  BY DEF FailCommits
<1> HIDE DEF e, c
<1>3. Rowed(e) /\ d.state[u] \notin Terminal
  BY <1>1 DEF Respects, Active, IsLive, Live
<1>4. Respects(d, Transition(d, u, "Failed")) /\ Respects(e, Transition(e, u, "Failed"))
  BY <1>1, <1>3, TransitionRespects
<1>5. Respects(d, Transition(e, u, "Failed"))
  BY <1>1, <1>4, RespectsTwice
<1> QED BY <1>1, <1>2, <1>4, <1>5 DEF c

LEMMA CommitsRespect ==
  ASSUME NEW d, NEW w, Rowed(d)
  PROVE  /\ Respects(d, LastOf(d, SuccessCommits(d, w)))
         /\ Respects(d, LastOf(d, FailureCommits(d, w)))
<1>1. ASSUME NEW c, \/ c = <<>>
                    \/ \E e : c = <<e>> /\ Respects(d, e)
                    \/ \E e, f : c = <<e, f>> /\ Respects(d, f)
      PROVE  Respects(d, LastOf(d, ThenDiscard(d, c, w)))
  <2> DEFINE e == LastOf(d, c)
  <2>1. Respects(d, e)
    <3>1. CASE c = <<>>
      BY <3>1, RespectsItself DEF LastOf
    <3>2. CASE \E f : c = <<f>> /\ Respects(d, f)
      BY <3>2 DEF LastOf
    <3>3. CASE \E f, g : c = <<f, g>> /\ Respects(d, g)
      BY <3>3 DEF LastOf
    <3> QED BY <1>1, <3>1, <3>2, <3>3
  <2>2. LastOf(d, ThenDiscard(d, c, w)) = IF w \in e.jobs THEN DiscardJob(e, w) ELSE e
    BY <1>1, LastThenDiscarded
  <2> HIDE DEF e
  <2>3. Respects(d, DiscardJob(e, w))
    BY <2>1, DiscardRespects, RespectsTwice DEF Respects
  <2> QED BY <2>1, <2>2, <2>3
<1>2. PICK c : /\ SuccessCommits(d, w) = ThenDiscard(d, c, w)
               /\ c = <<>> \/ (Active(d, w) /\ c = PublishCommits(d, w))
  BY DEF SuccessCommits
<1>3. PICK k : /\ FailureCommits(d, w) = ThenDiscard(d, k, w)
               /\ k = <<>> \/ (Active(d, w) /\ k = FailCommits(d, w))
  BY DEF FailureCommits
<1> QED BY <1>1, <1>2, <1>3, PublishRespects, FailRespects

LEMMA ClearRespects ==
  ASSUME NEW d, NEW slots, NEW states, NEW e, NEW rows, Rowed(d),
         \A w \in slots : d.state[w[1]] = "Paused",
         e = SkipAll(d, slots),
         states \cap Terminal = {}, \A u \in rows : In(e, u, states)
  PROVE  Respects(d, CancelAll(e, rows))
<1> DEFINE f == CancelAll(e, rows)
<1>1. Respects(d, e)
  BY DEF SkipAll, Respects, Rowed, Terminal
<1>2. Respects(e, f)
  BY <1>1 DEF CancelAll, Respects, Rowed, In
<1> QED BY <1>1, <1>2, RespectsTwice

LEMMA RecoveredRespects ==
  ASSUME NEW d, Rowed(d)
  PROVE  Respects(d, Recovered(d))
<1> DEFINE after == [u \in Utts |-> ParentRecovered(d, u)]
           e == Recovered(d)
<1>1. ASSUME NEW u \in Utts, d.state[u] \in Terminal
      PROVE  after[u] = d.state[u]
  BY <1>1 DEF ParentRecovered, ParentRested, Rested, IsLive, Live, Interrupted, Terminal
<1>2. e.state = after /\ Rowed(e)
  BY DEF Recovered, Rowed
<1> HIDE DEF e, after
<1> QED BY <1>1, <1>2 DEF Respects, e

-----------------------------------------------------------------------------
(* What the methods leave of the rows.                                     *)
LEMMA ListedSeq ==
  /\ Listed(<<>>)
  /\ \A q, w : Listed(q) => Listed(Append(q, w))
  /\ \A q : Listed(q) => /\ Len(q) \in Nat /\ DOMAIN q = 1 .. Len(q)
                         /\ \A m \in DOMAIN q : /\ Listed(SubSeq(q, 1, m - 1))
                                                /\ Listed(RemoveAt(q, m))
<1>1. <<>> \in Seq({})
  OBVIOUS
<1>2. ASSUME NEW q, NEW w, Listed(q) PROVE Listed(Append(q, w))
  <2>1. PICK X : q \in Seq(X)
    BY <1>2 DEF Listed
  <2> DEFINE Y == X \cup {w}
  <2>2. q \in Seq(Y)
    BY <2>1
  <2>3. w \in Y
    OBVIOUS
  <2> HIDE DEF Y
  <2>4. Append(q, w) \in Seq(Y)
    BY <2>2, <2>3
  <2> QED BY <2>4 DEF Listed
<1>3. ASSUME NEW q, Listed(q), NEW m \in DOMAIN q
      PROVE  Listed(SubSeq(q, 1, m - 1)) /\ Listed(RemoveAt(q, m))
  <2>1. PICK X : q \in Seq(X)
    BY <1>3 DEF Listed
  <2>2. RemoveAt(q, m) \in Seq(X)
    BY <1>3, <2>1, RemovedAt
  <2>3. SubSeq(q, 1, m - 1) \in Seq(X)
    BY <1>3, <2>1
  <2> QED BY <2>2, <2>3 DEF Listed
<1>4. ASSUME NEW q, Listed(q) PROVE Len(q) \in Nat /\ DOMAIN q = 1 .. Len(q)
  BY <1>4 DEF Listed
<1> QED BY <1>1, <1>2, <1>3, <1>4 DEF Listed

LEMMA SameOutcomes ==
  ASSUME NEW t, NEW d, NEW c, NEW i, NEW q, Proper(t), Respects(t.db, d), Listed(q)
  PROVE  /\ Final(t, [t EXCEPT !.db = d]) /\ [t EXCEPT !.db = d].db = d
         /\ Final(t, [t EXCEPT !.idx = i])
         /\ Final(t, [t EXCEPT !.db = d, !.cur = c])
         /\ Final(t, [t EXCEPT !.db = d, !.idx = i])
         /\ Final(t, [t EXCEPT !.db = d, !.cur = c, !.idx = i])
         /\ Final(t, [t EXCEPT !.db = d, !.stack = q])
         /\ Final(t, [t EXCEPT !.stack = q]) /\ [t EXCEPT !.stack = q].db = t.db
BY RespectsItself DEF Final, Proper, Shaped

LEMMA StartFinal == ASSUME NEW t, NEW w, Proper(t) PROVE Final(t, Start(t, w))
<1> DEFINE e == [t EXCEPT !.cues = Earcons /\ w # Outro]
           v == [mode |-> "sounding", unit |-> w]
           q == [e EXCEPT !.device = v, !.active = TRUE, !.watch = TRUE]
           r == [e EXCEPT !.raised = TRUE]
<1>1. Shaped(e) /\ e.db = t.db /\ e.stack = t.stack
  BY DEF Shaped, Proper
<1>2. Start(t, w) = q \/ Start(t, w) = r
  BY DEF Start
<1> HIDE DEF e, v
<1>3. /\ Shaped(q) /\ q.db = t.db /\ q.stack = t.stack
      /\ Shaped(r) /\ r.db = t.db /\ r.stack = t.stack
  BY <1>1 DEF Shaped
<1> HIDE DEF q, r
<1>4. Respects(t.db, t.db) /\ Listed(t.stack)
  BY RespectsItself DEF Proper
<1> QED BY <1>2, <1>3, <1>4 DEF Final

LEMMA WholeFinal ==
  ASSUME NEW t, NEW u, Proper(t), u \in Utts => t.db.state[u] \notin Terminal
  PROVE  Final(t, BeginWhole(t, u))
<1> DEFINE d == Transition(t.db, u, "Playing")
           q == [t EXCEPT !.db = d, !.cur = u]
<1>0. Respects(t.db, d)
  BY TransitionRespects DEF Proper
<1> HIDE DEF d
<1>1. Final(t, q)
  BY <1>0, SameOutcomes DEF Proper
<1>2. BeginWhole(t, u) = Start(q, <<u, Whole>>)
  BY DEF BeginWhole, d
<1> HIDE DEF q
<1>3. Final(q, Start(q, <<u, Whole>>))
  BY <1>1, StartFinal, FinalProper
<1> QED BY <1>1, <1>2, <1>3, FinalTwice

LEMMA ChunkFinal == ASSUME NEW t, NEW p, Proper(t) PROVE Final(t, BeginChunk(t, p))
<1> DEFINE d == IF In(t.db, p[1], {"Ready", "Paused"}) THEN Transition(t.db, p[1], "Playing") ELSE t.db
           e == TransitionSegment(d, p, "Playing")
           q == [t EXCEPT !.db = e, !.cur = p[1], !.idx = p[2]]
<1>1. Respects(t.db, d)
  BY TransitionRespects, RespectsItself DEF Proper, In, Terminal
<1>2. BeginChunk(t, p) = Start(q, p)
  BY DEF BeginChunk
<1> HIDE DEF d
<1>3. Respects(t.db, e)
  BY <1>1, SegmentRespects, RespectsTwice DEF Respects
<1> HIDE DEF e
<1>4. Final(t, q)
  BY <1>3, SameOutcomes DEF Proper
<1> HIDE DEF q
<1>5. Final(q, Start(q, p))
  BY <1>4, StartFinal, FinalProper
<1> QED BY <1>2, <1>4, <1>5, FinalTwice

LEMMA VacatedFinal == ASSUME NEW t, Proper(t) PROVE Final(t, Vacated(t))
BY RespectsItself DEF Vacated, Final, Proper, Shaped

(* A suspended or a preempting clip is started while it is not settled.    *)
LEMMA SavedFinal ==
  ASSUME NEW t, NEW u, NEW i, Proper(t), u \in Utts => t.db.state[u] \notin Terminal
  PROVE  Final(t, StartSaved(t, u, i))
<1> DEFINE d == IF t.db.state[u] = "Paused" THEN Transition(t.db, u, "Playing") ELSE t.db
<1>1. Respects(t.db, d)
  BY TransitionRespects, RespectsItself DEF Proper
<1>2. Adopt(t, u) = [t EXCEPT !.cur = u, !.idx = Whole, !.db = d]
  BY DEF Adopt
<1> HIDE DEF d
<1>3. Final(t, Adopt(t, u))
  BY <1>1, <1>2 DEF Final, Proper, Shaped
<1>4. Final(t, BeginWhole(t, u)) /\ \A p : Final(t, BeginChunk(t, p))
  BY WholeFinal, ChunkFinal
<1> QED BY <1>3, <1>4 DEF StartSaved

LEMMA DocumentFinal == ASSUME NEW t, NEW u, Proper(t) PROVE Final(t, ResumeDocument(t, u))
<1> DEFINE d == IF t.db.state[u] = "Playing" THEN Transition(t.db, u, "Paused") ELSE t.db
           q == [t EXCEPT !.db = d]
<1>1. \A p : Final(t, BeginChunk(t, p))
  BY ChunkFinal
<1>2. Respects(t.db, d)
  BY TransitionRespects, RespectsItself DEF Proper, Terminal
<1>3. ResumeDocument(t, u) \in {t, q} \/ \E p : ResumeDocument(t, u) = BeginChunk(t, p)
  BY DEF ResumeDocument
<1> HIDE DEF d
<1>4. Final(t, q)
  BY <1>2, SameOutcomes DEF Proper
<1>5. Final(t, t)
  BY FinalItself
<1> HIDE DEF q
<1> QED BY <1>1, <1>3, <1>4, <1>5

LEMMA SuspendedFinal == ASSUME NEW t, NEW w, Proper(t) PROVE Final(t, Suspended(t, w))
<1> DEFINE d == SuspendPlayback(t.db, w)
           k == Append(t.stack, w)
           q == [t EXCEPT !.db = d, !.stack = k]
<1>1. Respects(t.db, d) /\ Listed(k)
  BY SuspendRespects, ListedSeq DEF Proper
<1>2. Suspended(t, w) = Vacated(q) \/ Suspended(t, w) = Vacated([t EXCEPT !.db = t.db, !.stack = t.stack])
  BY DEF Suspended
<1> HIDE DEF d, k
<1>3. Final(t, q) /\ Final(t, [t EXCEPT !.db = t.db, !.stack = t.stack])
  BY <1>1, SameOutcomes, RespectsItself DEF Proper
<1> HIDE DEF q
<1> QED BY <1>2, <1>3, VacatedFinal, FinalTwice, FinalProper

LEMMA RestoredFinal == ASSUME NEW t, Proper(t) PROVE Final(t, Restored(t))
<1> DEFINE alive == {k \in DOMAIN t.stack : t.db.state[t.stack[k][1]] = "Paused"}
           top == Max(alive)
           k == SubSeq(t.stack, 1, top - 1)
           q == [t EXCEPT !.stack = k]
           u == t.stack[top][1]
           i == t.stack[top][2]
<1>1. \/ Restored(t) = t
      \/ Restored(t) = [t EXCEPT !.stack = <<>>]
      \/ alive # {} /\ Restored(t) = StartSaved(q, u, i)
  BY DEF Restored
<1>2. Final(t, t) /\ Final(t, [t EXCEPT !.stack = <<>>])
  BY FinalItself, SameOutcomes, ListedSeq, RespectsItself DEF Proper
<1>3. ASSUME alive # {} PROVE Final(t, StartSaved(q, u, i))
  <2>1. Len(t.stack) \in Nat /\ alive \in SUBSET (1 .. Len(t.stack))
    BY ListedSeq DEF Proper
  <2> HIDE DEF alive
  <2>2. top \in alive
    BY <1>3, <2>1, LargestPlace
  <2> HIDE DEF top
  <2>3. top \in DOMAIN t.stack /\ t.db.state[u] = "Paused"
    BY <2>2 DEF alive
  <2>4. Listed(k)
    BY <2>3, ListedSeq DEF Proper
  <2> HIDE DEF k
  <2>5. Final(t, q) /\ q.db = t.db
    BY <2>4, SameOutcomes, RespectsItself DEF Proper
  <2> HIDE DEF q, u, i
  <2>6. Final(q, StartSaved(q, u, i))
    BY <2>3, <2>5, SavedFinal, FinalProper DEF Terminal
  <2> QED BY <2>5, <2>6, FinalTwice
<1> QED BY <1>1, <1>2, <1>3

LEMMA HeadFinal == ASSUME NEW t, Proper(t) PROVE Final(t, HeadBegun(t))
<1>1. \A p : Final(t, BeginChunk(t, p))
  BY ChunkFinal
<1>2. \A u : t.db.state[u] = "Ready" => Final(t, BeginWhole(t, u))
  BY WholeFinal DEF Terminal
<1>3. Final(t, t) /\ \A w : Final(t, Start(t, w))
  BY StartFinal, FinalItself
<1> QED BY <1>1, <1>2, <1>3 DEF HeadBegun

LEMMA PassFinal == ASSUME NEW t, Proper(t) PROVE Final(t, RestOfPass(t))
<1>1. \A p : Final(t, BeginChunk(t, p))
  BY ChunkFinal
<1>2. Final(t, t) /\ Final(t, HeadBegun(t)) /\ Final(t, Vacated(t))
  BY HeadFinal, VacatedFinal, FinalItself
<1> QED BY <1>1, <1>2 DEF RestOfPass

LEMMA TakesOverFinal == ASSUME NEW t, NEW u, Proper(t) PROVE Final(t, TakenOver(t, u))
<1> DEFINE q == IF t.db.state[u] = "Ready" THEN StartSaved(t, u, Whole) ELSE t
           r == IF t.db.held THEN t ELSE Restored(q)
<1>1. Final(t, q) /\ Final(t, t)
  BY SavedFinal, FinalItself DEF Terminal
<1> HIDE DEF q
<1>2. Final(t, r)
  BY <1>1, RestoredFinal, FinalTwice, FinalProper
<1>3. TakenOver(t, u) = RestOfPass(r)
  BY DEF TakenOver, r, q
<1> HIDE DEF r
<1> QED BY <1>2, <1>3, PassFinal, FinalTwice, FinalProper

LEMMA SkipFinal == ASSUME NEW t, NEW w, Proper(t) PROVE Final(t, SkipLands(t, w))
<1> DEFINE d == SkipUtterance(t.db, w[1], w)
           q == [t EXCEPT !.db = d]
<1>1. CASE In(t.db, w[1], {"Playing", "Paused"})
  <2>1. Respects(t.db, d)
    BY <1>1, SkipRespects DEF Proper
  <2>2. SkipLands(t, w) = Vacated(q)
    BY <1>1 DEF SkipLands
  <2> HIDE DEF d
  <2>3. Final(t, q)
    BY <2>1, SameOutcomes DEF Proper
  <2> HIDE DEF q
  <2> QED BY <2>2, <2>3, VacatedFinal, FinalTwice, FinalProper
<1>2. CASE ~In(t.db, w[1], {"Playing", "Paused"})
  BY <1>2, FinalItself DEF SkipLands
<1> QED BY <1>1, <1>2

LEMMA NextFinal == ASSUME NEW t, NEW w, Proper(t) PROVE Final(t, NextLands(t, w))
<1> DEFINE d == TransitionSegment(t.db, w, "Skipped")
           q == [t EXCEPT !.db = d, !.idx = Whole]
<1>1. Respects(t.db, d)
  BY SegmentRespects DEF Proper
<1>2. NextLands(t, w) = ResumeDocument(q, w[1]) \/ NextLands(t, w) = t
  BY DEF NextLands
<1> HIDE DEF d
<1>3. Final(t, q) /\ Final(t, t)
  BY <1>1, SameOutcomes, FinalItself DEF Proper
<1> HIDE DEF q
<1> QED BY <1>2, <1>3, DocumentFinal, FinalTwice, FinalProper

LEMMA RestoreStepFinal ==
  ASSUME NEW t, NEW u, NEW i, Proper(t)
  PROVE  Final(t, RestoreStep(t, u, i))
<1> DEFINE d == IF Has(t.db, <<u, i>>) THEN ResetSegmentsFrom(t.db, u, i) ELSE t.db
           e == [t EXCEPT !.db = d]
           q == [e EXCEPT !.idx = Whole]
           f == IF CanTransition(d.state[u], "Failed") THEN Transition(d, u, "Failed") ELSE d
           r == [e EXCEPT !.db = f]
<1>1. Respects(t.db, d) /\ Rowed(d)
  BY ResetRespects, RespectsItself DEF Proper, Respects
<1>2. e.db = d
  BY DEF Shaped, Proper
<1>3. RestoreStep(t, u, i) = ResumeDocument(q, u) \/ RestoreStep(t, u, i) = Vacated(r)
  BY <1>2 DEF RestoreStep
<1> HIDE DEF d
<1>4. Respects(d, f)
  <2>1. CanTransition(d.state[u], "Failed") => d.state[u] \notin Terminal
    BY DEF CanTransition, Transitions, Terminal, State
  <2> QED BY <1>1, <2>1, TransitionRespects, RespectsItself
<1> HIDE DEF f
<1>5. Final(t, e) /\ Proper(e)
  BY <1>1, SameOutcomes, FinalProper DEF Proper
<1> HIDE DEF e
<1>6. Final(e, q) /\ Final(e, r)
  BY <1>2, <1>4, <1>5, SameOutcomes, RespectsItself DEF Proper
<1> HIDE DEF q, r
<1>7. Final(e, ResumeDocument(q, u)) /\ Final(e, Vacated(r))
  BY <1>6, DocumentFinal, VacatedFinal, FinalTwice, FinalProper
<1> QED BY <1>3, <1>5, <1>7, FinalTwice

LEMMA PreviousFinal == ASSUME NEW t, NEW w, Proper(t) PROVE Final(t, PreviousLands(t, w))
<1> DEFINE u == w[1]
           i == w[2] - 1
           d == IF Has(t.db, <<u, i>>) THEN ResetSegmentsFrom(t.db, u, i) ELSE t.db
           e == [t EXCEPT !.db = d]
           q == [e EXCEPT !.idx = Whole]
<1>1. Respects(t.db, d)
  BY ResetRespects, RespectsItself DEF Proper
<1>2. \/ PreviousLands(t, w) = ResumeDocument(q, u)
      \/ PreviousLands(t, w) = RestoreStep(e, u, w[2])
  BY DEF PreviousLands
<1> HIDE DEF d, u
<1>3. Final(t, e)
  BY <1>1, SameOutcomes DEF Proper
<1> HIDE DEF e
<1>4. Final(e, q)
  BY <1>3, SameOutcomes, RespectsItself, FinalProper DEF Proper
<1> HIDE DEF q
<1>5. Final(e, ResumeDocument(q, u)) /\ Final(e, RestoreStep(e, u, w[2]))
  BY <1>3, <1>4, DocumentFinal, RestoreStepFinal, FinalTwice, FinalProper
<1> QED BY <1>2, <1>3, <1>5, FinalTwice

LEMMA RestartFinal == ASSUME NEW t, NEW w, Proper(t) PROVE Final(t, RestartLands(t, w))
<1> DEFINE u == w[1]
           d == ResetSegmentsFrom(t.db, u, 0)
           e == [t EXCEPT !.db = d, !.idx = Whole]
           f == IF t.db.state[u] = "Paused" THEN Transition(t.db, u, "Playing") ELSE t.db
           q == [t EXCEPT !.db = f]
           g == SuspendPlayback(t.db, <<u, Whole>>)
           h == [t EXCEPT !.db = g]
<1>1. Respects(t.db, d) /\ Respects(t.db, f) /\ Respects(t.db, g)
  BY ResetRespects, SuspendRespects, TransitionRespects, RespectsItself DEF Proper, Terminal
<1>2. \/ RestartLands(t, w) \in {e, t, h}
      \/ RestartLands(t, w) = ResumeDocument(e, u)
      \/ RestartLands(t, w) = RestoreStep(e, u, w[2])
      \/ RestartLands(t, w) = Start(q, <<u, Whole>>)
  BY DEF RestartLands
<1> HIDE DEF d, f, g, u
<1>3. Final(t, e) /\ Final(t, q) /\ Final(t, h) /\ Final(t, t)
  BY <1>1, SameOutcomes, FinalItself DEF Proper
<1> HIDE DEF e, q, h
<1>4. Proper(e) /\ Proper(q)
  BY <1>3, FinalProper
<1>5. Final(e, ResumeDocument(e, u)) /\ Final(e, RestoreStep(e, u, w[2]))
  BY <1>4, DocumentFinal, RestoreStepFinal
<1>6. Final(q, Start(q, <<u, Whole>>))
  BY <1>4, StartFinal
<1> QED BY <1>2, <1>3, <1>5, <1>6, FinalTwice

LEMMA SameFinal ==
  ASSUME NEW t, NEW r, Proper(t), Shaped(r), r.db = t.db, r.stack = t.stack
  PROVE  Final(t, r)
BY RespectsItself DEF Final, Proper

LEMMA FlagsFinal ==
  ASSUME NEW t, Proper(t)
  PROVE  /\ Final(t, Told(t)) /\ Final(t, Unwatched(t)) /\ Final(t, Calm(t))
         /\ Final(t, Deactivated(t)) /\ Final(t, Unclaimed(t))
         /\ \A arm : Final(t, TookFloor(t, arm))
<1>1. ASSUME NEW r, \/ r = Told(t) \/ r = Unwatched(t) \/ r = Calm(t) \/ r = Deactivated(t)
                    \/ r = Unclaimed(t) \/ \E arm : r = TookFloor(t, arm)
      PROVE  Final(t, r)
  <2>1. Shaped(r) /\ r.db = t.db /\ r.stack = t.stack
    BY <1>1 DEF Told, Unwatched, Calm, Deactivated, Unclaimed, TookFloor, Proper, Shaped
  <2> QED BY <2>1, SameFinal
<1> QED BY <1>1

LEMMA HeldFinal == ASSUME NEW t, Proper(t) PROVE Final(t, Held(t))
<1> DEFINE d == [t.db EXCEPT !.held = TRUE]
           e == IF t.active /\ t.idx # Whole THEN TransitionSegment(d, Slot(t), "Paused") ELSE d
           f == IF HoldRaises(t) THEN d ELSE Transition(e, t.cur, "Paused")
           m == IF t.active /\ t.device.mode = "sounding" THEN "paused" ELSE t.device.mode
           q == [t EXCEPT !.db = f, !.device.mode = m]
           r == [t EXCEPT !.db = d]
<1>1. Respects(t.db, d) /\ d.state = t.db.state /\ Rowed(d)
  BY HoldingRespects DEF Proper, Respects
<1>2. \/ CurrentState(t) = "Playing" /\ Held(t) = q
      \/ Held(t) = r
  BY DEF Held
<1> HIDE DEF d
<1>3. Respects(d, e) /\ e.state = d.state /\ Rowed(e)
  BY <1>1, SegmentRespects, RespectsItself DEF Respects
<1> HIDE DEF e
<1>4. ASSUME CurrentState(t) = "Playing" PROVE Respects(t.db, f)
  <2>1. t.db.state[t.cur] \notin Terminal
    BY <1>4 DEF CurrentState, Absent, Terminal
  <2>2. Respects(e, Transition(e, t.cur, "Paused"))
    BY <1>1, <1>3, <2>1, TransitionRespects
  <2> QED BY <1>1, <1>3, <2>2, RespectsTwice
<1> HIDE DEF f, m
<1>5. Final(t, r)
  BY <1>1, SameOutcomes DEF Proper
<1>6. ASSUME Respects(t.db, f) PROVE Final(t, q)
  BY <1>6 DEF Final, Proper, Shaped
<1> QED BY <1>2, <1>4, <1>5, <1>6

LEMMA ContinuedFinal == ASSUME NEW t, Proper(t) PROVE Final(t, Continued(t))
<1> DEFINE u == t.cur
           d == IF t.idx # Whole THEN TransitionSegment(t.db, Slot(t), "Playing") ELSE t.db
           e == IF Misplaced(t) THEN t.db ELSE Transition(d, u, "Playing")
           m == IF t.device.mode = "paused" THEN "sounding" ELSE t.device.mode
           q == [t EXCEPT !.db = e, !.device.mode = m]
           f == Transition(t.db, u, "Playing")
           r == [t EXCEPT !.db = f]
<1>1. CASE CurrentState(t) # "Paused"
  BY <1>1, FinalItself DEF Continued
<1>2. CASE CurrentState(t) = "Paused"
  <2>1. t.db.state[u] = "Paused" /\ t.db.state[u] \notin Terminal
    BY <1>2 DEF CurrentState, Absent, Terminal
  <2>2. \/ Continued(t) \in {t, q, r, BeginWhole(t, u)}
        \/ \E p : Continued(t) = BeginChunk(t, p)
    BY <1>2 DEF Continued
  <2>3. Respects(t.db, d) /\ d.state = t.db.state /\ Rowed(d)
    BY SegmentRespects, RespectsItself DEF Proper, Respects
  <2> HIDE DEF d, u
  <2>4. Respects(t.db, f) /\ Respects(d, Transition(d, u, "Playing"))
    BY <2>1, <2>3, TransitionRespects DEF Proper
  <2>5. Respects(t.db, e)
    BY <2>3, <2>4, RespectsTwice, RespectsItself DEF Proper
  <2> HIDE DEF e, f, m
  <2>6. Final(t, q)
    BY <2>5 DEF Final, Proper, Shaped
  <2>7. Final(t, r)
    BY <2>4, SameOutcomes DEF Proper
  <2>8. Final(t, t) /\ Final(t, BeginWhole(t, u)) /\ \A p : Final(t, BeginChunk(t, p))
    BY <2>1, FinalItself, WholeFinal, ChunkFinal
  <2> HIDE DEF q, r
  <2> QED BY <2>2, <2>6, <2>7, <2>8
<1> QED BY <1>1, <1>2

LEMMA AdoptedFinal == ASSUME NEW t, Proper(t) PROVE Final(t, Adopted(t))
<1> DEFINE u == First(t.db, Paused(t.db))
           places == {k \in DOMAIN t.stack : t.stack[k][1] = u}
           m == CHOOSE k \in places : TRUE
           q == IF places = {} THEN t.stack ELSE RemoveAt(t.stack, m)
           r == [t EXCEPT !.cur = u, !.stack = q]
<1>1. Adopted(t) = r \/ Adopted(t) = t
  BY DEF Adopted
<1>2. Listed(q)
  <2>1. places # {} => m \in DOMAIN t.stack
    OBVIOUS
  <2> HIDE DEF places, m
  <2> QED BY <2>1, ListedSeq DEF Proper
<1> HIDE DEF u, q
<1>3. Final(t, r)
  BY <1>2, RespectsItself DEF Final, Proper, Shaped
<1> QED BY <1>1, <1>3, FinalItself

LEMMA ResumedFinal == ASSUME NEW t, Proper(t) PROVE Final(t, Resumed(t))
<1> DEFINE c == Calm(t)
           d == [c.db EXCEPT !.held = FALSE]
           q == [c EXCEPT !.db = d]
           x == Unclaimed(q)
           a == Adopted(x)
<1>1. Resumed(t) = Continued(a)
  <2>1. Shaped(c)
    BY DEF Calm, Proper, Shaped
  <2>2. [c EXCEPT !.db.held = FALSE] = q
    BY <2>1 DEF Shaped
  <2> QED BY <2>2 DEF Resumed
<1>2. Final(t, c) /\ Proper(c)
  BY FlagsFinal, FinalProper
<1> HIDE DEF c
<1>3. Respects(c.db, d)
  BY <1>2, HoldingRespects DEF Proper
<1> HIDE DEF d
<1>4. Final(c, q) /\ Proper(q)
  BY <1>2, <1>3, SameOutcomes, FinalProper DEF Proper
<1> HIDE DEF q
<1>5. Final(q, x) /\ Proper(x)
  BY <1>4, FlagsFinal, FinalProper
<1> HIDE DEF x
<1>6. Final(x, a) /\ Proper(a)
  BY <1>5, AdoptedFinal, FinalProper
<1> HIDE DEF a
<1>7. Final(a, Continued(a))
  BY <1>6, ContinuedFinal
<1> QED BY <1>1, <1>2, <1>4, <1>5, <1>6, <1>7, FinalTwice

LEMMA RebornFinal == ASSUME NEW t, Proper(t) PROVE Final(t, Reborn(t))
<1> DEFINE d == Recovered(t.db)
           adopt == d.held /\ Paused(d) # {}
           first == First(d, Paused(d))
           others == IF adopt THEN Paused(d) \ {first} ELSE Paused(d)
           at(n) == SavedSlot(d, FromTheEnd(d, others, n))
           k == [n \in 1 .. Cardinality(others) |-> at(n)]
           r == Reborn(t)
<1>1. Shaped(r) /\ r.db = d /\ r.stack = k
  BY DEF Reborn, Shaped
<1>2. Respects(t.db, d)
  BY RecoveredRespects DEF Proper
<1>3. Listed(k)
  <2>1. others \subseteq Utts
    BY DEF Paused
  <2>2. Cardinality(others) \in Nat
    BY <2>1, PlaybackAssumption, FS_Subset, FS_CardinalityType
  <2> DEFINE X == {at(n) : n \in 1 .. Cardinality(others)}
  <2>3. k \in Seq(X)
    <3> HIDE DEF others
    <3> QED BY <2>2
  <2> HIDE DEF X, k
  <2> QED BY <2>3 DEF Listed
<1> HIDE DEF r, d, k
<1> QED BY <1>1, <1>2, <1>3 DEF Final, r

-----------------------------------------------------------------------------
(* The steps.                                                              *)
Serves == Proper(s) /\ (step # Free => step.op \in TransportOps)

LEMMA RowsFinal ==
  ASSUME Serves, NEW d, s' = Rows(d), Respects(s.db, d)
  PROVE  Final(s, s')
BY SameOutcomes DEF Serves, Rows, Proper

LEMMA PoolFinal == ASSUME Serves, Pool PROVE Final(s, s') /\ step' = step
<1>0. Rowed(s.db)
  BY DEF Serves, Proper
<1>1. PICK w \in Units : TakeJob(w) \/ StreamReady(w) \/ Render(w) \/ RenderFails(w)
  BY DEF Pool
<1>2. /\ step' = step
      /\ \/ s' = Rows(Claim(s.db, w))
         \/ s' = Rows(StartStreaming(s.db, w))
         \/ s' = Rows(LastOf(s.db, SuccessCommits(s.db, w)))
         \/ s' = Rows(LastOf(s.db, FailureCommits(s.db, w)))
  BY <1>1 DEF TakeJob, StreamReady, Render, RenderFails, Completes, Becomes
<1>3. /\ Respects(s.db, Claim(s.db, w)) /\ Respects(s.db, StartStreaming(s.db, w))
      /\ Respects(s.db, LastOf(s.db, SuccessCommits(s.db, w)))
      /\ Respects(s.db, LastOf(s.db, FailureCommits(s.db, w)))
  BY <1>0, ClaimRespects, StreamingRespects, CommitsRespect
<1> QED BY <1>2, <1>3, RowsFinal

LEMMA FinishedFinal == ASSUME NEW t, NEW to, Proper(t) PROVE Final(t, Finished(t, to))
<1> DEFINE d == IF t.idx = Whole THEN t.db ELSE TransitionSegment(t.db, Slot(t), to)
           e == Transition(d, t.cur, to)
<1>1. Respects(t.db, d) /\ d.state = t.db.state /\ Rowed(d)
  BY SegmentRespects, RespectsItself DEF Proper, Respects
<1>2. \/ Engaged(t) /\ Finished(t, to) = [t EXCEPT !.db = e]
      \/ Finished(t, to) = [t EXCEPT !.db = d]
      \/ Finished(t, to) = t
  BY DEF Finished
<1> HIDE DEF d
<1>3. ASSUME Engaged(t) PROVE Respects(t.db, e)
  <2>1. t.db.state[t.cur] \notin Terminal
    BY <1>3 DEF Engaged, CurrentState, Absent, Terminal
  <2>2. Respects(d, e)
    BY <1>1, <2>1, TransitionRespects
  <2> QED BY <1>1, <2>2, RespectsTwice
<1> HIDE DEF e
<1>4. Final(t, [t EXCEPT !.db = d]) /\ Final(t, t)
  BY <1>1, SameOutcomes, FinalItself DEF Proper
<1>5. ASSUME Engaged(t) PROVE Final(t, [t EXCEPT !.db = e])
  BY <1>3, <1>5, SameOutcomes DEF Proper
<1> QED BY <1>2, <1>4, <1>5

LEMMA SinkFinal == ASSUME Serves, Sink PROVE Final(s, s') /\ step' = step
<1>0. Proper(s) /\ Shaped(s)
  BY DEF Serves, Proper
<1>1. CASE DeviceEnds
  <2>1. PICK how \in {"ended", "broken"} : Becomes([s EXCEPT !.device.mode = how])
    BY <1>1 DEF DeviceEnds
  <2>2. Shaped(s') /\ s'.db = s.db /\ s'.stack = s.stack /\ step' = step
    BY <1>0, <2>1 DEF Becomes, Shaped
  <2> QED BY <1>0, <2>2, SameFinal
<1>2. CASE DeviceCloses
  <2>1. Shaped(s') /\ s'.db = s.db /\ s'.stack = s.stack /\ step' = step
    BY <1>0, <1>2 DEF DeviceCloses, Becomes, Shaped
  <2> QED BY <1>0, <2>1, SameFinal
<1>3. CASE Watch
  <2> DEFINE to == IF s.device.mode = "ended" THEN "Played" ELSE "Failed"
             e == Finished(s, to)
             f == [e EXCEPT !.active = FALSE, !.watch = FALSE, !.idx = Whole, !.device.mode = "idle"]
             g == [f EXCEPT !.cur = Nobody]
             h == [s EXCEPT !.active = FALSE, !.watch = FALSE, !.device.mode = "idle"]
  <2>1. step' = step /\ (s' = h \/ s' = f \/ s' = g)
    BY <1>3 DEF Watch, Becomes
  <2>2. Final(s, e)
    BY <1>0, FinishedFinal
  <2>3. Shaped(h) /\ h.db = s.db /\ h.stack = s.stack
    BY <1>0 DEF Shaped
  <2> HIDE DEF e, h
  <2>4. Proper(e) /\ Shaped(e)
    BY <2>2, FinalProper DEF Proper
  <2>5. Shaped(f) /\ f.db = e.db /\ f.stack = e.stack
    BY <2>4 DEF Shaped
  <2> HIDE DEF f
  <2>6. Shaped(g) /\ g.db = e.db /\ g.stack = e.stack
    BY <2>5 DEF Shaped
  <2> HIDE DEF g
  <2>7. Final(e, f) /\ Final(e, g) /\ Final(s, h)
    BY <1>0, <2>3, <2>4, <2>5, <2>6, SameFinal
  <2> QED BY <2>1, <2>2, <2>7, FinalTwice
<1> QED BY <1>1, <1>2, <1>3 DEF Sink

(* A handler waits, and goes on once the device is free.                   *)
Waited == step' = step \/ step' = Free \/ step'.op \in TransportOps

LEMMA WaitsFinal ==
  ASSUME Serves, NEW op \in TransportOps, NEW t, NEW n, Final(s, t), Waits(op, t, n)
  PROVE  Final(s, s') /\ Waited
<1>1. Final(t, Unwatched(t)) /\ Final(t, Told(t))
  BY FinalProper, FlagsFinal
<1>2. s' = Unwatched(t) \/ s' = Told(t)
  BY DEF Waits
<1>3. step'.op = op
  BY DEF Waits
<1> QED BY <1>1, <1>2, <1>3, FinalTwice DEF Waited

LEMMA FreedFinal ==
  ASSUME NEW t, Proper(t)
  PROVE  Final(t, Deactivated(Calm(t))) /\ Proper(Deactivated(Calm(t)))
<1> DEFINE c == Calm(t)
<1>1. Final(t, c) /\ Proper(c)
  BY FlagsFinal, FinalProper
<1> HIDE DEF c
<1>2. Final(c, Deactivated(c))
  BY <1>1, FlagsFinal
<1> QED BY <1>1, <1>2, FinalTwice, FinalProper DEF c

LEMMA LandsFinal ==
  ASSUME NEW t, NEW w, NEW u, Proper(t)
  PROVE  /\ Final(t, TakenOver(Suspended(t, w), u)) /\ Final(t, TakenOver(t, u))
         /\ Final(t, SkipLands(t, w)) /\ Final(t, NextLands(t, w))
         /\ Final(t, PreviousLands(t, w)) /\ Final(t, RestartLands(t, w))
<1> DEFINE q == Suspended(t, w)
<1>1. Final(t, q) /\ Proper(q)
  BY SuspendedFinal, FinalProper
<1> HIDE DEF q
<1>2. Final(q, TakenOver(q, u))
  BY <1>1, TakesOverFinal
<1> QED BY <1>1, <1>2, FinalTwice, TakesOverFinal, SkipFinal, NextFinal, PreviousFinal, RestartFinal DEF q

LEMMA PlanFinal == ASSUME Serves, Plan PROVE Final(s, s') /\ Waited
<1>1. step = Free /\ Proper(s)
  BY DEF Plan, Serves
<1>2. CASE s.db.held \/ Takeovers(s) = {}
  <2> DEFINE c == Calm(s)
             q == IF s.db.held THEN c ELSE Restored(c)
             r == RestOfPass(q)
  <2>1. s' = r /\ step' = step
    BY <1>1, <1>2 DEF Plan, Becomes
  <2>2. Final(s, c) /\ Proper(c)
    BY <1>1, FlagsFinal, FinalProper
  <2> HIDE DEF c
  <2>3. Final(c, q) /\ Proper(q)
    BY <2>2, RestoredFinal, FinalItself, FinalProper
  <2> HIDE DEF q
  <2>4. Final(q, r)
    BY <2>3, PassFinal
  <2> HIDE DEF r
  <2> QED BY <2>1, <2>2, <2>3, <2>4, FinalTwice DEF Waited
<1>3. CASE ~(s.db.held \/ Takeovers(s) = {})
  <2> DEFINE u == First(s.db, Takeovers(s))
             lands(t, slot) == TakenOver(IF CurrentLive(t) THEN Suspended(t, slot) ELSE t, u)
  <2>1. Handle("plan", s, u, lands)
    BY <1>3 DEF Plan
  <2> HIDE DEF u
  <2>2. CASE Waits("plan", s, u)
    BY <1>1, <2>2, WaitsFinal, FinalItself DEF TransportOps
  <2>3. CASE Becomes(lands(Deactivated(Calm(s)), Slot(s)))
    <3> DEFINE t == Deactivated(Calm(s))
               w == Slot(s)
    <3>1. /\ s' = TakenOver(Suspended(t, w), u) \/ s' = TakenOver(t, u)
          /\ step' = step
      BY <2>3 DEF Becomes
    <3>2. Final(s, t) /\ Proper(t)
      BY <1>1, FreedFinal
    <3> HIDE DEF t, w
    <3> QED BY <3>1, <3>2, LandsFinal, FinalTwice DEF Waited
  <2> QED BY <2>1, <2>2, <2>3 DEF Handle
<1> QED BY <1>2, <1>3

LEMMA LandFinal == ASSUME Serves, Land PROVE Final(s, s') /\ Waited
<1> DEFINE t == Deactivated(Calm(s))
           w == step.slot
<1>1. step # Free /\ step.op # "shutdown" /\ s' = Landed(t) /\ step' = Free
  BY DEF Land, Released, Serving
<1>2. step.op \in {"plan", "skip", "next", "previous", "restart"}
  BY <1>1 DEF Serves, TransportOps
<1>3. Final(s, t) /\ Proper(t)
  BY FreedFinal DEF Serves
<1> HIDE DEF t
<1>4. Landed(t) \in {TakenOver(Suspended(t, w), step.next), SkipLands(t, w), NextLands(t, w),
                     PreviousLands(t, w), RestartLands(t, w)}
  BY <1>2 DEF Landed
<1> HIDE DEF w
<1> QED BY <1>1, <1>3, <1>4, LandsFinal, FinalTwice DEF Waited

LEMMA LoopFinal == ASSUME Serves, Loop PROVE Final(s, s') /\ Waited
<1>0. Proper(s)
  BY DEF Serves
<1>1. CASE TellsToStop
  <2>1. s' = Told(s) /\ step' = [step EXCEPT !.told = TRUE] /\ step # Free
    BY <1>1 DEF TellsToStop
  <2>2. step'.op = step.op /\ step.op \in TransportOps
    BY <2>1 DEF Serves
  <2> QED BY <1>0, <2>1, <2>2, FlagsFinal DEF Waited
<1>2. ASSUME NEW h, HoldTells(h) \/ HoldLands(h) PROVE Final(s, s') /\ Waited
  <2> DEFINE t == Deactivated(s)
  <2>1. step' = step /\ (s' \in {Told(s), t} \/ \E arm : s' = TookFloor(t, arm))
    BY <1>2 DEF HoldTells, HoldLands
  <2>2. Final(s, Told(s)) /\ Final(s, t) /\ Proper(t)
    BY <1>0, FlagsFinal, FinalProper
  <2> HIDE DEF t
  <2>3. \A arm : Final(s, TookFloor(t, arm))
    BY <2>2, FlagsFinal, FinalTwice
  <2> QED BY <2>1, <2>2, <2>3 DEF Waited
<1> QED BY <1>1, <1>2, PlanFinal, LandFinal DEF Loop

LEMMA StepsFinal ==
  ASSUME Serves, Skip \/ NextSegment \/ PreviousSegment \/ RestartCurrent
  PROVE  Final(s, s') /\ Waited
<1> DEFINE x == Unclaimed(s)
<1>1. step = Free /\ Proper(s)
  BY DEF Skip, NextSegment, PreviousSegment, Navigable, RestartCurrent, Serves
<1>2. PICK t, op, w :
        /\ t \in {s, x} /\ op \in TransportOps
        /\ \/ Becomes(t)
           \/ Waits(op, t, Nobody)
           \/ Becomes(SkipLands(Deactivated(Calm(t)), w))
           \/ Becomes(NextLands(Deactivated(Calm(t)), w))
           \/ Becomes(PreviousLands(Deactivated(Calm(t)), w))
           \/ Becomes(RestartLands(Deactivated(Calm(t)), w))
  <2>1. CASE Skip
    BY <2>1 DEF Skip, Handle, TransportOps
  <2>2. CASE NextSegment
    BY <2>2 DEF NextSegment, Handle, TransportOps
  <2>3. CASE PreviousSegment
    BY <2>3 DEF PreviousSegment, Handle, TransportOps
  <2>4. CASE RestartCurrent
    BY <2>4 DEF RestartCurrent, Handle, TransportOps
  <2> QED BY <2>1, <2>2, <2>3, <2>4
<1>3. Final(s, t) /\ Proper(t)
  BY <1>1, <1>2, FlagsFinal, FinalItself, FinalProper
<1> HIDE DEF x
<1> DEFINE q == Deactivated(Calm(t))
<1>4. Final(s, q) /\ Proper(q)
  BY <1>3, FreedFinal, FinalTwice
<1>5. CASE Becomes(t)
  BY <1>3, <1>5 DEF Becomes, Waited
<1>6. CASE Waits(op, t, Nobody)
  BY <1>2, <1>3, <1>6, WaitsFinal
<1>7. CASE \/ Becomes(SkipLands(q, w)) \/ Becomes(NextLands(q, w))
           \/ Becomes(PreviousLands(q, w)) \/ Becomes(RestartLands(q, w))
  <2> HIDE DEF q
  <2>1. Final(q, s') /\ step' = step
    BY <1>4, <1>7, LandsFinal DEF Becomes
  <2> QED BY <1>4, <2>1, FinalTwice DEF Waited
<1> QED BY <1>2, <1>5, <1>6, <1>7

LEMMA HoldsFinal == ASSUME Serves, Pause \/ Interrupt PROVE Final(s, s') /\ step' = step
<1> DEFINE x == Unclaimed(s)
<1>0. Proper(s)
  BY DEF Serves
<1>1. PICK t, h :
        /\ t \in {s, x} /\ h \in {Held(t), Deactivated(Held(t))}
        /\ step' = step
        /\ \/ s' \in {h, Unwatched(h), Told(h)}
           \/ \E arm : s' = TookFloor(h, arm)
  <2>1. CASE Pause
    <3>1. Hold("pause", x, LAMBDA y : y)
      BY <2>1 DEF Pause
    <3> HIDE DEF x
    <3>2. /\ step' = step
          /\ s' \in {Held(x), Unwatched(Held(x)), Told(Held(x)), Deactivated(Held(x))}
      BY <3>1 DEF Hold, Becomes
    <3> QED BY <3>2
  <2>2. CASE Interrupt
    <3>1. PICK arm \in BOOLEAN : Hold("interrupt", s, LAMBDA y : TookFloor(y, arm))
      BY <2>2 DEF Interrupt
    <3>2. /\ step' = step
          /\ s' \in {Held(s), Unwatched(Held(s)), Told(Held(s)), TookFloor(Held(s), arm),
                     TookFloor(Deactivated(Held(s)), arm)}
      BY <3>1 DEF Hold, Becomes
    <3> QED BY <3>2
  <2> QED BY <2>1, <2>2
<1>2. Final(s, t) /\ Proper(t)
  BY <1>0, <1>1, FlagsFinal, FinalItself, FinalProper
<1> HIDE DEF x
<1>3. Final(t, h) /\ Proper(h)
  <2> DEFINE y == Held(t)
  <2>1. Final(t, y) /\ Proper(y)
    BY <1>2, HeldFinal, FinalProper
  <2> HIDE DEF y
  <2>2. Final(y, Deactivated(y))
    BY <2>1, FlagsFinal
  <2>3. h = y \/ h = Deactivated(y)
    BY <1>1 DEF y
  <2> QED BY <2>1, <2>2, <2>3, FinalTwice, FinalProper
<1>4. Final(h, s')
  BY <1>1, <1>3, FlagsFinal, FinalItself
<1> QED BY <1>1, <1>2, <1>3, <1>4, FinalTwice

LEMMA CommandsFinal == ASSUME Serves, Commands PROVE Final(s, s') /\ Waited
<1>0. Proper(s) /\ Rowed(s.db)
  BY DEF Serves, Proper
<1>1. ASSUME NEW u \in Utts, Submit(u) \/ Cancel(u) PROVE Final(s, s') /\ Waited
  <2>1. CASE Submit(u)
    <3>1. PICK k : s' = Rows(SubmitRow(s.db, u, k)) /\ s.db.state[u] = Absent /\ step' = step
      BY <2>1 DEF Submit, Becomes
    <3>2. Respects(s.db, SubmitRow(s.db, u, k))
      BY <1>0, <3>1, SubmitRespects
    <3> QED BY <3>1, <3>2, RowsFinal DEF Waited
  <2>2. CASE Cancel(u)
    <3>1. /\ s' = Rows(Transition(s.db, u, "Cancelled")) /\ step' = step
          /\ s.db.state[u] \notin Terminal
      BY <2>2 DEF Cancel, Becomes, In, InputStates, Terminal
    <3>2. Respects(s.db, Transition(s.db, u, "Cancelled"))
      BY <1>0, <3>1, TransitionRespects
    <3> QED BY <3>1, <3>2, RowsFinal DEF Waited
  <2> QED BY <1>1, <2>1, <2>2
<1>2. ASSUME NEW states \in {PendingStates, {"Ready"}}, Clear(states) PROVE Final(s, s') /\ Waited
  <2> DEFINE all == {s.stack[k] : k \in DOMAIN s.stack}
             slots == {w \in all : s.db.state[w[1]] = "Paused"}
             e == SkipAll(s.db, slots)
             rows == {u \in Utts : In(e, u, states)}
             d == CancelAll(e, rows)
  <2>1. s' = [s EXCEPT !.db = d, !.stack = <<>>] /\ step' = step
    BY <1>2 DEF Clear, Becomes
  <2>2. states \cap Terminal = {}
    BY DEF PendingStates, Terminal
  <2>3. \A w \in slots : s.db.state[w[1]] = "Paused"
    OBVIOUS
  <2>4. e = SkipAll(s.db, slots) /\ \A u \in rows : In(e, u, states)
    OBVIOUS
  <2> HIDE DEF slots, rows, e
  <2>5. Respects(s.db, d)
    BY <1>0, <2>2, <2>3, <2>4, ClearRespects
  <2> HIDE DEF d
  <2>6. Final(s, [s EXCEPT !.db = d, !.stack = <<>>])
    BY <1>0, <2>5, SameOutcomes, ListedSeq
  <2> QED BY <2>1, <2>6 DEF Waited
<1>3. CASE Reorder
  <2>1. PICK place, base : s' = Rows(Reordered(s.db, place, base)) /\ step' = step
    BY <1>3 DEF Reorder, Becomes
  <2>2. Respects(s.db, Reordered(s.db, place, base))
    BY <1>0, ChildrenRespect DEF Reordered
  <2> QED BY <2>1, <2>2, RowsFinal DEF Waited
<1>4. CASE Arm
  <2>1. s' = [s EXCEPT !.armed = TRUE] /\ step' = step
    BY <1>4 DEF Arm, Becomes
  <2>2. Shaped(s') /\ s'.db = s.db /\ s'.stack = s.stack
    BY <1>0, <2>1 DEF Proper, Shaped
  <2> QED BY <1>0, <2>1, <2>2, SameFinal DEF Waited
<1>5. CASE Resume \/ AutoResume
  <2>1. s' = Resumed(s) /\ step' = step
    BY <1>5 DEF Resume, AutoResume, Becomes
  <2> QED BY <1>0, <2>1, ResumedFinal DEF Waited
<1> QED BY <1>1, <1>2, <1>3, <1>4, <1>5, StepsFinal, HoldsFinal DEF Commands, Waited

LEMMA StopsFinal == ASSUME Serves, Crash \/ Shutdown \/ ShutdownLands PROVE Final(s, s') /\ Waited
<1>0. Proper(s)
  BY DEF Serves
<1>1. ASSUME NEW t, Final(s, t), Begins(t) PROVE Final(s, s') /\ Waited
  <2>1. s' = Reborn(t) /\ step' = Free
    BY <1>1 DEF Begins
  <2>2. Final(t, Reborn(t))
    BY <1>1, FinalProper, RebornFinal
  <2> QED BY <1>1, <2>1, <2>2, FinalTwice DEF Waited
<1>2. CASE Crash
  BY <1>0, <1>1, <1>2, FinalItself DEF Crash
<1>3. CASE Shutdown
  <2> DEFINE x == Unclaimed(s)
             t == IF CurrentLive(s) /\ ~s.db.held THEN Held(x) ELSE s
  <2>1. Waits("shutdown", t, Nobody) \/ Begins(t)
    BY <1>3 DEF Shutdown
  <2>2. Final(s, x) /\ Proper(x)
    BY <1>0, FlagsFinal, FinalProper
  <2> HIDE DEF x
  <2>3. Final(s, t)
    BY <1>0, <2>2, HeldFinal, FinalTwice, FinalItself
  <2> HIDE DEF t
  <2> QED BY <1>1, <2>1, <2>3, WaitsFinal DEF TransportOps
<1>4. CASE ShutdownLands
  <2> DEFINE d == IF s.cur # Nobody THEN SuspendPlayback(s.db, Slot(s)) ELSE s.db
             t == [s EXCEPT !.db = d]
  <2>1. Begins(t)
    BY <1>4 DEF ShutdownLands
  <2>2. Respects(s.db, d)
    BY <1>0, SuspendRespects, RespectsItself DEF Proper
  <2> HIDE DEF d
  <2>3. Final(s, t)
    BY <1>0, <2>2, SameOutcomes DEF Proper
  <2> QED BY <1>1, <2>1, <2>3
<1> QED BY <1>2, <1>3, <1>4

LEMMA AllFinal == ASSUME Serves, [Next]_vars PROVE Final(s, s') /\ Serves'
<1>1. Final(s, s') /\ Waited
  <2>1. CASE UNCHANGED vars
    BY <2>1, FinalItself DEF Serves, vars, Waited
  <2>2. CASE Next
    BY <2>2, PoolFinal, SinkFinal, LoopFinal, CommandsFinal, StopsFinal DEF Next, Waited
  <2> QED BY <2>1, <2>2
<1>2. Proper(s')
  BY <1>1, FinalProper
<1> QED BY <1>1, <1>2 DEF Serves, Waited, Proper, Shaped, Rowed, Listed

(* What an utterance ended as it stays, whatever fails, closing cue or     *)
(* not, and whatever a handler that waited had decided: nothing said is    *)
(* said again, nothing skipped or cancelled comes back.                    *)
THEOREM OutcomesStayFinal == Spec => OutcomesAreFinal
<1>1. Init => Serves
  BY ListedSeq DEF Init, Serves, Proper, Shaped, Rowed, EmptyDatabase
<1>2. Serves /\ [Next]_vars => Serves'
  BY AllFinal
<1>3. Serves /\ [Next]_vars =>
        [\A u \in Utts : s.db.state[u] \in Terminal => s'.db.state[u] = s.db.state[u]]_vars
  BY AllFinal DEF Final, Respects
<1> QED BY <1>1, <1>2, <1>3, PTL DEF Spec, OutcomesAreFinal
=============================================================================
