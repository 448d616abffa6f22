---------------------------- MODULE PlaybackProofs ----------------------------
(***************************************************************************)
(* Safety of the playback controller for any set of utterances, any number *)
(* of chunks, renders and restarts, and a device that may fail.            *)
(*                                                                         *)
(* A handler is the composition of the controller's methods, so the proof  *)
(* follows the methods: Ctl says what holds of the controller whenever a   *)
(* handler has run to its end or to an await, Quiet what holds of it while *)
(* a handler has the device to itself and c is about to be current, and    *)
(* each method has a lemma that takes one to the other.                    *)
(***************************************************************************)
EXTENDS Playback, StoreProofs, WellFoundedInduction, SequenceTheorems

(* The hypothesis of the theorems: the closing cue is off, and what can    *)
(* fail is a clip rendered whole to a file. TLC refutes most of the        *)
(* properties below without it: a parent that fails under its own audio    *)
(* takes HeldIsSilent, UnheldIsHeard, RowsFollowDevice, SettledMeansClosed *)
(* and, with enough chunks, DeviceIsOwned with it, and the cue, which      *)
(* starts on a device that was read as free before an await, HeldIsSilent, *)
(* DeviceIsOwned and SettledMeansClosed. PlaybackFailingProofs has what    *)
(* holds as long as the cue alone is off.                                  *)
Undisturbed == ~Earcons /\ Fallible \cap (Composite \cup Streamed) = {}

Heard == {"Playing", "Paused"}

Controller ==
  [db : Database, cur : Utts \cup {Nobody}, idx : Nat \cup {Whole},
   active : BOOLEAN, watch : BOOLEAN,
   device : [mode : Modes, unit : Units \cup {Outro}],
   stack : Seq(Slots), mic : BOOLEAN, armed : BOOLEAN, cues : BOOLEAN, raised : BOOLEAN]

Placed(t) == Slot(t) \in Slots \cup {<<Nobody, Whole>>}

(* Only c plays; what is suspended is paused, is not c, and is suspended   *)
(* once; and nothing else is paused.                                       *)
Single(d, c) == \A u \in Utts : d.state[u] = "Playing" => u = c
Nested(d, k, c) ==
  /\ \A i \in DOMAIN k : k[i][1] \in Utts /\ d.state[k[i][1]] = "Paused" /\ k[i][1] # c
  /\ \A i, j \in DOMAIN k : k[i][1] = k[j][1] => i = j
  /\ \A u \in Utts : d.state[u] = "Paused" => u = c \/ \E i \in DOMAIN k : k[i][1] = u

(* What holds of the rows and the flags, if c is what is current.          *)
Core(t, c) ==
  /\ t \in Controller
  /\ DbInv(t.db) /\ \A w \in t.db.jobs : w[1] \in Streamed
  /\ Single(t.db, c) /\ Nested(t.db, t.stack, c)
  /\ t.mic \/ t.armed => t.db.held
  /\ ~t.cues /\ ~t.raised

Quiet(t, c) == Core(t, c) /\ ~t.active /\ ~t.watch /\ SessionOver(t)

(* An open session is the current unit's, and its chunk is in the state    *)
(* its document is in.                                                     *)
Fits(t) ==
  IF t.active
    THEN /\ t.cur # Nobody /\ Engaged(t) /\ Slot(t) \in Units /\ t.device.unit = Slot(t)
         /\ t.cur \in Composite => t.db.child[Slot(t)] = CurrentState(t)
    ELSE SessionOver(t) /\ ~t.watch

(* Without a session a chunk is remembered only by a clip that was adopted *)
(* at startup and has been held since.                                     *)
Saved(t) ==
  ~t.active /\ t.idx # Whole =>
    /\ t.db.held /\ CurrentState(t) = "Paused"
    /\ Slot(t) \in Parts /\ t.db.child[Slot(t)] = "Paused"
    /\ IsNextUnfinished(t.db, Slot(t))

Sounds(t) ==
  /\ t.device.mode = "sounding" => CurrentState(t) = "Playing" /\ ~t.db.held
  /\ t.device.mode = "paused" => CurrentState(t) = "Paused" /\ t.db.held

Ctl(t) == Core(t, t.cur) /\ Placed(t) /\ Fits(t) /\ Saved(t) /\ Sounds(t)

AtRest(t) == (t.active => t.watch) /\ t.device.mode # "stopping"

(* The handler that waits for the device, and nobody else, has told it to  *)
(* stop; it waits with the slot that was, and still is, on the device.     *)
Waiters(t, p) ==
  IF p = Free
    THEN AtRest(t)
    ELSE /\ t.active /\ ~t.watch /\ p.slot = Slot(t)
         /\ t.device.mode = "stopping" => p.told
         /\ p.told => t.device.mode \in {"stopping", "idle"}
         /\ p.op = "plan" => p.next \in Utts
         /\ p.op \in {"next", "previous"} => p.slot \in Parts

IInv ==
  /\ Ctl(s) /\ Waiters(s, step)
  /\ rendering \subseteq Units /\ step \in Steps \cup {Free}
  /\ holding = {} /\ stops \in 0 .. MaxStops

-----------------------------------------------------------------------------
LEMMA NobodyIsNone ==
  /\ Nobody \notin Utts /\ \A i : <<"outro", i>> \notin Units
  /\ Outro \notin Units /\ Nobody # "outro"
BY PlaybackAssumption, UnitShape DEF Nobody, Outro

LEMMA SlotShape ==
  /\ Units \subseteq Slots
  /\ \A w \in Slots : w[1] \in Utts /\ w[2] \in Nat \cup {Whole} /\ w = <<w[1], w[2]>>
  /\ \A u \in Utts : <<u, Whole>> \in Slots
  /\ \A w \in Slots : w[2] # Whole => w \in Parts
<1>1. \A u \in Utts : Chunks[u] \in Nat
  BY StoreAssumption
<1>2. \A p \in Parts : p[1] \in Utts /\ p[2] \in Nat /\ p = <<p[1], p[2]>>
  BY <1>1 DEF Parts, ChildrenOf
<1> QED BY <1>2 DEF Slots, Units, Whole

LEMMA InPlace ==
  ASSUME NEW t, Placed(t)
  PROVE  ~Misplaced(t) /\ ~HoldRaises(t)
BY SlotShape DEF Placed, Misplaced, HoldRaises, Slot

(* The least of some natural numbers.                                      *)
LEMMA SmallestPlace ==
  ASSUME NEW T \in SUBSET Nat, T # {}
  PROVE  \E i \in T : \A j \in T : i <= j
<1>1. \E i \in T : \A j \in T : ~(<<j, i>> \in OpToRel(<, Nat))
  BY NatLessThanWellFounded, WFMin
<1>2. PICK i \in T : \A j \in T : ~(<<j, i>> \in OpToRel(<, Nat))
  BY <1>1
<1>3. \A j \in T : ~(j < i)
  BY <1>2 DEF OpToRel
<1> QED BY <1>3

(* The chunk that comes next is one of the document's own, still open.     *)
LEMMA NextChunkIsOpen ==
  ASSUME NEW d, NEW u \in Utts, HasNext(d, u)
  PROVE  /\ NextChunk(d, u) \in Parts /\ NextChunk(d, u)[1] = u
         /\ d.child[NextChunk(d, u)] \notin Terminal
         /\ IsNextUnfinished(d, NextChunk(d, u))
<1> DEFINE T == {p[2] : p \in Unfinished(d, u)}
<1>1. \A p \in Unfinished(d, u) : p \in Parts /\ p[1] = u /\ p[2] \in Nat /\ d.child[p] \notin Terminal
  BY UnitShape DEF Unfinished
<1>2. T \in SUBSET Nat /\ T # {}
  BY <1>1 DEF HasNext
<1>3. PICK i \in T : \A j \in T : i <= j
  BY <1>2, SmallestPlace
<1>4. PICK p \in Unfinished(d, u) : i = p[2]
  BY <1>3
<1>5. IsNextUnfinished(d, p)
  BY <1>1, <1>3, <1>4 DEF IsNextUnfinished
<1> QED BY <1>1, <1>5 DEF NextChunk

(* The earliest of some rows: the one that fewest come before.             *)
LEMMA FirstIsOne ==
  ASSUME NEW d, d \in Database, NEW rows \in SUBSET Utts, rows # {}
  PROVE  First(d, rows) \in rows
<1> DEFINE before(u) == {v \in rows : d.order[v] < d.order[u]}
           T == {Cardinality(before(u)) : u \in rows}
<1>1. IsFiniteSet(rows)
  BY PlaybackAssumption, FS_Subset
<1>2. \A u \in rows : d.order[u] \in Int
  BY DEF Database
<1>3. \A u \in rows : IsFiniteSet(before(u)) /\ Cardinality(before(u)) \in Nat
  BY <1>1, FS_Subset, FS_CardinalityType
<1>4. T \in SUBSET Nat /\ T # {}
  BY <1>3
<1>5. PICK n \in T : \A m \in T : n <= m
  BY <1>4, SmallestPlace
<1>6. PICK u \in rows : n = Cardinality(before(u))
  BY <1>5
<1>7. ASSUME NEW v \in rows, d.order[v] < d.order[u] PROVE FALSE
  <2>1. before(v) \subseteq before(u) /\ v \in before(u) /\ v \notin before(v)
    BY <1>2, <1>7
  <2>2. Cardinality(before(v)) <= Cardinality(before(u))
        /\ (Cardinality(before(u)) = Cardinality(before(v)) => before(u) = before(v))
    BY <1>3, <2>1, FS_Subset
  <2>3. Cardinality(before(u)) <= Cardinality(before(v))
    BY <1>5, <1>6
  <2> HIDE DEF before
  <2>4. Cardinality(before(u)) = Cardinality(before(v))
    BY <1>3, <2>2, <2>3
  <2> QED BY <2>1, <2>2, <2>4
<1>8. \A v \in rows : d.order[u] <= d.order[v]
  BY <1>2, <1>7
<1> QED BY <1>8 DEF First

-----------------------------------------------------------------------------
(* The pool and the queue: what they write leaves alone every row that is  *)
(* playing or paused, and of its chunks those that were heard or settled.  *)
Apart(d, e) ==
  /\ e.held = d.held
  /\ \A u \in Utts : d.state[u] \in Heard \/ e.state[u] \in Heard => e.state[u] = d.state[u]
  /\ \A p \in Parts : d.state[p[1]] \in Heard /\ d.child[p] \in Heard \cup Terminal =>
                        e.child[p] = d.child[p]

LEMMA ApartSelf == \A d : Apart(d, d)
BY DEF Apart

LEMMA ApartTrans ==
  ASSUME NEW d, NEW e, NEW f, Apart(d, e), Apart(e, f)
  PROVE  Apart(d, f)
BY UnitShape DEF Apart

LEMMA ApartOwned ==
  ASSUME NEW d \in Database, NEW a, NEW j
  PROVE  Apart(d, [d EXCEPT !.audio = a, !.jobs = j])
BY DEF Apart, Database

LEMMA ApartDiscard ==
  ASSUME NEW d \in Database, NEW w
  PROVE  Apart(d, DiscardJob(d, w)) /\ DiscardJob(d, w) \in Database
BY DEF Apart, DiscardJob, Database

LEMMA ApartTransition ==
  ASSUME NEW d \in Database, NEW u \in Utts, NEW to, d.state[u] \notin Heard, to \notin Heard
  PROVE  Apart(d, Transition(d, u, to))
<1>1. /\ Transition(d, u, to).state = [d.state EXCEPT ![u] = to]
      /\ Transition(d, u, to).held = d.held
      /\ Transition(d, u, to).child =
           [p \in Parts |-> IF to \in Terminal /\ p[1] = u /\ d.child[p] \notin Terminal
                              THEN "Cancelled" ELSE d.child[p]]
  BY SMTT(60) DEF Transition, Database
<1> QED BY <1>1 DEF Apart, Database

LEMMA ApartSegment ==
  ASSUME NEW d \in Database, NEW p \in Parts, NEW to, d.child[p] \notin Heard \cup Terminal
  PROVE  Apart(d, TransitionSegment(d, p, to))
<1>1. /\ TransitionSegment(d, p, to).child = [d.child EXCEPT ![p] = to]
      /\ TransitionSegment(d, p, to).held = d.held
      /\ TransitionSegment(d, p, to).state = d.state
  BY DEF TransitionSegment, Database
<1> QED BY <1>1 DEF Apart, Database

LEMMA SubmitApart ==
  ASSUME NEW d, DbInv(d), NEW u \in Utts, d.state[u] = Absent, NEW k \in Int
  PROVE  Apart(d, SubmitRow(d, u, k))
<1>1. /\ SubmitRow(d, u, k).state = [d.state EXCEPT ![u] = "Queued"]
      /\ SubmitRow(d, u, k).child = [p \in Parts |-> IF p[1] = u THEN "Queued" ELSE d.child[p]]
      /\ SubmitRow(d, u, k).held = d.held
  BY SMTT(60) DEF SubmitRow, DbInv, Database
<1> QED BY <1>1, StateFacts DEF Apart, DbInv, Database, Heard

LEMMA ReorderApart ==
  ASSUME NEW d, DbInv(d), NEW place, NEW base
  PROVE  Apart(d, Reordered(d, place, base))
BY DEF Apart, Reordered, DbInv, Database

LEMMA ClaimApart ==
  ASSUME NEW d, DbInv(d), NEW w \in Units, NEW held, Claimable(d, held, w)
  PROVE  Apart(d, Claim(d, w))
<1> DEFINE e == IF w[2] = Whole THEN d ELSE TransitionSegment(d, w, "Synthesizing")
<1>1. w[1] \in Utts /\ d \in Database
  BY UnitShape DEF DbInv
<1>2. Apart(d, e) /\ e \in Database /\ e.state = d.state
  <2>1. CASE w[2] = Whole
    BY <1>1, <2>1, ApartSelf
  <2>2. CASE w[2] # Whole
    <3>1. w \in Parts /\ d.child[w] \notin Heard \cup Terminal
      BY <2>2, UnitShape, StateFacts DEF Claimable, Heard
    <3>2. TransitionSegment(d, w, "Synthesizing") \in Database
          /\ TransitionSegment(d, w, "Synthesizing").state = d.state
      BY <1>1, <3>1 DEF TransitionSegment, Database, State
    <3> QED BY <1>1, <2>2, <3>1, <3>2, ApartSegment
  <2> QED BY <2>1, <2>2
<1>3. Claim(d, w) = IF d.state[w[1]] = "Queued" THEN Transition(e, w[1], "Synthesizing") ELSE e
  BY DEF Claim
<1> HIDE DEF e
<1>4. CASE d.state[w[1]] = "Queued"
  <2>1. Apart(e, Transition(e, w[1], "Synthesizing"))
    BY <1>1, <1>2, <1>4, ApartTransition DEF Heard
  <2> QED BY <1>2, <1>3, <1>4, <2>1, ApartTrans
<1> QED BY <1>2, <1>3, <1>4

LEMMA StreamApart ==
  ASSUME NEW d, DbInv(d), NEW w \in Units
  PROVE  Apart(d, StartStreaming(d, w))
<1> DEFINE j == d.jobs \cup {w}
           e == [d EXCEPT !.audio = d.audio, !.jobs = j]
           f == IF w[2] = Whole THEN e ELSE TransitionSegment(e, w, "Ready")
<1>1. CASE ~Active(d, w) \/ w \in d.jobs
  BY <1>1, ApartSelf DEF StartStreaming
<1>2. CASE Active(d, w) /\ w \notin d.jobs
  <2>1. UnitState(d, w) = "Synthesizing" /\ w[1] \in Utts /\ d \in Database
    BY <1>2, UnitShape DEF Active, DbInv
  <2>2. e \in Database /\ Apart(d, e) /\ e.state = d.state /\ e.child = d.child
    BY <2>1, ApartOwned DEF Database
  <2>3. [d EXCEPT !.jobs = @ \cup {w}] = e
    BY <2>1 DEF Database
  <2>4. StartStreaming(d, w) =
          IF w[2] = Whole \/ (w[2] = 0 /\ d.state[w[1]] = "Synthesizing")
            THEN Transition(f, w[1], "Ready") ELSE f
    BY <1>2, <2>3 DEF StartStreaming
  <2> HIDE DEF e
  <2>5. f \in Database /\ Apart(e, f) /\ f.state = d.state
    <3>1. CASE w[2] = Whole
      BY <2>2, <3>1, ApartSelf
    <3>2. CASE w[2] # Whole
      <4>1. w \in Parts /\ e.child[w] \notin Heard \cup Terminal
        BY <2>1, <2>2, <3>2, UnitShape, StateFacts DEF UnitState, Heard
      <4>2. TransitionSegment(e, w, "Ready") \in Database
            /\ TransitionSegment(e, w, "Ready").state = e.state
        BY <2>2, <4>1 DEF TransitionSegment, Database, State
      <4> QED BY <2>2, <3>2, <4>1, <4>2, ApartSegment
    <3> QED BY <3>1, <3>2
  <2> HIDE DEF f
  <2>6. CASE w[2] = Whole \/ (w[2] = 0 /\ d.state[w[1]] = "Synthesizing")
    <3>1. d.state[w[1]] = "Synthesizing"
      BY <2>1, <2>6 DEF UnitState
    <3>2. Apart(f, Transition(f, w[1], "Ready"))
      BY <2>1, <2>5, <3>1, ApartTransition DEF Heard
    <3> QED BY <2>2, <2>4, <2>5, <2>6, <3>2, ApartTrans
  <2>7. CASE ~(w[2] = Whole \/ (w[2] = 0 /\ d.state[w[1]] = "Synthesizing"))
    BY <2>2, <2>4, <2>5, <2>7, ApartTrans
  <2> QED BY <2>6, <2>7
<1> QED BY <1>1, <1>2

LEMMA DiscardApart ==
  ASSUME NEW d, NEW e \in Database, NEW w, NEW c, Apart(d, e), LastOf(d, c) = e,
         \/ c = <<>>
         \/ \E g : c = <<g>>
         \/ \E g, h : c = <<g, h>>
  PROVE  Apart(d, LastOf(d, ThenDiscard(d, c, w)))
<1> DEFINE x == DiscardJob(e, w)
           t == Append(c, x)
<1>1. CASE w \notin e.jobs
  BY <1>1 DEF ThenDiscard
<1>2. CASE w \in e.jobs
  <2>1. ThenDiscard(d, c, w) = t
    BY <1>2 DEF ThenDiscard
  <2>2. Apart(e, x)
    BY ApartDiscard
  <2>4. Apart(d, x)
    BY <2>2, ApartTrans
  <2> HIDE DEF x
  <2>5. LastOf(d, t) = x
    <3>1. CASE c = <<>>
      BY <3>1 DEF LastOf
    <3>2. CASE \E g : c = <<g>>
      BY <3>2 DEF LastOf
    <3>3. CASE \E g, h : c = <<g, h>>
      BY <3>3 DEF LastOf
    <3> QED BY <3>1, <3>2, <3>3
  <2> QED BY <2>1, <2>4, <2>5
<1> QED BY <1>1, <1>2

LEMMA SuccessApart ==
  ASSUME NEW d, DbInv(d), NEW w \in Units
  PROVE  Apart(d, LastOf(d, SuccessCommits(d, w)))
<1> DEFINE a == d.audio \cup {w}
           e == [d EXCEPT !.audio = a, !.jobs = d.jobs]
           f == TransitionSegment(e, w, "Ready")
           c == IF Active(d, w) THEN PublishCommits(d, w) ELSE <<>>
<1>1. w[1] \in Utts /\ d \in Database
  BY UnitShape DEF DbInv
<1>2. [d EXCEPT !.audio = @ \cup {w}] = e
  BY <1>1 DEF Database
<1>3. e \in Database /\ Apart(d, e) /\ e.state = d.state /\ e.child = d.child /\ e.jobs = d.jobs
  BY <1>1, ApartOwned DEF Database
<1> HIDE DEF e
<1>4. /\ \/ c = <<>>
         \/ \E g : c = <<g>>
         \/ \E g, h : c = <<g, h>>
      /\ LastOf(d, c) \in Database /\ Apart(d, LastOf(d, c))
  <2>1. CASE ~Active(d, w)
    BY <1>1, <2>1, ApartSelf DEF LastOf
  <2>2. CASE Active(d, w) /\ w \in d.jobs
    <3> DEFINE x == DiscardJob(e, w)
    <3>1. c = <<x>>
      BY <1>2, <2>2 DEF PublishCommits
    <3>2. Apart(e, x) /\ x \in Database
      BY <1>3, ApartDiscard
    <3> HIDE DEF x
    <3>4. Apart(d, x)
      BY <1>3, <3>2, ApartTrans
    <3> QED BY <3>1, <3>2, <3>4 DEF LastOf
  <2>3. CASE Active(d, w) /\ w \notin d.jobs /\ w[2] = Whole
    <3> DEFINE x == Transition(e, w[1], "Ready")
    <3>1. c = <<x>>
      BY <1>2, <2>3 DEF PublishCommits
    <3>2. e.state[w[1]] = "Synthesizing"
      BY <1>3, <2>3 DEF Active, UnitState
    <3>3. Apart(e, x)
      BY <1>1, <1>3, <3>2, ApartTransition DEF Heard
    <3>4. x \in Database
      BY <1>1, <1>3, StateFacts, ZenonT(60) DEF Transition, Database
    <3> HIDE DEF x
    <3>5. Apart(d, x)
      BY <1>3, <3>3, ApartTrans
    <3> QED BY <3>1, <3>4, <3>5 DEF LastOf
  <2>4. CASE Active(d, w) /\ w \notin d.jobs /\ w[2] # Whole
    <3>1. w \in Parts /\ e.child[w] = "Synthesizing"
      BY <1>3, <2>4, UnitShape DEF Active, UnitState
    <3>2. Apart(e, f)
      BY <1>3, <3>1, ApartSegment, StateFacts DEF Heard
    <3>3. f \in Database /\ f.state = d.state
      BY <1>3, <3>1 DEF TransitionSegment, Database, State
    <3>4. Apart(d, f)
      BY <1>3, <3>2, ApartTrans
    <3>5. CASE w[2] = 0 /\ d.state[w[1]] = "Synthesizing"
      <4> DEFINE x == Transition(f, w[1], "Ready")
      <4>1. c = <<f, x>>
        BY <1>2, <2>4, <3>5 DEF PublishCommits
      <4> HIDE DEF f
      <4>2. Apart(f, x)
        BY <1>1, <3>3, <3>5, ApartTransition DEF Heard
      <4>3. x \in Database
        BY <1>1, <3>3, StateFacts, ZenonT(60) DEF Transition, Database
      <4> HIDE DEF x
      <4>4. Apart(d, x)
        BY <3>4, <4>2, ApartTrans
      <4> QED BY <4>1, <4>3, <4>4 DEF LastOf
    <3>6. CASE ~(w[2] = 0 /\ d.state[w[1]] = "Synthesizing")
      <4>1. c = <<f>>
        BY <1>2, <2>4, <3>6 DEF PublishCommits
      <4> HIDE DEF f
      <4> QED BY <3>3, <3>4, <4>1 DEF LastOf
    <3> QED BY <3>5, <3>6
  <2> QED BY <2>1, <2>2, <2>3, <2>4
<1> HIDE DEF c
<1>5. Apart(d, LastOf(d, ThenDiscard(d, c, w)))
  BY <1>4, DiscardApart
<1> QED BY <1>5 DEF SuccessCommits, c

(* What may fail is a clip that is still being made.                       *)
LEMMA FailureApart ==
  ASSUME NEW d, DbInv(d), NEW w \in Units \ Parts, w \notin d.jobs
  PROVE  Apart(d, LastOf(d, FailureCommits(d, w)))
<1> DEFINE c == IF Active(d, w) THEN FailCommits(d, w) ELSE <<>>
           x == Transition(d, w[1], "Failed")
<1>1. w[1] \in Utts /\ w[2] = Whole /\ d \in Database
  BY UnitShape DEF DbInv
<1>2. /\ \/ c = <<>>
         \/ \E g : c = <<g>>
         \/ \E g, h : c = <<g, h>>
      /\ LastOf(d, c) \in Database /\ Apart(d, LastOf(d, c))
  <2>1. CASE ~Active(d, w)
    BY <1>1, <2>1, ApartSelf DEF LastOf
  <2>2. CASE Active(d, w)
    <3>1. c = <<x>>
      BY <1>1, <2>2 DEF FailCommits
    <3>2. d.state[w[1]] = "Synthesizing"
      BY <1>1, <2>2 DEF Active, UnitState
    <3>3. Apart(d, x)
      BY <1>1, <3>2, ApartTransition DEF Heard
    <3>4. x \in Database
      BY <1>1, StateFacts, ZenonT(60) DEF Transition, Database
    <3> HIDE DEF x
    <3> QED BY <3>1, <3>3, <3>4 DEF LastOf
  <2> QED BY <2>1, <2>2
<1> HIDE DEF c
<1>3. Apart(d, LastOf(d, ThenDiscard(d, c, w)))
  BY <1>2, DiscardApart
<1> QED BY <1>3 DEF FailureCommits, c

-----------------------------------------------------------------------------
(* The controller's record, field by field.                                *)
LEMMA WithRows ==
  ASSUME NEW t \in Controller, NEW d \in Database
  PROVE  LET e == [t EXCEPT !.db = d]
         IN  /\ e \in Controller /\ e.db = d /\ e.cur = t.cur /\ e.idx = t.idx
             /\ e.active = t.active /\ e.watch = t.watch /\ e.device = t.device
             /\ e.stack = t.stack /\ e.mic = t.mic /\ e.armed = t.armed
             /\ e.cues = t.cues /\ e.raised = t.raised
BY DEF Controller

LEMMA StackTyped ==
  ASSUME NEW t \in Controller
  PROVE  /\ t.db \in Database /\ t.cur \in Utts \cup {Nobody} /\ t.idx \in Nat \cup {Whole}
         /\ t.active \in BOOLEAN /\ t.watch \in BOOLEAN
         /\ t.device \in [mode : Modes, unit : Units \cup {Outro}]
         /\ t.stack \in Seq(Slots)
         /\ t.mic \in BOOLEAN /\ t.armed \in BOOLEAN /\ t.cues \in BOOLEAN /\ t.raised \in BOOLEAN
BY DEF Controller

LEMMA RowsMove ==
  ASSUME NEW t, Ctl(t), NEW e, DbInv(e), Apart(t.db, e),
         \A w \in e.jobs : w \in t.db.jobs \/ w[1] \in Streamed
  PROVE  Ctl([t EXCEPT !.db = e])
<1> DEFINE r == [t EXCEPT !.db = e]
<1>1. t \in Controller /\ e \in Database /\ t.db \in Database
  BY DEF Ctl, Core, DbInv
<1>2. /\ r \in Controller /\ r.db = e /\ r.cur = t.cur /\ r.idx = t.idx
      /\ r.active = t.active /\ r.watch = t.watch /\ r.device = t.device
      /\ r.stack = t.stack /\ r.mic = t.mic /\ r.armed = t.armed
      /\ r.cues = t.cues /\ r.raised = t.raised
  BY <1>1, WithRows
<1> HIDE DEF r
<1>3. e.held = t.db.held
      /\ \A u \in Utts : t.db.state[u] \in Heard \/ e.state[u] \in Heard => e.state[u] = t.db.state[u]
  BY DEF Apart
<1>4. Single(e, t.cur) /\ Nested(e, t.stack, t.cur)
  BY <1>3 DEF Ctl, Core, Single, Nested, Heard
<1>5. Core(r, r.cur)
  BY <1>2, <1>3, <1>4 DEF Ctl, Core
<1>6. Placed(r) /\ Slot(r) = Slot(t) /\ (t.cur = Nobody \/ t.cur \in Utts)
  BY <1>1, <1>2, StackTyped DEF Ctl, Placed, Slot
<1>7. /\ CurrentState(t) \in Heard => CurrentState(r) = CurrentState(t)
      /\ CurrentState(r) \in Heard => CurrentState(r) = CurrentState(t)
  BY <1>2, <1>3, <1>6 DEF CurrentState
<1>8. ASSUME Slot(t) \in Parts, CurrentState(t) \in Heard,
             t.db.child[Slot(t)] \in Heard \cup Terminal
      PROVE  e.child[Slot(t)] = t.db.child[Slot(t)]
  <2>1. t.db.state[t.cur] \in Heard
    BY <1>8, StateFacts DEF CurrentState, Heard
  <2>2. Slot(t)[1] = t.cur
    BY DEF Slot
  <2> QED BY <1>8, <2>1, <2>2 DEF Apart
<1>9. Fits(r)
  <2>1. CASE t.active
    <3>1. /\ t.cur # Nobody /\ Engaged(t) /\ Slot(t) \in Units /\ t.device.unit = Slot(t)
          /\ t.cur \in Composite => t.db.child[Slot(t)] = CurrentState(t)
      BY <2>1 DEF Ctl, Fits
    <3>2. t.cur \in Composite => Slot(t) \in Parts
      BY <3>1, UnitShape DEF Slot
    <3>3. CurrentState(t) \in Heard /\ CurrentState(r) = CurrentState(t)
      BY <1>7, <3>1 DEF Engaged, Heard
    <3> QED BY <1>2, <1>6, <1>8, <2>1, <3>1, <3>2, <3>3 DEF Fits, Engaged
  <2>2. CASE ~t.active
    BY <1>2, <2>2 DEF Ctl, Fits, SessionOver
  <2> QED BY <2>1, <2>2
<1>10. Saved(r)
  <2> SUFFICES ASSUME ~t.active, t.idx # Whole PROVE Saved(r)
    BY <1>2 DEF Saved
  <2>1. /\ t.db.held /\ CurrentState(t) = "Paused"
        /\ Slot(t) \in Parts /\ t.db.child[Slot(t)] = "Paused"
        /\ IsNextUnfinished(t.db, Slot(t))
    BY DEF Ctl, Saved
  <2>2. CurrentState(r) = "Paused" /\ e.child[Slot(t)] = "Paused"
    BY <1>7, <1>8, <2>1 DEF Heard
  <2>3. IsNextUnfinished(e, Slot(t))
    <3> DEFINE p == Slot(t)
    <3>1. p \in Unfinished(e, p[1])
      BY <2>1, <2>2, UnitShape DEF Unfinished, IsNextUnfinished, Terminal
    <3>2. ASSUME NEW q \in Unfinished(e, p[1]) PROVE p[2] <= q[2]
      <4>1. q \in Parts /\ q[1] = p[1] /\ e.child[q] \notin Terminal /\ p[1] = t.cur
        BY <2>1, <3>2, UnitShape DEF Unfinished, Slot
      <4>2. t.db.state[q[1]] \in Heard
        BY <2>1, <4>1, StateFacts DEF CurrentState, Heard
      <4>3. t.db.child[q] \notin Terminal
        BY <4>1, <4>2 DEF Apart
      <4>4. q \in Unfinished(t.db, p[1])
        BY <3>2, <4>3 DEF Unfinished
      <4> QED BY <2>1, <4>4 DEF IsNextUnfinished
    <3> QED BY <3>1, <3>2 DEF IsNextUnfinished
  <2> QED BY <1>2, <1>3, <1>6, <2>1, <2>2, <2>3 DEF Saved
<1>11. Sounds(r)
  <2>1. r.device = t.device /\ r.db.held = t.db.held
    BY <1>2, <1>3
  <2>2. CurrentState(t) \in {"Playing", "Paused"} => CurrentState(r) = CurrentState(t)
    BY <1>7 DEF Heard
  <2> QED BY <2>1, <2>2 DEF Ctl, Sounds
<1> QED BY <1>5, <1>6, <1>9, <1>10, <1>11 DEF Ctl, r

-----------------------------------------------------------------------------
(* Beginning to sound: the sink is free, so nothing raises.                *)
LEMMA Starts ==
  ASSUME Undisturbed, NEW t, Quiet(t, t.cur), NEW w \in Units, Slot(t) = w, ~t.db.held,
         CurrentState(t) = "Playing", w \in Parts => t.db.child[w] = "Playing"
  PROVE  LET r == Start(t, w)
         IN  Ctl(r) /\ r.active /\ r.watch /\ r.db = t.db /\ r.cur = t.cur
             /\ r.device.mode = "sounding"
<1> DEFINE v == [mode |-> "sounding", unit |-> w]
           r == Start(t, w)
<1>1. t \in Controller /\ DbInv(t.db) /\ SessionOver(t) /\ ~Earcons /\ w # Outro
  BY NobodyIsNone DEF Quiet, Core, Undisturbed
<1>2. t.cur = w[1] /\ t.idx = w[2] /\ w[1] \in Utts /\ t.cur # Nobody
  BY UnitShape, NobodyIsNone DEF Slot
<1>3. UnitState(t.db, w) = "Playing"
  BY <1>2, UnitShape DEF UnitState, CurrentState
<1>4. Has(t.db, w)
  BY <1>1, <1>3, StateFacts DEF Has, DbInv, Audible
<1>5. r = [[t EXCEPT !.cues = FALSE] EXCEPT !.device = v, !.active = TRUE, !.watch = TRUE]
  BY <1>1, <1>4 DEF Start
<1>6. v \in [mode : Modes, unit : Units \cup {Outro}] /\ v.mode = "sounding" /\ v.unit = w
  BY DEF Modes
<1> HIDE DEF v
<1>7. /\ r \in Controller /\ r.db = t.db /\ r.cur = t.cur /\ r.idx = t.idx
      /\ r.active = TRUE /\ r.watch = TRUE /\ r.device = v
      /\ r.stack = t.stack /\ r.mic = t.mic /\ r.armed = t.armed
      /\ r.cues = FALSE /\ r.raised = t.raised
  <2> DEFINE g == [t EXCEPT !.cues = FALSE]
             h == [g EXCEPT !.device = v]
             k == [h EXCEPT !.active = TRUE]
  <2>1. /\ g \in Controller /\ g.db = t.db /\ g.cur = t.cur /\ g.idx = t.idx
        /\ g.stack = t.stack /\ g.mic = t.mic /\ g.armed = t.armed
        /\ g.cues = FALSE /\ g.raised = t.raised
    BY <1>1 DEF Controller
  <2>2. r = [k EXCEPT !.watch = TRUE]
    BY <1>5
  <2> HIDE DEF g
  <2>3. /\ h \in Controller /\ h.db = t.db /\ h.cur = t.cur /\ h.idx = t.idx
        /\ h.stack = t.stack /\ h.mic = t.mic /\ h.armed = t.armed
        /\ h.cues = FALSE /\ h.raised = t.raised /\ h.device = v
    BY <1>6, <2>1 DEF Controller
  <2> HIDE DEF h
  <2>4. /\ k \in Controller /\ k.db = t.db /\ k.cur = t.cur /\ k.idx = t.idx
        /\ k.stack = t.stack /\ k.mic = t.mic /\ k.armed = t.armed
        /\ k.cues = FALSE /\ k.raised = t.raised /\ k.device = v /\ k.active = TRUE
    BY <2>3 DEF Controller
  <2> HIDE DEF k
  <2> QED BY <2>2, <2>4 DEF Controller
<1> HIDE DEF r
<1>8. Core(r, r.cur)
  BY <1>7 DEF Quiet, Core
<1>9. CurrentState(r) = "Playing" /\ Slot(r) = w
  BY <1>7 DEF CurrentState, Slot
<1>10. Fits(r)
  BY <1>2, <1>6, <1>7, <1>9, UnitShape DEF Fits, Engaged
<1>11. Placed(r) /\ Saved(r) /\ Sounds(r)
  BY <1>6, <1>7, <1>9, SlotShape DEF Placed, Saved, Sounds
<1> QED BY <1>6, <1>7, <1>8, <1>10, <1>11 DEF Ctl, r

LEMMA PlayingRow ==
  ASSUME NEW d, DbInv(d), NEW u \in Utts, d.state[u] \in {"Ready", "Paused"}
  PROVE  LET e == Transition(d, u, "Playing")
         IN  /\ DbInv(e) /\ e.state = [d.state EXCEPT ![u] = "Playing"] /\ e.child = d.child
             /\ e.jobs = d.jobs /\ e.audio = d.audio /\ e.held = d.held
<1>1. "Playing" \in PlaybackMoves /\ "Playing" \notin Terminal /\ d.state[u] \in PlaybackStates
  BY StateFacts DEF PlaybackMoves
<1>2. Transition(d, u, "Playing").held = d.held
  BY DEF Transition, DbInv, Database
<1> QED BY <1>1, <1>2, ParentMove

LEMMA PlayingChunk ==
  ASSUME NEW d, DbInv(d), NEW p \in Parts, d.child[p] \in {"Ready", "Paused", "Playing"}
  PROVE  LET e == TransitionSegment(d, p, "Playing")
         IN  /\ DbInv(e) /\ e.state = d.state /\ e.child = [d.child EXCEPT ![p] = "Playing"]
             /\ e.jobs = d.jobs /\ e.audio = d.audio /\ e.held = d.held
<1>1. "Playing" \in PlaybackMoves /\ d.child[p] \in PlaybackStates
  BY StateFacts DEF PlaybackMoves
<1>2. /\ TransitionSegment(d, p, "Playing").held = d.held
      /\ TransitionSegment(d, p, "Playing").jobs = d.jobs
      /\ TransitionSegment(d, p, "Playing").audio = d.audio
  BY DEF TransitionSegment, DbInv, Database
<1> QED BY <1>1, <1>2, ChildMove

(* What becomes current plays, and nothing else does.                      *)
LEMMA NowPlaying ==
  ASSUME NEW d \in Database, NEW e, NEW k, NEW u \in Utts, Single(d, u), Nested(d, k, u),
         e.state = [d.state EXCEPT ![u] = "Playing"]
  PROVE  Single(e, u) /\ Nested(e, k, u)
BY DEF Single, Nested, Database

LEMMA WholeBegins ==
  ASSUME Undisturbed, NEW t, NEW u \in Utts \ Composite, Quiet(t, u), t.idx = Whole,
         t.db.state[u] \in {"Ready", "Paused"}, ~t.db.held
  PROVE  LET r == BeginWhole(t, u)
         IN  Ctl(r) /\ r.active /\ r.watch /\ r.cur = u /\ ~r.db.held
             /\ r.device.mode = "sounding"
<1> DEFINE e == Transition(t.db, u, "Playing")
           q == [t EXCEPT !.db = e, !.cur = u]
           w == <<u, Whole>>
<1>1. t \in Controller /\ DbInv(t.db) /\ t.db \in Database
  BY DEF Quiet, Core, DbInv
<1>2. /\ DbInv(e) /\ e.state = [t.db.state EXCEPT ![u] = "Playing"] /\ e.child = t.db.child
      /\ e.jobs = t.db.jobs /\ e.held = t.db.held /\ e \in Database
  BY <1>1, PlayingRow DEF DbInv
<1>3. BeginWhole(t, u) = Start(q, w)
  BY DEF BeginWhole
<1> HIDE DEF e
<1>4. /\ q \in Controller /\ q.db = e /\ q.cur = u /\ q.idx = t.idx
      /\ q.active = t.active /\ q.watch = t.watch /\ q.device = t.device
      /\ q.stack = t.stack /\ q.mic = t.mic /\ q.armed = t.armed
      /\ q.cues = t.cues /\ q.raised = t.raised
  BY <1>1, <1>2 DEF Controller
<1> HIDE DEF q
<1>5. Single(e, u) /\ Nested(e, t.stack, u)
  BY <1>1, <1>2, NowPlaying DEF Quiet, Core
<1>6. Quiet(q, q.cur)
  BY <1>2, <1>4, <1>5 DEF Quiet, Core, SessionOver
<1>7. w \in Units /\ Slot(q) = w /\ w \notin Parts
  BY <1>4, UnitShape DEF Units, Slot
<1>8. CurrentState(q) = "Playing" /\ ~q.db.held
  BY <1>1, <1>2, <1>4, NobodyIsNone DEF CurrentState, Database
<1> HIDE DEF w
<1> QED BY <1>3, <1>4, <1>6, <1>7, <1>8, Starts

LEMMA ChunkBegins ==
  ASSUME Undisturbed, NEW t, NEW p \in Parts, Quiet(t, p[1]), ~t.db.held,
         t.db.child[p] \in {"Ready", "Paused"},
         t.db.state[p[1]] \in {"Ready", "Paused", "Playing"}
  PROVE  LET r == BeginChunk(t, p)
         IN  Ctl(r) /\ r.active /\ r.watch /\ r.cur = p[1] /\ ~r.db.held
             /\ r.device.mode = "sounding"
<1> DEFINE u == p[1]
           d == IF In(t.db, u, {"Ready", "Paused"}) THEN Transition(t.db, u, "Playing") ELSE t.db
           e == TransitionSegment(d, p, "Playing")
           q == [t EXCEPT !.db = e, !.cur = u, !.idx = p[2]]
<1>1. t \in Controller /\ DbInv(t.db) /\ t.db \in Database /\ u \in Utts /\ p[2] \in Nat
  BY UnitShape DEF Quiet, Core, DbInv
<1>2. /\ DbInv(d) /\ d.state = [t.db.state EXCEPT ![u] = "Playing"] /\ d.child = t.db.child
      /\ d.jobs = t.db.jobs /\ d.held = t.db.held
  <2>1. CASE In(t.db, u, {"Ready", "Paused"})
    BY <1>1, <2>1, PlayingRow DEF In
  <2>2. CASE ~In(t.db, u, {"Ready", "Paused"})
    BY <1>1, <2>2 DEF In, Database
  <2> QED BY <2>1, <2>2
<1>3. BeginChunk(t, p) = Start(q, p)
  BY DEF BeginChunk
<1> HIDE DEF d
<1>4. /\ DbInv(e) /\ e.state = [t.db.state EXCEPT ![u] = "Playing"]
      /\ e.child = [t.db.child EXCEPT ![p] = "Playing"]
      /\ e.jobs = t.db.jobs /\ e.held = t.db.held /\ e \in Database
  BY <1>2, PlayingChunk DEF DbInv
<1> HIDE DEF e
<1>5. /\ q \in Controller /\ q.db = e /\ q.cur = u /\ q.idx = p[2]
      /\ q.active = t.active /\ q.watch = t.watch /\ q.device = t.device
      /\ q.stack = t.stack /\ q.mic = t.mic /\ q.armed = t.armed
      /\ q.cues = t.cues /\ q.raised = t.raised
  BY <1>1, <1>4 DEF Controller
<1> HIDE DEF q
<1>6. Single(e, u) /\ Nested(e, t.stack, u)
  BY <1>1, <1>4, NowPlaying DEF Quiet, Core
<1>7. Quiet(q, q.cur)
  BY <1>4, <1>5, <1>6 DEF Quiet, Core, SessionOver
<1>8. p \in Units /\ Slot(q) = p
  <2>1. p = <<p[1], p[2]>>
    BY UnitShape, SlotShape
  <2> QED BY <1>5, <2>1, UnitShape DEF Slot
<1>9. CurrentState(q) = "Playing" /\ ~q.db.held /\ q.db.child[p] = "Playing"
  BY <1>1, <1>4, <1>5, NobodyIsNone DEF CurrentState, Database
<1> QED BY <1>3, <1>5, <1>7, <1>8, <1>9, Starts

(* A handler may end with the device free and no chunk remembered.         *)
LEMMA Settles ==
  ASSUME NEW t, Quiet(t, t.cur), t.idx = Whole
  PROVE  Ctl(t)
<1>1. t \in Controller
  BY DEF Quiet, Core
<1>2. Placed(t)
  BY <1>1, StackTyped, SlotShape DEF Placed, Slot
<1>3. Fits(t) /\ Saved(t) /\ Sounds(t)
  BY DEF Quiet, Fits, Saved, Sounds, SessionOver
<1> QED BY <1>2, <1>3 DEF Ctl, Quiet

LEMMA FreeIsQuiet ==
  ASSUME NEW t, Ctl(t), ~t.active
  PROVE  /\ Quiet(t, t.cur) /\ ~t.watch /\ SessionOver(t)
         /\ t.cur = Nobody => t.idx = Whole
         /\ CurrentState(t) # "Paused" \/ ~t.db.held => t.idx = Whole
BY SlotShape, NobodyIsNone DEF Ctl, Quiet, Fits, Saved, Placed, Slot

LEMMA Adopts ==
  ASSUME NEW t, NEW u \in Utts, Quiet(t, u)
  PROVE  LET r == Adopt(t, u)
         IN  /\ Ctl(r) /\ r.cur = u /\ ~r.active /\ r.db.held = t.db.held
             /\ r.device = t.device
<1> DEFINE e == IF t.db.state[u] = "Paused" THEN Transition(t.db, u, "Playing") ELSE t.db
           r == Adopt(t, u)
<1>1. t \in Controller /\ DbInv(t.db) /\ t.db \in Database
  BY DEF Quiet, Core, DbInv
<1>2. /\ DbInv(e) /\ e.jobs = t.db.jobs /\ e.held = t.db.held /\ e \in Database
      /\ Single(e, u) /\ Nested(e, t.stack, u)
  <2>1. CASE t.db.state[u] = "Paused"
    <3>1. /\ DbInv(e) /\ e.state = [t.db.state EXCEPT ![u] = "Playing"]
          /\ e.jobs = t.db.jobs /\ e.held = t.db.held /\ e \in Database
      BY <1>1, <2>1, PlayingRow DEF DbInv
    <3> HIDE DEF e
    <3>2. Single(e, u) /\ Nested(e, t.stack, u)
      BY <1>1, <3>1, NowPlaying DEF Quiet, Core
    <3> QED BY <3>1, <3>2
  <2>2. CASE t.db.state[u] # "Paused"
    BY <1>1, <2>2 DEF Quiet, Core
  <2> QED BY <2>1, <2>2
<1>3. r = [t EXCEPT !.cur = u, !.idx = Whole, !.db = e]
  BY DEF Adopt
<1> HIDE DEF e
<1>4. /\ r \in Controller /\ r.db = e /\ r.cur = u /\ r.idx = Whole
      /\ r.active = t.active /\ r.watch = t.watch /\ r.device = t.device
      /\ r.stack = t.stack /\ r.mic = t.mic /\ r.armed = t.armed
      /\ r.cues = t.cues /\ r.raised = t.raised
  BY <1>1, <1>2, <1>3 DEF Controller
<1> HIDE DEF r
<1>5. Quiet(r, r.cur)
  BY <1>2, <1>4 DEF Quiet, Core, SessionOver
<1> QED BY <1>2, <1>4, <1>5, Settles DEF Quiet, r

LEMMA SavedStarts ==
  ASSUME Undisturbed, NEW t, NEW u \in Utts, NEW i \in Nat \cup {Whole}, Quiet(t, u), t.idx = Whole,
         i = Whole \/ <<u, i>> \in Parts,
         t.db.state[u] \in {"Ready", "Paused"}, ~t.db.held
  PROVE  LET r == StartSaved(t, u, i)
         IN  Ctl(r) /\ r.cur = u /\ ~r.db.held /\ (r.active => r.watch)
             /\ r.device.mode # "stopping"
<1> DEFINE composite == i # Whole \/ HasNext(t.db, u)
           p == IF i # Whole THEN <<u, i>> ELSE NextChunk(t.db, u)
           r == StartSaved(t, u, i)
<1>1. composite => p \in Parts /\ p[1] = u
  BY NextChunkIsOpen
<1>2. CASE composite /\ t.db.child[p] \in {"Ready", "Paused"}
  <2>1. r = BeginChunk(t, p)
    BY <1>2 DEF StartSaved
  <2> HIDE DEF p
  <2> QED BY <1>1, <1>2, <2>1, ChunkBegins
<1>3. CASE ~composite /\ Has(t.db, <<u, Whole>>)
  <2>1. r = BeginWhole(t, u)
    BY <1>3 DEF StartSaved
  <2>2. <<u, Whole>> \in Units
    BY <1>3 DEF Has, Quiet, Core, DbInv, Database
  <2>3. u \notin Composite
    BY <2>2, UnitShape
  <2> QED BY <2>1, <2>3, WholeBegins
<1>4. CASE /\ ~(composite /\ t.db.child[p] \in {"Ready", "Paused"})
           /\ ~(~composite /\ Has(t.db, <<u, Whole>>))
  <2>1. r = Adopt(t, u)
    BY <1>4 DEF StartSaved
  <2>2. t.device.mode # "stopping"
    BY DEF Quiet, SessionOver
  <2> QED BY <2>1, <2>2, Adopts
<1> QED BY <1>2, <1>3, <1>4

LEMMA Vacates ==
  ASSUME NEW t, NEW c, Quiet(t, c), c = Nobody \/ (c \in Utts /\ t.db.state[c] \notin Heard)
  PROVE  LET r == Vacated(t)
         IN  /\ Ctl(r) /\ r.cur = Nobody /\ ~r.active /\ r.db = t.db /\ r.stack = t.stack
             /\ r.device = t.device /\ Quiet(r, Nobody)
<1> DEFINE r == Vacated(t)
<1>1. t \in Controller /\ Single(t.db, c) /\ Nested(t.db, t.stack, c)
  BY DEF Quiet, Core
<1>2. /\ r \in Controller /\ r.db = t.db /\ r.cur = Nobody /\ r.idx = Whole
      /\ r.active = t.active /\ r.watch = t.watch /\ r.device = t.device
      /\ r.stack = t.stack /\ r.mic = t.mic /\ r.armed = t.armed
      /\ r.cues = t.cues /\ r.raised = t.raised
  BY <1>1 DEF Controller, Vacated
<1> HIDE DEF r
<1>3. Single(t.db, Nobody)
  BY <1>1, NobodyIsNone DEF Single, Heard
<1>4. Nested(t.db, t.stack, Nobody)
  BY <1>1, NobodyIsNone DEF Nested, Heard
<1>5. Quiet(r, r.cur)
  BY <1>2, <1>3, <1>4 DEF Quiet, Core, SessionOver
<1> QED BY <1>2, <1>5, Settles DEF Quiet, r

(* With the device free, a row that is neither playing nor suspended may   *)
(* become current in place of what is current and does not count any more. *)
LEMMA QuietFor ==
  ASSUME NEW t, NEW c, NEW u \in Utts, Quiet(t, c),
         c = Nobody \/ (c \in Utts /\ t.db.state[c] \notin Heard), t.db.state[u] \notin Heard
  PROVE  Quiet(t, u)
<1>1. Single(t.db, c) /\ Nested(t.db, t.stack, c)
  BY DEF Quiet, Core
<1>2. Single(t.db, u)
  BY <1>1, NobodyIsNone DEF Single, Heard
<1>3. Nested(t.db, t.stack, u)
  BY <1>1, NobodyIsNone DEF Nested, Heard
<1> QED BY <1>2, <1>3 DEF Quiet, Core

(* The stack has Len entries, and all of them may come back.               *)
LEMMA TopOfStack ==
  ASSUME NEW t, NEW c, Core(t, c)
  PROVE  LET alive == {k \in DOMAIN t.stack : t.db.state[t.stack[k][1]] = "Paused"}
         IN  /\ Len(t.stack) \in Nat /\ DOMAIN t.stack = 1 .. Len(t.stack)
             /\ alive = DOMAIN t.stack
             /\ alive # {} => Max(alive) = Len(t.stack) /\ Len(t.stack) > 0
<1>1. t.stack \in Seq(Slots)
  BY StackTyped DEF Core
<1>2. {k \in DOMAIN t.stack : t.db.state[t.stack[k][1]] = "Paused"} = DOMAIN t.stack
  BY DEF Core, Nested
<1>3. Len(t.stack) \in Nat /\ DOMAIN t.stack = 1 .. Len(t.stack)
  BY <1>1
<1>4. ASSUME NEW n \in Nat, 1 .. n # {} PROVE Max(1 .. n) = n /\ n > 0
  BY <1>4 DEF Max
<1> QED BY <1>2, <1>3, <1>4

LEMMA Restores ==
  ASSUME Undisturbed, NEW t, Ctl(t), AtRest(t), ~t.db.held
  PROVE  LET r == Restored(t)
         IN  Ctl(r) /\ AtRest(r) /\ ~r.db.held
<1> DEFINE alive == {k \in DOMAIN t.stack : t.db.state[t.stack[k][1]] = "Paused"}
           n == Len(t.stack)
           r == Restored(t)
<1>1. CASE t.cur # Nobody
  BY <1>1, ZenonT(60) DEF Restored
<1>2. CASE t.cur = Nobody
  <2>1. ~t.active
    BY <1>2 DEF Ctl, Fits
  <2>2. Quiet(t, Nobody) /\ t.idx = Whole /\ Core(t, Nobody)
    BY <1>2, <2>1, FreeIsQuiet DEF Quiet
  <2>3. t \in Controller /\ t.stack \in Seq(Slots) /\ t.db \in Database
    BY <2>2, StackTyped DEF Core
  <2>4. /\ n \in Nat /\ DOMAIN t.stack = 1 .. n /\ alive = DOMAIN t.stack
        /\ alive # {} => Max(alive) = n /\ n > 0
    BY <2>2, TopOfStack
  <2>5. CASE alive = {}
    <3>1. r = [t EXCEPT !.stack = <<>>]
      BY <1>2, <2>5 DEF Restored
    <3>2. t.stack = <<>>
      BY <2>3, <2>4, <2>5
    <3>3. r = t
      BY <2>3, <3>1, <3>2 DEF Controller
    <3> QED BY <3>3
  <2>6. CASE alive # {}
    <3> DEFINE k == SubSeq(t.stack, 1, n - 1)
               w == t.stack[n]
               q == [t EXCEPT !.stack = k]
    <3>1. n \in DOMAIN t.stack /\ n > 0
      BY <2>4, <2>6, SMTT(60)
    <3>2. r = StartSaved(q, w[1], w[2])
      BY <1>2, <2>4, <2>6, ZenonT(60) DEF Restored
    <3>3. w \in Slots /\ w[1] \in Utts /\ t.db.state[w[1]] = "Paused"
      BY <2>2, <2>3, <3>1 DEF Core, Nested
    <3>4. /\ k \in Seq(Slots) /\ DOMAIN k = 1 .. (n - 1)
          /\ \A i \in DOMAIN k : i \in DOMAIN t.stack /\ i # n /\ k[i] = t.stack[i]
          /\ \A i \in DOMAIN t.stack : i # n => i \in DOMAIN k
      <4>1. k \in Seq(Slots) /\ Len(k) = n - 1 /\ \A i \in 1 .. (n - 1) : k[i] = t.stack[i]
        BY <2>3, <2>4, <3>1
      <4>2. DOMAIN k = 1 .. (n - 1)
        BY <4>1
      <4> QED BY <2>4, <3>1, <4>1, <4>2
    <3> HIDE DEF k
    <3>5. Nested(t.db, k, w[1])
      <4>1. \A i \in DOMAIN k : k[i][1] \in Utts /\ t.db.state[k[i][1]] = "Paused" /\ k[i][1] # w[1]
        BY <2>2, <3>1, <3>4 DEF Core, Nested
      <4>2. \A i, j \in DOMAIN k : k[i][1] = k[j][1] => i = j
        BY <2>2, <3>4 DEF Core, Nested
      <4>3. ASSUME NEW u \in Utts, t.db.state[u] = "Paused", u # w[1]
            PROVE  \E i \in DOMAIN k : k[i][1] = u
        <5>1. PICK i \in DOMAIN t.stack : t.stack[i][1] = u
          BY <2>2, <4>3, NobodyIsNone DEF Core, Nested
        <5> QED BY <3>4, <4>3, <5>1
      <4> QED BY <4>1, <4>2, <4>3 DEF Nested
    <3>6. Single(t.db, w[1])
      BY <2>2, NobodyIsNone DEF Core, Single
    <3>7. /\ q \in Controller /\ q.db = t.db /\ q.cur = t.cur /\ q.idx = t.idx
          /\ q.active = t.active /\ q.watch = t.watch /\ q.device = t.device
          /\ q.stack = k /\ q.mic = t.mic /\ q.armed = t.armed
          /\ q.cues = t.cues /\ q.raised = t.raised
      BY <2>3, <3>4 DEF Controller
    <3> HIDE DEF q
    <3>8. Quiet(q, w[1])
      BY <2>2, <3>5, <3>6, <3>7 DEF Quiet, Core, SessionOver
    <3>9. w[2] \in Nat \cup {Whole} /\ (w[2] = Whole \/ <<w[1], w[2]>> \in Parts)
      BY <3>3, SlotShape
    <3> HIDE DEF w
    <3>10. q.idx = Whole /\ q.db.state[w[1]] \in {"Ready", "Paused"} /\ ~q.db.held
      BY <2>2, <3>3, <3>7
    <3> DEFINE e == StartSaved(q, w[1], w[2])
    <3>11. Ctl(e) /\ ~e.db.held /\ (e.active => e.watch) /\ e.device.mode # "stopping"
      <4> DEFINE a == w[1]
                 b == w[2]
      <4>1. /\ a \in Utts /\ b \in Nat \cup {Whole} /\ Quiet(q, a) /\ q.idx = Whole
            /\ b = Whole \/ <<a, b>> \in Parts
            /\ q.db.state[a] \in {"Ready", "Paused"} /\ ~q.db.held
        BY <3>3, <3>8, <3>9, <3>10
      <4> HIDE DEF a, b
      <4>2. LET r1 == StartSaved(q, a, b)
            IN  Ctl(r1) /\ ~r1.db.held /\ (r1.active => r1.watch) /\ r1.device.mode # "stopping"
        BY <4>1, SavedStarts
      <4> QED BY <4>2 DEF a, b
    <3> HIDE DEF e
    <3>12. r = e
      BY <3>2 DEF e
    <3> HIDE DEF r
    <3>13. Ctl(r) /\ AtRest(r) /\ ~r.db.held
      BY <3>11, <3>12 DEF AtRest
    <3> QED BY <3>13 DEF r
  <2> QED BY <2>5, <2>6
<1> QED BY <1>1, <1>2, SMTT(60)

LEMMA HeadBegins ==
  ASSUME Undisturbed, NEW t, Ctl(t), AtRest(t), ~t.db.held, t.cur = Nobody
  PROVE  LET r == HeadBegun(t)
         IN  Ctl(r) /\ AtRest(r)
<1> DEFINE rows == Pending(t.db)
           u == First(t.db, rows)
           p == NextChunk(t.db, u)
           r == HeadBegun(t)
<1>1. Quiet(t, Nobody) /\ t.idx = Whole /\ t.db \in Database /\ ~t.cues
  <2>1. ~t.active
    BY DEF Ctl, Fits
  <2> QED BY <2>1, FreeIsQuiet DEF Quiet, Core, DbInv
<1>2. CASE rows = {}
  <2>1. r = t
    BY <1>1, <1>2 DEF HeadBegun
  <2> QED BY <2>1
<1>3. CASE rows # {}
  <2>1. u \in rows /\ u \in Utts
    <3>1. rows \in SUBSET Utts
      BY DEF Pending
    <3> QED BY <1>1, <1>3, <3>1, FirstIsOne
  <2> HIDE DEF u
  <2>2. ASSUME t.db.state[u] = "Ready" PROVE Quiet(t, u)
    <3>1. t.db.state[u] \notin Heard
      BY <2>2 DEF Heard
    <3> QED BY <1>1, <2>1, <3>1, QuietFor
  <2>3. CASE t.db.state[u] = "Ready" /\ NextIs(t.db, u, {"Ready"})
    <3>1. r = BeginChunk(t, p)
      <4>1. HasNext(t.db, u)
        BY <2>3 DEF NextIs
      <4> QED BY <1>3, <2>3, <4>1, ZenonT(30) DEF HeadBegun, u
    <3>2. p \in Parts /\ p[1] = u /\ t.db.child[p] = "Ready"
      BY <2>1, <2>3, NextChunkIsOpen DEF NextIs
    <3> HIDE DEF p
    <3> QED BY <2>2, <2>3, <3>1, <3>2, ChunkBegins DEF AtRest
  <2>4. CASE t.db.state[u] = "Ready" /\ ~HasNext(t.db, u) /\ Has(t.db, <<u, Whole>>)
    <3>1. r = BeginWhole(t, u)
      BY <1>3, <2>4 DEF HeadBegun, u, NextIs
    <3>2. <<u, Whole>> \in Units
      BY <1>1, <2>4 DEF Has, Database
    <3>3. u \notin Composite
      BY <3>2, UnitShape
    <3> QED BY <1>1, <2>1, <2>2, <2>4, <3>1, <3>3, WholeBegins DEF AtRest
  <2>5. CASE /\ ~(t.db.state[u] = "Ready" /\ NextIs(t.db, u, {"Ready"}))
             /\ ~(t.db.state[u] = "Ready" /\ ~HasNext(t.db, u) /\ Has(t.db, <<u, Whole>>))
    <3>1. r = t
      BY <1>3, <2>5 DEF HeadBegun, u
    <3> QED BY <3>1
  <2> QED BY <2>3, <2>4, <2>5
<1> QED BY <1>2, <1>3

LEMMA PassEnds ==
  ASSUME Undisturbed, NEW t, Ctl(t), AtRest(t)
  PROVE  LET r == RestOfPass(t)
         IN  Ctl(r) /\ AtRest(r)
<1> DEFINE p == NextChunk(t.db, t.cur)
           r == RestOfPass(t)
<1>1. ~t.raised /\ t.cur \in Utts \cup {Nobody}
  BY StackTyped DEF Ctl, Core
<1>2. CASE t.cur = Nobody /\ ~t.db.held /\ ~t.active
  <2>1. r = HeadBegun(t)
    BY <1>1, <1>2 DEF RestOfPass
  <2> QED BY <1>2, <2>1, HeadBegins
<1>3. CASE t.cur # Nobody /\ ~t.active /\ ~CurrentLive(t)
  <2>1. CurrentState(t) # "Playing"
    BY <1>3, StateFacts DEF CurrentLive
  <2>2. r = Vacated(t)
    BY <1>1, <1>3, <2>1, ZenonT(30) DEF RestOfPass
  <2>3. Quiet(t, t.cur) /\ t.cur \in Utts /\ t.db.state[t.cur] \notin Heard
    BY <1>1, <1>3, FreeIsQuiet, StateFacts DEF CurrentLive, CurrentState, Heard
  <2>4. t.device.mode # "stopping"
    BY DEF AtRest
  <2> QED BY <2>2, <2>3, <2>4, Vacates DEF AtRest
<1>4. CASE t.cur # Nobody /\ ~t.active /\ ~t.db.held /\ CurrentState(t) = "Playing"
           /\ NextIs(t.db, t.cur, {"Ready"})
  <2>1. CurrentLive(t)
    BY <1>4, StateFacts DEF CurrentLive
  <2>2. r = BeginChunk(t, p)
    BY <1>1, <1>4, <2>1 DEF RestOfPass
  <2>3. p \in Parts /\ p[1] = t.cur /\ t.db.child[p] = "Ready" /\ t.db.state[p[1]] = "Playing"
    BY <1>1, <1>4, NextChunkIsOpen DEF NextIs, CurrentState
  <2>4. Quiet(t, p[1])
    BY <1>4, <2>3, FreeIsQuiet
  <2> HIDE DEF p
  <2> QED BY <1>4, <2>2, <2>3, <2>4, ChunkBegins DEF AtRest
<1>5. CASE /\ ~(t.cur = Nobody /\ ~t.db.held /\ ~t.active)
           /\ ~(t.cur # Nobody /\ ~t.active /\ ~CurrentLive(t))
           /\ ~(t.cur # Nobody /\ ~t.active /\ ~t.db.held /\ CurrentState(t) = "Playing"
                /\ NextIs(t.db, t.cur, {"Ready"}))
  <2>1. r = t
    BY <1>1, <1>5 DEF RestOfPass
  <2> QED BY <2>1
<1> QED BY <1>2, <1>3, <1>4, <1>5

(* A preempting clip starts, the stack is looked at, and the pass ends.    *)
LEMMA TakesOver ==
  ASSUME Undisturbed, NEW t, NEW u \in Utts, Ctl(t), AtRest(t),
         ~t.active, t.cur = Nobody \/ ~CurrentLive(t)
  PROVE  LET r == TakenOver(t, u)
         IN  Ctl(r) /\ AtRest(r)
<1> DEFINE q == IF t.db.state[u] = "Ready" THEN StartSaved(t, u, Whole) ELSE t
           r == TakenOver(t, u)
<1>1. CASE t.db.held
  <2>1. r = RestOfPass(t)
    BY <1>1 DEF TakenOver
  <2> QED BY <2>1, PassEnds
<1>2. CASE ~t.db.held
  <2>1. Ctl(q) /\ AtRest(q) /\ ~q.db.held
    <3>1. CASE t.db.state[u] = "Ready"
      <4>1. Quiet(t, t.cur) /\ t.idx = Whole
        BY <1>2, FreeIsQuiet
      <4>2. t.cur = Nobody \/ (t.cur \in Utts /\ t.db.state[t.cur] \notin Heard)
        BY <4>1, StackTyped, StateFacts DEF Quiet, Core, CurrentLive, CurrentState, Heard
      <4>3. Quiet(t, u)
        BY <3>1, <4>1, <4>2, QuietFor DEF Heard
      <4>4. Whole \in Nat \cup {Whole}
        OBVIOUS
      <4> DEFINE e == StartSaved(t, u, Whole)
      <4>5. Ctl(e) /\ ~e.db.held /\ (e.active => e.watch) /\ e.device.mode # "stopping"
        <5> DEFINE i == Whole
        <5>1. i \in Nat \cup {Whole} /\ (i = Whole \/ <<u, i>> \in Parts)
              /\ t.db.state[u] \in {"Ready", "Paused"}
          BY <3>1, <4>4
        <5> HIDE DEF i
        <5>2. LET f == StartSaved(t, u, i)
              IN  Ctl(f) /\ f.cur = u /\ ~f.db.held /\ (f.active => f.watch)
                  /\ f.device.mode # "stopping"
          BY <1>2, <4>1, <4>3, <5>1, SavedStarts
        <5> QED BY <5>2 DEF i
      <4> HIDE DEF e
      <4>6. q = e
        BY <3>1 DEF e
      <4> QED BY <4>5, <4>6 DEF AtRest
    <3>2. CASE t.db.state[u] # "Ready"
      BY <1>2, <3>2
    <3> QED BY <3>1, <3>2
  <2>2. r = RestOfPass(Restored(q))
    BY <1>2 DEF TakenOver
  <2> HIDE DEF q
  <2> DEFINE e == Restored(q)
  <2>3. Ctl(e) /\ AtRest(e)
    BY <2>1, Restores
  <2> HIDE DEF e
  <2>4. r = RestOfPass(e)
    BY <2>2 DEF e
  <2> QED BY <2>3, <2>4, PassEnds
<1> QED BY <1>1, <1>2

-----------------------------------------------------------------------------
(* The device is free, and the controller still remembers what was on it:  *)
(* what every transport handler finds when its wait is over.               *)
Freed(t) ==
  /\ Quiet(t, t.cur) /\ Placed(t)
  /\ t.idx # Whole => Engaged(t) /\ Slot(t) \in Parts /\ t.db.child[Slot(t)] = CurrentState(t)

LEMMA NothingToWaitFor ==
  ASSUME NEW t, Ctl(t), ~t.active
  PROVE  Freed(t) /\ Deactivated(Calm(t)) = t
<1>1. t \in Controller /\ ~t.raised
  BY DEF Ctl, Core
<1>2. Deactivated(Calm(t)) = t
  BY <1>1 DEF Controller, Deactivated, Calm
<1> QED BY <1>2, FreeIsQuiet DEF Freed, Ctl, Saved, Engaged

LEMMA WaitIsOver ==
  ASSUME NEW t, Ctl(t), t.active, ~t.watch, SessionOver(t)
  PROVE  LET r == Deactivated(Calm(t))
         IN  Freed(r) /\ Slot(r) = Slot(t) /\ r.cur # Nobody /\ r.cur = t.cur
             /\ Engaged(r) /\ r.db = t.db
<1> DEFINE r == Deactivated(Calm(t))
<1>1. t \in Controller /\ ~t.raised
  BY DEF Ctl, Core
<1>2. /\ r \in Controller /\ r.db = t.db /\ r.cur = t.cur /\ r.idx = t.idx
      /\ r.active = FALSE /\ r.watch = t.watch /\ r.device = t.device
      /\ r.stack = t.stack /\ r.mic = t.mic /\ r.armed = t.armed
      /\ r.cues = t.cues /\ r.raised = t.raised
  <2> DEFINE e == [t EXCEPT !.raised = FALSE]
  <2>1. e = t
    BY <1>1 DEF Controller
  <2>2. r = [t EXCEPT !.active = FALSE]
    BY <2>1 DEF Deactivated, Calm
  <2> QED BY <1>1, <2>2 DEF Controller
<1> HIDE DEF r
<1>3. Core(r, r.cur)
  BY <1>2 DEF Ctl, Core
<1>4. CurrentState(r) = CurrentState(t) /\ Slot(r) = Slot(t)
  BY <1>2 DEF CurrentState, Slot
<1>5. t.cur # Nobody /\ Engaged(t) /\ Slot(t) \in Units
      /\ (t.cur \in Composite => t.db.child[Slot(t)] = CurrentState(t))
  BY DEF Ctl, Fits
<1>6. t.idx # Whole => Slot(t) \in Parts /\ t.cur \in Composite
  <2>1. Slot(t)[1] = t.cur /\ Slot(t)[2] = t.idx
    BY DEF Slot
  <2> QED BY <1>5, <2>1, UnitShape
<1>7. Engaged(r) /\ SessionOver(r) /\ Placed(r)
  BY <1>2, <1>4, <1>5 DEF Engaged, SessionOver, Ctl, Placed
<1> QED BY <1>2, <1>3, <1>4, <1>5, <1>6, <1>7 DEF Freed, Quiet, r

(* New rows while the device is free, that differ in c's state only.       *)
LEMMA QuietRows ==
  ASSUME NEW t, NEW c, Quiet(t, c), NEW e, DbInv(e), e.held = t.db.held,
         e.jobs \subseteq t.db.jobs, \A u \in Utts : u # c => e.state[u] = t.db.state[u]
  PROVE  LET r == [t EXCEPT !.db = e]
         IN  /\ Quiet(r, c) /\ r \in Controller
             /\ r.db = e /\ r.cur = t.cur /\ r.idx = t.idx /\ r.device = t.device
             /\ r.stack = t.stack
<1> DEFINE r == [t EXCEPT !.db = e]
<1>1. t \in Controller /\ e \in Database
  BY DEF Quiet, Core, DbInv
<1>2. /\ r \in Controller /\ r.db = e /\ r.cur = t.cur /\ r.idx = t.idx
      /\ r.active = t.active /\ r.watch = t.watch /\ r.device = t.device
      /\ r.stack = t.stack /\ r.mic = t.mic /\ r.armed = t.armed
      /\ r.cues = t.cues /\ r.raised = t.raised
  BY <1>1, WithRows
<1> HIDE DEF r
<1>3. Single(e, c) /\ Nested(e, t.stack, c)
  BY DEF Quiet, Core, Single, Nested
<1> QED BY <1>2, <1>3 DEF Quiet, Core, SessionOver, r

LEMMA QuietFields ==
  ASSUME NEW t, NEW c, Quiet(t, c), NEW r \in Controller, DbInv(r.db),
         r.db.held = t.db.held, r.db.jobs \subseteq t.db.jobs,
         \A u \in Utts : u # c => r.db.state[u] = t.db.state[u],
         r.active = t.active, r.watch = t.watch, r.device = t.device, r.stack = t.stack,
         r.mic = t.mic, r.armed = t.armed, r.cues = t.cues, r.raised = t.raised
  PROVE  Quiet(r, c)
<1>1. Single(r.db, c) /\ Nested(r.db, r.stack, c)
  BY DEF Quiet, Core, Single, Nested
<1> QED BY <1>1 DEF Quiet, Core, SessionOver

(* What was on the device is suspended, and put on the stack.              *)
LEMMA Suspends ==
  ASSUME NEW t, Freed(t)
  PROVE  LET r == Suspended(t, Slot(t))
         IN  Ctl(r) /\ AtRest(r) /\ ~r.active /\ r.cur = Nobody /\ r.device = t.device
<1> DEFINE w == Slot(t)
           r == Suspended(t, w)
<1>1. /\ t \in Controller /\ DbInv(t.db) /\ t.db \in Database /\ t.stack \in Seq(Slots)
      /\ Quiet(t, t.cur) /\ t.cur \in Utts \cup {Nobody}
      /\ w[1] = t.cur /\ w[2] = t.idx /\ t.device.mode # "stopping" /\ ~t.active /\ ~t.watch
  BY StackTyped DEF Freed, Quiet, Core, DbInv, Slot, SessionOver
<1>2. CASE t.cur # Nobody /\ In(t.db, t.cur, Heard)
  <2> DEFINE e == SuspendPlayback(t.db, w)
             k == Append(t.stack, w)
             n == Len(t.stack)
             q == [t EXCEPT !.db = e, !.stack = k]
  <2>1. w \in Slots
    BY <1>1, <1>2 DEF Freed, Placed
  <2>2. w \in Parts => t.db.child[w] \in PlaybackStates
    <3>1. w \in Parts => t.idx # Whole
      BY <1>1, UnitShape
    <3> QED BY <3>1, StateFacts DEF Freed, Engaged
  <2>3. /\ DbInv(e) /\ e.state = [t.db.state EXCEPT ![t.cur] = "Paused"]
        /\ e.jobs = t.db.jobs /\ e.held = t.db.held
    <3>1. DbInv(t.db) /\ w[1] \in Utts /\ t.db.state[w[1]] \in {"Playing", "Paused"}
      BY <1>1, <1>2 DEF In, Heard
    <3> HIDE DEF w, e
    <3>2. /\ DbInv(e) /\ e.state = [t.db.state EXCEPT ![w[1]] = "Paused"]
          /\ e.jobs = t.db.jobs /\ e.held = t.db.held
      BY <2>2, <3>1, SuspendInv DEF e
    <3> QED BY <1>1, <3>2
  <2>4. /\ k \in Seq(Slots) /\ n \in Nat /\ DOMAIN t.stack = 1 .. n /\ DOMAIN k = 1 .. (n + 1)
        /\ k[n + 1] = w /\ \A i \in 1 .. n : k[i] = t.stack[i]
    BY <1>1, <2>1
  <2>5. r = Vacated(q)
    BY <1>1, <1>2 DEF Suspended, Heard
  <2> HIDE DEF e, k, w
  <2>6. /\ q \in Controller /\ q.db = e /\ q.cur = t.cur /\ q.idx = t.idx
        /\ q.active = t.active /\ q.watch = t.watch /\ q.device = t.device
        /\ q.stack = k /\ q.mic = t.mic /\ q.armed = t.armed
        /\ q.cues = t.cues /\ q.raised = t.raised
    BY <1>1, <2>3, <2>4 DEF Controller, DbInv
  <2> HIDE DEF q
  <2>7. Single(e, Nobody)
    BY <1>1, <2>3 DEF Single, Quiet, Core, Database
  <2>8. Nested(e, k, Nobody)
    <3> HIDE DEF n
    <3>1. /\ \A i \in 1 .. n : t.stack[i][1] \in Utts /\ t.db.state[t.stack[i][1]] = "Paused"
                               /\ t.stack[i][1] # t.cur
          /\ \A i, j \in 1 .. n : t.stack[i][1] = t.stack[j][1] => i = j
          /\ \A u \in Utts : t.db.state[u] = "Paused" =>
               u = t.cur \/ \E i \in 1 .. n : t.stack[i][1] = u
      BY <1>1, <2>4 DEF Quiet, Core, Nested
    <3>2. \A i \in 1 .. (n + 1) : i \in 1 .. n \/ i = n + 1
      BY <2>4
    <3>3. \A i \in 1 .. n : i \in 1 .. (n + 1)
      BY <2>4
    <3>4. \A u \in Utts : e.state[u] = IF u = t.cur THEN "Paused" ELSE t.db.state[u]
      BY <1>1, <2>3 DEF Database
    <3>5. n + 1 \in 1 .. (n + 1)
      BY <2>4
    <3> DEFINE m == n + 1
    <3>6. /\ \A i \in DOMAIN k : i \in 1 .. n \/ i = m
          /\ \A i \in 1 .. n : i \in DOMAIN k
          /\ m \in DOMAIN k /\ k[m] = w
      BY <2>4, <3>2, <3>3, <3>5
    <3> HIDE DEF m
    <3>7. \A i \in DOMAIN k : k[i][1] \in Utts /\ e.state[k[i][1]] = "Paused" /\ k[i][1] # Nobody
      <4>1. ASSUME NEW i \in 1 .. n
            PROVE  k[i][1] \in Utts /\ e.state[k[i][1]] = "Paused" /\ k[i][1] # Nobody
        BY <2>4, <3>1, <3>4, NobodyIsNone
      <4>2. k[m][1] \in Utts /\ e.state[k[m][1]] = "Paused" /\ k[m][1] # Nobody
        BY <1>1, <1>2, <3>4, <3>6
      <4> QED BY <3>6, <4>1, <4>2
    <3>8. ASSUME NEW i \in DOMAIN k, NEW j \in DOMAIN k, k[i][1] = k[j][1] PROVE i = j
      BY <1>1, <2>4, <3>1, <3>6, <3>8
    <3>9. ASSUME NEW u \in Utts, e.state[u] = "Paused" PROVE \E i \in DOMAIN k : k[i][1] = u
      BY <1>1, <2>4, <3>1, <3>4, <3>6, <3>9, SMTT(60)
    <3> QED BY <3>7, <3>8, <3>9 DEF Nested
  <2>9. Quiet(q, Nobody)
    BY <1>1, <2>3, <2>6, <2>7, <2>8 DEF Quiet, Core, SessionOver
  <2> DEFINE f == Vacated(q)
  <2>10. Ctl(f) /\ f.cur = Nobody /\ ~f.active /\ f.device = q.device
    BY <2>9, Vacates
  <2> HIDE DEF f
  <2>11. r = f
    BY <2>5 DEF f
  <2> QED BY <1>1, <2>6, <2>10, <2>11 DEF AtRest, w
<1>3. CASE ~(t.cur # Nobody /\ In(t.db, t.cur, Heard))
  <2>1. [t EXCEPT !.db = t.db, !.stack = t.stack] = t
    BY <1>1 DEF Controller
  <2>2. r = Vacated(t)
    BY <1>1, <1>3, <2>1 DEF Suspended, Heard
  <2> DEFINE f == Vacated(t)
  <2>3. Ctl(f) /\ f.cur = Nobody /\ ~f.active /\ f.device = t.device
    BY <1>1, <1>3, Vacates DEF In
  <2> HIDE DEF f
  <2>4. r = f
    BY <2>2 DEF f
  <2> QED BY <1>1, <2>3, <2>4 DEF AtRest, w
<1> QED BY <1>2, <1>3

LEMMA Skips ==
  ASSUME NEW t, Freed(t), t.cur # Nobody
  PROVE  LET r == SkipLands(t, Slot(t))
         IN  Ctl(r) /\ AtRest(r)
<1> DEFINE w == Slot(t)
           r == SkipLands(t, w)
           u == t.cur
<1>1. /\ t \in Controller /\ DbInv(t.db) /\ t.db \in Database /\ Quiet(t, u) /\ u \in Utts
      /\ w[1] = u /\ w[2] = t.idx /\ t.device.mode # "stopping" /\ ~t.active
  BY StackTyped DEF Freed, Quiet, Core, DbInv, Slot, SessionOver
<1> HIDE DEF w
<1>2. CASE In(t.db, u, Heard)
  <2> DEFINE e == SkipUtterance(t.db, u, w)
             q == [t EXCEPT !.db = e]
             f == Vacated(q)
  <2>1. t.db.state[u] # Absent /\ (w \in Parts => t.db.state[w[1]] # Absent)
    BY <1>1, <1>2, StateFacts DEF In, Heard
  <2>2. Advances(t.db, e)
    BY <1>1, <2>1, SkipInv
  <2>3. e.state = [t.db.state EXCEPT ![u] = "Skipped"] /\ e.held = t.db.held
    <3> DEFINE g == IF w \in Parts /\ t.db.child[w] \in Heard
                      THEN TransitionSegment(t.db, w, "Skipped") ELSE t.db
    <3>1. e = Transition(g, u, "Skipped")
      BY DEF SkipUtterance, Heard
    <3>2. g \in Database /\ g.state = t.db.state /\ g.held = t.db.held
      BY <1>1 DEF TransitionSegment, Database, State
    <3> HIDE DEF g
    <3>3. Transition(g, u, "Skipped").state = [g.state EXCEPT ![u] = "Skipped"]
          /\ Transition(g, u, "Skipped").held = g.held
      BY <3>2, SMTT(30) DEF Transition, Database
    <3> QED BY <3>1, <3>2, <3>3
  <2>4. r = f
    BY <1>1, <1>2 DEF SkipLands, Heard
  <2> HIDE DEF e
  <2>5. Quiet(q, u) /\ q.db = e /\ q.device = t.device
    BY <1>1, <2>2, <2>3, QuietRows DEF Advances, Onward, Database
  <2> HIDE DEF q
  <2>6. q.db.state[u] \notin Heard
    BY <1>1, <2>3, <2>5 DEF Heard, Database
  <2>7. Ctl(f) /\ ~f.active /\ f.device = q.device
    BY <1>1, <2>5, <2>6, Vacates
  <2> HIDE DEF f
  <2> QED BY <1>1, <2>4, <2>5, <2>7 DEF AtRest, w
<1>3. CASE ~In(t.db, u, Heard)
  <2>1. r = t
    BY <1>1, <1>3 DEF SkipLands, Heard
  <2>2. t.idx = Whole
    BY <1>1, <1>3 DEF Freed, Engaged, In, CurrentState, Heard
  <2>3. Ctl(t) /\ AtRest(t)
    BY <1>1, <2>2, Settles DEF AtRest
  <2> QED BY <2>1, <2>3 DEF w
<1> QED BY <1>2, <1>3

(* The document goes on at its next chunk, or waits for it or for the end  *)
(* of a hold.                                                              *)
LEMMA DocumentResumes ==
  ASSUME Undisturbed, NEW t, NEW u \in Utts, Quiet(t, u), t.cur = u, t.idx = Whole,
         t.db.state[u] \in Heard
  PROVE  LET r == ResumeDocument(t, u)
         IN  Ctl(r) /\ AtRest(r)
<1> DEFINE r == ResumeDocument(t, u)
           p == NextChunk(t.db, u)
<1>1. /\ t \in Controller /\ DbInv(t.db) /\ t.db \in Database
      /\ t.device.mode # "stopping" /\ ~t.active
  BY DEF Quiet, Core, DbInv, SessionOver
<1>2. Ctl(t) /\ AtRest(t)
  BY <1>1, Settles DEF AtRest
<1>3. CASE HasNext(t.db, u) /\ t.db.held
  <2> DEFINE e == IF t.db.state[u] = "Playing" THEN Transition(t.db, u, "Paused") ELSE t.db
             q == [t EXCEPT !.db = e]
  <2>1. r = q
    BY <1>3 DEF ResumeDocument
  <2>2. /\ DbInv(e) /\ e.jobs = t.db.jobs /\ e.held = t.db.held
        /\ \A v \in Utts : v # u => e.state[v] = t.db.state[v]
    <3>1. CASE t.db.state[u] = "Playing"
      <4>1. "Paused" \in PlaybackMoves /\ t.db.state[u] \in PlaybackStates
        BY <3>1, StateFacts DEF PlaybackMoves
      <4>2. Transition(t.db, u, "Paused").held = t.db.held
        BY <1>1 DEF Transition, Database
      <4>3. /\ DbInv(Transition(t.db, u, "Paused"))
            /\ Transition(t.db, u, "Paused").state = [t.db.state EXCEPT ![u] = "Paused"]
            /\ Transition(t.db, u, "Paused").jobs = t.db.jobs
        BY <1>1, <4>1, ParentMove
      <4> QED BY <1>1, <3>1, <4>2, <4>3 DEF Database
    <3>2. CASE t.db.state[u] # "Playing"
      BY <1>1, <3>2
    <3> QED BY <3>1, <3>2
  <2> HIDE DEF e
  <2>3. Quiet(q, u) /\ q.cur = u /\ q.idx = Whole /\ q.device = t.device
    BY <1>1, <2>2, QuietRows
  <2> HIDE DEF q
  <2>4. Ctl(q)
    BY <2>3, Settles
  <2>5. AtRest(q)
    BY <1>1, <2>3 DEF AtRest, Quiet
  <2> QED BY <2>1, <2>4, <2>5
<1>4. CASE ~t.db.held /\ NextIs(t.db, u, {"Ready"})
  <2>1. HasNext(t.db, u)
    BY <1>4 DEF NextIs
  <2>2. r = BeginChunk(t, p)
    BY <1>4, <2>1, ZenonT(30) DEF ResumeDocument
  <2>3. p \in Parts /\ p[1] = u /\ t.db.child[p] = "Ready"
    BY <1>4, <2>1, NextChunkIsOpen DEF NextIs
  <2> HIDE DEF p
  <2>4. Quiet(t, p[1]) /\ t.db.state[p[1]] \in {"Ready", "Paused", "Playing"}
    BY <2>3 DEF Heard
  <2> DEFINE f == BeginChunk(t, p)
  <2>5. Ctl(f) /\ f.watch /\ f.device.mode = "sounding"
    BY <1>4, <2>3, <2>4, ChunkBegins
  <2> HIDE DEF f
  <2>6. r = f
    BY <2>2 DEF f
  <2> QED BY <2>5, <2>6 DEF AtRest
<1>5. CASE ~(HasNext(t.db, u) /\ t.db.held) /\ ~(~t.db.held /\ NextIs(t.db, u, {"Ready"}))
  <2>1. r = t
    BY <1>5, ZenonT(30) DEF ResumeDocument
  <2> QED BY <1>2, <2>1
<1> QED BY <1>3, <1>4, <1>5

(* Stepping over the chunk that was on the device.                         *)
LEMMA NextStepLands ==
  ASSUME Undisturbed, NEW t, Freed(t), Slot(t) \in Parts, Engaged(t)
  PROVE  LET r == NextLands(t, Slot(t))
         IN  Ctl(r) /\ AtRest(r)
<1> DEFINE w == Slot(t)
           e == TransitionSegment(t.db, w, "Skipped")
           q == [t EXCEPT !.db = e, !.idx = Whole]
           u == t.cur
           r == NextLands(t, w)
<1>1. /\ DbInv(t.db) /\ t.db \in Database /\ Quiet(t, u) /\ w[1] = u /\ w[2] = t.idx
      /\ w \in Parts /\ u \in Utts /\ w[2] # Whole
  <2>1. w[1] = u /\ w[2] = t.idx
    BY DEF Slot
  <2> QED BY <2>1, UnitShape DEF Freed, Quiet, Core, DbInv
<1>2. t.db.child[w] \in Heard /\ t.db.state[u] \in Heard
  BY <1>1, StateFacts DEF Freed, Engaged, CurrentState, Heard
<1>3. CanTransition(t.db.child[w], "Skipped")
  BY <1>2 DEF CanTransition, Transitions, State, Heard
<1>4. r = ResumeDocument(q, u)
  BY <1>1, <1>3 DEF NextLands
<1>5. /\ DbInv(e) /\ e.state = t.db.state /\ e.jobs = t.db.jobs /\ e.held = t.db.held
  <2>1. "Skipped" \in PlaybackMoves /\ t.db.child[w] \in PlaybackStates
    BY <1>2, StateFacts DEF PlaybackMoves, Heard
  <2>2. e.jobs = t.db.jobs /\ e.held = t.db.held
    BY <1>1 DEF TransitionSegment, Database
  <2> QED BY <1>1, <2>1, <2>2, ChildMove
<1> HIDE DEF e, w
<1>6. Quiet(q, u) /\ q.db = e /\ q.cur = u /\ q.idx = Whole
  <2>1. t \in Controller /\ e \in Database
    BY <1>1, <1>5 DEF Quiet, Core, DbInv
  <2>2. /\ q \in Controller /\ q.db = e /\ q.cur = t.cur /\ q.idx = Whole
        /\ q.active = t.active /\ q.watch = t.watch /\ q.device = t.device
        /\ q.stack = t.stack /\ q.mic = t.mic /\ q.armed = t.armed
        /\ q.cues = t.cues /\ q.raised = t.raised
    BY <2>1 DEF Controller
  <2> HIDE DEF q
  <2> QED BY <1>1, <1>5, <2>2, QuietFields
<1> HIDE DEF q
<1>7. q.db.state[u] \in Heard
  BY <1>2, <1>5, <1>6
<1> DEFINE f == ResumeDocument(q, u)
<1>8. Ctl(f) /\ AtRest(f)
  BY <1>1, <1>6, <1>7, DocumentResumes
<1> HIDE DEF f
<1>9. r = f
  BY <1>4 DEF f
<1> QED BY <1>8, <1>9 DEF w

(* Going back to a chunk that is still there.                              *)
LEMMA StepRestored ==
  ASSUME Undisturbed, NEW t, NEW u \in Utts, Quiet(t, u), t.cur = u, t.db.state[u] \in Heard,
         NEW i, <<u, i>> \in Parts, t.db.child[<<u, i>>] \in PlaybackStates
  PROVE  LET r == RestoreStep(t, u, i)
         IN  Ctl(r) /\ AtRest(r)
<1> DEFINE e == ResetSegmentsFrom(t.db, u, i)
           q == [t EXCEPT !.db = e, !.idx = Whole]
           r == RestoreStep(t, u, i)
<1>1. DbInv(t.db) /\ t.db \in Database /\ t \in Controller
  BY DEF Quiet, Core, DbInv
<1>2. Has(t.db, <<u, i>>)
  <2>1. <<u, i>> \in Units /\ UnitState(t.db, <<u, i>>) = t.db.child[<<u, i>>]
    BY UnitShape DEF UnitState
  <2> QED BY <1>1, <2>1 DEF DbInv, Audible, Has
<1>3. ResetLands(t.db, u, i)
  BY <1>2, StateFacts DEF ResetLands, Replayable
<1>4. r = ResumeDocument(q, u)
  <2>1. [t EXCEPT !.db = e, !.idx = Whole] = [[t EXCEPT !.db = e] EXCEPT !.idx = Whole]
    BY <1>1
  <2> QED BY <1>2, <1>3, <2>1 DEF RestoreStep
<1>5. DbInv(e) /\ e.state = t.db.state /\ e.jobs = t.db.jobs /\ e.held = t.db.held
  <2>1. IsLive(t.db, u)
    BY StateFacts DEF IsLive, Heard
  <2>2. /\ DbInv(e) /\ e.state = t.db.state /\ e.jobs = t.db.jobs /\ e.held = t.db.held
        /\ e.child = [p \in Parts |->
             IF p[1] = u /\ p[2] >= i /\ Has(t.db, p) /\ t.db.child[p] \in Replayable
               THEN "Ready" ELSE t.db.child[p]]
    BY <1>1, <2>1, ResetInv
  <2> QED BY <2>2
<1> HIDE DEF e
<1>6. Quiet(q, u) /\ q.db = e /\ q.cur = u /\ q.idx = Whole
  <2>1. e \in Database
    BY <1>5 DEF DbInv
  <2>2. /\ q \in Controller /\ q.db = e /\ q.cur = t.cur /\ q.idx = Whole
        /\ q.active = t.active /\ q.watch = t.watch /\ q.device = t.device
        /\ q.stack = t.stack /\ q.mic = t.mic /\ q.armed = t.armed
        /\ q.cues = t.cues /\ q.raised = t.raised
    BY <1>1, <2>1 DEF Controller
  <2> HIDE DEF q
  <2> QED BY <1>5, <2>2, QuietFields
<1> HIDE DEF q
<1>7. q.db.state[u] \in Heard
  BY <1>5, <1>6
<1> DEFINE f == ResumeDocument(q, u)
<1>8. Ctl(f) /\ AtRest(f)
  BY <1>6, <1>7, DocumentResumes
<1> HIDE DEF f
<1>9. r = f
  BY <1>4 DEF f
<1> QED BY <1>8, <1>9

LEMMA PreviousStepLands ==
  ASSUME Undisturbed, NEW t, Freed(t), Slot(t) \in Parts, Engaged(t)
  PROVE  LET r == PreviousLands(t, Slot(t))
         IN  Ctl(r) /\ AtRest(r)
<1> DEFINE w == Slot(t)
           u == t.cur
           i == w[2] - 1
           g == ResetSegmentsFrom(t.db, u, i)
           e == IF Has(t.db, <<u, i>>) THEN g ELSE t.db
           q == [t EXCEPT !.db = e]
           r == PreviousLands(t, w)
<1>1. /\ DbInv(t.db) /\ t.db \in Database /\ Quiet(t, u) /\ w[1] = u /\ w[2] = t.idx
      /\ w \in Parts /\ u \in Utts /\ w[2] \in Nat /\ w = <<u, w[2]>> /\ t \in Controller
  <2>1. w[1] = u /\ w[2] = t.idx /\ w = <<u, w[2]>>
    BY DEF Slot
  <2> QED BY <2>1, UnitShape DEF Freed, Quiet, Core, DbInv
<1>2. t.db.child[w] \in Heard /\ t.db.state[u] \in Heard
  <2>1. t.idx # Whole
    BY <1>1, UnitShape
  <2> QED BY <1>1, <2>1, StateFacts DEF Freed, Engaged, CurrentState, Heard
<1> HIDE DEF w
<1>3. IsLive(t.db, u)
  BY <1>2, StateFacts DEF IsLive, Heard
<1>4. /\ DbInv(g) /\ g.state = t.db.state /\ g.jobs = t.db.jobs /\ g.held = t.db.held
      /\ g.child[w] \in PlaybackStates
  <2>1. /\ DbInv(g) /\ g.state = t.db.state /\ g.jobs = t.db.jobs /\ g.held = t.db.held
        /\ g.child = [p \in Parts |->
             IF p[1] = u /\ p[2] >= i /\ Has(t.db, p) /\ t.db.child[p] \in Replayable
               THEN "Ready" ELSE t.db.child[p]]
    BY <1>1, <1>3, ResetInv
  <2>2. g.child[w] \in {"Ready", t.db.child[w]}
    BY <1>1, <2>1
  <2> QED BY <1>2, <2>1, <2>2, StateFacts DEF Heard
<1>5. /\ DbInv(e) /\ e.state = t.db.state /\ e.jobs = t.db.jobs /\ e.held = t.db.held
      /\ e.child[w] \in PlaybackStates
  BY <1>1, <1>2, <1>4, StateFacts DEF Heard
<1>6. r = IF ResetLands(t.db, u, i) THEN ResumeDocument([q EXCEPT !.idx = Whole], u)
                                    ELSE RestoreStep(q, u, w[2])
  BY <1>1 DEF PreviousLands
<1>7. [q EXCEPT !.idx = Whole] = [t EXCEPT !.db = e, !.idx = Whole]
  BY <1>1
<1> HIDE DEF g, e, i
<1>8. Quiet(q, u) /\ q.db = e /\ q.cur = u
  BY <1>1, <1>5, QuietRows
<1> HIDE DEF q
<1>9. CASE ResetLands(t.db, u, i)
  <2> DEFINE h == [t EXCEPT !.db = e, !.idx = Whole]
  <2>1. Quiet(h, u) /\ h.db = e /\ h.cur = u /\ h.idx = Whole
    <3>1. e \in Database
      BY <1>5 DEF DbInv
    <3>2. /\ h \in Controller /\ h.db = e /\ h.cur = t.cur /\ h.idx = Whole
          /\ h.active = t.active /\ h.watch = t.watch /\ h.device = t.device
          /\ h.stack = t.stack /\ h.mic = t.mic /\ h.armed = t.armed
          /\ h.cues = t.cues /\ h.raised = t.raised
      BY <1>1, <3>1 DEF Controller
    <3> HIDE DEF h
    <3> QED BY <1>1, <1>5, <3>2, QuietFields
  <2>2. r = ResumeDocument(h, u)
    BY <1>6, <1>7, <1>9
  <2> HIDE DEF h
  <2>3. h.db.state[u] \in Heard
    BY <1>2, <1>5, <2>1
  <2> DEFINE f == ResumeDocument(h, u)
  <2>4. Ctl(f) /\ AtRest(f)
    BY <1>1, <2>1, <2>3, DocumentResumes
  <2> HIDE DEF f
  <2>5. r = f
    BY <2>2 DEF f
  <2> QED BY <2>4, <2>5 DEF w
<1>10. CASE ~ResetLands(t.db, u, i)
  <2>1. q.db.state[u] \in Heard /\ <<u, w[2]>> \in Parts /\ q.db.child[<<u, w[2]>>] \in PlaybackStates
    BY <1>1, <1>2, <1>5, <1>8
  <2> DEFINE f == RestoreStep(q, u, w[2])
  <2>2. Ctl(f) /\ AtRest(f)
    BY <1>1, <1>8, <2>1, StepRestored
  <2> HIDE DEF f
  <2>3. r = f
    BY <1>6, <1>10 DEF f
  <2> QED BY <2>2, <2>3 DEF w
<1> QED BY <1>9, <1>10

LEMMA RestartStepLands ==
  ASSUME Undisturbed, NEW t, Freed(t), Engaged(t), t.cur \in Utts
  PROVE  LET r == RestartLands(t, Slot(t))
         IN  Ctl(r) /\ AtRest(r)
<1> DEFINE w == Slot(t)
           u == t.cur
           g == ResetSegmentsFrom(t.db, u, 0)
           e == [t EXCEPT !.db = g, !.idx = Whole]
           r == RestartLands(t, w)
<1>1. /\ DbInv(t.db) /\ t.db \in Database /\ Quiet(t, u) /\ w[1] = u /\ w[2] = t.idx
      /\ u \in Utts /\ w = <<u, w[2]>> /\ t \in Controller
  BY DEF Slot, Freed, Quiet, Core, DbInv
<1>2. t.db.state[u] \in Heard /\ IsLive(t.db, u) /\ u # Nobody
  BY NobodyIsNone, StateFacts DEF Engaged, CurrentState, Heard, IsLive
<1>3. w[2] # Whole => w \in Parts /\ t.db.child[w] \in Heard /\ u \in Composite
  <2>1. w[2] # Whole => w \in Parts /\ t.db.child[w] \in Heard
    BY <1>1, <1>2 DEF Freed, CurrentState, Heard, Engaged
  <2> QED BY <1>1, <2>1, UnitShape
<1>4. CASE u \in Composite
  <2>1. /\ DbInv(g) /\ g.state = t.db.state /\ g.jobs = t.db.jobs /\ g.held = t.db.held
        /\ (w[2] # Whole => g.child[w] \in PlaybackStates)
    <3>1. /\ DbInv(g) /\ g.state = t.db.state /\ g.jobs = t.db.jobs /\ g.held = t.db.held
          /\ g.child = [p \in Parts |->
               IF p[1] = u /\ p[2] >= 0 /\ Has(t.db, p) /\ t.db.child[p] \in Replayable
                 THEN "Ready" ELSE t.db.child[p]]
      BY <1>1, <1>2, ResetInv
    <3>2. w[2] # Whole => g.child[w] \in {"Ready", t.db.child[w]}
      BY <1>3, <3>1
    <3> QED BY <1>3, <3>1, <3>2, StateFacts DEF Heard
  <2>2. r = CASE NextIs(e.db, u, {"Ready"}) -> ResumeDocument(e, u)
              [] ~NextIs(e.db, u, {"Ready"}) /\ w[2] # Whole -> RestoreStep(e, u, w[2])
              [] OTHER -> e
    BY <1>1, <1>4 DEF RestartLands
  <2> HIDE DEF g, w
  <2>3. Quiet(e, u) /\ e.db = g /\ e.cur = u /\ e.idx = Whole
    <3>1. g \in Database
      BY <2>1 DEF DbInv
    <3>2. /\ e \in Controller /\ e.db = g /\ e.cur = t.cur /\ e.idx = Whole
          /\ e.active = t.active /\ e.watch = t.watch /\ e.device = t.device
          /\ e.stack = t.stack /\ e.mic = t.mic /\ e.armed = t.armed
          /\ e.cues = t.cues /\ e.raised = t.raised
      BY <1>1, <3>1 DEF Controller
    <3> HIDE DEF e
    <3> QED BY <1>1, <2>1, <3>2, QuietFields
  <2> HIDE DEF e
  <2>4. e.db.state[u] \in Heard
    BY <1>2, <2>1, <2>3
  <2>5. CASE NextIs(e.db, u, {"Ready"})
    <3> DEFINE f == ResumeDocument(e, u)
    <3>1. Ctl(f) /\ AtRest(f)
      BY <1>1, <2>3, <2>4, DocumentResumes
    <3> HIDE DEF f
    <3>2. r = f
      BY <2>2, <2>5, ZenonT(30) DEF f
    <3> QED BY <3>1, <3>2 DEF w
  <2>6. CASE ~NextIs(e.db, u, {"Ready"}) /\ w[2] # Whole
    <3> DEFINE f == RestoreStep(e, u, w[2])
    <3>1. <<u, w[2]>> \in Parts /\ e.db.child[<<u, w[2]>>] \in PlaybackStates
      BY <1>1, <1>3, <2>1, <2>3, <2>6
    <3>2. Ctl(f) /\ AtRest(f)
      BY <1>1, <2>3, <2>4, <3>1, StepRestored
    <3> HIDE DEF f
    <3>3. r = f
      BY <2>2, <2>6, ZenonT(30) DEF f
    <3> QED BY <3>2, <3>3 DEF w
  <2>7. CASE ~NextIs(e.db, u, {"Ready"}) /\ w[2] = Whole
    <3>1. r = e
      BY <2>2, <2>7, ZenonT(30)
    <3>2. Ctl(e) /\ AtRest(e)
      BY <2>3, Settles DEF AtRest, Quiet, SessionOver
    <3> QED BY <3>1, <3>2 DEF w
  <2> QED BY <2>5, <2>6, <2>7
<1>5. CASE u \notin Composite
  <2>1. w[2] = Whole /\ t.idx = Whole /\ w = <<u, Whole>> /\ w \in Units /\ w \notin Parts
    <3>1. w[2] = Whole
      BY <1>3, <1>5
    <3>2. w = <<u, Whole>>
      BY <1>1, <3>1
    <3> QED BY <1>1, <1>5, <3>1, <3>2, UnitShape DEF Units
  <2>2. In(t.db, u, {"Playing", "Paused"})
    BY <1>2 DEF In, Heard
  <2> HIDE DEF w
  <2>3. CASE t.db.held
    <3> DEFINE d == SuspendPlayback(t.db, w)
               q == [t EXCEPT !.db = d]
    <3>1. r = q
      BY <1>1, <1>5, <2>1, <2>2, <2>3 DEF RestartLands
    <3>2. DbInv(d) /\ d.state = [t.db.state EXCEPT ![u] = "Paused"] /\ d.jobs = t.db.jobs
          /\ d.held = t.db.held
      <4>1. w[1] \in Utts /\ t.db.state[w[1]] \in {"Playing", "Paused"}
            /\ (w \in Parts => t.db.child[w] \in PlaybackStates)
        BY <1>1, <2>1, <2>2 DEF In
      <4>2. DbInv(d) /\ d.state = [t.db.state EXCEPT ![w[1]] = "Paused"] /\ d.jobs = t.db.jobs
            /\ d.held = t.db.held
        BY <1>1, <4>1, SuspendInv, ZenonT(60)
      <4> QED BY <1>1, <4>2
    <3> HIDE DEF d
    <3>3. Quiet(q, u) /\ q.cur = u /\ q.idx = Whole /\ q.device = t.device
      BY <1>1, <2>1, <3>2, QuietRows DEF Database
    <3> HIDE DEF q
    <3>4. Ctl(q) /\ AtRest(q)
      BY <3>3, Settles DEF AtRest, Quiet, SessionOver
    <3> QED BY <3>1, <3>4 DEF w
  <2>4. CASE ~t.db.held
    <3> DEFINE d == IF t.db.state[u] = "Paused" THEN Transition(t.db, u, "Playing") ELSE t.db
               q == [t EXCEPT !.db = d]
    <3>1. r = Start(q, w)
      BY <1>1, <1>5, <2>1, <2>2, <2>4 DEF RestartLands
    <3>2. /\ DbInv(d) /\ d.state = [t.db.state EXCEPT ![u] = "Playing"] /\ d.jobs = t.db.jobs
          /\ d.held = t.db.held
      <4>1. CASE t.db.state[u] = "Paused"
        BY <1>1, <4>1, PlayingRow
      <4>2. CASE t.db.state[u] # "Paused"
        BY <1>1, <1>2, <4>2 DEF Heard, Database
      <4> QED BY <4>1, <4>2
    <3> HIDE DEF d
    <3>3. Quiet(q, u) /\ q.db = d /\ q.cur = u /\ q.idx = Whole
      BY <1>1, <2>1, <3>2, QuietRows DEF Database
    <3> HIDE DEF q
    <3>4. CurrentState(q) = "Playing" /\ Slot(q) = w /\ ~q.db.held
      BY <1>1, <1>2, <2>1, <2>4, <3>2, <3>3 DEF CurrentState, Slot, Database
    <3> DEFINE f == Start(q, w)
    <3>5. Ctl(f) /\ f.watch /\ f.device.mode = "sounding"
      BY <2>1, <3>3, <3>4, Starts
    <3> HIDE DEF f
    <3>6. r = f
      BY <3>1 DEF f
    <3> QED BY <3>5, <3>6 DEF AtRest, w
  <2> QED BY <2>3, <2>4
<1> QED BY <1>4, <1>5

-----------------------------------------------------------------------------
(* Pause, resume and the microphone.                                       *)
LEMMA NoticeChanges ==
  ASSUME NEW t, Ctl(t), NEW r \in Controller,
         r.db = t.db, r.cur = t.cur, r.idx = t.idx, r.active = t.active, r.watch = t.watch,
         r.device = t.device, r.stack = t.stack, r.cues = t.cues, r.raised = t.raised,
         r.mic \/ r.armed => t.db.held
  PROVE  Ctl(r) /\ Slot(r) = Slot(t) /\ (AtRest(t) => AtRest(r))
<1>1. Slot(r) = Slot(t) /\ CurrentState(r) = CurrentState(t)
  BY DEF Slot, CurrentState
<1>2. Core(r, r.cur)
  BY DEF Ctl, Core
<1>3. Placed(r) /\ Fits(r)
  BY <1>1 DEF Ctl, Placed, Fits, Engaged, SessionOver
<1>4. Saved(r) /\ Sounds(r)
  BY <1>1 DEF Ctl, Saved, Sounds
<1> QED BY <1>1, <1>2, <1>3, <1>4 DEF Ctl, AtRest

LEMMA NoticeSet ==
  ASSUME NEW t, Ctl(t), NEW a \in BOOLEAN, NEW b \in BOOLEAN, a \/ b => t.db.held
  PROVE  LET e == [t EXCEPT !.mic = a, !.armed = b]
         IN  /\ Ctl(e) /\ Slot(e) = Slot(t) /\ (AtRest(t) => AtRest(e)) /\ e.db = t.db
             /\ e.active = t.active /\ e.watch = t.watch /\ e.device = t.device /\ e.cur = t.cur
<1> DEFINE e == [t EXCEPT !.mic = a, !.armed = b]
<1>1. t \in Controller
  BY DEF Ctl, Core
<1>2. /\ e \in Controller /\ e.db = t.db /\ e.cur = t.cur /\ e.idx = t.idx
      /\ e.active = t.active /\ e.watch = t.watch /\ e.device = t.device
      /\ e.stack = t.stack /\ e.mic = a /\ e.armed = b
      /\ e.cues = t.cues /\ e.raised = t.raised
  <2> DEFINE g == [t EXCEPT !.mic = a]
  <2>1. /\ g \in Controller /\ g.db = t.db /\ g.cur = t.cur /\ g.idx = t.idx
        /\ g.active = t.active /\ g.watch = t.watch /\ g.device = t.device
        /\ g.stack = t.stack /\ g.mic = a
        /\ g.cues = t.cues /\ g.raised = t.raised
    BY <1>1 DEF Controller
  <2>2. e = [g EXCEPT !.armed = b]
    OBVIOUS
  <2> HIDE DEF g
  <2> QED BY <2>1, <2>2 DEF Controller
<1> HIDE DEF e
<1> QED BY <1>2, NoticeChanges, ZenonT(60) DEF e

LEMMA NoticeWithdrawn ==
  ASSUME NEW t, Ctl(t)
  PROVE  LET e == Unclaimed(t)
         IN  /\ Ctl(e) /\ Slot(e) = Slot(t) /\ (AtRest(t) => AtRest(e)) /\ e.db = t.db
             /\ e.active = t.active /\ e.watch = t.watch /\ e.device = t.device /\ e.cur = t.cur
<1>1. FALSE \in BOOLEAN
  OBVIOUS
<1> QED BY <1>1, NoticeSet DEF Unclaimed

LEMMA FloorTaken ==
  ASSUME NEW t, Ctl(t), t.db.held, NEW arm \in BOOLEAN
  PROVE  LET e == TookFloor(t, arm)
         IN  /\ Ctl(e) /\ Slot(e) = Slot(t) /\ (AtRest(t) => AtRest(e))
             /\ e.active = t.active /\ e.watch = t.watch /\ e.device = t.device
<1> DEFINE b == t.armed \/ arm
           g == [t EXCEPT !.mic = TRUE]
           e == TookFloor(t, arm)
<1>1. t \in Controller /\ b \in BOOLEAN
  BY DEF Ctl, Core
<1>2. /\ g \in Controller /\ g.db = t.db /\ g.cur = t.cur /\ g.idx = t.idx
      /\ g.active = t.active /\ g.watch = t.watch /\ g.device = t.device
      /\ g.stack = t.stack /\ g.armed = t.armed /\ g.cues = t.cues /\ g.raised = t.raised
  BY <1>1 DEF Controller
<1>3. e = [g EXCEPT !.armed = b]
  BY <1>2 DEF TookFloor
<1> HIDE DEF b, g
<1>4. /\ e \in Controller /\ e.db = t.db /\ e.cur = t.cur /\ e.idx = t.idx
      /\ e.active = t.active /\ e.watch = t.watch /\ e.device = t.device
      /\ e.stack = t.stack /\ e.cues = t.cues /\ e.raised = t.raised
  BY <1>1, <1>2, <1>3 DEF Controller
<1> HIDE DEF e
<1>5. Ctl(e) /\ Slot(e) = Slot(t) /\ (AtRest(t) => AtRest(e))
  BY <1>4, NoticeChanges
<1> QED BY <1>4, <1>5 DEF e

LEMMA ResumeArmed ==
  ASSUME NEW t, Ctl(t), t.db.held
  PROVE  LET e == [t EXCEPT !.armed = TRUE]
         IN  /\ Ctl(e) /\ Slot(e) = Slot(t) /\ (AtRest(t) => AtRest(e))
             /\ e.active = t.active /\ e.watch = t.watch /\ e.device = t.device
<1> DEFINE e == [t EXCEPT !.armed = TRUE]
<1>1. t \in Controller
  BY DEF Ctl, Core
<1>2. /\ e \in Controller /\ e.db = t.db /\ e.cur = t.cur /\ e.idx = t.idx
      /\ e.active = t.active /\ e.watch = t.watch /\ e.device = t.device
      /\ e.stack = t.stack /\ e.cues = t.cues /\ e.raised = t.raised
  BY <1>1 DEF Controller
<1> HIDE DEF e
<1>3. Ctl(e) /\ Slot(e) = Slot(t) /\ (AtRest(t) => AtRest(e))
  BY <1>2, NoticeChanges
<1> QED BY <1>2, <1>3 DEF e

LEMMA HoldKeeps ==
  ASSUME NEW t, Ctl(t)
  PROVE  LET r == Held(t)
         IN  /\ Ctl(r) /\ r.db.held /\ Slot(r) = Slot(t) /\ r.cur = t.cur
             /\ r.active = t.active /\ r.watch = t.watch
             /\ r.device.mode = t.device.mode
                \/ (t.device.mode = "sounding" /\ r.device.mode = "paused")
<1> DEFINE r == Held(t)
           d == [t.db EXCEPT !.held = TRUE]
           u == t.cur
           w == Slot(t)
<1>1. /\ t \in Controller /\ DbInv(t.db) /\ t.db \in Database
      /\ w[1] = u /\ w[2] = t.idx /\ u \in Utts \cup {Nobody}
      /\ t.device \in [mode : Modes, unit : Units \cup {Outro}]
      /\ ~t.cues /\ ~t.raised /\ t.active \in BOOLEAN
  BY StackTyped DEF Ctl, Core, DbInv, Slot
<1>2. DbInv(d) /\ d.state = t.db.state /\ d.child = t.db.child /\ d.jobs = t.db.jobs /\ d.held
  <2>1. TRUE \in BOOLEAN
    OBVIOUS
  <2> QED BY <1>1, <2>1, HeldInv DEF Advances, Database
<1> HIDE DEF d, w
<1>3. CASE CurrentState(t) # "Playing"
  <2>1. r = [t EXCEPT !.db = d]
    BY <1>3 DEF Held, d
  <2>2. /\ r \in Controller /\ r.db = d /\ r.cur = t.cur /\ r.idx = t.idx
        /\ r.active = t.active /\ r.watch = t.watch /\ r.device = t.device
        /\ r.stack = t.stack /\ r.mic = t.mic /\ r.armed = t.armed
        /\ r.cues = t.cues /\ r.raised = t.raised
    BY <1>1, <1>2, <2>1, WithRows DEF DbInv
  <2> HIDE DEF r
  <2>3. Core(r, r.cur)
    BY <1>1, <1>2, <2>2 DEF Ctl, Core, Single, Nested
  <2>4. CurrentState(r) = CurrentState(t) /\ Slot(r) = Slot(t)
    BY <1>2, <2>2 DEF CurrentState, Slot
  <2>5. Placed(r) /\ Fits(r)
    BY <1>2, <2>2, <2>4 DEF Ctl, Placed, Fits, Engaged, SessionOver
  <2>6. Saved(r)
    BY <1>2, <2>2, <2>4 DEF Ctl, Saved, IsNextUnfinished, Unfinished
  <2>7. Sounds(r)
    BY <1>2, <1>3, <2>2, <2>4 DEF Ctl, Sounds
  <2> QED BY <1>2, <2>2, <2>3, <2>4, <2>5, <2>6, <2>7 DEF Ctl, r
<1>4. CASE CurrentState(t) = "Playing"
  <2> DEFINE chunk == t.active /\ t.idx # Whole
             e == IF chunk THEN TransitionSegment(d, w, "Paused") ELSE d
             f == Transition(e, u, "Paused")
             m == IF t.active /\ t.device.mode = "sounding" THEN "paused" ELSE t.device.mode
             v == [t.device EXCEPT !.mode = m]
  <2>1. u \in Utts /\ t.db.state[u] = "Playing" /\ u # Nobody
    BY <1>1, <1>4, NobodyIsNone, StateFacts DEF CurrentState
  <2>2. t.active => /\ w \in Units /\ t.device.unit = w
                    /\ u \in Composite => t.db.child[w] = "Playing"
    BY <1>4 DEF Ctl, Fits, w
  <2>3. chunk => w \in Parts /\ t.db.child[w] = "Playing"
    BY <1>1, <2>2, UnitShape
  <2>4. r = [t EXCEPT !.db = f, !.device = v]
    <3>1. ~HoldRaises(t)
      BY InPlace DEF Ctl
    <3> QED BY <1>1, <1>4, <3>1 DEF Held, w, d, Controller
  <2>5. v \in [mode : Modes, unit : Units \cup {Outro}] /\ v.mode = m /\ v.unit = t.device.unit
    BY <1>1 DEF Modes
  <2>6. /\ DbInv(e) /\ e.state = t.db.state /\ e.jobs = t.db.jobs /\ e.held
        /\ chunk => e.child[w] = "Paused"
        /\ ~chunk => e.child = t.db.child
    <3>1. CASE chunk
      <4> DEFINE g == TransitionSegment(d, w, "Paused")
      <4>1. "Paused" \in PlaybackMoves /\ d.child[w] \in PlaybackStates
        BY <1>2, <2>3, <3>1, StateFacts DEF PlaybackMoves
      <4>2. DbInv(g) /\ g.state = d.state /\ g.child = [d.child EXCEPT ![w] = "Paused"]
        BY <1>2, <2>3, <3>1, <4>1, ChildMove
      <4>3. g.jobs = d.jobs /\ g.held = d.held
        BY <1>2 DEF TransitionSegment, DbInv, Database
      <4>4. e = g
        BY <3>1
      <4>5. g.child[w] = "Paused"
        BY <1>2, <2>3, <3>1, <4>2 DEF DbInv, Database
      <4> QED BY <1>2, <3>1, <4>2, <4>3, <4>4, <4>5
    <3>2. CASE ~chunk
      BY <1>2, <3>2
    <3> QED BY <3>1, <3>2
  <2> HIDE DEF e, chunk, v, m
  <2>7. /\ DbInv(f) /\ f.state = [t.db.state EXCEPT ![u] = "Paused"] /\ f.child = e.child
        /\ f.jobs = t.db.jobs /\ f.held
    <3>1. "Paused" \in PlaybackMoves /\ "Paused" \notin Terminal /\ e.state[u] \in PlaybackStates
      BY <2>1, <2>6, StateFacts DEF PlaybackMoves
    <3>2. f.held = e.held
      BY <2>6 DEF Transition, DbInv, Database
    <3> DEFINE to == "Paused"
    <3>3. f = Transition(e, u, to) /\ to \in PlaybackMoves /\ to \notin Terminal
      BY <3>1
    <3> HIDE DEF f, to
    <3>4. LET z == Transition(e, u, to)
          IN  DbInv(z) /\ z.state = [e.state EXCEPT ![u] = to] /\ z.child = e.child
              /\ z.jobs = e.jobs
      BY <2>1, <2>6, <3>1, <3>3, ParentMove
    <3> QED BY <2>6, <3>2, <3>3, <3>4 DEF to
  <2> HIDE DEF f
  <2>8. /\ r \in Controller /\ r.db = f /\ r.cur = t.cur /\ r.idx = t.idx
        /\ r.active = t.active /\ r.watch = t.watch /\ r.device = v
        /\ r.stack = t.stack /\ r.mic = t.mic /\ r.armed = t.armed
        /\ r.cues = t.cues /\ r.raised = t.raised
    BY <1>1, <2>4, <2>5, <2>7 DEF Controller, DbInv
  <2> HIDE DEF r
  <2>9. Single(f, u) /\ Nested(f, t.stack, u)
    <3>1. \A x \in Utts : f.state[x] = IF x = u THEN "Paused" ELSE t.db.state[x]
      BY <1>1, <2>7 DEF Database
    <3> QED BY <3>1 DEF Ctl, Core, Single, Nested
  <2>10. Core(r, r.cur)
    BY <1>1, <2>7, <2>8, <2>9 DEF Ctl, Core
  <2>11. CurrentState(r) = "Paused" /\ Slot(r) = w /\ Slot(t) = w
    BY <1>1, <2>1, <2>7, <2>8 DEF CurrentState, Slot, Database, w
  <2>12. Placed(r)
    BY <2>11 DEF Ctl, Placed
  <2>13. Fits(r)
    <3>1. CASE t.active
      <4>1. u \in Composite => chunk
        BY <1>1, <2>2, <3>1, UnitShape DEF chunk
      <4> QED BY <2>1, <2>2, <2>5, <2>6, <2>7, <2>8, <2>11, <3>1, <4>1 DEF Fits, Engaged
    <3>2. CASE ~t.active
      BY <2>5, <2>8, <3>2 DEF Ctl, Fits, SessionOver, m
    <3> QED BY <3>1, <3>2
  <2>14. Saved(r)
    BY <1>4, <2>8 DEF Ctl, Saved
  <2>15. Sounds(r)
    <3>1. t.device.mode = "sounding" => t.active
      BY DEF Ctl, Fits, SessionOver
    <3>2. m # "sounding"
      BY <3>1 DEF m
    <3> QED BY <2>5, <2>7, <2>8, <2>11, <3>2 DEF Sounds
  <2>16. m = t.device.mode \/ (t.device.mode = "sounding" /\ m = "paused")
    BY DEF m
  <2> QED BY <2>5, <2>7, <2>8, <2>10, <2>11, <2>12, <2>13, <2>14, <2>15, <2>16 DEF Ctl, r
<1> QED BY <1>3, <1>4

LEMMA RemovedAt ==
  ASSUME NEW S, NEW k \in Seq(S), NEW m \in DOMAIN k
  PROVE  LET r == RemoveAt(k, m)
         IN  /\ r \in Seq(S)
             /\ \A i \in DOMAIN r : \E j \in DOMAIN k \ {m} : r[i] = k[j]
             /\ \A i, j \in DOMAIN r : r[i] = r[j] /\ i # j =>
                  \E a, b \in DOMAIN k : a # b /\ k[a] = r[i] /\ k[b] = r[j]
             /\ \A j \in DOMAIN k \ {m} : \E i \in DOMAIN r : r[i] = k[j]
<1> DEFINE n == Len(k)
           a == SubSeq(k, 1, m - 1)
           b == SubSeq(k, m + 1, n)
           r == RemoveAt(k, m)
           from(i) == IF i < m THEN i ELSE i + 1
<1>1. n \in Nat /\ DOMAIN k = 1 .. n /\ m \in 1 .. n
  OBVIOUS
<1>2. a \in Seq(S) /\ Len(a) = m - 1 /\ \A i \in 1 .. m - 1 : a[i] = k[i]
  BY <1>1
<1>3. b \in Seq(S) /\ Len(b) = n - m /\ \A i \in 1 .. n - m : b[i] = k[m + i]
  BY <1>1
<1>4. r = a \o b
  BY DEF RemoveAt
<1> HIDE DEF a, b
<1>5. /\ r \in Seq(S) /\ Len(r) = n - 1
      /\ \A i \in 1 .. n - 1 : r[i] = IF i <= m - 1 THEN a[i] ELSE b[i - (m - 1)]
  <2>1. r \in Seq(S) /\ Len(r) = Len(a) + Len(b)
    BY <1>2, <1>3, <1>4, ConcatProperties, ZenonT(60)
  <2>2. m - 1 \in Nat /\ n - m \in Nat /\ (m - 1) + (n - m) = n - 1
    BY <1>1
  <2>3. \A i \in 1 .. Len(a) + Len(b) :
          (a \o b)[i] = IF i <= Len(a) THEN a[i] ELSE b[i - Len(a)]
    BY <1>2, <1>3, ConcatProperties
  <2> QED BY <1>2, <1>3, <1>4, <2>1, <2>2, <2>3
<1>6. DOMAIN r = 1 .. n - 1
  BY <1>5
<1> HIDE DEF r, n
<1>7. ASSUME NEW i \in DOMAIN r
      PROVE  from(i) \in DOMAIN k /\ from(i) # m /\ r[i] = k[from(i)]
  <2>1. i \in Nat /\ m \in Nat /\ i >= 1 /\ i <= n - 1
    BY <1>1, <1>6
  <2>2. CASE i < m
    BY <1>1, <1>2, <1>5, <1>6, <2>1, <2>2
  <2>3. CASE ~(i < m)
    <3>1. i - (m - 1) \in 1 .. n - m /\ m + (i - (m - 1)) = i + 1 /\ ~(i <= m - 1)
      BY <1>1, <2>1, <2>3
    <3>2. b[i - (m - 1)] = k[i + 1]
      BY <1>3, <3>1
    <3> QED BY <1>1, <1>5, <1>6, <2>1, <2>3, <3>1, <3>2
  <2> QED BY <2>2, <2>3
<1>8. ASSUME NEW i \in DOMAIN r, NEW j \in DOMAIN r, i # j PROVE from(i) # from(j)
  BY <1>1, <1>6, <1>8
<1>9. ASSUME NEW j \in DOMAIN k \ {m}
      PROVE  \E i \in DOMAIN r : from(i) = j
  <2>1. CASE j < m
    BY <1>1, <1>6, <2>1
  <2>2. CASE ~(j < m)
    <3>1. j - 1 \in DOMAIN r /\ from(j - 1) = j
      BY <1>1, <1>6, <2>2
    <3> QED BY <3>1
  <2> QED BY <2>1, <2>2
<1> HIDE DEF from
<1>10. \A i \in DOMAIN r : \E j \in DOMAIN k \ {m} : r[i] = k[j]
  BY <1>7
<1>11. \A i, j \in DOMAIN r : r[i] = r[j] /\ i # j =>
         \E c, d \in DOMAIN k : c # d /\ k[c] = r[i] /\ k[d] = r[j]
  BY <1>7, <1>8
<1>12. \A j \in DOMAIN k \ {m} : \E i \in DOMAIN r : r[i] = k[j]
  <2> TAKE j \in DOMAIN k \ {m}
  <2>1. PICK i \in DOMAIN r : from(i) = j
    BY <1>9
  <2> QED BY <1>7, <2>1
<1> QED BY <1>5, <1>10, <1>11, <1>12 DEF r

(* The hold is gone, the rows and the device still say that it is there.   *)
Lifted(t) ==
  /\ Core(t, t.cur) /\ Placed(t) /\ Fits(t) /\ ~t.db.held
  /\ t.device.mode = "sounding" => CurrentState(t) = "Playing"
  /\ t.device.mode = "paused" => CurrentState(t) = "Paused"
  /\ ~t.active /\ t.idx # Whole =>
       /\ CurrentState(t) = "Paused" /\ Slot(t) \in Parts
       /\ t.db.child[Slot(t)] = "Paused" /\ IsNextUnfinished(t.db, Slot(t))

LEMMA HoldIsLifted ==
  ASSUME NEW t, Ctl(t)
  PROVE  LET r == Unclaimed([Calm(t) EXCEPT !.db.held = FALSE])
         IN  /\ Lifted(r) /\ Slot(r) = Slot(t) /\ r.cur = t.cur
             /\ r.active = t.active /\ r.watch = t.watch /\ r.device = t.device
<1> DEFINE d == [t.db EXCEPT !.held = FALSE]
           r == Unclaimed([Calm(t) EXCEPT !.db.held = FALSE])
<1>1. t \in Controller /\ DbInv(t.db) /\ t.db \in Database /\ ~t.raised
  BY DEF Ctl, Core, DbInv
<1>2. /\ DbInv(d) /\ d \in Database /\ d.state = t.db.state /\ d.child = t.db.child
      /\ d.jobs = t.db.jobs /\ ~d.held
  <2>1. FALSE \in BOOLEAN
    OBVIOUS
  <2>2. Advances(t.db, d)
    BY <1>1, <2>1, HeldInv
  <2> QED BY <1>1, <2>2 DEF Advances, DbInv, Database
<1>3. r = [t EXCEPT !.db = d, !.mic = FALSE, !.armed = FALSE]
  <2>1. Calm(t) = t
    BY <1>1 DEF Calm, Controller
  <2> QED BY <1>1, <2>1 DEF Unclaimed
<1> HIDE DEF d
<1>4. /\ r \in Controller /\ r.db = d /\ r.cur = t.cur /\ r.idx = t.idx
      /\ r.active = t.active /\ r.watch = t.watch /\ r.device = t.device
      /\ r.stack = t.stack /\ r.mic = FALSE /\ r.armed = FALSE
      /\ r.cues = t.cues /\ r.raised = t.raised
  <2> DEFINE g == [t EXCEPT !.db = d]
             h == [g EXCEPT !.mic = FALSE]
  <2>1. /\ g \in Controller /\ g.db = d /\ g.cur = t.cur /\ g.idx = t.idx
        /\ g.active = t.active /\ g.watch = t.watch /\ g.device = t.device
        /\ g.stack = t.stack /\ g.cues = t.cues /\ g.raised = t.raised
    BY <1>1, <1>2, WithRows
  <2>2. r = [h EXCEPT !.armed = FALSE]
    BY <1>3
  <2> HIDE DEF g
  <2>3. /\ h \in Controller /\ h.db = d /\ h.cur = t.cur /\ h.idx = t.idx
        /\ h.active = t.active /\ h.watch = t.watch /\ h.device = t.device
        /\ h.stack = t.stack /\ h.mic = FALSE /\ h.cues = t.cues /\ h.raised = t.raised
    BY <2>1 DEF Controller
  <2> HIDE DEF h
  <2> QED BY <2>2, <2>3 DEF Controller
<1> HIDE DEF r
<1>5. Core(r, r.cur)
  BY <1>1, <1>2, <1>4 DEF Ctl, Core, Single, Nested
<1>6. CurrentState(r) = CurrentState(t) /\ Slot(r) = Slot(t)
  BY <1>2, <1>4 DEF CurrentState, Slot
<1>7. Placed(r) /\ Fits(r)
  BY <1>2, <1>4, <1>6 DEF Ctl, Placed, Fits, Engaged, SessionOver
<1>8. ~r.active /\ r.idx # Whole =>
        /\ CurrentState(r) = "Paused" /\ Slot(r) \in Parts
        /\ r.db.child[Slot(r)] = "Paused" /\ IsNextUnfinished(r.db, Slot(r))
  BY <1>2, <1>4, <1>6 DEF Ctl, Saved, IsNextUnfinished, Unfinished
<1>9. /\ r.device.mode = "sounding" => CurrentState(r) = "Playing"
      /\ r.device.mode = "paused" => CurrentState(r) = "Paused"
  BY <1>4, <1>6 DEF Ctl, Sounds
<1> QED BY <1>2, <1>4, <1>5, <1>6, <1>7, <1>8, <1>9 DEF Lifted, r

LEMMA Adopting ==
  ASSUME NEW t, Lifted(t)
  PROVE  LET r == Adopted(t)
         IN  /\ Lifted(r)
             /\ r.active = t.active /\ r.watch = t.watch /\ r.device = t.device
             /\ t.active => Slot(r) = Slot(t)
<1> DEFINE u == First(t.db, Paused(t.db))
           places == {k \in DOMAIN t.stack : t.stack[k][1] = u}
           m == CHOOSE k \in places : TRUE
           k == RemoveAt(t.stack, m)
           r == Adopted(t)
<1>1. CASE ~(t.cur = Nobody /\ Paused(t.db) # {})
  <2>1. r = t
    BY <1>1 DEF Adopted
  <2> QED BY <2>1
<1>2. CASE t.cur = Nobody /\ Paused(t.db) # {}
  <2>1. t \in Controller /\ t.db \in Database /\ t.stack \in Seq(Slots)
    BY StackTyped DEF Lifted, Core
  <2>2. ~t.active /\ ~t.watch /\ SessionOver(t) /\ t.idx = Whole
    BY <1>2, SlotShape, NobodyIsNone DEF Lifted, Fits, Placed, Slot
  <2>3. u \in Utts /\ t.db.state[u] = "Paused"
    <3>1. Paused(t.db) \in SUBSET Utts
      BY DEF Paused
    <3>2. u \in Paused(t.db)
      BY <1>2, <2>1, <3>1, FirstIsOne
    <3> QED BY <3>2 DEF Paused
  <2> HIDE DEF u
  <2>4. /\ \A i \in DOMAIN t.stack : t.stack[i][1] \in Utts /\ t.db.state[t.stack[i][1]] = "Paused"
        /\ \A i, j \in DOMAIN t.stack : t.stack[i][1] = t.stack[j][1] => i = j
        /\ \A v \in Utts : t.db.state[v] = "Paused" => \E i \in DOMAIN t.stack : t.stack[i][1] = v
    BY <1>2, NobodyIsNone DEF Lifted, Core, Nested
  <2>5. places # {}
    BY <2>3, <2>4
  <2>6. m \in DOMAIN t.stack /\ t.stack[m][1] = u
    BY <2>5
  <2>7. r = [t EXCEPT !.cur = u, !.stack = k]
    BY <1>2, <2>5 DEF Adopted, u
  <2> HIDE DEF m, places
  <2>8. /\ k \in Seq(Slots)
        /\ \A i \in DOMAIN k : \E j \in DOMAIN t.stack \ {m} : k[i] = t.stack[j]
        /\ \A i, j \in DOMAIN k : k[i] = k[j] /\ i # j =>
             \E a, b \in DOMAIN t.stack : a # b /\ t.stack[a] = k[i] /\ t.stack[b] = k[j]
        /\ \A j \in DOMAIN t.stack \ {m} : \E i \in DOMAIN k : k[i] = t.stack[j]
    <3> DEFINE z == t.stack
    <3>1. z \in Seq(Slots) /\ m \in DOMAIN z
      BY <2>1, <2>6
    <3> HIDE DEF z, k
    <3>2. LET q == RemoveAt(z, m)
          IN  /\ q \in Seq(Slots)
              /\ \A i \in DOMAIN q : \E j \in DOMAIN z \ {m} : q[i] = z[j]
              /\ \A i, j \in DOMAIN q : q[i] = q[j] /\ i # j =>
                   \E a, b \in DOMAIN z : a # b /\ z[a] = q[i] /\ z[b] = q[j]
              /\ \A j \in DOMAIN z \ {m} : \E i \in DOMAIN q : q[i] = z[j]
      BY <3>1, RemovedAt
    <3> QED BY <3>2 DEF z, k
  <2> HIDE DEF k
  <2>9. /\ r \in Controller /\ r.db = t.db /\ r.cur = u /\ r.idx = t.idx
        /\ r.active = t.active /\ r.watch = t.watch /\ r.device = t.device
        /\ r.stack = k /\ r.mic = t.mic /\ r.armed = t.armed
        /\ r.cues = t.cues /\ r.raised = t.raised
    <3> DEFINE g == [t EXCEPT !.cur = u]
    <3>1. /\ g \in Controller /\ g.db = t.db /\ g.cur = u /\ g.idx = t.idx
          /\ g.active = t.active /\ g.watch = t.watch /\ g.device = t.device
          /\ g.stack = t.stack /\ g.mic = t.mic /\ g.armed = t.armed
          /\ g.cues = t.cues /\ g.raised = t.raised
      BY <2>1, <2>3 DEF Controller
    <3>2. r = [g EXCEPT !.stack = k]
      BY <2>7
    <3> HIDE DEF g
    <3> QED BY <2>8, <3>1, <3>2 DEF Controller
  <2> HIDE DEF r
  <2>10. Single(t.db, u)
    BY <1>2, NobodyIsNone DEF Lifted, Core, Single
  <2>11. Nested(t.db, k, u)
    <3>1. \A i \in DOMAIN k : k[i][1] \in Utts /\ t.db.state[k[i][1]] = "Paused" /\ k[i][1] # u
      BY <2>4, <2>6, <2>8
    <3>2. ASSUME NEW i \in DOMAIN k, NEW j \in DOMAIN k, k[i][1] = k[j][1], i # j PROVE FALSE
      <4>1. PICK a \in DOMAIN t.stack \ {m} : k[i] = t.stack[a]
        BY <2>8
      <4>2. PICK b \in DOMAIN t.stack \ {m} : k[j] = t.stack[b]
        BY <2>8
      <4>3. a = b
        BY <2>4, <3>2, <4>1, <4>2
      <4>4. k[i] = k[j]
        BY <4>1, <4>2, <4>3
      <4>5. \E x, y \in DOMAIN t.stack : x # y /\ t.stack[x] = k[i] /\ t.stack[y] = k[j]
        BY <2>8, <3>2, <4>4
      <4> QED BY <2>4, <3>2, <4>5
    <3>3. ASSUME NEW v \in Utts, t.db.state[v] = "Paused", v # u
          PROVE  \E i \in DOMAIN k : k[i][1] = v
      <4>1. PICK j \in DOMAIN t.stack : t.stack[j][1] = v
        BY <2>4, <3>3
      <4>2. j # m
        BY <2>6, <3>3, <4>1
      <4> QED BY <2>8, <4>1, <4>2
    <3> QED BY <3>1, <3>2, <3>3 DEF Nested
  <2>12. Core(r, r.cur)
    BY <2>9, <2>10, <2>11 DEF Lifted, Core
  <2>13. Placed(r)
    BY <2>2, <2>3, <2>9, SlotShape DEF Placed, Slot
  <2>14. Fits(r) /\ ~(r.device.mode \in {"sounding", "paused"})
    BY <2>2, <2>9 DEF Fits, SessionOver
  <2> QED BY <2>2, <2>9, <2>12, <2>13, <2>14 DEF Lifted, r
<1> QED BY <1>1, <1>2

(* Two chunks are not both next.                                           *)
LEMMA OnlyNext ==
  ASSUME NEW d, NEW p \in Parts, NEW q \in Parts, p[1] = q[1],
         IsNextUnfinished(d, p), IsNextUnfinished(d, q)
  PROVE  p = q
<1>1. p[2] <= q[2] /\ q[2] <= p[2]
  BY DEF IsNextUnfinished
<1>2. p[2] \in Nat /\ q[2] \in Nat
  BY UnitShape
<1>3. p = <<p[1], p[2]>> /\ q = <<q[1], q[2]>>
  BY SlotShape, UnitShape
<1> QED BY <1>1, <1>2, <1>3

LEMMA Continues ==
  ASSUME Undisturbed, NEW t, Lifted(t)
  PROVE  LET r == Continued(t)
         IN  /\ Ctl(r)
             /\ t.active => /\ r.active /\ r.watch = t.watch /\ Slot(r) = Slot(t)
                            /\ r.device.mode = t.device.mode
                               \/ (t.device.mode = "paused" /\ r.device.mode = "sounding")
             /\ ~t.active => AtRest(r)
<1> DEFINE u == t.cur
           w == Slot(t)
           r == Continued(t)
           p == NextChunk(t.db, u)
<1>1. /\ t \in Controller /\ DbInv(t.db) /\ t.db \in Database
      /\ w[1] = u /\ w[2] = t.idx /\ u \in Utts \cup {Nobody}
      /\ t.device \in [mode : Modes, unit : Units \cup {Outro}]
      /\ ~t.cues /\ ~t.raised /\ t.active \in BOOLEAN
  BY StackTyped DEF Lifted, Core, DbInv, Slot
<1>2. /\ CurrentState(t) = "Paused" =>
           u \in Utts /\ t.db.state[u] = "Paused" /\ u # Nobody
      /\ ~t.active => Quiet(t, u)
  BY <1>1, NobodyIsNone, StateFacts DEF CurrentState, Lifted, Fits, Quiet
<1> HIDE DEF w
<1>3. CASE CurrentState(t) # "Paused"
  <2>1. r = t
    BY <1>3, ZenonT(30) DEF Continued
  <2>2. Ctl(t)
    BY <1>3 DEF Ctl, Lifted, Saved, Sounds
  <2>3. ~t.active => AtRest(t)
    BY DEF Lifted, Fits, AtRest, SessionOver
  <2> QED BY <2>1, <2>2, <2>3
<1>4. CASE CurrentState(t) = "Paused" /\ t.active
  <2> DEFINE d == IF t.idx # Whole THEN TransitionSegment(t.db, w, "Playing") ELSE t.db
             e == Transition(d, u, "Playing")
             m == IF t.device.mode = "paused" THEN "sounding" ELSE t.device.mode
             v == [t.device EXCEPT !.mode = m]
  <2>1. /\ w \in Units /\ t.device.unit = w
        /\ u \in Composite => t.db.child[w] = "Paused"
    BY <1>4 DEF Lifted, Fits, w
  <2>2. t.idx # Whole => w \in Parts /\ t.db.child[w] = "Paused"
    BY <1>1, <2>1, UnitShape
  <2>3. r = [t EXCEPT !.db = e, !.device = v]
    <3>1. r = [t EXCEPT !.db = e, !.device.mode = IF @ = "paused" THEN "sounding" ELSE @]
      <4>1. ~Misplaced(t)
        BY <2>2 DEF Misplaced, w
      <4> QED BY <1>1, <1>4, <4>1, ZenonT(30) DEF Continued, w
    <3> HIDE DEF e
    <3> QED BY <1>1, <3>1 DEF Controller
  <2>4. v \in [mode : Modes, unit : Units \cup {Outro}] /\ v.mode = m /\ v.unit = t.device.unit
    BY <1>1 DEF Modes
  <2>5. /\ DbInv(d) /\ d.state = t.db.state /\ d.jobs = t.db.jobs /\ d.held = t.db.held
        /\ t.idx # Whole => d.child[w] = "Playing"
    <3>1. CASE t.idx # Whole
      <4> DEFINE g == TransitionSegment(t.db, w, "Playing")
      <4>1. DbInv(g) /\ g.state = t.db.state /\ g.child = [t.db.child EXCEPT ![w] = "Playing"]
            /\ g.jobs = t.db.jobs /\ g.held = t.db.held
        BY <1>1, <2>2, <3>1, PlayingChunk
      <4>2. g.child[w] = "Playing"
        BY <1>1, <2>2, <3>1, <4>1 DEF Database
      <4> QED BY <3>1, <4>1, <4>2
    <3>2. CASE t.idx = Whole
      BY <1>1, <3>2
    <3> QED BY <3>1, <3>2
  <2> HIDE DEF d, v, m
  <2>6. /\ DbInv(e) /\ e.state = [t.db.state EXCEPT ![u] = "Playing"] /\ e.child = d.child
        /\ e.jobs = t.db.jobs /\ e.held = t.db.held
    BY <1>2, <1>4, <2>5, PlayingRow
  <2> HIDE DEF e
  <2>7. /\ r \in Controller /\ r.db = e /\ r.cur = t.cur /\ r.idx = t.idx
        /\ r.active = t.active /\ r.watch = t.watch /\ r.device = v
        /\ r.stack = t.stack /\ r.mic = t.mic /\ r.armed = t.armed
        /\ r.cues = t.cues /\ r.raised = t.raised
    BY <1>1, <2>3, <2>4, <2>6 DEF Controller, DbInv
  <2> HIDE DEF r
  <2>8. Single(e, u) /\ Nested(e, t.stack, u)
    BY <1>1, <1>2, <1>4, <2>6, NowPlaying DEF Lifted, Core
  <2>9. Core(r, r.cur)
    BY <2>6, <2>7, <2>8 DEF Lifted, Core
  <2>10. CurrentState(r) = "Playing" /\ Slot(r) = w /\ Slot(t) = w
    BY <1>1, <1>2, <1>4, <2>6, <2>7 DEF CurrentState, Slot, Database, w
  <2>11. Placed(r) /\ Saved(r)
    BY <1>4, <2>7, <2>10 DEF Lifted, Placed, Saved
  <2>12. Fits(r)
    <3>1. u \in Composite => t.idx # Whole
      BY <1>1, <2>1, UnitShape
    <3> QED BY <1>2, <1>4, <2>1, <2>4, <2>5, <2>6, <2>7, <2>10, <3>1 DEF Fits, Engaged
  <2>13. Sounds(r)
    <3>1. m # "paused"
      BY DEF m
    <3> QED BY <2>4, <2>6, <2>7, <2>10, <3>1 DEF Sounds, Lifted
  <2>14. m = t.device.mode \/ (t.device.mode = "paused" /\ m = "sounding")
    BY DEF m
  <2> QED BY <1>4, <2>4, <2>7, <2>9, <2>10, <2>11, <2>12, <2>13, <2>14 DEF Ctl, r
<1>5. CASE CurrentState(t) = "Paused" /\ ~t.active /\ HasNext(t.db, u)
  <2>1. u \in Utts /\ t.db.state[u] = "Paused" /\ Quiet(t, u) /\ ~t.db.held
    BY <1>2, <1>5 DEF Lifted
  <2>2. p \in Parts /\ p[1] = u /\ IsNextUnfinished(t.db, p)
    BY <1>5, <2>1, NextChunkIsOpen
  <2>3. CASE NextIs(t.db, u, {"Paused"}) /\ Has(t.db, p)
    <3> DEFINE f == BeginChunk(t, p)
    <3>1. r = f
      BY <1>5, <2>3, ZenonT(30) DEF Continued
    <3>2. t.db.child[p] = "Paused"
      BY <2>3 DEF NextIs
    <3> HIDE DEF p
    <3>3. Ctl(f) /\ f.watch /\ f.device.mode = "sounding"
      BY <2>1, <2>2, <3>2, ChunkBegins
    <3> HIDE DEF f
    <3> QED BY <1>5, <3>1, <3>3 DEF AtRest
  <2>4. CASE ~(NextIs(t.db, u, {"Paused"}) /\ Has(t.db, p))
    <3> DEFINE e == Transition(t.db, u, "Playing")
               q == [t EXCEPT !.db = e]
    <3>1. r = q
      BY <1>5, <2>4, ZenonT(30) DEF Continued
    <3>2. t.idx = Whole
      <4> SUFFICES ASSUME t.idx # Whole PROVE FALSE
        OBVIOUS
      <4>1. w \in Parts /\ t.db.child[w] = "Paused" /\ IsNextUnfinished(t.db, w)
        BY <1>5 DEF Lifted, w
      <4>2. w = p
        BY <1>1, <2>2, <4>1, OnlyNext
      <4>3. w \in Units /\ UnitState(t.db, w) = "Paused"
        BY <4>1, UnitShape DEF UnitState
      <4>4. Has(t.db, w)
        BY <1>1, <4>3, StateFacts DEF DbInv, Audible, Has
      <4>5. NextIs(t.db, u, {"Paused"})
        BY <1>5, <4>1, <4>2 DEF NextIs
      <4> QED BY <2>4, <4>2, <4>4, <4>5
    <3>3. /\ DbInv(e) /\ e.state = [t.db.state EXCEPT ![u] = "Playing"]
          /\ e.jobs = t.db.jobs /\ e.held = t.db.held
      BY <1>1, <2>1, PlayingRow
    <3> HIDE DEF e
    <3>4. Quiet(q, u) /\ q.cur = u /\ q.idx = Whole
      BY <1>1, <2>1, <3>2, <3>3, QuietRows DEF Database
    <3> HIDE DEF q
    <3>5. Ctl(q) /\ AtRest(q)
      BY <3>4, Settles DEF AtRest, Quiet, SessionOver
    <3> QED BY <1>5, <3>1, <3>5
  <2> QED BY <2>3, <2>4
<1>6. CASE CurrentState(t) = "Paused" /\ ~t.active /\ ~HasNext(t.db, u)
  <2>1. u \in Utts /\ t.db.state[u] = "Paused" /\ Quiet(t, u) /\ ~t.db.held
    BY <1>2, <1>6 DEF Lifted
  <2>2. t.idx = Whole
    <3> SUFFICES ASSUME t.idx # Whole PROVE FALSE
      OBVIOUS
    <3>1. w \in Unfinished(t.db, u)
      BY <1>1, <1>6 DEF Lifted, IsNextUnfinished, w
    <3> QED BY <1>6, <3>1 DEF HasNext
  <2>3. CASE Has(t.db, <<u, Whole>>)
    <3> DEFINE f == BeginWhole(t, u)
    <3>1. r = f
      BY <1>6, <2>3, ZenonT(30) DEF Continued
    <3>2. <<u, Whole>> \in Units
      BY <1>1, <2>3 DEF Has, Database
    <3>3. u \notin Composite
      BY <3>2, UnitShape
    <3>4. Ctl(f) /\ f.watch /\ f.device.mode = "sounding"
      BY <2>1, <2>2, <3>3, WholeBegins
    <3> HIDE DEF f
    <3> QED BY <1>6, <3>1, <3>4 DEF AtRest
  <2>4. CASE ~Has(t.db, <<u, Whole>>)
    <3>1. r = t
      BY <1>6, <2>4, ZenonT(30) DEF Continued
    <3>2. Ctl(t) /\ AtRest(t)
      BY <2>1, <2>2, Settles DEF AtRest, Quiet, SessionOver
    <3> QED BY <1>6, <3>1, <3>2
  <2> QED BY <2>3, <2>4
<1> QED BY <1>1, <1>3, <1>4, <1>5, <1>6

LEMMA Resumes ==
  ASSUME Undisturbed, NEW t, Ctl(t)
  PROVE  LET r == Resumed(t)
         IN  /\ Ctl(r)
             /\ t.active => /\ r.active /\ r.watch = t.watch /\ Slot(r) = Slot(t)
                            /\ r.device.mode = t.device.mode
                               \/ (t.device.mode = "paused" /\ r.device.mode = "sounding")
             /\ ~t.active => AtRest(r)
<1> DEFINE d == Unclaimed([Calm(t) EXCEPT !.db.held = FALSE])
           e == Adopted(d)
           f == Continued(e)
<1>1. /\ Lifted(d) /\ Slot(d) = Slot(t)
      /\ d.active = t.active /\ d.watch = t.watch /\ d.device = t.device
  BY HoldIsLifted
<1>2. Resumed(t) = f
  BY DEF Resumed
<1> HIDE DEF d
<1>3. /\ Lifted(e) /\ e.active = d.active /\ e.watch = d.watch /\ e.device = d.device
      /\ d.active => Slot(e) = Slot(d)
  BY <1>1, Adopting
<1> HIDE DEF e
<1>4. /\ Ctl(f)
      /\ e.active => /\ f.active /\ f.watch = e.watch /\ Slot(f) = Slot(e)
                     /\ f.device.mode = e.device.mode
                        \/ (e.device.mode = "paused" /\ f.device.mode = "sounding")
      /\ ~e.active => AtRest(f)
  BY <1>3, Continues
<1> HIDE DEF f
<1> QED BY <1>1, <1>2, <1>3, <1>4

-----------------------------------------------------------------------------
(* The daemon comes back.                                                  *)

(* Read from its end, a plan without ties has every place filled, once.    *)
LEMMA PlanFromTheEnd ==
  ASSUME NEW d, d \in Database, NEW rows \in SUBSET Utts,
         \A u, v \in rows : d.order[u] = d.order[v] => u = v
  PROVE  LET N == 1 .. Cardinality(rows)
         IN  /\ Cardinality(rows) \in Nat
             /\ \A n \in N : FromTheEnd(d, rows, n) \in rows
             /\ \A n, m \in N : FromTheEnd(d, rows, n) = FromTheEnd(d, rows, m) => n = m
             /\ \A u \in rows : \E n \in N : FromTheEnd(d, rows, n) = u
<1> DEFINE after(u) == {v \in rows : d.order[v] >= d.order[u]}
           rank == [u \in rows |-> Cardinality(after(u))]
           c == Cardinality(rows)
           N == 1 .. c
<1>1. IsFiniteSet(rows) /\ c \in Nat
  <2>1. IsFiniteSet(rows)
    BY PlaybackAssumption, FS_Subset
  <2> QED BY <2>1, FS_CardinalityType
<1>2. \A u \in rows : d.order[u] \in Int
  BY DEF Database
<1>3. \A u \in rows : u \in after(u) /\ after(u) \in SUBSET rows
  BY <1>2
<1>4. \A u \in rows : IsFiniteSet(after(u)) /\ Cardinality(after(u)) \in Nat /\ Cardinality(after(u)) <= c
  BY <1>1, <1>3, FS_Subset, FS_CardinalityType
<1>5. ASSUME NEW u \in rows PROVE rank[u] \in N
  <2>1. Cardinality(after(u)) # 0
    BY <1>3, <1>4, FS_EmptySet
  <2> HIDE DEF after
  <2> QED BY <1>1, <1>4, <2>1
<1>6. ASSUME NEW u \in rows, NEW v \in rows, d.order[u] < d.order[v] PROVE rank[u] # rank[v]
  <2>1. after(v) \in SUBSET after(u) /\ u \in after(u) /\ u \notin after(v)
    BY <1>2, <1>6
  <2>2. Cardinality(after(u)) = Cardinality(after(v)) => after(u) = after(v)
    BY <1>4, <2>1, FS_Subset
  <2> QED BY <2>1, <2>2
<1>7. ASSUME NEW u \in rows, NEW v \in rows, rank[u] = rank[v] PROVE u = v
  <2>1. d.order[u] \in Int /\ d.order[v] \in Int
    BY <1>2
  <2>2. ~(d.order[u] < d.order[v]) /\ ~(d.order[v] < d.order[u])
    BY <1>6, <1>7
  <2>3. d.order[u] = d.order[v]
    BY <2>1, <2>2
  <2> QED BY <2>3
<1>8. \A n : FromTheEnd(d, rows, n) = CHOOSE u \in rows : rank[u] = n
  BY DEF FromTheEnd
<1> HIDE DEF rank, after
<1>9. rank \in Injection(rows, N)
  <2>1. rank \in [rows -> N]
    BY <1>5 DEF rank
  <2> QED BY <1>7, <2>1 DEF Injection, IsInjective
<1>10. IsFiniteSet(N) /\ Cardinality(N) = c
  <2>1. 1 \in Int /\ c \in Int
    BY <1>1
  <2> HIDE DEF c
  <2>2. IsFiniteSet(1 .. c) /\ Cardinality(1 .. c) = IF 1 > c THEN 0 ELSE c - 1 + 1
    BY <2>1, FS_Interval
  <2> QED BY <1>1, <2>2 DEF c
<1>11. rank \in Surjection(rows, N)
  BY <1>9, <1>10, FS_Injection
<1>12. \A n \in N : \E u \in rows : rank[u] = n
  BY <1>11 DEF Surjection
<1>13. ASSUME NEW n \in N
       PROVE  FromTheEnd(d, rows, n) \in rows /\ rank[FromTheEnd(d, rows, n)] = n
  BY <1>8, <1>12
<1>14. ASSUME NEW u \in rows PROVE \E n \in N : FromTheEnd(d, rows, n) = u
  <2>1. rank[u] \in N
    BY <1>5
  <2>2. FromTheEnd(d, rows, rank[u]) = u
    BY <1>7, <1>13, <2>1
  <2> QED BY <2>1, <2>2
<1> HIDE DEF c
<1>15. \A n, m \in N : FromTheEnd(d, rows, n) = FromTheEnd(d, rows, m) => n = m
  BY <1>13
<1> QED BY <1>1, <1>13, <1>14, <1>15 DEF c

LEMMA SavedSlots ==
  ASSUME NEW d \in Database, NEW u \in Utts
  PROVE  LET w == SavedSlot(d, u)
         IN  /\ w \in Slots /\ w[1] = u /\ w[2] \in Nat \cup {Whole} /\ w = <<u, w[2]>>
             /\ w[2] # Whole => w \in Parts /\ d.child[w] = "Paused" /\ IsNextUnfinished(d, w)
<1> DEFINE w == SavedSlot(d, u)
<1>1. CASE NextIs(d, u, {"Paused"})
  <2>1. w = NextChunk(d, u) /\ HasNext(d, u) /\ d.child[NextChunk(d, u)] = "Paused"
    BY <1>1 DEF SavedSlot, NextIs
  <2>2. w \in Parts /\ w[1] = u /\ IsNextUnfinished(d, w) /\ d.child[w] = "Paused"
    BY <2>1, NextChunkIsOpen
  <2> HIDE DEF w
  <2>3. w \in Slots
    BY <2>2, SlotShape, UnitShape
  <2>4. w[2] \in Nat \cup {Whole} /\ w = <<w[1], w[2]>>
    BY <2>3, SlotShape
  <2> QED BY <2>2, <2>3, <2>4 DEF w
<1>2. CASE ~NextIs(d, u, {"Paused"})
  <2>1. w = <<u, Whole>>
    BY <1>2 DEF SavedSlot
  <2> QED BY <2>1, SlotShape
<1> QED BY <1>1, <1>2

LEMMA ComesBack ==
  ASSUME NEW t, DbInv(t.db), t.mic \in BOOLEAN
  PROVE  LET r == Reborn(t)
         IN  Ctl(r) /\ AtRest(r)
<1> DEFINE d == Recovered(t.db)
           adopt == d.held /\ Paused(d) # {}
           first == First(d, Paused(d))
           others == IF adopt THEN Paused(d) \ {first} ELSE Paused(d)
           N == 1 .. Cardinality(others)
           k == [n \in N |-> SavedSlot(d, FromTheEnd(d, others, n))]
           x == IF adopt THEN first ELSE Nobody
           i == IF adopt THEN SavedSlot(d, first)[2] ELSE Whole
           v == [mode |-> "idle", unit |-> Outro]
           m == t.mic /\ d.held
           r == Reborn(t)
<1>1. /\ DbInv(d) /\ d \in Database /\ d.jobs = {} /\ d.held \in BOOLEAN
      /\ \A u \in Utts : d.state[u] # "Playing"
  BY RecoveredInv DEF DbInv, Database
<1> DEFINE e == [db |-> d, cur |-> x, idx |-> i, active |-> FALSE, watch |-> FALSE, device |-> v,
                 stack |-> k, mic |-> m, armed |-> FALSE, cues |-> FALSE, raised |-> FALSE]
<1>2. r = e
  BY DEF Reborn
<1> HIDE DEF d
<1>3. Paused(d) \in SUBSET Utts /\ \A u \in Paused(d) : IsLive(d, u)
  BY StateFacts DEF Paused, IsLive
<1>4. adopt => first \in Paused(d)
  BY <1>1, <1>3, FirstIsOne
<1> HIDE DEF first
<1>5. /\ others \in SUBSET Utts
      /\ \A u \in others : u \in Paused(d) /\ u # x
      /\ \A u \in Paused(d) : u = x \/ u \in others
  BY <1>3, NobodyIsNone
<1>6. \A u, w \in others : d.order[u] = d.order[w] => u = w
  BY <1>1, <1>3, <1>5 DEF DbInv, Ordered
<1>7. x \in Utts \cup {Nobody} /\ i \in Nat \cup {Whole}
      /\ (i # Whole => adopt /\ d.state[x] = "Paused" /\ x \in Utts /\ <<x, i>> \in Parts
                       /\ d.child[<<x, i>>] = "Paused" /\ IsNextUnfinished(d, <<x, i>>))
      /\ <<x, i>> \in Slots \cup {<<Nobody, Whole>>}
  <2>1. CASE adopt
    <3>1. x = first /\ x \in Utts /\ d.state[x] = "Paused"
      BY <1>4, <2>1 DEF Paused
    <3> DEFINE w == SavedSlot(d, first)
    <3>2. /\ w \in Slots /\ w[1] = x /\ w[2] \in Nat \cup {Whole} /\ w = <<x, w[2]>>
          /\ w[2] # Whole => w \in Parts /\ d.child[w] = "Paused" /\ IsNextUnfinished(d, w)
      BY <1>1, <3>1, SavedSlots
    <3>3. i = w[2]
      BY <2>1
    <3> HIDE DEF w, i, x, adopt
    <3> QED BY <2>1, <3>1, <3>2, <3>3
  <2>2. CASE ~adopt
    BY <2>2
  <2> QED BY <2>1, <2>2
<1> HIDE DEF others
<1>8. /\ Cardinality(others) \in Nat
      /\ \A n \in N : FromTheEnd(d, others, n) \in others
      /\ \A n, h \in N : FromTheEnd(d, others, n) = FromTheEnd(d, others, h) => n = h
      /\ \A u \in others : \E n \in N : FromTheEnd(d, others, n) = u
  BY <1>1, <1>5, <1>6, PlanFromTheEnd
<1>9. \A n \in N : k[n] \in Slots /\ k[n][1] = FromTheEnd(d, others, n)
  <2> TAKE n \in N
  <2>1. FromTheEnd(d, others, n) \in Utts
    BY <1>5, <1>8
  <2> QED BY <1>1, <2>1, SavedSlots
<1>10. k \in Seq(Slots) /\ DOMAIN k = N
  <2>1. k \in [N -> Slots]
    BY <1>9
  <2> HIDE DEF k
  <2> QED BY <1>8, <2>1
<1>11. Nested(d, k, x)
  <2> HIDE DEF k, N, x
  <2>1. \A n \in DOMAIN k : k[n][1] \in Utts /\ d.state[k[n][1]] = "Paused" /\ k[n][1] # x
    BY <1>3, <1>5, <1>8, <1>9, <1>10 DEF Paused
  <2>2. \A n, h \in DOMAIN k : k[n][1] = k[h][1] => n = h
    BY <1>8, <1>9, <1>10
  <2>3. ASSUME NEW u \in Utts, d.state[u] = "Paused", u # x PROVE \E n \in DOMAIN k : k[n][1] = u
    <3>1. u \in others
      BY <1>5, <2>3 DEF Paused
    <3> QED BY <1>8, <1>9, <1>10, <3>1
  <2> QED BY <2>1, <2>2, <2>3 DEF Nested
<1>12. Single(d, x)
  BY <1>1 DEF Single
<1>13. v \in [mode : Modes, unit : Units \cup {Outro}] /\ v.mode = "idle"
  BY DEF Modes
<1>14. m \in BOOLEAN /\ (m => d.held)
  BY <1>1
<1>15. x # Nobody \/ i = Whole
  BY <1>7, NobodyIsNone
<1> DEFINE held == adopt => d.held
<1>16. held
  OBVIOUS
<1> HIDE DEF k, x, i, v, m, adopt
<1>17. /\ e \in Controller /\ e.db = d /\ e.cur = x /\ e.idx = i
       /\ e.active = FALSE /\ e.watch = FALSE /\ e.device = v /\ e.stack = k
       /\ e.mic = m /\ e.armed = FALSE /\ e.cues = FALSE /\ e.raised = FALSE
  BY <1>1, <1>7, <1>10, <1>13, <1>14 DEF Controller
<1> HIDE DEF e
<1>18. Core(e, e.cur)
  BY <1>1, <1>11, <1>12, <1>14, <1>17 DEF Core
<1>19. Placed(e) /\ Slot(e) = <<x, i>>
  BY <1>7, <1>17 DEF Placed, Slot
<1>20. Saved(e)
  BY <1>7, <1>16, <1>17, <1>19, NobodyIsNone DEF Saved, CurrentState
<1>21. Fits(e) /\ Sounds(e) /\ AtRest(e)
  BY <1>13, <1>17 DEF Fits, Sounds, AtRest, SessionOver
<1>22. Ctl(e) /\ AtRest(e)
  BY <1>18, <1>19, <1>20, <1>21 DEF Ctl
<1> QED BY <1>2, <1>22

-----------------------------------------------------------------------------
(* The device, and the handlers that wait for it.                          *)
LEMMA DeviceMoves ==
  ASSUME NEW t, Ctl(t), t.active, NEW r \in Controller,
         r.db = t.db, r.cur = t.cur, r.idx = t.idx, r.active = t.active, r.stack = t.stack,
         r.mic = t.mic, r.armed = t.armed, r.cues = t.cues, r.raised = t.raised,
         r.device.unit = t.device.unit,
         r.device.mode = t.device.mode \/ r.device.mode \in {"idle", "ended", "broken", "stopping"}
  PROVE  Ctl(r) /\ Slot(r) = Slot(t)
<1>1. Slot(r) = Slot(t) /\ CurrentState(r) = CurrentState(t)
  BY DEF Slot, CurrentState
<1>2. Core(r, r.cur)
  BY DEF Ctl, Core
<1>3. Placed(r) /\ Fits(r) /\ Saved(r) /\ Sounds(r)
  BY <1>1 DEF Ctl, Placed, Fits, Engaged, Saved, Sounds
<1> QED BY <1>1, <1>2, <1>3 DEF Ctl

LEMMA Unwatches ==
  ASSUME NEW t, Ctl(t), t.active
  PROVE  LET r == Unwatched(t)
         IN  Ctl(r) /\ Slot(r) = Slot(t) /\ r.active /\ ~r.watch /\ r.device = t.device
<1> DEFINE r == Unwatched(t)
<1>1. t \in Controller
  BY DEF Ctl, Core
<1>2. /\ r \in Controller /\ r.db = t.db /\ r.cur = t.cur /\ r.idx = t.idx
      /\ r.active = t.active /\ r.watch = FALSE /\ r.device = t.device
      /\ r.stack = t.stack /\ r.mic = t.mic /\ r.armed = t.armed
      /\ r.cues = t.cues /\ r.raised = t.raised
  BY <1>1 DEF Unwatched, Controller
<1> HIDE DEF r
<1> QED BY <1>2, DeviceMoves DEF r

(* The mode of the device, and with it the watcher, is all that changes.   *)
LEMMA ModeSet ==
  ASSUME NEW t, Ctl(t), t.active, NEW m \in {t.device.mode, "idle", "ended", "broken", "stopping"},
         NEW b \in BOOLEAN
  PROVE  LET r == [t EXCEPT !.device.mode = m, !.watch = b]
         IN  Ctl(r) /\ Slot(r) = Slot(t) /\ r.active /\ r.watch = b /\ r.device.mode = m
<1> DEFINE v == [t.device EXCEPT !.mode = m]
           r == [t EXCEPT !.device.mode = m, !.watch = b]
<1>1. t \in Controller /\ t.device \in [mode : Modes, unit : Units \cup {Outro}]
  BY StackTyped DEF Ctl, Core
<1>2. v \in [mode : Modes, unit : Units \cup {Outro}] /\ v.mode = m /\ v.unit = t.device.unit
  BY <1>1 DEF Modes
<1>3. r = [t EXCEPT !.device = v, !.watch = b]
  BY <1>1 DEF Controller
<1> HIDE DEF v
<1>4. /\ r \in Controller /\ r.db = t.db /\ r.cur = t.cur /\ r.idx = t.idx
      /\ r.active = t.active /\ r.watch = b /\ r.device = v
      /\ r.stack = t.stack /\ r.mic = t.mic /\ r.armed = t.armed
      /\ r.cues = t.cues /\ r.raised = t.raised
  <2> DEFINE g == [t EXCEPT !.device = v]
  <2>1. /\ g \in Controller /\ g.db = t.db /\ g.cur = t.cur /\ g.idx = t.idx
        /\ g.active = t.active /\ g.device = v
        /\ g.stack = t.stack /\ g.mic = t.mic /\ g.armed = t.armed
        /\ g.cues = t.cues /\ g.raised = t.raised
    BY <1>1, <1>2 DEF Controller
  <2>2. r = [g EXCEPT !.watch = b]
    BY <1>3
  <2> HIDE DEF g
  <2> QED BY <2>1, <2>2 DEF Controller
<1> HIDE DEF r
<1> QED BY <1>2, <1>4, DeviceMoves, ZenonT(60) DEF r

LEMMA ModeMoves ==
  ASSUME NEW t, Ctl(t), t.active, NEW m \in {"idle", "ended", "broken", "stopping"}
  PROVE  LET r == [t EXCEPT !.device.mode = m]
         IN  /\ Ctl(r) /\ Slot(r) = Slot(t) /\ r.active /\ r.watch = t.watch
             /\ r.device.mode = m
<1> DEFINE v == [t.device EXCEPT !.mode = m]
           r == [t EXCEPT !.device.mode = m]
<1>1. t \in Controller /\ t.device \in [mode : Modes, unit : Units \cup {Outro}]
  BY StackTyped DEF Ctl, Core
<1>2. v \in [mode : Modes, unit : Units \cup {Outro}] /\ v.mode = m /\ v.unit = t.device.unit
  BY <1>1 DEF Modes
<1>3. r = [t EXCEPT !.device = v]
  BY <1>1 DEF Controller
<1> HIDE DEF v
<1>4. /\ r \in Controller /\ r.db = t.db /\ r.cur = t.cur /\ r.idx = t.idx
      /\ r.active = t.active /\ r.watch = t.watch /\ r.device = v
      /\ r.stack = t.stack /\ r.mic = t.mic /\ r.armed = t.armed
      /\ r.cues = t.cues /\ r.raised = t.raised
  BY <1>1, <1>2, <1>3 DEF Controller
<1> HIDE DEF r
<1>5. Ctl(r) /\ Slot(r) = Slot(t)
  BY <1>2, <1>4, DeviceMoves
<1> QED BY <1>2, <1>4, <1>5 DEF r

(* Whoever was watched is suspended on the handler that is now waiting.    *)
LEMMA WaitBegins ==
  ASSUME NEW t, Ctl(t), AtRest(t), t.active, NEW op \in TransportOps, NEW n \in Utts \cup {Nobody},
         op = "plan" => n \in Utts, op \in {"next", "previous"} => Slot(t) \in Parts,
         NEW r, NEW p, r = IF t.watch THEN Unwatched(t) ELSE Told(t),
         p = [op |-> op, slot |-> Slot(t), next |-> n, told |-> ~t.watch]
  PROVE  Ctl(r) /\ Waiters(r, p) /\ p \in Steps
<1>1. r = Unwatched(t) /\ t.watch
  BY DEF AtRest
<1>2. Ctl(r) /\ Slot(r) = Slot(t) /\ r.active /\ ~r.watch /\ r.device = t.device
  BY <1>1, Unwatches
<1>3. Slot(t) \in Slots \cup {<<Nobody, Whole>>} /\ (~t.watch) \in BOOLEAN
  BY DEF Ctl, Placed
<1>4. p \in Steps
  BY <1>3 DEF Steps
<1>5. p # Free
  BY DEF Free, TransportOps
<1>6. r.device.mode # "stopping" /\ ~p.told
  BY <1>1, <1>2 DEF AtRest
<1> QED BY <1>2, <1>4, <1>5, <1>6 DEF Waiters

LEMMA SessionEnds ==
  ASSUME NEW t, Ctl(t), t.watch, t.device.mode \in {"ended", "broken"}
  PROVE  LET e == Finished(t, IF t.device.mode = "ended" THEN "Played" ELSE "Failed")
             f == [e EXCEPT !.active = FALSE, !.watch = FALSE, !.idx = Whole, !.device.mode = "idle"]
         IN  /\ t.device.unit # Outro
             /\ CurrentLive(e) /\ HasNext(e.db, e.cur) => Ctl(f) /\ AtRest(f)
             /\ ~(CurrentLive(e) /\ HasNext(e.db, e.cur)) =>
                  Ctl([f EXCEPT !.cur = Nobody]) /\ AtRest([f EXCEPT !.cur = Nobody])
<1> DEFINE to == IF t.device.mode = "ended" THEN "Played" ELSE "Failed"
           e == Finished(t, to)
           f == [e EXCEPT !.active = FALSE, !.watch = FALSE, !.idx = Whole, !.device.mode = "idle"]
           g == [f EXCEPT !.cur = Nobody]
           u == t.cur
           w == Slot(t)
           d == IF t.idx = Whole THEN t.db ELSE TransitionSegment(t.db, w, to)
           closes == to = "Failed" \/ t.idx = Whole \/ Unfinished(d, u) = {}
           h == IF closes THEN Transition(d, u, to) ELSE d
           v == [t.device EXCEPT !.mode = "idle"]
<1>1. /\ t \in Controller /\ DbInv(t.db) /\ t.db \in Database
      /\ w[1] = u /\ w[2] = t.idx /\ u \in Utts \cup {Nobody}
      /\ t.device \in [mode : Modes, unit : Units \cup {Outro}]
      /\ ~t.cues /\ ~t.raised
  BY StackTyped DEF Ctl, Core, DbInv, Slot
<1>2. /\ t.active /\ u # Nobody /\ u \in Utts /\ w \in Units /\ t.device.unit = w
      /\ t.db.state[u] \in Heard
      /\ u \in Composite => t.db.child[w] \in Heard
  <2>1. t.active
    BY DEF Ctl, Fits
  <2> QED BY <1>1, <2>1 DEF Ctl, Fits, Engaged, CurrentState, Heard
<1>3. t.idx # Whole => w \in Parts /\ t.db.child[w] \in Heard
  BY <1>1, <1>2, UnitShape
<1>4. to \in PlaybackMoves /\ to \in Terminal
  BY StateFacts DEF PlaybackMoves
<1> HIDE DEF w, to
<1>5. DbInv(d) /\ d.state = t.db.state /\ d.jobs = t.db.jobs /\ d.held = t.db.held
  <2>1. CASE t.idx # Whole
    <3>1. t.db.child[w] \in PlaybackStates
      BY <1>3, <2>1, StateFacts DEF Heard
    <3>2. TransitionSegment(t.db, w, to).jobs = t.db.jobs
          /\ TransitionSegment(t.db, w, to).held = t.db.held
      BY <1>1 DEF TransitionSegment, Database
    <3> DEFINE x == t.db
               z == TransitionSegment(x, w, to)
    <3>3. DbInv(x) /\ w \in Parts /\ x.child[w] \in PlaybackStates /\ d = z /\ z.held = x.held
          /\ z.jobs = x.jobs
      BY <1>1, <1>3, <2>1, <3>1, <3>2
    <3> HIDE DEF x, d
    <3>4. DbInv(z) /\ z.state = x.state
      BY <1>4, <3>3, ChildMove
    <3> HIDE DEF z
    <3> QED BY <3>3, <3>4 DEF x
  <2>2. CASE t.idx = Whole
    BY <1>1, <2>2
  <2> QED BY <2>1, <2>2
<1>6. e = [t EXCEPT !.db = h]
  <2>1. ~Misplaced(t)
    BY InPlace DEF Ctl
  <2> QED BY <1>2, <2>1, NobodyIsNone DEF Finished, Engaged, CurrentState, Heard, w, to
<1>7. ~closes => t.idx # Whole /\ HasNext(d, u)
  BY DEF HasNext
<1> HIDE DEF d, closes
<1>8. /\ DbInv(h) /\ h.jobs = t.db.jobs /\ h.held = t.db.held
      /\ closes => h.state = [t.db.state EXCEPT ![u] = to]
      /\ ~closes => h = d
  <2>1. CASE closes
    <3>1. d.state[u] \in PlaybackStates
      BY <1>2, <1>5, StateFacts DEF Heard
    <3>2. Transition(d, u, to).held = d.held
      BY <1>5 DEF Transition, DbInv, Database
    <3> QED BY <1>2, <1>4, <1>5, <2>1, <3>1, <3>2, ParentMove
  <2>2. CASE ~closes
    BY <1>5, <2>2
  <2> QED BY <2>1, <2>2
<1> HIDE DEF h
<1>9. v \in [mode : Modes, unit : Units \cup {Outro}] /\ v.mode = "idle"
  BY <1>1 DEF Modes
<1>10. f = [t EXCEPT !.db = h, !.active = FALSE, !.watch = FALSE, !.idx = Whole, !.device = v]
  BY <1>1, <1>6 DEF Controller
<1> HIDE DEF v
<1>11. /\ f \in Controller /\ f.db = h /\ f.cur = u /\ f.idx = Whole
       /\ f.active = FALSE /\ f.watch = FALSE /\ f.device = v
       /\ f.stack = t.stack /\ f.mic = t.mic /\ f.armed = t.armed
       /\ f.cues = t.cues /\ f.raised = t.raised
  <2> DEFINE a == [t EXCEPT !.db = h]
             b == [a EXCEPT !.active = FALSE]
             c == [b EXCEPT !.watch = FALSE]
  <2>1. f = [c EXCEPT !.idx = Whole, !.device = v]
    BY <1>10
  <2>2. /\ a \in Controller /\ a.db = h /\ a.cur = u
        /\ a.stack = t.stack /\ a.mic = t.mic /\ a.armed = t.armed
        /\ a.cues = t.cues /\ a.raised = t.raised
    BY <1>1, <1>8, WithRows DEF DbInv
  <2> HIDE DEF a
  <2>3. /\ b \in Controller /\ b.db = h /\ b.cur = u /\ b.active = FALSE
        /\ b.stack = t.stack /\ b.mic = t.mic /\ b.armed = t.armed
        /\ b.cues = t.cues /\ b.raised = t.raised
    BY <2>2 DEF Controller
  <2> HIDE DEF b
  <2>4. /\ c \in Controller /\ c.db = h /\ c.cur = u /\ c.active = FALSE /\ c.watch = FALSE
        /\ c.stack = t.stack /\ c.mic = t.mic /\ c.armed = t.armed
        /\ c.cues = t.cues /\ c.raised = t.raised
    BY <2>3 DEF Controller
  <2> HIDE DEF c
  <2> QED BY <1>9, <2>1, <2>4, ZenonT(60) DEF Controller
<1>12. g = Vacated(f)
  BY <1>11 DEF Vacated, Controller
<1> HIDE DEF f
<1>13. Single(h, u) /\ Nested(h, t.stack, u)
  BY <1>1, <1>2, <1>4, <1>5, <1>8, StateFacts DEF Ctl, Core, Single, Nested, Database
<1>14. Quiet(f, u)
  BY <1>1, <1>8, <1>9, <1>11, <1>13 DEF Ctl, Quiet, Core, SessionOver
<1>15. e.db = h /\ e.cur = u
  BY <1>1, <1>6, <1>8, WithRows DEF DbInv
<1>16. CASE closes
  <2>1. h.state[u] = to
    BY <1>1, <1>2, <1>8, <1>16 DEF Database
  <2>2. ~CurrentLive(e) /\ f.db.state[u] \notin Heard
    BY <1>2, <1>4, <1>11, <1>15, <2>1, StateFacts DEF CurrentLive, CurrentState, Heard
  <2>3. Ctl(g) /\ g.device = f.device
    BY <1>2, <1>12, <1>14, <2>2, Vacates
  <2>4. ~g.active
    BY <1>2, <1>12, <1>14, <2>2, Vacates
  <2>5. AtRest(g)
    BY <1>9, <1>11, <2>3, <2>4 DEF AtRest
  <2> HIDE DEF g, e
  <2> QED BY <1>2, <2>2, <2>3, <2>5, NobodyIsNone DEF f, g, e, to
<1>17. CASE ~closes
  <2>1. h.state[u] \in Heard /\ HasNext(h, u)
    BY <1>2, <1>5, <1>7, <1>8, <1>17
  <2>2. CurrentLive(e) /\ HasNext(e.db, e.cur)
    BY <1>2, <1>15, <2>1, StateFacts DEF CurrentLive, CurrentState, Heard
  <2>3. Ctl(f)
    BY <1>11, <1>14, Settles
  <2>4. AtRest(f)
    BY <1>9, <1>11 DEF AtRest
  <2> HIDE DEF g, e
  <2> QED BY <1>2, <2>2, <2>3, <2>4, NobodyIsNone DEF f, g, e, to
<1> QED BY <1>16, <1>17

-----------------------------------------------------------------------------
(* The suspended clips are skipped, what is pending is cancelled.          *)
LEMMA Clears ==
  ASSUME NEW t, Ctl(t), NEW states, states \cap Heard = {}, Absent \notin states,
         NEW gone,
         \A w \in gone : /\ \E i \in DOMAIN t.stack : w = t.stack[i]
                         /\ t.db.state[w[1]] = "Paused",
         \A i \in DOMAIN t.stack : t.db.state[t.stack[i][1]] = "Paused" => t.stack[i] \in gone,
         NEW d, d = SkipAll(t.db, gone),
         NEW rows, \A x \in rows : x \in Utts /\ In(d, x, states),
         NEW e, e = CancelAll(d, rows), NEW r,
         r = [db |-> e, cur |-> t.cur, idx |-> t.idx, active |-> t.active, watch |-> t.watch,
              device |-> t.device, stack |-> <<>>, mic |-> t.mic, armed |-> t.armed,
              cues |-> t.cues, raised |-> t.raised]
  PROVE  Ctl(r)
<1> DEFINE skipped(x) == \E w \in gone : w[1] = x
           a == [x \in Utts |-> IF skipped(x) THEN "Skipped" ELSE t.db.state[x]]
           b == [p \in Parts |->
                  IF p \in gone /\ t.db.child[p] \in {"Playing", "Paused"} THEN "Skipped"
                  ELSE IF skipped(p[1]) /\ t.db.child[p] \notin Terminal THEN "Cancelled"
                  ELSE t.db.child[p]]
           q == [t EXCEPT !.db = d, !.stack = <<>>]
           u == t.cur
<1>1. /\ t \in Controller /\ DbInv(t.db) /\ t.db \in Database /\ u \in Utts \cup {Nobody}
      /\ Single(t.db, u) /\ Nested(t.db, t.stack, u)
  BY StackTyped, SMTT(60) DEF Ctl, Core, DbInv
<1>2. d = [t.db EXCEPT !.state = a, !.child = b]
  BY DEF SkipAll
<1>3. /\ \A x \in Utts : skipped(x) => t.db.state[x] = "Paused" /\ x # u
      /\ \A x \in Utts : t.db.state[x] = "Paused" => x = u \/ skipped(x)
  BY <1>1 DEF Nested
<1>4. /\ a \in [Utts -> State \cup {Absent}] /\ \A x \in Utts : MayBecome(t.db.state[x], a[x])
      /\ \A x \in Utts : a[x] = t.db.state[x] \/ (skipped(x) /\ a[x] = "Skipped")
  <2>1. \A x \in Utts : a[x] = t.db.state[x] \/ (skipped(x) /\ a[x] = "Skipped")
    OBVIOUS
  <2>2. \A x \in Utts : a[x] \in State \cup {Absent} /\ MayBecome(t.db.state[x], a[x])
    BY <1>1, <1>3, <2>1, StateFacts DEF Database, State, MayBecome
  <2> QED BY <2>1, <2>2
<1>5. /\ b \in [Parts -> State \cup {Absent}] /\ \A p \in Parts : MayBecome(t.db.child[p], b[p])
      /\ \A p \in Parts : a[p[1]] \in Terminal => b[p] \in Terminal
  <2>1. ASSUME NEW p \in Parts
        PROVE  /\ b[p] \in State \cup {Absent} /\ MayBecome(t.db.child[p], b[p])
               /\ a[p[1]] \in Terminal => b[p] \in Terminal
    <3>1. p[1] \in Utts /\ t.db.child[p] \in State \cup {Absent}
      BY <1>1, UnitShape DEF Database
    <3>2. t.db.state[p[1]] \in Terminal => t.db.child[p] \in Terminal
      BY <1>1, <2>1 DEF DbInv, Closed
    <3>3. t.db.child[p] = Absent <=> t.db.state[p[1]] = Absent
      BY <1>1, <2>1 DEF DbInv, RowsTogether
    <3>4. skipped(p[1]) => t.db.child[p] # Absent
      BY <1>3, <3>1, <3>3, StateFacts
    <3>5. CASE p \in gone /\ t.db.child[p] \in {"Playing", "Paused"}
      BY <3>5, StateFacts DEF MayBecome, State
    <3>6. CASE ~(p \in gone /\ t.db.child[p] \in {"Playing", "Paused"})
               /\ skipped(p[1]) /\ t.db.child[p] \notin Terminal
      BY <3>4, <3>6, StateFacts DEF MayBecome, State
    <3>7. CASE ~(p \in gone /\ t.db.child[p] \in {"Playing", "Paused"})
               /\ ~(skipped(p[1]) /\ t.db.child[p] \notin Terminal)
      <4>1. b[p] = t.db.child[p]
        BY <3>7
      <4>2. a[p[1]] \in Terminal => b[p] \in Terminal
        BY <1>4, <3>1, <3>2, <3>7, <4>1
      <4> QED BY <3>1, <4>1, <4>2 DEF MayBecome
    <3> QED BY <3>5, <3>6, <3>7
  <2> QED BY <2>1
<1>6. ASSUME NEW p \in Parts, p[1] = u PROVE b[p] = t.db.child[p]
  <2>1. ~skipped(u)
    BY <1>3, <1>6, UnitShape
  <2>2. p \notin gone
    BY <1>6, <2>1
  <2> QED BY <1>6, <2>1, <2>2
<1> HIDE DEF skipped, a, b
<1>7. /\ Advances(t.db, d) /\ DbInv(d) /\ d \in Database /\ d.state = a /\ d.child = b
      /\ d.held = t.db.held /\ d.jobs = t.db.jobs
  <2>1. Advances(t.db, d)
    <3> DEFINE z == t.db
    <3>1. d = [z EXCEPT !.state = a, !.child = b]
      BY <1>2
    <3>2. /\ DbInv(z) /\ \A x \in Utts : MayBecome(z.state[x], a[x])
          /\ \A p \in Parts : MayBecome(z.child[p], b[p])
      BY <1>1, <1>4, <1>5, SMTT(60)
    <3> HIDE DEF z
    <3>3. Advances(z, [z EXCEPT !.state = a, !.child = b])
      BY <1>4, <1>5, <3>2, RowsInv
    <3> QED BY <3>1, <3>3 DEF z
  <2>2. d.state = a /\ d.child = b /\ d.held = t.db.held /\ d.jobs = t.db.jobs
    BY <1>1, <1>2 DEF Database
  <2> QED BY <2>1, <2>2 DEF Advances, DbInv
<1>8. /\ q \in Controller /\ q.db = d /\ q.cur = t.cur /\ q.idx = t.idx
      /\ q.active = t.active /\ q.watch = t.watch /\ q.device = t.device
      /\ q.stack = <<>> /\ q.mic = t.mic /\ q.armed = t.armed
      /\ q.cues = t.cues /\ q.raised = t.raised
  <2> DEFINE g == [t EXCEPT !.db = d]
  <2>1. /\ g \in Controller /\ g.db = d /\ g.cur = t.cur /\ g.idx = t.idx
        /\ g.active = t.active /\ g.watch = t.watch /\ g.device = t.device
        /\ g.stack = t.stack /\ g.mic = t.mic /\ g.armed = t.armed
        /\ g.cues = t.cues /\ g.raised = t.raised
    BY <1>1, <1>7, WithRows
  <2>2. q = [g EXCEPT !.stack = <<>>] /\ <<>> \in Seq(Slots)
    OBVIOUS
  <2> HIDE DEF g, q
  <2> QED BY <2>1, <2>2 DEF Controller
<1> HIDE DEF q
<1>10. Single(d, u) /\ Nested(d, <<>>, u)
  <2>1. \A x \in Utts : d.state[x] = t.db.state[x] \/ (skipped(x) /\ d.state[x] = "Skipped")
    BY <1>4, <1>7
  <2>2. \A x \in Utts : skipped(x) => d.state[x] = "Skipped"
    BY <1>7 DEF a
  <2>3. Single(d, u)
    BY <1>1, <2>1 DEF Single
  <2>4. \A x \in Utts : d.state[x] = "Paused" => x = u
    BY <1>3, <2>1, <2>2
  <2>5. DOMAIN <<>> = {}
    OBVIOUS
  <2> QED BY <2>3, <2>4, <2>5 DEF Nested
<1>11. Core(q, q.cur)
  BY <1>7, <1>8, <1>10 DEF Ctl, Core
<1>12. /\ Slot(q) = Slot(t) /\ CurrentState(q) = CurrentState(t) /\ Slot(t)[1] = u
       /\ Slot(t) \in Parts => d.child[Slot(t)] = t.db.child[Slot(t)]
  <2>1. Slot(q) = Slot(t) /\ Slot(t)[1] = u
    BY <1>8 DEF Slot
  <2>2. u \in Utts => d.state[u] = t.db.state[u]
    BY <1>3, <1>4, <1>7
  <2> QED BY <1>1, <1>6, <1>7, <1>8, <2>1, <2>2 DEF CurrentState
<1>13. Placed(q) /\ Sounds(q)
  BY <1>7, <1>8, <1>12 DEF Ctl, Placed, Sounds
<1>14. Fits(q)
  <2>1. CASE t.active
    <3>1. /\ t.cur # Nobody /\ Engaged(t) /\ Slot(t) \in Units /\ t.device.unit = Slot(t)
          /\ t.cur \in Composite => t.db.child[Slot(t)] = CurrentState(t)
      BY <2>1 DEF Ctl, Fits
    <3>2. t.cur \in Composite => Slot(t) \in Parts
      BY <1>12, <3>1, UnitShape
    <3> QED BY <1>8, <1>12, <2>1, <3>1, <3>2 DEF Fits, Engaged
  <2>2. CASE ~t.active
    BY <1>8, <2>2 DEF Ctl, Fits, SessionOver
  <2> QED BY <2>1, <2>2
<1>15. Saved(q)
  <2> SUFFICES ASSUME ~t.active, t.idx # Whole PROVE Saved(q)
    BY <1>8 DEF Saved
  <2>1. /\ t.db.held /\ CurrentState(t) = "Paused"
        /\ Slot(t) \in Parts /\ t.db.child[Slot(t)] = "Paused"
        /\ IsNextUnfinished(t.db, Slot(t))
    BY DEF Ctl, Saved
  <2>2. Unfinished(d, u) = Unfinished(t.db, u)
    <3>1. u \in Utts
      BY <1>12, <2>1, UnitShape
    <3>2. \A p \in Parts : p[1] = u => d.child[p] = t.db.child[p]
      BY <1>6, <1>7
    <3>3. \A p \in ChildrenOf(u) : d.child[p] = t.db.child[p]
      BY <3>1, <3>2, UnitShape
    <3> QED BY <3>3 DEF Unfinished
  <2>3. IsNextUnfinished(d, Slot(t))
    BY <1>12, <2>1, <2>2 DEF IsNextUnfinished
  <2> QED BY <1>7, <1>8, <1>12, <2>1, <2>3 DEF Saved
<1>16. Ctl(q)
  BY <1>11, <1>13, <1>14, <1>15 DEF Ctl
<1>17. Advances(d, e)
  <2>1. rows \subseteq Utts /\ \A x \in rows : d.state[x] # Absent
    BY DEF In
    <2> QED BY <1>7, <2>1, CancelAllInv
<1>18. Apart(d, e)
  <2>1. /\ e.held = d.held
        /\ e.state = [x \in Utts |-> IF x \in rows THEN "Cancelled" ELSE d.state[x]]
        /\ e.child = [p \in Parts |-> IF p[1] \in rows /\ d.child[p] \notin Terminal
                                        THEN "Cancelled" ELSE d.child[p]]
    <3>1. e = [d EXCEPT !.state = [x \in Utts |-> IF x \in rows THEN "Cancelled" ELSE @[x]],
                        !.child = [p \in Parts |-> IF p[1] \in rows /\ @[p] \notin Terminal
                                                     THEN "Cancelled" ELSE @[p]]]
      BY DEF CancelAll
        <3> QED BY <1>7, <3>1 DEF Database
  <2>2. \A x \in Utts : x \in rows => d.state[x] \notin Heard
    BY DEF In
    <2>3. "Cancelled" \notin Heard
    BY DEF Heard
  <2>4. \A x \in Utts : e.state[x] = d.state[x] \/ (x \in rows /\ e.state[x] = "Cancelled")
    BY <2>1
  <2>5. \A p \in Parts : e.child[p] = d.child[p] \/ (p[1] \in rows /\ p[1] \in Utts)
    BY <2>1, UnitShape
  <2> QED BY <2>1, <2>2, <2>3, <2>4, <2>5 DEF Apart
<1>19. Ctl([q EXCEPT !.db = e]) /\ DbInv(e)
  BY <1>8, <1>16, <1>17, <1>18, RowsMove DEF Advances, Onward
<1>20. r = [q EXCEPT !.db = e]
  BY <1>8, <1>19 DEF Controller
<1> QED BY <1>19, <1>20

-----------------------------------------------------------------------------
(* The actions, one lemma each.  First those that only write rows.         *)
LEMMA RowsStep ==
  ASSUME IInv, NEW e, DbInv(e), Apart(s.db, e),
         \A w \in e.jobs : w \in s.db.jobs \/ w[1] \in Streamed,
         s' = Rows(e), step' = step, holding' = holding, stops' = stops,
         rendering' \subseteq Units
  PROVE  IInv'
<1> DEFINE r == [s EXCEPT !.db = e]
<1>1. Ctl(r)
  BY RowsMove DEF IInv
<1>2. r.cur = s.cur /\ r.idx = s.idx /\ r.active = s.active /\ r.watch = s.watch
      /\ r.device = s.device
  BY WithRows DEF IInv, Ctl, Core, DbInv
<1>3. s' = r
  BY DEF Rows
<1> HIDE DEF r
<1>4. Waiters(r, step)
  BY <1>2 DEF IInv, Waiters, AtRest, Slot
<1> QED BY <1>1, <1>3, <1>4 DEF IInv

LEMMA DoesSubmit ==
  ASSUME IInv, NEW u \in Utts, Submit(u)
  PROVE  IInv'
<1>1. PICK k \in NewKeys(s.db) :
        /\ IF u \in Urgent THEN IsHeadKey(s.db, k) ELSE IsTailKey(s.db, k)
        /\ Becomes(Rows(SubmitRow(s.db, u, k)))
  BY DEF Submit
<1>2. DbInv(s.db) /\ s.db \in Database /\ s.db.state[u] = Absent
  BY DEF IInv, Ctl, Core, DbInv, Submit
<1>3. k \in Int
  BY <1>2 DEF NewKeys, Database
<1> DEFINE e == SubmitRow(s.db, u, k)
<1>4. DbInv(e) /\ e.jobs = s.db.jobs
  BY <1>1, <1>2, <1>3, SubmitInv
<1>5. Apart(s.db, e)
  BY <1>2, <1>3, SubmitApart
<1>6. s' = Rows(e) /\ step' = step /\ holding' = holding /\ stops' = stops /\ rendering' = rendering
  BY <1>1 DEF Becomes
<1> HIDE DEF e
<1> QED BY <1>4, <1>5, <1>6, RowsStep DEF IInv

LEMMA DoesCancel ==
  ASSUME IInv, NEW u \in Utts, Cancel(u)
  PROVE  IInv'
<1> DEFINE e == Transition(s.db, u, "Cancelled")
<1>1. DbInv(s.db) /\ s.db \in Database /\ s.db.state[u] \in InputStates \cup {"Ready"}
  BY DEF IInv, Ctl, Core, DbInv, Cancel, In
<1>2. Advances(s.db, e)
  BY <1>1, TransitionInv, StateFacts DEF InputStates
<1>3. Apart(s.db, e)
  BY <1>1, ApartTransition, StateFacts DEF Heard, InputStates
<1>4. s' = Rows(e) /\ step' = step /\ holding' = holding /\ stops' = stops /\ rendering' = rendering
  BY DEF Cancel, Becomes
<1> HIDE DEF e
<1> QED BY <1>2, <1>3, <1>4, RowsStep DEF IInv, Advances, Onward

LEMMA DoesReorder ==
  ASSUME IInv, Reorder
  PROVE  IInv'
<1>1. PICK place \in Places(s.db), base \in {0} \cup {s.db.order[u] : u \in Utts} :
        IsReorderBase(s.db, base) /\ Becomes(Rows(Reordered(s.db, place, base)))
  BY DEF Reorder
<1> DEFINE e == Reordered(s.db, place, base)
<1>2. DbInv(s.db) /\ s.db \in Database
  BY DEF IInv, Ctl, Core, DbInv
<1>3. base \in Int
  BY <1>2 DEF Database
<1>4. Advances(s.db, e)
  BY <1>1, <1>2, <1>3, ReorderInv
<1>5. Apart(s.db, e)
  BY <1>2, ReorderApart
<1>6. s' = Rows(e) /\ step' = step /\ holding' = holding /\ stops' = stops /\ rendering' = rendering
  BY <1>1 DEF Becomes
<1> HIDE DEF e
<1> QED BY <1>4, <1>5, <1>6, RowsStep DEF IInv, Advances, Onward

LEMMA DoesTakeJob ==
  ASSUME IInv, NEW w \in Units, TakeJob(w)
  PROVE  IInv'
<1> DEFINE e == Claim(s.db, w)
<1>1. DbInv(s.db) /\ Claimable(s.db, {}, w)
  BY DEF IInv, Ctl, Core, TakeJob, IsEarliest
<1>2. DbInv(e) /\ e.jobs = s.db.jobs
  BY <1>1, ClaimInv
<1>3. Apart(s.db, e)
  BY <1>1, ClaimApart
<1>4. s' = Rows(e) /\ step' = step /\ holding' = holding /\ stops' = stops
      /\ rendering' = rendering \cup {w}
  BY DEF TakeJob
<1> HIDE DEF e
<1> QED BY <1>2, <1>3, <1>4, RowsStep DEF IInv

LEMMA DoesStreamReady ==
  ASSUME IInv, NEW w \in Units, StreamReady(w)
  PROVE  IInv'
<1> DEFINE e == StartStreaming(s.db, w)
<1>1. DbInv(s.db) /\ w[1] \in Streamed
  BY DEF IInv, Ctl, Core, StreamReady
<1>2. DbInv(e) /\ e.jobs \subseteq s.db.jobs \cup {w}
  BY <1>1, StartStreamingInv
<1>3. Apart(s.db, e)
  BY <1>1, StreamApart
<1>4. s' = Rows(e) /\ step' = step /\ holding' = holding /\ stops' = stops /\ rendering' = rendering
  BY DEF StreamReady, Becomes
<1> HIDE DEF e
<1> QED BY <1>1, <1>2, <1>3, <1>4, RowsStep DEF IInv

LEMMA DoesRender ==
  ASSUME IInv, NEW w \in Units, Render(w)
  PROVE  IInv'
<1> DEFINE e == LastOf(s.db, SuccessCommits(s.db, w))
<1>1. DbInv(s.db)
  BY DEF IInv, Ctl, Core
<1>2. Advances(s.db, e)
  BY <1>1, SuccessInv
<1>3. Apart(s.db, e)
  BY <1>1, SuccessApart
<1>4. s' = Rows(e) /\ step' = step /\ holding' = holding /\ stops' = stops
      /\ rendering' = rendering \ {w}
  BY DEF Render, Completes
<1> HIDE DEF e
<1> QED BY <1>2, <1>3, <1>4, RowsStep DEF IInv, Advances, Onward

LEMMA DoesRenderFail ==
  ASSUME Undisturbed, IInv, NEW w \in Units, RenderFails(w)
  PROVE  IInv'
<1> DEFINE e == LastOf(s.db, FailureCommits(s.db, w))
<1>1. DbInv(s.db) /\ \A v \in s.db.jobs : v[1] \in Streamed
  BY DEF IInv, Ctl, Core
<1>2. w[1] \notin Composite /\ w[1] \notin Streamed
  BY DEF Undisturbed, RenderFails
<1>3. w \in Units \ Parts /\ w \notin s.db.jobs
  BY <1>1, <1>2, UnitShape
<1>4. Advances(s.db, e)
  BY <1>1, FailureInv
<1>5. Apart(s.db, e)
  BY <1>1, <1>3, FailureApart
<1>6. s' = Rows(e) /\ step' = step /\ holding' = holding /\ stops' = stops
      /\ rendering' = rendering \ {w}
  BY DEF RenderFails, Completes
<1> HIDE DEF e
<1> QED BY <1>4, <1>5, <1>6, RowsStep DEF IInv, Advances, Onward

(* The device and its watcher.                                             *)
LEMMA DoesDeviceEnd ==
  ASSUME IInv, DeviceEnds
  PROVE  IInv'
<1>1. PICK how \in {"ended", "broken"} : Becomes([s EXCEPT !.device.mode = how])
  BY DEF DeviceEnds
<1> DEFINE b == s.watch
           r == [s EXCEPT !.device.mode = how, !.watch = b]
<1>2. s.device.mode = "sounding" /\ Ctl(s) /\ s \in Controller /\ b \in BOOLEAN
  BY StackTyped DEF DeviceEnds, IInv, Ctl, Core
<1>3. s.active
  BY <1>2 DEF Ctl, Fits, SessionOver
<1>4. [s EXCEPT !.device.mode = how] = r
  BY <1>2 DEF Controller
<1> HIDE DEF b
<1>5. Ctl(r) /\ Slot(r) = Slot(s) /\ r.active /\ r.watch = b /\ r.device.mode = how
  <2>1. how \in {"idle", "ended", "broken", "stopping"}
    OBVIOUS
  <2>2. [s EXCEPT !.device.mode = how] = r
    BY <1>4
  <2> HIDE DEF r
  <2>3. LET z == [s EXCEPT !.device.mode = how]
        IN  /\ Ctl(z) /\ Slot(z) = Slot(s) /\ z.active /\ z.watch = s.watch
            /\ z.device.mode = how
    BY <1>2, <1>3, <2>1, ModeMoves
  <2> QED BY <2>2, <2>3 DEF b
<1>6. s' = r /\ step' = step /\ holding' = holding /\ stops' = stops /\ rendering' = rendering
  BY <1>1, <1>4 DEF Becomes
<1> HIDE DEF r
<1>7. Waiters(r, step)
  BY <1>2, <1>3, <1>5 DEF IInv, Waiters, AtRest, b
<1> QED BY <1>5, <1>6, <1>7 DEF IInv

LEMMA DoesDeviceClose ==
  ASSUME IInv, DeviceCloses
  PROVE  IInv'
<1> DEFINE r == [s EXCEPT !.device.mode = "idle", !.watch = FALSE]
<1>1. s.device.mode = "stopping" /\ Ctl(s)
  BY DEF DeviceCloses, IInv
<1>2. s.active /\ step # Free
  BY <1>1, SMTT(60) DEF Ctl, Fits, SessionOver, IInv, Waiters, AtRest
<1>3. Ctl(r) /\ Slot(r) = Slot(s) /\ r.active /\ r.watch = FALSE /\ r.device.mode = "idle"
  <2>1. FALSE \in BOOLEAN /\ "idle" \in {s.device.mode, "idle", "ended", "broken", "stopping"}
    OBVIOUS
  <2> QED BY <1>1, <1>2, <2>1, ModeSet
<1>4. s' = r /\ step' = step /\ holding' = holding /\ stops' = stops /\ rendering' = rendering
  BY DEF DeviceCloses, Becomes
<1> HIDE DEF r
<1>5. Waiters(r, step)
  BY <1>2, <1>3 DEF IInv, Waiters
<1> QED BY <1>3, <1>4, <1>5 DEF IInv

LEMMA DoesWatch ==
  ASSUME IInv, Watch
  PROVE  IInv'
<1> DEFINE e == Finished(s, IF s.device.mode = "ended" THEN "Played" ELSE "Failed")
           f == [e EXCEPT !.active = FALSE, !.watch = FALSE, !.idx = Whole, !.device.mode = "idle"]
           g == [f EXCEPT !.cur = Nobody]
<1>1. s.watch /\ s.device.mode \in {"ended", "broken"} /\ Ctl(s)
  BY DEF Watch, IInv
<1>2. step = Free
  BY <1>1, SMTT(60) DEF IInv, Waiters
<1>3. /\ s.device.unit # Outro
      /\ CurrentLive(e) /\ HasNext(e.db, e.cur) => Ctl(f) /\ AtRest(f)
      /\ ~(CurrentLive(e) /\ HasNext(e.db, e.cur)) => Ctl(g) /\ AtRest(g)
  BY <1>1, SessionEnds, ZenonT(60)
<1>4. Becomes(CASE s.device.unit = Outro ->
                     [s EXCEPT !.active = FALSE, !.watch = FALSE, !.device.mode = "idle"]
                [] s.device.unit # Outro /\ CurrentLive(e) /\ HasNext(e.db, e.cur) -> f
                [] OTHER -> g)
  BY DEF Watch
<1> HIDE DEF g, f, e
<1>5. s' = IF CurrentLive(e) /\ HasNext(e.db, e.cur) THEN f ELSE g
  BY <1>3, <1>4, ZenonT(30) DEF Becomes
<1>6. step' = step /\ holding' = holding /\ stops' = stops /\ rendering' = rendering
  BY <1>4 DEF Becomes
<1>7. Ctl(s') /\ AtRest(s')
  BY <1>3, <1>5
<1> QED BY <1>2, <1>6, <1>7 DEF IInv, Waiters

(* The plan loop and the transport.                                        *)
LEMMA AtRestWhenFree ==
  ASSUME IInv, step = Free
  PROVE  Ctl(s) /\ AtRest(s) /\ Calm(s) = s
BY DEF IInv, Waiters, Ctl, Core, Calm, Controller

LEMMA HandlerRan ==
  ASSUME IInv, step = Free, Ctl(s'), AtRest(s'),
         step' = step, holding' = holding, stops' = stops, rendering' = rendering
  PROVE  IInv'
BY DEF IInv, Waiters

LEMMA HandlerWaits ==
  ASSUME IInv, NEW t, Ctl(t), AtRest(t), t.active,
         NEW op \in TransportOps, NEW n \in Utts \cup {Nobody},
         op = "plan" => n \in Utts, op \in {"next", "previous"} => Slot(t) \in Parts,
         Waits(op, t, n), holding' = holding, stops' = stops, rendering' = rendering
  PROVE  IInv'
<1>1. /\ s' = IF t.watch THEN Unwatched(t) ELSE Told(t)
      /\ step' = [op |-> op, slot |-> Slot(t), next |-> n, told |-> ~t.watch]
  BY DEF Waits
<1>2. Ctl(s') /\ Waiters(s', step') /\ step' \in Steps
  BY <1>1, WaitBegins
<1> QED BY <1>2 DEF IInv

LEMMA DoesPlan ==
  ASSUME Undisturbed, IInv, Plan
  PROVE  IInv'
<1>1. Ctl(s) /\ AtRest(s) /\ Calm(s) = s /\ step = Free
  BY AtRestWhenFree DEF Plan
<1>2. CASE s.db.held \/ Takeovers(s) = {}
  <2> DEFINE q == IF s.db.held THEN Calm(s) ELSE Restored(Calm(s))
             r == RestOfPass(q)
  <2>1. Becomes(r)
    BY <1>2 DEF Plan
  <2>2. Ctl(q) /\ AtRest(q)
    BY <1>1, Restores
  <2> HIDE DEF q
  <2>3. Ctl(r) /\ AtRest(r)
    BY <2>2, PassEnds
  <2> HIDE DEF r
  <2> QED BY <1>1, <2>1, <2>3, HandlerRan DEF Becomes
<1>3. CASE ~(s.db.held \/ Takeovers(s) = {})
  <2> DEFINE u == First(s.db, Takeovers(s))
             lands(t, slot) == TakenOver(IF CurrentLive(t) THEN Suspended(t, slot) ELSE t, u)
  <2>1. Handle("plan", s, u, lands)
    BY <1>3 DEF Plan
  <2>2. u \in Utts
    <3>1. Takeovers(s) \in SUBSET Utts /\ Takeovers(s) # {}
      BY <1>3, PlaybackAssumption, StoreAssumption DEF Takeovers
    <3>2. s.db \in Database
      BY <1>1 DEF Ctl, Core, DbInv
    <3> QED BY <3>1, <3>2, FirstIsOne
  <2> HIDE DEF u
  <2>3. CASE s.active
    <3>1. s.watch
      BY <1>1, <2>3 DEF AtRest
    <3>2. Waits("plan", s, u) /\ UNCHANGED <<rendering, holding, stops>>
      BY <2>1, <3>1 DEF Handle
    <3> QED BY <1>1, <2>2, <2>3, <3>2, HandlerWaits DEF TransportOps
  <2>4. CASE ~s.active
    <3>1. ~s.watch /\ ~MustStop(s)
      BY <1>1, <2>4, FreeIsQuiet DEF MustStop
    <3>2. Freed(s) /\ Deactivated(Calm(s)) = s
      BY <1>1, <2>4, NothingToWaitFor
    <3>3. Becomes(lands(Deactivated(Calm(s)), Slot(s)))
      BY <2>1, <3>1 DEF Handle
    <3> DEFINE q == IF CurrentLive(s) THEN Suspended(s, Slot(s)) ELSE s
               r == TakenOver(q, u)
    <3>4. Becomes(r)
      BY <3>2, <3>3
    <3>5. Ctl(q) /\ AtRest(q) /\ ~q.active /\ (q.cur = Nobody \/ ~CurrentLive(q))
      BY <1>1, <2>4, <3>2, Suspends
    <3> HIDE DEF q
    <3>6. Ctl(r) /\ AtRest(r)
      BY <2>2, <3>5, TakesOver
    <3> HIDE DEF r
    <3> QED BY <1>1, <3>4, <3>6, HandlerRan DEF Becomes
  <2> QED BY <2>3, <2>4
<1> QED BY <1>2, <1>3

LEMMA DoesSkip ==
  ASSUME IInv, Skip
  PROVE  IInv'
<1> DEFINE t == Unclaimed(s)
<1>1. step = Free /\ Ctl(s) /\ AtRest(s)
  BY AtRestWhenFree DEF Skip
<1>2. Ctl(t) /\ AtRest(t)
  BY <1>1, NoticeWithdrawn
<1>3. IF Engaged(t) THEN Handle("skip", t, Nobody, SkipLands) ELSE Becomes(t)
  BY DEF Skip
<1> HIDE DEF t
<1>4. CASE Engaged(t) /\ t.active
  <2>1. t.watch
    BY <1>2, <1>4 DEF AtRest
  <2>2. Waits("skip", t, Nobody) /\ UNCHANGED <<rendering, holding, stops>>
    BY <1>3, <1>4, <2>1 DEF Handle
  <2> QED BY <1>2, <1>4, <2>2, HandlerWaits DEF TransportOps
<1>5. CASE Engaged(t) /\ ~t.active
  <2>1. ~t.watch /\ ~MustStop(t)
    BY <1>2, <1>5, FreeIsQuiet DEF MustStop
  <2>2. Freed(t) /\ Deactivated(Calm(t)) = t
    BY <1>2, <1>5, NothingToWaitFor
  <2> DEFINE r == SkipLands(t, Slot(t))
  <2>3. Becomes(r)
    BY <1>3, <1>5, <2>1, <2>2 DEF Handle
  <2>4. t.cur # Nobody
    BY <1>5, StateFacts DEF Engaged, CurrentState
  <2>5. Ctl(r) /\ AtRest(r)
    BY <2>2, <2>4, Skips
  <2> HIDE DEF r
  <2> QED BY <1>1, <2>3, <2>5, HandlerRan DEF Becomes
<1>6. CASE ~Engaged(t)
  BY <1>1, <1>2, <1>3, <1>6, HandlerRan DEF Becomes
<1> QED BY <1>4, <1>5, <1>6

(* Without a hold, a chunk is only remembered while it has the device.     *)
LEMMA ChunkHasTheDevice ==
  ASSUME IInv, Navigable
  PROVE  step = Free /\ Ctl(s) /\ AtRest(s) /\ s.active /\ s.watch /\ Slot(s) \in Parts
<1>1. step = Free /\ Ctl(s) /\ AtRest(s)
  BY AtRestWhenFree DEF Navigable
<1>2. s.active
  BY <1>1, FreeIsQuiet DEF Navigable
<1>3. Slot(s) \in Parts
  <2>1. Slot(s) \in Slots
    BY <1>1 DEF Navigable, Ctl, Placed, Slot
  <2>2. Slot(s)[2] # Whole
    BY DEF Navigable, Slot
  <2> QED BY <2>1, <2>2, SlotShape
<1> QED BY <1>1, <1>2, <1>3 DEF AtRest

LEMMA DoesNextSegment ==
  ASSUME IInv, NextSegment
  PROVE  IInv'
<1>1. Ctl(s) /\ AtRest(s) /\ s.active /\ s.watch /\ Slot(s) \in Parts
  BY ChunkHasTheDevice DEF NextSegment
<1>2. Waits("next", s, Nobody) /\ UNCHANGED <<rendering, holding, stops>>
  BY <1>1 DEF NextSegment, Handle
<1> QED BY <1>1, <1>2, HandlerWaits DEF TransportOps

LEMMA DoesPreviousSegment ==
  ASSUME IInv, PreviousSegment
  PROVE  IInv'
<1>1. Ctl(s) /\ AtRest(s) /\ s.active /\ s.watch /\ Slot(s) \in Parts
  BY ChunkHasTheDevice DEF PreviousSegment
<1>2. Waits("previous", s, Nobody) /\ UNCHANGED <<rendering, holding, stops>>
  BY <1>1 DEF PreviousSegment, Handle
<1> QED BY <1>1, <1>2, HandlerWaits DEF TransportOps

LEMMA DoesRestart ==
  ASSUME Undisturbed, IInv, RestartCurrent
  PROVE  IInv'
<1>1. step = Free /\ Ctl(s) /\ AtRest(s) /\ Engaged(s)
  BY AtRestWhenFree DEF RestartCurrent
<1>2. CASE s.active
  <2>1. s.watch
    BY <1>1, <1>2 DEF AtRest
  <2>2. Waits("restart", s, Nobody) /\ UNCHANGED <<rendering, holding, stops>>
    BY <2>1 DEF RestartCurrent, Handle
  <2> QED BY <1>1, <1>2, <2>2, HandlerWaits DEF TransportOps
<1>3. CASE ~s.active
  <2>1. ~s.watch /\ ~MustStop(s)
    BY <1>1, <1>3, FreeIsQuiet DEF MustStop
  <2>2. Freed(s) /\ Deactivated(Calm(s)) = s
    BY <1>1, <1>3, NothingToWaitFor
  <2> DEFINE r == RestartLands(s, Slot(s))
  <2>3. Becomes(r)
    BY <2>1, <2>2 DEF Handle, RestartCurrent
  <2>4. s.cur \in Utts
    BY <1>1, StackTyped, StateFacts DEF Engaged, CurrentState, Ctl, Core
  <2>5. Ctl(r) /\ AtRest(r)
    BY <1>1, <2>2, <2>4, RestartStepLands
  <2> HIDE DEF r
  <2> QED BY <1>1, <2>3, <2>5, HandlerRan DEF Becomes
<1> QED BY <1>2, <1>3

LEMMA DoesTellToStop ==
  ASSUME IInv, TellsToStop
  PROVE  IInv'
<1> DEFINE b == s.watch
           r == [s EXCEPT !.device.mode = "stopping", !.watch = b]
<1>1. /\ Ctl(s) /\ s \in Controller /\ b \in BOOLEAN /\ step # Free /\ step \in Steps
      /\ s.active /\ ~s.watch /\ step.slot = Slot(s) /\ ~step.told
      /\ s.device.mode # "stopping"
      /\ step.op = "plan" => step.next \in Utts
      /\ step.op \in {"next", "previous"} => step.slot \in Parts
  BY StackTyped DEF IInv, Waiters, TellsToStop, Ctl, Core
<1>2. s.device.mode \in {"sounding", "paused"}
  <2>1. s.device.mode \in Modes
    BY <1>1, StackTyped
  <2> QED BY <1>1, <2>1 DEF TellsToStop, MustStop, SessionOver, Modes
<1>3. Told(s) = r
  BY <1>1, <1>2 DEF Told, Controller
<1>5. Ctl(r) /\ Slot(r) = Slot(s) /\ r.active /\ r.watch = b /\ r.device.mode = "stopping"
  <2> DEFINE m == "stopping"
  <2>1. m \in {"idle", "ended", "broken", "stopping"}
    OBVIOUS
  <2>2. [s EXCEPT !.device.mode = m] = r
    BY <1>1 DEF Controller
  <2> HIDE DEF r, m
  <2>3. LET z == [s EXCEPT !.device.mode = m]
        IN  /\ Ctl(z) /\ Slot(z) = Slot(s) /\ z.active /\ z.watch = s.watch
            /\ z.device.mode = m
    BY <1>1, <2>1, ModeMoves
  <2> QED BY <2>2, <2>3 DEF m, b
<1> HIDE DEF b
<1>6. s' = r /\ step' = [step EXCEPT !.told = TRUE]
      /\ holding' = holding /\ stops' = stops /\ rendering' = rendering
  BY <1>3 DEF TellsToStop
<1> HIDE DEF r
<1>7. step' \in Steps /\ step'.slot = step.slot /\ step'.op = step.op /\ step'.next = step.next
      /\ step'.told = TRUE
  BY <1>1, <1>6 DEF Steps
<1>8. step' # Free
  BY <1>6, <1>1 DEF Steps, Free
<1>9. Waiters(s', step')
  BY <1>1, <1>5, <1>6, <1>7, <1>8 DEF Waiters, b
<1> QED BY <1>5, <1>6, <1>7, <1>9 DEF IInv

LEMMA DoesLand ==
  ASSUME Undisturbed, IInv, Land
  PROVE  IInv'
<1> DEFINE f == Deactivated(Calm(s))
           r == Landed(f)
<1>1. /\ Ctl(s) /\ step # Free /\ step \in Steps
      /\ s.active /\ ~s.watch /\ step.slot = Slot(s)
      /\ step.told => s.device.mode \in {"stopping", "idle"}
      /\ step.op = "plan" => step.next \in Utts
      /\ step.op \in {"next", "previous"} => step.slot \in Parts
      /\ step.op \in {"plan", "skip", "next", "previous", "restart"}
  <2>1. step # Free /\ step.op # "shutdown"
    BY DEF Land, Released, Serving
  <2>2. step \in Steps /\ step.op \in TransportOps
    BY <2>1 DEF IInv, Steps
  <2> QED BY <2>1, <2>2 DEF IInv, Waiters, TransportOps
<1>2. SessionOver(s)
  BY <1>1 DEF Land, Released, Over, MustStop, SessionOver
<1>3. /\ Freed(f) /\ Slot(f) = step.slot /\ f.cur # Nobody
      /\ Engaged(f) /\ f.cur \in Utts
  <2>1. Freed(f) /\ Slot(f) = Slot(s) /\ f.cur # Nobody /\ f.cur = s.cur /\ Engaged(f)
    BY <1>1, <1>2, WaitIsOver
  <2>2. s.cur \in Utts \cup {Nobody}
    BY <1>1, StackTyped DEF Ctl, Core
  <2> QED BY <1>1, <2>1, <2>2
<1>4. s' = r /\ step' = Free /\ holding' = holding /\ stops' = stops /\ rendering' = rendering
  BY DEF Land
<1> HIDE DEF f
<1>5. Ctl(r) /\ AtRest(r)
  <2>1. CASE step.op = "plan"
    <3> DEFINE q == Suspended(f, Slot(f))
    <3>1. r = TakenOver(q, step.next)
      BY <1>3, <2>1, ZenonT(30) DEF Landed
    <3>2. Ctl(q) /\ AtRest(q) /\ ~q.active /\ q.cur = Nobody
      BY <1>3, Suspends
    <3> HIDE DEF q
    <3>3. step.next \in Utts
      BY <1>1, <2>1
    <3> DEFINE g == TakenOver(q, step.next)
    <3>4. Ctl(g) /\ AtRest(g)
      BY <3>2, <3>3, TakesOver
    <3> HIDE DEF g
    <3> QED BY <3>1, <3>4 DEF g
  <2>2. CASE step.op = "skip"
    <3> DEFINE g == SkipLands(f, Slot(f))
    <3>1. r = g
      BY <1>3, <2>2, ZenonT(30) DEF Landed
    <3>2. Ctl(g) /\ AtRest(g)
      BY <1>3, Skips
    <3> HIDE DEF g
    <3> QED BY <3>1, <3>2
  <2>3. CASE step.op = "next"
    <3> DEFINE g == NextLands(f, Slot(f))
    <3>1. r = g
      BY <1>3, <2>3, ZenonT(30) DEF Landed
    <3>2. Ctl(g) /\ AtRest(g)
      BY <1>1, <1>3, <2>3, NextStepLands
    <3> HIDE DEF g
    <3> QED BY <3>1, <3>2
  <2>4. CASE step.op = "previous"
    <3> DEFINE g == PreviousLands(f, Slot(f))
    <3>1. r = g
      BY <1>3, <2>4, ZenonT(30) DEF Landed
    <3>2. Ctl(g) /\ AtRest(g)
      BY <1>1, <1>3, <2>4, PreviousStepLands
    <3> HIDE DEF g
    <3> QED BY <3>1, <3>2
  <2>5. CASE step.op = "restart"
    <3> DEFINE g == RestartLands(f, Slot(f))
    <3>1. r = g
      BY <1>3, <2>5, ZenonT(30) DEF Landed
    <3>2. Ctl(g) /\ AtRest(g)
      BY <1>3, RestartStepLands
    <3> HIDE DEF g
    <3> QED BY <3>1, <3>2
  <2> QED BY <1>1, <2>1, <2>2, <2>3, <2>4, <2>5
<1> HIDE DEF r
<1> QED BY <1>4, <1>5 DEF IInv, Waiters


LEMMA DoesClear ==
  ASSUME IInv, NEW states, states \in {PendingStates, {"Ready"}}, Clear(states)
  PROVE  IInv'
<1> DEFINE gone == {w \in {s.stack[k] : k \in DOMAIN s.stack} : s.db.state[w[1]] = "Paused"}
           d == SkipAll(s.db, gone)
           e == CancelAll(d, {u \in Utts : In(d, u, states)})
           r == [s EXCEPT !.db = e, !.stack = <<>>]
<1>1. step = Free /\ Ctl(s) /\ AtRest(s)
  BY AtRestWhenFree DEF Clear
<1>2. states \cap Heard = {} /\ Absent \notin states
  BY DEF PendingStates, InputStates, Heard, Absent
<1>3. Becomes(r)
  BY DEF Clear
<1>4. /\ Ctl(r) /\ r.active = s.active /\ r.watch = s.watch /\ r.device = s.device
  <2> DEFINE rows == {u \in Utts : In(d, u, states)}
  <2>1. \A w \in gone : /\ \E i \in DOMAIN s.stack : w = s.stack[i]
                        /\ s.db.state[w[1]] = "Paused"
    OBVIOUS
  <2>2. \A i \in DOMAIN s.stack : s.db.state[s.stack[i][1]] = "Paused" => s.stack[i] \in gone
    OBVIOUS
  <2>3. d = SkipAll(s.db, gone) /\ e = CancelAll(d, rows)
    OBVIOUS
  <2>4. \A x \in rows : x \in Utts /\ In(d, x, states)
    OBVIOUS
  <2> HIDE DEF gone, d, rows, e
  <2>5. s \in Controller
    BY <1>1 DEF Ctl, Core
  <2>6. r = [db |-> e, cur |-> s.cur, idx |-> s.idx, active |-> s.active, watch |-> s.watch,
             device |-> s.device, stack |-> <<>>, mic |-> s.mic, armed |-> s.armed,
             cues |-> s.cues, raised |-> s.raised]
    <3> DEFINE g == [s EXCEPT !.db = e]
    <3>1. g = [db |-> e, cur |-> s.cur, idx |-> s.idx, active |-> s.active, watch |-> s.watch,
               device |-> s.device, stack |-> s.stack, mic |-> s.mic, armed |-> s.armed,
               cues |-> s.cues, raised |-> s.raised]
      BY <2>5 DEF Controller
    <3>2. r = [g EXCEPT !.stack = <<>>]
      OBVIOUS
    <3> HIDE DEF g, r
    <3> QED BY <3>1, <3>2
  <2> HIDE DEF r
  <2>7. Ctl(r)
    BY <1>1, <1>2, <2>1, <2>2, <2>3, <2>4, <2>6, Clears
  <2> QED BY <2>6, <2>7
<1> HIDE DEF r
<1> QED BY <1>1, <1>3, <1>4, HandlerRan DEF Becomes, AtRest

-----------------------------------------------------------------------------
(* Holding and resuming run in the gap a waiting handler leaves: they may  *)
(* mute the session or let it sound, and leave the rest as it was.         *)
LEMMA StillWaits ==
  ASSUME IInv, NEW r, Ctl(r), Slot(r) = Slot(s), r.active = s.active, r.watch = s.watch,
         \/ r.device.mode = s.device.mode
         \/ s.device.mode \in {"sounding", "paused"} /\ r.device.mode \in {"sounding", "paused"},
         Becomes(r)
  PROVE  IInv'
<1>1. Waiters(s, step)
  BY DEF IInv
<1>2. Waiters(r, step)
  <2>1. CASE step = Free
    BY <1>1, <2>1 DEF Waiters, AtRest
  <2>2. CASE step # Free
    BY <1>1, <2>2 DEF Waiters
  <2> QED BY <2>1, <2>2
<1> QED BY <1>2 DEF IInv, Becomes

LEMMA DoesPause ==
  ASSUME IInv, Pause
  PROVE  IInv'
<1> DEFINE t == Unclaimed(s)
           h == Held(t)
<1>1. /\ Ctl(t) /\ Slot(t) = Slot(s) /\ t.active = s.active /\ t.watch = s.watch
      /\ t.device = s.device /\ t.cur = s.cur
  BY NoticeWithdrawn DEF IInv
<1>2. Hold("pause", t, LAMBDA x : x) /\ ~HoldRaises(t)
  BY <1>1, InPlace DEF Pause, Ctl
<1> HIDE DEF t
<1>3. /\ Ctl(h) /\ Slot(h) = Slot(t) /\ h.active = t.active /\ h.watch = t.watch
      /\ \/ h.device.mode = t.device.mode
         \/ t.device.mode = "sounding" /\ h.device.mode = "paused"
  BY <1>1, HoldKeeps
<1>4. Becomes(h)
  <2>1. CASE t.cur = Nobody
    <3>1. ~t.active
      BY <1>1, <2>1 DEF Ctl, Fits
    <3>2. Becomes(Deactivated(h))
      BY <1>2, <2>1, <3>1 DEF Hold
    <3>3. Deactivated(h) = h
      BY <1>3, <3>1 DEF Ctl, Core, Controller, Deactivated
    <3> QED BY <3>2, <3>3
  <2>2. CASE t.cur # Nobody
    BY <1>2, <2>2 DEF Hold
  <2> QED BY <2>1, <2>2
<1> HIDE DEF h
<1> QED BY <1>1, <1>3, <1>4, StillWaits


LEMMA DoesInterrupt ==
  ASSUME IInv, Interrupt
  PROVE  IInv'
<1> DEFINE h == Held(s)
<1>1. Ctl(s) /\ ~HoldRaises(s)
  BY InPlace DEF IInv, Ctl
<1>2. PICK arm \in BOOLEAN : Hold("interrupt", s, LAMBDA x : TookFloor(x, arm))
  BY DEF Interrupt
<1> DEFINE r == TookFloor(h, arm)
<1>3. /\ Ctl(h) /\ h.db.held /\ Slot(h) = Slot(s) /\ h.active = s.active /\ h.watch = s.watch
      /\ \/ h.device.mode = s.device.mode
         \/ s.device.mode = "sounding" /\ h.device.mode = "paused"
  BY <1>1, HoldKeeps
<1>4. Becomes(r)
  <2>1. CASE s.cur = Nobody
    <3>1. ~s.active
      BY <1>1, <2>1 DEF Ctl, Fits
    <3>2. Becomes(TookFloor(Deactivated(h), arm))
      BY <1>1, <1>2, <2>1, <3>1 DEF Hold
    <3>3. Deactivated(h) = h
      BY <1>3, <3>1 DEF Ctl, Core, Controller, Deactivated
    <3> QED BY <3>2, <3>3
  <2>2. CASE s.cur # Nobody
    BY <1>1, <1>2, <2>2 DEF Hold
  <2> QED BY <2>1, <2>2
<1> HIDE DEF h
<1>5. /\ Ctl(r) /\ Slot(r) = Slot(h) /\ r.active = h.active /\ r.watch = h.watch
      /\ r.device = h.device
  BY <1>3, FloorTaken
<1> HIDE DEF r
<1> QED BY <1>3, <1>4, <1>5, StillWaits

LEMMA DoesHold ==
  ASSUME IInv, NEW h \in holding, HoldTells(h) \/ HoldLands(h)
  PROVE  IInv'
BY DEF IInv

LEMMA ResumedKeeps ==
  ASSUME Undisturbed, IInv, Becomes(Resumed(s))
  PROVE  IInv'
<1> DEFINE r == Resumed(s)
<1>1. /\ Ctl(r)
      /\ s.active => /\ r.active /\ r.watch = s.watch /\ Slot(r) = Slot(s)
                     /\ r.device.mode = s.device.mode
                        \/ (s.device.mode = "paused" /\ r.device.mode = "sounding")
      /\ ~s.active => AtRest(r)
  BY Resumes DEF IInv
<1>2. Becomes(r)
  OBVIOUS
<1> HIDE DEF r
<1>3. CASE s.active
  <2>1. r.active = s.active
    BY <1>1, <1>3, StackTyped DEF Ctl, Core, IInv
  <2> QED BY <1>1, <1>2, <1>3, <2>1, StillWaits
<1>4. CASE ~s.active
  <2>1. step = Free
    BY <1>4 DEF IInv, Waiters
  <2> QED BY <1>1, <1>2, <1>4, <2>1, HandlerRan DEF Becomes
<1> QED BY <1>3, <1>4

LEMMA DoesArm ==
  ASSUME IInv, Arm
  PROVE  IInv'
<1> DEFINE r == [s EXCEPT !.armed = TRUE]
<1>1. /\ Ctl(r) /\ Slot(r) = Slot(s) /\ (AtRest(s) => AtRest(r))
      /\ r.active = s.active /\ r.watch = s.watch /\ r.device = s.device
  BY ResumeArmed DEF IInv, Arm
<1>2. Becomes(r)
  BY DEF Arm
<1> HIDE DEF r
<1> QED BY <1>1, <1>2, StillWaits

-----------------------------------------------------------------------------
(* The daemon dies or is stopped, and comes back.                          *)
LEMMA BeginsAgain ==
  ASSUME IInv, NEW t, DbInv(t.db), t.mic \in BOOLEAN, Begins(t), stops' \in 0 .. MaxStops
  PROVE  IInv'
<1> DEFINE r == Reborn(t)
<1>1. Ctl(r) /\ AtRest(r)
  BY ComesBack
<1>2. s' = r /\ rendering' = {} /\ step' = Free /\ holding' = {}
  BY DEF Begins
<1> HIDE DEF r
<1> QED BY <1>1, <1>2 DEF IInv, Waiters

LEMMA DoesCrash ==
  ASSUME IInv, Crash
  PROVE  IInv'
<1>1. DbInv(s.db) /\ s.mic \in BOOLEAN
  BY StackTyped DEF IInv, Ctl, Core
<1>2. stops' \in 0 .. MaxStops
  BY PlaybackAssumption DEF IInv, Crash
<1> QED BY <1>1, <1>2, BeginsAgain DEF Crash


LEMMA DoesShutdown ==
  ASSUME IInv, Shutdown
  PROVE  IInv'
<1> DEFINE t == IF CurrentLive(s) /\ ~s.db.held THEN Held(Unclaimed(s)) ELSE s
<1>1. Ctl(s) /\ AtRest(s) /\ step = Free /\ stops' \in 0 .. MaxStops /\ s \in Controller
  BY AtRestWhenFree, PlaybackAssumption DEF Shutdown, IInv, Ctl, Core
<1>2. Ctl(t) /\ AtRest(t)
  <2>1. CASE CurrentLive(s) /\ ~s.db.held
    <3> DEFINE q == Unclaimed(s)
               h == Held(q)
    <3>1. Ctl(q) /\ AtRest(q)
      BY <1>1, NoticeWithdrawn
    <3> HIDE DEF q
    <3>2. /\ Ctl(h) /\ h.active = q.active /\ h.watch = q.watch
          /\ \/ h.device.mode = q.device.mode
             \/ q.device.mode = "sounding" /\ h.device.mode = "paused"
      BY <3>1, HoldKeeps
    <3>3. AtRest(h)
      BY <3>1, <3>2 DEF AtRest
    <3>4. t = h
      BY <2>1 DEF q
    <3> HIDE DEF h, t
    <3> QED BY <3>2, <3>3, <3>4
  <2>2. CASE ~(CurrentLive(s) /\ ~s.db.held)
    BY <1>1, <2>2
  <2> QED BY <2>1, <2>2
<1>3. IF t.watch \/ MustStop(t)
        THEN Waits("shutdown", t, Nobody) /\ UNCHANGED <<rendering, holding>>
        ELSE Begins(t)
  BY DEF Shutdown
<1> HIDE DEF t
<1>4. t.watch \in BOOLEAN /\ t.active \in BOOLEAN /\ DbInv(t.db) /\ t.mic \in BOOLEAN
  BY <1>2, StackTyped DEF Ctl, Core
<1>5. CASE t.active
  <2>1. t.watch
    BY <1>2, <1>5 DEF AtRest
  <2>2. /\ s' = IF t.watch THEN Unwatched(t) ELSE Told(t)
        /\ step' = [op |-> "shutdown", slot |-> Slot(t), next |-> Nobody, told |-> ~t.watch]
        /\ UNCHANGED <<rendering, holding>>
    BY <1>3, <2>1 DEF Waits
  <2>3. "shutdown" \in TransportOps /\ "shutdown" # "plan" /\ "shutdown" \notin {"next", "previous"}
        /\ Nobody \in Utts \cup {Nobody}
    BY DEF TransportOps
  <2>4. Ctl(s') /\ Waiters(s', step') /\ step' \in Steps
    BY <1>2, <1>5, <2>2, <2>3, WaitBegins
  <2> QED BY <1>1, <2>2, <2>4 DEF IInv
<1>6. CASE ~t.active
  <2>1. ~t.watch /\ ~MustStop(t)
    BY <1>2, <1>6, FreeIsQuiet DEF MustStop
  <2>2. Begins(t)
    BY <1>3, <2>1
  <2> QED BY <1>1, <1>4, <2>2, BeginsAgain
<1> QED BY <1>5, <1>6

LEMMA DoesShutdownLand ==
  ASSUME IInv, ShutdownLands
  PROVE  IInv'
<1> DEFINE w == Slot(s)
           d == IF s.cur # Nobody THEN SuspendPlayback(s.db, w) ELSE s.db
           r == [s EXCEPT !.db = d]
<1>1. step # Free /\ Ctl(s) /\ s.active /\ s \in Controller /\ DbInv(s.db) /\ s.mic \in BOOLEAN
      /\ stops' \in 0 .. MaxStops /\ s.db \in Database /\ w[1] = s.cur /\ s.cur \in Utts \cup {Nobody}
  BY StackTyped DEF ShutdownLands, Released, IInv, Waiters, Ctl, Core, DbInv, Slot
<1>2. /\ s.cur # Nobody /\ Engaged(s) /\ w \in Units
      /\ s.cur \in Composite => s.db.child[w] = CurrentState(s)
  BY <1>1 DEF Ctl, Fits
<1>3. s.db.state[w[1]] \in {"Playing", "Paused"} /\ w[1] \in Utts
  BY <1>1, <1>2 DEF Engaged, CurrentState
<1>4. w \in Parts => s.db.child[w] \in PlaybackStates
  BY <1>1, <1>2, UnitShape, StateFacts DEF Engaged
<1>5. Begins(r)
  BY DEF ShutdownLands
<1> HIDE DEF w
<1>6. DbInv(SuspendPlayback(s.db, w))
  BY <1>1, <1>3, <1>4, SuspendInv
<1>7. DbInv(d) /\ d \in Database
  BY <1>2, <1>6 DEF DbInv
<1> HIDE DEF d
<1>8. r.db = d /\ r.mic = s.mic
  BY <1>1, <1>7, WithRows
<1> HIDE DEF r
<1> QED BY <1>1, <1>5, <1>7, <1>8, BeginsAgain


-----------------------------------------------------------------------------
(* The inductive invariant.                                                *)
LEMMA InitInv == Init => IInv
<1> SUFFICES ASSUME Init PROVE IInv
  OBVIOUS
<1> DEFINE d == EmptyDatabase
           v == [mode |-> "idle", unit |-> Outro]
<1>1. DbInv(d) /\ d \in Database /\ d.jobs = {}
  BY EmptyInv DEF DbInv
<1>2. \A u \in Utts : d.state[u] = Absent
  BY DEF EmptyDatabase
<1> HIDE DEF d
<1>3. v \in [mode : Modes, unit : Units \cup {Outro}] /\ v.mode = "idle" /\ <<>> \in Seq(Slots)
  BY DEF Modes
<1> HIDE DEF v
<1>4. s = [db |-> d, cur |-> Nobody, idx |-> Whole, active |-> FALSE, watch |-> FALSE, device |-> v,
           stack |-> <<>>, mic |-> FALSE, armed |-> FALSE, cues |-> FALSE, raised |-> FALSE]
  BY DEF Init, d, v
<1>5. /\ s \in Controller /\ s.db = d /\ s.cur = Nobody /\ s.idx = Whole /\ s.active = FALSE
      /\ s.watch = FALSE /\ s.device = v /\ s.stack = <<>> /\ s.mic = FALSE /\ s.armed = FALSE
      /\ s.cues = FALSE /\ s.raised = FALSE
  BY <1>1, <1>3, <1>4 DEF Controller
<1>6. Core(s, s.cur)
  <2>1. Single(d, Nobody) /\ Nested(d, <<>>, Nobody)
    BY <1>2, StateFacts DEF Single, Nested
  <2> QED BY <1>1, <1>5, <2>1 DEF Core
<1>7. Placed(s) /\ Fits(s) /\ Saved(s) /\ Sounds(s) /\ AtRest(s)
  BY <1>3, <1>5 DEF Placed, Slot, Fits, Saved, Sounds, SessionOver, AtRest
<1>8. 0 \in 0 .. MaxStops
  BY PlaybackAssumption
<1> QED BY <1>6, <1>7, <1>8 DEF Init, IInv, Ctl, Waiters

LEMMA PoolInv == ASSUME Undisturbed, IInv, Pool PROVE IInv'
<1>1. PICK w \in Units : TakeJob(w) \/ StreamReady(w) \/ Render(w) \/ RenderFails(w)
  BY DEF Pool
<1> QED BY <1>1, DoesTakeJob, DoesStreamReady, DoesRender, DoesRenderFail

LEMMA SinkInv == ASSUME IInv, Sink PROVE IInv'
BY DoesDeviceEnd, DoesDeviceClose, DoesWatch DEF Sink

LEMMA LoopInv == ASSUME Undisturbed, IInv, Loop PROVE IInv'
BY DoesPlan, DoesTellToStop, DoesLand, DoesHold DEF Loop

LEMMA CommandsInv == ASSUME Undisturbed, IInv, Commands PROVE IInv'
<1>1. ASSUME NEW u \in Utts, Submit(u) \/ Cancel(u) PROVE IInv'
  BY <1>1, DoesSubmit, DoesCancel
<1>2. ASSUME NEW states \in {PendingStates, {"Ready"}}, Clear(states) PROVE IInv'
  BY <1>2, DoesClear
<1>3. CASE Reorder \/ Skip \/ NextSegment \/ PreviousSegment \/ RestartCurrent
  BY <1>3, DoesReorder, DoesSkip, DoesNextSegment, DoesPreviousSegment, DoesRestart
<1>4. CASE Pause \/ Interrupt \/ Arm
  BY <1>4, DoesPause, DoesInterrupt, DoesArm
<1>5. CASE Resume \/ AutoResume
  BY <1>5, ResumedKeeps DEF Resume, AutoResume
<1> QED BY <1>1, <1>2, <1>3, <1>4, <1>5 DEF Commands

LEMMA StutterInv == ASSUME IInv, UNCHANGED vars PROVE IInv'
BY DEF vars, IInv, Waiters

LEMMA NextInv == ASSUME Undisturbed, IInv, [Next]_vars PROVE IInv'
BY PoolInv, SinkInv, LoopInv, CommandsInv, DoesCrash, DoesShutdown, DoesShutdownLand, StutterInv
DEF Next

LEMMA Inductive == ASSUME Undisturbed PROVE Spec => []IInv
<1>1. IInv /\ [Next]_vars => IInv'
  BY NextInv
<1> QED BY InitInv, <1>1, PTL DEF Spec

-----------------------------------------------------------------------------
(* The controller, its rows and its handlers hold values of their types in *)
(* every state the daemon reaches.                                         *)
THEOREM PlaybackTypes == ASSUME Undisturbed PROVE Spec => []TypeOK
<1>1. IInv => TypeOK
  <2> SUFFICES ASSUME IInv PROVE TypeOK
    OBVIOUS
  <2>1. s \in Controller
    BY DEF IInv, Ctl, Core
  <2>2. Slot(s) \in Slots \cup {<<Nobody, Whole>>}
    BY DEF IInv, Ctl, Placed
  <2> QED BY <2>1, <2>2, StackTyped DEF IInv, TypeOK
<1> QED BY <1>1, Inductive, PTL

(* No handler starts the device over a session that is still open, or      *)
(* without audio behind it, and the controller never loses sight of an     *)
(* open session, whatever takes over, fails or comes back in between.      *)
THEOREM DeviceStaysOwned == ASSUME Undisturbed PROVE Spec => []DeviceIsOwned
<1>1. IInv => DeviceIsOwned
  BY DEF IInv, Ctl, Core, Fits, DeviceIsOwned, DeviceIsExclusive, SessionIsKnown
<1> QED BY <1>1, Inductive, PTL

(* The rows say what the device does: nothing but the current clip is      *)
(* Playing, and the unit on the device is its chunk, in its state.         *)
THEOREM RowsTellTheDevice == ASSUME Undisturbed PROVE Spec => []RowsFollowDevice
<1>1. IInv => RowsFollowDevice
  <2> SUFFICES ASSUME IInv PROVE RowsFollowDevice
    OBVIOUS
  <2>1. \A u \in Utts : s.db.state[u] = "Playing" => u = s.cur
    BY DEF IInv, Ctl, Core, Single
  <2>2. ASSUME s.active PROVE /\ Engaged(s) /\ s.device.unit = Slot(s)
                              /\ s.cur \in Composite =>
                                   s.idx # Whole /\ s.db.child[Slot(s)] = CurrentState(s)
    <3>1. /\ Slot(s) \in Units /\ Engaged(s) /\ s.device.unit = Slot(s)
          /\ s.cur \in Composite => s.db.child[Slot(s)] = CurrentState(s)
      BY <2>2 DEF IInv, Ctl, Fits
    <3>2. Slot(s)[1] = s.cur /\ Slot(s)[2] = s.idx
      BY DEF Slot
    <3>3. s.cur \in Composite => s.idx # Whole
      BY <3>1, <3>2, UnitShape
    <3> QED BY <3>1, <3>3
  <2> QED BY <2>1, <2>2 DEF RowsFollowDevice
<1> QED BY <1>1, Inductive, PTL

(* While playback is held - paused, or the listener speaks - nothing       *)
(* sounds: a hold also wins over a handler that was waiting when it came.  *)
THEOREM HoldsAreSilent == ASSUME Undisturbed PROVE Spec => []HeldIsSilent
<1>1. IInv => HeldIsSilent
  BY DEF IInv, Ctl, Sounds, HeldIsSilent
<1> QED BY <1>1, Inductive, PTL

(* Once it is not held any more, no open session stays muted.              *)
THEOREM ResumedIsHeard == ASSUME Undisturbed PROVE Spec => []UnheldIsHeard
<1>1. IInv => UnheldIsHeard
  BY DEF IInv, Ctl, Sounds, UnheldIsHeard
<1> QED BY <1>1, Inductive, PTL

(* No chunk of a settled document is owed, whatever was in flight.         *)
THEOREM SettledStaysClosed == ASSUME Undisturbed PROVE Spec => []SettledMeansClosed
<1>1. IInv => SettledMeansClosed
  BY DEF IInv, Ctl, Core, DbInv, Closed, SettledMeansClosed
<1> QED BY <1>1, Inductive, PTL
=============================================================================
