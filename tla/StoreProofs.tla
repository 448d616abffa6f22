----------------------------- MODULE StoreProofs -----------------------------
(***************************************************************************)
(* What every operation of the store preserves, for any set of utterances  *)
(* and any number of chunks: the lemmas the proofs of the modules built on *)
(* the store rest on.                                                      *)
(***************************************************************************)
EXTENDS Store, FiniteSetTheorems, TLAPS

(* What every committed database satisfies, crash or not: typed rows, no   *)
(* open child below a settled parent, child rows that come with their      *)
(* parent, nothing on the playback side without audio or a live stream,    *)
(* no stream advertised for a unit that is still to be made, no row left   *)
(* in the state no operation ever writes, and no two live utterances at    *)
(* the same place of the plan.                                             *)
Closed(d) ==
  \A p \in Parts : d.state[p[1]] \in Terminal => d.child[p] \in Terminal
RowsTogether(d) ==
  \A p \in Parts : d.child[p] = Absent <=> d.state[p[1]] = Absent
Audible(d) ==
  \A w \in Units : UnitState(d, w) \in PlaybackStates => w \in d.audio \cup d.jobs
Unmade == {Absent, "Submitted", "Queued", "Synthesizing"}
Advertised(d) ==
  \A w \in d.jobs : UnitState(d, w) \notin Unmade
NoneBare(d) ==
  /\ \A w \in Units : UnitState(d, w) # "Submitted"
  /\ \A u \in Utts : d.state[u] # "Submitted"
Ordered(d) ==
  \A u, v \in Utts : IsLive(d, u) /\ IsLive(d, v) /\ d.order[u] = d.order[v] => u = v

DbInv(d) ==
  /\ d \in Database
  /\ Closed(d) /\ RowsTogether(d) /\ Audible(d) /\ Advertised(d) /\ NoneBare(d)
  /\ Ordered(d)

(* From d to e no unit goes back to an earlier state of its production, no *)
(* utterance back to the queue, and no stream is advertised: work is only  *)
(* ever finished or given up.                                              *)
Onward(d, e) ==
  /\ e.jobs \subseteq d.jobs
  /\ \A w \in Units : UnitState(e, w) \in Unmade => UnitState(e, w) = UnitState(d, w)
  /\ \A u \in Utts : e.state[u] = "Queued" => d.state[u] = "Queued"

Advances(d, e) == DbInv(e) /\ Onward(d, e)

-----------------------------------------------------------------------------
(* Units: a child is never a Whole unit, and a Whole unit has no children. *)
LEMMA UnitShape ==
  /\ Parts \subseteq Units
  /\ \A p \in Parts : p[1] \in Utts /\ p[2] \in Nat /\ p[2] # Whole
  /\ \A w \in Units : /\ w[1] \in Utts
                      /\ \/ w \in Parts
                         \/ w \notin Parts /\ w[2] = Whole /\ w = <<w[1], Whole>>
  /\ \A u \in Utts : ChildrenOf(u) = {p \in Parts : p[1] = u}
  /\ \A w \in Units : w \in Parts \/ \A p \in Parts : p[1] # w[1]
  /\ \A w \in Units : w[1] \in Composite <=> w \in Parts
<1>1. \A u \in Utts : Chunks[u] \in Nat
  BY StoreAssumption
<1>2. \A p \in Parts : p[1] \in Utts /\ p[2] \in Nat /\ p[2] # Whole /\ Chunks[p[1]] > 0
  BY <1>1 DEF Parts, ChildrenOf, Whole
<1>3. \A w \in Units : /\ w[1] \in Utts
                       /\ \/ w \in Parts
                          \/ w \notin Parts /\ w[2] = Whole /\ w = <<w[1], Whole>>
                             /\ w[1] \notin Composite
  BY <1>1, <1>2 DEF Units, Whole, Composite
<1>4. \A u \in Utts : ChildrenOf(u) = {p \in Parts : p[1] = u}
  BY <1>1 DEF Parts, ChildrenOf
<1>5. Parts \subseteq Units
  BY DEF Units
<1>6. \A w \in Units : w[1] \in Composite <=> w \in Parts
  BY <1>2, <1>3 DEF Composite
<1>7. QED
  BY <1>2, <1>3, <1>4, <1>5, <1>6 DEF Composite

LEMMA StateFacts ==
  /\ Terminal \subseteq State /\ Absent \notin State /\ Absent = "Absent"
  /\ Live = State \ Terminal
  /\ PlaybackStates = {"Playing", "Paused", "Ready"}
  /\ Terminal = {"Played", "Skipped", "Cancelled", "Failed"}
  /\ PlaybackStates \subseteq Live /\ InputStates \subseteq Live
  /\ Unmade \cap (PlaybackStates \cup Terminal) = {}
  /\ Unmade = {"Absent", "Submitted", "Queued", "Synthesizing"}
  /\ State = Terminal \cup PlaybackStates \cup (Unmade \ {Absent})
BY DEF Terminal, State, Live, Absent, PlaybackStates, InputStates, Unmade

(* A unit that is not settled belongs to a live utterance.                 *)
LEMMA OwedIsLive ==
  ASSUME NEW d, DbInv(d), NEW w \in Units,
         UnitState(d, w) \notin Terminal \cup {Absent}
  PROVE  IsLive(d, w[1])
BY UnitShape, StateFacts DEF DbInv, Database, Closed, RowsTogether, UnitState, IsLive

LEMMA OnwardTrans ==
  ASSUME NEW d, NEW e, NEW f, Onward(d, e), Onward(e, f)
  PROVE  Onward(d, f)
BY DEF Onward

LEMMA AdvancesSelf == ASSUME NEW d, DbInv(d) PROVE Advances(d, d)
BY DEF Advances, Onward

LEMMA AdvancesTrans ==
  ASSUME NEW d, NEW e, NEW f, Advances(d, e), Advances(e, f)
  PROVE  Advances(d, f)
BY OnwardTrans DEF Advances

-----------------------------------------------------------------------------
(* The two transitions every other operation is made of.                   *)
LEMMA TransitionInv ==
  ASSUME NEW d, DbInv(d), NEW u \in Utts, NEW to \in State,
         d.state[u] # Absent, to # "Submitted",
         d.state[u] \in Terminal => to \in Terminal,
         to \in Unmade => <<u, Whole>> \notin d.jobs,
         to \in PlaybackStates => \A w \in Units \ Parts : w[1] = u => w \in d.audio \cup d.jobs
  PROVE  /\ DbInv(Transition(d, u, to))
         /\ (u \in Composite \/ to \notin Unmade) /\ to # "Queued" =>
              Advances(d, Transition(d, u, to))
<1> DEFINE e == Transition(d, u, to)
<1>1. /\ e.state = [d.state EXCEPT ![u] = to]
      /\ e.child = [p \in Parts |-> IF to \in Terminal /\ p[1] = u /\ d.child[p] \notin Terminal
                                      THEN "Cancelled" ELSE d.child[p]]
      /\ e.audio = d.audio /\ e.jobs = d.jobs
      /\ e.order = d.order /\ e.held = d.held
  BY SMTT(60) DEF Transition, DbInv, Database
<1>2. e \in Database
  BY StateFacts, ZenonT(60) DEF Transition, DbInv, Database
<1>3. Closed(e)
  BY <1>1, StateFacts, UnitShape DEF Closed, DbInv, Database
<1>4. RowsTogether(e)
  BY <1>1, StateFacts, UnitShape DEF RowsTogether, DbInv, Database
<1>5. Audible(e)
  BY <1>1, StateFacts, UnitShape DEF Audible, DbInv, Database, UnitState
<1>6. Advertised(e) /\ NoneBare(e)
  BY <1>1, StateFacts, UnitShape DEF Advertised, NoneBare, DbInv, Database, UnitState
<1>7. ASSUME u \in Composite \/ to \notin Unmade, to # "Queued" PROVE Onward(d, e)
  BY <1>1, <1>7, StateFacts, UnitShape DEF Onward, DbInv, Database, UnitState
<1>8. Ordered(e)
  <2>1. \A v \in Utts : IsLive(e, v) => IsLive(d, v)
    BY <1>1, StateFacts DEF IsLive, DbInv, Database
  <2>2. QED
    BY <1>1, <2>1 DEF Ordered, DbInv
<1>9. QED
  BY <1>2, <1>3, <1>4, <1>5, <1>6, <1>7, <1>8 DEF DbInv, Advances

LEMMA SegmentInv ==
  ASSUME NEW d, DbInv(d), NEW p \in Parts, NEW to \in State,
         d.child[p] # Absent, to # "Submitted",
         to \in Unmade => p \notin d.jobs,
         d.state[p[1]] \in Terminal => to \in Terminal,
         to \in PlaybackStates => p \in d.audio \cup d.jobs
  PROVE  /\ DbInv(TransitionSegment(d, p, to))
         /\ to \notin Unmade => Advances(d, TransitionSegment(d, p, to))
<1> DEFINE e == TransitionSegment(d, p, to)
<1>1. /\ e.child = [d.child EXCEPT ![p] = to]
      /\ e.state = d.state /\ e.audio = d.audio /\ e.jobs = d.jobs
      /\ e.order = d.order /\ e.held = d.held
  BY DEF TransitionSegment, DbInv, Database
<1>2. e \in Database
  BY StateFacts DEF TransitionSegment, DbInv, Database
<1>3. Closed(e)
  BY <1>1, StateFacts, UnitShape DEF Closed, DbInv, Database
<1>4. RowsTogether(e)
  BY <1>1, StateFacts, UnitShape DEF RowsTogether, DbInv, Database
<1>5. Audible(e)
  BY <1>1, StateFacts, UnitShape DEF Audible, DbInv, Database, UnitState
<1>6. Advertised(e) /\ NoneBare(e)
  BY <1>1, StateFacts, UnitShape DEF Advertised, NoneBare, DbInv, Database, UnitState
<1>7. ASSUME to \notin Unmade PROVE Onward(d, e)
  BY <1>1, <1>7, StateFacts, UnitShape DEF Onward, DbInv, Database, UnitState
<1>8. Ordered(e)
  BY <1>1 DEF Ordered, IsLive, DbInv
<1>9. QED
  BY <1>2, <1>3, <1>4, <1>5, <1>6, <1>7, <1>8 DEF DbInv, Advances

-----------------------------------------------------------------------------
(* Submission opens one utterance and its children.                        *)
LEMMA TailKeyIsFree ==
  ASSUME NEW d, DbInv(d), NEW k \in Int, IsTailKey(d, k), NEW v \in Utts, IsLive(d, v)
  PROVE  d.order[v] # k
<1>1. d.order[v] \in Int /\ v \in Submitted(d)
  BY StateFacts DEF DbInv, Database, Submitted, IsLive
<1>2. d.order[v] < k
  BY <1>1 DEF IsTailKey
<1>3. QED
  BY <1>1, <1>2

LEMMA HeadKeyIsFree ==
  ASSUME NEW d, DbInv(d), NEW k \in Int, IsHeadKey(d, k), NEW v \in Utts, IsLive(d, v)
  PROVE  d.order[v] # k
<1>1. d.order[v] \in Int /\ v \in LiveRows(d)
  BY DEF DbInv, Database, LiveRows
<1>2. k < d.order[v]
  BY <1>1 DEF IsHeadKey
<1>3. QED
  BY <1>1, <1>2

LEMMA SubmitInv ==
  ASSUME NEW d, DbInv(d), NEW u \in Utts, d.state[u] = Absent, NEW k \in Int,
         IsHeadKey(d, k) \/ IsTailKey(d, k)
  PROVE  /\ DbInv(SubmitRow(d, u, k))
         /\ SubmitRow(d, u, k).jobs = d.jobs
         /\ \A w \in Units : IF w[1] = u
              THEN UnitState(d, w) = Absent /\ UnitState(SubmitRow(d, u, k), w) = "Queued"
              ELSE UnitState(SubmitRow(d, u, k), w) = UnitState(d, w)
<1> DEFINE e == SubmitRow(d, u, k)
<1>1. /\ e.state = [d.state EXCEPT ![u] = "Queued"]
      /\ e.child = [p \in Parts |-> IF p[1] = u THEN "Queued" ELSE d.child[p]]
      /\ e.audio = d.audio /\ e.jobs = d.jobs
      /\ e.order = [d.order EXCEPT ![u] = k] /\ e.held = d.held
  BY SMTT(40) DEF SubmitRow, DbInv, Database
<1>2. e \in Database
  BY StateFacts DEF SubmitRow, DbInv, Database, State
<1>3. Closed(e)
  BY <1>1, StateFacts, UnitShape DEF Closed, DbInv, Database
<1>4. RowsTogether(e)
  BY <1>1, StateFacts, UnitShape DEF RowsTogether, DbInv, Database
<1>5. Audible(e)
  BY <1>1, StateFacts, UnitShape DEF Audible, DbInv, Database, UnitState
<1>6. \A w \in Units : IF w[1] = u
        THEN UnitState(d, w) = Absent /\ UnitState(e, w) = "Queued"
        ELSE UnitState(e, w) = UnitState(d, w)
  BY <1>1, UnitShape DEF DbInv, Database, UnitState, RowsTogether
<1>7. Advertised(e) /\ NoneBare(e)
  BY <1>1, <1>6, StateFacts, UnitShape DEF Advertised, NoneBare, DbInv, Database
<1>8. Ordered(e)
  <2>1. \A v \in Utts : IsLive(d, v) => d.order[v] # k
    BY TailKeyIsFree, HeadKeyIsFree
  <2>2. \A v \in Utts \ {u} : IsLive(e, v) => IsLive(d, v) /\ e.order[v] = d.order[v]
    BY <1>1 DEF IsLive, DbInv, Database
  <2>3. e.order[u] = k
    BY <1>1 DEF DbInv, Database
  <2>4. QED
    BY <2>1, <2>2, <2>3 DEF Ordered, DbInv
<1>9. QED
  BY <1>1, <1>2, <1>3, <1>4, <1>5, <1>6, <1>7, <1>8 DEF DbInv

(* A claim moves exactly the claimed unit from Queued to Synthesizing.     *)
LEMMA ClaimInv ==
  ASSUME NEW d, DbInv(d), NEW w \in Units, NEW held, Claimable(d, held, w)
  PROVE  /\ DbInv(Claim(d, w))
         /\ Claim(d, w).jobs = d.jobs
         /\ UnitState(d, w) = "Queued" /\ UnitState(Claim(d, w), w) = "Synthesizing"
         /\ \A v \in Units : v # w => UnitState(Claim(d, w), v) = UnitState(d, v)
         /\ Claim(d, w).state[w[1]] # "Queued"
         /\ \A v \in Utts : Claim(d, w).state[v] = "Queued" => d.state[v] = "Queued"
<1> DEFINE u == w[1]
           e == IF w[2] = Whole THEN d ELSE TransitionSegment(d, w, "Synthesizing")
           f == Claim(d, w)
<1>1. u \in Utts /\ UnitState(d, w) = "Queued" /\ IsLive(d, u)
  BY UnitShape, StateFacts DEF Claimable, UnitState, IsLive, DbInv, Database
<1>2. DbInv(e) /\ e.state = d.state /\ e.jobs = d.jobs
  <2>1. CASE w[2] = Whole  BY <2>1
  <2>2. CASE w[2] # Whole
    <3>1. w \in Parts /\ d.child[w] = "Queued" /\ w \notin d.jobs
      BY <2>2, <1>1, UnitShape DEF Claimable, DbInv, Advertised, Unmade
    <3>2. DbInv(TransitionSegment(d, w, "Synthesizing"))
      BY <3>1, <1>1, SegmentInv, StateFacts DEF IsLive, Live, State
    <3>3. QED
      BY <2>2, <3>2 DEF TransitionSegment, DbInv, Database
  <2>3. QED  BY <2>1, <2>2
<1>3. f = IF d.state[u] = "Queued" THEN Transition(e, u, "Synthesizing") ELSE e
  BY DEF Claim
<1>4. DbInv(f)
  <2>1. ASSUME d.state[u] = "Queued" PROVE <<u, Whole>> \notin d.jobs
    BY <2>1 DEF DbInv, Advertised, Unmade, UnitState
  <2>2. QED
    BY <2>1, <1>1, <1>2, <1>3, TransitionInv, StateFacts DEF State, IsLive
<1>5. f.jobs = d.jobs /\ f.state = IF d.state[u] = "Queued"
                                     THEN [d.state EXCEPT ![u] = "Synthesizing"] ELSE d.state
  BY <1>2, <1>3 DEF Transition, DbInv, Database
<1>6. f.child = e.child
  BY <1>2, <1>3, StateFacts DEF Transition, DbInv, Database
<1>7. e.child = IF w[2] = Whole THEN d.child ELSE [d.child EXCEPT ![w] = "Synthesizing"]
  BY DEF TransitionSegment, DbInv, Database
<1>8. UnitState(f, w) = "Synthesizing"
  BY <1>1, <1>5, <1>6, <1>7, UnitShape DEF UnitState, DbInv, Database
<1>9. ASSUME NEW v \in Units, v # w PROVE UnitState(f, v) = UnitState(d, v)
  BY <1>1, <1>5, <1>6, <1>7, <1>9, UnitShape DEF UnitState, DbInv, Database
<1>10. f.state[u] # "Queued" /\ \A v \in Utts : f.state[v] = "Queued" => d.state[v] = "Queued"
  BY <1>1, <1>5 DEF DbInv, Database
<1>11. QED
  BY <1>1, <1>4, <1>5, <1>8, <1>9, <1>10

(* Setting or dropping what a unit owns.                                   *)
LEMMA OwnedInv ==
  ASSUME NEW d, DbInv(d), NEW a, NEW j, a \subseteq Units, j \subseteq Units,
         \A w \in j : UnitState(d, w) \notin Unmade,
         \A w \in Units : UnitState(d, w) \in PlaybackStates => w \in a \cup j
  PROVE  /\ DbInv([d EXCEPT !.audio = a, !.jobs = j])
         /\ j \subseteq d.jobs => Advances(d, [d EXCEPT !.audio = a, !.jobs = j])
<1> DEFINE e == [d EXCEPT !.audio = a, !.jobs = j]
<1>1. /\ e.state = d.state /\ e.child = d.child /\ e.audio = a /\ e.jobs = j
      /\ e.order = d.order /\ e \in Database
  BY DEF DbInv, Database
<1>2. DbInv(e)
  BY <1>1 DEF DbInv, Closed, RowsTogether, Audible, Advertised, NoneBare, UnitState,
                  Ordered, IsLive
<1>3. QED
  BY <1>1, <1>2 DEF Advances, Onward, UnitState

LEMMA HeldInv ==
  ASSUME NEW d, DbInv(d), NEW b \in BOOLEAN
  PROVE  Advances(d, [d EXCEPT !.held = b])
<1> DEFINE e == [d EXCEPT !.held = b]
<1>1. /\ e.state = d.state /\ e.child = d.child /\ e.audio = d.audio /\ e.jobs = d.jobs
      /\ e.order = d.order /\ e \in Database
  BY DEF DbInv, Database
<1>2. QED
  BY <1>1 DEF DbInv, Closed, RowsTogether, Audible, Advertised, NoneBare, UnitState, Ordered,
              IsLive, Advances, Onward

(* A job is discarded once its unit owns a file or can no longer sound.    *)
LEMMA DiscardInv ==
  ASSUME NEW d, DbInv(d), NEW w,
         w \in Units => (w \in d.audio \/ UnitState(d, w) \notin PlaybackStates)
  PROVE  Advances(d, DiscardJob(d, w)) /\ DiscardJob(d, w).jobs = d.jobs \ {w}
<1> DEFINE j == d.jobs \ {w}
<1>1. DiscardJob(d, w) = [d EXCEPT !.audio = d.audio, !.jobs = j]
  BY DEF DiscardJob, DbInv, Database
<1>2. d.audio \subseteq Units /\ j \subseteq Units /\ j \subseteq d.jobs
  BY DEF DbInv, Database
<1>3. \A v \in Units : UnitState(d, v) \in PlaybackStates => v \in d.audio \cup j
  BY DEF DbInv, Audible
<1>4. Advances(d, DiscardJob(d, w))
  <2> HIDE DEF j
  <2>1. Advances(d, [d EXCEPT !.audio = d.audio, !.jobs = j])
    BY <1>2, <1>3, OwnedInv DEF DbInv, Advertised
  <2>2. QED
    BY <1>1, <2>1
<1>5. QED
  BY <1>1, <1>4 DEF DbInv, Database

(* Advertising a stream: afterwards the unit is not being made any more,   *)
(* and no other unit has moved.                                            *)
LEMMA StartStreamingInv ==
  ASSUME NEW d, DbInv(d), NEW w \in Units
  PROVE  LET e == StartStreaming(d, w)
         IN  /\ DbInv(e)
             /\ e.jobs \subseteq d.jobs \cup {w}
             /\ UnitState(e, w) # "Synthesizing"
             /\ \A v \in Units : UnitState(e, v) \in Unmade => UnitState(e, v) = UnitState(d, v)
             /\ \A v \in Utts : e.state[v] = "Queued" => d.state[v] = "Queued"
<1> DEFINE u == w[1]
           j == d.jobs \cup {w}
           e == [d EXCEPT !.jobs = @ \cup {w}]
           f == IF w[2] = Whole THEN e ELSE TransitionSegment(e, w, "Ready")
           g == StartStreaming(d, w)
<1>1. CASE ~Active(d, w) \/ w \in d.jobs
  <2>1. g = d
    BY <1>1 DEF StartStreaming
  <2>2. UnitState(d, w) # "Synthesizing"
    BY <1>1, OwedIsLive, StateFacts DEF Active, DbInv, Advertised
  <2>3. QED
    BY <2>1, <2>2
<1>2. CASE Active(d, w) /\ w \notin d.jobs
  <2>1. UnitState(d, w) = "Synthesizing" /\ IsLive(d, u) /\ u \in Utts
    BY <1>2, UnitShape DEF Active
  <2>2. g = IF w[2] = Whole \/ (w[2] = 0 /\ d.state[u] = "Synthesizing")
              THEN Transition(f, u, "Ready") ELSE f
    BY <1>2 DEF StartStreaming
  <2>3. /\ e.state = d.state /\ e.child = d.child /\ e.audio = d.audio /\ e.jobs = j
        /\ e.order = d.order /\ e.held = d.held
        /\ e \in Database
    BY DEF DbInv, Database
  <2>4. f.state = d.state /\ f.audio = d.audio /\ f.jobs = j /\ f.order = d.order
        /\ f.child = (IF w[2] = Whole THEN d.child ELSE [d.child EXCEPT ![w] = "Ready"])
    BY <2>3 DEF TransitionSegment, Database
  <2>5. f \in Database
    BY <2>3, UnitShape DEF TransitionSegment, Database, State
  <2> SUFFICES /\ DbInv(g) /\ g.jobs \subseteq j /\ UnitState(g, w) # "Synthesizing"
               /\ \A v \in Units : UnitState(g, v) \in Unmade =>
                                    UnitState(g, v) = UnitState(d, v)
               /\ \A v \in Utts : g.state[v] = "Queued" => d.state[v] = "Queued"
    OBVIOUS
  <2> HIDE DEF e, f, g
  <2>6. CASE w[2] = Whole
    <3>1. w \notin Parts /\ w = <<u, Whole>> /\ u \notin Composite
      BY <2>6, UnitShape
    <3>2. g = Transition(e, u, "Ready")
      BY <2>2, <2>6 DEF f
    <3>3. /\ g.state = [d.state EXCEPT ![u] = "Ready"] /\ g.audio = d.audio /\ g.jobs = j
          /\ g.child = d.child /\ g.order = d.order
      BY <3>2, <2>3, StateFacts DEF Transition, Database
    <3>4. g \in Database
      BY <3>2, <2>1, <2>3, StateFacts, ZenonT(40) DEF Transition, Database
    <3>5. \A v \in Units : UnitState(g, v) = IF v = w THEN "Ready" ELSE UnitState(d, v)
      BY <3>1, <3>3, UnitShape DEF UnitState, DbInv, Database
    <3>6. Closed(g) /\ RowsTogether(g)
      BY <3>1, <3>3, <2>1, UnitShape, StateFacts
      DEF Closed, RowsTogether, DbInv, Database, IsLive
    <3>7. Audible(g) /\ Advertised(g) /\ NoneBare(g)
      BY <3>3, <3>5, StateFacts DEF Audible, Advertised, NoneBare, DbInv, Database
    <3>8. \A v \in Utts : /\ IsLive(g, v) => IsLive(d, v)
                          /\ g.state[v] = "Queued" => d.state[v] = "Queued"
      BY <2>1, <3>3 DEF IsLive, DbInv, Database
    <3>9. Ordered(g)
      BY <3>3, <3>8 DEF Ordered, DbInv
    <3>10. QED
      BY <3>3, <3>4, <3>5, <3>6, <3>7, <3>8, <3>9, StateFacts DEF DbInv
  <2>7. CASE w[2] # Whole
    <3>1. w \in Parts /\ u \in Composite
      BY <2>7, UnitShape
    <3>2. \A v \in Units : UnitState(f, v) = IF v = w THEN "Ready" ELSE UnitState(d, v)
      BY <3>1, <2>4, <2>7, UnitShape DEF UnitState, DbInv, Database
    <3>3. Closed(f) /\ RowsTogether(f)
      BY <3>1, <2>1, <2>4, <2>7, UnitShape, StateFacts
      DEF Closed, RowsTogether, DbInv, Database, IsLive
    <3>4. Audible(f) /\ Advertised(f) /\ NoneBare(f)
      BY <3>2, <2>4, StateFacts DEF Audible, Advertised, NoneBare, DbInv, Database
    <3>5. DbInv(f)
      BY <2>4, <2>5, <3>3, <3>4 DEF DbInv, Ordered, IsLive
    <3>6. Advances(f, Transition(f, u, "Ready"))
      BY <3>1, <3>5, <2>1, <2>4, TransitionInv, UnitShape, StateFacts DEF State, IsLive, Live
    <3>7. Advances(f, g)
      BY <3>5, <3>6, <2>2, <2>7, AdvancesSelf
    <3>8. g.jobs \subseteq j
      BY <3>7, <2>4 DEF Advances, Onward
    <3>9. \A v \in Units : UnitState(g, v) \in Unmade =>
            UnitState(g, v) = UnitState(f, v) /\ v # w
      BY <3>7, <3>2, StateFacts DEF Advances, Onward
    <3>10. \A v \in Utts : g.state[v] = "Queued" => d.state[v] = "Queued"
      BY <2>4, <3>7 DEF Advances, Onward
    <3>11. QED
      BY <3>2, <3>7, <3>8, <3>9, <3>10, StateFacts DEF Advances, Unmade
  <2>8. QED
    BY <2>6, <2>7
<1>3. QED
  BY <1>1, <1>2

(* Rewriting many rows at once: every row stays as it is, is settled, or   *)
(* stays on the playback side, and no child is left open below a settled   *)
(* parent.                                                                 *)
MayBecome(s, t) ==
  \/ t = s
  \/ s # Absent /\ t \in Terminal
  \/ s \in PlaybackStates /\ t \in PlaybackStates

LEMMA RowsInv ==
  ASSUME NEW d, DbInv(d),
         NEW s \in [Utts -> State \cup {Absent}],
         NEW c \in [Parts -> State \cup {Absent}],
         \A u \in Utts : MayBecome(d.state[u], s[u]),
         \A p \in Parts : MayBecome(d.child[p], c[p]),
         \A p \in Parts : s[p[1]] \in Terminal => c[p] \in Terminal
  PROVE  Advances(d, [d EXCEPT !.state = s, !.child = c])
<1> DEFINE e == [d EXCEPT !.state = s, !.child = c]
<1>1. /\ e.state = s /\ e.child = c /\ e.audio = d.audio /\ e.jobs = d.jobs
      /\ e.order = d.order /\ e \in Database
  BY DEF DbInv, Database
<1> HIDE DEF e
<1>2. \A w \in Units : MayBecome(UnitState(d, w), UnitState(e, w))
  BY <1>1, UnitShape DEF UnitState
<1>3. \A w \in Units : UnitState(e, w) \in Unmade => UnitState(e, w) = UnitState(d, w)
  BY <1>2, StateFacts DEF MayBecome
<1>4. Closed(e)
  BY <1>1 DEF Closed
<1>5. RowsTogether(e)
  BY <1>1, UnitShape, StateFacts DEF RowsTogether, DbInv, MayBecome
<1>6. Audible(e)
  BY <1>1, <1>2, StateFacts DEF Audible, DbInv, MayBecome
<1>7. Advertised(e) /\ NoneBare(e)
  BY <1>1, <1>3, StateFacts DEF Advertised, NoneBare, DbInv, Database, Unmade, MayBecome
<1>8. \A u \in Utts : /\ IsLive(e, u) => IsLive(d, u)
                      /\ e.state[u] = "Queued" => d.state[u] = "Queued"
  BY <1>1, StateFacts DEF MayBecome, IsLive
<1>9. Ordered(e)
  BY <1>1, <1>8 DEF Ordered, DbInv
<1>10. DbInv(e) /\ Onward(d, e)
  BY <1>1, <1>3, <1>4, <1>5, <1>6, <1>7, <1>8, <1>9 DEF DbInv, Onward
<1>11. QED
  BY <1>10 DEF Advances, e

(* Publication: every commit leads onward, gives the unit its file, and    *)
(* leaves it neither in production nor, after the last one, advertised.    *)
LEMMA PublishInv ==
  ASSUME NEW d, DbInv(d), NEW w \in Units, Active(d, w)
  PROVE  LET c == PublishCommits(d, w)
         IN  /\ \/ \E e : c = <<e>>
                \/ \E e, f : c = <<e, f>>
             /\ \A i \in 1 .. Len(c) : /\ Advances(d, c[i])
                                       /\ UnitState(c[i], w) # "Synthesizing"
                                       /\ w \in c[i].audio
<1> DEFINE u == w[1]
           a == d.audio \cup {w}
           e == [d EXCEPT !.audio = @ \cup {w}]
           f == TransitionSegment(e, w, "Ready")
<1>1. IsLive(d, u) /\ u \in Utts
  BY UnitShape DEF Active
<1>2. /\ e.state = d.state /\ e.child = d.child /\ e.audio = a /\ e.jobs = d.jobs
      /\ e.order = d.order /\ e.held = d.held /\ e \in Database
  BY DEF DbInv, Database
<1>3. e = [d EXCEPT !.audio = a, !.jobs = d.jobs]
  BY DEF DbInv, Database
<1>4. Advances(d, e)
  <2> HIDE DEF a, e
  <2>1. a \subseteq Units /\ d.jobs \subseteq Units /\ d.audio \subseteq a
    BY DEF a, DbInv, Database
  <2>2. Advances(d, [d EXCEPT !.audio = a, !.jobs = d.jobs])
    BY <2>1, OwnedInv DEF DbInv, Audible, Advertised
  <2>3. QED
    BY <1>3, <2>2
<1>5. DbInv(e) /\ w \in e.audio /\ IsLive(e, u) /\ UnitState(e, w) = UnitState(d, w)
  BY <1>1, <1>2, <1>4 DEF Advances, IsLive, UnitState
<1> HIDE DEF a, e, f
<1>6. CASE w \in d.jobs
  <2>1. PublishCommits(d, w) = <<DiscardJob(e, w)>>
    BY <1>6 DEF PublishCommits, e
  <2>2. Advances(e, DiscardJob(e, w))
    BY <1>5, DiscardInv
  <2>3. /\ DiscardJob(e, w).audio = e.audio
        /\ UnitState(DiscardJob(e, w), w) = UnitState(d, w)
    BY <1>2, <1>5 DEF DiscardJob, Database, UnitState
  <2>4. UnitState(d, w) # "Synthesizing"
    BY <1>6 DEF DbInv, Advertised, Unmade
  <2>5. Advances(d, DiscardJob(e, w))
    BY <1>4, <2>2, AdvancesTrans
  <2>6. QED
    BY <1>5, <2>1, <2>3, <2>4, <2>5
<1>7. CASE w \notin d.jobs /\ w[2] = Whole
  <2>1. PublishCommits(d, w) = <<Transition(e, u, "Ready")>>
    BY <1>7 DEF PublishCommits, e
  <2>2. \A v \in Units \ Parts : v[1] = u => v = w
    BY <1>7, UnitShape
  <2>3. Advances(e, Transition(e, u, "Ready"))
    <3>1. e.state[u] # Absent /\ e.state[u] \notin Terminal
          /\ "Ready" \in State /\ "Ready" \notin Unmade
      BY <1>5, StateFacts DEF IsLive
    <3>2. \A v \in Units \ Parts : v[1] = u => v \in e.audio \cup e.jobs
      BY <1>5, <2>2
    <3>3. QED
      BY <1>1, <1>5, <3>1, <3>2, TransitionInv
  <2>4. /\ Transition(e, u, "Ready").audio = e.audio
        /\ UnitState(Transition(e, u, "Ready"), w) = "Ready"
    BY <1>1, <1>2, <1>7 DEF Transition, Database, UnitState
  <2>5. Advances(d, Transition(e, u, "Ready"))
    BY <1>4, <2>3, AdvancesTrans
  <2>6. QED
    BY <1>5, <2>1, <2>4, <2>5
<1>8. CASE w \notin d.jobs /\ w[2] # Whole
  <2>1. PublishCommits(d, w) = IF w[2] = 0 /\ d.state[u] = "Synthesizing"
                                 THEN <<f, Transition(f, u, "Ready")>> ELSE <<f>>
    BY <1>8 DEF PublishCommits, e, f
  <2>2. w \in Parts /\ u \in Composite
    BY <1>8, UnitShape
  <2>3. d.child[w] = "Synthesizing"
    BY <1>8 DEF Active, UnitState
  <2>4. Advances(e, f)
    BY <1>1, <1>2, <1>5, <2>2, <2>3, SegmentInv, StateFacts DEF IsLive, f
  <2>5. f.state = d.state /\ f.audio = e.audio /\ f.child[w] = "Ready"
    BY <1>2, <2>2 DEF f, TransitionSegment, Database
  <2>6. Advances(d, f) /\ DbInv(f) /\ UnitState(f, w) = "Ready"
    BY <1>4, <1>8, <2>4, <2>5, AdvancesTrans DEF Advances, UnitState
  <2>7. CASE w[2] = 0 /\ d.state[u] = "Synthesizing"
    <3> DEFINE g == Transition(f, u, "Ready")
    <3>1. \A v \in Units \ Parts : v[1] # u
      BY <2>2, UnitShape
    <3>2. Advances(f, g)
      BY <1>1, <2>2, <2>5, <2>6, <3>1, TransitionInv, StateFacts DEF IsLive
    <3>3. Advances(d, g)
      BY <2>6, <3>2, AdvancesTrans
    <3>4. g.audio = f.audio /\ g.child = f.child
      BY <2>6, StateFacts DEF Transition, DbInv, Database
    <3>5. UnitState(g, w) = "Ready"
      BY <1>8, <2>5, <3>4 DEF UnitState
    <3>6. PublishCommits(d, w) = <<f, g>>
      BY <2>1, <2>7
    <3> HIDE DEF g
    <3>7. QED
      BY <1>5, <2>5, <2>6, <3>3, <3>4, <3>5, <3>6
  <2>8. CASE ~(w[2] = 0 /\ d.state[u] = "Synthesizing")
    BY <1>5, <2>1, <2>5, <2>6, <2>8
  <2>9. QED
    BY <2>7, <2>8
<1>9. QED
  BY <1>6, <1>7, <1>8

(* A recorded failure: every commit leads onward, and the last one settles *)
(* the unit.                                                               *)
LEMMA FailedChildInv ==
  ASSUME NEW d, DbInv(d), NEW w \in Parts, Active(d, w)
  PROVE  /\ Advances(d, FailedChild(d, w))
         /\ FailedChild(d, w).state = d.state
         /\ FailedChild(d, w).child[w] \in Terminal
<1> DEFINE failing == {"Synthesizing"} \cup (IF w \in d.jobs THEN PlaybackStates ELSE {})
           e == IF d.child[w] \in failing THEN TransitionSegment(d, w, "Failed") ELSE d
           c == [p \in Parts |->
                   IF p[1] = w[1] /\ e.child[p] \in {"Queued", "Synthesizing", "Ready"}
                     THEN "Cancelled" ELSE e.child[p]]
<1>1. w \in Units /\ w[2] # Whole /\ IsLive(d, w[1]) /\ d.child[w] # Absent
  BY UnitShape, StateFacts DEF Active, IsLive, DbInv, RowsTogether
<1>2. Advances(d, e) /\ e.state = d.state
  <2>1. Advances(d, TransitionSegment(d, w, "Failed"))
    BY <1>1, SegmentInv, StateFacts
  <2>2. TransitionSegment(d, w, "Failed").state = d.state
    BY DEF TransitionSegment, DbInv, Database
  <2>3. QED
    BY <2>1, <2>2, AdvancesSelf
<1>3. d.child[w] \in {"Synthesizing"} \cup PlaybackStates \cup Terminal
  BY <1>1, StateFacts DEF Active, UnitState, DbInv, Advertised, Database
<1>4. e.child = IF d.child[w] \in failing THEN [d.child EXCEPT ![w] = "Failed"] ELSE d.child
  BY DEF TransitionSegment, DbInv, Database
<1>5. e.child[w] \in Terminal
  BY <1>1, <1>3, <1>4, StateFacts DEF DbInv, Database, Active, UnitState
<1>6. FailedChild(d, w) = [e EXCEPT !.child = c]
  BY DEF FailedChild
<1> HIDE DEF e
<1>7. DbInv(e)
  BY <1>2 DEF Advances
<1>8. /\ c \in [Parts -> State \cup {Absent}]
      /\ \A p \in Parts : MayBecome(e.child[p], c[p])
      /\ \A p \in Parts : e.child[p] \in Terminal => c[p] = e.child[p]
  BY <1>7, StateFacts DEF MayBecome, DbInv, Database
<1> HIDE DEF c
<1>9. [e EXCEPT !.child = c] = [e EXCEPT !.state = e.state, !.child = c]
  BY <1>7 DEF DbInv, Database
<1>10. e.state \in [Utts -> State \cup {Absent}] /\ \A u \in Utts : MayBecome(e.state[u], e.state[u])
  BY <1>7 DEF DbInv, Database, MayBecome
<1>11. \A p \in Parts : e.state[p[1]] \in Terminal => c[p] \in Terminal
  BY <1>7, <1>8 DEF DbInv, Closed
<1>12. Advances(e, [e EXCEPT !.child = c])
  BY <1>7, <1>8, <1>9, <1>10, <1>11, RowsInv
<1>13. Advances(d, FailedChild(d, w))
  BY <1>2, <1>6, <1>12, AdvancesTrans
<1>14. FailedChild(d, w).state = e.state /\ FailedChild(d, w).child = c
  BY <1>6, <1>7 DEF DbInv, Database
<1>15. QED
  BY <1>2, <1>5, <1>8, <1>13, <1>14

LEMMA FailInv ==
  ASSUME NEW d, DbInv(d), NEW w \in Units, Active(d, w)
  PROVE  LET c == FailCommits(d, w)
         IN  /\ \/ \E e : c = <<e>>
                \/ \E e, f : c = <<e, f>>
             /\ \A i \in 1 .. Len(c) : Advances(d, c[i])
             /\ UnitState(c[Len(c)], w) \in Terminal
<1> DEFINE u == w[1]
<1>1. IsLive(d, u) /\ u \in Utts /\ d.state[u] # Absent
  BY UnitShape, StateFacts DEF Active, IsLive
<1>2. "Failed" \in State /\ "Failed" \notin Unmade /\ "Failed" \notin PlaybackStates
      /\ "Failed" \in Terminal
  BY StateFacts
<1>3. CASE w[2] = Whole
  <2>1. FailCommits(d, w) = <<Transition(d, u, "Failed")>>
    BY <1>3 DEF FailCommits
  <2>2. Advances(d, Transition(d, u, "Failed"))
    BY <1>1, <1>2, TransitionInv
  <2>3. UnitState(Transition(d, u, "Failed"), w) = "Failed"
    BY <1>1, <1>3 DEF UnitState, Transition, DbInv, Database
  <2>4. QED
    BY <1>2, <2>1, <2>2, <2>3
<1>4. CASE w[2] # Whole
  <2> DEFINE e == FailedChild(d, w)
             f == Transition(e, u, "Failed")
  <2>1. w \in Parts
    BY <1>4, UnitShape
  <2>2. Advances(d, e) /\ DbInv(e) /\ e.state = d.state /\ e.child[w] \in Terminal
    BY <2>1, FailedChildInv DEF Advances
  <2>3. FailCommits(d, w) = <<e, f>>
    BY <1>1, <1>4, <2>2 DEF FailCommits, IsLive
  <2> HIDE DEF e
  <2>4. Advances(e, f)
    BY <1>1, <1>2, <2>2, TransitionInv
  <2>5. Advances(d, f)
    BY <2>2, <2>4, AdvancesTrans
  <2>6. f.child[w] \in Terminal
    BY <2>1, <2>2, StateFacts DEF Transition, DbInv, Database
  <2> HIDE DEF f
  <2>7. UnitState(f, w) \in Terminal
    BY <1>4, <2>6 DEF UnitState
  <2>8. QED
    BY <2>2, <2>3, <2>5, <2>7
<1>5. QED
  BY <1>3, <1>4

-----------------------------------------------------------------------------
(* Skipping, clearing and reordering.                                      *)
LEMMA SkipInv ==
  ASSUME NEW d, DbInv(d), NEW u \in Utts, d.state[u] # Absent, NEW active,
         active \in Parts => d.state[active[1]] # Absent
  PROVE  Advances(d, SkipUtterance(d, u, active))
<1> DEFINE e == IF active \in Parts /\ d.child[active] \in {"Playing", "Paused"}
                  THEN TransitionSegment(d, active, "Skipped") ELSE d
<1>0. "Skipped" \in State /\ "Skipped" \notin Unmade /\ "Skipped" \notin PlaybackStates
      /\ "Skipped" \in Terminal /\ "Skipped" # "Submitted"
  BY StateFacts DEF Unmade
<1>1. Advances(d, e) /\ e.state = d.state
  <2>1. CASE active \in Parts /\ d.child[active] \in {"Playing", "Paused"}
    <3>1. Advances(d, TransitionSegment(d, active, "Skipped"))
      BY <2>1, <1>0, SegmentInv, StateFacts
    <3>2. TransitionSegment(d, active, "Skipped").state = d.state
      BY DEF TransitionSegment, DbInv, Database
    <3>3. QED
      BY <2>1, <3>1, <3>2
  <2>2. CASE ~(active \in Parts /\ d.child[active] \in {"Playing", "Paused"})
    BY <2>2, AdvancesSelf
  <2>3. QED  BY <2>1, <2>2
<1>2. SkipUtterance(d, u, active) = Transition(e, u, "Skipped")
  BY DEF SkipUtterance
<1> HIDE DEF e
<1>3. Advances(e, Transition(e, u, "Skipped"))
  BY <1>0, <1>1, TransitionInv DEF Advances
<1>4. QED
  BY <1>1, <1>2, <1>3, AdvancesTrans

LEMMA CancelAllInv ==
  ASSUME NEW d, DbInv(d), NEW rows, \A u \in rows : d.state[u] # Absent, rows \subseteq Utts
  PROVE  Advances(d, CancelAll(d, rows))
<1> DEFINE s == [u \in Utts |-> IF u \in rows THEN "Cancelled" ELSE d.state[u]]
           c == [p \in Parts |-> IF p[1] \in rows /\ d.child[p] \notin Terminal
                                   THEN "Cancelled" ELSE d.child[p]]
<1>1. s \in [Utts -> State \cup {Absent}] /\ c \in [Parts -> State \cup {Absent}]
  BY StateFacts DEF DbInv, Database
<1>2. \A u \in Utts : MayBecome(d.state[u], s[u])
  BY StateFacts DEF MayBecome
<1>3. \A p \in Parts : MayBecome(d.child[p], c[p])
  BY StateFacts DEF MayBecome, DbInv, RowsTogether
<1>4. \A p \in Parts : s[p[1]] \in Terminal => c[p] \in Terminal
  BY UnitShape, StateFacts DEF DbInv, Closed
<1>5. CancelAll(d, rows) = [d EXCEPT !.state = s, !.child = c]
  BY DEF CancelAll
<1> HIDE DEF s, c
<1>6. QED
  <2>1. Advances(d, [d EXCEPT !.state = s, !.child = c])
    BY <1>1, <1>2, <1>3, <1>4, RowsInv
  <2>2. QED
    BY <1>5, <2>1

LEMMA ReorderInv ==
  ASSUME NEW d, DbInv(d), NEW place \in Places(d), NEW base \in Int, IsReorderBase(d, base)
  PROVE  Advances(d, Reordered(d, place, base))
<1> DEFINE e == Reordered(d, place, base)
<1>1. \A u \in Pending(d) : place[u] \in Int
  BY DEF Places
<1>2. e.state = d.state /\ e.child = d.child /\ e.audio = d.audio /\ e.jobs = d.jobs
  BY DEF Reordered, DbInv, Database
<1>3. e \in Database
  BY <1>1 DEF Reordered, DbInv, Database
<1>4. Ordered(e)
  <2>1. e.order = [u \in Utts |-> IF u \in Pending(d) THEN base + place[u] ELSE d.order[u]]
    BY DEF Reordered, DbInv, Database
  <2>2. \A u \in Pending(d) : place[u] \in Nat /\ place[u] > 0
    BY FS_CardinalityType, <1>1 DEF Places
  <2>3. \A u \in Utts : IsLive(e, u) => IsLive(d, u) /\ (u \in Pending(d) \/ u \in Sounding(d))
    BY <1>2, StateFacts DEF IsLive, Pending, Sounding, In, PendingStates, DbInv, NoneBare, Database
  <2>4. \A u \in Sounding(d) : d.order[u] <= base /\ u \in Utts /\ d.order[u] \in Int
    BY DEF IsReorderBase, DbInv, Database, Sounding
  <2>5. \A u, v \in Pending(d) : place[u] = place[v] => u = v
    BY DEF Places
  <2> SUFFICES ASSUME NEW u \in Utts, NEW v \in Utts, IsLive(e, u), IsLive(e, v),
                      e.order[u] = e.order[v]
               PROVE  u = v
    BY DEF Ordered
  <2> HIDE DEF e
  <2>6. CASE u \in Pending(d) /\ v \in Pending(d)
    <3>1. place[u] \in Nat /\ place[v] \in Nat /\ base + place[u] = base + place[v]
      BY <2>1, <2>2, <2>6
    <3>2. place[u] = place[v]
      BY <3>1
    <3>3. QED
      BY <2>5, <2>6, <3>2
  <2>7. CASE u \in Pending(d) /\ v \notin Pending(d)
    <3>1. e.order[u] = base + place[u] /\ e.order[v] = d.order[v] /\ v \in Sounding(d)
      BY <2>1, <2>3, <2>7
    <3>2. place[u] \in Nat /\ place[u] > 0 /\ d.order[v] <= base /\ d.order[v] \in Int
      BY <2>2, <2>4, <2>7, <3>1
    <3>3. base + place[u] = d.order[v]
      BY <3>1
    <3>4. QED
      BY <3>2, <3>3
  <2>8. CASE v \in Pending(d) /\ u \notin Pending(d)
    <3>1. e.order[v] = base + place[v] /\ e.order[u] = d.order[u] /\ u \in Sounding(d)
      BY <2>1, <2>3, <2>8
    <3>2. place[v] \in Nat /\ place[v] > 0 /\ d.order[u] <= base /\ d.order[u] \in Int
      BY <2>2, <2>4, <2>8, <3>1
    <3>3. base + place[v] = d.order[u]
      BY <3>1
    <3>4. QED
      BY <3>2, <3>3
  <2>9. CASE u \notin Pending(d) /\ v \notin Pending(d)
    BY <2>1, <2>3, <2>9 DEF Ordered, DbInv
  <2>10. QED
    BY <2>6, <2>7, <2>8, <2>9
<1> HIDE DEF e
<1>5. QED
  BY <1>2, <1>3, <1>4 DEF Advances, Onward, DbInv, Closed, RowsTogether, Audible, Advertised,
                          NoneBare, UnitState, e

-----------------------------------------------------------------------------
(* Recovery of the streams a dead process left behind: afterwards nothing  *)
(* is advertised, and the invariant still holds of what remains.           *)
LEMMA RecoverStreamsInv ==
  ASSUME NEW d, DbInv(d)
  PROVE  DbInv(RecoverStreams(d)) /\ RecoverStreams(d).jobs = {}
<1> DEFINE lost == Interrupted(d)
           e == RecoverStreams(d)
<1>1. /\ e.child = [p \in Parts |-> IF p \in lost /\ d.child[p] \notin Terminal
                                      THEN "Queued" ELSE d.child[p]]
      /\ e.state = [v \in Utts |->
                      IF <<v, Whole>> \in lost THEN "Queued"
                      ELSE IF {w \in lost : w[1] = v} # {} /\ d.state[v] = "Playing"
                        THEN "Paused" ELSE d.state[v]]
      /\ e.audio = d.audio \ {w \in lost : w[2] = Whole \/ d.child[w] \notin Terminal}
      /\ e.jobs = {} /\ e.order = d.order
  BY DEF RecoverStreams, DbInv, Database
<1>2. e \in Database
  <2> DEFINE h == d.held \/ \E w \in lost : d.state[w[1]] \in {"Playing", "Paused"}
             c == e.child
             s == e.state
             a == e.audio
  <2>1. e = [d EXCEPT !.held = h, !.child = c, !.state = s, !.audio = a, !.jobs = {}]
    BY <1>1 DEF RecoverStreams
  <2>2. h \in BOOLEAN
    OBVIOUS
  <2>3. c \in [Parts -> State \cup {Absent}] /\ s \in [Utts -> State \cup {Absent}]
        /\ a \in SUBSET Units
    BY <1>1, StateFacts DEF DbInv, Database
  <2> HIDE DEF h, c, s, a, e
  <2>4. QED
    BY <2>1, <2>2, <2>3 DEF DbInv, Database
<1> HIDE DEF e
<1>3. \A w \in lost : w \in Units /\ w \in d.jobs /\ IsLive(d, w[1])
  BY DEF Interrupted, DbInv, Database
<1> HIDE DEF lost
<1>4. \A u \in Utts : /\ e.state[u] \in Terminal <=> d.state[u] \in Terminal
                      /\ e.state[u] = Absent <=> d.state[u] = Absent
  BY <1>1, <1>3, StateFacts DEF IsLive
<1>5. \A p \in Parts : /\ e.child[p] \in Terminal <=> d.child[p] \in Terminal
                       /\ e.child[p] = Absent => d.child[p] = Absent
                       /\ d.child[p] = Absent => p \notin lost
  BY <1>1, <1>3, StateFacts, UnitShape
  DEF DbInv, Advertised, UnitState, Unmade
<1>6. Closed(e) /\ RowsTogether(e)
  BY <1>1, <1>4, <1>5, UnitShape DEF Closed, RowsTogether, DbInv
<1>7. \A w \in Units : w \in lost /\ UnitState(d, w) \notin Terminal => UnitState(e, w) = "Queued"
  BY <1>1, <1>3, UnitShape DEF UnitState
<1>8. \A w \in Units : w \notin lost => UnitState(e, w) = UnitState(d, w)
  BY <1>1, <1>3, UnitShape DEF UnitState
<1>9. \A w \in Units : w \in lost /\ UnitState(d, w) \in Terminal => UnitState(e, w) \in Terminal
  BY <1>4, <1>5, UnitShape DEF UnitState
<1>10. NoneBare(e)
  BY <1>1, <1>7, <1>8, <1>9, StateFacts DEF NoneBare, DbInv, Database
<1>11. Audible(e)
  <2> SUFFICES ASSUME NEW w \in Units, UnitState(e, w) \in PlaybackStates
               PROVE  w \in e.audio
    BY DEF Audible
  <2>1. w \notin lost
    BY <1>7, <1>9, StateFacts
  <2>2. UnitState(d, w) \in PlaybackStates
    BY <1>8, <2>1
  <2>3. IsLive(d, w[1])
    BY <2>2, OwedIsLive, StateFacts
  <2>4. w \notin d.jobs
    BY <2>1, <2>3 DEF lost, Interrupted
  <2>5. QED
    BY <1>1, <2>1, <2>2, <2>4 DEF DbInv, Audible
<1>12. Ordered(e)
  BY <1>1, <1>4, StateFacts DEF Ordered, IsLive, DbInv, Database
<1>13. QED
  BY <1>1, <1>2, <1>6, <1>10, <1>11, <1>12 DEF DbInv, Advertised, e

(* Catching a parent up with its children: every commit keeps the          *)
(* invariant, and the parent is at rest after the last.                    *)
LEMMA ReconcileInv ==
  ASSUME NEW d, DbInv(d), NEW u \in Utts, ReconcileCommits(d, u) # <<>>
  PROVE  LET c == ReconcileCommits(d, u)
         IN  /\ \/ \E e : c = <<e>>
                \/ \E e, f : c = <<e, f>>
             /\ \A i \in 1 .. Len(c) : Advances(d, c[i])
             /\ c[Len(c)].state[u] \in {"Failed", "Played", "Ready"}
             /\ \A v \in Utts \ {u} : c[Len(c)].state[v] = d.state[v]
             /\ \A p \in Parts : c[Len(c)].child[p] \in {d.child[p], "Cancelled"}
<1> DEFINE woken == Transition(d, u, "Synthesizing")
           c == ReconcileCommits(d, u)
<1>1. IsLive(d, u) /\ d.state[u] # Absent /\ u \in Composite
  <2>1. IsLive(d, u) /\ (HasFailedChild(d, u) \/ u \in Composite)
    BY DEF ReconcileCommits, ReconciledState, AllChildrenClosed, FirstChildReady
  <2>2. u \in Composite
    BY <2>1, UnitShape DEF HasFailedChild
  <2>3. QED
    BY <2>1, <2>2, StateFacts DEF IsLive
<1>2. ASSUME NEW e, DbInv(e), e.state[u] # Absent, e.state[u] \notin Terminal,
             NEW to \in State, to # "Submitted", to # "Queued"
      PROVE  /\ Advances(e, Transition(e, u, to))
             /\ Transition(e, u, to).state = [e.state EXCEPT ![u] = to]
             /\ \A p \in Parts : Transition(e, u, to).child[p] \in {e.child[p], "Cancelled"}
  <2>1. \A w \in Units \ Parts : w[1] # u
    BY <1>1, UnitShape
  <2>2. <<u, Whole>> \notin e.jobs
    BY <1>1, <1>2, UnitShape DEF DbInv, Database
  <2>3. Advances(e, Transition(e, u, to))
    BY <1>1, <1>2, <2>1, <2>2, TransitionInv
  <2>4. QED
    BY <1>2, <2>3 DEF Transition, DbInv, Database
<1>3. /\ Advances(d, woken) /\ DbInv(woken)
      /\ woken.state = [d.state EXCEPT ![u] = "Synthesizing"]
      /\ \A p \in Parts : woken.child[p] \in {d.child[p], "Cancelled"}
  BY <1>1, <1>2, StateFacts DEF Advances, State, IsLive
<1>4. ASSUME NEW to \in {"Failed", "Played", "Ready"}, c = <<Transition(d, u, to)>>
      PROVE  /\ Advances(d, Transition(d, u, to))
             /\ Transition(d, u, to).state = [d.state EXCEPT ![u] = to]
             /\ \A p \in Parts : Transition(d, u, to).child[p] \in {d.child[p], "Cancelled"}
  <2>1. to \in State /\ to # "Submitted" /\ to # "Queued" /\ d.state[u] \notin Terminal
    BY <1>1, StateFacts DEF State, IsLive
  <2>2. QED
    BY <1>1, <1>2, <2>1
<1>5. ASSUME NEW to \in {"Failed", "Played", "Ready"}
      PROVE  /\ Advances(d, Transition(woken, u, to))
             /\ Transition(woken, u, to).state = [d.state EXCEPT ![u] = to]
             /\ \A p \in Parts : Transition(woken, u, to).child[p] \in {d.child[p], "Cancelled"}
  <2>1. woken.state[u] # Absent /\ woken.state[u] \notin Terminal
    BY <1>3, StateFacts DEF DbInv, Database
  <2> HIDE DEF woken
  <2>2. /\ Advances(woken, Transition(woken, u, to))
        /\ Transition(woken, u, to).state = [woken.state EXCEPT ![u] = to]
        /\ \A p \in Parts : Transition(woken, u, to).child[p] \in {woken.child[p], "Cancelled"}
    <3>1. to \in State /\ to # "Submitted" /\ to # "Queued"
      BY DEF State
    <3>2. QED
      BY <1>2, <1>3, <2>1, <3>1
  <2>3. Advances(d, Transition(woken, u, to))
    BY <1>3, <2>2, AdvancesTrans
  <2>4. [woken.state EXCEPT ![u] = to] = [d.state EXCEPT ![u] = to]
    BY <1>3 DEF DbInv, Database
  <2>5. QED
    BY <1>3, <2>2, <2>3, <2>4
<1>6. \/ \E to \in {"Failed", "Played", "Ready"} : c = <<Transition(d, u, to)>>
      \/ \E to \in {"Failed", "Played", "Ready"} : c = <<woken, Transition(woken, u, to)>>
  BY DEF ReconcileCommits, ReconciledState
<1>7. d.state \in [Utts -> State \cup {Absent}]
  BY DEF DbInv, Database
<1> HIDE DEF c, woken
<1>8. CASE \E to \in {"Failed", "Played", "Ready"} : c = <<Transition(d, u, to)>>
  <2>1. PICK to \in {"Failed", "Played", "Ready"} : c = <<Transition(d, u, to)>>
    BY <1>8
  <2>2. QED
    BY <1>4, <1>7, <2>1 DEF c
<1>9. CASE \E to \in {"Failed", "Played", "Ready"} : c = <<woken, Transition(woken, u, to)>>
  <2>1. PICK to \in {"Failed", "Played", "Ready"} : c = <<woken, Transition(woken, u, to)>>
    BY <1>9
  <2>2. QED
    BY <1>3, <1>5, <1>7, <2>1 DEF c
<1>10. QED
  BY <1>6, <1>8, <1>9

-----------------------------------------------------------------------------
(* The database after the last of a handler's commits.                     *)
LEMMA LastOfInv ==
  ASSUME NEW d, DbInv(d), NEW c, Len(c) \in Nat, c # <<>> => Len(c) > 0,
         \A i \in 1 .. Len(c) : Advances(d, c[i])
  PROVE  Advances(d, LastOf(d, c))
BY AdvancesSelf DEF LastOf

(* What a worker's last commits leave: the unit is not in production any   *)
(* more and is not advertised.                                             *)
LEMMA ThenDiscardInv ==
  ASSUME NEW d, DbInv(d), NEW w \in Units, NEW c,
         \/ c = <<>>
         \/ \E e : c = <<e>>
         \/ \E e, f : c = <<e, f>>,
         \A i \in 1 .. Len(c) : Advances(d, c[i]),
         LET e == LastOf(d, c)
         IN  /\ UnitState(e, w) # "Synthesizing"
             /\ w \in e.audio \/ UnitState(e, w) \notin PlaybackStates \/ w \notin e.jobs
  PROVE  LET t == ThenDiscard(d, c, w)
             e == LastOf(d, t)
         IN  /\ Len(t) \in Nat /\ (t # <<>> => Len(t) > 0)
             /\ \A i \in 1 .. Len(t) : Advances(d, t[i])
             /\ Advances(d, e)
             /\ w \notin e.jobs /\ UnitState(e, w) # "Synthesizing"
<1> DEFINE l == LastOf(d, c)
           g == DiscardJob(l, w)
           t == ThenDiscard(d, c, w)
<1>1. Len(c) \in Nat /\ (c # <<>> => Len(c) > 0)
  OBVIOUS
<1>2. Advances(d, l) /\ DbInv(l)
  BY <1>1, LastOfInv DEF Advances
<1>3. CASE w \notin l.jobs
  <2>1. t = c
    BY <1>3 DEF ThenDiscard
  <2>2. QED
    BY <1>1, <1>2, <1>3, <2>1
<1>4. CASE w \in l.jobs
  <2> HIDE DEF l
  <2>1. t = Append(c, g)
    BY <1>4 DEF ThenDiscard, l
  <2>2. Advances(l, g) /\ g.jobs = l.jobs \ {w}
    BY <1>2, <1>4, DiscardInv DEF l
  <2>3. Advances(d, g)
    BY <1>2, <2>2, AdvancesTrans
  <2>4. UnitState(g, w) # "Synthesizing"
    BY <2>2, StateFacts DEF Advances, Onward, l
  <2> HIDE DEF g
  <2>5. Len(t) = Len(c) + 1 /\ t[Len(t)] = g /\ (\A i \in 1 .. Len(c) : t[i] = c[i]) /\ t # <<>>
    <3>1. CASE c = <<>>
      BY <3>1, <2>1
    <3>2. CASE \E e : c = <<e>>
      BY <3>2, <2>1
    <3>3. CASE \E e, f : c = <<e, f>>
      BY <3>3, <2>1
    <3>4. QED
      BY <3>1, <3>2, <3>3
  <2>6. LastOf(d, t) = g
    BY <2>5 DEF LastOf
  <2> HIDE DEF t
  <2>7. \A i \in 1 .. Len(t) : Advances(d, t[i])
    BY <1>1, <2>3, <2>5
  <2>8. Len(t) \in Nat /\ Len(t) > 0
    BY <1>1, <2>5
  <2>9. w \notin g.jobs
    BY <2>2
  <2>10. QED
    BY <2>3, <2>4, <2>6, <2>7, <2>8, <2>9 DEF t
<1>5. QED
  BY <1>3, <1>4

(* A unit whose work is no longer active is not in production.             *)
LEMMA InactiveFacts ==
  ASSUME NEW d, DbInv(d), NEW w \in Units, ~Active(d, w)
  PROVE  /\ UnitState(d, w) # "Synthesizing"
         /\ UnitState(d, w) \notin PlaybackStates \/ w \notin d.jobs
BY OwedIsLive, StateFacts DEF Active, DbInv, Advertised

LEMMA SuccessInv ==
  ASSUME NEW d, DbInv(d), NEW w \in Units
  PROVE  LET t == SuccessCommits(d, w)
             e == LastOf(d, t)
         IN  /\ Len(t) \in Nat /\ (t # <<>> => Len(t) > 0)
             /\ \A i \in 1 .. Len(t) : Advances(d, t[i])
             /\ Advances(d, e)
             /\ w \notin e.jobs /\ UnitState(e, w) # "Synthesizing"
<1> DEFINE c == IF Active(d, w) THEN PublishCommits(d, w) ELSE <<>>
<1>1. CASE Active(d, w)
  <2>1. /\ \/ \E e : c = <<e>>
           \/ \E e, f : c = <<e, f>>
        /\ \A i \in 1 .. Len(c) : /\ Advances(d, c[i])
                                  /\ UnitState(c[i], w) # "Synthesizing"
                                  /\ w \in c[i].audio
    BY <1>1, PublishInv
  <2> HIDE DEF c
  <2>2. \E i \in 1 .. Len(c) : LastOf(d, c) = c[i]
    BY <2>1 DEF LastOf
  <2>3. QED
    BY <2>1, <2>2, ThenDiscardInv DEF SuccessCommits, c
<1>2. CASE ~Active(d, w)
  <2>1. c = <<>> /\ LastOf(d, c) = d
    BY <1>2 DEF LastOf
  <2>2. \A i \in 1 .. Len(c) : Advances(d, c[i])
    BY <2>1
  <2>3. UnitState(d, w) # "Synthesizing"
        /\ (UnitState(d, w) \notin PlaybackStates \/ w \notin d.jobs)
    BY <1>2, InactiveFacts
  <2> HIDE DEF c
  <2>4. QED
    BY <2>1, <2>2, <2>3, ThenDiscardInv DEF SuccessCommits, c
<1>3. QED
  BY <1>1, <1>2

LEMMA FailureInv ==
  ASSUME NEW d, DbInv(d), NEW w \in Units
  PROVE  LET t == FailureCommits(d, w)
             e == LastOf(d, t)
         IN  /\ Len(t) \in Nat /\ (t # <<>> => Len(t) > 0)
             /\ \A i \in 1 .. Len(t) : Advances(d, t[i])
             /\ Advances(d, e)
             /\ w \notin e.jobs /\ UnitState(e, w) # "Synthesizing"
<1> DEFINE c == IF Active(d, w) THEN FailCommits(d, w) ELSE <<>>
<1>1. CASE Active(d, w)
  <2>1. /\ \/ \E e : c = <<e>>
           \/ \E e, f : c = <<e, f>>
        /\ \A i \in 1 .. Len(c) : Advances(d, c[i])
        /\ UnitState(c[Len(c)], w) \in Terminal
    BY <1>1, FailInv
  <2> HIDE DEF c
  <2>2. LastOf(d, c) = c[Len(c)]
    BY <2>1 DEF LastOf
  <2>3. UnitState(LastOf(d, c), w) # "Synthesizing"
        /\ UnitState(LastOf(d, c), w) \notin PlaybackStates
    BY <2>1, <2>2, StateFacts
  <2>4. QED
    BY <2>1, <2>3, ThenDiscardInv DEF FailureCommits, c
<1>2. CASE ~Active(d, w)
  <2>1. c = <<>> /\ LastOf(d, c) = d
    BY <1>2 DEF LastOf
  <2>2. \A i \in 1 .. Len(c) : Advances(d, c[i])
    BY <2>1
  <2>3. UnitState(d, w) # "Synthesizing"
        /\ (UnitState(d, w) \notin PlaybackStates \/ w \notin d.jobs)
    BY <1>2, InactiveFacts
  <2> HIDE DEF c
  <2>4. QED
    BY <2>1, <2>2, <2>3, ThenDiscardInv DEF FailureCommits, c
<1>3. QED
  BY <1>1, <1>2

-----------------------------------------------------------------------------
(* One lifecycle move of a parent or a child that already has audio, as    *)
(* the playback side makes them.                                           *)
PlaybackMoves == {"Playing", "Paused", "Played", "Skipped", "Failed"}

LEMMA ParentMove ==
  ASSUME NEW d, DbInv(d), NEW u \in Utts, NEW to \in PlaybackMoves,
         d.state[u] \in PlaybackStates
  PROVE  /\ Advances(d, Transition(d, u, to)) /\ DbInv(Transition(d, u, to))
         /\ Transition(d, u, to).state = [d.state EXCEPT ![u] = to]
         /\ to \notin Terminal => Transition(d, u, to).child = d.child
         /\ Transition(d, u, to).audio = d.audio /\ Transition(d, u, to).jobs = d.jobs
<1>1. to \in State /\ to \notin Unmade /\ to # "Submitted" /\ d.state[u] # Absent
      /\ d.state[u] \notin Terminal /\ to # "Queued"
  BY StateFacts DEF PlaybackMoves
<1>2. \A w \in Units \ Parts : w[1] = u => w \in d.audio \cup d.jobs
  BY UnitShape DEF DbInv, Audible, UnitState
<1>3. Advances(d, Transition(d, u, to))
  BY <1>1, <1>2, TransitionInv
<1>4. to \notin Terminal => Transition(d, u, to).child = d.child
  BY DEF Transition, DbInv, Database
<1>5. QED
  BY <1>3, <1>4, Zenon DEF Advances, Transition, DbInv, Database

LEMMA ChildMove ==
  ASSUME NEW d, DbInv(d), NEW p \in Parts, NEW to \in PlaybackMoves,
         d.child[p] \in PlaybackStates
  PROVE  /\ Advances(d, TransitionSegment(d, p, to)) /\ DbInv(TransitionSegment(d, p, to))
         /\ TransitionSegment(d, p, to).state = d.state
         /\ TransitionSegment(d, p, to).child = [d.child EXCEPT ![p] = to]
<1>1. to \in State /\ to \notin Unmade /\ to # "Submitted" /\ d.child[p] # Absent
      /\ d.state[p[1]] \notin Terminal
  BY StateFacts DEF PlaybackMoves, DbInv, Closed
<1>2. p \in d.audio \cup d.jobs
  BY UnitShape DEF DbInv, Audible, UnitState
<1>3. Advances(d, TransitionSegment(d, p, to))
  BY <1>1, <1>2, SegmentInv
<1>4. QED
  BY <1>3 DEF Advances, TransitionSegment, DbInv, Database


-----------------------------------------------------------------------------
(* Playback's transactions on several rows, and recovery as a whole.       *)
LEMMA EmptyInv == DbInv(EmptyDatabase) /\ EmptyDatabase.jobs = {} /\ EmptyDatabase.held = FALSE
<1> DEFINE d == EmptyDatabase
<1>1. /\ d.state = [u \in Utts |-> Absent] /\ d.child = [p \in Parts |-> Absent]
      /\ d.audio = {} /\ d.jobs = {} /\ d.held = FALSE /\ d \in Database
  BY DEF EmptyDatabase, Database
<1> HIDE DEF d
<1>2. \A w \in Units : UnitState(d, w) = Absent
  BY <1>1, UnitShape DEF UnitState
<1>3. DbInv(d)
  BY <1>1, <1>2, UnitShape, StateFacts
  DEF DbInv, Closed, RowsTogether, Audible, Advertised, NoneBare, Ordered, IsLive
<1> QED BY <1>1, <1>3 DEF d

LEMMA SuspendInv ==
  ASSUME NEW d, DbInv(d), NEW w, w[1] \in Utts, d.state[w[1]] \in {"Playing", "Paused"},
         w \in Parts => d.child[w] \in PlaybackStates
  PROVE  LET e == SuspendPlayback(d, w)
         IN  /\ DbInv(e)
             /\ e.state = [d.state EXCEPT ![w[1]] = "Paused"]
             /\ e.child = [p \in Parts |-> IF p = w THEN "Paused" ELSE d.child[p]]
             /\ e.jobs = d.jobs /\ e.audio = d.audio /\ e.held = d.held
<1> DEFINE st == [d.state EXCEPT ![w[1]] = "Paused"]
           c == [p \in Parts |-> IF p = w THEN "Paused" ELSE d.child[p]]
           e == SuspendPlayback(d, w)
<1>1. e = [d EXCEPT !.state = st, !.child = c]
  BY DEF SuspendPlayback, In, DbInv, Database
<1>2. st \in [Utts -> State \cup {Absent}] /\ c \in [Parts -> State \cup {Absent}]
  BY StateFacts DEF DbInv, Database
<1>3. /\ \A u \in Utts : MayBecome(d.state[u], st[u])
      /\ \A p \in Parts : MayBecome(d.child[p], c[p])
  BY StateFacts DEF MayBecome, DbInv, Database
<1>4. \A p \in Parts : st[p[1]] \in Terminal => c[p] \in Terminal
  BY StateFacts, UnitShape DEF DbInv, Database, Closed
<1>5. e.jobs = d.jobs /\ e.audio = d.audio /\ e.held = d.held /\ e.state = st /\ e.child = c
  BY <1>1 DEF DbInv, Database
<1> HIDE DEF st, c, e
<1>6. DbInv(e)
  BY <1>1, <1>2, <1>3, <1>4, RowsInv DEF Advances
<1> QED BY <1>5, <1>6 DEF st, c, e

(* Going back needs a live document: a chunk it reopens has its audio.     *)
LEMMA ResetInv ==
  ASSUME NEW d, DbInv(d), NEW u \in Utts, IsLive(d, u), NEW i
  PROVE  LET e == ResetSegmentsFrom(d, u, i)
         IN  /\ DbInv(e)
             /\ e.child = [p \in Parts |->
                  IF p[1] = u /\ p[2] >= i /\ Has(d, p) /\ d.child[p] \in Replayable
                    THEN "Ready" ELSE d.child[p]]
             /\ e.state = d.state /\ e.audio = d.audio /\ e.jobs = d.jobs /\ e.held = d.held
<1> DEFINE e == ResetSegmentsFrom(d, u, i)
<1>1. /\ e.child = [p \in Parts |->
             IF p[1] = u /\ p[2] >= i /\ Has(d, p) /\ d.child[p] \in Replayable
               THEN "Ready" ELSE d.child[p]]
      /\ e.state = d.state /\ e.audio = d.audio /\ e.jobs = d.jobs /\ e.held = d.held
      /\ e.order = d.order
  BY DEF ResetSegmentsFrom, DbInv, Database
<1>2. e \in Database
  BY StateFacts DEF ResetSegmentsFrom, DbInv, Database
<1> HIDE DEF e
<1>3. \A p \in Parts : \/ e.child[p] = d.child[p]
                       \/ /\ e.child[p] = "Ready" /\ p[1] = u /\ p \in d.audio \cup d.jobs
                          /\ d.child[p] \in Replayable
  BY <1>1 DEF Has
<1>4. Closed(e)
  BY <1>1, <1>3, UnitShape DEF Closed, DbInv, IsLive, Live
<1>5. RowsTogether(e)
  <2>1. d.state[u] # Absent /\ Absent \notin Replayable
    BY StateFacts DEF IsLive, Replayable
  <2> QED BY <1>1, <1>3, <2>1, StateFacts DEF RowsTogether, DbInv
<1>6. \A w \in Units : \/ UnitState(e, w) = UnitState(d, w)
                       \/ UnitState(e, w) = "Ready" /\ w \in d.audio \cup d.jobs
  BY <1>1, <1>3, UnitShape DEF UnitState
<1>7. Audible(e) /\ Advertised(e) /\ NoneBare(e) /\ Ordered(e)
  BY <1>1, <1>6, StateFacts
  DEF Audible, Advertised, NoneBare, Ordered, IsLive, DbInv, Database, Unmade
<1> QED BY <1>1, <1>2, <1>4, <1>5, <1>7 DEF DbInv, e

LEMMA RestedStates ==
  ASSUME NEW x \in State \cup {Absent}
  PROVE  /\ Rested(x) \in State \cup {Absent}
         /\ Rested(x) \notin {"Synthesizing", "Playing"}
         /\ x \in Terminal \cup {Absent} => Rested(x) = x
         /\ Rested(x) \in Terminal => x \in Terminal
         /\ Rested(x) = Absent => x = Absent
         /\ Rested(x) \in PlaybackStates => x \in PlaybackStates
         /\ x # "Submitted" => Rested(x) # "Submitted"
BY StateFacts DEF Rested, State

LEMMA RecoveredInv ==
  ASSUME NEW d, DbInv(d)
  PROVE  LET e == Recovered(d)
         IN  /\ DbInv(e) /\ e.jobs = {}
             /\ \A u \in Utts : e.state[u] # "Playing"
             /\ \A u \in Utts : e.state[u] \in PlaybackStates => e.held
<1> DEFINE e == Recovered(d)
<1>1. \A w \in Interrupted(d) : /\ w \in Units /\ w \in d.jobs /\ IsLive(d, w[1])
                                /\ UnitState(d, w) \notin Unmade
  BY DEF Interrupted, DbInv, Database, Advertised
<1>2. \A u \in Utts : d.state[u] \in State \cup {Absent} /\ d.state[u] # "Submitted"
  BY DEF DbInv, Database, NoneBare
<1>3. \A p \in Parts : d.child[p] \in State \cup {Absent} /\ d.child[p] # "Submitted"
  BY UnitShape DEF DbInv, Database, NoneBare, UnitState
<1>4. ASSUME NEW u \in Utts
      PROVE  /\ ParentRested(d, u) \in State \cup {Absent}
             /\ ParentRested(d, u) \notin {"Submitted", "Synthesizing", "Playing"}
             /\ ~IsLive(d, u) => ParentRested(d, u) = d.state[u]
             /\ IsLive(d, u) => ParentRested(d, u) \in Live
             /\ ParentRested(d, u) \in PlaybackStates =>
                  <<u, Whole>> \notin Interrupted(d) /\ d.state[u] \in PlaybackStates
  <2>1. <<u, Whole>> \in Interrupted(d) => IsLive(d, u)
    BY <1>1
  <2>2. d.state[u] \in State \cup {Absent} /\ d.state[u] # "Submitted"
    BY <1>2
  <2> QED BY <2>1, <2>2, RestedStates, StateFacts DEF ParentRested, IsLive
<1>5. ASSUME NEW u \in Utts
      PROVE  /\ ParentRecovered(d, u) \in State \cup {Absent}
             /\ ParentRecovered(d, u) \notin {"Submitted", "Synthesizing", "Playing"}
             /\ ~IsLive(d, u) => ParentRecovered(d, u) = d.state[u]
             /\ ParentRecovered(d, u) = Absent => d.state[u] = Absent
             /\ u \notin Composite => ParentRecovered(d, u) = ParentRested(d, u)
  <2>1. u \notin Composite => ~HasFailedChild(d, u) /\ ~AllChildrenClosed(d, u)
    BY UnitShape DEF HasFailedChild, AllChildrenClosed
  <2>2. ~IsLive(d, u) => ParentRested(d, u) \notin {"Paused", "Queued"}
    BY <1>2, <1>4, StateFacts DEF IsLive
  <2>3. ~IsLive(d, u) => ParentRecovered(d, u) = ParentRested(d, u)
    BY <2>2, Zenon DEF ParentRecovered
  <2>4. \/ ParentRecovered(d, u) = ParentRested(d, u)
        \/ u \in Composite /\ ParentRecovered(d, u) \in {"Failed", "Played", "Ready"}
    BY <2>1 DEF ParentRecovered
  <2> QED BY <1>2, <1>4, <2>3, <2>4, StateFacts, ZenonT(60) DEF State, IsLive
<1>6. ASSUME NEW p \in Parts
      PROVE  /\ ChildRested(d, p) \in State \cup {Absent}
             /\ ChildRested(d, p) \notin {"Submitted", "Synthesizing", "Playing"}
             /\ d.child[p] \in Terminal => ChildRested(d, p) = d.child[p]
             /\ ChildRested(d, p) \in Terminal => d.child[p] \in Terminal
             /\ ChildRested(d, p) = Absent <=> d.child[p] = Absent
             /\ ChildRested(d, p) \in PlaybackStates =>
                  d.child[p] \in PlaybackStates /\ p \notin Interrupted(d)
  <2>1. p \in Interrupted(d) => d.child[p] # Absent
    BY <1>1, UnitShape, StateFacts DEF UnitState
  <2> QED BY <1>3, <2>1, RestedStates, StateFacts DEF ChildRested
<1>7. /\ e.state = [u \in Utts |-> ParentRecovered(d, u)]
      /\ e.child = [p \in Parts |-> ChildRecovered(d, p)]
      /\ e.audio = d.audio \ {w \in Interrupted(d) : UnitState(d, w) \notin Terminal}
      /\ e.jobs = {} /\ e.order = d.order
      /\ \A u \in Utts : ParentRecovered(d, u) \in PlaybackStates => e.held
  BY DEF Recovered
<1>8. \A p \in Parts : ChildRecovered(d, p) \in State \cup {Absent}
  BY <1>6, StateFacts DEF ChildRecovered
<1>9. e \in Database
  <2>1. e.held \in BOOLEAN
    BY DEF Recovered
  <2>2. e.audio \in SUBSET Units /\ e.jobs \in SUBSET Units /\ e.order \in [Utts -> Int]
    BY <1>7 DEF DbInv, Database
  <2>3. e.state \in [Utts -> State \cup {Absent}] /\ e.child \in [Parts -> State \cup {Absent}]
    BY <1>5, <1>7, <1>8
  <2>4. e = [state |-> e.state, order |-> e.order, child |-> e.child, audio |-> e.audio,
             jobs |-> e.jobs, held |-> e.held]
    BY DEF Recovered
  <2> HIDE DEF e
  <2> QED BY <2>1, <2>2, <2>3, <2>4 DEF Database
<1> HIDE DEF e
<1>10. Closed(e)
  BY <1>5, <1>6, <1>7, UnitShape, StateFacts DEF Closed, ChildRecovered
<1>11. RowsTogether(e)
  <2> SUFFICES ASSUME NEW p \in Parts
               PROVE  ChildRecovered(d, p) = Absent <=> ParentRecovered(d, p[1]) = Absent
    BY <1>7, UnitShape DEF RowsTogether
  <2>1. p[1] \in Utts /\ (d.child[p] = Absent <=> d.state[p[1]] = Absent)
    BY UnitShape DEF DbInv, RowsTogether
  <2>2. ParentRecovered(d, p[1]) = Absent <=> d.state[p[1]] = Absent
    BY <1>5, <2>1, StateFacts DEF IsLive
  <2> QED BY <1>6, <2>1, <2>2, StateFacts DEF ChildRecovered
<1>12. Audible(e)
  <2> SUFFICES ASSUME NEW w \in Units, UnitState(e, w) \in PlaybackStates
               PROVE  w \in e.audio
    BY DEF Audible
  <2>1. w \notin Interrupted(d) /\ UnitState(d, w) \in PlaybackStates
    <3>1. CASE w \in Parts
      <4>1. w[2] # Whole /\ ChildRecovered(d, w) \in PlaybackStates
        BY <1>7, <3>1, UnitShape DEF UnitState
      <4>2. ChildRested(d, w) \in PlaybackStates
        BY <4>1, StateFacts DEF ChildRecovered
      <4> QED BY <1>6, <3>1, <4>1, <4>2 DEF UnitState
    <3>2. CASE w \notin Parts
      <4>1. w[1] \in Utts /\ w[2] = Whole /\ w = <<w[1], Whole>> /\ w[1] \notin Composite
        BY <3>2, UnitShape
      <4>2. ParentRested(d, w[1]) \in PlaybackStates
        BY <1>5, <1>7, <4>1 DEF UnitState
      <4> QED BY <1>4, <4>1, <4>2 DEF UnitState
    <3> QED BY <3>1, <3>2
  <2>2. w \notin d.jobs
    BY <2>1, OwedIsLive, StateFacts DEF Interrupted
  <2> QED BY <1>7, <2>1, <2>2 DEF DbInv, Audible
<1>13. NoneBare(e)
  <2>1. \A p \in Parts : ChildRecovered(d, p) # "Submitted"
    BY <1>6 DEF ChildRecovered
  <2> QED BY <1>5, <1>7, <2>1, UnitShape DEF NoneBare, UnitState
<1>14. Ordered(e)
  <2>1. \A u \in Utts : IsLive(e, u) => IsLive(d, u)
    BY <1>5, <1>7 DEF IsLive
  <2> QED BY <1>7, <2>1 DEF Ordered, DbInv
<1>15. DbInv(e)
  BY <1>7, <1>9, <1>10, <1>11, <1>12, <1>13, <1>14 DEF DbInv, Advertised
<1> QED BY <1>5, <1>7, <1>15 DEF e
=============================================================================
