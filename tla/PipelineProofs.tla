---------------------------- MODULE PipelineProofs ----------------------------
(***************************************************************************)
(* Safety of the pipeline for any set of utterances, any number of chunks, *)
(* workers and crashes, and with or without refused commits; and restart   *)
(* recovery for any number of crashes, those during recovery included.     *)
(*                                                                         *)
(* The inductive invariant says, besides the types and DbInv: the pool is  *)
(* empty unless the daemon is up; a unit a worker holds is past Queued, so *)
(* nobody else can claim it, and its parent has left the queue; while the  *)
(* daemon is up every advertised stream and every unit in production has   *)
(* its worker, and a unit that streams is no longer Synthesizing; and each *)
(* pass of recovery has left behind what the next one relies on.  Recovery *)
(* leads to one database however it is interrupted, and a document that    *)
(* comes out of it, or is made and played, is in step with its chunks.     *)
(* Which files refused commits can cost rests on what no step does to a    *)
(* unit that is not streamed (FilesStay).                                  *)
(***************************************************************************)
EXTENDS Pipeline, StoreProofs

PoolIsDown == phase # "up" => \A k \in Workers : ~Busy(k)
HeldIsClaimed ==
  \A k \in Workers : Busy(k) =>
    UnitState(db, job[k].unit) \notin {"Queued", "Submitted", Absent}
OwnersAreAwake ==
  \A k \in Workers : Busy(k) => db.state[job[k].unit[1]] # "Queued"
StreamsAreMade ==
  \A k \in Workers : Busy(k) /\ job[k].stage = "streaming" =>
    UnitState(db, job[k].unit) # "Synthesizing"
StreamsHaveWorkers ==
  phase = "up" => \A w \in db.jobs :
    \E k \in Workers : Produces(k, w) /\ job[k].stage = "streaming"
MakingHasWorkers ==
  phase = "up" => \A w \in Units : UnitState(db, w) = "Synthesizing" =>
    \E k \in Workers : Produces(k, w)
RecoveryProgress ==
  /\ phase \in {"children", "parents", "reconcile"} => db.jobs = {}
  /\ phase \in {"parents", "reconcile"} => \A p \in Parts : db.child[p] \notin Unrested
  /\ phase = "reconcile" => \A u \in Utts : db.state[u] \notin Unrested

IInv ==
  /\ TypeOK
  /\ DbInv(db)
  /\ PoolIsDown /\ HeldIsClaimed /\ WorkIsClaimedOnce
  /\ OwnersAreAwake /\ StreamsAreMade
  /\ StreamsHaveWorkers /\ MakingHasWorkers
  /\ RecoveryProgress

-----------------------------------------------------------------------------
LEMMA JobFacts ==
  ASSUME NEW k \in Workers, job \in [Workers -> Jobs \cup {Idle}], Busy(k)
  PROVE  job[k] \in Jobs /\ job[k].unit \in Units /\ job[k].stage \in Stage
BY DEF Busy, Jobs

(* A worker holds at most one unit.                                        *)
LEMMA IdleIsNotBusy ==
  ASSUME NEW k \in Workers, NEW w \in Units, NEW s \in Stage
  PROVE  [stage |-> s, unit |-> w] # Idle
BY DEF Idle, Stage

LEMMA DownStep ==
  ASSUME IInv, DbInv(db'), Down, missing' \subseteq Units
  PROVE  IInv'
<1>1. job' = [k \in Workers |-> Idle] /\ phase' = "down" /\ warm' = FALSE
      /\ crashes' = crashes + 1
  BY DEF Down
<1>2. TypeOK'
  <2>1. db' \in Database
    BY DEF DbInv
  <2>2. job' \in [Workers -> Jobs \cup {Idle}]
    BY <1>1
  <2>3. warm' \in BOOLEAN
    BY <1>1
  <2>4. phase' \in RecoveryPhases \cup {"up", "down"}
    BY <1>1
  <2>5. crashes' \in Nat
    BY <1>1 DEF IInv, TypeOK
  <2>6. QED
    BY <2>1, <2>2, <2>3, <2>4, <2>5 DEF TypeOK
<1>3. \A k \in Workers : ~Busy(k)'
  BY <1>1 DEF Busy
<1>4. PoolIsDown' /\ HeldIsClaimed' /\ WorkIsClaimedOnce' /\ OwnersAreAwake' /\ StreamsAreMade'
  BY <1>3 DEF PoolIsDown, HeldIsClaimed, WorkIsClaimedOnce, OwnersAreAwake, StreamsAreMade
<1>5. StreamsHaveWorkers' /\ MakingHasWorkers' /\ RecoveryProgress'
  BY <1>1 DEF StreamsHaveWorkers, MakingHasWorkers, RecoveryProgress
<1>6. QED
  BY <1>2, <1>4, <1>5 DEF IInv

(* A step that only moves rows onward, while the daemon is up.             *)
LEMMA AdvanceStep ==
  ASSUME IInv, phase = "up", Advances(db, db'),
         UNCHANGED <<missing, job, warm, phase, crashes>>
  PROVE  IInv'
<1>1. TypeOK' /\ DbInv(db')
  BY DEF IInv, TypeOK, Advances, DbInv
<1>2. PoolIsDown'
  BY DEF PoolIsDown
<1>3. HeldIsClaimed'
  BY JobFacts DEF IInv, TypeOK, HeldIsClaimed, Busy, Advances, Onward, Unmade
<1>4. WorkIsClaimedOnce'
  BY DEF IInv, WorkIsClaimedOnce, Busy
<1>5. StreamsHaveWorkers' /\ MakingHasWorkers'
  BY DEF IInv, StreamsHaveWorkers, MakingHasWorkers, Produces, Busy, Advances, Onward, Unmade
<1>6. RecoveryProgress'
  BY DEF RecoveryProgress
<1>7. OwnersAreAwake' /\ StreamsAreMade'
  BY JobFacts, UnitShape
  DEF IInv, TypeOK, OwnersAreAwake, StreamsAreMade, Busy, Advances, Onward, Unmade
<1>8. QED
  BY <1>1, <1>2, <1>3, <1>4, <1>5, <1>6, <1>7 DEF IInv

(* A handler whose every commit leads onward, finished or cut short.       *)
LEMMA WritesStep ==
  ASSUME IInv, phase = "up", NEW c, Len(c) \in Nat, c # <<>> => Len(c) > 0,
         \A i \in 1 .. Len(c) : Advances(db, c[i]),
         Writes(c)
  PROVE  IInv'
<1>1. CASE db' = LastOf(db, c) /\ UNCHANGED <<missing, job, warm, phase, crashes>>
  BY <1>1, LastOfInv, AdvanceStep DEF IInv
<1>2. CASE DiesAmid(c)
  BY <1>2, DownStep DEF DiesAmid, Advances, IInv, TypeOK
<1>3. QED
  BY <1>1, <1>2 DEF Writes

(* A worker lets go of its unit.                                           *)
LEMMA FinishStep ==
  ASSUME IInv, NEW k \in Workers, Busy(k),
         Advances(db, db'),
         job[k].unit \notin db'.jobs,
         UnitState(db', job[k].unit) # "Synthesizing",
         job' = [job EXCEPT ![k] = Idle],
         missing' \subseteq Units,
         UNCHANGED <<warm, phase, crashes>>
  PROVE  IInv'
<1>1. phase = "up"
  BY DEF IInv, PoolIsDown
<1>2. /\ job \in [Workers -> Jobs \cup {Idle}]
      /\ \A j \in Workers : j # k => job'[j] = job[j]
      /\ ~Busy(k)'
  BY DEF IInv, TypeOK, Busy
<1>3. TypeOK' /\ DbInv(db')
  BY DEF IInv, TypeOK, Advances, DbInv
<1>4. HeldIsClaimed'
  BY <1>2, JobFacts DEF IInv, HeldIsClaimed, Busy, Advances, Onward, Unmade
<1>5. WorkIsClaimedOnce'
  BY <1>2 DEF IInv, WorkIsClaimedOnce, Busy
<1>6. StreamsHaveWorkers'
  <2> SUFFICES ASSUME NEW w \in db'.jobs
               PROVE  \E j \in Workers : Produces(j, w)' /\ job'[j].stage = "streaming"
    BY DEF StreamsHaveWorkers
  <2>1. w \in db.jobs /\ w # job[k].unit
    BY DEF Advances, Onward
  <2>2. PICK j \in Workers : Produces(j, w) /\ job[j].stage = "streaming"
    BY <1>1, <2>1 DEF IInv, StreamsHaveWorkers
  <2>3. j # k
    BY <2>1, <2>2 DEF Produces
  <2>4. QED
    BY <1>2, <2>2, <2>3 DEF Produces, Busy
<1>7. MakingHasWorkers'
  <2> SUFFICES ASSUME NEW w \in Units, UnitState(db', w) = "Synthesizing"
               PROVE  \E j \in Workers : Produces(j, w)'
    BY DEF MakingHasWorkers
  <2>1. UnitState(db, w) = "Synthesizing" /\ w # job[k].unit
    BY DEF Advances, Onward, Unmade
  <2>2. PICK j \in Workers : Produces(j, w)
    BY <1>1, <2>1 DEF IInv, MakingHasWorkers
  <2>3. j # k
    BY <2>1, <2>2 DEF Produces
  <2>4. QED
    BY <1>2, <2>2, <2>3 DEF Produces, Busy
<1>8. PoolIsDown' /\ RecoveryProgress'
  BY <1>1 DEF PoolIsDown, RecoveryProgress
<1>9. OwnersAreAwake' /\ StreamsAreMade'
  BY <1>2, JobFacts, UnitShape
  DEF IInv, OwnersAreAwake, StreamsAreMade, Busy, Advances, Onward, Unmade
<1>10. QED
  BY <1>3, <1>4, <1>5, <1>6, <1>7, <1>8, <1>9 DEF IInv

-----------------------------------------------------------------------------
(* The queue's operations.                                                 *)
LEMMA InitInv == Init => IInv
<1> SUFFICES ASSUME Init PROVE IInv
  OBVIOUS
<1>1. /\ db.state = [u \in Utts |-> Absent] /\ db.child = [p \in Parts |-> Absent]
      /\ db.audio = {} /\ db.jobs = {} /\ db \in Database
  BY DEF Init, EmptyDatabase, Database
<1>2. \A w \in Units : UnitState(db, w) = Absent
  BY <1>1, UnitShape DEF UnitState
<1>3. DbInv(db)
  BY EmptyInv DEF Init
<1>4. TypeOK
  <2>1. warm \in BOOLEAN
    BY DEF Init
  <2>2. QED
    BY <1>1, <2>1 DEF Init, TypeOK
<1>5. \A k \in Workers : ~Busy(k)
  BY DEF Init, Busy
<1>6. QED
  BY <1>1, <1>2, <1>3, <1>4, <1>5, StateFacts
  DEF IInv, Init, PoolIsDown, HeldIsClaimed, WorkIsClaimedOnce, OwnersAreAwake,
      StreamsAreMade, StreamsHaveWorkers, MakingHasWorkers, RecoveryProgress

LEMMA SubmitStep == ASSUME IInv, NEW u \in Utts, Submit(u) PROVE IInv'
<1>1. PICK k \in NewKeys(db) :
        /\ db' = SubmitRow(db, u, k)
        /\ IsHeadKey(db, k) \/ IsTailKey(db, k)
  BY DEF Submit
<1>2. k \in Int
  BY DEF NewKeys, IInv, DbInv, Database
<1>3. phase = "up" /\ UNCHANGED <<missing, job, warm, phase, crashes>>
  BY DEF Submit
<1>4. /\ DbInv(db') /\ db'.jobs = db.jobs
      /\ \A w \in Units : IF w[1] = u
           THEN UnitState(db, w) = Absent /\ UnitState(db', w) = "Queued"
           ELSE UnitState(db', w) = UnitState(db, w)
  BY <1>1, <1>2, SubmitInv DEF Submit, IInv
<1>5. TypeOK' /\ PoolIsDown' /\ RecoveryProgress'
  BY <1>3, <1>4 DEF IInv, TypeOK, DbInv, PoolIsDown, RecoveryProgress
<1>6. HeldIsClaimed'
  BY <1>3, <1>4, JobFacts DEF IInv, TypeOK, HeldIsClaimed, Busy
<1>7. WorkIsClaimedOnce' /\ StreamsHaveWorkers'
  BY <1>3, <1>4 DEF IInv, WorkIsClaimedOnce, StreamsHaveWorkers, Produces, Busy
<1>8. MakingHasWorkers'
  <2> SUFFICES ASSUME NEW w \in Units, UnitState(db', w) = "Synthesizing"
               PROVE  \E j \in Workers : Produces(j, w)'
    BY DEF MakingHasWorkers
  <2>1. UnitState(db, w) = "Synthesizing"
    BY <1>4
  <2>2. QED
    BY <1>3, <2>1 DEF IInv, MakingHasWorkers, Produces, Busy
<1>9. StreamsAreMade'
  BY <1>3, <1>4, JobFacts DEF IInv, TypeOK, StreamsAreMade, Busy
<1>10. OwnersAreAwake'
  <2> SUFFICES ASSUME NEW j \in Workers, Busy(j)
               PROVE  db'.state[job[j].unit[1]] # "Queued"
    BY <1>3 DEF OwnersAreAwake, Busy
  <2>1. job[j].unit \in Units /\ job[j].unit[1] \in Utts
    BY JobFacts, UnitShape DEF IInv, TypeOK
  <2>2. job[j].unit[1] # u
    BY <1>4, <2>1 DEF IInv, HeldIsClaimed
  <2>3. db'.state[job[j].unit[1]] = db.state[job[j].unit[1]]
    BY <1>1, <2>1, <2>2 DEF SubmitRow, IInv, DbInv, Database
  <2>4. QED
    BY <2>3 DEF IInv, OwnersAreAwake
<1>11. QED
  BY <1>4, <1>5, <1>6, <1>7, <1>8, <1>9, <1>10 DEF IInv

LEMMA CancelStep == ASSUME IInv, NEW u \in Utts, Cancel(u) PROVE IInv'
<1>1. db.state[u] # Absent /\ "Cancelled" \in State \ Unmade /\ "Cancelled" \notin PlaybackStates
      /\ "Cancelled" \in Terminal
      /\ "Cancelled" # "Submitted"
  BY StateFacts DEF Cancel, In
<1>2. Advances(db, Transition(db, u, "Cancelled"))
  BY <1>1, TransitionInv DEF IInv
<1>3. QED
  BY <1>2, AdvanceStep DEF Cancel

LEMMA ClearStep ==
  ASSUME IInv, NEW states, states \subseteq State, Clear(states)
  PROVE  IInv'
<1> DEFINE rows == {u \in Utts : In(db, u, states)}
<1>1. \A done : done \subseteq rows => Advances(db, CancelAll(db, done))
  BY CancelAllInv, StateFacts DEF IInv, In
<1>2. phase = "up"
  BY DEF Clear
<1>3. CASE /\ db' = CancelAll(db, rows)
           /\ UNCHANGED <<missing, job, warm, phase, crashes>>
  <2>1. Advances(db, db')
    BY <1>1, <1>3
  <2>2. QED
    BY <1>2, <1>3, <2>1, AdvanceStep
<1>4. CASE /\ \E done \in (SUBSET rows) \ {rows, {}} :
                IsClearedPrefix(db, rows, done) /\ db' = CancelAll(db, done)
           /\ Down
           /\ UNCHANGED missing
  <2>1. Advances(db, db')
    BY <1>1, <1>4
  <2>2. QED
    BY <1>4, <2>1, DownStep DEF Advances, IInv, TypeOK
<1>5. QED
  BY <1>3, <1>4 DEF Clear

LEMMA ReorderStep == ASSUME IInv, Reorder PROVE IInv'
<1>1. PICK place \in Places(db), base \in {0} \cup {db.order[u] : u \in Utts} :
        IsReorderBase(db, base) /\ db' = Reordered(db, place, base)
  BY DEF Reorder
<1>2. base \in Int
  BY DEF IInv, DbInv, Database
<1>3. Advances(db, db')
  BY <1>1, <1>2, ReorderInv DEF IInv
<1>4. QED
  BY <1>3, AdvanceStep DEF Reorder

-----------------------------------------------------------------------------
(* The pool.                                                               *)
LEMMA TakeJobStep == ASSUME IInv, NEW k \in Workers, TakeJob(k) PROVE IInv'
<1>1. PICK w \in Units :
        /\ IsEarliest(db, Holding, w)
        /\ db' = Claim(db, w)
        /\ job' = [job EXCEPT ![k] = [stage |-> "rendering", unit |-> w]]
  BY DEF TakeJob
<1>2. phase = "up" /\ ~Busy(k) /\ UNCHANGED <<missing, warm, phase, crashes>>
  BY DEF TakeJob
<1>3. /\ DbInv(db') /\ db'.jobs = db.jobs
      /\ UnitState(db, w) = "Queued" /\ UnitState(db', w) = "Synthesizing"
      /\ \A v \in Units : v # w => UnitState(db', v) = UnitState(db, v)
      /\ db'.state[w[1]] # "Queued"
      /\ \A v \in Utts : db'.state[v] = "Queued" => db.state[v] = "Queued"
  BY <1>1, ClaimInv DEF IsEarliest, IInv
<1>4. /\ job \in [Workers -> Jobs \cup {Idle}]
      /\ [stage |-> "rendering", unit |-> w] \in Jobs
  BY DEF IInv, TypeOK, Jobs, Stage
<1>5. /\ job'[k].unit = w /\ job'[k].stage = "rendering" /\ Busy(k)'
      /\ \A j \in Workers : j # k => job'[j] = job[j]
  BY <1>1, <1>4, IdleIsNotBusy DEF Busy, Stage
<1>6. TypeOK'
  BY <1>1, <1>2, <1>3, <1>4 DEF IInv, TypeOK, DbInv
<1>7. \A j \in Workers : Busy(j) => job[j].unit # w /\ j # k
  BY <1>2, <1>3 DEF IInv, HeldIsClaimed
<1>8. HeldIsClaimed'
  BY <1>3, <1>4, <1>5, <1>7, JobFacts, StateFacts DEF IInv, HeldIsClaimed, Busy
<1>9. WorkIsClaimedOnce'
  BY <1>5, <1>7 DEF IInv, WorkIsClaimedOnce, Busy
<1>10. StreamsHaveWorkers'
  <2> SUFFICES ASSUME NEW v \in db.jobs
               PROVE  \E j \in Workers : Produces(j, v)' /\ job'[j].stage = "streaming"
    BY <1>3 DEF StreamsHaveWorkers
  <2>1. PICK j \in Workers : Produces(j, v) /\ job[j].stage = "streaming"
    BY <1>2 DEF IInv, StreamsHaveWorkers
  <2>2. QED
    BY <1>2, <1>5, <2>1 DEF Produces, Busy
<1>11. MakingHasWorkers'
  <2> SUFFICES ASSUME NEW v \in Units, UnitState(db', v) = "Synthesizing"
               PROVE  \E j \in Workers : Produces(j, v)'
    BY DEF MakingHasWorkers
  <2>1. CASE v = w
    BY <1>5, <2>1 DEF Produces
  <2>2. CASE v # w
    <3>1. PICK j \in Workers : Produces(j, v)
      BY <1>2, <1>3, <2>2 DEF IInv, MakingHasWorkers
    <3>2. QED
      BY <1>2, <1>5, <3>1 DEF Produces, Busy
  <2>3. QED
    BY <2>1, <2>2
<1>12. PoolIsDown' /\ RecoveryProgress'
  BY <1>2 DEF PoolIsDown, RecoveryProgress
<1>13. OwnersAreAwake'
  BY <1>3, <1>5, JobFacts, UnitShape DEF IInv, TypeOK, OwnersAreAwake, Busy
<1>14. StreamsAreMade'
  BY <1>3, <1>5, <1>7, JobFacts DEF IInv, TypeOK, StreamsAreMade, Busy
<1>15. QED
  BY <1>3, <1>6, <1>8, <1>9, <1>10, <1>11, <1>12, <1>13, <1>14 DEF IInv

(* A worker's stage changes; its unit and every other worker stay.         *)
LEMMA StageChange ==
  ASSUME IInv, NEW k \in Workers, Busy(k), NEW s \in Stage,
         job' = [job EXCEPT ![k].stage = s]
  PROVE  /\ phase = "up"
         /\ job' \in [Workers -> Jobs \cup {Idle}]
         /\ \A j \in Workers : /\ Busy(j)' <=> Busy(j)
                               /\ Busy(j) => job'[j].unit = job[j].unit
                               /\ j # k => job'[j] = job[j]
         /\ job'[k].stage = s /\ job'[k].unit = job[k].unit
         /\ WorkIsClaimedOnce'
<1>1. phase = "up" /\ job \in [Workers -> Jobs \cup {Idle}]
  BY DEF IInv, TypeOK, PoolIsDown
<1>2. job[k] \in Jobs
  BY <1>1, JobFacts
<1>3. job'[k] \in Jobs /\ job'[k].stage = s /\ job'[k].unit = job[k].unit
  BY <1>1, <1>2 DEF Jobs
<1>4. job'[k] # Idle
  BY <1>2, <1>3, IdleIsNotBusy DEF Jobs
<1>5. job' \in [Workers -> Jobs \cup {Idle}] /\ \A j \in Workers : j # k => job'[j] = job[j]
  BY <1>1, <1>3
<1>6. \A j \in Workers : /\ Busy(j)' <=> Busy(j)
                         /\ Busy(j) => job'[j].unit = job[j].unit
  BY <1>3, <1>4, <1>5 DEF Busy
<1>7. WorkIsClaimedOnce'
  BY <1>6 DEF IInv, WorkIsClaimedOnce
<1>8. QED
  BY <1>1, <1>3, <1>5, <1>6, <1>7

LEMMA FirstBufferStep == ASSUME IInv, NEW k \in Workers, FirstBuffer(k) PROVE IInv'
<1>1. /\ Busy(k) /\ job[k].stage = "rendering"
      /\ job' = [job EXCEPT ![k].stage = "announced"]
      /\ UNCHANGED <<db, missing, warm, phase, crashes>>
  BY DEF FirstBuffer
<1>2. /\ phase = "up"
      /\ job' \in [Workers -> Jobs \cup {Idle}]
      /\ \A j \in Workers : /\ Busy(j)' <=> Busy(j)
                            /\ Busy(j) => job'[j].unit = job[j].unit
                            /\ j # k => job'[j] = job[j]
      /\ job'[k].stage = "announced"
      /\ WorkIsClaimedOnce'
  BY <1>1, StageChange DEF Stage
<1>3. TypeOK' /\ PoolIsDown' /\ RecoveryProgress'
  BY <1>1, <1>2 DEF IInv, TypeOK, PoolIsDown, RecoveryProgress
<1>4. HeldIsClaimed'
  BY <1>1, <1>2 DEF IInv, HeldIsClaimed
<1>5. StreamsHaveWorkers' /\ MakingHasWorkers'
  BY <1>1, <1>2 DEF IInv, StreamsHaveWorkers, MakingHasWorkers, Produces
<1>6. OwnersAreAwake' /\ StreamsAreMade'
  BY <1>1, <1>2 DEF IInv, OwnersAreAwake, StreamsAreMade
<1>7. QED
  BY <1>1, <1>2, <1>3, <1>4, <1>5, <1>6 DEF IInv

LEMMA StreamReadyStep == ASSUME IInv, NEW k \in Workers, StreamReady(k) PROVE IInv'
<1> DEFINE w == job[k].unit
<1>1. /\ Busy(k) /\ job[k].stage = "announced"
      /\ db' = StartStreaming(db, w)
      /\ job' = [job EXCEPT ![k].stage = "streaming"]
      /\ UNCHANGED <<missing, warm, phase, crashes>>
  BY DEF StreamReady
<1>2. /\ phase = "up"
      /\ job' \in [Workers -> Jobs \cup {Idle}]
      /\ \A j \in Workers : /\ Busy(j)' <=> Busy(j)
                            /\ Busy(j) => job'[j].unit = job[j].unit
                            /\ j # k => job'[j] = job[j]
      /\ job'[k].stage = "streaming" /\ job'[k].unit = w
      /\ WorkIsClaimedOnce'
  BY <1>1, StageChange DEF Stage
<1>3. w \in Units
  BY <1>1, JobFacts DEF IInv, TypeOK
<1> HIDE DEF w
<1>4. /\ DbInv(db')
      /\ db'.jobs \subseteq db.jobs \cup {w}
      /\ UnitState(db', w) # "Synthesizing"
      /\ \A v \in Units : UnitState(db', v) \in Unmade => UnitState(db', v) = UnitState(db, v)
      /\ \A v \in Utts : db'.state[v] = "Queued" => db.state[v] = "Queued"
  BY <1>1, <1>3, StartStreamingInv DEF IInv
<1>5. TypeOK' /\ PoolIsDown' /\ RecoveryProgress'
  BY <1>1, <1>2, <1>4 DEF IInv, TypeOK, DbInv, PoolIsDown, RecoveryProgress
<1>6. HeldIsClaimed'
  BY <1>2, <1>4, JobFacts DEF IInv, TypeOK, HeldIsClaimed, Unmade
<1>7. StreamsHaveWorkers'
  <2> SUFFICES ASSUME NEW v \in db'.jobs
               PROVE  \E j \in Workers : Produces(j, v)' /\ job'[j].stage = "streaming"
    BY DEF StreamsHaveWorkers
  <2>1. CASE v = w
    BY <1>1, <1>2, <2>1 DEF Produces
  <2>2. CASE v # w
    <3>1. PICK j \in Workers : Produces(j, v) /\ job[j].stage = "streaming"
      BY <1>2, <1>4, <2>2 DEF IInv, StreamsHaveWorkers
    <3>2. QED
      BY <1>1, <1>2, <3>1 DEF Produces
  <2>3. QED
    BY <2>1, <2>2
<1>8. MakingHasWorkers'
  <2> SUFFICES ASSUME NEW v \in Units, UnitState(db', v) = "Synthesizing"
               PROVE  \E j \in Workers : Produces(j, v)'
    BY DEF MakingHasWorkers
  <2>1. UnitState(db, v) = "Synthesizing"
    BY <1>4 DEF Unmade
  <2>2. PICK j \in Workers : Produces(j, v)
    BY <1>2, <2>1 DEF IInv, MakingHasWorkers
  <2>3. QED
    BY <1>2, <2>2 DEF Produces
<1>9. OwnersAreAwake'
  BY <1>2, <1>4, JobFacts, UnitShape DEF IInv, TypeOK, OwnersAreAwake
<1>10. StreamsAreMade'
  BY <1>2, <1>4, JobFacts DEF IInv, TypeOK, StreamsAreMade, Unmade
<1>11. QED
  BY <1>2, <1>4, <1>5, <1>6, <1>7, <1>8, <1>9, <1>10 DEF IInv

(* A completion: its commits lead onward and the last one lets the unit    *)
(* go, whether the handler finishes or dies among them.                    *)
LEMMA CompleteStep ==
  ASSUME IInv, NEW k \in Workers, Busy(k), NEW t, Len(t) \in Nat,
         \A i \in 1 .. Len(t) : Advances(db, t[i]),
         Advances(db, LastOf(db, t)),
         job[k].unit \notin LastOf(db, t).jobs,
         UnitState(LastOf(db, t), job[k].unit) # "Synthesizing",
         Complete(k, t)
  PROVE  IInv'
<1>1. CASE DiesAmid(t)
  BY <1>1, DownStep DEF DiesAmid, Advances, IInv, TypeOK
<1>2. CASE ~DiesAmid(t)
  <2>1. /\ db' = LastOf(db, t)
        /\ job' = [job EXCEPT ![k] = Idle]
        /\ UNCHANGED <<missing, warm, phase, crashes>>
    BY <1>2 DEF Complete
  <2>2. QED
    BY <2>1, FinishStep DEF IInv, TypeOK
<1>3. QED
  BY <1>1, <1>2

LEMMA PublishStep == ASSUME IInv, NEW k \in Workers, Publish(k) PROVE IInv'
<1> DEFINE t == SuccessCommits(db, job[k].unit)
<1>1. Busy(k) /\ Complete(k, t)
  BY DEF Publish, Rendered
<1>2. job[k].unit \in Units /\ DbInv(db)
  BY <1>1, JobFacts DEF IInv, TypeOK
<1>3. /\ Len(t) \in Nat
      /\ \A i \in 1 .. Len(t) : Advances(db, t[i])
      /\ Advances(db, LastOf(db, t))
      /\ job[k].unit \notin LastOf(db, t).jobs
      /\ UnitState(LastOf(db, t), job[k].unit) # "Synthesizing"
  BY <1>2, SuccessInv
<1> HIDE DEF t
<1>4. QED
  BY <1>1, <1>3, CompleteStep

LEMMA FailStep == ASSUME IInv, NEW k \in Workers, Fail(k) PROVE IInv'
<1> DEFINE t == FailureCommits(db, job[k].unit)
<1>1. Busy(k) /\ Complete(k, t)
  BY DEF Fail, RenderFailed
<1>2. job[k].unit \in Units /\ DbInv(db)
  BY <1>1, JobFacts DEF IInv, TypeOK
<1>3. /\ Len(t) \in Nat
      /\ \A i \in 1 .. Len(t) : Advances(db, t[i])
      /\ Advances(db, LastOf(db, t))
      /\ job[k].unit \notin LastOf(db, t).jobs
      /\ UnitState(LastOf(db, t), job[k].unit) # "Synthesizing"
  BY <1>2, FailureInv
<1> HIDE DEF t
<1>4. QED
  BY <1>1, <1>3, CompleteStep

LEMMA RefusedStep == ASSUME IInv, NEW k \in Workers, PublishRefused(k) PROVE IInv'
<1> DEFINE w == job[k].unit
           c == PublishCommits(db, w)
<1>1. Busy(k) /\ Active(db, w) /\ w \in Units /\ DbInv(db)
  BY JobFacts DEF PublishRefused, Rendered, IInv, TypeOK
<1>2. /\ Len(c) \in Nat
      /\ \A i \in 1 .. Len(c) : Advances(db, c[i])
  BY <1>1, PublishInv
<1> HIDE DEF c
<1>3. \E i \in 0 .. Len(c) :
        /\ db' = LastOf(IF i = 0 THEN db ELSE c[i],
                        FailureCommits(IF i = 0 THEN db ELSE c[i], w))
        /\ missing' = IF i = 0 THEN missing ELSE missing \cup {w}
  BY <1>2 DEF PublishRefused, c
<1>4. PICK i \in 0 .. Len(c) :
        /\ db' = LastOf(IF i = 0 THEN db ELSE c[i],
                        FailureCommits(IF i = 0 THEN db ELSE c[i], w))
        /\ missing' = IF i = 0 THEN missing ELSE missing \cup {w}
  BY <1>3
<1> DEFINE kept == IF i = 0 THEN db ELSE c[i]
<1>5. Advances(db, kept) /\ DbInv(kept)
  BY <1>1, <1>2, AdvancesSelf DEF Advances
<1>6. missing' \subseteq Units
  BY <1>1, <1>4 DEF IInv, TypeOK
<1>7. db' = LastOf(kept, FailureCommits(kept, w))
  BY <1>4
<1> HIDE DEF kept
<1>8. Advances(kept, db') /\ w \notin db'.jobs /\ UnitState(db', w) # "Synthesizing"
  BY <1>1, <1>5, <1>7, FailureInv
<1>9. Advances(db, db')
  BY <1>5, <1>8, AdvancesTrans
<1>10. job' = [job EXCEPT ![k] = Idle] /\ UNCHANGED <<warm, phase, crashes>>
  BY DEF PublishRefused
<1>11. QED
  BY <1>1, <1>6, <1>8, <1>9, <1>10, FinishStep

-----------------------------------------------------------------------------
(* The rows playback writes.                                               *)
LEMMA WritesOne ==
  ASSUME IInv, phase = "up", NEW e, Advances(db, e), Writes(<<e>>)
  PROVE  IInv'
<1>1. Len(<<e>>) \in Nat /\ \A i \in 1 .. Len(<<e>>) : Advances(db, <<e>>[i])
  OBVIOUS
<1>2. QED
  BY <1>1, WritesStep

LEMMA WritesTwo ==
  ASSUME IInv, phase = "up", NEW e, NEW f, Advances(db, e), Advances(db, f), Writes(<<e, f>>)
  PROVE  IInv'
<1>1. Len(<<e, f>>) \in Nat /\ \A i \in 1 .. Len(<<e, f>>) : Advances(db, <<e, f>>[i])
  OBVIOUS
<1>2. QED
  BY <1>1, WritesStep

LEMMA WritesThree ==
  ASSUME IInv, phase = "up", NEW e, NEW f, NEW g,
         Advances(db, e), Advances(db, f), Advances(db, g), Writes(<<e, f, g>>)
  PROVE  IInv'
<1>1. Len(<<e, f, g>>) \in Nat /\ \A i \in 1 .. Len(<<e, f, g>>) : Advances(db, <<e, f, g>>[i])
  OBVIOUS
<1>2. QED
  BY <1>1, WritesStep, SMTT(60)

(* The rows of one parent that playback pauses.                            *)
LEMMA ChildPausedInv ==
  ASSUME NEW d, DbInv(d), NEW u \in Utts
  PROVE  /\ Advances(d, ChildPaused(d, u)) /\ DbInv(ChildPaused(d, u))
         /\ ChildPaused(d, u).state = d.state
<1> DEFINE c == [p \in Parts |-> IF p[1] = u /\ d.child[p] = "Playing"
                                   THEN "Paused" ELSE d.child[p]]
<1>1. /\ c \in [Parts -> State \cup {Absent}]
      /\ \A p \in Parts : MayBecome(d.child[p], c[p])
      /\ \A p \in Parts : d.state[p[1]] \in Terminal => c[p] \in Terminal
  BY UnitShape, StateFacts DEF MayBecome, DbInv, Database, Closed
<1>2. d.state \in [Utts -> State \cup {Absent}] /\ \A v \in Utts : MayBecome(d.state[v], d.state[v])
  BY DEF DbInv, Database, MayBecome
<1>3. ChildPaused(d, u) = [d EXCEPT !.state = d.state, !.child = c]
  BY DEF ChildPaused, DbInv, Database
<1>4. ChildPaused(d, u).state = d.state
  BY DEF ChildPaused, DbInv, Database
<1> HIDE DEF c
<1>5. Advances(d, [d EXCEPT !.state = d.state, !.child = c])
  BY <1>1, <1>2, RowsInv
<1>6. Advances(d, ChildPaused(d, u))
  BY <1>3, <1>5
<1>7. QED
  BY <1>4, <1>6 DEF Advances

LEMMA BeginStep == ASSUME IInv, NEW w \in Units, Begin(w) PROVE IInv'
<1> DEFINE u == w[1]
           e == IF db.state[u] = "Playing" THEN db ELSE Transition(db, u, "Playing")
<1>1. u \in Utts /\ phase = "up" /\ db.state[u] \in PlaybackStates /\ DbInv(db)
      /\ "Playing" \in PlaybackMoves /\ "Playing" \notin Terminal
  BY UnitShape, StateFacts DEF Begin, In, IInv, PlaybackMoves
<1>2. Advances(db, e) /\ DbInv(e) /\ e.child = db.child
  BY <1>1, ParentMove, AdvancesSelf
<1>3. CASE w[2] = Whole
  <2>1. Writes(<<e>>)
    BY <1>3 DEF Begin
  <2> HIDE DEF e
  <2>2. QED
    BY <1>1, <1>2, <2>1, WritesOne
<1>4. CASE w[2] # Whole
  <2> DEFINE f == TransitionSegment(e, w, "Playing")
  <2>1. Writes(IF e = db THEN <<f>> ELSE <<e, f>>) /\ db.child[w] \in {"Ready", "Paused"}
    BY <1>4 DEF Begin
  <2>2. w \in Parts
    BY <1>4, UnitShape
  <2> HIDE DEF e
  <2>3. Advances(e, f)
    BY <1>1, <1>2, <2>1, <2>2, ChildMove, StateFacts
  <2>4. Advances(db, f)
    BY <1>2, <2>3, AdvancesTrans
  <2> HIDE DEF f
  <2>5. QED
    BY <1>1, <1>2, <2>1, <2>4, WritesOne, WritesTwo
<1>5. QED
  BY <1>3, <1>4

LEMMA HoldStep == ASSUME IInv, Hold PROVE IInv'
<1> DEFINE e == [db EXCEPT !.held = TRUE]
<1>1. phase = "up" /\ Advances(db, e) /\ DbInv(e) /\ e.state = db.state
  <2>1. TRUE \in BOOLEAN
    OBVIOUS
  <2>2. Advances(db, e)
    BY <2>1, HeldInv DEF IInv
  <2>3. QED
    BY <2>2 DEF Hold, Advances, IInv, DbInv, Database
<1>2. CASE Writes(<<e>>)
  BY <1>1, <1>2, WritesOne
<1>3. CASE \E u \in Utts :
             /\ db.state[u] = "Playing"
             /\ LET f == ChildPaused(e, u)
                IN  Writes(IF f = e THEN <<e, Transition(e, u, "Paused")>>
                                    ELSE <<e, f, Transition(f, u, "Paused")>>)
  <2>1. PICK u \in Utts :
             /\ db.state[u] = "Playing"
             /\ LET f == ChildPaused(e, u)
                IN  Writes(IF f = e THEN <<e, Transition(e, u, "Paused")>>
                                    ELSE <<e, f, Transition(f, u, "Paused")>>)
    BY <1>3
  <2> DEFINE f == ChildPaused(e, u)
             g == Transition(f, u, "Paused")
  <2>2. Writes(IF f = e THEN <<e, g>> ELSE <<e, f, g>>)
    BY <2>1
  <2> HIDE DEF e
  <2>3. Advances(e, f) /\ DbInv(f) /\ f.state = e.state
    BY <1>1, ChildPausedInv
  <2> HIDE DEF f
  <2>4. "Paused" \in PlaybackMoves /\ f.state[u] \in PlaybackStates
    BY <1>1, <2>1, <2>3, StateFacts DEF PlaybackMoves
  <2>5. Advances(f, g)
    BY <2>3, <2>4, ParentMove
  <2>6. Advances(db, f) /\ Advances(db, g)
    BY <1>1, <2>3, <2>5, AdvancesTrans
  <2> HIDE DEF g
  <2>7. QED
    BY <1>1, <2>2, <2>6, WritesTwo, WritesThree
<1>4. QED
  BY <1>2, <1>3 DEF Hold

LEMMA SuspendStep == ASSUME IInv, NEW u \in Utts, Suspend(u) PROVE IInv'
<1> DEFINE f == ChildPaused(db, u)
           g == Transition(f, u, "Paused")
<1>1. phase = "up" /\ db.state[u] = "Playing" /\ Writes(<<g>>) /\ DbInv(db)
  BY DEF Suspend, IInv
<1>2. Advances(db, f) /\ DbInv(f) /\ f.state = db.state
  BY <1>1, ChildPausedInv
<1> HIDE DEF f
<1>3. Advances(f, g)
  BY <1>1, <1>2, ParentMove, StateFacts, ZenonT(60) DEF PlaybackMoves
<1>4. Advances(db, g)
  BY <1>2, <1>3, AdvancesTrans
<1> HIDE DEF g
<1>5. QED
  BY <1>1, <1>4, WritesOne

LEMMA ResumeStep == ASSUME IInv, NEW u \in Utts, Resume(u) PROVE IInv'
<1> DEFINE e == [db EXCEPT !.held = FALSE]
           f == Transition(e, u, "Playing")
           g(w) == TransitionSegment(f, w, "Playing")
           h(w) == TransitionSegment(e, w, "Playing")
<1>1. phase = "up" /\ db.state[u] = "Paused" /\ DbInv(db)
      /\ "Playing" \in PlaybackMoves /\ "Playing" \notin Terminal
  BY StateFacts DEF Resume, IInv, PlaybackMoves
<1>2. \/ Writes(<<e, f>>)
      \/ \E w \in Parts : /\ db.child[w] = "Paused"
                          /\ Writes(<<e, f, g(w)>>) \/ Writes(<<e, h(w), g(w)>>)
  BY UnitShape DEF Resume, Unfinished
<1>3. /\ Advances(db, e) /\ DbInv(e) /\ e.state = db.state /\ e.child = db.child
  <2>1. FALSE \in BOOLEAN
    OBVIOUS
  <2>2. Advances(db, e)
    BY <1>1, <2>1, HeldInv
  <2>3. QED
    BY <1>1, <2>2 DEF Advances, DbInv, Database
<1> HIDE DEF e
<1>4. e.state[u] \in PlaybackStates
  BY <1>1, <1>3, StateFacts
<1>5. Advances(e, f) /\ DbInv(f) /\ f.child = e.child
  BY <1>1, <1>3, <1>4, ParentMove
<1>6. Advances(db, f)
  BY <1>3, <1>5, AdvancesTrans
<1> HIDE DEF f
<1>7. CASE Writes(<<e, f>>)
  BY <1>1, <1>3, <1>6, <1>7, WritesTwo
<1>8. ASSUME NEW w \in Parts, db.child[w] = "Paused",
             Writes(<<e, f, g(w)>>) \/ Writes(<<e, h(w), g(w)>>)
      PROVE  IInv'
  <2>1. e.child[w] \in PlaybackStates /\ f.child[w] \in PlaybackStates
    BY <1>3, <1>5, <1>8, StateFacts
  <2>2. Advances(f, g(w))
    BY <1>1, <1>5, <2>1, ChildMove
  <2>3. Advances(e, h(w))
    BY <1>1, <1>3, <2>1, ChildMove
  <2>4. Advances(db, g(w)) /\ Advances(db, h(w))
    BY <1>3, <1>6, <2>2, <2>3, AdvancesTrans
  <2> HIDE DEF g, h
  <2>5. QED
    BY <1>1, <1>3, <1>6, <1>8, <2>4, WritesThree
<1>9. QED
  BY <1>2, <1>7, <1>8

LEMMA ReleaseHoldStep == ASSUME IInv, ReleaseHold PROVE IInv'
<1> DEFINE e == [db EXCEPT !.held = FALSE]
<1>1. phase = "up" /\ Writes(<<e>>) /\ FALSE \in BOOLEAN /\ DbInv(db)
  BY DEF ReleaseHold, IInv
<1>2. Advances(db, e)
  BY <1>1, HeldInv
<1> HIDE DEF e
<1>3. QED
  BY <1>1, <1>2, WritesOne

(* The child settles, and the parent may settle with it.                   *)
LEMMA EndOfClipStep == ASSUME IInv, NEW w \in Units, EndOfClip(w) PROVE IInv'
<1> DEFINE u == w[1]
           e == TransitionSegment(db, w, "Played")
           f == Transition(db, u, "Played")
           g == Transition(e, u, "Played")
<1>1. u \in Utts /\ phase = "up" /\ DbInv(db) /\ db.state[u] \in PlaybackStates
      /\ UnitState(db, w) \in PlaybackStates /\ "Played" \in PlaybackMoves
  BY UnitShape, StateFacts DEF EndOfClip, IInv, PlaybackMoves
<1>2. \/ w[2] = Whole /\ Writes(<<f>>)
      \/ w[2] # Whole /\ (Writes(<<e>>) \/ Writes(<<e, g>>))
  BY DEF EndOfClip
<1>3. CASE w[2] = Whole /\ Writes(<<f>>)
  <2>1. Advances(db, f)
    BY <1>1, ParentMove
  <2> HIDE DEF f
  <2>2. QED
    BY <1>1, <1>3, <2>1, WritesOne
<1>4. CASE w[2] # Whole /\ (Writes(<<e>>) \/ Writes(<<e, g>>))
  <2>1. w \in Parts /\ db.child[w] \in PlaybackStates
    BY <1>1, <1>4, UnitShape DEF UnitState
  <2>2. Advances(db, e) /\ DbInv(e) /\ e.state = db.state
    BY <1>1, <2>1, ChildMove, ZenonT(30)
  <2> HIDE DEF e
  <2>3. Advances(e, g)
    BY <1>1, <2>2, ParentMove
  <2>4. Advances(db, g)
    BY <2>2, <2>3, AdvancesTrans
  <2> HIDE DEF g
  <2>5. QED
    BY <1>1, <1>4, <2>2, <2>4, WritesOne, WritesTwo
<1>5. QED
  BY <1>2, <1>3, <1>4

LEMMA DeviceErrorStep == ASSUME IInv, NEW w \in Units, DeviceError(w) PROVE IInv'
<1> DEFINE u == w[1]
           e == TransitionSegment(db, w, "Failed")
           f == Transition(db, u, "Failed")
           g == Transition(e, u, "Failed")
<1>1. u \in Utts /\ phase = "up" /\ DbInv(db) /\ db.state[u] \in PlaybackStates
      /\ UnitState(db, w) \in PlaybackStates /\ "Failed" \in PlaybackMoves
  BY UnitShape, StateFacts DEF DeviceError, IInv, PlaybackMoves
<1>2. \/ w[2] = Whole /\ Writes(<<f>>)
      \/ w[2] # Whole /\ Writes(<<e, g>>)
  BY DEF DeviceError
<1>3. CASE w[2] = Whole /\ Writes(<<f>>)
  <2>1. Advances(db, f)
    BY <1>1, ParentMove
  <2> HIDE DEF f
  <2>2. QED
    BY <1>1, <1>3, <2>1, WritesOne
<1>4. CASE w[2] # Whole /\ Writes(<<e, g>>)
  <2>1. w \in Parts /\ db.child[w] \in PlaybackStates
    BY <1>1, <1>4, UnitShape DEF UnitState
  <2>2. Advances(db, e) /\ DbInv(e) /\ e.state = db.state
    BY <1>1, <2>1, ChildMove, ZenonT(30)
  <2> HIDE DEF e
  <2>3. Advances(e, g)
    BY <1>1, <2>2, ParentMove
  <2>4. Advances(db, g)
    BY <2>2, <2>3, AdvancesTrans
  <2> HIDE DEF g
  <2>5. QED
    BY <1>1, <1>4, <2>2, <2>4, WritesTwo
<1>5. QED
  BY <1>2, <1>3, <1>4

LEMMA NextSegmentStep == ASSUME IInv, NEW p \in Parts, NextSegment(p) PROVE IInv'
<1> DEFINE e == TransitionSegment(db, p, "Skipped")
<1>1. phase = "up" /\ Writes(<<e>>) /\ DbInv(db) /\ db.child[p] \in PlaybackStates
      /\ "Skipped" \in PlaybackMoves
  BY StateFacts DEF NextSegment, IInv, PlaybackMoves
<1>2. Advances(db, e)
  BY <1>1, ChildMove
<1> HIDE DEF e
<1>3. QED
  BY <1>1, <1>2, WritesOne

LEMMA SkipStep == ASSUME IInv, NEW u \in Utts, Skip(u) PROVE IInv'
<1>1. phase = "up" /\ DbInv(db) /\ db.state[u] # Absent
  BY StateFacts DEF Skip, In, IInv
<1>2. PICK w \in ChildrenOf(u) \cup {<<u, Whole>>} : Writes(<<SkipUtterance(db, u, w)>>)
  BY DEF Skip
<1>3. w \in Parts => db.state[w[1]] # Absent
  BY <1>1, <1>2, UnitShape
<1>4. Advances(db, SkipUtterance(db, u, w))
  BY <1>1, <1>3, SkipInv
<1>5. QED
  BY <1>1, <1>2, <1>4, WritesOne

-----------------------------------------------------------------------------
(* Recovery.                                                               *)
LEMMA RecoveryStep ==
  ASSUME IInv, phase # "up", DbInv(db'), UNCHANGED <<missing, job, warm, crashes>>,
         phase' \in RecoveryPhases \cup {"up", "down"},
         RecoveryProgress',
         phase' = "up" => /\ db'.jobs = {}
                          /\ \A w \in Units : UnitState(db', w) # "Synthesizing"
  PROVE  IInv'
<1>1. \A k \in Workers : ~Busy(k)'
  BY DEF IInv, PoolIsDown, Busy
<1>2. TypeOK'
  BY DEF IInv, TypeOK, DbInv
<1>3. PoolIsDown' /\ HeldIsClaimed' /\ WorkIsClaimedOnce' /\ OwnersAreAwake' /\ StreamsAreMade'
  BY <1>1 DEF PoolIsDown, HeldIsClaimed, WorkIsClaimedOnce, OwnersAreAwake, StreamsAreMade
<1>4. StreamsHaveWorkers' /\ MakingHasWorkers'
  BY DEF StreamsHaveWorkers, MakingHasWorkers
<1>5. QED
  BY <1>2, <1>3, <1>4 DEF IInv

LEMMA RestedFacts ==
  /\ Unrested = {"Synthesizing", "Playing"}
  /\ Rested("Synthesizing") = "Queued" /\ Rested("Playing") = "Paused"
  /\ "Queued" \in State /\ "Paused" \in State /\ "Paused" \notin Unmade
  /\ "Queued" \notin PlaybackStates /\ "Playing" \in PlaybackStates
  /\ Unrested \cap (Terminal \cup {Absent}) = {}
BY StateFacts DEF Unrested, Rested, State

LEMMA RecoverChildStep == ASSUME IInv, NEW p \in Parts, RecoverChild(p) PROVE IInv'
<1> DEFINE to == Rested(db.child[p])
<1>1. /\ phase = "children" /\ db.child[p] \in Unrested /\ db.jobs = {} /\ DbInv(db)
      /\ db' = TransitionSegment(db, p, to)
      /\ UNCHANGED <<missing, job, warm, phase, crashes>>
  BY DEF RecoverChild, IInv, RecoveryProgress
<1>2. to \in State /\ to # "Submitted" /\ db.child[p] # Absent
      /\ db.state[p[1]] \notin Terminal
  BY <1>1, RestedFacts DEF DbInv, Closed
<1>3. to \in PlaybackStates => p \in db.audio \cup db.jobs
  BY <1>1, RestedFacts, UnitShape DEF DbInv, Audible, UnitState
<1> HIDE DEF to
<1>4. DbInv(db')
  BY <1>1, <1>2, <1>3, SegmentInv
<1>5. db'.jobs = {}
  BY <1>1 DEF TransitionSegment, DbInv, Database
<1>6. QED
  BY <1>1, <1>4, <1>5, RecoveryStep DEF RecoveryProgress, RecoveryPhases

LEMMA RecoverParentStep == ASSUME IInv, NEW u \in Utts, RecoverParent(u) PROVE IInv'
<1> DEFINE to == Rested(db.state[u])
<1>1. /\ phase = "parents" /\ db.state[u] \in Unrested /\ db.jobs = {} /\ DbInv(db)
      /\ \A p \in Parts : db.child[p] \notin Unrested
      /\ db' = Transition(db, u, to)
      /\ UNCHANGED <<missing, job, warm, phase, crashes>>
  BY DEF RecoverParent, IInv, RecoveryProgress
<1>2. to \in State /\ to # "Submitted" /\ db.state[u] # Absent /\ db.state[u] \notin Terminal
  BY <1>1, RestedFacts
<1>3. to \in PlaybackStates =>
        \A w \in Units \ Parts : w[1] = u => w \in db.audio \cup db.jobs
  BY <1>1, RestedFacts, UnitShape DEF DbInv, Audible, UnitState
<1> HIDE DEF to
<1>4. DbInv(db')
  BY <1>1, <1>2, <1>3, TransitionInv
<1>5. db'.jobs = {} /\ \A p \in Parts : db'.child[p] \notin Unrested
  BY <1>1, RestedFacts DEF Transition, DbInv, Database
<1>6. QED
  BY <1>1, <1>4, <1>5, RecoveryStep DEF RecoveryProgress, RecoveryPhases

LEMMA ReconcileStep == ASSUME IInv, NEW u \in Utts, Reconcile(u) PROVE IInv'
<1> DEFINE c == ReconcileCommits(db, u)
<1>1. /\ phase = "reconcile" /\ c # <<>> /\ Writes(c) /\ DbInv(db) /\ db.jobs = {}
      /\ \A p \in Parts : db.child[p] \notin Unrested
      /\ \A v \in Utts : db.state[v] \notin Unrested
  BY DEF Reconcile, IInv, RecoveryProgress
<1>2. /\ \/ \E e : c = <<e>>
         \/ \E e, f : c = <<e, f>>
      /\ \A i \in 1 .. Len(c) : Advances(db, c[i])
      /\ c[Len(c)].state[u] \in {"Failed", "Played", "Ready"}
      /\ \A v \in Utts \ {u} : c[Len(c)].state[v] = db.state[v]
      /\ \A p \in Parts : c[Len(c)].child[p] \in {db.child[p], "Cancelled"}
  BY <1>1, ReconcileInv
<1> HIDE DEF c
<1>3. Len(c) \in Nat /\ Len(c) > 0 /\ LastOf(db, c) = c[Len(c)]
  <2>1. CASE \E e : c = <<e>>
    BY <2>1 DEF LastOf
  <2>2. CASE \E e, f : c = <<e, f>>
    BY <2>2 DEF LastOf
  <2>3. QED
    BY <1>2, <2>1, <2>2
<1>4. CASE DiesAmid(c)
  BY <1>2, <1>4, DownStep DEF DiesAmid, Advances, IInv, TypeOK
<1>5. CASE ~DiesAmid(c)
  <2>1. db' = c[Len(c)] /\ UNCHANGED <<missing, job, warm, phase, crashes>>
    BY <1>1, <1>3, <1>5 DEF Writes
  <2>2. Advances(db, db')
    BY <1>2, <1>3, <2>1
  <2>3. \A v \in Utts : db'.state[v] \notin Unrested
    BY <1>1, <1>2, <2>1, RestedFacts
  <2>4. \A p \in Parts : db'.child[p] \notin Unrested
    BY <1>1, <1>2, <2>1, RestedFacts
  <2>5. db'.jobs = {}
    BY <1>1, <2>2 DEF Advances, Onward
  <2>6. QED
    BY <1>1, <2>1, <2>2, <2>3, <2>4, <2>5, RecoveryStep
    DEF RecoveryProgress, RecoveryPhases, Advances
<1>6. QED
  BY <1>4, <1>5

LEMMA RecoveryInv == ASSUME IInv, Recovery PROVE IInv'
<1>1. CASE Restart
  <2>1. phase' = "streams" /\ phase # "up" /\ DbInv(db') /\ UNCHANGED <<missing, job, warm, crashes>>
    BY <1>1 DEF Restart, IInv
  <2>2. QED
    BY <2>1, RecoveryStep DEF RecoveryProgress, RecoveryPhases
<1>2. CASE RecoverJobs
  <2>1. /\ phase = "streams" /\ phase' = "children" /\ db' = RecoverStreams(db)
        /\ UNCHANGED <<missing, job, warm, crashes>>
    BY <1>2 DEF RecoverJobs
  <2>2. DbInv(db') /\ db'.jobs = {}
    BY <2>1, RecoverStreamsInv DEF IInv
  <2>3. QED
    BY <2>1, <2>2, RecoveryStep DEF RecoveryProgress, RecoveryPhases
<1>3. CASE ChildrenDone
  <2>1. /\ phase = "children" /\ phase' = "parents" /\ DbInv(db') /\ db' = db /\ db.jobs = {}
        /\ \A p \in Parts : db.child[p] \notin Unrested
        /\ UNCHANGED <<missing, job, warm, crashes>>
    BY <1>3 DEF ChildrenDone, IInv, RecoveryProgress, Unrested
  <2>2. QED
    BY <2>1, RecoveryStep DEF RecoveryProgress, RecoveryPhases
<1>4. CASE ParentsDone
  <2>1. /\ phase = "parents" /\ phase' = "reconcile" /\ DbInv(db') /\ db' = db /\ db.jobs = {}
        /\ \A p \in Parts : db.child[p] \notin Unrested
        /\ \A u \in Utts : db.state[u] \notin Unrested
        /\ UNCHANGED <<missing, job, warm, crashes>>
    BY <1>4 DEF ParentsDone, IInv, RecoveryProgress, Unrested
  <2>2. QED
    BY <2>1, RecoveryStep DEF RecoveryProgress, RecoveryPhases
<1>5. CASE ComeUp
  <2> DEFINE b == db.held \/ \E u \in Utts : In(db, u, PlaybackStates)
  <2>1. /\ phase = "reconcile" /\ phase' = "up" /\ DbInv(db) /\ db.jobs = {}
        /\ db' = [db EXCEPT !.held = b]
        /\ \A p \in Parts : db.child[p] \notin Unrested
        /\ \A u \in Utts : db.state[u] \notin Unrested
        /\ UNCHANGED <<missing, job, warm, crashes>>
    BY <1>5 DEF ComeUp, IInv, RecoveryProgress
  <2>2. b \in BOOLEAN
    OBVIOUS
  <2> HIDE DEF b
  <2>3. Advances(db, db') /\ DbInv(db') /\ db'.jobs = {}
    BY <2>1, <2>2, HeldInv DEF Advances, Onward
  <2>4. \A w \in Units : UnitState(db, w) # "Synthesizing"
    BY <2>1, UnitShape, RestedFacts DEF UnitState
  <2>5. \A w \in Units : UnitState(db', w) # "Synthesizing"
    BY <2>3, <2>4 DEF Advances, Onward, Unmade
  <2>6. QED
    BY <2>1, <2>3, <2>5, RecoveryStep DEF RecoveryProgress, RecoveryPhases
<1>6. QED
  BY <1>1, <1>2, <1>3, <1>4, <1>5, RecoverChildStep, RecoverParentStep, ReconcileStep
  DEF Recovery

LEMMA CrashStep == ASSUME IInv, Crash PROVE IInv'
BY DownStep DEF Crash, IInv, TypeOK

LEMMA WarmupStep == ASSUME IInv, FinishWarmup PROVE IInv'
<1>1. phase = "up" /\ warm' = TRUE /\ UNCHANGED <<db, missing, job, phase, crashes>>
  BY DEF FinishWarmup
<1>2. TypeOK'
  <2>1. warm' \in BOOLEAN
    BY <1>1
  <2>2. QED
    BY <1>1, <2>1 DEF IInv, TypeOK
<1>3. QED
  BY <1>1, <1>2 DEF IInv, PoolIsDown, HeldIsClaimed, WorkIsClaimedOnce, OwnersAreAwake,
                    StreamsAreMade, StreamsHaveWorkers, MakingHasWorkers, RecoveryProgress, Busy, Produces

LEMMA StutterStep == ASSUME IInv, UNCHANGED vars PROVE IInv'
BY DEF vars, IInv, TypeOK, PoolIsDown, HeldIsClaimed, WorkIsClaimedOnce, OwnersAreAwake,
       StreamsAreMade, StreamsHaveWorkers, MakingHasWorkers, RecoveryProgress, Busy, Produces

-----------------------------------------------------------------------------
LEMMA NextInv == ASSUME IInv, [Next]_vars PROVE IInv'
<1>1. ASSUME NEW u \in Utts, Submit(u) \/ Cancel(u) PROVE IInv'
  BY <1>1, SubmitStep, CancelStep
<1>2. ASSUME NEW states \in {InputStates, {"Ready"}, PendingStates}, Clear(states) PROVE IInv'
  <2>1. states \subseteq State
    BY DEF InputStates, PendingStates, State
  <2>2. QED
    BY <1>2, <2>1, ClearStep
<1>3. ASSUME NEW k \in Workers, Pool(k) PROVE IInv'
  BY <1>3, TakeJobStep, FirstBufferStep, StreamReadyStep, PublishStep, FailStep, RefusedStep
  DEF Pool
<1>4. ASSUME Playback PROVE IInv'
  BY <1>4, BeginStep, EndOfClipStep, DeviceErrorStep, NextSegmentStep, SkipStep, SuspendStep,
     ResumeStep, HoldStep, ReleaseHoldStep
  DEF Playback
<1>5. QED
  BY <1>1, <1>2, <1>3, <1>4, ReorderStep, WarmupStep, RecoveryInv, CrashStep, StutterStep
  DEF Next

THEOREM InductiveInvariant == Spec => []IInv
<1>1. Init => IInv
  BY InitInv
<1>2. IInv /\ [Next]_vars => IInv'
  BY NextInv
<1>3. QED
  BY <1>1, <1>2, PTL DEF Spec

(* Every commit, crash and recovery leaves rows of their types.            *)
THEOREM TypeCorrect == Spec => []TypeOK
<1>1. IInv => TypeOK
  BY DEF IInv
<1>2. QED
  BY <1>1, InductiveInvariant, PTL

(* No open child ever sits below a settled utterance, after any commit.    *)
THEOREM SettledIsClosed == Spec => []SettledMeansClosed
<1>1. IInv => SettledMeansClosed
  BY UnitShape DEF IInv, DbInv, Closed, SettledMeansClosed
<1>2. QED
  BY <1>1, InductiveInvariant, PTL

(* No two workers of any pool render the same text.                        *)
THEOREM ClaimsAreExclusive == Spec => []WorkIsClaimedOnce
<1>1. IInv => WorkIsClaimedOnce
  BY DEF IInv
<1>2. QED
  BY <1>1, InductiveInvariant, PTL

(* Whatever the user and the player do to an utterance while its work is   *)
(* out, the worker's result is still a move the lifecycle permits.         *)
THEOREM ResultsAreLegal == Spec => []CompletionsAreLegal
<1>1. IInv => CompletionsAreLegal
  <2> SUFFICES ASSUME IInv, NEW k \in Workers, Busy(k), Active(db, job[k].unit)
               PROVE  LET w == job[k].unit  s == db.state[w[1]]
                      IN  /\ CanTransition(s, "Failed")
                          /\ w[2] = Whole /\ w \notin db.jobs => CanTransition(s, "Ready")
    BY DEF CompletionsAreLegal
  <2> DEFINE w == job[k].unit
             s == db.state[w[1]]
  <2>1. w[1] \in Utts /\ s \in Live
    BY JobFacts, UnitShape DEF IInv, TypeOK, Active, IsLive
  <2>2. s \notin {"Submitted", "Queued"}
    BY <2>1 DEF IInv, DbInv, NoneBare, OwnersAreAwake
  <2>3. s \in {"Synthesizing", "Ready", "Playing", "Paused"}
    BY <2>1, <2>2 DEF Live, State, Terminal
  <2>4. w[2] = Whole /\ w \notin db.jobs => s = "Synthesizing"
    BY DEF Active, UnitState
  <2> HIDE DEF w, s
  <2>5. CanTransition(s, "Failed") /\ (s = "Synthesizing" => CanTransition(s, "Ready"))
    BY <2>3 DEF CanTransition, Transitions, State
  <2>6. QED
    BY <2>4, <2>5 DEF w, s
<1>2. QED
  BY <1>1, InductiveInvariant, PTL

(* Two live utterances never share a place of the plan, however they were  *)
(* submitted, reordered, interrupted and recovered.                        *)
THEOREM PlanIsAnOrder == Spec => []PlanIsTotal
<1>1. IInv => PlanIsTotal
  BY DEF IInv, DbInv, Ordered, PlanIsTotal, LiveRows
<1>2. QED
  BY <1>1, InductiveInvariant, PTL

-----------------------------------------------------------------------------
(* Which files a refused commit can cost.  A unit that is not streamed has *)
(* its audio from the commit that makes it on: from d to e no such unit    *)
(* loses its audio or goes back to where it was not made, and none gains   *)
(* audio without being made.                                               *)
FilesStay(d, e) ==
  /\ e \in Database
  /\ \A w \in e.jobs : w \in d.jobs \/ w[1] \in Streamed
  /\ \A w \in d.audio : w \in e.audio \/ w[1] \in Streamed
  /\ \A w \in Units : UnitState(e, w) \in Unmade /\ w[1] \notin Streamed =>
       UnitState(d, w) \in Unmade /\ (w \in e.audio => w \in d.audio)

FilesAreMade(d) ==
  /\ \A w \in d.jobs : w[1] \in Streamed
  /\ \A w \in d.audio : w[1] \in Streamed \/ UnitState(d, w) \notin Unmade

OnlyStreamsAreAnnounced ==
  \A k \in Workers : Busy(k) /\ job[k].stage # "rendering" => job[k].unit[1] \in Streamed

LEMMA StayMade ==
  ASSUME NEW d, NEW e, FilesAreMade(d), FilesStay(d, e)
  PROVE  FilesAreMade(e)
BY DEF FilesAreMade, FilesStay, Database

LEMMA StaySelf == ASSUME NEW d \in Database PROVE FilesStay(d, d)
BY DEF FilesStay

LEMMA StayTrans ==
  ASSUME NEW d, NEW e, NEW f, FilesStay(d, e), FilesStay(e, f)
  PROVE  FilesStay(d, f)
BY DEF FilesStay

(* Rows that change below and above the same files.                        *)
LEMMA RowsStay ==
  ASSUME NEW d, NEW e \in Database, e.jobs = d.jobs, e.audio = d.audio,
         \A u \in Utts : e.state[u] \in Unmade => d.state[u] \in Unmade,
         \A p \in Parts : e.child[p] \in Unmade => d.child[p] \in Unmade
  PROVE  FilesStay(d, e)
BY UnitShape DEF FilesStay, UnitState

LEMMA TransitionStays ==
  ASSUME NEW d \in Database, NEW u \in Utts, NEW to \in State,
         to \in Unmade => d.state[u] \in Unmade
  PROVE  FilesStay(d, Transition(d, u, to))
<1> DEFINE e == Transition(d, u, to)
           c == [p \in Parts |-> IF to \in Terminal /\ p[1] = u /\ d.child[p] \notin Terminal
                                   THEN "Cancelled" ELSE d.child[p]]
<1>1. /\ e.state = [d.state EXCEPT ![u] = to] /\ e.child = c
      /\ e.audio = d.audio /\ e.jobs = d.jobs /\ e.order = d.order /\ e.held = d.held
  BY SMTT(60) DEF Transition, Database
<1>2. e \in Database
  BY StateFacts, ZenonT(60) DEF Transition, Database
<1>3. \A v \in Utts : e.state[v] \in Unmade => d.state[v] \in Unmade
  BY <1>1 DEF Database
<1>4. \A p \in Parts : e.child[p] \in Unmade => d.child[p] \in Unmade
  BY <1>1, StateFacts
<1> HIDE DEF e
<1>5. QED
  BY <1>1, <1>2, <1>3, <1>4, RowsStay DEF e

LEMMA SegmentStays ==
  ASSUME NEW d \in Database, NEW p \in Parts, NEW to \in State,
         to \in Unmade => d.child[p] \in Unmade
  PROVE  FilesStay(d, TransitionSegment(d, p, to))
<1> DEFINE e == TransitionSegment(d, p, to)
<1>1. /\ e.state = d.state /\ e.child = [d.child EXCEPT ![p] = to]
      /\ e.audio = d.audio /\ e.jobs = d.jobs /\ e.order = d.order /\ e.held = d.held
  BY DEF TransitionSegment, Database
<1>2. e \in Database
  BY StateFacts DEF TransitionSegment, Database
<1>3. \A q \in Parts : e.child[q] \in Unmade => d.child[q] \in Unmade
  BY <1>1 DEF Database
<1> HIDE DEF e
<1>4. QED
  BY <1>1, <1>2, <1>3, RowsStay DEF e

LEMMA HoldStays ==
  ASSUME NEW d \in Database, NEW h \in BOOLEAN
  PROVE  FilesStay(d, [d EXCEPT !.held = h])
<1> DEFINE e == [d EXCEPT !.held = h]
<1>1. e.state = d.state /\ e.child = d.child /\ e.audio = d.audio /\ e.jobs = d.jobs
  BY DEF Database
<1>2. e \in Database
  BY DEF Database
<1> HIDE DEF e
<1>3. QED
  BY <1>1, <1>2, RowsStay DEF e

LEMMA PauseStays ==
  ASSUME NEW d \in Database, NEW u \in Utts
  PROVE  FilesStay(d, ChildPaused(d, u))
<1> DEFINE e == ChildPaused(d, u)
           c == [p \in Parts |-> IF p[1] = u /\ d.child[p] = "Playing"
                                   THEN "Paused" ELSE d.child[p]]
<1>1. e.state = d.state /\ e.child = c /\ e.audio = d.audio /\ e.jobs = d.jobs
  BY DEF ChildPaused, Database
<1>2. e \in Database
  BY StateFacts DEF ChildPaused, Database
<1>3. \A p \in Parts : e.child[p] \in Unmade => d.child[p] \in Unmade
  BY <1>1, StateFacts
<1> HIDE DEF e
<1>4. QED
  BY <1>1, <1>2, <1>3, RowsStay DEF e

(* A step onward whose new audio is made or streamed.                      *)
LEMMA OnwardStays ==
  ASSUME NEW d, NEW e, Advances(d, e),
         \A w \in d.audio : w \in e.audio \/ w[1] \in Streamed,
         \A w \in e.audio : w \in d.audio \/ w[1] \in Streamed \/ UnitState(e, w) \notin Unmade
  PROVE  FilesStay(d, e)
BY DEF FilesStay, Advances, Onward, DbInv

(* A handler's commits, finished or cut short.                             *)
LEMMA CommitsStay ==
  ASSUME db \in Database, NEW c, Len(c) \in Nat, c # <<>> => Len(c) > 0,
         \A i \in 1 .. Len(c) : FilesStay(db, c[i]),
         db' = LastOf(db, c) \/ DiesAmid(c)
  PROVE  FilesStay(db, db')
BY StaySelf DEF LastOf, DiesAmid

LEMMA WritesStay ==
  ASSUME db \in Database, NEW c,
         \/ \E e : c = <<e>> /\ FilesStay(db, e)
         \/ \E e, f : c = <<e, f>> /\ FilesStay(db, e) /\ FilesStay(db, f)
         \/ \E e, f, g : /\ c = <<e, f, g>>
                         /\ FilesStay(db, e) /\ FilesStay(db, f) /\ FilesStay(db, g),
         Writes(c)
  PROVE  FilesStay(db, db')
<1>1. /\ Len(c) \in Nat /\ (c # <<>> => Len(c) > 0)
      /\ \A i \in 1 .. Len(c) : FilesStay(db, c[i])
  <2>1. ASSUME NEW e, c = <<e>>, FilesStay(db, e)
        PROVE  Len(c) = 1 /\ \A i \in 1 .. Len(c) : FilesStay(db, c[i])
    BY <2>1
  <2>2. ASSUME NEW e, NEW f, c = <<e, f>>, FilesStay(db, e), FilesStay(db, f)
        PROVE  Len(c) = 2 /\ \A i \in 1 .. Len(c) : FilesStay(db, c[i])
    BY <2>2
  <2>3. ASSUME NEW e, NEW f, NEW g, c = <<e, f, g>>,
               FilesStay(db, e), FilesStay(db, f), FilesStay(db, g)
        PROVE  Len(c) = 3 /\ \A i \in 1 .. Len(c) : FilesStay(db, c[i])
    BY <2>3
  <2>4. QED
    BY <2>1, <2>2, <2>3
<1>2. db' = LastOf(db, c) \/ DiesAmid(c)
  BY DEF Writes
<1>3. QED
  BY <1>1, <1>2, CommitsStay

-----------------------------------------------------------------------------
LEMMA PlaybackFiles ==
  ASSUME IInv, Playback
  PROVE  FilesStay(db, db')
<1>1. db \in Database /\ {"Playing", "Paused", "Played", "Failed", "Skipped"} \subseteq State \ Unmade
  BY StateFacts DEF IInv, TypeOK
<1>2. ASSUME NEW w \in Units, Begin(w) PROVE FilesStay(db, db')
  <2> DEFINE u == w[1]
             e == IF db.state[u] = "Playing" THEN db ELSE Transition(db, u, "Playing")
             f == TransitionSegment(e, w, "Playing")
  <2>1. FilesStay(db, e) /\ e \in Database
    BY <1>1, UnitShape, StaySelf, TransitionStays DEF FilesStay
  <2>2. CASE w[2] = Whole
    <3>1. Writes(<<e>>)
      BY <1>2, <2>2 DEF Begin
    <3> HIDE DEF e
    <3>2. QED
      BY <1>1, <2>1, <3>1, WritesStay
  <2>3. CASE w[2] # Whole
    <3>1. w \in Parts /\ (Writes(<<f>>) \/ Writes(<<e, f>>))
      BY <1>2, <2>3, UnitShape DEF Begin
    <3> HIDE DEF e
    <3>2. FilesStay(db, f)
      BY <1>1, <2>1, <3>1, SegmentStays, StayTrans
    <3> HIDE DEF f
    <3>3. QED
      BY <1>1, <2>1, <3>1, <3>2, WritesStay
  <2>4. QED
    BY <2>2, <2>3
<1>3. ASSUME NEW w \in Units, EndOfClip(w) \/ DeviceError(w) PROVE FilesStay(db, db')
  <2>1. PICK to \in {"Played", "Failed"} :
          \/ w[2] = Whole /\ Writes(<<Transition(db, w[1], to)>>)
          \/ /\ w[2] # Whole
             /\ LET e == TransitionSegment(db, w, to)
                IN  Writes(<<e>>) \/ Writes(<<e, Transition(e, w[1], to)>>)
    BY <1>3 DEF EndOfClip, DeviceError
  <2> DEFINE e == TransitionSegment(db, w, to)
             f == Transition(e, w[1], to)
             g == Transition(db, w[1], to)
  <2>2. to \in State \ Unmade /\ w[1] \in Utts
    BY <1>1, UnitShape
  <2>3. FilesStay(db, g)
    BY <1>1, <2>2, TransitionStays
  <2>4. w \in Parts => FilesStay(db, e) /\ FilesStay(db, f)
    <3>1. w \in Parts => FilesStay(db, e) /\ e \in Database
      BY <1>1, <2>2, SegmentStays DEF FilesStay
    <3> HIDE DEF e
    <3>2. QED
      BY <2>2, <3>1, TransitionStays, StayTrans
  <2>5. \/ Writes(<<g>>)
        \/ w \in Parts /\ (Writes(<<e>>) \/ Writes(<<e, f>>))
    BY <2>1, UnitShape
  <2> HIDE DEF e, f, g
  <2>6. QED
    BY <1>1, <2>3, <2>4, <2>5, WritesStay
<1>4. ASSUME NEW p \in Parts, NextSegment(p) PROVE FilesStay(db, db')
  <2> DEFINE e == TransitionSegment(db, p, "Skipped")
  <2>1. Writes(<<e>>) /\ FilesStay(db, e)
    BY <1>1, <1>4, SegmentStays DEF NextSegment
  <2> HIDE DEF e
  <2>2. QED
    BY <1>1, <2>1, WritesStay
<1>5. ASSUME NEW u \in Utts, Skip(u) PROVE FilesStay(db, db')
  <2>1. PICK w \in ChildrenOf(u) \cup {<<u, Whole>>} : Writes(<<SkipUtterance(db, u, w)>>)
    BY <1>5 DEF Skip
  <2> DEFINE e == IF w \in Parts /\ db.child[w] \in {"Playing", "Paused"}
                    THEN TransitionSegment(db, w, "Skipped") ELSE db
             f == Transition(e, u, "Skipped")
  <2>2. FilesStay(db, e) /\ e \in Database
    BY <1>1, SegmentStays, StaySelf DEF FilesStay
  <2>3. Writes(<<f>>)
    BY <2>1 DEF SkipUtterance
  <2> HIDE DEF e
  <2>4. FilesStay(db, f)
    BY <1>1, <2>2, TransitionStays, StayTrans
  <2> HIDE DEF f
  <2>5. QED
    BY <1>1, <2>3, <2>4, WritesStay
<1>6. ASSUME NEW u \in Utts, Suspend(u) PROVE FilesStay(db, db')
  <2> DEFINE e == ChildPaused(db, u)
             f == Transition(e, u, "Paused")
  <2>1. Writes(<<f>>) /\ FilesStay(db, e) /\ e \in Database
    BY <1>1, <1>6, PauseStays DEF Suspend, FilesStay
  <2> HIDE DEF e
  <2>2. FilesStay(db, f)
    BY <1>1, <2>1, TransitionStays, StayTrans
  <2> HIDE DEF f
  <2>3. QED
    BY <1>1, <2>1, <2>2, WritesStay
<1>7. ASSUME NEW u \in Utts, Resume(u) PROVE FilesStay(db, db')
  <2> DEFINE e == [db EXCEPT !.held = FALSE]
             f == Transition(e, u, "Playing")
             g(w) == TransitionSegment(f, w, "Playing")
             h(w) == TransitionSegment(e, w, "Playing")
  <2>1. \/ Writes(<<e, f>>)
        \/ \E w \in Parts : Writes(<<e, f, g(w)>>) \/ Writes(<<e, h(w), g(w)>>)
    BY <1>7, UnitShape DEF Resume, Unfinished
  <2>2. FilesStay(db, e) /\ e \in Database
    BY <1>1, HoldStays DEF FilesStay
  <2> HIDE DEF e
  <2>3. FilesStay(db, f) /\ f \in Database
    BY <1>1, <2>2, TransitionStays, StayTrans DEF FilesStay
  <2> HIDE DEF f
  <2>4. \A w \in Parts : FilesStay(db, g(w)) /\ FilesStay(db, h(w))
    BY <1>1, <2>2, <2>3, SegmentStays, StayTrans
  <2> HIDE DEF g, h
  <2>5. QED
    BY <1>1, <2>1, <2>2, <2>3, <2>4, WritesStay
<1>8. CASE Hold
  <2> DEFINE e == [db EXCEPT !.held = TRUE]
             f(u) == ChildPaused(e, u)
             g(u) == Transition(e, u, "Paused")
             h(u) == Transition(f(u), u, "Paused")
  <2>1. \/ Writes(<<e>>)
        \/ \E u \in Utts : Writes(<<e, g(u)>>) \/ Writes(<<e, f(u), h(u)>>)
    BY <1>8 DEF Hold
  <2>2. FilesStay(db, e) /\ e \in Database
    BY <1>1, HoldStays DEF FilesStay
  <2> HIDE DEF e
  <2>3. \A u \in Utts : FilesStay(db, f(u)) /\ f(u) \in Database
    BY <2>2, PauseStays, StayTrans DEF FilesStay
  <2> HIDE DEF f
  <2>4. \A u \in Utts : FilesStay(db, g(u)) /\ FilesStay(db, h(u))
    BY <1>1, <2>2, <2>3, TransitionStays, StayTrans
  <2> HIDE DEF g, h
  <2>5. QED
    BY <1>1, <2>1, <2>2, <2>3, <2>4, WritesStay
<1>9. CASE ReleaseHold
  <2> DEFINE e == [db EXCEPT !.held = FALSE]
  <2>1. Writes(<<e>>) /\ FilesStay(db, e)
    BY <1>1, <1>9, HoldStays DEF ReleaseHold
  <2> HIDE DEF e
  <2>2. QED
    BY <1>1, <2>1, WritesStay
<1>10. QED
  BY <1>2, <1>3, <1>4, <1>5, <1>6, <1>7, <1>8, <1>9 DEF Playback

(* Submitting, cancelling, clearing and reordering touch no file.          *)
LEMMA QueueFiles ==
  ASSUME IInv, db' \in Database,
         \/ \E u \in Utts : Submit(u) \/ Cancel(u)
         \/ \E states \in {InputStates, {"Ready"}, PendingStates} : Clear(states)
         \/ Reorder
         \/ FinishWarmup
  PROVE  FilesStay(db, db')
<1>1. db \in Database /\ "Cancelled" \in State \ Unmade /\ Absent \in Unmade
  BY StateFacts DEF IInv, TypeOK, Unmade
<1>2. ASSUME NEW u \in Utts, Submit(u) PROVE FilesStay(db, db')
  <2>1. /\ db'.audio = db.audio /\ db'.jobs = db.jobs
        /\ \A v \in Utts \ {u} : db'.state[v] = db.state[v]
        /\ \A p \in Parts : p[1] # u => db'.child[p] = db.child[p]
    <3>1. PICK k : db' = SubmitRow(db, u, k)
      BY <1>2 DEF Submit
    <3> DEFINE e == SubmitRow(db, u, k)
    <3>2. /\ e.audio = db.audio /\ e.jobs = db.jobs
          /\ e.state = [db.state EXCEPT ![u] = "Queued"]
          /\ e.child = [p \in Parts |-> IF p[1] = u THEN "Queued" ELSE db.child[p]]
      BY <1>1, SMTT(60) DEF SubmitRow, Database
    <3> HIDE DEF e
    <3>3. QED
      BY <1>1, <3>1, <3>2 DEF Database, e
  <2>2. db.state[u] \in Unmade /\ \A p \in ChildrenOf(u) : db.child[p] \in Unmade
    BY <1>1, <1>2, UnitShape DEF Submit, IInv, DbInv, RowsTogether
  <2>3. \A p \in Parts : p[1] = u => p \in ChildrenOf(u)
    BY UnitShape
  <2>4. QED
    BY <2>1, <2>2, <2>3, RowsStay
<1>3. ASSUME NEW u \in Utts, Cancel(u) PROVE FilesStay(db, db')
  BY <1>1, <1>3, TransitionStays DEF Cancel
<1>4. ASSUME NEW states, Clear(states) PROVE FilesStay(db, db')
  <2>1. PICK rows \in SUBSET Utts : db' = CancelAll(db, rows)
    BY <1>4 DEF Clear
  <2>2. QED
    BY <1>1, <2>1, RowsStay DEF CancelAll, Database
<1>5. CASE Reorder
  <2>1. /\ db'.audio = db.audio /\ db'.jobs = db.jobs
        /\ db'.state = db.state /\ db'.child = db.child
    BY <1>1, <1>5 DEF Reorder, Reordered, Database
  <2>2. QED
    BY <2>1, RowsStay
<1>6. CASE FinishWarmup
  BY <1>1, <1>6, StaySelf DEF FinishWarmup
<1>7. QED
  BY <1>2, <1>3, <1>4, <1>5, <1>6

(* Recovery gives up the audio of interrupted streams, and no other.       *)
LEMMA RecoveryFiles ==
  ASSUME IInv, db' \in Database, FilesAreMade(db), Recovery
  PROVE  FilesStay(db, db')
<1>1. db \in Database /\ DbInv(db)
  BY DEF IInv, TypeOK
<1>2. CASE Restart \/ ChildrenDone \/ ParentsDone
  BY <1>1, <1>2, StaySelf DEF Restart, ChildrenDone, ParentsDone
<1>3. CASE RecoverJobs
  <2> DEFINE lost == Interrupted(db)
  <2>1. \A w \in lost : w[1] \in Streamed
    BY DEF Interrupted, FilesAreMade
  <2>2. db' = RecoverStreams(db)
    BY <1>3 DEF RecoverJobs
  <2>3. /\ db'.jobs = {}
        /\ db'.audio = db.audio \ {w \in lost : w[2] = Whole \/ db.child[w] \notin Terminal}
        /\ \A p \in Parts : p \notin lost => db'.child[p] = db.child[p]
        /\ \A u \in Utts : (\A w \in lost : w[1] # u) => db'.state[u] = db.state[u]
    <3> DEFINE of(v) == {w \in lost : w[1] = v}
    <3>1. /\ db'.jobs = {}
          /\ db'.audio = db.audio \ {w \in lost : w[2] = Whole \/ db.child[w] \notin Terminal}
          /\ db'.child = [p \in Parts |-> IF p \in lost /\ db.child[p] \notin Terminal
                                            THEN "Queued" ELSE db.child[p]]
          /\ db'.state = [v \in Utts |->
                            IF <<v, Whole>> \in lost THEN "Queued"
                            ELSE IF of(v) # {} /\ db.state[v] = "Playing" THEN "Paused"
                            ELSE db.state[v]]
      BY <1>1, <2>2, ZenonT(60) DEF RecoverStreams, Database
    <3>2. \A u \in Utts : (\A w \in lost : w[1] # u) => of(u) = {} /\ <<u, Whole>> \notin lost
      OBVIOUS
    <3> HIDE DEF lost, of
    <3>3. QED
      BY <3>1, <3>2
  <2>4. \A w \in Units : w[1] \notin Streamed => UnitState(db', w) = UnitState(db, w)
    BY <2>1, <2>3, UnitShape DEF UnitState
  <2> HIDE DEF lost
  <2>5. QED
    BY <2>1, <2>3, <2>4 DEF FilesStay
<1>4. ASSUME NEW p \in Parts, RecoverChild(p) PROVE FilesStay(db, db')
  BY <1>1, <1>4, SegmentStays, StateFacts DEF RecoverChild, Unrested, Rested, Unmade
<1>5. ASSUME NEW u \in Utts, RecoverParent(u) PROVE FilesStay(db, db')
  BY <1>1, <1>5, TransitionStays, StateFacts DEF RecoverParent, Unrested, Rested, Unmade
<1>6. ASSUME NEW u \in Utts, Reconcile(u) PROVE FilesStay(db, db')
  <2> DEFINE c == ReconcileCommits(db, u)
             to == ReconciledState(db, u)
             woken == Transition(db, u, "Synthesizing")
             e == Transition(woken, u, to)
             f == Transition(db, u, to)
  <2>1. Writes(c) /\ IsLive(db, u) /\ to # db.state[u]
        /\ \/ db.state[u] = "Queued" /\ c = <<woken, e>>
           \/ c = <<f>>
    BY <1>6 DEF Reconcile, ReconcileCommits
  <2>2. to \in State \ Unmade
    BY <2>1, StateFacts DEF ReconciledState
  <2> HIDE DEF to
  <2>3. FilesStay(db, f)
    BY <1>1, <2>2, TransitionStays
  <2>4. db.state[u] = "Queued" => FilesStay(db, woken) /\ woken \in Database
    BY <1>1, TransitionStays, StateFacts DEF FilesStay, Unmade
  <2> HIDE DEF woken
  <2>5. db.state[u] = "Queued" => FilesStay(db, e)
    BY <2>2, <2>4, TransitionStays, StayTrans
  <2> HIDE DEF c, e, f
  <2>6. QED
    BY <1>1, <2>1, <2>3, <2>4, <2>5, WritesStay
<1>7. CASE ComeUp
  <2>1. PICK h \in BOOLEAN : db' = [db EXCEPT !.held = h]
    BY <1>1, <1>7 DEF ComeUp, Database
  <2>2. QED
    BY <1>1, <2>1, HoldStays
<1>8. QED
  BY <1>2, <1>3, <1>4, <1>5, <1>6, <1>7 DEF Recovery

-----------------------------------------------------------------------------
(* What a worker commits.                                                  *)
LEMMA ClaimFiles ==
  ASSUME NEW d \in Database, NEW held, NEW w \in Units, IsEarliest(d, held, w)
  PROVE  FilesStay(d, Claim(d, w))
<1> DEFINE u == w[1]
           e == IF w[2] = Whole THEN d ELSE TransitionSegment(d, w, "Synthesizing")
<1>1. u \in Utts /\ "Queued" \in Unmade /\ "Synthesizing" \in State
  BY UnitShape, StateFacts
<1>2. FilesStay(d, e) /\ e \in Database
  BY <1>1, UnitShape, SegmentStays, StaySelf DEF IsEarliest, Claimable, FilesStay
<1>3. e.state = d.state
  BY DEF TransitionSegment, Database
<1>4. Claim(d, w) = IF d.state[u] = "Queued" THEN Transition(e, u, "Synthesizing") ELSE e
  BY DEF Claim
<1> HIDE DEF e
<1>5. QED
  BY <1>1, <1>2, <1>3, <1>4, TransitionStays, StayTrans

LEMMA StreamFiles ==
  ASSUME NEW d \in Database, NEW w \in Units, w[1] \in Streamed
  PROVE  FilesStay(d, StartStreaming(d, w))
<1> DEFINE u == w[1]
           e == [d EXCEPT !.jobs = @ \cup {w}]
           f == IF w[2] = Whole THEN e ELSE TransitionSegment(e, w, "Ready")
<1>1. u \in Utts /\ "Ready" \in State \ Unmade
  BY UnitShape, StateFacts
<1>2. /\ e \in Database /\ e.state = d.state /\ e.child = d.child /\ e.audio = d.audio
      /\ e.jobs = d.jobs \cup {w}
  BY DEF Database
<1>3. FilesStay(d, e)
  BY <1>2 DEF FilesStay, UnitState
<1>4. StartStreaming(d, w) \in {d, f, Transition(f, u, "Ready")}
  BY DEF StartStreaming
<1> HIDE DEF e
<1>5. FilesStay(d, f) /\ f \in Database
  BY <1>1, <1>2, <1>3, UnitShape, SegmentStays, StayTrans DEF FilesStay
<1> HIDE DEF f
<1>6. FilesStay(d, Transition(f, u, "Ready"))
  BY <1>1, <1>5, TransitionStays, StayTrans
<1>7. QED
  BY <1>3, <1>4, <1>5, <1>6, StaySelf

LEMMA PublishFiles ==
  ASSUME NEW d, DbInv(d), FilesAreMade(d), NEW w \in Units, Active(d, w),
         NEW i \in 1 .. Len(PublishCommits(d, w))
  PROVE  /\ FilesStay(d, PublishCommits(d, w)[i])
         /\ PublishCommits(d, w)[i].audio = d.audio \cup {w}
<1> DEFINE c == PublishCommits(d, w)
           e == [d EXCEPT !.audio = @ \cup {w}]
           f == TransitionSegment(e, w, "Ready")
<1>1. Advances(d, c[i]) /\ UnitState(c[i], w) # "Synthesizing"
  BY PublishInv
<1>2. c[i].audio = d.audio \cup {w}
  <2>1. e \in Database /\ e.audio = d.audio \cup {w}
    BY DEF DbInv, Database
  <2> HIDE DEF e
  <2>2. /\ f.audio = e.audio /\ DiscardJob(e, w).audio = e.audio
        /\ Transition(e, w[1], "Ready").audio = e.audio
        /\ Transition(f, w[1], "Ready").audio = e.audio
    BY <2>1 DEF TransitionSegment, Transition, DiscardJob, Database
  <2>3. \/ c = <<DiscardJob(e, w)>> \/ c = <<Transition(e, w[1], "Ready")>>
        \/ c = <<f, Transition(f, w[1], "Ready")>> \/ c = <<f>>
    BY DEF PublishCommits, e
  <2> HIDE DEF c, f
  <2>4. QED
    BY <2>1, <2>2, <2>3 DEF c
<1>3. w[1] \in Streamed \/ UnitState(c[i], w) \notin Unmade
  <2>1. CASE w \in d.jobs
    BY <2>1 DEF FilesAreMade
  <2>2. CASE w \notin d.jobs
    BY <1>1, <2>2 DEF Active, Advances, Onward
  <2>3. QED
    BY <2>1, <2>2
<1> HIDE DEF c
<1>4. FilesStay(d, c[i])
  BY <1>1, <1>2, <1>3, OnwardStays
<1>5. QED
  BY <1>2, <1>4 DEF c

LEMMA DiscardStays ==
  ASSUME NEW d \in Database, NEW w
  PROVE  FilesStay(d, DiscardJob(d, w))
<1> DEFINE e == DiscardJob(d, w)
<1>1. /\ e \in Database /\ e.state = d.state /\ e.child = d.child /\ e.audio = d.audio
      /\ e.jobs = d.jobs \ {w}
  BY DEF DiscardJob, Database
<1> HIDE DEF e
<1>2. QED
  BY <1>1 DEF FilesStay, UnitState, e

LEMMA FailFiles ==
  ASSUME NEW d \in Database, NEW w \in Units, NEW i \in 1 .. Len(FailCommits(d, w))
  PROVE  FilesStay(d, FailCommits(d, w)[i])
<1> DEFINE u == w[1]
           g == FailedChild(d, w)
           c == FailCommits(d, w)
<1>1. u \in Utts /\ {"Failed", "Cancelled"} \subseteq State \ Unmade
  BY UnitShape, StateFacts
<1>2. CASE w[2] = Whole
  <2>1. c = <<Transition(d, u, "Failed")>>
    BY <1>2 DEF FailCommits
  <2>2. FilesStay(d, Transition(d, u, "Failed"))
    BY <1>1, TransitionStays
  <2>3. QED
    BY <2>1, <2>2
<1>3. CASE w[2] # Whole
  <2>1. w \in Parts
    BY <1>3, UnitShape
  <2> DEFINE failing == {"Synthesizing"} \cup (IF w \in d.jobs THEN PlaybackStates ELSE {})
             e == IF d.child[w] \in failing THEN TransitionSegment(d, w, "Failed") ELSE d
             k == [p \in Parts |-> IF p[1] = w[1] /\ e.child[p] \in {"Queued", "Synthesizing", "Ready"}
                                     THEN "Cancelled" ELSE e.child[p]]
  <2>2. FilesStay(d, e) /\ e \in Database
    BY <1>1, <2>1, SegmentStays, StaySelf DEF FilesStay
  <2>3. g = [e EXCEPT !.child = k]
    BY DEF FailedChild
  <2> HIDE DEF e
  <2>4. \A p \in Parts : k[p] \in Unmade => e.child[p] \in Unmade
    BY <1>1
  <2>5. k \in [Parts -> State \cup {Absent}]
    BY <1>1, <2>2 DEF Database
  <2> HIDE DEF g, k
  <2>10. /\ g \in Database /\ g.state = e.state /\ g.child = k
         /\ g.audio = e.audio /\ g.jobs = e.jobs
    BY <2>2, <2>3, <2>5 DEF Database
  <2>6. FilesStay(d, g)
    BY <2>2, <2>4, <2>10, RowsStay, StayTrans
  <2>7. FilesStay(d, Transition(g, u, "Failed"))
    BY <1>1, <2>6, <2>10, TransitionStays, StayTrans
  <2>8. c = <<g, Transition(g, u, "Failed")>> \/ c = <<g>>
    BY <1>3 DEF FailCommits, g
  <2> HIDE DEF c
  <2>9. QED
    BY <2>6, <2>7, <2>8 DEF c
<1>4. QED
  BY <1>2, <1>3

LEMMA ThenDiscardFiles ==
  ASSUME NEW d \in Database, NEW w, NEW c,
         \/ c = <<>>
         \/ \E e : c = <<e>>
         \/ \E e, f : c = <<e, f>>,
         \A i \in 1 .. Len(c) : FilesStay(d, c[i])
  PROVE  LET t == ThenDiscard(d, c, w)
         IN  /\ Len(t) \in Nat /\ (t # <<>> => Len(t) > 0)
             /\ \A i \in 1 .. Len(t) : FilesStay(d, t[i])
             /\ FilesStay(d, LastOf(d, t))
<1> DEFINE l == LastOf(d, c)
           g == DiscardJob(l, w)
           t == ThenDiscard(d, c, w)
<1>1. FilesStay(d, l) /\ l \in Database
  BY StaySelf DEF LastOf, FilesStay
<1>2. FilesStay(d, g)
  BY <1>1, DiscardStays, StayTrans
<1>3. t = c \/ t = Append(c, g)
  BY DEF ThenDiscard
<1>4. CASE t = c
  BY <1>1, <1>4
<1>5. CASE t = Append(c, g)
  <2> HIDE DEF g, l
  <2>1. Len(t) = Len(c) + 1 /\ t[Len(t)] = g /\ (\A i \in 1 .. Len(c) : t[i] = c[i]) /\ t # <<>>
    <3>1. CASE c = <<>>
      BY <1>5, <3>1
    <3>2. CASE \E e : c = <<e>>
      BY <1>5, <3>2
    <3>3. CASE \E e, f : c = <<e, f>>
      BY <1>5, <3>3
    <3>4. QED
      BY <3>1, <3>2, <3>3
  <2>2. Len(c) \in Nat
    OBVIOUS
  <2>3. LastOf(d, t) = g
    BY <2>1 DEF LastOf
  <2> HIDE DEF t
  <2>4. \A i \in 1 .. Len(t) : FilesStay(d, t[i])
    BY <1>2, <2>1, <2>2
  <2>5. QED
    BY <1>2, <2>1, <2>2, <2>3, <2>4 DEF t
<1>6. QED
  BY <1>3, <1>4, <1>5

LEMMA FailureFiles ==
  ASSUME NEW d, DbInv(d), NEW w \in Units
  PROVE  LET t == FailureCommits(d, w)
         IN  /\ Len(t) \in Nat /\ (t # <<>> => Len(t) > 0)
             /\ \A i \in 1 .. Len(t) : FilesStay(d, t[i])
             /\ FilesStay(d, LastOf(d, t))
<1> DEFINE c == IF Active(d, w) THEN FailCommits(d, w) ELSE <<>>
<1>1. d \in Database
  BY DEF DbInv
<1>2. c = <<>> \/ (\E e : c = <<e>>) \/ (\E e, f : c = <<e, f>>)
  BY FailInv
<1>3. \A i \in 1 .. Len(c) : FilesStay(d, c[i])
  BY <1>1, FailFiles
<1>4. FailureCommits(d, w) = ThenDiscard(d, c, w)
  BY DEF FailureCommits
<1> HIDE DEF c
<1>5. QED
  BY <1>1, <1>2, <1>3, <1>4, ThenDiscardFiles

LEMMA SuccessFiles ==
  ASSUME NEW d, DbInv(d), FilesAreMade(d), NEW w \in Units
  PROVE  LET t == SuccessCommits(d, w)
         IN  /\ Len(t) \in Nat /\ (t # <<>> => Len(t) > 0)
             /\ \A i \in 1 .. Len(t) : FilesStay(d, t[i])
<1> DEFINE c == IF Active(d, w) THEN PublishCommits(d, w) ELSE <<>>
<1>1. d \in Database
  BY DEF DbInv
<1>2. c = <<>> \/ (\E e : c = <<e>>) \/ (\E e, f : c = <<e, f>>)
  BY PublishInv
<1>3. \A i \in 1 .. Len(c) : FilesStay(d, c[i])
  BY PublishFiles
<1>4. SuccessCommits(d, w) = ThenDiscard(d, c, w)
  BY DEF SuccessCommits
<1> HIDE DEF c
<1>5. QED
  BY <1>1, <1>2, <1>3, <1>4, ThenDiscardFiles

(* A refusal costs a file only when the publication has more than one      *)
(* commit to make: a chunk that was not streamed, its document's first or  *)
(* the one that completes it.                                              *)
LEMMA RefusedLoss ==
  ASSUME IInv, FilesAreMade(db), NEW k \in Workers, PublishRefused(k)
  PROVE  LET w == job[k].unit
         IN  \/ FilesStay(db, db') /\ missing' = missing
             \/ /\ FilesStay(db, db') /\ missing' = missing \cup {w}
                /\ CommitFaults /\ w \in Parts /\ w[1] \notin Streamed
                /\ w \in db'.audio \ db.audio
                /\ w[2] # 0 => ChildrenOf(w[1]) \subseteq db.audio \cup {w}
<1> DEFINE w == job[k].unit
           c == PublishCommits(db, w)
           measures == /\ w[2] # Whole /\ w \notin db.jobs
                       /\ ChildrenOf(w[1]) \subseteq db.audio \cup {w}
<1>1. Busy(k) /\ Rendered(k) /\ Active(db, w) /\ w \in Units /\ DbInv(db) /\ db \in Database
  BY JobFacts DEF PublishRefused, Rendered, IInv, TypeOK
<1>2. PICK i \in 0 .. IF measures THEN Len(c) ELSE Len(c) - 1 :
        LET kept == IF i = 0 THEN db ELSE c[i]
        IN  /\ db' = LastOf(kept, FailureCommits(kept, w))
            /\ missing' = IF i = 0 THEN missing ELSE missing \cup {w}
  BY DEF PublishRefused
<1> DEFINE kept == IF i = 0 THEN db ELSE c[i]
<1>3. Len(c) \in {1, 2} /\ (Len(c) = 2 => w[2] = 0 /\ w \notin db.jobs)
  BY DEF PublishCommits, Whole
<1>4. i # 0 => w \notin db.jobs /\ w \in Parts /\ (w[2] # 0 => measures)
  BY <1>1, <1>2, <1>3, UnitShape DEF PublishCommits
<1>5. i # 0 => i \in 1 .. Len(c)
  BY <1>2, <1>3
<1>6. i # 0 => w[1] \notin Streamed
  BY <1>1, <1>4 DEF Rendered, IInv, StreamsAreMade, Active
<1>7. i # 0 => w \notin db.audio
  <2>1. i # 0 => UnitState(db, w) = "Synthesizing"
    BY <1>1, <1>4 DEF Active
  <2>2. QED
    BY <1>6, <2>1, StateFacts DEF FilesAreMade
<1>8. DbInv(kept) /\ FilesStay(db, kept) /\ (i # 0 => w \in kept.audio)
  <2>1. ASSUME i # 0 PROVE DbInv(c[i]) /\ FilesStay(db, c[i]) /\ w \in c[i].audio
    BY <1>1, <1>5, <2>1, PublishInv, PublishFiles DEF Advances
  <2>2. QED
    BY <1>1, <2>1, StaySelf
<1>9. db' = LastOf(kept, FailureCommits(kept, w))
      /\ missing' = IF i = 0 THEN missing ELSE missing \cup {w}
  BY <1>2
<1> HIDE DEF kept, c
<1>10. FilesStay(kept, db')
  BY <1>1, <1>8, <1>9, FailureFiles
<1>11. FilesStay(db, db')
  BY <1>8, <1>10, StayTrans
<1>12. i # 0 => w \in db'.audio
  BY <1>6, <1>8, <1>10 DEF FilesStay
<1>13. i # 0 /\ w[2] # 0 => ChildrenOf(w[1]) \subseteq db.audio \cup {w}
  BY <1>4
<1>14. CommitFaults
  BY DEF PublishRefused
<1> HIDE DEF w
<1>15. QED
  BY <1>4, <1>6, <1>7, <1>9, <1>11, <1>12, <1>13, <1>14 DEF w

LEMMA PoolFiles ==
  ASSUME IInv, FilesAreMade(db), OnlyStreamsAreAnnounced, NEW k \in Workers, Pool(k)
  PROVE  FilesStay(db, db')
<1>1. db \in Database /\ DbInv(db) /\ (Busy(k) => job[k].unit \in Units)
  BY JobFacts DEF IInv, TypeOK
<1>2. CASE TakeJob(k)
  BY <1>1, <1>2, ClaimFiles DEF TakeJob
<1>3. CASE FirstBuffer(k)
  BY <1>1, <1>3, StaySelf DEF FirstBuffer
<1>4. CASE StreamReady(k)
  <2>1. job[k].unit[1] \in Streamed
    BY <1>4 DEF StreamReady, OnlyStreamsAreAnnounced
  <2>2. QED
    BY <1>1, <1>4, <2>1, StreamFiles DEF StreamReady
<1>5. CASE Publish(k)
  <2> DEFINE t == SuccessCommits(db, job[k].unit)
  <2>1. db' = LastOf(db, t) \/ DiesAmid(t)
    BY <1>5 DEF Publish, Complete
  <2>2. /\ Len(t) \in Nat /\ (t # <<>> => Len(t) > 0)
        /\ \A i \in 1 .. Len(t) : FilesStay(db, t[i])
    BY <1>1, <1>5, SuccessFiles DEF Publish, Rendered
  <2> HIDE DEF t
  <2>3. QED
    BY <1>1, <2>1, <2>2, CommitsStay
<1>6. CASE Fail(k)
  <2> DEFINE t == FailureCommits(db, job[k].unit)
  <2>1. db' = LastOf(db, t) \/ DiesAmid(t)
    BY <1>6 DEF Fail, Complete
  <2>2. /\ Len(t) \in Nat /\ (t # <<>> => Len(t) > 0)
        /\ \A i \in 1 .. Len(t) : FilesStay(db, t[i])
    BY <1>1, <1>6, FailureFiles DEF Fail, RenderFailed
  <2> HIDE DEF t
  <2>3. QED
    BY <1>1, <2>1, <2>2, CommitsStay
<1>7. CASE PublishRefused(k)
  BY <1>7, RefusedLoss
<1>8. QED
  BY <1>2, <1>3, <1>4, <1>5, <1>6, <1>7 DEF Pool

(* No other step takes a file.                                             *)
LEMMA OthersKeepFiles ==
  ASSUME [Next]_vars, \A k \in Workers : ~PublishRefused(k)
  PROVE  missing' = missing
<1>1. ASSUME NEW k \in Workers, Pool(k) PROVE missing' = missing
  BY <1>1 DEF Pool, TakeJob, FirstBuffer, StreamReady, Publish, Fail, Complete, DiesAmid
<1>2. ASSUME NEW states, Clear(states) PROVE missing' = missing
  BY <1>2 DEF Clear
<1>3. ASSUME NEW u \in Utts, Submit(u) \/ Cancel(u) PROVE missing' = missing
  BY <1>3 DEF Submit, Cancel
<1>4. ASSUME NEW c, Writes(c) PROVE missing' = missing
  BY <1>4 DEF Writes, DiesAmid
<1>5. CASE Playback
  <2>1. ASSUME NEW w \in Units, Begin(w) PROVE missing' = missing
    BY <1>4, <2>1 DEF Begin
  <2>2. ASSUME NEW w \in Units, EndOfClip(w) PROVE missing' = missing
    BY <1>4, <2>2 DEF EndOfClip
  <2>3. ASSUME NEW w \in Units, DeviceError(w) PROVE missing' = missing
    BY <1>4, <2>3 DEF DeviceError
  <2>4. ASSUME NEW p \in Parts, NextSegment(p) PROVE missing' = missing
    BY <1>4, <2>4 DEF NextSegment
  <2>5. ASSUME NEW u \in Utts, Skip(u) \/ Suspend(u) PROVE missing' = missing
    BY <1>4, <2>5 DEF Skip, Suspend
  <2>6. ASSUME NEW u \in Utts, Resume(u) PROVE missing' = missing
    BY <1>4, <2>6 DEF Resume
  <2>7. ASSUME Hold \/ ReleaseHold PROVE missing' = missing
    BY <1>4, <2>7 DEF Hold, ReleaseHold
  <2>8. QED
    BY <1>5, <2>1, <2>2, <2>3, <2>4, <2>5, <2>6, <2>7 DEF Playback
<1>6. CASE Recovery
  BY <1>4, <1>6 DEF Recovery, Restart, RecoverJobs, ChildrenDone, ParentsDone, ComeUp,
                    RecoverChild, RecoverParent, Reconcile
<1>7. QED
  BY <1>1, <1>2, <1>3, <1>5, <1>6 DEF Next, Reorder, FinishWarmup, Crash, vars

LEMMA NextFiles ==
  ASSUME IInv, FilesAreMade(db), OnlyStreamsAreAnnounced, [Next]_vars
  PROVE  FilesStay(db, db')
<1>1. db \in Database
  BY DEF IInv, TypeOK
<1>2. db' \in Database
  BY NextInv DEF IInv, TypeOK
<1>3. CASE Crash \/ UNCHANGED vars
  BY <1>1, <1>3, StaySelf DEF Crash, vars
<1>4. CASE Next /\ ~Crash
  BY <1>2, <1>4, QueueFiles, PoolFiles, PlaybackFiles, RecoveryFiles DEF Next
<1>5. QED
  BY <1>3, <1>4

LEMMA OnlyStreamsStay ==
  ASSUME IInv, OnlyStreamsAreAnnounced, [Next]_vars
  PROVE  OnlyStreamsAreAnnounced'
<1>1. job \in [Workers -> Jobs \cup {Idle}]
  BY DEF IInv, TypeOK
<1>2. CASE UNCHANGED job
  BY <1>2 DEF OnlyStreamsAreAnnounced, Busy
<1>3. CASE job' = [k \in Workers |-> Idle]
  BY <1>3 DEF OnlyStreamsAreAnnounced, Busy
<1>4. ASSUME NEW k \in Workers, job' = [job EXCEPT ![k] = Idle]
      PROVE  OnlyStreamsAreAnnounced'
  BY <1>1, <1>4 DEF OnlyStreamsAreAnnounced, Busy
<1>5. ASSUME NEW k \in Workers, TakeJob(k) PROVE OnlyStreamsAreAnnounced'
  BY <1>1, <1>5 DEF TakeJob, OnlyStreamsAreAnnounced, Busy
<1>6. ASSUME NEW k \in Workers, FirstBuffer(k) \/ StreamReady(k) PROVE OnlyStreamsAreAnnounced'
  <2>1. job[k] \in Jobs /\ job[k].unit[1] \in Streamed
    BY <1>1, <1>6, JobFacts DEF FirstBuffer, StreamReady, OnlyStreamsAreAnnounced
  <2>2. PICK s \in Stage : job' = [job EXCEPT ![k].stage = s]
    BY <1>6 DEF FirstBuffer, StreamReady, Stage
  <2>3. job'[k].unit = job[k].unit /\ \A j \in Workers \ {k} : job'[j] = job[j]
    BY <1>1, <2>1, <2>2 DEF Jobs
  <2>4. QED
    BY <2>1, <2>3 DEF OnlyStreamsAreAnnounced, Busy
<1>7. ASSUME NEW c, Writes(c) PROVE OnlyStreamsAreAnnounced'
  BY <1>2, <1>3, <1>7 DEF Writes, DiesAmid, Down
<1>8. ASSUME NEW k \in Workers, Publish(k) \/ Fail(k) \/ PublishRefused(k)
      PROVE  OnlyStreamsAreAnnounced'
  BY <1>3, <1>4, <1>8 DEF Publish, Fail, Complete, PublishRefused, DiesAmid, Down
<1>9. CASE Playback
  <2>1. Hold \/ ReleaseHold => \E c : Writes(c)
    BY DEF Hold, ReleaseHold
  <2>2. \A w \in Units : Begin(w) => \E c : Writes(c)
    BY DEF Begin
  <2>3. \A w \in Units : EndOfClip(w) \/ DeviceError(w) => \E c : Writes(c)
    BY DEF EndOfClip, DeviceError
  <2>4. \A u \in Utts : Skip(u) \/ Suspend(u) \/ Resume(u) => \E c : Writes(c)
    BY DEF Skip, Suspend, Resume
  <2>5. \A p \in Parts : NextSegment(p) => \E c : Writes(c)
    BY DEF NextSegment
  <2>6. QED
    BY <1>7, <1>9, <2>1, <2>2, <2>3, <2>4, <2>5 DEF Playback
<1>10. CASE Recovery
  BY <1>2, <1>7, <1>10 DEF Recovery, Restart, RecoverJobs, ChildrenDone, ParentsDone, ComeUp,
                            RecoverChild, RecoverParent, Reconcile
<1>11. ASSUME NEW states, Clear(states) PROVE OnlyStreamsAreAnnounced'
  BY <1>2, <1>3, <1>11 DEF Clear, Down
<1>12. ASSUME NEW u \in Utts, Submit(u) \/ Cancel(u) PROVE OnlyStreamsAreAnnounced'
  BY <1>2, <1>12 DEF Submit, Cancel
<1>13. CASE Reorder \/ FinishWarmup \/ Crash \/ UNCHANGED vars
  BY <1>2, <1>3, <1>13 DEF Reorder, FinishWarmup, Crash, Down, vars
<1>14. QED
  BY <1>5, <1>6, <1>8, <1>9, <1>10, <1>11, <1>12, <1>13 DEF Next, Pool

(* Whatever SQLite refuses and whatever crashes: only chunks of documents  *)
(* that were not streamed ever lose their file, and of one document at     *)
(* most its first chunk and the one that completed it.                     *)
THEOREM OnlyRefusedChunksAreLost == Spec => []LossesAreContained
<1> DEFINE J == FilesAreMade(db) /\ OnlyStreamsAreAnnounced /\ LossesAreContained
<1>1. Init => J
  BY DEF Init, EmptyDatabase, FilesAreMade, OnlyStreamsAreAnnounced, Busy, LossesAreContained
<1>2. IInv /\ J /\ [Next]_vars => J'
  <2> SUFFICES ASSUME IInv, J, [Next]_vars PROVE J'
    OBVIOUS
  <2>1. FilesStay(db, db') /\ FilesAreMade(db)' /\ OnlyStreamsAreAnnounced'
    BY NextFiles, StayMade, OnlyStreamsStay DEF FilesAreMade
  <2>2. \A v \in Units : v[1] \notin Streamed /\ v \in db.audio => v \in db'.audio
    BY <2>1 DEF FilesStay
  <2>3. \A v \in missing : v \in Parts /\ v[1] \notin Streamed /\ ChildrenOf(v[1]) \subseteq Parts
                           /\ \A p \in ChildrenOf(v[1]) : p[1] = v[1]
    BY UnitShape DEF LossesAreContained
  <2>4. \A v \in missing : /\ CommitFaults /\ v \in Parts \cap db'.audio /\ v[1] \notin Streamed
                           /\ v[2] # 0 => ChildrenOf(v[1]) \subseteq db'.audio
    BY <2>2, <2>3, UnitShape DEF LossesAreContained
  <2>5. missing' = missing => LossesAreContained'
    BY <2>4 DEF LossesAreContained
  <2>6. ASSUME NEW k \in Workers, PublishRefused(k), missing' # missing
        PROVE  LossesAreContained'
    <3> DEFINE w == job[k].unit
    <3>1. /\ missing' = missing \cup {w}
          /\ CommitFaults /\ w \in Parts /\ w[1] \notin Streamed
          /\ w \in db'.audio \ db.audio
          /\ w[2] # 0 => ChildrenOf(w[1]) \subseteq db.audio \cup {w}
      BY <2>6, RefusedLoss
    <3> HIDE DEF w
    <3>2. w[2] # 0 => ChildrenOf(w[1]) \subseteq db'.audio
      BY <2>2, <3>1, UnitShape
    <3>3. \A v \in missing : v[1] = w[1] => v[2] = 0
      BY <3>1, UnitShape DEF LossesAreContained
    <3>4. QED
      BY <2>4, <3>1, <3>2, <3>3 DEF LossesAreContained
  <2>7. LossesAreContained'
    BY <2>5, <2>6, OthersKeepFiles
  <2>8. QED
    BY <2>1, <2>7
<1>3. QED
  BY <1>1, <1>2, InductiveInvariant, PTL DEF Spec

-----------------------------------------------------------------------------
(* Whatever crashes and recoveries came before, everything still owed can  *)
(* reach the listener.                                                     *)
THEOREM NothingIsStranded == Spec => []NothingStranded
<1>1. IInv => NothingStranded
  <2> SUFFICES ASSUME IInv, phase = "up", NEW w \in Units, IsLive(db, w[1]),
                      UnitState(db, w) \notin Terminal
               PROVE  \/ UnitState(db, w) = "Queued"
                      \/ UnitState(db, w) = "Synthesizing" /\ \E k \in Workers : Produces(k, w)
                      \/ /\ UnitState(db, w) \in PlaybackStates
                         /\ \/ w \in db.audio
                            \/ w \in db.jobs /\ \E k \in Workers :
                                 Produces(k, w) /\ job[k].stage = "streaming"
    BY DEF NothingStranded
  <2>1. UnitState(db, w) \in State
    BY UnitShape, StateFacts DEF IInv, DbInv, Database, RowsTogether, UnitState, IsLive
  <2>2. UnitState(db, w) \in {"Queued", "Synthesizing"} \cup PlaybackStates
    BY <2>1, StateFacts DEF IInv, DbInv, NoneBare
  <2>3. CASE UnitState(db, w) = "Synthesizing"
    BY <2>3 DEF IInv, MakingHasWorkers
  <2>4. CASE UnitState(db, w) \in PlaybackStates
    BY <2>4 DEF IInv, DbInv, Audible, StreamsHaveWorkers
  <2>5. QED
    BY <2>2, <2>3, <2>4
<1>2. QED
  BY <1>1, InductiveInvariant, PTL

-----------------------------------------------------------------------------
(* Recovery as one step.  What a database recovers to is determined, row   *)
(* by row, by what each row comes to rest at, by which rows are settled    *)
(* and which children failed, by the audio that survives and by whether    *)
(* playback is held.                                                       *)
Survives(d) == d.audio \ {w \in Interrupted(d) : UnitState(d, w) \notin Terminal}

HeldAnyway(d) ==
  d.held \/ \E w \in Interrupted(d) : In(d, w[1], {"Playing", "Paused"})

LEMMA RecoveredAlike ==
  ASSUME NEW d, NEW e,
         \A u \in Utts : ParentRecovered(e, u) = ParentRecovered(d, u),
         \A p \in Parts : ChildRecovered(e, p) = ChildRecovered(d, p),
         e.order = d.order, Survives(e) = Survives(d), HeldAnyway(e) <=> HeldAnyway(d)
  PROVE  Recovered(e) = Recovered(d)
<1> DEFINE after(x) == [u \in Utts |-> ParentRecovered(x, u)]
           below(x) == [p \in Parts |-> ChildRecovered(x, p)]
           held(x)  == HeldAnyway(x) \/ \E u \in Utts : after(x)[u] \in PlaybackStates
           stays(x) == \/ x.held
                       \/ \E w \in Interrupted(x) : In(x, w[1], {"Playing", "Paused"})
                       \/ \E u \in Utts : after(x)[u] \in PlaybackStates
           row(x, h) == [state |-> after(x), order |-> x.order, child |-> below(x),
                         audio |-> Survives(x), jobs |-> {}, held |-> h]
<1>1. after(e) = after(d) /\ below(e) = below(d)
  OBVIOUS
<1>2. Recovered(d) = row(d, stays(d)) /\ Recovered(e) = row(e, stays(e))
  BY DEF Recovered, Survives
<1>3. stays(d) <=> held(d)
  BY DEF HeldAnyway
<1>4. stays(e) <=> held(e)
  BY DEF HeldAnyway
<1> HIDE DEF after, below
<1>5. held(e) <=> held(d)
  BY <1>1
<1>6. stays(e) = stays(d)
  <2>1. stays(e) \in BOOLEAN /\ stays(d) \in BOOLEAN
    OBVIOUS
  <2>2. stays(e) <=> stays(d)
    BY <1>3, <1>4, <1>5
  <2> HIDE DEF stays
  <2>3. QED
    BY <2>1, <2>2
<1> HIDE DEF stays, held
<1>7. row(e, stays(e)) = row(d, stays(d))
  BY <1>1, <1>6
<1>8. QED
  BY <1>2, <1>7

LEMMA RowsAlike ==
  ASSUME NEW d, NEW e,
         \A u \in Utts : /\ ParentRested(e, u) = ParentRested(d, u)
                         /\ IsLive(e, u) <=> IsLive(d, u),
         \A p \in Parts : /\ ChildRested(e, p) = ChildRested(d, p)
                          /\ e.child[p] \in Terminal <=> d.child[p] \in Terminal
                          /\ e.child[p] = "Failed" <=> d.child[p] = "Failed",
         e.order = d.order, Survives(e) = Survives(d), HeldAnyway(e) <=> HeldAnyway(d)
  PROVE  Recovered(e) = Recovered(d)
<1>1. ASSUME NEW u \in Utts
      PROVE  /\ HasFailedChild(e, u) <=> HasFailedChild(d, u)
             /\ AllChildrenClosed(e, u) <=> AllChildrenClosed(d, u)
  BY UnitShape DEF HasFailedChild, AllChildrenClosed, Unfinished
<1>2. ASSUME NEW u \in Utts PROVE ParentRecovered(e, u) = ParentRecovered(d, u)
  <2>1. u \in Composite => ChildRested(e, <<u, 0>>) = ChildRested(d, <<u, 0>>)
    <3>1. u \in Composite => <<u, 0>> \in Parts
      BY StoreAssumption DEF Composite, Parts, ChildrenOf
    <3>2. QED
      BY <3>1
  <2>2. QED
    BY <1>1, <2>1 DEF ParentRecovered
<1>3. ASSUME NEW p \in Parts PROVE ChildRecovered(e, p) = ChildRecovered(d, p)
  BY <1>2, UnitShape DEF ChildRecovered
<1>4. QED
  BY <1>2, <1>3, RecoveredAlike

(* Once no stream is advertised, a row rests where its own state says.     *)
LEMMA NothingInterrupted ==
  ASSUME NEW d, d.jobs = {}
  PROVE  /\ Interrupted(d) = {} /\ Survives(d) = d.audio
         /\ HeldAnyway(d) <=> d.held
         /\ \A u : ParentRested(d, u) = Rested(d.state[u])
         /\ \A p : ChildRested(d, p) = Rested(d.child[p])
<1>1. Interrupted(d) = {}
  BY DEF Interrupted
<1>2. QED
  BY <1>1 DEF Survives, HeldAnyway, ParentRested, ChildRested

LEMMA RestedAgain ==
  /\ \A s : Rested(Rested(s)) = Rested(s)
  /\ \A s \in Unrested : Rested(s) \notin Terminal /\ s \notin Terminal
                         /\ Rested(s) \notin Unrested
  /\ \A s : s \notin Unrested => Rested(s) = s
  /\ \A s : Rested(s) = "Ready" <=> s = "Ready"
  /\ Unrested \cap {Absent} = {} /\ Rested("Synthesizing") = "Queued"
  /\ Rested("Queued") = "Queued" /\ Rested("Paused") = "Paused" /\ Rested("Playing") = "Paused"
BY StateFacts DEF Rested, Unrested

LEMMA JobsAreRecovered ==
  ASSUME NEW d, DbInv(d)
  PROVE  Recovered(RecoverStreams(d)) = Recovered(d)
<1> DEFINE lost == Interrupted(d)
           e == RecoverStreams(d)
           stopped == \E w \in lost : d.state[w[1]] \in {"Playing", "Paused"}
<1>1. /\ e.child = [p \in Parts |-> IF p \in lost /\ d.child[p] \notin Terminal
                                      THEN "Queued" ELSE d.child[p]]
      /\ e.state = [v \in Utts |->
                      IF <<v, Whole>> \in lost THEN "Queued"
                      ELSE IF {w \in lost : w[1] = v} # {} /\ d.state[v] = "Playing"
                        THEN "Paused" ELSE d.state[v]]
      /\ e.audio = d.audio \ {w \in lost : w[2] = Whole \/ d.child[w] \notin Terminal}
      /\ e.jobs = {} /\ e.order = d.order
  BY DEF RecoverStreams, DbInv, Database
<1>2. e.held <=> d.held \/ stopped
  BY DEF RecoverStreams, DbInv, Database
<1>3. \A w \in lost : w \in Units /\ IsLive(d, w[1])
  BY DEF Interrupted, DbInv, Database
<1>4. HeldAnyway(d) <=> d.held \/ stopped
  BY DEF HeldAnyway, In
<1> HIDE DEF e, stopped
<1>5. /\ Interrupted(e) = {} /\ Survives(e) = e.audio /\ (HeldAnyway(e) <=> e.held)
      /\ \A u : ParentRested(e, u) = Rested(e.state[u])
      /\ \A p : ChildRested(e, p) = Rested(e.child[p])
  BY <1>1, NothingInterrupted
<1>6. ASSUME NEW u \in Utts
      PROVE  /\ ParentRested(e, u) = ParentRested(d, u)
             /\ IsLive(e, u) <=> IsLive(d, u)
  <2>1. CASE <<u, Whole>> \in lost
    <3>1. e.state[u] = "Queued" /\ IsLive(d, u)
      BY <1>1, <1>3, <2>1
    <3>2. IsLive(e, u) /\ ParentRested(d, u) = "Queued"
      BY <2>1, <3>1, StateFacts DEF IsLive, ParentRested, State
    <3>3. QED
      BY <1>5, <3>1, <3>2, RestedAgain
  <2>2. CASE <<u, Whole>> \notin lost
    <3>1. e.state[u] = d.state[u] \/ (d.state[u] = "Playing" /\ e.state[u] = "Paused")
      BY <1>1, <2>2
    <3>2. ParentRested(d, u) = Rested(d.state[u])
      BY <2>2 DEF ParentRested
    <3>3. QED
      BY <1>5, <3>1, <3>2, RestedAgain, StateFacts DEF IsLive, Live, State
  <2>3. QED
    BY <2>1, <2>2
<1>7. ASSUME NEW p \in Parts
      PROVE  /\ ChildRested(e, p) = ChildRested(d, p)
             /\ e.child[p] \in Terminal <=> d.child[p] \in Terminal
             /\ e.child[p] = "Failed" <=> d.child[p] = "Failed"
  <2>1. CASE p \in lost /\ d.child[p] \notin Terminal
    <3>1. e.child[p] = "Queued" /\ ChildRested(d, p) = "Queued"
      BY <1>1, <2>1 DEF ChildRested
    <3>2. QED
      BY <1>5, <2>1, <3>1, RestedAgain, StateFacts
  <2>2. CASE ~(p \in lost /\ d.child[p] \notin Terminal)
    <3>1. e.child[p] = d.child[p] /\ ChildRested(d, p) = Rested(d.child[p])
      BY <1>1, <2>2 DEF ChildRested
    <3>2. QED
      BY <1>5, <3>1
  <2>3. QED
    BY <2>1, <2>2
<1>8. Survives(e) = Survives(d)
  <2>1. \A w \in lost : (w[2] = Whole \/ d.child[w] \notin Terminal) <=> UnitState(d, w) \notin Terminal
    BY <1>3, StateFacts DEF UnitState, IsLive
  <2> HIDE DEF lost
  <2>2. {w \in lost : w[2] = Whole \/ d.child[w] \notin Terminal}
          = {w \in lost : UnitState(d, w) \notin Terminal}
    BY <2>1
  <2>3. QED
    BY <1>1, <1>5, <2>2 DEF Survives, lost
<1>9. HeldAnyway(e) <=> HeldAnyway(d)
  BY <1>2, <1>4, <1>5
<1>10. QED
  BY <1>1, <1>6, <1>7, <1>8, <1>9, RowsAlike DEF e

LEMMA ChildIsRecovered ==
  ASSUME NEW d, DbInv(d), d.jobs = {}, NEW p \in Parts, d.child[p] \in Unrested
  PROVE  Recovered(TransitionSegment(d, p, Rested(d.child[p]))) = Recovered(d)
<1> DEFINE e == TransitionSegment(d, p, Rested(d.child[p]))
<1>1. /\ e.child = [d.child EXCEPT ![p] = Rested(d.child[p])]
      /\ e.state = d.state /\ e.audio = d.audio /\ e.jobs = {}
      /\ e.order = d.order /\ e.held = d.held
  BY DEF TransitionSegment, DbInv, Database
<1> HIDE DEF e
<1>2. ASSUME NEW q \in Parts
      PROVE  /\ ChildRested(e, q) = ChildRested(d, q)
             /\ e.child[q] \in Terminal <=> d.child[q] \in Terminal
             /\ e.child[q] = "Failed" <=> d.child[q] = "Failed"
  <2>1. e.child[q] = IF q = p THEN Rested(d.child[p]) ELSE d.child[q]
    BY <1>1 DEF DbInv, Database
  <2>2. ChildRested(e, q) = Rested(e.child[q]) /\ ChildRested(d, q) = Rested(d.child[q])
    BY <1>1, NothingInterrupted, ZenonT(40)
  <2>3. QED
    BY <2>1, <2>2, RestedAgain, StateFacts
<1>3. ASSUME NEW u \in Utts
      PROVE  /\ ParentRested(e, u) = ParentRested(d, u)
             /\ IsLive(e, u) <=> IsLive(d, u)
  BY <1>1, NothingInterrupted DEF IsLive
<1>4. Survives(e) = Survives(d) /\ (HeldAnyway(e) <=> HeldAnyway(d))
  BY <1>1, NothingInterrupted
<1>5. QED
  BY <1>1, <1>2, <1>3, <1>4, RowsAlike DEF e

LEMMA ParentIsRecovered ==
  ASSUME NEW d, DbInv(d), d.jobs = {}, NEW u \in Utts, d.state[u] \in Unrested
  PROVE  Recovered(Transition(d, u, Rested(d.state[u]))) = Recovered(d)
<1> DEFINE to == Rested(d.state[u])
           e == Transition(d, u, to)
<1>1. to \notin Terminal
  BY RestedAgain
<1>2. /\ e.state = [d.state EXCEPT ![u] = to]
      /\ e.child = d.child /\ e.audio = d.audio /\ e.jobs = {}
      /\ e.order = d.order /\ e.held = d.held
  <2> HIDE DEF to
  <2>1. QED
    BY <1>1 DEF Transition, DbInv, Database
<1> HIDE DEF e
<1>3. ASSUME NEW v \in Utts
      PROVE  /\ ParentRested(e, v) = ParentRested(d, v)
             /\ IsLive(e, v) <=> IsLive(d, v)
  <2>1. e.state[v] = IF v = u THEN to ELSE d.state[v]
    BY <1>2 DEF DbInv, Database
  <2>2. ParentRested(e, v) = Rested(e.state[v]) /\ ParentRested(d, v) = Rested(d.state[v])
    BY <1>2, NothingInterrupted, ZenonT(40)
  <2>3. IsLive(d, u) /\ to \in Live
    BY DEF IsLive, Rested, Unrested, Live, State, Terminal
  <2>4. QED
    BY <2>1, <2>2, <2>3, RestedAgain DEF IsLive
<1>4. ASSUME NEW q \in Parts
      PROVE  /\ ChildRested(e, q) = ChildRested(d, q)
             /\ e.child[q] \in Terminal <=> d.child[q] \in Terminal
             /\ e.child[q] = "Failed" <=> d.child[q] = "Failed"
  BY <1>2, NothingInterrupted
<1>5. Survives(e) = Survives(d) /\ (HeldAnyway(e) <=> HeldAnyway(d))
  BY <1>2, NothingInterrupted
<1>6. QED
  BY <1>2, <1>3, <1>4, <1>5, RowsAlike DEF e

LEMMA WokenIsRecovered ==
  ASSUME NEW d, DbInv(d), d.jobs = {}, NEW u \in Utts, d.state[u] = "Queued"
  PROVE  Recovered(Transition(d, u, "Synthesizing")) = Recovered(d)
<1> DEFINE e == Transition(d, u, "Synthesizing")
<1>1. /\ e.state = [d.state EXCEPT ![u] = "Synthesizing"]
      /\ e.child = d.child /\ e.audio = d.audio /\ e.jobs = {}
      /\ e.order = d.order /\ e.held = d.held
  BY StateFacts DEF Transition, DbInv, Database
<1> HIDE DEF e
<1>2. ASSUME NEW v \in Utts
      PROVE  /\ ParentRested(e, v) = ParentRested(d, v)
             /\ IsLive(e, v) <=> IsLive(d, v)
  <2>1. e.state[v] = IF v = u THEN "Synthesizing" ELSE d.state[v]
    BY <1>1 DEF DbInv, Database
  <2>2. ParentRested(e, v) = Rested(e.state[v]) /\ ParentRested(d, v) = Rested(d.state[v])
    BY <1>1, NothingInterrupted, ZenonT(60)
  <2>3. "Synthesizing" \in Live /\ "Queued" \in Live
    BY DEF Live, State, Terminal
  <2>4. QED
    BY <2>1, <2>2, <2>3, RestedAgain DEF IsLive
<1>3. ASSUME NEW q \in Parts
      PROVE  /\ ChildRested(e, q) = ChildRested(d, q)
             /\ e.child[q] \in Terminal <=> d.child[q] \in Terminal
             /\ e.child[q] = "Failed" <=> d.child[q] = "Failed"
  BY <1>1, NothingInterrupted
<1>4. Survives(e) = Survives(d) /\ (HeldAnyway(e) <=> HeldAnyway(d))
  BY <1>1, NothingInterrupted
<1>5. QED
  BY <1>1, <1>2, <1>3, <1>4, RowsAlike DEF e

(* A parent moved to the state it recovers to.                             *)
LEMMA SettledIsRecovered ==
  ASSUME NEW d, DbInv(d), d.jobs = {}, NEW u \in Utts, IsLive(d, u),
         NEW to \in {"Failed", "Played", "Ready"}, ParentRecovered(d, u) = to
  PROVE  Recovered(Transition(d, u, to)) = Recovered(d)
<1> DEFINE e == Transition(d, u, to)
<1>1. /\ e.state = [d.state EXCEPT ![u] = to]
      /\ e.child = [p \in Parts |-> IF to \in Terminal /\ p[1] = u /\ d.child[p] \notin Terminal
                                      THEN "Cancelled" ELSE d.child[p]]
      /\ e.audio = d.audio /\ e.jobs = {}
      /\ e.order = d.order /\ e.held = d.held
  BY DEF Transition, DbInv, Database
<1> HIDE DEF e
<1>2. /\ \A v \in Utts : e.state[v] = IF v = u THEN to ELSE d.state[v]
      /\ \A p \in Parts : p[1] # u \/ to = "Ready" => e.child[p] = d.child[p]
      /\ \A p \in Parts : p[1] = u /\ to # "Ready" =>
           e.child[p] = IF d.child[p] \in Terminal THEN d.child[p] ELSE "Cancelled"
  BY <1>1, StateFacts DEF DbInv, Database
<1>3. /\ \A v : ParentRested(e, v) = Rested(e.state[v]) /\ ParentRested(d, v) = Rested(d.state[v])
      /\ \A p : ChildRested(e, p) = Rested(e.child[p]) /\ ChildRested(d, p) = Rested(d.child[p])
      /\ Survives(e) = Survives(d) /\ (HeldAnyway(e) <=> HeldAnyway(d))
  <2>1. /\ \A v : ParentRested(d, v) = Rested(d.state[v])
        /\ \A p : ChildRested(d, p) = Rested(d.child[p])
        /\ Survives(d) = d.audio /\ (HeldAnyway(d) <=> d.held)
    BY NothingInterrupted
  <2>2. /\ \A v : ParentRested(e, v) = Rested(e.state[v])
        /\ \A p : ChildRested(e, p) = Rested(e.child[p])
        /\ Survives(e) = e.audio /\ (HeldAnyway(e) <=> e.held)
    <3>1. e.jobs = {}
      BY <1>1
    <3>2. QED
      BY <3>1, NothingInterrupted
  <2>3. e.audio = d.audio /\ e.held = d.held
    BY <1>1
  <2>4. QED
    BY <2>1, <2>2, <2>3, Zenon
<1>4. ParentRecovered(e, u) = to
  <2>1. CASE to # "Ready"
    <3>1. to \in Terminal /\ ~IsLive(e, u) /\ Rested(to) = to
      BY <1>2, <2>1, RestedAgain, StateFacts DEF IsLive, Unrested
    <3>2. QED
      BY <1>2, <1>3, <3>1 DEF ParentRecovered
  <2>2. CASE to = "Ready"
    <3>1. ~HasFailedChild(d, u)
      BY <2>2 DEF ParentRecovered
    <3>2. ~HasFailedChild(e, u)
      BY <1>2, <2>2, <3>1, UnitShape DEF HasFailedChild
    <3>3. ParentRested(e, u) = "Ready"
      BY <1>2, <1>3, <2>2, RestedAgain
    <3>4. QED
      BY <2>2, <3>2, <3>3 DEF ParentRecovered
  <2>3. QED
    BY <2>1, <2>2
<1>5. ASSUME NEW v \in Utts, v # u PROVE ParentRecovered(e, v) = ParentRecovered(d, v)
  <2>1. \A p \in ChildrenOf(v) : e.child[p] = d.child[p]
    BY <1>2, <1>5, UnitShape
  <2>2. /\ HasFailedChild(e, v) <=> HasFailedChild(d, v)
        /\ AllChildrenClosed(e, v) <=> AllChildrenClosed(d, v)
    BY <2>1 DEF HasFailedChild, AllChildrenClosed, Unfinished
  <2>3. ParentRested(e, v) = ParentRested(d, v) /\ (IsLive(e, v) <=> IsLive(d, v))
    BY <1>2, <1>3, <1>5 DEF IsLive
  <2>4. v \in Composite => ChildRested(e, <<v, 0>>) = ChildRested(d, <<v, 0>>)
    <3>1. v \in Composite => <<v, 0>> \in ChildrenOf(v)
      BY StoreAssumption DEF Composite, ChildrenOf
    <3>2. QED
      BY <1>3, <2>1, <3>1
  <2>5. QED
    BY <2>2, <2>3, <2>4 DEF ParentRecovered
<1>6. ASSUME NEW p \in Parts PROVE ChildRecovered(e, p) = ChildRecovered(d, p)
  <2>1. ParentRecovered(e, p[1]) = ParentRecovered(d, p[1])
    BY <1>4, <1>5, UnitShape
  <2>2. CASE p[1] # u \/ to = "Ready"
    BY <1>2, <1>3, <2>1, <2>2 DEF ChildRecovered
  <2>3. CASE p[1] = u /\ to # "Ready"
    <3>1. to \in Terminal
      BY <2>3, StateFacts
    <3>2. e.child[p] = IF d.child[p] \in Terminal THEN d.child[p] ELSE "Cancelled"
      BY <1>2, <2>3
    <3>3. e.child[p] \in Terminal /\ Rested(e.child[p]) = e.child[p]
      BY <3>2, RestedAgain, StateFacts
    <3>4. ChildRecovered(e, p) = e.child[p]
      BY <1>3, <3>3 DEF ChildRecovered
    <3>5. CASE d.child[p] \in Terminal
      BY <1>3, <3>2, <3>3, <3>4, <3>5 DEF ChildRecovered
    <3>6. CASE d.child[p] \notin Terminal
      BY <2>3, <3>1, <3>2, <3>4, <3>6 DEF ChildRecovered
    <3>7. QED
      BY <3>5, <3>6
  <2>4. QED
    BY <2>2, <2>3
<1>7. \A v \in Utts : ParentRecovered(e, v) = ParentRecovered(d, v)
  BY <1>4, <1>5
<1>8. QED
  BY <1>1, <1>3, <1>6, <1>7, RecoveredAlike DEF e

LEMMA ReconciledIsRecovered ==
  ASSUME NEW d, DbInv(d), d.jobs = {}, NEW u \in Utts, ReconcileCommits(d, u) # <<>>,
         NEW i \in 1 .. Len(ReconcileCommits(d, u))
  PROVE  Recovered(ReconcileCommits(d, u)[i]) = Recovered(d)
<1> DEFINE to == ReconciledState(d, u)
           woken == Transition(d, u, "Synthesizing")
<1>1. IsLive(d, u) /\ to # d.state[u]
  BY DEF ReconcileCommits
<1>2. to \in {"Failed", "Played", "Ready"}
  BY <1>1 DEF ReconciledState
<1>3. ParentRecovered(d, u) = to
  <2>1. ParentRested(d, u) = Rested(d.state[u]) /\ \A p : ChildRested(d, p) = Rested(d.child[p])
    BY NothingInterrupted
  <2>2. CASE HasFailedChild(d, u)
    BY <1>1, <2>2 DEF ReconciledState, ParentRecovered
  <2>3. CASE ~HasFailedChild(d, u) /\ d.state[u] = "Paused" /\ AllChildrenClosed(d, u)
    BY <1>1, <2>1, <2>3, RestedAgain DEF ReconciledState, ParentRecovered
  <2>4. CASE ~HasFailedChild(d, u) /\ d.state[u] = "Queued" /\ FirstChildReady(d, u)
    BY <1>1, <2>1, <2>4, RestedAgain DEF ReconciledState, ParentRecovered, FirstChildReady
  <2>5. QED
    BY <1>1, <2>2, <2>3, <2>4 DEF ReconciledState
<1>4. CASE d.state[u] # "Queued"
  <2>1. ReconcileCommits(d, u) = <<Transition(d, u, to)>>
    BY <1>1, <1>4 DEF ReconcileCommits
  <2> HIDE DEF to
  <2>2. QED
    BY <1>1, <1>2, <1>3, <2>1, SettledIsRecovered
<1>5. CASE d.state[u] = "Queued"
  <2>1. ReconcileCommits(d, u) = <<woken, Transition(woken, u, to)>>
    BY <1>1, <1>5 DEF ReconcileCommits
  <2>2. Recovered(woken) = Recovered(d)
    BY <1>5, WokenIsRecovered
  <2>3. ParentRecovered(woken, u) = to
    <3>1. Recovered(d).state[u] = to /\ Recovered(woken).state[u] = ParentRecovered(woken, u)
      BY <1>3 DEF Recovered
    <3>2. QED
      BY <2>2, <3>1
  <2>4. u \in Composite
    BY <1>1, UnitShape, SMTT(60) DEF ReconciledState, HasFailedChild, AllChildrenClosed, FirstChildReady
  <2>5. DbInv(woken) /\ woken.jobs = {}
    <3>1. d.state[u] # Absent /\ d.state[u] \notin Terminal /\ <<u, Whole>> \notin d.jobs
          /\ "Synthesizing" \in State /\ "Synthesizing" \notin PlaybackStates
      BY <1>5, StateFacts
    <3>2. DbInv(woken)
      BY <3>1, TransitionInv
    <3>3. QED
      BY <3>2, Zenon DEF Transition, DbInv, Database
  <2>6. IsLive(woken, u)
    BY <1>5 DEF Transition, IsLive, DbInv, Database, Live, State, Terminal
  <2> HIDE DEF to, woken
  <2>7. Recovered(Transition(woken, u, to)) = Recovered(woken)
    BY <1>2, <2>3, <2>5, <2>6, SettledIsRecovered
  <2> DEFINE f == Transition(woken, u, to)
  <2> HIDE DEF f
  <2>8. i \in 1 .. 2 /\ ReconcileCommits(d, u) = <<woken, f>> /\ Recovered(f) = Recovered(d)
    BY <2>1, <2>2, <2>7 DEF f
  <2>9. QED
    BY <2>2, <2>8
<1>6. QED
  BY <1>4, <1>5

(* A database in which nothing is left to do but hold playback.            *)
Caught(d) ==
  /\ d.jobs = {}
  /\ \A p \in Parts : d.child[p] \notin Unrested
  /\ \A u \in Utts : d.state[u] \notin Unrested
  /\ \A u \in Utts : IsLive(d, u) => ReconciledState(d, u) = d.state[u]

HeldIfAny(d) == d.held \/ \E u \in Utts : In(d, u, PlaybackStates)

LEMMA CaughtIsRecovered ==
  ASSUME NEW d, DbInv(d), Caught(d)
  PROVE  Recovered(d) = [d EXCEPT !.held = HeldIfAny(d)]
<1>1. /\ Interrupted(d) = {} /\ Survives(d) = d.audio
      /\ \A u : ParentRested(d, u) = Rested(d.state[u])
      /\ \A p : ChildRested(d, p) = Rested(d.child[p])
  BY NothingInterrupted DEF Caught
<1>2. ASSUME NEW u \in Utts PROVE ParentRecovered(d, u) = d.state[u]
  <2>1. ParentRested(d, u) = d.state[u]
    BY <1>1, RestedAgain DEF Caught
  <2>2. CASE ~IsLive(d, u)
    <3>1. ParentRested(d, u) \notin {"Paused", "Queued"}
      BY <2>1, <2>2 DEF IsLive, Live, State, Terminal
    <3>2. ParentRecovered(d, u) = ParentRested(d, u)
      BY ONLY <2>2, <3>1 DEF ParentRecovered
    <3>3. QED
      BY <2>1, <3>2
  <2>3. CASE IsLive(d, u)
    <3>1. ReconciledState(d, u) = d.state[u] /\ d.state[u] \notin Terminal
      BY <2>3, StateFacts DEF Caught, IsLive
    <3>2. ~HasFailedChild(d, u)
      BY <3>1, StateFacts DEF ReconciledState
    <3>3. ~(d.state[u] = "Paused" /\ AllChildrenClosed(d, u))
      BY <3>1, <3>2 DEF ReconciledState
    <3>4. ~(d.state[u] = "Queued" /\ FirstChildReady(d, u))
      BY <3>1, <3>2 DEF ReconciledState
    <3>5. ~(d.state[u] = "Queued" /\ u \in Composite /\ ChildRested(d, <<u, 0>>) = "Ready")
      BY <1>1, <3>4, RestedAgain DEF FirstChildReady
    <3>6. /\ ~(ParentRested(d, u) = "Paused" /\ AllChildrenClosed(d, u))
          /\ ~(ParentRested(d, u) = "Queued" /\ u \in Composite
               /\ ChildRested(d, <<u, 0>>) = "Ready")
      BY <2>1, <3>3, <3>5
    <3>7. ParentRecovered(d, u) = ParentRested(d, u)
      BY ONLY <2>3, <3>2, <3>6 DEF ParentRecovered
    <3>8. QED
      BY <2>1, <3>7
  <2>4. QED
    BY <2>2, <2>3
<1>3. ASSUME NEW p \in Parts PROVE ChildRecovered(d, p) = d.child[p]
  <2>1. ParentRecovered(d, p[1]) = d.state[p[1]]
    BY <1>2, UnitShape
  <2>2. ~(ParentRecovered(d, p[1]) \in Terminal /\ d.child[p] \notin Terminal)
    BY <2>1 DEF DbInv, Closed
  <2>3. QED
    BY <1>1, <2>2, RestedAgain DEF ChildRecovered, Caught
<1> DEFINE after == [u \in Utts |-> ParentRecovered(d, u)]
           below == [p \in Parts |-> ChildRecovered(d, p)]
           h == \/ d.held
                \/ \E w \in Interrupted(d) : In(d, w[1], {"Playing", "Paused"})
                \/ \E u \in Utts : after[u] \in PlaybackStates
<1>4. after = d.state /\ below = d.child
  BY <1>2, <1>3 DEF DbInv, Database
<1>5. h = HeldIfAny(d)
  <2>1. h \in BOOLEAN /\ HeldIfAny(d) \in BOOLEAN
    BY DEF HeldIfAny
  <2>2. (\E u \in Utts : after[u] \in PlaybackStates) <=> \E u \in Utts : In(d, u, PlaybackStates)
    BY <1>4 DEF In
  <2> HIDE DEF after
  <2>3. h <=> HeldIfAny(d)
    BY <1>1, <2>2 DEF HeldIfAny
  <2> HIDE DEF h
  <2>4. QED
    BY <2>1, <2>3
<1>6. Recovered(d) = [state |-> after, order |-> d.order, child |-> below,
                      audio |-> Survives(d), jobs |-> {}, held |-> h]
  BY DEF Recovered, Survives
<1> HIDE DEF after, below, h
<1>7. Recovered(d) = [state |-> d.state, order |-> d.order, child |-> d.child,
                      audio |-> d.audio, jobs |-> d.jobs, held |-> HeldIfAny(d)]
  BY <1>1, <1>4, <1>5, <1>6 DEF Caught
<1>8. QED
  BY <1>7 DEF DbInv, Database

LEMMA UpIsRecovered ==
  ASSUME NEW d, DbInv(d), Caught(d)
  PROVE  LET e == [d EXCEPT !.held = HeldIfAny(d)]
         IN  e = Recovered(d) /\ Recovered(e) = Recovered(d)
<1> DEFINE b == HeldIfAny(d)
           e == [d EXCEPT !.held = b]
<1>1. b \in BOOLEAN
  BY DEF HeldIfAny
<1>2. e = Recovered(d)
  BY CaughtIsRecovered
<1> HIDE DEF b
<1>3. /\ e.state = d.state /\ e.child = d.child /\ e.jobs = d.jobs /\ e.held = b
  BY DEF DbInv, Database
<1>4. DbInv(e)
  BY <1>1, HeldInv DEF Advances
<1> HIDE DEF e
<1>5. \A u \in Utts : ReconciledState(e, u) = ReconciledState(d, u)
  BY <1>3 DEF ReconciledState, HasFailedChild, AllChildrenClosed, FirstChildReady, Unfinished
<1>6. Caught(e)
  BY <1>3, <1>5 DEF Caught, IsLive
<1>7. Recovered(e) = [e EXCEPT !.held = HeldIfAny(e)]
  BY <1>4, <1>6, CaughtIsRecovered
<1>8. HeldIfAny(e) = b
  <2>1. HeldIfAny(e) <=> b
    BY <1>3 DEF HeldIfAny, In, b
  <2>2. HeldIfAny(e) \in BOOLEAN
    BY DEF HeldIfAny
  <2>3. QED
    BY <1>1, <2>1, <2>2
<1>9. [e EXCEPT !.held = b] = e
  BY <1>3, <1>4 DEF DbInv, Database
<1>10. QED
  BY <1>2, <1>7, <1>8, <1>9 DEF e, b

(* One step of recovery, or a crash in the middle of it.                   *)
Homeward ==
  Recovered(db') = Recovered(db) /\ (phase' = "up" => db' = Recovered(db))

LEMMA HomewardStep ==
  ASSUME IInv, phase # "up", Next
  PROVE  Homeward
<1>1. /\ \A k \in Workers : ~Busy(k)
      /\ DbInv(db)
      /\ phase \in {"children", "parents", "reconcile"} => db.jobs = {}
      /\ phase = "reconcile" => /\ \A p \in Parts : db.child[p] \notin Unrested
                                /\ \A u \in Utts : db.state[u] \notin Unrested
  BY DEF IInv, PoolIsDown, RecoveryProgress
<1>2. Recovery \/ Crash
  <2>1. \A u \in Utts : ~Submit(u) /\ ~Cancel(u)
    BY DEF Submit, Cancel
  <2>2. \A states : ~Clear(states)
    BY DEF Clear
  <2>3. \A k \in Workers : ~Pool(k)
    BY <1>1 DEF Pool, TakeJob, FirstBuffer, StreamReady, Publish, Fail, PublishRefused, Rendered,
                RenderFailed
  <2>4. ~Playback
    BY DEF Playback, Begin, EndOfClip, DeviceError, NextSegment, Skip, Suspend, Resume, Hold,
           ReleaseHold
  <2>5. QED
    BY <2>1, <2>2, <2>3, <2>4 DEF Next, Reorder, FinishWarmup
<1>3. CASE Crash
  BY <1>3 DEF Crash, Down, Homeward
<1>4. CASE Restart \/ ChildrenDone \/ ParentsDone
  BY <1>4 DEF Restart, ChildrenDone, ParentsDone, Homeward
<1>5. CASE RecoverJobs
  BY <1>1, <1>5, JobsAreRecovered DEF RecoverJobs, Homeward
<1>6. ASSUME NEW p \in Parts, RecoverChild(p) PROVE Homeward
  BY <1>1, <1>6, ChildIsRecovered DEF RecoverChild, Homeward
<1>7. ASSUME NEW u \in Utts, RecoverParent(u) PROVE Homeward
  BY <1>1, <1>7, ParentIsRecovered DEF RecoverParent, Homeward
<1>8. ASSUME NEW u \in Utts, Reconcile(u) PROVE Homeward
  <2> DEFINE c == ReconcileCommits(db, u)
  <2>1. phase = "reconcile" /\ c # <<>> /\ Writes(c) /\ db.jobs = {}
    BY <1>1, <1>8 DEF Reconcile
  <2>2. /\ \/ \E e : c = <<e>>
           \/ \E e, f : c = <<e, f>>
    BY <1>1, <2>1, ReconcileInv
  <2>3. \A i \in 1 .. Len(c) : Recovered(c[i]) = Recovered(db)
    BY <1>1, <2>1, ReconciledIsRecovered
  <2> HIDE DEF c
  <2>4. Len(c) \in Nat /\ Len(c) > 0 /\ LastOf(db, c) = c[Len(c)]
    BY <2>1, <2>2 DEF LastOf
  <2>5. phase' # "up" /\ \E i \in 1 .. Len(c) : db' = c[i]
    BY <2>1, <2>4 DEF Writes, DiesAmid, Down
  <2>6. QED
    BY <2>3, <2>5 DEF Homeward
<1>9. CASE ComeUp
  <2>1. phase = "reconcile" /\ db' = [db EXCEPT !.held = HeldIfAny(db)]
        /\ \A u \in Utts : ReconcileCommits(db, u) = <<>>
    BY <1>9 DEF ComeUp, HeldIfAny
  <2>2. \A u \in Utts : IsLive(db, u) => ReconciledState(db, u) = db.state[u]
    BY <2>1 DEF ReconcileCommits
  <2>3. Caught(db)
    BY <1>1, <2>1, <2>2 DEF Caught
  <2>4. QED
    BY <1>1, <2>1, <2>3, UpIsRecovered DEF Homeward
<1>10. QED
  BY <1>2, <1>3, <1>4, <1>5, <1>6, <1>7, <1>8, <1>9 DEF Recovery

(* Recovery is the same however often it is interrupted, and declares the  *)
(* daemon up exactly where it was heading.                                 *)
THEOREM RecoveryIsAtomic == Spec => RecoveryIsOneStep
<1>1. IInv /\ [Next]_vars =>
        [phase # "up" => /\ Recovered(db') = Recovered(db)
                         /\ phase' = "up" => db' = Recovered(db)]_vars
  BY HomewardStep DEF Homeward
<1>2. QED
  BY <1>1, InductiveInvariant, PTL DEF Spec, RecoveryIsOneStep

-----------------------------------------------------------------------------
(* A document in step with its chunks.  After every commit, a live document*)
(* without a failed chunk is orderly: on the input side its first chunk is *)
(* still to come or ready, a Ready document has something left to say, and *)
(* its chunks are played in order.  That much recovery can rely on, and it *)
(* is enough for recovery to bring the document back in step.              *)
FirstAhead(d, v) ==
  In(d, v, InputStates) => d.child[<<v, 0>>] \in {"Queued", "Synthesizing", "Ready"}
ReadyOwes(d, v) == d.state[v] = "Ready" => Unfinished(d, v) # {}
SpokenInOrder(d, v) ==
  \A p, q \in ChildrenOf(v) :
    p[2] < q[2] /\ d.child[q] \in Terminal \cup {"Playing", "Paused"} => d.child[p] \in Terminal

Orderly(d, v) ==
  IsLive(d, v) /\ ~HasFailedChild(d, v) =>
    FirstAhead(d, v) /\ ReadyOwes(d, v) /\ SpokenInOrder(d, v)

InStep(d, v) ==
  IsLive(d, v) =>
    /\ ~HasFailedChild(d, v)
    /\ Unfinished(d, v) # {}
    /\ In(d, v, InputStates) => d.child[<<v, 0>>] \in InputStates
    /\ d.state[v] = "Synthesizing" => d.child[<<v, 0>>] = "Synthesizing"

OrderKept(d) == \A v \in Composite : Orderly(d, v)
StepKept(d)  == \A v \in Composite : InStep(d, v)
Kept == OrderKept(db) /\ (phase = "up" => StepKept(db))

(* An operation on one document leaves the rows of the others alone.       *)
SameRows(d, e, v) ==
  e.state[v] = d.state[v] /\ \A p \in ChildrenOf(v) : e.child[p] = d.child[p]
OnlyAt(d, e, u) == \A v \in Composite \ {u} : SameRows(d, e, v)

LEMMA FirstChunk ==
  \A v \in Composite : <<v, 0>> \in ChildrenOf(v) /\ <<v, 0>> \in Parts /\ v \in Utts
BY StoreAssumption DEF Composite, ChildrenOf, Parts

LEMMA SameRowsKeep ==
  ASSUME NEW d, NEW e, NEW v \in Composite, SameRows(d, e, v)
  PROVE  (Orderly(e, v) <=> Orderly(d, v)) /\ (InStep(e, v) <=> InStep(d, v))
<1>1. /\ e.state[v] = d.state[v] /\ e.child[<<v, 0>>] = d.child[<<v, 0>>]
      /\ IsLive(e, v) <=> IsLive(d, v)
      /\ Unfinished(e, v) = Unfinished(d, v)
      /\ HasFailedChild(e, v) <=> HasFailedChild(d, v)
  BY FirstChunk DEF SameRows, IsLive, Unfinished, HasFailedChild
<1>2. SpokenInOrder(e, v) <=> SpokenInOrder(d, v)
  BY DEF SameRows, SpokenInOrder
<1>3. /\ FirstAhead(e, v) <=> FirstAhead(d, v)
      /\ ReadyOwes(e, v) <=> ReadyOwes(d, v)
  BY <1>1 DEF FirstAhead, ReadyOwes, In
<1>4. Orderly(e, v) <=> Orderly(d, v)
  BY <1>1, <1>2, <1>3 DEF Orderly
<1>5. InStep(e, v) <=> InStep(d, v)
  BY <1>1 DEF InStep, In
<1>6. QED
  BY <1>4, <1>5

LEMMA OnlyAtTrans ==
  ASSUME NEW d, NEW e, NEW f, NEW u, OnlyAt(d, e, u), OnlyAt(e, f, u)
  PROVE  OnlyAt(d, f, u)
BY DEF OnlyAt, SameRows

LEMMA SettledKeeps ==
  ASSUME NEW d, NEW v, ~IsLive(d, v)
  PROVE  Orderly(d, v) /\ InStep(d, v)
BY DEF Orderly, InStep

(* What an operation at u leaves to show.                                  *)
LEMMA KeptAt ==
  ASSUME NEW d, NEW e, NEW u, OnlyAt(d, e, u)
  PROVE  /\ OrderKept(d) /\ (u \in Composite => Orderly(e, u)) => OrderKept(e)
         /\ StepKept(d) /\ (u \in Composite => InStep(e, u)) => StepKept(e)
BY SameRowsKeep DEF OnlyAt, OrderKept, StepKept

LEMMA KeptElsewhere ==
  ASSUME NEW d, NEW e, e.state = d.state, e.child = d.child
  PROVE  (OrderKept(d) => OrderKept(e)) /\ (StepKept(d) => StepKept(e))
BY SameRowsKeep DEF SameRows, OrderKept, StepKept

(* A handler's commits, all of them or a proper prefix.                    *)
LEMMA CommitsKeep ==
  ASSUME phase = "up", OrderKept(db), StepKept(db), NEW c,
         Len(c) \in Nat, c # <<>> => Len(c) > 0,
         \A i \in 1 .. Len(c) : OrderKept(c[i]),
         c # <<>> => StepKept(c[Len(c)]),
         \/ db' = LastOf(db, c) /\ phase' = phase
         \/ DiesAmid(c)
  PROVE  Kept'
<1>1. Len(c) \in Nat /\ (c # <<>> => Len(c) > 0)
  OBVIOUS
<1>2. CASE db' = LastOf(db, c) /\ phase' = phase
  BY <1>1, <1>2 DEF LastOf, Kept, OrderKept, StepKept
<1>3. CASE DiesAmid(c)
  <2>1. phase' # "up" /\ \E i \in 1 .. Len(c) : db' = c[i]
    BY <1>1, <1>3 DEF DiesAmid, Down
  <2>2. QED
    BY <2>1 DEF Kept, OrderKept
<1>4. QED
  BY <1>2, <1>3

-----------------------------------------------------------------------------
(* The two transitions, row by row.                                        *)
LEMMA TransitionRows ==
  ASSUME NEW d, DbInv(d), NEW u \in Utts, NEW to
  PROVE  LET e == Transition(d, u, to)
         IN  /\ OnlyAt(d, e, u) /\ e.state[u] = to
             /\ \A v \in Utts \ {u} : e.state[v] = d.state[v]
             /\ to \notin Terminal => e.child = d.child
             /\ to \in Terminal => ~IsLive(e, u)
             /\ e.jobs = d.jobs /\ e.audio = d.audio
<1> DEFINE e == Transition(d, u, to)
<1>1. /\ e.state = [d.state EXCEPT ![u] = to]
      /\ e.child = [p \in Parts |-> IF to \in Terminal /\ p[1] = u /\ d.child[p] \notin Terminal
                                      THEN "Cancelled" ELSE d.child[p]]
      /\ e.jobs = d.jobs /\ e.audio = d.audio
  BY DEF Transition, DbInv, Database
<1>2. OnlyAt(d, e, u)
  BY <1>1, UnitShape DEF OnlyAt, SameRows, Composite, DbInv, Database
<1>3. to \notin Terminal => e.child = d.child
  BY <1>1 DEF DbInv, Database
<1>4. e.state[u] = to /\ \A v \in Utts \ {u} : e.state[v] = d.state[v]
  BY <1>1 DEF DbInv, Database
<1>5. to \in Terminal => ~IsLive(e, u)
  BY <1>4, StateFacts DEF IsLive
<1>6. QED
  BY <1>1, <1>2, <1>3, <1>4, <1>5

LEMMA SegmentRows ==
  ASSUME NEW d, d.child \in [Parts -> State \cup {Absent}], NEW p \in Parts, NEW to
  PROVE  LET e == TransitionSegment(d, p, to)
         IN  /\ OnlyAt(d, e, p[1]) /\ e.state = d.state
             /\ e.child[p] = to
             /\ \A q \in Parts \ {p} : e.child[q] = d.child[q]
<1> DEFINE e == TransitionSegment(d, p, to)
<1>1. e.state = d.state /\ e.child = [d.child EXCEPT ![p] = to]
  BY DEF TransitionSegment
<1>2. e.child[p] = to /\ \A q \in Parts \ {p} : e.child[q] = d.child[q]
  BY <1>1
<1>3. OnlyAt(d, e, p[1])
  BY <1>1, <1>2, UnitShape DEF OnlyAt, SameRows, Composite
<1>4. QED
  BY <1>1, <1>2, <1>3

-----------------------------------------------------------------------------
(* The queue's operations keep every document orderly and in step.         *)
InGoodOrder(d) == DbInv(d) /\ OrderKept(d) /\ StepKept(d)

LEMMA LiveFacts ==
  ASSUME NEW d, InGoodOrder(d), NEW v \in Composite, IsLive(d, v)
  PROVE  /\ FirstAhead(d, v) /\ ReadyOwes(d, v) /\ SpokenInOrder(d, v)
         /\ ~HasFailedChild(d, v) /\ Unfinished(d, v) # {}
         /\ In(d, v, InputStates) => d.child[<<v, 0>>] \in InputStates
         /\ d.state[v] = "Synthesizing" => d.child[<<v, 0>>] = "Synthesizing"
BY DEF InGoodOrder, OrderKept, StepKept, Orderly, InStep

LEMMA SubmitKeeps ==
  ASSUME NEW d, InGoodOrder(d), NEW u \in Utts, d.state[u] = Absent, NEW k
  PROVE  OrderKept(SubmitRow(d, u, k)) /\ StepKept(SubmitRow(d, u, k))
<1> DEFINE e == SubmitRow(d, u, k)
<1>1. /\ e.state = [d.state EXCEPT ![u] = "Queued"]
      /\ e.child = [p \in Parts |-> IF p[1] = u THEN "Queued" ELSE d.child[p]]
  BY DEF SubmitRow, InGoodOrder, DbInv, Database
<1>2. OnlyAt(d, e, u)
  BY <1>1, UnitShape DEF OnlyAt, SameRows, Composite, InGoodOrder, DbInv, Database
<1>3. ASSUME u \in Composite PROVE Orderly(e, u) /\ InStep(e, u)
  <2>1. e.state[u] = "Queued" /\ \A p \in ChildrenOf(u) : e.child[p] = "Queued"
    BY <1>1, UnitShape DEF InGoodOrder, DbInv, Database
  <2>2. e.child[<<u, 0>>] = "Queued" /\ "Queued" \notin Terminal
    BY <1>3, <2>1, FirstChunk, StateFacts
  <2>3. <<u, 0>> \in Unfinished(e, u) /\ ~HasFailedChild(e, u)
    BY <1>3, <2>1, <2>2, FirstChunk DEF Unfinished, HasFailedChild
  <2>4. SpokenInOrder(e, u)
    BY <2>1, StateFacts DEF SpokenInOrder
  <2>5. QED
    BY <2>1, <2>2, <2>3, <2>4
    DEF Orderly, InStep, FirstAhead, ReadyOwes, In, InputStates
<1>4. QED
  BY <1>2, <1>3, KeptAt DEF InGoodOrder

(* Every row an operation settles is out of the matter.                    *)
LEMMA SettleKeeps ==
  ASSUME NEW d, InGoodOrder(d), NEW u \in Utts, NEW to \in Terminal
  PROVE  OrderKept(Transition(d, u, to)) /\ StepKept(Transition(d, u, to))
BY TransitionRows, SettledKeeps, KeptAt DEF InGoodOrder

LEMMA CancelAllKeeps ==
  ASSUME NEW d, InGoodOrder(d), NEW rows, rows \subseteq Utts
  PROVE  OrderKept(CancelAll(d, rows)) /\ StepKept(CancelAll(d, rows))
<1> DEFINE e == CancelAll(d, rows)
<1>1. /\ e.state = [u \in Utts |-> IF u \in rows THEN "Cancelled" ELSE d.state[u]]
      /\ e.child = [p \in Parts |-> IF p[1] \in rows /\ d.child[p] \notin Terminal
                                      THEN "Cancelled" ELSE d.child[p]]
  BY DEF CancelAll, InGoodOrder, DbInv, Database
<1>2. ASSUME NEW v \in Composite PROVE Orderly(e, v) /\ InStep(e, v)
  <2>1. CASE v \in rows
    <3>1. ~IsLive(e, v)
      BY <1>1, <2>1, StateFacts DEF IsLive, Composite
    <3>2. QED
      BY <3>1, SettledKeeps
  <2>2. CASE v \notin rows
    <3>1. SameRows(d, e, v)
      BY <1>1, <2>2, UnitShape DEF SameRows, Composite
    <3>2. QED
      BY <3>1, SameRowsKeep DEF InGoodOrder, OrderKept, StepKept
  <2>3. QED
    BY <2>1, <2>2
<1>3. QED
  BY <1>2 DEF OrderKept, StepKept

-----------------------------------------------------------------------------
(* The pool's operations.  A claim takes a document's first chunk first:   *)
(* the document is queued only while no chunk of it has been claimed, and  *)
(* the first one precedes the others.                                      *)
LEMMA ClaimKeeps ==
  ASSUME NEW d, InGoodOrder(d), NEW w \in Units, NEW held, IsEarliest(d, held, w),
         \A v \in Composite : d.state[v] = "Queued" => d.child[<<v, 0>>] # "Synthesizing"
  PROVE  OrderKept(Claim(d, w)) /\ StepKept(Claim(d, w))
<1> DEFINE u == w[1]
           e == IF w[2] = Whole THEN d ELSE TransitionSegment(d, w, "Synthesizing")
           f == Claim(d, w)
<1>1. u \in Utts /\ DbInv(d) /\ Claimable(d, held, w)
  BY UnitShape DEF InGoodOrder, IsEarliest
<1>2. f = IF d.state[u] = "Queued" THEN Transition(e, u, "Synthesizing") ELSE e
  BY DEF Claim
<1>3. CASE w[2] = Whole
  <2>1. u \notin Composite /\ e = d
    BY <1>3, UnitShape
  <2>2. OnlyAt(d, f, u)
    BY <1>1, <1>2, <2>1, TransitionRows DEF OnlyAt, SameRows
  <2>3. QED
    BY <2>1, <2>2, KeptAt DEF InGoodOrder
<1>4. CASE w[2] # Whole
  <2>1. /\ w \in Parts /\ w \in ChildrenOf(u) /\ u \in Composite
        /\ d.child[w] = "Queued" /\ IsLive(d, u) /\ u \notin held
    BY <1>1, <1>4, UnitShape DEF Claimable
  <2>2. /\ OnlyAt(d, e, u) /\ e.state = d.state /\ e.child[w] = "Synthesizing"
        /\ \A q \in Parts \ {w} : e.child[q] = d.child[q]
    BY <1>1, <1>4, <2>1, SegmentRows DEF DbInv, Database
  <2>3. DbInv(e)
    <3>1. w \notin d.jobs
      BY <1>1, <2>1, <1>4 DEF DbInv, Advertised, UnitState, Unmade
    <3>2. QED
      BY <1>1, <1>4, <2>1, <3>1, SegmentInv, StateFacts DEF IsLive, Live, State
  <2>4. "Synthesizing" \notin Terminal
    BY StateFacts
  <2>5. /\ OnlyAt(d, f, u) /\ f.child = e.child
        /\ f.state[u] = IF d.state[u] = "Queued" THEN "Synthesizing" ELSE d.state[u]
    <3> HIDE DEF e
    <3>1. /\ OnlyAt(e, Transition(e, u, "Synthesizing"), u)
          /\ Transition(e, u, "Synthesizing").child = e.child
          /\ Transition(e, u, "Synthesizing").state[u] = "Synthesizing"
      BY <1>1, <2>3, <2>4, TransitionRows
    <3>2. QED
      BY <1>2, <2>2, <3>1, OnlyAtTrans
  <2>6. IF d.state[u] = "Queued" THEN w = <<u, 0>> ELSE w = <<u, 0>> => d.state[u] # "Synthesizing"
    <3>1. CASE d.state[u] # "Queued"
      BY <2>1, <3>1, LiveFacts
    <3>2. CASE d.state[u] = "Queued"
      <4>1. d.child[<<u, 0>>] = "Queued"
        BY <2>1, <3>2, LiveFacts, FirstChunk, UnitShape
        DEF In, InputStates, InGoodOrder, DbInv, NoneBare, UnitState
      <4>2. <<u, 0>> \in Units /\ <<u, 0>>[2] # Whole
        BY <2>1, FirstChunk, UnitShape
      <4>3. Claimable(d, held, <<u, 0>>)
        BY <2>1, <4>1, <4>2 DEF Claimable
      <4>4. ~Precedes(d, <<u, 0>>, w)
        BY <4>2, <4>3 DEF IsEarliest
      <4>5. w[2] \in Nat /\ ~(0 < w[2])
        BY <2>1, <4>4, UnitShape DEF Precedes
      <4>6. QED
        BY <2>1, <3>2, <4>5 DEF ChildrenOf
    <3>3. QED
      BY <3>1, <3>2
  <2> HIDE DEF e, f
  <2>7. /\ f.child[w] = "Synthesizing"
        /\ \A q \in ChildrenOf(u) \ {w} : f.child[q] = d.child[q]
        /\ ~HasFailedChild(f, u) /\ w \in Unfinished(f, u)
    <3>1. f.child[w] = "Synthesizing" /\ w \in ChildrenOf(u)
      BY <2>1, <2>2, <2>5
    <3>2. \A q \in ChildrenOf(u) \ {w} : f.child[q] = d.child[q]
      BY <2>1, <2>2, <2>5, UnitShape
    <3>3. ~HasFailedChild(d, u)
      BY <2>1, LiveFacts
    <3>4. ~HasFailedChild(f, u)
      BY <3>1, <3>2, <3>3 DEF HasFailedChild
    <3>5. w \in Unfinished(f, u)
      BY <2>4, <3>1 DEF Unfinished
    <3>6. QED
      BY <3>1, <3>2, <3>4, <3>5
  <2>8. SpokenInOrder(f, u)
    <3>1. SpokenInOrder(d, u)
      BY <2>1, LiveFacts
    <3>2. QED
      BY <2>1, <2>7, <3>1, StateFacts DEF SpokenInOrder
  <2>9. f.state[u] \in InputStates =>
          /\ f.child[<<u, 0>>] \in InputStates
          /\ f.child[<<u, 0>>] \in {"Queued", "Synthesizing", "Ready"}
    BY <2>1, <2>5, <2>6, <2>7, LiveFacts, FirstChunk DEF In, InputStates, FirstAhead
  <2>10. f.state[u] = "Synthesizing" => f.child[<<u, 0>>] = "Synthesizing"
    BY <2>1, <2>5, <2>6, <2>7, LiveFacts, FirstChunk
  <2>11. Orderly(f, u) /\ InStep(f, u)
    BY <2>7, <2>8, <2>9, <2>10 DEF Orderly, InStep, FirstAhead, ReadyOwes, In
  <2>12. QED
    BY <2>5, <2>11, KeptAt DEF InGoodOrder, f
<1>5. QED
  BY <1>3, <1>4

(* A chunk of a live document has audio: it is Ready, and a document that  *)
(* was waiting for its first chunk may be promoted with it.                *)
LEMMA ReadyKeeps ==
  ASSUME NEW d, InGoodOrder(d), NEW w \in Parts, NEW e,
         d.child[w] = "Synthesizing", IsLive(d, w[1]), d.state[w[1]] # "Queued",
         e.child[w] = "Ready",
         \A q \in ChildrenOf(w[1]) \ {w} : e.child[q] = d.child[q]
  PROVE  LET u == w[1]
         IN  /\ e.state[u] = d.state[u] => Orderly(e, u)
             /\ e.state[u] = "Ready" => Orderly(e, u) /\ InStep(e, u)
             /\ e.state[u] = d.state[u] /\ ~(w[2] = 0 /\ d.state[u] = "Synthesizing") =>
                  InStep(e, u)
<1> DEFINE u == w[1]
<1>1. /\ w \in ChildrenOf(u) /\ u \in Composite /\ w[2] # Whole /\ "Ready" \notin Terminal
      /\ <<u, 0>> \in ChildrenOf(u)
  BY UnitShape, StateFacts, FirstChunk
<1>2. /\ FirstAhead(d, u) /\ SpokenInOrder(d, u) /\ ~HasFailedChild(d, u)
      /\ In(d, u, InputStates) => d.child[<<u, 0>>] \in InputStates
      /\ d.state[u] = "Synthesizing" => d.child[<<u, 0>>] = "Synthesizing"
  BY <1>1, LiveFacts
<1>3. ~HasFailedChild(e, u)
  BY <1>1, <1>2 DEF HasFailedChild
<1>4. w \in Unfinished(e, u)
  BY <1>1 DEF Unfinished
<1>5. SpokenInOrder(e, u)
  BY <1>1, <1>2, StateFacts DEF SpokenInOrder
<1>6. ReadyOwes(e, u)
  BY <1>4 DEF ReadyOwes
<1>7. "Ready" \notin InputStates
  BY DEF InputStates
<1>8. ASSUME e.state[u] = d.state[u] PROVE Orderly(e, u)
  <2>1. FirstAhead(e, u)
    BY <1>1, <1>2, <1>8 DEF FirstAhead, In
  <2>2. QED
    BY <1>5, <1>6, <2>1 DEF Orderly
<1>9. ASSUME e.state[u] = "Ready" PROVE Orderly(e, u) /\ InStep(e, u)
  BY <1>3, <1>4, <1>5, <1>6, <1>7, <1>9 DEF Orderly, InStep, FirstAhead, In
<1>10. ASSUME e.state[u] = d.state[u], ~(w[2] = 0 /\ d.state[u] = "Synthesizing")
       PROVE  InStep(e, u)
  <2>1. CASE d.state[u] \notin InputStates
    BY <1>3, <1>4, <1>10, <2>1 DEF InStep, In, InputStates
  <2>2. CASE d.state[u] \in InputStates
    <3>1. d.state[u] # "Submitted"
      BY <1>1, UnitShape DEF InGoodOrder, DbInv, NoneBare
    <3>2. d.state[u] = "Synthesizing" /\ w # <<u, 0>>
      BY <1>10, <2>2, <3>1 DEF InputStates
    <3>3. e.child[<<u, 0>>] = "Synthesizing" /\ "Synthesizing" \in InputStates
      BY <1>1, <1>2, <3>2 DEF InputStates
    <3>4. QED
      BY <1>3, <1>4, <3>3 DEF InStep
  <2>3. QED
    BY <2>1, <2>2
<1>11. QED
  BY <1>8, <1>9, <1>10

LEMMA StreamKeeps ==
  ASSUME NEW d, InGoodOrder(d), NEW w \in Units,
         Active(d, w) /\ w \in Parts => d.state[w[1]] # "Queued"
  PROVE  OrderKept(StartStreaming(d, w)) /\ StepKept(StartStreaming(d, w))
<1> DEFINE u == w[1]
           e == [d EXCEPT !.jobs = @ \cup {w}]
           f == IF w[2] = Whole THEN e ELSE TransitionSegment(e, w, "Ready")
           g == Transition(f, u, "Ready")
           h == StartStreaming(d, w)
<1>1. CASE ~Active(d, w) \/ w \in d.jobs
  BY <1>1 DEF StartStreaming, InGoodOrder
<1>2. CASE Active(d, w) /\ w \notin d.jobs
  <2>1. h = IF w[2] = Whole \/ (w[2] = 0 /\ d.state[u] = "Synthesizing") THEN g ELSE f
    BY <1>2 DEF StartStreaming
  <2>2. e.state = d.state /\ e.child = d.child /\ OnlyAt(d, e, u)
    BY DEF InGoodOrder, DbInv, Database, OnlyAt, SameRows
  <2>3. UnitState(d, w) = "Synthesizing" /\ IsLive(d, u) /\ u \in Utts
    BY <1>2, UnitShape DEF Active
  <2>4. /\ f.state = d.state /\ OnlyAt(d, f, u)
        /\ f.child \in [Parts -> State \cup {Absent}]
        /\ w \in Parts => f.child[w] = "Ready" /\ \A q \in Parts \ {w} : f.child[q] = d.child[q]
    <3> HIDE DEF e
    <3>1. e.child \in [Parts -> State \cup {Absent}]
      BY <2>2 DEF InGoodOrder, DbInv, Database
    <3>2. CASE w[2] = Whole
      BY <2>2, <3>1, <3>2, UnitShape
    <3>3. CASE w[2] # Whole
      <4>1. w \in Parts
        BY <3>3, UnitShape
      <4>2. /\ OnlyAt(e, f, u) /\ f.state = e.state /\ f.child[w] = "Ready"
            /\ \A q \in Parts \ {w} : f.child[q] = e.child[q]
        BY <3>1, <3>3, <4>1, SegmentRows
      <4>3. f.child \in [Parts -> State \cup {Absent}]
        BY <3>1, <3>3, <4>1, StateFacts DEF TransitionSegment
      <4>4. QED
        BY <2>2, <4>2, <4>3, OnlyAtTrans
    <3>4. QED
      BY <3>2, <3>3
  <2> HIDE DEF f
  <2>5. /\ OnlyAt(d, g, u) /\ g.state[u] = "Ready"
        /\ \A p \in Parts : g.child[p] = f.child[p]
    <3>1. g.state = [f.state EXCEPT ![u] = "Ready"]
      BY DEF Transition
    <3>2. \A p \in Parts : g.child[p] = f.child[p]
      BY StateFacts DEF Transition
    <3>3. g.state[u] = "Ready" /\ \A v \in Utts \ {u} : g.state[v] = f.state[v]
      BY <2>3, <2>4, <3>1 DEF InGoodOrder, DbInv, Database
    <3>4. OnlyAt(f, g, u)
      BY <3>2, <3>3, UnitShape DEF OnlyAt, SameRows, Composite
    <3>5. QED
      BY <2>4, <3>2, <3>3, <3>4, OnlyAtTrans
  <2> HIDE DEF g
  <2>6. CASE w \notin Parts
    <3>1. u \notin Composite
      BY <2>6, UnitShape
    <3>2. QED
      BY <2>1, <2>4, <2>5, <3>1, KeptAt DEF InGoodOrder
  <2>7. CASE w \in Parts
    <3>1. d.child[w] = "Synthesizing" /\ d.state[u] # "Queued" /\ w[2] # Whole
      BY <1>2, <2>3, <2>7, UnitShape DEF UnitState
    <3>2. \A q \in ChildrenOf(u) \ {w} : g.child[q] = d.child[q] /\ f.child[q] = d.child[q]
      BY <2>3, <2>4, <2>5, <2>7, UnitShape
    <3>3. g.child[w] = "Ready" /\ f.child[w] = "Ready"
      BY <2>4, <2>5, <2>7
    <3>4. Orderly(g, u) /\ InStep(g, u)
      BY <2>3, <2>5, <2>7, <3>1, <3>2, <3>3, ReadyKeeps
    <3>5. ~(w[2] = 0 /\ d.state[u] = "Synthesizing") => Orderly(f, u) /\ InStep(f, u)
      BY <2>3, <2>4, <2>7, <3>1, <3>2, <3>3, ReadyKeeps
    <3>6. QED
      BY <2>1, <2>4, <2>5, <3>1, <3>4, <3>5, KeptAt DEF InGoodOrder
  <2>8. QED
    BY <2>6, <2>7
<1>3. QED
  BY <1>1, <1>2

(* Discarding a job touches no row.                                        *)
LEMMA DiscardKeeps ==
  ASSUME NEW d, NEW w
  PROVE  /\ OrderKept(d) => OrderKept(DiscardJob(d, w))
         /\ StepKept(d) => StepKept(DiscardJob(d, w))
<1>1. DiscardJob(d, w).state = d.state /\ DiscardJob(d, w).child = d.child
  BY DEF DiscardJob
<1>2. QED
  BY <1>1, KeptElsewhere

LEMMA ThenDiscardKeeps ==
  ASSUME NEW d, OrderKept(d), StepKept(d), NEW w, NEW c,
         \/ c = <<>>
         \/ \E e : c = <<e>>
         \/ \E e, f : c = <<e, f>>,
         \A i \in 1 .. Len(c) : OrderKept(c[i]),
         c # <<>> => StepKept(c[Len(c)])
  PROVE  LET t == ThenDiscard(d, c, w)
         IN  /\ Len(t) \in Nat /\ (t # <<>> => Len(t) > 0)
             /\ \A i \in 1 .. Len(t) : OrderKept(t[i])
             /\ t # <<>> => StepKept(t[Len(t)])
<1> DEFINE l == LastOf(d, c)
           g == DiscardJob(l, w)
           t == ThenDiscard(d, c, w)
<1>1. t = IF w \in l.jobs THEN Append(c, g) ELSE c
  BY DEF ThenDiscard
<1>2. OrderKept(l) /\ StepKept(l)
  BY DEF LastOf
<1>3. OrderKept(g) /\ StepKept(g)
  BY <1>2, DiscardKeeps
<1> HIDE DEF l, g
<1>4. CASE w \notin l.jobs
  <2>1. t = c
    BY <1>1, <1>4
  <2>2. Len(c) \in Nat /\ (c # <<>> => Len(c) > 0)
    OBVIOUS
  <2> HIDE DEF t
  <2>3. QED
    BY <2>1, <2>2 DEF t
<1>5. CASE w \in l.jobs
  <2>1. t = Append(c, g)
    BY <1>1, <1>5
  <2> HIDE DEF t
  <2>2. Len(t) = Len(c) + 1 /\ t[Len(t)] = g /\ (\A i \in 1 .. Len(c) : t[i] = c[i])
        /\ Len(c) \in Nat
    <3>1. CASE c = <<>>
      BY <3>1, <2>1
    <3>2. CASE \E e : c = <<e>>
      BY <3>2, <2>1
    <3>3. CASE \E e, f : c = <<e, f>>
      BY <3>3, <2>1
    <3>4. QED
      BY <3>1, <3>2, <3>3
  <2>3. Len(t) \in Nat /\ Len(t) > 0
    BY <2>2
  <2>4. \A i \in 1 .. Len(t) : OrderKept(t[i])
    BY <1>3, <2>2
  <2>5. QED
    BY <1>3, <2>2, <2>3, <2>4 DEF t
<1>6. QED
  BY <1>4, <1>5

LEMMA PublishKeeps ==
  ASSUME NEW d, InGoodOrder(d), NEW w \in Units, Active(d, w),
         w \in Parts => d.state[w[1]] # "Queued"
  PROVE  LET c == PublishCommits(d, w)
         IN  /\ \/ \E e : c = <<e>>
                \/ \E e, f : c = <<e, f>>
             /\ \A i \in 1 .. Len(c) : OrderKept(c[i])
             /\ StepKept(c[Len(c)])
<1> DEFINE u == w[1]
           e == [d EXCEPT !.audio = @ \cup {w}]
           f == TransitionSegment(e, w, "Ready")
           g == Transition(f, u, "Ready")
           h == Transition(e, u, "Ready")
           c == PublishCommits(d, w)
<1>1. /\ e.state = d.state /\ e.child = d.child
      /\ e.child \in [Parts -> State \cup {Absent}] /\ e.state \in [Utts -> State \cup {Absent}]
      /\ OrderKept(e) /\ StepKept(e) /\ OnlyAt(d, e, u) /\ u \in Utts
  <2>1. e.state = d.state /\ e.child = d.child
    OBVIOUS
  <2>2. QED
    BY <2>1, KeptElsewhere, UnitShape DEF InGoodOrder, DbInv, Database, OnlyAt, SameRows
<1>2. c = IF w \in d.jobs THEN <<DiscardJob(e, w)>>
          ELSE IF w[2] = Whole THEN <<h>>
          ELSE IF w[2] = 0 /\ d.state[u] = "Synthesizing" THEN <<f, g>> ELSE <<f>>
  BY DEF PublishCommits
<1>3. CASE w \in d.jobs
  <2> DEFINE j == DiscardJob(e, w)
  <2>1. OrderKept(j) /\ StepKept(j)
    BY <1>1, DiscardKeeps
  <2>2. c = <<j>>
    BY <1>2, <1>3
  <2> HIDE DEF j, c
  <2>3. Len(c) = 1 /\ c[1] = j
    BY <2>2
  <2>4. QED
    BY <2>1, <2>2, <2>3 DEF c
<1>4. CASE w \notin d.jobs /\ w[2] = Whole
  <2>1. u \notin Composite
    BY <1>4, UnitShape
  <2> HIDE DEF e
  <2>2. h.state = [e.state EXCEPT ![u] = "Ready"] /\ \A p \in Parts : h.child[p] = e.child[p]
    BY StateFacts DEF Transition
  <2>3. OnlyAt(e, h, u)
    BY <1>1, <2>2, UnitShape DEF OnlyAt, SameRows, Composite
  <2>4. OrderKept(h) /\ StepKept(h)
    BY <1>1, <2>1, <2>3, KeptAt
  <2>5. c = <<h>>
    BY <1>2, <1>4
  <2> HIDE DEF h, c
  <2>6. Len(c) = 1 /\ c[1] = h
    BY <2>5
  <2>7. QED
    BY <2>4, <2>5, <2>6 DEF c
<1>5. CASE w \notin d.jobs /\ w[2] # Whole
  <2>1. w \in Parts /\ w \in ChildrenOf(u) /\ u \in Composite /\ d.state[u] # "Queued"
        /\ d.child[w] = "Synthesizing" /\ IsLive(d, u)
    BY <1>5, UnitShape DEF Active, UnitState
  <2> HIDE DEF e
  <2>2. /\ OnlyAt(e, f, u) /\ f.state = e.state /\ f.child[w] = "Ready"
        /\ \A q \in Parts \ {w} : f.child[q] = e.child[q]
    BY <1>1, <2>1, SegmentRows
  <2>3. OnlyAt(d, f, u)
    BY <1>1, <2>2, OnlyAtTrans
  <2>4. \A q \in ChildrenOf(u) \ {w} : f.child[q] = d.child[q]
    BY <1>1, <2>2, UnitShape
  <2> HIDE DEF f
  <2>5. /\ g.state = [f.state EXCEPT ![u] = "Ready"]
        /\ \A p \in Parts : g.child[p] = f.child[p]
    BY StateFacts DEF Transition
  <2>6. g.state[u] = "Ready" /\ \A v \in Utts \ {u} : g.state[v] = f.state[v]
    BY <1>1, <2>2, <2>5
  <2>7. OnlyAt(f, g, u)
    BY <2>5, <2>6, UnitShape DEF OnlyAt, SameRows, Composite
  <2>8. OnlyAt(d, g, u)
    BY <2>3, <2>7, OnlyAtTrans
  <2>9. g.child[w] = "Ready" /\ \A q \in ChildrenOf(u) \ {w} : g.child[q] = d.child[q]
    BY <2>1, <2>2, <2>4, <2>5, UnitShape
  <2> HIDE DEF g
  <2>10. Orderly(g, u) /\ InStep(g, u)
    BY <2>1, <2>6, <2>9, ReadyKeeps
  <2>11. /\ Orderly(f, u)
         /\ ~(w[2] = 0 /\ d.state[u] = "Synthesizing") => InStep(f, u)
    BY <1>1, <2>1, <2>2, <2>4, ReadyKeeps
  <2>12. OrderKept(g) /\ StepKept(g) /\ OrderKept(f)
         /\ (~(w[2] = 0 /\ d.state[u] = "Synthesizing") => StepKept(f))
    BY <2>3, <2>8, <2>10, <2>11, KeptAt DEF InGoodOrder
  <2>13. c = IF w[2] = 0 /\ d.state[u] = "Synthesizing" THEN <<f, g>> ELSE <<f>>
    BY <1>2, <1>5
  <2> HIDE DEF c
  <2>14. CASE w[2] = 0 /\ d.state[u] = "Synthesizing"
    <3>1. c = <<f, g>> /\ Len(c) = 2 /\ c[1] = f /\ c[2] = g
      BY <2>13, <2>14
    <3>2. QED
      BY <2>12, <3>1 DEF c
  <2>15. CASE ~(w[2] = 0 /\ d.state[u] = "Synthesizing")
    <3>1. c = <<f>> /\ Len(c) = 1 /\ c[1] = f
      BY <2>13, <2>15
    <3>2. QED
      BY <2>12, <2>15, <3>1 DEF c
  <2>16. QED
    BY <2>14, <2>15
<1>6. QED
  BY <1>3, <1>4, <1>5

(* A chunk that fails takes its document with it; between the two commits  *)
(* the document has a failed chunk, which recovery sees.                   *)
LEMMA FailKeeps ==
  ASSUME NEW d, InGoodOrder(d), NEW w \in Units, Active(d, w)
  PROVE  LET c == FailCommits(d, w)
         IN  /\ \/ \E e : c = <<e>>
                \/ \E e, f : c = <<e, f>>
             /\ \A i \in 1 .. Len(c) : OrderKept(c[i])
             /\ StepKept(c[Len(c)])
<1> DEFINE u == w[1]
           e == FailedChild(d, w)
           f == Transition(e, u, "Failed")
           g == Transition(d, u, "Failed")
           c == FailCommits(d, w)
<1>1. u \in Utts /\ IsLive(d, u) /\ "Failed" \in Terminal /\ DbInv(d)
  BY UnitShape, StateFacts DEF Active, InGoodOrder
<1>2. c = IF w[2] = Whole THEN <<g>> ELSE IF IsLive(e, u) THEN <<e, f>> ELSE <<e>>
  BY DEF FailCommits
<1>3. CASE w[2] = Whole
  <2>1. OrderKept(g) /\ StepKept(g)
    BY <1>1, SettleKeeps
  <2> HIDE DEF g, c
  <2>2. c = <<g>> /\ Len(c) = 1 /\ c[1] = g
    BY <1>2, <1>3
  <2>3. QED
    BY <2>1, <2>2 DEF c
<1>4. CASE w[2] # Whole
  <2> DEFINE failing == {"Synthesizing"} \cup (IF w \in d.jobs THEN PlaybackStates ELSE {})
             b == IF d.child[w] \in failing THEN TransitionSegment(d, w, "Failed") ELSE d
  <2>1. w \in Parts /\ w \in ChildrenOf(u) /\ u \in Composite /\ d.child[w] = UnitState(d, w)
    BY <1>4, UnitShape DEF UnitState
  <2>2. d.child[w] \in failing
    <3>1. CASE w \in d.jobs
      <4>1. d.child[w] \notin Terminal \cup Unmade /\ d.child[w] \in State \cup {Absent}
        BY <1>1, <2>1, <3>1 DEF Active, DbInv, Advertised, Database
      <4>2. QED
        BY <3>1, <4>1, StateFacts
    <3>2. CASE w \notin d.jobs
      BY <2>1, <3>2 DEF Active
    <3>3. QED
      BY <3>1, <3>2
  <2>3. b = TransitionSegment(d, w, "Failed")
    BY <2>2
  <2>4. /\ e.child = [p \in Parts |-> IF p[1] = u /\ b.child[p] \in {"Queued", "Synthesizing", "Ready"}
                                        THEN "Cancelled" ELSE b.child[p]]
        /\ e.state = b.state
    BY DEF FailedChild
  <2> HIDE DEF b, e
  <2>5. OnlyAt(d, b, u) /\ b.state = d.state /\ b.child[w] = "Failed"
    BY <1>1, <2>1, <2>3, SegmentRows DEF DbInv, Database
  <2>6. OnlyAt(b, e, u) /\ e.child[w] = "Failed"
    BY <2>1, <2>4, <2>5, UnitShape DEF OnlyAt, SameRows, Composite
  <2>7. OnlyAt(d, e, u) /\ HasFailedChild(e, u)
    BY <2>1, <2>5, <2>6, OnlyAtTrans DEF HasFailedChild
  <2>8. Orderly(e, u) /\ IsLive(e, u)
    BY <1>1, <2>4, <2>5, <2>7 DEF Orderly, IsLive
  <2>9. f.state = [e.state EXCEPT ![u] = "Failed"]
        /\ \A p \in Parts : p[1] # u => f.child[p] = e.child[p]
    BY DEF Transition
  <2> HIDE DEF f
  <2>10. e.state \in [Utts -> State \cup {Absent}]
    BY <1>1, <2>4, <2>5 DEF DbInv, Database
  <2>11. f.state[u] = "Failed" /\ OnlyAt(e, f, u)
    BY <1>1, <2>9, <2>10, UnitShape DEF OnlyAt, SameRows, Composite
  <2>12. OnlyAt(d, f, u)
    BY <2>7, <2>11, OnlyAtTrans
  <2>13. ~IsLive(f, u)
    BY <1>1, <2>11 DEF IsLive, Live
  <2>14. OrderKept(f) /\ StepKept(f) /\ OrderKept(e)
    BY <2>7, <2>8, <2>12, <2>13, SettledKeeps, KeptAt DEF InGoodOrder
  <2> HIDE DEF c
  <2>15. c = <<e, f>> /\ Len(c) = 2 /\ c[1] = e /\ c[2] = f
    BY <1>2, <1>4, <2>8
  <2>16. QED
    BY <2>14, <2>15 DEF c
<1>5. QED
  BY <1>3, <1>4

-----------------------------------------------------------------------------
(* The rows playback writes.                                               *)
LEMMA ParentGoesOn ==
  ASSUME NEW d, InGoodOrder(d), NEW u \in Utts, d.state[u] \in PlaybackStates,
         NEW to \in {"Playing", "Paused"}
  PROVE  InGoodOrder(Transition(d, u, to)) /\ Transition(d, u, to).child = d.child
         /\ Transition(d, u, to).state[u] = to
<1> DEFINE e == Transition(d, u, to)
<1>1. to \in PlaybackMoves /\ to \notin Terminal /\ to \notin InputStates /\ IsLive(d, u)
      /\ DbInv(d)
  BY StateFacts DEF PlaybackMoves, InputStates, IsLive, InGoodOrder
<1>2. /\ DbInv(e) /\ OnlyAt(d, e, u) /\ e.state[u] = to /\ e.child = d.child
  <2>1. DbInv(e)
    BY <1>1, ParentMove
  <2>2. OnlyAt(d, e, u) /\ e.state[u] = to /\ e.child = d.child
    BY <1>1, TransitionRows
  <2>3. QED
    BY <2>1, <2>2
<1> HIDE DEF e
<1>3. ASSUME u \in Composite PROVE Orderly(e, u) /\ InStep(e, u)
  <2>1. SpokenInOrder(d, u) /\ ~HasFailedChild(d, u) /\ Unfinished(d, u) # {}
    BY <1>1, <1>3, LiveFacts
  <2>2. SpokenInOrder(e, u) /\ ~HasFailedChild(e, u) /\ Unfinished(e, u) # {}
    BY <1>2, <2>1 DEF SpokenInOrder, HasFailedChild, Unfinished
  <2>3. e.state[u] \notin InputStates \cup {"Ready", "Synthesizing"}
    BY <1>1, <1>2
  <2>4. QED
    BY <2>2, <2>3 DEF Orderly, InStep, FirstAhead, ReadyOwes, In
<1>4. OrderKept(e) /\ StepKept(e)
  BY <1>2, <1>3, KeptAt DEF InGoodOrder
<1>5. QED
  BY <1>2, <1>4 DEF InGoodOrder, e

(* The chunk in turn goes on, and all before it are settled.               *)
LEMMA ChildGoesOn ==
  ASSUME NEW d, InGoodOrder(d), NEW p \in Parts, NEW to \in PlaybackMoves,
         d.child[p] \in PlaybackStates, d.state[p[1]] \in {"Playing", "Paused"},
         \A q \in ChildrenOf(p[1]) : q[2] < p[2] => d.child[q] \in Terminal
  PROVE  LET e == TransitionSegment(d, p, to)
         IN  /\ DbInv(e) /\ OnlyAt(d, e, p[1]) /\ OrderKept(e)
             /\ to # "Failed" /\ Unfinished(e, p[1]) # {} => StepKept(e)
<1> DEFINE e == TransitionSegment(d, p, to)
           u == p[1]
<1>1. /\ DbInv(e) /\ OnlyAt(d, e, u) /\ e.state = d.state /\ e.child[p] = to
      /\ \A q \in Parts \ {p} : e.child[q] = d.child[q]
  <2>1. DbInv(d) /\ d.child \in [Parts -> State \cup {Absent}]
    BY DEF InGoodOrder, DbInv, Database
  <2>2. DbInv(e)
    BY <2>1, ChildMove
  <2>3. /\ OnlyAt(d, e, u) /\ e.state = d.state /\ e.child[p] = to
        /\ \A q \in Parts \ {p} : e.child[q] = d.child[q]
    BY <2>1, SegmentRows
  <2>4. QED
    BY <2>2, <2>3
<1>2. p \in ChildrenOf(u) /\ u \in Composite /\ IsLive(d, u) /\ d.child[p] \notin Terminal
      /\ ChildrenOf(u) \subseteq Parts
  BY UnitShape, StateFacts DEF IsLive
<1> HIDE DEF e
<1>3. SpokenInOrder(d, u) /\ ~HasFailedChild(d, u)
  BY <1>2, LiveFacts
<1>4. SpokenInOrder(e, u)
  <2> SUFFICES ASSUME NEW q \in ChildrenOf(u), NEW r \in ChildrenOf(u), q[2] < r[2],
                      e.child[r] \in Terminal \cup {"Playing", "Paused"}
               PROVE  e.child[q] \in Terminal
    BY DEF SpokenInOrder
  <2>1. CASE r = p
    BY <1>1, <1>2, <2>1, UnitShape
  <2>2. CASE r # p /\ q # p
    BY <1>1, <1>2, <1>3, <2>2 DEF SpokenInOrder
  <2>3. CASE r # p /\ q = p
    <3>1. d.child[r] \in Terminal \cup {"Playing", "Paused"}
      BY <1>1, <1>2, <2>3
    <3>2. d.child[p] \in Terminal
      BY <1>3, <2>3, <3>1 DEF SpokenInOrder
    <3>3. QED
      BY <1>2, <3>2
  <2>4. QED
    BY <2>1, <2>2, <2>3
<1>5. e.state[u] \notin InputStates \cup {"Ready", "Synthesizing"}
  BY <1>1 DEF InputStates
<1>6. Orderly(e, u)
  BY <1>4, <1>5 DEF Orderly, FirstAhead, ReadyOwes, In
<1>7. ASSUME to # "Failed", Unfinished(e, u) # {} PROVE InStep(e, u)
  <2>1. ~HasFailedChild(e, u)
    BY <1>1, <1>2, <1>3, <1>7 DEF HasFailedChild
  <2>2. QED
    BY <1>5, <1>7, <2>1 DEF InStep, In
<1>8. QED
  BY <1>1, <1>2, <1>6, <1>7, KeptAt DEF InGoodOrder, e

LEMMA HoldKeeps ==
  ASSUME NEW d, InGoodOrder(d), NEW b \in BOOLEAN
  PROVE  InGoodOrder([d EXCEPT !.held = b])
<1> DEFINE e == [d EXCEPT !.held = b]
<1>1. e.state = d.state /\ e.child = d.child
  BY DEF InGoodOrder, DbInv, Database
<1>2. DbInv(e)
  BY HeldInv DEF InGoodOrder, Advances
<1>3. QED
  BY <1>1, <1>2, KeptElsewhere DEF InGoodOrder

LEMMA PauseKeeps ==
  ASSUME NEW d, InGoodOrder(d), NEW u \in Utts
  PROVE  InGoodOrder(ChildPaused(d, u))
<1> DEFINE e == ChildPaused(d, u)
<1>1. /\ e.child = [p \in Parts |-> IF p[1] = u /\ d.child[p] = "Playing"
                                      THEN "Paused" ELSE d.child[p]]
      /\ e.state = d.state /\ DbInv(e)
  <2>1. DbInv(e)
    BY ChildPausedInv DEF InGoodOrder
  <2>2. QED
    BY <2>1 DEF ChildPaused, InGoodOrder, DbInv, Database
<1>2. OnlyAt(d, e, u)
  BY <1>1, UnitShape DEF OnlyAt, SameRows, Composite
<1> HIDE DEF e
<1>3. ASSUME u \in Composite, IsLive(d, u) PROVE Orderly(e, u) /\ InStep(e, u)
  <2>1. /\ \A p \in ChildrenOf(u) :
             e.child[p] = IF d.child[p] = "Playing" THEN "Paused" ELSE d.child[p]
        /\ "Paused" \notin Terminal /\ "Playing" \notin Terminal
        /\ "Paused" \notin InputStates /\ "Playing" \notin InputStates
    BY <1>1, UnitShape, StateFacts DEF InputStates
  <2>2. /\ FirstAhead(d, u) /\ ReadyOwes(d, u) /\ SpokenInOrder(d, u)
        /\ ~HasFailedChild(d, u) /\ Unfinished(d, u) # {}
        /\ In(d, u, InputStates) => d.child[<<u, 0>>] \in InputStates
        /\ d.state[u] = "Synthesizing" => d.child[<<u, 0>>] = "Synthesizing"
    BY <1>3, LiveFacts
  <2>3. /\ ~HasFailedChild(e, u) /\ Unfinished(e, u) = Unfinished(d, u)
    BY <2>1, <2>2 DEF HasFailedChild, Unfinished
  <2>4. SpokenInOrder(e, u)
    BY <2>1, <2>2 DEF SpokenInOrder
  <2>5. <<u, 0>> \in ChildrenOf(u)
    BY <1>3, FirstChunk
  <2>6. FirstAhead(e, u) /\ ReadyOwes(e, u)
    BY <1>1, <2>1, <2>2, <2>3, <2>5 DEF FirstAhead, ReadyOwes, In
  <2>7. InStep(e, u)
    BY <1>1, <2>1, <2>2, <2>3, <2>5 DEF InStep, In
  <2>8. QED
    BY <2>4, <2>6, <2>7 DEF Orderly
<1>4. u \in Composite => Orderly(e, u) /\ InStep(e, u)
  BY <1>1, <1>3, SettledKeeps DEF IsLive
<1>5. QED
  BY <1>1, <1>2, <1>4, KeptAt DEF InGoodOrder, e

(* A document settled after what was written to its own rows.              *)
LEMMA SettleAfter ==
  ASSUME NEW d, InGoodOrder(d), NEW u \in Utts, NEW e, DbInv(e), OnlyAt(d, e, u),
         NEW to \in Terminal
  PROVE  OrderKept(Transition(e, u, to)) /\ StepKept(Transition(e, u, to))
<1> DEFINE f == Transition(e, u, to)
<1>1. OnlyAt(e, f, u) /\ ~IsLive(f, u)
  BY TransitionRows
<1>2. OnlyAt(d, f, u)
  BY <1>1, OnlyAtTrans
<1>3. QED
  BY <1>1, <1>2, SettledKeeps, KeptAt DEF InGoodOrder

LEMMA OneKept ==
  ASSUME phase = "up", InGoodOrder(db), NEW e, OrderKept(e), StepKept(e), Writes(<<e>>)
  PROVE  Kept'
<1> DEFINE c == <<e>>
<1>1. Len(c) = 1 /\ c[1] = e
  OBVIOUS
<1>2. (db' = LastOf(db, c) /\ phase' = phase) \/ DiesAmid(c)
  BY DEF Writes
<1> HIDE DEF c
<1>3. QED
  BY <1>1, <1>2, CommitsKeep DEF InGoodOrder

LEMMA TwoKept ==
  ASSUME phase = "up", InGoodOrder(db), NEW e, NEW f, OrderKept(e), OrderKept(f), StepKept(f),
         Writes(<<e, f>>)
  PROVE  Kept'
<1> DEFINE c == <<e, f>>
<1>1. Len(c) = 2 /\ c[1] = e /\ c[2] = f
  OBVIOUS
<1>2. (db' = LastOf(db, c) /\ phase' = phase) \/ DiesAmid(c)
  BY DEF Writes
<1> HIDE DEF c
<1>3. QED
  BY <1>1, <1>2, CommitsKeep DEF InGoodOrder

LEMMA ThreeKept ==
  ASSUME phase = "up", InGoodOrder(db), NEW e, NEW f, NEW g,
         OrderKept(e), OrderKept(f), OrderKept(g), StepKept(g), Writes(<<e, f, g>>)
  PROVE  Kept'
<1> DEFINE c == <<e, f, g>>
<1>1. Len(c) = 3 /\ c[1] = e /\ c[2] = f /\ c[3] = g
  OBVIOUS
<1>2. (db' = LastOf(db, c) /\ phase' = phase) \/ DiesAmid(c)
  BY DEF Writes
<1> HIDE DEF c
<1>3. QED
  BY <1>1, <1>2, CommitsKeep, SMTT(60) DEF InGoodOrder

LEMMA BeginKeeps ==
  ASSUME phase = "up", InGoodOrder(db), NEW w \in Units, Begin(w) PROVE Kept'
<1> DEFINE u == w[1]
           e == IF db.state[u] = "Playing" THEN db ELSE Transition(db, u, "Playing")
<1>1. u \in Utts /\ db.state[u] \in PlaybackStates
  BY UnitShape DEF Begin, In
<1>2. InGoodOrder(e) /\ e.child = db.child /\ e.state[u] = "Playing"
  BY <1>1, ParentGoesOn
<1>3. CASE w[2] = Whole
  <2>1. Writes(<<e>>)
    BY <1>3 DEF Begin
  <2> HIDE DEF e
  <2>2. QED
    BY <1>2, <2>1, OneKept DEF InGoodOrder
<1>4. CASE w[2] # Whole
  <2> DEFINE f == TransitionSegment(e, w, "Playing")
  <2>1. /\ Writes(IF e = db THEN <<f>> ELSE <<e, f>>)
        /\ db.child[w] \in {"Ready", "Paused"} /\ IsNextUnfinished(db, w)
    BY <1>4 DEF Begin
  <2>2. w \in Parts
    BY <1>4, UnitShape
  <2>3. \A q \in ChildrenOf(u) : q[2] < w[2] => db.child[q] \in Terminal
    BY <2>1, <2>2, UnitShape DEF IsNextUnfinished, Unfinished
  <2> HIDE DEF e
  <2>4. "Playing" \in PlaybackMoves /\ e.child[w] \in PlaybackStates
    BY <1>2, <2>1, StateFacts DEF PlaybackMoves
  <2>5. OrderKept(f) /\ (Unfinished(f, u) # {} => StepKept(f))
    BY <1>2, <2>2, <2>3, <2>4, ChildGoesOn
  <2>6. w \in Unfinished(f, u)
    <3>1. e.child \in [Parts -> State \cup {Absent}]
      BY <1>2 DEF InGoodOrder, DbInv, Database
    <3>2. f.child[w] = "Playing"
      BY <2>2, <3>1, SegmentRows
    <3>3. QED
      BY <2>2, <3>2, UnitShape, StateFacts DEF Unfinished
  <2> HIDE DEF f
  <2>7. QED
    BY <1>2, <2>1, <2>5, <2>6, OneKept, TwoKept DEF InGoodOrder
<1>5. QED
  BY <1>3, <1>4

LEMMA HoldingKeeps ==
  ASSUME phase = "up", InGoodOrder(db), Hold PROVE Kept'
<1> DEFINE e == [db EXCEPT !.held = TRUE]
<1>1. InGoodOrder(e) /\ e.state = db.state
  <2>1. TRUE \in BOOLEAN
    OBVIOUS
  <2>2. InGoodOrder(e)
    BY <2>1, HoldKeeps
  <2>3. QED
    BY <2>2 DEF InGoodOrder, DbInv, Database
<1>2. CASE Writes(<<e>>)
  BY <1>1, <1>2, OneKept DEF InGoodOrder
<1>3. CASE \E u \in Utts :
             /\ db.state[u] = "Playing"
             /\ LET f == ChildPaused(e, u)
                IN  Writes(IF f = e THEN <<e, Transition(e, u, "Paused")>>
                                    ELSE <<e, f, Transition(f, u, "Paused")>>)
  <2>1. PICK u \in Utts :
             /\ db.state[u] = "Playing"
             /\ LET f == ChildPaused(e, u)
                IN  Writes(IF f = e THEN <<e, Transition(e, u, "Paused")>>
                                    ELSE <<e, f, Transition(f, u, "Paused")>>)
    BY <1>3
  <2> DEFINE f == ChildPaused(e, u)
             g == Transition(f, u, "Paused")
  <2>2. Writes(IF f = e THEN <<e, g>> ELSE <<e, f, g>>)
    BY <2>1
  <2> HIDE DEF e
  <2>3. InGoodOrder(f) /\ f.state = e.state
    BY <1>1, PauseKeeps, ChildPausedInv DEF InGoodOrder
  <2> HIDE DEF f
  <2>4. f.state[u] \in PlaybackStates
    BY <1>1, <2>1, <2>3, StateFacts
  <2>5. InGoodOrder(g)
    BY <2>3, <2>4, ParentGoesOn
  <2> HIDE DEF g
  <2>6. QED
    BY <1>1, <2>2, <2>3, <2>5, TwoKept, ThreeKept DEF InGoodOrder
<1>4. QED
  BY <1>2, <1>3 DEF Hold

LEMMA SuspendKeeps ==
  ASSUME phase = "up", InGoodOrder(db), NEW u \in Utts, Suspend(u) PROVE Kept'
<1> DEFINE f == ChildPaused(db, u)
           g == Transition(f, u, "Paused")
<1>1. db.state[u] = "Playing" /\ Writes(<<g>>)
  BY DEF Suspend
<1>2. InGoodOrder(f) /\ f.state = db.state
  BY PauseKeeps, ChildPausedInv DEF InGoodOrder
<1> HIDE DEF f
<1>3. InGoodOrder(g)
  BY <1>1, <1>2, ParentGoesOn, StateFacts
<1> HIDE DEF g
<1>4. QED
  BY <1>1, <1>3, OneKept DEF InGoodOrder

LEMMA ResumeKeeps ==
  ASSUME phase = "up", InGoodOrder(db), NEW u \in Utts, Resume(u) PROVE Kept'
<1> DEFINE e == [db EXCEPT !.held = FALSE]
           f == Transition(e, u, "Playing")
           g(w) == TransitionSegment(f, w, "Playing")
           h(w) == TransitionSegment(e, w, "Playing")
<1>1. db.state[u] = "Paused" /\ "Playing" \in PlaybackMoves /\ "Playing" \notin Terminal
  BY StateFacts DEF Resume, PlaybackMoves
<1>2. \/ Writes(<<e, f>>)
      \/ \E w \in Parts : /\ w[1] = u /\ db.child[w] = "Paused" /\ IsNextUnfinished(db, w)
                          /\ Writes(<<e, f, g(w)>>) \/ Writes(<<e, h(w), g(w)>>)
  BY UnitShape, ZenonT(40) DEF Resume, Unfinished
<1>3. InGoodOrder(e) /\ e.state = db.state /\ e.child = db.child
  <2>1. FALSE \in BOOLEAN
    OBVIOUS
  <2>2. InGoodOrder(e)
    BY <2>1, HoldKeeps
  <2>3. QED
    BY <2>2 DEF InGoodOrder, DbInv, Database
<1> HIDE DEF e
<1>4. InGoodOrder(f) /\ f.child = e.child /\ f.state[u] = "Playing"
  BY <1>1, <1>3, StateFacts, ParentGoesOn
<1> HIDE DEF f
<1>5. CASE Writes(<<e, f>>)
  BY <1>3, <1>4, <1>5, TwoKept DEF InGoodOrder
<1>6. ASSUME NEW w \in Parts, w[1] = u, db.child[w] = "Paused", IsNextUnfinished(db, w),
             Writes(<<e, f, g(w)>>) \/ Writes(<<e, h(w), g(w)>>)
      PROVE  Kept'
  <2>1. e.child[w] \in PlaybackStates /\ f.child[w] \in PlaybackStates
    BY <1>3, <1>4, <1>6, StateFacts
  <2>2. \A q \in ChildrenOf(u) : q[2] < w[2] => db.child[q] \in Terminal
    BY <1>6, UnitShape DEF IsNextUnfinished, Unfinished
  <2>3. OrderKept(g(w)) /\ (Unfinished(g(w), u) # {} => StepKept(g(w)))
    BY <1>1, <1>3, <1>4, <1>6, <2>1, <2>2, ChildGoesOn
  <2>4. OrderKept(h(w))
    BY <1>1, <1>3, <1>6, <2>1, <2>2, ChildGoesOn
  <2>5. w \in Unfinished(g(w), u)
    <3>1. f.child \in [Parts -> State \cup {Absent}]
      BY <1>4 DEF InGoodOrder, DbInv, Database
    <3>2. g(w).child[w] = "Playing"
      BY <1>6, <3>1, SegmentRows
    <3>3. QED
      BY <1>1, <1>6, <3>2, UnitShape DEF Unfinished
  <2> HIDE DEF g, h
  <2>6. QED
    BY <1>3, <1>4, <1>6, <2>3, <2>4, <2>5, ThreeKept DEF InGoodOrder
<1>7. QED
  BY <1>2, <1>5, <1>6

(* The sounding chunk: all before it are settled.                          *)
LEMMA SoundingGoesOn ==
  ASSUME NEW d, InGoodOrder(d), NEW p \in Parts, d.child[p] = "Playing",
         d.state[p[1]] = "Playing", NEW to \in PlaybackMoves
  PROVE  LET e == TransitionSegment(d, p, to)
         IN  /\ DbInv(e) /\ OnlyAt(d, e, p[1]) /\ OrderKept(e)
             /\ to # "Failed" /\ Unfinished(e, p[1]) # {} => StepKept(e)
<1>1. p \in ChildrenOf(p[1]) /\ p[1] \in Composite
  BY UnitShape
<1>2. SpokenInOrder(d, p[1])
  BY <1>1, LiveFacts, StateFacts DEF IsLive
<1>3. \A q \in ChildrenOf(p[1]) : q[2] < p[2] => d.child[q] \in Terminal
  BY <1>1, <1>2 DEF SpokenInOrder
<1>4. d.child[p] \in PlaybackStates
  BY StateFacts
<1>5. QED
  BY <1>3, <1>4, ChildGoesOn

LEMMA EndOfClipKeeps ==
  ASSUME phase = "up", InGoodOrder(db), NEW w \in Units, EndOfClip(w) PROVE Kept'
<1> DEFINE u == w[1]
           e == TransitionSegment(db, w, "Played")
           f == Transition(db, u, "Played")
           g == Transition(e, u, "Played")
<1>1. u \in Utts /\ "Played" \in Terminal /\ "Played" \in PlaybackMoves
  BY UnitShape, StateFacts DEF PlaybackMoves
<1>2. CASE w[2] = Whole
  <2>1. Writes(<<f>>)
    BY <1>2 DEF EndOfClip
  <2>2. OrderKept(f) /\ StepKept(f)
    BY <1>1, SettleKeeps
  <2> HIDE DEF f
  <2>3. QED
    BY <2>1, <2>2, OneKept
<1>3. CASE w[2] # Whole
  <2>1. w \in Parts /\ db.child[w] = "Playing" /\ db.state[u] = "Playing"
    BY <1>3, UnitShape DEF EndOfClip, UnitState
  <2>2. /\ DbInv(e) /\ OnlyAt(db, e, u) /\ OrderKept(e)
        /\ Unfinished(e, u) # {} => StepKept(e)
    BY <1>1, <2>1, SoundingGoesOn
  <2>3. OrderKept(g) /\ StepKept(g)
    BY <1>1, <2>2, SettleAfter
  <2>4. Writes(IF Unfinished(e, u) = {} THEN <<e, g>> ELSE <<e>>)
    <3>1. CASE Unfinished(e, u) = {}
      BY <1>3, <3>1 DEF EndOfClip
    <3>2. CASE Unfinished(e, u) # {}
      BY <1>3, <3>2 DEF EndOfClip
    <3>3. QED
      BY <3>1, <3>2
  <2> HIDE DEF e, g
  <2>5. QED
    BY <2>2, <2>3, <2>4, OneKept, TwoKept
<1>4. QED
  BY <1>2, <1>3

LEMMA DeviceErrorKeeps ==
  ASSUME phase = "up", InGoodOrder(db), NEW w \in Units, DeviceError(w) PROVE Kept'
<1> DEFINE u == w[1]
           e == TransitionSegment(db, w, "Failed")
           f == Transition(db, u, "Failed")
           g == Transition(e, u, "Failed")
<1>1. u \in Utts /\ "Failed" \in Terminal /\ "Failed" \in PlaybackMoves
  BY UnitShape, StateFacts DEF PlaybackMoves
<1>2. CASE w[2] = Whole
  <2>1. Writes(<<f>>)
    BY <1>2 DEF DeviceError
  <2>2. OrderKept(f) /\ StepKept(f)
    BY <1>1, SettleKeeps
  <2> HIDE DEF f
  <2>3. QED
    BY <2>1, <2>2, OneKept
<1>3. CASE w[2] # Whole
  <2>1. w \in Parts /\ db.child[w] = "Playing" /\ db.state[u] = "Playing"
    BY <1>3, UnitShape DEF DeviceError, UnitState
  <2>2. DbInv(e) /\ OnlyAt(db, e, u) /\ OrderKept(e)
    BY <1>1, <2>1, SoundingGoesOn
  <2>3. OrderKept(g) /\ StepKept(g)
    BY <1>1, <2>2, SettleAfter
  <2>4. Writes(<<e, g>>)
    BY <1>3 DEF DeviceError
  <2> HIDE DEF e, g
  <2>5. QED
    BY <2>2, <2>3, <2>4, TwoKept
<1>4. QED
  BY <1>2, <1>3

(* The chunk after the one given up has not been spoken yet.               *)
LEMMA NextSegmentKeeps ==
  ASSUME phase = "up", InGoodOrder(db), NEW p \in Parts, NextSegment(p) PROVE Kept'
<1> DEFINE u == p[1]
           e == TransitionSegment(db, p, "Skipped")
           next == <<u, p[2] + 1>>
<1>1. /\ db.state[u] = "Playing" /\ db.child[p] = "Playing" /\ p[2] + 1 < Chunks[u]
      /\ Writes(<<e>>) /\ "Skipped" \in PlaybackMoves
  BY DEF NextSegment, PlaybackMoves
<1>2. u \in Composite /\ p \in ChildrenOf(u) /\ p[2] \in Nat /\ u \in Utts
  BY UnitShape
<1>3. next \in ChildrenOf(u) /\ next \in Parts /\ next[2] = p[2] + 1 /\ next # p
  <2>1. Chunks[u] \in Nat
    BY <1>2, StoreAssumption
  <2>2. next \in ChildrenOf(u)
    BY <1>1, <1>2, <2>1 DEF ChildrenOf
  <2>3. QED
    BY <1>2, <2>2, UnitShape
<1>4. SpokenInOrder(db, u)
  BY <1>1, <1>2, LiveFacts, StateFacts DEF IsLive
<1>5. db.child[next] \notin Terminal
  <2>1. p[2] < next[2]
    BY <1>2, <1>3
  <2>2. db.child[p] \notin Terminal
    BY <1>1, StateFacts
  <2>3. QED
    BY <1>2, <1>3, <1>4, <2>1, <2>2 DEF SpokenInOrder
<1>6. OrderKept(e) /\ (Unfinished(e, u) # {} => StepKept(e))
  BY <1>1, SoundingGoesOn
<1>7. next \in Unfinished(e, u)
  <2>1. db.child \in [Parts -> State \cup {Absent}]
    BY DEF InGoodOrder, DbInv, Database
  <2>2. e.child[next] = db.child[next]
    BY <1>3, <2>1, SegmentRows
  <2>3. QED
    BY <1>3, <1>5, <2>2 DEF Unfinished
<1> HIDE DEF e
<1>8. QED
  BY <1>1, <1>6, <1>7, OneKept

LEMMA SkipKeeps ==
  ASSUME phase = "up", InGoodOrder(db), NEW u \in Utts, Skip(u) PROVE Kept'
<1>1. PICK w \in ChildrenOf(u) \cup {<<u, Whole>>} : Writes(<<SkipUtterance(db, u, w)>>)
  BY DEF Skip
<1> DEFINE e == IF w \in Parts /\ db.child[w] \in {"Playing", "Paused"}
                  THEN TransitionSegment(db, w, "Skipped") ELSE db
           f == Transition(e, u, "Skipped")
<1>2. "Skipped" \in Terminal /\ "Skipped" \in PlaybackMoves /\ w[1] = u /\ DbInv(db)
  BY UnitShape, StateFacts DEF PlaybackMoves, InGoodOrder
<1>3. DbInv(e) /\ OnlyAt(db, e, u)
  <2>1. CASE w \in Parts /\ db.child[w] \in {"Playing", "Paused"}
    <3>1. DbInv(TransitionSegment(db, w, "Skipped"))
      BY <1>2, <2>1, ChildMove, StateFacts
    <3>2. OnlyAt(db, TransitionSegment(db, w, "Skipped"), u)
      BY <1>2, <2>1, SegmentRows DEF DbInv, Database
    <3>3. QED
      BY <2>1, <3>1, <3>2
  <2>2. CASE ~(w \in Parts /\ db.child[w] \in {"Playing", "Paused"})
    <3>1. e = db
      BY <2>2
    <3> HIDE DEF e
    <3>2. QED
      BY <1>2, <3>1 DEF OnlyAt, SameRows
  <2>3. QED
    BY <2>1, <2>2
<1>4. Writes(<<f>>)
  BY <1>1 DEF SkipUtterance
<1> HIDE DEF e
<1>5. OrderKept(f) /\ StepKept(f)
  BY <1>2, <1>3, SettleAfter
<1> HIDE DEF f
<1>6. QED
  BY <1>4, <1>5, OneKept

LEMMA ReleaseHoldKeeps ==
  ASSUME phase = "up", InGoodOrder(db), ReleaseHold PROVE Kept'
<1> DEFINE e == [db EXCEPT !.held = FALSE]
<1>1. Writes(<<e>>) /\ FALSE \in BOOLEAN
  BY DEF ReleaseHold
<1>2. InGoodOrder(e)
  BY <1>1, HoldKeeps
<1> HIDE DEF e
<1>3. QED
  BY <1>1, <1>2, OneKept DEF InGoodOrder

LEMMA PlaybackKeeps ==
  ASSUME phase = "up", InGoodOrder(db), Playback PROVE Kept'
BY BeginKeeps, EndOfClipKeeps, DeviceErrorKeeps, NextSegmentKeeps, SkipKeeps, SuspendKeeps,
   ResumeKeeps, HoldingKeeps, ReleaseHoldKeeps DEF Playback

-----------------------------------------------------------------------------
LEMMA QueueKeeps ==
  ASSUME phase = "up", InGoodOrder(db),
         \/ \E u \in Utts : Submit(u) \/ Cancel(u)
         \/ \E states \in {InputStates, {"Ready"}, PendingStates} : Clear(states)
         \/ Reorder
         \/ FinishWarmup
  PROVE  Kept'
<1>1. ASSUME NEW u \in Utts, Submit(u) PROVE Kept'
  BY <1>1, SubmitKeeps DEF Submit, Kept
<1>2. ASSUME NEW u \in Utts, Cancel(u) PROVE Kept'
  BY <1>2, SettleKeeps, StateFacts DEF Cancel, Kept
<1>3. ASSUME NEW states, Clear(states) PROVE Kept'
  <2>1. \E rows \in SUBSET Utts : db' = CancelAll(db, rows)
    BY <1>3 DEF Clear
  <2>2. QED
    BY <2>1, CancelAllKeeps DEF Kept
<1>4. CASE Reorder
  <2>1. db'.state = db.state /\ db'.child = db.child
    BY <1>4 DEF Reorder, Reordered
  <2>2. QED
    BY <2>1, KeptElsewhere DEF Kept, InGoodOrder
<1>5. CASE FinishWarmup
  BY <1>5 DEF FinishWarmup, Kept, InGoodOrder
<1>6. QED
  BY <1>1, <1>2, <1>3, <1>4, <1>5

LEMMA PoolKeeps ==
  ASSUME IInv, ~CommitFaults, phase = "up", InGoodOrder(db), NEW k \in Workers, Pool(k)
  PROVE  Kept'
<1> DEFINE w == job[k].unit
<1>1. Busy(k) => w \in Units /\ db.state[w[1]] # "Queued"
  BY JobFacts DEF IInv, TypeOK, OwnersAreAwake
<1>2. CASE TakeJob(k)
  <2>1. PICK v \in Units : IsEarliest(db, Holding, v) /\ db' = Claim(db, v)
    BY <1>2 DEF TakeJob
  <2>2. ASSUME NEW u \in Composite, db.state[u] = "Queued", db.child[<<u, 0>>] = "Synthesizing"
        PROVE  FALSE
    <3>1. <<u, 0>> \in Units /\ UnitState(db, <<u, 0>>) = "Synthesizing"
      BY <2>2, FirstChunk, UnitShape DEF UnitState
    <3>2. PICK j \in Workers : Produces(j, <<u, 0>>)
      BY <3>1 DEF IInv, MakingHasWorkers
    <3>3. QED
      BY <2>2, <3>2 DEF Produces, IInv, OwnersAreAwake
  <2>3. QED
    BY <2>1, <2>2, ClaimKeeps DEF Kept
<1>3. CASE FirstBuffer(k)
  BY <1>3 DEF FirstBuffer, Kept, InGoodOrder
<1>4. CASE StreamReady(k)
  BY <1>1, <1>4, StreamKeeps DEF StreamReady, Kept
<1>5. CASE Publish(k)
  <2> DEFINE c == IF Active(db, w) THEN PublishCommits(db, w) ELSE <<>>
             t == ThenDiscard(db, c, w)
  <2>1. w \in Units /\ db.state[w[1]] # "Queued" /\ Complete(k, SuccessCommits(db, w))
    BY <1>1, <1>5 DEF Publish, Rendered
  <2>2. t = SuccessCommits(db, w)
    BY DEF SuccessCommits
  <2>3. /\ \/ c = <<>>
           \/ \E e : c = <<e>>
           \/ \E e, f : c = <<e, f>>
        /\ \A i \in 1 .. Len(c) : OrderKept(c[i])
        /\ c # <<>> => StepKept(c[Len(c)])
    BY <2>1, PublishKeeps
  <2> HIDE DEF c
  <2>4. /\ Len(t) \in Nat /\ (t # <<>> => Len(t) > 0)
        /\ \A i \in 1 .. Len(t) : OrderKept(t[i])
        /\ t # <<>> => StepKept(t[Len(t)])
    BY <2>3, ThenDiscardKeeps DEF InGoodOrder
  <2> HIDE DEF t
  <2>5. (db' = LastOf(db, t) /\ phase' = phase) \/ DiesAmid(t)
    BY <2>1, <2>2 DEF Complete
  <2>6. QED
    BY <2>4, <2>5, CommitsKeep DEF InGoodOrder
<1>6. CASE Fail(k)
  <2> DEFINE c == IF Active(db, w) THEN FailCommits(db, w) ELSE <<>>
             t == ThenDiscard(db, c, w)
  <2>1. w \in Units /\ Complete(k, FailureCommits(db, w))
    BY <1>1, <1>6 DEF Fail, RenderFailed
  <2>2. t = FailureCommits(db, w)
    BY DEF FailureCommits
  <2>3. /\ \/ c = <<>>
           \/ \E e : c = <<e>>
           \/ \E e, f : c = <<e, f>>
        /\ \A i \in 1 .. Len(c) : OrderKept(c[i])
        /\ c # <<>> => StepKept(c[Len(c)])
    BY <2>1, FailKeeps
  <2> HIDE DEF c
  <2>4. /\ Len(t) \in Nat /\ (t # <<>> => Len(t) > 0)
        /\ \A i \in 1 .. Len(t) : OrderKept(t[i])
        /\ t # <<>> => StepKept(t[Len(t)])
    BY <2>3, ThenDiscardKeeps DEF InGoodOrder
  <2> HIDE DEF t
  <2>5. (db' = LastOf(db, t) /\ phase' = phase) \/ DiesAmid(t)
    BY <2>1, <2>2 DEF Complete
  <2>6. QED
    BY <2>4, <2>5, CommitsKeep DEF InGoodOrder
<1>7. ~PublishRefused(k)
  BY DEF PublishRefused
<1>8. QED
  BY <1>2, <1>3, <1>4, <1>5, <1>6, <1>7 DEF Pool

-----------------------------------------------------------------------------
(* Recovery keeps every document orderly.                                  *)
LEMMA RecoverJobsKeeps ==
  ASSUME NEW d, DbInv(d), OrderKept(d) PROVE OrderKept(RecoverStreams(d))
<1> DEFINE lost == Interrupted(d)
           e == RecoverStreams(d)
<1>1. /\ \A p \in Parts : e.child[p] = IF p \in lost /\ d.child[p] \notin Terminal
                                         THEN "Queued" ELSE d.child[p]
      /\ \A v \in Composite :
           e.state[v] = IF (\E w \in lost : w[1] = v) /\ d.state[v] = "Playing"
                          THEN "Paused" ELSE d.state[v]
  <2>1. lost \subseteq Units
    BY DEF Interrupted, DbInv, Database
  <2>2. \A v \in Composite : v \in Utts /\ <<v, Whole>> \notin lost
    BY <2>1, UnitShape DEF Composite
  <2>3. e.child = [p \in Parts |-> IF p \in lost /\ d.child[p] \notin Terminal
                                     THEN "Queued" ELSE d.child[p]]
    BY DEF RecoverStreams, DbInv, Database
  <2>4. e.state = [v \in Utts |->
                     IF <<v, Whole>> \in lost THEN "Queued"
                     ELSE IF {w \in lost : w[1] = v} # {} /\ d.state[v] = "Playing" THEN "Paused"
                     ELSE d.state[v]]
    BY DEF RecoverStreams, DbInv, Database
  <2> HIDE DEF lost, e
  <2>5. ASSUME NEW v \in Composite
        PROVE  e.state[v] = IF (\E w \in lost : w[1] = v) /\ d.state[v] = "Playing"
                              THEN "Paused" ELSE d.state[v]
    BY <2>2, <2>4
  <2>6. QED
    BY <2>3, <2>5
<1> HIDE DEF e, lost
<1>2. /\ "Queued" \notin Terminal \cup {"Playing", "Paused", "Failed"}
      /\ "Playing" \in Live /\ "Paused" \in Live /\ "Failed" \in Terminal
  BY StateFacts
<1>3. ASSUME NEW v \in Composite, IsLive(e, v), ~HasFailedChild(e, v)
      PROVE  FirstAhead(e, v) /\ ReadyOwes(e, v) /\ SpokenInOrder(e, v)
  <2>1. ChildrenOf(v) \subseteq Parts /\ <<v, 0>> \in ChildrenOf(v)
    BY <1>3, FirstChunk, UnitShape
  <2>2. IsLive(d, v)
    BY <1>1, <1>2, <1>3 DEF IsLive
  <2>3. ~HasFailedChild(d, v)
    BY <1>1, <1>2, <1>3, <2>1 DEF HasFailedChild
  <2>4. FirstAhead(d, v) /\ ReadyOwes(d, v) /\ SpokenInOrder(d, v)
    BY <1>3, <2>2, <2>3 DEF OrderKept, Orderly
  <2>5. FirstAhead(e, v)
    BY <1>1, <1>3, <2>1, <2>4 DEF FirstAhead, In, InputStates
  <2>6. Unfinished(e, v) = Unfinished(d, v)
    BY <1>1, <1>2, <2>1 DEF Unfinished
  <2>7. ReadyOwes(e, v)
    BY <1>1, <1>3, <2>4, <2>6 DEF ReadyOwes
  <2>8. SpokenInOrder(e, v)
    BY <1>1, <1>2, <2>1, <2>4 DEF SpokenInOrder
  <2>9. QED
    BY <2>5, <2>7, <2>8
<1>4. QED
  BY <1>3 DEF OrderKept, Orderly, e

LEMMA RecoverChildKeeps ==
  ASSUME NEW d, DbInv(d), OrderKept(d), NEW p \in Parts, d.child[p] \in Unrested
  PROVE  OrderKept(TransitionSegment(d, p, Rested(d.child[p])))
<1> DEFINE u == p[1]
           to == Rested(d.child[p])
           e == TransitionSegment(d, p, to)
<1>1. /\ OnlyAt(d, e, u) /\ e.state = d.state /\ e.child[p] = to
      /\ \A q \in Parts \ {p} : e.child[q] = d.child[q]
  BY SegmentRows DEF DbInv, Database
<1>2. /\ \/ d.child[p] = "Synthesizing" /\ to = "Queued"
         \/ d.child[p] = "Playing" /\ to = "Paused"
  BY DEF Unrested, Rested
<1>3. p \in ChildrenOf(u) /\ u \in Composite /\ ChildrenOf(u) \subseteq Parts
      /\ <<u, 0>> \in ChildrenOf(u)
  BY UnitShape, FirstChunk
<1> HIDE DEF e, to
<1>4. ASSUME IsLive(e, u), ~HasFailedChild(e, u)
      PROVE  FirstAhead(e, u) /\ ReadyOwes(e, u) /\ SpokenInOrder(e, u)
  <2>1. IsLive(d, u)
    BY <1>1, <1>4 DEF IsLive
  <2>2. ~HasFailedChild(d, u)
    BY <1>1, <1>2, <1>3, <1>4 DEF HasFailedChild
  <2>3. FirstAhead(d, u) /\ ReadyOwes(d, u) /\ SpokenInOrder(d, u)
    BY <1>3, <2>1, <2>2 DEF OrderKept, Orderly
  <2>4. FirstAhead(e, u)
    BY <1>1, <1>2, <1>3, <2>3 DEF FirstAhead, In
  <2>5. Unfinished(e, u) = Unfinished(d, u)
    BY <1>1, <1>2, <1>3, StateFacts DEF Unfinished
  <2>6. ReadyOwes(e, u)
    BY <1>1, <2>3, <2>5 DEF ReadyOwes
  <2>7. SpokenInOrder(e, u)
    BY <1>1, <1>2, <1>3, <2>3, StateFacts DEF SpokenInOrder
  <2>8. QED
    BY <2>4, <2>6, <2>7
<1>5. QED
  BY <1>1, <1>4, KeptAt DEF Orderly, e, to

LEMMA RecoverParentKeeps ==
  ASSUME NEW d, DbInv(d), OrderKept(d), NEW u \in Utts, d.state[u] \in Unrested
  PROVE  OrderKept(Transition(d, u, Rested(d.state[u])))
<1> DEFINE to == Rested(d.state[u])
           e == Transition(d, u, to)
<1>1. /\ \/ d.state[u] = "Synthesizing" /\ to = "Queued"
         \/ d.state[u] = "Playing" /\ to = "Paused"
      /\ to \notin Terminal
  BY StateFacts DEF Unrested, Rested
<1> HIDE DEF to
<1>2. OnlyAt(d, e, u) /\ e.state[u] = to /\ e.child = d.child
  BY <1>1, TransitionRows
<1> HIDE DEF e
<1>3. ASSUME u \in Composite, IsLive(e, u), ~HasFailedChild(e, u)
      PROVE  FirstAhead(e, u) /\ ReadyOwes(e, u) /\ SpokenInOrder(e, u)
  <2>1. IsLive(d, u) /\ ~HasFailedChild(d, u)
    BY <1>1, <1>2, <1>3, StateFacts DEF IsLive, HasFailedChild
  <2>2. FirstAhead(d, u) /\ SpokenInOrder(d, u)
    BY <1>3, <2>1 DEF OrderKept, Orderly
  <2>3. FirstAhead(e, u)
    BY <1>1, <1>2, <2>2 DEF FirstAhead, In, InputStates
  <2>4. ReadyOwes(e, u)
    BY <1>1, <1>2 DEF ReadyOwes
  <2>5. SpokenInOrder(e, u)
    BY <1>2, <2>2 DEF SpokenInOrder
  <2>6. QED
    BY <2>3, <2>4, <2>5
<1>4. QED
  BY <1>2, <1>3, KeptAt DEF Orderly, e, to

LEMMA ReconcileKeeps ==
  ASSUME NEW d, DbInv(d), OrderKept(d), NEW u \in Utts, ReconcileCommits(d, u) # <<>>
  PROVE  \A i \in 1 .. Len(ReconcileCommits(d, u)) : OrderKept(ReconcileCommits(d, u)[i])
<1> DEFINE to == ReconciledState(d, u)
           e == Transition(d, u, "Synthesizing")
           f == Transition(e, u, to)
           g == Transition(d, u, to)
           c == ReconcileCommits(d, u)
<1>1. /\ IsLive(d, u) /\ to # d.state[u]
      /\ c = IF d.state[u] = "Queued" THEN <<e, f>> ELSE <<g>>
  BY DEF ReconcileCommits
<1>2. \/ to = "Failed"
      \/ to = "Played" /\ d.state[u] = "Paused"
      \/ to = "Ready" /\ d.state[u] = "Queued" /\ FirstChildReady(d, u) /\ ~HasFailedChild(d, u)
  BY <1>1 DEF ReconciledState
<1> HIDE DEF to
<1>3. "Failed" \in Terminal /\ "Played" \in Terminal /\ "Ready" \notin Terminal
      /\ "Synthesizing" \notin Terminal /\ "Synthesizing" \in Live
  BY StateFacts
<1>4. CASE d.state[u] # "Queued"
  <2>1. OnlyAt(d, g, u) /\ ~IsLive(g, u)
    BY <1>2, <1>3, <1>4, TransitionRows
  <2>2. OrderKept(g)
    BY <2>1, SettledKeeps, KeptAt
  <2> HIDE DEF g, c
  <2>3. c = <<g>> /\ Len(c) = 1 /\ c[1] = g
    BY <1>1, <1>4
  <2>4. QED
    BY <2>2, <2>3 DEF c
<1>5. CASE d.state[u] = "Queued"
  <2>1. OnlyAt(d, e, u) /\ e.state[u] = "Synthesizing" /\ e.child = d.child
    BY <1>3, TransitionRows
  <2>2. ASSUME u \in Composite, ~HasFailedChild(d, u)
        PROVE  /\ FirstChildReady(d, u) => Orderly(e, u)
               /\ SpokenInOrder(d, u)
    <3>1. SpokenInOrder(d, u)
      BY <1>1, <2>2 DEF OrderKept, Orderly
    <3>2. SpokenInOrder(e, u)
      BY <2>1, <3>1 DEF SpokenInOrder
    <3>3. QED
      BY <2>1, <3>1, <3>2 DEF Orderly, FirstAhead, ReadyOwes, FirstChildReady
  <2>3. u \in Composite /\ HasFailedChild(d, u) => Orderly(e, u)
    BY <2>1 DEF Orderly, HasFailedChild
  <2>4. to # "Failed" => FirstChildReady(d, u) /\ ~HasFailedChild(d, u) /\ to = "Ready"
    BY <1>2, <1>5
  <2>5. to = "Failed" => HasFailedChild(d, u)
    BY <1>5 DEF ReconciledState, to
  <2>6. OrderKept(e)
    BY <2>1, <2>2, <2>3, <2>4, <2>5, KeptAt
  <2> HIDE DEF e
  <2>7. /\ f.state = [e.state EXCEPT ![u] = to]
        /\ \A p \in Parts : p[1] # u \/ to \notin Terminal => f.child[p] = e.child[p]
    BY DEF Transition
  <2>8. e.state \in [Utts -> State \cup {Absent}]
    BY <1>3, StateFacts DEF Transition, DbInv, Database, e
  <2>9. f.state[u] = to /\ OnlyAt(e, f, u)
    BY <2>7, <2>8, UnitShape DEF OnlyAt, SameRows, Composite
  <2>10. Orderly(f, u) \/ u \notin Composite
    <3>1. CASE to = "Failed"
      BY <1>3, <2>9, <3>1, SettledKeeps, StateFacts DEF IsLive
    <3>2. CASE to # "Failed" /\ u \in Composite
      <4>1. /\ f.child[<<u, 0>>] = "Ready"
            /\ \A p \in ChildrenOf(u) : f.child[p] = d.child[p]
        BY <1>3, <2>1, <2>4, <2>7, <3>2, FirstChunk, UnitShape DEF FirstChildReady
      <4>2. <<u, 0>> \in Unfinished(f, u)
        BY <1>3, <3>2, <4>1, FirstChunk DEF Unfinished
      <4>3. SpokenInOrder(f, u)
        BY <2>2, <2>4, <3>2, <4>1 DEF SpokenInOrder
      <4>4. QED
        BY <2>4, <2>9, <3>2, <4>2, <4>3 DEF Orderly, FirstAhead, ReadyOwes, In, InputStates
    <3>3. QED
      BY <3>1, <3>2
  <2>11. OrderKept(f)
    BY <2>6, <2>9, <2>10, KeptAt
  <2> HIDE DEF f, c
  <2>12. c = <<e, f>> /\ Len(c) = 2 /\ c[1] = e /\ c[2] = f
    BY <1>1, <1>5
  <2>13. QED
    BY <2>6, <2>11, <2>12 DEF c
<1>6. QED
  BY <1>4, <1>5

(* When nothing is left to reconcile, every document is back in step.      *)
LEMMA ReconciledIsInStep ==
  ASSUME NEW d, DbInv(d), OrderKept(d), Caught(d), NEW v \in Composite
  PROVE  InStep(d, v)
<1> SUFFICES ASSUME IsLive(d, v)
             PROVE  /\ ~HasFailedChild(d, v)
                    /\ Unfinished(d, v) # {}
                    /\ In(d, v, InputStates) => d.child[<<v, 0>>] \in InputStates
                    /\ d.state[v] = "Synthesizing" => d.child[<<v, 0>>] = "Synthesizing"
  BY DEF InStep
<1>1. /\ v \in Utts /\ <<v, 0>> \in ChildrenOf(v) /\ <<v, 0>> \in Parts
      /\ ReconciledState(d, v) = d.state[v]
      /\ d.state[v] \in {"Queued", "Ready", "Paused"}
  BY FirstChunk, StateFacts
  DEF Caught, Unrested, IsLive, Live, State, Terminal, DbInv, NoneBare
<1>2. ~HasFailedChild(d, v)
  BY <1>1 DEF ReconciledState
<1>3. FirstAhead(d, v) /\ ReadyOwes(d, v)
  BY <1>2 DEF OrderKept, Orderly
<1>4. d.state[v] = "Queued" => d.child[<<v, 0>>] = "Queued"
  <2>1. d.state[v] = "Queued" => ~FirstChildReady(d, v)
    BY <1>1, <1>2 DEF ReconciledState
  <2>2. d.state[v] = "Queued" => d.child[<<v, 0>>] \in {"Queued", "Synthesizing", "Ready"}
    BY <1>3 DEF FirstAhead, In, InputStates
  <2>3. QED
    BY <1>1, <2>1, <2>2 DEF FirstChildReady, Caught, Unrested
<1>5. Unfinished(d, v) # {}
  <2>1. CASE d.state[v] = "Queued"
    BY <1>1, <1>4, <2>1, StateFacts DEF Unfinished
  <2>2. CASE d.state[v] = "Ready"
    BY <1>3, <2>2 DEF ReadyOwes
  <2>3. CASE d.state[v] = "Paused"
    BY <1>1, <1>2, <2>3 DEF ReconciledState, AllChildrenClosed
  <2>4. QED
    BY <1>1, <2>1, <2>2, <2>3
<1>6. QED
  BY <1>1, <1>2, <1>4, <1>5 DEF In, InputStates

LEMMA RecoveryKeeps ==
  ASSUME IInv, phase # "up", OrderKept(db), Recovery PROVE Kept'
<1>1. /\ DbInv(db)
      /\ phase \in {"children", "parents", "reconcile"} => db.jobs = {}
      /\ phase = "reconcile" => /\ \A p \in Parts : db.child[p] \notin Unrested
                                /\ \A u \in Utts : db.state[u] \notin Unrested
  BY DEF IInv, RecoveryProgress
<1>2. CASE Restart \/ ChildrenDone \/ ParentsDone
  BY <1>2 DEF Restart, ChildrenDone, ParentsDone, Kept
<1>3. CASE RecoverJobs
  BY <1>1, <1>3, RecoverJobsKeeps DEF RecoverJobs, Kept
<1>4. ASSUME NEW p \in Parts, RecoverChild(p) PROVE Kept'
  BY <1>1, <1>4, RecoverChildKeeps DEF RecoverChild, Kept
<1>5. ASSUME NEW u \in Utts, RecoverParent(u) PROVE Kept'
  BY <1>1, <1>5, RecoverParentKeeps DEF RecoverParent, Kept
<1>6. ASSUME NEW u \in Utts, Reconcile(u) PROVE Kept'
  <2> DEFINE c == ReconcileCommits(db, u)
  <2>1. phase = "reconcile" /\ c # <<>> /\ Writes(c) /\ db.jobs = {}
    BY <1>1, <1>6 DEF Reconcile
  <2>2. \/ \E e : c = <<e>>
        \/ \E e, f : c = <<e, f>>
    BY <1>1, <2>1, ReconcileInv
  <2>3. \A i \in 1 .. Len(c) : OrderKept(c[i])
    BY <1>1, <2>1, ReconcileKeeps
  <2> HIDE DEF c
  <2>4. Len(c) \in Nat /\ Len(c) > 0 /\ LastOf(db, c) = c[Len(c)]
    BY <2>1, <2>2 DEF LastOf
  <2>5. phase' # "up" /\ \E i \in 1 .. Len(c) : db' = c[i]
    BY <2>1, <2>4 DEF Writes, DiesAmid, Down
  <2>6. QED
    BY <2>3, <2>5 DEF Kept
<1>7. CASE ComeUp
  <2>1. /\ phase = "reconcile" /\ db'.state = db.state /\ db'.child = db.child
        /\ \A u \in Utts : ReconcileCommits(db, u) = <<>>
    BY <1>1, <1>7 DEF ComeUp, DbInv, Database
  <2>2. \A u \in Utts : IsLive(db, u) => ReconciledState(db, u) = db.state[u]
    BY <2>1 DEF ReconcileCommits
  <2>3. Caught(db)
    BY <1>1, <2>1, <2>2 DEF Caught
  <2>4. StepKept(db)
    BY <1>1, <2>3, ReconciledIsInStep DEF StepKept
  <2>5. QED
    BY <2>1, <2>4, KeptElsewhere DEF Kept
<1>8. QED
  BY <1>2, <1>3, <1>4, <1>5, <1>6, <1>7 DEF Recovery

-----------------------------------------------------------------------------
(* Unless SQLite refuses the commit of a publication, a document and its   *)
(* chunks are in step whenever the daemon is up, whatever crashed before.  *)
THEOREM DocumentsKeepUp == Spec => [](~CommitFaults => ParentKeepsUp)
<1>1. Init => Kept
  <2> SUFFICES ASSUME Init PROVE Kept
    OBVIOUS
  <2>1. \A u \in Composite : ~IsLive(db, u)
    BY StateFacts DEF Init, EmptyDatabase, IsLive, Composite
  <2>2. QED
    BY <2>1, SettledKeeps DEF Kept, OrderKept, StepKept
<1>2. IInv /\ (~CommitFaults => Kept) /\ [Next]_vars => (~CommitFaults => Kept)'
  <2> SUFFICES ASSUME IInv, ~CommitFaults, Kept, [Next]_vars PROVE Kept'
    OBVIOUS
  <2>1. phase = "up" => InGoodOrder(db)
    BY DEF IInv, Kept, InGoodOrder
  <2>2. CASE UNCHANGED vars
    BY <2>2 DEF vars, Kept
  <2>3. CASE Crash
    BY <2>3 DEF Crash, Down, Kept
  <2>4. CASE Recovery
    <3>1. CASE phase # "up"
      BY <2>4, <3>1, RecoveryKeeps DEF Kept
    <3>2. CASE phase = "up"
      BY <2>4, <3>2 DEF Recovery, Restart, RecoverJobs, ChildrenDone, ParentsDone, ComeUp,
                        RecoverChild, RecoverParent, Reconcile
    <3>3. QED
      BY <3>1, <3>2
  <2>5. CASE Playback
    <3>1. phase = "up"
      BY <2>5 DEF Playback, Begin, EndOfClip, DeviceError, NextSegment, Skip, Suspend, Resume,
                  Hold, ReleaseHold
    <3>2. QED
      BY <2>1, <2>5, <3>1, PlaybackKeeps
  <2>6. ASSUME NEW k \in Workers, Pool(k) PROVE Kept'
    <3>1. phase = "up"
      BY <2>6 DEF Pool, TakeJob, FirstBuffer, StreamReady, Publish, Fail, PublishRefused, Rendered,
                  RenderFailed, IInv, PoolIsDown
    <3>2. QED
      BY <2>1, <2>6, <3>1, PoolKeeps
  <2>7. CASE \/ \E u \in Utts : Submit(u) \/ Cancel(u)
             \/ \E states \in {InputStates, {"Ready"}, PendingStates} : Clear(states)
             \/ Reorder
             \/ FinishWarmup
    <3>1. phase = "up"
      BY <2>7 DEF Submit, Cancel, Clear, Reorder, FinishWarmup
    <3>2. QED
      BY <2>1, <2>7, <3>1, QueueKeeps
  <2>8. QED
    BY <2>2, <2>3, <2>4, <2>5, <2>6, <2>7 DEF Next
<1>3. Kept => ParentKeepsUp
  BY DEF Kept, StepKept, InStep, ParentKeepsUp
<1>4. QED
  BY <1>1, <1>2, <1>3, InductiveInvariant, PTL DEF Spec
=============================================================================
