--------------------------- MODULE ServicesProofs ---------------------------
(***************************************************************************)
(* Proofs about the parts of the daemon around its pipeline and its        *)
(* player: models, workers, files played block by block, the daemon's      *)
(* socket, the installer, the microphone, the register of voices, and the  *)
(* segments of a text.                                                     *)
(* Each is proved by itself.                                               *)
(***************************************************************************)
EXTENDS ModelSetup, ModelWorker, FilePlayback, InputInterrupt, LocalServer, VoiceRegister,
        Installation, Segmentation, SequenceTheorems, WellFoundedInduction, TLAPS
-----------------------------------------------------------------------------
(***************************************************************************)
(* For any catalog, pool and first engines, and however loads, renders,    *)
(* installations and cancellations fall: no job renders with an engine     *)
(* that was closed, and no model is offered under one (ModelsStayAlive).   *)
(*                                                                         *)
(* Nothing in the code compares engines.  The proof rests on who owns one: *)
(* a model (EnginesAreDistinct), the setup that made it and has not        *)
(* published it (CandidateIsItsOwn), or the preparation that holds its     *)
(* model's lock (LocksAreHeld, LoadsItsOwn).                               *)
(***************************************************************************)

SetupStages == {"none", "installing", "installed", "warming", "warmed", "quiescing", "retiring",
                "failing", "ending"}
Underway == {"entering", "loading", "rendering"}

JobRecords == [stage : {"idle", "woken", "claimed"} \cup Underway, model : Models, engine : Nat]
SetupRecords(n) == [stage : SetupStages, model : Models, engine : 0 .. n,
                    previous : 0 .. n, cancelled : BOOLEAN, paused : BOOLEAN]

ModelTyped ==
  /\ created \in Nat /\ engine \in [Models -> 0 .. created]
  /\ status \in [Models -> {"none", "cold", "loading", "ready", "failed", "reloading"}]
  /\ lock \in [Models -> {Free, "warm", "reload"} \cup Renderers]
  /\ closed \subseteq 1 .. created /\ closing \in 0 .. created
  /\ job \in [Renderers -> JobRecords]
  /\ warm \in {"due", "loading", "done"}
  /\ reload \in [stage : {"none", "asked", "loading", "loaded", "returned"}, model : Models]
  /\ setup \in SetupRecords(created)

NotOffered(e) == \A m \in Models : engine[m] = e => e = 0

\* An engine serves one model.
EnginesAreDistinct == \A m, n \in Models : engine[m] = engine[n] => m = n \/ engine[m] = 0

\* A model is loading as long as its lock is held, and by whom it is held.
LocksAreHeld ==
  /\ \A m \in Models : lock[m] # Free <=> status[m] \in {"loading", "reloading"}
  /\ warm = "loading" => lock[Startup] = "warm"
  /\ reload.stage = "loading" => lock[reload.model] = "reload"
  /\ \A w \in Renderers : job[w].stage = "loading" => lock[job[w].model] = w

\* Who loads an engine loads the one its model is offered under.
LoadsItsOwn ==
  /\ warm = "loading" => engine[Startup] = FirstEngines[Startup]
  /\ status[Startup] \in {"none", "cold"} => engine[Startup] = FirstEngines[Startup]
  /\ \A w \in Renderers : job[w].stage \in Underway => job[w].engine = engine[job[w].model]

\* The engine a setup has made is its own until it is published, and loaded by then.
CandidateIsItsOwn ==
  /\ setup.stage \in {"warming", "warmed", "quiescing"} => setup.engine # 0
  /\ setup.stage \in {"installing", "installed"} => setup.engine = 0
  /\ setup.stage # "ending" => NotOffered(setup.engine)
  /\ setup.stage \in {"warmed", "quiescing"} => setup.engine \in loaded
  /\ setup.stage \in {"warming", "warmed", "quiescing"} /\ ~setup.cancelled =>
       setup.engine \notin closed \cup {closing}
  /\ setup.stage = "retiring" => NotOffered(setup.previous)

NothingOfferedIsClosed == NotOffered(closing) /\ \A m \in Models : engine[m] \notin closed
ReadyIsLoaded == \A m \in Models : status[m] = "ready" => engine[m] \in loaded

ModelInv ==
  /\ ModelTyped /\ EnginesAreDistinct /\ LocksAreHeld /\ LoadsItsOwn /\ CandidateIsItsOwn
  /\ NothingOfferedIsClosed /\ ReadyIsLoaded

LEMMA ModelInvImplies == ModelInv => ModelsAreAlive
<1> SUFFICES ASSUME ModelInv PROVE ModelsAreAlive
  OBVIOUS
<1>1. ASSUME NEW w \in Active, job[w].stage # "claimed" PROVE job[w].engine \notin closed
  <2>1. job[w].stage \in Underway /\ job[w].model \in Models
    BY <1>1 DEF Active, ModelInv, ModelTyped, JobRecords, Underway
  <2> QED BY <1>1, <2>1 DEF ModelInv, LoadsItsOwn, NothingOfferedIsClosed, Active
<1> QED BY <1>1 DEF ModelInv, NothingOfferedIsClosed, ReadyIsLoaded, ModelsAreAlive

LEMMA ModelBegins == ModelInit => ModelInv
<1> SUFFICES ASSUME ModelInit PROVE ModelInv
  OBVIOUS
<1> USE ModelAssumption DEF ModelInit, NoSetup, NoReload, Idle
<1>1. ModelTyped BY DEF ModelTyped, SetupStages, JobRecords, SetupRecords
<1>2. EnginesAreDistinct /\ ReadyIsLoaded BY DEF EnginesAreDistinct, ReadyIsLoaded
<1>3. LocksAreHeld BY DEF LocksAreHeld
<1>4. LoadsItsOwn BY DEF LoadsItsOwn, Underway
<1>5. CandidateIsItsOwn /\ NothingOfferedIsClosed
  BY DEF CandidateIsItsOwn, NothingOfferedIsClosed, NotOffered
<1> QED BY <1>1, <1>2, <1>3, <1>4, <1>5 DEF ModelInv

\* One worker moves.
LEMMA OneJobMoves ==
  ASSUME ModelTyped, NEW w \in Renderers, NEW next \in {"idle", "woken", "claimed"} \cup Underway,
         Moves(w, next)
  PROVE  /\ job' \in [Renderers -> JobRecords]
         /\ job'[w].stage = next /\ job'[w].model = job[w].model /\ job'[w].engine = job[w].engine
         /\ \A v \in Renderers : v # w => job'[v] = job[v]
<1> DEFINE j == [job[w] EXCEPT !.stage = next]
<1>1. job \in [Renderers -> JobRecords] /\ job[w] \in JobRecords
  BY DEF ModelTyped
<1>2. /\ j \in JobRecords /\ j.stage = next /\ j.model = job[w].model /\ j.engine = job[w].engine
  BY <1>1 DEF JobRecords
<1>3. job' = [job EXCEPT ![w] = j]
  BY DEF Moves
<1> HIDE DEF j
<1> QED BY <1>1, <1>2, <1>3

LEMMA SetupMoves ==
  ASSUME ModelTyped, NEW next \in SetupStages, SetupStage(next)
  PROVE  /\ setup' \in SetupRecords(created) /\ setup'.stage = next
         /\ setup'.engine = setup.engine /\ setup'.previous = setup.previous
         /\ setup'.model = setup.model /\ setup'.cancelled = setup.cancelled
  BY DEF ModelTyped, SetupStage, SetupRecords

LEMMA ModelStep ==
  ASSUME ModelInv, [ModelNext]_modelVars
  PROVE  ModelInv'
<1> USE ModelAssumption DEF ModelInv
<1>1. ASSUME WarmBegins PROVE ModelInv'
  <2>1. ModelTyped' BY <1>1 DEF WarmBegins, BeginsLoad, ModelTyped
  <2>2. LocksAreHeld'
    <3>1. CASE status[Startup] \in {"ready", "failed"}
      BY <1>1, <3>1 DEF WarmBegins, LocksAreHeld
    <3>2. CASE status[Startup] \notin {"ready", "failed"}
      <4>1. /\ lock[Startup] = Free /\ warm' = "loading"
            /\ lock' = [lock EXCEPT ![Startup] = "warm"]
            /\ status' = [status EXCEPT ![Startup] = "loading"]
            /\ UNCHANGED <<reload, job>>
        BY <1>1, <3>2 DEF WarmBegins, BeginsLoad
      <4>2. \A m \in Models : /\ lock'[m] = (IF m = Startup THEN "warm" ELSE lock[m])
                              /\ status'[m] = (IF m = Startup THEN "loading" ELSE status[m])
        BY <4>1 DEF ModelTyped
      <4>3. Free # "warm" /\ Startup \in Models /\ reload.model \in Models
            /\ \A w \in Renderers : job[w].model \in Models /\ w # Free
        BY DEF Free, ModelTyped, JobRecords
      <4> QED BY <4>1, <4>2, <4>3 DEF LocksAreHeld, Free
    <3> QED BY <3>1, <3>2
  <2>3. LoadsItsOwn'
    <3>1. UNCHANGED <<engine, job>> BY <1>1 DEF WarmBegins
    <3>2. status[Startup] \in {"ready", "failed"} => warm' = "done" /\ UNCHANGED status
      BY <1>1 DEF WarmBegins
    <3>3. status[Startup] \notin {"ready", "failed"} =>
            status[Startup] \in {"none", "cold"} /\ status' = [status EXCEPT ![Startup] = "loading"]
      BY <1>1 DEF WarmBegins, BeginsLoad, LocksAreHeld, ModelTyped, Free
    <3>4. status'[Startup] \in {"none", "cold"} => status[Startup] \in {"none", "cold"}
      BY <3>2, <3>3 DEF ModelTyped
    <3> QED BY <3>1, <3>2, <3>3, <3>4 DEF LoadsItsOwn
  <2>4. ReadyIsLoaded' BY <1>1 DEF WarmBegins, BeginsLoad, ReadyIsLoaded, ModelTyped
  <2>5. EnginesAreDistinct' /\ CandidateIsItsOwn' /\ NothingOfferedIsClosed'
    BY <1>1 DEF WarmBegins, BeginsLoad, EnginesAreDistinct, CandidateIsItsOwn,
       NothingOfferedIsClosed, NotOffered
  <2> QED BY <2>1, <2>2, <2>3, <2>4, <2>5
<1>2. ASSUME NEW ok \in BOOLEAN, WarmEnds(ok) PROVE ModelInv'
  <2>1. ModelTyped' BY <1>2 DEF WarmEnds, EndsLoad, Unlocks, ModelTyped
  <2>2. LocksAreHeld' BY <1>2 DEF WarmEnds, EndsLoad, Unlocks, LocksAreHeld, ModelTyped
  <2>3. LoadsItsOwn' BY <1>2 DEF WarmEnds, EndsLoad, Unlocks, LoadsItsOwn, ModelTyped
  <2>4. CandidateIsItsOwn' BY <1>2 DEF WarmEnds, EndsLoad, Unlocks, CandidateIsItsOwn,
       NotOffered, ModelTyped
  <2>5. ReadyIsLoaded'
    <3> DEFINE m == Startup
               e == FirstEngines[Startup]
    <3>1. /\ m \in Models /\ engine[m] = e /\ engine' = engine
          /\ status' = [status EXCEPT ![m] = IF ok THEN "ready" ELSE "failed"]
          /\ loaded' = (IF ok THEN loaded \cup {e} ELSE loaded)
      BY <1>2 DEF WarmEnds, EndsLoad, LoadsItsOwn, ModelTyped
    <3> HIDE DEF m, e
    <3>2. ASSUME NEW n \in Models, status'[n] = "ready" PROVE engine[n] \in loaded'
      <4>1. CASE n = m
        BY <3>1, <3>2, <4>1 DEF ModelTyped
      <4>2. CASE n # m
        BY <3>1, <3>2, <4>2 DEF ModelTyped, ReadyIsLoaded
      <4> QED BY <4>1, <4>2
    <3> QED BY <3>1, <3>2 DEF ReadyIsLoaded
  <2>6. EnginesAreDistinct' /\ NothingOfferedIsClosed'
    BY <1>2 DEF WarmEnds, EndsLoad, Unlocks, EnginesAreDistinct, NothingOfferedIsClosed,
       NotOffered
  <2> QED BY <2>1, <2>2, <2>3, <2>4, <2>5, <2>6
<1>3. ASSUME NEW w \in Renderers, Wakes(w) PROVE ModelInv'
  <2>0. /\ job' \in [Renderers -> JobRecords] /\ job'[w].stage = "woken"
        /\ \A v \in Renderers : v # w => job'[v] = job[v]
        /\ UNCHANGED <<engine, closed, created, warm, reload, setup, closing, status, lock, loaded>>
    BY <1>3, OneJobMoves DEF Wakes, PoolOnly
  <2>1. ModelTyped'
    BY <2>0 DEF ModelTyped
  <2>2. LocksAreHeld'
    BY <2>0 DEF LocksAreHeld
  <2>3. LoadsItsOwn'
    BY <2>0 DEF LoadsItsOwn, Underway
  <2>4. EnginesAreDistinct' /\ CandidateIsItsOwn' /\ NothingOfferedIsClosed' /\ ReadyIsLoaded'
    BY <1>3 DEF Wakes, PoolOnly, EnginesAreDistinct, CandidateIsItsOwn, NothingOfferedIsClosed,
       ReadyIsLoaded, NotOffered
  <2> QED BY <2>1, <2>2, <2>3, <2>4
<1>4. ASSUME NEW w \in Renderers, NEW m \in Models, Claims(w, m) PROVE ModelInv'
  <2>1. ModelTyped' BY <1>4 DEF Claims, PoolOnly, ModelTyped, JobRecords
  <2>2. LocksAreHeld' BY <1>4 DEF Claims, PoolOnly, LocksAreHeld, ModelTyped
  <2>3. LoadsItsOwn' BY <1>4 DEF Claims, PoolOnly, LoadsItsOwn, Underway, ModelTyped
  <2>4. EnginesAreDistinct' /\ CandidateIsItsOwn' /\ NothingOfferedIsClosed' /\ ReadyIsLoaded'
    BY <1>4 DEF Claims, PoolOnly, EnginesAreDistinct, CandidateIsItsOwn, NothingOfferedIsClosed,
       ReadyIsLoaded, NotOffered
  <2> QED BY <2>1, <2>2, <2>3, <2>4
<1>5. ASSUME NEW w \in Renderers, Parks(w) PROVE ModelInv'
  <2>0. /\ job' \in [Renderers -> JobRecords] /\ job'[w].stage = "idle"
        /\ \A v \in Renderers : v # w => job'[v] = job[v]
        /\ UNCHANGED <<engine, closed, created, warm, reload, setup, closing, status, lock, loaded>>
    BY <1>5, OneJobMoves DEF Parks, PoolOnly
  <2>1. ModelTyped'
    BY <2>0 DEF ModelTyped
  <2>2. LocksAreHeld'
    BY <2>0 DEF LocksAreHeld
  <2>3. LoadsItsOwn'
    BY <2>0 DEF LoadsItsOwn, Underway
  <2>4. EnginesAreDistinct' /\ CandidateIsItsOwn' /\ NothingOfferedIsClosed' /\ ReadyIsLoaded'
    BY <1>5 DEF Parks, PoolOnly, EnginesAreDistinct, CandidateIsItsOwn, NothingOfferedIsClosed,
       ReadyIsLoaded, NotOffered
  <2> QED BY <2>1, <2>2, <2>3, <2>4
<1>6. ASSUME NEW w \in Renderers, LooksUp(w) PROVE ModelInv'
  <2> DEFINE j == [job[w] EXCEPT !.stage = "entering", !.engine = engine[job[w].model]]
  <2>0. /\ job' = [job EXCEPT ![w] = j] /\ job[w] \in JobRecords
        /\ UNCHANGED <<engine, closed, created, warm, reload, setup, closing, status, lock, loaded>>
    BY <1>6 DEF LooksUp, PoolOnly, ModelTyped
  <2>01. j \in JobRecords /\ j.stage = "entering" /\ j.engine = engine[j.model]
    <3> DEFINE i == [job[w] EXCEPT !.stage = "entering"]
               n == engine[job[w].model]
    <3>1. j = [i EXCEPT !.engine = n]
      BY <2>0 DEF JobRecords
    <3>2. i \in JobRecords /\ i.model = job[w].model /\ i.stage = "entering"
      BY <2>0 DEF JobRecords, Underway
    <3>3. n \in Nat /\ n = engine[i.model]
      BY <2>0, <3>2 DEF ModelTyped, JobRecords
    <3> HIDE DEF i, n, j
    <3> QED BY <3>1, <3>2, <3>3 DEF JobRecords
  <2> HIDE DEF j
  <2>1. ModelTyped'
    BY <2>0, <2>01 DEF ModelTyped
  <2>2. LocksAreHeld'
    BY <2>0, <2>01 DEF ModelTyped, LocksAreHeld
  <2>3. LoadsItsOwn'
    BY <2>0, <2>01 DEF ModelTyped, LoadsItsOwn
  <2>4. EnginesAreDistinct' /\ CandidateIsItsOwn' /\ NothingOfferedIsClosed' /\ ReadyIsLoaded'
    BY <1>6 DEF LooksUp, PoolOnly, EnginesAreDistinct, CandidateIsItsOwn,
       NothingOfferedIsClosed, ReadyIsLoaded, NotOffered
  <2> QED BY <2>1, <2>2, <2>3, <2>4
<1>7. ASSUME NEW w \in Renderers, Enters(w) PROVE ModelInv'
  <2> DEFINE m == job[w].model
  <2>0. /\ m \in Models /\ job[w].stage = "entering" /\ job[w].engine = engine[m]
        /\ job \in [Renderers -> JobRecords] /\ Idle \in JobRecords
        /\ UNCHANGED <<engine, closed, created, warm, reload, setup, closing, loaded>>
    BY <1>7 DEF Enters, PoolOnly, ModelTyped, JobRecords, LoadsItsOwn, Underway, Idle
  <2>01. \/ job'[w].stage = "rendering" /\ Moves(w, "rendering") /\ UNCHANGED <<lock, status>>
         \/ job' = [job EXCEPT ![w] = Idle] /\ UNCHANGED <<lock, status>>
         \/ /\ job'[w].stage = "loading" /\ Moves(w, "loading")
            /\ lock[m] = Free /\ status[m] \notin {"ready", "failed"}
            /\ lock' = [lock EXCEPT ![m] = w] /\ status' = [status EXCEPT ![m] = "loading"]
    BY <1>7, OneJobMoves DEF Enters, BeginsLoad, Underway
  <2>02. /\ job' \in [Renderers -> JobRecords]
         /\ (job'[w].model = m /\ job'[w].engine = engine[m]) \/ job'[w].stage = "idle"
         /\ \A v \in Renderers : v # w => job'[v] = job[v]
    <3>1. CASE Moves(w, "rendering") \/ Moves(w, "loading")
      BY <2>0, <3>1, OneJobMoves DEF Underway
    <3>2. CASE job' = [job EXCEPT ![w] = Idle]
      BY <2>0, <3>2 DEF Idle
    <3> QED BY <2>01, <3>1, <3>2
  <2> HIDE DEF m
  <2>1. ModelTyped'
    <3>1. lock' \in [Models -> {Free, "warm", "reload"} \cup Renderers]
      BY <2>0, <2>01 DEF ModelTyped
    <3>2. status' \in [Models -> {"none", "cold", "loading", "ready", "failed", "reloading"}]
      BY <2>0, <2>01 DEF ModelTyped
    <3> QED BY <2>0, <2>02, <3>1, <3>2 DEF ModelTyped
  <2>2. LocksAreHeld'
    <3>1. CASE job'[w].stage \in {"rendering", "idle"} /\ UNCHANGED <<lock, status>>
      BY <2>0, <2>02, <3>1 DEF LocksAreHeld
    <3>2. CASE /\ job'[w].stage = "loading"
               /\ lock[m] = Free /\ status[m] \notin {"ready", "failed"}
               /\ lock' = [lock EXCEPT ![m] = w] /\ status' = [status EXCEPT ![m] = "loading"]
      <4>1. \A n \in Models : /\ lock'[n] = (IF n = m THEN w ELSE lock[n])
                              /\ status'[n] = (IF n = m THEN "loading" ELSE status[n])
        BY <2>0, <3>2 DEF ModelTyped
      <4>2. /\ w # Free /\ reload.model \in Models
            /\ \A v \in Renderers : job[v].model \in Models /\ v # Free
            /\ Free \notin {"warm", "reload"}
        BY DEF ModelTyped, JobRecords, Free
      <4>3. job'[w].model = m
        BY <2>02, <3>2
      <4> QED BY <2>0, <2>02, <3>2, <4>1, <4>2, <4>3 DEF LocksAreHeld
    <3>3. job' = [job EXCEPT ![w] = Idle] => job'[w].stage = "idle"
      BY <2>0 DEF Idle
    <3> QED BY <2>01, <3>1, <3>2, <3>3
  <2>3. LoadsItsOwn'
    <3>1. status'[Startup] \in {"none", "cold"} => status[Startup] \in {"none", "cold"}
      BY <2>0, <2>01 DEF ModelTyped
    <3> QED BY <2>0, <2>02, <3>1 DEF LoadsItsOwn, Underway
  <2>4. ReadyIsLoaded' BY <1>7 DEF Enters, PoolOnly, BeginsLoad, ReadyIsLoaded, ModelTyped
  <2>5. EnginesAreDistinct' /\ CandidateIsItsOwn' /\ NothingOfferedIsClosed'
    BY <1>7 DEF Enters, PoolOnly, BeginsLoad, EnginesAreDistinct, CandidateIsItsOwn,
       NothingOfferedIsClosed, NotOffered
  <2> QED BY <2>1, <2>2, <2>3, <2>4, <2>5
<1>8. ASSUME NEW w \in Renderers, NEW ok \in BOOLEAN, Loads(w, ok) PROVE ModelInv'
  <2> DEFINE m == job[w].model
             j == IF ok THEN [job[w] EXCEPT !.stage = "rendering"] ELSE Idle
  <2>0. /\ m \in Models /\ lock[m] = w /\ job[w].engine = engine[m] /\ job[w] \in JobRecords
        /\ job' = [job EXCEPT ![w] = j]
        /\ status' = [status EXCEPT ![m] = IF ok THEN "ready" ELSE "failed"]
        /\ lock' = [lock EXCEPT ![m] = IF @ = w THEN Free ELSE @]
        /\ UNCHANGED <<engine, closed, created, warm, reload, setup, closing>>
    BY <1>8 DEF Loads, PoolOnly, EndsLoad, Unlocks, ModelTyped, JobRecords, LoadsItsOwn,
       LocksAreHeld, Underway
  <2>01. /\ j \in JobRecords /\ j.stage \in {"idle", "rendering"}
         /\ j.stage = "rendering" => j.model = m /\ j.engine = engine[m]
    BY <2>0 DEF JobRecords, Underway, Idle
  <2> HIDE DEF m, j
  <2>02. \A n \in Models : /\ lock'[n] = (IF n = m THEN Free ELSE lock[n])
                           /\ n # m => status'[n] = status[n]
                           /\ n = m => status'[n] \in {"ready", "failed"}
    BY <2>0 DEF ModelTyped
  <2>03. \A v \in Renderers : job'[v] = (IF v = w THEN j ELSE job[v])
    BY <2>0 DEF ModelTyped
  <2>1. ModelTyped'
    <3>1. lock' \in [Models -> {Free, "warm", "reload"} \cup Renderers]
      BY <2>0 DEF ModelTyped
    <3>2. status' \in [Models -> {"none", "cold", "loading", "ready", "failed", "reloading"}]
      BY <2>0 DEF ModelTyped
    <3>3. job' \in [Renderers -> JobRecords]
      BY <2>0, <2>01 DEF ModelTyped
    <3> QED BY <2>0, <3>1, <3>2, <3>3 DEF ModelTyped
  <2>2. LocksAreHeld'
    <3>1. /\ w \notin {Free, "warm", "reload"} /\ reload.model \in Models
          /\ \A v \in Renderers : job[v].model \in Models
      BY DEF ModelTyped, JobRecords
    <3> QED BY <2>0, <2>01, <2>02, <2>03, <3>1 DEF LocksAreHeld
  <2>3. LoadsItsOwn'
    <3>1. status'[Startup] \in {"none", "cold"} => status[Startup] \in {"none", "cold"}
      BY <2>02
    <3> QED BY <2>0, <2>01, <2>03, <3>1 DEF LoadsItsOwn, Underway
  <2>4. CandidateIsItsOwn' BY <1>8 DEF Loads, PoolOnly, EndsLoad, Unlocks, CandidateIsItsOwn,
       NotOffered, ModelTyped
  <2>5. ReadyIsLoaded'
    <3> DEFINE e == job[w].engine
    <3>1. /\ m \in Models /\ engine[m] = e /\ engine' = engine
          /\ status' = [status EXCEPT ![m] = IF ok THEN "ready" ELSE "failed"]
          /\ loaded' = (IF ok THEN loaded \cup {e} ELSE loaded)
      BY <1>8 DEF Loads, EndsLoad, LoadsItsOwn, ModelTyped, PoolOnly, Underway, JobRecords, m
    <3> HIDE DEF e
    <3>2. ASSUME NEW n \in Models, status'[n] = "ready" PROVE engine[n] \in loaded'
      <4>1. CASE n = m
        BY <3>1, <3>2, <4>1 DEF ModelTyped
      <4>2. CASE n # m
        BY <3>1, <3>2, <4>2 DEF ModelTyped, ReadyIsLoaded
      <4> QED BY <4>1, <4>2
    <3> QED BY <3>1, <3>2 DEF ReadyIsLoaded
  <2>6. EnginesAreDistinct' /\ NothingOfferedIsClosed'
    BY <1>8 DEF Loads, PoolOnly, EndsLoad, Unlocks, EnginesAreDistinct, NothingOfferedIsClosed,
       NotOffered
  <2> QED BY <2>1, <2>2, <2>3, <2>4, <2>5, <2>6
<1>9. ASSUME NEW w \in Renderers, RenderReturns(w) PROVE ModelInv'
  <2>1. ModelTyped' BY <1>9 DEF RenderReturns, PoolOnly, Idle, ModelTyped, JobRecords
  <2>2. LocksAreHeld' BY <1>9 DEF RenderReturns, PoolOnly, Idle, LocksAreHeld, ModelTyped
  <2>3. LoadsItsOwn' BY <1>9 DEF RenderReturns, PoolOnly, Idle, LoadsItsOwn, Underway,
       ModelTyped
  <2>4. EnginesAreDistinct' /\ CandidateIsItsOwn' /\ NothingOfferedIsClosed' /\ ReadyIsLoaded'
    BY <1>9 DEF RenderReturns, PoolOnly, Idle, EnginesAreDistinct, CandidateIsItsOwn,
       NothingOfferedIsClosed, ReadyIsLoaded, NotOffered
  <2> QED BY <2>1, <2>2, <2>3, <2>4
<1>10. ASSUME NEW m \in Models, RestartModel(m) PROVE ModelInv'
  <2>1. ModelTyped' BY <1>10 DEF RestartModel, ModelTyped
  <2>2. LocksAreHeld' BY <1>10 DEF RestartModel, LocksAreHeld, ModelTyped
  <2>3. EnginesAreDistinct' /\ LoadsItsOwn' /\ CandidateIsItsOwn' /\ NothingOfferedIsClosed' /\
       ReadyIsLoaded'
    BY <1>10 DEF RestartModel, EnginesAreDistinct, LoadsItsOwn, CandidateIsItsOwn,
       NothingOfferedIsClosed, ReadyIsLoaded, NotOffered
  <2> QED BY <2>1, <2>2, <2>3
<1>11. ASSUME ReloadBegins PROVE ModelInv'
  <2>1. ModelTyped' BY <1>11 DEF ReloadBegins, ModelTyped
  <2>2. LocksAreHeld'
    <3> DEFINE m == reload.model
    <3>1. /\ m \in Models /\ lock[m] = Free /\ reload' = [reload EXCEPT !.stage = "loading"]
          /\ lock' = [lock EXCEPT ![m] = "reload"] /\ status' = [status EXCEPT ![m] = "reloading"]
          /\ UNCHANGED <<warm, job>>
      BY <1>11 DEF ReloadBegins, ModelTyped
    <3>2. reload'.model = m
      BY <3>1 DEF ModelTyped
    <3> HIDE DEF m
    <3>3. \A n \in Models : /\ lock'[n] = (IF n = m THEN "reload" ELSE lock[n])
                            /\ status'[n] = (IF n = m THEN "reloading" ELSE status[n])
      BY <3>1 DEF ModelTyped
    <3>4. /\ Free \notin {"warm", "reload"} /\ \A v \in Renderers : v # Free /\ job[v].model \in Models
      BY DEF Free, ModelTyped, JobRecords
    <3> QED BY <3>1, <3>2, <3>3, <3>4 DEF LocksAreHeld
  <2>3. LoadsItsOwn' BY <1>11 DEF ReloadBegins, LoadsItsOwn, ModelTyped
  <2>4. ReadyIsLoaded' BY <1>11 DEF ReloadBegins, ReadyIsLoaded, ModelTyped
  <2>5. EnginesAreDistinct' /\ CandidateIsItsOwn' /\ NothingOfferedIsClosed'
    BY <1>11 DEF ReloadBegins, EnginesAreDistinct, CandidateIsItsOwn, NothingOfferedIsClosed,
       NotOffered
  <2> QED BY <2>1, <2>2, <2>3, <2>4, <2>5
<1>12. ASSUME NEW ok \in BOOLEAN, ReloadEnds(ok) PROVE ModelInv'
  <2>1. ModelTyped' BY <1>12 DEF ReloadEnds, EndsLoad, Unlocks, ModelTyped
  <2>2. LocksAreHeld' BY <1>12 DEF ReloadEnds, EndsLoad, Unlocks, LocksAreHeld, ModelTyped
  <2>3. LoadsItsOwn' BY <1>12 DEF ReloadEnds, EndsLoad, Unlocks, LoadsItsOwn, ModelTyped
  <2>4. CandidateIsItsOwn' BY <1>12 DEF ReloadEnds, EndsLoad, Unlocks, CandidateIsItsOwn,
       NotOffered, ModelTyped
  <2>5. ReadyIsLoaded' BY <1>12 DEF ReloadEnds, EndsLoad, Unlocks, ReadyIsLoaded, ModelTyped
  <2>6. EnginesAreDistinct' /\ NothingOfferedIsClosed'
    BY <1>12 DEF ReloadEnds, EndsLoad, Unlocks, EnginesAreDistinct, NothingOfferedIsClosed,
       NotOffered
  <2> QED BY <2>1, <2>2, <2>3, <2>4, <2>5, <2>6
<1>13. ASSUME ReloadReturns PROVE ModelInv'
  <2>1. ModelTyped' BY <1>13 DEF ReloadReturns, ModelTyped
  <2>2. LocksAreHeld' BY <1>13 DEF ReloadReturns, LocksAreHeld, ModelTyped
  <2>3. EnginesAreDistinct' /\ LoadsItsOwn' /\ CandidateIsItsOwn' /\ NothingOfferedIsClosed' /\
       ReadyIsLoaded'
    BY <1>13 DEF ReloadReturns, EnginesAreDistinct, LoadsItsOwn, CandidateIsItsOwn,
       NothingOfferedIsClosed, ReadyIsLoaded, NotOffered
  <2> QED BY <2>1, <2>2, <2>3
<1>14. ASSUME ReloadForgotten PROVE ModelInv'
  <2>1. ModelTyped' BY <1>14 DEF ReloadForgotten, NoReload, ModelTyped
  <2>2. LocksAreHeld' BY <1>14 DEF ReloadForgotten, NoReload, LocksAreHeld, ModelTyped
  <2>3. EnginesAreDistinct' /\ LoadsItsOwn' /\ CandidateIsItsOwn' /\ NothingOfferedIsClosed' /\
       ReadyIsLoaded'
    BY <1>14 DEF ReloadForgotten, NoReload, EnginesAreDistinct, LoadsItsOwn, CandidateIsItsOwn,
       NothingOfferedIsClosed, ReadyIsLoaded, NotOffered
  <2> QED BY <2>1, <2>2, <2>3
<1>15. ASSUME NEW m \in Models, BeginSetup(m) PROVE ModelInv'
  <2>1. ModelTyped'
    <3>1. /\ m \in Models
          /\ \E s \in {"installed", "installing"} :
               setup' = [stage |-> s, model |-> m, engine |-> 0, previous |-> 0,
                         cancelled |-> FALSE, paused |-> FALSE]
      BY <1>15 DEF BeginSetup, NoSetup
    <3>2. created \in Nat BY DEF ModelTyped
    <3>3. setup' \in SetupRecords(created)
      BY <3>1, <3>2 DEF SetupRecords, SetupStages
    <3> QED BY <1>15, <3>3 DEF BeginSetup, SetupOnly, ModelTyped
  <2>2. CandidateIsItsOwn' BY <1>15 DEF BeginSetup, SetupOnly, NoSetup, CandidateIsItsOwn,
       NotOffered, ModelTyped
  <2>3. EnginesAreDistinct' /\ LocksAreHeld' /\ LoadsItsOwn' /\ NothingOfferedIsClosed' /\
       ReadyIsLoaded'
    BY <1>15 DEF BeginSetup, SetupOnly, NoSetup, EnginesAreDistinct, LocksAreHeld, LoadsItsOwn,
       NothingOfferedIsClosed, ReadyIsLoaded, NotOffered
  <2> QED BY <2>1, <2>2, <2>3
<1>16. ASSUME NEW ok \in BOOLEAN, InstallEnds(ok) PROVE ModelInv'
  <2>1. ModelTyped' BY <1>16 DEF InstallEnds, SetupOnly, SetupStage, ModelTyped, SetupRecords,
       SetupStages
  <2>2. CandidateIsItsOwn'
    <3>1. setup.engine = 0 /\ (SetupStage("installed") \/ SetupStage("failing"))
      BY <1>16 DEF InstallEnds, CandidateIsItsOwn
    <3>2. /\ setup.engine = 0 /\ setup'.engine = 0 /\ setup'.stage \in {"installed", "failing"}
      BY <1>16, <3>1, SetupMoves DEF InstallEnds, CandidateIsItsOwn, SetupStages
    <3> QED BY <3>2 DEF CandidateIsItsOwn, NotOffered
  <2>3. EnginesAreDistinct' /\ LocksAreHeld' /\ LoadsItsOwn' /\ NothingOfferedIsClosed' /\
       ReadyIsLoaded'
    BY <1>16 DEF InstallEnds, SetupOnly, SetupStage, EnginesAreDistinct, LocksAreHeld,
       LoadsItsOwn, NothingOfferedIsClosed, ReadyIsLoaded, NotOffered
  <2> QED BY <2>1, <2>2, <2>3
<1>17. ASSUME CreateWorker PROVE ModelInv'
  <2>0. CASE setup.cancelled
    <3>1. /\ SetupStage("failing") /\ setup.engine = 0
          /\ UNCHANGED <<engine, status, lock, loaded, closed, created, job, warm, reload, closing>>
      BY <1>17, <2>0 DEF CreateWorker, SetupOnly, CandidateIsItsOwn
    <3>2. setup' \in SetupRecords(created) /\ setup'.stage = "failing" /\ setup'.engine = 0
      BY <3>1, SetupMoves DEF SetupStages
    <3>3. ModelTyped' BY <3>1, <3>2 DEF ModelTyped
    <3>4. CandidateIsItsOwn' BY <3>1, <3>2 DEF CandidateIsItsOwn, NotOffered
    <3> QED
      BY <3>1, <3>3, <3>4 DEF EnginesAreDistinct, LocksAreHeld, LoadsItsOwn,
         NothingOfferedIsClosed, ReadyIsLoaded, NotOffered
  <2>01. CASE ~setup.cancelled
    <3> DEFINE e == created + 1
    <3>1. /\ setup' = [setup EXCEPT !.stage = "warming", !.engine = e] /\ created' = e
          /\ UNCHANGED <<engine, status, lock, loaded, closed, job, warm, reload, closing>>
      BY <1>17, <2>01 DEF CreateWorker, SetupOnly
    <3>2. /\ created \in Nat /\ e \in Nat /\ created < e
          /\ engine \in [Models -> 0 .. created] /\ closed \subseteq 1 .. created
          /\ closing \in 0 .. created /\ setup \in SetupRecords(created)
      BY DEF ModelTyped
    <3>3. setup'.stage = "warming" /\ setup'.engine = e
      BY <3>1, <3>2 DEF SetupRecords
    <3> HIDE DEF e
    <3>4. setup' \in SetupRecords(e)
      <4> DEFINE s == [setup EXCEPT !.stage = "warming"]
      <4>1. setup' = [s EXCEPT !.engine = e]
        BY <3>1, <3>2 DEF SetupRecords
      <4>2. s \in SetupRecords(created)
        BY <3>2 DEF SetupRecords, SetupStages
      <4> HIDE DEF s
      <4>3. s \in SetupRecords(e)
        BY <3>2, <4>2 DEF SetupRecords
      <4> QED BY <3>2, <4>1, <4>3 DEF SetupRecords
    <3>5. /\ engine \in [Models -> 0 .. e] /\ closed \subseteq 1 .. e /\ closing \in 0 .. e
          /\ e # 0 /\ e \notin closed \cup {closing} /\ \A m \in Models : engine[m] # e
      BY <3>2
    <3>6. ModelTyped' BY <3>1, <3>2, <3>4, <3>5 DEF ModelTyped
    <3>7. CandidateIsItsOwn' BY <3>1, <3>3, <3>5 DEF CandidateIsItsOwn, NotOffered
    <3> QED
      BY <3>1, <3>6, <3>7 DEF EnginesAreDistinct, LocksAreHeld, LoadsItsOwn,
         NothingOfferedIsClosed, ReadyIsLoaded, NotOffered
  <2> QED BY <2>0, <2>01
<1>18. ASSUME NEW ok \in BOOLEAN, WarmupReturns(ok) PROVE ModelInv'
  <2>1. ModelTyped' BY <1>18 DEF WarmupReturns, SetupOnly, SetupStage, ModelTyped, SetupRecords,
       SetupStages
  <2>2. CandidateIsItsOwn' BY <1>18 DEF WarmupReturns, SetupOnly, SetupStage, CandidateIsItsOwn,
       NotOffered, ModelTyped
  <2>3. ReadyIsLoaded' BY <1>18 DEF WarmupReturns, SetupOnly, SetupStage, ReadyIsLoaded,
       ModelTyped
  <2>4. EnginesAreDistinct' /\ LocksAreHeld' /\ LoadsItsOwn' /\ NothingOfferedIsClosed'
    BY <1>18 DEF WarmupReturns, SetupOnly, SetupStage, EnginesAreDistinct, LocksAreHeld,
       LoadsItsOwn, NothingOfferedIsClosed, NotOffered
  <2> QED BY <2>1, <2>2, <2>3, <2>4
<1>19. ASSUME PausePool PROVE ModelInv'
  <2>1. ModelTyped' BY <1>19 DEF PausePool, SetupOnly, ModelTyped, SetupRecords, SetupStages
  <2>2. CandidateIsItsOwn' BY <1>19 DEF PausePool, SetupOnly, CandidateIsItsOwn, NotOffered,
       ModelTyped
  <2>3. EnginesAreDistinct' /\ LocksAreHeld' /\ LoadsItsOwn' /\ NothingOfferedIsClosed' /\
       ReadyIsLoaded'
    BY <1>19 DEF PausePool, SetupOnly, EnginesAreDistinct, LocksAreHeld, LoadsItsOwn,
       NothingOfferedIsClosed, ReadyIsLoaded, NotOffered
  <2> QED BY <2>1, <2>2, <2>3
<1>20. ASSUME PublishModel PROVE ModelInv'
  <2> DEFINE m == setup.model
             e == setup.engine
  <2>0. /\ setup.stage = "quiescing" /\ ~setup.cancelled
        /\ setup' = [setup EXCEPT !.stage = "retiring", !.engine = 0, !.previous = engine[m]]
        /\ engine' = [engine EXCEPT ![m] = e] /\ status' = [status EXCEPT ![m] = "ready"]
        /\ lock' = [lock EXCEPT ![m] = Free]
        /\ UNCHANGED <<loaded, closed, created, closing, job, warm, reload>>
    BY <1>20 DEF PublishModel, Quiescent, SetupOnly
  <2>01. /\ m \in Models /\ e \in 0 .. created /\ created \in Nat
         /\ setup \in SetupRecords(created) /\ engine[m] \in 0 .. created
    BY DEF ModelTyped, SetupRecords
  <2>02. /\ e # 0 /\ NotOffered(e) /\ e \in loaded /\ e \notin closed /\ e # closing
    BY <2>0 DEF CandidateIsItsOwn
  <2>03. /\ \A w \in Renderers : job[w].stage \in {"idle", "woken"}
         /\ \A n \in Models : status[n] \notin {"loading", "reloading"}
    BY <1>20 DEF PublishModel, Quiescent, Active, Loading
  <2>04. /\ setup' \in SetupRecords(created) /\ setup'.stage = "retiring" /\ setup'.engine = 0
         /\ setup'.previous = engine[m]
    <3> DEFINE s == [setup EXCEPT !.stage = "retiring"]
               r == [s EXCEPT !.engine = 0]
    <3>1. /\ setup' = [r EXCEPT !.previous = engine[m]] /\ setup'.stage = "retiring"
          /\ setup'.engine = 0 /\ setup'.previous = engine[m]
      BY <2>0, <2>01 DEF SetupRecords
    <3>2. s \in SetupRecords(created)
      BY <2>01 DEF SetupRecords, SetupStages
    <3> HIDE DEF s
    <3>3. r \in SetupRecords(created)
      BY <2>01, <3>2 DEF SetupRecords
    <3> HIDE DEF r
    <3>4. [r EXCEPT !.previous = engine[m]] \in SetupRecords(created)
      BY <2>01, <3>3 DEF SetupRecords
    <3> QED BY <3>1, <3>4
  <2> HIDE DEF m, e
  <2>05. \A n \in Models : /\ engine'[n] = (IF n = m THEN e ELSE engine[n])
                           /\ status'[n] = (IF n = m THEN "ready" ELSE status[n])
                           /\ lock'[n] = (IF n = m THEN Free ELSE lock[n])
    BY <2>0, <2>01 DEF ModelTyped
  <2>06. warm # "loading" /\ reload.stage # "loading"
    <3>1. Free \notin {"warm", "reload"} /\ Startup \in Models /\ reload.model \in Models
      BY DEF Free, ModelTyped
    <3> QED BY <2>03, <3>1 DEF LocksAreHeld
  <2>1. ModelTyped'
    <3>1. engine' \in [Models -> 0 .. created]
      BY <2>0, <2>01 DEF ModelTyped
    <3>2. status' \in [Models -> {"none", "cold", "loading", "ready", "failed", "reloading"}]
      BY <2>0 DEF ModelTyped
    <3>3. lock' \in [Models -> {Free, "warm", "reload"} \cup Renderers]
      BY <2>0 DEF ModelTyped
    <3> QED BY <2>0, <2>04, <3>1, <3>2, <3>3 DEF ModelTyped
  <2>2. EnginesAreDistinct'
    BY <2>02, <2>05 DEF EnginesAreDistinct, NotOffered
  <2>3. LocksAreHeld'
    <3>1. \A w \in Renderers : job[w].stage # "loading"
      BY <2>03
    <3> QED BY <2>0, <2>03, <2>05, <2>06, <3>1 DEF LocksAreHeld
  <2>4. LoadsItsOwn'
    BY <2>0, <2>03, <2>05, <2>06 DEF LoadsItsOwn, Underway
  <2>5. CandidateIsItsOwn'
    <3>0. UNCHANGED <<closed, closing, loaded>> BY <2>0
    <3>1. \A n \in Models : engine'[n] = engine[m] => engine[m] = 0
      <4>1. ASSUME NEW n \in Models, engine'[n] = engine[m] PROVE engine[m] = 0
        BY <2>01, <2>02, <2>05, <4>1 DEF NotOffered, EnginesAreDistinct
      <4> QED BY <4>1
    <3> QED BY <2>04, <3>0, <3>1 DEF CandidateIsItsOwn, NotOffered
  <2>6. NothingOfferedIsClosed'
    BY <2>0, <2>02, <2>05 DEF NothingOfferedIsClosed, NotOffered
  <2>7. ReadyIsLoaded'
    BY <2>0, <2>02, <2>05 DEF ReadyIsLoaded
  <2> QED BY <2>1, <2>2, <2>3, <2>4, <2>5, <2>6, <2>7
<1>21. ASSUME GiveUp PROVE ModelInv'
  <2>1. ModelTyped' BY <1>21 DEF GiveUp, SetupOnly, SetupStage, ModelTyped, SetupRecords,
       SetupStages
  <2>2. CandidateIsItsOwn' BY <1>21 DEF GiveUp, SetupOnly, SetupStage, CandidateIsItsOwn,
       NotOffered, ModelTyped
  <2>3. EnginesAreDistinct' /\ LocksAreHeld' /\ LoadsItsOwn' /\ NothingOfferedIsClosed' /\
       ReadyIsLoaded'
    BY <1>21 DEF GiveUp, SetupOnly, SetupStage, EnginesAreDistinct, LocksAreHeld, LoadsItsOwn,
       NothingOfferedIsClosed, ReadyIsLoaded, NotOffered
  <2> QED BY <2>1, <2>2, <2>3
<1>22. ASSUME Retire PROVE ModelInv'
  <2>1. ModelTyped' BY <1>22 DEF Retire, SetupOnly, SetupStage, ModelTyped, SetupRecords,
       SetupStages
  <2>2. CandidateIsItsOwn' BY <1>22 DEF Retire, SetupOnly, SetupStage, CandidateIsItsOwn,
       NotOffered, ModelTyped
  <2>3. NothingOfferedIsClosed'
    <3>1. UNCHANGED engine BY <1>22 DEF Retire
    <3>2. closing' = closing /\ closed' = closed \cup ({setup.previous} \ {0}) /\ NotOffered(setup.previous)
      BY <1>22 DEF Retire, CandidateIsItsOwn
    <3> QED BY <3>1, <3>2 DEF NothingOfferedIsClosed, NotOffered
  <2>4. EnginesAreDistinct' /\ LocksAreHeld' /\ LoadsItsOwn' /\ ReadyIsLoaded'
    BY <1>22 DEF Retire, SetupOnly, SetupStage, EnginesAreDistinct, LocksAreHeld, LoadsItsOwn,
       ReadyIsLoaded
  <2> QED BY <2>1, <2>2, <2>3, <2>4
<1>23. ASSUME CloseCandidate PROVE ModelInv'
  <2>1. ModelTyped' BY <1>23 DEF CloseCandidate, SetupOnly, SetupStage, ModelTyped,
       SetupRecords, SetupStages
  <2>2. CandidateIsItsOwn' BY <1>23 DEF CloseCandidate, SetupOnly, SetupStage,
       CandidateIsItsOwn, NotOffered, ModelTyped
  <2>3. NothingOfferedIsClosed'
    <3>1. UNCHANGED engine BY <1>23 DEF CloseCandidate
    <3>2. closing' = closing /\ closed' = closed \cup ({setup.engine} \ {0}) /\ NotOffered(setup.engine)
      BY <1>23 DEF CloseCandidate, CandidateIsItsOwn
    <3> QED BY <3>1, <3>2 DEF NothingOfferedIsClosed, NotOffered
  <2>4. EnginesAreDistinct' /\ LocksAreHeld' /\ LoadsItsOwn' /\ ReadyIsLoaded'
    BY <1>23 DEF CloseCandidate, SetupOnly, SetupStage, EnginesAreDistinct, LocksAreHeld,
       LoadsItsOwn, ReadyIsLoaded
  <2> QED BY <2>1, <2>2, <2>3, <2>4
<1>24. ASSUME EndSetup PROVE ModelInv'
  <2>1. ModelTyped' BY <1>24 DEF EndSetup, SetupOnly, NoSetup, ModelTyped, SetupRecords,
       SetupStages
  <2>2. CandidateIsItsOwn' BY <1>24 DEF EndSetup, SetupOnly, NoSetup, CandidateIsItsOwn,
       NotOffered, ModelTyped
  <2>3. EnginesAreDistinct' /\ LocksAreHeld' /\ LoadsItsOwn' /\ NothingOfferedIsClosed' /\
       ReadyIsLoaded'
    BY <1>24 DEF EndSetup, SetupOnly, NoSetup, EnginesAreDistinct, LocksAreHeld, LoadsItsOwn,
       NothingOfferedIsClosed, ReadyIsLoaded, NotOffered
  <2> QED BY <2>1, <2>2, <2>3
<1>25. ASSUME CancelSetup PROVE ModelInv'
  <2>1. ModelTyped' BY <1>25 DEF CancelSetup, SetupOnly, ModelTyped, SetupRecords, SetupStages
  <2>2. CandidateIsItsOwn' BY <1>25 DEF CancelSetup, SetupOnly, CandidateIsItsOwn, NotOffered,
       ModelTyped
  <2>3. NothingOfferedIsClosed'
    <3>1. UNCHANGED <<engine, closed>> BY <1>25 DEF CancelSetup
    <3>2. closing' = closing \/ (closing' = setup.engine /\ NotOffered(setup.engine))
      BY <1>25 DEF CancelSetup, CandidateIsItsOwn
    <3> QED BY <3>1, <3>2 DEF NothingOfferedIsClosed, NotOffered
  <2>4. EnginesAreDistinct' /\ LocksAreHeld' /\ LoadsItsOwn' /\ ReadyIsLoaded'
    BY <1>25 DEF CancelSetup, SetupOnly, EnginesAreDistinct, LocksAreHeld, LoadsItsOwn,
       ReadyIsLoaded
  <2> QED BY <2>1, <2>2, <2>3, <2>4
<1>26. ASSUME CancelCloses PROVE ModelInv'
  <2>1. ModelTyped' BY <1>26 DEF CancelCloses, SetupOnly, ModelTyped
  <2>2. CandidateIsItsOwn' BY <1>26 DEF CancelCloses, SetupOnly, CandidateIsItsOwn, NotOffered,
       ModelTyped
  <2>3. NothingOfferedIsClosed' BY <1>26 DEF CancelCloses, SetupOnly, NothingOfferedIsClosed,
       NotOffered, ModelTyped
  <2>4. EnginesAreDistinct' /\ LocksAreHeld' /\ LoadsItsOwn' /\ ReadyIsLoaded'
    BY <1>26 DEF CancelCloses, SetupOnly, EnginesAreDistinct, LocksAreHeld, LoadsItsOwn,
       ReadyIsLoaded
  <2> QED BY <2>1, <2>2, <2>3, <2>4
<1>27. ASSUME UNCHANGED modelVars PROVE ModelInv'
  BY <1>27 DEF modelVars, ModelTyped, EnginesAreDistinct, LocksAreHeld, LoadsItsOwn,
     CandidateIsItsOwn, NothingOfferedIsClosed, ReadyIsLoaded, NotOffered
<1> QED
  BY <1>1, <1>2, <1>3, <1>4, <1>5, <1>6, <1>7, <1>8, <1>9, <1>10, <1>11, <1>12, <1>13, <1>14,
     <1>15, <1>16, <1>17, <1>18, <1>19, <1>20, <1>21, <1>22, <1>23, <1>24, <1>25, <1>26, <1>27
  DEF ModelNext, Thread, Reloads, Setups

\* No job renders with an engine that was retired or given up, no model is offered
\* under one, and a model that is ready has loaded its engine.
THEOREM ModelsStayAlive == ModelSpec => []ModelsAreAlive
  BY ModelBegins, ModelStep, ModelInvImplies, PTL DEF ModelSpec

-----------------------------------------------------------------------------
(***************************************************************************)
(* For any number of requests and of blocks in a stream, and whenever the  *)
(* worker dies, is closed, answers late or not at all: what a caller takes *)
(* answers what it asked (AnswersAreItsOwn).                               *)
(*                                                                         *)
(* The lock alone does not give it: the next caller finds what the last    *)
(* one left.  The invariant says when a caller may leave: the line that    *)
(* ends a request is the last of its lines (EndIsLast), so whoever has     *)
(* taken it leaves the pipes empty, and whoever leaves before stops the    *)
(* worker.                                                                 *)
(***************************************************************************)

Line == [to : Nat, is : {"pcm", "ok", "bad"}]

LinesOK ==
  /\ asked \in Nat /\ stdin \in {<<>>, <<asked>>}
  /\ stdout \in Seq(Line) /\ unread \in Seq(Line)
  /\ holder \in [stage : {"none", "starting", "waiting", "yielded"}, kind : Kinds]

AreMine == \A q \in {stdout, unread} : \A k \in DOMAIN q : q[k].to = asked

\* Between requests the pipes are empty.
Quiet ==
  holder.stage \in {"none", "starting"} => unread = <<>> /\ stdout = <<>> /\ stdin = <<>>

\* A line that is no block ends its request: nothing is behind it, nor owed.
EndIsLast ==
  /\ \A k \in DOMAIN unread : unread[k].is # "pcm" => k = Len(unread) /\ stdout = <<>> /\ stdin = <<>>
  /\ \A k \in DOMAIN stdout : stdout[k].is # "pcm" => k = Len(stdout) /\ stdin = <<>>

BlocksAreStreamed ==
  \A q \in {stdout, unread} : \A k \in DOMAIN q : q[k].is = "pcm" => holder.kind = "stream"

WorkerInv == LinesOK /\ AreMine /\ Quiet /\ EndIsLast /\ BlocksAreStreamed

LEMMA WorkerInvImplies == WorkerInv => AnswersMatch
  BY DEF WorkerInv, AreMine, Quiet, AnswersMatch

LEMMA WorkerBegins == WorkerInit => WorkerInv
  BY DEF WorkerInit, WorkerInv, LinesOK, AreMine, Quiet, EndIsLast, BlocksAreStreamed, NoHolder,
     Kinds, Line

\* Empty pipes keep the invariant, whoever holds the lock.
LEMMA EmptyPipes ==
    ASSUME LinesOK, stdin' = <<>>, stdout' = <<>>, unread' = <<>>, asked' = asked,
           holder' \in {holder, NoHolder}
    PROVE  WorkerInv'
  BY DEF WorkerInv, LinesOK, AreMine, Quiet, EndIsLast, BlocksAreStreamed, NoHolder, Kinds, Line

(***************************************************************************)
(* A request meets empty pipes, and its number is the only one that the    *)
(* worker is given.                                                        *)
(***************************************************************************)
LEMMA AskKeeps ==
    ASSUME WorkerInv, NEW kind \in Kinds, Ask(kind) \/ Spawn
    PROVE  WorkerInv'
  <1>1. unread = <<>> /\ stdout = <<>> /\ stdin = <<>>
    BY DEF WorkerInv, Quiet, Ask, Spawn
  <1>2. unread' = <<>> /\ stdout' = <<>>
    BY <1>1 DEF Ask, Spawn
  <1>3. LinesOK'
    <2>1. CASE Ask(kind)
      BY <2>1, <1>1 DEF WorkerInv, LinesOK, Ask
    <2>2. CASE Spawn
      BY <2>2, <1>1 DEF WorkerInv, LinesOK, Spawn
    <2> QED
      BY <2>1, <2>2
  <1>4. Quiet'
    <2>1. CASE Ask(kind)
      BY <2>1, <1>1, <1>2 DEF Quiet, Ask
    <2>2. CASE Spawn
      BY <2>2 DEF WorkerInv, LinesOK, Quiet, Spawn
    <2> QED
      BY <2>1, <2>2
  <1>5. AreMine' /\ EndIsLast' /\ BlocksAreStreamed'
    BY <1>2 DEF AreMine, EndIsLast, BlocksAreStreamed
  <1> QED
    BY <1>3, <1>4, <1>5 DEF WorkerInv

LEMMA ReadBlockKeeps ==
    ASSUME WorkerInv, ReadBlock
    PROVE  WorkerInv'
  <1>1. PICK n \in 1 .. Len(stdout) :
          /\ unread' = SubSeq(stdout, 1, n)
          /\ stdout' = SubSeq(stdout, n + 1, Len(stdout))
    BY DEF ReadBlock
  <1>2. /\ stdout \in Seq(Line) /\ Len(stdout) \in Nat /\ unread = <<>>
        /\ UNCHANGED <<stdin, holder, asked>>
    BY DEF WorkerInv, LinesOK, ReadBlock
  <1>3. /\ unread' \in Seq(Line) /\ Len(unread') = n
        /\ \A k \in DOMAIN unread' : k \in 1 .. n /\ unread'[k] = stdout[k]
    BY <1>1, <1>2
  <1>4. /\ stdout' \in Seq(Line) /\ Len(stdout') = Len(stdout) - n
        /\ \A k \in DOMAIN stdout' : k + n \in DOMAIN stdout /\ stdout'[k] = stdout[k + n]
    BY <1>1, <1>2
  <1>5. \A k \in 1 .. n : k \in DOMAIN stdout
    BY <1>2
  <1>6. LinesOK'
    BY <1>2, <1>3, <1>4 DEF WorkerInv, LinesOK
  <1>7. AreMine' /\ BlocksAreStreamed'
    BY <1>2, <1>3, <1>4, <1>5 DEF WorkerInv, AreMine, BlocksAreStreamed
  <1>8. Quiet'
    BY <1>2 DEF ReadBlock, Quiet
  <1>9. EndIsLast'
    <2>1. ASSUME NEW k \in DOMAIN unread', unread'[k].is # "pcm"
          PROVE  k = Len(unread') /\ stdout' = <<>> /\ stdin' = <<>>
      <3>1. k = Len(stdout) /\ stdin = <<>>
        BY <2>1, <1>3, <1>5 DEF WorkerInv, EndIsLast
      <3>2. n = Len(stdout) /\ Len(stdout') = 0
        BY <3>1, <2>1, <1>2, <1>3, <1>4
      <3> QED
        BY <3>1, <3>2, <1>2, <1>3, <1>4
    <2>2. ASSUME NEW k \in DOMAIN stdout', stdout'[k].is # "pcm"
          PROVE  k = Len(stdout') /\ stdin' = <<>>
      <3>1. k + n = Len(stdout) /\ stdin = <<>>
        BY <2>2, <1>4 DEF WorkerInv, EndIsLast
      <3> QED
        BY <3>1, <2>2, <1>2, <1>4
    <2> QED
      BY <2>1, <2>2 DEF EndIsLast
  <1> QED
    BY <1>6, <1>7, <1>8, <1>9 DEF WorkerInv

(***************************************************************************)
(* A block leaves the rest to be taken; the line that ends the request was *)
(* the last one, and its caller leaves with empty pipes.                   *)
(***************************************************************************)
LEMMA TakeLineKeeps ==
    ASSUME WorkerInv, TakeLine
    PROVE  WorkerInv'
  <1>1. /\ unread \in Seq(Line) /\ Len(unread) \in Nat \ {0} /\ 1 \in DOMAIN unread
        /\ Head(unread) = unread[1]
    BY DEF WorkerInv, LinesOK, TakeLine
  <1>2. /\ unread' \in Seq(Line) /\ Len(unread') = Len(unread) - 1
        /\ \A k \in DOMAIN unread' : k + 1 \in DOMAIN unread /\ unread'[k] = unread[k + 1]
    BY <1>1 DEF TakeLine
  <1>3. UNCHANGED <<stdin, stdout, asked>>
    BY DEF TakeLine
  <1>4. CASE Head(unread).is = "pcm" /\ holder.kind = "stream" /\ holder' = [holder EXCEPT !.stage = "yielded"]
    <2>1. LinesOK' /\ Quiet' /\ holder'.kind = holder.kind
      BY <1>2, <1>3, <1>4 DEF WorkerInv, LinesOK, Quiet
    <2>2. AreMine' /\ BlocksAreStreamed'
      BY <1>2, <1>3, <2>1 DEF WorkerInv, AreMine, BlocksAreStreamed
    <2>3. EndIsLast'
      <3>1. ASSUME NEW k \in DOMAIN unread', unread'[k].is # "pcm"
            PROVE  k = Len(unread') /\ stdout' = <<>> /\ stdin' = <<>>
        BY <3>1, <1>1, <1>2, <1>3 DEF WorkerInv, EndIsLast
      <3>2. ASSUME NEW k \in DOMAIN stdout', stdout'[k].is # "pcm"
            PROVE  k = Len(stdout') /\ stdin' = <<>>
        BY <3>2, <1>3 DEF WorkerInv, EndIsLast
      <3> QED
        BY <3>1, <3>2 DEF EndIsLast
    <2> QED
      BY <2>1, <2>2, <2>3 DEF WorkerInv
  <1>5. CASE (Head(unread).is = "ok" \/ holder.kind # "stream") /\ Release
    <2>1. Head(unread).is # "pcm"
      BY <1>1, <1>5 DEF WorkerInv, BlocksAreStreamed
    <2>2. 1 = Len(unread) /\ stdout = <<>> /\ stdin = <<>>
      BY <2>1, <1>1 DEF WorkerInv, EndIsLast
    <2>3. unread' = <<>>
      BY <2>2, <1>2
    <2> QED
      BY <2>2, <2>3, <1>3, <1>5, EmptyPipes DEF WorkerInv, Release
  <1> QED
    BY <1>4, <1>5 DEF TakeLine

\* Whoever leaves before the end, or closes, stops the worker.
LEMMA StopKeeps ==
    ASSUME WorkerInv,
           StreamFails \/ Abandon \/ NoAnswer \/ RestartWorker \/ CloseStops
    PROVE  WorkerInv'
  BY EmptyPipes
     DEF WorkerInv, StreamFails, Abandon, NoAnswer, RestartWorker, CloseStops, StopWorker, Release

LEMMA MarkKeeps ==
    ASSUME WorkerInv, NextBlock \/ CloseMarks
    PROVE  WorkerInv'
  <1>1. UNCHANGED <<stdin, stdout, unread, asked>> /\ holder'.kind = holder.kind
    BY DEF WorkerInv, LinesOK, NextBlock, CloseMarks
  <1>2. LinesOK' /\ Quiet'
    BY <1>1 DEF WorkerInv, LinesOK, Quiet, NextBlock, CloseMarks
  <1>3. AreMine' /\ EndIsLast' /\ BlocksAreStreamed'
    BY <1>1 DEF WorkerInv, AreMine, EndIsLast, BlocksAreStreamed
  <1> QED
    BY <1>2, <1>3 DEF WorkerInv

(***************************************************************************)
(* The worker: it writes for the request in its pipe and, once that is     *)
(* answered, nothing more.                                                 *)
(***************************************************************************)
LEMMA WorkerKeeps ==
    ASSUME WorkerInv, WorkerStreams \/ WorkerAnswers
    PROVE  WorkerInv'
  <1>1. PICK what \in {"pcm", "ok", "bad"} :
          /\ Says(what)
          /\ what = "pcm" => holder.kind = "stream" /\ stdin' = stdin
          /\ what # "pcm" => stdin' = Tail(stdin)
    BY DEF WorkerStreams, WorkerAnswers
  <1>2. stdin = <<asked>> /\ UNCHANGED <<unread, holder, asked>>
    BY DEF WorkerInv, LinesOK, WorkerStreams, WorkerAnswers
  <1>3. stdout' = Append(stdout, [to |-> asked, is |-> what])
    BY <1>1, <1>2 DEF Says
  <1>4. stdin' \in {<<>>, <<asked>>} /\ (what # "pcm" => stdin' = <<>>)
    BY <1>1, <1>2
  <1>5. /\ stdout \in Seq(Line) /\ Len(stdout') = Len(stdout) + 1 /\ stdout' \in Seq(Line)
        /\ \A k \in DOMAIN stdout' : \/ k \in DOMAIN stdout /\ stdout'[k] = stdout[k]
                                     \/ k = Len(stdout') /\ stdout'[k] = [to |-> asked, is |-> what]
    BY <1>3 DEF WorkerInv, LinesOK, Line
  <1>6. LinesOK'
    BY <1>2, <1>4, <1>5 DEF WorkerInv, LinesOK
  <1>7. AreMine' /\ BlocksAreStreamed'
    BY <1>1, <1>2, <1>5 DEF WorkerInv, AreMine, BlocksAreStreamed
  <1>8. Quiet'
    BY <1>2 DEF WorkerInv, Quiet
  <1>9. \A q \in {stdout, unread} : \A k \in DOMAIN q : q[k].is = "pcm"
    BY <1>2 DEF WorkerInv, EndIsLast
  <1>10. EndIsLast'
    BY <1>2, <1>4, <1>5, <1>9 DEF EndIsLast
  <1> QED
    BY <1>6, <1>7, <1>8, <1>10 DEF WorkerInv

\* Its death empties the pipes; what was read before stays to be taken.
LEMMA DeathKeeps ==
    ASSUME WorkerInv, WorkerDies
    PROVE  WorkerInv'
  BY DEF WorkerInv, LinesOK, AreMine, Quiet, EndIsLast, BlocksAreStreamed, WorkerDies

LEMMA WorkerStep ==
    ASSUME WorkerInv, [WorkerNext]_workerVars
    PROVE  WorkerInv'
  <1>1. CASE UNCHANGED workerVars
    BY <1>1 DEF workerVars, WorkerInv, LinesOK, AreMine, Quiet, EndIsLast, BlocksAreStreamed
  <1>2. CASE WorkerNext
    BY <1>2, AskKeeps, ReadBlockKeeps, TakeLineKeeps, StopKeeps, MarkKeeps, WorkerKeeps,
       DeathKeeps
       DEF WorkerNext, Kinds
  <1> QED
    BY <1>1, <1>2

(***************************************************************************)
(* A caller never takes what another was answered, whatever was abandoned, *)
(* timed out, closed or killed before.                                     *)
(***************************************************************************)
THEOREM AnswersAreItsOwn == WorkerSpec => []AnswersMatch
  BY WorkerBegins, WorkerStep, WorkerInvImplies, PTL DEF WorkerSpec

-----------------------------------------------------------------------------
(***************************************************************************)
(* A file played block by block, for any clip, block, rates, cue and       *)
(* outputs, whatever the listener does between two steps of the thread: it *)
(* is heard without a gap, and no stream is cut in its speech              *)
(* (FilesAreHeardWhole).                                                   *)
(*                                                                         *)
(* What the property says of the time between streams has to be known at   *)
(* every place of the thread (QuietWhereLeft): why the speech that is      *)
(* loud there will be faded before the stream is closed.                   *)
(***************************************************************************)

\* A stream that would be cut loud, and why it never is: what is owed where the
\* thread is.
QuietWhereLeft ==
  /\ pass = "between" \/ (pass = "ended" /\ ~broken) => ~loud
  /\ pass = "cue" /\ loud => prefix > 0
  /\ pass = "blocks" /\ loud => wrote /\ position < ClipUnits
  /\ pass = "leaving" /\ loud => wrote /\ Interrupted
  /\ pass = "closing" => ~loud

FlagsTyped ==
  /\ stopFlag \in BOOLEAN /\ pauseFlag \in BOOLEAN /\ wrote \in BOOLEAN
  /\ loud \in BOOLEAN /\ natural \in BOOLEAN /\ broken \in BOOLEAN

FileTyped ==
  /\ pass \in {"off", "between", "cue", "blocks", "leaving", "closing", "ended"}
  /\ position \in 0 .. ClipUnits /\ sounded \in 0 .. ClipUnits /\ prefix \in 0 .. CueBlocks
  /\ openedOn \in Identities /\ pending \in Outputs \cup {Nowhere}
  /\ confirmations \in 0 .. DeviceChangeConfirmations

Endings ==
  /\ natural => pass = "ended" /\ position = ClipUnits /\ ~broken
  /\ broken => pass = "ended"

FileInv ==
  /\ FileTyped
  /\ pass # "off" => sounded = position
  /\ Endings /\ QuietWhereLeft

LEMMA FileInvImplies == FileInv => FilePlaysOn
  BY DEF FileInv, Endings, QuietWhereLeft, FilePlaysOn, FileTyped

LEMMA FileConstants ==
  /\ ClipUnits \in Nat /\ CueBlocks \in Nat /\ DeviceChangeConfirmations \in Nat /\ MaxPlays \in Nat
  /\ 0 < ClipUnits /\ Saved \subseteq 0 .. ClipUnits
  BY FileAssumption

LEMMA FileBegins == FileInit => FlagsTyped /\ FileInv
<1> SUFFICES ASSUME FileInit PROVE FlagsTyped /\ FileInv
  OBVIOUS
<1>1. FlagsTyped BY DEF FileInit, FlagsTyped
<1>2. FileTyped
  <2>1. pass \in {"off"} /\ openedOn \in Identities /\ pending \in Outputs \cup {Nowhere}
    BY DEF FileInit, Identities, Unreadable, Nowhere
  <2>2. /\ position \in 0 .. ClipUnits /\ sounded \in 0 .. ClipUnits /\ prefix \in 0 .. CueBlocks
        /\ confirmations \in 0 .. DeviceChangeConfirmations
    BY FileConstants DEF FileInit
  <2> QED BY <2>1, <2>2 DEF FileTyped
<1>3. (pass # "off" => sounded = position) /\ Endings /\ QuietWhereLeft
  BY DEF FileInit, Endings, QuietWhereLeft
<1> QED BY <1>1, <1>2, <1>3 DEF FileInv

\* A block is no longer than what is left of the clip, and no block is negative.
LEMMA ABlockFits ==
  ASSUME NEW rate \in Rates, position \in 0 .. ClipUnits
  PROVE  Least(OutputFrames(rate) * rate, ClipUnits - position) \in 0 .. (ClipUnits - position)
<1>1. rate \in Nat /\ rate > 0 /\ ClipUnits \in Nat /\ BlockFrames \in Nat
  BY FileAssumption
<1>2. /\ position \in Int /\ 0 <= position /\ position <= ClipUnits
      /\ ClipUnits - position + rate - 1 \in Nat
  BY <1>1
<1>3. (ClipUnits - position + rate - 1) \div rate \in Nat
  BY <1>1, <1>2
<1>4. OutputFrames(rate) \in Nat
  BY <1>1, <1>3 DEF OutputFrames, Least
<1>5. OutputFrames(rate) * rate \in Nat
  <2> DEFINE f == OutputFrames(rate)
  <2>1. f \in Nat BY <1>4
  <2> HIDE DEF f
  <2>2. f * rate \in Nat BY <2>1, <1>1
  <2> QED BY <2>2 DEF f
<1> DEFINE u == OutputFrames(rate) * rate
<1>6. u \in Nat BY <1>5
<1> HIDE DEF u
<1>7. Least(u, ClipUnits - position) \in 0 .. (ClipUnits - position)
  BY <1>1, <1>2, <1>6 DEF Least
<1> QED BY <1>7 DEF u

LEMMA ABlockKeepsFileInv ==
  ASSUME FileInv, NEW identity \in Identities, NEW rate \in Rates, WriteBlock(identity, rate)
  PROVE  FileInv'
<1> DEFINE units == Least(OutputFrames(rate) * rate, ClipUnits - position)
<1> USE FileAssumption
<1>1. /\ pass = "blocks" /\ ~stopFlag /\ position < ClipUnits
      /\ Observes(identity)
      /\ UNCHANGED <<Flags, prefix, Outcome>>
  BY DEF WriteBlock
<1>2. FileTyped BY DEF FileInv
<1>3. openedOn' \in Identities
  BY <1>1, <1>2 DEF Observes, FileTyped
<1>4. pending' \in Outputs \cup {Nowhere} /\ confirmations' \in 0 .. DeviceChangeConfirmations
  <2>0. pending \in Outputs \cup {Nowhere} /\ confirmations \in 0 .. DeviceChangeConfirmations
        /\ DeviceChangeConfirmations \in Nat /\ openedOn \in Identities
    BY <1>2 DEF FileTyped
  <2>1. CASE identity # Unreadable /\ openedOn = Unreadable
    BY <1>1, <2>0, <2>1 DEF Observes
  <2>2. CASE ~(identity # Unreadable /\ openedOn = Unreadable)
             /\ (identity \in {Unreadable, openedOn} \/ MovedFrom(identity))
    BY <1>1, <2>0, <2>2 DEF Observes
  <2>3. CASE ~(identity # Unreadable /\ openedOn = Unreadable)
             /\ ~(identity \in {Unreadable, openedOn} \/ MovedFrom(identity))
    <3>1. pending' = identity /\ confirmations' = Counted(identity) /\ identity \in Outputs
      BY <1>1, <2>3 DEF Observes, Identities
    <3>2. ~(Counted(identity) >= DeviceChangeConfirmations)
      BY <2>3 DEF MovedFrom
    <3>3. Counted(identity) \in Nat
      BY <2>0 DEF Counted
    <3> HIDE FileAssumption
    <3> QED BY <3>1, <3>2, <3>3, <2>0
  <2> QED BY <2>1, <2>2, <2>3
<1>5. units \in 0 .. (ClipUnits - position)
  BY <1>2, ABlockFits DEF FileTyped
<1> HIDE DEF units
<1>6. CASE MovedFrom(identity) \/ pauseFlag
  <2>1. /\ left' = (IF MovedFrom(identity) THEN "moved" ELSE "paused") /\ pass' = "leaving"
        /\ UNCHANGED <<position, sounded, wrote, loud>>
    BY <1>6 DEF WriteBlock
  <2>2. FileTyped'
    BY <1>1, <1>2, <1>3, <1>4, <2>1 DEF FileTyped, Flags, Outcome
  <2> QED
    BY <1>1, <2>1, <2>2 DEF FileInv, Endings, QuietWhereLeft, Interrupted, Flags, Outcome
<1>7. CASE ~(MovedFrom(identity) \/ pauseFlag)
  <2>1. /\ position' = position + units /\ sounded' = sounded + units
        /\ wrote' = TRUE /\ loud' = (position' < ClipUnits)
        /\ UNCHANGED <<left, pass>>
    BY <1>7 DEF WriteBlock, units
  <2>2. position' \in 0 .. ClipUnits /\ sounded' = position'
    BY <1>1, <1>2, <1>5, <2>1 DEF FileTyped, FileInv
  <2>3. FileTyped'
    BY <1>1, <1>2, <1>3, <1>4, <2>1, <2>2 DEF FileTyped, Flags, Outcome
  <2> QED
    BY <1>1, <2>1, <2>2, <2>3 DEF FileInv, Endings, QuietWhereLeft, Interrupted, Flags, Outcome
<1> QED BY <1>6, <1>7

LEMMA FlagsKept == FlagsTyped /\ [FileNext]_fileVars => FlagsTyped'
<1> SUFFICES ASSUME FlagsTyped, [FileNext]_fileVars PROVE FlagsTyped'
  OBVIOUS
<1> USE DEF FlagsTyped, Flags, Outcome, Device
<1>1. ASSUME NEW from \in Saved, NEW withCue \in BOOLEAN, Launch(from, withCue) PROVE FlagsTyped'
  BY <1>1 DEF Launch
<1>2. ASSUME NEW identity \in Identities, OpenStream(identity) PROVE FlagsTyped'
  BY <1>2 DEF OpenStream
<1>3. ASSUME NEW identity \in Identities, NEW rate \in Rates, WriteBlock(identity, rate)
      PROVE FlagsTyped'
  <2>1. UNCHANGED <<stopFlag, pauseFlag, natural, broken>>
    BY <1>3 DEF WriteBlock
  <2>2. wrote' \in BOOLEAN BY <1>3 DEF WriteBlock
  <2>3. loud' = loud \/ loud' = (position' < ClipUnits) BY <1>3 DEF WriteBlock
  <2>4. (position' < ClipUnits) \in BOOLEAN OBVIOUS
  <2>5. loud' \in BOOLEAN BY Zenon, <2>3, <2>4
  <2> QED BY <2>1, <2>2, <2>5
<1>4. CASE SessionOver BY <1>4 DEF SessionOver
<1>5. CASE PlayPrefix
  <2>1. UNCHANGED <<stopFlag, pauseFlag, wrote, natural, broken>> BY <1>5 DEF PlayPrefix
  <2>2. loud' = FALSE \/ loud' = (prefix' > 0) BY <1>5 DEF PlayPrefix
  <2>3. (prefix' > 0) \in BOOLEAN OBVIOUS
  <2>4. loud' \in BOOLEAN BY Zenon, <2>2, <2>3
  <2> QED BY <2>1, <2>4
<1>6. CASE PrefixPlayed BY <1>6 DEF PrefixPlayed
<1>7. CASE BlocksOver BY <1>7 DEF BlocksOver
<1>8. CASE SoftClose BY <1>8 DEF SoftClose
<1>9. CASE CloseStream BY <1>9 DEF CloseStream
<1>10. CASE SessionFails BY <1>10 DEF SessionFails
<1>11. CASE SetFlags BY <1>11 DEF SetFlags
<1>12. CASE UNCHANGED fileVars BY <1>12 DEF fileVars
<1> QED
  BY <1>1, <1>2, <1>3, <1>4, <1>5, <1>6, <1>7, <1>8, <1>9, <1>10, <1>11, <1>12
  DEF FileNext, PlayFile

LEMMA FileKept == FlagsTyped /\ FileInv /\ [FileNext]_fileVars => FileInv'
<1> SUFFICES ASSUME FlagsTyped, FileInv, [FileNext]_fileVars PROVE FileInv'
  OBVIOUS
<1> USE FileConstants
<1> USE DEF FlagsTyped, FileInv, FileTyped, Endings, QuietWhereLeft, Interrupted, Flags, Outcome, Device
<1>1. ASSUME NEW from \in Saved, NEW withCue \in BOOLEAN, Launch(from, withCue) PROVE FileInv'
  BY <1>1 DEF Launch
<1>2. ASSUME NEW identity \in Identities, OpenStream(identity) PROVE FileInv'
  BY <1>2 DEF OpenStream
<1>3. ASSUME NEW identity \in Identities, NEW rate \in Rates, WriteBlock(identity, rate)
      PROVE FileInv'
  BY <1>3, ABlockKeepsFileInv
<1>4. CASE SessionOver BY <1>4 DEF SessionOver
<1>5. CASE PlayPrefix BY <1>5 DEF PlayPrefix
<1>6. CASE PrefixPlayed BY <1>6 DEF PrefixPlayed
<1>7. CASE BlocksOver BY <1>7 DEF BlocksOver
<1>8. CASE SoftClose BY <1>8 DEF SoftClose
<1>9. CASE CloseStream BY <1>9 DEF CloseStream
<1>10. CASE SessionFails BY <1>10 DEF SessionFails
<1>11. CASE SetFlags BY <1>11 DEF SetFlags
<1>12. CASE UNCHANGED fileVars BY <1>12 DEF fileVars
<1> QED
  BY <1>1, <1>2, <1>3, <1>4, <1>5, <1>6, <1>7, <1>8, <1>9, <1>10, <1>11, <1>12
  DEF FileNext, PlayFile

\* A file is heard from where it was started, without a gap or a repetition, ends
\* naturally only when all of it was, and no stream of it is closed in speech.
THEOREM FilesAreHeardWhole == FileSpec => []FilePlaysOn
  BY FileBegins, FlagsKept, FileKept, FileInvImplies, PTL DEF FileSpec

-----------------------------------------------------------------------------
(***************************************************************************)
(* For any number of daemons, state directories and starts, killed between *)
(* any two system calls: a daemon that serves is the one clients reach     *)
(* (TheServerIsReached).                                                   *)
(*                                                                         *)
(* The file is not protected by itself.  Whoever is about to remove or to  *)
(* bind it has the path's lease (HasPath) and, when it removes it at the   *)
(* end, has bound it (BoundIsServing); a refused start has neither.        *)
(***************************************************************************)

LeasesOK ==
  /\ stage \in [Daemons -> Stages] /\ bound \in [Daemons -> BOOLEAN]
  /\ stateLease \in [Homes -> Daemons \cup {Nobody}]

OnThePath == {"locked", "clear", "serving", "closing", "unlinked"}

HasState == \A d \in Daemons : stage[d] # "off" => stateLease[Home[d]] = d
HasPath == \A d \in Daemons : stage[d] \in OnThePath => pathLease = d
BoundIsServing == \A d \in Daemons : bound[d] => stage[d] \in {"serving", "closing"}
FileIsServed == \A d \in Daemons : stage[d] = "serving" => file = d

ServerInv == LeasesOK /\ HasState /\ HasPath /\ BoundIsServing /\ FileIsServed

LEMMA ServerInvImplies == ServerInv => ServerIsReachable
  BY DEF ServerInv, HasState, FileIsServed, ServerIsReachable

LEMMA ServerBegins == ServerInit => ServerInv
  BY DEF ServerInit, ServerInv, LeasesOK, HasState, HasPath, BoundIsServing, FileIsServed, Stages,
     OnThePath

LEMMA HomeIsHome == \A d \in Daemons : Home[d] \in Homes
  BY DEF Homes

(***************************************************************************)
(* The state's lease: taken when nobody has it, given up by who has it.    *)
(***************************************************************************)
LEMMA StateLeaseKeeps ==
    ASSUME ServerInv, NEW d \in Daemons, AcquireState(d) \/ ReleaseState(d)
    PROVE  ServerInv'
  <1> USE DEF Becomes
  <1>1. LeasesOK'
    BY HomeIsHome DEF ServerInv, LeasesOK, AcquireState, ReleaseState, Stages
  <1>2. HasState'
    <2>1. CASE AcquireState(d)
      BY <2>1, HomeIsHome, ServerAssumption DEF ServerInv, LeasesOK, HasState, AcquireState
    <2>2. CASE ReleaseState(d)
      BY <2>2, HomeIsHome DEF ServerInv, LeasesOK, HasState, ReleaseState
    <2> QED
      BY <2>1, <2>2
  <1>3. HasPath' /\ BoundIsServing' /\ FileIsServed'
    BY DEF ServerInv, LeasesOK, HasPath, BoundIsServing, FileIsServed, AcquireState, ReleaseState,
       OnThePath
  <1> QED
    BY <1>1, <1>2, <1>3 DEF ServerInv

(***************************************************************************)
(* The path's lease and the file: nobody else is on the path meanwhile.    *)
(***************************************************************************)
LEMMA PathKeeps ==
    ASSUME ServerInv, NEW d \in Daemons,
           \/ AcquirePath(d) \/ RefusedPath(d) \/ RemoveStale(d) \/ Bind(d)
           \/ StopServing(d) \/ Unlink(d) \/ ReleasePath(d)
    PROVE  ServerInv'
  <1> USE DEF Becomes
  <1>1. LeasesOK' /\ HasState'
    BY DEF ServerInv, LeasesOK, HasState, Stages, AcquirePath, RefusedPath, RemoveStale, Bind,
       StopServing, Unlink, ReleasePath
  <1>2. HasPath'
    BY ServerAssumption
       DEF ServerInv, LeasesOK, HasPath, OnThePath, AcquirePath, RefusedPath, RemoveStale, Bind,
           StopServing, Unlink, ReleasePath
  <1>3. BoundIsServing'
    BY DEF ServerInv, LeasesOK, BoundIsServing, AcquirePath, RefusedPath, RemoveStale, Bind,
       StopServing, Unlink, ReleasePath
  <1>4. FileIsServed'
    BY DEF ServerInv, LeasesOK, HasPath, OnThePath, BoundIsServing, FileIsServed, Removes,
       AcquirePath, RefusedPath, RemoveStale, Bind, StopServing, Unlink, ReleasePath
  <1> QED
    BY <1>1, <1>2, <1>3, <1>4 DEF ServerInv

\* A killed daemon's leases are free; those of the others are theirs.
LEMMA KilledKeeps ==
    ASSUME ServerInv, NEW d \in Daemons, Killed(d)
    PROVE  ServerInv'
  <1> USE DEF Becomes
  <1>1. LeasesOK'
    BY DEF ServerInv, LeasesOK, Stages, Killed
  <1>2. HasState'
    BY HomeIsHome DEF ServerInv, LeasesOK, HasState, Killed
  <1>3. HasPath' /\ BoundIsServing' /\ FileIsServed'
    BY DEF ServerInv, LeasesOK, HasPath, BoundIsServing, FileIsServed, OnThePath, Killed
  <1> QED
    BY <1>1, <1>2, <1>3 DEF ServerInv

\* The clip and the client touch no lease and no file.
LEMMA ClientKeeps ==
    ASSUME ServerInv, UNCHANGED <<stage, bound, stateLease, pathLease, file>>
    PROVE  ServerInv'
  BY DEF ServerInv, LeasesOK, HasState, HasPath, BoundIsServing, FileIsServed

LEMMA ServerStep ==
    ASSUME ServerInv, [ServerNext]_serverVars
    PROVE  ServerInv'
  <1>1. CASE UNCHANGED serverVars
    BY <1>1, ClientKeeps DEF serverVars
  <1>2. CASE SegmentEnds \/ (\E to \in Ends : ClipEnds(to)) \/ WaitStep \/ DeadlinePasses
    BY <1>2, ClientKeeps
       DEF SegmentEnds, ClipEnds, WaitStep, DeadlinePasses, Connect, Subscribe,
           ReadAcknowledgement, GetState, Listen, ReadEvent, StreamEnds, ClientOnly, ServerOnly
  <1>3. ASSUME NEW d \in Daemons,
               \/ AcquireState(d) \/ AcquirePath(d) \/ RefusedPath(d) \/ RemoveStale(d)
               \/ Bind(d) \/ StopServing(d) \/ Unlink(d) \/ ReleasePath(d) \/ ReleaseState(d)
               \/ Killed(d)
        PROVE  ServerInv'
    BY <1>3, StateLeaseKeeps, PathKeeps, KilledKeeps
  <1> QED
    BY <1>1, <1>2, <1>3 DEF ServerNext

(***************************************************************************)
(* Whatever other daemons start, refuse, stop or die: the one that serves  *)
(* has its socket, and its state directory to itself.                      *)
(***************************************************************************)
THEOREM TheServerIsReached == ServerSpec => []ServerIsReachable
  BY ServerBegins, ServerStep, ServerInvImplies, PTL DEF ServerSpec

-----------------------------------------------------------------------------
(***************************************************************************)
(* For any number of launch agents, whatever was installed before and      *)
(* whichever command fails or is interrupted: a failed installation puts   *)
(* the agent it was replacing back (RollbackIsComplete), except that an    *)
(* interrupt which finds launchd removing the previous service may leave   *)
(* the agent without one.                                                  *)
(*                                                                         *)
(* The property speaks of the end only.  What carries it there is what is  *)
(* registered at each stage of an activation and of its rollback           *)
(* (AgentFollowsStage): above all that the previous service is still there *)
(* until bootout, and nothing from the end of its removal on but, maybe,   *)
(* the replacement.                                                        *)
(***************************************************************************)

NotYet == {"off", "staged", "tools", "inspecting", "replacing"}
IsReplaced(a) == plist[a] = "new" /\ service[a] = "new"
IsAsBefore(a) == plist[a] = before[a].plist /\ service[a] = before[a].service

BeforeOK == before \in [LaunchAgents -> [plist : {None, "old"}, service : {None, "old"}]]

OthersAreStable ==
  /\ \A a \in LaunchAgents : a < agent => IsReplaced(a)
  /\ \A a \in LaunchAgents : a > agent => IsAsBefore(a)

\* What an interrupt left of the previous service, if it came during its removal.
CutOff(a) == cutShort /\ service[a] \in {None, Leaving}

\* A service that is registered had its plist, from the inspection on.
Restorable == before[agent].service # None => before[agent].plist = "old"

AgentFollowsStage ==
  LET p == plist[agent]
      s == service[agent]
      was == before[agent]
  IN  /\ at \in NotYet => IsAsBefore(agent)
      /\ at \in (Activating \ {"inspecting"}) \cup Restoring => Restorable
      /\ at = "bootout" => p = "new" /\ s = was.service
      /\ at = "waiting" => p = "new" /\ s \in {None, Leaving}
      /\ at = "bootstrap" => p = "new" /\ s = None
      /\ at \in {"replacing", "bootout", "waiting"} => ~attempted
      /\ cutShort => at \in Restoring \cup {"failed"} /\ ~attempted
      /\ at \in {"bootstrap", "retiring", "settling"} => attempted
      /\ at = "restoring" /\ ~attempted => outOfHands \/ s \in {was.service, None} \/ CutOff(agent)
      /\ at \in {"retiring", "settling", "looking", "reloading"} => p = was.plist
      /\ at = "looking" => \/ outOfHands \/ CutOff(agent)
                           \/ s = None \/ (~attempted /\ s = was.service)
      /\ at = "reloading" => was.service # None
      /\ at = "failed" => p = was.plist /\ (outOfHands \/ s = was.service \/ CutOff(agent))
      /\ at \in {"quitting", "done"} => IsReplaced(agent)
      /\ at = "quitting" => agent < LaunchAgentCount
      /\ at = "done" => agent = LaunchAgentCount

InstallInv == InstallTypeOK /\ BeforeOK /\ OthersAreStable /\ AgentFollowsStage

LEMMA AgentsFacts == 1 \in LaunchAgents /\ LaunchAgents \subseteq Nat
  BY InstallationAssumption DEF LaunchAgents

\* The properties follow from the stages at which an installation ends.
LEMMA InvImplies == InstallInv => PreviousServiceIsBack
  BY AgentsFacts, InstallationAssumption
     DEF InstallInv, InstallTypeOK, OthersAreStable, AgentFollowsStage, IsReplaced, IsAsBefore,
         CutOff, PreviousServiceIsBack, LaunchAgents

LEMMA InstallBegins == InstallInit => InstallInv
  <1> SUFFICES ASSUME InstallInit PROVE InstallInv
    OBVIOUS
  <1>1. InstallTypeOK
    BY AgentsFacts DEF InstallInit, InstallTypeOK
  <1>2. BeforeOK /\ \A a \in LaunchAgents : IsAsBefore(a)
    BY DEF InstallInit, BeforeOK, IsAsBefore
  <1>3. OthersAreStable
    BY <1>2, AgentsFacts DEF InstallInit, OthersAreStable, LaunchAgents
  <1>4. AgentFollowsStage
    BY <1>2, AgentsFacts DEF InstallInit, AgentFollowsStage, NotYet, Activating, Restoring
  <1> QED
    BY <1>1, <1>2, <1>3, <1>4 DEF InstallInv

\* A step of one agent's activation leaves the others alone.
LEMMA OthersStay ==
    ASSUME InstallInv, UNCHANGED <<agent, before>>,
           \A a \in LaunchAgents : a # agent => plist'[a] = plist[a] /\ service'[a] = service[a]
    PROVE  OthersAreStable'
  BY AgentsFacts DEF InstallInv, OthersAreStable, IsReplaced, IsAsBefore, LaunchAgents

(***************************************************************************)
(* Up to the activation nothing of an agent is touched; a finished one is  *)
(* followed by the next, which nothing has touched yet.                    *)
(***************************************************************************)
LEMMA PreparationKeeps ==
    ASSUME InstallInv, NEW ok \in BOOLEAN,
           Stage(ok) \/ InstallTools(ok) \/ PublishAppBundle(ok)
    PROVE  InstallInv'
  <1>1. InstallTypeOK'
    BY DEF InstallInv, InstallTypeOK, Stage, InstallTools, PublishAppBundle, Activating
  <1>2. BeforeOK' /\ OthersAreStable'
    BY OthersStay DEF InstallInv, BeforeOK, Stage, InstallTools, PublishAppBundle
  <1>3. AgentFollowsStage'
    BY DEF InstallInv, AgentFollowsStage, NotYet, IsAsBefore, Restorable, CutOff, Activating,
       Restoring, Stage, InstallTools, PublishAppBundle
  <1> QED
    BY <1>1, <1>2, <1>3 DEF InstallInv

LEMMA RetireMenuBarKeeps ==
    ASSUME InstallInv, NEW quits \in BOOLEAN, RetireMenuBar(quits)
    PROVE  InstallInv'
  <1>1. agent' \in LaunchAgents /\ agent' = agent + 1 /\ agent \in Nat
    BY InstallationAssumption
       DEF InstallInv, InstallTypeOK, AgentFollowsStage, RetireMenuBar, LaunchAgents
  <1>2. InstallTypeOK'
    BY <1>1 DEF InstallInv, InstallTypeOK, RetireMenuBar, Activating
  <1>3. BeforeOK'
    BY DEF InstallInv, BeforeOK, RetireMenuBar
  <1>4. IsReplaced(agent)
    BY DEF InstallInv, AgentFollowsStage, RetireMenuBar
  <1>5. OthersAreStable' /\ IsAsBefore(agent)'
    BY <1>1, <1>4, AgentsFacts
       DEF InstallInv, OthersAreStable, IsReplaced, IsAsBefore, RetireMenuBar, LaunchAgents
  <1>6. ~cutShort'
    BY DEF InstallInv, AgentFollowsStage, RetireMenuBar, Restoring
  <1>7. AgentFollowsStage'
    BY <1>5, <1>6 DEF AgentFollowsStage, NotYet, RetireMenuBar, Activating, Restoring
  <1> QED
    BY <1>2, <1>3, <1>5, <1>7 DEF InstallInv

(***************************************************************************)
(* The activation, the rollback and launchd: each changes the agent's own  *)
(* plist and service, to what the next stage expects of them.              *)
(***************************************************************************)
LEMMA ActivationKeeps ==
    ASSUME InstallInv, NEW ok \in BOOLEAN,
           \/ Inspect \/ ReplacePlist(ok) \/ Bootout(ok) \/ TornDown \/ TeardownTimesOut
           \/ Bootstrap(ok) \/ Interrupt(ok)
    PROVE  InstallInv'
  <1> USE DEF Rest, Registers, Visible, WasLoaded
  <1>1. InstallTypeOK'
    BY DEF InstallInv, InstallTypeOK, Inspect, ReplacePlist, Bootout, TornDown,
       TeardownTimesOut, Bootstrap, Interrupt, Interruptible, Activating, Restoring
  <1>2. BeforeOK'
    BY DEF InstallInv, BeforeOK, Inspect, ReplacePlist, Bootout, TornDown, TeardownTimesOut,
       Bootstrap, Interrupt
  <1>3. OthersAreStable'
    BY OthersStay
       DEF InstallInv, InstallTypeOK, Inspect, ReplacePlist, Bootout, TornDown, TeardownTimesOut,
       Bootstrap, Interrupt
  <1>4. AgentFollowsStage'
    <2> USE DEF InstallInv, InstallTypeOK, BeforeOK, AgentFollowsStage, NotYet, IsAsBefore,
                IsReplaced, Restorable, CutOff, Activating, Restoring, None, Leaving
    <2>1. CASE Inspect
      BY <2>1 DEF Inspect
    <2>2. CASE ReplacePlist(ok)
      BY <2>2 DEF ReplacePlist
    <2>3. CASE Bootout(ok)
      BY <2>3 DEF Bootout
    <2>4. CASE TornDown \/ TeardownTimesOut
      BY <2>4 DEF TornDown, TeardownTimesOut
    <2>5. CASE Bootstrap(ok)
      <3>1. agent < LaunchAgentCount \/ agent = LaunchAgentCount
        BY InstallationAssumption DEF LaunchAgents
      <3>2. CASE ok
        <4>1. at' \in {"quitting", "done"} /\ (at' = "quitting" => agent' < LaunchAgentCount)
                /\ (at' = "done" => agent' = LaunchAgentCount)
          BY <2>5, <3>1, <3>2 DEF Bootstrap
        <4>2. IsReplaced(agent)'
          BY <2>5, <3>2 DEF Bootstrap
        <4>3. ~cutShort'
          BY <2>5 DEF Bootstrap
        <4> QED
          BY <4>1, <4>2, <4>3
      <3>3. CASE ~ok
        BY <2>5, <3>3 DEF Bootstrap
      <3> QED
        BY <3>2, <3>3
    <2>6. CASE Interrupt(ok)
      <3>1. at' = "restoring" /\ UNCHANGED <<agent, before, attempted, outOfHands>> /\ Restorable'
        BY <2>6 DEF Interrupt, Interruptible
      <3>2. attempted => service'[agent] # Leaving
        BY <2>6 DEF Interrupt, Interruptible
      <3>3. cutShort' <=> service'[agent] = Leaving
        BY <2>6 DEF Interrupt
      <3>4. ~attempted => service'[agent] \in {before[agent].service, None, Leaving}
        BY <2>6 DEF Interrupt, Interruptible
      <3>5. cutShort' => ~attempted'
        BY <3>1, <3>2, <3>3
      <3>6. ~attempted' => service'[agent'] \in {before'[agent'].service, None} \/ CutOff(agent)'
        BY <3>1, <3>3, <3>4
      <3> QED
        BY <3>1, <3>5, <3>6
    <2> QED
      BY <2>1, <2>2, <2>3, <2>4, <2>5, <2>6
  <1> QED
    BY <1>1, <1>2, <1>3, <1>4 DEF InstallInv

LEMMA RollbackKeeps ==
    ASSUME InstallInv, NEW ok \in BOOLEAN,
           \/ RestorePlist \/ RetireReplacement(ok) \/ ReplacementGone \/ SettlingTimesOut
           \/ LookForPrevious \/ ReloadPrevious(ok)
    PROVE  InstallInv'
  <1> USE DEF Rest, Registers, Visible, WasLoaded
  <1>1. InstallTypeOK'
    BY DEF InstallInv, InstallTypeOK, BeforeOK, RestorePlist, RetireReplacement, ReplacementGone,
       SettlingTimesOut, LookForPrevious, ReloadPrevious, Activating, Restoring
  <1>2. BeforeOK'
    BY DEF InstallInv, BeforeOK, RestorePlist, RetireReplacement, ReplacementGone,
       SettlingTimesOut, LookForPrevious, ReloadPrevious
  <1>3. OthersAreStable'
    BY OthersStay
       DEF InstallInv, InstallTypeOK, RestorePlist, RetireReplacement, ReplacementGone,
       SettlingTimesOut, LookForPrevious, ReloadPrevious
  <1>4. AgentFollowsStage'
    <2> USE DEF InstallInv, InstallTypeOK, BeforeOK, AgentFollowsStage, NotYet, IsAsBefore,
                IsReplaced, Restorable, CutOff, Activating, Restoring, None, Leaving
    <2>1. CASE RestorePlist
      BY <2>1 DEF RestorePlist
    <2>2. CASE RetireReplacement(ok)
      BY <2>2 DEF RetireReplacement
    <2>3. CASE ReplacementGone \/ SettlingTimesOut
      BY <2>3 DEF ReplacementGone, SettlingTimesOut
    <2>4. CASE LookForPrevious
      BY <2>4 DEF LookForPrevious
    <2>5. CASE ReloadPrevious(ok)
      BY <2>5 DEF ReloadPrevious
    <2> QED
      BY <2>1, <2>2, <2>3, <2>4, <2>5
  <1> QED
    BY <1>1, <1>2, <1>3, <1>4 DEF InstallInv

\* Only a service on its way out goes.
LEMMA GoneKeeps ==
    ASSUME InstallInv, NEW a \in LaunchAgents, Gone(a)
    PROVE  InstallInv'
  <1>1. a = agent
    BY AgentsFacts
       DEF InstallInv, OthersAreStable, IsReplaced, IsAsBefore, BeforeOK, Gone, LaunchAgents,
           InstallTypeOK, None, Leaving
  <1>2. InstallTypeOK' /\ BeforeOK'
    BY DEF InstallInv, InstallTypeOK, BeforeOK, Gone
  <1>3. OthersAreStable'
    BY <1>1, OthersStay DEF InstallInv, InstallTypeOK, Gone
  <1>4. AgentFollowsStage'
    BY <1>1 DEF InstallInv, InstallTypeOK, BeforeOK, AgentFollowsStage, NotYet, IsAsBefore,
       IsReplaced, Restorable, CutOff, Activating, Restoring, Gone, None, Leaving
  <1> QED
    BY <1>2, <1>3, <1>4 DEF InstallInv

LEMMA InstallStep ==
    ASSUME InstallInv, [InstallNext]_installVars
    PROVE  InstallInv'
  <1>1. CASE UNCHANGED installVars
    BY <1>1
       DEF installVars, InstallInv, InstallTypeOK, BeforeOK, OthersAreStable, AgentFollowsStage,
           IsAsBefore, IsReplaced, Restorable, CutOff
  <1>2. CASE InstallNext
    BY <1>2, PreparationKeeps, RetireMenuBarKeeps, ActivationKeeps, RollbackKeeps, GoneKeeps
       DEF InstallNext
  <1> QED
    BY <1>1, <1>2

(***************************************************************************)
(* However an installation ends, whatever launchd, the file system or the  *)
(* tools refuse, and wherever it is interrupted: agents are replaced one   *)
(* after another, and the one that could not be is as it was, except that  *)
(* an interrupt during the removal of its service may cost it the service. *)
(***************************************************************************)
THEOREM RollbackIsComplete == InstallSpec => []PreviousServiceIsBack
  <1>1. InstallInv /\ [InstallNext]_installVars => InstallInv'
    BY InstallStep
  <1> QED
    BY <1>1, InstallBegins, InvImplies, PTL DEF InstallSpec

-----------------------------------------------------------------------------
(***************************************************************************)
(* For any number of confirmations and any order of readings, pauses,      *)
(* settings and restarts: the microphone takes the floor once in a         *)
(* capture (CapturesInterruptOnce).  While the detector says "no" it has   *)
(* counted exactly the hot readings since the last cold one, and they were *)
(* not enough.                                                             *)
(***************************************************************************)
DetectorInv ==
  /\ streak \in 0 .. Confirmations /\ heat \in 0 .. Confirmations + 1
  /\ hot = "no" => heat = streak /\ heat < Confirmations

LEMMA InputBegins == InputInit => DetectorInv
  BY InputAssumption DEF InputInit, DetectorInv

LEMMA ObserveKeeps ==
  ASSUME DetectorInv, Observe
  PROVE  /\ DetectorInv'
         /\ Edge => heat' = Confirmations
<1>1. /\ Confirmations \in Nat /\ Confirmations > 0 /\ streak \in Nat /\ heat \in Nat
      /\ streak <= Confirmations /\ heat <= Confirmations + 1
  BY InputAssumption DEF DetectorInv
<1>2. CASE seen = "hot"
  <2>1. /\ streak' = (IF streak < Confirmations THEN streak + 1 ELSE streak)
        /\ hot' = (IF streak' = Confirmations THEN "yes" ELSE hot)
        /\ heat' = (IF heat > Confirmations THEN heat ELSE heat + 1)
    BY <1>2 DEF Observe
  <2> QED BY <1>1, <2>1 DEF DetectorInv, Edge
<1>3. CASE seen = "cold"
  <2>1. streak' = 0 /\ hot' = "no" /\ heat' = 0
    BY <1>3 DEF Observe
  <2> QED BY <1>1, <1>3, <2>1 DEF DetectorInv, Edge
<1>4. CASE seen \notin {"hot", "cold"}
  <2>1. streak' = streak /\ hot' = hot /\ heat' = heat
    BY <1>4 DEF Observe
  <2> QED BY <1>1, <1>4, <2>1 DEF DetectorInv, Edge
<1> QED BY <1>2, <1>3, <1>4

LEMMA InputStep == DetectorInv /\ [InputNext]_inputVars => DetectorInv'
<1> SUFFICES ASSUME DetectorInv, [InputNext]_inputVars PROVE DetectorInv'
  OBVIOUS
<1>1. CASE Interrupts \/ AutoResume \/ Passes
  BY <1>1, ObserveKeeps DEF Interrupts, AutoResume, Passes
<1>2. CASE RestartInput
  BY <1>2, InputAssumption DEF RestartInput, DetectorInv
<1>3. CASE UNCHANGED <<hot, streak, heat>>
  BY <1>3 DEF DetectorInv
<1>4. Asks \/ Reads \/ InterruptLands \/ PauseByHand \/ ResumeByHand \/ ArmByHand
      \/ SetInterrupt \/ MicChanges \/ CueChanges \/ UNCHANGED inputVars
        => UNCHANGED <<hot, streak, heat>>
  BY DEF Asks, Reads, InterruptLands, PauseByHand, ResumeByHand, ArmByHand, SetInterrupt,
         MicChanges, CueChanges, HoldOnly, Detector, inputVars
<1> QED BY <1>1, <1>2, <1>3, <1>4 DEF InputNext, Watcher

(* Whatever the listener resumes, pauses and sets, and whenever the daemon *)
(* starts: a capture holds playback once, at the reading that confirms it. *)
THEOREM CapturesInterruptOnce == InputSpec => InterruptsAreEdges
<1> DEFINE AtAnEdge == ~held /\ held' /\ seen = "hot" /\ poll # poll' /\ relaunches' = relaunches
                       => heat' = Confirmations
<1>1. DetectorInv /\ [InputNext]_inputVars => [AtAnEdge]_inputVars
  <2> SUFFICES ASSUME DetectorInv, InputNext, ~held, held', poll # poll',
                      relaunches' = relaunches
               PROVE  heat' = Confirmations
    OBVIOUS
  <2>1. CASE Interrupts
    BY <2>1, ObserveKeeps DEF Interrupts
  <2>2. CASE RestartInput
    <3>1. relaunches < MaxRelaunches /\ relaunches' = relaunches + 1
      BY <2>2 DEF RestartInput
    <3> QED BY <3>1
  <2>3. CASE Watcher /\ ~Interrupts
    BY <2>3 DEF Watcher, Asks, Reads, InterruptLands, AutoResume, Passes, Hold, Detector
  <2>4. CASE PauseByHand \/ ResumeByHand \/ ArmByHand \/ SetInterrupt \/ MicChanges \/ CueChanges
    BY <2>4 DEF PauseByHand, ResumeByHand, ArmByHand, SetInterrupt, MicChanges, CueChanges,
                HoldOnly
  <2> QED BY <2>1, <2>2, <2>3, <2>4 DEF InputNext
<1> QED BY <1>1, InputBegins, InputStep, PTL DEF InputSpec, InterruptsAreEdges

-----------------------------------------------------------------------------
(***************************************************************************)
(* For any clients, engines, catalogs and languages: submissions respect   *)
(* pins, an agent is heard in the voice the register shows for it, and it  *)
(* shares one only when there is no other (VoicesAreKeptApart).            *)
(***************************************************************************)
Entries == {NoVoice} \cup [voice : Voices, pinned : BOOLEAN]

VoiceInv == register \in [Speakers -> Entries] /\ offered \subseteq Engines

LEMMA CatalogFacts ==
  ASSUME NEW e \in Engines
  PROVE  /\ VoicesOf(e) \subseteq Voices /\ "none" \notin VoicesOf(e)
         /\ DOMAIN Catalog[e] \in SUBSET Nat /\ 1 \in DOMAIN Catalog[e]
         /\ Head(Catalog[e]) \in VoicesOf(e)
<1>1. Catalog[e] \in Seq(DOMAIN Language) /\ Catalog[e] # <<>>
  BY VoiceAssumption
<1>2. DOMAIN Catalog[e] = 1 .. Len(Catalog[e]) /\ Len(Catalog[e]) \in Nat /\ Len(Catalog[e]) > 0
  BY <1>1
<1>3. Head(Catalog[e]) = Catalog[e][1]
  BY <1>1
<1>4. VoicesOf(e) \subseteq Voices
  BY DEF Voices
<1> QED BY <1>2, <1>3, <1>4, VoiceAssumption DEF VoicesOf

LEMMA SmallestPlace ==
  ASSUME NEW T \in SUBSET Nat, T # {}
  PROVE  \E i \in T : \A j \in T : i <= j
<1>1. \E i \in T : \A j \in T : ~(<<j, i>> \in OpToRel(<, Nat))
  BY NatLessThanWellFounded, WFMin
<1>2. PICK i \in T : \A j \in T : ~(<<j, i>> \in OpToRel(<, Nat))
  BY <1>1
<1>3. \A j \in T : ~(j < i)
  BY <1>2 DEF OpToRel
<1> QED BY <1>3

LEMMA FirstOfIsOne ==
  ASSUME NEW e \in Engines, NEW voices, voices # {}, voices \subseteq VoicesOf(e)
  PROVE  FirstOf(e, voices) \in voices
<1> DEFINE places == {i \in DOMAIN Catalog[e] : Catalog[e][i] \in voices}
<1>1. places \in SUBSET Nat /\ places # {}
  BY CatalogFacts DEF VoicesOf
<1>2. \E i \in places : \A j \in places : i <= j
  BY <1>1, SmallestPlace
<1> QED BY <1>2 DEF FirstOf

LEMMA SubmitRespects ==
  ASSUME VoiceInv, NEW s \in Speakers, NEW e \in offered, NEW requested \in Voices \cup {"none"},
         Submit(s, e, requested)
  PROVE  LET kept == Kept(s, e)  voice == Decide(s, e, requested, kept)
         IN  /\ heard' = [source |-> s, engine |-> e, voice |-> voice]
             /\ voice \in VoicesOf(e)
             /\ \A o \in Speakers : Pinned(o) \/ o # s => register'[o] = register[o]
             /\ s \in Agents => register'[s].voice = voice
             /\ register'[s] \in Entries
             /\ s \in Agents /\ register'[s] # register[s] =>
                  \/ voice \notin {register[o].voice : o \in Speakers \ {s}}
                  \/ Pool(e) \subseteq {register[o].voice : o \in Speakers \ {s}}
<1> DEFINE kept == Kept(s, e)
           voice == Decide(s, e, requested, kept)
           others == {register[o].voice : o \in Speakers \ {s}}
           taken == Taken(s, kept)
<1>1. e \in Engines /\ register[s] \in Entries
  BY DEF VoiceInv
<1>2. /\ heard' = [source |-> s, engine |-> e, voice |-> voice]
      /\ register' = [register EXCEPT ![s] = IF Automatic(s) THEN Held(voice, FALSE) ELSE kept]
  BY DEF Submit
<1>3. /\ requested = "none" \/ requested \in VoicesOf(e)
      /\ Pinned(s) => register[s].voice \in VoicesOf(e)
      /\ Automatic(s) => Pool(e) # {} /\ (requested = "none" \/ requested \in Pool(e))
  BY DEF Submit, Unknown, Withdrawn, OutsideLanguages
<1>4. /\ kept \in {register[s], NoVoice}
      /\ kept # NoVoice => kept.voice \in VoicesOf(e)
      /\ Pinned(s) => kept = register[s] /\ kept.voice \in VoicesOf(e)
      /\ ~Pinned(s) => ~kept.pinned
  BY <1>3, CatalogFacts DEF Kept, Reconciled, Automatic, Pinned, NoVoice
<1>5. Pool(e) \subseteq VoicesOf(e) /\ "none" \notin VoicesOf(e)
  BY <1>1, CatalogFacts DEF Pool, PoolUnder
<1>6. taken \subseteq others /\ \A v \in others : v \in taken \/ v = "none" \/ v = kept.voice
  BY DEF Taken, NoVoice
<1>7. NextUnclaimed(e, taken) \in (IF Pool(e) \subseteq taken THEN Pool(e) ELSE Pool(e) \ taken)
      \/ Pool(e) = {}
  BY <1>1, <1>5, FirstOfIsOne DEF NextUnclaimed
<1>8. DefaultVoice(e) \in VoicesOf(e)
  BY <1>1, CatalogFacts DEF DefaultVoice
<1> HIDE DEF kept, taken, others
<1>9. CASE Pinned(s)
  <2>1. kept.pinned /\ kept = register[s]
    BY <1>4, <1>9 DEF Pinned
  <2>2. voice = kept.voice
    BY <2>1 DEF Decide
  <2>3. register' = [register EXCEPT ![s] = kept]
    BY <1>2, <1>9 DEF Automatic
  <2> QED BY <1>1, <1>2, <1>4, <1>9, <2>1, <2>2, <2>3 DEF VoiceInv, kept, others
<1>10. CASE ~Pinned(s) /\ s \notin Agents
  <2>1. voice = IF requested # "none" THEN requested ELSE DefaultVoice(e)
    BY <1>4, <1>10 DEF Decide
  <2>2. register' = [register EXCEPT ![s] = kept]
    BY <1>2, <1>10 DEF Automatic
  <2>3. kept \in Entries
    BY <1>1, <1>4 DEF Entries
  <2> QED BY <1>1, <1>2, <1>3, <1>8, <1>10, <2>1, <2>2, <2>3 DEF VoiceInv, kept
<1>11. CASE ~Pinned(s) /\ s \in Agents
  <2>1. voice = IF requested \notin taken \cup {"none"} THEN requested
                ELSE IF kept # NoVoice THEN kept.voice ELSE NextUnclaimed(e, taken)
    BY <1>4, <1>11 DEF Decide, taken
  <2>2. register' = [register EXCEPT ![s] = Held(voice, FALSE)]
    BY <1>2, <1>11 DEF Automatic
  <2>3. voice \in VoicesOf(e)
    BY <1>3, <1>4, <1>5, <1>7, <1>11, <2>1 DEF Automatic
  <2>4. Held(voice, FALSE) \in Entries /\ Held(voice, FALSE).voice = voice
    <3>1. voice \in Voices
      BY <1>1, <2>3, CatalogFacts
    <3> HIDE DEF voice
    <3> QED BY <3>1 DEF Held, Entries
  <2>5. /\ register'[s] = Held(voice, FALSE)
        /\ \A o \in Speakers : o # s => register'[o] = register[o]
    BY <2>2 DEF VoiceInv
  <2>6. kept # NoVoice => register[s] = Held(kept.voice, FALSE)
    <3> SUFFICES ASSUME kept # NoVoice PROVE register[s] = Held(kept.voice, FALSE)
      OBVIOUS
    <3>1. kept = register[s] /\ register[s] \in [voice : Voices, pinned : BOOLEAN]
      BY <1>1, <1>4 DEF Entries
    <3>2. register[s].pinned = FALSE
      BY <1>11, <3>1 DEF Pinned
    <3> QED BY <3>1, <3>2 DEF Held
  <2>7. register'[s] # register[s] => voice \notin others \/ Pool(e) \subseteq others
    <3> SUFFICES ASSUME register'[s] # register[s], voice \in others
                 PROVE  Pool(e) \subseteq others
      OBVIOUS
    <3>1. voice # "none"
      BY <1>5, <2>3
    <3>2. kept # NoVoice => voice # kept.voice
      BY <2>5, <2>6
    <3>3. kept = NoVoice => kept.voice = "none"
      BY DEF NoVoice
    <3>4. voice \in taken
      BY <1>6, <3>1, <3>2, <3>3
    <3>5. voice = NextUnclaimed(e, taken)
      BY <2>1, <3>2, <3>4
    <3> QED BY <1>3, <1>6, <1>7, <1>11, <3>4, <3>5 DEF Automatic
  <2> HIDE DEF voice
  <2> QED BY <1>2, <1>11, <2>3, <2>4, <2>5, <2>7 DEF kept, voice, others
<1> QED BY <1>9, <1>10, <1>11

LEMMA RefusalRespects ==
  ASSUME VoiceInv, NEW s \in Speakers, NEW e \in offered, NEW requested \in Voices \cup {"none"},
         SubmitRefused(s, e, requested)
  PROVE  /\ heard' = [source |-> s, engine |-> e, voice |-> "refused"]
         /\ \A o \in Speakers : Pinned(o) \/ o # s => register'[o] = register[o]
         /\ register'[s] \in {register[s], NoVoice}
         /\ register' \in [Speakers -> Entries]
<1>1. CASE Unknown(e, requested) \/ Withdrawn(s, e)
  BY <1>1 DEF SubmitRefused, VoiceInv
<1>2. CASE ~(Unknown(e, requested) \/ Withdrawn(s, e))
  <2>1. register' = [register EXCEPT ![s] = Reconciled(s, e)] /\ ~Pinned(s)
    BY <1>2 DEF SubmitRefused, OutsideLanguages, Automatic
  <2>2. Reconciled(s, e) \in {register[s], NoVoice}
    BY DEF Reconciled
  <2>3. Reconciled(s, e) \in Entries
    BY <2>2 DEF VoiceInv, Entries
  <2> QED BY <2>1, <2>2, <2>3 DEF VoiceInv, SubmitRefused
<1> QED BY <1>1, <1>2

LEMMA VoiceBegins == VoiceInit => VoiceInv
  BY DEF VoiceInit, VoiceInv, Entries

LEMMA VoiceStep == VoiceInv /\ [VoiceNext]_voiceVars => VoiceInv'
<1> SUFFICES ASSUME VoiceInv, [VoiceNext]_voiceVars PROVE VoiceInv'
  OBVIOUS
<1>1. ASSUME NEW s \in Speakers, NEW e \in offered, NEW requested \in Voices \cup {"none"},
             Submit(s, e, requested)
      PROVE  VoiceInv'
  <2>1. register'[s] \in Entries
    BY <1>1, SubmitRespects
  <2>2. \E entry : register' = [register EXCEPT ![s] = entry]
    BY <1>1 DEF Submit
  <2> QED BY <1>1, <2>1, <2>2 DEF VoiceInv, Submit, SettingsKept
<1>2. ASSUME NEW s \in Speakers, NEW e \in offered, NEW requested \in Voices \cup {"none"},
             SubmitRefused(s, e, requested)
      PROVE  VoiceInv'
  BY <1>2, RefusalRespects DEF VoiceInv, SubmitRefused, SettingsKept
<1>3. ASSUME NEW s \in Speakers, Unassign(s) PROVE VoiceInv'
  BY <1>3 DEF Unassign, VoiceInv, Entries, SettingsKept
<1>4. ASSUME NEW s \in Assignees, NEW v \in Voices, Pin(s, v) PROVE VoiceInv'
  <2>1. Held(v, TRUE) \in Entries /\ s \in Speakers
    BY VoiceAssumption DEF Held, Entries
  <2> QED BY <1>4, <2>1 DEF Pin, VoiceInv, SettingsKept
<1>5. ASSUME NEW name, NEW selected, NEW voice, ApplySettings(name, selected, voice) PROVE VoiceInv'
  BY <1>5 DEF ApplySettings, VoiceInv
<1>6. ASSUME NEW e \in Engines, EngineAdded(e) PROVE VoiceInv'
  BY <1>6 DEF EngineAdded, VoiceInv
<1>7. ASSUME NEW there \in SUBSET Engines, NEW override, Reboot(there, override) PROVE VoiceInv'
  BY <1>7 DEF Reboot, VoiceInv
<1>8. CASE UNCHANGED voiceVars
  BY <1>8 DEF voiceVars, VoiceInv
<1> QED BY <1>1, <1>2, <1>3, <1>4, <1>5, <1>6, <1>7, <1>8 DEF VoiceNext

(* Whatever engine, catalog, languages, pins and refusals: submissions     *)
(* leave pins alone, agents are heard in the voice that is theirs, and     *)
(* share it only when their engine has no other.                           *)
THEOREM VoicesAreKeptApart == VoiceSpec => VoicesStayApart
<1> DEFINE Apart ==
       heard' # Silence =>
         LET s == heard'.source
             others == {register'[o].voice : o \in Speakers \ {s}}
             given == s \in Agents /\ register'[s] \notin {register[s], NoVoice}
         IN  /\ \A o \in Speakers : Pinned(o) \/ o # s => register'[o] = register[o]
             /\ heard'.voice # "refused" =>
                  /\ heard'.voice \in VoicesOf(heard'.engine)
                  /\ s \in Agents => register'[s].voice = heard'.voice
             /\ given /\ register'[s].voice \in others => Pool(heard'.engine) \subseteq others
<1>1. VoiceInv /\ [VoiceNext]_voiceVars => [Apart]_voiceVars
  <2> SUFFICES ASSUME VoiceInv, VoiceNext, heard' # Silence PROVE Apart
    OBVIOUS
  <2>1. PICK s \in Speakers, e \in offered, requested \in Voices \cup {"none"} :
          Submit(s, e, requested) \/ SubmitRefused(s, e, requested)
    BY DEF VoiceNext, Unassign, Pin, ApplySettings, EngineAdded, Reboot
  <2>2. CASE Submit(s, e, requested)
    <3> DEFINE voice == Decide(s, e, requested, Kept(s, e))
               elsewhere == {register[o].voice : o \in Speakers \ {s}}
    <3>1. /\ heard' = [source |-> s, engine |-> e, voice |-> voice]
          /\ voice \in VoicesOf(e)
          /\ \A o \in Speakers : Pinned(o) \/ o # s => register'[o] = register[o]
          /\ s \in Agents => register'[s].voice = voice
          /\ s \in Agents /\ register'[s] # register[s] =>
               voice \notin elsewhere \/ Pool(e) \subseteq elsewhere
      BY <2>2, SubmitRespects
    <3> HIDE DEF voice
    <3>2. heard'.source = s /\ heard'.engine = e /\ heard'.voice = voice
      BY <3>1
    <3>3. {register'[o].voice : o \in Speakers \ {s}} = elsewhere
      BY <3>1
    <3> HIDE DEF elsewhere
    <3> QED BY <3>1, <3>2, <3>3
  <2>3. CASE SubmitRefused(s, e, requested)
    <3>1. heard'.source = s /\ heard'.engine = e /\ heard'.voice = "refused"
      BY <2>3, RefusalRespects
    <3> QED BY <2>3, <3>1, RefusalRespects
  <2> QED BY <2>1, <2>2, <2>3
<1> QED BY <1>1, VoiceBegins, VoiceStep, PTL DEF VoiceSpec, VoicesStayApart

-----------------------------------------------------------------------------
(***************************************************************************)
(* Segmentation.  The operators recur on the words of a text, so each fact *)
(* about them is by the least place at which it would fail; and that a     *)
(* recursion defines a function at all is proved first, the same way.      *)
(***************************************************************************)

Spans == [from : Nat, to : Nat]

RestOf(s, next, rest, first) ==
  IF next[first] > s.to THEN <<Span(first, s.to)>>
  ELSE <<Span(first, next[first] - 1)>> \o rest[next[first]]

Onward(s, next) ==
  /\ s \in Spans /\ s.from <= s.to
  /\ next \in [s.from .. s.to -> Nat]
  /\ \A first \in s.from .. s.to : first < next[first]

\* The recursion of Cut has a solution.
LEMMA CutHasRests ==
  ASSUME NEW s, NEW next, Onward(s, next)
  PROVE  \E rest : rest = [first \in s.from .. s.to |-> RestOf(s, next, rest, first)]
<1> USE DEF Onward, Spans
<1> DEFINE Solved(n) == \E rest : rest = [first \in s.to - n .. s.to |-> RestOf(s, next, rest, first)]
           bad == {n \in 0 .. s.to - s.from : ~Solved(n)}
<1>1. SUFFICES ASSUME bad # {} PROVE FALSE
  <2>1. s.to - s.from \in 0 .. s.to - s.from /\ s.to - (s.to - s.from) = s.from
    OBVIOUS
  <2>2. Solved(s.to - s.from)
    BY <1>1, <2>1
  <2>3. QED BY <2>1, <2>2
<1>2. bad \in SUBSET Nat
  OBVIOUS
<1>3. PICK n \in bad : \A m \in bad : n <= m
  BY <1>1, <1>2, SmallestPlace
<1> DEFINE here == s.to - n
<1>4. here \in s.from .. s.to /\ n \in Nat /\ ~Solved(n)
  BY <1>3
<1>5. CASE n = 0
  <2> DEFINE g == [first \in here .. s.to |-> <<Span(first, s.to)>>]
  <2>1. \A first \in here .. s.to : first = s.to /\ next[first] > s.to
    BY <1>4, <1>5
  <2>2. \A first \in here .. s.to : RestOf(s, next, g, first) = g[first]
    BY <2>1 DEF RestOf
  <2>3. g = [first \in here .. s.to |-> RestOf(s, next, g, first)]
    BY <2>2
  <2> QED BY <2>3, <1>4
<1>6. CASE n # 0
  <2>1. n - 1 \in 0 .. s.to - s.from /\ n - 1 \notin bad /\ s.to - (n - 1) = here + 1
    BY <1>3, <1>4, <1>6
  <2>2. Solved(n - 1)
    BY <2>1
  <2>3. PICK f : f = [first \in here + 1 .. s.to |-> RestOf(s, next, f, first)]
    BY <2>1, <2>2
  <2> DEFINE g == [first \in here .. s.to |-> RestOf(s, next, f, first)]
  <2>4. ASSUME NEW first \in here .. s.to
        PROVE  RestOf(s, next, g, first) = g[first]
    <3>0. g[first] = RestOf(s, next, f, first)
      OBVIOUS
    <3> HIDE DEF g
    <3>1. CASE next[first] > s.to
      BY <3>0, <3>1 DEF RestOf
    <3>2. CASE ~(next[first] > s.to)
      <4>1. next[first] \in here + 1 .. s.to
        BY <3>2, <1>4
      <4>2. g[next[first]] = f[next[first]]
        <5>1. f[next[first]] = RestOf(s, next, f, next[first])
          BY <2>3, <4>1
        <5>2. g[next[first]] = RestOf(s, next, f, next[first])
          BY <4>1, <1>4, SMTT(60) DEF g
        <5> QED BY <5>1, <5>2
      <4> QED BY <3>0, <3>2, <4>2 DEF RestOf
    <3> QED BY <3>1, <3>2
  <2>5. g = [first \in here .. s.to |-> RestOf(s, next, g, first)]
    BY <2>4
  <2> QED BY <2>5, <1>4
<1> QED BY <1>4, <1>5, <1>6

LEMMA CutBegins ==
  ASSUME NEW s, NEW next, Onward(s, next)
  PROVE  \E rest : /\ rest = [first \in s.from .. s.to |-> RestOf(s, next, rest, first)]
                   /\ Cut(s, next) = rest[s.from]
<1> DEFINE Rests(f) == f = [first \in s.from .. s.to |-> RestOf(s, next, f, first)]
           rest == CHOOSE f : Rests(f)
<1>1. \E f : Rests(f)
  BY CutHasRests
<1>2. Rests(rest)
  <2> HIDE DEF Rests
  <2> QED BY <1>1
<1>3. Cut(s, next) = rest[s.from]
  BY DEF Cut, RestOf
<1> QED BY <1>2, <1>3


-----------------------------------------------------------------------------
(* Tilings *)

Proper == {s \in Spans : s.from <= s.to}

\* The spans of q, each one of G, lie side by side from the first word to the last.
Tiling(q, G, first, last) ==
  /\ q \in Seq(G) /\ Len(q) > 0
  /\ q[1].from = first /\ q[Len(q)].to = last
  /\ \A i \in 1 .. Len(q) - 1 : q[i + 1].from = q[i].to + 1

LEMMA OneTile ==
  ASSUME NEW G \in SUBSET Proper, NEW s \in G
  PROVE  Tiling(<<s>>, G, s.from, s.to)
BY DEF Tiling

LEMMA TilingsJoin ==
  ASSUME NEW G \in SUBSET Proper, NEW first \in Nat, NEW last \in Nat, NEW mid \in Nat,
         NEW p, NEW q, Tiling(p, G, first, mid), Tiling(q, G, mid + 1, last)
  PROVE  Tiling(p \o q, G, first, last)
<1> DEFINE r == p \o q
<1>1. p \in Seq(G) /\ q \in Seq(G) /\ Len(p) \in Nat /\ Len(q) \in Nat /\ Len(p) > 0 /\ Len(q) > 0
  BY DEF Tiling
<1>2. r \in Seq(G) /\ Len(r) = Len(p) + Len(q)
  BY <1>1
<1>3. \A i \in 1 .. Len(r) : r[i] = IF i <= Len(p) THEN p[i] ELSE q[i - Len(p)]
  BY <1>1
<1> HIDE DEF r
<1>4. r[1].from = first /\ r[Len(r)].to = last
  BY <1>1, <1>2, <1>3, SMTT(60) DEF Tiling
<1>5. ASSUME NEW i \in 1 .. Len(r) - 1 PROVE r[i + 1].from = r[i].to + 1
  <2>1. CASE i < Len(p)
    <3>1. i \in 1 .. Len(p) - 1 /\ i + 1 <= Len(p) /\ i \in 1 .. Len(r) /\ i + 1 \in 1 .. Len(r)
      BY <2>1, <1>1, <1>2
    <3>2. r[i] = p[i] /\ r[i + 1] = p[i + 1]
      BY <3>1, <1>1, <1>3, SMTT(60)
    <3> QED BY <3>1, <3>2 DEF Tiling
  <2>2. CASE i = Len(p)
    <3>1. i \in 1 .. Len(r) /\ i + 1 \in 1 .. Len(r) /\ ~(i + 1 <= Len(p)) /\ i + 1 - Len(p) = 1
      BY <2>2, <1>1, <1>2
    <3>2. r[i] = p[Len(p)] /\ r[i + 1] = q[1]
      BY <2>2, <3>1, <1>1, <1>3
    <3> QED BY <3>2 DEF Tiling
  <2>3. CASE i > Len(p)
    <3>1. i - Len(p) \in 1 .. Len(q) - 1 /\ i + 1 - Len(p) = (i - Len(p)) + 1
      BY <2>3, <1>1, <1>2
    <3>2. /\ i \in 1 .. Len(r) /\ ~(i <= Len(p))
          /\ i + 1 \in 1 .. Len(r) /\ ~(i + 1 <= Len(p))
      BY <2>3, <1>1, <1>2
    <3>3. r[i] = q[i - Len(p)] /\ r[i + 1] = q[i + 1 - Len(p)]
      BY <3>2, <1>3, SMTT(60)
    <3> QED BY <3>1, <3>3 DEF Tiling
  <2> QED BY <2>1, <2>2, <2>3, <1>1, <1>2
<1>6. Tiling(r, G, first, last)
  BY <1>1, <1>2, <1>4, <1>5 DEF Tiling
<1> QED BY <1>6 DEF r

CutSpan(s, next, first) == Span(first, IF next[first] > s.to THEN s.to ELSE next[first] - 1)

\* A span is cut into spans side by side.
LEMMA CutTiles ==
  ASSUME NEW s, NEW next, Onward(s, next), NEW G \in SUBSET Proper,
         \A first \in s.from .. s.to : CutSpan(s, next, first) \in G
  PROVE  Tiling(Cut(s, next), G, s.from, s.to)
<1>1. PICK rest : /\ rest = [first \in s.from .. s.to |-> RestOf(s, next, rest, first)]
                  /\ Cut(s, next) = rest[s.from]
  BY CutBegins
<1>2. \A first \in s.from .. s.to : rest[first] = RestOf(s, next, rest, first)
  BY <1>1
<1>a. /\ s \in Spans /\ s.from \in Nat /\ s.to \in Nat /\ s.from <= s.to
      /\ \A first \in s.from .. s.to : next[first] \in Nat /\ first < next[first]
  BY DEF Onward, Spans
<1> DEFINE Good(first) == Tiling(rest[first], G, first, s.to)
           bad == {n \in 0 .. s.to - s.from : ~Good(s.to - n)}
<1>3. SUFFICES ASSUME bad # {} PROVE FALSE
  <2>1. s.to - s.from \in 0 .. s.to - s.from /\ s.to - (s.to - s.from) = s.from
    BY <1>a
  <2>2. Good(s.from)
    BY <1>3, <2>1
  <2> QED BY <2>2, <1>1
<1>4. bad \in SUBSET Nat
  BY <1>a
<1>5. PICK n \in bad : \A m \in bad : n <= m
  BY <1>3, <1>4, SmallestPlace
<1> DEFINE here == s.to - n
<1>6. here \in s.from .. s.to /\ here \in Nat /\ n \in 0 .. s.to - s.from /\ ~Good(here)
  BY <1>5, <1>a
<1>7. \A first \in here + 1 .. s.to : Good(first)
  <2> TAKE first \in here + 1 .. s.to
  <2>1. s.to - first \in 0 .. s.to - s.from /\ s.to - first < n /\ s.to - (s.to - first) = first
    BY <1>6, <1>a
  <2>2. s.to - first \notin bad
    BY <2>1, <1>5, <1>6
  <2> QED BY <2>1, <2>2
<1> HIDE DEF bad, here
<1>8. CASE next[here] > s.to
  <2>1. rest[here] = <<CutSpan(s, next, here)>>
    BY <1>2, <1>6, <1>8 DEF RestOf, CutSpan
  <2>2. CutSpan(s, next, here).from = here /\ CutSpan(s, next, here).to = s.to
    BY <1>8 DEF CutSpan, Span
  <2> QED BY <2>1, <2>2, <1>6, OneTile
<1>9. CASE ~(next[here] > s.to)
  <2>1. rest[here] = <<CutSpan(s, next, here)>> \o rest[next[here]]
    BY <1>2, <1>6, <1>9 DEF RestOf, CutSpan
  <2>2. CutSpan(s, next, here).from = here /\ CutSpan(s, next, here).to = next[here] - 1
    BY <1>9 DEF CutSpan, Span
  <2>3. next[here] \in here + 1 .. s.to /\ next[here] - 1 \in Nat
    BY <1>9, <1>6, <1>a
  <2>4. Tiling(rest[next[here]], G, next[here], s.to)
    BY <2>3, <1>7
  <2>5. Tiling(<<CutSpan(s, next, here)>>, G, here, next[here] - 1)
    BY <2>2, <1>6, OneTile
  <2>6. (next[here] - 1) + 1 = next[here]
    BY <2>3, <1>6
  <2> QED BY <2>1, <2>3, <2>4, <2>5, <2>6, <1>6, <1>a, TilingsJoin
<1> QED BY <1>8, <1>9

-----------------------------------------------------------------------------
(* Sequences of tilings *)

JoinOf(seqs, f, i) == IF i = 1 THEN seqs[i] ELSE f[i - 1] \o seqs[i]

LEMMA FlattenHasPrefixes ==
  ASSUME NEW seqs, Len(seqs) \in Nat
  PROVE  \E f : f = [i \in 1 .. Len(seqs) |-> JoinOf(seqs, f, i)]
<1> DEFINE Solved(n) == \E f : f = [i \in 1 .. n |-> JoinOf(seqs, f, i)]
           bad == {n \in Nat : ~Solved(n)}
<1>1. SUFFICES ASSUME bad # {} PROVE FALSE
  OBVIOUS
<1>2. PICK n \in bad : \A m \in bad : n <= m
  BY <1>1, SmallestPlace
<1>3. n \in Nat /\ ~Solved(n)
  OBVIOUS
<1>4. CASE n = 0
  <2> DEFINE f == [i \in 1 .. n |-> <<>>]
  <2>1. f = [i \in 1 .. n |-> JoinOf(seqs, f, i)]
    BY <1>4
  <2> QED BY <2>1, <1>3
<1>5. CASE n # 0
  <2>1. n - 1 \in Nat /\ n - 1 \notin bad
    BY <1>2, <1>3, <1>5
  <2>2. Solved(n - 1)
    BY <2>1
  <2>3. PICK f : f = [i \in 1 .. n - 1 |-> JoinOf(seqs, f, i)]
    BY <2>2
  <2> DEFINE g == [i \in 1 .. n |-> JoinOf(seqs, f, i)]
  <2>4. ASSUME NEW i \in 1 .. n
        PROVE  JoinOf(seqs, g, i) = g[i]
    <3>0. g[i] = JoinOf(seqs, f, i)
      OBVIOUS
    <3>1. i = 1 \/ i - 1 \in 1 .. n - 1
      BY <1>3
    <3>2. ASSUME i - 1 \in 1 .. n - 1 PROVE g[i - 1] = f[i - 1]
      <4>1. f[i - 1] = JoinOf(seqs, f, i - 1)
        BY <2>3, <3>2
      <4>2. g[i - 1] = JoinOf(seqs, f, i - 1)
        BY <3>2, <1>3
      <4> QED BY <4>1, <4>2
    <3> HIDE DEF g
    <3> QED BY <3>0, <3>1, <3>2 DEF JoinOf
  <2>5. g = [i \in 1 .. n |-> JoinOf(seqs, g, i)]
    BY <2>4
  <2> QED BY <2>5, <1>3
<1> QED BY <1>4, <1>5

LEMMA FlattenEnds ==
  ASSUME NEW seqs, Len(seqs) \in Nat, Len(seqs) > 0
  PROVE  \E f : /\ f = [i \in 1 .. Len(seqs) |-> JoinOf(seqs, f, i)]
                /\ FlattenSeq(seqs) = f[Len(seqs)]
<1> DEFINE Flat(g) == g = [i \in 1 .. Len(seqs) |-> JoinOf(seqs, g, i)]
           f == CHOOSE g : Flat(g)
<1>1. \E g : Flat(g)
  BY FlattenHasPrefixes
<1>2. Flat(f)
  <2> HIDE DEF Flat
  <2> QED BY <1>1
<1>3. FlattenSeq(seqs) = f[Len(seqs)]
  BY DEF FlattenSeq, JoinOf
<1> QED BY <1>2, <1>3


\* Spans that lie side by side, each in its place cut into spans side by side.
LEMMA TilingsFlatten ==
  ASSUME NEW G \in SUBSET Proper, NEW H \in SUBSET Proper, NEW first \in Nat, NEW last \in Nat,
         NEW q, Tiling(q, G, first, last),
         NEW seqs, seqs \in [1 .. Len(q) -> Seq(H)],
         \A i \in 1 .. Len(q) : Tiling(seqs[i], H, q[i].from, q[i].to)
  PROVE  Tiling(FlattenSeq(seqs), H, first, last)
<1>1. q \in Seq(G) /\ Len(q) \in Nat /\ Len(q) > 0
  BY DEF Tiling
<1>2. Len(seqs) = Len(q)
  BY <1>1
<1>3. PICK f : /\ f = [i \in 1 .. Len(q) |-> JoinOf(seqs, f, i)]
               /\ FlattenSeq(seqs) = f[Len(q)]
  BY <1>1, <1>2, FlattenEnds
<1>4. \A i \in 1 .. Len(q) : f[i] = JoinOf(seqs, f, i)
  BY <1>3
<1>5. \A i \in 1 .. Len(q) : q[i] \in Spans /\ q[i].from \in Nat /\ q[i].to \in Nat
  BY <1>1 DEF Proper, Spans
<1> DEFINE Good(i) == Tiling(f[i], H, first, q[i].to)
           bad == {i \in 1 .. Len(q) : ~Good(i)}
<1>6. SUFFICES ASSUME bad # {} PROVE FALSE
  <2>1. Good(Len(q))
    BY <1>1, <1>6
  <2> QED BY <2>1, <1>3 DEF Tiling
<1>7. bad \in SUBSET Nat
  BY <1>1
<1>8. PICK n \in bad : \A m \in bad : n <= m
  BY <1>6, <1>7, SmallestPlace
<1>9. n \in 1 .. Len(q) /\ n \in Nat /\ ~Good(n)
  BY <1>1
<1>10. CASE n = 1
  <2>1. f[n] = seqs[n] /\ q[n].from = first
    BY <1>4, <1>9, <1>10 DEF JoinOf, Tiling
  <2> QED BY <2>1, <1>9
<1>11. CASE n # 1
  <2>1. n - 1 \in 1 .. Len(q) /\ n - 1 \in 1 .. Len(q) - 1 /\ (n - 1) + 1 = n
    BY <1>1, <1>9, <1>11
  <2>2. n - 1 \notin bad
    BY <2>1, <1>8, <1>9
  <2>3. Good(n - 1)
    BY <2>1, <2>2
  <2>4. f[n] = f[n - 1] \o seqs[n]
    BY <1>4, <1>9, <1>11 DEF JoinOf
  <2>5. q[n].from = q[n - 1].to + 1
    BY <2>1 DEF Tiling
  <2>6. Tiling(seqs[n], H, q[n - 1].to + 1, q[n].to)
    BY <2>5, <1>9
  <2> HIDE DEF bad
  <2>7. Tiling(f[n - 1] \o seqs[n], H, first, q[n].to)
    BY <2>1, <2>3, <2>6, <1>5, <1>9, TilingsJoin
  <2> QED BY <2>4, <2>7, <1>9
<1> QED BY <1>10, <1>11

\* What spans side by side say is every word between their ends, once and in order.
LEMMA TilingSays ==
  ASSUME NEW G \in SUBSET Proper, NEW last \in Nat, NEW q, Tiling(q, G, 1, last)
  PROVE  FlattenSeq([i \in DOMAIN q |-> [k \in 1 .. WordsOf(q[i]) |-> q[i].from + k - 1]])
           = [k \in 1 .. last |-> k]
<1> DEFINE said == [i \in DOMAIN q |-> [k \in 1 .. WordsOf(q[i]) |-> q[i].from + k - 1]]
<1>1. q \in Seq(G) /\ Len(q) \in Nat /\ Len(q) > 0 /\ DOMAIN q = 1 .. Len(q)
  BY DEF Tiling
<1>5. \A i \in 1 .. Len(q) : q[i].from \in Nat /\ q[i].to \in Nat /\ q[i].from <= q[i].to
  BY <1>1 DEF Proper, Spans
<1>2. Len(said) = Len(q)
  BY <1>1
<1>3. PICK f : /\ f = [i \in 1 .. Len(q) |-> JoinOf(said, f, i)]
               /\ FlattenSeq(said) = f[Len(q)]
  BY <1>1, <1>2, FlattenEnds
<1>4. \A i \in 1 .. Len(q) : f[i] = JoinOf(said, f, i)
  BY <1>3
<1> DEFINE Good(i) == f[i] = [k \in 1 .. q[i].to |-> k]
           bad == {i \in 1 .. Len(q) : ~Good(i)}
<1>6. SUFFICES ASSUME bad # {} PROVE FALSE
  <2>0. Len(q) \in 1 .. Len(q)
    BY <1>1
  <2>1. bad = {}
    <3> HIDE DEF bad
    <3> QED BY <1>6
  <2>2. Good(Len(q))
    BY ONLY <2>0, <2>1
  <2> QED BY <2>2, <1>3 DEF Tiling
<1>7. bad \in SUBSET Nat
  BY <1>1
<1>8. PICK n \in bad : \A m \in bad : n <= m
  BY <1>6, <1>7, SmallestPlace
<1>9. n \in 1 .. Len(q) /\ n \in Nat /\ ~Good(n)
  BY <1>1
<1>10. CASE n = 1
  <2>1. f[n] = said[n] /\ q[n].from = 1
    BY <1>4, <1>9, <1>10 DEF JoinOf, Tiling
  <2>2. WordsOf(q[n]) = q[n].to /\ \A k \in 1 .. q[n].to : q[n].from + k - 1 = k
    BY <2>1, <1>5, <1>9 DEF WordsOf
  <2>3. said[n] = [k \in 1 .. WordsOf(q[n]) |-> q[n].from + k - 1]
    BY <1>1, <1>9, SMTT(60)
  <2> QED BY <2>1, <2>2, <2>3, <1>9
<1>11. CASE n # 1
  <2>1. n - 1 \in 1 .. Len(q) /\ n - 1 \in 1 .. Len(q) - 1 /\ (n - 1) + 1 = n
    BY <1>1, <1>9, <1>11
  <2>2. n - 1 \notin bad
    BY <2>1, <1>8, <1>9
  <2>3. f[n - 1] = [k \in 1 .. q[n - 1].to |-> k]
    BY <2>1, <2>2
  <2>4. f[n] = f[n - 1] \o said[n]
    BY <1>4, <1>9, <1>11 DEF JoinOf
  <2>5. q[n].from = q[n - 1].to + 1
    BY <2>1 DEF Tiling
  <2>6. said[n] = [k \in 1 .. WordsOf(q[n]) |-> q[n - 1].to + k]
    <3>1. said[n] = [k \in 1 .. WordsOf(q[n]) |-> q[n].from + k - 1]
      BY <1>1, <1>9
    <3>2. \A k \in 1 .. WordsOf(q[n]) : q[n].from + k - 1 = q[n - 1].to + k
      BY <2>1, <2>5, <1>5, <1>9 DEF WordsOf
    <3> QED BY <3>1, <3>2
  <2>7. WordsOf(q[n]) = q[n].to - q[n - 1].to /\ WordsOf(q[n]) \in Nat
    BY <2>1, <2>5, <1>5, <1>9, SMTT(60) DEF WordsOf
  <2> DEFINE a == q[n - 1].to
             b == q[n].to
  <2>8. a \in Nat /\ b \in Nat /\ b - a \in Nat
    BY <2>7, <2>1, <1>5, <1>9
  <2> HIDE DEF a, b
  <2>9. [k \in 1 .. a |-> k] \o [k \in 1 .. b - a |-> a + k] = [k \in 1 .. b |-> k]
    <3> DEFINE u == [k \in 1 .. a |-> k]
               v == [k \in 1 .. b - a |-> a + k]
               w == [k \in 1 .. b |-> k]
    <3>1. u \in Seq(Nat) /\ v \in Seq(Nat) /\ w \in Seq(Nat) /\ Len(u) = a /\ Len(v) = b - a /\ Len(w) = b
      BY <2>8
    <3>2. u \o v \in Seq(Nat) /\ Len(u \o v) = b
      BY <3>1, <2>8
    <3>3. \A k \in 1 .. b : (u \o v)[k] = IF k <= a THEN u[k] ELSE v[k - a]
      BY <3>1, <2>8
    <3>4. \A k \in 1 .. b : (u \o v)[k] = w[k]
      BY <3>3, <2>8
    <3> HIDE DEF u, v, w
    <3>5. u \o v = w
      BY <3>1, <3>2, <3>4, SeqEqual
    <3> QED BY <3>5 DEF u, v, w
  <2> QED BY <2>3, <2>4, <2>6, <2>7, <2>9, <1>9 DEF a, b
<1> QED BY <1>10, <1>11


LEMMA TilingsWiden ==
  ASSUME NEW G \in SUBSET Proper, NEW H \in SUBSET Proper, G \subseteq H,
         NEW first, NEW last, NEW q, Tiling(q, G, first, last)
  PROVE  Tiling(q, H, first, last)
<1>1. q \in Seq(H)
  BY SeqMonotonic DEF Tiling
<1> QED BY <1>1 DEF Tiling

-----------------------------------------------------------------------------
(* Pieces *)

LEMMA MinIsLeast ==
  ASSUME NEW S \in SUBSET Nat, S # {}
  PROVE  Min(S) \in S /\ \A x \in S : Min(S) <= x
<1>1. \E i \in S : \A j \in S : i <= j
  BY SmallestPlace
<1> QED BY <1>1 DEF Min

\* The next of the words of cuts, or what follows them all.
NextOf(cuts, first, beyond) == Min({i \in cuts : i > first} \cup {beyond})

LEMMA NextPlace ==
  ASSUME NEW cuts \in SUBSET Nat, NEW first \in Nat, NEW beyond \in Nat, first < beyond,
         NEW m, m = NextOf(cuts, first, beyond)
  PROVE  /\ m \in Nat /\ first < m /\ m <= beyond /\ (m = beyond \/ m \in cuts)
         /\ \A i \in cuts : i > first => m <= i
<1> DEFINE S == {i \in cuts : i > first} \cup {beyond}
<1>1. \A x \in S : x \in Nat
  OBVIOUS
<1>2. beyond \in S
  OBVIOUS
<1>3. m \in S /\ \A x \in S : m <= x
  <2>1. m = Min(S)
    BY DEF NextOf
  <2> HIDE DEF S
  <2>2. S \in SUBSET Nat /\ S # {}
    BY <1>1, <1>2
  <2> QED BY <2>1, <2>2, MinIsLeast
<1> QED BY <1>3

\* The spans of s that end before one of cuts, or with s, and hold no other.
Between(s, cuts) ==
  {x \in Proper : /\ s.from <= x.from /\ x.to <= s.to
                  /\ x.to = s.to \/ x.to + 1 \in cuts
                  /\ \A k \in x.from + 1 .. x.to : k \notin cuts}

LEMMA PiecesTile ==
  ASSUME NEW s \in Proper, NEW cuts \in SUBSET Nat
  PROVE  Tiling(Pieces(s, cuts), Between(s, cuts), s.from, s.to)
<1> DEFINE next == [first \in s.from .. s.to |-> Min({i \in cuts : i > first} \cup {s.to + 1})]
<1>1. s \in Spans /\ s.from \in Nat /\ s.to \in Nat /\ s.from <= s.to
  BY DEF Proper, Spans
<1>2. ASSUME NEW first \in s.from .. s.to
      PROVE  /\ next[first] \in Nat /\ first < next[first]
             /\ next[first] = s.to + 1 \/ next[first] \in cuts
             /\ next[first] <= s.to + 1
             /\ \A i \in cuts : i > first => next[first] <= i
  <2>1. next[first] = NextOf(cuts, first, s.to + 1)
    BY DEF NextOf
  <2> HIDE DEF next
  <2>2. first \in Nat /\ s.to + 1 \in Nat /\ first < s.to + 1
    BY <1>1
  <2> QED BY <2>1, <2>2, NextPlace
<1>3. next \in [s.from .. s.to -> Nat] /\ \A first \in s.from .. s.to : first < next[first]
  <2>1. next = [first \in s.from .. s.to |-> next[first]]
    OBVIOUS
  <2> HIDE DEF next
  <2> QED BY <2>1, <1>2
<1>4. Pieces(s, cuts) = Cut(s, next)
  BY DEF Pieces
<1> HIDE DEF next
<1>5. ASSUME NEW first \in s.from .. s.to
      PROVE  CutSpan(s, next, first) \in Between(s, cuts)
  <2>1. CASE next[first] > s.to
    <3>1. \A k \in first + 1 .. s.to : k \notin cuts
      BY <2>1, <1>1, <1>2
    <3> QED BY <3>1, <2>1, <1>1 DEF CutSpan, Span, Between, Proper, Spans
  <2>2. CASE ~(next[first] > s.to)
    <3>1. next[first] \in cuts /\ next[first] \in Nat /\ first < next[first] /\ next[first] <= s.to
      BY <2>2, <1>1, <1>2
    <3>2. \A k \in first + 1 .. next[first] - 1 : k \notin cuts
      BY <3>1, <1>1, <1>2
    <3>3. CutSpan(s, next, first) = [from |-> first, to |-> next[first] - 1]
      BY <2>2 DEF CutSpan, Span
    <3>4. next[first] - 1 \in Nat /\ first <= next[first] - 1 /\ (next[first] - 1) + 1 = next[first]
      BY <3>1, <1>1
    <3> QED BY <3>1, <3>2, <3>3, <3>4, <1>1 DEF Between, Proper, Spans
  <2> QED BY <2>1, <2>2
<1>6. Between(s, cuts) \in SUBSET Proper
  BY DEF Between
<1>7. Onward(s, next)
  BY <1>1, <1>3 DEF Onward
<1> QED BY <1>4, <1>5, <1>6, <1>7, CutTiles

-----------------------------------------------------------------------------
(* Paragraphs gathered *)

\* The spans of s that end before one of cuts, or with s.
Ending(s, cuts) ==
  {x \in Proper : /\ s.from <= x.from /\ x.to <= s.to
                  /\ x.to = s.to \/ x.to + 1 \in cuts}

\* What has been gathered when the paragraphs up to the word last are: what is done
\* and what is pending lie side by side.
Gathered(got, s, cuts, last) ==
  /\ got \in [done : Seq(Ending(s, cuts)), pending : Seq(Ending(s, cuts))]
  /\ \/ /\ got.pending = <<>> /\ Tiling(got.done, Ending(s, cuts), s.from, last)
     \/ \E r \in Ending(s, cuts) :
          /\ got.pending = <<r>> /\ r.to = last /\ WordsOf(r) < ParagraphWords
          /\ \/ got.done = <<>> /\ r.from = s.from
             \/ r.from > 0 /\ Tiling(got.done, Ending(s, cuts), s.from, r.from - 1)

GatherStart == [done |-> <<>>, pending |-> <<>>]

LEMMA GatherFirst ==
  ASSUME NEW s \in Proper, NEW cuts \in SUBSET Nat, NEW p \in Ending(s, cuts), p.from = s.from
  PROVE  Gathered(Gather(GatherStart, p), s, cuts, p.to)
<1>1. GatherStart.pending = <<>> /\ GatherStart.done = <<>>
  BY DEF GatherStart
<1>2. CASE WordsOf(p) >= ParagraphWords
  <2>1. Gather(GatherStart, p) = [done |-> <<p>>, pending |-> <<>>]
    BY <1>1, <1>2 DEF Gather
  <2>2. Tiling(<<p>>, Ending(s, cuts), s.from, p.to)
    BY OneTile DEF Ending
  <2> QED BY <2>1, <2>2 DEF Gathered, Tiling
<1>3. CASE ~(WordsOf(p) >= ParagraphWords)
  <2>1. Gather(GatherStart, p) = [done |-> <<>>, pending |-> <<p>>]
    BY <1>1, <1>3 DEF Gather, GatherStart
  <2>2. WordsOf(p) < ParagraphWords
    BY <1>3, SegmentationAssumption DEF WordsOf, Ending, Proper, Spans
  <2> QED BY <2>1, <2>2 DEF Gathered
<1> QED BY <1>2, <1>3

LEMMA GatherNext ==
  ASSUME NEW s \in Proper, NEW cuts \in SUBSET Nat, NEW last \in Nat,
         NEW got, Gathered(got, s, cuts, last), NEW p \in Ending(s, cuts), p.from = last + 1
  PROVE  Gathered(Gather(got, p), s, cuts, p.to)
<1> DEFINE E == Ending(s, cuts)
           q == IF got.pending = <<>> THEN p ELSE Span(got.pending[1].from, p.to)
<1>1. E \in SUBSET Proper /\ p.from \in Nat /\ p.to \in Nat /\ p.from <= p.to /\ s.from \in Nat
  BY DEF Ending, Proper, Spans
<1>2. /\ q \in E /\ q.to = p.to /\ q.from \in Nat
      /\ \/ got.done = <<>> /\ q.from = s.from
         \/ q.from > 0 /\ Tiling(got.done, E, s.from, q.from - 1)
  <2>1. CASE got.pending = <<>> /\ Tiling(got.done, E, s.from, last)
    BY <2>1, <1>1
  <2>2. ASSUME NEW r \in E, got.pending = <<r>>, r.to = last,
               \/ got.done = <<>> /\ r.from = s.from
               \/ r.from > 0 /\ Tiling(got.done, E, s.from, r.from - 1)
        PROVE  <1>2
    <3>1. q = [from |-> r.from, to |-> p.to]
      BY <2>2 DEF Span
    <3>2. r.from \in Nat /\ r.from <= last /\ s.from <= r.from
      BY <2>2 DEF Ending, Proper, Spans
    <3>3. q \in E
      BY <3>1, <3>2, <1>1 DEF Ending, Proper, Spans
    <3> HIDE DEF E, q
    <3> QED BY <3>1, <3>2, <3>3, <2>2
  <2> QED BY <2>1, <2>2 DEF Gathered
<1> HIDE DEF q
<1>3. CASE WordsOf(q) >= ParagraphWords
  <2>1. Gather(got, p) = [done |-> Append(got.done, q), pending |-> <<>>]
    BY <1>3 DEF Gather, q
  <2>2. Append(got.done, q) = got.done \o <<q>>
    BY <1>2, AppendIsConcat
  <2>3. Tiling(<<q>>, E, q.from, q.to)
    BY <1>1, <1>2, OneTile
  <2>4. CASE got.done = <<>> /\ q.from = s.from
    <3>1. Append(got.done, q) = <<q>>
      BY <2>4
    <3> QED BY <3>1, <2>1, <2>3, <2>4, <1>2 DEF Gathered, Tiling
  <2>5. CASE q.from > 0 /\ Tiling(got.done, E, s.from, q.from - 1)
    <3>1. q.from - 1 \in Nat /\ (q.from - 1) + 1 = q.from
      BY <2>5, <1>2
    <3>2. Tiling(got.done \o <<q>>, E, s.from, p.to)
      BY <3>1, <2>3, <2>5, <1>1, <1>2, TilingsJoin
    <3> QED BY <3>2, <2>1, <2>2, SMTT(60) DEF Gathered, Tiling
  <2> QED BY <2>4, <2>5, <1>2
<1>4. CASE ~(WordsOf(q) >= ParagraphWords)
  <2>1. Gather(got, p) = [got EXCEPT !.pending = <<q>>]
    BY <1>4 DEF Gather, q
  <2>2. /\ Gather(got, p).done = got.done /\ Gather(got, p).pending = <<q>>
        /\ Gather(got, p) \in [done : Seq(E), pending : Seq(E)]
    <3>1. got \in [done : Seq(E), pending : Seq(E)]
      BY DEF Gathered
    <3>2. <<q>> \in Seq(E)
      BY <1>2
    <3> HIDE DEF E
    <3> QED BY <2>1, <3>1, <3>2
  <2>3. WordsOf(q) < ParagraphWords
    BY <1>4, <1>1, <1>2, SegmentationAssumption DEF WordsOf
  <2> QED BY <2>2, <2>3, <1>2 DEF Gathered
<1> QED BY <1>3, <1>4


GotOf(q, f, n) == IF n = 0 THEN GatherStart ELSE Gather(f[n - 1], q[n])

LEMMA GatherHasPrefixes ==
  ASSUME NEW q, Len(q) \in Nat
  PROVE  \E f : f = [n \in 0 .. Len(q) |-> GotOf(q, f, n)]
<1> DEFINE Solved(m) == \E f : f = [n \in 0 .. m |-> GotOf(q, f, n)]
           bad == {m \in Nat : ~Solved(m)}
<1>1. SUFFICES ASSUME bad # {} PROVE FALSE
  OBVIOUS
<1>2. PICK m \in bad : \A k \in bad : m <= k
  BY <1>1, SmallestPlace
<1>3. m \in Nat /\ ~Solved(m)
  OBVIOUS
<1>4. CASE m = 0
  <2> DEFINE f == [n \in 0 .. m |-> GatherStart]
  <2>1. f = [n \in 0 .. m |-> GotOf(q, f, n)]
    BY <1>4 DEF GotOf
  <2> QED BY <2>1, <1>3
<1>5. CASE m # 0
  <2>1. m - 1 \in Nat /\ m - 1 \notin bad
    BY <1>2, <1>3, <1>5
  <2>2. Solved(m - 1)
    BY <2>1
  <2>3. PICK f : f = [n \in 0 .. m - 1 |-> GotOf(q, f, n)]
    BY <2>2
  <2> DEFINE g == [n \in 0 .. m |-> GotOf(q, f, n)]
  <2>4. ASSUME NEW n \in 0 .. m
        PROVE  GotOf(q, g, n) = g[n]
    <3>0. g[n] = GotOf(q, f, n)
      OBVIOUS
    <3>1. n = 0 \/ n - 1 \in 0 .. m - 1
      BY <1>3
    <3>2. ASSUME n - 1 \in 0 .. m - 1 PROVE g[n - 1] = f[n - 1]
      <4>1. f[n - 1] = GotOf(q, f, n - 1)
        BY <2>3, <3>2
      <4>2. g[n - 1] = GotOf(q, f, n - 1)
        BY <3>2, <1>3
      <4> QED BY <4>1, <4>2
    <3> HIDE DEF g
    <3> QED BY <3>0, <3>1, <3>2 DEF GotOf
  <2>5. g = [n \in 0 .. m |-> GotOf(q, g, n)]
    BY <2>4
  <2> QED BY <2>5, <1>3
<1> QED BY <1>4, <1>5

LEMMA GatherEnds ==
  ASSUME NEW t, NEW s, Len(Pieces(s, Breaks(t, s))) \in Nat
  PROVE  \E f : LET q == Pieces(s, Breaks(t, s))
                IN  /\ f = [n \in 0 .. Len(q) |-> GotOf(q, f, n)]
                    /\ ParagraphSegments(t, s)
                         = IF WordsOf(s) < DocumentWords THEN <<s>> ELSE Settled(f[Len(q)])
<1> DEFINE q == Pieces(s, Breaks(t, s))
           Got(g) == g = [n \in 0 .. Len(q) |-> GotOf(q, g, n)]
           f == CHOOSE g : Got(g)
<1>1. \E g : Got(g)
  <2> HIDE DEF q
  <2> QED BY GatherHasPrefixes DEF q
<1>2. Got(f)
  <2> HIDE DEF Got
  <2> QED BY <1>1
<1>3. ParagraphSegments(t, s) = IF WordsOf(s) < DocumentWords THEN <<s>> ELSE Settled(f[Len(q)])
  BY DEF ParagraphSegments, GotOf, GatherStart
<1> QED BY <1>2, <1>3

LEMMA SettledTiles ==
  ASSUME NEW s \in Proper, NEW cuts \in SUBSET Nat, NEW got, Gathered(got, s, cuts, s.to),
         WordsOf(s) >= DocumentWords
  PROVE  Tiling(Settled(got), Ending(s, cuts), s.from, s.to)
<1> DEFINE E == Ending(s, cuts)
<1>1. CASE got.pending = <<>> /\ Tiling(got.done, E, s.from, s.to)
  BY <1>1 DEF Settled
<1>2. ASSUME NEW r \in E, got.pending = <<r>>, r.to = s.to, WordsOf(r) < ParagraphWords,
             \/ got.done = <<>> /\ r.from = s.from
             \/ r.from > 0 /\ Tiling(got.done, E, s.from, r.from - 1)
      PROVE  Tiling(Settled(got), E, s.from, s.to)
  <2>1. r.from # s.from
    BY <1>2, SegmentationAssumption DEF WordsOf, Ending, Proper, Spans
  <2>2. r.from > 0 /\ Tiling(got.done, E, s.from, r.from - 1)
    BY <2>1, <1>2
  <2> DEFINE d == got.done
             n == Len(d)
             last == Span(d[n].from, s.to)
             e == [d EXCEPT ![n] = last]
  <2>3. Settled(got) = e
    <3>1. got.pending # <<>> /\ got.pending[1] = r
      BY <1>2
    <3> QED BY <3>1, <1>2 DEF Settled
  <2>4. d \in Seq(E) /\ n \in Nat /\ n > 0 /\ d[n] \in E /\ d[n].to = r.from - 1 /\ d[1].from = s.from
    BY <2>2 DEF Tiling
  <2>5. last \in E /\ last.to = s.to /\ last.from = d[n].from
    BY <2>4, <1>2 DEF Span, Ending, Proper, Spans
  <2> HIDE DEF last, E
  <2>6. /\ e \in Seq(E) /\ Len(e) = n
        /\ \A i \in 1 .. n : e[i] = IF i = n THEN last ELSE d[i]
    BY <2>4, <2>5
  <2> HIDE DEF e
  <2>7. \A i \in 1 .. n - 1 : e[i + 1].from = e[i].to + 1
    <3> TAKE i \in 1 .. n - 1
    <3>1. e[i] = d[i] /\ e[i + 1].from = d[i + 1].from
      BY <2>4, <2>5, <2>6
    <3> QED BY <3>1, <2>2 DEF Tiling
  <2>8. e[1].from = s.from /\ e[n].to = s.to
    BY <2>4, <2>5, <2>6
  <2> QED BY <2>3, <2>4, <2>6, <2>7, <2>8 DEF Tiling
<1> QED BY <1>1, <1>2 DEF Gathered


\* A text's paragraphs are gathered into spans side by side, each of which ends
\* with a paragraph.
LEMMA ParagraphsTile ==
  ASSUME NEW t, NEW s \in Proper
  PROVE  Tiling(ParagraphSegments(t, s), Ending(s, Breaks(t, s)), s.from, s.to)
<1> DEFINE cuts == Breaks(t, s)
           q == Pieces(s, cuts)
           E == Ending(s, cuts)
<1>1. s \in Spans /\ s.from \in Nat /\ s.to \in Nat /\ s.from <= s.to
  BY DEF Proper, Spans
<1>2. cuts \in SUBSET Nat
  BY <1>1 DEF Breaks
<1>3. Tiling(q, Between(s, cuts), s.from, s.to)
  BY <1>2, PiecesTile
<1>4. E \in SUBSET Proper /\ Between(s, cuts) \subseteq E /\ s \in E
  BY <1>1 DEF Ending, Between
<1>5. Tiling(q, E, s.from, s.to)
  BY <1>3, <1>4, TilingsWiden DEF Between
<1>6. q \in Seq(E) /\ Len(q) \in Nat /\ Len(q) > 0 /\ q[1].from = s.from /\ q[Len(q)].to = s.to
  BY <1>5 DEF Tiling
<1>7. PICK f : /\ f = [n \in 0 .. Len(q) |-> GotOf(q, f, n)]
               /\ ParagraphSegments(t, s)
                    = IF WordsOf(s) < DocumentWords THEN <<s>> ELSE Settled(f[Len(q)])
  BY <1>6, GatherEnds
<1>8. \A n \in 0 .. Len(q) : f[n] = GotOf(q, f, n)
  BY <1>7
<1> DEFINE Good(n) == Gathered(f[n], s, cuts, q[n].to)
           bad == {n \in 1 .. Len(q) : ~Good(n)}
<1> HIDE DEF q, cuts, E
<1>9. ASSUME bad # {} PROVE FALSE
  <2>1. bad \in SUBSET Nat
    BY <1>6
  <2>2. PICK n \in bad : \A m \in bad : n <= m
    BY <1>9, <2>1, SmallestPlace
  <2>3. n \in 1 .. Len(q) /\ n \in Nat /\ ~Good(n)
    BY <1>6
  <2>4. q[n] \in E /\ f[n] = Gather(f[n - 1], q[n])
    BY <2>3, <1>6, <1>8 DEF GotOf
  <2>5. CASE n = 1
    <3>1. f[0] = GatherStart
      BY <1>6, <1>8 DEF GotOf
    <3> QED BY <3>1, <2>3, <2>4, <2>5, <1>2, <1>6, GatherFirst DEF E
  <2>6. CASE n # 1
    <3>1. n - 1 \in 1 .. Len(q) /\ n - 1 \in 1 .. Len(q) - 1 /\ (n - 1) + 1 = n
      BY <1>6, <2>3, <2>6
    <3>2. n - 1 \notin bad
      BY <3>1, <2>2, <2>3
    <3>3. Good(n - 1)
      BY <3>1, <3>2
    <3>4. q[n].from = q[n - 1].to + 1
      BY <3>1, <1>5 DEF Tiling
    <3>5. q[n - 1] \in E /\ q[n - 1].to \in Nat
      BY <3>1, <1>4, <1>6, SMTT(60) DEF Proper, Spans
    <3> QED BY <3>3, <3>4, <3>5, <2>3, <2>4, <1>2, GatherNext DEF E
  <2> QED BY <2>5, <2>6
<1>10. Gathered(f[Len(q)], s, cuts, s.to)
  <2>0. Len(q) \in 1 .. Len(q)
    BY <1>6
  <2>1. bad = {}
    <3> HIDE DEF bad
    <3> QED BY <1>9
  <2>2. Good(Len(q))
    BY ONLY <2>0, <2>1
  <2> QED BY <2>2, <1>6
<1>11. CASE WordsOf(s) < DocumentWords
  BY <1>4, <1>7, <1>11, OneTile DEF E, cuts
<1>12. CASE ~(WordsOf(s) < DocumentWords)
  <2>1. WordsOf(s) >= DocumentWords
    BY <1>1, <1>12, SegmentationAssumption DEF WordsOf
  <2>2. Tiling(Settled(f[Len(q)]), E, s.from, s.to)
    BY <2>1, <1>2, <1>10, SettledTiles DEF E
  <2> QED BY <2>2, <1>7, <1>12 DEF E, cuts
<1> QED BY <1>11, <1>12

-----------------------------------------------------------------------------
(* Long paragraphs *)

\* Of the boundaries in reach one is the nearest.
LEMMA SomeIsNearest ==
  ASSUME NEW S \in SUBSET Nat, S # {}, NEW target \in Nat, NEW away,
         away = [i \in S |-> IF i < target THEN target - i ELSE i - target]
  PROVE  \E i \in S : \A j \in S \ {i} : away[i] < away[j] \/ (away[i] = away[j] /\ i < j)
<1> DEFINE key == [i \in S |-> IF i < target THEN 2 * (target - i) ELSE 2 * (i - target) + 1]
           keys == {key[i] : i \in S}
<1>1. \A i \in S : key[i] \in Nat
  OBVIOUS
<1>2. keys \in SUBSET Nat /\ keys # {}
  BY <1>1
<1>3. PICK k \in keys : \A m \in keys : k <= m
  BY <1>2, SmallestPlace
<1>4. PICK i \in S : k = key[i]
  OBVIOUS
<1>5. \A j \in S : key[i] <= key[j]
  BY <1>3, <1>4
<1>6. ASSUME NEW j \in S \ {i} PROVE away[i] < away[j] \/ (away[i] = away[j] /\ i < j)
  <2>1. key[i] <= key[j]
    BY <1>5
  <2>2. i \in Nat /\ j \in Nat /\ i # j
    OBVIOUS
  <2> QED BY <2>1, <2>2
<1> QED BY <1>6

LEMMA NearestFacts ==
  ASSUME NEW t, NEW s \in Proper, NEW first \in s.from .. s.to, NEW marks
  PROVE  /\ NearestBoundary(t, s, first, marks)
              \subseteq {i \in Window(first) : i <= s.to /\ t[i] \in marks}
         /\ NearestBoundary(t, s, first, marks) = {}
              => \A i \in Window(first) : i <= s.to => t[i] \notin marks
<1> DEFINE S == {i \in Window(first) : i <= s.to /\ t[i] \in marks}
           target == first + TargetWords
           away == [i \in S |-> IF i < target THEN target - i ELSE i - target]
<1>1. first \in Nat
  BY DEF Proper, Spans
<1>2. S \in SUBSET Nat /\ target \in Nat
  BY <1>1, SegmentationAssumption DEF Window
<1>3. NearestBoundary(t, s, first, marks)
        = {i \in S : \A j \in S \ {i} : away[i] < away[j] \/ (away[i] = away[j] /\ i < j)}
  BY DEF NearestBoundary
<1>4. S # {} => \E i \in S : \A j \in S \ {i} : away[i] < away[j] \/ (away[i] = away[j] /\ i < j)
  <2>1. away = [i \in S |-> IF i < target THEN target - i ELSE i - target]
    OBVIOUS
  <2> HIDE DEF S, target, away
  <2> QED BY <2>1, <1>2, SomeIsNearest
<1>5. S = {} => \A i \in Window(first) : i <= s.to => t[i] \notin marks
  OBVIOUS
<1> HIDE DEF away, target
<1> QED BY <1>3, <1>4, <1>5


\* The word a cut is made before is within reach, and a sentence ends there unless
\* none does in all that is within reach.
LEMMA FinalWordFacts ==
  ASSUME NEW t, NEW s \in Proper, NEW first \in s.from .. s.to, s.to - first + 1 > MaxWords,
         \A k \in s.from .. s.to : t[k] \in Marks,
         \A k \in s.from + 1 .. s.to : t[k] # "heading"
  PROVE  LET final == ChooseFinalWord(t, s, first)
         IN  /\ final \in Nat /\ first < final /\ final <= s.to /\ final - first <= MaxWords
             /\ t[final] # "space" \/ \A k \in Window(first) : k \in s.from + 1 .. s.to /\ t[k] = "space"
<1> DEFINE final == ChooseFinalWord(t, s, first)
           paragraph == NearestBoundary(t, s, first, {"paragraph"})
           sentence == NearestBoundary(t, s, first, {"sentence"})
           T == IF paragraph # {} THEN paragraph
                ELSE IF sentence # {} THEN sentence ELSE {first + TargetWords}
<1>1. first \in Nat /\ s.from \in Nat /\ s.to \in Nat /\ s.from <= first
  BY DEF Proper, Spans
<1>2. \A k \in Window(first) : /\ k \in Nat /\ first < k /\ k <= s.to /\ k - first <= MaxWords
                               /\ k \in s.from + 1 .. s.to
  BY <1>1, SegmentationAssumption DEF Window
<1>3. first + TargetWords \in Window(first)
  BY <1>1, SegmentationAssumption DEF Window
<1>4. final \in T
  <2>1. final = CHOOSE i \in T : TRUE
    BY DEF ChooseFinalWord
  <2>2. T # {}
    OBVIOUS
  <2> HIDE DEF final, T
  <2> QED BY <2>1, <2>2
<1>5. paragraph \subseteq {i \in Window(first) : i <= s.to /\ t[i] \in {"paragraph"}}
  BY NearestFacts
<1>6. sentence \subseteq {i \in Window(first) : i <= s.to /\ t[i] \in {"sentence"}}
  BY NearestFacts
<1>7. paragraph = {} => \A i \in Window(first) : i <= s.to => t[i] \notin {"paragraph"}
  BY NearestFacts
<1>8. sentence = {} => \A i \in Window(first) : i <= s.to => t[i] \notin {"sentence"}
  BY NearestFacts
<1> HIDE DEF final, paragraph, sentence
<1>9. final \in Window(first)
  BY <1>3, <1>4, <1>5, <1>6
<1>10. ASSUME t[final] = "space" PROVE \A k \in Window(first) : k \in s.from + 1 .. s.to /\ t[k] = "space"
  <2>1. paragraph = {} /\ sentence = {}
    BY <1>4, <1>5, <1>6, <1>10
  <2> TAKE k \in Window(first)
  <2>2. k \in s.from + 1 .. s.to /\ k <= s.to
    BY <1>2
  <2>3. k \in s.from .. s.to
    BY <2>2, <1>1
  <2>4. t[k] \in Marks /\ t[k] # "heading" /\ t[k] # "paragraph" /\ t[k] # "sentence"
    BY <2>1, <2>2, <2>3, <1>7, <1>8
  <2> QED BY <2>2, <2>4 DEF Marks
<1> QED BY <1>2, <1>9, <1>10 DEF final

\* The spans of s that are not too long and end with s, or with a sentence if one ends
\* within reach.
Breathing(t, s) ==
  {x \in Proper : /\ s.from <= x.from /\ x.to <= s.to /\ WordsOf(x) <= MaxWords
                  /\ \/ x.to = s.to
                     \/ t[x.to + 1] # "space"
                     \/ \A k \in Window(x.from) : k \in s.from + 1 .. s.to /\ t[k] = "space"}

LEMMA BoundedTile ==
  ASSUME NEW t, NEW s \in Proper,
         \A k \in s.from .. s.to : t[k] \in Marks,
         \A k \in s.from + 1 .. s.to : t[k] # "heading"
  PROVE  Tiling(BoundedSegments(t, s), Breathing(t, s), s.from, s.to)
<1> DEFINE next == [first \in s.from .. s.to |-> IF s.to - first + 1 <= MaxWords THEN s.to + 1
                                                 ELSE ChooseFinalWord(t, s, first)]
<1>1. s \in Spans /\ s.from \in Nat /\ s.to \in Nat /\ s.from <= s.to /\ MaxWords \in Nat
  BY SegmentationAssumption DEF Proper, Spans
<1>2. Breathing(t, s) \in SUBSET Proper
  BY DEF Breathing
<1>3. CASE WordsOf(s) <= TargetWords
  <2>1. BoundedSegments(t, s) = <<s>>
    BY <1>3 DEF BoundedSegments
  <2>2. s \in Breathing(t, s)
    BY <1>1, <1>3, SegmentationAssumption DEF Breathing, WordsOf
  <2> QED BY <2>1, <2>2, <1>2, OneTile
<1>4. CASE ~(WordsOf(s) <= TargetWords)
  <2>1. BoundedSegments(t, s) = Cut(s, next)
    BY <1>4 DEF BoundedSegments
  <2>2. ASSUME NEW first \in s.from .. s.to
        PROVE  /\ next[first] \in Nat /\ first < next[first]
               /\ CutSpan(s, next, first) \in Breathing(t, s)
    <3>1. CASE s.to - first + 1 <= MaxWords
      <4>1. next[first] = s.to + 1
        BY <3>1
      <4> HIDE DEF next
      <4>2. CutSpan(s, next, first) = [from |-> first, to |-> s.to]
        BY <4>1, <1>1 DEF CutSpan, Span
      <4> QED BY <3>1, <4>1, <4>2, <1>1 DEF Breathing, WordsOf, Proper, Spans
    <3>2. CASE ~(s.to - first + 1 <= MaxWords)
      <4> DEFINE final == ChooseFinalWord(t, s, first)
      <4>1. next[first] = final
        BY <3>2
      <4>2. s.to - first + 1 > MaxWords /\ first \in Nat
        BY <3>2, <1>1
      <4>3. /\ final \in Nat /\ first < final /\ final <= s.to /\ final - first <= MaxWords
            /\ t[final] # "space" \/ \A k \in Window(first) : k \in s.from + 1 .. s.to /\ t[k] = "space"
        BY <4>2, FinalWordFacts
      <4> HIDE DEF next, final
      <4>4. CutSpan(s, next, first) = [from |-> first, to |-> final - 1]
        BY <4>1, <4>3, <1>1 DEF CutSpan, Span
      <4>5. (final - 1) + 1 = final /\ final - 1 \in Nat /\ (final - 1) - first + 1 <= MaxWords
        BY <4>2, <4>3, <1>1
      <4>6. CutSpan(s, next, first) \in Proper
        BY <4>2, <4>3, <4>4, <4>5 DEF Proper, Spans
      <4>7. CutSpan(s, next, first).from = first /\ CutSpan(s, next, first).to = final - 1
        BY <4>4
      <4> QED BY <4>1, <4>2, <4>3, <4>5, <4>6, <4>7, <1>1 DEF Breathing, WordsOf
    <3> QED BY <3>1, <3>2
  <2>3. next \in [s.from .. s.to -> Nat]
    <3>1. next = [first \in s.from .. s.to |-> next[first]]
      OBVIOUS
    <3> HIDE DEF next
    <3> QED BY <3>1, <2>2
  <2> HIDE DEF next
  <2>4. Onward(s, next)
    BY <2>2, <2>3, <1>1 DEF Onward
  <2> QED BY <2>1, <2>2, <2>4, <1>2, CutTiles
<1> QED BY <1>3, <1>4


-----------------------------------------------------------------------------
(* A whole text *)

Headings(t, s) == {i \in s.from .. s.to : t[i] = "heading"}

\* A section's paragraphs, each cut where it is too long, breathe as the whole does.
LEMMA SectionTiles ==
  ASSUME NEW t, NEW s \in Proper, \A k \in s.from .. s.to : t[k] \in Marks,
         NEW x \in Between(s, Headings(t, s))
  PROVE  Tiling(EachOf(ParagraphSegments(t, x), LAMBDA p : BoundedSegments(t, p)),
                Breathing(t, s), x.from, x.to)
<1> DEFINE q == ParagraphSegments(t, x)
           E == Ending(x, Breaks(t, x))
           B == Breathing(t, s)
           seqs == [i \in DOMAIN q |-> BoundedSegments(t, q[i])]
<1>1. /\ s.from \in Nat /\ s.to \in Nat /\ x \in Proper /\ x.from \in Nat /\ x.to \in Nat
      /\ s.from <= x.from /\ x.from <= x.to /\ x.to <= s.to
      /\ x.to = s.to \/ t[x.to + 1] = "heading"
      /\ \A k \in x.from + 1 .. x.to : t[k] # "heading"
  <2>1. /\ s.from \in Nat /\ s.to \in Nat /\ x \in Proper /\ x.from \in Nat /\ x.to \in Nat
        /\ s.from <= x.from /\ x.from <= x.to /\ x.to <= s.to
        /\ x.to = s.to \/ t[x.to + 1] = "heading"
    BY DEF Between, Headings, Proper, Spans
  <2>2. \A k \in x.from + 1 .. x.to : k \in s.from .. s.to /\ k \notin Headings(t, s)
    BY <2>1 DEF Between
  <2> QED BY <2>1, <2>2 DEF Headings
<1>2. Tiling(q, E, x.from, x.to)
  BY <1>1, ParagraphsTile
<1>3. q \in Seq(E) /\ Len(q) \in Nat /\ DOMAIN q = 1 .. Len(q) /\ E \in SUBSET Proper /\ B \in SUBSET Proper
  BY <1>2 DEF Tiling, Ending, Breathing
<1>4. ASSUME NEW i \in 1 .. Len(q)
      PROVE  Tiling(seqs[i], B, q[i].from, q[i].to)
  <2> DEFINE p == q[i]
  <2>1. p \in E /\ p \in Proper
    BY <1>3
  <2>2. /\ p.from \in Nat /\ p.to \in Nat /\ p.from <= p.to /\ x.from <= p.from /\ p.to <= x.to
        /\ p.to = x.to \/ p.to + 1 \in Breaks(t, x)
    BY <2>1 DEF Ending, Proper, Spans
  <2>3. p.to = s.to \/ t[p.to + 1] # "space"
    BY <2>2, <1>1 DEF Breaks
  <2>a. s.from <= p.from /\ p.to <= s.to
    BY <2>2, <1>1, SMTT(60)
  <2>4. \A k \in p.from .. p.to : k \in s.from .. s.to
    BY ONLY <2>a, <2>2, <1>1, SMTT(60)
  <2>5. \A k \in p.from + 1 .. p.to : k \in x.from + 1 .. x.to /\ k \in s.from + 1 .. s.to
    BY ONLY <2>a, <2>2, <1>1, SMTT(60)
  <2>6. seqs[i] = BoundedSegments(t, p)
    BY <1>3
  <2> HIDE DEF p, q, E, seqs
  <2>7. Tiling(BoundedSegments(t, p), Breathing(t, p), p.from, p.to)
    BY <2>1, <2>4, <2>5, <1>1, BoundedTile
  <2>8. Breathing(t, p) \subseteq B
    <3> SUFFICES ASSUME NEW y \in Breathing(t, p) PROVE y \in B
      OBVIOUS
    <3>1. /\ y \in Proper /\ y.from \in Nat /\ y.to \in Nat
          /\ p.from <= y.from /\ y.to <= p.to /\ WordsOf(y) <= MaxWords
      BY DEF Breathing, Proper, Spans
    <3>2. s.from <= y.from /\ y.to <= s.to
      BY ONLY <3>1, <2>a, <2>2, <1>1, SMTT(60)
    <3>3. \/ y.to = p.to
          \/ t[y.to + 1] # "space"
          \/ \A k \in Window(y.from) : k \in p.from + 1 .. p.to /\ t[k] = "space"
      BY DEF Breathing
    <3>4. \/ y.to = s.to
          \/ t[y.to + 1] # "space"
          \/ \A k \in Window(y.from) : k \in s.from + 1 .. s.to /\ t[k] = "space"
      BY <3>3, <2>3, <2>5
    <3> QED BY <3>1, <3>2, <3>4 DEF Breathing
  <2>9. Breathing(t, p) \in SUBSET Proper
    BY DEF Breathing
  <2> HIDE DEF B
  <2> QED BY <2>6, <2>7, <2>8, <2>9, <1>3, TilingsWiden DEF p
<1>5. Tiling(FlattenSeq(seqs), B, x.from, x.to)
  <2>1. \A i \in 1 .. Len(q) : seqs[i] \in Seq(B)
    BY <1>4 DEF Tiling
  <2>2. seqs = [i \in 1 .. Len(q) |-> seqs[i]]
    BY <1>3
  <2> HIDE DEF q, E, B, seqs
  <2>3. seqs \in [1 .. Len(q) -> Seq(B)]
    BY <2>1, <2>2
  <2> QED BY <2>3, <1>1, <1>2, <1>3, <1>4, TilingsFlatten
<1>6. EachOf(q, LAMBDA p : BoundedSegments(t, p)) = FlattenSeq(seqs)
  BY DEF EachOf
<1> QED BY <1>5, <1>6

LEMMA SegmentTextTiles ==
  ASSUME NEW t, NEW s \in Proper, \A k \in s.from .. s.to : t[k] \in Marks
  PROVE  Tiling(SegmentText(t, s), Breathing(t, s), s.from, s.to)
<1> DEFINE B == Breathing(t, s)
<1>1. s.from \in Nat /\ s.to \in Nat /\ B \in SUBSET Proper
  BY DEF Proper, Spans, Breathing
<1>2. CASE WordsOf(s) <= TargetWords
  <2>1. Tiling(ParagraphSegments(t, s), Ending(s, Breaks(t, s)), s.from, s.to)
    BY ParagraphsTile
  <2>2. Ending(s, Breaks(t, s)) \subseteq B
    <3> SUFFICES ASSUME NEW y \in Ending(s, Breaks(t, s)) PROVE y \in B
      OBVIOUS
    <3>1. /\ y \in Proper /\ y.from \in Nat /\ y.to \in Nat /\ s.from <= y.from /\ y.to <= s.to
          /\ y.to = s.to \/ t[y.to + 1] # "space"
      BY DEF Ending, Proper, Spans, Breaks
    <3>2. WordsOf(y) <= MaxWords
      BY <3>1, <1>1, <1>2, SegmentationAssumption DEF WordsOf
    <3> QED BY <3>1, <3>2 DEF Breathing
  <2>3. Ending(s, Breaks(t, s)) \in SUBSET Proper
    BY DEF Ending
  <2>4. SegmentText(t, s) = ParagraphSegments(t, s)
    BY <1>2 DEF SegmentText
  <2> HIDE DEF B
  <2> QED BY <2>1, <2>2, <2>3, <2>4, <1>1, TilingsWiden DEF B
<1>3. CASE ~(WordsOf(s) <= TargetWords)
  <2> DEFINE q == StructuralSections(t, s)
             G == Between(s, Headings(t, s))
             seqs == [i \in DOMAIN q |-> EachOf(ParagraphSegments(t, q[i]),
                                                LAMBDA p : BoundedSegments(t, p))]
  <2>1. Tiling(q, G, s.from, s.to)
    <3>1. Headings(t, s) \in SUBSET Nat
      BY <1>1 DEF Headings
    <3>2. q = Pieces(s, Headings(t, s))
      BY DEF StructuralSections, Headings
    <3> QED BY <3>1, <3>2, PiecesTile
  <2>2. q \in Seq(G) /\ Len(q) \in Nat /\ DOMAIN q = 1 .. Len(q) /\ G \in SUBSET Proper
    BY <2>1 DEF Tiling, Between
  <2>3. ASSUME NEW i \in 1 .. Len(q)
        PROVE  Tiling(seqs[i], B, q[i].from, q[i].to)
    <3>1. q[i] \in G
      BY <2>2
    <3>2. seqs[i] = EachOf(ParagraphSegments(t, q[i]), LAMBDA p : BoundedSegments(t, p))
      BY <2>2
    <3> HIDE DEF q, seqs
    <3> QED BY <3>1, <3>2, SectionTiles
  <2>4. Tiling(FlattenSeq(seqs), B, s.from, s.to)
    <3>1. \A i \in 1 .. Len(q) : seqs[i] \in Seq(B)
      BY <2>3 DEF Tiling
    <3>2. seqs = [i \in 1 .. Len(q) |-> seqs[i]]
      BY <2>2
    <3> HIDE DEF q, G, B, seqs
    <3>3. seqs \in [1 .. Len(q) -> Seq(B)]
      BY <3>1, <3>2
    <3> QED BY <3>3, <1>1, <2>1, <2>2, <2>3, TilingsFlatten
  <2>5. SegmentText(t, s) = FlattenSeq(seqs)
    BY <1>3 DEF SegmentText, EachOf
  <2> QED BY <2>4, <2>5
<1> QED BY <1>2, <1>3


\* What the property asks of each span of a text.
Spoken(t, asMarkdown) ==
  {x \in Proper :
     /\ 1 <= x.from /\ x.to <= Len(t) /\ WordsOf(x) <= MaxWords
     /\ asMarkdown => \A k \in x.from + 1 .. x.to : t[k] # "heading"
     /\ \/ x.to = Len(t)
        \/ t[x.to + 1] # "space"
        \/ asMarkdown /\ t[x.to] = "heading"
        \/ \A k \in Window(x.from) : t[k] = "space"}

LEMMA RenderedFacts ==
  ASSUME NEW t, t \in Seq(Marks)
  PROVE  /\ \A k \in 1 .. Len(t) : Rendered(t)[k] \in Marks
         /\ \A k \in 1 .. Len(t) : Rendered(t)[k] = "space" => t[k] = "space"
         /\ \A k \in 2 .. Len(t) : t[k] = "space" /\ Rendered(t)[k] # "space" => t[k - 1] = "heading"
<1>1. DOMAIN t = 1 .. Len(t) /\ \A k \in 1 .. Len(t) : t[k] \in Marks
  OBVIOUS
<1>2. \A k \in 1 .. Len(t) :
        Rendered(t)[k] = IF t[k] = "heading" \/ (k > 1 /\ t[k - 1] = "heading") THEN "paragraph"
                         ELSE t[k]
  BY <1>1 DEF Rendered
<1>3. \A k \in 2 .. Len(t) : k \in 1 .. Len(t)
  OBVIOUS
<1> QED BY <1>1, <1>2, <1>3 DEF Marks

\* Every text is told in spans side by side, none too long, none past a heading it is
\* rendered with, and none cut off in mid-sentence that need not be.
LEMMA PreparedTiles ==
  ASSUME NEW t, t \in Seq(Marks), Len(t) > 0, NEW asMarkdown \in BOOLEAN
  PROVE  Tiling(PrepareSpeechSegments(t, asMarkdown), Spoken(t, asMarkdown), 1, Len(t))
<1> DEFINE m == Len(t)
           whole == Span(1, m)
           B == Spoken(t, asMarkdown)
<1>1. m \in Nat /\ DOMAIN t = 1 .. m /\ \A k \in 1 .. m : t[k] \in Marks
  OBVIOUS
<1>2. whole \in Proper /\ whole.from = 1 /\ whole.to = m
  BY <1>1 DEF Span, Proper, Spans
<1>3. B \in SUBSET Proper
  BY DEF Spoken
<1> HIDE DEF m, whole
<1>4. CASE ~(asMarkdown /\ \E i \in DOMAIN t : t[i] = "heading")
  <2>1. PrepareSpeechSegments(t, asMarkdown) = SegmentText(t, whole)
    BY <1>4 DEF PrepareSpeechSegments, whole, m
  <2>2. Tiling(SegmentText(t, whole), Breathing(t, whole), 1, m)
    BY <1>1, <1>2, SegmentTextTiles
  <2>3. Breathing(t, whole) \subseteq B
    <3> SUFFICES ASSUME NEW y \in Breathing(t, whole) PROVE y \in B
      OBVIOUS
    <3>1. /\ y \in Proper /\ y.from \in Nat /\ y.to \in Nat
          /\ 1 <= y.from /\ y.to <= m /\ WordsOf(y) <= MaxWords
          /\ \/ y.to = m
             \/ t[y.to + 1] # "space"
             \/ \A k \in Window(y.from) : t[k] = "space"
      BY <1>2 DEF Breathing, Proper, Spans
    <3>2. asMarkdown => \A k \in y.from + 1 .. y.to : t[k] # "heading"
      BY <3>1, <1>1, <1>4
    <3> QED BY <3>1, <3>2 DEF Spoken, m
  <2>4. Breathing(t, whole) \in SUBSET Proper
    BY DEF Breathing
  <2> HIDE DEF B
  <2> QED BY <2>1, <2>2, <2>3, <2>4, <1>3, TilingsWiden DEF m, B
<1>5. CASE asMarkdown /\ \E i \in DOMAIN t : t[i] = "heading"
  <2> DEFINE q == StructuralSections(t, whole)
             G == Between(whole, Headings(t, whole))
             r == Rendered(t)
             seqs == [i \in DOMAIN q |-> SegmentText(r, q[i])]
  <2>1. Tiling(q, G, 1, m)
    <3>1. Headings(t, whole) \in SUBSET Nat
      BY <1>1, <1>2 DEF Headings
    <3>2. q = Pieces(whole, Headings(t, whole))
      BY DEF StructuralSections, Headings
    <3> QED BY <3>1, <3>2, <1>2, PiecesTile
  <2>2. q \in Seq(G) /\ Len(q) \in Nat /\ DOMAIN q = 1 .. Len(q) /\ G \in SUBSET Proper
    BY <2>1 DEF Tiling, Between
  <2>3. ASSUME NEW i \in 1 .. Len(q)
        PROVE  Tiling(seqs[i], B, q[i].from, q[i].to)
    <3> DEFINE s == q[i]
    <3>1. s \in G /\ s \in Proper
      BY <2>2
    <3>2. /\ s.from \in Nat /\ s.to \in Nat /\ 1 <= s.from /\ s.to <= m
          /\ s.to = m \/ s.to + 1 \in Headings(t, whole)
          /\ \A k \in s.from + 1 .. s.to : k \notin Headings(t, whole)
      BY <3>1, <1>2 DEF Between, Proper, Spans
    <3>3. seqs[i] = SegmentText(r, s)
      BY <2>2
    <3> HIDE DEF s, q, G, seqs
    <3>4. s.to = m \/ t[s.to + 1] = "heading"
      BY <3>2 DEF Headings
    <3>5. \A k \in s.from + 1 .. s.to : t[k] # "heading"
      BY <3>2, <1>1, <1>2 DEF Headings
    <3>6. \A k \in s.from .. s.to : r[k] \in Marks
      BY <3>2, <1>1, RenderedFacts DEF m
    <3>7. \A k \in 1 .. m : r[k] = "space" => t[k] = "space"
      BY RenderedFacts DEF m
    <3>8. \A k \in 2 .. m : t[k] = "space" /\ r[k] # "space" => t[k - 1] = "heading"
      BY RenderedFacts DEF m
    <3> HIDE DEF r
    <3>9. Tiling(SegmentText(r, s), Breathing(r, s), s.from, s.to)
      BY <3>1, <3>6, SegmentTextTiles
    <3>10. Breathing(r, s) \subseteq B
      <4> SUFFICES ASSUME NEW y \in Breathing(r, s) PROVE y \in B
        OBVIOUS
      <4>1. /\ y \in Proper /\ y.from \in Nat /\ y.to \in Nat /\ y.from <= y.to
            /\ s.from <= y.from /\ y.to <= s.to /\ WordsOf(y) <= MaxWords
            /\ \/ y.to = s.to
               \/ r[y.to + 1] # "space"
               \/ \A k \in Window(y.from) : k \in s.from + 1 .. s.to /\ r[k] = "space"
        BY DEF Breathing, Proper, Spans
      <4>2. asMarkdown => \A k \in y.from + 1 .. y.to : t[k] # "heading"
        BY <4>1, <3>2, <3>5
      <4>3. \/ y.to = m
            \/ t[y.to + 1] # "space"
            \/ asMarkdown /\ t[y.to] = "heading"
            \/ \A k \in Window(y.from) : t[k] = "space"
        <5>1. CASE y.to = s.to
          BY <5>1, <3>4
        <5>2. CASE y.to # m /\ r[y.to + 1] # "space" /\ t[y.to + 1] = "space"
          <6>1. y.to + 1 \in 2 .. m /\ (y.to + 1) - 1 = y.to
            BY <5>2, <4>1, <3>2, <1>1, SMTT(60)
          <6> QED BY <6>1, <5>2, <3>8, <1>5
        <5>3. CASE \A k \in Window(y.from) : k \in s.from + 1 .. s.to /\ r[k] = "space"
          <6>1. \A k \in s.from + 1 .. s.to : k \in 1 .. m
            BY <3>2, <1>1
          <6> QED BY <6>1, <5>3, <3>7
        <5> QED BY <4>1, <5>1, <5>2, <5>3
      <4>4. 1 <= y.from /\ y.to <= m
        BY <4>1, <3>2, <1>1
      <4> QED BY <4>1, <4>2, <4>3, <4>4 DEF Spoken, m
    <3>11. Breathing(r, s) \in SUBSET Proper
      BY DEF Breathing
    <3> HIDE DEF B
    <3> QED BY <3>3, <3>9, <3>10, <3>11, <1>3, TilingsWiden DEF s
  <2>4. Tiling(FlattenSeq(seqs), B, 1, m)
    <3>1. \A i \in 1 .. Len(q) : seqs[i] \in Seq(B)
      BY <2>3 DEF Tiling
    <3>2. seqs = [i \in 1 .. Len(q) |-> seqs[i]]
      BY <2>2
    <3> HIDE DEF q, G, B, seqs
    <3>3. seqs \in [1 .. Len(q) -> Seq(B)]
      BY <3>1, <3>2
    <3> QED BY <3>3, <1>1, <1>3, <2>1, <2>2, <2>3, TilingsFlatten
  <2>5. PrepareSpeechSegments(t, asMarkdown) = FlattenSeq(seqs)
    BY <1>5 DEF PrepareSpeechSegments, EachOf, whole, m
  <2> QED BY <2>4, <2>5 DEF m
<1> QED BY <1>4, <1>5

SegmentationInv ==
  /\ words \in Seq(Marks) /\ Len(words) > 0 /\ markdown \in BOOLEAN
  /\ segments # <<>> => Tiling(segments, Spoken(words, markdown), 1, Len(words))

LEMMA SegmentationInvImplies == SegmentationInv => SegmentsSayTheText
<1> SUFFICES ASSUME SegmentationInv, segments # <<>>
             PROVE  /\ InOrder
                    /\ \A i \in DOMAIN segments :
                         LET s == segments[i]
                         IN  /\ WordsOf(s) \in 1 .. MaxWords
                             /\ markdown => \A k \in s.from + 1 .. s.to : words[k] # "heading"
                             /\ BreathesWell(s)
  BY DEF SegmentsSayTheText
<1> DEFINE G == Spoken(words, markdown)
<1>1. Tiling(segments, G, 1, Len(words)) /\ Len(words) \in Nat /\ DOMAIN words = 1 .. Len(words)
  BY DEF SegmentationInv
<1>2. G \in SUBSET Proper
  BY DEF Spoken
<1>3. InOrder
  <2> HIDE DEF G
  <2> QED BY <1>1, <1>2, TilingSays DEF InOrder
<1>4. ASSUME NEW i \in DOMAIN segments
      PROVE  LET s == segments[i]
             IN  /\ WordsOf(s) \in 1 .. MaxWords
                 /\ markdown => \A k \in s.from + 1 .. s.to : words[k] # "heading"
                 /\ BreathesWell(s)
  <2> DEFINE s == segments[i]
  <2>1. s \in G
    BY <1>1 DEF Tiling
  <2> HIDE DEF s
  <2>2. /\ s.from \in Nat /\ s.to \in Nat /\ s.from <= s.to /\ 1 <= s.from /\ s.to <= Len(words)
        /\ WordsOf(s) <= MaxWords
        /\ markdown => \A k \in s.from + 1 .. s.to : words[k] # "heading"
        /\ \/ s.to = Len(words)
           \/ words[s.to + 1] # "space"
           \/ markdown /\ words[s.to] = "heading"
           \/ \A k \in Window(s.from) : words[k] = "space"
    BY <2>1 DEF Spoken, Proper, Spans
  <2>3. WordsOf(s) \in 1 .. MaxWords
    BY <2>2, SegmentationAssumption DEF WordsOf
  <2>4. BreathesWell(s)
    <3>1. s.to + 1 \in DOMAIN words => s.to # Len(words)
      BY <1>1, <2>2
    <3> QED BY <3>1, <2>2 DEF BreathesWell, Window
  <2> QED BY <2>2, <2>3, <2>4 DEF s
<1> QED BY <1>3, <1>4

\* The segments of a clip say its text: every word once and in order, in segments of cuts
\* least one word and no more than the most, none past a heading of a Markdown text and
\* none cut off in mid-sentence where a sentence ended in reach
\* (segmentation.py, prepare_speech_segments).
THEOREM TextIsSaidWhole == SegmentationSpec => []SegmentsSayTheText
<1>1. SegmentationInit => SegmentationInv
  <2> SUFFICES ASSUME SegmentationInit PROVE SegmentationInv
    OBVIOUS
  <2>1. PICK n \in 1 .. Longest : words \in [1 .. n -> Marks]
    BY DEF SegmentationInit, Documents
  <2>2. n \in Nat /\ n > 0
    BY SegmentationAssumption
  <2> QED BY <2>1, <2>2 DEF SegmentationInit, SegmentationInv
<1>2. SegmentationInv /\ [SegmentationNext]_segmentationVars => SegmentationInv'
  <2> SUFFICES ASSUME SegmentationInv, [SegmentationNext]_segmentationVars PROVE SegmentationInv'
    OBVIOUS
  <2>1. CASE AdmitText
    <3>1. words' = words /\ markdown' = markdown /\ segments' = PrepareSpeechSegments(words, markdown)
      BY <2>1 DEF AdmitText
    <3>2. Tiling(segments', Spoken(words, markdown), 1, Len(words))
      BY <3>1, PreparedTiles DEF SegmentationInv
    <3> QED BY <3>1, <3>2 DEF SegmentationInv
  <2>2. CASE UNCHANGED segmentationVars
    BY <2>2 DEF SegmentationInv, segmentationVars
  <2> QED BY <2>1, <2>2 DEF SegmentationNext
<1> QED BY <1>1, <1>2, SegmentationInvImplies, PTL DEF SegmentationSpec
=============================================================================
