------------------------------ MODULE ModelSetup ------------------------------
(***************************************************************************)
(* The models of the daemon while it runs: preparation by the startup      *)
(* warm-up and by renders, reload, guided setup with its replacement of    *)
(* the incumbent, and cancellation.                                        *)
(*                                                                         *)
(* An engine object is a number, in the order of creation.  Handlers and   *)
(* continuations run on the event loop; loads, renders, installations and  *)
(* closes run in threads, and end at any time, well or not.                *)
(***************************************************************************)
EXTENDS Naturals

CONSTANTS Models, Startup, \* the catalog, and the model that is warmed up
          Supported,       \* models this computer can run in a runtime of their own
          FirstEngines,    \* model -> the engine it has when the daemon starts, or 0
          Renderers,       \* workers of the pool
          MaxEngines       \* bound: engine objects created

Free == "free"

ASSUME ModelAssumption ==
  /\ FirstEngines \in [Models -> 0 .. MaxEngines] /\ MaxEngines \in Nat
  /\ Startup \in Models /\ FirstEngines[Startup] # 0 /\ Supported \subseteq Models
  /\ \A m, n \in Models : FirstEngines[m] = FirstEngines[n] => m = n \/ FirstEngines[m] = 0
  /\ Renderers \cap {Free, "warm", "reload"} = {}

VARIABLES engine,   \* model -> its engine in registry, daemon and pool; 0 without one
          status,   \* model -> the registry's state of it
          lock,     \* model -> who holds the registry's lock, or Free
          loaded,   \* engines whose warm-up succeeded
          closed,   \* engines closed because they were retired or given up
          created,  \* how many engines there have been
          manifest, \* models with a published runtime on disk
          enabled,  \* pool.enabled
          job,      \* worker -> what it is doing
          warm,     \* the startup warm-up: "due", "loading", "done"
          reload,   \* the reload under way
          setup,    \* the setup under way
          repair,   \* models whose last setup failed
          closing   \* the engine a cancellation is about to close, or 0
modelVars == <<engine, status, lock, loaded, closed, created, manifest, enabled,
               job, warm, reload, setup, repair, closing>>

Idle == [stage |-> "idle", model |-> Startup, engine |-> 0]
NoReload == [stage |-> "none", model |-> Startup]
NoSetup == [stage |-> "none", model |-> Startup, engine |-> 0,
            previous |-> 0, cancelled |-> FALSE, paused |-> FALSE]

\* active_jobs counts from the claim to the end of the render.
Active == {w \in Renderers : job[w].stage \notin {"idle", "woken"}}
Loading == {m \in Models : status[m] \in {"loading", "reloading"}}

ModelTypeOK ==
  /\ engine \in [Models -> 0 .. created] /\ created \in 0 .. MaxEngines
  /\ status \in [Models -> {"none", "cold", "loading", "ready", "failed", "reloading"}]
  /\ lock \in [Models -> {Free, "warm", "reload"} \cup Renderers]
  /\ loaded \subseteq 1 .. created /\ closed \subseteq 1 .. created
  /\ manifest \subseteq Models /\ repair \subseteq Models
  /\ {enabled, setup.cancelled, setup.paused} \subseteq BOOLEAN
  /\ setup.engine <= created /\ setup.previous <= created /\ closing <= created

ModelInit ==
  /\ engine = FirstEngines
  /\ created \in {FirstEngines[m] : m \in Models} /\ \A m \in Models : FirstEngines[m] <= created
  /\ status = [m \in Models |-> IF FirstEngines[m] = 0 THEN "none" ELSE "cold"]
  /\ lock = [m \in Models |-> Free] /\ loaded = {} /\ closed = {}
  /\ manifest \in SUBSET Supported /\ repair = {}
  /\ enabled = TRUE /\ job = [w \in Renderers |-> Idle]
  /\ warm = "due" /\ reload = NoReload /\ setup = NoSetup /\ closing = 0

-----------------------------------------------------------------------------
(* The registry.  A preparation holds the model's lock while it loads.      *)

\* Ready and failed are answered at once; otherwise the load begins.
BeginsLoad(me, m) ==
  /\ lock[m] = Free /\ status[m] \notin {"ready", "failed"}
  /\ lock' = [lock EXCEPT ![m] = me] /\ status' = [status EXCEPT ![m] = "loading"]

\* The lock released is the one taken, which a new registration has replaced.
Unlocks(me, m) == lock' = [lock EXCEPT ![m] = IF @ = me THEN Free ELSE @]

EndsLoad(me, m, e, ok) ==
  /\ status' = [status EXCEPT ![m] = IF ok THEN "ready" ELSE "failed"]
  /\ loaded' = IF ok THEN loaded \cup {e} ELSE loaded
  /\ Unlocks(me, m)

WarmBegins ==
  /\ warm = "due" /\ lock[Startup] = Free
  /\ IF status[Startup] \in {"ready", "failed"}
     THEN warm' = "done" /\ UNCHANGED <<lock, status>>
     ELSE warm' = "loading" /\ BeginsLoad("warm", Startup)
  /\ UNCHANGED <<engine, loaded, closed, created, manifest, enabled, job, reload, setup,
                 repair, closing>>

\* Held text is released whatever came of the load.
WarmEnds(ok) ==
  /\ warm = "loading" /\ warm' = "done"
  /\ EndsLoad("warm", Startup, FirstEngines[Startup], ok)
  /\ UNCHANGED <<engine, closed, created, manifest, enabled, job, reload, setup, repair, closing>>

-----------------------------------------------------------------------------
(* The pool *)

Moves(w, stage) == job' = [job EXCEPT ![w].stage = stage]
PoolOnly == UNCHANGED <<engine, closed, created, manifest, enabled, warm, reload, setup,
                        repair, closing>>

\* enabled.wait() has returned, and does not look again.
Wakes(w) ==
  /\ job[w].stage = "idle" /\ enabled /\ Moves(w, "woken")
  /\ PoolOnly /\ UNCHANGED <<status, lock, loaded>>

\* Text for the startup engine is held until its warm-up ends.
Claims(w, m) ==
  /\ job[w].stage = "woken" /\ engine[m] # 0
  /\ m = Startup => warm = "done"
  /\ job' = [job EXCEPT ![w] = [stage |-> "claimed", model |-> m, engine |-> 0]]
  /\ PoolOnly /\ UNCHANGED <<status, lock, loaded>>

Parks(w) ==
  /\ job[w].stage = "woken" /\ Moves(w, "idle")
  /\ PoolOnly /\ UNCHANGED <<status, lock, loaded>>

\* The render thread looks its engine up, then has it prepared.
LooksUp(w) ==
  /\ job[w].stage = "claimed"
  /\ job' = [job EXCEPT ![w].stage = "entering", ![w].engine = engine[job[w].model]]
  /\ PoolOnly /\ UNCHANGED <<status, lock, loaded>>

Enters(w) ==
  /\ job[w].stage = "entering"
  /\ LET m == job[w].model IN
       \/ /\ lock[m] = Free /\ status[m] = "ready"
          /\ Moves(w, "rendering") /\ UNCHANGED <<lock, status>>
       \/ /\ lock[m] = Free /\ status[m] = "failed"
          /\ job' = [job EXCEPT ![w] = Idle] /\ UNCHANGED <<lock, status>>
       \/ BeginsLoad(w, m) /\ Moves(w, "loading")
  /\ PoolOnly /\ UNCHANGED loaded

Loads(w, ok) ==
  /\ job[w].stage = "loading"
  /\ EndsLoad(w, job[w].model, job[w].engine, ok)
  /\ job' = [job EXCEPT ![w] = IF ok THEN [@ EXCEPT !.stage = "rendering"] ELSE Idle]
  /\ PoolOnly

RenderReturns(w) ==
  /\ job[w].stage = "rendering" /\ job' = [job EXCEPT ![w] = Idle]
  /\ PoolOnly /\ UNCHANGED <<status, lock, loaded>>

-----------------------------------------------------------------------------
(* Reload *)

RestartModel(m) ==
  /\ engine[m] # 0 /\ Active = {} /\ reload.stage = "none"
  /\ setup.stage = "none" /\ m \notin Loading
  /\ enabled' = FALSE /\ reload' = [stage |-> "asked", model |-> m]
  /\ UNCHANGED <<engine, status, lock, loaded, closed, created, manifest, job, warm, setup,
                 repair, closing>>

ReloadBegins ==
  /\ reload.stage = "asked" /\ lock[reload.model] = Free
  /\ lock' = [lock EXCEPT ![reload.model] = "reload"]
  /\ status' = [status EXCEPT ![reload.model] = "reloading"]
  /\ reload' = [reload EXCEPT !.stage = "loading"]
  /\ UNCHANGED <<engine, loaded, closed, created, manifest, enabled, job, warm, setup, repair, closing>>

ReloadEnds(ok) ==
  /\ reload.stage = "loading" /\ reload' = [reload EXCEPT !.stage = "loaded"]
  /\ EndsLoad("reload", reload.model, engine[reload.model], ok)
  /\ UNCHANGED <<engine, closed, created, manifest, enabled, job, warm, setup, repair, closing>>

\* The daemon's task, not the request, gives the pool back...
ReloadReturns ==
  /\ reload.stage = "loaded" /\ reload' = [reload EXCEPT !.stage = "returned"]
  /\ enabled' = TRUE
  /\ UNCHANGED <<engine, status, lock, loaded, closed, created, manifest, job, warm, setup,
                 repair, closing>>

\* ... and its callback forgets it.
ReloadForgotten ==
  /\ reload.stage = "returned" /\ reload' = NoReload
  /\ UNCHANGED <<engine, status, lock, loaded, closed, created, manifest, enabled, job, warm,
                 setup, repair, closing>>

-----------------------------------------------------------------------------
(* Setup.  Its task runs through                                            *)
(*   installing, installed, warming, warmed, quiescing, retiring, ending    *)
(* and from any of them but the last two to failing, which also ends.       *)

SetupOnly == UNCHANGED <<job, warm, reload>>
SetupStage(stage) == setup' = [setup EXCEPT !.stage = stage]

\* A failed model is installed anew; one with a published runtime is not.
BeginSetup(m) ==
  /\ m \in Supported /\ setup.stage = "none" /\ reload.stage = "none"
  /\ status[m] \notin {"loading", "ready"}
  /\ setup' = [NoSetup EXCEPT !.model = m,
       !.stage = IF m \in manifest /\ m \notin repair /\ status[m] # "failed"
                 THEN "installed" ELSE "installing"]
  /\ SetupOnly
  /\ UNCHANGED <<engine, status, lock, loaded, closed, created, manifest, enabled, repair, closing>>

\* The candidate's manifest replaces the incumbent's only at the very end.
InstallEnds(ok) ==
  /\ setup.stage = "installing"
  /\ IF ok /\ ~setup.cancelled
     THEN manifest' = manifest \cup {setup.model} /\ SetupStage("installed")
     ELSE manifest' = manifest /\ SetupStage("failing")
  /\ SetupOnly
  /\ UNCHANGED <<engine, status, lock, loaded, closed, created, enabled, repair, closing>>

CreateWorker ==
  /\ setup.stage = "installed" /\ created < MaxEngines
  /\ IF setup.cancelled
     THEN SetupStage("failing") /\ UNCHANGED created
     ELSE /\ created' = created + 1
          /\ setup' = [setup EXCEPT !.stage = "warming", !.engine = created']
  /\ SetupOnly
  /\ UNCHANGED <<engine, status, lock, loaded, closed, manifest, enabled, repair, closing>>

\* A closed worker may still have answered.
WarmupReturns(ok) ==
  /\ setup.stage = "warming"
  /\ SetupStage(IF ok THEN "warmed" ELSE "failing")
  /\ loaded' = IF ok THEN loaded \cup {setup.engine} ELSE loaded
  /\ SetupOnly
  /\ UNCHANGED <<engine, status, lock, closed, created, manifest, enabled, repair, closing>>

PausePool ==
  /\ setup.stage = "warmed" /\ enabled' = FALSE
  /\ setup' = [setup EXCEPT !.stage = "quiescing", !.paused = TRUE]
  /\ SetupOnly
  /\ UNCHANGED <<engine, status, lock, loaded, closed, created, manifest, repair, closing>>

\* Mutant: only the pool is waited for, and a cancellation in the meantime is missed.
QuiescentUnasked == Active = {}

\* Nothing renders or loads, and nobody cancelled: checked with no await before
\* the publication.
Quiescent == Active = {} /\ Loading = {} /\ ~setup.cancelled

PublishModel ==
  /\ setup.stage = "quiescing" /\ Quiescent
  /\ LET m == setup.model IN
       /\ setup' = [setup EXCEPT !.stage = "retiring", !.engine = 0, !.previous = engine[m]]
       /\ engine' = [engine EXCEPT ![m] = setup.engine]
       /\ status' = [status EXCEPT ![m] = "ready"] /\ lock' = [lock EXCEPT ![m] = Free]
       /\ repair' = repair \ {m}
  /\ SetupOnly
  /\ UNCHANGED <<loaded, closed, created, manifest, enabled, closing>>

\* The poll sees the cancellation.
GiveUp ==
  /\ setup.stage = "quiescing" /\ setup.cancelled /\ SetupStage("failing")
  /\ SetupOnly
  /\ UNCHANGED <<engine, status, lock, loaded, closed, created, manifest, enabled, repair, closing>>

Retire ==
  /\ setup.stage = "retiring" /\ SetupStage("ending")
  /\ closed' = closed \cup ({setup.previous} \ {0})
  /\ SetupOnly
  /\ UNCHANGED <<engine, status, lock, loaded, created, manifest, enabled, repair, closing>>

CloseCandidate ==
  /\ setup.stage = "failing" /\ SetupStage("ending")
  /\ closed' = closed \cup ({setup.engine} \ {0})
  /\ repair' = IF setup.cancelled THEN repair \ {setup.model} ELSE repair \cup {setup.model}
  /\ SetupOnly
  /\ UNCHANGED <<engine, status, lock, loaded, created, manifest, enabled, closing>>

\* Mutant: a cancelled setup forgets that it had stopped the pool.
EndSetupForgetful ==
  /\ setup.stage = "ending" /\ setup' = NoSetup
  /\ enabled' = (enabled \/ (setup.paused /\ ~setup.cancelled))
  /\ SetupOnly
  /\ UNCHANGED <<engine, status, lock, loaded, closed, created, manifest, repair, closing>>

EndSetup ==
  /\ setup.stage = "ending" /\ setup' = NoSetup
  /\ enabled' = (enabled \/ setup.paused)
  /\ SetupOnly
  /\ UNCHANGED <<engine, status, lock, loaded, closed, created, manifest, repair, closing>>

\* The event is set at once; the worker is closed from a thread of its own.
CancelSetup ==
  /\ setup.stage # "none" /\ ~setup.cancelled
  /\ setup' = [setup EXCEPT !.cancelled = TRUE]
  /\ closing' = IF setup.stage \in {"warming", "warmed", "quiescing"} THEN setup.engine ELSE closing
  /\ SetupOnly
  /\ UNCHANGED <<engine, status, lock, loaded, closed, created, manifest, enabled, repair>>

CancelCloses ==
  /\ closing # 0 /\ closed' = closed \cup {closing} /\ closing' = 0
  /\ SetupOnly
  /\ UNCHANGED <<engine, status, lock, loaded, created, manifest, enabled, setup, repair>>

-----------------------------------------------------------------------------
Thread(w) == LooksUp(w) \/ Enters(w) \/ (\E ok \in BOOLEAN : Loads(w, ok)) \/ RenderReturns(w)

Reloads ==
  \/ ReloadBegins \/ ReloadReturns \/ ReloadForgotten
  \/ \E ok \in BOOLEAN : ReloadEnds(ok)

Setups ==
  \/ CreateWorker \/ PausePool \/ PublishModel \/ GiveUp
  \/ Retire \/ CloseCandidate \/ EndSetup
  \/ \E ok \in BOOLEAN : InstallEnds(ok) \/ WarmupReturns(ok)

ModelNext ==
  \/ WarmBegins
  \/ \E ok \in BOOLEAN : WarmEnds(ok)
  \/ \E w \in Renderers : Wakes(w) \/ Parks(w) \/ Thread(w) \/ \E m \in Models : Claims(w, m)
  \/ \E m \in Models : RestartModel(m) \/ BeginSetup(m)
  \/ Reloads \/ Setups \/ CancelSetup \/ CancelCloses

ModelSpec == ModelInit /\ [][ModelNext]_modelVars

-----------------------------------------------------------------------------
(* Properties *)

\* No job renders with an engine that was retired or given up, and no model is
\* offered under one: a candidate that a cancellation is closing is never
\* published, and the incumbent is retired only when nothing uses it.
ModelsAreAlive ==
  /\ \A w \in Active : job[w].stage # "claimed" => job[w].engine \notin closed
  /\ \A m \in Models : engine[m] \notin closed
  /\ \A m \in Models : status[m] = "ready" => engine[m] \in loaded

\* A reload or a setup that stopped the pool starts it again.
PoolComesBack == ~enabled ~> enabled
=============================================================================
