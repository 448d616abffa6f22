----------------------------- MODULE Installation -----------------------------
(***************************************************************************)
(* The installer replaces the tools, the application and two launch agents *)
(* one after another; an agent whose replacement fails or is interrupted   *)
(* is put back.  launchd removes a service some time after it accepted to, *)
(* shows it until then, and refuses to register another in its place.      *)
(***************************************************************************)
EXTENDS Naturals

CONSTANT LaunchAgentCount \* launch agents, installed in order

ASSUME InstallationAssumption == LaunchAgentCount \in Nat \ {0}

VARIABLES at,        \* where the installer is
          agent,     \* the agent it activates
          tools, app, \* what is installed of the executables and of the application
          plist,     \* agent -> the plist at its place
          service,   \* agent -> what launchd has registered, or Leaving
          before,    \* agent -> its plist and service when the installer began
          attempted, \* bootstrap_attempted
          ui,        \* whether a menu bar that launchd did not start still runs
          outOfHands, \* whether launchd exceeded its allowance, or refused the previous plist
          cutShort   \* whether an interrupt found launchd removing the previous service
installVars == <<at, agent, tools, app, plist, service, before, attempted, ui, outOfHands, cutShort>>

LaunchAgents == 1 .. LaunchAgentCount
None == "none"
Leaving == "leaving"
Activating == {"inspecting", "replacing", "bootout", "waiting", "bootstrap"}

\* From here on an interrupt is answered by putting the agent back; one that comes
\* before finds nothing replaced.
Interruptible == Activating \ {"inspecting"}
Restoring == {"restoring", "retiring", "settling", "looking", "reloading"}

InstallTypeOK ==
  /\ at \in {"off", "staged", "tools", "app", "quitting", "done", "failed"}
              \cup Activating \cup Restoring
  /\ agent \in LaunchAgents /\ {tools, app} \subseteq {None, "old", "new"}
  /\ plist \in [LaunchAgents -> {None, "old", "new"}]
  /\ service \in [LaunchAgents -> {None, "old", "new", Leaving}]
  /\ {attempted, ui, outOfHands, cutShort} \subseteq BOOLEAN

InstallInit ==
  /\ at = "off" /\ agent = 1 /\ attempted = FALSE /\ outOfHands = FALSE /\ cutShort = FALSE
  /\ tools \in {None, "old"} /\ app \in {None, "old"} /\ ui \in BOOLEAN
  /\ plist \in [LaunchAgents -> {None, "old"}]
  /\ service \in [LaunchAgents -> {None, "old"}]
  /\ before = [a \in LaunchAgents |-> [plist |-> plist[a], service |-> service[a]]]

Visible == service[agent] # None
WasLoaded == before[agent].service # None
Registers(what) == service' = [service EXCEPT ![agent] = what]

-----------------------------------------------------------------------------
(* What is staged, and the two replacements that come first *)

\* Nothing is replaced before the application and the plists are complete.
Stage(ok) ==
  /\ at = "off" /\ at' = IF ok THEN "staged" ELSE "failed"
  /\ UNCHANGED <<agent, tools, app, plist, service, before, attempted, ui, outOfHands, cutShort>>

InstallTools(ok) ==
  /\ at = "staged" /\ at' = IF ok THEN "tools" ELSE "failed"
  /\ tools' = IF ok THEN "new" ELSE tools
  /\ UNCHANGED <<agent, app, plist, service, before, attempted, ui, outOfHands, cutShort>>

\* One atomic exchange, or none.
PublishAppBundle(ok) ==
  /\ at = "tools" /\ at' = IF ok THEN "inspecting" ELSE "failed"
  /\ app' = IF ok THEN "new" ELSE app
  /\ UNCHANGED <<agent, tools, plist, service, before, attempted, ui, outOfHands, cutShort>>

-----------------------------------------------------------------------------
(* activate_launch_agent *)

Rest == UNCHANGED <<agent, tools, app, before, ui, cutShort>>

\* A loaded service without its plist could not be put back.
Inspect ==
  /\ at = "inspecting"
  /\ at' = IF Visible /\ plist[agent] = None THEN "failed" ELSE "replacing"
  /\ attempted' = FALSE /\ UNCHANGED <<plist, service, outOfHands>> /\ Rest

ReplacePlist(ok) ==
  /\ at = "replacing" /\ at' = IF ok THEN "bootout" ELSE "restoring"
  /\ plist' = IF ok THEN [plist EXCEPT ![agent] = "new"] ELSE plist
  /\ UNCHANGED <<service, attempted, outOfHands>> /\ Rest

\* launchd accepts to remove what it has, or refuses; without a service its answer
\* is of no interest.
Bootout(ok) ==
  /\ at = "bootout" /\ at' = IF ok \/ ~WasLoaded THEN "waiting" ELSE "restoring"
  /\ IF ok /\ Visible THEN Registers(Leaving) ELSE UNCHANGED service
  /\ UNCHANGED <<plist, attempted, outOfHands>> /\ Rest

TornDown ==
  /\ at = "waiting" /\ ~Visible
  /\ at' = "bootstrap" /\ attempted' = TRUE /\ UNCHANGED <<plist, service, outOfHands>> /\ Rest

TeardownTimesOut ==
  /\ at = "waiting" /\ Visible
  /\ at' = "restoring" /\ outOfHands' = TRUE /\ UNCHANGED <<plist, service, attempted>> /\ Rest

\* Registered, the UI that the next agent replaces is told to quit.
Bootstrap(ok) ==
  /\ at = "bootstrap" /\ (ok => ~Visible)
  /\ at' = IF ~ok THEN "restoring" ELSE IF agent < LaunchAgentCount THEN "quitting" ELSE "done"
  /\ IF ok THEN Registers("new") ELSE UNCHANGED service
  /\ UNCHANGED <<plist, attempted, outOfHands>> /\ Rest

\* The interrupt comes before or after what the step does.
Interrupt(effect) ==
  /\ at \in Interruptible /\ at' = "restoring"
  /\ IF effect /\ at = "replacing" THEN plist' = [plist EXCEPT ![agent] = "new"] ELSE UNCHANGED plist
  /\ IF effect /\ at = "bootout" /\ Visible THEN Registers(Leaving)
     ELSE IF effect /\ at = "bootstrap" /\ ~Visible THEN Registers("new")
     ELSE UNCHANGED service
  /\ cutShort' = (service'[agent] = Leaving)
  /\ UNCHANGED <<agent, tools, app, before, attempted, ui, outOfHands>>

-----------------------------------------------------------------------------
(* Putting the previous agent back *)

RestorePlist ==
  /\ at = "restoring" /\ at' = IF attempted THEN "retiring" ELSE "looking"
  /\ plist' = [plist EXCEPT ![agent] = before[agent].plist]
  /\ UNCHANGED <<service, attempted, outOfHands>> /\ Rest

\* A replacement may have been registered all the same.
RetireReplacement(ok) ==
  /\ at = "retiring" /\ at' = "settling"
  /\ IF ok /\ Visible THEN Registers(Leaving) ELSE UNCHANGED service
  /\ UNCHANGED <<plist, attempted, outOfHands>> /\ Rest

\* Mutant: the replacement's removal is not waited for.
ReplacementIgnored ==
  /\ at = "settling" /\ at' = "looking"
  /\ UNCHANGED <<plist, service, attempted, outOfHands>> /\ Rest

ReplacementGone ==
  /\ at = "settling" /\ ~Visible /\ at' = "looking"
  /\ UNCHANGED <<plist, service, attempted, outOfHands>> /\ Rest

SettlingTimesOut ==
  /\ at = "settling" /\ Visible /\ at' = "looking" /\ outOfHands' = TRUE
  /\ UNCHANGED <<plist, service, attempted>> /\ Rest

\* A service that is still shown is taken for the previous one.
LookForPrevious ==
  /\ at = "looking" /\ at' = IF WasLoaded /\ ~Visible THEN "reloading" ELSE "failed"
  /\ UNCHANGED <<plist, service, attempted, outOfHands>> /\ Rest

ReloadPrevious(ok) ==
  /\ at = "reloading" /\ at' = "failed" /\ (ok => ~Visible)
  /\ IF ok THEN Registers(plist[agent]) /\ UNCHANGED outOfHands
           ELSE outOfHands' = TRUE /\ UNCHANGED service
  /\ UNCHANGED <<plist, attempted>> /\ Rest

-----------------------------------------------------------------------------
(* The menu bar, and launchd *)

\* A menu bar that ignores the signal is left with a warning.
RetireMenuBar(quits) ==
  /\ at = "quitting" /\ at' = "inspecting" /\ agent' = agent + 1
  /\ ui' = (ui /\ ~quits)
  /\ UNCHANGED <<tools, app, plist, service, before, attempted, outOfHands, cutShort>>

Gone(a) ==
  /\ service[a] = Leaving /\ service' = [service EXCEPT ![a] = None]
  /\ UNCHANGED <<at, agent, tools, app, plist, before, attempted, ui, outOfHands, cutShort>>

InstallNext ==
  \/ \E ok \in BOOLEAN :
       \/ Stage(ok) \/ InstallTools(ok) \/ PublishAppBundle(ok)
       \/ ReplacePlist(ok) \/ Bootout(ok) \/ Bootstrap(ok) \/ Interrupt(ok)
       \/ RetireReplacement(ok) \/ ReloadPrevious(ok) \/ RetireMenuBar(ok)
  \/ Inspect \/ TornDown \/ TeardownTimesOut \/ RestorePlist \/ ReplacementGone \/ SettlingTimesOut
  \/ LookForPrevious
  \/ \E a \in LaunchAgents : Gone(a)

InstallSpec == InstallInit /\ [][InstallNext]_installVars

-----------------------------------------------------------------------------
(* Properties *)

\* An installation that fails leaves every agent either replaced and registered or
\* as it was: its plist in place and the service that was loaded registered, and no
\* other.  Two things excuse a service that is not back: launchd took longer than it
\* was given, or refused; or an interrupt came between bootout and the end of the
\* removal, after which the rollback can take the leaving service for the loaded one
\* (scripts/install_application.py:194-203).  Then it is gone, or going, but never
\* replaced by another.
PreviousServiceIsBack ==
  at \in {"failed", "done"} =>
    \A a \in LaunchAgents :
      IF a < agent \/ at = "done" THEN plist[a] = "new" /\ service[a] = "new"
      ELSE /\ plist[a] = before[a].plist
           /\ \/ outOfHands
              \/ service[a] = before[a].service
              \/ a = agent /\ cutShort /\ service[a] \in {None, Leaving}

\* "Interrupted launch-agent activation restores the previous plist and registration
\* state, including launchctl side effects completed before Ctrl-C reaches the
\* installer" (CHANGELOG.md:328), at the latest when launchd has removed what it is
\* removing.  The code does not, when the interrupt reaches it after bootout and
\* before the previous service is gone: that service stays unloaded.
InterruptedActivationIsRestored ==
  at = "failed" /\ ~outOfHands /\ service[agent] # Leaving =>
    plist[agent] = before[agent].plist /\ service[agent] = before[agent].service
=============================================================================
