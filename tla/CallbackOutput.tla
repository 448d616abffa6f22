---------------------------- MODULE CallbackOutput ----------------------------
(***************************************************************************)
(* The prepared callback output: one native stream, kept open and silent   *)
(* between speech sessions, that the sink's thread and the model warm-up   *)
(* both prepare, under a lock for its setup and another for its one owner. *)
(*                                                                         *)
(* A reopening stops the device thread, joins it and starts another.  The  *)
(* native stream calls back at any time, and may stop on its own account.  *)
(***************************************************************************)
EXTENDS Naturals

CONSTANTS MaxSessions, \* bound: speech sessions
          MaxRoutes,   \* bound: outputs the listener moves through
          MaxFailures  \* bound: failed openings, unexpected ends and timeouts

ASSUME OutputAssumption ==
  MaxSessions \in Nat /\ MaxRoutes \in Nat /\ MaxFailures \in Nat

VARIABLES stop, ready, ended, \* the events
          failed,    \* whether _error is set
          identity,  \* the output the stream was opened on
          route,     \* the default output
          device,    \* the thread of the stream: its stage
          calling,   \* whether the native stream still calls back
          active,    \* the session in the slot, or 0
          told,      \* sessions whose finished was called
          caller,    \* sink and warm-up: where each is in prepare, session or close
          session,   \* sessions begun
          failures
outputVars == <<stop, ready, ended, failed, identity, route, device, calling, active, told,
                caller, session, failures>>

Callers == {"sink", "warm"}
\* Stages in which a caller holds the setup lock.
Inside == {"joining", "opening", "dropping", "closing"}

OutputTypeOK ==
  /\ {stop, ready, ended, failed, calling} \subseteq BOOLEAN
  /\ identity \in 0 .. MaxRoutes /\ route \in 1 .. MaxRoutes
  /\ device \in {"none", "opening", "live", "last"}
  /\ session \in 0 .. MaxSessions /\ active \in 0 .. session /\ told \subseteq 1 .. session
  /\ caller \in [Callers -> Inside \cup {"due", "asks", "prepared", "playing", "over"}]
  /\ failures \in 0 .. MaxFailures

OutputInit ==
  /\ stop = FALSE /\ ready = FALSE /\ ended = FALSE /\ failed = FALSE
  /\ identity = 0 /\ route = 1 /\ device = "none" /\ calling = FALSE
  /\ active = 0 /\ told = {} /\ session = 0 /\ failures = 0
  /\ caller = [c \in Callers |-> "due"]

At(c, stage) == caller' = [caller EXCEPT ![c] = stage]
SetupFree == \A c \in Callers : caller[c] \notin Inside
\* A refused session is an error of its clip; the sink is free for the next one.
Return(c) == At(c, IF c = "sink" THEN "due" ELSE "over")
Fails == failures < MaxFailures /\ failures' = failures + 1
\* Timing: a session is not five seconds between its two locks.
Prompt == caller["sink"] # "prepared"

DeviceOnly == UNCHANGED <<route, told, active, calling, device, identity, ended>>

-----------------------------------------------------------------------------
(* prepare *)

Healthy == ready /\ ~ended /\ ~stop /\ ~failed /\ identity = route

\* The healthy stream is used as it is; any other is closed first.
Prepare(c) ==
  /\ caller[c] = "asks" /\ SetupFree
  /\ IF Healthy
     THEN (IF c = "sink" THEN At(c, "prepared") ELSE Return(c)) /\ UNCHANGED stop
     ELSE At(c, "joining") /\ stop' = TRUE
  /\ DeviceOnly /\ UNCHANGED <<ready, failed, session, failures>>

Reopen(c) ==
  /\ caller[c] = "joining" /\ device = "none"
  /\ device' = "opening" /\ At(c, "opening")
  /\ ready' = FALSE /\ ended' = FALSE /\ stop' = FALSE /\ failed' = FALSE
  /\ UNCHANGED <<identity, route, calling, active, told, session, failures>>

Prepared(c) ==
  /\ caller[c] = "opening" /\ ready
  /\ IF failed \/ c # "sink" THEN Return(c) ELSE At(c, "prepared")
  /\ DeviceOnly /\ UNCHANGED <<stop, ready, failed, session, failures>>

\* Nothing opened in time: the stream is stopped, whenever it opens.
PrepareTimesOut(c) ==
  /\ caller[c] = "opening" /\ ~ready /\ Prompt /\ Fails
  /\ stop' = TRUE /\ At(c, "dropping")
  /\ DeviceOnly /\ UNCHANGED <<ready, failed, session>>

\* The end of close, in a preparation that timed out or called for itself.
Closed(c) ==
  /\ caller[c] \in {"dropping", "closing"} /\ device = "none"
  /\ ready' = FALSE /\ Return(c)
  /\ DeviceOnly /\ UNCHANGED <<stop, failed, session, failures>>

\* Only the native stream may release the thread: a close that waited for it in
\* vain raises, and leaves it running.
JoinTimesOut(c) ==
  /\ caller[c] \in {"joining", "dropping", "closing"} /\ device # "none" /\ Prompt /\ Fails
  /\ Return(c)
  /\ DeviceOnly /\ UNCHANGED <<stop, ready, failed, session>>

-----------------------------------------------------------------------------
(* The sink's sessions, its closing for a clip that callbacks cannot play, and *)
(* the warm-up                                                               *)

AskOutput(c) ==
  /\ caller[c] = "due" /\ (c = "sink" => session < MaxSessions)
  /\ At(c, "asks")
  /\ DeviceOnly /\ UNCHANGED <<stop, ready, failed, session, failures>>

CloseOutput ==
  /\ caller["sink"] = "due" /\ SetupFree
  /\ At("sink", "closing") /\ stop' = TRUE
  /\ DeviceOnly /\ UNCHANGED <<ready, failed, session, failures>>

Attach ==
  /\ caller["sink"] = "prepared" /\ session' = session + 1
  /\ IF failed \/ active # 0
     THEN At("sink", "due") /\ UNCHANGED active
     ELSE At("sink", "playing") /\ active' = session'
  /\ UNCHANGED <<stop, ready, ended, failed, identity, route, device, calling, told, failures>>

\* The clip's renderer has ended or its stream has: the thread wakes and detaches.
Detach ==
  /\ caller["sink"] = "playing" /\ session \in told
  /\ At("sink", "due") /\ active' = IF active = session THEN 0 ELSE active
  /\ UNCHANGED <<stop, ready, ended, failed, identity, route, device, calling, told, session,
                 failures>>

-----------------------------------------------------------------------------
(* The native stream *)

\* The stream opens, or fails to.
StreamOpens(ok) ==
  /\ device = "opening" /\ identity' = route
  /\ IF ok THEN device' = "live" /\ ready' = TRUE /\ calling' = TRUE /\ UNCHANGED <<failed, failures>>
           ELSE Fails /\ device' = "last" /\ failed' = TRUE /\ UNCHANGED <<ready, calling>>
  /\ UNCHANGED <<stop, ended, route, active, told, caller, session>>

\* One callback.  With no owner it is silence, and changes nothing.
StreamStops ==
  /\ device = "live" /\ calling /\ stop /\ calling' = FALSE
  /\ UNCHANGED <<stop, ready, ended, failed, identity, route, device, active, told, caller,
                 session, failures>>

RendererEnds(ok) ==
  /\ device = "live" /\ calling /\ ~stop /\ active # 0
  /\ active' = 0 /\ told' = told \cup {active}
  /\ IF ok THEN UNCHANGED <<failed, calling, failures>>
           ELSE Fails /\ failed' = TRUE /\ calling' = FALSE
  /\ UNCHANGED <<stop, ready, ended, identity, route, device, caller, session>>

\* The native stream has finished, because a callback said so...
StreamFinishes ==
  /\ device = "live" /\ ~ended /\ ~calling /\ ended' = TRUE
  /\ UNCHANGED <<stop, ready, failed, identity, route, device, calling, active, told, caller,
                 session, failures>>

\* ... or by itself.
StreamBreaks ==
  /\ device = "live" /\ ~ended /\ calling /\ Fails
  /\ ended' = TRUE /\ calling' = FALSE
  /\ UNCHANGED <<stop, ready, failed, identity, route, device, active, told, caller, session>>

StreamLeft ==
  /\ device = "live" /\ ended
  /\ device' = "last" /\ failed' = (failed \/ ~stop)
  /\ UNCHANGED <<stop, ready, ended, identity, route, calling, active, told, caller, session,
                 failures>>

Idles == ready' = TRUE /\ device' = "none" /\ active' = 0

\* Mutant: the thread ends without telling the session it was serving.
ThreadEndsSilently ==
  /\ device = "last" /\ Idles
  /\ UNCHANGED <<stop, ended, failed, identity, route, calling, told, caller, session, failures>>

\* The thread takes the session with it, and wakes a preparation.
ThreadEnds ==
  /\ device = "last" /\ Idles /\ told' = told \cup ({active} \ {0})
  /\ UNCHANGED <<stop, ended, failed, identity, route, calling, caller, session, failures>>

RouteMoves ==
  /\ route < MaxRoutes /\ route' = route + 1
  /\ UNCHANGED <<stop, ready, ended, failed, identity, device, calling, active, told, caller,
                 session, failures>>

-----------------------------------------------------------------------------
Preparing(c) == Prepare(c) \/ Reopen(c) \/ Prepared(c) \/ Closed(c)

Streaming ==
  \/ StreamOpens(TRUE) \/ StreamStops \/ StreamFinishes \/ StreamLeft \/ ThreadEnds

OutputNext ==
  \/ \E c \in Callers : AskOutput(c) \/ Preparing(c) \/ PrepareTimesOut(c) \/ JoinTimesOut(c)
  \/ CloseOutput \/ Attach \/ Detach \/ RouteMoves
  \/ Streaming \/ StreamOpens(FALSE) \/ StreamBreaks
  \/ \E ok \in BOOLEAN : RendererEnds(ok)

-----------------------------------------------------------------------------
(* Properties *)

\* Whatever becomes of its stream, stopped for the next, moved to another output,
\* failed to open, or ended by itself, a session that took the slot is told of its end.
OutputSessionsEnd == caller["sink"] = "playing" ~> caller["sink"] # "playing"
=============================================================================
