----------------------------- MODULE LocalServer -----------------------------
(***************************************************************************)
(* The daemon's endpoint and a client that waits for a clip: leases on the *)
(* state and on the socket's path, a socket file that outlives a killed    *)
(* daemon, a subscription, and the reading of its events.                  *)
(*                                                                         *)
(* A stop, a crash and a start may meet between any two system calls.      *)
(***************************************************************************)
EXTENDS Naturals, Sequences

CONSTANTS Daemons, Home, \* processes, and the state directory of each
          ClipHome, Chunks, \* the clip that is waited for: whose it is, its chunks
          MaxStarts      \* bound: starts of daemons

Homes == {Home[d] : d \in Daemons}
Nobody == "nobody"

ASSUME ServerAssumption ==
  Nobody \notin Daemons /\ ClipHome \in Homes /\ Chunks \in Nat /\ MaxStarts \in Nat

VARIABLES stage,      \* daemon -> where it is in start or stop
          bound,      \* daemon -> _owns_socket
          stateLease, \* home -> the daemon that has it, or Nobody
          pathLease,  \* the daemon that has the socket's lease, or Nobody
          file,       \* the daemon that bound the socket file there is, or Nobody
          starts,
          settled,    \* chunks of the clip that have ended
          clip,       \* its state: "live" until an end
          waiter,     \* the client: where it is in wait_for_terminal
          via,        \* the daemon it is connected to, or Nobody
          wire,       \* what was sent to its subscription and not yet read
          answer      \* what it returned
serverVars == <<stage, bound, stateLease, pathLease, file, starts, settled, clip,
                waiter, via, wire, answer>>

Ends == {"Played", "Cancelled"}
Stages == {"off", "owner", "locked", "clear", "serving", "closing", "unlinked", "released"}

ServerTypeOK ==
  /\ stage \in [Daemons -> Stages] /\ bound \in [Daemons -> BOOLEAN]
  /\ stateLease \in [Homes -> Daemons \cup {Nobody}]
  /\ {pathLease, file, via} \subseteq Daemons \cup {Nobody}
  /\ starts \in 0 .. MaxStarts /\ settled \in 0 .. Chunks
  /\ clip \in Ends \cup {"live"} /\ answer \in Ends \cup {"none", "unreachable", "late"}
  /\ waiter \in {"due", "connected", "subscribed", "asking", "told", "listening", "over"}

ServerInit ==
  /\ stage = [d \in Daemons |-> "off"] /\ bound = [d \in Daemons |-> FALSE]
  /\ stateLease = [h \in Homes |-> Nobody] /\ pathLease = Nobody /\ file = Nobody
  /\ starts = 0 /\ settled = 0 /\ clip = "live"
  /\ waiter = "due" /\ via = Nobody /\ wire = <<>> /\ answer = "none"

Client == <<settled, clip, waiter, wire, answer>>
Becomes(d, s) == stage' = [stage EXCEPT ![d] = s]
Listening(d) == d # Nobody /\ stage[d] = "serving"

-----------------------------------------------------------------------------
(* A daemon starts: its state's lease, the path's, the stale file, the bind *)

AcquireState(d) ==
  /\ stage[d] = "off" /\ starts < MaxStarts /\ starts' = starts + 1
  /\ IF stateLease[Home[d]] = Nobody
     THEN Becomes(d, "owner") /\ stateLease' = [stateLease EXCEPT ![Home[d]] = d]
     ELSE UNCHANGED <<stage, stateLease>>
  /\ UNCHANGED <<bound, pathLease, file, via>> /\ UNCHANGED Client

AcquirePath(d) ==
  /\ stage[d] = "owner" /\ pathLease = Nobody
  /\ pathLease' = d /\ Becomes(d, "locked")
  /\ UNCHANGED <<bound, stateLease, file, starts, via>> /\ UNCHANGED Client

\* Mutant: whoever stops removes the socket that is there.
RemovesAlways(d) == TRUE

\* Only the holder of the path's lease that has bound it removes it.
Removes(d) == pathLease = d /\ bound[d]

\* A start that is refused stops what it began.
RefusedPath(d) ==
  /\ stage[d] = "owner" /\ pathLease # Nobody /\ Becomes(d, "released")
  /\ file' = IF Removes(d) THEN Nobody ELSE file
  /\ UNCHANGED <<bound, stateLease, pathLease, starts, via>> /\ UNCHANGED Client

\* A socket nobody answers on is stale; one that is answered refuses the start.
RemoveStale(d) ==
  /\ stage[d] = "locked"
  /\ IF Listening(file) THEN Becomes(d, "closing") /\ UNCHANGED file
                        ELSE Becomes(d, "clear") /\ file' = Nobody
  /\ UNCHANGED <<bound, stateLease, pathLease, starts, via>> /\ UNCHANGED Client

Bind(d) ==
  /\ stage[d] = "clear" /\ Becomes(d, "serving")
  /\ file' = d /\ bound' = [bound EXCEPT ![d] = TRUE]
  /\ UNCHANGED <<stateLease, pathLease, starts, via>> /\ UNCHANGED Client

\* A stop closes the server and every connection, then the file, then the leases;
\* the state's last, when nothing runs any more.
StopServing(d) ==
  /\ stage[d] = "serving" /\ Becomes(d, "closing")
  /\ via' = IF via = d THEN Nobody ELSE via
  /\ UNCHANGED <<bound, stateLease, pathLease, file, starts>> /\ UNCHANGED Client

Unlink(d) ==
  /\ stage[d] = "closing" /\ Becomes(d, "unlinked")
  /\ file' = IF Removes(d) THEN Nobody ELSE file
  /\ bound' = [bound EXCEPT ![d] = FALSE]
  /\ UNCHANGED <<stateLease, pathLease, starts, via>> /\ UNCHANGED Client

ReleasePath(d) ==
  /\ stage[d] = "unlinked" /\ pathLease' = Nobody /\ Becomes(d, "released")
  /\ UNCHANGED <<bound, stateLease, file, starts, via>> /\ UNCHANGED Client

ReleaseState(d) ==
  /\ stage[d] = "released" /\ Becomes(d, "off")
  /\ stateLease' = [stateLease EXCEPT ![Home[d]] = Nobody]
  /\ UNCHANGED <<bound, pathLease, file, starts, via>> /\ UNCHANGED Client

\* The system frees a killed process's locks and connections, not its socket file.
Killed(d) ==
  /\ stage[d] # "off" /\ Becomes(d, "off") /\ bound' = [bound EXCEPT ![d] = FALSE]
  /\ stateLease' = [h \in Homes |-> IF stateLease[h] = d THEN Nobody ELSE stateLease[h]]
  /\ pathLease' = IF pathLease = d THEN Nobody ELSE pathLease
  /\ via' = IF via = d THEN Nobody ELSE via
  /\ UNCHANGED <<file, starts>> /\ UNCHANGED Client

-----------------------------------------------------------------------------
(* The clip.  A transition is broadcast to the subscribers there are.       *)

ItsDaemon == stateLease[ClipHome]

\* Mutant: the subscription begins when its events are first read.
SubscribedLate == via # Nobody /\ via = ItsDaemon /\ waiter = "listening"

Subscribed ==
  /\ via # Nobody /\ via = ItsDaemon
  /\ waiter \in {"subscribed", "asking", "told", "listening"}

Broadcast(what, to) ==
  wire' = IF Subscribed THEN Append(wire, [event |-> what, to |-> to]) ELSE wire
ServerOnly == UNCHANGED <<stage, bound, stateLease, pathLease, file, starts>>

SegmentEnds ==
  /\ ItsDaemon # Nobody /\ clip = "live" /\ settled < Chunks /\ settled' = settled + 1
  /\ Broadcast("segment_state_changed", "Played")
  /\ ServerOnly /\ UNCHANGED <<clip, waiter, via, answer>>

ClipEnds(to) ==
  /\ ItsDaemon # Nobody /\ clip = "live" /\ (to = "Played" => settled = Chunks)
  /\ clip' = to /\ Broadcast("state_changed", to)
  /\ ServerOnly /\ UNCHANGED <<settled, waiter, via, answer>>

-----------------------------------------------------------------------------
(* wait_for_terminal *)

ClientOnly == ServerOnly /\ UNCHANGED <<settled, clip>>
Answers(what) == answer' = what /\ waiter' = "over" /\ via' = Nobody /\ wire' = <<>>

Connect ==
  /\ waiter = "due"
  /\ IF Listening(file) THEN waiter' = "connected" /\ via' = file /\ UNCHANGED <<wire, answer>>
                        ELSE Answers("unreachable")
  /\ ClientOnly

\* The acknowledgement is the first line of the subscription.
Acknowledged ==
  /\ waiter' = "subscribed" /\ wire' = Append(wire, [event |-> "subscribed", to |-> "none"])
  /\ UNCHANGED <<via, answer>>

Subscribe == waiter = "connected" /\ via # Nobody /\ Acknowledged /\ ClientOnly

ReadAcknowledgement ==
  /\ waiter = "subscribed" /\ via # Nobody /\ wire # <<>>
  /\ Head(wire).event = "subscribed" /\ wire' = Tail(wire) /\ waiter' = "asking"
  /\ UNCHANGED <<via, answer>> /\ ClientOnly

\* The clip's state now, over a connection of its own; another daemon's error ends
\* the wait as well.
GetState ==
  /\ waiter = "asking"
  /\ IF ~Listening(file) \/ file # ItsDaemon THEN Answers("unreachable")
     ELSE IF clip \in Ends THEN Answers(clip)
     ELSE waiter' = "told" /\ UNCHANGED <<via, wire, answer>>
  /\ ClientOnly

Listen ==
  /\ waiter = "told" /\ waiter' = "listening" /\ UNCHANGED <<via, wire, answer>>
  /\ ClientOnly

\* An event of the clip, or of a chunk of it, which carries the clip's id.
ReadEvent ==
  /\ waiter = "listening" /\ wire # <<>>
  /\ IF Head(wire).to \in Ends THEN Answers(Head(wire).to)
     ELSE wire' = Tail(wire) /\ UNCHANGED <<waiter, via, answer>>
  /\ ClientOnly

\* The stream ends with its daemon, after what was sent before; a deadline at any time.
StreamEnds ==
  /\ waiter \in {"connected", "subscribed", "listening"} /\ via = Nobody
  /\ (waiter = "listening" => wire = <<>>)
  /\ Answers("unreachable") /\ ClientOnly

DeadlinePasses == waiter = "listening" /\ Answers("late") /\ ClientOnly

-----------------------------------------------------------------------------
WaitStep ==
  \/ Connect \/ Subscribe \/ ReadAcknowledgement \/ GetState \/ Listen \/ ReadEvent \/ StreamEnds

ServerNext ==
  \/ \E d \in Daemons :
       \/ AcquireState(d) \/ AcquirePath(d) \/ RefusedPath(d) \/ RemoveStale(d) \/ Bind(d)
       \/ StopServing(d) \/ Unlink(d) \/ ReleasePath(d) \/ ReleaseState(d) \/ Killed(d)
  \/ SegmentEnds \/ \E to \in Ends : ClipEnds(to)
  \/ WaitStep \/ DeadlinePasses

ServerSpec == ServerInit /\ [][ServerNext]_serverVars

-----------------------------------------------------------------------------
(* Properties *)

\* A daemon that serves is the one clients reach, and alone with its state: no
\* other's start, refusal, stop or death takes its socket away or shares its files.
ServerIsReachable ==
  \A d \in Daemons : stage[d] = "serving" => file = d /\ stateLease[Home[d]] = d

\* Whoever waits for a clip that has ended is answered, or told that nobody is there.
WaiterIsAnswered == waiter # "due" /\ clip \in Ends ~> waiter = "over"

\* What wait_for_terminal returns is the state the clip has reached.  No run checks
\* it: it fails for a clip with a chunk, whose end carries the clip's identity.
AnswerIsTheClips == answer \in Ends => answer = clip
=============================================================================
