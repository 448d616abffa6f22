---------------------------- MODULE InputInterrupt ----------------------------
(***************************************************************************)
(* The listener's microphone takes the floor: a probe thread reads it, the *)
(* detector reduces the readings to cold-to-hot edges, an edge holds       *)
(* playback and may arm the resume that silence then carries out, against  *)
(* the listener's own pauses, resumes and settings.                        *)
(*                                                                         *)
(* Of playback there is only the hold, and the closing cue, whose device   *)
(* a hold waits for.                                                       *)
(***************************************************************************)
EXTENDS Naturals

CONSTANTS Confirmations, \* hot readings that make a capture
          MaxRelaunches    \* bound

ASSUME InputAssumption == Confirmations \in Nat \ {0} /\ MaxRelaunches \in Nat

VARIABLES mic,      \* whether some process captures, or "unreadable"
          hot,      \* the detector's confirmed reading: "unknown", "no", "yes"
          streak,   \* its consecutive hot readings
          readable, \* whether it could read at the last poll
          poll,     \* the watcher: "idle", "asked", "read", "holding"
          seen,     \* the reading on its way to the loop
          held,     \* the hold, and its durable copy
          cue,      \* whether the closing cue has the device
          notice,   \* interrupted_at, with the durable reason of the hold
          armed,    \* resume_when_input_idle_armed
          interrupting, whenIdle, \* the listener's two settings
          relaunches,
          heat      \* hot readings since the last cold one of this process, for
                    \* the properties; Confirmations + 1 is more, or none was cold
inputVars == <<mic, hot, streak, readable, poll, seen, held, cue, notice, armed,
               interrupting, whenIdle, relaunches, heat>>

Readings == {"hot", "cold", "unreadable"}

InputTypeOK ==
  /\ mic \in Readings /\ seen \in Readings
  /\ hot \in {"unknown", "no", "yes"} /\ streak \in 0 .. Confirmations
  /\ poll \in {"idle", "asked", "read", "holding"}
  /\ {readable, held, cue, notice, armed, interrupting, whenIdle} \subseteq BOOLEAN
  /\ heat \in 0 .. Confirmations + 1 /\ relaunches \in 0 .. MaxRelaunches

InputInit ==
  /\ mic \in Readings /\ seen = "unreadable"
  /\ hot = "unknown" /\ streak = 0 /\ readable = FALSE /\ poll = "idle"
  /\ held = FALSE /\ cue = FALSE /\ notice = FALSE /\ armed = FALSE
  /\ interrupting \in BOOLEAN /\ whenIdle \in BOOLEAN
  /\ relaunches = 0 /\ heat = Confirmations + 1

Detector == <<hot, streak, readable, heat>>
Hold == <<held, notice, armed>>
Settings == <<interrupting, whenIdle, relaunches>>

-----------------------------------------------------------------------------
(* The watcher *)

\* A poll begins with no reading; a probe that never answers leaves it at that.
Asks ==
  /\ poll = "idle" /\ poll' = "asked" /\ readable' = FALSE
  /\ UNCHANGED <<mic, hot, streak, seen, cue, heat>> /\ UNCHANGED <<Hold, Settings>>

\* The probe thread reads; a failure of the query is no reading.
Reads ==
  /\ poll = "asked" /\ poll' = "read" /\ seen' = mic
  /\ UNCHANGED <<mic, cue>> /\ UNCHANGED <<Detector, Hold, Settings>>

\* What a reading makes of the detector.  The hot readings of one capture count up
\* to the confirmations, and no reading leaves all as it is.
Observe ==
  /\ readable' = (seen # "unreadable")
  /\ streak' = CASE seen = "hot" -> IF streak < Confirmations THEN streak + 1 ELSE streak
                 [] seen = "cold" -> 0
                 [] OTHER -> streak
  /\ hot' = CASE seen = "hot" /\ streak' = Confirmations -> "yes"
              [] seen = "cold" -> "no"
              [] OTHER -> hot
  /\ heat' = CASE seen = "hot" -> IF heat > Confirmations THEN heat ELSE heat + 1
               [] seen = "cold" -> 0
               [] OTHER -> heat

\* Mutant: every confirmed reading counts, the level in place of the edge.
Level == seen = "hot" /\ streak' = Confirmations

\* The floor changes hands when a capture is confirmed that was not going on.
Edge == seen = "hot" /\ streak' = Confirmations /\ hot = "no"

\* interrupted_at, the reason, and a resume if the listener's setting is one.
Lands == notice' = TRUE /\ armed' = (armed \/ whenIdle)

\* The hold is taken at once; a closing cue is waited for before it is explained.
Interrupts ==
  /\ poll = "read" /\ Observe /\ Edge /\ interrupting /\ ~held
  /\ held' = TRUE
  /\ IF cue THEN poll' = "holding" /\ UNCHANGED <<notice, armed>> ELSE poll' = "idle" /\ Lands
  /\ UNCHANGED <<mic, seen, cue>> /\ UNCHANGED Settings

InterruptLands ==
  /\ poll = "holding" /\ ~cue /\ poll' = "idle" /\ Lands
  /\ UNCHANGED <<mic, seen, cue, held>> /\ UNCHANGED <<Detector, Settings>>

\* Mutant: a release that was armed waits for the feature to be on.
ReleasesGated == seen = "cold" /\ armed /\ interrupting

\* Whatever the feature's switch says now.
Releases == seen = "cold" /\ armed

AutoResume ==
  /\ poll = "read" /\ Observe /\ Releases
  /\ poll' = "idle" /\ held' = FALSE /\ notice' = FALSE /\ armed' = FALSE
  /\ UNCHANGED <<mic, seen, cue>> /\ UNCHANGED Settings

\* A reading on which nothing is done.
Passes ==
  /\ poll = "read" /\ Observe
  /\ ~(Edge /\ interrupting /\ ~held) /\ ~Releases
  /\ poll' = "idle"
  /\ UNCHANGED <<mic, seen, cue>> /\ UNCHANGED <<Hold, Settings>>

-----------------------------------------------------------------------------
(* The listener *)

HoldOnly == UNCHANGED <<mic, poll, seen, cue>> /\ UNCHANGED <<Detector, Settings>>

PauseByHand ==
  /\ held' = TRUE /\ notice' = FALSE /\ armed' = FALSE /\ HoldOnly

ResumeByHand ==
  /\ held' = FALSE /\ notice' = FALSE /\ armed' = FALSE /\ HoldOnly

ArmByHand ==
  /\ held /\ armed' = TRUE /\ UNCHANGED <<held, notice>> /\ HoldOnly

SetInterrupt ==
  /\ interrupting' \in BOOLEAN /\ whenIdle' \in BOOLEAN
  /\ UNCHANGED <<mic, poll, seen, cue, relaunches>> /\ UNCHANGED <<Detector, Hold>>

MicChanges ==
  /\ mic' \in Readings
  /\ UNCHANGED <<poll, seen, cue>> /\ UNCHANGED <<Detector, Hold, Settings>>

\* The closing cue begins when nothing is held, and ends.
CueChanges ==
  /\ (cue \/ ~held) /\ cue' = ~cue
  /\ UNCHANGED <<mic, poll, seen>> /\ UNCHANGED <<Detector, Hold, Settings>>

\* The hold and its reason are durable, and any speech left holds; the readings
\* and the armed resume are not.
RestartInput ==
  /\ relaunches < MaxRelaunches /\ relaunches' = relaunches + 1
  /\ held' \in {TRUE, held} /\ armed' = FALSE /\ notice' = (notice /\ held')
  /\ hot' = "unknown" /\ streak' = 0 /\ readable' = FALSE /\ heat' = Confirmations + 1
  /\ poll' = "idle" /\ seen' = "unreadable" /\ cue' = FALSE
  /\ UNCHANGED <<mic, interrupting, whenIdle>>

Watcher == Asks \/ Reads \/ Interrupts \/ InterruptLands \/ AutoResume \/ Passes

InputNext ==
  \/ Watcher
  \/ PauseByHand \/ ResumeByHand \/ ArmByHand \/ SetInterrupt
  \/ MicChanges \/ CueChanges \/ RestartInput

InputSpec == InputInit /\ [][InputNext]_inputVars

-----------------------------------------------------------------------------
(* Properties *)

\* The microphone holds playback once in a capture, at the reading that confirms
\* it, after a reading without one: never again for the same capture however often
\* the listener resumes, and never for one that was going on when the daemon started.
InterruptsAreEdges ==
  [][~held /\ held' /\ seen = "hot" /\ poll # poll' /\ relaunches' = relaunches
     => heat' = Confirmations]_inputVars

\* A release the listener armed comes once the microphone is quiet for good,
\* whatever they have made of the feature's settings since.
ArmedHoldsEnd == <>[](mic = "cold") => []<>~armed
=============================================================================
