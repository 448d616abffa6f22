------------------------------ MODULE Lifecycle ------------------------------
(***************************************************************************)
(* The lifecycle every utterance, and every chunk of a composite           *)
(* utterance, moves through: the states, the terminal ones, and the table  *)
(* of named transitions that Store.transition and                          *)
(* Store.transition_segment consult before every move.                     *)
(***************************************************************************)

State == {"Submitted", "Queued", "Synthesizing", "Ready", "Playing",
          "Paused", "Played", "Skipped", "Cancelled", "Failed"}

Terminal == {"Played", "Skipped", "Cancelled", "Failed"}

Transitions ==
  [s \in State |->
     CASE s = "Submitted"    -> {"Queued"}
       [] s = "Queued"       -> {"Synthesizing", "Cancelled"}
       [] s = "Synthesizing" -> {"Ready", "Failed", "Cancelled", "Queued"}
       [] s = "Ready"        -> {"Playing", "Cancelled", "Failed"}
       [] s = "Playing"      -> {"Played", "Paused", "Skipped", "Failed"}
       [] s = "Paused"       -> {"Playing", "Played", "Skipped", "Failed"}
       [] OTHER              -> {}]

CanTransition(src, dst) == dst \in Transitions[src]

(* The queue sides the store lists: what is still owed audio, what can     *)
(* sound, and what will be said after the current utterance.               *)
InputStates    == {"Submitted", "Queued", "Synthesizing"}
PlaybackStates == {"Ready", "Playing", "Paused"}
PendingStates  == {"Queued", "Synthesizing", "Ready"}

Live == State \ Terminal

(* A row that was never submitted.                                         *)
Absent == "Absent"
=============================================================================
