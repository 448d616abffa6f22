----------------------------- MODULE FilePlayback -----------------------------
(***************************************************************************)
(* The sink's thread when it plays a file block by block: passes that own  *)
(* one device each, left for a pause, a stop or another default output,    *)
(* against the flags the event loop sets between any two of its steps.     *)
(*                                                                         *)
(* Positions are counted in units of the clip, several to a frame, so that *)
(* a rate is the units one output frame takes.  Gains are left out: there  *)
(* is only whether what was written last was loud.  A clip that the        *)
(* prepared output can take is not played here.                            *)
(***************************************************************************)
EXTENDS Integers

CONSTANTS ClipUnits, BlockFrames, Rates, \* the clip, a block, and units per output frame
          CueBlocks,        \* blocks of a cue
          Saved,            \* where a start may find the clip
          Outputs,          \* identities of the default output
          DeviceChangeConfirmations,
          MaxPlays          \* bound: sessions

ASSUME FileAssumption ==
  /\ {ClipUnits, BlockFrames} \cup Rates \subseteq Nat \ {0} /\ Rates # {}
  /\ {CueBlocks, DeviceChangeConfirmations, MaxPlays} \subseteq Nat
  /\ Saved \subseteq 0 .. ClipUnits

VARIABLES pass,     \* where the thread is
          stopFlag, pauseFlag,
          position, \* source_frame
          prefix,   \* blocks of the cue that is queued or being played
          openedOn, \* the output this pass was opened on, or Unreadable
          pending, confirmations, \* the move that has to hold still
          wrote,    \* wrote_audio
          left,     \* why the blocks ended: "no" reason, "moved" or "paused"
          loud,     \* whether the stream would be cut in what it plays
          sounded,    \* the unit after the last one that was written
          natural, broken, \* how the session ended
          plays
fileVars == <<pass, stopFlag, pauseFlag, position, prefix, openedOn, pending, confirmations,
              wrote, left, loud, sounded, natural, broken, plays>>

Unreadable == "unreadable"
Nowhere == "nowhere"
Identities == Outputs \cup {Unreadable}

FileTypeOK ==
  /\ pass \in {"off", "between", "cue", "blocks", "leaving", "closing", "ended"}
  /\ {stopFlag, pauseFlag, wrote, loud, natural, broken} \subseteq BOOLEAN
  /\ {position, sounded} \subseteq 0 .. ClipUnits /\ prefix \in 0 .. CueBlocks
  /\ openedOn \in Identities /\ pending \in Outputs \cup {Nowhere}
  /\ confirmations \in 0 .. DeviceChangeConfirmations
  /\ left \in {"no", "moved", "paused"} /\ plays \in 0 .. MaxPlays

FileInit ==
  /\ pass = "off" /\ stopFlag = FALSE /\ pauseFlag = FALSE /\ position = 0 /\ prefix = 0
  /\ openedOn = Unreadable /\ pending = Nowhere /\ confirmations = 0
  /\ wrote = FALSE /\ left = "no" /\ loud = FALSE /\ sounded = 0
  /\ natural = FALSE /\ broken = FALSE /\ plays = 0

Flags == <<stopFlag, pauseFlag>>
Device == <<openedOn, pending, confirmations>>
Outcome == <<natural, broken, plays>>

\* A session begins; a cue may be queued for it.
Launch(from, cue) ==
  /\ pass \in {"off", "ended"} /\ plays < MaxPlays /\ plays' = plays + 1
  /\ pass' = "between" /\ stopFlag' = FALSE /\ pauseFlag' = FALSE
  /\ position' = from /\ sounded' = from
  /\ prefix' = (IF cue THEN CueBlocks ELSE prefix)
  /\ natural' = FALSE /\ broken' = FALSE /\ loud' = FALSE
  /\ UNCHANGED <<Device, wrote, left>>

-----------------------------------------------------------------------------
(* Passes *)

\* While held there is no stream.
OpenStream(identity) ==
  /\ pass = "between" /\ ~stopFlag /\ position < ClipUnits /\ ~pauseFlag
  /\ pass' = "cue" /\ openedOn' = identity /\ wrote' = FALSE /\ left' = "no"
  /\ UNCHANGED <<Flags, position, prefix, pending, confirmations, loud, sounded, Outcome>>

SessionOver ==
  /\ pass = "between" /\ (stopFlag \/ position >= ClipUnits)
  /\ pass' = "ended" /\ natural' = (~stopFlag /\ position >= ClipUnits)
  /\ UNCHANGED <<Flags, position, prefix, Device, wrote, left, loud, sounded, broken, plays>>

\* One block of the cue.  An interrupted cue fades, and its rest is not played.
PlayPrefix ==
  /\ pass = "cue" /\ prefix > 0
  /\ IF stopFlag \/ pauseFlag THEN prefix' = 0 /\ loud' = FALSE
                              ELSE prefix' = prefix - 1 /\ loud' = (prefix' > 0)
  /\ UNCHANGED <<pass, Flags, position, Device, wrote, left, sounded, Outcome>>

PrefixPlayed ==
  /\ pass = "cue" /\ prefix = 0 /\ pass' = "blocks"
  /\ UNCHANGED <<Flags, position, prefix, Device, wrote, left, loud, sounded, Outcome>>

-----------------------------------------------------------------------------
(* Following the default output *)

\* What a reading makes of the move under way.
Counted(identity) == IF identity = pending THEN confirmations + 1 ELSE 1

\* No reading is no move, and a baseline that could not be read is adopted.
MovedFrom(identity) ==
  /\ identity # Unreadable /\ openedOn # Unreadable /\ identity # openedOn
  /\ Counted(identity) >= DeviceChangeConfirmations

Observes(identity) ==
  /\ openedOn' = IF openedOn = Unreadable THEN identity ELSE openedOn
  /\ IF identity # Unreadable /\ openedOn = Unreadable THEN UNCHANGED <<pending, confirmations>>
     ELSE IF identity \in {Unreadable, openedOn} \/ MovedFrom(identity)
     THEN pending' = Nowhere /\ confirmations' = 0
     ELSE pending' = identity /\ confirmations' = Counted(identity)

-----------------------------------------------------------------------------
(* Blocks *)

Least(a, b) == IF a < b THEN a ELSE b

\* The frames of a block: no more than the rest of the clip has at this rate.
OutputFrames(rate) == Least(BlockFrames, (ClipUnits - position + rate - 1) \div rate)

\* One round of the loop: the output, then the hold, are looked at before a block
\* is written.
WriteBlock(identity, rate) ==
  /\ pass = "blocks" /\ ~stopFlag /\ position < ClipUnits
  /\ Observes(identity)
  /\ IF MovedFrom(identity) \/ pauseFlag
     THEN /\ left' = (IF MovedFrom(identity) THEN "moved" ELSE "paused") /\ pass' = "leaving"
          /\ UNCHANGED <<position, sounded, wrote, loud>>
     ELSE LET units == Least(OutputFrames(rate) * rate, ClipUnits - position) IN
          /\ position' = position + units /\ sounded' = sounded + units
          /\ wrote' = TRUE /\ loud' = (position' < ClipUnits)
          /\ UNCHANGED <<left, pass>>
  /\ UNCHANGED <<Flags, prefix, Outcome>>

BlocksOver ==
  /\ pass = "blocks" /\ (stopFlag \/ position >= ClipUnits) /\ pass' = "leaving"
  /\ UNCHANGED <<Flags, position, prefix, Device, wrote, left, loud, sounded, Outcome>>

\* Mutant: the hold is looked at again when the close is chosen.
InterruptedNow == left = "moved" \/ pauseFlag \/ stopFlag

\* Latched where the loop was left: a resume may have cleared the flag since.
Interrupted == left # "no" \/ stopFlag

\* The fade reads ahead of the playhead and leaves it where it is.
SoftClose ==
  /\ pass = "leaving" /\ pass' = "closing"
  /\ loud' = (loud /\ ~(Interrupted /\ wrote))
  /\ UNCHANGED <<Flags, position, prefix, Device, wrote, left, sounded, Outcome>>

CloseStream ==
  /\ pass = "closing" /\ pass' = "between"
  /\ UNCHANGED <<Flags, position, prefix, Device, wrote, left, loud, sounded, Outcome>>

\* Any failure of the device or the file ends the clip; a cue that has begun is lost.
SessionFails ==
  /\ pass \notin {"off", "ended"} /\ pass' = "ended" /\ broken' = TRUE /\ natural' = FALSE
  /\ prefix' = (IF pass = "cue" THEN 0 ELSE prefix)
  /\ UNCHANGED <<Flags, position, Device, wrote, left, loud, sounded, plays>>

-----------------------------------------------------------------------------
(* The event loop *)

SetFlags ==
  /\ pass \notin {"off", "ended"}
  /\ \/ pauseFlag' = ~pauseFlag /\ UNCHANGED stopFlag
     \/ stopFlag' = TRUE /\ UNCHANGED pauseFlag
  /\ UNCHANGED <<pass, position, prefix, Device, wrote, left, loud, sounded, Outcome>>

PlayFile ==
  \/ \E identity \in Identities :
       OpenStream(identity) \/ \E rate \in Rates : WriteBlock(identity, rate)
  \/ SessionOver \/ PlayPrefix \/ PrefixPlayed \/ BlocksOver \/ SoftClose \/ CloseStream

FileNext ==
  \/ \E from \in Saved, cue \in BOOLEAN : Launch(from, cue)
  \/ PlayFile \/ SessionFails \/ SetFlags

FileSpec == FileInit /\ [][FileNext]_fileVars

-----------------------------------------------------------------------------
(* Properties *)

\* Over holds, moves to another output, cues and changes of rate the clip is heard
\* from where it was started, without a gap or a repetition; it ends naturally only
\* when all of it was heard; and no stream is closed in the middle of speech or of a
\* cue, whatever the listener does while it closes.
FilePlaysOn ==
  /\ pass # "off" => sounded = position
  /\ natural => sounded = ClipUnits /\ ~broken
  /\ pass \in {"between", "ended"} /\ ~broken => ~loud

\* A clip that is not held for good ends, however its output's identity wavers.
FileSessionsEnd ==
  <>[]~pauseFlag => (pass \notin {"off", "ended"} ~> pass = "ended")
=============================================================================
