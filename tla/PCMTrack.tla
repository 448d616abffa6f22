------------------------------ MODULE PCMTrack ------------------------------
(***************************************************************************)
(* What SpoolingPCMStream promises its one reader, with no ring, no spool  *)
(* and no feeder: a clip that grows while it is being listened to, a       *)
(* cursor that only a read or a seek moves, and reads that return the      *)
(* clip's own frames from the cursor on, in order, none skipped and none   *)
(* twice. A read may return less than was asked for and less than exists;  *)
(* it says that the clip has ended only when the clip has been closed and  *)
(* the cursor has passed its last frame.                                   *)
(***************************************************************************)
EXTENDS Integers

VARIABLES length,       \* frames of the clip so far
          over,         \* the clip's owner has declared it finished
          cursor,       \* the next frame to read
          got           \* the last answer given to the reader

track == <<length, over, cursor, got>>

Nothing == [from |-> 0, pcm |-> << >>, ended |-> FALSE]

Init ==
    /\ length \in Nat
    /\ over \in BOOLEAN
    /\ cursor = 0
    /\ got = Nothing

Grow ==
    /\ length' \in Nat
    /\ length' >= length
    /\ UNCHANGED <<over, cursor, got>>

Over ==
    /\ over' = TRUE
    /\ UNCHANGED <<length, cursor, got>>

Read ==
    /\ cursor' \in Nat
    /\ cursor' >= cursor
    /\ cursor' = cursor \/ cursor' <= length
    /\ got' = [from  |-> cursor,
               pcm   |-> [i \in 1 .. cursor' - cursor |-> cursor + i - 1],
               ended |-> over /\ cursor' >= length]
    /\ UNCHANGED <<length, over>>

Seek ==
    /\ cursor' \in Nat
    /\ UNCHANGED <<length, over, got>>

Next == Grow \/ Over \/ Read \/ Seek

Spec == Init /\ [][Next]_track
=============================================================================
