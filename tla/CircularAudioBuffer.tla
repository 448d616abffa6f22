------------------------ MODULE CircularAudioBuffer ------------------------
(***************************************************************************)
(* The bounded ring between the feeder and the audio callback              *)
(* (streaming.py:53-95), as the operators its methods compute. A ring is a *)
(* record of its storage cells, the cell of its first frame and the number *)
(* of frames held. A PCM frame stands for its index in the clip, so a      *)
(* frame that lands in the wrong cell is told from the right one.          *)
(***************************************************************************)
EXTENDS Integers, Sequences

CONSTANT Capacity                       \* frames the ring can hold

ASSUME CapacityIsPositive == Capacity \in Nat \ {0}

Cells == 0 .. Capacity - 1

Rings == [data : [Cells -> Nat], head : Cells, frames : 0 .. Capacity]

Lesser(a, b) == IF a <= b THEN a ELSE b

\* The clip's frames from index `from` on, `n` of them.
Slice(from, n) == [i \in 1 .. n |-> from + i - 1]

\* The cell of the i-th frame from the head (i <= Capacity).
Cell(ring, i) == (ring.head + i) % Capacity

EmptyRing == [data |-> [k \in Cells |-> 0], head |-> 0, frames |-> 0]

\* Mutant: more is accepted than there is room for.
FitsAll(ring, n) == n

\* How many of n offered frames fit.
Fits(ring, n) == Lesser(n, Capacity - ring.frames)

\* write: two runs of cells, up to the end of the storage and from its start.
Write(ring, pcm) ==
    LET count == Fits(ring, Len(pcm))
        tail  == Cell(ring, ring.frames)
        first == Lesser(count, Capacity - tail)
    IN [data   |-> [k \in Cells |->
                      IF tail <= k /\ k < tail + first THEN pcm[k - tail + 1]
                      ELSE IF k < count - first THEN pcm[first + k + 1]
                      ELSE ring.data[k]],
        head   |-> ring.head,
        frames |-> ring.frames + count]

\* read: the frames it returns, gathered from the same two runs ...
Taken(ring, n) ==
    LET count == Lesser(n, ring.frames)
        first == Lesser(count, Capacity - ring.head)
    IN [i \in 1 .. count |-> IF i <= first THEN ring.data[ring.head + i - 1]
                                           ELSE ring.data[i - first - 1]]

\* ... and the ring it leaves.
After(ring, n) ==
    LET count == Lesser(n, ring.frames)
    IN [ring EXCEPT !.head = (@ + count) % Capacity, !.frames = @ - count]

\* clear: the old frames stay in their cells, no longer counted.
Cleared(ring) == [data |-> ring.data, head |-> 0, frames |-> 0]

\* What a reader of the whole ring would get, frame by frame.
Holds(ring, from) ==
    \A i \in Cells : i < ring.frames => ring.data[Cell(ring, i)] = from + i
=============================================================================
