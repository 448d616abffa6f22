---------------------- MODULE SpoolingPCMStreamProofs ----------------------
(***************************************************************************)
(* For every capacity, clip length, chunk, seek and interleaving of the     *)
(* producer, the feeder, the reader and the owners: the ring is a window    *)
(* onto the clip (Window), and therefore what the reader is given is what   *)
(* PCMTrack promises (ImplementsTrack).                                     *)
(*                                                                          *)
(* The window is inductive with the types alone: the ring's frames end      *)
(* where the feeder has got to, and a disk read in flight carries frames    *)
(* of the clip from the place it was captured at. A seek moves fed and      *)
(* epoch together, so a commit that finds them as captured continues the    *)
(* window, and one that does not changes nothing.                           *)
(***************************************************************************)
EXTENDS SpoolingPCMStream, TLAPS

(***************************************************************************)
(* What the ring's methods do to the frames it holds, for every capacity:  *)
(* a write appends the frames that fit after those held, a read takes the  *)
(* first ones, and neither disturbs the rest, wherever the head is.        *)
(***************************************************************************)

LEMMA Wrap ==
    ASSUME NEW a \in Nat, a < 2 * Capacity
    PROVE  /\ a % Capacity = IF a < Capacity THEN a ELSE a - Capacity
           /\ a % Capacity \in Cells
  BY CapacityIsPositive, SMTT(30) DEF Cells

LEMMA SliceFacts ==
    ASSUME NEW from \in Nat, NEW n \in Nat
    PROVE  /\ Slice(from, n) \in Seq(Nat)
           /\ Len(Slice(from, n)) = n
           /\ \A i \in 1 .. n : Slice(from, n)[i] = from + i - 1
  <1>1. Slice(from, n) \in [1 .. n -> Nat]
    BY DEF Slice
  <1> QED
    BY <1>1 DEF Slice

LEMMA CellFacts ==
    ASSUME NEW buf \in Rings, NEW i \in 0 .. Capacity
    PROVE  /\ Cell(buf, i) \in Cells
           /\ Cell(buf, i) = IF buf.head + i < Capacity
                                THEN buf.head + i
                                ELSE buf.head + i - Capacity
  <1>1. buf.head \in Nat /\ buf.head < Capacity
    BY CapacityIsPositive DEF Rings, Cells
  <1>2. buf.head + i \in Nat /\ buf.head + i < 2 * Capacity
    BY <1>1, CapacityIsPositive
  <1>3. PICK a \in Nat : a = buf.head + i
    BY <1>2
  <1>4. /\ a % Capacity = IF a < Capacity THEN a ELSE a - Capacity
        /\ a % Capacity \in Cells
    BY <1>2, <1>3, Wrap
  <1>5. Cell(buf, i) = a % Capacity
    BY <1>3 DEF Cell
  <1>6. Cell(buf, i) \in Cells
    BY <1>4, <1>5, Zenon
  <1>7. Cell(buf, i) = IF a < Capacity THEN a ELSE a - Capacity
    BY <1>4, <1>5, Zenon
  <1> QED
    BY <1>1, <1>3, <1>6, <1>7, CapacityIsPositive

(***************************************************************************)
(* write puts as many frames as fit right behind those held.               *)
(***************************************************************************)
LEMMA WriteAppends ==
    ASSUME NEW buf \in Rings, NEW from \in Nat, NEW n \in Nat,
           Holds(buf, from)
    PROVE  LET pcm == Slice(from + buf.frames, n)
               new == Write(buf, pcm)
           IN /\ new \in Rings
              /\ Fits(buf, n) \in 0 .. n
              /\ new.frames = buf.frames + Fits(buf, n)
              /\ Holds(new, from)
  <1> DEFINE pcm   == Slice(from + buf.frames, n)
             count == Fits(buf, n)
             tail  == Cell(buf, buf.frames)
             first == Lesser(count, Capacity - tail)
             new   == Write(buf, pcm)
  <1>1. /\ buf.frames \in 0 .. Capacity /\ buf.head \in Cells
        /\ buf.data \in [Cells -> Nat]
        /\ Capacity \in Nat \ {0}
    BY CapacityIsPositive DEF Rings
  <1>2. /\ Len(pcm) = n
        /\ \A i \in 1 .. n : pcm[i] = from + buf.frames + i - 1
    <2>1. from + buf.frames \in Nat
      BY <1>1
    <2> QED
      BY <2>1, SliceFacts
  <1>3. count \in 0 .. n /\ count <= Capacity - buf.frames
    BY <1>1 DEF Fits, Lesser
  <1>4. /\ tail \in Cells
        /\ tail = IF buf.head + buf.frames < Capacity
                    THEN buf.head + buf.frames
                    ELSE buf.head + buf.frames - Capacity
    BY <1>1, CellFacts
  <1>5. first \in 0 .. count /\ first <= Capacity - tail
        /\ (first = count \/ first = Capacity - tail)
    <2>1. /\ count \in Int /\ 0 <= count
          /\ tail \in Int /\ 0 <= tail /\ tail < Capacity /\ Capacity \in Int
      BY <1>1, <1>3, <1>4 DEF Cells
    <2> HIDE DEF count, tail
    <2> QED
      BY <2>1 DEF Lesser
  <1>6. new = [data   |-> [k \in Cells |->
                      IF tail <= k /\ k < tail + first THEN pcm[k - tail + 1]
                      ELSE IF k < count - first THEN pcm[first + k + 1]
                      ELSE buf.data[k]],
               head   |-> buf.head,
               frames |-> buf.frames + count]
    BY <1>2 DEF Write
  <1>a. /\ buf.frames \in Int /\ 0 <= buf.frames /\ buf.frames <= Capacity
        /\ buf.head \in Int /\ 0 <= buf.head /\ buf.head < Capacity
        /\ Capacity \in Int
        /\ count \in Int /\ 0 <= count /\ count <= n
        /\ count <= Capacity - buf.frames
        /\ tail \in Int /\ 0 <= tail /\ tail < Capacity
        /\ first \in Int /\ 0 <= first /\ first <= count
    BY <1>1, <1>3, <1>4, <1>5, SMTT(40) DEF Cells
  <1> HIDE DEF pcm, count, tail, first, new
  <1>7. \A k \in Cells : new.data[k] \in Nat
    <2> SUFFICES ASSUME NEW k \in Cells PROVE new.data[k] \in Nat
      OBVIOUS
    <2>1. CASE tail <= k /\ k < tail + first
      <3>1. k - tail + 1 \in 1 .. n
        BY <2>1, <1>a DEF Cells
      <3> QED
        BY <2>1, <3>1, <1>1, <1>2, <1>6, SMTT(30)
    <2>2. CASE ~(tail <= k /\ k < tail + first) /\ k < count - first
      <3>1. first + k + 1 \in 1 .. n
        BY <2>2, <1>a DEF Cells
      <3> QED
        BY <2>2, <3>1, <1>1, <1>2, <1>6, SMTT(30)
    <2>3. CASE ~(tail <= k /\ k < tail + first) /\ ~(k < count - first)
      BY <2>3, <1>1, <1>6
    <2> QED
      BY <2>1, <2>2, <2>3
  <1>8. new \in Rings
    <2>1. new.data \in [Cells -> Nat]
      BY <1>6, <1>7
    <2> QED
      BY <2>1, <1>1, <1>3, <1>6 DEF Rings
  <1>9. Holds(new, from)
    <2> SUFFICES ASSUME NEW i \in Cells, i < buf.frames + count
                 PROVE  new.data[Cell(new, i)] = from + i
      BY <1>6 DEF Holds
    <2> DEFINE k == Cell(buf, i)
    <2>1. /\ k \in Cells
          /\ k = IF buf.head + i < Capacity THEN buf.head + i
                                             ELSE buf.head + i - Capacity
          /\ Cell(new, i) = k
      <3>1. i \in 0 .. Capacity
        BY <1>1 DEF Cells
      <3>2. Cell(new, i) = Cell(buf, i)
        BY <1>6 DEF Cell
      <3> QED
        BY <3>1, <3>2, CellFacts
    <2> HIDE DEF k
    <2>a. i \in Int /\ 0 <= i /\ i < Capacity /\ k \in Int
          /\ 0 <= k /\ k < Capacity
      BY <2>1, <1>1 DEF Cells
    <2>2. CASE i < buf.frames
      <3>1. buf.data[k] = from + i
        BY <2>2 DEF Holds, k
      <3>2. ~(tail <= k /\ k < tail + first) /\ ~(k < count - first)
        <4>1. CASE first = count
          BY <4>1, <2>1, <2>a, <2>2, <1>a, <1>4, SMTT(30)
        <4>2. CASE first = Capacity - tail
          BY <4>2, <2>1, <2>a, <2>2, <1>a, <1>4, SMTT(30)
        <4> QED
          BY <4>1, <4>2, <1>5
      <3> QED
        BY <3>1, <3>2, <2>1, <1>6
    <2>3. CASE i >= buf.frames
      <3>1. \/ tail <= k /\ k < tail + first /\ k - tail + 1 = i - buf.frames + 1
            \/ /\ ~(tail <= k /\ k < tail + first)
               /\ k < count - first
               /\ first + k + 1 = i - buf.frames + 1
        BY <2>1, <2>a, <2>3, <1>a, <1>4, <1>5
      <3>2. i - buf.frames + 1 \in 1 .. n
        BY <2>3, <2>a, <1>a
      <3>3. new.data[k] = pcm[i - buf.frames + 1]
        BY <3>1, <2>1, <1>6
      <3> QED
        BY <3>2, <3>3, <2>1, <2>a, <1>a, <1>2, SMTT(60)
    <2> QED
      BY <2>2, <2>3, <2>a, <1>a
  <1> QED
    BY <1>3, <1>6, <1>8, <1>9 DEF pcm, count, new

(***************************************************************************)
(* read returns the first frames held, in order, and leaves the others.    *)
(***************************************************************************)
LEMMA ReadTakes ==
    ASSUME NEW buf \in Rings, NEW from \in Nat, NEW n \in Nat,
           Holds(buf, from)
    PROVE  LET count == Lesser(n, buf.frames)
           IN /\ count \in 0 .. buf.frames
              /\ Taken(buf, n) = Slice(from, count)
              /\ After(buf, n) \in Rings
              /\ After(buf, n).frames = buf.frames - count
              /\ Holds(After(buf, n), from + count)
  <1> DEFINE count == Lesser(n, buf.frames)
             first == Lesser(count, Capacity - buf.head)
             new   == After(buf, n)
  <1>1. /\ buf.frames \in 0 .. Capacity /\ buf.head \in Cells
        /\ buf.data \in [Cells -> Nat]
        /\ Capacity \in Nat \ {0}
    BY CapacityIsPositive DEF Rings
  <1>2. count \in 0 .. buf.frames
    BY <1>1 DEF Lesser
  <1>3. first \in 0 .. count /\ first <= Capacity - buf.head
        /\ (first = count \/ first = Capacity - buf.head)
    BY <1>1, <1>2 DEF Lesser, Cells
  <1>a. /\ buf.frames \in Int /\ 0 <= buf.frames /\ buf.frames <= Capacity
        /\ buf.head \in Int /\ 0 <= buf.head /\ buf.head < Capacity
        /\ Capacity \in Int
        /\ count \in Int /\ 0 <= count /\ count <= buf.frames
        /\ first \in Int /\ 0 <= first /\ first <= count
    BY <1>1, <1>2, <1>3 DEF Cells
  <1>4. Taken(buf, n) = Slice(from, count)
    <2> SUFFICES ASSUME NEW i \in 1 .. count
                 PROVE  (IF i <= first THEN buf.data[buf.head + i - 1]
                                       ELSE buf.data[i - first - 1])
                        = from + i - 1
      BY DEF Taken, Slice
    <2>a. i \in Int /\ 1 <= i /\ i <= count
      BY <1>a
    <2> HIDE DEF count, first
    <2>1. i - 1 \in Cells /\ i - 1 < buf.frames /\ i - 1 \in 0 .. Capacity
      BY <2>a, <1>a DEF Cells
    <2>2. buf.data[Cell(buf, i - 1)] = from + (i - 1)
      BY <2>1 DEF Holds
    <2>3. Cell(buf, i - 1) = IF buf.head + (i - 1) < Capacity
                                THEN buf.head + (i - 1)
                                ELSE buf.head + (i - 1) - Capacity
      BY <2>1, CellFacts
    <2>4. Cell(buf, i - 1) = IF i <= first THEN buf.head + i - 1
                                            ELSE i - first - 1
      BY <2>a, <2>3, <1>a, <1>3
    <2> QED
      BY <2>2, <2>4, <2>a
  <1>5. /\ new = [buf EXCEPT !.head = (buf.head + count) % Capacity,
                              !.frames = buf.frames - count]
        /\ (buf.head + count) % Capacity = Cell(buf, count)
    BY DEF After, Cell
  <1>6. /\ Cell(buf, count) \in Cells
        /\ Cell(buf, count) = IF buf.head + count < Capacity
                                 THEN buf.head + count
                                 ELSE buf.head + count - Capacity
    BY <1>1, <1>2, CellFacts
  <1> HIDE DEF count, first, new
  <1>7. /\ new.data = buf.data
        /\ new.head = Cell(buf, count)
        /\ new.frames = buf.frames - count
        /\ new \in Rings
    <2>1. buf = [data |-> buf.data, head |-> buf.head, frames |-> buf.frames]
      BY DEF Rings
    <2>2. new = [data |-> buf.data, head |-> Cell(buf, count),
                 frames |-> buf.frames - count]
      BY <2>1, <1>5
    <2>3. buf.frames - count \in 0 .. Capacity
      BY <1>a
    <2> QED
      BY <2>2, <2>3, <1>1, <1>6 DEF Rings
  <1>8. Holds(new, from + count)
    <2> SUFFICES ASSUME NEW i \in Cells, i < buf.frames - count
                 PROVE  buf.data[Cell(new, i)] = from + count + i
      BY <1>7 DEF Holds
    <2>1. count + i \in Cells /\ count + i < buf.frames
          /\ count + i \in 0 .. Capacity /\ i \in 0 .. Capacity
          /\ i \in Int /\ 0 <= i
      BY <1>a DEF Cells
    <2>2. buf.data[Cell(buf, count + i)] = from + (count + i)
      BY <2>1 DEF Holds
    <2>3. Cell(buf, count + i) = IF buf.head + (count + i) < Capacity
                                    THEN buf.head + (count + i)
                                    ELSE buf.head + (count + i) - Capacity
      BY <2>1, CellFacts
    <2>4. Cell(new, i) = IF new.head + i < Capacity
                           THEN new.head + i
                           ELSE new.head + i - Capacity
      BY <2>1, <1>7, CellFacts
    <2>5. Cell(new, i) = Cell(buf, count + i)
      BY <2>1, <2>3, <2>4, <1>a, <1>6, <1>7
    <2> QED
      BY <2>1, <2>2, <2>5, <1>a
  <1> QED
    BY <1>2, <1>4, <1>7, <1>8 DEF count, new

-----------------------------------------------------------------------------
(* The window *)

Inv == TypeOK /\ RingIsWindow

LEMMA Bounds == Capacity \in Nat /\ Capacity > 0
  BY CapacityIsPositive

LEMMA LesserFacts ==
    ASSUME NEW a \in Nat, NEW b \in Nat
    PROVE  Lesser(a, b) \in Nat /\ Lesser(a, b) <= a /\ Lesser(a, b) <= b
  BY DEF Lesser

LEMMA IdleFacts ==
    ASSUME NEW at \in {"check", "asleep", "gone"}
    PROVE  /\ Idle(at) \in Feeders
           /\ Idle(at).at = at
           /\ \A length : FromClip(Idle(at), length)
  BY DEF Idle, Feeders, FromClip

\* Frames that were of the clip still are when it has grown.
LEMMA FromClipGrows ==
    ASSUME NEW f \in Feeders, NEW a \in Nat, NEW b \in Nat, a <= b,
           FromClip(f, a)
    PROVE  FromClip(f, b)
  <1>1. f.offset \in Nat /\ Len(f.pcm) \in Nat
    BY DEF Feeders
  <1> QED
    BY <1>1 DEF FromClip

(***************************************************************************)
(* A fresh source has an empty window at the start of its clip.             *)
(***************************************************************************)
LEMMA InitInv == Init => Inv
  <1> SUFFICES ASSUME NEW frames \in Nat, NEW cached \in BOOLEAN,
                      Made(frames, cached)
               PROVE  Inv
    BY DEF Init
  <1>1. EmptyRing \in Rings /\ EmptyRing.frames = 0
    BY CapacityIsPositive DEF EmptyRing, Rings, Cells
  <1>2. TypeOK
    BY <1>1, IdleFacts DEF Made, TypeOK
  <1>3. Holds(EmptyRing, 0)
    BY <1>1 DEF Holds, Cells
  <1>4. RingIsWindow
    BY <1>1, <1>3, IdleFacts DEF Made, RingIsWindow
  <1> QED
    BY <1>2, <1>4 DEF Inv

LEMMA NotifiedFacts ==
    ASSUME feeder \in Feeders
    PROVE  /\ Notified \in Feeders
           /\ \A length : FromClip(feeder, length) => FromClip(Notified, length)
  <1>1. CASE feeder.at = "asleep"
    <2>1. Notified \in Feeders /\ Notified.at = "check"
      BY <1>1 DEF Notified, Feeders
    <2> QED
      BY <2>1 DEF FromClip
  <1>2. CASE feeder.at # "asleep"
    BY <1>2 DEF Notified
  <1> QED
    BY <1>1, <1>2

(***************************************************************************)
(* Every step keeps the window: one step of this proof per action.          *)
(***************************************************************************)
LEMMA NextInv == Inv /\ [Next]_stream => Inv'
  <1> SUFFICES ASSUME Inv, [Next]_stream PROVE Inv'
    OBVIOUS
  <1> USE DEF Inv
  <1>a. TypeOK /\ RingIsWindow
    OBVIOUS
  <1>1. ASSUME NEW n \in Nat, AppendWrites(n) PROVE Inv'
    BY <1>1, <1>a DEF AppendWrites, TypeOK, RingIsWindow, content, status, life
  <1>2. CASE AppendPublishes
    <2>1. CASE fed = available
      <3> DEFINE pcm == Slice(available, writing)
      <3>1. /\ ring \in Rings /\ position \in Nat /\ writing \in Nat
            /\ available = position + ring.frames /\ Holds(ring, position)
        BY <2>1, <1>a DEF TypeOK, RingIsWindow
      <3>2. /\ ring' \in Rings
            /\ Fits(ring, writing) \in 0 .. writing
            /\ ring'.frames = ring.frames + Fits(ring, writing)
            /\ Holds(ring', position)
            /\ fed' = fed + Fits(ring, writing)
        BY <3>1, <2>1, <1>2, WriteAppends, ZenonT(40) DEF AppendPublishes
      <3>3. available' = available + writing /\ position' = position
            /\ writing' = 0 /\ epoch' = epoch /\ feeder' = Notified
            /\ UNCHANGED <<status, life, spooled>>
        BY <1>2 DEF AppendPublishes
      <3>4. TypeOK'
        BY <3>2, <3>3, <1>a, NotifiedFacts DEF TypeOK, status, life
      <3>5. RingIsWindow'
        <4>1. ring.frames \in Nat /\ fed \in Nat /\ available \in Nat
          BY <3>1, <1>a, Bounds DEF Rings, TypeOK
        <4>2. position' + ring'.frames = fed' /\ fed' <= available'
          BY <4>1, <3>1, <3>2, <3>3, <2>1
        <4>3. FromClip(feeder', available')
          BY <4>1, <3>1, <3>3, <1>a, NotifiedFacts, FromClipGrows
             DEF TypeOK, RingIsWindow
        <4> QED
          BY <4>2, <4>3, <3>2, <3>3 DEF RingIsWindow
      <3> QED
        BY <3>4, <3>5
    <2>2. CASE fed # available
      <3>1. /\ available' = available + writing /\ writing' = 0
            /\ feeder' = Notified
            /\ UNCHANGED <<ring, fed, position, epoch, status, life, spooled>>
        BY <2>2, <1>2 DEF AppendPublishes
      <3>2. TypeOK'
        BY <3>1, <1>a, NotifiedFacts DEF TypeOK, status, life
      <3>3. FromClip(feeder', available')
        BY <3>1, <1>a, NotifiedFacts, FromClipGrows DEF TypeOK, RingIsWindow
      <3>4. ring.frames > 0 => fed <= available'
        BY <3>1, <1>a DEF TypeOK, RingIsWindow
      <3>5. RingIsWindow'
        BY <3>1, <3>3, <3>4, <1>a DEF RingIsWindow
      <3> QED
        BY <3>2, <3>5
    <2> QED
      BY <2>1, <2>2
  <1>3. CASE Seal
    BY <1>3, <1>a DEF Seal, TypeOK, RingIsWindow, content, life
  <1>4. ASSUME NEW failed \in BOOLEAN, Finish(failed) PROVE Inv'
    <2>1. /\ finished' = TRUE /\ error' \in BOOLEAN /\ feeder' = Notified
          /\ UNCHANGED <<content, sealed, life, spooled, writing>>
      BY <1>4, <1>a DEF Finish, TypeOK
    <2> QED
      BY <2>1, <1>a, NotifiedFacts
         DEF TypeOK, RingIsWindow, content, life
  <1>5. ASSUME NEW n \in Nat, Read(n) PROVE Inv'
    <2> DEFINE count == Lesser(n, ring.frames)
    <2>1. /\ ring \in Rings /\ position \in Nat /\ Holds(ring, position)
          /\ ring.frames \in Nat
      BY <1>a DEF TypeOK, RingIsWindow, Rings
    <2>2. /\ count \in 0 .. ring.frames
          /\ Taken(ring, n) = Slice(position, count)
          /\ ring' \in Rings
          /\ ring'.frames = ring.frames - count
          /\ Holds(ring', position + count)
      BY <2>1, <1>5, ReadTakes DEF Read
    <2>3. Len(Taken(ring, n)) = count
      BY <2>1, <2>2, SliceFacts
    <2>4. /\ position' = position + count /\ feeder' = Notified
          /\ UNCHANGED <<available, fed, epoch, status, life, spooled, writing>>
      BY <2>3, <1>5 DEF Read
    <2> HIDE DEF count
    <2>5. TypeOK'
      BY <2>1, <2>2, <2>4, <1>a, NotifiedFacts DEF TypeOK, status, life
    <2>6. RingIsWindow'
      <3>1. /\ position' + ring'.frames = fed'
            /\ ring'.frames > 0 => fed' <= available'
        BY <2>1, <2>2, <2>4, <1>a DEF TypeOK, RingIsWindow
      <3>2. FromClip(feeder', available')
        BY <2>4, <1>a, NotifiedFacts DEF TypeOK, RingIsWindow
      <3> QED
        BY <3>1, <3>2, <2>2, <2>4 DEF RingIsWindow
    <2> QED
      BY <2>5, <2>6
  <1>6. ASSUME NEW target \in Nat, Seek(target) PROVE Inv'
    <2>1. CASE target = position
      BY <2>1, <1>6, <1>a DEF Seek, stream, content, status, life, TypeOK,
         RingIsWindow
    <2>2. CASE target # position
      <3>1. /\ epoch' = epoch + 1 /\ ring' = Cleared(ring)
            /\ position' = target /\ fed' = target /\ feeder' = Notified
            /\ UNCHANGED <<available, status, life, spooled, writing>>
        BY <2>2, <1>6 DEF Seek
      <3>2. ring' \in Rings /\ ring'.frames = 0
        <4>1. ring \in Rings /\ 0 \in Cells /\ 0 \in 0 .. Capacity
          BY <1>a, Bounds DEF TypeOK, Cells
        <4> QED
          BY <3>1, <4>1 DEF Cleared, Rings
      <3>3. Holds(ring', target)
        BY <3>2, CapacityIsPositive DEF Holds, Cells
      <3>4. TypeOK'
        BY <3>1, <3>2, <1>a, NotifiedFacts DEF TypeOK, status, life
      <3>5. RingIsWindow'
        BY <3>1, <3>2, <3>3, <1>a, NotifiedFacts
           DEF TypeOK, RingIsWindow
      <3> QED
        BY <3>4, <3>5
    <2> QED
      BY <2>1, <2>2
  <1>7. CASE FeederChecks
    <2>1. UNCHANGED <<content, status, life, spooled, writing>>
      BY <1>7 DEF FeederChecks
    <2>2. CASE feeder' \in {Idle("gone"), Idle("asleep")}
      <3>1. feeder' \in Feeders /\ FromClip(feeder', available)
        BY <2>2, IdleFacts
      <3> QED
        BY <2>1, <3>1, <1>a DEF TypeOK, RingIsWindow, content, status, life
    <2>3. CASE Hungry /\ feeder' = [at |-> "reading", offset |-> fed,
                 epoch |-> epoch,
                 pcm |-> Slice(fed, Lesser(available - fed,
                                           Capacity - ring.frames))]
      <3> DEFINE count == Lesser(available - fed, Capacity - ring.frames)
      <3>1. /\ available - fed \in Nat /\ Capacity - ring.frames \in Nat
            /\ fed \in Nat /\ available \in Nat
        BY <2>3, <1>a, Bounds DEF Hungry, TypeOK, Rings
      <3>2. count \in Nat /\ count <= available - fed
        BY <3>1, LesserFacts
      <3> HIDE DEF count
      <3>3. /\ feeder'.at = "reading" /\ feeder'.offset = fed
            /\ feeder'.epoch = epoch /\ feeder'.pcm = Slice(fed, count)
        BY <2>3 DEF count
      <3>4. Len(feeder'.pcm) = count
        BY <3>1, <3>2, <3>3, SliceFacts
      <3>5. feeder' \in Feeders /\ FromClip(feeder', available)
        <4>1. feeder'.pcm \in Seq(Nat) /\ epoch \in Nat
          BY <3>1, <3>2, <3>3, <1>a, SliceFacts DEF TypeOK
        <4>2. feeder' \in Feeders
          BY <4>1, <3>1, <2>3 DEF Feeders
        <4>3. FromClip(feeder', available)
          BY <3>1, <3>2, <3>3, <3>4 DEF FromClip
        <4> QED
          BY <4>2, <4>3
      <3> QED
        BY <3>5, <2>1, <1>a DEF TypeOK, RingIsWindow, content, status, life
    <2> QED
      BY <2>2, <2>3, <1>7 DEF FeederChecks
  <1>8. CASE FeederCommits
    <2>1. /\ feeder.at = "reading" /\ feeder' = Idle("check")
          /\ UNCHANGED <<available, position, epoch, status, life, spooled,
                         writing>>
      BY <1>8 DEF FeederCommits
    <2>2. CASE epoch = feeder.epoch /\ fed = feeder.offset
      <3> DEFINE n == Len(feeder.pcm)
      <3>1. n \in Nat /\ fed + n <= available /\ feeder.pcm = Slice(fed, n)
        BY <2>1, <2>2, <1>a DEF RingIsWindow, TypeOK, FromClip, Feeders
      <3>2. /\ ring \in Rings /\ position \in Nat
            /\ fed = position + ring.frames /\ Holds(ring, position)
        BY <1>a DEF TypeOK, RingIsWindow
      <3>3. ring' = Write(ring, feeder.pcm) /\ fed' = fed + Fits(ring, n)
        BY <2>2, <1>8 DEF FeederCommits
      <3> HIDE DEF n
      <3>4. /\ ring' \in Rings
            /\ Fits(ring, n) \in 0 .. n
            /\ ring'.frames = ring.frames + Fits(ring, n)
            /\ Holds(ring', position)
        BY <3>1, <3>2, <3>3, WriteAppends, ZenonT(60)
      <3>5. TypeOK'
        BY <3>2, <3>3, <3>4, <2>1, <1>a, IdleFacts DEF TypeOK, status, life
      <3>6. RingIsWindow'
        <4>1. ring.frames \in Nat /\ fed \in Nat /\ available \in Nat
          BY <3>2, <1>a, Bounds DEF Rings, TypeOK
        <4>2. position' + ring'.frames = fed' /\ fed' <= available'
          BY <4>1, <3>1, <3>2, <3>3, <3>4, <2>1
        <4>3. FromClip(feeder', available')
          BY <2>1, IdleFacts
        <4> QED
          BY <4>2, <4>3, <3>4, <2>1 DEF RingIsWindow
      <3> QED
        BY <3>5, <3>6
    <2>3. CASE ~(epoch = feeder.epoch /\ fed = feeder.offset)
      <3>1. UNCHANGED <<ring, fed>>
        BY <2>3, <1>8 DEF FeederCommits
      <3> QED
        BY <3>1, <2>1, <1>a, IdleFacts DEF TypeOK, RingIsWindow, status, life
    <2> QED
      BY <2>2, <2>3
  <1>9. CASE FeederFails
    BY <1>9, <1>a, IdleFacts DEF FeederFails, TypeOK, RingIsWindow, content,
       status, life
  <1>10. CASE Retain
    BY <1>10, <1>a DEF Retain, TypeOK, RingIsWindow, content, status
  <1>11. CASE Release
    <2>1. /\ owners' \in Nat /\ closed' \in BOOLEAN
          /\ closing' \in {"no", "join", "file", "done"}
          /\ feeder' \in {feeder, Notified}
          /\ UNCHANGED <<content, status, spooled, writing>>
      <3>1. owners' \in Nat
        BY <1>11, <1>a DEF Release, TypeOK
      <3>2. CASE owners = 1 /\ ~closed
        BY <3>1, <3>2, <1>11, <1>a DEF Release, TypeOK
      <3>3. CASE ~(owners = 1 /\ ~closed)
        BY <3>1, <3>3, <1>11, <1>a DEF Release, TypeOK
      <3> QED
        BY <3>2, <3>3
    <2> QED
      BY <2>1, <1>a, NotifiedFacts DEF TypeOK, RingIsWindow, content, status
  <1>12. CASE Close
    <2>1. /\ closed' \in BOOLEAN
          /\ closing' \in {"no", "join", "file", "done"}
          /\ feeder' \in {feeder, Notified}
          /\ UNCHANGED <<content, status, owners, spooled, writing>>
      BY <1>12, <1>a DEF Close, TypeOK
    <2> QED
      BY <2>1, <1>a, NotifiedFacts DEF TypeOK, RingIsWindow, content, status
  <1>13. CASE Closes
    BY <1>13, <1>a DEF Closes, CloseJoins, CloseFile, TypeOK, RingIsWindow,
       content, status
  <1>14. CASE UNCHANGED stream
    BY <1>14, <1>a DEF stream, content, status, life, TypeOK, RingIsWindow
  <1> QED
    BY <1>1, <1>2, <1>3, <1>4, <1>5, <1>6, <1>7, <1>8, <1>9, <1>10, <1>11,
       <1>12, <1>13, <1>14 DEF Next, Feeds

(***************************************************************************)
(* The source's variables keep their types (streaming.py:121-164).          *)
(***************************************************************************)
THEOREM StreamTypeCorrect == Spec => []TypeOK
  BY InitInv, NextInv, PTL DEF Spec, Inv

(***************************************************************************)
(* The ring always holds the frames between the reader and the feeder, in   *)
(* order, whatever append, seek and the disk reads in flight do             *)
(* (streaming.py:182-190, 217-229, 285-304).                                *)
(***************************************************************************)
THEOREM Window == Spec => []RingIsWindow
  BY InitInv, NextInv, PTL DEF Spec, Inv

(***************************************************************************)
(* Each step of the source is a step of the track its reader was promised,  *)
(* or invisible to that reader.                                             *)
(***************************************************************************)
LEMMA TrackInit == Init => Track!Init
  <1> SUFFICES ASSUME NEW frames \in Nat, NEW cached \in BOOLEAN,
                      Made(frames, cached)
               PROVE  Track!Init
    BY DEF Init
  <1>1. available \in Nat /\ position = 0
    BY DEF Made
  <1>2. finished \in BOOLEAN
    BY DEF Made
  <1>3. got.from = 0 /\ got.pcm = << >> /\ got.ended = FALSE
    BY DEF Made, NoRead
  <1>4. Answer = Track!Nothing
    BY <1>3 DEF Answer, Track!Nothing
  <1> QED
    BY <1>1, <1>2, <1>4 DEF Track!Init

LEMMA TrackStep == Inv /\ [Next]_stream => [Track!Next]_(Track!track)
  <1> SUFFICES ASSUME Inv, [Next]_stream
               PROVE  Track!Next \/ UNCHANGED Track!track
    OBVIOUS
  <1> USE DEF Track!track, Answer
  <1>a. TypeOK /\ RingIsWindow
    BY DEF Inv
  <1>1. ASSUME NEW n \in Nat, AppendWrites(n) PROVE UNCHANGED Track!track
    BY <1>1 DEF AppendWrites, content, status
  <1>2. CASE AppendPublishes
    <2>1. available' = available + writing /\ available \in Nat /\ writing \in Nat
      BY <1>2, <1>a DEF AppendPublishes, TypeOK
    <2>2. Track!Grow
      BY <2>1, <1>2 DEF AppendPublishes, Track!Grow, status
    <2> QED
      BY <2>2 DEF Track!Next
  <1>3. CASE Seal
    BY <1>3 DEF Seal, content
  <1>4. ASSUME NEW failed \in BOOLEAN, Finish(failed) PROVE Track!Next
    BY <1>4 DEF Finish, Track!Next, Track!Over, content
  <1>5. ASSUME NEW n \in Nat, Read(n) PROVE Track!Next
    <2> DEFINE count == Lesser(n, ring.frames)
    <2>1. /\ ring \in Rings /\ position \in Nat /\ Holds(ring, position)
          /\ ring.frames \in Nat /\ available \in Nat
          /\ ring.frames > 0 => position + ring.frames <= available
      BY <1>a DEF TypeOK, RingIsWindow, Rings
    <2>2. count \in 0 .. ring.frames /\ Taken(ring, n) = Slice(position, count)
      BY <2>1, ReadTakes
    <2>3. Len(Taken(ring, n)) = count
      BY <2>1, <2>2, SliceFacts
    <2>4. /\ position' = position + count
          /\ got'.from = position
          /\ got'.pcm = Slice(position, count)
          /\ got'.ended = (finished /\ position + count >= available)
          /\ UNCHANGED <<available, finished>>
      BY <2>2, <2>3, <1>5 DEF Read, status
    <2> HIDE DEF count
    <2>5. position' \in Nat /\ position' - position = count
          /\ position' >= position
          /\ (position' = position \/ position' <= available)
      BY <2>1, <2>2, <2>4
    <2>6. got'.pcm = [i \in 1 .. position' - position |-> position + i - 1]
      BY <2>4, <2>5 DEF Slice
    <2>7. Track!Read
      BY <2>4, <2>5, <2>6 DEF Track!Read
    <2> QED
      BY <2>7 DEF Track!Next
  <1>6. ASSUME NEW target \in Nat, Seek(target)
        PROVE  Track!Next \/ UNCHANGED Track!track
    BY <1>6 DEF Seek, Track!Next, Track!Seek, stream, content, status
  <1>7. CASE Feeds
    BY <1>7 DEF Feeds, FeederChecks, FeederCommits, FeederFails, Track!Next,
       Track!Over, content, status
  <1>8. CASE Retain \/ Release \/ Close \/ Closes
    BY <1>8 DEF Retain, Release, Close, Closes, CloseJoins, CloseFile, content,
       status
  <1>9. CASE UNCHANGED stream
    BY <1>9 DEF stream, content, status
  <1> QED
    BY <1>1, <1>2, <1>3, <1>4, <1>5, <1>6, <1>7, <1>8, <1>9 DEF Next

(***************************************************************************)
(* SpoolingPCMStream implements PCMTrack: every read returns the clip's     *)
(* own next frames and none announces its end early.                        *)
(***************************************************************************)
THEOREM ImplementsTrack == Spec => ReadsTheTrack
  BY InitInv, NextInv, TrackInit, TrackStep, PTL
     DEF Spec, ReadsTheTrack, Track!Spec
=============================================================================
