------------------------- MODULE SpoolingPCMStream -------------------------
(***************************************************************************)
(* One PCM source (streaming.py:112-311): the producer's spool file, the    *)
(* ring the audio callback reads, and the feeder thread that refills the    *)
(* ring from disk. Three threads meet here. Whatever runs under the         *)
(* condition's lock is one step; what runs outside it - the raw write of    *)
(* append, the disk read of the feeder, the join and the file close of      *)
(* close - is a step of its own, with the other threads free to run in      *)
(* between. The writer lock is held across both steps of an append.         *)
(***************************************************************************)
EXTENDS CircularAudioBuffer

VARIABLES
    ring, available, fed, position, epoch,
    sealed, finished, error, closed, owners,
    spooled,     \* frames in the spool file
    writing,     \* frames of the append that holds the writer lock, or 0
    feeder,      \* the feeder thread: where it is and what it captured
    closing,     \* what is left of close(): "no", "join", "file", "done"
    got          \* the reader's last PCMRead

content == <<ring, available, fed, position, epoch, got>>
status == <<sealed, finished, error>>
life == <<closed, owners, closing>>
stream == <<content, status, life, spooled, writing, feeder>>

NoRead == [from |-> 0, pcm |-> << >>, ended |-> FALSE, complete |-> FALSE,
           error |-> FALSE]

\* A feeder with nothing in its hands.
Idle(at) == [at |-> at, offset |-> 0, epoch |-> 0, pcm |-> << >>]

(***************************************************************************)
(* A live source starts empty and writable; one made from a cached WAV      *)
(* starts with all its frames, sealed and finished.                         *)
(***************************************************************************)
Made(frames, cached) ==
    /\ ring = EmptyRing
    /\ available = frames /\ spooled = frames
    /\ fed = 0 /\ position = 0 /\ epoch = 0
    /\ sealed = cached /\ finished = cached
    /\ error = FALSE /\ closed = FALSE /\ owners = 1
    /\ writing = 0 /\ closing = "no"
    /\ feeder = Idle("check")
    /\ got = NoRead

Init == Made(0, FALSE) \/ \E frames \in Nat : Made(frames, TRUE)

\* notify_all: a thread asleep on the condition looks at its predicate again.
Notified == IF feeder.at = "asleep" THEN [feeder EXCEPT !.at = "check"]
                                    ELSE feeder

-----------------------------------------------------------------------------
(* The producer. *)

\* append: the raw write, under the writer lock only.
AppendWrites(n) ==
    /\ writing = 0 /\ n > 0
    /\ ~sealed /\ ~closed
    /\ spooled' = spooled + n
    /\ writing' = n
    /\ UNCHANGED <<content, status, life, feeder>>

\* Mutant: new frames go to the ring although older ones wait in the spool.
AppendJumpsBacklog ==
    LET pcm == Slice(available, writing)
    IN /\ writing > 0
       /\ available' = available + writing
       /\ ring' = Write(ring, pcm)
       /\ fed' = fed + Fits(ring, writing)
       /\ writing' = 0
       /\ feeder' = Notified
       /\ UNCHANGED <<position, epoch, got, status, life, spooled>>

\* append: the frames become available; the live path feeds the ring itself.
AppendPublishes ==
    LET pcm == Slice(available, writing)
    IN /\ writing > 0
       /\ available' = available + writing
       /\ IF fed = available
          THEN /\ ring' = Write(ring, pcm)
               /\ fed' = fed + Fits(ring, writing)
          ELSE UNCHANGED <<ring, fed>>
       /\ writing' = 0
       /\ feeder' = Notified
       /\ UNCHANGED <<position, epoch, got, status, life, spooled>>

Seal ==
    /\ writing = 0
    /\ sealed' = TRUE
    /\ UNCHANGED <<content, finished, error, life, spooled, writing, feeder>>

Finish(failed) ==
    /\ finished' = TRUE
    /\ error' = (failed \/ error)
    /\ feeder' = Notified
    /\ UNCHANGED <<content, sealed, life, spooled, writing>>

-----------------------------------------------------------------------------
(* The reader. *)

\* Mutant: the end is announced with the last frame, not with publication.
ReadEndsWithSeal(n) ==
    LET pcm     == Taken(ring, n)
        at      == position + Len(pcm)
        drained == at >= available
    IN /\ ring' = After(ring, n)
       /\ position' = at
       /\ got' = [from     |-> position,
                  pcm      |-> pcm,
                  ended    |-> (sealed \/ finished) /\ drained,
                  complete |-> (sealed \/ finished) /\ drained,
                  error    |-> error]
       /\ feeder' = Notified
       /\ UNCHANGED <<available, fed, epoch, status, life, spooled, writing>>

\* One PCMRead; `from`, where it was taken, is kept for the specification only.
Read(n) ==
    LET pcm     == Taken(ring, n)
        at      == position + Len(pcm)
        drained == at >= available
    IN /\ ring' = After(ring, n)
       /\ position' = at
       /\ got' = [from     |-> position,
                  pcm      |-> pcm,
                  ended    |-> finished /\ drained,
                  complete |-> (sealed \/ finished) /\ drained,
                  error    |-> error]
       /\ feeder' = Notified
       /\ UNCHANGED <<available, fed, epoch, status, life, spooled, writing>>

\* A seek to where the reader already is keeps what the ring has buffered.
Seek(target) ==
    IF target = position
    THEN UNCHANGED stream
    ELSE /\ epoch' = epoch + 1
         /\ ring' = Cleared(ring)
         /\ position' = target
         /\ fed' = target
         /\ feeder' = Notified
         /\ UNCHANGED <<available, got, status, life, spooled, writing>>

-----------------------------------------------------------------------------
(* The feeder thread. *)

Hungry == fed < available /\ ring.frames < Capacity

\* Under the lock: leave, fall asleep, or capture what to read from disk.
FeederChecks ==
    /\ feeder.at = "check"
    /\ feeder' =
         IF closed THEN Idle("gone")
         ELSE IF ~Hungry THEN Idle("asleep")
         ELSE [at |-> "reading", offset |-> fed, epoch |-> epoch,
               pcm |-> Slice(fed, Lesser(available - fed,
                                         Capacity - ring.frames))]
    /\ UNCHANGED <<content, status, life, spooled, writing>>

\* Mutant: what was read from disk is not checked against a seek.
FeederCommitsBlindly ==
    /\ feeder.at = "reading"
    /\ ring' = Write(ring, feeder.pcm)
    /\ fed' = fed + Fits(ring, Len(feeder.pcm))
    /\ feeder' = Idle("check")
    /\ UNCHANGED <<available, position, epoch, got, status, life, spooled,
                   writing>>

\* Under the lock again, after the disk read: what was read goes into the ring
\* unless a seek has moved the source meanwhile.
FeederCommits ==
    /\ feeder.at = "reading"
    /\ IF epoch = feeder.epoch /\ fed = feeder.offset
       THEN /\ ring' = Write(ring, feeder.pcm)
            /\ fed' = fed + Fits(ring, Len(feeder.pcm))
       ELSE UNCHANGED <<ring, fed>>
    /\ feeder' = Idle("check")
    /\ UNCHANGED <<available, position, epoch, got, status, life, spooled,
                   writing>>

\* The disk read fails or comes back short: the feeder reports it and is gone.
FeederFails ==
    /\ feeder.at = "reading"
    /\ finished' = TRUE /\ error' = TRUE
    /\ feeder' = Idle("gone")
    /\ UNCHANGED <<content, sealed, life, spooled, writing>>

-----------------------------------------------------------------------------
(* Owners. *)

\* Mutant: the session is not counted as an owner.
RetainUncounted == ~closed /\ UNCHANGED stream

Retain ==
    /\ ~closed
    /\ owners' = owners + 1
    /\ UNCHANGED <<content, status, closed, closing, spooled, writing, feeder>>

\* Mutant: the feeder is not woken to see that the source is closed.
ReleaseQuietly ==
    /\ owners > 0
    /\ owners' = owners - 1
    /\ IF owners = 1 /\ ~closed
       THEN closed' = TRUE /\ closing' = "join"
       ELSE UNCHANGED <<closed, closing>>
    /\ UNCHANGED <<content, status, spooled, writing, feeder>>

\* The last owner's release goes on into close().
Release ==
    /\ owners > 0
    /\ owners' = owners - 1
    /\ IF owners = 1 /\ ~closed
       THEN closed' = TRUE /\ closing' = "join" /\ feeder' = Notified
       ELSE UNCHANGED <<closed, closing, feeder>>
    /\ UNCHANGED <<content, status, spooled, writing>>

\* close() called on its own, by a registry that takes no more sources.
Close ==
    /\ IF closed THEN UNCHANGED <<closed, closing, feeder>>
       ELSE closed' = TRUE /\ closing' = "join" /\ feeder' = Notified
    /\ UNCHANGED <<content, status, owners, spooled, writing>>

\* join(timeout=2): the feeder has gone, or two seconds have.
CloseJoins ==
    /\ closing = "join"
    /\ closing' = "file"
    /\ UNCHANGED <<content, status, closed, owners, spooled, writing, feeder>>

\* seal and the file's close both wait for the writer lock.
CloseFile ==
    /\ closing = "file"
    /\ writing = 0
    /\ sealed' = TRUE
    /\ closing' = "done"
    /\ UNCHANGED <<content, finished, error, closed, owners, spooled, writing,
                   feeder>>

Feeds == FeederChecks \/ FeederCommits \/ FeederFails
Closes == CloseJoins \/ CloseFile

Next ==
    \/ \E n \in Nat : AppendWrites(n)
    \/ AppendPublishes
    \/ Seal
    \/ \E failed \in BOOLEAN : Finish(failed)
    \/ \E n \in Nat : Read(n)
    \/ \E target \in Nat : Seek(target)
    \/ Feeds
    \/ Retain
    \/ Release
    \/ Close
    \/ Closes

Spec == Init /\ [][Next]_stream

(***************************************************************************)
(* The clip as its reader sees it.                                          *)
(***************************************************************************)
Answer == [from |-> got.from, pcm |-> got.pcm, ended |-> got.ended]

Track == INSTANCE PCMTrack WITH length <- available, over <- finished,
                                cursor <- position, got <- Answer

(***************************************************************************)
(* Every read returns the clip's own next frames and no read says the clip  *)
(* ended early, whatever the ring, the spool, the feeder and the seeks do   *)
(* meanwhile (streaming.py:115-118, 206-215).                               *)
(***************************************************************************)
ReadsTheTrack == Track!Spec

\* A disk read in flight carries frames of a clip of `length` frames.
FromClip(f, length) ==
    f.at = "reading" => /\ f.offset + Len(f.pcm) <= length
                        /\ f.pcm = Slice(f.offset, Len(f.pcm))

(***************************************************************************)
(* Between any two steps the ring holds exactly the frames between the      *)
(* reader and the feeder, in order, and what the feeder has in its hands    *)
(* is what the clip has at the place it was captured (182-190, 285-304).    *)
(***************************************************************************)
RingIsWindow ==
    /\ position + ring.frames = fed
    /\ ring.frames > 0 => fed <= available
    /\ Holds(ring, position)
    /\ FromClip(feeder, available)

\* The file holds at least what is advertised, and more only during an append.
SpoolIsAhead == spooled = available + writing

Feeders == [at : {"check", "asleep", "reading", "gone"}, offset : Nat,
            epoch : Nat, pcm : Seq(Nat)]

TypeOK ==
    /\ ring \in Rings
    /\ available \in Nat /\ fed \in Nat /\ position \in Nat /\ epoch \in Nat
    /\ spooled \in Nat /\ writing \in Nat /\ owners \in Nat
    /\ sealed \in BOOLEAN /\ finished \in BOOLEAN /\ error \in BOOLEAN
    /\ closed \in BOOLEAN
    /\ closing \in {"no", "join", "file", "done"}
    /\ feeder \in Feeders
=============================================================================
