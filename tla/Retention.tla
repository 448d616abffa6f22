------------------------------ MODULE Retention ------------------------------
(***************************************************************************)
(* The audio files of the daemon, and all that removes one: the cache      *)
(* limit, the purge, the deletion of generated files by hand or by age,    *)
(* and the clearing of history; against replays that share a file, renders *)
(* about to publish one, and an export that reads some in a thread.        *)
(*                                                                         *)
(* A clip is a row of utterances.  Its units are its chunks, or the one    *)
(* render of a plain clip; the artifact of a unit bears the unit's name    *)
(* (cache/<id>/<id>.wav).  Handlers are atomic on the event loop; renders  *)
(* and exports end in threads, between handlers.  Every file has size 1.   *)
(***************************************************************************)
EXTENDS Naturals, Sequences, FiniteSets

CONSTANTS Clips,      \* 1 .. n, in the order of submission
          Texts,
          Parts,      \* in how many units a text is spoken
          Limits,     \* the limits the listener may set
          Jobs,       \* workers of the pool
          MaxExports, \* bound: exports under way at a time
          MaxRestarts,\* bound: restarts of the daemon
          MaxRefused  \* bound: file operations the system refuses

ASSUME RetentionAssumption ==
  /\ Clips \subseteq Nat
  /\ Parts \in [Texts -> Nat \ {0}] /\ \E t \in Texts : \A s \in Texts : Parts[s] <= Parts[t]
  /\ Limits \subseteq Nat /\ Limits # {}
  /\ {Jobs, MaxExports, MaxRestarts, MaxRefused} \subseteq Nat

VARIABLES row,      \* of a clip: "new", "live" (not terminal), "over" (terminal) or "gone"
          text,     \* what a clip says
          made,     \* unit -> generation_artifact_id: the artifact it was heard from
          kept,     \* units whose audio_path is set; it is then the path of made
          files,    \* published files, the least recently used first
          parts,    \* candidates: .part files, which no inventory of audio lists
          making,   \* units in a worker's hands
          exports,  \* exports under way: what each pinned, and what it found there
          limit, restarts, refused
retentionVars ==
  <<row, text, made, kept, files, parts, making, exports, limit, restarts, refused>>

NoText == "no text"
NoFile == <<>>
MostParts == CHOOSE n \in {Parts[t] : t \in Texts} : \A t \in Texts : Parts[t] <= n
Units == Clips \X (1 .. MostParts)
UnitsOf(c) == {u \in Units : u[1] = c /\ text[c] \in Texts /\ u[2] <= Parts[text[c]]}
Here == {files[k] : k \in DOMAIN files}

RetentionTypeOK ==
  /\ row \in [Clips -> {"new", "live", "over", "gone"}]
  /\ text \in [Clips -> Texts \cup {NoText}]
  /\ made \in [Units -> Units \cup {NoFile}]
  /\ kept \subseteq Units /\ parts \subseteq Units /\ making \subseteq Units
  /\ Here \subseteq Units /\ Cardinality(Here) = Len(files)
  /\ limit \in Limits

-----------------------------------------------------------------------------
(* What is protected *)

\* Audio paths that rows of utterances not yet terminal refer to.
OwnedPaths(rows) == {made[u] : u \in {v \in kept : rows[v[1]] = "live"}}

PinnedPaths == UNION {e.paths : e \in exports}

\* Mutant: generated storage does not know of the exports' pins.
ProtectedFromDeletion ==
  OwnedPaths(row) \cup UNION {UnitsOf(c) : c \in {d \in Clips : row[d] = "live"}}

\* Generated storage goes by artifact ids: the stems of owned paths, what the
\* exports pinned, and every unit of a clip that is not terminal.
ProtectedIds ==
  OwnedPaths(row) \cup UNION {e.ids : e \in exports}
                  \cup UNION {UnitsOf(c) : c \in {d \in Clips : row[d] = "live"}}

-----------------------------------------------------------------------------
(* Operations on files. "stuck" holds the file that the system refuses to   *)
(* remove or to touch, if any.                                              *)

Stuck == {{}} \cup (IF refused < MaxRefused THEN {{f} : f \in Here} ELSE {})
Spend(stuck) == refused' = refused + Cardinality(stuck)

\* What a sequence holds of a set, in its order: the n-th is at the place with n up to it.
Only(fs, these) ==
  LET places == {k \in DOMAIN fs : fs[k] \in these}
  IN [n \in 1 .. Cardinality(places) |->
        fs[CHOOSE k \in places : Cardinality({j \in places : j <= k}) = n]]

Without(fs, gone) == Only(fs, {fs[k] : k \in DOMAIN fs} \ gone)
Touch(fs, f) == Append(Without(fs, {f}), f)

\* History forgets an evicted file; a row that is not terminal keeps its path.
Forget(rows, gone) == {u \in kept : ~(made[u] \in gone /\ rows[u[1]] = "over")}

\* What the limit evicts, least recently used first, until the rest fits.
Evicted(fs, spared, max) ==
  LET Before(k) == {j \in 1 .. k - 1 : fs[j] \notin spared}
  IN {fs[k] : k \in {j \in DOMAIN fs : /\ fs[j] \notin spared
                                       /\ Len(fs) - Cardinality(Before(j)) > max}}

\* The pass that follows every terminal transition, a start and a new limit.
EnforceLimit(rows, max) ==
  \E stuck \in Stuck :
    LET gone == Evicted(files, OwnedPaths(rows) \cup PinnedPaths \cup stuck, max) IN
    /\ files' = Without(files, gone)
    /\ kept' = Forget(rows, gone)
    /\ Spend(stuck)

-----------------------------------------------------------------------------
(* Clips and their renders *)

RetentionInit ==
  /\ row = [c \in Clips |-> "new"] /\ text = [c \in Clips |-> NoText]
  /\ made = [u \in Units |-> NoFile] /\ kept = {}
  /\ files = <<>> /\ parts = {} /\ making = {} /\ exports = {}
  /\ limit \in Limits /\ restarts = 0 /\ refused = 0

\* The next identity: they are minted, never reused.
Fresh(c) == {d \in Clips : row[d] = "new"} = {d \in Clips : d >= c}

Admit(c, t) ==
  /\ Fresh(c)
  /\ row' = [row EXCEPT ![c] = "live"] /\ text' = [text EXCEPT ![c] = t]
  /\ UNCHANGED <<made, kept, files, parts, making, exports, limit, restarts, refused>>

\* A worker takes a unit that is owed and creates its candidate.
Target(u) ==
  /\ row[u[1]] = "live" /\ u \in UnitsOf(u[1]) /\ u \notin kept \cup making
  /\ Cardinality(making) < Jobs
  /\ making' = making \cup {u} /\ parts' = parts \cup {u}
  /\ UNCHANGED <<row, text, made, kept, files, exports, limit, restarts, refused>>

\* A finished render becomes a published file and its owner's, in one turn.
Publish(u) ==
  /\ u \in making /\ row[u[1]] = "live"
  /\ making' = making \ {u} /\ parts' = parts \ {u}
  /\ files' = Touch(files, u)
  /\ made' = [made EXCEPT ![u] = u] /\ kept' = kept \cup {u}
  /\ UNCHANGED <<row, text, exports, limit, restarts, refused>>

\* The clip ended meanwhile: the result is discarded.
Discard(u) ==
  /\ u \in making /\ row[u[1]] # "live"
  /\ making' = making \ {u} /\ parts' = parts \ {u}
  /\ UNCHANGED <<row, text, made, kept, files, exports, limit, restarts, refused>>

\* A render fails, or SQLite refuses its publication: no file, and the clip ends.
Fail(u) ==
  /\ u \in making /\ row[u[1]] = "live"
  /\ making' = making \ {u} /\ parts' = parts \ {u}
  /\ row' = [row EXCEPT ![u[1]] = "over"]
  /\ EnforceLimit(row', limit)
  /\ UNCHANGED <<text, made, exports, limit, restarts>>

\* A clip is played out, skipped or cancelled.
End(c) ==
  /\ row[c] = "live"
  /\ row' = [row EXCEPT ![c] = "over"]
  /\ EnforceLimit(row', limit)
  /\ UNCHANGED <<text, made, parts, making, exports, limit, restarts>>

\* One chunk of a document ends: a pass, while the document goes on.
ChunkEnds(c) ==
  /\ row[c] = "live" /\ Cardinality(UnitsOf(c)) > 1
  /\ EnforceLimit(row, limit)
  /\ UNCHANGED <<row, text, made, parts, making, exports, limit, restarts>>

\* Speech begins: the file counts as used, unless it is missing.
Play(u) ==
  /\ u \in kept /\ row[u[1]] = "live"
  /\ files' = IF made[u] \in Here THEN Touch(files, made[u]) ELSE files
  /\ UNCHANGED <<row, text, made, kept, parts, making, exports, limit, restarts, refused>>

-----------------------------------------------------------------------------
(* Replay *)

\* Mutant: a path in history is trusted without touching its file.
ReusableUnseen(c, stuck) == kept \cap UnitsOf(c)

\* Chunks are reused in order up to the first whose file is not there.
Reusable(c, stuck) ==
  LET There(u) == u \in kept /\ made[u] \in Here \ stuck
  IN {u \in UnitsOf(c) : \A v \in UnitsOf(c) : v[2] <= u[2] => There(v)}

TouchAll(c, us) ==
  LET paths == [k \in 1 .. Cardinality(us) |-> made[<<c, k>>]]
  IN Without(files, {made[u] : u \in us}) \o Only(paths, Here)

\* A complete set of files becomes the audio of the new clip; an incomplete
\* one is of no use, and everything is rendered again.
Restore(c, r, reused) ==
  IF reused = UnitsOf(c)
  THEN /\ made' = [u \in Units |-> IF u[1] = r /\ <<c, u[2]>> \in reused
                                   THEN made[<<c, u[2]>>] ELSE made[u]]
       /\ kept' = kept \cup {<<r, u[2]>> : u \in reused}
  ELSE UNCHANGED <<made, kept>>

\* Requeue and rewind of a history item: a new clip with the same text.
Replay(c, r) ==
  /\ row[c] = "over" /\ Fresh(r)
  /\ row' = [row EXCEPT ![r] = "live"] /\ text' = [text EXCEPT ![r] = text[c]]
  /\ \E stuck \in Stuck : LET reused == Reusable(c, stuck) IN
       /\ files' = IF reused = {} THEN files ELSE TouchAll(c, reused)
       /\ Restore(c, r, reused)
       /\ Spend(stuck)
  /\ UNCHANGED <<parts, making, exports, limit, restarts>>

-----------------------------------------------------------------------------
(* Orders that remove files *)

SetLimit(n) ==
  /\ n # limit /\ limit' = n
  /\ EnforceLimit(row, n)
  /\ UNCHANGED <<row, text, made, parts, making, exports, restarts>>

\* Everything reusable goes, whatever the limit.
Purge ==
  /\ \E stuck \in Stuck :
       LET gone == Here \ (OwnedPaths(row) \cup PinnedPaths \cup stuck) IN
         /\ files' = Without(files, gone)
         /\ kept' = Forget(row, gone)
         /\ Spend(stuck)
  /\ UNCHANGED <<row, text, made, parts, making, exports, limit, restarts>>

\* Directories of these artifacts, unless protected or being rendered into.
\* History is not told: its rows keep paths that name nothing.
Removed(ids, stuck) == (Here \cap ids) \ (ProtectedIds \cup parts \cup stuck)

\* Files chosen by hand, or older than the retention window.
Delete(ids) ==
  /\ \E stuck \in Stuck : files' = Without(files, Removed(ids, stuck)) /\ Spend(stuck)
  /\ UNCHANGED <<row, text, made, kept, parts, making, exports, limit, restarts>>

\* The rows of history, and what they knew of their files.
DropRows(cs) ==
  /\ row' = [c \in Clips |-> IF c \in cs THEN "gone" ELSE row[c]]
  /\ made' = [u \in Units |-> IF u[1] \in cs THEN NoFile ELSE made[u]]
  /\ kept' = {u \in kept : u[1] \notin cs}

History == {c \in Clips : row[c] = "over"}

RemoveHistory(c) ==
  /\ c \in History /\ DropRows({c})
  /\ UNCHANGED <<text, files, parts, making, exports, limit, restarts, refused>>

\* With delete_files the files go first; if one cannot go, history stays.
ClearHistory(withFiles) ==
  /\ History # {}
  /\ \E stuck \in Stuck :
       LET refusal == stuck \cap Removed(Here, {}) # {} IN
         /\ stuck # {} => withFiles
         /\ files' = IF withFiles THEN Without(files, Removed(Here, stuck)) ELSE files
         /\ IF withFiles /\ refusal THEN UNCHANGED <<row, made, kept>> ELSE DropRows(History)
         /\ Spend(stuck)
  /\ UNCHANGED <<text, parts, making, exports, limit, restarts>>

-----------------------------------------------------------------------------
(* Exports and restarts *)

\* The pins belong to the thread, whatever becomes of the request.
Export(c) ==
  /\ row[c] = "over" /\ Cardinality(exports) < MaxExports
  /\ LET paths == {made[u] : u \in kept \cap UnitsOf(c)}
         Identity(u) == IF made[u] = NoFile THEN u ELSE made[u]
     IN exports' = exports \cup {[ids |-> {Identity(u) : u \in UnitsOf(c)},
                                  paths |-> paths, found |-> paths \cap Here]}
  /\ UNCHANGED <<row, text, made, kept, files, parts, making, limit, restarts, refused>>

ExportEnds(e) ==
  /\ exports' = exports \ {e}
  /\ UNCHANGED <<row, text, made, kept, files, parts, making, limit, restarts, refused>>

\* The daemon dies, perhaps between the renaming of a file and the commit that
\* gives it an owner, and comes up: candidates are swept, and the limit applied.
RestartDaemon(renamed) ==
  /\ restarts < MaxRestarts /\ restarts' = restarts + 1
  /\ renamed \subseteq {u \in making : row[u[1]] = "live"} /\ Cardinality(renamed) <= 1
  /\ making' = {} /\ parts' = {} /\ exports' = {}
  /\ LET onDisk == IF renamed = {} THEN files
                   ELSE Touch(files, CHOOSE u \in renamed : TRUE)
         gone == Evicted(onDisk, OwnedPaths(row), limit)
     IN files' = Without(onDisk, gone) /\ kept' = Forget(row, gone)
  /\ UNCHANGED <<row, text, made, limit, refused>>

RetentionNext ==
  \/ \E c \in Clips :
       \/ \E t \in Texts : Admit(c, t)
       \/ End(c) \/ ChunkEnds(c) \/ RemoveHistory(c) \/ Export(c)
       \/ \E r \in Clips : Replay(c, r)
  \/ \E u \in Units : Target(u) \/ Publish(u) \/ Discard(u) \/ Fail(u) \/ Play(u)
  \/ \E n \in Limits : SetLimit(n)
  \/ \E ids \in SUBSET Here \ {{}} : Delete(ids)
  \/ \E withFiles \in BOOLEAN : ClearHistory(withFiles)
  \/ \E e \in exports : ExportEnds(e)
  \/ \E renamed \in SUBSET making : RestartDaemon(renamed)
  \/ Purge

RetentionSpec == RetentionInit /\ [][RetentionNext]_retentionVars

-----------------------------------------------------------------------------
(* Properties *)

\* Speech that is not over finds its audio: every path a live row holds names
\* a file, and that file is a render of the same text and the same chunk.
OwedAudioIsThere ==
  \A u \in kept : row[u[1]] = "live" =>
    /\ made[u] \in Here
    /\ text[made[u][1]] = text[u[1]] /\ made[u][2] = u[2]

\* What an export found when it began is there until it ends, whatever is
\* purged, evicted, deleted, expired or cleared meanwhile.
ExportsKeepTheirFiles == \A e \in exports : e.found \subseteq Here
=============================================================================
