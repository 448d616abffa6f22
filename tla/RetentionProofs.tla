--------------------------- MODULE RetentionProofs ---------------------------
(***************************************************************************)
(* For any clips, texts, limits, workers and exports, and whatever is      *)
(* evicted, purged, deleted, expired, cleared or refused by the system:    *)
(* speech that is not over finds its audio (OwedAudioStays), and an export *)
(* the files it found (ExportsAreServed).                                  *)
(*                                                                         *)
(* One set of files is protected twice, by path and by identity, from      *)
(* rows and from pins, and every order computes its own.  The invariant    *)
(* says what makes the four agree: a path that is set names an artifact of *)
(* the same text and part, of a clip whose identity was minted             *)
(* (PathsAreHeard), and an export's path is one of the identities it       *)
(* pinned (FoundIsPinned).  A replay needs more: the units it can reuse    *)
(* are the first ones of their clip (FirstUnits), so that touching their   *)
(* paths in order puts back every file it took out of the sequence.        *)
(***************************************************************************)
EXTENDS Retention, FiniteSetTheorems, TLAPS

Items(fs) == {fs[k] : k \in DOMAIN fs}

-----------------------------------------------------------------------------
(* Sequences of files *)

LEMMA FinitePlaces ==
  ASSUME NEW S, NEW fs \in Seq(S), NEW T \in SUBSET DOMAIN fs
  PROVE  IsFiniteSet(T) /\ Cardinality(T) \in Nat /\ T \subseteq Nat
<1>1. DOMAIN fs = 1 .. Len(fs) /\ Len(fs) \in Nat
  OBVIOUS
<1>2. IsFiniteSet(DOMAIN fs)
  BY <1>1, FS_Interval
<1> QED BY <1>1, <1>2, FS_Subset, FS_CardinalityType

LEMMA NoLaterPlaces ==
  ASSUME NEW T \in SUBSET Nat, NEW k \in Nat, NEW i \in Nat, k < i
  PROVE  /\ {j \in T : j <= k} \in SUBSET {j \in T : j <= i}
         /\ i \notin {j \in T : j <= k}
<1>1. \A j \in Nat : j <= k => j <= i
  OBVIOUS
<1>2. \A j \in T : j \in Nat
  OBVIOUS
<1>3. ~(i <= k)
  OBVIOUS
<1>4. {j \in T : j <= k} \subseteq {j \in T : j <= i}
  BY <1>1, <1>2
<1> QED BY <1>3, <1>4

\* The places of a finite set of numbers are counted from 1 on, each once.
LEMMA RanksAreABijection ==
  ASSUME NEW T \in SUBSET Nat, IsFiniteSet(T), NEW n \in 1 .. Cardinality(T)
  PROVE  \E k \in T : Cardinality({j \in T : j <= k}) = n
<1> DEFINE UpTo(k) == {j \in T : j <= k}
           rank == [k \in T |-> Cardinality(UpTo(k))]
           C == Cardinality(T)
<1>1. C \in Nat /\ IsFiniteSet(1 .. C) /\ Cardinality(1 .. C) = C
  BY FS_CardinalityType, FS_Interval
<1>2. ASSUME NEW k \in T PROVE IsFiniteSet(UpTo(k)) /\ Cardinality(UpTo(k)) \in 1 .. C
  <2>1. UpTo(k) \in SUBSET T /\ k \in UpTo(k) OBVIOUS
  <2>2. IsFiniteSet(UpTo(k)) /\ Cardinality(UpTo(k)) <= C BY <2>1, FS_Subset
  <2>3. Cardinality(UpTo(k)) \in Nat BY <2>2, FS_CardinalityType
  <2>4. Cardinality(UpTo(k)) # 0 BY <2>1, <2>2, FS_EmptySet
  <2> QED BY <1>1, <2>2, <2>3, <2>4
<1>3. ASSUME NEW k \in T, NEW i \in T, k < i PROVE rank[k] # rank[i]
  <2>1. k \in Nat /\ i \in Nat OBVIOUS
  <2>2. UpTo(k) \in SUBSET UpTo(i) /\ i \in UpTo(i) /\ i \notin UpTo(k)
    BY <1>3, <2>1, NoLaterPlaces
  <2> QED BY <1>2, <2>2, FS_Subset
<1>4. rank \in Injection(T, 1 .. C)
  <2>1. rank \in [T -> 1 .. C] BY <1>2
  <2>2. ASSUME NEW k \in T, NEW i \in T, rank[k] = rank[i] PROVE k = i
    <3>1. k \in Nat /\ i \in Nat OBVIOUS
    <3> QED BY <1>3, <2>2, <3>1
  <2> HIDE DEF rank
  <2> QED BY <2>1, <2>2 DEF Injection, IsInjective
<1>5. rank \in Surjection(T, 1 .. C)
  BY <1>1, <1>4, FS_Injection
<1>6. PICK k \in T : rank[k] = n
  BY <1>5 DEF Surjection
<1> QED BY <1>6

LEMMA OnlyFacts ==
  ASSUME NEW S, NEW fs \in Seq(S), NEW these
  PROVE  Only(fs, these) \in Seq(S) /\ Items(Only(fs, these)) = Items(fs) \cap these
<1> DEFINE places == {k \in DOMAIN fs : fs[k] \in these}
           C == Cardinality(places)
           Nth(n) == CHOOSE k \in places : Cardinality({j \in places : j <= k}) = n
<1>1. IsFiniteSet(places) /\ C \in Nat /\ places \subseteq Nat
  <2>1. places \in SUBSET DOMAIN fs OBVIOUS
  <2> QED BY <2>1, FinitePlaces
<1>2. Only(fs, these) = [n \in 1 .. C |-> fs[Nth(n)]]
  BY DEF Only
<1>3. ASSUME NEW n \in 1 .. C
      PROVE  Nth(n) \in places /\ Cardinality({j \in places : j <= Nth(n)}) = n
  <2>1. \E k \in places : Cardinality({j \in places : j <= k}) = n
    <3> HIDE DEF places
    <3> QED BY <1>1, RanksAreABijection
  <2> QED BY <2>1
<1>4. ASSUME NEW n \in 1 .. C PROVE Nth(n) \in places /\ fs[Nth(n)] \in S \cap these
  <2>1. Nth(n) \in places BY <1>3
  <2> HIDE DEF Nth
  <2> QED BY <2>1
<1>5. Only(fs, these) \in Seq(S)
  <2> HIDE DEF Nth, C
  <2>1. [n \in 1 .. C |-> fs[Nth(n)]] \in [1 .. C -> S] BY <1>4
  <2> QED BY <1>1, <1>2, <2>1
<1>6. ASSUME NEW f \in Items(Only(fs, these)) PROVE f \in Items(fs) \cap these
  <2>1. PICK n \in 1 .. C : f = fs[Nth(n)]
    <3> HIDE DEF Nth, C
    <3> QED BY <1>2, <1>6 DEF Items
  <2>2. Nth(n) \in places BY <1>3
  <2> HIDE DEF Nth
  <2> QED BY <2>1, <2>2 DEF Items
<1>7. ASSUME NEW f \in Items(fs) \cap these PROVE f \in Items(Only(fs, these))
  <2>1. PICK k \in places : f = fs[k] BY <1>7 DEF Items
  <2> DEFINE UpTo(i) == {j \in places : j <= i}
             n == Cardinality(UpTo(k))
  <2>2. n \in 1 .. C
    <3>1. UpTo(k) \in SUBSET places /\ k \in UpTo(k) BY <1>1
    <3>2. IsFiniteSet(UpTo(k)) /\ n <= C BY <1>1, <3>1, FS_Subset
    <3>3. n \in Nat BY <3>2, FS_CardinalityType
    <3>4. n # 0 BY <3>1, <3>2, FS_EmptySet
    <3> QED BY <1>1, <3>2, <3>3, <3>4
  <2>3. Nth(n) = k
    <3> DEFINE i == Nth(n)
    <3>1. i \in places /\ Cardinality(UpTo(i)) = n BY <1>3, <2>2
    <3>2. i \in Nat /\ k \in Nat BY <1>1, <3>1
    <3>3. IsFiniteSet(UpTo(i)) /\ IsFiniteSet(UpTo(k))
      <4>1. UpTo(i) \in SUBSET places /\ UpTo(k) \in SUBSET places OBVIOUS
      <4> QED BY <1>1, <4>1, FS_Subset
    <3>4. k \in UpTo(k) /\ i \in UpTo(i) BY <1>1, <3>1
    <3> HIDE DEF i, places
    <3>5. CASE i < k
      <4>1. UpTo(i) \in SUBSET UpTo(k) BY <1>1, <3>2, <3>5, NoLaterPlaces
      <4>2. UpTo(k) = UpTo(i) BY <3>1, <3>3, <4>1, FS_Subset
      <4> QED BY <3>2, <3>4, <3>5, <4>2
    <3>6. CASE k < i
      <4>1. UpTo(k) \in SUBSET UpTo(i) BY <1>1, <3>2, <3>6, NoLaterPlaces
      <4>2. UpTo(k) = UpTo(i) BY <3>1, <3>3, <4>1, FS_Subset
      <4> QED BY <3>2, <3>4, <3>6, <4>2
    <3> QED BY <3>2, <3>5, <3>6 DEF i
  <2> HIDE DEF n, C, Nth
  <2>4. n \in DOMAIN Only(fs, these) /\ Only(fs, these)[n] = f
    BY <1>2, <2>1, <2>2, <2>3
  <2> QED BY <2>4 DEF Items
<1> QED BY <1>5, <1>6, <1>7

LEMMA WithoutFacts ==
  ASSUME NEW S, NEW fs \in Seq(S), NEW gone
  PROVE  Without(fs, gone) \in Seq(S) /\ Items(Without(fs, gone)) = Items(fs) \ gone
<1>1. Without(fs, gone) = Only(fs, Items(fs) \ gone)
  BY DEF Without, Items
<1>2. /\ Only(fs, Items(fs) \ gone) \in Seq(S)
      /\ Items(Only(fs, Items(fs) \ gone)) = Items(fs) \cap (Items(fs) \ gone)
  BY OnlyFacts
<1> QED BY <1>1, <1>2

LEMMA TouchFacts ==
  ASSUME NEW S, NEW fs \in Seq(S), NEW f \in S
  PROVE  Touch(fs, f) \in Seq(S) /\ Items(Touch(fs, f)) = Items(fs) \cup {f}
<1> DEFINE r == Without(fs, {f})
<1>1. r \in Seq(S) /\ Items(r) = Items(fs) \ {f}
  BY WithoutFacts
<1> HIDE DEF r
<1>2. /\ Append(r, f) \in Seq(S) /\ DOMAIN Append(r, f) = 1 .. Len(r) + 1 /\ DOMAIN r = 1 .. Len(r)
      /\ Len(r) \in Nat /\ Append(r, f)[Len(r) + 1] = f
      /\ \A k \in 1 .. Len(r) : Append(r, f)[k] = r[k]
  BY <1>1
<1>3. Items(Append(r, f)) = Items(r) \cup {f}
  <2>1. \A k \in 1 .. Len(r) + 1 : k \in 1 .. Len(r) \/ k = Len(r) + 1 BY <1>2
  <2>2. Len(r) + 1 \in 1 .. Len(r) + 1 /\ 1 .. Len(r) \subseteq 1 .. Len(r) + 1 BY <1>2
  <2> QED BY <1>2, <2>1, <2>2 DEF Items
<1> QED BY <1>1, <1>2, <1>3 DEF Touch, r

LEMMA ConcatFacts ==
  ASSUME NEW S, NEW r \in Seq(S), NEW s \in Seq(S)
  PROVE  r \o s \in Seq(S) /\ Items(r \o s) = Items(r) \cup Items(s)
<1>1. /\ r \o s \in Seq(S) /\ Len(r) \in Nat /\ Len(s) \in Nat /\ Len(r \o s) = Len(r) + Len(s)
      /\ \A k \in 1 .. Len(r) + Len(s) :
           (r \o s)[k] = IF k <= Len(r) THEN r[k] ELSE s[k - Len(r)]
      /\ DOMAIN r = 1 .. Len(r) /\ DOMAIN s = 1 .. Len(s) /\ DOMAIN (r \o s) = 1 .. Len(r) + Len(s)
  OBVIOUS
<1> DEFINE q == r \o s
<1>2. \A k \in DOMAIN q : q[k] \in Items(r) \cup Items(s)
  BY <1>1 DEF Items
<1>3. \A k \in DOMAIN r : k \in DOMAIN q /\ q[k] = r[k]
  BY <1>1
<1>4. \A k \in DOMAIN s : k + Len(r) \in DOMAIN q /\ q[k + Len(r)] = s[k]
  BY <1>1
<1> HIDE DEF q
<1>5. Items(q) = Items(r) \cup Items(s)
  BY <1>2, <1>3, <1>4 DEF Items
<1> QED BY <1>1, <1>5 DEF q

LEMMA EvictedFacts ==
  ASSUME NEW fs, NEW spared, NEW max
  PROVE  Evicted(fs, spared, max) \cap spared = {}
  BY DEF Evicted

-----------------------------------------------------------------------------
(* The invariant *)

RetentionTyped ==
  /\ row \in [Clips -> {"new", "live", "over", "gone"}]
  /\ text \in [Clips -> Texts \cup {NoText}]
  /\ made \in [Units -> Units \cup {NoFile}]
  /\ kept \subseteq Units /\ making \subseteq Units
  /\ files \in Seq(Units)

\* A path that is set, of whatever clip, names the same part of the same text, of a
\* clip that was admitted; and while its clip is live its file is there.
PathsAreHeard ==
  \A u \in kept :
    /\ made[u] \in Units /\ row[u[1]] # "new" /\ row[made[u][1]] # "new"
    /\ text[made[u][1]] = text[u[1]] /\ made[u][2] = u[2]
    /\ row[u[1]] = "live" => made[u] \in Here

\* What an export found is pinned, by its path and by the identity it bears.
FoundIsPinned ==
  \A e \in exports : e.found \subseteq Here /\ e.found \subseteq e.paths /\ e.found \subseteq e.ids

RetentionInv == RetentionTyped /\ PathsAreHeard /\ FoundIsPinned

LEMMA RetentionInvImplies == RetentionInv => OwedAudioIsThere /\ ExportsKeepTheirFiles
  BY DEF RetentionInv, PathsAreHeard, FoundIsPinned, OwedAudioIsThere, ExportsKeepTheirFiles

LEMMA RetentionBegins == RetentionInit => RetentionInv
<1> SUFFICES ASSUME RetentionInit PROVE RetentionInv
  OBVIOUS
<1>1. RetentionTyped
  <2>1. files \in Seq(Units) BY DEF RetentionInit
  <2>2. /\ row \in [Clips -> {"new", "live", "over", "gone"}]
        /\ text \in [Clips -> Texts \cup {NoText}]
        /\ made \in [Units -> Units \cup {NoFile}]
    BY DEF RetentionInit
  <2> QED BY <2>1, <2>2 DEF RetentionInit, RetentionTyped
<1> QED BY <1>1 DEF RetentionInit, RetentionInv, PathsAreHeard, FoundIsPinned

LEMMA MostPartsIsANumber == MostParts \in Nat /\ \A t \in Texts : Parts[t] <= MostParts
<1>1. \E n \in {Parts[t] : t \in Texts} : \A t \in Texts : Parts[t] <= n
  BY RetentionAssumption
<1>2. MostParts \in {Parts[t] : t \in Texts} /\ \A t \in Texts : Parts[t] <= MostParts
  BY <1>1 DEF MostParts
<1> QED BY <1>2, RetentionAssumption

LEMMA UnitShape ==
  ASSUME NEW u \in Units
  PROVE  u[1] \in Clips /\ u[2] \in Nat /\ u = <<u[1], u[2]>> /\ u # NoFile
  BY MostPartsIsANumber, SMTT(30) DEF Units, NoFile

LEMMA HereIsItems == Here = Items(files)
  BY DEF Here, Items

\* Whatever removes files keeps the invariant if it spares what live rows own and
\* what the exports found, even when it also ends clips and forgets paths.
LEMMA RemovalKeepsInv ==
  ASSUME RetentionInv, NEW gone,
         files' = Without(files, gone),
         gone \cap OwnedPaths(row') = {}, \A e \in exports : e.found \cap gone = {},
         row' \in [Clips -> {"new", "live", "over", "gone"}],
         \A c \in Clips : /\ row'[c] = "live" => row[c] = "live"
                          /\ row'[c] = "new" => row[c] = "new",
         kept' \subseteq kept, \A u \in kept' : made'[u] = made[u],
         made' \in [Units -> Units \cup {NoFile}],
         exports' \subseteq exports, making' \subseteq Units, UNCHANGED text
  PROVE  RetentionInv'
<1>1. /\ files' \in Seq(Units)
      /\ Items(files)' = Items(files) \ gone
  BY WithoutFacts DEF RetentionInv, RetentionTyped, Items
<1>2. Here' = Here \ gone
  BY <1>1, HereIsItems DEF Here, Items
<1>3. RetentionTyped'
  BY <1>1 DEF RetentionInv, RetentionTyped
<1>4. PathsAreHeard'
  <2> SUFFICES ASSUME NEW u \in kept'
               PROVE  /\ made'[u] \in Units /\ row'[u[1]] # "new" /\ row'[made'[u][1]] # "new"
                      /\ text[made'[u][1]] = text[u[1]] /\ made'[u][2] = u[2]
                      /\ row'[u[1]] = "live" => made'[u] \in Here'
    BY DEF PathsAreHeard
  <2>1. /\ u \in kept /\ u \in Units /\ made'[u] = made[u] /\ made[u] \in Units
        /\ row[u[1]] # "new" /\ row[made[u][1]] # "new"
        /\ text[made[u][1]] = text[u[1]] /\ made[u][2] = u[2]
        /\ row[u[1]] = "live" => made[u] \in Here
    BY DEF RetentionInv, RetentionTyped, PathsAreHeard
  <2>2. u[1] \in Clips /\ made[u][1] \in Clips
    BY <2>1, UnitShape
  <2>3. row'[u[1]] = "live" => made[u] \in OwnedPaths(row')
    BY <2>1 DEF OwnedPaths
  <2> QED BY <1>2, <2>1, <2>2, <2>3
<1>5. FoundIsPinned'
  BY <1>2 DEF RetentionInv, FoundIsPinned
<1> QED BY <1>3, <1>4, <1>5 DEF RetentionInv

\* The pass of the limit spares both.
LEMMA LimitKeepsInv ==
  ASSUME RetentionInv, NEW max, EnforceLimit(row', max),
         row' \in [Clips -> {"new", "live", "over", "gone"}],
         \A c \in Clips : /\ row'[c] = "live" => row[c] = "live"
                          /\ row'[c] = "new" => row[c] = "new",
         making' \subseteq Units, UNCHANGED <<text, made, exports>>
  PROVE  RetentionInv'
<1>1. PICK stuck \in Stuck :
        LET gone == Evicted(files, OwnedPaths(row') \cup PinnedPaths \cup stuck, max) IN
          files' = Without(files, gone) /\ kept' = Forget(row', gone)
  BY DEF EnforceLimit
<1> DEFINE spared == OwnedPaths(row') \cup PinnedPaths \cup stuck
           gone == Evicted(files, spared, max)
<1>2. gone \cap spared = {}
  BY EvictedFacts
<1>3. files' = Without(files, gone) /\ kept' = Forget(row', gone)
  BY <1>1
<1> HIDE DEF gone
<1>4. kept' \subseteq kept
  BY <1>3 DEF Forget
<1>5. \A e \in exports : e.found \cap gone = {}
  BY <1>2 DEF RetentionInv, FoundIsPinned, PinnedPaths
<1>6. gone \cap OwnedPaths(row') = {}
  BY <1>2
<1>7. made' \in [Units -> Units \cup {NoFile}]
  BY DEF RetentionInv, RetentionTyped
<1> QED BY <1>3, <1>4, <1>5, <1>6, <1>7, RemovalKeepsInv

\* A file that is used or published moves to the end, and no other one goes.
LEMMA TouchedIsHere ==
  ASSUME RetentionTyped, NEW f \in Units, files' = Touch(files, f)
  PROVE  files' \in Seq(Units) /\ Here' = Here \cup {f}
<1>1. files' \in Seq(Units) /\ Items(files') = Items(files) \cup {f}
  BY TouchFacts DEF RetentionTyped
<1> QED BY <1>1 DEF Here, Items

LEMMA PublishKeepsInv == ASSUME RetentionInv, NEW u \in Units, Publish(u) PROVE RetentionInv'
<1>1. /\ row[u[1]] = "live" /\ UNCHANGED <<row, text, exports>> /\ making' \subseteq making
      /\ files' = Touch(files, u) /\ made' = [made EXCEPT ![u] = u] /\ kept' = kept \cup {u}
  BY DEF Publish
<1>2. files' \in Seq(Units) /\ Here' = Here \cup {u}
  BY <1>1, TouchedIsHere DEF RetentionInv
<1>3. \A v \in Units : made'[v] = (IF v = u THEN u ELSE made[v])
  BY <1>1 DEF RetentionInv, RetentionTyped
<1>4. RetentionTyped'
  BY <1>1, <1>2 DEF RetentionInv, RetentionTyped
<1>5. PathsAreHeard'
  BY <1>1, <1>2, <1>3 DEF RetentionInv, RetentionTyped, PathsAreHeard
<1>6. FoundIsPinned'
  BY <1>1, <1>2 DEF RetentionInv, FoundIsPinned
<1> QED BY <1>4, <1>5, <1>6 DEF RetentionInv

LEMMA PlayKeepsInv == ASSUME RetentionInv, NEW u \in Units, Play(u) PROVE RetentionInv'
<1>1. /\ made[u] \in Units /\ UNCHANGED <<row, text, made, kept, making, exports>>
      /\ files' = Touch(files, made[u]) \/ files' = files
  BY DEF Play, RetentionInv, PathsAreHeard
<1>2. files' \in Seq(Units) /\ Here \subseteq Here'
  <2>1. CASE files' = files BY <2>1 DEF Here, RetentionInv, RetentionTyped
  <2>2. CASE files' = Touch(files, made[u]) BY <1>1, <2>2, TouchedIsHere DEF RetentionInv
  <2> QED BY <1>1, <2>1, <2>2
<1> QED
  BY <1>1, <1>2 DEF RetentionInv, RetentionTyped, PathsAreHeard, FoundIsPinned

LEMMA AdmitKeepsInv ==
  ASSUME RetentionInv, NEW c \in Clips, NEW t \in Texts, Admit(c, t) PROVE RetentionInv'
<1>1. /\ row[c] = "new" /\ row' = [row EXCEPT ![c] = "live"] /\ text' = [text EXCEPT ![c] = t]
      /\ UNCHANGED <<made, kept, files, making, exports>>
  <2>1. c \in {d \in Clips : d >= c} BY RetentionAssumption
  <2> QED BY <2>1 DEF Admit, Fresh
<1>2. Here' = Here
  BY <1>1 DEF Here
<1>3. RetentionTyped'
  BY <1>1 DEF RetentionInv, RetentionTyped
<1>4. PathsAreHeard'
  <2> SUFFICES ASSUME NEW u \in kept
               PROVE  /\ made[u] \in Units /\ row'[u[1]] # "new" /\ row'[made[u][1]] # "new"
                      /\ text'[made[u][1]] = text'[u[1]] /\ made[u][2] = u[2]
                      /\ row'[u[1]] = "live" => made[u] \in Here'
    BY <1>1 DEF PathsAreHeard
  <2>1. /\ u \in Units /\ made[u] \in Units /\ row[u[1]] # "new" /\ row[made[u][1]] # "new"
    BY DEF RetentionInv, RetentionTyped, PathsAreHeard
  <2>2. u[1] \in Clips /\ made[u][1] \in Clips /\ u[1] # c /\ made[u][1] # c
    BY <1>1, <2>1, UnitShape
  <2> QED BY <1>1, <1>2, <2>1, <2>2 DEF RetentionInv, RetentionTyped, PathsAreHeard
<1>5. FoundIsPinned'
  BY <1>1, <1>2 DEF RetentionInv, FoundIsPinned
<1> QED BY <1>3, <1>4, <1>5 DEF RetentionInv

\* Ending a clip takes nothing from a live one and makes none new.
LEMMA EndedRow ==
  ASSUME RetentionTyped, NEW c \in Clips, row' = [row EXCEPT ![c] = "over"]
  PROVE  /\ row' \in [Clips -> {"new", "live", "over", "gone"}]
         /\ \A d \in Clips : /\ row'[d] = "live" => row[d] = "live"
                             /\ row'[d] = "new" => row[d] = "new"
  BY DEF RetentionTyped

LEMMA FailKeepsInv == ASSUME RetentionInv, NEW u \in Units, Fail(u) PROVE RetentionInv'
<1>1. /\ row' = [row EXCEPT ![u[1]] = "over"] /\ EnforceLimit(row', limit)
      /\ making' \subseteq Units /\ UNCHANGED <<text, made, exports>>
  BY DEF Fail, RetentionInv, RetentionTyped
<1> QED BY <1>1, UnitShape, EndedRow, LimitKeepsInv DEF RetentionInv

LEMMA EndKeepsInv == ASSUME RetentionInv, NEW c \in Clips, End(c) PROVE RetentionInv'
<1>1. /\ row' = [row EXCEPT ![c] = "over"] /\ EnforceLimit(row', limit)
      /\ making' \subseteq Units /\ UNCHANGED <<text, made, exports>>
  BY DEF End, RetentionInv, RetentionTyped
<1> QED BY <1>1, EndedRow, LimitKeepsInv DEF RetentionInv

LEMMA PassKeepsInv ==
  ASSUME RetentionInv, NEW max, EnforceLimit(row, max), UNCHANGED <<row, text, made, making, exports>>
  PROVE  RetentionInv'
<1>1. EnforceLimit(row', max) /\ row' = row
  <2>1. row' = row OBVIOUS
  <2> QED BY <2>1
<1>2. making' \subseteq Units /\ row \in [Clips -> {"new", "live", "over", "gone"}]
  BY DEF RetentionInv, RetentionTyped
<1> QED BY <1>1, <1>2, LimitKeepsInv

LEMMA PurgeKeepsInv == ASSUME RetentionInv, Purge PROVE RetentionInv'
<1>1. PICK stuck \in Stuck :
        LET gone == Here \ (OwnedPaths(row) \cup PinnedPaths \cup stuck) IN
          files' = Without(files, gone) /\ kept' = Forget(row, gone)
  BY DEF Purge
<1> DEFINE gone == Here \ (OwnedPaths(row) \cup PinnedPaths \cup stuck)
<1>2. /\ files' = Without(files, gone) /\ kept' \subseteq kept
      /\ gone \cap OwnedPaths(row) = {} /\ \A e \in exports : e.found \cap gone = {}
  BY <1>1 DEF Forget, PinnedPaths, RetentionInv, FoundIsPinned
<1> HIDE DEF gone
<1>3. UNCHANGED <<row, text, made, making, exports>>
  BY DEF Purge
<1>4. gone \cap OwnedPaths(row') = {}
  BY <1>2, <1>3
<1> QED BY <1>2, <1>3, <1>4, RemovalKeepsInv DEF RetentionInv, RetentionTyped

\* What is deleted by hand or by age is none of it protected by its identity.
LEMMA RemovedFacts ==
  ASSUME RetentionInv, NEW ids, NEW stuck
  PROVE  /\ Removed(ids, stuck) \cap OwnedPaths(row) = {}
         /\ \A e \in exports : e.found \cap Removed(ids, stuck) = {}
  BY DEF Removed, ProtectedIds, RetentionInv, FoundIsPinned

LEMMA DeleteKeepsInv == ASSUME RetentionInv, NEW ids, Delete(ids) PROVE RetentionInv'
<1>1. PICK stuck \in Stuck : files' = Without(files, Removed(ids, stuck))
  BY DEF Delete
<1>2. UNCHANGED <<row, text, made, kept, making, exports>>
  BY DEF Delete
<1> DEFINE gone == Removed(ids, stuck)
<1>3. gone \cap OwnedPaths(row') = {} /\ \A e \in exports : e.found \cap gone = {}
  BY <1>2, RemovedFacts
<1> HIDE DEF gone
<1>4. files' = Without(files, gone)
  BY <1>1 DEF gone
<1> QED BY <1>2, <1>3, <1>4, RemovalKeepsInv DEF RetentionInv, RetentionTyped

\* Rows that are dropped were over.
LEMMA DroppedRows ==
  ASSUME RetentionInv, NEW cs \in SUBSET History, DropRows(cs)
  PROVE  /\ row' \in [Clips -> {"new", "live", "over", "gone"}]
         /\ \A d \in Clips : /\ row'[d] = "live" => row[d] = "live"
                             /\ row'[d] = "new" => row[d] = "new"
         /\ OwnedPaths(row') \subseteq OwnedPaths(row)
         /\ kept' \subseteq kept /\ \A u \in kept' : made'[u] = made[u]
         /\ made' \in [Units -> Units \cup {NoFile}]
<1>1. /\ row' = [c \in Clips |-> IF c \in cs THEN "gone" ELSE row[c]]
      /\ made' = [u \in Units |-> IF u[1] \in cs THEN NoFile ELSE made[u]]
      /\ kept' = {u \in kept : u[1] \notin cs}
  BY DEF DropRows
<1>2. /\ row \in [Clips -> {"new", "live", "over", "gone"}] /\ kept \subseteq Units
      /\ made \in [Units -> Units \cup {NoFile}]
  BY DEF RetentionInv, RetentionTyped
<1>3. \A d \in Clips : /\ row'[d] = "live" => row[d] = "live"
                       /\ row'[d] = "new" => row[d] = "new"
  BY <1>1
<1>4. OwnedPaths(row') \subseteq OwnedPaths(row)
  <2>1. \A u \in kept : u[1] \in Clips BY <1>2, UnitShape
  <2> QED BY <1>3, <2>1 DEF OwnedPaths
<1>5. \A u \in kept' : u \in kept /\ made'[u] = made[u]
  BY <1>1, <1>2
<1> QED BY <1>1, <1>2, <1>3, <1>4, <1>5

LEMMA RemoveHistoryKeepsInv ==
  ASSUME RetentionInv, NEW c \in Clips, RemoveHistory(c) PROVE RetentionInv'
<1>1. {c} \in SUBSET History /\ DropRows({c}) /\ UNCHANGED <<text, files, making, exports>>
  BY DEF RemoveHistory
<1> DEFINE gone == {}
<1>2. files' = files /\ Here' = Here
  BY <1>1 DEF Here
<1>3. /\ row' \in [Clips -> {"new", "live", "over", "gone"}]
      /\ \A d \in Clips : /\ row'[d] = "live" => row[d] = "live"
                          /\ row'[d] = "new" => row[d] = "new"
      /\ kept' \subseteq kept /\ \A u \in kept' : made'[u] = made[u]
      /\ made' \in [Units -> Units \cup {NoFile}]
  BY <1>1, DroppedRows
<1>4. RetentionTyped'
  BY <1>1, <1>3 DEF RetentionInv, RetentionTyped
<1>5. PathsAreHeard'
  <2> SUFFICES ASSUME NEW u \in kept'
               PROVE  /\ made'[u] \in Units /\ row'[u[1]] # "new" /\ row'[made'[u][1]] # "new"
                      /\ text[made'[u][1]] = text[u[1]] /\ made'[u][2] = u[2]
                      /\ row'[u[1]] = "live" => made'[u] \in Here'
    BY <1>1 DEF PathsAreHeard
  <2>1. /\ u \in kept /\ u \in Units /\ made'[u] = made[u] /\ made[u] \in Units
    BY <1>3 DEF RetentionInv, RetentionTyped, PathsAreHeard
  <2>2. u[1] \in Clips /\ made[u][1] \in Clips
    BY <2>1, UnitShape
  <2> QED BY <1>2, <1>3, <2>1, <2>2 DEF RetentionInv, PathsAreHeard
<1>6. FoundIsPinned'
  BY <1>1, <1>2 DEF RetentionInv, FoundIsPinned
<1> QED BY <1>4, <1>5, <1>6 DEF RetentionInv

LEMMA ClearHistoryKeepsInv ==
  ASSUME RetentionInv, NEW withFiles \in BOOLEAN, ClearHistory(withFiles) PROVE RetentionInv'
<1>1. PICK stuck \in Stuck :
        /\ files' = IF withFiles THEN Without(files, Removed(Here, stuck)) ELSE files
        /\ UNCHANGED <<row, made, kept>> \/ DropRows(History)
  BY DEF ClearHistory
<1>2. UNCHANGED <<text, making, exports>>
  BY DEF ClearHistory
<1>3. /\ row' \in [Clips -> {"new", "live", "over", "gone"}]
      /\ \A d \in Clips : /\ row'[d] = "live" => row[d] = "live"
                          /\ row'[d] = "new" => row[d] = "new"
      /\ OwnedPaths(row') \subseteq OwnedPaths(row)
      /\ kept' \subseteq kept /\ \A u \in kept' : made'[u] = made[u]
      /\ made' \in [Units -> Units \cup {NoFile}]
  <2>1. CASE UNCHANGED <<row, made, kept>>
    BY <2>1 DEF RetentionInv, RetentionTyped, OwnedPaths
  <2>2. CASE DropRows(History)
    <3>1. History \in SUBSET History OBVIOUS
    <3> QED BY <2>2, <3>1, DroppedRows
  <2> QED BY <1>1, <2>1, <2>2
<1> DEFINE gone == IF withFiles THEN Removed(Here, stuck) ELSE {}
<1>4. gone \cap OwnedPaths(row') = {} /\ \A e \in exports : e.found \cap gone = {}
  BY <1>3, RemovedFacts
<1>5. files' \in Seq(Units) /\ Here' = Here \ gone
  <2>1. files \in Seq(Units) BY DEF RetentionInv, RetentionTyped
  <2>2. CASE withFiles
    <3> DEFINE r == Removed(Here, stuck)
    <3>1. files' = Without(files, r) BY <1>1, <2>2
    <3> HIDE DEF r
    <3>2. files' \in Seq(Units) /\ Items(files') = Items(files) \ r
      BY <2>1, <3>1, WithoutFacts
    <3> QED BY <2>2, <3>2 DEF Here, Items, r
  <2>3. CASE ~withFiles
    BY <1>1, <2>1, <2>3 DEF Here
  <2> QED BY <2>2, <2>3
<1> HIDE DEF gone
<1>6. RetentionTyped'
  BY <1>2, <1>3, <1>5 DEF RetentionInv, RetentionTyped
<1>7. PathsAreHeard'
  <2> SUFFICES ASSUME NEW u \in kept'
               PROVE  /\ made'[u] \in Units /\ row'[u[1]] # "new" /\ row'[made'[u][1]] # "new"
                      /\ text[made'[u][1]] = text[u[1]] /\ made'[u][2] = u[2]
                      /\ row'[u[1]] = "live" => made'[u] \in Here'
    BY <1>2 DEF PathsAreHeard
  <2>1. u \in kept /\ u \in Units /\ made'[u] = made[u] /\ made[u] \in Units
    BY <1>3 DEF RetentionInv, RetentionTyped, PathsAreHeard
  <2>2. u[1] \in Clips /\ made[u][1] \in Clips
    BY <2>1, UnitShape
  <2>3. row'[u[1]] = "live" => made[u] \in OwnedPaths(row')
    BY <2>1 DEF OwnedPaths
  <2> QED BY <1>3, <1>4, <1>5, <2>1, <2>2, <2>3 DEF RetentionInv, PathsAreHeard
<1>8. FoundIsPinned'
  BY <1>2, <1>4, <1>5 DEF RetentionInv, FoundIsPinned
<1> QED BY <1>6, <1>7, <1>8 DEF RetentionInv

LEMMA ExportKeepsInv == ASSUME RetentionInv, NEW c \in Clips, Export(c) PROVE RetentionInv'
<1> DEFINE paths == {made[u] : u \in kept \cap UnitsOf(c)}
           Identity(u) == IF made[u] = NoFile THEN u ELSE made[u]
           ids == {Identity(u) : u \in UnitsOf(c)}
           e0 == [ids |-> ids, paths |-> paths, found |-> paths \cap Here]
<1>1. /\ exports' = exports \cup {e0} /\ UNCHANGED <<row, text, made, kept, files, making>>
  BY DEF Export
<1>2. \A u \in kept : made[u] # NoFile
  BY UnitShape DEF RetentionInv, PathsAreHeard
<1>3. paths \subseteq ids
  BY <1>2
<1>4. e0.found \subseteq Here /\ e0.found \subseteq e0.paths /\ e0.found \subseteq e0.ids
  BY <1>3
<1> HIDE DEF e0
<1>5. Here' = Here
  BY <1>1 DEF Here
<1>6. FoundIsPinned'
  BY <1>1, <1>4, <1>5 DEF RetentionInv, FoundIsPinned
<1>7. RetentionTyped' /\ PathsAreHeard'
  BY <1>1, <1>5 DEF RetentionInv, RetentionTyped, PathsAreHeard
<1> QED BY <1>6, <1>7 DEF RetentionInv

LEMMA RestartKeepsInv ==
  ASSUME RetentionInv, NEW renamed \in SUBSET making, RestartDaemon(renamed) PROVE RetentionInv'
<1> DEFINE onDisk == IF renamed = {} THEN files ELSE Touch(files, CHOOSE u \in renamed : TRUE)
           spared == OwnedPaths(row)
           gone == Evicted(onDisk, spared, limit)
<1>1. /\ making' = {} /\ exports' = {} /\ UNCHANGED <<row, text, made>>
      /\ files' = Without(onDisk, gone) /\ kept' = Forget(row, gone)
  BY DEF RestartDaemon
<1>2. onDisk \in Seq(Units) /\ Items(files) \subseteq Items(onDisk)
  <2>1. files \in Seq(Units) /\ making \subseteq Units BY DEF RetentionInv, RetentionTyped
  <2>2. CASE renamed = {} BY <2>1, <2>2
  <2>3. CASE renamed # {}
    <3> DEFINE u == CHOOSE v \in renamed : TRUE
    <3>1. u \in renamed BY <2>3
    <3>2. u \in Units BY <2>1, <3>1
    <3> HIDE DEF u
    <3>3. Touch(files, u) \in Seq(Units) /\ Items(Touch(files, u)) = Items(files) \cup {u}
      BY <2>1, <3>2, TouchFacts
    <3> QED BY <2>3, <3>3 DEF u
  <2> QED BY <2>2, <2>3
<1>3. gone \cap spared = {}
  BY EvictedFacts
<1> HIDE DEF onDisk, gone
<1>4. files' \in Seq(Units) /\ Items(files') = Items(onDisk) \ gone
  BY <1>1, <1>2, WithoutFacts
<1>5. Here \ gone \subseteq Here'
  BY <1>2, <1>4 DEF Here, Items
<1>6. RetentionTyped'
  BY <1>1, <1>4 DEF RetentionInv, RetentionTyped, Forget
<1>7. PathsAreHeard'
  <2>1. \A u \in kept' : u \in kept /\ (row[u[1]] = "live" => made[u] \in spared)
    BY <1>1 DEF Forget, OwnedPaths
  <2> QED BY <1>1, <1>3, <1>5, <2>1 DEF RetentionInv, PathsAreHeard
<1>8. FoundIsPinned'
  BY <1>1 DEF FoundIsPinned
<1> QED BY <1>6, <1>7, <1>8 DEF RetentionInv

\* Units of a clip that hold every earlier one are its first ones.
LEMMA FirstUnits ==
  ASSUME NEW c \in Clips, NEW us \in SUBSET UnitsOf(c),
         \A u \in us, v \in UnitsOf(c) : v[2] <= u[2] => v \in us
  PROVE  /\ Cardinality(us) \in Nat
         /\ us = {<<c, k>> : k \in 1 .. Cardinality(us)}
<1> DEFINE K == {u[2] : u \in us}
           n == Cardinality(K)
<1>1. ASSUME NEW u \in us
      PROVE  /\ u = <<c, u[2]>> /\ u[2] \in 1 .. MostParts /\ text[c] \in Texts
             /\ u[2] <= Parts[text[c]]
  BY DEF UnitsOf, Units
<1>2. MostParts \in Nat BY MostPartsIsANumber
<1>3. IsFiniteSet(K) /\ n \in Nat /\ K \subseteq Nat
  <2>1. K \in SUBSET (1 .. MostParts) BY <1>1
  <2>2. IsFiniteSet(1 .. MostParts) BY <1>2, FS_Interval
  <2>3. IsFiniteSet(K) BY <2>1, <2>2, FS_Subset
  <2>4. K \subseteq Nat BY <1>2, <2>1
  <2> QED BY <2>3, <2>4, FS_CardinalityType
<1>4. \A k \in K : <<c, k>> \in us
  BY <1>1
<1>5. ASSUME NEW k \in K, NEW j \in 1 .. k PROVE j \in K
  <2>1. k \in 1 .. MostParts /\ k <= Parts[text[c]] /\ text[c] \in Texts /\ k \in Nat
    BY <1>1, <1>3
  <2>2. Parts[text[c]] \in Nat BY <2>1, RetentionAssumption
  <2>3. j \in 1 .. MostParts /\ j <= Parts[text[c]] /\ j <= k
    BY <1>2, <2>1, <2>2
  <2>4. <<c, j>> \in UnitsOf(c) BY <2>1, <2>3 DEF UnitsOf, Units
  <2>5. <<c, j>> \in us BY <1>4, <2>3, <2>4
  <2> QED BY <2>5
<1>6. ASSUME NEW k \in K PROVE k \in 1 .. n
  <2>1. 1 .. k \in SUBSET K BY <1>5
  <2>2. k \in Nat /\ 1 <= k BY <1>1, <1>2
  <2>3. Cardinality(1 .. k) = k BY <2>2, FS_Interval
  <2>4. Cardinality(1 .. k) <= n BY <1>3, <2>1, FS_Subset
  <2> QED BY <1>3, <2>2, <2>3, <2>4
<1>7. K = 1 .. n
  <2>1. IsFiniteSet(1 .. n) /\ Cardinality(1 .. n) = n BY <1>3, FS_Interval
  <2>2. K \in SUBSET (1 .. n) BY <1>6
  <2> QED BY <2>1, <2>2, FS_Subset
<1>8. Cardinality(us) = n
  <2> DEFINE f == [k \in K |-> <<c, k>>]
  <2>1. f \in [K -> us] BY <1>4
  <2>2. \A i, j \in K : f[i] = f[j] => i = j OBVIOUS
  <2>3. \A u \in us : u[2] \in K /\ f[u[2]] = u BY <1>1
  <2> HIDE DEF f
  <2>4. f \in Bijection(K, us)
    BY <2>1, <2>2, <2>3 DEF Bijection, Injection, Surjection, IsInjective
  <2>5. ExistsBijection(K, us) BY <2>4 DEF ExistsBijection
  <2> HIDE DEF K
  <2> QED BY <1>3, <2>5, FS_Bijection
<1>9. us = {<<c, k>> : k \in K}
  BY <1>1, <1>4
<1> QED BY <1>3, <1>7, <1>8, <1>9

\* Touching the files of a replay in their order loses none of them.
LEMMA AllTouchedAreHere ==
  ASSUME RetentionInv, NEW c \in Clips, NEW us \in SUBSET UnitsOf(c),
         \A u \in us, v \in UnitsOf(c) : v[2] <= u[2] => v \in us,
         \A u \in us : u \in kept /\ made[u] \in Here
  PROVE  TouchAll(c, us) \in Seq(Units) /\ Items(TouchAll(c, us)) = Here
<1> DEFINE n == Cardinality(us)
           paths == [k \in 1 .. n |-> made[<<c, k>>]]
           used == {made[u] : u \in us}
           rest == Without(files, used)
           own == Only(paths, Here)
<1>1. n \in Nat /\ us = {<<c, k>> : k \in 1 .. n}
  BY FirstUnits
<1>2. /\ files \in Seq(Units) /\ Here = Items(files) /\ Here \subseteq Units /\ us \subseteq Units
      /\ kept \subseteq Units
  BY DEF RetentionInv, RetentionTyped, Items, Here, UnitsOf
<1>3. paths \in Seq(Units) /\ Items(paths) = used
  <2> HIDE DEF n
  <2>1. \A k \in 1 .. n : <<c, k>> \in us /\ made[<<c, k>>] \in Units
    BY <1>1, <1>2
  <2>2. paths \in [1 .. n -> Units] BY <2>1
  <2>4. \A k \in 1 .. n : paths[k] = made[<<c, k>>] OBVIOUS
  <2> HIDE DEF paths
  <2>3. paths \in Seq(Units) /\ DOMAIN paths = 1 .. n BY <1>1, <2>2
  <2>5. Items(paths) = used BY <1>1, <2>3, <2>4, ZenonT(60) DEF Items
  <2> QED BY <2>3, <2>5
<1>4. rest \in Seq(Units) /\ Items(rest) = Here \ used
  BY <1>2, WithoutFacts
<1>5. own \in Seq(Units) /\ Items(own) = used \cap Here
  <2> HIDE DEF paths
  <2> QED BY <1>3, OnlyFacts
<1>6. used \subseteq Here
  OBVIOUS
<1>7. TouchAll(c, us) = rest \o own
  BY DEF TouchAll
<1> HIDE DEF rest, own, used
<1>8. rest \o own \in Seq(Units) /\ Items(rest \o own) = Items(rest) \cup Items(own)
  BY <1>4, <1>5, ConcatFacts
<1> QED BY <1>4, <1>5, <1>6, <1>7, <1>8

LEMMA ReusableFacts ==
  ASSUME RetentionInv, NEW c \in Clips, NEW stuck
  PROVE  LET us == Reusable(c, stuck) IN
           /\ us \in SUBSET UnitsOf(c)
           /\ \A u \in us, v \in UnitsOf(c) : v[2] <= u[2] => v \in us
           /\ \A u \in us : u \in kept /\ made[u] \in Here
<1>1. \A u \in UnitsOf(c) : u[2] \in Nat
  BY UnitShape DEF UnitsOf
<1>2. \A i, j, k \in Nat : i <= j /\ j <= k => i <= k
  OBVIOUS
<1>3. \A i \in Nat : i <= i
  OBVIOUS
<1> QED BY <1>1, <1>2, <1>3 DEF Reusable

LEMMA ReplayKeepsInv ==
  ASSUME RetentionInv, NEW c \in Clips, NEW r \in Clips, Replay(c, r) PROVE RetentionInv'
<1>1. /\ row[c] = "over" /\ row[r] = "new"
      /\ row' = [row EXCEPT ![r] = "live"] /\ text' = [text EXCEPT ![r] = text[c]]
      /\ UNCHANGED <<making, exports>>
  <2>1. r \in {d \in Clips : d >= r} BY RetentionAssumption
  <2> QED BY <2>1 DEF Replay, Fresh
<1>2. PICK stuck \in Stuck : LET reused == Reusable(c, stuck) IN
        /\ files' = IF reused = {} THEN files ELSE TouchAll(c, reused)
        /\ Restore(c, r, reused)
  BY DEF Replay
<1> DEFINE reused == Reusable(c, stuck)
<1>3. /\ reused \in SUBSET UnitsOf(c)
      /\ \A u \in reused, v \in UnitsOf(c) : v[2] <= u[2] => v \in reused
      /\ \A u \in reused : u \in kept /\ made[u] \in Here
  BY ReusableFacts
<1>4. /\ files' = IF reused = {} THEN files ELSE TouchAll(c, reused)
      /\ Restore(c, r, reused)
  BY <1>2
<1> HIDE DEF reused
<1>5. files' \in Seq(Units) /\ Here' = Here
  <2>1. CASE reused = {}
    BY <1>4, <2>1 DEF Here, RetentionInv, RetentionTyped
  <2>2. CASE reused # {}
    <3>1. TouchAll(c, reused) \in Seq(Units) /\ Items(TouchAll(c, reused)) = Here
      BY <1>3, AllTouchedAreHere
    <3>2. Here' = Items(files')
      BY DEF Here, Items
    <3> QED BY <1>4, <2>2, <3>1, <3>2
  <2> QED BY <2>1, <2>2
<1>6. /\ row \in [Clips -> {"new", "live", "over", "gone"}]
      /\ text \in [Clips -> Texts \cup {NoText}] /\ made \in [Units -> Units \cup {NoFile}]
      /\ kept \subseteq Units /\ Here \subseteq Units
  BY DEF RetentionInv, RetentionTyped, Here
<1>7. ASSUME NEW u \in kept
      PROVE  /\ u \in Units /\ u[1] \in Clips /\ u[1] # r /\ made[u] \in Units
             /\ made[u][1] \in Clips /\ made[u][1] # r
             /\ text[made[u][1]] = text[u[1]] /\ made[u][2] = u[2]
             /\ row[u[1]] # "new" /\ row[made[u][1]] # "new"
             /\ row[u[1]] = "live" => made[u] \in Here
  BY <1>1, <1>6, UnitShape DEF RetentionInv, PathsAreHeard
\* A path is one the clip already had, or the replayed clip's for the same part.
<1>8. /\ made' \in [Units -> Units \cup {NoFile}] /\ kept' \subseteq Units
      /\ \A v \in kept' :
           \/ v \in kept /\ made'[v] = made[v]
           \/ /\ v[1] = r
              /\ \E u \in kept : /\ u[1] = c /\ made'[v] = made[u] /\ v[2] = u[2]
                                /\ made[u] \in Here
  <2>1. CASE reused # UnitsOf(c)
    BY <1>4, <1>6, <2>1 DEF Restore
  <2>2. CASE reused = UnitsOf(c)
    <3>1. /\ made' = [u \in Units |-> IF u[1] = r /\ <<c, u[2]>> \in reused
                                      THEN made[<<c, u[2]>>] ELSE made[u]]
          /\ kept' = kept \cup {<<r, u[2]>> : u \in reused}
      BY <1>4, <2>2 DEF Restore
    <3>2. ASSUME NEW u \in reused
          PROVE  /\ u = <<c, u[2]>> /\ u[1] = c /\ <<r, u[2]>> \in Units /\ made[u] \in Units
                 /\ u \in kept /\ made[u] \in Here
      BY <1>3, <1>6 DEF UnitsOf, Units
    <3>3. made' \in [Units -> Units \cup {NoFile}]
      BY <1>6, <3>1, <3>2
    <3>4. kept' \subseteq Units
      BY <1>6, <3>1, <3>2
    <3>5. ASSUME NEW u \in reused PROVE made'[<<r, u[2]>>] = made[u]
      BY <3>1, <3>2
    <3>6. ASSUME NEW v \in kept PROVE made'[v] = made[v]
      BY <1>7, <3>1
    <3>7. ASSUME NEW v \in kept', v \notin kept
          PROVE  /\ v[1] = r
                 /\ \E u \in kept : /\ u[1] = c /\ made'[v] = made[u] /\ v[2] = u[2]
                                   /\ made[u] \in Here
      <4>1. PICK u \in reused : v = <<r, u[2]>>
        BY <3>1, <3>7
      <4>2. made'[v] = made[u] /\ v[1] = r /\ v[2] = u[2]
        BY <3>5, <4>1
      <4> QED BY <3>2, <4>2
    <3> QED BY <3>3, <3>4, <3>6, <3>7
  <2> QED BY <2>1, <2>2
<1>9. RetentionTyped'
  BY <1>1, <1>5, <1>6, <1>8 DEF RetentionInv, RetentionTyped
<1>10. /\ \A d \in Clips : d # r => row'[d] = row[d] /\ text'[d] = text[d]
       /\ row'[r] = "live" /\ text'[r] = text[c]
  BY <1>1, <1>6
<1>11. PathsAreHeard'
  <2> SUFFICES ASSUME NEW v \in kept'
               PROVE  /\ made'[v] \in Units /\ row'[v[1]] # "new" /\ row'[made'[v][1]] # "new"
                      /\ text'[made'[v][1]] = text'[v[1]] /\ made'[v][2] = v[2]
                      /\ row'[v[1]] = "live" => made'[v] \in Here'
    BY DEF PathsAreHeard
  <2>1. CASE v \in kept /\ made'[v] = made[v]
    BY <1>5, <1>7, <1>10, <2>1
  <2>2. CASE /\ v[1] = r
             /\ \E u \in kept : /\ u[1] = c /\ made'[v] = made[u] /\ v[2] = u[2]
                               /\ made[u] \in Here
    <3>1. PICK u \in kept : u[1] = c /\ made'[v] = made[u] /\ v[2] = u[2] /\ made[u] \in Here
      BY <2>2
    <3> QED BY <1>5, <1>7, <1>10, <2>2, <3>1
  <2> QED BY <1>8, <2>1, <2>2
<1>12. FoundIsPinned'
  BY <1>1, <1>5 DEF RetentionInv, FoundIsPinned
<1> QED BY <1>9, <1>11, <1>12 DEF RetentionInv

-----------------------------------------------------------------------------
(* Every step *)

LEMMA RetentionStep == RetentionInv /\ [RetentionNext]_retentionVars => RetentionInv'
<1> SUFFICES ASSUME RetentionInv, [RetentionNext]_retentionVars PROVE RetentionInv'
  OBVIOUS
<1>1. ASSUME NEW c \in Clips, ChunkEnds(c) PROVE RetentionInv'
  <2>1. EnforceLimit(row, limit) /\ UNCHANGED <<row, text, made, making, exports>>
    BY <1>1 DEF ChunkEnds
  <2> QED BY <2>1, PassKeepsInv
<1>2. ASSUME NEW n \in Limits, SetLimit(n) PROVE RetentionInv'
  <2>1. EnforceLimit(row, n) /\ UNCHANGED <<row, text, made, making, exports>>
    BY <1>2 DEF SetLimit
  <2> QED BY <2>1, PassKeepsInv
<1>3. ASSUME NEW u \in Units, Target(u) \/ Discard(u) PROVE RetentionInv'
  BY <1>3 DEF Target, Discard, RetentionInv, RetentionTyped, PathsAreHeard, FoundIsPinned, Here
<1>4. ASSUME NEW e \in exports, ExportEnds(e) PROVE RetentionInv'
  BY <1>4 DEF ExportEnds, RetentionInv, RetentionTyped, PathsAreHeard, FoundIsPinned, Here
<1>5. ASSUME UNCHANGED retentionVars PROVE RetentionInv'
  BY <1>5 DEF retentionVars, RetentionInv, RetentionTyped, PathsAreHeard, FoundIsPinned, Here
<1>6. ASSUME NEW c \in Clips, \E t \in Texts : Admit(c, t) PROVE RetentionInv'
  BY <1>6, AdmitKeepsInv
<1>7. ASSUME NEW c \in Clips, \E r \in Clips : Replay(c, r) PROVE RetentionInv'
  BY <1>7, ReplayKeepsInv
<1>8. ASSUME NEW c \in Clips, End(c) \/ RemoveHistory(c) \/ Export(c) PROVE RetentionInv'
  BY <1>8, EndKeepsInv, RemoveHistoryKeepsInv, ExportKeepsInv
<1>9. ASSUME NEW u \in Units, Publish(u) \/ Fail(u) \/ Play(u) PROVE RetentionInv'
  BY <1>9, PublishKeepsInv, FailKeepsInv, PlayKeepsInv
<1>10. ASSUME \/ Purge \/ \E ids \in SUBSET Here \ {{}} : Delete(ids)
              \/ \E withFiles \in BOOLEAN : ClearHistory(withFiles)
              \/ \E renamed \in SUBSET making : RestartDaemon(renamed)
       PROVE  RetentionInv'
  BY <1>10, PurgeKeepsInv, DeleteKeepsInv, ClearHistoryKeepsInv, RestartKeepsInv
<1> QED
  BY <1>1, <1>2, <1>3, <1>4, <1>5, <1>6, <1>7, <1>8, <1>9, <1>10 DEF RetentionNext

\* Every path that a clip not yet over holds names a file that is there and is a
\* render of the same text and part, through replays, evictions, purges and restarts.
THEOREM OwedAudioStays == RetentionSpec => []OwedAudioIsThere
<1>1. RetentionInv => OwedAudioIsThere
  BY RetentionInvImplies
<1> QED BY <1>1, RetentionBegins, RetentionStep, PTL DEF RetentionSpec

\* What an export found when it began is there until it ends.
THEOREM ExportsAreServed == RetentionSpec => []ExportsKeepTheirFiles
<1>1. RetentionInv => ExportsKeepTheirFiles
  BY RetentionInvImplies
<1> QED BY <1>1, RetentionBegins, RetentionStep, PTL DEF RetentionSpec
=============================================================================
