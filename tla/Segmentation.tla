----------------------------- MODULE Segmentation -----------------------------
(***************************************************************************)
(* How a submitted text is cut into the segments that are synthesized and  *)
(* played one after another.                                               *)
(*                                                                         *)
(* A text is the sequence of its words, each given by what stands before   *)
(* it: a space, a sentence's end, a blank line, or a blank line and the    *)
(* mark of a heading.  A heading is one word.  Characters, and the Markdown*)
(* that changes a block's wording and not its place, are left out.         *)
(***************************************************************************)
EXTENDS Integers, SequencesExt

CONSTANTS TargetWords, MaxWords, \* of a segment
          BoundaryWords,         \* the fewest before a cut at a boundary
          DocumentWords,         \* the fewest of a text cut at its paragraphs
          ParagraphWords,        \* the fewest of a segment of whole paragraphs
          Longest                \* bound: words of a text

ASSUME SegmentationAssumption ==
  /\ {TargetWords, MaxWords, BoundaryWords, DocumentWords, ParagraphWords, Longest} \subseteq Nat
  /\ 1 <= ParagraphWords /\ ParagraphWords <= DocumentWords
  /\ 1 <= BoundaryWords /\ BoundaryWords <= TargetWords /\ TargetWords <= MaxWords

VARIABLES words,    \* what stands before each word
          markdown, \* whether it is submitted as Markdown, or as plain text
          segments  \* of the clip it becomes, once it is admitted
segmentationVars == <<words, markdown, segments>>

Marks == {"space", "sentence", "paragraph", "heading"}
Documents == UNION {[1 .. n -> Marks] : n \in 1 .. Longest}

SegmentationTypeOK ==
  /\ words \in Documents /\ markdown \in BOOLEAN
  /\ \A i \in DOMAIN segments : segments[i] \in [from : Nat, to : Nat]

SegmentationInit ==
  /\ words \in {t \in Documents : t[1] \in {"space", "heading"}}
  /\ markdown \in BOOLEAN /\ segments = <<>>

-----------------------------------------------------------------------------
(* Spans of words *)

Span(from, to) == [from |-> from, to |-> to]
WordsOf(s) == s.to - s.from + 1

\* The spans s falls into when one that begins at first is followed by one that begins
\* at next[first], or is the last if that lies beyond s.
Cut(s, next) ==
  LET rest[first \in s.from .. s.to] ==
        IF next[first] > s.to THEN <<Span(first, s.to)>>
        ELSE <<Span(first, next[first] - 1)>> \o rest[next[first]]
  IN  rest[s.from]

\* The spans s falls into when each word of at begins a new one.
Pieces(s, at) ==
  Cut(s, [first \in s.from .. s.to |-> Min({i \in at : i > first} \cup {s.to + 1})])

\* Each span in its place replaced by the spans F makes of it.
EachOf(spans, F(_)) == FlattenSeq([i \in DOMAIN spans |-> F(spans[i])])

Breaks(t, s) == {i \in s.from .. s.to : t[i] \in {"paragraph", "heading"}}
StructuralSections(t, s) == Pieces(s, {i \in s.from .. s.to : t[i] = "heading"})

-----------------------------------------------------------------------------
(* segment_text *)

\* Paragraphs are gathered until they have the words of a segment.
Gather(got, p) ==
  LET q == IF got.pending = <<>> THEN p ELSE Span(got.pending[1].from, p.to)
  IN  IF WordsOf(q) >= ParagraphWords THEN [done |-> Append(got.done, q), pending |-> <<>>]
                                      ELSE [got EXCEPT !.pending = <<q>>]

\* Mutant: what is left when the paragraphs end is forgotten.
SettledForgetful(got) == got.done

\* What is left when the paragraphs end joins the last segment.
Settled(got) ==
  IF got.pending = <<>> THEN got.done
  ELSE [got.done EXCEPT ![Len(got.done)] = Span(@.from, got.pending[1].to)]

ParagraphSegments(t, s) ==
  LET paragraphs == Pieces(s, Breaks(t, s))
      got[n \in 0 .. Len(paragraphs)] ==
        IF n = 0 THEN [done |-> <<>>, pending |-> <<>>] ELSE Gather(got[n - 1], paragraphs[n])
  IN  IF WordsOf(s) < DocumentWords THEN <<s>> ELSE Settled(got[Len(paragraphs)])

\* Where a cut after first is looked for: as many words as a boundary needs, and
\* no more than a segment may have.
Window(first) == first + BoundaryWords .. first + MaxWords

\* The boundary of the kind that is nearest the target, the earlier of two.
NearestBoundary(t, s, first, marks) ==
  LET target == first + TargetWords
      candidates == {i \in Window(first) : i <= s.to /\ t[i] \in marks}
      away == [i \in candidates |-> IF i < target THEN target - i ELSE i - target]
  IN  {i \in candidates : \A j \in candidates \ {i} :
                            away[i] < away[j] \/ (away[i] = away[j] /\ i < j)}

\* A paragraph's end, else a sentence's, else the target itself.
ChooseFinalWord(t, s, first) ==
  LET paragraph == NearestBoundary(t, s, first, {"paragraph"})
      sentence == NearestBoundary(t, s, first, {"sentence"})
  IN  CHOOSE i \in IF paragraph # {} THEN paragraph
                   ELSE IF sentence # {} THEN sentence ELSE {first + TargetWords} : TRUE

BoundedSegments(t, s) ==
  IF WordsOf(s) <= TargetWords THEN <<s>>
  ELSE Cut(s, [first \in s.from .. s.to |-> IF s.to - first + 1 <= MaxWords THEN s.to + 1
                                            ELSE ChooseFinalWord(t, s, first)])

\* A short text only falls into paragraphs; a long one into sections, their
\* paragraphs, and spans of those.
SegmentText(t, s) ==
  IF WordsOf(s) <= TargetWords THEN ParagraphSegments(t, s)
  ELSE EachOf(StructuralSections(t, s), LAMBDA section :
         EachOf(ParagraphSegments(t, section), LAMBDA p : BoundedSegments(t, p)))

\* What Markdown makes of a text: headings lose their mark and stand alone.
Rendered(t) ==
  [i \in DOMAIN t |-> IF t[i] = "heading" \/ (i > 1 /\ t[i - 1] = "heading") THEN "paragraph"
                      ELSE t[i]]

\* The sections of a Markdown text with headings are segmented each on its own.
PrepareSpeechSegments(t, asMarkdown) ==
  LET whole == Span(1, Len(t))
  IN  IF asMarkdown /\ \E i \in DOMAIN t : t[i] = "heading"
      THEN EachOf(StructuralSections(t, whole), LAMBDA s : SegmentText(Rendered(t), s))
      ELSE SegmentText(t, whole)

AdmitText ==
  /\ segments = <<>> /\ segments' = PrepareSpeechSegments(words, markdown)
  /\ UNCHANGED <<words, markdown>>

SegmentationNext == AdmitText

SegmentationSpec == SegmentationInit /\ [][SegmentationNext]_segmentationVars

-----------------------------------------------------------------------------
(* Properties *)

InOrder ==
  FlattenSeq([i \in DOMAIN segments |->
                [k \in 1 .. WordsOf(segments[i]) |-> segments[i].from + k - 1]])
    = [i \in DOMAIN words |-> i]

\* A segment ends in mid-sentence only where no sentence ended in its reach.
BreathesWell(s) ==
  LET next == s.to + 1
      reach == s.from + BoundaryWords .. s.from + MaxWords
  IN  next \in DOMAIN words /\ words[next] = "space" =>
        \/ markdown /\ words[s.to] = "heading"
        \/ \A k \in reach \cap DOMAIN words : words[k] = "space"

\* The segments say the text, every word once and in order; none is empty or too long,
\* none of a Markdown text runs past a heading, and none is cut off in mid-sentence
\* that need not be.
SegmentsSayTheText ==
  segments # <<>> =>
    /\ InOrder
    /\ \A i \in DOMAIN segments :
         LET s == segments[i]
         IN  /\ WordsOf(s) \in 1 .. MaxWords
             /\ markdown => \A k \in s.from + 1 .. s.to : words[k] # "heading"
             /\ BreathesWell(s)
=============================================================================
