----------------------------- MODULE Glob_proofs -----------------------------
(***************************************************************************)
(* Proof that the glob matcher accepts a name exactly if it matches the    *)
(* pattern, and returns the leftmost cut of it, for every pattern and      *)
(* every name: going back to the last wildcard only is enough, as the      *)
(* matcher is never to the right of any cut of the name.                   *)
(***************************************************************************)
EXTENDS Glob, SequenceTheorems, TLAPS

(* The characters a segment takes besides what a wildcard stands for.      *)
Width(segment) ==
  (IF segment.prefix = "single_wildcard" THEN 1 ELSE 0) + Len(segment.literal)

Segment == [prefix : Placeholders, literal : Seq(Chars)]

Running == phase \in {"segment", "end"}

(* Where segment k starts in the current attempt.                          *)
Now(k) == IF k = Len(target) + 1 THEN candidate_ix ELSE indices[k]

(* The matcher is not to the right of a cut: up to the bookmark its pieces *)
(* start no later, the bookmarked wildcard ends ahead characters before    *)
(* the cut's, and the pieces after it start as many before.                *)
InReach(s, ahead) ==
  /\ \A k \in 1..segment_ix :
       IF bookmark.set /\ k <= bookmark.segment
       THEN indices[k] <= s[k]
       ELSE Start(target, s, k, candidate) = Now(k) + ahead
  /\ IF bookmark.set
     THEN Start(target, s, bookmark.segment + 1, candidate)
            = (bookmark.ix + Width(target[bookmark.segment])) + ahead
     ELSE ahead = 0

Shape ==
  /\ target \in Patterns /\ candidate \in Candidates
  /\ phase \in {"segment", "end", "matched", "failed"}
  /\ segment_ix \in 1..(Len(target) + 1)
  /\ candidate_ix \in 0..Len(candidate)
  /\ indices \in [1..Len(target) -> 0..Len(candidate)]
  /\ bookmark \in [set : BOOLEAN, ix : 0..Len(candidate), segment : Nat]
  /\ bookmark.set => bookmark.segment \in 1..Len(target)
  /\ bookmark.set \/ bookmark = NoBookmark
  /\ phase = "segment" => segment_ix <= Len(target)
  /\ phase = "end" => segment_ix = Len(target) + 1 /\ candidate_ix # Len(candidate)

(* The bookmark is at the last wildcard started.                           *)
BookmarkIsLast ==
  Running =>
    /\ bookmark.set => /\ bookmark.segment <= segment_ix
                       /\ target[bookmark.segment].prefix = "wildcard"
                       /\ indices[bookmark.segment] <= bookmark.ix
    /\ \A k \in 1..Len(target) :
         k <= segment_ix /\ (bookmark.set => bookmark.segment < k) => target[k].prefix # "wildcard"

AtStart ==
  Running => /\ Now(1) = 0
             /\ phase = "segment" =>
                  candidate_ix = IF bookmark.set /\ bookmark.segment = segment_ix
                                 THEN bookmark.ix ELSE indices[segment_ix]

PiecesFit ==
  Running => \A k \in 1..(segment_ix - 1) :
    FitsSegment(target[k], candidate, indices[k], Now(k + 1))

Sound    == phase = "matched" => indices \in Splits(target, candidate)
Leftmost == phase = "matched" =>
              \A s \in Splits(target, candidate), k \in 1..Len(target) : indices[k] <= s[k]
Complete == /\ phase = "failed" => Splits(target, candidate) = {}
            /\ Running => \A s \in Splits(target, candidate) :
                            \E ahead \in 0..Len(candidate) : InReach(s, ahead)

IInv == Shape /\ BookmarkIsLast /\ AtStart /\ PiecesFit /\ Sound /\ Leftmost /\ Complete

-----------------------------------------------------------------------------
(* The pieces of a well-formed pattern and name have a length.             *)
LEMMA Types ==
  ASSUME Shape
  PROVE  /\ target \in Seq(Segment) /\ Len(target) \in Nat
         /\ candidate \in Seq(Chars) /\ Len(candidate) \in Nat
         /\ \A k \in 1..Len(target) :
              /\ target[k] \in Segment
              /\ Len(target[k].literal) \in Nat /\ Width(target[k]) \in Nat
<1>1. /\ target \in Seq(Segment) /\ Len(target) \in Nat
      /\ candidate \in Seq(Chars) /\ Len(candidate) \in Nat
  <2>1. target \in Patterns /\ candidate \in Candidates
    BY DEF Shape
  <2>2. target \in Seq(Segment) /\ candidate \in Seq(Chars)
    BY <2>1, GlobAssumption, Zenon DEF Segment
  <2> QED
    BY <2>2
<1>2. \A k \in 1..Len(target) : target[k] \in Segment
  BY <1>1
<1>3. \A x \in Segment : Len(x.literal) \in Nat /\ Width(x) \in Nat
  BY DEF Segment, Width
<1> QED
  BY <1>1, <1>2, <1>3

(* A piece that fits ends where the literal does.                          *)
LEMMA PieceEnds ==
  ASSUME NEW x \in Segment, NEW text \in Seq(Chars),
         NEW from \in 0..Len(text), NEW to \in 0..Len(text),
         FitsSegment(x, text, from, to)
  PROVE  \E mid \in from..to : /\ FitsPrefix(x.prefix, text, from, mid)
                               /\ SubSeq(text, mid + 1, to) = x.literal
                               /\ to = mid + Len(x.literal)
<1>1. PICK mid \in from..to : /\ FitsPrefix(x.prefix, text, from, mid)
                              /\ SubSeq(text, mid + 1, to) = x.literal
  BY DEF FitsSegment
<1>2. Len(SubSeq(text, mid + 1, to)) = to - mid
  <2>1. \A i \in (mid + 1)..to : text[i] \in Chars
    BY <1>1
  <2>2. Len(SubSeq(text, mid + 1, to)) = IF mid + 1 <= to THEN to - (mid + 1) + 1 ELSE 0
    BY <2>1, <1>1, SubSeqProperties
  <2> QED
    BY <2>2, <1>1
<1>3. to = mid + Len(x.literal)
  <2>1. mid \in Nat /\ to \in Nat /\ Len(x.literal) = to - mid
    BY <1>1, <1>2
  <2>2. mid + (to - mid) = to
    BY <2>1
  <2> QED
    BY <2>1, <2>2, Zenon
<1> QED
  BY <1>1, <1>3

(* Sums, in the form the leaves need them.                                 *)
LEMMA Regroup ==
  ASSUME NEW a \in Nat, NEW b \in Nat
  PROVE  (a + 1) + b = a + (1 + b)
OBVIOUS

(* Moving the bookmark by one leaves a cut one less ahead.                 *)
LEMMA OneCloser ==
  ASSUME NEW a \in Nat, NEW b \in Nat, NEW c \in Nat, c >= 1
  PROVE  ((a + 1) + b) + (c - 1) = (a + b) + c
OBVIOUS

(* A match of the current segment is a piece that fits.                    *)
LEMMA EndsFit ==
  ASSUME Shape, segment_ix <= Len(target),
         NEW at \in 0..Len(candidate), NEW to \in SegmentEnds(at)
  PROVE  /\ to \in at..Len(candidate)
         /\ to = at + Width(target[segment_ix])
         /\ FitsSegment(target[segment_ix], candidate, at, to)
<1> DEFINE x   == target[segment_ix]
           mid == IF x.prefix = "single_wildcard" THEN at + 1 ELSE at
<1>1. /\ x \in Segment /\ Len(x.literal) \in Nat /\ Len(candidate) \in Nat
      /\ segment_ix \in 1..Len(target)
  BY Types DEF Shape
<1>2. /\ to = mid + Len(x.literal) /\ mid <= Len(candidate) /\ to <= Len(candidate)
      /\ x.prefix = "single_wildcard" => candidate[mid] # Period
      /\ SubSeq(candidate, mid + 1, to) = x.literal
  BY DEF SegmentEnds
<1>3. x.prefix \in Placeholders
  BY <1>1 DEF Segment
<1>4. FitsPrefix(x.prefix, candidate, at, mid)
  BY <1>2, <1>3 DEF FitsPrefix, Placeholders
<1>5. at \in Nat /\ mid \in Nat /\ at <= mid /\ Len(x.literal) \in Nat /\ Len(candidate) \in Nat
  BY <1>1
<1>6. mid \in at..to /\ to \in at..Len(candidate)
  <2> HIDE DEF mid, x
  <2> QED
    BY <1>2, <1>5
<1>7. to = at + Width(x)
  <2>1. CASE x.prefix = "single_wildcard"
    <3>1. mid = at + 1
      BY <2>1
    <3>2. Width(x) = 1 + Len(x.literal)
      BY <2>1, <1>5 DEF Width
    <3>3. (at + 1) + Len(x.literal) = at + (1 + Len(x.literal))
      BY <1>5, Regroup
    <3> QED
      BY <3>1, <3>2, <3>3, <1>2, Zenon
  <2>2. CASE x.prefix # "single_wildcard"
    <3>1. mid = at
      BY <2>2
    <3>2. Width(x) = Len(x.literal)
      BY <2>2, <1>5 DEF Width
    <3> HIDE DEF mid, x
    <3> QED
      BY <3>1, <3>2, <1>2
  <2> QED
    BY <2>1, <2>2
<1>8. FitsSegment(x, candidate, at, to)
  BY <1>2, <1>4, <1>6 DEF FitsSegment
<1> QED
  BY <1>6, <1>7, <1>8

(* A wildcard that starts earlier takes more text.                         *)
LEMMA WildcardGrows ==
  ASSUME NEW x, x.prefix = "wildcard", NEW text,
         NEW from \in Nat, NEW at \in Nat, NEW to \in Nat,
         from <= at, FitsSegment(x, text, at, to)
  PROVE  FitsSegment(x, text, from, to)
<1>1. PICK mid \in at..to : /\ FitsPrefix("wildcard", text, at, mid)
                            /\ SubSeq(text, mid + 1, to) = x.literal
  BY DEF FitsSegment
<1>2. mid \in from..to /\ FitsPrefix("wildcard", text, from, mid)
  BY <1>1 DEF FitsPrefix
<1> QED
  BY <1>1, <1>2 DEF FitsSegment

(* Where a piece that fits the current segment ends is where the matcher   *)
(* gets to from there, or from the end of what its wildcard stands for.    *)
LEMMA FitsEnds ==
  ASSUME Shape, segment_ix <= Len(target),
         NEW from \in 0..Len(candidate), NEW to \in 0..Len(candidate),
         FitsSegment(target[segment_ix], candidate, from, to)
  PROVE  \E at \in from..to :
           /\ to \in SegmentEnds(at)
           /\ target[segment_ix].prefix # "wildcard" => at = from
<1> DEFINE x == target[segment_ix]
<1>1. /\ x \in Segment /\ Len(x.literal) \in Nat /\ Len(candidate) \in Nat
      /\ candidate \in Seq(Chars)
  BY Types DEF Shape
<1>2. PICK mid \in from..to : /\ FitsPrefix(x.prefix, candidate, from, mid)
                              /\ SubSeq(candidate, mid + 1, to) = x.literal
                              /\ to = mid + Len(x.literal)
  BY <1>1, PieceEnds
<1>3. mid <= Len(candidate) /\ to <= Len(candidate)
  BY <1>1, <1>2
<1>4. CASE x.prefix = "single_wildcard"
  <2>1. mid = from + 1 /\ candidate[mid] # Period
    BY <1>2, <1>4 DEF FitsPrefix
  <2>2. to \in SegmentEnds(from)
    BY <2>1, <1>2, <1>3, <1>4, Zenon DEF SegmentEnds
  <2> QED
    BY <2>2, <1>2
<1>5. CASE x.prefix # "single_wildcard"
  <2>1. to \in SegmentEnds(mid)
    BY <1>2, <1>3, <1>5 DEF SegmentEnds
  <2>2. x.prefix # "wildcard" => mid = from
    BY <1>1, <1>2, <1>5 DEF FitsPrefix, Segment, Placeholders
  <2> QED
    BY <2>1, <2>2
<1> QED
  BY <1>4, <1>5

(* A segment that is not a wildcard takes as many characters wherever it   *)
(* fits.                                                                   *)
LEMMA FixedWidth ==
  ASSUME NEW x \in Segment, NEW text \in Seq(Chars),
         NEW from \in 0..Len(text), NEW to \in 0..Len(text),
         FitsSegment(x, text, from, to), x.prefix # "wildcard"
  PROVE  to = from + Width(x)
<1>1. PICK mid \in from..to : /\ FitsPrefix(x.prefix, text, from, mid)
                              /\ to = mid + Len(x.literal)
  BY PieceEnds
<1>2. Len(x.literal) \in Nat /\ from \in Nat /\ x.prefix \in Placeholders
  BY DEF Segment
<1>3. CASE x.prefix = "single_wildcard"
  <2>1. mid = from + 1 /\ Width(x) = 1 + Len(x.literal)
    BY <1>1, <1>2, <1>3 DEF FitsPrefix, Width
  <2> QED
    BY <2>1, <1>1, <1>2, Regroup, Zenon
<1>4. CASE x.prefix = "none"
  <2>1. mid = from /\ Width(x) = Len(x.literal)
    BY <1>1, <1>2, <1>4 DEF FitsPrefix, Width
  <2> QED
    BY <2>1, <1>1
<1> QED
  BY <1>2, <1>3, <1>4 DEF Placeholders

(* A wildcard's piece has the characters of its literal and some more.     *)
LEMMA WildcardWidth ==
  ASSUME NEW x \in Segment, NEW text \in Seq(Chars),
         NEW from \in 0..Len(text), NEW to \in 0..Len(text),
         FitsSegment(x, text, from, to), x.prefix = "wildcard"
  PROVE  \E ahead \in 0..Len(text) : to = (from + Width(x)) + ahead
<1>1. PICK mid \in from..to : to = mid + Len(x.literal)
  BY PieceEnds
<1>2. Len(x.literal) \in Nat /\ Width(x) = Len(x.literal)
  BY DEF Segment, Width
<1>3. /\ mid - from \in 0..Len(text)
      /\ to = (from + Len(x.literal)) + (mid - from)
  BY <1>1, <1>2
<1> QED
  BY <1>2, <1>3

(* The pieces of a cut.                                                    *)
LEMMA Pieces ==
  ASSUME Shape, NEW s \in Splits(target, candidate), NEW k \in 1..Len(target)
  PROVE  /\ s \in [1..Len(target) -> 0..Len(candidate)]
         /\ s[k] \in 0..Len(candidate) /\ Start(target, s, k, candidate) = s[k]
         /\ Start(target, s, k + 1, candidate) \in 0..Len(candidate)
         /\ FitsSegment(target[k], candidate, s[k], Start(target, s, k + 1, candidate))
<1>1. Len(target) \in Nat /\ Len(candidate) \in Nat
  BY Types
<1>2. /\ s \in [1..Len(target) -> 0..Len(candidate)]
      /\ FitsSegment(target[k], candidate, s[k], Start(target, s, k + 1, candidate))
  BY DEF Splits
<1>3. k # Len(target) + 1 /\ (k + 1 # Len(target) + 1 => k + 1 \in 1..Len(target))
  BY <1>1
<1>4. Len(candidate) \in 0..Len(candidate)
  BY <1>1
<1> QED
  BY <1>2, <1>3, <1>4 DEF Start

(* Where the matcher gets to from a segment that matches is where its      *)
(* piece ends in a cut within reach, as many characters short of it as     *)
(* before.                                                                 *)
LEMMA Advance ==
  ASSUME IInv, phase = "segment", NEW to \in SegmentEnds(candidate_ix),
         NEW s \in Splits(target, candidate), NEW ahead \in 0..Len(candidate),
         InReach(s, ahead)
  PROVE  Start(target, s, segment_ix + 1, candidate) = to + ahead
<1> DEFINE k == segment_ix
           x == target[segment_ix]
<1>1. Shape /\ k \in 1..Len(target) /\ candidate_ix \in 0..Len(candidate)
  BY DEF IInv, Shape
<1>2. /\ x \in Segment /\ Width(x) \in Nat /\ candidate \in Seq(Chars)
      /\ Len(target) \in Nat /\ Len(candidate) \in Nat
  BY <1>1, Types
<1>3. to = candidate_ix + Width(x)
  BY <1>1, EndsFit
<1>4. CASE bookmark.set /\ bookmark.segment = k
  <2>1. candidate_ix = bookmark.ix
    BY <1>4 DEF IInv, AtStart, Running
  <2> QED
    BY <2>1, <1>3, <1>4, Zenon DEF InReach
<1>5. CASE ~(bookmark.set /\ bookmark.segment = k)
  <2>1. bookmark.set => bookmark.segment < k
    BY <1>1, <1>5 DEF IInv, Shape, BookmarkIsLast, Running
  <2>2. x.prefix # "wildcard"
    BY <1>1, <2>1 DEF IInv, BookmarkIsLast, Running
  <2>3. candidate_ix = Now(k)
    BY <1>1, <1>2, <1>5 DEF IInv, AtStart, Running, Now
  <2>4. s[k] = candidate_ix + ahead
    <3>1. Start(target, s, k, candidate) = Now(k) + ahead
      BY <2>1, <1>1 DEF InReach, Shape
    <3> QED
      BY <3>1, <2>3, <1>1, Pieces
  <2>5. Start(target, s, k + 1, candidate) = s[k] + Width(x)
    BY <2>2, <1>1, <1>2, Pieces, FixedWidth
  <2>6. (candidate_ix + ahead) + Width(x) = (candidate_ix + Width(x)) + ahead
    BY <1>1, <1>2
  <2> QED
    BY <2>4, <2>5, <2>6, <1>3, Zenon
<1> QED
  BY <1>4, <1>5

(* At a mismatch every cut within reach gives the bookmarked wildcard more *)
(* text: without a bookmark there is none.                                 *)
LEMMA Stuck ==
  ASSUME IInv, Mismatch,
         NEW s \in Splits(target, candidate), NEW ahead \in 0..Len(candidate),
         InReach(s, ahead)
  PROVE  bookmark.set /\ ahead >= 1
<1> DEFINE k == segment_ix
<1>1. /\ Shape /\ k \in 1..(Len(target) + 1) /\ candidate_ix \in 0..Len(candidate)
      /\ Len(target) \in Nat /\ Len(candidate) \in Nat
  BY Types DEF IInv, Shape
<1>2. SUFFICES ASSUME ahead = 0 PROVE FALSE
  BY <1>1 DEF InReach
<1>3. CASE phase = "segment"
  <2>1. k \in 1..Len(target) /\ SegmentEnds(candidate_ix) = {}
    BY <1>1, <1>3 DEF Shape, Mismatch
  <2>2. PICK at \in s[k]..Start(target, s, k + 1, candidate) :
          /\ Start(target, s, k + 1, candidate) \in SegmentEnds(at)
          /\ target[k].prefix # "wildcard" => at = s[k]
    BY <1>1, <2>1, Pieces, FitsEnds
  <2>3. at = candidate_ix
    <3>1. CASE bookmark.set /\ bookmark.segment = k
      <4>1. candidate_ix = bookmark.ix
        BY <1>3, <3>1 DEF IInv, AtStart, Running
      <4>2. Start(target, s, k + 1, candidate) = candidate_ix + Width(target[k])
        <5>1. (candidate_ix + Width(target[k])) + 0 = candidate_ix + Width(target[k])
          BY <1>1, <2>1, Types
        <5> QED
          BY <4>1, <5>1, <3>1, <1>2, Zenon DEF InReach
      <4>3. at \in 0..Len(candidate)
        BY <1>1, <2>1, <2>2, Pieces
      <4>4. Start(target, s, k + 1, candidate) = at + Width(target[k])
        BY <1>1, <2>1, <2>2, <4>3, EndsFit
      <4> QED
        BY <4>2, <4>3, <4>4, <1>1, <2>1, Types
    <3>2. CASE ~(bookmark.set /\ bookmark.segment = k)
      <4>1. (bookmark.set => bookmark.segment < k) /\ target[k].prefix # "wildcard"
        BY <1>1, <1>3, <2>1, <3>2 DEF IInv, Shape, BookmarkIsLast, Running
      <4>2. candidate_ix = Now(k)
        BY <1>1, <1>3, <2>1, <3>2 DEF IInv, AtStart, Running, Now
      <4>3. Start(target, s, k, candidate) = Now(k) + ahead
        BY <1>1, <4>1 DEF InReach, Shape
      <4> QED
        BY <4>1, <4>2, <4>3, <2>1, <2>2, <1>1, <1>2, Pieces
    <3> QED
      BY <3>1, <3>2
  <2> QED
    BY <2>1, <2>2, <2>3
<1>4. CASE phase = "end"
  <2>1. k = Len(target) + 1 /\ candidate_ix # Len(candidate)
    BY <1>1, <1>4 DEF Shape
  <2>2. ~(bookmark.set /\ k <= bookmark.segment)
    BY <1>1, <2>1 DEF Shape
  <2>3. Start(target, s, k, candidate) = Now(k) + ahead
    BY <1>1, <2>2 DEF InReach
  <2>4. Start(target, s, k, candidate) = Len(candidate) /\ Now(k) = candidate_ix
    BY <2>1, <1>1 DEF Start, Now
  <2> QED
    BY <2>1, <2>3, <2>4, <1>1, <1>2
<1> QED
  BY <1>3, <1>4 DEF Mismatch

-----------------------------------------------------------------------------
(* Before the first segment every cut of the name is within reach.         *)
LEMMA InitIInv == Init => IInv
<1> SUFFICES ASSUME Init PROVE IInv
  OBVIOUS
<1>1. /\ Len(target) \in Nat /\ Len(candidate) \in Nat
      /\ target \in Seq(Segment) /\ candidate \in Seq(Chars)
  <2>1. target \in Seq(Segment) /\ candidate \in Seq(Chars)
    BY GlobAssumption, Zenon DEF Segment, Init
  <2> QED
    BY <2>1
<1>2. CASE target = <<>>
  <2>1. /\ segment_ix = 1 /\ candidate_ix = 0 /\ Len(target) = 0 /\ bookmark = NoBookmark
        /\ indices = [k \in 1..Len(target) |-> 0]
        /\ phase = IF candidate = <<>> THEN "matched" ELSE "failed"
    BY <1>2 DEF Init
  <2>2. Shape
    BY <2>1, <1>1 DEF Shape, Init, NoBookmark
  <2>3. ~Running
    BY <2>1 DEF Running
  <2>4. \A s : Start(target, s, 1, candidate) = Len(candidate)
    BY <2>1 DEF Start
  <2>5. Sound
    <3>1. indices \in [1..Len(target) -> 0..Len(candidate)]
      BY <2>2 DEF Shape
    <3>2. phase = "matched" => Len(candidate) = 0
      BY <2>1
    <3> QED
      BY <2>1, <2>4, <3>1, <3>2 DEF Sound, Splits
  <2>6. Complete
    <3>1. Splits(target, candidate) # {} => Len(candidate) = 0
      BY <2>4 DEF Splits
    <3>2. Len(candidate) = 0 => candidate = <<>>
      BY <1>1
    <3> QED
      BY <2>1, <2>3, <3>1, <3>2 DEF Complete
  <2>7. Leftmost
    BY <2>1 DEF Leftmost
  <2> QED
    BY <2>2, <2>3, <2>5, <2>6, <2>7 DEF IInv, BookmarkIsLast, AtStart, PiecesFit
<1>3. CASE target # <<>>
  <2>1. Len(target) >= 1 /\ 1 \in 1..Len(target)
    BY <1>1, <1>3
  <2>2. /\ segment_ix = 1 /\ candidate_ix = 0 /\ phase = "segment"
        /\ indices = [k \in 1..Len(target) |-> 0]
        /\ bookmark = IF target[1].prefix = "wildcard" THEN Mark(0, 1) ELSE NoBookmark
    BY <1>3 DEF Init
  <2>3. Shape
    BY <2>1, <2>2, <1>1 DEF Shape, Init, NoBookmark, Mark
  <2>4. BookmarkIsLast
    BY <2>1, <2>2, <1>1 DEF BookmarkIsLast, NoBookmark, Mark
  <2>5. AtStart
    BY <2>1, <2>2, <1>1 DEF AtStart, NoBookmark, Mark, Now
  <2>6. PiecesFit /\ Sound /\ Leftmost
    BY <2>2 DEF PiecesFit, Sound, Leftmost
  <2>7. ASSUME NEW s \in Splits(target, candidate)
        PROVE  \E ahead \in 0..Len(candidate) : InReach(s, ahead)
    <3>1. s[1] = 0 /\ Start(target, s, 1, candidate) = 0
      BY <2>1, <2>3, Pieces DEF Splits
    <3>2. CASE target[1].prefix = "wildcard"
      <4>1. PICK ahead \in 0..Len(candidate) :
              Start(target, s, 2, candidate) = (0 + Width(target[1])) + ahead
        <5>1. /\ Start(target, s, 1 + 1, candidate) \in 0..Len(candidate)
              /\ FitsSegment(target[1], candidate, 0, Start(target, s, 1 + 1, candidate))
          BY <2>1, <2>3, <3>1, Pieces
        <5>2. target[1] \in Segment /\ 0 \in 0..Len(candidate) /\ 1 + 1 = 2
          BY <2>1, <1>1
        <5> QED
          BY <5>1, <5>2, <3>2, <1>1, WildcardWidth
      <4>2. bookmark.set /\ bookmark.segment = 1 /\ bookmark.ix = 0
        BY <2>2, <3>2 DEF Mark
      <4>3. InReach(s, ahead)
        BY <4>1, <4>2, <3>1, <2>1, <2>2 DEF InReach
      <4> QED
        BY <4>3
    <3>3. CASE target[1].prefix # "wildcard"
      <4>1. ~bookmark.set
        BY <2>2, <3>3 DEF NoBookmark
      <4>2. Now(1) = 0
        BY <2>1, <2>2, <1>1 DEF Now
      <4>3. InReach(s, 0)
        BY <4>1, <4>2, <3>1, <2>2 DEF InReach
      <4> QED
        BY <4>3, <1>1
    <3> QED
      BY <3>2, <3>3
  <2>8. Complete
    BY <2>2, <2>7 DEF Complete
  <2> QED
    BY <2>3, <2>4, <2>5, <2>6, <2>8 DEF IInv
<1> QED
  BY <1>2, <1>3

(* Going back to one character after the bookmark (restore_wildcard()).    *)
LEMMA RetryIInv == IInv /\ Retry => IInv'
<1> SUFFICES ASSUME IInv, Retry PROVE IInv'
  OBVIOUS
<1> DEFINE B == bookmark.segment
<1>1. /\ Shape /\ Running /\ Len(target) \in Nat /\ Len(candidate) \in Nat
      /\ bookmark.set /\ B \in 1..Len(target) /\ bookmark.ix \in Nat
      /\ Len(target[B].literal) \in Nat
      /\ bookmark.ix + 1 + Len(target[B].literal) <= Len(candidate)
  BY Types DEF IInv, Shape, Retry, CanRestore, Mismatch, Running
<1>2. /\ target' = target /\ candidate' = candidate /\ indices' = indices
      /\ phase' = "segment" /\ segment_ix' = B /\ candidate_ix' = bookmark.ix + 1
      /\ bookmark'.set /\ bookmark'.segment = B /\ bookmark'.ix = bookmark.ix + 1
  <2>1. bookmark' = [bookmark EXCEPT !.ix = bookmark.ix + 1]
    BY DEF Retry, RestoreWildcard
  <2>2. /\ target' = target /\ candidate' = candidate /\ indices' = indices
        /\ phase' = "segment" /\ segment_ix' = B /\ candidate_ix' = bookmark.ix + 1
    BY DEF Retry, RestoreWildcard
  <2>3. bookmark \in [set : BOOLEAN, ix : 0..Len(candidate), segment : Nat]
    BY <1>1 DEF Shape
  <2> QED
    BY <2>1, <2>2, <2>3, <1>1
<1>3. bookmark.ix + 1 \in 0..Len(candidate)
  BY <1>1
<1>4. Shape'
  <2>1. bookmark' \in [set : BOOLEAN, ix : 0..Len(candidate), segment : Nat]
    <3>1. bookmark' = [bookmark EXCEPT !.ix = bookmark.ix + 1]
      BY DEF Retry, RestoreWildcard
    <3>2. bookmark \in [set : BOOLEAN, ix : 0..Len(candidate), segment : Nat]
      BY <1>1 DEF Shape
    <3> QED
      BY <3>1, <3>2, <1>3
  <2> QED
    BY <2>1, <1>1, <1>2, <1>3 DEF Shape
<1>5. /\ B <= segment_ix /\ target[B].prefix = "wildcard" /\ indices[B] <= bookmark.ix
      /\ indices[B] \in 0..Len(candidate)
  BY <1>1 DEF IInv, Shape, BookmarkIsLast
<1>6. BookmarkIsLast'
  BY <1>1, <1>2, <1>5 DEF BookmarkIsLast
<1>7. \A k \in 1..Len(target) : Now(k) = indices[k] /\ Now(k)' = indices[k]
  BY <1>1, <1>2 DEF Now
<1>8. AtStart'
  BY <1>1, <1>2, <1>7 DEF IInv, AtStart
<1>9. PiecesFit'
  <2>1. \A k \in 1..(B - 1) : /\ k \in 1..(segment_ix - 1) /\ k + 1 \in 1..Len(target)
                              /\ Now(k + 1) = Now(k + 1)'
    <3>1. \A k \in 1..(B - 1) : k \in 1..(segment_ix - 1) /\ k + 1 \in 1..Len(target)
      BY <1>1, <1>5 DEF Shape
    <3> QED
      BY <3>1, <1>7
  <2> QED
    BY <2>1, <1>1, <1>2 DEF IInv, PiecesFit
<1>10. Sound' /\ Leftmost'
  BY <1>2 DEF Sound, Leftmost
<1>11. ASSUME NEW s \in Splits(target, candidate)
       PROVE  \E ahead \in 0..Len(candidate) : InReach(s, ahead)'
  <2>1. PICK ahead \in 0..Len(candidate) : InReach(s, ahead)
    BY <1>1, <1>11 DEF IInv, Complete
  <2>2. ahead >= 1
    BY <2>1, Stuck DEF Retry
  <2>3. Start(target, s, B + 1, candidate) = (bookmark.ix + Width(target[B])) + ahead
    BY <2>1, <1>1 DEF InReach
  <2>4. /\ ahead - 1 \in 0..Len(candidate)
        /\ ((bookmark.ix + 1) + Width(target[B])) + (ahead - 1)
             = (bookmark.ix + Width(target[B])) + ahead
    <3>1. Width(target[B]) \in Nat /\ ahead \in Nat /\ bookmark.ix \in Nat
      BY <1>1, Types
    <3>2. ahead - 1 \in 0..Len(candidate)
      BY <3>1, <2>2, <1>1
    <3> QED
      BY <3>1, <3>2, <2>2, OneCloser
  <2>5. \A k \in 1..B : k \in 1..segment_ix /\ k <= B /\ indices[k] <= s[k]
    BY <2>1, <1>1, <1>5 DEF InReach, Shape
  <2>6. InReach(s, ahead - 1)'
    BY <2>3, <2>4, <2>5, <1>2 DEF InReach
  <2> QED
    BY <2>4, <2>6
<1>12. Complete'
  BY <1>2, <1>11 DEF Complete
<1> QED
  BY <1>4, <1>6, <1>8, <1>9, <1>10, <1>12 DEF IInv

(* When there is no room after the bookmark, no cut of the name is left.   *)
LEMMA GiveUpIInv == IInv /\ GiveUp => IInv'
<1> SUFFICES ASSUME IInv, GiveUp PROVE IInv'
  OBVIOUS
<1>1. /\ Shape /\ Running /\ Len(target) \in Nat /\ Len(candidate) \in Nat
      /\ phase' = "failed"
      /\ UNCHANGED <<target, candidate, segment_ix, candidate_ix, indices, bookmark>>
  BY Types DEF IInv, GiveUp, Mismatch, Running, place
<1>2. Shape' /\ ~Running' /\ Sound' /\ Leftmost'
  BY <1>1 DEF Shape, Running, Sound, Leftmost
<1>3. Splits(target, candidate) = {}
  <2>1. SUFFICES ASSUME Splits(target, candidate) # {} PROVE FALSE
    OBVIOUS
  <2>2. PICK s \in Splits(target, candidate), ahead \in 0..Len(candidate) : InReach(s, ahead)
    BY <1>1, <2>1 DEF IInv, Complete
  <2>3. bookmark.set /\ ahead >= 1
    BY <2>2, Stuck DEF GiveUp
  <2> DEFINE B == bookmark.segment
  <2>4. B \in 1..Len(target) /\ bookmark.ix \in Nat /\ target[B].prefix = "wildcard"
    BY <2>3, <1>1 DEF IInv, Shape, BookmarkIsLast
  <2>5. Len(target[B].literal) \in Nat /\ Width(target[B]) = Len(target[B].literal)
    <3>1. target[B] \in Segment
      BY <2>4, <1>1, Types
    <3> QED
      BY <3>1, <2>4 DEF Segment, Width
  <2>6. Start(target, s, B + 1, candidate) = (bookmark.ix + Len(target[B].literal)) + ahead
    BY <2>2, <2>3, <2>5 DEF InReach
  <2>7. Start(target, s, B + 1, candidate) <= Len(candidate)
    BY <2>4, <1>1, Pieces
  <2>8. bookmark.ix + 1 + Len(target[B].literal) > Len(candidate)
    BY <2>3, <2>4, <2>5, <1>1 DEF GiveUp, CanRestore
  <2> QED
    BY <2>3, <2>4, <2>5, <2>6, <2>7, <2>8, <1>1
<1>4. Complete'
  BY <1>1, <1>3 DEF Complete
<1> QED
  BY <1>2, <1>4 DEF IInv, BookmarkIsLast, AtStart, PiecesFit

(* The current segment's piece starts where the indices say, even after    *)
(* the bookmark moved on.                                                  *)
LEMMA CurrentPiece ==
  ASSUME IInv, phase = "segment", NEW to \in SegmentEnds(candidate_ix)
  PROVE  /\ to \in 0..Len(candidate)
         /\ FitsSegment(target[segment_ix], candidate, indices[segment_ix], to)
<1> DEFINE k == segment_ix
<1>1. /\ Shape /\ k \in 1..Len(target) /\ candidate_ix \in 0..Len(candidate)
      /\ Len(candidate) \in Nat /\ indices[k] \in 0..Len(candidate)
  BY Types DEF IInv, Shape
<1>2. to \in candidate_ix..Len(candidate) /\ FitsSegment(target[k], candidate, candidate_ix, to)
  BY <1>1, EndsFit
<1>3. CASE bookmark.set /\ bookmark.segment = k
  <2>1. /\ candidate_ix = bookmark.ix /\ target[k].prefix = "wildcard"
        /\ indices[k] <= candidate_ix
    BY <1>3 DEF IInv, AtStart, BookmarkIsLast, Running
  <2> QED
    BY <2>1, <1>1, <1>2, WildcardGrows
<1>4. CASE ~(bookmark.set /\ bookmark.segment = k)
  <2>1. candidate_ix = indices[k]
    BY <1>4 DEF IInv, AtStart, Running
  <2> QED
    BY <2>1, <1>1, <1>2
<1> QED
  BY <1>3, <1>4

(* The last segment matches: the whole pattern does, or characters are     *)
(* left over.                                                              *)
LEMMA LastSegmentIInv ==
  ASSUME IInv, MatchSegment, segment_ix = Len(target)
  PROVE  IInv'
<1> DEFINE k == segment_ix
<1>1. /\ Shape /\ Running /\ phase = "segment" /\ k \in 1..Len(target)
      /\ Len(target) \in Nat /\ Len(candidate) \in Nat
      /\ indices \in [1..Len(target) -> 0..Len(candidate)]
  BY Types DEF IInv, Shape, MatchSegment, Running
<1>2. PICK to \in SegmentEnds(candidate_ix) :
        /\ candidate_ix' = to /\ segment_ix' = Len(target) + 1
        /\ phase' = IF to = Len(candidate) THEN "matched" ELSE "end"
        /\ UNCHANGED <<target, candidate, indices, bookmark>>
  BY <1>1 DEF MatchSegment
<1>3. to \in 0..Len(candidate) /\ FitsSegment(target[k], candidate, indices[k], to)
  BY <1>1, CurrentPiece
<1>4. Shape'
  BY <1>1, <1>2, <1>3 DEF Shape
<1>5. BookmarkIsLast'
  <2>1. Len(target) + 1 \in Nat /\ \A j \in 1..Len(target) : j <= k
    BY <1>1
  <2>2. bookmark.set => bookmark.segment <= Len(target) + 1
    BY <1>1 DEF Shape
  <2> QED
    BY <1>1, <1>2, <2>1, <2>2 DEF IInv, BookmarkIsLast
<1>6. \A j \in 1..Len(target) : Now(j) = indices[j] /\ Now(j)' = indices[j]
  BY <1>1, <1>2 DEF Now
<1>7. AtStart'
  <2>1. Now(1)' = 0
    BY <1>1, <1>6 DEF IInv, AtStart
  <2>2. phase' # "segment"
    BY <1>2
  <2> QED
    BY <2>1, <2>2 DEF AtStart
<1>8. \A j \in 1..Len(target) :
        FitsSegment(target[j], candidate, indices[j], IF j = Len(target) THEN to ELSE indices[j + 1])
  <2>1. ASSUME NEW j \in 1..Len(target), j # Len(target)
        PROVE  FitsSegment(target[j], candidate, indices[j], indices[j + 1])
    <3>1. j \in 1..(k - 1) /\ j + 1 \in 1..Len(target)
      BY <1>1, <2>1
    <3> QED
      BY <3>1, <1>1, <1>6 DEF IInv, PiecesFit
  <2> QED
    BY <2>1, <1>3
<1>9. PiecesFit'
  <2>1. ASSUME NEW j \in 1..Len(target)
        PROVE  Now(j + 1)' = IF j = Len(target) THEN to ELSE indices[j + 1]
    <3>1. CASE j = Len(target)
      BY <1>2, <3>1 DEF Now
    <3>2. CASE j # Len(target)
      <4>1. j + 1 \in 1..Len(target)
        BY <1>1, <3>2
      <4> QED
        BY <4>1, <1>6, <3>2
    <3> QED
      BY <3>1, <3>2
  <2>2. segment_ix' - 1 = Len(target)
    BY <1>1, <1>2
  <2> QED
    BY <1>2, <1>8, <2>1, <2>2 DEF PiecesFit
<1>10. Sound'
  <2>1. SUFFICES ASSUME to = Len(candidate) PROVE indices \in Splits(target, candidate)
    BY <1>2 DEF Sound
  <2>2. Start(target, indices, 1, candidate) = 0
    <3>1. 1 \in 1..Len(target) /\ 1 # Len(target) + 1
      BY <1>1
    <3> QED
      BY <3>1, <1>1, <1>6 DEF IInv, AtStart, Start
  <2>3. \A j \in 1..Len(target) :
          Start(target, indices, j + 1, candidate) = IF j = Len(target) THEN to ELSE indices[j + 1]
    BY <1>1, <2>1 DEF Start
  <2> QED
    BY <1>1, <1>8, <2>2, <2>3 DEF Splits
<1>11. ASSUME NEW s \in Splits(target, candidate)
       PROVE  \E ahead \in 0..Len(candidate) : InReach(s, ahead)'
  <2>1. PICK ahead \in 0..Len(candidate) : InReach(s, ahead)
    BY <1>1, <1>11 DEF IInv, Complete
  <2>2. Start(target, s, Len(target) + 1, candidate) = to + ahead
    BY <2>1, <1>1, Advance
  <2>3. Now(Len(target) + 1)' = to /\ ~(bookmark.set /\ Len(target) + 1 <= bookmark.segment)
    BY <1>1, <1>2 DEF Now, Shape
  <2>4. \A j \in 1..(Len(target) + 1) : j # Len(target) + 1 => j \in 1..k
    BY <1>1
  <2>5. \A j \in 1..(Len(target) + 1) :
          IF bookmark.set /\ j <= bookmark.segment
          THEN indices[j] <= s[j]
          ELSE Start(target, s, j, candidate) = Now(j)' + ahead
    <3>1. ASSUME NEW j \in 1..k
          PROVE  IF bookmark.set /\ j <= bookmark.segment
                 THEN indices[j] <= s[j]
                 ELSE Start(target, s, j, candidate) = Now(j)' + ahead
      <4>1. Now(j) = Now(j)'
        BY <1>1, <1>6
      <4> QED
        BY <2>1, <4>1, Zenon DEF InReach
    <3>2. ASSUME NEW j, j = Len(target) + 1
          PROVE  IF bookmark.set /\ j <= bookmark.segment
                 THEN indices[j] <= s[j]
                 ELSE Start(target, s, j, candidate) = Now(j)' + ahead
      <4>1. Now(j)' = to
        BY <3>2, <1>2 DEF Now
      <4> QED
        BY <4>1, <3>2, <2>2, <2>3, Zenon
    <3> QED
      BY <2>4, <3>1, <3>2, Zenon
  <2>6. InReach(s, ahead)'
    BY <2>1, <2>5, <1>2 DEF InReach
  <2> QED
    BY <2>6
<1>12. Complete'
  BY <1>2, <1>11 DEF Complete
<1>13. Leftmost'
  <2>1. ASSUME NEW s \in Splits(target, candidate), NEW j \in 1..Len(target)
        PROVE  indices[j] <= s[j]
    <3>1. PICK ahead \in 0..Len(candidate) : InReach(s, ahead)
      BY <1>1 DEF IInv, Complete
    <3>2. j \in 1..segment_ix /\ indices[j] \in Nat
      BY <1>1
    <3>3. CASE bookmark.set /\ j <= bookmark.segment
      BY <3>1, <3>2, <3>3 DEF InReach
    <3>4. CASE ~(bookmark.set /\ j <= bookmark.segment)
      <4>1. Start(target, s, j, candidate) = Now(j) + ahead
        BY <3>1, <3>2, <3>4 DEF InReach
      <4>2. s[j] = indices[j] + ahead
        BY <4>1, <1>1, <1>6, Pieces
      <4> QED
        BY <4>2, <3>2
    <3> QED
      BY <3>3, <3>4
  <2> QED
    BY <2>1, <1>2 DEF Leftmost
<1> QED
  BY <1>4, <1>5, <1>7, <1>9, <1>10, <1>12, <1>13 DEF IInv

(* A segment before the last matches and the next one starts               *)
(* (start_new_segment()).                                                  *)
LEMMA NextSegmentIInv ==
  ASSUME IInv, MatchSegment, segment_ix < Len(target)
  PROVE  IInv'
<1> PICK k \in Nat : k = segment_ix
  BY DEF IInv, Shape
<1>1. /\ Shape /\ Running /\ phase = "segment" /\ k = segment_ix
      /\ k \in 1..Len(target) /\ k + 1 \in 1..Len(target)
      /\ Len(target) \in Nat /\ Len(candidate) \in Nat
      /\ indices \in [1..Len(target) -> 0..Len(candidate)]
  BY Types DEF IInv, Shape, MatchSegment, Running
<1>2. PICK to \in SegmentEnds(candidate_ix) :
        /\ candidate_ix' = to /\ segment_ix' = k + 1 /\ phase' = "segment"
        /\ indices' = [indices EXCEPT ![k + 1] = to]
        /\ bookmark' = IF target[k + 1].prefix = "wildcard" THEN Mark(to, k + 1) ELSE bookmark
        /\ UNCHANGED <<target, candidate>>
  BY <1>1 DEF MatchSegment, StartSegment
<1>3. to \in 0..Len(candidate) /\ FitsSegment(target[k], candidate, indices[k], to)
  BY <1>1, CurrentPiece
<1>4. Shape'
  <2>1. bookmark' \in [set : BOOLEAN, ix : 0..Len(candidate), segment : Nat]
    BY <1>1, <1>2, <1>3 DEF Shape, Mark
  <2>2. /\ bookmark'.set => bookmark'.segment \in 1..Len(target)
        /\ bookmark'.set \/ bookmark' = NoBookmark
    BY <1>1, <1>2 DEF Shape, Mark
  <2>3. indices' \in [1..Len(target) -> 0..Len(candidate)] /\ k + 1 \in 1..(Len(target) + 1)
    BY <1>1, <1>2, <1>3
  <2> QED
    BY <1>1, <1>2, <1>3, <2>1, <2>2, <2>3 DEF Shape
<1>5. /\ \A j \in 1..k : j \in 1..Len(target) /\ Now(j) = indices[j] /\ Now(j)' = indices[j]
                         /\ indices'[j] = indices[j]
      /\ Now(k + 1)' = to /\ indices'[k + 1] = to
  <2>1. \A j \in 1..k : j \in 1..Len(target) /\ j # k + 1 /\ j # Len(target) + 1
    BY <1>1
  <2>2. k + 1 # Len(target) + 1
    BY <1>1
  <2> QED
    <3>1. \A j \in 1..k : Now(j) = indices[j] /\ Now(j)' = indices'[j] /\ indices'[j] = indices[j]
      BY <2>1, <1>1, <1>2 DEF Now
    <3>2. Now(k + 1)' = indices'[k + 1] /\ indices'[k + 1] = to
      BY <2>2, <1>1, <1>2 DEF Now
    <3> QED
      BY <2>1, <3>1, <3>2
<1>6. \A j \in 1..(k + 1) : j # k + 1 => j \in 1..k
  BY <1>1
<1>7. BookmarkIsLast'
  <2>1. CASE target[k + 1].prefix = "wildcard"
    <3>1. bookmark'.set /\ bookmark'.segment = k + 1 /\ bookmark'.ix = to
      BY <1>2, <2>1 DEF Mark
    <3>2. \A j \in 1..Len(target) : ~(j <= k + 1 /\ k + 1 < j)
      BY <1>1
    <3>3. k + 1 <= k + 1 /\ to <= to
      BY <1>1, <1>3
    <3> QED
      BY <3>1, <3>2, <3>3, <1>2, <1>5, <2>1 DEF BookmarkIsLast
  <2>2. CASE target[k + 1].prefix # "wildcard"
    <3>1. bookmark' = bookmark
      BY <1>2, <2>2
    <3>2. bookmark.set => /\ bookmark.segment <= k + 1 /\ bookmark.segment \in 1..k
                          /\ target[bookmark.segment].prefix = "wildcard"
                          /\ indices[bookmark.segment] <= bookmark.ix
      <4>1. bookmark.set => /\ bookmark.segment <= k
                            /\ target[bookmark.segment].prefix = "wildcard"
                            /\ indices[bookmark.segment] <= bookmark.ix
        BY <1>1 DEF IInv, BookmarkIsLast
      <4> QED
        BY <4>1, <1>1 DEF Shape
    <3>3. ASSUME NEW j \in 1..Len(target), j <= k + 1, bookmark.set => bookmark.segment < j
          PROVE  target[j].prefix # "wildcard"
      <4>1. CASE j = k + 1
        BY <4>1, <2>2
      <4>2. CASE j # k + 1
        <5>1. j <= k
          BY <3>3, <4>2, <1>1
        <5> QED
          BY <5>1, <3>3, <1>1 DEF IInv, BookmarkIsLast
      <4> QED
        BY <4>1, <4>2
    <3> QED
      BY <3>1, <3>2, <3>3, <1>2, <1>5 DEF BookmarkIsLast
  <2> QED
    BY <2>1, <2>2
<1>8. AtStart'
  <2>1. Now(1)' = 0
    <3>1. 1 \in 1..k
      BY <1>1
    <3> QED
      BY <3>1, <1>1, <1>5 DEF IInv, AtStart
  <2>2. candidate_ix' = indices'[segment_ix']
    BY <1>2, <1>5
  <2>3. (bookmark.set /\ bookmark.segment = k + 1) => FALSE
    <3>1. bookmark.set => bookmark.segment <= k
      BY <1>1 DEF IInv, BookmarkIsLast
    <3> QED
      BY <3>1, <1>1
  <2>4. (bookmark'.set /\ bookmark'.segment = k + 1) => candidate_ix' = bookmark'.ix
    BY <1>2, <2>3 DEF Mark
  <2> QED
    BY <2>1, <2>2, <2>4, <1>2 DEF AtStart
<1>9. PiecesFit'
  <2>1. ASSUME NEW j \in 1..k
        PROVE  FitsSegment(target[j], candidate, indices'[j], Now(j + 1)')
    <3>1. CASE j = k
      <4>1. k \in 1..k
        BY <1>1
      <4> QED
        BY <3>1, <4>1, <1>3, <1>5, Zenon
    <3>2. CASE j # k
      <4>1. j \in 1..(k - 1) /\ j + 1 \in 1..k
        BY <3>2, <1>1
      <4>2. FitsSegment(target[j], candidate, indices[j], Now(j + 1))
        BY <4>1, <1>1 DEF IInv, PiecesFit
      <4> QED
        BY <4>1, <4>2, <1>5
    <3> QED
      BY <3>1, <3>2
  <2>2. segment_ix' - 1 = k
    BY <1>1, <1>2
  <2> QED
    BY <2>1, <2>2, <1>2 DEF PiecesFit
<1>10. Sound' /\ Leftmost'
  BY <1>2 DEF Sound, Leftmost
<1>11. ASSUME NEW s \in Splits(target, candidate)
       PROVE  \E ahead \in 0..Len(candidate) : InReach(s, ahead)'
  <2>1. PICK ahead \in 0..Len(candidate) : InReach(s, ahead)
    BY <1>1, <1>11 DEF IInv, Complete
  <2>2. Start(target, s, k + 1, candidate) = to + ahead
    BY <2>1, <1>1, Advance
  <2>3. CASE target[k + 1].prefix # "wildcard"
    <3>1. bookmark' = bookmark
      BY <1>2, <2>3
    <3>2. ~(bookmark.set /\ k + 1 <= bookmark.segment)
      <4>1. bookmark.set => bookmark.segment <= k
        BY <1>1 DEF IInv, BookmarkIsLast
      <4> QED
        BY <4>1, <1>1 DEF Shape
    <3>3. \A j \in 1..(k + 1) :
            IF bookmark.set /\ j <= bookmark.segment
            THEN indices'[j] <= s[j]
            ELSE Start(target, s, j, candidate) = Now(j)' + ahead
      <4>1. ASSUME NEW j \in 1..k
            PROVE  IF bookmark.set /\ j <= bookmark.segment
                   THEN indices'[j] <= s[j]
                   ELSE Start(target, s, j, candidate) = Now(j)' + ahead
        <5>1. j \in 1..segment_ix /\ Now(j)' = Now(j) /\ indices'[j] = indices[j]
          BY <4>1, <1>1, <1>5
        <5> QED
          BY <2>1, <5>1, Zenon DEF InReach
      <4> QED
        BY <4>1, <2>2, <3>2, <1>5, <1>6, Zenon
    <3>4. InReach(s, ahead)'
      BY <2>1, <3>1, <3>3, <1>2 DEF InReach
    <3> QED
      BY <3>4
  <2>4. CASE target[k + 1].prefix = "wildcard"
    <3> DEFINE next == Start(target, s, (k + 1) + 1, candidate)
    <3>1. s[k + 1] = to + ahead /\ s[k + 1] \in 0..Len(candidate) /\ next \in 0..Len(candidate)
      BY <2>2, <1>1, Pieces
    <3>2. PICK more \in 0..Len(candidate) : next = (s[k + 1] + Width(target[k + 1])) + more
      <4>1. FitsSegment(target[k + 1], candidate, s[k + 1], next)
        BY <1>1, Pieces
      <4>2. target[k + 1] \in Segment /\ candidate \in Seq(Chars)
        BY <1>1, Types
      <4> HIDE DEF next
      <4> QED
        BY <4>1, <4>2, <3>1, <2>4, WildcardWidth
    <3>3. next = (to + Width(target[k + 1])) + (ahead + more) /\ ahead + more \in 0..Len(candidate)
      <4>1. Width(target[k + 1]) \in Nat
        BY <1>1, Types
      <4> HIDE DEF next
      <4> QED
        BY <4>1, <3>1, <3>2, <1>1, <1>3
    <3>4. bookmark'.set /\ bookmark'.segment = k + 1 /\ bookmark'.ix = to
      BY <1>2, <2>4 DEF Mark
    <3>5. ASSUME NEW j \in 1..k
          PROVE  indices'[j] <= s[j]
      <4>1. j \in 1..segment_ix /\ Now(j) = indices[j] /\ indices'[j] = indices[j]
            /\ j \in 1..Len(target) /\ indices[j] \in Nat
        BY <1>1, <1>5
      <4>2. CASE bookmark.set /\ j <= bookmark.segment
        BY <2>1, <4>1, <4>2 DEF InReach
      <4>3. CASE ~(bookmark.set /\ j <= bookmark.segment)
        <5>1. Start(target, s, j, candidate) = indices[j] + ahead
          BY <2>1, <4>1, <4>3 DEF InReach
        <5>2. s[j] = indices[j] + ahead
          BY <5>1, <4>1, <1>1, Pieces
        <5> QED
          BY <5>2, <4>1
      <4> QED
        BY <4>2, <4>3
    <3>6. \A j \in 1..(k + 1) : j <= k + 1 /\ indices'[j] <= s[j]
      <4>1. indices'[k + 1] <= s[k + 1]
        BY <3>1, <1>3, <1>5
      <4> QED
        BY <4>1, <3>5, <1>1, <1>6
    <3>7. InReach(s, ahead + more)'
      BY <3>3, <3>4, <3>6, <1>2 DEF InReach
    <3> QED
      BY <3>3, <3>7
  <2> QED
    BY <2>3, <2>4
<1>12. Complete'
  BY <1>2, <1>11 DEF Complete
<1> QED
  BY <1>4, <1>7, <1>8, <1>9, <1>10, <1>12 DEF IInv

-----------------------------------------------------------------------------
(* The invariant holds of the matcher for every pattern and name.          *)
THEOREM Invariant == Spec => []IInv
<1>1. IInv /\ [Next]_vars => IInv'
  <2> SUFFICES ASSUME IInv, [Next]_vars PROVE IInv'
    OBVIOUS
  <2>1. CASE MatchSegment
    <3>1. segment_ix = Len(target) \/ segment_ix < Len(target)
      <4>1. Shape /\ segment_ix <= Len(target) /\ segment_ix \in Nat /\ Len(target) \in Nat
        BY <2>1, Types DEF IInv, Shape, MatchSegment
      <4> QED
        BY <4>1
    <3> QED
      BY <3>1, <2>1, LastSegmentIInv, NextSegmentIInv
  <2>2. CASE Retry
    BY <2>2, RetryIInv
  <2>3. CASE GiveUp
    BY <2>3, GiveUpIInv
  <2>4. CASE UNCHANGED vars
    <3>1. /\ Shape' /\ BookmarkIsLast' /\ PiecesFit' /\ AtStart' /\ Sound' /\ Leftmost'
      BY <2>4 DEF IInv, vars, Shape, BookmarkIsLast, PiecesFit, AtStart, Sound, Leftmost, Running, Now
    <3>2. Complete'
      BY <2>4 DEF IInv, vars, Complete, Running, InReach, Now
    <3> QED
      BY <3>1, <3>2 DEF IInv
  <2> QED
    BY <2>1, <2>2, <2>3, <2>4 DEF Next
<1> QED
  BY <1>1, InitIInv, PTL DEF Spec

(* The matcher reads no segment and no character that is not there.        *)
THEOREM TypeCorrect == Spec => []TypeOK
<1>1. IInv => TypeOK
  <2> SUFFICES ASSUME IInv PROVE TypeOK
    OBVIOUS
  <2>1. Shape
    BY DEF IInv
  <2>2. bookmark.set => bookmark = Mark(bookmark.ix, bookmark.segment)
    BY <2>1 DEF Shape, Mark
  <2> QED
    BY <2>1, <2>2 DEF Shape, TypeOK
<1> QED
  BY <1>1, Invariant, PTL

(* At every place the matcher goes on or goes back to, the indices before  *)
(* it cut the name as the segments before it require.                      *)
THEOREM PrefixesFit == Spec => []PrefixFits
<1>1. IInv => PrefixFits
  <2> SUFFICES ASSUME IInv, ~Returned PROVE PrefixFits
    BY DEF PrefixFits
  <2>1. Shape /\ Running /\ Len(target) \in Nat
    BY Types DEF IInv, Shape, Running, Returned
  <2>2. ASSUME NEW k \in 1..(segment_ix - 1)
        PROVE  FitsSegment(target[k], candidate, indices[k],
                           IF k = Len(target) THEN candidate_ix ELSE indices[k + 1])
    <3>1. k + 1 = Len(target) + 1 <=> k = Len(target)
      BY <2>1
    <3> QED
      BY <3>1, <2>1 DEF IInv, PiecesFit, Now
  <2>3. ASSUME phase = "segment"
        PROVE  \/ candidate_ix = indices[segment_ix]
               \/ target[segment_ix].prefix = "wildcard" /\ candidate_ix > indices[segment_ix]
    <3>1. segment_ix \in 1..Len(target) /\ indices[segment_ix] \in Nat /\ candidate_ix \in Nat
      BY <2>1, <2>3 DEF Shape
    <3>2. CASE bookmark.set /\ bookmark.segment = segment_ix
      BY <3>1, <3>2, <2>1, <2>3 DEF IInv, AtStart, BookmarkIsLast
    <3>3. CASE ~(bookmark.set /\ bookmark.segment = segment_ix)
      BY <3>3, <2>1, <2>3 DEF IInv, AtStart
    <3> QED
      BY <3>2, <3>3
  <2> QED
    BY <2>2, <2>3 DEF PrefixFits
<1> QED
  BY <1>1, Invariant, PTL

(* A name matches exactly if it can be cut into pieces that fit: going     *)
(* back to the last wildcard only loses no match.                          *)
THEOREM Correct == Spec => []MatchesExactly
<1>1. IInv => MatchesExactly
  <2> SUFFICES ASSUME IInv, Returned PROVE phase = "matched" <=> Matches(target, candidate)
    BY DEF MatchesExactly
  <2>1. phase = "matched" => Matches(target, candidate)
    BY DEF IInv, Sound, Matches
  <2>2. Matches(target, candidate) => phase # "failed"
    BY DEF IInv, Complete, Matches
  <2> QED
    BY <2>1, <2>2 DEF Returned
<1> QED
  BY <1>1, Invariant, PTL

(* No piece of the cut that is returned could start further to the left:   *)
(* what the caller takes for the text of each wildcard does not depend on  *)
(* the attempts that were given up.                                        *)
THEOREM IndicesAreFirst == Spec => []IndicesAreFirstSplit
<1>1. IInv => IndicesAreFirstSplit
  <2> SUFFICES ASSUME IInv, phase = "matched" PROVE indices = FirstSplit(target, candidate)
    BY DEF IndicesAreFirstSplit
  <2> DEFINE S == Splits(target, candidate)
             First(s) == \A other \in S : \A k \in 1..Len(target) : s[k] <= other[k]
  <2>1. indices \in S /\ First(indices)
    BY DEF IInv, Sound, Leftmost
  <2>2. ASSUME NEW s \in S, First(s) PROVE s = indices
    <3>1. /\ s \in [1..Len(target) -> 0..Len(candidate)]
          /\ indices \in [1..Len(target) -> 0..Len(candidate)]
      BY <2>1 DEF Splits
    <3>2. Len(candidate) \in Nat
      BY Types DEF IInv
    <3>3. \A k \in 1..Len(target) : s[k] \in Nat /\ indices[k] \in Nat
                                   /\ s[k] <= indices[k] /\ indices[k] <= s[k]
      BY <2>1, <2>2, <3>1, <3>2
    <3> HIDE DEF S, First
    <3> QED
      BY <3>1, <3>3
  <2>3. FirstSplit(target, candidate) = CHOOSE s \in S : First(s)
    BY DEF FirstSplit
  <2> HIDE DEF S, First
  <2> QED
    BY <2>1, <2>2, <2>3
<1> QED
  BY <1>1, Invariant, PTL
==============================================================================
