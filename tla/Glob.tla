-------------------------------- MODULE Glob --------------------------------
(***************************************************************************)
(* The glob matcher (src/glob.cpp): one pass over the segments that tries  *)
(* the shortest text for each wildcard, with a single bookmark to go back  *)
(* to, that of the last wildcard started.                                  *)
(*                                                                         *)
(* segment_ix counts from one; candidate_ix, bookmark_ix and the indices   *)
(* are, as in the code, the number of characters before a place.           *)
(***************************************************************************)
EXTENDS GlobPattern

CONSTANTS Chars,
          Patterns,       \* the patterns to match
          Candidates      \* the names to match them against

ASSUME GlobAssumption ==
  /\ \A p \in Patterns : p \in Seq([prefix : Placeholders, literal : Seq(Chars)])
  /\ \A c \in Candidates : c \in Seq(Chars)

VARIABLES
  target, candidate,                  \* what is matched against what
  phase,                              \* "segment", "end", "matched" or "failed"
  segment_ix, candidate_ix, indices,
  bookmark                            \* has_bookmark, bookmark_ix, last_wildcard_segment_ix

NoBookmark    == [set |-> FALSE, ix |-> 0, segment |-> 1]
Mark(at, k)   == [set |-> TRUE, ix |-> at, segment |-> k]

place == <<segment_ix, candidate_ix, indices>>
vars  == <<target, candidate, phase, segment_ix, candidate_ix, indices, bookmark>>

Returned == phase \in {"matched", "failed"}

Init ==
  /\ target \in Patterns /\ candidate \in Candidates
  /\ segment_ix = 1 /\ candidate_ix = 0 /\ indices = [k \in 1..Len(target) |-> 0]
  /\ phase = IF target # <<>> THEN "segment" ELSE IF candidate = <<>> THEN "matched" ELSE "failed"
  /\ bookmark = IF target # <<>> /\ target[1].prefix = "wildcard" THEN Mark(0, 1) ELSE NoBookmark

(* match_prefix() and match_literal(): the place after the segment. What   *)
(* the code leaves in candidate_ix when they fail is never used.           *)
SegmentEnds(at) ==
  LET segment == target[segment_ix]
      start   == IF segment.prefix = "single_wildcard" THEN at + 1 ELSE at
      to      == start + Len(segment.literal)
  IN  {e \in {to} : /\ start <= Len(candidate) /\ to <= Len(candidate)
                    /\ segment.prefix = "single_wildcard" => candidate[start] # Period
                    /\ SubSeq(candidate, start + 1, to) = segment.literal}

(* Mutant: where a segment starts is noted the first time only.            *)
StartSegmentOnce(k, at) ==
  /\ indices' = [indices EXCEPT ![k] = IF @ = 0 THEN at ELSE @]
  /\ bookmark' = IF target[k].prefix = "wildcard" THEN Mark(at, k) ELSE bookmark

(* start_new_segment(): where segment k starts is noted, and a wildcard    *)
(* moves the bookmark there.                                               *)
StartSegment(k, at) ==
  /\ indices' = [indices EXCEPT ![k] = at]
  /\ bookmark' = IF target[k].prefix = "wildcard" THEN Mark(at, k) ELSE bookmark

(* The current segment matches; match_all_segments() goes on to the next.  *)
MatchSegment ==
  /\ phase = "segment"
  /\ \E to \in SegmentEnds(candidate_ix) :
       /\ candidate_ix' = to
       /\ segment_ix' = segment_ix + 1
       /\ IF segment_ix < Len(target)
          THEN StartSegment(segment_ix + 1, to) /\ phase' = phase
          ELSE /\ phase' = IF to = Len(candidate) THEN "matched" ELSE "end"
               /\ UNCHANGED <<indices, bookmark>>
  /\ UNCHANGED <<target, candidate>>

(* Mutant: the last place where the literal fits is not tried.             *)
CanRestoreButLast ==
  /\ bookmark.set
  /\ bookmark.ix + 1 + Len(target[bookmark.segment].literal) < Len(candidate)

(* restore_wildcard(): go on from one character after the bookmark, unless *)
(* what follows the wildcard has no room left.                             *)
CanRestore ==
  /\ bookmark.set
  /\ bookmark.ix + 1 + Len(target[bookmark.segment].literal) <= Len(candidate)

(* Mutant: the bookmark stays where it is.                                 *)
RestoreSamePlace ==
  /\ candidate_ix' = bookmark.ix + 1
  /\ segment_ix' = bookmark.segment
  /\ phase' = "segment"
  /\ UNCHANGED <<target, candidate, indices, bookmark>>

RestoreWildcard ==
  /\ bookmark' = [bookmark EXCEPT !.ix = @ + 1]
  /\ candidate_ix' = bookmark.ix + 1
  /\ segment_ix' = bookmark.segment
  /\ phase' = "segment"
  /\ UNCHANGED <<target, candidate, indices>>

(* A segment does not match, or all do and characters are left over: the   *)
(* inner and the outer loop both go back to the bookmark or give up.       *)
Mismatch == \/ phase = "segment" /\ SegmentEnds(candidate_ix) = {}
            \/ phase = "end"

Retry  == Mismatch /\ CanRestore /\ RestoreWildcard
GiveUp == Mismatch /\ ~CanRestore /\ phase' = "failed"
          /\ UNCHANGED <<target, candidate, place, bookmark>>

Next == MatchSegment \/ Retry \/ GiveUp
Spec == Init /\ [][Next]_vars
FairSpec == Spec /\ WF_vars(Next)

-----------------------------------------------------------------------------
(* The matcher reads neither a segment nor a character that is not there.  *)
TypeOK ==
  /\ target \in Patterns /\ candidate \in Candidates
  /\ phase \in {"segment", "end", "matched", "failed"}
  /\ segment_ix \in 1..(Len(target) + 1)
  /\ phase = "segment" => segment_ix <= Len(target)
  /\ candidate_ix \in 0..Len(candidate)
  /\ indices \in [1..Len(target) -> 0..Len(candidate)]
  /\ bookmark = NoBookmark \/ bookmark \in {Mark(at, k) : at \in 0..Len(candidate), k \in 1..Len(target)}

(* While the matcher runs, the indices cut the text before the current     *)
(* place into pieces that fit the segments before the current one; going   *)
(* back to the bookmark keeps what was matched before it.                  *)
PrefixFits ==
  ~Returned =>
    /\ \A k \in 1..(segment_ix - 1) :
         FitsSegment(target[k], candidate, indices[k],
                     IF k = Len(target) THEN candidate_ix ELSE indices[k + 1])
    /\ phase = "segment" =>
         \/ candidate_ix = indices[segment_ix]
         \/ target[segment_ix].prefix = "wildcard" /\ candidate_ix > indices[segment_ix]

(* A name matches exactly if it can be cut into pieces that fit, although  *)
(* only the last wildcard is ever tried again (glob.cpp:128-136).          *)
MatchesExactly ==
  Returned => (phase = "matched" <=> Matches(target, candidate))

(* The indices handed to the caller are a cut of the name none of whose    *)
(* pieces could start earlier: not one left over from an attempt given up, *)
(* and not one a later wildcard could improve on (glob.h:66-73).           *)
IndicesAreFirstSplit ==
  phase = "matched" => indices = FirstSplit(target, candidate)

(* The matcher returns, though it goes back and forth over the candidate.  *)
Terminates == <>Returned
==============================================================================
