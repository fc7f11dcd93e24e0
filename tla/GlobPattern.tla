----------------------------- MODULE GlobPattern -----------------------------
(***************************************************************************)
(* Glob patterns (src/glob.h) and what it means for a name to match one:   *)
(* the name can be cut into one piece for each segment of the pattern, the *)
(* piece being what the segment's placeholder stands for, followed by the  *)
(* segment's literal. A cut is given, as in the code, by the number of     *)
(* characters before each piece.                                           *)
(***************************************************************************)
EXTENDS Naturals, Sequences

CONSTANT Period       \* the character a single wildcard does not match

Placeholders == {"none", "wildcard", "single_wildcard"}

(* The characters from+1..to are what the placeholder stands for.          *)
FitsPrefix(prefix, text, from, to) ==
  \/ prefix = "none" /\ to = from
  \/ prefix = "wildcard" /\ from <= to
  \/ prefix = "single_wildcard" /\ to = from + 1 /\ text[to] # Period

FitsSegment(segment, text, from, to) ==
  \E mid \in from..to : /\ FitsPrefix(segment.prefix, text, from, mid)
                        /\ SubSeq(text, mid + 1, to) = segment.literal

(* Where piece k starts; the piece after the last starts at the end.       *)
Start(pattern, split, k, text) == IF k = Len(pattern) + 1 THEN Len(text) ELSE split[k]

Splits(pattern, text) ==
  {split \in [1..Len(pattern) -> 0..Len(text)] :
     /\ Start(pattern, split, 1, text) = 0
     /\ \A k \in 1..Len(pattern) :
          FitsSegment(pattern[k], text, split[k], Start(pattern, split, k + 1, text))}

Matches(pattern, text) == Splits(pattern, text) # {}

(* The cut each of whose pieces starts as far to the left as in any other. *)
(* A name that matches has one, since it is the one the matcher finds.     *)
FirstSplit(pattern, text) ==
  CHOOSE first \in Splits(pattern, text) :
    \A other \in Splits(pattern, text) : \A k \in 1..Len(pattern) : first[k] <= other[k]
==============================================================================
