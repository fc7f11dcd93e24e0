---------------------------- MODULE Substitution ----------------------------
(***************************************************************************)
(* The output patterns of rules (src/substitution.cpp): a pattern such as  *)
(* `out/($1).o` is parsed into segments, resolved with the groups captured *)
(* in an input, and gives the output groups of its own for later rules.    *)
(* Segments count from one; a place in a string is, as in the code, the    *)
(* number of characters before it.                                         *)
(***************************************************************************)
EXTENDS Naturals, SequencesExt

NoPlaceholder == 0
NoSegment     == [placeholder |-> NoPlaceholder, literal |-> <<>>]
Digits        == <<"1", "2", "3", "4", "5", "6", "7", "8", "9">>

OutputParser == [ix |-> 1, error |-> "none", segments |-> <<>>, groups |-> <<>>,
                 open |-> <<>>, current |-> NoSegment]

FinishSegment(p) ==
  IF p.current = NoSegment THEN p
  ELSE [p EXCEPT !.segments = Append(@, p.current), !.current = NoSegment]

(* One turn of the loop of parse(). An unmatched `)` takes the top of an   *)
(* empty stack: undefined behaviour, no output pattern has one here.       *)
ParseOutputChar(input, p) ==
  LET c == input[p.ix]
      q == [p EXCEPT !.ix = @ + 1]
      f == FinishSegment(q)
      at_end == q.ix > Len(input)
  IN  CASE c = "(" -> [f EXCEPT !.open = Append(@, Len(f.groups) + 1),
                                !.groups = Append(@, <<Len(f.segments) + 1, 1>>)]
        [] c = ")" -> [f EXCEPT !.groups[Last(f.open)][2] = Len(f.segments) + 1, !.open = Front(@)]
        [] c = "$" -> IF at_end THEN [q EXCEPT !.error = "placeholder_char_at_end"]
                      ELSE IF input[q.ix] \notin ToSet(Digits)
                      THEN [q EXCEPT !.error = "invalid_placeholder_index"]
                      ELSE [f EXCEPT !.ix = @ + 1, !.current.placeholder =
                              CHOOSE d \in DOMAIN Digits : Digits[d] = input[q.ix]]
        [] c = "\\" -> IF at_end THEN [q EXCEPT !.error = "escape_char_at_end"]
                       ELSE [q EXCEPT !.ix = @ + 1, !.current.literal = Append(@, input[q.ix])]
        [] OTHER -> [q EXCEPT !.current.literal = Append(@, c)]

ParseOutput(input) ==
  LET After[n \in Nat] ==
        IF n = 0 THEN OutputParser
        ELSE LET p == After[n - 1]
             IN  IF p.ix > Len(input) \/ p.error # "none" THEN p ELSE ParseOutputChar(input, p)
  IN  FinishSegment(After[Len(input)])

ParsedOutput(input) ==
  LET p == ParseOutput(input) IN [segments |-> p.segments, capture_groups |-> p.groups]

-----------------------------------------------------------------------------
(* A captured string (src/captured_string.h) is a text and, for each       *)
(* group, where it starts and ends.                                        *)
SubString(captured, g) == SubSeq(captured.value, captured.groups[g][1] + 1, captured.groups[g][2])

(* get_sub_string() throws for a group the input does not have.            *)
Resolvable(segments, captured) ==
  \A s \in ToSet(segments) : s.placeholder <= Len(captured.groups)

SegmentText(segment, captured) ==
  (IF segment.placeholder = NoPlaceholder THEN <<>> ELSE SubString(captured, segment.placeholder))
  \o segment.literal

Resolve(segments, captured) ==
  LET texts == [k \in DOMAIN segments |-> SegmentText(segments[k], captured)]
  IN  [value  |-> FlattenSeq(texts),
       starts |-> [k \in DOMAIN segments |-> Len(FlattenSeq(SubSeq(texts, 1, k - 1)))]]

(* Mutant: a group that ends with the pattern ends before its last segment.*)
CaptureShort(groups, text, starts) ==
  LET Place(k) == IF k <= Len(starts) THEN starts[k] ELSE starts[Len(starts)]
  IN  [value |-> text, groups |-> [g \in DOMAIN groups |-> <<Place(groups[g][1]), Place(groups[g][2])>>]]
Capture(groups, text, starts) ==
  LET Place(k) == IF k <= Len(starts) THEN starts[k] ELSE Len(text)
  IN  [value |-> text, groups |-> [g \in DOMAIN groups |-> <<Place(groups[g][1]), Place(groups[g][2])>>]]
==============================================================================
