----------------------------- MODULE PathPattern -----------------------------
(***************************************************************************)
(* Path patterns (src/path_glob/pattern.h) and their parser                *)
(* (src/path_glob/parse.cpp). A pattern string is a sequence of            *)
(* characters; a parsed pattern has a segment for each name of a path,     *)
(* itself a glob pattern, and the points where capture groups start and    *)
(* end. Segments and pieces count from one.                                *)
(***************************************************************************)
EXTENDS Naturals, SequencesExt

WildcardPoint(k)    == [type |-> "wildcard", segment |-> k]
NamePoint(k, piece) == [type |-> "ent_name", segment |-> k, piece |-> piece]

NoGlob == [prefix |-> "none", literal |-> <<>>]

(* The parser before it reads the string: `ix` is the next character,      *)
(* `names`, `wild` and `glob` belong to the segment being read, `open` is  *)
(* the stack of the groups not yet closed.                                 *)
Parser == [ix |-> 1, phase |-> "between", segments |-> <<>>, groups |-> <<>>,
           open |-> <<>>, names |-> <<>>, wild |-> FALSE, glob |-> NoGlob]

Fails(p, reason) == [p EXCEPT !.phase = reason]

FinishGlob(p) ==
  IF p.glob = NoGlob THEN p
  ELSE [p EXCEPT !.names = Append(@, p.glob), !.glob = NoGlob]

StartGlob(p, prefix) == [FinishGlob(p) EXCEPT !.glob = [NoGlob EXCEPT !.prefix = prefix]]

Here(p) == NamePoint(Len(p.segments) + 1, Len(p.names) + 1)

OpenGroup(p, from) ==
  [p EXCEPT !.groups = Append(@, [from |-> from, to |-> WildcardPoint(1)]),
            !.open = Append(@, Len(p.groups) + 1)]

CloseGroup(p) ==
  IF p.open = <<>> THEN Fails(p, "unexpected_capture_close")
  ELSE [p EXCEPT !.groups[Last(p.open)].to = Here(p), !.open = Front(@)]

(* process_input_char(), and the ++input_ix that follows it.               *)
ReadChar(input, p) ==
  LET c == input[p.ix]
      q == [p EXCEPT !.ix = @ + 1]
  IN  CASE c = "*" -> IF p.glob = [prefix |-> "wildcard", literal |-> <<>>]
                      THEN Fails(p, "duplicate_wildcard") ELSE StartGlob(q, "wildcard")
        [] c = "?" -> StartGlob(q, "single_wildcard")
        [] c = "(" -> LET f == FinishGlob(q) IN OpenGroup(f, Here(f))
        [] c = ")" -> CloseGroup(FinishGlob(q))
        [] c = "\\" -> IF q.ix > Len(input) THEN Fails(p, "escape_char_at_end")
                       ELSE [q EXCEPT !.ix = @ + 1, !.glob.literal = Append(@, input[q.ix])]
        [] OTHER -> [q EXCEPT !.glob.literal = Append(@, c)]

(* read_directory_wildcard(): the length of a folder wildcard at p.ix, or  *)
(* zero. One at the very end of the string is not read as a wildcard.      *)
Has(input, at, text) ==
  at + Len(text) - 1 <= Len(input) /\ SubSeq(input, at, at + Len(text) - 1) = text

WildcardAt(input, p) ==
  LET opened == IF Has(input, p.ix, <<"(">>) THEN 1 ELSE 0
      after  == p.ix + opened + 2
      closed == IF Has(input, after, <<")">>) THEN 1 ELSE 0
  IN  [opened |-> opened = 1, closed |-> closed = 1,
       size |-> IF /\ Has(input, p.ix + opened, <<"*", "*">>)
                   /\ after < Len(input)
                   /\ Has(input, after + closed, <<"/">>)
                THEN opened + 2 + closed + 1 ELSE 0]

(* The beginning of read_path_segment().                                   *)
BeginSegment(input, p) ==
  LET w == WildcardAt(input, p)
      q == [p EXCEPT !.ix = @ + w.size, !.phase = "segment", !.names = <<>>, !.wild = w.size > 0]
      v == WildcardAt(input, q)
  IN  IF w.size = 0 THEN q
      ELSE IF w.closed \/ (v.size > 0 /\ v.closed) THEN Fails(p, "not_implemented")
      ELSE IF v.size > 0 THEN Fails(p, "duplicate_directory_wildcard")
      ELSE IF w.opened THEN OpenGroup(q, WildcardPoint(Len(p.segments) + 1)) ELSE q

(* The end of read_path_segment(); a segment without a name ends the       *)
(* pattern, whatever comes after it.                                       *)
EndSegment(p) ==
  LET q == FinishGlob(p)
  IN  IF q.names = <<>> THEN [q EXCEPT !.phase = "parsed"]
      ELSE [q EXCEPT !.ix = @ + 1, !.phase = "between",
                     !.segments = Append(@, [ent_name |-> q.names, has_wildcard |-> q.wild])]

ParseStep(input, p) ==
  CASE p.phase = "between" -> BeginSegment(input, p)
    [] p.phase = "segment" -> IF p.ix <= Len(input) /\ input[p.ix] # "/"
                              THEN ReadChar(input, p) ELSE EndSegment(p)
    [] OTHER -> p

Parse(input) ==
  LET enough == 3 * Len(input) + 4
      After[n \in 0..enough] == IF n = 0 THEN Parser ELSE ParseStep(input, After[n - 1])
  IN  After[enough]

(* The string is kept for the properties; the code does not keep it.       *)
ParsedPattern(input) ==
  LET p == Parse(input) IN [segments |-> p.segments, capture_groups |-> p.groups, string |-> input]
==============================================================================
