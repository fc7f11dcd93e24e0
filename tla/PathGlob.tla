------------------------------ MODULE PathGlob ------------------------------
(***************************************************************************)
(* The crawler that looks for the source files of all patterns at once     *)
(* (src/path_glob/matcher.h). A bookmark says how much of which pattern    *)
(* the path of a directory matches; the directories still to be read are   *)
(* kept in a map with the bookmarks to go on from in each.                 *)
(*                                                                         *)
(* A path is a sequence of names, a name a sequence of characters. The     *)
(* captures of a bookmark are numbers of characters into the path, counted *)
(* as in the code with the slash before it.                                *)
(***************************************************************************)
EXTENDS GlobPattern, PathPattern

CONSTANT Trees        \* file trees: [path -> "directory", "regular" or "unsupported"]

(* What is above anything in a file tree is a directory.                   *)
ASSUME TreesAssumption ==
  \A t \in Trees :
    /\ DOMAIN t \subseteq Seq(Seq(STRING) \ {<<>>})
    /\ <<>> \in DOMAIN t /\ t[<<>>] = "directory"
    /\ \A path \in DOMAIN t : \A k \in 0..(Len(path) - 1) :
         SubSeq(path, 1, k) \in DOMAIN t /\ t[SubSeq(path, 1, k)] = "directory"

VARIABLES
  tree,               \* the file system
  patterns,           \* patterns_
  pending,            \* pending_dirs_
  path_prefix,        \* the directory being read
  unread,             \* the names the directory reader has still to return
  bookmarks,          \* bookmarks_
  ent, bookmark_ix,   \* the entry and the bookmark to try next; no entry: <<>>
  ent_had_final_match,
  matches             \* for each pattern, the matches next() returned

reader == <<path_prefix, unread, bookmarks, ent, bookmark_ix, ent_had_final_match>>
crawl  == <<tree, patterns, pending, reader, matches>>

Text(path)      == FlattenSeq([k \in 1..(2 * Len(path) - 1) |->
                                 IF k % 2 = 0 THEN <<"/">> ELSE path[(k + 1) \div 2]])
PrefixSize(dir) == IF dir = <<>> THEN 1 ELSE Len(Text(dir)) + 2

Names(dir) == {Last(p) : p \in {q \in DOMAIN tree : q # <<>> /\ Front(q) = dir}}

CrawlInit(source_patterns) ==
  /\ tree \in Trees
  /\ patterns = source_patterns
  /\ pending = IF patterns = <<>> THEN [d \in {} |-> <<>>]
               ELSE [d \in {<<>>} |-> [i \in DOMAIN patterns |->
                       LET ones == [g \in DOMAIN patterns[i].capture_groups |-> 1]
                       IN  [pattern |-> i, segment |-> 1, from |-> ones, to |-> ones]]]
  /\ path_prefix = <<>> /\ unread = {} /\ bookmarks = <<>>
  /\ ent = <<>> /\ bookmark_ix = 1 /\ ent_had_final_match = FALSE
  /\ matches = [i \in DOMAIN patterns |-> <<>>]

(* next_dir_(): any pending directory, the order being that of a hash map. *)
NextDir ==
  /\ ent = <<>> /\ unread = {}
  /\ \E dir \in DOMAIN pending :
       /\ path_prefix' = dir
       /\ unread' = Names(dir)
       /\ bookmarks' = pending[dir]
       /\ pending' = [d \in DOMAIN pending \ {dir} |-> pending[d]]
  /\ UNCHANGED <<tree, patterns, ent, bookmark_ix, ent_had_final_match, matches>>

(* next_ent_() and the loop of next_bookmark_() that skips hidden entries. *)
NextEnt ==
  /\ ent = <<>>
  /\ \E name \in unread :
       /\ unread' = unread \ {name}
       /\ ent' = IF Head(name) = Period THEN <<>> ELSE name
  /\ bookmark_ix' = 1
  /\ ent_had_final_match' = FALSE
  /\ UNCHANGED <<tree, patterns, pending, path_prefix, bookmarks, matches>>

-----------------------------------------------------------------------------
(* update_captures_for_ent_name_(): where the groups of the bookmark's     *)
(* pattern start and end once the entry is matched, piece by piece, by     *)
(* the bookmark's segment. A group that starts at the very end of a name,  *)
(* as in `a(/b)`, reads past the indices: no pattern has one here.         *)
PieceIndex(indices, piece, name) ==
  IF piece <= Len(indices) THEN indices[piece] ELSE Len(name)

(* Mutant: a group that starts with a folder wildcard starts at the entry. *)
UpdateCapturesAtEntry(b, name, indices) ==
  LET groups == patterns[b.pattern].capture_groups
      size   == PrefixSize(path_prefix)
      InName(point) == point.type = "ent_name" /\ point.segment = b.segment
  IN  [b EXCEPT
        !.from = [g \in DOMAIN groups |->
          IF groups[g].from = WildcardPoint(b.segment) THEN size
          ELSE IF InName(groups[g].from) THEN size + indices[groups[g].from.piece]
          ELSE b.from[g]],
        !.to = [g \in DOMAIN groups |->
          IF InName(groups[g].to) THEN size + PieceIndex(indices, groups[g].to.piece, name)
          ELSE b.to[g]]]

UpdateCaptures(b, name, indices) ==
  LET groups == patterns[b.pattern].capture_groups
      size   == PrefixSize(path_prefix)
      InName(point) == point.type = "ent_name" /\ point.segment = b.segment
  IN  [b EXCEPT
        !.from = [g \in DOMAIN groups |->
          IF groups[g].from = WildcardPoint(b.segment + 1) THEN size + Len(name) + 1
          ELSE IF InName(groups[g].from) THEN size + indices[groups[g].from.piece]
          ELSE b.from[g]],
        !.to = [g \in DOMAIN groups |->
          IF InName(groups[g].to) THEN size + PieceIndex(indices, groups[g].to.piece, name)
          ELSE b.to[g]]]

(* Mutant: the bookmarks of other patterns for the directory are lost.     *)
PushOverwrites(dir, new) ==
  IF new = <<>> THEN pending
  ELSE [d \in DOMAIN pending \cup {dir} |-> IF d = dir THEN new ELSE pending[d]]

(* Mutant: a directory that is pending already takes no more bookmarks.    *)
PushFirstOnly(dir, new) ==
  IF new = <<>> \/ dir \in DOMAIN pending THEN pending
  ELSE [d \in DOMAIN pending \cup {dir} |-> IF d = dir THEN new ELSE pending[d]]

(* pending_dirs_[...].push_back().                                         *)
Push(dir, new) ==
  IF new = <<>> THEN pending
  ELSE [d \in DOMAIN pending \cup {dir} |->
          (IF d \in DOMAIN pending THEN pending[d] ELSE <<>>) \o (IF d = dir THEN new ELSE <<>>)]

(* One turn of the loop of next(), for the current entry and bookmark. The *)
(* indices are those Glob computes.                                        *)
TryBookmark ==
  LET b       == bookmarks[bookmark_ix]
      segment == patterns[b.pattern].segments[b.segment]
      is_last == b.segment = Len(patterns[b.pattern].segments)
      path    == Append(path_prefix, ent)
      found   == Matches(segment.ent_name, ent)
      updated == UpdateCaptures(b, ent, FirstSplit(segment.ent_name, ent))
      wild    == IF segment.has_wildcard THEN <<b>> ELSE <<>>
      named   == IF found /\ ~is_last THEN <<[updated EXCEPT !.segment = @ + 1]>> ELSE <<>>
      final   == found /\ is_last /\ tree[path] = "regular" /\ ~ent_had_final_match
  IN  /\ ent # <<>>
      /\ pending' = IF tree[path] = "directory" THEN Push(path, wild \o named) ELSE pending
      /\ ent_had_final_match' = (ent_had_final_match \/ final)
      /\ matches' = IF ~final THEN matches
                    ELSE [matches EXCEPT ![b.pattern] = Append(@,
                           [value |-> path, groups |-> [g \in DOMAIN b.from |->
                              <<updated.from[g] - 1, updated.to[g] - 1>>]])]
      /\ IF bookmark_ix < Len(bookmarks) THEN bookmark_ix' = bookmark_ix + 1 /\ ent' = ent
                                         ELSE bookmark_ix' = 1 /\ ent' = <<>>
      /\ UNCHANGED <<tree, patterns, path_prefix, unread, bookmarks>>

CrawlNext == NextDir \/ NextEnt \/ TryBookmark
Crawled   == ent = <<>> /\ unread = {} /\ DOMAIN pending = {}

-----------------------------------------------------------------------------
(* What a pattern string stands for, read straight against the text of a   *)
(* path: `**/` at the start of a name skips names, `*` takes characters of *)
(* one name and `?` one that is no period, `\` takes what follows it as it *)
(* is. A reading is the list of the places in the text where the           *)
(* parentheses of the string fall.                                         *)
StartsName(s, i) == \/ i = 1 \/ s[i - 1] = "/"
                    \/ s[i - 1] = "(" /\ (i = 2 \/ s[i - 2] = "/")

Readings(s, t) ==
  LET From[i \in 1..(Len(s) + 1), j \in 1..(Len(t) + 1)] ==
        LET Takes(c, next) == IF j <= Len(t) /\ t[j] = c THEN From[next, j + 1] ELSE {}
        IN  IF i > Len(s) THEN IF j > Len(t) THEN {<<>>} ELSE {}
            ELSE IF StartsName(s, i) /\ Has(s, i, <<"*", "*", "/">>)
            THEN From[i + 3, j] \cup UNION {From[i + 3, k + 1] : k \in {n \in j..Len(t) : t[n] = "/"}}
            ELSE CASE s[i] \in {"(", ")"} -> {<<j - 1>> \o marks : marks \in From[i + 1, j]}
                   [] s[i] = "*"  -> From[i + 1, j] \cup (IF j <= Len(t) /\ t[j] # "/"
                                                         THEN From[i, j + 1] ELSE {})
                   [] s[i] = "?"  -> IF j <= Len(t) /\ t[j] \notin {"/", Period}
                                     THEN From[i + 1, j + 1] ELSE {}
                   [] s[i] = "\\" -> Takes(s[i + 1], i + 2)
                   [] OTHER -> Takes(s[i], i + 1)
  IN  From[1, 1]

(* The parentheses of a string, in order; the k-th that opens starts group *)
(* k, and the one that closes it leaves as many open as were before it.    *)
Parens(s) == SelectSeq([i \in DOMAIN s |-> IF i > 1 /\ s[i - 1] = "\\" THEN "" ELSE s[i]],
                       LAMBDA c : c \in {"(", ")"})
Opening(parens, g) == CHOOSE n \in DOMAIN parens :
  parens[n] = "(" /\ Cardinality({m \in 1..n : parens[m] = "("}) = g
Balanced(parens, from, to) == Cardinality({m \in from..to : parens[m] = "("})
                              = Cardinality({m \in from..to : parens[m] = ")"})
Closing(parens, g) == CHOOSE n \in DOMAIN parens :
  /\ n > Opening(parens, g) /\ Balanced(parens, Opening(parens, g), n)
  /\ \A m \in Opening(parens, g)..(n - 1) : ~Balanced(parens, Opening(parens, g), m)

Visible(path) == \A k \in DOMAIN path : Head(path[k]) # Period

Fits(i, path) == Visible(path) /\ Readings(patterns[i].string, Text(path)) # {}

(* The same for a parsed pattern: each segment stands for a name further   *)
(* down the path, the last one for the last name, and names are skipped    *)
(* only in front of those of segments with a wildcard.                     *)
SegmentsFit(segments, path) ==
  \E at \in [0..Len(segments) -> 0..Len(path)] :
    /\ at[0] = 0 /\ at[Len(segments)] = Len(path)
    /\ \A j, k \in DOMAIN at : j < k => at[j] < at[k]
    /\ \A k \in 1..Len(segments) :
         /\ Matches(segments[k].ent_name, path[at[k]])
         /\ at[k] # at[k - 1] + 1 => segments[k].has_wildcard

FitsParsed(i, path) == Visible(path) /\ SegmentsFit(patterns[i].segments, path)

(* The crawler alone, whatever strings the patterns were parsed from: each *)
(* regular file that the segments of a pattern fit is found once, for the  *)
(* first such pattern (next(), matcher.h:56-81).                           *)
FoundBySegments ==
  Crawled => \A i \in DOMAIN patterns :
    /\ IsInjective([m \in DOMAIN matches[i] |-> matches[i][m].value])
    /\ {m.value : m \in ToSet(matches[i])} =
         {path \in DOMAIN tree : /\ tree[path] = "regular" /\ FitsParsed(i, path)
                                 /\ \A j \in 1..(i - 1) : ~FitsParsed(j, path)}

(* Every regular file that fits a pattern is found, once, for the first of *)
(* the patterns it fits and for no other, whatever the order in which      *)
(* directories and entries come and however many bookmarks lead to it      *)
(* (the test "matches several patterns in given order, without             *)
(* duplicates" of matcher.cppt).                                           *)
FoundOnce ==
  Crawled => \A i \in DOMAIN patterns :
    /\ IsInjective([m \in DOMAIN matches[i] |-> matches[i][m].value])
    /\ {m.value : m \in ToSet(matches[i])} =
         {path \in DOMAIN tree : /\ tree[path] = "regular" /\ Fits(i, path)
                                 /\ \A j \in 1..(i - 1) : ~Fits(j, path)}

(* A captured group is the part of the path that stands for what is        *)
(* between its parentheses in the pattern string, all groups for the same  *)
(* reading, wherever the separators fall and however groups are nested.    *)
CapturesFit ==
  Crawled => \A i \in DOMAIN patterns : \A m \in ToSet(matches[i]) :
    LET parens == Parens(patterns[i].string)
    IN  \E marks \in Readings(patterns[i].string, Text(m.value)) :
          \A g \in DOMAIN m.groups :
            m.groups[g] = <<marks[Opening(parens, g)], marks[Closing(parens, g)]>>
==============================================================================
