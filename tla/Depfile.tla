------------------------------- MODULE Depfile -------------------------------
(***************************************************************************)
(* The reader of depfiles (src/depfile/): the tokenizer, which looks one   *)
(* character ahead, and the handler of its tokens, which accepts a single  *)
(* `target: dependencies`. A text is a sequence of characters. The         *)
(* buffer of fd_char_reader shows only in that a text ends where read()    *)
(* first returns nothing.                                                  *)
(***************************************************************************)
EXTENDS Naturals, SequencesExt

CONSTANTS
  Texts,        \* the depfiles to be read
  Rules,        \* for WrittenIsRead: the rules a command may report
  Separators    \* for WrittenIsRead: what it may write before a dependency

Space   == " "
Colon   == ":"
NewLine == "\n"
Escape  == "\\"
Syntax  == {Space, Colon, NewLine}

ASSUME TextsAssumption == Texts \subseteq Seq(STRING)
(* A name has characters; spaces and escaped newlines separate names.      *)
ASSUME NamesAssumption ==
  Rules \subseteq [target : Seq(STRING) \ {<<>>}, deps : Seq(Seq(STRING) \ {<<>>})]
ASSUME SeparatorsAssumption ==
  \A s \in Separators :
    /\ s \in Seq(STRING) \ {<<>>}
    /\ \A i \in DOMAIN s : \/ s[i] = Space
                           \/ s[i] = Escape /\ i < Len(s) /\ s[i + 1] = NewLine
                           \/ s[i] = NewLine /\ i > 1 /\ s[i - 1] = Escape

NoData == [target |-> <<>>, deps |-> <<>>]

VARIABLES
  text,         \* the file that is read
  in,           \* the tokenizer: next character to read, c_, good_
  name,         \* the string token so far; <<>> between two tokens
  state,        \* parse_token_handler::state_
  data,         \* the depfile_data; NoData when there is none
  outcome       \* "reading", "read", or why parse() threw

depfileVars == <<text, in, name, state, data, outcome>>

-----------------------------------------------------------------------------
(* tokenizer::read_(): a backslash gives the character after it, and a     *)
(* space for a newline after it. `ok` is FALSE where it throws.            *)
ReadUnescaped(r) ==
  IF r.at > Len(text) THEN [r EXCEPT !.good = FALSE]
  ELSE [r EXCEPT !.c = text[r.at], !.at = @ + 1]

Read(r) ==
  LET u == ReadUnescaped(r)
      v == ReadUnescaped(u)
  IN  IF ~u.good \/ u.c # Escape THEN u
      ELSE IF ~v.good THEN [v EXCEPT !.ok = FALSE]
      ELSE IF v.c = NewLine THEN [v EXCEPT !.c = Space] ELSE v

AtToken     == outcome = "reading" /\ name = <<>>
InString    == in.good /\ in.c \notin Syntax
Throw(e)    == outcome' = e /\ UNCHANGED <<state, data>>
(* The tokenizer goes on to r, and Handler runs unless that throws.        *)
Reads(r, Handler) == in' = r /\ IF r.ok THEN Handler ELSE Throw("escape_at_end")

DepfileInit ==
  /\ text \in Texts
  /\ in = Read([at |-> 1, c |-> Space, good |-> TRUE, ok |-> TRUE])
  /\ name = <<>> /\ state = "read_target" /\ data = NoData
  /\ outcome = IF in.ok THEN "reading" ELSE "escape_at_end"

SkipSpace ==
  /\ AtToken /\ in.good /\ in.c = Space
  /\ Reads(Read(in), UNCHANGED <<state, data, outcome>>)
  /\ UNCHANGED <<text, name>>

End ==
  /\ AtToken /\ ~in.good
  /\ IF state = "read_colon" THEN Throw("unexpected end")
     ELSE state' = "done" /\ outcome' = "read" /\ UNCHANGED data
  /\ UNCHANGED <<text, in, name>>

TakeColon ==
  /\ AtToken /\ in.good /\ in.c = Colon
  /\ Reads(Read(in),
           IF state = "read_colon" THEN state' = "read_dep" /\ UNCHANGED <<data, outcome>>
           ELSE Throw("unexpected colon operator"))
  /\ UNCHANGED <<text, name>>

(* Mutant: a newline does not end the rule.                                *)
TakeNewLineGoingOn ==
  /\ AtToken /\ in.good /\ in.c = NewLine
  /\ Reads(Read(in), UNCHANGED <<state, data, outcome>>)
  /\ UNCHANGED <<text, name>>

TakeNewLine ==
  /\ AtToken /\ in.good /\ in.c = NewLine
  /\ Reads(Read(in),
           CASE state = "read_target" -> UNCHANGED <<state, data, outcome>>
             [] state = "read_dep"    -> state' = "done" /\ UNCHANGED <<data, outcome>>
             [] OTHER                 -> Throw("unexpected newline"))
  /\ UNCHANGED <<text, name>>

(* Mutant: backslashes escape once only.                                   *)
StringCharEscapedOnce ==
  /\ outcome = "reading" /\ InString
  /\ Reads(Read(in), UNCHANGED <<state, data, outcome>>)
  /\ name' = Append(name, in.c)
  /\ UNCHANGED text

(* One turn of the loop over a string. After a backslash that is itself    *)
(* escaped, the next character belongs to the string whatever it is.       *)
StringChar ==
  /\ outcome = "reading" /\ InString
  /\ LET q == IF in.c = Escape THEN Read(in) ELSE in
     IN  /\ Reads(IF q.ok THEN Read(q) ELSE q, UNCHANGED <<state, data, outcome>>)
         /\ name' = Append(name, q.c)
  /\ UNCHANGED text

TakeString ==
  /\ outcome = "reading" /\ name # <<>> /\ ~InString
  /\ CASE state = "read_target" -> /\ data' = [target |-> name, deps |-> <<>>]
                                   /\ state' = "read_colon" /\ UNCHANGED outcome
       [] state = "read_dep"    -> /\ data' = [data EXCEPT !.deps = Append(@, name)]
                                   /\ UNCHANGED <<state, outcome>>
       [] OTHER                 -> Throw("unexpected string")
  /\ name' = <<>>
  /\ UNCHANGED <<text, in>>

DepfileNext == SkipSpace \/ End \/ TakeColon \/ TakeNewLine \/ StringChar \/ TakeString
DepfileSpec == DepfileInit /\ [][DepfileNext]_depfileVars

-----------------------------------------------------------------------------
(* What a text means, in two passes: Plain(text) is the text once its      *)
(* backslashes have been carried out, and the backslashes left in it tell  *)
(* which of its characters are part of a name.                             *)

(* Every other backslash of a run escapes the character after it.          *)
Escapes(s) ==
  {i \in DOMAIN s : Cardinality({j \in 1..i : \A k \in j..i : s[k] = Escape}) % 2 = 1}

Plain(s) ==
  LET escapes == Escapes(s)
  IN  FlattenSeq([i \in DOMAIN s |->
        IF i \in escapes THEN <<>>
        ELSE IF i - 1 \in escapes /\ s[i] = NewLine THEN <<Space>> ELSE <<s[i]>>])

(* Each character with whether it belongs to a name. A backslash with      *)
(* nothing after it stands for itself.                                     *)
Marks(s) ==
  LET escapes == Escapes(s) \ {Len(s)}
  IN  FlattenSeq([i \in DOMAIN s |->
        IF i \in escapes THEN <<>>
        ELSE IF i - 1 \in escapes \/ s[i] \notin Syntax THEN <<[c |-> s[i], of |-> "name"]>>
        ELSE <<[c |-> s[i], of |-> "rule"]>>])

Is(m, c)  == m.of = "rule" /\ m.c = c
Blank(ms) == \A k \in DOMAIN ms : Is(ms[k], Space) \/ Is(ms[k], NewLine)

EndsName(ms, k) == ms[k].of = "name" /\ (k < Len(ms) => ms[k + 1].of # "name")
NameUpTo(ms, k) == LET size == Cardinality({j \in 1..k : \A i \in j..k : ms[i].of = "name"})
                   IN  [j \in 1..size |-> ms[k - size + j].c]
Names(ms) == FlattenSeq([k \in DOMAIN ms |-> IF EndsName(ms, k) THEN <<NameUpTo(ms, k)>> ELSE <<>>])

(* A rule is a name, possibly after blank lines, a colon, and names up to  *)
(* a newline with nothing but spaces after it.                             *)
HasRule(ms) ==
  \E colon \in DOMAIN ms :
    LET before == 1..(colon - 1)
        after  == (colon + 1)..Len(ms)
    IN  /\ \A k \in DOMAIN ms : Is(ms[k], Colon) <=> k = colon
        /\ \E end \in before : \A k \in before : EndsName(ms, k) <=> k = end
        /\ \A j, k \in before : Is(ms[j], NewLine) /\ ms[k].of = "name" => j < k
        /\ \A j, k \in after : Is(ms[j], NewLine) /\ j < k => Is(ms[k], Space)

RuleOf(ms) == [target |-> Head(Names(ms)), deps |-> Tail(Names(ms))]

(* How a rule must be written for this reader: two backslashes before a    *)
(* character with a meaning, four for a backslash.                         *)
EscapedChar(c) ==
  CASE c \in Syntax -> <<Escape, Escape, c>>
    [] c = Escape   -> <<Escape, Escape, Escape, Escape>>
    [] OTHER        -> <<c>>
EscapedName(n) == FlattenSeq([k \in DOMAIN n |-> EscapedChar(n[k])])

Written(rule, separator) ==
  EscapedName(rule.target) \o <<Colon>>
  \o FlattenSeq([k \in DOMAIN rule.deps |-> separator \o EscapedName(rule.deps[k])])
  \o <<NewLine>>

-----------------------------------------------------------------------------
(* Reading one character ahead, with escapes in two layers and a handler   *)
(* that must accept or throw at each token, gives the meaning of the text: *)
(* parse() returns the rule of a text that has one, nothing for a blank    *)
(* text, and throws for every other.                                       *)
ReadsRules ==
  outcome # "reading" =>
    LET ms == Marks(Plain(text))
    IN  /\ outcome = "read" <=> /\ Len(text) \notin Escapes(text)
                                /\ Blank(ms) \/ HasRule(ms)
        /\ outcome = "read" => data = IF Blank(ms) THEN NoData ELSE RuleOf(ms)

(* What a command reports is what the reader understands: every rule,      *)
(* whatever characters its names have, comes back as it was written        *)
(* according to the comment on read_() (tokenizer.h:46-57).                *)
WrittenIsRead ==
  outcome # "reading" =>
    \A rule \in Rules, separator \in Separators :
      text = Written(rule, separator) => outcome = "read" /\ data = rule
===============================================================================
