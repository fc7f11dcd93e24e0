------------------------------ MODULE JsonLexer ------------------------------
(***************************************************************************)
(* The lexer that cuts updfile.json into tokens (src/json/lexer.h), which  *)
(* reads a character ahead to find the end of a number, and keeps the      *)
(* locations that error messages print. Characters arrive one by one from  *)
(* fd_char_reader; that it buffers them does not show.                     *)
(***************************************************************************)
EXTENDS Naturals, SequencesExt

CONSTANT JsonTexts    \* the files to be read
ASSUME JsonTextsAssumption == JsonTexts \subseteq Seq(STRING)

Quote       == "\""
Backslash   == "\\"
LineFeed    == "\n"
Whitespace  == {" ", LineFeed}
Punctuation == {"[", "]", "{", "}", ":", ","}
Digits      == <<"0", "1", "2", "3", "4", "5", "6", "7", "8", "9">>
DigitChars  == ToSet(Digits)
DigitValue(c) == CHOOSE d \in 0..9 : Digits[d + 1] = c

VARIABLES
  json,     \* the file that is read
  in_json,  \* the reader's place in it, c_, good_, has_lookahead_, loc_ and next_loc_
  literal,  \* the string or number being read
  tokens,   \* what the handlers were given
  lexing    \* "lexing", "end", or what was thrown

jsonVars == <<json, in_json, literal, tokens, lexing>>

Start     == [line |-> 1, column |-> 1, index |-> 0]
NoLiteral == [type |-> "none"]

-----------------------------------------------------------------------------
(* fd_char_reader::next().                                                 *)
NextOf(r) == IF r.at > Len(json) THEN [r EXCEPT !.good = FALSE]
             ELSE [r EXCEPT !.good = TRUE, !.c = json[r.at], !.at = @ + 1]

After(loc, c) ==
  [line   |-> IF c = LineFeed THEN loc.line + 1 ELSE loc.line,
   column |-> IF c = LineFeed THEN 1 ELSE loc.column + 1,
   index  |-> loc.index + 1]

(* Mutant: a newline is one more column.                                   *)
NextCharInLine(r) ==
  LET read == NextOf(r)
  IN  IF r.lookahead THEN [r EXCEPT !.lookahead = FALSE]
      ELSE IF ~read.good THEN read
      ELSE [read EXCEPT !.loc = r.next_loc, !.next_loc.index = @ + 1, !.next_loc.column = @ + 1]

(* next_char_().                                                           *)
NextChar(r) ==
  LET read == NextOf(r)
  IN  IF r.lookahead THEN [r EXCEPT !.lookahead = FALSE]
      ELSE IF ~read.good THEN read
      ELSE [read EXCEPT !.loc = r.next_loc, !.next_loc = After(@, read.c)]

JsonInit ==
  /\ json \in JsonTexts
  /\ in_json = [at |-> 1, c |-> " ", good |-> TRUE, lookahead |-> FALSE,
                loc |-> Start, next_loc |-> Start]
  /\ literal = NoLiteral /\ tokens = <<>> /\ lexing = "lexing"

Emit(type, value, from, to) ==
  tokens' = Append(tokens, [type |-> type, value |-> value, from |-> from, to |-> to])

-----------------------------------------------------------------------------
(* next(), between two tokens: the next character is read, and decides.    *)
Between(accepted) ==
  /\ lexing = "lexing" /\ literal = NoLiteral
  /\ NextChar(in_json).good /\ NextChar(in_json).c \in accepted
  /\ UNCHANGED json

SkipWhitespace ==
  /\ Between(Whitespace)
  /\ in_json' = NextChar(in_json)
  /\ UNCHANGED <<literal, tokens, lexing>>

LexPunctuation ==
  /\ Between(Punctuation)
  /\ in_json' = NextChar(in_json)
  /\ Emit("punctuation", in_json'.c, in_json'.loc, in_json'.loc)
  /\ UNCHANGED <<literal, lexing>>

BeginString ==
  /\ Between({Quote})
  /\ in_json' = NextChar(NextChar(in_json))
  /\ literal' = [type |-> "string", value |-> <<>>, from |-> NextChar(in_json).loc]
  /\ UNCHANGED <<tokens, lexing>>

BeginNumber ==
  /\ Between(DigitChars)
  /\ in_json' = NextChar(in_json)
  /\ literal' = [type |-> "number", value |-> 0, from |-> in_json'.loc, to |-> in_json'.loc]
  /\ UNCHANGED <<tokens, lexing>>

LexEnd ==
  /\ lexing = "lexing" /\ literal = NoLiteral /\ ~NextChar(in_json).good
  /\ in_json' = NextChar(in_json)
  /\ lexing' = "end"
  /\ UNCHANGED <<json, literal, tokens>>

InvalidCharacter ==
  /\ lexing = "lexing" /\ literal = NoLiteral /\ NextChar(in_json).good
  /\ NextChar(in_json).c \notin Whitespace \cup Punctuation \cup {Quote} \cup DigitChars
  /\ in_json' = NextChar(in_json)
  /\ lexing' = "invalid_character"
  /\ UNCHANGED <<json, literal, tokens>>

(* read_string_(): a backslash stands for the character after it.          *)
LexStringChar ==
  /\ lexing = "lexing" /\ literal.type = "string" /\ in_json.good /\ in_json.c # Quote
  /\ LET r == IF in_json.c = Backslash THEN NextChar(in_json) ELSE in_json
     IN  IF r.good
         THEN in_json' = NextChar(r) /\ literal' = [literal EXCEPT !.value = Append(@, r.c)]
         ELSE in_json' = r /\ UNCHANGED literal
  /\ UNCHANGED <<json, tokens, lexing>>

EndString ==
  /\ lexing = "lexing" /\ literal.type = "string" /\ in_json.good /\ in_json.c = Quote
  /\ Emit("string", literal.value, literal.from, in_json.loc)
  /\ literal' = NoLiteral
  /\ UNCHANGED <<json, in_json, lexing>>

EndInString ==
  /\ lexing = "lexing" /\ literal.type = "string" /\ ~in_json.good
  /\ lexing' = "unexpected_end_in_string"
  /\ UNCHANGED <<json, in_json, literal, tokens>>

(* read_number_(): the character after the last digit is kept for the next *)
(* token, or, at the end of the file, the fact that there is none.         *)
InNumber == literal.type = "number" /\ in_json.good /\ in_json.c \in DigitChars

LexDigit ==
  /\ lexing = "lexing" /\ InNumber
  /\ literal' = [literal EXCEPT !.value = @ * 10 + DigitValue(in_json.c), !.to = in_json.loc]
  /\ in_json' = NextChar(in_json)
  /\ UNCHANGED <<json, tokens, lexing>>

EndNumber ==
  /\ lexing = "lexing" /\ literal.type = "number" /\ ~InNumber
  /\ Emit("number", literal.value, literal.from, literal.to)
  /\ in_json' = [in_json EXCEPT !.lookahead = TRUE]
  /\ literal' = NoLiteral
  /\ UNCHANGED <<json, lexing>>

JsonNext ==
  \/ SkipWhitespace \/ LexPunctuation \/ BeginString \/ BeginNumber \/ LexEnd \/ InvalidCharacter
  \/ LexStringChar \/ EndString \/ EndInString \/ LexDigit \/ EndNumber
JsonSpec == JsonInit /\ [][JsonNext]_jsonVars

-----------------------------------------------------------------------------
(* What a token may look like, as a piece of the text.                     *)

LocationOf(i) ==
  [line   |-> 1 + Cardinality({j \in 1..i : json[j] = LineFeed}),
   column |-> 1 + Cardinality({j \in 1..i : \A k \in j..i : json[k] # LineFeed}),
   index  |-> i]

(* An odd number of backslashes in a row right before a character takes    *)
(* its meaning away.                                                       *)
IsEscaped(s, i) ==
  Cardinality({j \in 1..(i - 1) : \A k \in j..(i - 1) : s[k] = Backslash}) % 2 = 1
Closes(s, i) == i > 1 /\ s[i] = Quote /\ ~IsEscaped(s, i)

Decimal(s) ==
  LET First[n \in 0..Len(s)] == IF n = 0 THEN 0 ELSE First[n - 1] * 10 + DigitValue(s[n])
  IN  First[Len(s)]

Spells(s, token) ==
  CASE token.type = "punctuation" -> s = <<token.value>> /\ token.value \in Punctuation
    [] token.type = "string" ->
         /\ s[1] = Quote /\ {i \in DOMAIN s : Closes(s, i)} = {Len(s)}
         /\ \E at \in [DOMAIN token.value -> 2..(Len(s) - 1)] :
              /\ \A j, k \in DOMAIN at : j < k => at[j] < at[k]
              /\ Range(at) = {i \in 2..(Len(s) - 1) : s[i] = Backslash => IsEscaped(s, i)}
              /\ \A k \in DOMAIN at : token.value[k] = s[at[k]]
    [] token.type = "number" ->
         /\ \A i \in DOMAIN s : s[i] \in DigitChars
         /\ token.value = Decimal(s)

(* Where the k-th token starts and ends.                                   *)
BeginOf(k)  == tokens[k].from.index
EndOf(k)    == IF k = 0 THEN 0 ELSE tokens[k].to.index + 1
AllBlank(i, j) == \A k \in i..j : json[k] \in Whitespace

TokenFits(k) ==
  /\ tokens[k].from = LocationOf(BeginOf(k)) /\ tokens[k].to = LocationOf(EndOf(k) - 1)
  /\ Spells(SubSeq(json, BeginOf(k) + 1, EndOf(k)), tokens[k])
  /\ EndOf(k - 1) <= BeginOf(k) /\ AllBlank(EndOf(k - 1) + 1, BeginOf(k))
  /\ tokens[k].type = "number" /\ EndOf(k) < Len(json) => json[EndOf(k) + 1] \notin DigitChars

(* The tokens are the text: each is spelled by the characters between its  *)
(* two locations, whose lines and columns are right, there is nothing but  *)
(* whitespace between them, and a number has all its digits; what is left  *)
(* at the end is whitespace, or starts with the very character that is     *)
(* reported, or with a string that is never closed.                        *)
TokensAreTheText ==
  lexing # "lexing" =>
    LET left == EndOf(Len(tokens)) + 1
    IN  /\ \A k \in DOMAIN tokens : TokenFits(k)
        /\ lexing = "end" => AllBlank(left, Len(json))
        /\ lexing = "invalid_character" =>
             LET at == in_json.loc.index
             IN  /\ in_json.loc = LocationOf(at) /\ left <= at + 1 /\ AllBlank(left, at)
                 /\ json[at + 1] \notin Whitespace \cup Punctuation \cup {Quote} \cup DigitChars
        /\ lexing = "unexpected_end_in_string" =>
             \E i \in left..Len(json) :
               LET s == SubSeq(json, i, Len(json))
               IN  s[1] = Quote /\ AllBlank(left, i - 1) /\ \A j \in DOMAIN s : ~Closes(s, j)
==============================================================================
