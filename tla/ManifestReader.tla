---------------------------- MODULE ManifestReader ----------------------------
(***************************************************************************)
(* How updfile.json becomes a manifest (src/manifest/read_from_file.cpp)   *)
(* through the readers of objects and arrays and the handlers of values    *)
(* (src/json/), nested calls that each take one token at a time. A frame   *)
(* is an object_reader or array_reader with the value its caller fills in. *)
(*                                                                         *)
(* Tokens are those of JsonLexer; what it throws is a token here, the last *)
(* one. Strings other than names are opaque: PathPattern and Substitution  *)
(* model what is in them.                                                  *)
(***************************************************************************)
EXTENDS Naturals, SequencesExt

CONSTANT Documents    \* the sequences of tokens to be read

VARIABLES
  document,  \* the tokens that are read
  taken,     \* how many the lexer has handed out
  frames,    \* the readers at work, outermost first
  manifest,  \* the value read_from_file returns
  reading    \* "reading", "read", or what was thrown

manifestVars == <<document, taken, frames, manifest, reading>>

-----------------------------------------------------------------------------
(* The handlers: an object of each type has fields whose values are one of *)
(* a type, or a vector of them that a field given again adds to.           *)
One(type)      == [vector |-> FALSE, type |-> type]
VectorOf(type) == [vector |-> TRUE, type |-> type]

Fields ==
  [manifest |-> [source_patterns |-> VectorOf("pattern"), rules |-> VectorOf("rule"),
                 command_line_templates |-> VectorOf("template")],
   rule     |-> [command_line_ix |-> One("size"), output |-> One("output"),
                 inputs |-> VectorOf("input"), dependencies |-> VectorOf("input"),
                 order_only_dependencies |-> VectorOf("input")],
   input    |-> [source_ix |-> One("size"), rule_ix |-> One("size")],
   template |-> [binary_path |-> One("string"), arguments |-> VectorOf("part"),
                 environment |-> One("environment")],
   part     |-> [literals |-> VectorOf("string"), variables |-> VectorOf("variable")]]

Objects   == DOMAIN Fields \cup {"environment"}
Variables == {"input_files", "output_file", "depfile", "dependency"}

Knows(type, name)    == type = "environment" \/ name \in DOMAIN Fields[type]
FieldOf(type, name)  == IF type = "environment" THEN One("string") ELSE Fields[type][name]

(* A new value: its vectors are empty, what else it has is not initialized *)
(* until it is read.                                                       *)
NewValue(type) ==
  LET names == IF type = "environment" THEN {} ELSE {f \in DOMAIN Fields[type] : Fields[type][f].vector}
  IN  [f \in names |-> <<>>]

Put(value, f, x) == [g \in DOMAIN value \cup {f} |-> IF g = f THEN x ELSE value[g]]

(* Mutant: a vector is replaced by the one given last.                     *)
WithLast(type, value, name, v) ==
  IF type = "input" THEN Put(value, "input_ix", <<name, v>>) ELSE Put(value, name, v)

(* update_rule_input has one index and the type of what it is the index of.*)
With(type, value, name, v) ==
  IF type = "input" THEN Put(value, "input_ix", <<name, v>>)
  ELSE IF FieldOf(type, name).vector THEN Put(value, name, value[name] \o v)
  ELSE Put(value, name, v)

-----------------------------------------------------------------------------
Frame(type, at, value) == [type |-> type, at |-> at, name |-> "", value |-> value]
Outermost == Frame("root", "expression", <<>>)

Top   == Last(frames)
Below == Front(frames)
Token == IF taken = Len(document) THEN [type |-> "end", value |-> ""] ELSE document[taken + 1]
IsMark(token, c) == token.type = "punctuation" /\ token.value = c

(* Where the value that comes next goes, and what it must be.              *)
Awaited(frame) ==
  CASE frame.type = "root"  -> One("manifest")
    [] frame.at = "value"   -> FieldOf(frame.type, frame.name)
    [] OTHER                -> One(frame.type)

Given(frame, v) ==
  IF frame.at = "value" THEN [frame EXCEPT !.value = With(frame.type, @, frame.name, v), !.at = "post_field"]
  ELSE [frame EXCEPT !.value = Append(@, v), !.at = "post_item"]

ManifestInit ==
  /\ document \in Documents /\ taken = 0
  /\ frames = <<Outermost>> /\ manifest = NewValue("manifest") /\ reading = "reading"

At(place) == reading = "reading" /\ Top.at \in place /\ taken' = taken + 1 /\ UNCHANGED document
Fail(e)   == reading' = e /\ UNCHANGED <<frames, manifest>>
Becomes(frame) == frames' = Append(Below, frame) /\ UNCHANGED <<manifest, reading>>

(* v goes to the last of the readers in `to`, or is what parse() returns.  *)
Deliver(to, v) ==
  IF Last(to).type = "root"
  THEN frames' = to /\ manifest' = v /\ reading' = "read"
  ELSE frames' = Append(Front(to), Given(Last(to), v)) /\ UNCHANGED <<manifest, reading>>

(* What a handler throws for a token it has no use for.                    *)
Unexpected(token) ==
  CASE token.type = "end"         -> "unexpected_end"
    [] token.type = "string"      -> "unexpected_string"
    [] token.type = "number"      -> "unexpected_number"
    [] token.type = "punctuation" -> "unexpected_punctuation"
    [] token.type = "thrown"      -> token.value

(* parse_expression_handler: an object or array gets a reader, a scalar    *)
(* goes to the handler h.                                                  *)
Enter(frame) == frames' = Append(frames, frame) /\ UNCHANGED <<manifest, reading>>

Expression(h) ==
  CASE IsMark(Token, "{") ->
         IF ~h.vector /\ h.type \in Objects THEN Enter(Frame(h.type, "first_field_name", NewValue(h.type)))
         ELSE Fail("unexpected_element")
    [] IsMark(Token, "[") ->
         IF h.vector THEN Enter(Frame(h.type, "first_item", <<>>)) ELSE Fail("unexpected_element")
    [] Token.type = "string" ->
         IF h.vector \/ h.type \in Objects \cup {"size"} THEN Fail("unexpected_element")
         ELSE IF h.type = "variable" /\ Token.value \notin Variables THEN Fail("unknown_variable")
         ELSE Deliver(frames, Token.value)
    [] Token.type = "number" ->
         IF h = One("size") THEN Deliver(frames, Token.value) ELSE Fail("unexpected_element")
    [] OTHER -> Fail(Unexpected(Token))

ReadExpression == At({"expression", "value", "item"}) /\ Expression(Awaited(Top))

(* first_item_handler: an item, or the end of an empty array.              *)
ReadFirstItem ==
  /\ At({"first_item"})
  /\ IF IsMark(Token, "]") THEN Deliver(Below, Top.value) ELSE Expression(Awaited(Top))

(* Mutant: the object may end after a comma.                               *)
ReadNameOrEnd ==
  /\ At({"first_field_name", "field_name"})
  /\ CASE Token.type = "string" -> Becomes([Top EXCEPT !.name = Token.value, !.at = "field_colon"])
       [] IsMark(Token, "}") -> Deliver(Below, Top.value)
       [] OTHER -> Fail(Unexpected(Token))

(* object_reader::next(): a name or the end of an empty object, then, for  *)
(* each further field, a comma and a name.                                 *)
ReadName ==
  /\ At({"first_field_name", "field_name"})
  /\ CASE Token.type = "string" -> Becomes([Top EXCEPT !.name = Token.value, !.at = "field_colon"])
       [] IsMark(Token, "}") /\ Top.at = "first_field_name" -> Deliver(Below, Top.value)
       [] OTHER -> Fail(Unexpected(Token))

(* The colon is still part of next(); then the caller looks at the name.   *)
ReadColon ==
  /\ At({"field_colon"})
  /\ IF ~IsMark(Token, ":") THEN Fail(Unexpected(Token))
     ELSE IF Knows(Top.type, Top.name) THEN Becomes([Top EXCEPT !.at = "value"])
     ELSE Fail("unknown_field")

(* post_field_handler.                                                     *)
AfterField ==
  /\ At({"post_field"})
  /\ CASE IsMark(Token, ",") -> Becomes([Top EXCEPT !.at = "field_name"])
       [] IsMark(Token, "}") -> Deliver(Below, Top.value)
       [] OTHER -> Fail(Unexpected(Token))

(* post_item_handler.                                                      *)
AfterItem ==
  /\ At({"post_item"})
  /\ CASE IsMark(Token, ",") -> Becomes([Top EXCEPT !.at = "item"])
       [] IsMark(Token, "]") -> Deliver(Below, Top.value)
       [] OTHER -> Fail(Unexpected(Token))

ManifestNext == ReadExpression \/ ReadFirstItem \/ ReadName \/ ReadColon \/ AfterField \/ AfterItem
ManifestSpec == ManifestInit /\ [][ManifestNext]_manifestVars

-----------------------------------------------------------------------------
(* What tokens mean: brackets are counted to cut a value into its parts,   *)
(* without a stack and without regard to the order of the calls.           *)

(* How many brackets are open after each token.                            *)
Nesting(s) ==
  LET Places(a, b) == {j \in DOMAIN s : IsMark(s[j], a) \/ IsMark(s[j], b)}
      opening == Places("{", "[")
      closing == Places("}", "]")
  IN  [i \in DOMAIN s |-> Cardinality({j \in opening : j <= i}) - Cardinality({j \in closing : j <= i})]

(* The pieces of s between the commas that are in no brackets.             *)
Parts(s) ==
  LET nesting == Nesting(s)
      cuts  == {0, Len(s) + 1} \cup {i \in DOMAIN s : IsMark(s[i], ",") /\ nesting[i] = 0}
      order == SetToSortSeq(cuts, <)
  IN  IF s = <<>> THEN <<>>
      ELSE [k \in 1..(Len(order) - 1) |-> SubSeq(s, order[k] + 1, order[k + 1] - 1)]

Inside(s)      == SubSeq(s, 2, Len(s) - 1)
Bracketed(s, open, close) == Len(s) > 1 /\ IsMark(s[1], open) /\ IsMark(Last(s), close)
ValueOf(part)  == SubSeq(part, 3, Len(part))

RECURSIVE Conforms(_, _), Meaning(_, _)

Conforms(h, s) ==
  IF h.vector
  THEN Bracketed(s, "[", "]") /\ \A p \in ToSet(Parts(Inside(s))) : Conforms(One(h.type), p)
  ELSE IF h.type \in Objects
  THEN /\ Bracketed(s, "{", "}")
       /\ \A p \in ToSet(Parts(Inside(s))) :
            /\ Len(p) > 2 /\ p[1].type = "string" /\ IsMark(p[2], ":")
            /\ Knows(h.type, p[1].value) /\ Conforms(FieldOf(h.type, p[1].value), ValueOf(p))
  ELSE /\ Len(s) = 1 /\ s[1].type = (IF h.type = "size" THEN "number" ELSE "string")
       /\ h.type = "variable" => s[1].value \in Variables

(* All a vector was given counts, and the last of any other field.         *)
Meaning(h, s) ==
  IF h.vector THEN [k \in DOMAIN Parts(Inside(s)) |-> Meaning(One(h.type), Parts(Inside(s))[k])]
  ELSE IF h.type \notin Objects THEN s[1].value
  ELSE LET parts      == Parts(Inside(s))
           named(f)   == SelectSeq(parts, LAMBDA p : p[1].value = f)
           vectors    == DOMAIN NewValue(h.type)
           given      == {parts[k][1].value : k \in DOMAIN parts}
           value(f, p) == Meaning(FieldOf(h.type, f), ValueOf(p))
       IN  IF h.type = "input"
           THEN [f \in IF parts = <<>> THEN {} ELSE {"input_ix"} |->
                   <<Last(parts)[1].value, value(Last(parts)[1].value, Last(parts))>>]
           ELSE [f \in vectors \cup given |->
                   IF f \in vectors
                   THEN FlattenSeq([k \in DOMAIN named(f) |-> value(f, named(f)[k])])
                   ELSE value(f, Last(named(f)))]

(* The first value of a text: up to where its brackets are closed.         *)
FirstValue(s) ==
  LET nesting == Nesting(s)
      ends    == {i \in DOMAIN s : nesting[i] <= 0}
  IN  IF ends = {} THEN <<>> ELSE SubSeq(s, 1, Min(ends))

(* The manifest is what the text means: read_from_file returns exactly for *)
(* the texts that have a meaning, whatever the order of the fields and     *)
(* however often they are given, and everything before the last bracket    *)
(* counts, nothing after it.                                               *)
ManifestIsMeaning ==
  reading # "reading" =>
    LET first == FirstValue(document)
    IN  /\ (reading = "read") <=> Conforms(One("manifest"), first)
        /\ reading = "read" => manifest = Meaning(One("manifest"), first) /\ taken = Len(first)

(* What may be missing of a text that breaks off: at most a field, and the *)
(* brackets that are open, innermost first.                                *)
Closers(s) ==
  LET nesting == Nesting(s)
      open    == {i \in DOMAIN s : /\ IsMark(s[i], "{") \/ IsMark(s[i], "[")
                                   /\ \A j \in i..Len(s) : nesting[j] >= nesting[i]}
      order   == SetToSortSeq(open, >)
  IN  [k \in DOMAIN order |-> [type |-> "punctuation",
                               value |-> IF IsMark(s[order[k]], "{") THEN "}" ELSE "]"]]

Endings ==
  LET mark(c)    == [type |-> "punctuation", value |-> c]
      text(c)    == [type |-> "string", value |-> c]
      vector     == <<mark("["), mark("]")>>
      size       == <<[type |-> "number", value |-> 0]>>
      values     == {<<mark("{"), mark("}")>>, vector, size, <<text("depfile")>>}
      set(n, v)  == <<text(n), mark(":")>> \o v
  IN  {<<>>} \cup values \cup {<<mark(":")>> \o v : v \in values}
      \cup {set(n, vector) : n \in {"rules", "inputs", "arguments", "literals"}}
      \cup {set("rule_ix", size), set("rules", <<text("depfile")>>)}

Begins(s) == \E e \in Endings : Conforms(One("manifest"), s \o e \o Closers(s \o e))

(* An error is at the token that makes it one: up to there the text is the *)
(* beginning of a manifest, with that token it is not. Only after a name   *)
(* that is not known one more token is read. Error messages print the      *)
(* place of that token (src/main.impl.cpp 174-216).                        *)
ErrorsAreAtTheFault ==
  reading \notin {"reading", "read"} =>
    LET unknown == Top.at = "field_colon" /\ ~Knows(Top.type, Top.name)
        before  == IF unknown THEN taken - 2 ELSE taken - 1
    IN  /\ Begins(SubSeq(document, 1, before))
        /\ taken <= Len(document) => ~Begins(SubSeq(document, 1, before + 1))
===============================================================================
