------------------------------ MODULE MCReaders ------------------------------
(***************************************************************************)
(* The readers of the manifest, of the log and of depfiles. A run of upd   *)
(* reads them one after the other; as they share nothing, an instance has  *)
(* one of them with a file of interest, the others with an empty one. The  *)
(* lexer of the manifest and what reads its tokens are taken apart, too.   *)
(***************************************************************************)
EXTENDS Depfile, LogReader, JsonLexer, ManifestReader

Chars      == {"a", Space, Colon, NewLine, Escape}
ShortNames == UNION {[1..n -> Chars] : n \in 1..2}
MCRules    == [target : {<<Space, Colon>>, <<Escape, "a">>, <<"a", NewLine>>},
               deps : {<<>>} \cup {<<n>> : n \in ShortNames} \cup {<<n, <<"a">>>> : n \in [1..1 -> Chars]}]
MCSeparators == {<<Space>>, <<Space, Escape, NewLine, Space>>}

MCTexts == BoundedSeq(Chars, 5)
           \cup {Written(r, separator) : r \in MCRules, separator \in MCSeparators}

Root(bytes)          == [kind |-> "root_entity_name", ids |-> <<>>, bytes |-> bytes]
Child(parent, bytes) == [kind |-> "entity_name", ids |-> <<parent>>, bytes |-> bytes]
Update(bytes, ids)   == [kind |-> "file_update", ids |-> ids, bytes |-> bytes]

(* Names and hashes may look like the types of entries. With two bytes of  *)
(* one bit each to spare, the numbers from 0 to 3 can be read back.        *)
Four   == <<Root(<<82>>), Child(0, <<69, 85>>), Child(1, <<7, 7, 7>>), Root(<<>>)>>
MCLogs == {<<Root(<<97>>), Update(h, <<0>> \o deps), Update(<<85, 4, 4, 4>>, <<0, 0>>)>> :
             h \in {<<0, 1, 2, 3>>, <<82, 69, 85, 130>>}, deps \in BoundedSeq({0}, 4)}
          \cup {Four}
          \cup {Four \o <<Update(<<1, 2, 3, 4>>, <<i, 3 - i>>), Child(i, <<98>>), Update(<<4, 3, 2, 1>>, <<4>>)>> :
                  i \in 0..3}
          \cup {<<Root([n \in 1..4 |-> n])>>}
MCForeign == {<<3, 82>>, <<4, 0>>, <<4, 69, 0, 1, 97>>, <<4, 85, 1, 2, 3, 4, 0, 0>>}

(* Texts of the lexer.                                                      *)
MCJsonTexts == BoundedSeq({"[", Quote, Backslash, "1", "0", " ", LineFeed, "a"}, 5)

(* Manifests with every kind of field, some of them twice; whatever one    *)
(* token may do to them; and all short texts.                              *)
P(c) == [type |-> "punctuation", value |-> c]
S(c) == [type |-> "string", value |-> c]
N(n) == [type |-> "number", value |-> n]
Thrown(e) == [type |-> "thrown", value |-> e]

Joined(items) == FlattenSeq([k \in DOMAIN items |-> IF k = 1 THEN items[k] ELSE <<P(",")>> \o items[k]])
List(items)   == <<P("[")>> \o Joined(items) \o <<P("]")>>
Object(items) == <<P("{")>> \o Joined(items) \o <<P("}")>>
Entry(f, v)   == <<S(f), P(":")>> \o v
Strings(ss)   == List([k \in DOMAIN ss |-> <<S(ss[k])>>])
Source(i)     == Object(<<Entry("source_ix", <<N(i)>>)>>)
Both          == Object(<<Entry("source_ix", <<N(0)>>), Entry("rule_ix", <<N(1)>>)>>)

MCDocs ==
  {Object(<<Entry("source_patterns", Strings(<<"p">>)), Entry("source_patterns", Strings(<<"q", "r">>))>>),
   Object(<<Entry("rules", List(<<Object(<<Entry("inputs", List(<<Both, Source(1)>>)),
                                          Entry("output", <<S("o")>>)>>), Object(<<>>)>>))>>),
   Object(<<Entry("rules", List(<<Object(<<Entry("command_line_ix", <<N(0)>>), Entry("command_line_ix", <<N(1)>>),
                                          Entry("order_only_dependencies", List(<<Object(<<>>)>>)),
                                          Entry("dependencies", List(<<>>))>>)>>))>>),
   Object(<<Entry("command_line_templates", List(<<
              Object(<<Entry("arguments", List(<<Object(<<Entry("variables", Strings(<<"depfile">>)),
                                                          Entry("literals", Strings(<<"l">>))>>)>>)),
                       Entry("environment", Object(<<Entry("E", <<S("1")>>), Entry("E", <<S("2")>>)>>)),
                       Entry("binary_path", <<S("b")>>)>>)>>))>>)}

Tokens == {P(c) : c \in {"{", "}", "[", "]", ":", ","}}
          \cup {S("rules"), S("depfile"), N(7), Thrown("invalid_character")}
Changed(d) ==
  {d, d \o <<P("}")>>}
  \cup {SubSeq(d, 1, i - 1) \o SubSeq(d, i + 1, Len(d)) : i \in DOMAIN d}
  \cup {SubSeq(d, 1, i) : i \in DOMAIN d}
  \cup {SubSeq(d, 1, i - 1) \o <<t>> \o SubSeq(d, i + 1, Len(d)) : i \in DOMAIN d, t \in Tokens}
  \cup {SubSeq(d, 1, i - 1) \o <<t>> \o SubSeq(d, i, Len(d)) : i \in DOMAIN d, t \in Tokens}
MCDocuments == {<<>>} \cup UNION {Changed(d) : d \in MCDocs}
               \cup {<<P("{")>> \o s : s \in BoundedSeq(Tokens \ {S("depfile"), Thrown("invalid_character")}, 4)}

(* Which of the four is at work.                                           *)
VARIABLE reader
Idle(readers) ==
  /\ reader \notin readers
  /\ "depfile" \in readers => text = <<>>
  /\ "log" \in readers => file = <<>> /\ written = Four
  /\ "lexer" \in readers => json = <<>>
  /\ "manifest" \in readers => document = <<>>

MCInit ==
  \/ reader = "depfile" /\ Idle({"log", "lexer", "manifest"})
     /\ LogInit /\ JsonInit /\ ManifestInit /\ DepfileInit
  \/ reader = "log" /\ Idle({"depfile", "lexer", "manifest"})
     /\ DepfileInit /\ JsonInit /\ ManifestInit /\ LogInit
  \/ reader = "lexer" /\ Idle({"depfile", "log", "manifest"})
     /\ DepfileInit /\ LogInit /\ ManifestInit /\ JsonInit
  \/ reader = "manifest" /\ Idle({"depfile", "log", "lexer"})
     /\ DepfileInit /\ LogInit /\ JsonInit /\ ManifestInit

MCNext ==
  /\ \/ reader = "depfile" /\ DepfileNext /\ UNCHANGED <<logReaderVars, jsonVars, manifestVars>>
     \/ reader = "log" /\ LogNext /\ UNCHANGED <<depfileVars, jsonVars, manifestVars>>
     \/ reader = "lexer" /\ JsonNext /\ UNCHANGED <<depfileVars, logReaderVars, manifestVars>>
     \/ reader = "manifest" /\ ManifestNext /\ UNCHANGED <<depfileVars, logReaderVars, jsonVars>>
  /\ UNCHANGED reader
MCSpec == MCInit /\ [][MCNext]_<<depfileVars, logReaderVars, jsonVars, manifestVars, reader>>
===============================================================================
