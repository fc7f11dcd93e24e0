----------------------------- MODULE MCUpdateMap -----------------------------
EXTENDS UpdateMap

a_c    == <<"a", ".", "c">>
d_c    == <<"d", ".", "c">>
hidden == <<".", "c">>
d      == <<"d">>

FileTree(dirs, files, links) ==
  [p \in dirs \cup files \cup links |->
     IF p \in dirs THEN "directory" ELSE IF p \in files THEN "regular" ELSE "unsupported"]

\* Nested directories of one name, one of them named like a file, hidden
\* entries and a symbolic link.
BushyTree == FileTree({<<>>, <<d>>, <<d, d>>, <<d, d_c>>, <<hidden>>},
                      {<<a_c>>, <<d, a_c>>, <<d, d, a_c>>, <<d, d_c, a_c>>, <<d, hidden>>, <<hidden, a_c>>},
                      {<<d_c>>})
SmallTree == FileTree({<<>>, <<d>>}, {<<a_c>>, <<d, d_c>>, <<d, a_c>>}, {})
MCTrees   == {BushyTree, SmallTree}

AllSources  == <<"(", "*", "*", "/", "*", ")", ".", "c">>                \* (**/*).c
InD         == <<"d", "/", "(", "*", ")", ".", "c">>                     \* d/(*).c
UnderD      == <<"*", "*", "/", "d", "/", "(", "*", "*", "/", "?", ")", ".", "*">>  \* **/d/(**/?).*
Directories == <<"(", "?", ")", "*", "/", "(", "?", "(", ".", "*", ")", ")">>       \* (?)*/(?(.*))

Escaped     == <<"d", "/", "\\", "a", "(", ".", "*", ")">>               \* d/\a(.*)

PatternLists == {<<AllSources>>, <<InD, AllSources>>, <<AllSources, InD>>,
                 <<UnderD, InD, AllSources>>, <<Directories, UnderD>>, <<Escaped, UnderD>>}

Source(i) == [type |-> "source", ix |-> i]
Rule(i)   == [type |-> "rule", ix |-> i]

Outputs == {<<"o", "/", "(", "$", "1", ")">>,        \* o/($1)
            <<"(", "$", "1", ".", ")", "c">>,        \* ($1.)c, the source itself for AllSources
            <<"x", "(", ")">>,                       \* x(), one output for all inputs
            <<"$", "2">>}                            \* $2

RuleOf(inputs, deps, order_only, output) ==
  [inputs |-> inputs, dependencies |-> deps, order_only_dependencies |-> order_only, output |-> output]

FirstRules  == {RuleOf(<<Source(1)>>, <<>>, <<>>, o) : o \in Outputs}
SecondRules == {RuleOf(i, deps, order_only, o) :
                  i \in {<<Source(1)>>, <<Rule(1)>>, <<Source(2), Rule(1)>>},
                  deps \in {<<>>, <<Rule(1), Rule(2)>>}, order_only \in {<<>>, <<Rule(1)>>},
                  o \in Outputs}

MCManifests ==
  [source_patterns : PatternLists, rules : {<<>>}]
  \cup [source_patterns : {<<InD, AllSources>>}, rules : FirstRules \X SecondRules]
==============================================================================
