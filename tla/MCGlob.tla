-------------------------------- MODULE MCGlob --------------------------------
EXTENDS Glob, SequencesExt

Literals     == {<<>>, <<"a">>, <<"b">>, <<"a", "b">>}
Segments     == [prefix : Placeholders, literal : Literals] \ {[prefix |-> "none", literal |-> <<>>]}
MCPatterns   == BoundedSeq(Segments, 3)
MCCandidates == BoundedSeq({"a", "b"}, 4) \cup [1..3 -> {"a", "b", "."}]
===============================================================================
