SPECIFICATION FairSpec
CONSTANTS
  Period = "."
  Chars = {"a", "b", "."}
  Patterns <- MCPatterns
  Candidates <- MCCandidates
INVARIANTS MatchesExactly IndicesAreFirstSplit
PROPERTIES Terminates
CHECK_DEADLOCK FALSE
