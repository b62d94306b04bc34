CONSTANTS
  Texts = {ab, abc}
  Short = Short
  Debounce = 3
  Latencies = {1, 3}
  Queries = 2
  MaxTyped = 4
SPECIFICATION FairSpec
INVARIANTS ResultsMatchQuery SearchesNeverMeet
PROPERTIES SearchEnds
CHECK_DEADLOCK FALSE
