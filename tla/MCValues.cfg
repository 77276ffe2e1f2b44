SPECIFICATION SuiteSpec
CONSTANTS
  \* Limits of the parser that a line of MaxTokens tokens can reach.
  MAXARGS = 4
  MEMSIZE = 224
  MaxTokens = 6
INVARIANTS
  ParsesGrammar WordsTerminated EverythingReleased ResultsAsDefined
