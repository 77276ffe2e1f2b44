\* The shell ends when its input does.
SPECIFICATION Spec
CONSTANTS
  MAXARGS = 10
  MEMSIZE = 4096
  Lines <- MCLines
  CdLines <- MCCdLines
  Commands <- MCCommands
  parse <- MCparse
  Wiring <- MCWiring
  MaxLines = 2
  MaxTokens = 6
  MaxFaults = 1
  MaxPid = 8
  CAPACITY = 1
  From <- MCFrom
  To <- MCTo
CHECK_DEADLOCK FALSE
INVARIANTS Wired PromptMeansDone NoDeadlock
PROPERTY CommandsEnd
