SPECIFICATION FairSpec
CONSTANTS
  MAX_USER_PROG = 3
  NUM_TERMS = 2
  HaltArgs <- MCHaltArgs
  Windows = {}
PROPERTIES
  ShellsComeUp
  EveryActiveRuns
  HaltEnds
