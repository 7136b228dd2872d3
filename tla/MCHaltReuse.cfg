SPECIFICATION Spec
CONSTANTS
  MAX_USER_PROG = 4
  NUM_TERMS = 2
  HaltArgs <- MCHaltArgs
  Windows = {"halt"}
CHECK_DEADLOCK FALSE
PROPERTIES
  HaltUndisturbed
