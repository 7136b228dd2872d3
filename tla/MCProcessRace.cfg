SPECIFICATION Spec
CONSTANTS
  MAX_USER_PROG = 3
  NUM_TERMS = 2
  HaltArgs <- MCHaltArgs
  Windows = {"unpaged", "boot", "startup", "halt", "switch"}
CHECK_DEADLOCK FALSE
INVARIANTS
  HaltFindsParent
PROPERTIES
  StackNotReused
