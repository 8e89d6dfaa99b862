SPECIFICATION Spec
CONSTANTS
  Plugin = {p1}
  MaxRestarts = 1
  MaxCrashes = 0
  MaxTimeouts = 1
  Prompt = TRUE
INVARIANT PushHasRoom
\* the system may rest
CHECK_DEADLOCK FALSE
