SPECIFICATION Spec
CONSTANTS
  Plugin = {p1, p2}
  MaxRestarts = 1
  MaxCrashes = 1
  MaxTimeouts = 0
  Prompt = TRUE
INVARIANT RestsOnlyRegistered
PROPERTY EndsRegistered
\* the system rests when every plugin is registered and the kubelet stays up
CHECK_DEADLOCK FALSE
