\* A poll message arrives while the server shuts down.
CONSTANTS
  NVoices = 1
  Phases = {p}
  None = None
  Overlap = TRUE
SPECIFICATION Spec
CHECK_DEADLOCK FALSE
INVARIANTS ShutdownStops
