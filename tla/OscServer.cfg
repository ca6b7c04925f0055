\* Two voices, two phases; poll messages end before the shutdown begins.  The
\* server is not restartable: it really stops.
CONSTANTS
  NVoices = 2
  Phases = {p, q}
  None = None
  Overlap = FALSE
SPECIFICATION Spec
CHECK_DEADLOCK FALSE
INVARIANTS TypeOK NoRepeat
PROPERTIES Reported 
