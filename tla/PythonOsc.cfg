\* One voice; two handlers at a time, besides main; a poll that runs, or none;
\* two datagrams.
CONSTANTS
  NVoices = 1
  Phases = {0, 1}
  Pollers = {p1, p2, p3}
  Handlers = {h1, h2}
  None = None
  MaxMessages = 2
SPECIFICATION Spec
INVARIANTS TypeOK HostStopsLast
PROPERTIES AllEnd Reported
CHECK_DEADLOCK FALSE
