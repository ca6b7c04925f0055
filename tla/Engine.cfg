\* Two Python threads and the OSC thread, each kind with a parameter of its own.
CONSTANTS
  PyThreads = {t1, t2}
  OscThread = osc
  PyParams = {rate}
  OscParams = {play}
  Values = {0, 1}
  Default = 0
  Room = 2
  kPushAttempts = 2
  None = None
  MaxCalls = 5
SPECIFICATION Spec
INVARIANTS TypeOK SetterExclusion SingleProducerConsumer NoStranded
PROPERTIES Converges CallsReturn
CHECK_DEADLOCK FALSE
