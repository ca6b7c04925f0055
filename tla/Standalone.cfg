\* Room for two commands, datagrams of one or two messages.  The process ends.
CONSTANTS
  Room = 2
  Bundle = 2
  MaxMsgs = 3
SPECIFICATION Spec
CHECK_DEADLOCK FALSE
INVARIANTS TypeOK NothingLost InOrder
PROPERTIES AllServed
