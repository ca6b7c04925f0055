\* The ring at four slots, wrapping twice.
CONSTANTS
  CAP = 4
  Commands = {f, g}
  Empty = Empty
  MaxPushes = 9
SPECIFICATION Spec
INVARIANTS TypeOK NoSlotRace
PROPERTIES IsFifo EventuallyPopped
