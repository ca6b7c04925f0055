\* A control and the reset button.
CONSTANTS
  NVoices = 1
  MaxTime = 8
  RateSpan = 2
  MaxTouches = 2
  MaxAny = 2
  Few = {}
  MaxSends = 1
SPECIFICATION SurfaceSpec
PROPERTY ResetRestores
CHECK_DEADLOCK FALSE
