\* Two voices; any two controls in a row, or four touches of a toggle and of
\* buttons, each sent at most twice.
CONSTANTS
  NVoices = 2
  MaxTime = 8
  RateSpan = 2
  MaxTouches = 4
  MaxAny = 2
  Few <- MCFew
  MaxSends = 2
SPECIFICATION SurfaceSpec
INVARIANTS SurfaceTypeOK EveryControlLands OpensTrue LastTouchStays
CHECK_DEADLOCK FALSE
