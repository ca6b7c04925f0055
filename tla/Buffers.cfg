\* Two voices, three arrays, each of two lengths.
CONSTANTS
  Voices = {v1, v2}
  Ids = {a, b, c}
  Sizes = {2, 4}
  NoArray = NoArray
  Room = 2
  MaxSwaps = 5
SPECIFICATION Spec
INVARIANTS TypeOK ArraysAgree OneSwapKept
