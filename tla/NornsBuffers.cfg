\* Buffers of four frames, a stereo file of three at twice their rate, and two
\* calls, one on each thread or one after the other.
CONSTANTS
  Frames = 3
  Content <- MCContent
  WavRate = 2
  Wav <- MCWav
  Steps = 4
  Sub = 4
  Threads = {t1, t2}
  Calls <- MCCalls
  MaxCalls = 2
SPECIFICATION Spec
INVARIANTS TypeOK  WriteIsFaithful
PROPERTIES StaysInside
CHECK_DEADLOCK FALSE
