SPECIFICATION FairSpec
CONSTANTS
  Inputs = {s1, s2}
  Requests = {r1, r2}
  None = None
  FirstEvent = 1
  MaxEvents = 3
  Lossless = FALSE
CONSTRAINT OneAtATime
INVARIANTS MicIsWanted OneVoice PressIsNew
PROPERTIES OnlyCurrentSent StopEnds
