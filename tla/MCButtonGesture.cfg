SPECIFICATION FairButton
CONSTANTS
  Masks = {m1, m2, m3}
  Debounce = 2
  Window = 3
  LongAfter = 5
  Rebaseline = 8
  WaveTicks = 6
  Idle = 2
  MaxGap = 8
PROPERTIES ImplementsProtocol LongMeansHeld KeySettles
