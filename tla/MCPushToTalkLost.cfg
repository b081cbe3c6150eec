SPECIFICATION FairSpec
CONSTANTS
  Inputs = {s1}
  Requests = {}
  None = None
  FirstEvent = 1
  MaxEvents = 4
  Lossless = TRUE
CONSTRAINT OnlySpeaks
PROPERTIES ReleaseEnds
