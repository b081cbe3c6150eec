SPECIFICATION FairPath
CONSTANTS
    MaxUint32 = 3
    BootMagic = 1
    Period = 1
    Clock = 2
    MaxUptime = 2
    Gate = {g1, g2}
    None = None
CONSTRAINT NodeFirst
INVARIANTS HighWaterCovers AcceptedAsTaken
PROPERTIES ImplementsGuard FailsClosed CallsReturn
