SPECIFICATION FairSpec
CONSTANTS
    MaxUint32 = 3
    BootMagic = 1
    Period = 2
    Clock = 7
    MaxUptime = 8
    None = None
INVARIANTS RawInOrder
PROPERTIES ImplementsSource SamplesWhileOnline OnSchedule DeadGoesOffline
CHECK_DEADLOCK FALSE
