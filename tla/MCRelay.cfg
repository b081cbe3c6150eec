SPECIFICATION WorkerSpec
CONSTANTS
    MaxSample = 3
    MaxQueue = 2
    MaxDelay = 2
    Status = {"online", "offline"}
    None = None
INVARIANTS SamplesInOrder
PROPERTIES LostOnlyWithLink AttemptsEnd StatusConverges
CHECK_DEADLOCK FALSE
