SPECIFICATION FairSpec
CONSTANTS
    Call = {k1, k2}
    Command = {c1}
    Record = {r1, r2}
    Sound = {r1}
    Known = {r1, r2}
    MaxStranger = 1
    MaxCrash = 1
    None = None
INVARIANTS AnswerHonest NoSendWhileLearning
PROPERTIES ImplementsOneShot EveryRequestServed
CHECK_DEADLOCK FALSE
