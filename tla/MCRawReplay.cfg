SPECIFICATION Spec
CONSTANTS
    Host = {h1, h2}
    Command = {c1, c2}
    Modulus = 6
    Deadline = 1
    Lifetime = 2
    Capacity = 1
    MaxTime = 2
    MaxIncident = 1
    MaxChallenge = 2
    None = None
SYMMETRY RunSymmetry
INVARIANTS OutcomeHonest RightWaveform
PROPERTIES ImplementsOneShot NeverStale
CHECK_DEADLOCK FALSE
