SPECIFICATION FairSpec
CONSTANTS
    Conn = {c1, c2}
    MaxConnections = 1
    Address = {public4, public6, private4, private6}
    Public = {public4, public6}
    Private = {private4, private6}
    Native = {public4, private4}
    IoTimeout = 1
    IdleTimeout = 2
    Lifetime = 3
    Window = 1
    MaxChunks = 3
    None = None
INVARIANTS SlotsBalance
PROPERTIES ImplementsPipes GivenUpForCause SlotComesBack
