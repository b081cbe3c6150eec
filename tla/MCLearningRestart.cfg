SPECIFICATION Spec
CONSTANTS
    MaxSession = 2
    MaxProfile = 1
    MaxRecord = 2
    Button = {"baseline", "temp_up"}
    Mode = {0}
    Temp = {0, 1}
    None = None
PROPERTIES RestartRequiresBaseline
CHECK_DEADLOCK FALSE
