CONSTANTS
    NumDevices = 1
    Callers = {c1, c2}
SPECIFICATION MCSafetySpec
INVARIANT DisabledShowsWait
