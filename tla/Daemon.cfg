CONSTANTS
    NumDevices = 2
    Clients = {k1, k2}
SPECIFICATION MCSpec
INVARIANTS
    ListComplete
    ControlNeedsPassword
    ExitCodeHonest
PROPERTY
    ShutdownExits
