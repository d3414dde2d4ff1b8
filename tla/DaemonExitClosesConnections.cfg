CONSTANTS
    NumDevices = 1
    Clients = {k1}
SPECIFICATION MCSafetySpec
INVARIANT ExitClosesConnections
