CONSTANTS
    Families = {"v2", "v3"}
    Charges = {0, 20, 50}
    Runtimes = {0, 300, 900}
    Watts = {0, 120}
    LowBatteryPercent = 20
    LowRuntimeSeconds = 300
SPECIFICATION Spec
INVARIANTS
    V3ServesNewest
    OnLineWasReported
    LowBatteryShown
PROPERTY
    ReadingsNeverVanish
