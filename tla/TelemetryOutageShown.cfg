CONSTANTS
    Families = {"v2"}
    Charges = {50}
    Runtimes = {900}
    Watts = {0, 120}
    LowBatteryPercent = 20
    LowRuntimeSeconds = 300
SPECIFICATION Spec
INVARIANT OutageShown
