CONSTANTS
    Second = 10
    MaxDuration = 255
    MaxDevices = 3
    RawConfigs <- MCRawConfigs
SPECIFICATION MCSpec
INVARIANTS
    LoginAddressed
    TickerNeverPanics
PROPERTIES
    ImplementsRunner
    CancelReturns
