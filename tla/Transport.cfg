CONSTANT Attempts = {a1, a2}
SPECIFICATION MCSpec
INVARIANTS
    OneOwner
    FoundIsReported
PROPERTIES
    ConnectionsEnd
    OperationsReturn
