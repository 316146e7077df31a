SPECIFICATION PeriphSpec
INVARIANTS SessionSafe AllOrNothing CodecsHeld
PROPERTIES CloseReturns ImplementsTransport
CHECK_DEADLOCK FALSE
