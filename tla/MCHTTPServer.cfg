SPECIFICATION MCSpec
CONSTANTS
  Requests = {1, 2}
  Limits <- MCLimits
  Routes = {"analyze", "raw", "sarif"}
  BadInputs = {"unknown_rule"}
  ParseResults = {"unlintable", "errInvalidRequest", "syntaxError", "nilDiagram",
                  "ErrMemoryLimit"}
  Environments <- MCEnvironments
  Arrivals <- MCArrivals
  Invocations <- MCInvocations
  None = None
INVARIANTS SlotsExact GateHolds RequestsRecorded ExitCodeTruthful
PROPERTIES CapKept ShutdownOrderly
CHECK_DEADLOCK FALSE
