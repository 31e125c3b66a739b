SPECIFICATION Spec
CONSTANTS
    Cases <- MCCases
    None = None
INVARIANTS TypeOK ExitTellsTheRun GateIsExact
CHECK_DEADLOCK FALSE
