CONSTANTS
    Processes = {p}
    NoProcess = NoProcess
SPECIFICATION Spec
CHECK_DEADLOCK FALSE
PROPERTIES
    TerminalFailureSuppresses
