SPECIFICATION LiveSpec
CONSTANTS
    Script <- ClientScripts
    Hiding <- ClientHiding
    Messages <- ClientMessages
    Noisy <- ClientNoisy
INVARIANTS
    TerminalTypeOK
    CursorRestored
    ThreadWithinAnimation
    LogsUndisturbed
    OutcomeInPlace
PROPERTIES
    ProgramEnds
CHECK_DEADLOCK FALSE
