SPECIFICATION Spec
CONSTANTS
    Modes = {"linux", "batch", "windows"}
    ExecTmout = 3
    MaxRuns = 4
    MaxTime = 9
INVARIANTS
    ReportIsTrue
    ReportedOnce
    TimerCoversRun
