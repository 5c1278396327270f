SPECIFICATION Spec
CONSTANTS
    Procs = {p1, p2}
    Waiters = {shell, other}
    Codes = {failed}
    Success = ok
    Nobody = Nobody
    Parents = {shell}
SYMMETRY Symmetry
INVARIANTS RunningHasEntry NoDanglingListener ReturnsEnded ExitCodeReported
CHECK_DEADLOCK FALSE
