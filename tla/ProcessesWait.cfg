SPECIFICATION FairSpec
CONSTANTS
    Procs = {p1, p2}
    Waiters = {shell}
    Codes = {ok, failed}
    Success = ok
    Nobody = Nobody
    Parents = {shell}
PROPERTY WaitReturns
CHECK_DEADLOCK FALSE
