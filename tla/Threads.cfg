SPECIFICATION FairSpec
CONSTANTS
    Procs = {shell, prog}
    Threads = {thread}
    Kernel = kernel
    Shell = shell
    Handlers = {"calls"}
    None = none
    prog = prog
    Calls <- MCCalls
    MaxShutdowns = 1
INVARIANTS TcbSound FaultsOnlyAfterEnd TasklistIsCurrent
PROPERTY ShutdownWakes
CHECK_DEADLOCK FALSE
