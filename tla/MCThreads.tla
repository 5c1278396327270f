----------------------------- MODULE MCThreads ------------------------------
(* An instance of Threads for TLC: the shell, a program with a thread.     *)
EXTENDS Threads

CONSTANTS prog

CallsOfShell == {"process", "register", "tasklist"}
CallsOfProg  == {"thread", "exit", "shutdown", "tasklist"}

MCCalls == {<<Kernel, "process">>} \cup ({Shell} \X CallsOfShell)
                                   \cup ({prog} \X CallsOfProg)
=============================================================================
