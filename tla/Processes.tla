----------------------------- MODULE Processes ------------------------------
(***************************************************************************)
(* The life of a process and the wait for its end (ProcessUtils.cpp,       *)
(* ProcessControlBlock.cpp, Blockable.h, Synchronization.h Semaphore).     *)
(*                                                                         *)
(* A waiter is a program that clones processes, waits for any of those it  *)
(* still has, reads the exit code of the one that Wait_For returned and    *)
(* forgets it: the wait loop of Execute_Commands in command_parser.cpp,    *)
(* and Bootstrap_Loader, which does it for the shell.  A process runs its  *)
(* program, may call Exit, returns, and processStartPoint takes it down.   *)
(*                                                                         *)
(* One action is one access to state that another thread reads: the handle *)
(* map (handles.cpp), the process table, a Process, a list of listeners    *)
(* under its listenersLock, a Semaphore.  A process stands for its handle. *)
(* An access to a deleted Process object finds the memory as it was left,  *)
(* one to a null pointer ends the thread ("crashed").                      *)
(***************************************************************************)
EXTENDS Naturals, Sequences, FiniteSets

CONSTANTS Procs,      \* processes that can be cloned, and their handles
          Waiters,    \* the threads that clone and wait
          Codes,      \* the exit codes that programs pass to Exit
          Success,    \* the code a Process is created with
          Nobody,     \* Invalid_Handle, or a free lock
          Parents     \* the waiters that clone; the others are told handles

ASSUME ProcessAssumption ==
    /\ Parents \subseteq Waiters /\ "none" \notin Codes
    /\ Procs \cap Waiters = {} /\ Nobody \notin Procs \cup Waiters

VARIABLES
    handles,         \* the keys of Handles: what Resolve_kiv_os_Handle finds
    table,           \* the processes with an entry in the control block
    state, exitCode, \* Process::state and Process::exitCode
    listeners,       \* Blockable::listeners: a sequence of waiters
    listenersLock,   \* Blockable::listenersLock: who holds it
    cpc, npos,       \* where a process is; its place in its list
    count, notified, notifier,   \* the Semaphore of a waiter's present call
    wpc,             \* where a waiter is
    active,          \* the processes it has cloned and not yet forgotten
    pos,             \* its loop index in waitFor and removeAssignedListener
    registered,      \* alreadyDone of removeAssignedListener
    index, why,      \* the index waitFor returns, and on which path
    lastExit, report \* history: last argument of Exit, what Read_Exit_Code said

procVars   == <<handles, table, state, exitCode>>
listVars   == <<listeners, listenersLock>>
semVars    == <<count, notified, notifier>>
waitVars   == <<wpc, active, pos, registered, index, why>>
histVars   == <<lastExit, report>>
vars == <<procVars, listVars, cpc, npos, semVars, waitVars, histVars>>

ProcPcs == {"unborn", "held", "running", "exiting", "ended", "unhandled",
            "terminated", "notify", "mark", "post", "gone", "crashed"}
WaiterPcs == {"idle", "convert", "add", "release", "resolve", "check", "enlist",
              "sleep", "unlist", "code", "delete", "spinning", "crashed"}

Elements(s) == {s[i] : i \in 1 .. Len(s)}
EraseAt(s, i) == SubSeq(s, 1, i - 1) \o SubSeq(s, i + 1, Len(s))

Init ==
    /\ handles = {} /\ table = {}
    /\ state = [p \in Procs |-> "Ready"]
    /\ exitCode = [p \in Procs |-> Success]
    /\ listeners = [p \in Procs |-> <<>>]
    /\ listenersLock = [p \in Procs |-> Nobody]
    /\ cpc = [p \in Procs |-> "unborn"] /\ npos = [p \in Procs |-> 1]
    /\ count = [w \in Waiters |-> 0]
    /\ notified = [w \in Waiters |-> FALSE]
    /\ notifier = [w \in Waiters |-> Nobody]
    /\ wpc = [w \in Waiters |-> "idle"]
    /\ active = [w \in Waiters |-> <<>>]
    /\ pos = [w \in Waiters |-> 1]
    /\ registered = [w \in Waiters |-> 0]
    /\ index = [w \in Waiters |-> 0]
    /\ why = [w \in Waiters |-> "none"]
    /\ lastExit = [p \in Procs |-> "none"]
    /\ report = [p \in Procs |-> "none"]

WGoto(w, l) == wpc' = [wpc EXCEPT ![w] = l]
CGoto(p, l) == cpc' = [cpc EXCEPT ![p] = l]

-----------------------------------------------------------------------------
(* cloneProcess.  The new thread spins on synchLock ("held") until the     *)
(* handle and the table entry exist.  The process a waiter clones is at    *)
(* the end of its sequence active.                                         *)

Newborn(w) == active[w][Len(active[w])]

(* Mutant of CloneProcess: the new thread does not wait for synchLock. *)
CloneUnheld(w) ==
    /\ wpc[w] = "idle" /\ w \in Parents
    /\ \E p \in Procs :
          /\ cpc[p] = "unborn"
          /\ CGoto(p, "running")
          /\ active' = [active EXCEPT ![w] = Append(@, p)]
    /\ WGoto(w, "convert")
    /\ UNCHANGED <<procVars, listVars, npos, semVars, pos, registered, index,
                   why, histVars>>

CloneProcess(w) ==
    /\ wpc[w] = "idle" /\ w \in Parents
    /\ \E p \in Procs :
          /\ cpc[p] = "unborn"
          /\ CGoto(p, "held")
          /\ active' = [active EXCEPT ![w] = Append(@, p)]
    /\ WGoto(w, "convert")
    /\ UNCHANGED <<procVars, listVars, npos, semVars, pos, registered, index,
                   why, histVars>>

(* handles::Convert_Native_Handle *)
CloneConvert(w) ==
    /\ wpc[w] = "convert"
    /\ handles' = handles \cup {Newborn(w)}
    /\ WGoto(w, "add")
    /\ UNCHANGED <<table, state, exitCode, listVars, cpc, npos, semVars, active,
                   pos, registered, index, why, histVars>>

(* pcb->AddNewProcess *)
CloneAdd(w) ==
    /\ wpc[w] = "add"
    /\ table' = table \cup {Newborn(w)}
    /\ WGoto(w, "release")
    /\ UNCHANGED <<handles, state, exitCode, listVars, cpc, npos, semVars, active,
                   pos, registered, index, why, histVars>>

(* synchLock->unlock; the new thread gets through synchLock->lock *)
CloneRelease(w) ==
    /\ wpc[w] = "release"
    /\ CGoto(Newborn(w), "running")
    /\ WGoto(w, "idle")
    /\ UNCHANGED <<procVars, listVars, npos, semVars, active, pos, registered,
                   index, why, histVars>>

(* A program can tell another one the handle of a process.  Bound: one at  *)
(* a time.                                                                 *)
Learn(w) ==
    /\ wpc[w] = "idle" /\ w \notin Parents /\ active[w] = <<>>
    /\ \E v \in Parents, p \in Procs :
          /\ p \in Elements(active[v]) \ Elements(active[w])
          /\ cpc[p] \notin {"unborn", "held"}
          /\ active' = [active EXCEPT ![w] = Append(@, p)]
    /\ UNCHANGED <<procVars, listVars, cpc, npos, semVars, wpc, pos, registered,
                   index, why, histVars>>

-----------------------------------------------------------------------------
(* The process: its program, Exit, and processStartPoint after the program *)

(* Mutant of ExitCode: the state is set, the code is not. *)
ExitForgetsCode(p) ==
    /\ cpc[p] = "running" /\ p \in table /\ lastExit[p] = "none"
    /\ \E c \in Codes : lastExit' = [lastExit EXCEPT ![p] = c]
    /\ CGoto(p, "exiting")
    /\ UNCHANGED <<procVars, listVars, npos, semVars, waitVars, report>>

(* exit(): the code first, then the state.  The program goes on.  Bound:   *)
(* a program calls Exit once, so its process is still in the table.        *)
ExitCode(p) ==
    /\ cpc[p] = "running" /\ p \in table /\ lastExit[p] = "none"
    /\ \E c \in Codes :
          /\ exitCode' = [exitCode EXCEPT ![p] = c]
          /\ lastExit' = [lastExit EXCEPT ![p] = c]
    /\ CGoto(p, "exiting")
    /\ UNCHANGED <<handles, table, state, listVars, npos, semVars, waitVars, report>>

ExitState(p) ==
    /\ cpc[p] = "exiting"
    /\ state' = [state EXCEPT ![p] = "Terminated"]
    /\ CGoto(p, "running")
    /\ UNCHANGED <<handles, table, exitCode, listVars, npos, semVars, waitVars, histVars>>

(* The program returns: getTHandleById, pcb->getProcess *)
ProgramEnds(p) ==
    /\ cpc[p] = "running"
    /\ CGoto(p, IF p \in table THEN "ended" ELSE "crashed")
    /\ UNCHANGED <<procVars, listVars, npos, semVars, waitVars, histVars>>

(* handles::Remove_Handle *)
RemoveHandle(p) ==
    /\ cpc[p] = "ended"
    /\ handles' = handles \ {p}
    /\ CGoto(p, "unhandled")
    /\ UNCHANGED <<table, state, exitCode, listVars, npos, semVars, waitVars, histVars>>

(* Mutant of SetTerminated: the listeners are notified first. *)
NotifyFirst(p) ==
    /\ cpc[p] = "unhandled"
    /\ CGoto(p, "terminated")
    /\ UNCHANGED <<procVars, listVars, npos, semVars, waitVars, histVars>>

(* thisProcess->state = Terminated *)
SetTerminated(p) ==
    /\ cpc[p] = "unhandled"
    /\ state' = [state EXCEPT ![p] = "Terminated"]
    /\ CGoto(p, "terminated")
    /\ UNCHANGED <<handles, table, exitCode, listVars, npos, semVars, waitVars, histVars>>

(* notifyRemoveListeners: one listener after the other under the lock *)
NotifyLock(p) ==
    /\ cpc[p] = "terminated" /\ listenersLock[p] = Nobody
    /\ listenersLock' = [listenersLock EXCEPT ![p] = p]
    /\ npos' = [npos EXCEPT ![p] = 1]
    /\ CGoto(p, "notify")
    /\ UNCHANGED <<procVars, listeners, semVars, waitVars, histVars>>

(* if (!listener->notified) *)
NotifyTest(p) ==
    /\ cpc[p] = "notify" /\ npos[p] <= Len(listeners[p])
    /\ IF notified[listeners[p][npos[p]]]
       THEN npos' = [npos EXCEPT ![p] = @ + 1] /\ UNCHANGED cpc
       ELSE CGoto(p, "mark") /\ UNCHANGED npos
    /\ UNCHANGED <<procVars, listVars, semVars, waitVars, histVars>>

(* Mutant of NotifyMark: a marked Semaphore is not posted. *)
NotifyMarkOnly(p) ==
    /\ cpc[p] = "mark"
    /\ notified' = [notified EXCEPT ![listeners[p][npos[p]]] = TRUE]
    /\ notifier' = [notifier EXCEPT ![listeners[p][npos[p]]] = p]
    /\ npos' = [npos EXCEPT ![p] = @ + 1]
    /\ CGoto(p, "notify")
    /\ UNCHANGED <<procVars, listVars, count, waitVars, histVars>>

(* notified = true, notifierHandle = actualHandle *)
NotifyMark(p) ==
    /\ cpc[p] = "mark"
    /\ notified' = [notified EXCEPT ![listeners[p][npos[p]]] = TRUE]
    /\ notifier' = [notifier EXCEPT ![listeners[p][npos[p]]] = p]
    /\ CGoto(p, "post")
    /\ UNCHANGED <<procVars, listVars, npos, count, waitVars, histVars>>

(* Semaphore::notify *)
NotifyPost(p) ==
    /\ cpc[p] = "post"
    /\ count' = [count EXCEPT ![listeners[p][npos[p]]] = @ + 1]
    /\ npos' = [npos EXCEPT ![p] = @ + 1]
    /\ CGoto(p, "notify")
    /\ UNCHANGED <<procVars, listVars, notified, notifier, waitVars, histVars>>

(* listeners.clear(), unlock, the end of the thread *)
NotifyClear(p) ==
    /\ cpc[p] = "notify" /\ npos[p] > Len(listeners[p])
    /\ listeners' = [listeners EXCEPT ![p] = <<>>]
    /\ listenersLock' = [listenersLock EXCEPT ![p] = Nobody]
    /\ CGoto(p, "gone")
    /\ UNCHANGED <<procVars, npos, semVars, waitVars, histVars>>

ProcStep(p) == \/ ExitState(p) \/ ProgramEnds(p) \/ RemoveHandle(p)
               \/ SetTerminated(p) \/ NotifyLock(p) \/ NotifyTest(p)
               \/ NotifyMark(p) \/ NotifyPost(p) \/ NotifyClear(p)

-----------------------------------------------------------------------------
(* waitFor *)

(* The wait is over with index i; k listeners have to be taken back first *)
Leave(w, i, k, path) ==
    /\ index' = [index EXCEPT ![w] = i]
    /\ registered' = [registered EXCEPT ![w] = k]
    /\ why' = [why EXCEPT ![w] = path]
    /\ pos' = [pos EXCEPT ![w] = 1]
    /\ WGoto(w, "unlist")

Current(w) == active[w][pos[w]]

(* A new Semaphore, the handles still to be waited for *)
WaitFor(w) ==
    /\ wpc[w] = "idle" /\ active[w] # <<>>
    /\ count' = [count EXCEPT ![w] = 0]
    /\ notified' = [notified EXCEPT ![w] = FALSE]
    /\ notifier' = [notifier EXCEPT ![w] = Nobody]
    /\ pos' = [pos EXCEPT ![w] = 1]
    /\ WGoto(w, "resolve")
    /\ UNCHANGED <<procVars, listVars, cpc, npos, active, registered, index,
                   why, histVars>>

(* Resolve_kiv_os_Handle *)
WaitResolve(w) ==
    /\ wpc[w] = "resolve"
    /\ \/ /\ pos[w] > Len(active[w])
          /\ WGoto(w, "sleep") /\ UNCHANGED <<pos, registered, index, why>>
       \/ /\ pos[w] <= Len(active[w]) /\ Current(w) \in handles
          /\ WGoto(w, "check") /\ UNCHANGED <<pos, registered, index, why>>
       \/ /\ pos[w] <= Len(active[w]) /\ Current(w) \notin handles
          /\ Leave(w, pos[w], pos[w] - 1, "invalid")
    /\ UNCHANGED <<procVars, listVars, cpc, npos, semVars, active, histVars>>

(* Mutant of WaitCheck: no removeAssignedListener on the early return. *)
WaitCheckLeaves(w) ==
    /\ wpc[w] = "check"
    /\ IF Current(w) \notin table
       THEN WGoto(w, "crashed") /\ UNCHANGED <<pos, registered, index, why>>
       ELSE IF state[Current(w)] # "Terminated"
            THEN WGoto(w, "enlist") /\ UNCHANGED <<pos, registered, index, why>>
            ELSE Leave(w, pos[w], 0, "dead")
    /\ UNCHANGED <<procVars, listVars, cpc, npos, semVars, active, histVars>>

(* pcb->getProcess, process->state *)
WaitCheck(w) ==
    /\ wpc[w] = "check"
    /\ IF Current(w) \notin table
       THEN WGoto(w, "crashed") /\ UNCHANGED <<pos, registered, index, why>>
       ELSE IF state[Current(w)] # "Terminated"
            THEN WGoto(w, "enlist") /\ UNCHANGED <<pos, registered, index, why>>
            ELSE Leave(w, pos[w], pos[w] - 1, "dead")
    /\ UNCHANGED <<procVars, listVars, cpc, npos, semVars, active, histVars>>

(* process->addListener *)
WaitEnlist(w) ==
    /\ wpc[w] = "enlist" /\ listenersLock[Current(w)] = Nobody
    /\ listeners' = [listeners EXCEPT ![Current(w)] = Append(@, w)]
    /\ pos' = [pos EXCEPT ![w] = @ + 1]
    /\ WGoto(w, "resolve")
    /\ UNCHANGED <<procVars, listenersLock, cpc, npos, semVars, active,
                   registered, index, why, histVars>>

(* The place of p in s, 0 for the -1 of the code if there is none          *)
IndexOf(s, p) == IF p \in Elements(s)
                 THEN CHOOSE i \in 1 .. Len(s) : s[i] = p
                 ELSE 0

(* Semaphore::wait returns; the notifier becomes the index to return       *)
WaitWake(w) ==
    /\ wpc[w] = "sleep" /\ count[w] > 0
    /\ count' = [count EXCEPT ![w] = @ - 1]
    /\ Leave(w, IndexOf(active[w], notifier[w]), Len(active[w]), "woken")
    /\ UNCHANGED <<procVars, listVars, cpc, npos, notified, notifier, active, histVars>>

(* One turn of removeAssignedListener: getProcess, removeListener.  The    *)
(* loop of removeListener advances only past a listener of its own: one of *)
(* another sleeper keeps it there, with the lock.                          *)
WaitUnlist(w) ==
    /\ wpc[w] = "unlist" /\ pos[w] <= registered[w]
    /\ LET p == Current(w) IN
       \/ /\ p \notin table
          /\ pos' = [pos EXCEPT ![w] = @ + 1]
          /\ UNCHANGED <<wpc, listVars>>
       \/ /\ p \in table /\ listenersLock[p] = Nobody
          /\ Elements(listeners[p]) \subseteq {w}
          /\ listeners' = [listeners EXCEPT ![p] = <<>>]
          /\ pos' = [pos EXCEPT ![w] = @ + 1]
          /\ UNCHANGED <<wpc, listenersLock>>
       \/ /\ p \in table /\ listenersLock[p] = Nobody
          /\ \E k \in 1 .. Len(listeners[p]) :
                /\ listeners[p][k] # w /\ \A j \in 1 .. k - 1 : listeners[p][j] = w
                /\ listeners' = [listeners EXCEPT ![p] = SubSeq(@, k, Len(@))]
          /\ listenersLock' = [listenersLock EXCEPT ![p] = w]
          /\ WGoto(w, "spinning")
          /\ UNCHANGED pos
    /\ UNCHANGED <<procVars, cpc, npos, semVars, active, registered, index, why, histVars>>

(* delete listener, return the index; active_handles.at of the shell throws *)
(* for an index that there is not                                          *)
WaitReturn(w) ==
    /\ wpc[w] = "unlist" /\ pos[w] > registered[w]
    /\ WGoto(w, IF index[w] = 0 THEN "crashed" ELSE "code")
    /\ UNCHANGED <<procVars, listVars, cpc, npos, semVars, active, pos, registered,
                   index, why, histVars>>

-----------------------------------------------------------------------------
(* readExitCode of the process that Wait_For returned, which is forgotten  *)

Returned(w) == active[w][index[w]]

ReadCode(w) ==
    /\ wpc[w] = "code"
    /\ LET p == Returned(w) IN
       IF p \in table /\ state[p] = "Terminated"
       THEN /\ report' = [report EXCEPT ![p] = exitCode[p]]
            /\ WGoto(w, "delete") /\ UNCHANGED active
       ELSE /\ report' = [report EXCEPT ![p] = "Unknown_Error"]
            /\ active' = [active EXCEPT ![w] = EraseAt(@, index[w])]
            /\ WGoto(w, "idle")
    /\ UNCHANGED <<procVars, listVars, cpc, npos, semVars, pos, registered, index,
                   why, lastExit>>

(* pcb->removeProcess deletes the Process *)
RemoveProcess(w) ==
    /\ wpc[w] = "delete"
    /\ table' = table \ {Returned(w)}
    /\ active' = [active EXCEPT ![w] = EraseAt(@, index[w])]
    /\ WGoto(w, "idle")
    /\ UNCHANGED <<handles, state, exitCode, listVars, cpc, npos, semVars, pos,
                   registered, index, why, histVars>>

WaiterStep(w) == \/ CloneConvert(w) \/ CloneAdd(w) \/ CloneRelease(w)
                 \/ WaitResolve(w) \/ WaitCheck(w) \/ WaitEnlist(w) \/ WaitWake(w)
                 \/ WaitUnlist(w) \/ WaitReturn(w) \/ ReadCode(w) \/ RemoveProcess(w)

WaiterCall(w) == CloneProcess(w) \/ Learn(w) \/ WaitFor(w)

-----------------------------------------------------------------------------
Next == \/ \E p \in Procs : ExitCode(p) \/ ProcStep(p)
        \/ \E w \in Waiters : WaiterCall(w) \/ WaiterStep(w)

Spec == Init /\ [][Next]_vars

(* Threads run, and programs end. *)
Fairness == /\ \A p \in Procs : WF_vars(ProcStep(p))
            /\ \A w \in Waiters : WF_vars(WaiterStep(w))

FairSpec == Spec /\ Fairness

-----------------------------------------------------------------------------
(* Properties *)

TypeOK ==
    /\ handles \subseteq Procs /\ table \subseteq Procs
    /\ state \in [Procs -> {"Ready", "Terminated"}]
    /\ exitCode \in [Procs -> Codes \cup {Success}]
    /\ listeners \in [Procs -> Seq(Waiters)]
    /\ listenersLock \in [Procs -> Procs \cup Waiters \cup {Nobody}]
    /\ cpc \in [Procs -> ProcPcs] /\ npos \in [Procs -> Nat]
    /\ count \in [Waiters -> Nat]
    /\ notified \in [Waiters -> BOOLEAN]
    /\ notifier \in [Waiters -> Procs \cup {Nobody}]
    /\ wpc \in [Waiters -> WaiterPcs]
    /\ active \in [Waiters -> Seq(Procs)]
    /\ pos \in [Waiters -> Nat] /\ registered \in [Waiters -> Nat]
    /\ index \in [Waiters -> Nat]
    /\ why \in [Waiters -> {"none", "invalid", "dead", "woken"}]
    /\ lastExit \in [Procs -> Codes \cup {"none"}]
    /\ report \in [Procs -> Codes \cup {Success, "none", "Unknown_Error"}]

(* A program that runs finds itself in the handle map and in the process   *)
(* table (synchLock holds its thread back until both entries exist); the   *)
(* entry can only go after the program called Exit.                        *)
RunningHasEntry ==
    /\ TypeOK
    /\ \A p \in Procs : cpc[p] \in {"running", "exiting"} =>
          p \in handles /\ (p \in table \/ state[p] = "Terminated")

(* The Semaphore of a wait is on the heap of the waiting call and deleted  *)
(* when it returns: nobody keeps a pointer to it beyond that, neither the  *)
(* list of a process that is still in the table nor the process itself in  *)
(* the middle of notifying it.  (A Process that is deleted while its       *)
(* thread still uses it is another matter, see module Threads.)            *)
InWait(w) == wpc[w] \in {"resolve", "check", "enlist", "sleep", "unlist",
                         "spinning", "crashed"}

NoDanglingListener ==
    /\ \A p \in table : \A w \in Elements(listeners[p]) :
          InWait(w) /\ p \in Elements(active[w])
    /\ \A p \in table : cpc[p] \in {"mark", "post"} =>
          InWait(listeners[p][npos[p]])

(* Wait_For returns the index of a process that is over ("rax je index     *)
(* handle, ktery byl signalizovan", api.h), also when several end at once  *)
(* and each finds the Semaphore not yet notified under a lock of its own;  *)
(* or of one whose handle is gone and which is just about to be            *)
(* Terminated: processStartPoint removes the handle first.  It returns -1  *)
(* only if a process has been deleted, whose thread can then wake a later  *)
(* wait that has nothing to do with it.                                    *)
ReturnsEnded ==
    \A w \in Waiters : wpc[w] \in {"unlist", "code"} =>
        IF index[w] = 0 THEN \E p \in Procs \ table : state[p] = "Terminated"
        ELSE \/ state[Returned(w)] = "Terminated"
             \/ why[w] = "invalid" /\ cpc[Returned(w)] = "unhandled"

(* Read_Exit_Code says what the process passed to Exit, never a code that  *)
(* it had before; Success stands for a program that just returned.         *)
ExitCodeReported ==
    \A p \in Procs : report[p] \notin {"none", "Unknown_Error"} =>
        report[p] = IF lastExit[p] = "none" THEN Success ELSE lastExit[p]

(* A waiter that got into the list of a process before that one began to   *)
(* notify is woken.                                                        *)
RegisteredIsWoken ==
    \A w \in Waiters, p \in Procs :
        /\ wpc[w] = "sleep" /\ w \in Elements(listeners[p])
        /\ cpc[p] \in {"running", "ended", "unhandled", "terminated"}
        ~> wpc[w] # "sleep"

(* api.h on Wait_For: it returns as soon as the first handle is signalled. *)
WaitReturns == \A w \in Waiters : wpc[w] = "sleep" ~> wpc[w] # "sleep"
=============================================================================
