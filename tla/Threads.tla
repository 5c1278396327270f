------------------------------ MODULE Threads -------------------------------
(***************************************************************************)
(* The threads of a process, shutdown and the list of processes            *)
(* (Process.cpp, ProcessControlBlock.cpp, PCBFile.cpp; cloneThread,        *)
(* threadStartPoint, registerSignalHandler and shutdown of                 *)
(* ProcessUtils.cpp; Bootstrap_Loader of kernel.cpp).                      *)
(*                                                                         *)
(* Three locks nest here: lockMaster of the table around the tcbLock of a  *)
(* process around the listenersLock of what is notified.  One action is    *)
(* one critical section, or one step of a walk that keeps its locks; a     *)
(* guard "= None" is the spin for a lock.  Cloning a process, Exit and     *)
(* waiting for several handles are taken as one step each: module          *)
(* Processes has them in detail.  A handle stands for its owner.           *)
(*                                                                         *)
(* A Process or Thread object lives while it is in table or in tcb.  Who   *)
(* uses a deleted one has faulted; it stops there, whatever it would do.   *)
(***************************************************************************)
EXTENDS Naturals, FiniteSets

CONSTANTS Procs,       \* handles of processes
          Threads,     \* handles of threads
          Kernel,      \* the thread of Bootstrap_Loader
          Shell,       \* the process that Bootstrap_Loader clones
          Handlers,    \* what a program can register: "returns", "calls"
          None,        \* no handle; a free lock
          Calls,       \* bound: the pairs <<actor, call it may make>>
          MaxShutdowns \* bound: calls of Shutdown

Actors == Procs \cup Threads \cup {Kernel}

ASSUME ThreadAssumption ==
    /\ Shell \in Procs /\ MaxShutdowns \in Nat
    /\ Procs \cap Threads = {}
    /\ Kernel \notin Procs \cup Threads /\ None \notin Actors
    /\ Handlers \subseteq {"returns", "calls"}

VARIABLES
    pc, parent, target,     \* where an actor is; who cloned it; its argument
    active,                 \* the processes it cloned and has not forgotten
    table, state, handlers, \* ProcessControlBlock::table and its Processes
    tcb, listeners, woken,  \* Process::tcb, Blockable::listeners, Semaphore
    master, tcbLock,        \* lockMaster, Process::tcbLock
    left, threads,          \* what a walk has still to visit
    called,                 \* the calls of Shutdown
    updated,                \* tableUpdated
    holding, current,       \* readers with, and the file with, today's table
    overlapped,             \* history: a reader collected while one stored
    short                   \* history: today's list was not written whole

treeVars == <<parent, target, active>>
procVars == <<table, state, handlers>>
waitVars == <<listeners, woken>>
walkVars == <<left, threads, called>>
fileVars == <<updated, holding, current, overlapped, short>>
vars == <<pc, treeVars, procVars, tcb, waitVars, master, tcbLock, walkVars, fileVars>>

Init ==
    /\ pc = [a \in Actors |-> IF a = Kernel THEN "running" ELSE "unborn"]
    /\ parent = [a \in Actors |-> None] /\ target = [a \in Actors |-> None]
    /\ active = [a \in Actors |-> {}]
    /\ table = {} /\ state = [p \in Procs |-> "Ready"]
    /\ handlers = [p \in Procs |-> "none"]
    /\ tcb = [p \in Procs |-> {}] /\ listeners = [p \in Procs |-> {}]
    /\ woken = [a \in Actors |-> FALSE]
    /\ master = None /\ tcbLock = [p \in Procs |-> None]
    /\ left = [a \in Actors |-> {}] /\ threads = [a \in Actors |-> {}]
    /\ called = 0
    /\ updated = FALSE /\ holding = {} /\ current = FALSE
    /\ overlapped = FALSE /\ short = FALSE

At(a, l) == pc[a] = l
Goto(a, l) == pc' = [pc EXCEPT ![a] = l]

(* A program runs while the library with its code is there. *)
Runs(a) == At(a, "running") /\ ~At(Kernel, "gone")
Program(a) == a # Kernel /\ Runs(a)
May(a, call) == Runs(a) /\ <<a, call>> \in Calls

-----------------------------------------------------------------------------
(* Clone *)

(* No list made before is the table's any more. *)
TableChanges == /\ holding' = {} /\ current' = FALSE
                /\ overlapped' = FALSE /\ short' = FALSE

(* cloneProcess: AddNewProcess, then synchLock lets the program go *)
CreateProcess(a) ==
    /\ May(a, "process")
    /\ master = None
    /\ \E q \in Procs :
          /\ At(q, "unborn") /\ (a = Kernel <=> q = Shell)
          /\ table' = table \cup {q}
          /\ parent' = [parent EXCEPT ![q] = a]
          /\ active' = [active EXCEPT ![a] = @ \cup {q}]
          /\ pc' = [pc EXCEPT ![q] = "running"]
    /\ updated' = TRUE /\ TableChanges
    /\ UNCHANGED <<target, state, handlers, tcb, waitVars, master, tcbLock,
                   walkVars>>

(* cloneThread: the thread is made and held, its handle inserted *)
CreateThread(a) ==
    /\ May(a, "thread")
    /\ \E t \in Threads :
          /\ At(t, "unborn")
          /\ pc' = [pc EXCEPT ![a] = "parent", ![t] = "held"]
          /\ parent' = [parent EXCEPT ![t] = a]
          /\ target' = [target EXCEPT ![a] = t]
    /\ UNCHANGED <<active, procVars, tcb, waitVars, master, tcbLock, walkVars, fileVars>>

(* pcb->getProcess(parentHandle): a thread has no process of its own *)
FindCreator(a) ==
    /\ At(a, "parent") /\ master = None
    /\ Goto(a, IF a \in table THEN "add" ELSE "release")
    /\ UNCHANGED <<treeVars, procVars, tcb, waitVars, master, tcbLock, walkVars, fileVars>>

(* addNewThread *)
AddNewThread(a) ==
    /\ At(a, "add")
    /\ \/ /\ a \notin table /\ Goto(a, "faulted") /\ UNCHANGED tcb
       \/ /\ a \in table /\ tcbLock[a] = None
          /\ tcb' = [tcb EXCEPT ![a] = @ \cup {target[a]}]
          /\ Goto(a, "release")
    /\ UNCHANGED <<treeVars, procVars, waitVars, master, tcbLock, walkVars, fileVars>>

(* synchLock->unlock *)
ReleaseThread(a) ==
    /\ At(a, "release")
    /\ pc' = [pc EXCEPT ![a] = "running",
                        ![target[a]] = IF @ = "held" THEN "running" ELSE @]
    /\ target' = [target EXCEPT ![a] = None]
    /\ UNCHANGED <<parent, active, procVars, tcb, waitVars, master, tcbLock, walkVars, fileVars>>

-----------------------------------------------------------------------------
(* The end of a process and of a thread; Exit *)

(* Exit ends nothing: it sets the state, which only a process has. *)
Exit(p) ==
    /\ May(p, "exit") /\ p \in table /\ master = None
    /\ state' = [state EXCEPT ![p] = "Terminated"]
    /\ UNCHANGED <<pc, treeVars, table, handlers, tcb, waitVars, master, tcbLock,
                   walkVars, fileVars>>

(* processStartPoint after the program: getProcess, used without a test,   *)
(* and Remove_Handle; the state follows later.                             *)
ProgramEnds(p) ==
    /\ p \in Procs /\ Program(p) /\ master = None
    /\ Goto(p, IF p \in table THEN "ending" ELSE "faulted")
    /\ UNCHANGED <<treeVars, procVars, tcb, waitVars, master, tcbLock, walkVars, fileVars>>

SetTerminated(p) ==
    /\ At(p, "ending")
    /\ \/ p \notin table /\ Goto(p, "faulted") /\ UNCHANGED state
       \/ /\ p \in table /\ Goto(p, "terminated")
          /\ state' = [state EXCEPT ![p] = "Terminated"]
    /\ UNCHANGED <<treeVars, table, handlers, tcb, waitVars, master, tcbLock,
                   walkVars, fileVars>>

(* notifyRemoveListeners: who waits for p is woken *)
Notify(p) ==
    /\ woken' = [a \in Actors |-> woken[a] \/ a \in listeners[p]]
    /\ listeners' = [listeners EXCEPT ![p] = {}]

NotifyEnd(p) ==
    /\ At(p, "terminated")
    /\ \/ p \notin table /\ Goto(p, "faulted") /\ UNCHANGED waitVars
       \/ p \in table /\ Goto(p, "gone") /\ Notify(p)
    /\ UNCHANGED <<treeVars, procVars, tcb, master, tcbLock, walkVars, fileVars>>

(* threadStartPoint after the program: the handle goes, getProcess *)
ThreadEnds(t) ==
    /\ t \in Threads /\ Program(t) /\ master = None
    /\ Goto(t, IF parent[t] \in table THEN "find" ELSE "gone")
    /\ UNCHANGED <<treeVars, procVars, tcb, waitVars, master, tcbLock, walkVars, fileVars>>

(* getThread.  Nobody can wait for a thread: its list is empty. *)
FindThread(t) ==
    /\ At(t, "find")
    /\ \/ parent[t] \notin table /\ Goto(t, "faulted")
       \/ parent[t] \in table /\ tcbLock[parent[t]] = None /\ Goto(t, "remove")
    /\ UNCHANGED <<treeVars, procVars, tcb, waitVars, master, tcbLock, walkVars, fileVars>>

(* Mutant of RemoveThread: tcbLock is not taken. *)
RemoveUnlocked(t) ==
    /\ At(t, "remove")
    /\ \/ parent[t] \notin table /\ Goto(t, "faulted") /\ UNCHANGED tcb
       \/ /\ parent[t] \in table
          /\ tcb' = [tcb EXCEPT ![parent[t]] = @ \ {t}]
          /\ Goto(t, "gone")
    /\ UNCHANGED <<treeVars, procVars, waitVars, master, tcbLock, walkVars, fileVars>>

(* removeThread deletes the Thread *)
RemoveThread(t) ==
    /\ At(t, "remove")
    /\ \/ parent[t] \notin table /\ Goto(t, "faulted") /\ UNCHANGED tcb
       \/ /\ parent[t] \in table /\ tcbLock[parent[t]] = None
          /\ tcb' = [tcb EXCEPT ![parent[t]] = @ \ {t}]
          /\ Goto(t, "gone")
    /\ UNCHANGED <<treeVars, procVars, waitVars, master, tcbLock, walkVars, fileVars>>

-----------------------------------------------------------------------------
(* Wait_For of one process and Read_Exit_Code of it *)

(* The program of p has returned and taken the handle of p away. *)
Returned(p) == pc[p] \in {"ending", "terminated", "gone"}

(* The wait returns at once for a handle that does not resolve and for a   *)
(* state that is Terminated.  A handle resolved before it was taken away   *)
(* leads to the test of the state as well.                                 *)
WaitCheck(a) ==
    /\ Runs(a) /\ master = None
    /\ \E q \in active[a] :
          /\ target' = [target EXCEPT ![a] = q]
          /\ \/ Returned(q) /\ Goto(a, "code")
             \/ Goto(a, IF state[q] = "Terminated" THEN "code" ELSE "enlist")
    /\ UNCHANGED <<parent, active, procVars, tcb, waitVars, master, tcbLock,
                   walkVars, fileVars>>

(* addListener *)
Enlist(a) ==
    /\ At(a, "enlist")
    /\ listeners' = [listeners EXCEPT ![target[a]] = @ \cup {a}]
    /\ woken' = [woken EXCEPT ![a] = FALSE]
    /\ Goto(a, "sleep")
    /\ UNCHANGED <<treeVars, procVars, tcb, master, tcbLock, walkVars, fileVars>>

(* Semaphore::wait returns *)
Wake(a) ==
    /\ At(a, "sleep") /\ woken[a]
    /\ woken' = [woken EXCEPT ![a] = FALSE]
    /\ Goto(a, "code")
    /\ UNCHANGED <<treeVars, procVars, tcb, listeners, master, tcbLock, walkVars, fileVars>>

(* Bootstrap_Loader goes on to Shutdown_Kernel; the shell forgets. *)
Forget(a) ==
    /\ active' = [active EXCEPT ![a] = @ \ {target[a]}]
    /\ target' = [target EXCEPT ![a] = None]
    /\ Goto(a, IF a = Kernel THEN "leaving" ELSE "running")

(* Mutant of ReadExitCode: a process that still runs will do. *)
ReadAnyCode(a) ==
    /\ At(a, "code") /\ master = None
    /\ Goto(a, "delete") /\ UNCHANGED <<active, target>>
    /\ UNCHANGED <<parent, procVars, tcb, waitVars, master, tcbLock,
                   walkVars, fileVars>>

(* readExitCode: getProcess, process->state.  It fails for a process that  *)
(* lost its handle and has not got its state yet: that one stays.          *)
ReadExitCode(a) ==
    /\ At(a, "code") /\ master = None
    /\ \/ state[target[a]] = "Terminated" /\ Goto(a, "delete")
          /\ UNCHANGED <<active, target>>
       \/ state[target[a]] # "Terminated" /\ Forget(a)
    /\ UNCHANGED <<parent, procVars, tcb, waitVars, master, tcbLock,
                   walkVars, fileVars>>

(* removeProcess deletes the Process *)
RemoveProcess(a) ==
    /\ At(a, "delete") /\ master = None
    /\ table' = table \ {target[a]}
    /\ handlers' = [handlers EXCEPT ![target[a]] = "none"]
    /\ tcb' = [tcb EXCEPT ![target[a]] = {}]
    /\ listeners' = [listeners EXCEPT ![target[a]] = {}]
    /\ updated' = TRUE /\ TableChanges
    /\ Forget(a)
    /\ UNCHANGED <<parent, state, woken, master, tcbLock, walkVars>>

(* Shutdown_Kernel: FreeLibrary takes the code of the programs away *)
FreeLibrary ==
    /\ At(Kernel, "leaving")
    /\ Goto(Kernel, "gone")
    /\ UNCHANGED <<treeVars, procVars, tcb, waitVars, master, tcbLock, walkVars, fileVars>>

-----------------------------------------------------------------------------
(* Register_Signal_Handler and Shutdown *)

(* A thread has no process to keep a handler for: an error, no change.     *)
(* Bound: once per process.                                                *)
Register(p) ==
    /\ May(p, "register") /\ p \in table /\ handlers[p] = "none" /\ master = None
    /\ \E h \in Handlers : handlers' = [handlers EXCEPT ![p] = h]
    /\ UNCHANGED <<pc, treeVars, table, state, tcb, waitVars, master, tcbLock,
                   walkVars, fileVars>>

Shutdown(a) ==
    /\ May(a, "shutdown") /\ called < MaxShutdowns
    /\ called' = called + 1
    /\ Goto(a, "emptying")
    /\ UNCHANGED <<treeVars, procVars, tcb, waitVars, master, tcbLock, left,
                   threads, fileVars>>

(* removeAllIoHandles (module IoHandles) closes a handle with ioHandleLock *)
(* held.  If that is the write end of a full pipe it may never return.     *)
RemoveAllIoHandles(a) ==
    /\ At(a, "emptying")
    /\ Goto(a, "signal")
    /\ UNCHANGED <<treeVars, procVars, tcb, waitVars, master, tcbLock, walkVars, fileVars>>

(* signalProcesses and notifyAllListeners take lockMaster *)
LockTable(a) ==
    /\ pc[a] \in {"signal", "notify"} /\ master = None
    /\ master' = a
    /\ left' = [left EXCEPT ![a] = table]
    /\ Goto(a, IF At(a, "signal") THEN "signalling" ELSE "walking")
    /\ UNCHANGED <<treeVars, procVars, tcb, waitVars, tcbLock, threads, called, fileVars>>

(* The handler runs in this thread, which has lockMaster: a system call of *)
(* it that looks for its process waits for the lock for ever.              *)
CallHandler(a) ==
    /\ At(a, "signalling")
    /\ \E p \in left[a] :
          /\ left' = [left EXCEPT ![a] = @ \ {p}]
          /\ Goto(a, IF handlers[p] = "calls" THEN "stuck" ELSE "signalling")
    /\ UNCHANGED <<treeVars, procVars, tcb, waitVars, master, tcbLock, threads,
                   called, fileVars>>

(* The end of either walk *)
UnlockTable(a) ==
    /\ pc[a] \in {"signalling", "walking"} /\ left[a] = {}
    /\ master' = None
    /\ Goto(a, IF At(a, "signalling") THEN "notify" ELSE "running")
    /\ UNCHANGED <<treeVars, procVars, tcb, waitVars, tcbLock, walkVars, fileVars>>

(* notifyAllThreads *)
LockThreads(a) ==
    /\ At(a, "walking")
    /\ \E p \in left[a] :
          /\ tcbLock[p] = None
          /\ tcbLock' = [tcbLock EXCEPT ![p] = a]
          /\ target' = [target EXCEPT ![a] = p]
          /\ threads' = [threads EXCEPT ![a] = tcb[p]]
    /\ Goto(a, "threads")
    /\ UNCHANGED <<parent, active, procVars, tcb, waitVars, master, left, called, fileVars>>

NotifyThread(a) ==
    /\ At(a, "threads")
    /\ \E t \in threads[a] : threads' = [threads EXCEPT ![a] = @ \ {t}]
    /\ UNCHANGED <<pc, treeVars, procVars, tcb, waitVars, master, tcbLock, left,
                   called, fileVars>>

UnlockThreads(a) ==
    /\ At(a, "threads") /\ threads[a] = {}
    /\ tcbLock' = [tcbLock EXCEPT ![target[a]] = None]
    /\ Goto(a, "own")
    /\ UNCHANGED <<treeVars, procVars, tcb, waitVars, master, walkVars, fileVars>>

(* Mutant of NotifyListeners: only the threads are notified. *)
NotifyNone(a) ==
    /\ At(a, "own")
    /\ left' = [left EXCEPT ![a] = @ \ {target[a]}]
    /\ target' = [target EXCEPT ![a] = None]
    /\ Goto(a, "walking")
    /\ UNCHANGED <<parent, active, procVars, tcb, waitVars, master, tcbLock, threads,
                   called, fileVars>>

(* The listeners of the process itself *)
NotifyListeners(a) ==
    /\ At(a, "own")
    /\ Notify(target[a])
    /\ left' = [left EXCEPT ![a] = @ \ {target[a]}]
    /\ target' = [target EXCEPT ![a] = None]
    /\ Goto(a, "walking")
    /\ UNCHANGED <<parent, active, procVars, tcb, master, tcbLock, threads, called, fileVars>>

-----------------------------------------------------------------------------
(* A read of the file "tasklist" (PCBFileHandle::read) *)

(* isUpdated, without a lock; nothing new: the file is read as it is.  The *)
(* program tasklist reads it.                                              *)
ReadTasklist(a) ==
    /\ May(a, "tasklist") /\ updated
    /\ Goto(a, "collect")
    /\ UNCHANGED <<treeVars, procVars, tcb, waitVars, master, tcbLock, walkVars, fileVars>>

Storing == {b \in Actors : At(b, "store")}

(* getAllProcesses; an empty table gives IO_Error *)
Collect(a) ==
    /\ At(a, "collect") /\ master = None
    /\ \/ /\ table = {} /\ Goto(a, "running")
          /\ UNCHANGED <<holding, updated, overlapped, short>>
       \/ /\ table # {} /\ Goto(a, "store")
          /\ holding' = holding \cup {a}
          /\ updated' = FALSE /\ short' = FALSE
          /\ overlapped' = (Storing # {})
    /\ UNCHANGED <<treeVars, procVars, tcb, waitVars, master, tcbLock, walkVars, current>>

(* Mutant of Store: tableUpdated is cleared when the file has been written. *)
StoreAndClear(a) ==
    /\ At(a, "store")
    /\ \/ current' = (a \in holding) /\ short' = FALSE
       \/ current' = FALSE /\ short' = TRUE
    /\ holding' = holding \ {a}
    /\ updated' = FALSE
    /\ Goto(a, "running")
    /\ UNCHANGED <<treeVars, procVars, tcb, waitVars, master, tcbLock, walkVars, overlapped>>

(* FileHandle::write, then the read.  On a full disk nothing is written    *)
(* (IO_Error) or only a part, and tableUpdated is not set again.           *)
Store(a) ==
    /\ At(a, "store")
    /\ \/ current' = (a \in holding) /\ short' = FALSE
       \/ current' = FALSE /\ short' = TRUE
    /\ holding' = holding \ {a}
    /\ Goto(a, "running")
    /\ UNCHANGED <<treeVars, procVars, tcb, waitVars, master, tcbLock, walkVars,
                   updated, overlapped>>

-----------------------------------------------------------------------------
Call(a) == \/ CreateProcess(a) \/ CreateThread(a) \/ Exit(a) \/ ProgramEnds(a)
           \/ ThreadEnds(a) \/ WaitCheck(a) \/ Register(a) \/ Shutdown(a)
           \/ ReadTasklist(a)

KernelStep(a) ==
    \/ FindCreator(a) \/ AddNewThread(a) \/ ReleaseThread(a)
    \/ SetTerminated(a) \/ NotifyEnd(a) \/ FindThread(a) \/ RemoveThread(a)
    \/ Enlist(a) \/ Wake(a) \/ ReadExitCode(a) \/ RemoveProcess(a)
    \/ LockTable(a) \/ CallHandler(a) \/ UnlockTable(a) \/ LockThreads(a)
    \/ NotifyThread(a) \/ UnlockThreads(a) \/ NotifyListeners(a)
    \/ Collect(a) \/ Store(a)

Next == \/ FreeLibrary
        \/ \E a \in Actors : Call(a) \/ RemoveAllIoHandles(a) \/ KernelStep(a)

Spec == Init /\ [][Next]_vars

(* A thread inside the kernel runs on, but for a Shutdown that closes      *)
(* handles.  What a program calls, and whether it ends, is its own affair. *)
FairSpec == Spec /\ \A a \in Actors : WF_vars(KernelStep(a))

-----------------------------------------------------------------------------
(* Properties *)

Pcs == {"unborn", "running", "held", "parent", "add", "release", "ending",
        "terminated", "find", "remove", "enlist", "sleep", "code", "delete",
        "leaving", "emptying", "signal", "notify", "signalling", "stuck",
        "walking", "threads", "own", "collect", "store", "gone", "faulted"}

TypeOK ==
    /\ pc \in [Actors -> Pcs]
    /\ parent \in [Actors -> Actors \cup {None}]
    /\ target \in [Actors -> Actors \cup {None}]
    /\ active \in [Actors -> SUBSET Procs]
    /\ table \subseteq Procs /\ state \in [Procs -> {"Ready", "Terminated"}]
    /\ handlers \in [Procs -> Handlers \cup {"none"}]
    /\ tcb \in [Procs -> SUBSET Threads]
    /\ listeners \in [Procs -> SUBSET Actors] /\ woken \in [Actors -> BOOLEAN]
    /\ master \in Actors \cup {None} /\ tcbLock \in [Procs -> Actors \cup {None}]
    /\ left \in [Actors -> SUBSET Procs] /\ threads \in [Actors -> SUBSET Threads]
    /\ called \in Nat /\ updated \in BOOLEAN /\ overlapped \in BOOLEAN
    /\ holding \subseteq Actors /\ current \in BOOLEAN /\ short \in BOOLEAN

(* The walks of signalProcesses and notifyAllListeners go over the table,  *)
(* and inside it over the threads of a process, while processes and        *)
(* threads end and are deleted: the walk never has a deleted one ahead.    *)
WalkTouchesLive ==
    \A a \in Actors :
        /\ pc[a] \in {"signalling", "walking", "threads", "own"} => left[a] \subseteq table
        /\ pc[a] \in {"threads", "own"} => target[a] \in table
        /\ pc[a] = "threads" => threads[a] \subseteq tcb[target[a]]

(* The tcb of a process has only threads that have not taken themselves    *)
(* out of it: cloneThread adds an entry before the thread can end, so that *)
(* none is added behind its back and stays for ever.                       *)
EntriesOfLiving ==
    \A p \in table : \A t \in tcb[p] : parent[t] = p /\ pc[t] # "gone"

(* The variables have their types, and the structures hold together that  *)
(* the three locks guard.                                                  *)
TcbSound == TypeOK /\ WalkTouchesLive /\ EntriesOfLiving

(* A Process is used after its delete only by a program, or a thread of    *)
(* one, that went on after the process was Terminated (by Exit, or while   *)
(* its last listeners were notified).  A Shutdown, which wakes a parent    *)
(* before its child is over, does not make it delete the child.            *)
(* Bootstrap_Loader, whose wait can return before the state is set, frees  *)
(* the code of the programs when that of the shell has returned or called  *)
(* Exit, or after a Shutdown; never because some other process ended.      *)
OwnerOf(a) == IF a \in Procs THEN a ELSE parent[a]

Over == Returned(Shell) \/ state[Shell] = "Terminated" \/ called > 0

FaultsOnlyAfterEnd ==
    /\ \A a \in Actors : pc[a] = "faulted" =>
          OwnerOf(a) \in Procs /\ state[OwnerOf(a)] = "Terminated"
    /\ pc[Kernel] \in {"leaving", "gone"} => Over

(* tableUpdated is read and cleared by whoever reads the tasklist, while   *)
(* processes come and go.  While it is not set the file has the processes  *)
(* of the table, with two exceptions: two readers overlapped, and the      *)
(* older list may have been written last; or the disk did not take the     *)
(* list whole.  Either stays so until the next change of the table.        *)
TasklistIsCurrent ==
    table # {} /\ ~updated /\ Storing = {} /\ ~overlapped /\ ~short => current

(* Who is on the list of a process when a Shutdown has begun is woken,     *)
(* whether that process ever ends or not, unless a signal handler has made *)
(* a system call with lockMaster held.                                     *)
InShutdown(a) == pc[a] \in {"signal", "signalling", "notify", "walking"}

ShutdownWakes ==
    \A p \in Procs : \A a \in Actors \ Threads :
        /\ a \in listeners[p] /\ p \in table /\ \E b \in Actors : InShutdown(b) /\ p \in left[b]
        ~> a \notin listeners[p] \/ \E b \in Actors : pc[b] = "stuck"
=============================================================================
