---------------------------- MODULE ThreadProofs ----------------------------
(***************************************************************************)
(* Proofs about Threads, for any number of processes and threads and any   *)
(* calls they may make: the structures that lockMaster, tcbLock and        *)
(* listenersLock guard are sound, a deleted Process is used only after its *)
(* end, and the file "tasklist" is not left behind the table.              *)
(***************************************************************************)
EXTENDS Threads, TLAPS

(* Who is inside a walk of the table has lockMaster; the walk of the        *)
(* threads of a process has its tcbLock as well.                            *)
Walks == {"signalling", "stuck", "walking", "threads", "own"}

LocksHeld ==
    \A a \in Actors :
        /\ pc[a] \in Walks => master = a
        /\ pc[a] = "threads" => tcbLock[target[a]] = a

(* Until cloneThread releases it a new thread is its creator's alone.       *)
Cloning ==
    \A a \in Actors :
        /\ pc[a] \in {"parent", "add", "release"} =>
              /\ target[a] \in Threads
              /\ parent[target[a]] = a /\ pc[target[a]] = "held"
        /\ pc[a] = "add" => a \in Procs

(* EntriesOfLiving with what keeps it: an entry is of a thread that was     *)
(* cloned, and the entries go with their process.                           *)
Entries ==
    \A p \in Procs :
        /\ \A t \in tcb[p] : parent[t] = p /\ pc[t] \notin {"unborn", "gone"}
        /\ p \notin table => tcb[p] = {}

(* A process leaves the table after it was Terminated and not before; what  *)
(* Read_Exit_Code is about to delete is.                                    *)
LeavesEnded ==
    /\ \A p \in Procs : /\ p \in table => pc[p] # "unborn"
                        /\ p \notin table => pc[p] = "unborn" \/ state[p] = "Terminated"
    /\ \A a \in Actors :
        /\ pc[a] \in {"enlist", "sleep", "code", "delete"} => target[a] \in active[a]
        /\ pc[a] = "delete" => state[target[a]] = "Terminated"

(* Who takes itself down is a process, or a thread whose process was found. *)
TakesDown ==
    \A a \in Actors :
        /\ pc[a] \in {"ending", "terminated"} => a \in Procs
        /\ pc[a] = "terminated" => state[a] = "Terminated"
        /\ pc[a] \in {"find", "remove"} =>
              a \in Threads /\ parent[a] \in Procs /\ pc[parent[a]] # "unborn"

(* Bootstrap_Loader waits for the shell alone, and only the end of the      *)
(* shell or a Shutdown wakes it.                                            *)
Loader ==
    /\ active[Kernel] \subseteq {Shell}
    /\ \A p \in Procs : Kernel \in listeners[p] => p = Shell
    /\ \A a \in Actors :
          pc[a] \in Walks \cup {"emptying", "signal", "notify"} => called > 0
    /\ woken[Kernel] => Over
    /\ pc[Kernel] \in {"code", "delete", "leaving", "gone"} => Over

(* With nothing new since the last reader collected, the file is today's    *)
(* (or was not written whole), or the one reader that is about to write it  *)
(* has today's list.                                                        *)
Tasklist ==
    table # {} /\ ~updated /\ ~overlapped =>
        \/ (current \/ short) /\ \A b \in Actors : pc[b] # "store"
        \/ \E a \in holding : \A b \in Actors : pc[b] = "store" <=> b = a

IInv == /\ TypeOK /\ LocksHeld /\ WalkTouchesLive /\ Cloning /\ Entries
        /\ LeavesEnded /\ TakesDown /\ FaultsOnlyAfterEnd /\ Loader /\ Tasklist

(* The kinds of actors, without the definition of their set. *)
LEMMA ActorKinds ==
    /\ Procs \subseteq Actors /\ Threads \subseteq Actors /\ Kernel \in Actors
    /\ None \notin Actors /\ Procs \cap Threads = {}
    /\ Kernel \notin Procs /\ Kernel \notin Threads /\ Shell \in Procs
  BY ThreadAssumption DEF Actors

(* Every step keeps the types. *)
LEMMA TypeKept ==
    ASSUME TypeOK, Cloning, LeavesEnded, [Next]_vars
    PROVE  TypeOK'
<1> USE ActorKinds DEF treeVars, procVars, waitVars, walkVars, fileVars,
        At, Goto, TypeOK, Pcs
<1>1. CASE UNCHANGED vars
  BY <1>1 DEF vars
<1>2. CASE FreeLibrary
  BY <1>2 DEF FreeLibrary
<1>3. ASSUME NEW a \in Actors, CreateProcess(a) PROVE TypeOK'
  <2>1. PICK q \in Procs :
            /\ table' = table \cup {q}
            /\ parent' = [parent EXCEPT ![q] = a]
            /\ active' = [active EXCEPT ![a] = @ \cup {q}]
            /\ pc' = [pc EXCEPT ![q] = "running"]
    BY <1>3 DEF CreateProcess
  <2>2. active[a] \cup {q} \in SUBSET Procs
    OBVIOUS
  <2> QED
    BY <1>3, <2>1, <2>2 DEF CreateProcess, TableChanges
<1>4. ASSUME NEW a \in Actors, CreateThread(a) PROVE TypeOK'
  <2>1. PICK t \in Threads :
            /\ pc' = [pc EXCEPT ![a] = "parent", ![t] = "held"]
            /\ parent' = [parent EXCEPT ![t] = a]
            /\ target' = [target EXCEPT ![a] = t]
    BY <1>4 DEF CreateThread
  <2> QED
    BY <1>4, <2>1 DEF CreateThread
<1>5. ASSUME NEW a \in Actors, Exit(a) PROVE TypeOK'
  BY <1>5 DEF Exit, May, Runs
<1>6. ASSUME NEW a \in Actors, ProgramEnds(a) PROVE TypeOK'
  BY <1>6 DEF ProgramEnds, Program, Runs
<1>7. ASSUME NEW a \in Actors, ThreadEnds(a) PROVE TypeOK'
  BY <1>7 DEF ThreadEnds, Program, Runs
<1>8. ASSUME NEW a \in Actors, WaitCheck(a) PROVE TypeOK'
  BY <1>8 DEF WaitCheck, Runs
<1>9. ASSUME NEW a \in Actors, Register(a) PROVE TypeOK'
  BY <1>9 DEF Register, May, Runs
<1>10. ASSUME NEW a \in Actors, Shutdown(a) PROVE TypeOK'
  BY <1>10 DEF Shutdown, May, Runs
<1>11. ASSUME NEW a \in Actors, ReadTasklist(a) PROVE TypeOK'
  BY <1>11 DEF ReadTasklist, May, Runs
<1>12. ASSUME NEW a \in Actors, FindCreator(a) PROVE TypeOK'
  BY <1>12 DEF FindCreator
<1>13. ASSUME NEW a \in Actors, AddNewThread(a) PROVE TypeOK'
  <2>1. tcb' \in [Procs -> SUBSET Threads]
    <3>1. CASE a \in table
      <4>1. tcb' = [tcb EXCEPT ![a] = @ \cup {target[a]}] /\ target[a] \in Threads
        BY <1>13, <3>1 DEF AddNewThread, Cloning
      <4>2. tcb[a] \cup {target[a]} \in SUBSET Threads
        BY <3>1, <4>1
      <4> QED
        BY <4>1, <4>2
    <3> QED
      BY <1>13, <3>1 DEF AddNewThread
  <2>2. pc' \in [Actors -> Pcs]
    BY <1>13 DEF AddNewThread
  <2> HIDE DEF Pcs, Goto
  <2> QED
    BY <1>13, <2>1, <2>2 DEF AddNewThread
<1>14. ASSUME NEW a \in Actors, ReleaseThread(a) PROVE TypeOK'
  BY <1>14 DEF ReleaseThread
<1>15. ASSUME NEW a \in Actors, SetTerminated(a) PROVE TypeOK'
  <2>1. state' \in [Procs -> {"Ready", "Terminated"}]
    BY <1>15 DEF SetTerminated
  <2>2. pc' \in [Actors -> Pcs]
    BY <1>15 DEF SetTerminated
  <2> HIDE DEF Pcs, Goto
  <2> QED
    BY <1>15, <2>1, <2>2 DEF SetTerminated
<1>16. ASSUME NEW a \in Actors, NotifyEnd(a) PROVE TypeOK'
  <2>1. waitVars' = waitVars \/ Notify(a)
    BY <1>16 DEF NotifyEnd
  <2>2. listeners' \in [Procs -> SUBSET Actors] /\ woken' \in [Actors -> BOOLEAN]
    <3>1. woken \in [Actors -> BOOLEAN] /\ listeners \in [Procs -> SUBSET Actors]
      OBVIOUS
    <3> HIDE DEF TypeOK
    <3>2. CASE Notify(a)
      <4>1. listeners' \in [Procs -> SUBSET Actors]
        BY <3>1, <3>2 DEF Notify
      <4>2. woken' \in [Actors -> BOOLEAN]
        BY <3>1, <3>2, Zenon DEF Notify
      <4> QED
        BY <4>1, <4>2
    <3> QED
      BY <2>1, <3>1, <3>2
  <2>3. pc' \in [Actors -> Pcs]
    BY <1>16 DEF NotifyEnd
  <2> HIDE DEF Pcs, Goto
  <2> QED
    BY <1>16, <2>2, <2>3 DEF NotifyEnd
<1>17. ASSUME NEW a \in Actors, FindThread(a) PROVE TypeOK'
  <2>1. pc' \in [Actors -> Pcs]
    BY <1>17 DEF FindThread
  <2> HIDE DEF Pcs, Goto
  <2> QED
    BY <1>17, <2>1 DEF FindThread
<1>18. ASSUME NEW a \in Actors, RemoveThread(a) PROVE TypeOK'
  <2>1. tcb' \in [Procs -> SUBSET Threads]
    <3>1. CASE parent[a] \in table
      <4>1. tcb' = [tcb EXCEPT ![parent[a]] = @ \ {a}]
        BY <1>18, <3>1 DEF RemoveThread
      <4>2. tcb[parent[a]] \ {a} \in SUBSET Threads
        BY <3>1
      <4> QED
        BY <4>1, <4>2
    <3> QED
      BY <1>18, <3>1 DEF RemoveThread
  <2>2. pc' \in [Actors -> Pcs]
    BY <1>18 DEF RemoveThread
  <2> HIDE DEF Pcs, Goto
  <2> QED
    BY <1>18, <2>1, <2>2 DEF RemoveThread
<1>19. ASSUME NEW a \in Actors, Enlist(a) PROVE TypeOK'
  <2>1. listeners' \in [Procs -> SUBSET Actors]
    <3>1. listeners' = [listeners EXCEPT ![target[a]] = @ \cup {a}]
      BY <1>19 DEF Enlist
    <3>2. target[a] \in Procs
      BY <1>19 DEF Enlist, LeavesEnded
    <3>3. listeners[target[a]] \cup {a} \in SUBSET Actors
      BY <3>2
    <3> QED
      BY <3>1, <3>2, <3>3
  <2> QED
    BY <1>19, <2>1 DEF Enlist
<1>20. ASSUME NEW a \in Actors, Wake(a) PROVE TypeOK'
  BY <1>20 DEF Wake
<1>21. ASSUME NEW a \in Actors, ReadExitCode(a) PROVE TypeOK'
  <2>1. active' \in [Actors -> SUBSET Procs]
    <3>1. active' = active \/ active' = [active EXCEPT ![a] = @ \ {target[a]}]
      BY <1>21 DEF ReadExitCode, Forget
    <3>2. active[a] \ {target[a]} \in SUBSET Procs
      OBVIOUS
    <3> QED
      BY <3>1, <3>2
  <2>2. target' \in [Actors -> Actors \cup {None}]
    BY <1>21 DEF ReadExitCode, Forget
  <2>3. pc' \in [Actors -> Pcs]
    BY <1>21 DEF ReadExitCode, Forget
  <2> HIDE DEF Pcs, Goto
  <2> QED
    BY <1>21, <2>1, <2>2, <2>3 DEF ReadExitCode
<1>22. ASSUME NEW a \in Actors, RemoveProcess(a) PROVE TypeOK'
  BY <1>22 DEF RemoveProcess, Forget, TableChanges
<1>23. ASSUME NEW a \in Actors, LockTable(a) PROVE TypeOK'
  BY <1>23 DEF LockTable
<1>24. ASSUME NEW a \in Actors, CallHandler(a) PROVE TypeOK'
  BY <1>24 DEF CallHandler
<1>25. ASSUME NEW a \in Actors, UnlockTable(a) PROVE TypeOK'
  BY <1>25 DEF UnlockTable
<1>26. ASSUME NEW a \in Actors, LockThreads(a) PROVE TypeOK'
  BY <1>26 DEF LockThreads
<1>27. ASSUME NEW a \in Actors, NotifyThread(a) PROVE TypeOK'
  BY <1>27 DEF NotifyThread
<1>28. ASSUME NEW a \in Actors, UnlockThreads(a) PROVE TypeOK'
  BY <1>28 DEF UnlockThreads
<1>29. ASSUME NEW a \in Actors, NotifyListeners(a) PROVE TypeOK'
  BY <1>29 DEF NotifyListeners, Notify
<1>30. ASSUME NEW a \in Actors, Collect(a) PROVE TypeOK'
  <2>1. holding' \subseteq Actors
    BY <1>30 DEF Collect
  <2>2. updated' \in BOOLEAN /\ overlapped' \in BOOLEAN /\ short' \in BOOLEAN
    BY <1>30 DEF Collect
  <2>3. pc' \in [Actors -> Pcs]
    BY <1>30 DEF Collect
  <2> HIDE DEF Pcs, Goto
  <2> QED
    BY <1>30, <2>1, <2>2, <2>3 DEF Collect
<1>31. ASSUME NEW a \in Actors, Store(a) PROVE TypeOK'
  <2>1. current' \in BOOLEAN /\ short' \in BOOLEAN
    <3>1. (a \in holding) \in BOOLEAN
      OBVIOUS
    <3>2. \/ current' = (a \in holding) /\ short' = FALSE
          \/ current' = FALSE /\ short' = TRUE
      BY <1>31 DEF Store
    <3> HIDE DEF TypeOK
    <3> QED
      BY <3>1, <3>2, Zenon
  <2>2. pc' \in [Actors -> Pcs] /\ holding' \subseteq Actors
    BY <1>31 DEF Store
  <2> HIDE DEF Pcs, Goto
  <2> QED
    BY <1>31, <2>1, <2>2 DEF Store
<1>32. ASSUME NEW a \in Actors, RemoveAllIoHandles(a) PROVE TypeOK'
  BY <1>32 DEF RemoveAllIoHandles
<1> QED
  BY <1>1, <1>2, <1>3, <1>4, <1>5, <1>6, <1>7, <1>8, <1>9, <1>10, <1>11, <1>12,
     <1>13, <1>14, <1>15, <1>16, <1>17, <1>18, <1>19, <1>20, <1>21, <1>22,
     <1>23, <1>24, <1>25, <1>26, <1>27, <1>28, <1>29, <1>30, <1>31, <1>32
  DEF Next, Call, KernelStep

(* Only who has a lock gives it back, and no step takes away what a walk    *)
(* has still to visit.                                                      *)
LEMMA LocksKept ==
    ASSUME TypeOK, LocksHeld, WalkTouchesLive, [Next]_vars
    PROVE  LocksHeld' /\ WalkTouchesLive'
<1> USE ActorKinds DEF treeVars, procVars, waitVars, walkVars, fileVars,
        At, Goto, TypeOK, LocksHeld, Walks, WalkTouchesLive
<1>1. CASE UNCHANGED vars
  BY <1>1 DEF vars
<1>2. CASE FreeLibrary
  BY <1>2 DEF FreeLibrary
<1>3. ASSUME NEW a \in Actors, CreateProcess(a) PROVE LocksHeld' /\ WalkTouchesLive'
  BY <1>3 DEF CreateProcess, May, Runs, TableChanges
<1>4. ASSUME NEW a \in Actors, CreateThread(a) PROVE LocksHeld' /\ WalkTouchesLive'
  BY <1>4 DEF CreateThread, May, Runs
<1>5. ASSUME NEW a \in Actors, Exit(a) PROVE LocksHeld' /\ WalkTouchesLive'
  BY <1>5 DEF Exit, May, Runs
<1>6. ASSUME NEW a \in Actors, ProgramEnds(a) PROVE LocksHeld' /\ WalkTouchesLive'
  BY <1>6 DEF ProgramEnds, Program, Runs
<1>7. ASSUME NEW a \in Actors, ThreadEnds(a) PROVE LocksHeld' /\ WalkTouchesLive'
  BY <1>7 DEF ThreadEnds, Program, Runs
<1>8. ASSUME NEW a \in Actors, WaitCheck(a) PROVE LocksHeld' /\ WalkTouchesLive'
  BY <1>8 DEF WaitCheck, Runs
<1>9. ASSUME NEW a \in Actors, Register(a) PROVE LocksHeld' /\ WalkTouchesLive'
  BY <1>9 DEF Register, May, Runs
<1>10. ASSUME NEW a \in Actors, Shutdown(a) PROVE LocksHeld' /\ WalkTouchesLive'
  BY <1>10 DEF Shutdown, May, Runs
<1>11. ASSUME NEW a \in Actors, ReadTasklist(a) PROVE LocksHeld' /\ WalkTouchesLive'
  BY <1>11 DEF ReadTasklist, May, Runs
<1>12. ASSUME NEW a \in Actors, FindCreator(a) PROVE LocksHeld' /\ WalkTouchesLive'
  BY <1>12 DEF FindCreator
<1>13. ASSUME NEW a \in Actors, AddNewThread(a) PROVE LocksHeld' /\ WalkTouchesLive'
  <2>1. LocksHeld'
    BY <1>13 DEF AddNewThread
  <2>2. WalkTouchesLive'
    <3>1. \A p \in Procs : tcb[p] \subseteq tcb'[p]
      BY <1>13 DEF AddNewThread
    <3>2. \A b \in Actors : pc'[b] \in {"signalling", "walking", "threads", "own"}
                             => pc[b] = pc'[b]
      BY <1>13 DEF AddNewThread
    <3> QED
      BY <1>13, <3>1, <3>2 DEF AddNewThread
  <2> QED
    BY <2>1, <2>2
<1>14. ASSUME NEW a \in Actors, ReleaseThread(a) PROVE LocksHeld' /\ WalkTouchesLive'
  BY <1>14 DEF ReleaseThread
<1>15. ASSUME NEW a \in Actors, SetTerminated(a) PROVE LocksHeld' /\ WalkTouchesLive'
  <2>1. LocksHeld'
    BY <1>15 DEF SetTerminated
  <2>2. WalkTouchesLive'
    BY <1>15 DEF SetTerminated
  <2> QED
    BY <2>1, <2>2
<1>16. ASSUME NEW a \in Actors, NotifyEnd(a) PROVE LocksHeld' /\ WalkTouchesLive'
  BY <1>16 DEF NotifyEnd, Notify
<1>17. ASSUME NEW a \in Actors, FindThread(a) PROVE LocksHeld' /\ WalkTouchesLive'
  BY <1>17 DEF FindThread
<1>18. ASSUME NEW a \in Actors, RemoveThread(a) PROVE LocksHeld' /\ WalkTouchesLive'
  <2>1. LocksHeld'
    BY <1>18 DEF RemoveThread
  <2>2. /\ pc' = [pc EXCEPT ![a] = pc'[a]] /\ pc'[a] \in {"faulted", "gone"}
        /\ UNCHANGED <<left, target, threads, table>>
    BY <1>18 DEF RemoveThread
  <2>3. \A p \in Procs : tcbLock[p] # None => tcb'[p] = tcb[p]
    BY <1>18 DEF RemoveThread
  <2>4. ASSUME NEW b \in Actors, pc'[b] = "threads"
        PROVE  threads'[b] \subseteq tcb'[target'[b]]
    <3>1. /\ pc[b] = "threads" /\ target[b] \in table
          /\ tcbLock[target[b]] = b
      BY <2>2, <2>4
    <3>2. tcb'[target[b]] = tcb[target[b]]
      BY <2>3, <3>1
    <3> QED
      BY <2>2, <3>1, <3>2
  <2>5. WalkTouchesLive'
    BY <2>2, <2>4
  <2> QED
    BY <2>1, <2>5
<1>19. ASSUME NEW a \in Actors, Enlist(a) PROVE LocksHeld' /\ WalkTouchesLive'
  BY <1>19 DEF Enlist
<1>20. ASSUME NEW a \in Actors, Wake(a) PROVE LocksHeld' /\ WalkTouchesLive'
  BY <1>20 DEF Wake
<1>21. ASSUME NEW a \in Actors, ReadExitCode(a) PROVE LocksHeld' /\ WalkTouchesLive'
  BY <1>21 DEF ReadExitCode, Forget
<1>22. ASSUME NEW a \in Actors, RemoveProcess(a) PROVE LocksHeld' /\ WalkTouchesLive'
  BY <1>22 DEF RemoveProcess, Forget, TableChanges
<1>23. ASSUME NEW a \in Actors, LockTable(a) PROVE LocksHeld' /\ WalkTouchesLive'
  BY <1>23 DEF LockTable
<1>24. ASSUME NEW a \in Actors, CallHandler(a) PROVE LocksHeld' /\ WalkTouchesLive'
  BY <1>24 DEF CallHandler
<1>25. ASSUME NEW a \in Actors, UnlockTable(a) PROVE LocksHeld' /\ WalkTouchesLive'
  BY <1>25 DEF UnlockTable
<1>26. ASSUME NEW a \in Actors, LockThreads(a) PROVE LocksHeld' /\ WalkTouchesLive'
  BY <1>26 DEF LockThreads
<1>27. ASSUME NEW a \in Actors, NotifyThread(a) PROVE LocksHeld' /\ WalkTouchesLive'
  BY <1>27 DEF NotifyThread
<1>28. ASSUME NEW a \in Actors, UnlockThreads(a) PROVE LocksHeld' /\ WalkTouchesLive'
  BY <1>28 DEF UnlockThreads
<1>29. ASSUME NEW a \in Actors, NotifyListeners(a) PROVE LocksHeld' /\ WalkTouchesLive'
  BY <1>29 DEF NotifyListeners, Notify
<1>30. ASSUME NEW a \in Actors, Collect(a) PROVE LocksHeld' /\ WalkTouchesLive'
  BY <1>30 DEF Collect, Storing
<1>31. ASSUME NEW a \in Actors, Store(a) PROVE LocksHeld' /\ WalkTouchesLive'
  BY <1>31 DEF Store
<1>32. ASSUME NEW a \in Actors, RemoveAllIoHandles(a) PROVE LocksHeld' /\ WalkTouchesLive'
  BY <1>32 DEF RemoveAllIoHandles
<1> QED
  BY <1>1, <1>2, <1>3, <1>4, <1>5, <1>6, <1>7, <1>8, <1>9, <1>10, <1>11, <1>12,
     <1>13, <1>14, <1>15, <1>16, <1>17, <1>18, <1>19, <1>20, <1>21, <1>22,
     <1>23, <1>24, <1>25, <1>26, <1>27, <1>28, <1>29, <1>30, <1>31, <1>32
  DEF Next, Call, KernelStep

(* A held thread stays its creator's; an entry goes before its thread does, *)
(* or with its process.                                                     *)
LEMMA EntriesKept ==
    ASSUME TypeOK, Cloning, Entries, [Next]_vars
    PROVE  Cloning' /\ Entries'
<1> USE ActorKinds DEF treeVars, procVars, waitVars, walkVars, fileVars,
        At, Goto, TypeOK, Cloning, Entries
<1>1. CASE UNCHANGED vars
  BY <1>1 DEF vars
<1>2. CASE FreeLibrary
  BY <1>2 DEF FreeLibrary
<1>3. ASSUME NEW a \in Actors, CreateProcess(a) PROVE Cloning' /\ Entries'
  BY <1>3 DEF CreateProcess, May, Runs, TableChanges
<1>4. ASSUME NEW a \in Actors, CreateThread(a) PROVE Cloning' /\ Entries'
  BY <1>4 DEF CreateThread, May, Runs
<1>5. ASSUME NEW a \in Actors, Exit(a) PROVE Cloning' /\ Entries'
  BY <1>5 DEF Exit, May, Runs
<1>6. ASSUME NEW a \in Actors, ProgramEnds(a) PROVE Cloning' /\ Entries'
  BY <1>6 DEF ProgramEnds, Program, Runs
<1>7. ASSUME NEW a \in Actors, ThreadEnds(a) PROVE Cloning' /\ Entries'
  BY <1>7 DEF ThreadEnds, Program, Runs
<1>8. ASSUME NEW a \in Actors, WaitCheck(a) PROVE Cloning' /\ Entries'
  BY <1>8 DEF WaitCheck, Runs
<1>9. ASSUME NEW a \in Actors, Register(a) PROVE Cloning' /\ Entries'
  BY <1>9 DEF Register, May, Runs
<1>10. ASSUME NEW a \in Actors, Shutdown(a) PROVE Cloning' /\ Entries'
  BY <1>10 DEF Shutdown, May, Runs
<1>11. ASSUME NEW a \in Actors, ReadTasklist(a) PROVE Cloning' /\ Entries'
  BY <1>11 DEF ReadTasklist, May, Runs
<1>12. ASSUME NEW a \in Actors, FindCreator(a) PROVE Cloning' /\ Entries'
  BY <1>12 DEF FindCreator
<1>13. ASSUME NEW a \in Actors, AddNewThread(a) PROVE Cloning' /\ Entries'
  <2>1. Cloning'
    BY <1>13 DEF AddNewThread
  <2>2. CASE a \in table
    <3>1. /\ pc' = [pc EXCEPT ![a] = "release"] /\ UNCHANGED <<parent, table>>
          /\ tcb' = [tcb EXCEPT ![a] = @ \cup {target[a]}]
          /\ target[a] \in Threads /\ parent[target[a]] = a
          /\ pc[target[a]] = "held" /\ a \in Procs /\ pc[a] = "add"
      BY <1>13, <2>2 DEF AddNewThread
    <3> HIDE DEF Cloning
    <3>2. ASSUME NEW p \in Procs, NEW t \in tcb'[p]
          PROVE  parent[t] = p /\ pc'[t] \notin {"unborn", "gone"}
      BY <3>1
    <3>3. \A p \in Procs : p \notin table => tcb'[p] = {}
      BY <2>2, <3>1
    <3> QED
      BY <2>1, <3>1, <3>2, <3>3
  <2>3. CASE a \notin table
    BY <1>13, <2>1, <2>3 DEF AddNewThread
  <2> QED
    BY <2>2, <2>3
<1>14. ASSUME NEW a \in Actors, ReleaseThread(a) PROVE Cloning' /\ Entries'
  BY <1>14 DEF ReleaseThread
<1>15. ASSUME NEW a \in Actors, SetTerminated(a) PROVE Cloning' /\ Entries'
  BY <1>15 DEF SetTerminated
<1>16. ASSUME NEW a \in Actors, NotifyEnd(a) PROVE Cloning' /\ Entries'
  BY <1>16 DEF NotifyEnd, Notify
<1>17. ASSUME NEW a \in Actors, FindThread(a) PROVE Cloning' /\ Entries'
  BY <1>17 DEF FindThread
<1>18. ASSUME NEW a \in Actors, RemoveThread(a) PROVE Cloning' /\ Entries'
  <2>1. Cloning'
    BY <1>18 DEF RemoveThread
  <2>2. CASE parent[a] \in table
    <3>1. /\ pc' = [pc EXCEPT ![a] = "gone"] /\ UNCHANGED <<parent, table>>
          /\ tcb' = [tcb EXCEPT ![parent[a]] = @ \ {a}]
      BY <1>18, <2>2 DEF RemoveThread
    <3>2. ASSUME NEW p \in Procs, NEW t \in tcb'[p]
          PROVE  parent[t] = p /\ pc'[t] \notin {"unborn", "gone"}
      <4>1. t \in tcb[p] /\ t # a
        BY <2>2, <3>1
      <4> QED
        BY <3>1, <4>1
    <3>3. \A p \in Procs : p \notin table => tcb'[p] = {}
      BY <2>2, <3>1
    <3> QED
      BY <2>1, <3>1, <3>2, <3>3
  <2>3. CASE parent[a] \notin table
    BY <1>18, <2>1, <2>3 DEF RemoveThread
  <2> QED
    BY <2>2, <2>3
<1>19. ASSUME NEW a \in Actors, Enlist(a) PROVE Cloning' /\ Entries'
  BY <1>19 DEF Enlist
<1>20. ASSUME NEW a \in Actors, Wake(a) PROVE Cloning' /\ Entries'
  BY <1>20 DEF Wake
<1>21. ASSUME NEW a \in Actors, ReadExitCode(a) PROVE Cloning' /\ Entries'
  <2>1. /\ pc[a] = "code" /\ target' = [target EXCEPT ![a] = target'[a]]
        /\ pc' = [pc EXCEPT ![a] = pc'[a]]
        /\ pc'[a] \in {"delete", "leaving", "running"}
        /\ UNCHANGED <<parent, table, tcb>>
    BY <1>21 DEF ReadExitCode, Forget
  <2>2. Cloning'
    BY <2>1
  <2>3. Entries'
    BY <2>1
  <2> QED
    BY <2>2, <2>3
<1>22. ASSUME NEW a \in Actors, RemoveProcess(a) PROVE Cloning' /\ Entries'
  BY <1>22 DEF RemoveProcess, Forget, TableChanges
<1>23. ASSUME NEW a \in Actors, LockTable(a) PROVE Cloning' /\ Entries'
  BY <1>23 DEF LockTable
<1>24. ASSUME NEW a \in Actors, CallHandler(a) PROVE Cloning' /\ Entries'
  BY <1>24 DEF CallHandler
<1>25. ASSUME NEW a \in Actors, UnlockTable(a) PROVE Cloning' /\ Entries'
  BY <1>25 DEF UnlockTable
<1>26. ASSUME NEW a \in Actors, LockThreads(a) PROVE Cloning' /\ Entries'
  BY <1>26 DEF LockThreads
<1>27. ASSUME NEW a \in Actors, NotifyThread(a) PROVE Cloning' /\ Entries'
  BY <1>27 DEF NotifyThread
<1>28. ASSUME NEW a \in Actors, UnlockThreads(a) PROVE Cloning' /\ Entries'
  BY <1>28 DEF UnlockThreads
<1>29. ASSUME NEW a \in Actors, NotifyListeners(a) PROVE Cloning' /\ Entries'
  BY <1>29 DEF NotifyListeners, Notify
<1>30. ASSUME NEW a \in Actors, Collect(a) PROVE Cloning' /\ Entries'
  BY <1>30 DEF Collect, Storing
<1>31. ASSUME NEW a \in Actors, Store(a) PROVE Cloning' /\ Entries'
  BY <1>31 DEF Store
<1>32. ASSUME NEW a \in Actors, RemoveAllIoHandles(a) PROVE Cloning' /\ Entries'
  BY <1>32 DEF RemoveAllIoHandles
<1> QED
  BY <1>1, <1>2, <1>3, <1>4, <1>5, <1>6, <1>7, <1>8, <1>9, <1>10, <1>11, <1>12,
     <1>13, <1>14, <1>15, <1>16, <1>17, <1>18, <1>19, <1>20, <1>21, <1>22,
     <1>23, <1>24, <1>25, <1>26, <1>27, <1>28, <1>29, <1>30, <1>31, <1>32
  DEF Next, Call, KernelStep

(* A process is deleted by a reader of the code it has at its end, so one   *)
(* that is found no more has ended.                                         *)
LEMMA EndsKept ==
    ASSUME TypeOK, Cloning, LeavesEnded, TakesDown, [Next]_vars
    PROVE  LeavesEnded' /\ TakesDown'
<1> USE ActorKinds DEF treeVars, procVars, waitVars, walkVars, fileVars,
        At, Goto, TypeOK, LeavesEnded, TakesDown
<1>1. CASE UNCHANGED vars
  BY <1>1 DEF vars
<1>2. CASE FreeLibrary
  BY <1>2 DEF FreeLibrary
<1>3. ASSUME NEW a \in Actors, CreateProcess(a) PROVE LeavesEnded' /\ TakesDown'
  BY <1>3 DEF CreateProcess, May, Runs, TableChanges
<1>4. ASSUME NEW a \in Actors, CreateThread(a) PROVE LeavesEnded' /\ TakesDown'
  BY <1>4 DEF CreateThread, May, Runs
<1>5. ASSUME NEW a \in Actors, Exit(a) PROVE LeavesEnded' /\ TakesDown'
  BY <1>5 DEF Exit, May, Runs
<1>6. ASSUME NEW a \in Actors, ProgramEnds(a) PROVE LeavesEnded' /\ TakesDown'
  <2>1. LeavesEnded'
    BY <1>6 DEF ProgramEnds, Program, Runs
  <2>2. TakesDown'
    <3>1. /\ a \in Procs /\ pc[a] = "running" /\ UNCHANGED <<parent, state>>
          /\ pc' = [pc EXCEPT ![a] = pc'[a]] /\ pc'[a] \in {"ending", "faulted"}
      BY <1>6 DEF ProgramEnds, Program, Runs
    <3> QED
      BY <3>1
  <2> QED
    BY <2>1, <2>2
<1>7. ASSUME NEW a \in Actors, ThreadEnds(a) PROVE LeavesEnded' /\ TakesDown'
  BY <1>7 DEF ThreadEnds, Program, Runs
<1>8. ASSUME NEW a \in Actors, WaitCheck(a) PROVE LeavesEnded' /\ TakesDown'
  BY <1>8 DEF WaitCheck, Runs
<1>9. ASSUME NEW a \in Actors, Register(a) PROVE LeavesEnded' /\ TakesDown'
  BY <1>9 DEF Register, May, Runs
<1>10. ASSUME NEW a \in Actors, Shutdown(a) PROVE LeavesEnded' /\ TakesDown'
  BY <1>10 DEF Shutdown, May, Runs
<1>11. ASSUME NEW a \in Actors, ReadTasklist(a) PROVE LeavesEnded' /\ TakesDown'
  BY <1>11 DEF ReadTasklist, May, Runs
<1>12. ASSUME NEW a \in Actors, FindCreator(a) PROVE LeavesEnded' /\ TakesDown'
  BY <1>12 DEF FindCreator
<1>13. ASSUME NEW a \in Actors, AddNewThread(a) PROVE LeavesEnded' /\ TakesDown'
  BY <1>13 DEF AddNewThread
<1>14. ASSUME NEW a \in Actors, ReleaseThread(a) PROVE LeavesEnded' /\ TakesDown'
  BY <1>14 DEF ReleaseThread, Cloning
<1>15. ASSUME NEW a \in Actors, SetTerminated(a) PROVE LeavesEnded' /\ TakesDown'
  BY <1>15 DEF SetTerminated
<1>16. ASSUME NEW a \in Actors, NotifyEnd(a) PROVE LeavesEnded' /\ TakesDown'
  BY <1>16 DEF NotifyEnd, Notify
<1>17. ASSUME NEW a \in Actors, FindThread(a) PROVE LeavesEnded' /\ TakesDown'
  BY <1>17 DEF FindThread
<1>18. ASSUME NEW a \in Actors, RemoveThread(a) PROVE LeavesEnded' /\ TakesDown'
  BY <1>18 DEF RemoveThread
<1>19. ASSUME NEW a \in Actors, Enlist(a) PROVE LeavesEnded' /\ TakesDown'
  BY <1>19 DEF Enlist
<1>20. ASSUME NEW a \in Actors, Wake(a) PROVE LeavesEnded' /\ TakesDown'
  BY <1>20 DEF Wake
<1>21. ASSUME NEW a \in Actors, ReadExitCode(a) PROVE LeavesEnded' /\ TakesDown'
  BY <1>21 DEF ReadExitCode, Forget
<1>22. ASSUME NEW a \in Actors, RemoveProcess(a) PROVE LeavesEnded' /\ TakesDown'
  BY <1>22 DEF RemoveProcess, Forget, TableChanges
<1>23. ASSUME NEW a \in Actors, LockTable(a) PROVE LeavesEnded' /\ TakesDown'
  BY <1>23 DEF LockTable
<1>24. ASSUME NEW a \in Actors, CallHandler(a) PROVE LeavesEnded' /\ TakesDown'
  BY <1>24 DEF CallHandler
<1>25. ASSUME NEW a \in Actors, UnlockTable(a) PROVE LeavesEnded' /\ TakesDown'
  BY <1>25 DEF UnlockTable
<1>26. ASSUME NEW a \in Actors, LockThreads(a) PROVE LeavesEnded' /\ TakesDown'
  BY <1>26 DEF LockThreads
<1>27. ASSUME NEW a \in Actors, NotifyThread(a) PROVE LeavesEnded' /\ TakesDown'
  BY <1>27 DEF NotifyThread
<1>28. ASSUME NEW a \in Actors, UnlockThreads(a) PROVE LeavesEnded' /\ TakesDown'
  <2>1. LeavesEnded'
    BY <1>28 DEF UnlockThreads
  <2>2. TakesDown'
    BY <1>28 DEF UnlockThreads
  <2> QED
    BY <2>1, <2>2
<1>29. ASSUME NEW a \in Actors, NotifyListeners(a) PROVE LeavesEnded' /\ TakesDown'
  <2>1. LeavesEnded'
    BY <1>29 DEF NotifyListeners, Notify
  <2>2. TakesDown'
    BY <1>29 DEF NotifyListeners, Notify
  <2> QED
    BY <2>1, <2>2
<1>30. ASSUME NEW a \in Actors, Collect(a) PROVE LeavesEnded' /\ TakesDown'
  BY <1>30 DEF Collect, Storing
<1>31. ASSUME NEW a \in Actors, Store(a) PROVE LeavesEnded' /\ TakesDown'
  BY <1>31 DEF Store
<1>32. ASSUME NEW a \in Actors, RemoveAllIoHandles(a) PROVE LeavesEnded' /\ TakesDown'
  BY <1>32 DEF RemoveAllIoHandles
<1> QED
  BY <1>1, <1>2, <1>3, <1>4, <1>5, <1>6, <1>7, <1>8, <1>9, <1>10, <1>11, <1>12,
     <1>13, <1>14, <1>15, <1>16, <1>17, <1>18, <1>19, <1>20, <1>21, <1>22,
     <1>23, <1>24, <1>25, <1>26, <1>27, <1>28, <1>29, <1>30, <1>31, <1>32
  DEF Next, Call, KernelStep

(* The loader is woken by the end of the shell or by a Shutdown; whoever    *)
(* finds no process any more belongs to one that ended.                     *)
LEMMA LoaderKept ==
    ASSUME TypeOK, Cloning, TakesDown, LeavesEnded, Loader, FaultsOnlyAfterEnd, [Next]_vars
    PROVE  Loader' /\ FaultsOnlyAfterEnd'
<1> USE ActorKinds DEF treeVars, procVars, waitVars, walkVars, fileVars,
        At, Goto, TypeOK, Cloning, LeavesEnded, TakesDown, Loader, Walks, Over,
           Returned, FaultsOnlyAfterEnd, OwnerOf
<1>1. CASE UNCHANGED vars
  BY <1>1 DEF vars
<1>2. CASE FreeLibrary
  BY <1>2 DEF FreeLibrary
<1>3. ASSUME NEW a \in Actors, CreateProcess(a) PROVE Loader' /\ FaultsOnlyAfterEnd'
  BY <1>3 DEF CreateProcess, May, Runs, TableChanges
<1>4. ASSUME NEW a \in Actors, CreateThread(a) PROVE Loader' /\ FaultsOnlyAfterEnd'
  BY <1>4 DEF CreateThread, May, Runs
<1>5. ASSUME NEW a \in Actors, Exit(a) PROVE Loader' /\ FaultsOnlyAfterEnd'
  BY <1>5 DEF Exit, May, Runs
<1>6. ASSUME NEW a \in Actors, ProgramEnds(a) PROVE Loader' /\ FaultsOnlyAfterEnd'
  BY <1>6 DEF ProgramEnds, Program, Runs
<1>7. ASSUME NEW a \in Actors, ThreadEnds(a) PROVE Loader' /\ FaultsOnlyAfterEnd'
  BY <1>7 DEF ThreadEnds, Program, Runs
<1>8. ASSUME NEW a \in Actors, WaitCheck(a) PROVE Loader' /\ FaultsOnlyAfterEnd'
  BY <1>8 DEF WaitCheck, Runs
<1>9. ASSUME NEW a \in Actors, Register(a) PROVE Loader' /\ FaultsOnlyAfterEnd'
  BY <1>9 DEF Register, May, Runs
<1>10. ASSUME NEW a \in Actors, Shutdown(a) PROVE Loader' /\ FaultsOnlyAfterEnd'
  BY <1>10 DEF Shutdown, May, Runs
<1>11. ASSUME NEW a \in Actors, ReadTasklist(a) PROVE Loader' /\ FaultsOnlyAfterEnd'
  BY <1>11 DEF ReadTasklist, May, Runs
<1>12. ASSUME NEW a \in Actors, FindCreator(a) PROVE Loader' /\ FaultsOnlyAfterEnd'
  BY <1>12 DEF FindCreator
<1>13. ASSUME NEW a \in Actors, AddNewThread(a) PROVE Loader' /\ FaultsOnlyAfterEnd'
  BY <1>13 DEF AddNewThread
<1>14. ASSUME NEW a \in Actors, ReleaseThread(a) PROVE Loader' /\ FaultsOnlyAfterEnd'
  BY <1>14 DEF ReleaseThread
<1>15. ASSUME NEW a \in Actors, SetTerminated(a) PROVE Loader' /\ FaultsOnlyAfterEnd'
  BY <1>15 DEF SetTerminated
<1>16. ASSUME NEW a \in Actors, NotifyEnd(a) PROVE Loader' /\ FaultsOnlyAfterEnd'
  <2>1. CASE a \notin table
    BY <1>16, <2>1 DEF NotifyEnd
  <2>2. CASE a \in table
    <3>1. a \in Procs /\ state[a] = "Terminated"
      BY <1>16, <2>2 DEF NotifyEnd
    <3>2. Kernel \in listeners[a] => Over
      BY <3>1
    <3>3. woken'[Kernel] => Over
      BY <1>16, <2>2, <3>2 DEF NotifyEnd, Notify
    <3>4. /\ pc' = [pc EXCEPT ![a] = "gone"] /\ a # Kernel
          /\ listeners' = [listeners EXCEPT ![a] = {}]
          /\ UNCHANGED <<active, state, called>>
      BY <1>16, <2>2, <3>1 DEF NotifyEnd, Notify
    <3>6. /\ active'[Kernel] \subseteq {Shell}
          /\ \A p \in Procs : Kernel \in listeners'[p] => p = Shell
          /\ pc'[Kernel] \in {"code", "delete", "leaving", "gone"} => Over'
      BY <3>4
    <3>7. \A b \in Actors : pc'[b] \in Walks \cup {"signal", "notify"} => called' > 0
      BY <3>4
    <3>8. Loader'
      BY <3>3, <3>4, <3>6, <3>7
    <3>5. FaultsOnlyAfterEnd'
      BY <1>16, <2>2 DEF NotifyEnd
    <3> QED
      BY <3>5, <3>8
  <2> QED
    BY <2>1, <2>2
<1>17. ASSUME NEW a \in Actors, FindThread(a) PROVE Loader' /\ FaultsOnlyAfterEnd'
  BY <1>17 DEF FindThread
<1>18. ASSUME NEW a \in Actors, RemoveThread(a) PROVE Loader' /\ FaultsOnlyAfterEnd'
  BY <1>18 DEF RemoveThread
<1>19. ASSUME NEW a \in Actors, Enlist(a) PROVE Loader' /\ FaultsOnlyAfterEnd'
  BY <1>19 DEF Enlist
<1>20. ASSUME NEW a \in Actors, Wake(a) PROVE Loader' /\ FaultsOnlyAfterEnd'
  BY <1>20 DEF Wake
<1>21. ASSUME NEW a \in Actors, ReadExitCode(a) PROVE Loader' /\ FaultsOnlyAfterEnd'
  BY <1>21 DEF ReadExitCode, Forget
<1>22. ASSUME NEW a \in Actors, RemoveProcess(a) PROVE Loader' /\ FaultsOnlyAfterEnd'
  BY <1>22 DEF RemoveProcess, Forget, TableChanges
<1>23. ASSUME NEW a \in Actors, LockTable(a) PROVE Loader' /\ FaultsOnlyAfterEnd'
  BY <1>23 DEF LockTable
<1>24. ASSUME NEW a \in Actors, CallHandler(a) PROVE Loader' /\ FaultsOnlyAfterEnd'
  BY <1>24 DEF CallHandler
<1>25. ASSUME NEW a \in Actors, UnlockTable(a) PROVE Loader' /\ FaultsOnlyAfterEnd'
  BY <1>25 DEF UnlockTable
<1>26. ASSUME NEW a \in Actors, LockThreads(a) PROVE Loader' /\ FaultsOnlyAfterEnd'
  BY <1>26 DEF LockThreads
<1>27. ASSUME NEW a \in Actors, NotifyThread(a) PROVE Loader' /\ FaultsOnlyAfterEnd'
  BY <1>27 DEF NotifyThread
<1>28. ASSUME NEW a \in Actors, UnlockThreads(a) PROVE Loader' /\ FaultsOnlyAfterEnd'
  BY <1>28 DEF UnlockThreads
<1>29. ASSUME NEW a \in Actors, NotifyListeners(a) PROVE Loader' /\ FaultsOnlyAfterEnd'
  BY <1>29 DEF NotifyListeners, Notify
<1>30. ASSUME NEW a \in Actors, Collect(a) PROVE Loader' /\ FaultsOnlyAfterEnd'
  BY <1>30 DEF Collect, Storing
<1>31. ASSUME NEW a \in Actors, Store(a) PROVE Loader' /\ FaultsOnlyAfterEnd'
  BY <1>31 DEF Store
<1>32. ASSUME NEW a \in Actors, RemoveAllIoHandles(a) PROVE Loader' /\ FaultsOnlyAfterEnd'
  BY <1>32 DEF RemoveAllIoHandles
<1> QED
  BY <1>1, <1>2, <1>3, <1>4, <1>5, <1>6, <1>7, <1>8, <1>9, <1>10, <1>11, <1>12,
     <1>13, <1>14, <1>15, <1>16, <1>17, <1>18, <1>19, <1>20, <1>21, <1>22,
     <1>23, <1>24, <1>25, <1>26, <1>27, <1>28, <1>29, <1>30, <1>31, <1>32
  DEF Next, Call, KernelStep

(* The one reader that has a list has today's, or the table changed since.  *)
LEMMA TasklistKept ==
    ASSUME TypeOK, Tasklist, [Next]_vars
    PROVE  Tasklist'
<1> USE ActorKinds DEF treeVars, procVars, waitVars, walkVars, fileVars,
        At, Goto, TypeOK, Tasklist, TableChanges
<1>1. CASE UNCHANGED vars
  BY <1>1 DEF vars
<1>2. CASE FreeLibrary
  BY <1>2 DEF FreeLibrary
<1>3. ASSUME NEW a \in Actors, CreateProcess(a) PROVE Tasklist'
  BY <1>3 DEF CreateProcess, May, Runs, TableChanges
<1>4. ASSUME NEW a \in Actors, CreateThread(a) PROVE Tasklist'
  <2>1. PICK t \in Threads : /\ pc[t] = "unborn"
                             /\ pc' = [pc EXCEPT ![a] = "parent", ![t] = "held"]
    BY <1>4 DEF CreateThread, May, Runs
  <2>2. pc[a] = "running" /\ UNCHANGED <<table, fileVars>>
    BY <1>4 DEF CreateThread, May, Runs
  <2>3. \A b \in Actors : pc'[b] = "store" <=> pc[b] = "store"
    BY <2>1, <2>2
  <2> QED
    BY <2>2, <2>3
<1>5. ASSUME NEW a \in Actors, Exit(a) PROVE Tasklist'
  BY <1>5 DEF Exit, May, Runs
<1>6. ASSUME NEW a \in Actors, ProgramEnds(a) PROVE Tasklist'
  BY <1>6 DEF ProgramEnds, Program, Runs
<1>7. ASSUME NEW a \in Actors, ThreadEnds(a) PROVE Tasklist'
  BY <1>7 DEF ThreadEnds, Program, Runs
<1>8. ASSUME NEW a \in Actors, WaitCheck(a) PROVE Tasklist'
  BY <1>8 DEF WaitCheck, Runs
<1>9. ASSUME NEW a \in Actors, Register(a) PROVE Tasklist'
  BY <1>9 DEF Register, May, Runs
<1>10. ASSUME NEW a \in Actors, Shutdown(a) PROVE Tasklist'
  BY <1>10 DEF Shutdown, May, Runs
<1>11. ASSUME NEW a \in Actors, ReadTasklist(a) PROVE Tasklist'
  BY <1>11 DEF ReadTasklist, May, Runs
<1>12. ASSUME NEW a \in Actors, FindCreator(a) PROVE Tasklist'
  BY <1>12 DEF FindCreator
<1>13. ASSUME NEW a \in Actors, AddNewThread(a) PROVE Tasklist'
  BY <1>13 DEF AddNewThread
<1>14. ASSUME NEW a \in Actors, ReleaseThread(a) PROVE Tasklist'
  <2>1. \A b \in Actors : pc'[b] = "store" <=> pc[b] = "store"
    BY <1>14 DEF ReleaseThread
  <2>2. UNCHANGED <<table, fileVars>>
    BY <1>14 DEF ReleaseThread
  <2> QED
    BY <2>1, <2>2
<1>15. ASSUME NEW a \in Actors, SetTerminated(a) PROVE Tasklist'
  BY <1>15 DEF SetTerminated
<1>16. ASSUME NEW a \in Actors, NotifyEnd(a) PROVE Tasklist'
  <2>1. \A b \in Actors : pc'[b] = "store" <=> pc[b] = "store"
    BY <1>16 DEF NotifyEnd, Notify
  <2>2. UNCHANGED <<table, fileVars>>
    BY <1>16 DEF NotifyEnd, Notify
  <2> QED
    BY <2>1, <2>2
<1>17. ASSUME NEW a \in Actors, FindThread(a) PROVE Tasklist'
  <2>1. \A b \in Actors : pc'[b] = "store" <=> pc[b] = "store"
    BY <1>17 DEF FindThread
  <2>2. UNCHANGED <<table, fileVars>>
    BY <1>17 DEF FindThread
  <2> QED
    BY <2>1, <2>2
<1>18. ASSUME NEW a \in Actors, RemoveThread(a) PROVE Tasklist'
  BY <1>18 DEF RemoveThread
<1>19. ASSUME NEW a \in Actors, Enlist(a) PROVE Tasklist'
  BY <1>19 DEF Enlist
<1>20. ASSUME NEW a \in Actors, Wake(a) PROVE Tasklist'
  BY <1>20 DEF Wake
<1>21. ASSUME NEW a \in Actors, ReadExitCode(a) PROVE Tasklist'
  <2>1. \A b \in Actors : pc'[b] = "store" <=> pc[b] = "store"
    BY <1>21 DEF ReadExitCode, Forget
  <2>2. UNCHANGED <<table, fileVars>>
    BY <1>21 DEF ReadExitCode, Forget
  <2> QED
    BY <2>1, <2>2
<1>22. ASSUME NEW a \in Actors, RemoveProcess(a) PROVE Tasklist'
  BY <1>22 DEF RemoveProcess, Forget, TableChanges
<1>23. ASSUME NEW a \in Actors, LockTable(a) PROVE Tasklist'
  BY <1>23 DEF LockTable
<1>24. ASSUME NEW a \in Actors, CallHandler(a) PROVE Tasklist'
  BY <1>24 DEF CallHandler
<1>25. ASSUME NEW a \in Actors, UnlockTable(a) PROVE Tasklist'
  BY <1>25 DEF UnlockTable
<1>26. ASSUME NEW a \in Actors, LockThreads(a) PROVE Tasklist'
  BY <1>26 DEF LockThreads
<1>27. ASSUME NEW a \in Actors, NotifyThread(a) PROVE Tasklist'
  BY <1>27 DEF NotifyThread
<1>28. ASSUME NEW a \in Actors, UnlockThreads(a) PROVE Tasklist'
  BY <1>28 DEF UnlockThreads
<1>29. ASSUME NEW a \in Actors, NotifyListeners(a) PROVE Tasklist'
  BY <1>29 DEF NotifyListeners, Notify
<1>30. ASSUME NEW a \in Actors, Collect(a) PROVE Tasklist'
  <2>1. CASE table = {}
    BY <1>30, <2>1 DEF Collect
  <2>2. CASE table # {}
    <3>1. /\ pc' = [pc EXCEPT ![a] = "store"] /\ a \in holding'
          /\ overlapped' = (Storing # {})
      BY <1>30, <2>2 DEF Collect
    <3>2. ~overlapped' => \A b \in Actors : pc[b] # "store"
      BY <3>1 DEF Storing
    <3>3. ~overlapped' => \A b \in Actors : pc'[b] = "store" <=> b = a
      BY <3>1, <3>2
    <3> QED
      BY <3>1, <3>3
  <2> QED
    BY <2>1, <2>2
<1>31. ASSUME NEW a \in Actors, Store(a) PROVE Tasklist'
  <2>1. /\ pc[a] = "store" /\ pc' = [pc EXCEPT ![a] = "running"]
        /\ current' = (a \in holding) \/ short'
        /\ UNCHANGED <<table, updated, overlapped>>
    BY <1>31 DEF Store
  <2>2. ASSUME table # {}, ~updated, ~overlapped
        PROVE  (current' \/ short') /\ \A b \in Actors : pc'[b] # "store"
    <3>1. \E c \in holding : \A b \in Actors : pc[b] = "store" <=> b = c
      BY <2>1, <2>2
    <3>2. a \in holding /\ \A b \in Actors : pc[b] = "store" <=> b = a
      BY <2>1, <3>1
    <3> QED
      BY <2>1, <3>2
  <2> QED
    BY <2>1, <2>2
<1>32. ASSUME NEW a \in Actors, RemoveAllIoHandles(a) PROVE Tasklist'
  BY <1>32 DEF RemoveAllIoHandles
<1> QED
  BY <1>1, <1>2, <1>3, <1>4, <1>5, <1>6, <1>7, <1>8, <1>9, <1>10, <1>11, <1>12,
     <1>13, <1>14, <1>15, <1>16, <1>17, <1>18, <1>19, <1>20, <1>21, <1>22,
     <1>23, <1>24, <1>25, <1>26, <1>27, <1>28, <1>29, <1>30, <1>31, <1>32
  DEF Next, Call, KernelStep

(* Nothing has been cloned yet. *)
LEMMA InitIInv == Init => IInv
<1> SUFFICES ASSUME Init PROVE IInv
  OBVIOUS
<1> USE ActorKinds DEF Init
<1>1. TypeOK
  BY DEF TypeOK, Pcs
<1>2. LocksHeld /\ WalkTouchesLive /\ Cloning /\ Entries
  BY DEF LocksHeld, Walks, WalkTouchesLive, Cloning, Entries
<1>3. LeavesEnded /\ TakesDown /\ FaultsOnlyAfterEnd /\ Loader /\ Tasklist
  BY DEF LeavesEnded, TakesDown, FaultsOnlyAfterEnd, Loader, Walks,
        Tasklist
<1> QED
  BY <1>1, <1>2, <1>3 DEF IInv

(* The inductive invariant holds in every reachable state. *)
THEOREM Invariant == Spec => []IInv
<1>1. IInv /\ [Next]_vars => IInv'
  BY TypeKept, LocksKept, EntriesKept, EndsKept, LoaderKept,
     TasklistKept DEF IInv
<1> QED
  BY InitIInv, <1>1, PTL DEF Spec

(* No walk of signalProcesses or notifyAllListeners has a deleted process   *)
(* or thread ahead of it, and no entry outlives its thread, whatever is     *)
(* cloned, ends and shuts down meanwhile.                                   *)
THEOREM TcbSoundHolds == Spec => []TcbSound
<1>1. IInv => TcbSound
  BY DEF IInv, TcbSound, TypeOK, Entries, EntriesOfLiving
<1> QED
  BY Invariant, <1>1, PTL

(* The file "tasklist" has the processes of the table whenever nothing is   *)
(* marked as new, no two readers overlapped and the disk took the list.     *)
THEOREM TasklistIsCurrentHolds == Spec => []TasklistIsCurrent
<1>1. IInv => TasklistIsCurrent
  <2> SUFFICES ASSUME IInv, table # {}, ~updated, Storing = {}, ~overlapped, ~short
               PROVE  current
    BY DEF TasklistIsCurrent
  <2>1. \A b \in Actors : pc[b] # "store"
    BY DEF Storing, At
  <2>2. holding \subseteq Actors
    BY DEF IInv, TypeOK
  <2> QED
    BY <2>1, <2>2 DEF IInv, Tasklist
<1> QED
  BY Invariant, <1>1, PTL

(* A Process is used after its delete only by a program that went on after  *)
(* it was Terminated, or a thread of it; the code of the programs is freed  *)
(* only when that of the shell has returned or called Exit, or after a      *)
(* Shutdown.                                                                *)
THEOREM FaultsOnlyAfterEndHolds == Spec => []FaultsOnlyAfterEnd
  BY Invariant, PTL DEF IInv
=============================================================================
