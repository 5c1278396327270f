----------------------------- MODULE IoHandles ------------------------------
(***************************************************************************)
(* The table of open IO handles (io.cpp): openedHandles maps a handle      *)
(* number to an IOHandle object, ioHandleLock guards it.  Threads open     *)
(* objects, use them by number, close them, and one may run the            *)
(* removeAllIoHandles of a shutdown.                                       *)
(*                                                                         *)
(* getIoHandle hands out a bare pointer and releases the lock; what a      *)
(* caller does with it happens outside.  A closing thread holds the lock   *)
(* from the lookup to the erase, and runs the object's close() inside.     *)
(* The bodies that hold the lock throughout and touch nothing else are one *)
(* action, taken when the lock is free.                                    *)
(***************************************************************************)
EXTENDS Naturals, FiniteSets

CONSTANTS Threads, Objects,  \* the threads, the objects that can be allocated
          NoThread, NoObject

(* 16-bit handle numbers are never all in use: there are fewer objects.    *)
Numbers == 0 .. Cardinality(Objects) - 1

ASSUME IoAssumption == /\ IsFiniteSet(Objects)
                       /\ NoThread \notin Threads
                       /\ NoObject \notin Objects

VARIABLES
    openedHandles,   \* a function from the open handle numbers to objects
    ioHandleLock,    \* the thread that holds it, or NoThread
    object,          \* "new" (not allocated), "open", "closed" or "freed"
    pc, call,        \* where a thread is, and which system call it makes
    handle, pointer  \* its handle number and the pointer it got for it

vars == <<openedHandles, ioHandleLock, object, pc, call, handle, pointer>>

Pcs == {"idle", "add", "get", "using", "remove", "closing", "erase"}
SystemCalls == {"none", "open", "use", "close", "shutdown"}

Opened == DOMAIN openedHandles
LockFree == ioHandleLock = NoThread

Init ==
    /\ openedHandles = [n \in {} |-> NoObject]
    /\ ioHandleLock = NoThread
    /\ object = [o \in Objects |-> "new"]
    /\ pc = [t \in Threads |-> "idle"]
    /\ call = [t \in Threads |-> "none"]
    /\ handle = [t \in Threads |-> 0]
    /\ pointer = [t \in Threads |-> NoObject]

Goto(t, l) == pc' = [pc EXCEPT ![t] = l]

(* A thread enters the kernel with a handle number of its choice. *)
Enter(t, c, n, l) ==
    /\ pc[t] = "idle"
    /\ Goto(t, l)
    /\ call' = [call EXCEPT ![t] = c]
    /\ handle' = [handle EXCEPT ![t] = n]

Return(t) == Goto(t, "idle")

-----------------------------------------------------------------------------
(* OpenIOHandle and each half of CreatePipe: new object, then addIoHandle. *)
(* An open that fails touches nothing of this.                             *)

OpenIOHandle(t) ==
    /\ Enter(t, "open", 0, "add")
    /\ \E o \in Objects :
          /\ object[o] = "new"
          /\ object' = [object EXCEPT ![o] = "open"]
          /\ pointer' = [pointer EXCEPT ![t] = o]
    /\ UNCHANGED <<openedHandles, ioHandleLock>>

(* Mutant of FirstFree: the number of entries is taken for a free number. *)
EntryCount == Cardinality(Opened)

(* The loop over the ordered map stops at the first number that is not the *)
(* next entry.                                                             *)
FirstFree == CHOOSE n \in Numbers : n \notin Opened /\ 0 .. n - 1 \subseteq Opened

(* Mutant of addIoHandle: the entry is assigned at the number of entries. *)
assignIoHandle(t) ==
    /\ pc[t] = "add" /\ LockFree
    /\ handle' = [handle EXCEPT ![t] = EntryCount]
    /\ openedHandles' = [n \in Opened \cup {EntryCount} |->
                            IF n = EntryCount THEN pointer[t] ELSE openedHandles[n]]
    /\ Return(t)
    /\ UNCHANGED <<ioHandleLock, object, call, pointer>>

addIoHandle(t) ==
    /\ pc[t] = "add" /\ LockFree
    /\ handle' = [handle EXCEPT ![t] = FirstFree]
    /\ openedHandles' = [n \in Opened \cup {FirstFree} |->
                            IF n \in Opened THEN openedHandles[n] ELSE pointer[t]]
    /\ Return(t)
    /\ UNCHANGED <<ioHandleLock, object, call, pointer>>

-----------------------------------------------------------------------------
(* ReadIOHandle, WriteIOHandle, SeekFsFile: getIoHandle, then the object  *)

UseIOHandle(t) ==
    /\ \E n \in Numbers : Enter(t, "use", n, "get")
    /\ UNCHANGED <<openedHandles, ioHandleLock, object, pointer>>

CloseIOHandle(t) ==
    /\ \E n \in Numbers : Enter(t, "close", n, "get")
    /\ UNCHANGED <<openedHandles, ioHandleLock, object, pointer>>

getIoHandle(t) ==
    /\ pc[t] = "get" /\ LockFree
    /\ IF handle[t] \in Opened
       THEN /\ pointer' = [pointer EXCEPT ![t] = openedHandles[handle[t]]]
            /\ Goto(t, IF call[t] = "use" THEN "using" ELSE "remove")
       ELSE /\ pointer' = [pointer EXCEPT ![t] = NoObject]
            /\ Return(t)
    /\ UNCHANGED <<openedHandles, ioHandleLock, object, call, handle>>

(* iohandle->read or write returns. *)
DoneUsing(t) ==
    /\ pc[t] = "using"
    /\ Return(t)
    /\ UNCHANGED <<openedHandles, ioHandleLock, object, call, handle, pointer>>

-----------------------------------------------------------------------------
(* removeIoHandle(handle) of a close, removeAllIoHandles of a shutdown     *)

removeAllIoHandles(t) ==
    /\ Enter(t, "shutdown", 0, "remove")
    /\ UNCHANGED <<openedHandles, ioHandleLock, object, pointer>>

(* Which entry the lookup under the lock finds: that of the number, or the *)
(* first one of the map.                                                   *)
Victims(t) ==
    IF call[t] = "shutdown"
    THEN {n \in Opened : \A m \in Opened : n <= m}
    ELSE Opened \cap {handle[t]}

RemoveLock(t) ==
    /\ pc[t] = "remove" /\ LockFree
    /\ \/ /\ Victims(t) = {} /\ Return(t)
          /\ UNCHANGED <<ioHandleLock, handle>>
       \/ \E n \in Victims(t) :
             /\ ioHandleLock' = t
             /\ handle' = [handle EXCEPT ![t] = n]
             /\ Goto(t, "closing")
    /\ UNCHANGED <<openedHandles, object, call, pointer>>

(* Mutant of CloseObject: the call in CloseIOHandle that is commented out, *)
(* ioHandle->close() on the pointer of the first lookup.                   *)
CloseFound(t) ==
    /\ pc[t] = "closing" /\ pointer[t] # NoObject
    /\ object' = [object EXCEPT ![pointer[t]] = "closed"]
    /\ Goto(t, "erase")
    /\ UNCHANGED <<openedHandles, ioHandleLock, call, handle, pointer>>

(* it->second->close() *)
CloseObject(t) ==
    /\ pc[t] = "closing"
    /\ object' = [object EXCEPT ![openedHandles[handle[t]]] = "closed"]
    /\ Goto(t, "erase")
    /\ UNCHANGED <<openedHandles, ioHandleLock, call, handle, pointer>>

(* delete it->second, erase(it), unlock *)
EraseHandle(t) ==
    /\ pc[t] = "erase"
    /\ object' = [object EXCEPT ![openedHandles[handle[t]]] = "freed"]
    /\ openedHandles' = [n \in Opened \ {handle[t]} |-> openedHandles[n]]
    /\ ioHandleLock' = NoThread
    /\ Return(t)
    /\ UNCHANGED <<call, handle, pointer>>

-----------------------------------------------------------------------------
Step(t) == \/ addIoHandle(t) \/ getIoHandle(t) \/ DoneUsing(t)
           \/ RemoveLock(t) \/ CloseObject(t) \/ EraseHandle(t)

SystemCall(t) == \/ OpenIOHandle(t) \/ UseIOHandle(t) \/ CloseIOHandle(t)
                 \/ removeAllIoHandles(t)

Next == \E t \in Threads : SystemCall(t) \/ Step(t)

Spec == Init /\ [][Next]_vars

-----------------------------------------------------------------------------
(* Properties *)

TypeOK ==
    /\ Opened \subseteq Numbers
    /\ openedHandles \in [Opened -> Objects]
    /\ ioHandleLock \in Threads \cup {NoThread}
    /\ object \in [Objects -> {"new", "open", "closed", "freed"}]
    /\ pc \in [Threads -> Pcs] /\ call \in [Threads -> SystemCalls]
    /\ handle \in [Threads -> Numbers \cup {0}]
    /\ pointer \in [Threads -> Objects \cup {NoObject}]

(* The table never shows an object twice nor one that is gone, and an open *)
(* object is either in the table or on its way into it: no interleaving of *)
(* opens and closes leaks one (addIoHandle and removeIoHandle look the     *)
(* number up again under the lock).                                        *)
TableSound ==
    /\ TypeOK
    /\ \A m, n \in Opened : openedHandles[m] = openedHandles[n] => m = n
    /\ \A n \in Opened :
          \/ object[openedHandles[n]] = "open"
          \/ /\ object[openedHandles[n]] = "closed"
             /\ \E t \in Threads : pc[t] = "erase" /\ handle[t] = n
    /\ \A o \in Objects : object[o] = "open" =>
          \/ \E n \in Opened : openedHandles[n] = o
          \/ \E t \in Threads : pc[t] = "add" /\ pointer[t] = o

(* Two threads that close the same number do not both run close() and      *)
(* delete on the object: it goes from open to closed to freed, once.       *)
ClosedOnce ==
    [][\A o \in Objects :
          /\ object'[o] = "closed" /\ object[o] # "closed" => object[o] = "open"
          /\ object'[o] = "freed" /\ object[o] # "freed" => object[o] = "closed"
          /\ object[o] \in {"closed", "freed"} => object'[o] \in {"closed", "freed"}]_vars

(* CloseIOHandle looks its number up, and removeIoHandle looks it up again *)
(* under the lock.  What the second closes is what the first has found, or *)
(* that one has been closed and freed by another thread in between and the *)
(* number was given out again: an object that is still open never escapes  *)
(* the close that found it.                                                *)
ClosesWhatItFound ==
    \A t \in Threads :
        pc[t] \in {"closing", "erase"} /\ call[t] = "close" =>
            \/ openedHandles[handle[t]] = pointer[t]
            \/ object[pointer[t]] = "freed"
=============================================================================
