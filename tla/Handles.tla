------------------------------ MODULE Handles -------------------------------
(***************************************************************************)
(* Handle numbers of processes and threads (handles.cpp).  A caller of     *)
(* Clone spawns a host thread and converts its native id to a handle; the  *)
(* thread looks its handle up by id, and takes it out of the map when its  *)
(* program is over.  Every function holds the lock of handles.cpp for its  *)
(* whole body, but for the return expression of Convert_Native_Handle.     *)
(***************************************************************************)
EXTENDS Naturals, FiniteSets

CONSTANTS Callers,      \* threads that call Clone
          Ids,          \* native thread ids
          NoId,
          Width,        \* number of handle values, 2^16 in the code
          Steps,        \* what dis(gen) can yield, 1 .. 6 in the code
          MaxClones     \* bound: calls of Clone; the handles do not wrap

ASSUME HandlesAssumption ==
    /\ Width \in Nat /\ MaxClones \in Nat
    /\ \E m \in 1 .. Width : Steps \subseteq 1 .. m /\ MaxClones * m < Width - 1
    /\ NoId \notin Ids

VARIABLES
    Handles,                \* the keys of the map of native handles
    id2Handle, parentHandles, \* functions from the known ids
    Last_Handle,
    stage, born, parent,    \* a caller: its place, the new id, the process it
                            \* belongs to (Invalid_Handle: it is a process)
    alive,                  \* ids of threads that run or wait to run
    threads,                \* those of them that run threadStartPoint
    clones,                 \* calls of Clone so far
    left,                   \* history: ids that an ended process had
    registered, returned,   \* history: for an id, the handle that was inserted
                            \* for it and the one its creator was told
    raced                   \* history: ids whose creator was overtaken

handleVars == <<Handles, id2Handle, parentHandles, Last_Handle, stage, born, parent,
          alive, threads, clones, left, registered, returned, raced>>

Values == 0 .. Width - 1
Invalid_Handle == Width - 1

Known == DOMAIN id2Handle
(* std::map::insert leaves an entry that is there as it is. *)
Insert(f, i, h) == [j \in DOMAIN f \cup {i} |-> IF j \in DOMAIN f THEN f[j] ELSE h]
Erase(f, i) == [j \in DOMAIN f \ {i} |-> f[j]]

getTHandleById(i) == IF i \in Known THEN id2Handle[i] ELSE Invalid_Handle

HandlesInit ==
    /\ Handles = {}
    /\ id2Handle = [i \in {} |-> 0] /\ parentHandles = [i \in {} |-> 0]
    /\ Last_Handle = 0
    /\ stage = [c \in Callers |-> "idle"]
    /\ born = [c \in Callers |-> NoId]
    /\ parent = [c \in Callers |-> Invalid_Handle]
    /\ alive = {} /\ threads = {} /\ clones = 0 /\ left = {}
    /\ registered = [i \in Ids |-> Invalid_Handle]
    /\ returned = [i \in Ids |-> Invalid_Handle] /\ raced = {}

-----------------------------------------------------------------------------
(* cloneProcess passes Invalid_Handle as the parent, cloneThread the handle *)
(* of the process it runs in: one that an earlier clone registered.  The   *)
(* host may give the id of a thread that ended to a new one.               *)
Spawn(c) ==
    /\ stage[c] = "idle" /\ clones < MaxClones
    /\ \E i \in Ids \ alive :
          /\ born' = [born EXCEPT ![c] = i]
          /\ alive' = alive \cup {i}
    /\ clones' = clones + 1
    /\ \E p \in {Invalid_Handle} \cup {getTHandleById(i) : i \in alive} :
          parent' = [parent EXCEPT ![c] = p]
    /\ stage' = [stage EXCEPT ![c] = "convert"]
    /\ threads' = IF parent'[c] = Invalid_Handle THEN threads \ {born'[c]}
                                                  ELSE threads \cup {born'[c]}
    /\ UNCHANGED <<Handles, id2Handle, parentHandles, Last_Handle, left, registered,
                   returned, raced>>

(* The callers between their insert and their return: they are told what   *)
(* the next insert makes of Last_Handle.                                   *)
Raced(c) == (raced \ {born[c]}) \cup {born[d] : d \in {e \in Callers : stage[e] = "return"}}

(* Mutant of Convert_Native_Handle: only a thread of a process gets an    *)
(* entry for its id. *)
ConvertThreadsOnly(c) ==
    /\ stage[c] = "convert"
    /\ \E s \in Steps : Last_Handle' = (Last_Handle + s) % Width
    /\ Handles' = Handles \cup {Last_Handle'}
    /\ id2Handle' = IF parent[c] # Invalid_Handle
                    THEN Insert(id2Handle, born[c], Last_Handle') ELSE id2Handle
    /\ registered' = [registered EXCEPT ![born[c]] = Last_Handle']
    /\ raced' = Raced(c)
    /\ stage' = [stage EXCEPT ![c] = "return"]
    /\ UNCHANGED <<parentHandles, born, parent, alive, threads, clones, left, returned>>

Convert_Native_Handle(c) ==
    /\ stage[c] = "convert"
    /\ \E s \in Steps : Last_Handle' = (Last_Handle + s) % Width
    /\ Handles' = Handles \cup {Last_Handle'}
    /\ id2Handle' = Insert(id2Handle, born[c], Last_Handle')
    /\ parentHandles' = IF parent[c] # Invalid_Handle
                        THEN Insert(parentHandles, born[c], parent[c])
                        ELSE parentHandles
    /\ registered' = [registered EXCEPT ![born[c]] = Last_Handle']
    /\ raced' = Raced(c)
    /\ stage' = [stage EXCEPT ![c] = "return"]
    /\ UNCHANGED <<born, parent, alive, threads, clones, left, returned>>

(* return Last_Handle, after lock->unlock() *)
ConvertReturn(c) ==
    /\ stage[c] = "return"
    /\ returned' = [returned EXCEPT ![born[c]] = Last_Handle]
    /\ born' = [born EXCEPT ![c] = NoId]
    /\ stage' = [stage EXCEPT ![c] = "idle"]
    /\ UNCHANGED <<Handles, id2Handle, parentHandles, Last_Handle, parent, alive,
                   threads, clones, left, registered, raced>>

(* A thread runs once its creator has left Clone. *)
Running == alive \ {born[c] : c \in Callers}

(* The end of processStartPoint: getTHandleById, Remove_Handle *)
ProcessEnds(i) ==
    /\ i \in Running \ threads
    /\ Handles' = Handles \ {getTHandleById(i)}
    /\ alive' = alive \ {i}
    /\ left' = left \cup {i}
    /\ UNCHANGED <<id2Handle, parentHandles, Last_Handle, stage, born, parent, threads,
                   clones, registered, returned, raced>>

(* Mutant of ThreadEnds: the handle of the parent is taken out. *)
ThreadEndsParent(i) ==
    /\ i \in Running \cap threads /\ i \in DOMAIN parentHandles
    /\ Handles' = Handles \ {parentHandles[i]}
    /\ id2Handle' = Erase(id2Handle, i)
    /\ alive' = alive \ {i}
    /\ UNCHANGED <<parentHandles, Last_Handle, stage, born, parent, threads,
                   clones, left, registered, returned, raced>>

(* The end of threadStartPoint: removeHandleById *)
ThreadEnds(i) ==
    /\ i \in Running \cap threads
    /\ Handles' = Handles \ {getTHandleById(i)}
    /\ id2Handle' = Erase(id2Handle, i)
    /\ alive' = alive \ {i}
    /\ UNCHANGED <<parentHandles, Last_Handle, stage, born, parent, threads,
                   clones, left, registered, returned, raced>>

HandlesNext ==
    \/ \E c \in Callers : Spawn(c) \/ Convert_Native_Handle(c) \/ ConvertReturn(c)
    \/ \E i \in Ids : ProcessEnds(i) \/ ThreadEnds(i)

HandlesSpec == HandlesInit /\ [][HandlesNext]_handleVars

-----------------------------------------------------------------------------
(* Properties *)

HandlesTypeOK ==
    /\ Handles \subseteq Values /\ Last_Handle \in Values
    /\ Known \subseteq Ids /\ id2Handle \in [Known -> Values]
    /\ DOMAIN parentHandles \subseteq Ids
    /\ parentHandles \in [DOMAIN parentHandles -> Values]
    /\ stage \in [Callers -> {"idle", "convert", "return"}]
    /\ born \in [Callers -> Ids \cup {NoId}] /\ parent \in [Callers -> Values]
    /\ alive \subseteq Ids /\ threads \subseteq Ids /\ left \subseteq Ids
    /\ clones \in 0 .. MaxClones
    /\ registered \in [Ids -> Values] /\ returned \in [Ids -> Values]
    /\ raced \subseteq Ids

(* Threads that exist and that Convert_Native_Handle is through with. *)
Converted == alive \ {born[c] : c \in {d \in Callers : stage[d] = "convert"}}

(* While a thread lives nobody takes its handle out of the map, so that    *)
(* Wait_For can resolve it, and "returns new OS THandle" (handles.h): two  *)
(* live threads never share one.  Who calls Clone is told that handle,     *)
(* unless another Clone inserted its own between the unlock of             *)
(* Convert_Native_Handle and its return expression, which reads            *)
(* Last_Handle again.                                                      *)
LiveHandles ==
    /\ HandlesTypeOK
    /\ \A i \in Converted : registered[i] \in Handles
    /\ \A i, j \in Converted : registered[i] = registered[j] => i = j
    /\ \A i \in Running : returned[i] = registered[i] \/ i \in raced

(* "converts the native thread handle to OS THandle" (handles.h): a thread *)
(* that looks itself up finds the handle that was inserted for it, also if *)
(* its id is that of a thread that ended.  The exception is the id of an   *)
(* ended process: Remove_Handle leaves its entry behind, and the insert of *)
(* a later Clone does not replace it.                                      *)
FindsItself == \A i \in Converted \ left : getTHandleById(i) = registered[i]
=============================================================================
