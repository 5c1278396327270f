----------------------------- MODULE HandleProofs ------------------------------
(***************************************************************************)
(* What holds of the two tables of handles, the IO handles (IoHandles) and *)
(* the handles of native threads (Handles).                                *)
(*                                                                         *)
(* For any number of threads and objects the table of IO handles is sound, *)
(* every object is closed and freed once, and a close closes what it found. *)
(* The table has room whenever somebody opens something, because the       *)
(* object is not in it yet.                                                *)
(*                                                                         *)
(* For any number of callers, native ids and clones, as long as the        *)
(* numbers do not wrap, the handles of live threads can be resolved, are   *)
(* distinct, are found by their threads, and are what the creators were    *)
(* told.                                                                   *)
(***************************************************************************)
EXTENDS IoHandles, Handles, FiniteSetTheorems, WellFoundedInduction, TLAPS

(* The parts of TableSound *)
Distinct == \A m, n \in Opened : openedHandles[m] = openedHandles[n] => m = n
Listed   == \A n \in Opened :
               \/ object[openedHandles[n]] = "open"
               \/ /\ object[openedHandles[n]] = "closed"
                  /\ \E t \in Threads : pc[t] = "erase" /\ handle[t] = n
NotLost  == \A o \in Objects : object[o] = "open" =>
               \/ \E n \in Opened : openedHandles[n] = o
               \/ \E t \in Threads : pc[t] = "add" /\ pointer[t] = o

(* A thread on its way to addIoHandle has an open object of its own that   *)
(* is not in the table.                                                    *)
Adding ==
    /\ \A t \in Threads : pc[t] = "add" =>
          /\ pointer[t] \in Objects /\ object[pointer[t]] = "open"
          /\ \A n \in Opened : openedHandles[n] # pointer[t]
    /\ \A s, t \in Threads : pc[s] = "add" /\ pc[t] = "add" /\ pointer[s] = pointer[t]
          => s = t

(* A thread inside removeIoHandle has the lock and an entry, whose object  *)
(* it has or has not closed yet.                                           *)
Removing ==
    \A t \in Threads :
        /\ pc[t] \in {"closing", "erase"} => ioHandleLock = t /\ handle[t] \in Opened
        /\ pc[t] = "closing" => object[openedHandles[handle[t]]] = "open"
        /\ pc[t] = "erase" => object[openedHandles[handle[t]]] = "closed"

TableInv == TypeOK /\ Distinct /\ Listed /\ NotLost /\ Adding /\ Removing

LEMMA SoundTable == TableInv => TableSound
  BY DEF TableInv, TableSound, Distinct, Listed, NotLost

-----------------------------------------------------------------------------
(* The entries are an injection into the objects but one. *)
LEMMA Room ==
    ASSUME TypeOK, Distinct, NEW o \in Objects,
           \A n \in Opened : openedHandles[n] # o
    PROVE  Numbers \ Opened # {}
<1> DEFINE rest == Objects \ {o}
<1>1. /\ IsFiniteSet(Objects) /\ Cardinality(Objects) \in Nat
      /\ IsFiniteSet(rest) /\ Cardinality(rest) = Cardinality(Objects) - 1
  BY IoAssumption, FS_CardinalityType, FS_RemoveElement
<1>2. openedHandles \in Injection(Opened, rest)
  <2>1. openedHandles \in [Opened -> rest]
    BY DEF TypeOK
  <2>2. \A m, n \in Opened : openedHandles[m] = openedHandles[n] => m = n
    BY DEF Distinct
  <2> QED
    BY <2>1, <2>2 DEF Injection, IsInjective
<1>3. Cardinality(Opened) <= Cardinality(Objects) - 1 /\ IsFiniteSet(Opened)
  BY <1>1, <1>2, FS_Injection
<1>4. Cardinality(Numbers) = Cardinality(Objects)
  <2>1. Cardinality(Objects) # 0
    BY <1>1, FS_EmptySet
  <2> QED
    BY <1>1, <2>1, FS_Interval DEF Numbers
<1>5. Opened # Numbers
  BY <1>1, <1>3, <1>4, FS_CardinalityType
<1> QED
  BY <1>5 DEF TypeOK

(* The loop of addIoHandle finds a number that is free. *)
LEMMA FirstFreeIsFree ==
    ASSUME TypeOK, Numbers \ Opened # {}
    PROVE  FirstFree \in Numbers /\ FirstFree \notin Opened
<1>1. Cardinality(Objects) \in Nat
  BY IoAssumption, FS_CardinalityType
<1>2. PICK n \in Numbers \ Opened : \A m \in Numbers \ Opened : n <= m
  <2>1. Numbers \ Opened \subseteq Nat
    BY <1>1 DEF Numbers
  <2>2. \E n \in Numbers \ Opened :
           \A m \in Numbers \ Opened : ~(<<m, n>> \in OpToRel(<, Nat))
    BY <2>1, NatLessThanWellFounded, WFMin
  <2>3. ASSUME NEW m \in Nat, NEW n \in Nat, ~(<<m, n>> \in OpToRel(<, Nat))
        PROVE  n <= m
    BY <2>3 DEF OpToRel
  <2> QED
    BY <2>1, <2>2, <2>3
<1>3. 0 .. n - 1 \subseteq Opened
  BY <1>1, <1>2 DEF Numbers
<1> QED
  BY <1>2, <1>3 DEF FirstFree

LEMMA AddRoom ==
    ASSUME TableInv, NEW t \in Threads, pc[t] = "add"
    PROVE  FirstFree \in Numbers /\ FirstFree \notin Opened
<1>1. pointer[t] \in Objects /\ \A n \in Opened : openedHandles[n] # pointer[t]
  BY DEF TableInv, Adding
<1> QED
  BY <1>1, Room, FirstFreeIsFree DEF TableInv

-----------------------------------------------------------------------------
LEMMA TableStart == Init => TableInv
<1> SUFFICES ASSUME Init PROVE TableInv
  OBVIOUS
<1> USE DEF Init
<1>1. Opened = {}
  BY DEF Opened
<1>2. TypeOK
  BY <1>1 DEF TypeOK, Pcs, SystemCalls
<1>3. Distinct /\ Listed /\ NotLost /\ Adding /\ Removing
  BY <1>1 DEF Distinct, Listed, NotLost, Adding, Removing
<1> QED
  BY <1>2, <1>3 DEF TableInv

-----------------------------------------------------------------------------
(* What the three steps that change the table or an object do, for the     *)
(* objects and numbers of the invariant *)
LEMMA Added ==
    ASSUME TableInv, NEW t \in Threads, addIoHandle(t)
    PROVE  /\ Opened' = Opened \cup {FirstFree}
           /\ FirstFree \in Numbers /\ FirstFree \notin Opened
           /\ openedHandles'[FirstFree] = pointer[t]
           /\ \A n \in Opened : openedHandles'[n] = openedHandles[n]
           /\ openedHandles' \in [Opened' -> Objects]
           /\ pointer[t] \in Objects /\ object[pointer[t]] = "open"
           /\ \A n \in Opened : openedHandles[n] # pointer[t]
           /\ pc[t] = "add" /\ pc' = [pc EXCEPT ![t] = "idle"]
           /\ handle' = [handle EXCEPT ![t] = FirstFree]
           /\ UNCHANGED <<ioHandleLock, object, call, pointer>>
<1>1. pc[t] = "add" /\ pc' = [pc EXCEPT ![t] = "idle"]
      /\ handle' = [handle EXCEPT ![t] = FirstFree]
      /\ UNCHANGED <<ioHandleLock, object, call, pointer>>
      /\ openedHandles' = [n \in Opened \cup {FirstFree} |->
                              IF n \in Opened THEN openedHandles[n] ELSE pointer[t]]
  BY DEF addIoHandle, Return, Goto
<1>2. FirstFree \in Numbers /\ FirstFree \notin Opened
  BY <1>1, AddRoom
<1>3. /\ pointer[t] \in Objects /\ object[pointer[t]] = "open"
      /\ \A n \in Opened : openedHandles[n] # pointer[t]
  BY <1>1 DEF TableInv, Adding
<1>4. Opened' = Opened \cup {FirstFree}
  BY <1>1 DEF Opened
<1>5. openedHandles'[FirstFree] = pointer[t]
  BY <1>1, <1>2
<1>6. \A n \in Opened : openedHandles'[n] = openedHandles[n]
  BY <1>1
<1>7. openedHandles' \in [Opened' -> Objects]
  BY <1>1, <1>3, <1>4 DEF TableInv, TypeOK
<1> QED
  BY <1>1, <1>2, <1>3, <1>4, <1>5, <1>6, <1>7

LEMMA ObjectClosed ==
    ASSUME TableInv, NEW t \in Threads, CloseObject(t)
    PROVE  /\ handle[t] \in Opened /\ openedHandles[handle[t]] \in Objects
           /\ object[openedHandles[handle[t]]] = "open" /\ ioHandleLock = t
           /\ object'[openedHandles[handle[t]]] = "closed"
           /\ \A o \in Objects : o # openedHandles[handle[t]] => object'[o] = object[o]
           /\ object' \in [Objects -> {"new", "open", "closed", "freed"}]
           /\ Opened' = Opened
           /\ pc[t] = "closing" /\ pc' = [pc EXCEPT ![t] = "erase"]
           /\ UNCHANGED <<openedHandles, ioHandleLock, call, handle, pointer>>
  BY DEF CloseObject, Goto, TableInv, TypeOK, Removing, Opened

LEMMA Erased ==
    ASSUME TableInv, NEW t \in Threads, EraseHandle(t)
    PROVE  /\ handle[t] \in Opened /\ openedHandles[handle[t]] \in Objects
           /\ object[openedHandles[handle[t]]] = "closed" /\ ioHandleLock = t
           /\ object'[openedHandles[handle[t]]] = "freed"
           /\ \A o \in Objects : o # openedHandles[handle[t]] => object'[o] = object[o]
           /\ object' \in [Objects -> {"new", "open", "closed", "freed"}]
           /\ Opened' = Opened \ {handle[t]}
           /\ \A n \in Opened' : openedHandles'[n] = openedHandles[n]
           /\ openedHandles' \in [Opened' -> Objects]
           /\ pc[t] = "erase" /\ pc' = [pc EXCEPT ![t] = "idle"]
           /\ ioHandleLock' = NoThread
           /\ UNCHANGED <<call, handle, pointer>>
  BY DEF EraseHandle, Return, Goto, TableInv, TypeOK, Removing, Opened

-----------------------------------------------------------------------------
(* Each part of TableInv is preserved by every step of a thread. *)
LEMMA TypeOKStep ==
    ASSUME TableInv, NEW t \in Threads, SystemCall(t) \/ Step(t)
    PROVE  TypeOK'
<1> USE IoAssumption DEF TableInv, TypeOK
<1>1. CASE OpenIOHandle(t)
  BY <1>1 DEF OpenIOHandle, Enter, Goto, Opened, Pcs, SystemCalls
<1>2. CASE addIoHandle(t)
  BY <1>2, Added DEF Pcs, SystemCalls
<1>3. CASE UseIOHandle(t)
  BY <1>3 DEF UseIOHandle, Enter, Goto, Opened, Pcs, SystemCalls
<1>4. CASE CloseIOHandle(t)
  BY <1>4 DEF CloseIOHandle, Enter, Goto, Opened, Pcs, SystemCalls
<1>5. CASE getIoHandle(t)
  BY <1>5 DEF getIoHandle, Return, Goto, LockFree, Opened, Pcs, SystemCalls
<1>6. CASE DoneUsing(t)
  BY <1>6 DEF DoneUsing, Return, Goto, Opened, Pcs, SystemCalls
<1>7. CASE removeAllIoHandles(t)
  BY <1>7 DEF removeAllIoHandles, Enter, Goto, Opened, Pcs, SystemCalls
<1>8. CASE RemoveLock(t)
  BY <1>8 DEF RemoveLock, Victims, Return, Goto, LockFree, Opened, Pcs, SystemCalls
<1>9. CASE CloseObject(t)
  BY <1>9, ObjectClosed DEF Pcs, SystemCalls
<1>10. CASE EraseHandle(t)
  BY <1>10, Erased DEF Pcs, SystemCalls
<1> QED
  BY <1>1, <1>2, <1>3, <1>4, <1>5, <1>6, <1>7, <1>8, <1>9, <1>10 DEF SystemCall, Step

(* Only addIoHandle makes an entry, of an object that had none. *)
LEMMA DistinctStep ==
    ASSUME TableInv, NEW t \in Threads, SystemCall(t) \/ Step(t)
    PROVE  Distinct'
<1> USE IoAssumption DEF TableInv, TypeOK, Distinct
<1>1. CASE OpenIOHandle(t)
  BY <1>1 DEF OpenIOHandle, Enter, Goto, Opened
<1>2. CASE addIoHandle(t)
  BY <1>2, Added
<1>3. CASE UseIOHandle(t)
  BY <1>3 DEF UseIOHandle, Enter, Goto, Opened
<1>4. CASE CloseIOHandle(t)
  BY <1>4 DEF CloseIOHandle, Enter, Goto, Opened
<1>5. CASE getIoHandle(t)
  BY <1>5 DEF getIoHandle, Return, Goto, LockFree, Opened
<1>6. CASE DoneUsing(t)
  BY <1>6 DEF DoneUsing, Return, Goto, Opened
<1>7. CASE removeAllIoHandles(t)
  BY <1>7 DEF removeAllIoHandles, Enter, Goto, Opened
<1>8. CASE RemoveLock(t)
  BY <1>8 DEF RemoveLock, Victims, Return, Goto, LockFree, Opened
<1>9. CASE CloseObject(t)
  BY <1>9, ObjectClosed
<1>10. CASE EraseHandle(t)
  BY <1>10, Erased
<1> QED
  BY <1>1, <1>2, <1>3, <1>4, <1>5, <1>6, <1>7, <1>8, <1>9, <1>10 DEF SystemCall, Step

(* Objects of the table change only under the lock. *)
LEMMA ListedStep ==
    ASSUME TableInv, NEW t \in Threads, SystemCall(t) \/ Step(t)
    PROVE  Listed'
<1> USE IoAssumption DEF TableInv, TypeOK, Listed
<1>1. CASE OpenIOHandle(t)
  BY <1>1 DEF OpenIOHandle, Enter, Goto, Opened
<1>2. CASE addIoHandle(t)
  BY <1>2, Added
<1>3. CASE UseIOHandle(t)
  BY <1>3 DEF UseIOHandle, Enter, Goto, Opened
<1>4. CASE CloseIOHandle(t)
  BY <1>4 DEF CloseIOHandle, Enter, Goto, Opened
<1>5. CASE getIoHandle(t)
  BY <1>5 DEF getIoHandle, Return, Goto, LockFree, Opened
<1>6. CASE DoneUsing(t)
  BY <1>6 DEF DoneUsing, Return, Goto, Opened
<1>7. CASE removeAllIoHandles(t)
  BY <1>7 DEF removeAllIoHandles, Enter, Goto, Opened
<1>8. CASE RemoveLock(t)
  BY <1>8 DEF RemoveLock, Victims, Return, Goto, LockFree, Opened
<1>9. CASE CloseObject(t)
  <2>1. SUFFICES ASSUME NEW n \in Opened
                 PROVE  \/ object'[openedHandles[n]] = "open"
                        \/ /\ object'[openedHandles[n]] = "closed"
                           /\ \E s \in Threads : pc'[s] = "erase" /\ handle'[s] = n
    BY <1>9, ObjectClosed DEF Listed
  <2>2. CASE n = handle[t]
    <3>1. pc'[t] = "erase" /\ handle'[t] = n
      BY <1>9, <2>2, ObjectClosed
    <3> QED
      BY <1>9, <2>2, <3>1, ObjectClosed
  <2>3. CASE n # handle[t]
    <3>1. /\ openedHandles[n] \in Objects
          /\ object'[openedHandles[n]] = object[openedHandles[n]]
      BY <1>9, <2>3, ObjectClosed DEF Distinct
    <3>2. ASSUME NEW s \in Threads, pc[s] = "erase", handle[s] = n
          PROVE  pc'[s] = "erase" /\ handle'[s] = n
      BY <1>9, <3>2, ObjectClosed
    <3> QED
      BY <3>1, <3>2
  <2> QED
    BY <2>2, <2>3
<1>10. CASE EraseHandle(t)
  <2>1. SUFFICES ASSUME NEW n \in Opened'
                 PROVE  \/ object'[openedHandles'[n]] = "open"
                        \/ /\ object'[openedHandles'[n]] = "closed"
                           /\ \E s \in Threads : pc'[s] = "erase" /\ handle'[s] = n
    BY DEF Listed
  <2>2. /\ n \in Opened /\ n # handle[t] /\ openedHandles'[n] = openedHandles[n]
        /\ openedHandles[n] \in Objects
        /\ object'[openedHandles[n]] = object[openedHandles[n]]
    BY <1>10, <2>1, Erased DEF Distinct
  <2>3. ASSUME NEW s \in Threads, pc[s] = "erase", handle[s] = n
        PROVE  pc'[s] = "erase" /\ handle'[s] = n
    BY <1>10, <2>2, <2>3, Erased
  <2> QED
    BY <2>2, <2>3
<1> QED
  BY <1>1, <1>2, <1>3, <1>4, <1>5, <1>6, <1>7, <1>8, <1>9, <1>10 DEF SystemCall, Step

(* An open object leaves the way into the table only when it is in it. *)
LEMMA NotLostStep ==
    ASSUME TableInv, NEW t \in Threads, SystemCall(t) \/ Step(t)
    PROVE  NotLost'
<1> USE IoAssumption DEF TableInv, TypeOK, NotLost
<1>1. CASE OpenIOHandle(t)
  BY <1>1 DEF OpenIOHandle, Enter, Goto, Opened
<1>2. CASE addIoHandle(t)
  BY <1>2, Added
<1>3. CASE UseIOHandle(t)
  BY <1>3 DEF UseIOHandle, Enter, Goto, Opened
<1>4. CASE CloseIOHandle(t)
  BY <1>4 DEF CloseIOHandle, Enter, Goto, Opened
<1>5. CASE getIoHandle(t)
  BY <1>5 DEF getIoHandle, Return, Goto, LockFree, Opened
<1>6. CASE DoneUsing(t)
  BY <1>6 DEF DoneUsing, Return, Goto, Opened
<1>7. CASE removeAllIoHandles(t)
  BY <1>7 DEF removeAllIoHandles, Enter, Goto, Opened
<1>8. CASE RemoveLock(t)
  BY <1>8 DEF RemoveLock, Victims, Return, Goto, LockFree, Opened
<1>9. CASE CloseObject(t)
  BY <1>9, ObjectClosed
<1>10. CASE EraseHandle(t)
  BY <1>10, Erased
<1> QED
  BY <1>1, <1>2, <1>3, <1>4, <1>5, <1>6, <1>7, <1>8, <1>9, <1>10 DEF SystemCall, Step

(* A new object is nobody else's. *)
LEMMA AddingStep ==
    ASSUME TableInv, NEW t \in Threads, SystemCall(t) \/ Step(t)
    PROVE  Adding'
<1> USE IoAssumption DEF TableInv, TypeOK, Adding
<1>1. CASE OpenIOHandle(t)
  <2>1. PICK o \in Objects : /\ object[o] = "new"
                             /\ object' = [object EXCEPT ![o] = "open"]
                             /\ pointer' = [pointer EXCEPT ![t] = o]
    BY <1>1 DEF OpenIOHandle
  <2>2. /\ pc[t] = "idle" /\ pc' = [pc EXCEPT ![t] = "add"]
        /\ openedHandles' = openedHandles /\ Opened' = Opened
    BY <1>1 DEF OpenIOHandle, Enter, Goto, Opened
  <2>3. \A n \in Opened : openedHandles[n] \in Objects /\ openedHandles[n] # o
    BY <2>1 DEF Listed
  <2>4. \A s \in Threads : pc[s] = "add" => pointer[s] # o
    BY <2>1
  <2> QED
    BY <2>1, <2>2, <2>3, <2>4
<1>2. CASE addIoHandle(t)
  BY <1>2, Added
<1>3. CASE UseIOHandle(t)
  BY <1>3 DEF UseIOHandle, Enter, Goto, Opened
<1>4. CASE CloseIOHandle(t)
  BY <1>4 DEF CloseIOHandle, Enter, Goto, Opened
<1>5. CASE getIoHandle(t)
  BY <1>5 DEF getIoHandle, Return, Goto, LockFree, Opened
<1>6. CASE DoneUsing(t)
  BY <1>6 DEF DoneUsing, Return, Goto, Opened
<1>7. CASE removeAllIoHandles(t)
  BY <1>7 DEF removeAllIoHandles, Enter, Goto, Opened
<1>8. CASE RemoveLock(t)
  BY <1>8 DEF RemoveLock, Victims, Return, Goto, LockFree, Opened
<1>9. CASE CloseObject(t)
  BY <1>9, ObjectClosed
<1>10. CASE EraseHandle(t)
  BY <1>10, Erased
<1> QED
  BY <1>1, <1>2, <1>3, <1>4, <1>5, <1>6, <1>7, <1>8, <1>9, <1>10 DEF SystemCall, Step

(* The lock keeps everybody else away from the entry that is closed. *)
LEMMA RemovingStep ==
    ASSUME TableInv, NEW t \in Threads, SystemCall(t) \/ Step(t)
    PROVE  Removing'
<1> USE IoAssumption DEF TableInv, TypeOK, Removing
<1>1. CASE OpenIOHandle(t)
  BY <1>1 DEF OpenIOHandle, Enter, Goto, Opened
<1>2. CASE addIoHandle(t)
  BY <1>2, Added
<1>3. CASE UseIOHandle(t)
  BY <1>3 DEF UseIOHandle, Enter, Goto, Opened
<1>4. CASE CloseIOHandle(t)
  BY <1>4 DEF CloseIOHandle, Enter, Goto, Opened
<1>5. CASE getIoHandle(t)
  BY <1>5 DEF getIoHandle, Return, Goto, LockFree, Opened
<1>6. CASE DoneUsing(t)
  BY <1>6 DEF DoneUsing, Return, Goto, Opened
<1>7. CASE removeAllIoHandles(t)
  BY <1>7 DEF removeAllIoHandles, Enter, Goto, Opened
<1>8. CASE RemoveLock(t)
  <2>1. CASE Victims(t) = {} /\ Return(t) /\ UNCHANGED <<ioHandleLock, handle>>
    BY <1>8, <2>1 DEF RemoveLock, Return, Goto, Opened
  <2>2. ASSUME NEW n \in Victims(t), ioHandleLock' = t,
               handle' = [handle EXCEPT ![t] = n], Goto(t, "closing")
        PROVE  Removing'
    <3>1. /\ n \in Opened /\ ioHandleLock = NoThread
          /\ UNCHANGED <<openedHandles, object>> /\ Opened' = Opened
      BY <1>8, <2>2 DEF RemoveLock, Victims, LockFree, Opened
    <3>2. \A s \in Threads : pc[s] \notin {"closing", "erase"}
      BY <3>1
    <3>3. object[openedHandles[n]] = "open"
      BY <3>1, <3>2 DEF Listed
    <3>4. pc' = [pc EXCEPT ![t] = "closing"]
      BY <2>2 DEF Goto
    <3> QED
      BY <2>2, <3>1, <3>2, <3>3, <3>4
  <2> QED
    BY <1>8, <2>1, <2>2 DEF RemoveLock
<1>9. CASE CloseObject(t)
  BY <1>9, ObjectClosed
<1>10. CASE EraseHandle(t)
  BY <1>10, Erased
<1> QED
  BY <1>1, <1>2, <1>3, <1>4, <1>5, <1>6, <1>7, <1>8, <1>9, <1>10 DEF SystemCall, Step

-----------------------------------------------------------------------------
THEOREM TableAlways == Spec => []TableInv
<1>1. TableInv /\ [Next]_vars => TableInv'
  <2> SUFFICES ASSUME TableInv, [Next]_vars PROVE TableInv'
    OBVIOUS
  <2>1. CASE UNCHANGED vars
    BY <2>1 DEF vars, TableInv, TypeOK, Distinct, Listed, NotLost, Adding, Removing, Opened
  <2>2. ASSUME NEW t \in Threads, SystemCall(t) \/ Step(t) PROVE TableInv'
    <3>1. TypeOK' /\ Distinct' /\ Listed' /\ NotLost' /\ Adding' /\ Removing'
      BY <2>2, TypeOKStep, DistinctStep, ListedStep, NotLostStep, AddingStep, RemovingStep
    <3> QED
      BY <3>1 DEF TableInv
  <2> QED
    BY <2>1, <2>2 DEF Next
<1> QED
  BY <1>1, TableStart, PTL DEF Spec

(* Every number of the table leads to an object of its own, which is open  *)
(* or just being closed by a thread that has the lock, and no open object  *)
(* is lost.                                                                *)
THEOREM TableSoundHolds == Spec => []TableSound
  BY TableAlways, SoundTable, PTL

(* Two threads that close the same number do not both close and delete the *)
(* object.                                                                 *)
THEOREM ClosedOnceHolds == Spec => ClosedOnce
<1> DEFINE Once ==
      \A o \in Objects :
          /\ object'[o] = "closed" /\ object[o] # "closed" => object[o] = "open"
          /\ object'[o] = "freed" /\ object[o] # "freed" => object[o] = "closed"
          /\ object[o] \in {"closed", "freed"} => object'[o] \in {"closed", "freed"}
<1>1. ASSUME TableInv, [Next]_vars PROVE [Once]_vars
  <2>1. CASE UNCHANGED vars
    BY <2>1 DEF vars
  <2>2. ASSUME NEW t \in Threads, SystemCall(t) \/ Step(t) PROVE Once
    <3>1. CASE OpenIOHandle(t)
      BY <1>1, <3>1 DEF OpenIOHandle, TableInv, TypeOK
    <3>2. CASE CloseObject(t)
      BY <1>1, <3>2, ObjectClosed
    <3>3. CASE EraseHandle(t)
      BY <1>1, <3>3, Erased
    <3>4. CASE UNCHANGED object
      BY <3>4
    <3> QED
      BY <2>2, <3>1, <3>2, <3>3, <3>4 DEF SystemCall, Step, addIoHandle, UseIOHandle,
         CloseIOHandle, getIoHandle, DoneUsing, removeAllIoHandles, RemoveLock
  <2> QED
    BY <1>1, <2>1, <2>2 DEF Next
<1> QED
  BY <1>1, TableAlways, PTL DEF Spec, ClosedOnce

-----------------------------------------------------------------------------
(* What CloseIOHandle has found is in the table under its number until it  *)
(* is freed.                                                               *)
Found ==
    \A t \in Threads :
        pc[t] \in {"remove", "closing", "erase"} /\ call[t] = "close" =>
            /\ pointer[t] \in Objects
            /\ \/ object[pointer[t]] = "freed"
               \/ handle[t] \in Opened /\ openedHandles[handle[t]] = pointer[t]

LEMMA FoundStep ==
    ASSUME TableInv, Found, NEW t \in Threads, SystemCall(t) \/ Step(t)
    PROVE  Found'
<1> USE DEF TableInv, TypeOK
<1>1. CASE OpenIOHandle(t)
  BY <1>1 DEF OpenIOHandle, Enter, Goto, Found, Opened
<1>2. CASE UseIOHandle(t) \/ CloseIOHandle(t) \/ removeAllIoHandles(t)
  BY <1>2 DEF UseIOHandle, CloseIOHandle, removeAllIoHandles, Enter, Goto, Found, Opened
<1>3. CASE addIoHandle(t)
  <2> SUFFICES ASSUME NEW r \in Threads, pc'[r] \in {"remove", "closing", "erase"},
                      call'[r] = "close"
               PROVE  /\ pointer'[r] \in Objects
                      /\ \/ object'[pointer'[r]] = "freed"
                         \/ /\ handle'[r] \in Opened'
                            /\ openedHandles'[handle'[r]] = pointer'[r]
    BY DEF Found
  <2>1. r # t /\ pc[r] = pc'[r] /\ call[r] = "close" /\ handle'[r] = handle[r]
    BY <1>3, Added
  <2> QED
    BY <1>3, <2>1, Added DEF Found
<1>4. CASE getIoHandle(t)
  BY <1>4 DEF getIoHandle, Goto, Return, Found, Opened
<1>5. CASE DoneUsing(t)
  BY <1>5 DEF DoneUsing, Goto, Return, Found, Opened
<1>6. CASE RemoveLock(t)
  BY <1>6 DEF RemoveLock, Victims, Goto, Return, Found, Opened
<1>7. CASE CloseObject(t)
  <2> DEFINE o == openedHandles[handle[t]]
  <2>1. /\ object[o] = "open" /\ \A p \in Objects : p # o => object'[p] = object[p]
        /\ Opened' = Opened /\ UNCHANGED <<openedHandles, call, handle, pointer>>
        /\ pc[t] = "closing" /\ pc' = [pc EXCEPT ![t] = "erase"]
    BY <1>7, ObjectClosed
  <2> QED
    BY <2>1 DEF Found
<1>8. CASE EraseHandle(t)
  <2> DEFINE o == openedHandles[handle[t]]
  <2>1. /\ object'[o] = "freed" /\ \A p \in Objects : p # o => object'[p] = object[p]
        /\ Opened' = Opened \ {handle[t]} /\ UNCHANGED <<call, handle, pointer>>
        /\ \A n \in Opened' : openedHandles'[n] = openedHandles[n]
        /\ pc[t] = "erase" /\ pc' = [pc EXCEPT ![t] = "idle"]
    BY <1>8, Erased
  <2> QED
    BY <2>1 DEF Found
<1> QED
  BY <1>1, <1>2, <1>3, <1>4, <1>5, <1>6, <1>7, <1>8 DEF SystemCall, Step

(* What a close closes is what its first lookup found, unless that was     *)
(* closed and freed by another thread since.                               *)
THEOREM ClosesWhatItFoundHolds == Spec => []ClosesWhatItFound
<1>1. Init => Found
  BY DEF Init, Found
<1>2. TableInv /\ Found /\ [Next]_vars => (TableInv /\ Found)'
  <2> SUFFICES ASSUME TableInv, Found, [Next]_vars PROVE TableInv' /\ Found'
    OBVIOUS
  <2>1. CASE UNCHANGED vars
    <3>1. TableInv'
      BY <2>1 DEF vars, TableInv, TypeOK, Distinct, Listed, NotLost, Adding, Removing, Opened
    <3> QED
      BY <2>1, <3>1 DEF vars, Found, Opened
  <2>2. ASSUME NEW t \in Threads, SystemCall(t) \/ Step(t) PROVE TableInv' /\ Found'
    <3>1. TypeOK' /\ Distinct' /\ Listed' /\ NotLost' /\ Adding' /\ Removing'
      BY <2>2, TypeOKStep, DistinctStep, ListedStep, NotLostStep, AddingStep, RemovingStep
    <3> QED
      BY <2>2, <3>1, FoundStep DEF TableInv
  <2> QED
    BY <2>1, <2>2 DEF Next
<1>3. Found => ClosesWhatItFound
  BY DEF Found, ClosesWhatItFound
<1> QED
  BY <1>1, <1>2, <1>3, TableStart, PTL DEF Spec

-----------------------------------------------------------------------------
(* The handles of native threads *)

(* The longest step *)
MaxStep == CHOOSE m \in 1 .. Width : Steps \subseteq 1 .. m /\ MaxClones * m < Width - 1

Converting == {c \in Callers : stage[c] = "convert"}

(* A caller inside Clone has an id of its own that lives. *)
OwnId ==
    /\ \A c \in Callers : stage[c] = "idle" => born[c] = NoId
    /\ \A c \in Callers : stage[c] # "idle" => born[c] \in alive
    /\ \A c, d \in Callers : stage[c] # "idle" /\ born[c] = born[d] => c = d

(* Each clone has moved Last_Handle by MaxStep at most, or has yet to do   *)
(* so.                                                                     *)
NoWrap ==
    /\ IsFiniteSet(Converting)
    /\ Cardinality(Converting) <= clones
    /\ Last_Handle <= MaxStep * (clones - Cardinality(Converting))

(* Nothing is as new as the next handle. *)
Old == /\ \A i \in Known : id2Handle[i] <= Last_Handle
       /\ \A i \in Converted : registered[i] <= Last_Handle

(* The map never leads from an id to the handle of another live thread,    *)
(* also if it is out of date.                                              *)
Apart == \A i \in Known : \A j \in Converted : i # j => id2Handle[i] # registered[j]

(* The entry of a live thread is right, unless an ended process had the    *)
(* id; there is no entry of a thread to come.                              *)
Entries ==
    /\ \A i \in Converted \ left : i \in Known /\ id2Handle[i] = registered[i]
    /\ Known \subseteq Converted \cup left

Resolvable == \A i \in Converted : registered[i] \in Handles
DistinctHandles == \A i, j \in Converted : registered[i] = registered[j] => i = j
Told == /\ \A i \in Running : returned[i] = registered[i] \/ i \in raced
        /\ \A c \in Callers : stage[c] = "return" =>
              registered[born[c]] = Last_Handle \/ born[c] \in raced

HandlesInv == /\ HandlesTypeOK /\ OwnId /\ NoWrap /\ Old /\ Apart /\ Entries
        /\ Resolvable /\ DistinctHandles /\ Told

-----------------------------------------------------------------------------
LEMMA MaxStepFacts ==
    /\ Width \in Nat /\ MaxClones \in Nat /\ MaxStep \in Nat
    /\ MaxStep \in 1 .. Width
    /\ \A s \in Steps : s \in Nat /\ 1 <= s /\ s <= MaxStep
    /\ MaxClones * MaxStep < Width - 1
<1>1. \E m \in 1 .. Width : Steps \subseteq 1 .. m /\ MaxClones * m < Width - 1
  BY HandlesAssumption
<1>2. /\ MaxStep \in 1 .. Width /\ Steps \subseteq 1 .. MaxStep
      /\ MaxClones * MaxStep < Width - 1
  BY <1>1 DEF MaxStep
<1> QED
  BY <1>2, HandlesAssumption

LEMMA Times ==
    ASSUME NEW m \in Nat, NEW a \in Nat, NEW b \in Nat, a <= b
    PROVE  m * a <= m * b /\ m * a \in Nat /\ m * (a + 1) = m * a + m
  BY SMT

(* The next handle is a new number and not Invalid_Handle. *)
LEMMA NextHandle ==
    ASSUME HandlesInv, NEW c \in Callers, stage[c] = "convert", NEW s \in Steps
    PROVE  /\ (Last_Handle + s) % Width = Last_Handle + s
           /\ Last_Handle + s > Last_Handle
           /\ Last_Handle + s < Width - 1 /\ Last_Handle \in Nat
           /\ Last_Handle + s <= MaxStep * (clones - Cardinality(Converting \ {c}))
           /\ IsFiniteSet(Converting \ {c}) /\ Cardinality(Converting \ {c}) <= clones
<1> DEFINE k == Cardinality(Converting)
<1>1. /\ k \in Nat /\ Cardinality(Converting \ {c}) = k - 1
      /\ IsFiniteSet(Converting \ {c}) /\ c \in Converting /\ k <= clones
  BY FS_CardinalityType, FS_RemoveElement DEF HandlesInv, NoWrap, Converting
<1>2. k >= 1
  BY <1>1, FS_EmptySet DEF HandlesInv, NoWrap
<1>3. clones \in Nat /\ clones <= MaxClones /\ Last_Handle \in Nat
      /\ Last_Handle <= MaxStep * (clones - k)
  BY MaxStepFacts DEF HandlesInv, HandlesTypeOK, NoWrap, Values
<1>4. MaxStep * ((clones - k) + 1) = MaxStep * (clones - k) + MaxStep
      /\ MaxStep * ((clones - k) + 1) \in Nat
  BY <1>1, <1>3, MaxStepFacts, Times
<1>5. MaxStep * ((clones - k) + 1) <= MaxStep * MaxClones
  BY <1>1, <1>2, <1>3, MaxStepFacts, Times
<1>6. MaxStep * MaxClones = MaxClones * MaxStep /\ MaxStep * MaxClones \in Nat
      /\ MaxStep * (clones - k) \in Nat
  BY <1>1, <1>3, MaxStepFacts, Times
<1>7. s \in Nat /\ 1 <= s /\ s <= MaxStep
  BY MaxStepFacts
<1>8. Last_Handle + s <= MaxStep * ((clones - k) + 1)
  BY <1>3, <1>4, <1>6, <1>7, MaxStepFacts
<1>9. Last_Handle + s < Width - 1
  <2>1. MaxClones * MaxStep < Width - 1 /\ Width \in Nat
    BY MaxStepFacts
  <2> QED
    BY <1>3, <1>4, <1>5, <1>6, <1>7, <1>8, <2>1
<1>10. (Last_Handle + s) % Width = Last_Handle + s
  BY <1>3, <1>7, <1>9, MaxStepFacts
<1>11. clones - Cardinality(Converting \ {c}) = (clones - k) + 1
  BY <1>1, <1>3
<1> QED
  BY <1>1, <1>3, <1>7, <1>8, <1>9, <1>10, <1>11

(* Invalid_Handle is the handle of no live thread. *)
LEMMA NotInvalid ==
    ASSUME HandlesInv
    PROVE  \A j \in Converted : registered[j] # Invalid_Handle
<1> DEFINE k == Cardinality(Converting)
<1>1. k \in Nat /\ k <= clones /\ clones \in Nat /\ clones <= MaxClones
      /\ Last_Handle <= MaxStep * (clones - k) /\ Last_Handle \in Nat
  BY FS_CardinalityType, MaxStepFacts DEF HandlesInv, NoWrap, HandlesTypeOK, Values
<1>2. MaxStep * (clones - k) <= MaxStep * MaxClones /\ MaxStep * (clones - k) \in Nat
      /\ MaxStep * MaxClones = MaxClones * MaxStep /\ MaxStep * MaxClones \in Nat
  BY <1>1, MaxStepFacts, Times
<1>3. Last_Handle < Width - 1
  BY <1>1, <1>2, MaxStepFacts
<1>4. \A j \in Converted : registered[j] \in Values /\ registered[j] <= Last_Handle
  BY DEF HandlesInv, HandlesTypeOK, Old, Converted
<1> QED
  BY <1>1, <1>3, <1>4, MaxStepFacts DEF Values, Invalid_Handle
-----------------------------------------------------------------------------
(* What a step does to the sets that the invariant speaks of *)
LEMMA Spawned ==
    ASSUME HandlesInv, NEW c \in Callers, Spawn(c)
    PROVE  \E i \in Ids \ alive, p \in Values :
             /\ stage[c] = "idle" /\ stage' = [stage EXCEPT ![c] = "convert"]
             /\ born' = [born EXCEPT ![c] = i] /\ alive' = alive \cup {i}
             /\ parent' = [parent EXCEPT ![c] = p]
             /\ threads' \in {threads \ {i}, threads \cup {i}}
             /\ clones < MaxClones /\ clones' = clones + 1
             /\ Converted' = Converted /\ Running' = Running /\ Known' = Known
             /\ Converting' = Converting \cup {c} /\ c \notin Converting
             /\ UNCHANGED <<Handles, id2Handle, parentHandles, Last_Handle, left,
                            registered, returned, raced>>
<1>1. PICK i \in Ids \ alive :
         born' = [born EXCEPT ![c] = i] /\ alive' = alive \cup {i}
  BY DEF Spawn
<1>2. PICK p \in {Invalid_Handle} \cup {getTHandleById(j) : j \in alive} :
         parent' = [parent EXCEPT ![c] = p]
  BY DEF Spawn
<1>3. p \in Values
  BY <1>2, MaxStepFacts DEF HandlesInv, HandlesTypeOK, getTHandleById, Values, Invalid_Handle
<1>4. /\ stage[c] = "idle" /\ stage' = [stage EXCEPT ![c] = "convert"]
      /\ clones < MaxClones /\ clones' = clones + 1
      /\ UNCHANGED <<Handles, id2Handle, parentHandles, Last_Handle, left,
                     registered, returned, raced>>
      /\ threads' = IF parent'[c] = Invalid_Handle THEN threads \ {born'[c]}
                                                    ELSE threads \cup {born'[c]}
  BY DEF Spawn
<1>5. born'[c] = i /\ born[c] = NoId /\ NoId \notin Ids
  BY <1>1, <1>4, HandlesAssumption DEF HandlesInv, HandlesTypeOK, OwnId
<1>6. threads' \in {threads \ {i}, threads \cup {i}}
  BY <1>4, <1>5
<1>7. Converting' = Converting \cup {c} /\ c \notin Converting
  BY <1>4 DEF Converting, HandlesInv, HandlesTypeOK
<1>8. Known' = Known
  BY <1>4 DEF Known
<1>9. Converted' = Converted
  BY <1>1, <1>4, <1>5 DEF Converted, HandlesInv, HandlesTypeOK
<1>10. Running' = Running
  BY <1>1, <1>4, <1>5 DEF Running, HandlesInv, HandlesTypeOK
<1> QED
  BY <1>1, <1>2, <1>3, <1>4, <1>6, <1>7, <1>8, <1>9, <1>10

LEMMA ConvertedOne ==
    ASSUME HandlesInv, NEW c \in Callers, Convert_Native_Handle(c)
    PROVE  LET b == born[c] IN
           /\ b \in alive /\ b \in Ids /\ b \notin Converted /\ b \notin Running
           /\ stage[c] = "convert" /\ stage' = [stage EXCEPT ![c] = "return"]
           /\ Last_Handle' > Last_Handle /\ Last_Handle' < Width - 1
           /\ Last_Handle' \in Values /\ Last_Handle \in Nat
           /\ Last_Handle' <= MaxStep * (clones - Cardinality(Converting'))
           /\ IsFiniteSet(Converting') /\ Cardinality(Converting') <= clones
           /\ Handles' = Handles \cup {Last_Handle'}
           /\ Known' = Known \cup {b}
           /\ \A i \in Known : id2Handle'[i] = id2Handle[i]
           /\ b \notin Known => id2Handle'[b] = Last_Handle'
           /\ id2Handle' \in [Known' -> Values]
           /\ registered' = [registered EXCEPT ![b] = Last_Handle']
           /\ raced' = (raced \ {b}) \cup {born[d] : d \in {e \in Callers : stage[e] = "return"}}
           /\ Converted' = Converted \cup {b} /\ Running' = Running
           /\ UNCHANGED <<born, parent, alive, threads, clones, left, returned>>
<1> DEFINE b == born[c]
<1>1. /\ stage[c] = "convert" /\ stage' = [stage EXCEPT ![c] = "return"]
      /\ Handles' = Handles \cup {Last_Handle'}
      /\ id2Handle' = Insert(id2Handle, b, Last_Handle')
      /\ registered' = [registered EXCEPT ![b] = Last_Handle']
      /\ raced' = (raced \ {b}) \cup {born[d] : d \in {e \in Callers : stage[e] = "return"}}
      /\ UNCHANGED <<born, parent, alive, threads, clones, left, returned>>
  BY DEF Convert_Native_Handle, Raced
<1>2. PICK s \in Steps : Last_Handle' = (Last_Handle + s) % Width
  BY DEF Convert_Native_Handle
<1>3. Converting' = Converting \ {c}
  BY <1>1 DEF Converting, HandlesInv, HandlesTypeOK
<1>4. /\ Last_Handle' = Last_Handle + s /\ Last_Handle' > Last_Handle
      /\ Last_Handle' < Width - 1 /\ Last_Handle \in Nat
      /\ Last_Handle' <= MaxStep * (clones - Cardinality(Converting'))
      /\ IsFiniteSet(Converting') /\ Cardinality(Converting') <= clones
  BY <1>1, <1>2, <1>3, NextHandle
<1>5. Last_Handle' \in Values
  BY <1>4, MaxStepFacts DEF Values
<1>6. /\ b \in alive /\ b \in Ids /\ b \notin Converted /\ b \notin Running
  BY <1>1 DEF HandlesInv, OwnId, HandlesTypeOK, Converted, Running
<1>7. Known' = Known \cup {b}
  BY <1>1 DEF Known, Insert
<1>8. \A i \in Known : id2Handle'[i] = id2Handle[i]
  BY <1>1 DEF Known, Insert
<1>9. b \notin Known => id2Handle'[b] = Last_Handle'
  BY <1>1 DEF Known, Insert
<1>10. id2Handle' \in [Known' -> Values]
  BY <1>1, <1>5, <1>7 DEF Insert, HandlesInv, HandlesTypeOK, Known
<1>11. Running' = Running
  BY <1>1 DEF Running
<1>12. Converted' = Converted \cup {b}
  <2>1. \A d \in Callers : stage'[d] = "convert" <=> stage[d] = "convert" /\ d # c
    BY <1>1 DEF HandlesInv, HandlesTypeOK
  <2>2. \A d \in Callers : stage[d] = "convert" /\ born[d] = b => d = c
    BY <1>1 DEF HandlesInv, OwnId
  <2> QED
    BY <1>1, <1>6, <2>1, <2>2 DEF Converted
<1> QED
  BY <1>1, <1>4, <1>5, <1>6, <1>7, <1>8, <1>9, <1>10, <1>11, <1>12

LEMMA Returned ==
    ASSUME HandlesInv, NEW c \in Callers, ConvertReturn(c)
    PROVE  LET b == born[c] IN
           /\ stage[c] = "return" /\ stage' = [stage EXCEPT ![c] = "idle"]
           /\ born' = [born EXCEPT ![c] = NoId]
           /\ b \in alive /\ b \in Ids /\ b \notin Running
           /\ returned' = [returned EXCEPT ![b] = Last_Handle]
           /\ Running' = Running \cup {b} /\ Converted' = Converted
           /\ Converting' = Converting /\ Known' = Known
           /\ UNCHANGED <<Handles, id2Handle, parentHandles, Last_Handle, parent, alive,
                          threads, clones, left, registered, raced>>
<1> DEFINE b == born[c]
<1>1. /\ stage[c] = "return" /\ stage' = [stage EXCEPT ![c] = "idle"]
      /\ born' = [born EXCEPT ![c] = NoId]
      /\ returned' = [returned EXCEPT ![b] = Last_Handle]
      /\ UNCHANGED <<Handles, id2Handle, parentHandles, Last_Handle, parent, alive,
                     threads, clones, left, registered, raced>>
  BY DEF ConvertReturn
<1>2. b \in alive /\ b \in Ids /\ b \notin Running /\ NoId \notin Ids
  BY <1>1, HandlesAssumption DEF HandlesInv, OwnId, HandlesTypeOK, Running
<1>3. Converting' = Converting /\ Known' = Known
  BY <1>1 DEF Converting, Known, HandlesInv, HandlesTypeOK
<1>4. \A d \in Callers : d # c => born'[d] = born[d] /\ stage'[d] = stage[d] /\ born[d] # b
  BY <1>1 DEF HandlesInv, HandlesTypeOK, OwnId
<1>5. born'[c] = NoId /\ stage'[c] = "idle" /\ alive \subseteq Ids
  BY <1>1 DEF HandlesInv, HandlesTypeOK
<1>6. Converted' = Converted
  BY <1>1, <1>4, <1>5 DEF Converted
<1>7. Running' = Running \cup {b}
  BY <1>1, <1>2, <1>4, <1>5 DEF Running
<1> QED
  BY <1>1, <1>2, <1>3, <1>6, <1>7

(* A thread that ends takes the handle it finds for itself, which is no    *)
(* other live thread's. *)
LEMMA Ended ==
    ASSUME HandlesInv, NEW i \in Ids, ProcessEnds(i) \/ ThreadEnds(i)
    PROVE  /\ i \in Running /\ i \in Converted
           /\ Handles' = Handles \ {getTHandleById(i)}
           /\ alive' = alive \ {i}
           /\ Converted' = Converted \ {i} /\ Running' = Running \ {i}
           /\ Converting' = Converting
           /\ \A j \in Converted : j # i => registered[j] # getTHandleById(i)
           /\ \/ /\ left' = left \cup {i} /\ UNCHANGED id2Handle /\ Known' = Known
              \/ /\ left' = left /\ id2Handle' = Erase(id2Handle, i)
                 /\ Known' = Known \ {i}
                 /\ \A j \in Known' : id2Handle'[j] = id2Handle[j]
           /\ id2Handle' \in [Known' -> Values]
           /\ UNCHANGED <<parentHandles, Last_Handle, stage, born, parent, threads,
                          clones, registered, returned, raced>>
<1>1. /\ i \in Running /\ Handles' = Handles \ {getTHandleById(i)}
      /\ alive' = alive \ {i}
      /\ UNCHANGED <<parentHandles, Last_Handle, stage, born, parent, threads,
                     clones, registered, returned, raced>>
  BY DEF ProcessEnds, ThreadEnds
<1>2. i \in Converted
  BY <1>1 DEF Running, Converted
<1>3. Converted' = Converted \ {i} /\ Running' = Running \ {i} /\ Converting' = Converting
  BY <1>1 DEF Running, Converted, Converting
<1>4. \A j \in Converted : j # i => registered[j] # getTHandleById(i)
  BY NotInvalid DEF getTHandleById, HandlesInv, Apart
<1>5. \/ /\ left' = left \cup {i} /\ UNCHANGED id2Handle
      \/ left' = left /\ id2Handle' = Erase(id2Handle, i)
  BY DEF ProcessEnds, ThreadEnds
<1>6. CASE left' = left \cup {i} /\ UNCHANGED id2Handle
  BY <1>1, <1>2, <1>3, <1>4, <1>6 DEF Known, HandlesInv, HandlesTypeOK
<1>7. CASE left' = left /\ id2Handle' = Erase(id2Handle, i)
  <2>1. Known' = Known \ {i}
    BY <1>7 DEF Erase, Known
  <2>2. \A j \in Known' : id2Handle'[j] = id2Handle[j]
    BY <1>7, <2>1 DEF Erase, Known
  <2>3. id2Handle' \in [Known' -> Values]
    BY <1>7, <2>1 DEF Erase, Known, HandlesInv, HandlesTypeOK
  <2> QED
    BY <1>1, <1>2, <1>3, <1>4, <1>7, <2>1, <2>2, <2>3
<1> QED
  BY <1>5, <1>6, <1>7

-----------------------------------------------------------------------------
LEMMA HandlesStart == HandlesInit => HandlesInv
<1> SUFFICES ASSUME HandlesInit PROVE HandlesInv
  OBVIOUS
<1>1. Known = {} /\ Converting = {} /\ Converted = {} /\ Running = {}
  BY DEF HandlesInit, Known, Converting, Converted, Running
<1>2. HandlesTypeOK
  BY <1>1, MaxStepFacts DEF HandlesInit, HandlesTypeOK, Known, Values, Invalid_Handle
<1>3. OwnId
  BY DEF HandlesInit, OwnId
<1>4. NoWrap
  BY <1>1, FS_EmptySet, MaxStepFacts DEF HandlesInit, NoWrap
<1>5. Old /\ Apart /\ Entries /\ Resolvable /\ DistinctHandles /\ Told
  BY <1>1 DEF HandlesInit, Old, Apart, Entries, Resolvable, DistinctHandles, Told
<1> QED
  BY <1>2, <1>3, <1>4, <1>5 DEF HandlesInv

(* Each part of HandlesInv is preserved by each kind of step. *)
LEMMA SpawnStep ==
    ASSUME HandlesInv, NEW c \in Callers, Spawn(c)
    PROVE  HandlesInv'
<1>0. PICK i \in Ids \ alive, p \in Values :
             /\ stage[c] = "idle" /\ stage' = [stage EXCEPT ![c] = "convert"]
             /\ born' = [born EXCEPT ![c] = i] /\ alive' = alive \cup {i}
             /\ parent' = [parent EXCEPT ![c] = p]
             /\ threads' \in {threads \ {i}, threads \cup {i}}
             /\ clones < MaxClones /\ clones' = clones + 1
             /\ Converted' = Converted /\ Running' = Running /\ Known' = Known
             /\ Converting' = Converting \cup {c} /\ c \notin Converting
             /\ UNCHANGED <<Handles, id2Handle, parentHandles, Last_Handle, left,
                            registered, returned, raced>>
  BY Spawned
<1>1. HandlesTypeOK'
  BY <1>0, MaxStepFacts DEF HandlesInv, HandlesTypeOK
<1>2. OwnId'
  BY <1>0, HandlesAssumption DEF HandlesInv, HandlesTypeOK, OwnId
<1>3. NoWrap'
  <2>1. /\ IsFiniteSet(Converting') /\ Cardinality(Converting) \in Nat
        /\ Cardinality(Converting') = Cardinality(Converting) + 1
    BY <1>0, FS_AddElement, FS_CardinalityType DEF HandlesInv, NoWrap
  <2>2. clones' - Cardinality(Converting') = clones - Cardinality(Converting)
    BY <1>0, <2>1, MaxStepFacts DEF HandlesInv, HandlesTypeOK
  <2>3. Cardinality(Converting') <= clones'
    BY <1>0, <2>1, MaxStepFacts DEF HandlesInv, HandlesTypeOK, NoWrap
  <2> QED
    BY <1>0, <2>1, <2>2, <2>3 DEF HandlesInv, NoWrap
<1>4. Old' /\ Apart' /\ Entries' /\ Resolvable' /\ DistinctHandles'
  BY <1>0 DEF HandlesInv, Old, Apart, Entries, Resolvable, DistinctHandles
<1>5. Told'
  BY <1>0 DEF HandlesInv, HandlesTypeOK, Told
<1> QED
  BY <1>1, <1>2, <1>3, <1>4, <1>5 DEF HandlesInv

LEMMA ConvertStep ==
    ASSUME HandlesInv, NEW c \in Callers, Convert_Native_Handle(c)
    PROVE  HandlesInv'
<1> DEFINE b == born[c]
<1>0. /\ b \in alive /\ b \in Ids /\ b \notin Converted /\ b \notin Running
      /\ stage[c] = "convert" /\ stage' = [stage EXCEPT ![c] = "return"]
      /\ Last_Handle' > Last_Handle /\ Last_Handle' < Width - 1
      /\ Last_Handle' \in Values /\ Last_Handle \in Nat
      /\ Last_Handle' <= MaxStep * (clones - Cardinality(Converting'))
      /\ IsFiniteSet(Converting') /\ Cardinality(Converting') <= clones
      /\ Handles' = Handles \cup {Last_Handle'}
      /\ Known' = Known \cup {b}
      /\ \A i \in Known : id2Handle'[i] = id2Handle[i]
      /\ b \notin Known => id2Handle'[b] = Last_Handle'
      /\ id2Handle' \in [Known' -> Values]
      /\ registered' = [registered EXCEPT ![b] = Last_Handle']
      /\ raced' = (raced \ {b}) \cup {born[d] : d \in {e \in Callers : stage[e] = "return"}}
      /\ Converted' = Converted \cup {b} /\ Running' = Running
      /\ UNCHANGED <<born, parent, alive, threads, clones, left, returned>>
  BY ConvertedOne
<1>1. HandlesTypeOK'
  <2>1. DOMAIN parentHandles' \subseteq Ids /\ parentHandles' \in [DOMAIN parentHandles' -> Values]
    <3>1. CASE parentHandles' = Insert(parentHandles, b, parent[c])
      BY <1>0, <3>1 DEF HandlesInv, HandlesTypeOK, Insert
    <3>2. CASE parentHandles' = parentHandles
      BY <3>2 DEF HandlesInv, HandlesTypeOK
    <3> QED
      BY <3>1, <3>2 DEF Convert_Native_Handle
  <2>2. raced' \subseteq Ids
    BY <1>0 DEF HandlesInv, HandlesTypeOK, OwnId
  <2> QED
    BY <1>0, <2>1, <2>2 DEF HandlesInv, HandlesTypeOK
<1>2. OwnId'
  BY <1>0 DEF HandlesInv, HandlesTypeOK, OwnId
<1>3. NoWrap'
  BY <1>0 DEF NoWrap
<1>4. /\ registered'[b] = Last_Handle'
      /\ \A j \in Converted : registered'[j] = registered[j] /\ j # b
      /\ \A j \in Converted : registered[j] \in Nat /\ registered[j] <= Last_Handle
      /\ \A i \in Known : id2Handle[i] \in Nat /\ id2Handle[i] <= Last_Handle
  BY <1>0 DEF HandlesInv, HandlesTypeOK, Old, Converted, Values
<1>5. Old'
  <2>1. \A j \in Converted' : registered'[j] <= Last_Handle'
    BY <1>0, <1>4 DEF Values
  <2>2. \A i \in Known' : id2Handle'[i] <= Last_Handle'
    BY <1>0, <1>4 DEF Values
  <2> QED
    BY <2>1, <2>2 DEF Old
<1>6. Apart'
  <2>1. SUFFICES ASSUME NEW i \in Known', NEW j \in Converted', i # j
                 PROVE  id2Handle'[i] # registered'[j]
    BY DEF Apart
  <2>2. CASE i \in Known /\ j \in Converted
    BY <1>0, <1>4, <2>1, <2>2 DEF HandlesInv, Apart
  <2>3. CASE i \in Known /\ j = b
    BY <1>0, <1>4, <2>3
  <2>4. CASE i \notin Known
    BY <1>0, <1>4, <2>1, <2>4
  <2> QED
    BY <1>0, <2>1, <2>2, <2>3, <2>4
<1>7. Entries'
  <2>1. Known' \subseteq Converted' \cup left'
    BY <1>0 DEF HandlesInv, Entries
  <2>2. \A i \in Converted \ left : i \in Known' /\ id2Handle'[i] = registered'[i]
    BY <1>0, <1>4 DEF HandlesInv, Entries
  <2>3. b \notin left => b \in Known' /\ id2Handle'[b] = registered'[b]
    BY <1>0, <1>4 DEF HandlesInv, Entries
  <2> QED
    BY <1>0, <2>1, <2>2, <2>3 DEF Entries
<1>8. Resolvable'
  BY <1>0, <1>4 DEF HandlesInv, Resolvable
<1>9. DistinctHandles'
  <2>1. \A i \in Converted : registered'[i] # registered'[b]
    BY <1>0, <1>4
  <2> QED
    BY <1>0, <1>4, <2>1 DEF HandlesInv, DistinctHandles
<1>10. Told'
  <2>1. \A i \in Running : i # b /\ (returned[i] = registered'[i] \/ i \in raced')
    BY <1>0 DEF HandlesInv, Told, HandlesTypeOK
  <2>2. ASSUME NEW d \in Callers, stage'[d] = "return"
        PROVE  registered'[born'[d]] = Last_Handle' \/ born'[d] \in raced'
    <3>1. CASE d = c
      BY <1>0, <1>4, <3>1
    <3>2. CASE d # c
      BY <1>0, <2>2, <3>2 DEF HandlesInv, HandlesTypeOK
    <3> QED
      BY <3>1, <3>2
  <2> QED
    BY <1>0, <2>1, <2>2 DEF Told
<1> QED
  BY <1>1, <1>2, <1>3, <1>5, <1>6, <1>7, <1>8, <1>9, <1>10 DEF HandlesInv

LEMMA ReturnStep ==
    ASSUME HandlesInv, NEW c \in Callers, ConvertReturn(c)
    PROVE  HandlesInv'
<1> DEFINE b == born[c]
<1>0. /\ stage[c] = "return" /\ stage' = [stage EXCEPT ![c] = "idle"]
      /\ born' = [born EXCEPT ![c] = NoId]
      /\ b \in alive /\ b \in Ids /\ b \notin Running
      /\ returned' = [returned EXCEPT ![b] = Last_Handle]
      /\ Running' = Running \cup {b} /\ Converted' = Converted
      /\ Converting' = Converting /\ Known' = Known
      /\ UNCHANGED <<Handles, id2Handle, parentHandles, Last_Handle, parent, alive,
                     threads, clones, left, registered, raced>>
  BY Returned
<1>1. HandlesTypeOK'
  BY <1>0 DEF HandlesInv, HandlesTypeOK
<1>2. OwnId'
  BY <1>0, HandlesAssumption DEF HandlesInv, HandlesTypeOK, OwnId
<1>3. NoWrap'
  BY <1>0 DEF HandlesInv, NoWrap
<1>4. Old' /\ Apart' /\ Entries' /\ Resolvable' /\ DistinctHandles'
  BY <1>0 DEF HandlesInv, Old, Apart, Entries, Resolvable, DistinctHandles
<1>5. Told'
  <2>1. \A i \in Running : returned'[i] = returned[i]
    BY <1>0 DEF HandlesInv, HandlesTypeOK
  <2>2. returned'[b] = Last_Handle
    BY <1>0 DEF HandlesInv, HandlesTypeOK
  <2>3. registered[b] = Last_Handle \/ b \in raced
    BY <1>0 DEF HandlesInv, Told
  <2>4. \A d \in Callers : stage'[d] = "return" =>
            registered[born'[d]] = Last_Handle \/ born'[d] \in raced
    BY <1>0 DEF HandlesInv, HandlesTypeOK, Told
  <2> QED
    BY <1>0, <2>1, <2>2, <2>3, <2>4 DEF HandlesInv, Told
<1> QED
  BY <1>1, <1>2, <1>3, <1>4, <1>5 DEF HandlesInv

LEMMA EndStep ==
    ASSUME HandlesInv, NEW i \in Ids, ProcessEnds(i) \/ ThreadEnds(i)
    PROVE  HandlesInv'
<1>0. /\ i \in Running /\ i \in Converted
      /\ Handles' = Handles \ {getTHandleById(i)}
      /\ alive' = alive \ {i}
      /\ Converted' = Converted \ {i} /\ Running' = Running \ {i}
      /\ Converting' = Converting
      /\ \A j \in Converted : j # i => registered[j] # getTHandleById(i)
      /\ \/ /\ left' = left \cup {i} /\ UNCHANGED id2Handle /\ Known' = Known
         \/ /\ left' = left /\ id2Handle' = Erase(id2Handle, i)
            /\ Known' = Known \ {i}
            /\ \A j \in Known' : id2Handle'[j] = id2Handle[j]
      /\ id2Handle' \in [Known' -> Values]
      /\ UNCHANGED <<parentHandles, Last_Handle, stage, born, parent, threads,
                     clones, registered, returned, raced>>
  BY Ended
<1>1. HandlesTypeOK'
  BY <1>0 DEF HandlesInv, HandlesTypeOK
<1>2. OwnId'
  BY <1>0 DEF HandlesInv, OwnId, Running
<1>3. NoWrap'
  BY <1>0 DEF HandlesInv, NoWrap
<1>4. \A j \in Known' : j \in Known /\ id2Handle'[j] = id2Handle[j]
  BY <1>0
<1>5. Old' /\ Apart'
  BY <1>0, <1>4 DEF HandlesInv, Old, Apart
<1>6. Entries'
  BY <1>0, <1>4 DEF HandlesInv, Entries
<1>7. Resolvable' /\ DistinctHandles'
  BY <1>0 DEF HandlesInv, Resolvable, DistinctHandles
<1>8. Told'
  BY <1>0 DEF HandlesInv, Told
<1> QED
  BY <1>1, <1>2, <1>3, <1>5, <1>6, <1>7, <1>8 DEF HandlesInv

-----------------------------------------------------------------------------
THEOREM HandlesAlways == HandlesSpec => []HandlesInv
<1>1. HandlesInv /\ [HandlesNext]_handleVars => HandlesInv'
  <2> SUFFICES ASSUME HandlesInv, [HandlesNext]_handleVars PROVE HandlesInv'
    OBVIOUS
  <2>1. CASE UNCHANGED handleVars
    BY <2>1 DEF handleVars, HandlesInv, HandlesTypeOK, OwnId, NoWrap, Old, Apart, Entries, Resolvable,
       DistinctHandles, Told, Known, Converting, Converted, Running
  <2>2. CASE HandlesNext
    BY <2>2, SpawnStep, ConvertStep, ReturnStep, EndStep DEF HandlesNext
  <2> QED
    BY <2>1, <2>2
<1> QED
  BY <1>1, HandlesStart, PTL DEF HandlesSpec

(* While a thread lives its handle can be resolved, no other live thread   *)
(* has the same, and its creator was told that one unless another Clone    *)
(* came in between: for all runs in which the numbers do not wrap.         *)
THEOREM LiveHandlesHolds == HandlesSpec => []LiveHandles
<1>1. HandlesInv => LiveHandles
  BY DEF HandlesInv, LiveHandles, Resolvable, DistinctHandles, Told
<1> QED
  BY <1>1, HandlesAlways, PTL

(* A live thread finds its own handle by its id, unless the id is that of  *)
(* a process that ended.                                                   *)
THEOREM FindsItselfHolds == HandlesSpec => []FindsItself
<1>1. HandlesInv => FindsItself
  BY DEF HandlesInv, FindsItself, Entries, getTHandleById
<1> QED
  BY <1>1, HandlesAlways, PTL
=============================================================================
