--------------------------- MODULE ProcessProofs ----------------------------
(***************************************************************************)
(* Proofs about Processes, for any number of processes and waiters.        *)
(*                                                                         *)
(* Two things make a wait safe.  A waiter is in the list of a process of   *)
(* the table only at the places of its sequence that waitFor has passed    *)
(* and removeAssignedListener has not (Listed), so that no list holds the  *)
(* Semaphore of a call that returned.  And a process that notified it is   *)
(* Terminated and one of those it waits for, unless the Process was        *)
(* deleted while its thread still ran (Notifiers, Posted).                 *)
(***************************************************************************)
EXTENDS Processes, SequenceTheorems, TLAPS

(* While a waiter clones, the newborn process is its own and held back.     *)
Creating(w) == wpc[w] \in {"convert", "add", "release"}
Young(p) == cpc[p] \in {"unborn", "held"}

Newborns ==
    /\ \A w \in Waiters : Creating(w) =>
          /\ Len(active[w]) > 0 /\ cpc[Newborn(w)] = "held"
          /\ wpc[w] # "convert" => Newborn(w) \in handles
          /\ wpc[w] = "release" => Newborn(w) \in table
    /\ \A v, w \in Waiters : Creating(v) /\ Creating(w) /\ v # w =>
          Newborn(v) # Newborn(w)
    /\ \A w \in Waiters : \A i \in 1 .. Len(active[w]) :
          Young(active[w][i]) => Creating(w) /\ i = Len(active[w])

(* What is left of a process at each stage of its life.                     *)
Life ==
    \A p \in Procs :
        /\ Young(p) => /\ state[p] = "Ready" /\ lastExit[p] = "none"
                       /\ listeners[p] = <<>>
        /\ cpc[p] \in {"running", "exiting", "ended"} => p \in handles
        /\ cpc[p] \in {"running", "exiting"} => p \in table \/ state[p] = "Terminated"
        /\ cpc[p] = "exiting" => lastExit[p] # "none"
        /\ cpc[p] \in {"terminated", "notify", "mark", "post", "gone", "crashed"} =>
              state[p] = "Terminated"

(* The exit code is final when the state says Terminated.                   *)
CodesFinal ==
    \A p \in Procs :
        /\ exitCode[p] = IF lastExit[p] = "none" THEN Success ELSE lastExit[p]
        /\ state[p] = "Terminated" /\ cpc[p] = "running" => lastExit[p] # "none"
        /\ report[p] \notin {"none", "Unknown_Error"} =>
              state[p] = "Terminated" /\ report[p] = exitCode[p]

(* The indices of a waiter are inside its sequence.                         *)
Indices ==
    \A w \in Waiters :
        /\ wpc[w] \in {"resolve", "check", "enlist", "unlist", "spinning"} => pos[w] > 0
        /\ wpc[w] \in {"check", "enlist"} => pos[w] <= Len(active[w])
        /\ wpc[w] = "resolve" => pos[w] <= Len(active[w]) + 1
        /\ wpc[w] \in {"unlist", "code", "delete"} =>
              index[w] <= Len(active[w]) /\ registered[w] <= Len(active[w])
        /\ wpc[w] \in {"code", "delete"} => index[w] > 0
        /\ wpc[w] = "delete" => state[Returned(w)] = "Terminated"

(* A process that notifies has the lock and a listener in its hand.         *)
Notifying ==
    \A p \in Procs :
        /\ cpc[p] \in {"notify", "mark", "post"} => listenersLock[p] = p /\ npos[p] > 0
        /\ cpc[p] \in {"mark", "post"} => npos[p] <= Len(listeners[p])

(* Where in its sequence a waiter can be enlisted.                          *)
Enlisted(w, i) ==
    \/ wpc[w] \in {"resolve", "check", "enlist"} /\ i < pos[w]
    \/ wpc[w] = "unlist" /\ pos[w] <= i /\ i <= registered[w]
    \/ wpc[w] \in {"sleep", "spinning", "crashed"}

WaitsFor(w, p) == \E i \in 1 .. Len(active[w]) : active[w][i] = p /\ Enlisted(w, i)

Listed == \A p \in table : \A w \in Elements(listeners[p]) : WaitsFor(w, p)

(* Who has notified is over, and one of those waited for.                   *)
Notifiers ==
    \A w \in Waiters : notifier[w] \in Procs =>
        /\ state[notifier[w]] = "Terminated"
        /\ InWait(w) /\ notifier[w] \in table => notifier[w] \in Elements(active[w])

(* Some process was deleted, perhaps while its thread still notifies.       *)
Deleted == \E p \in Procs \ table : state[p] = "Terminated"

(* A Semaphore that was posted has its notifier, unless the thread of a     *)
(* deleted process posted it.                                               *)
Posted ==
    /\ \A p \in table : cpc[p] = "post" => notifier[listeners[p][npos[p]]] \in Procs
    /\ \A w \in Waiters : count[w] > 0 => notifier[w] \in Procs \/ Deleted

IInv == /\ TypeOK /\ Newborns /\ Life /\ CodesFinal /\ Indices /\ Notifying
        /\ Listed /\ Notifiers /\ Posted /\ ReturnsEnded

(* The assumption on the constants, in parts. *)
LEMMA Kinds == /\ Procs \cap Waiters = {} /\ "none" \notin Codes
               /\ Nobody \notin Procs /\ Nobody \notin Waiters
  BY ProcessAssumption

(* What a vector is after erase. *)
LEMMA Erased ==
    ASSUME NEW S, NEW s \in Seq(S), NEW i \in 1 .. Len(s)
    PROVE  /\ EraseAt(s, i) \in Seq(S) /\ Len(EraseAt(s, i)) = Len(s) - 1
           /\ \A j \in 1 .. Len(s) - 1 :
                 EraseAt(s, i)[j] = IF j < i THEN s[j] ELSE s[j + 1]
<1> DEFINE a == SubSeq(s, 1, i - 1)
           b == SubSeq(s, i + 1, Len(s))
<1>0. Len(s) \in Nat /\ \A j \in 1 .. Len(s) : s[j] \in S
  BY LenProperties, ElementOfSeq
<1>1. /\ a \in Seq(S) /\ Len(a) = i - 1
      /\ \A j \in 1 .. i - 1 : a[j] = s[j]
  BY <1>0, SubSeqProperties
<1>2. /\ b \in Seq(S) /\ Len(b) = Len(s) - i
      /\ \A j \in 1 .. Len(s) - i : b[j] = s[i + j]
  <2>1. \A j \in i + 1 .. Len(s) : s[j] \in S
    BY <1>0
  <2>2. /\ b \in Seq(S)
        /\ Len(b) = IF i + 1 <= Len(s) THEN Len(s) - (i + 1) + 1 ELSE 0
        /\ \A j \in 1 .. Len(s) - (i + 1) + 1 : b[j] = s[i + 1 + j - 1]
    BY <1>0, <2>1, SubSeqProperties
  <2> QED
    BY <1>0, <2>2
<1> HIDE DEF a, b
<1>3. /\ a \o b \in Seq(S) /\ Len(a \o b) = Len(a) + Len(b)
      /\ \A j \in 1 .. Len(a) + Len(b) :
            (a \o b)[j] = IF j <= Len(a) THEN a[j] ELSE b[j - Len(a)]
  BY <1>1, <1>2, ConcatProperties
<1>4. \A j \in 1 .. Len(s) - 1 : (a \o b)[j] = IF j < i THEN s[j] ELSE s[j + 1]
  <2>1. ASSUME NEW j \in 1 .. Len(s) - 1, j < i PROVE (a \o b)[j] = s[j]
    BY <1>0, <1>1, <1>2, <1>3, <2>1
  <2>2. ASSUME NEW j \in 1 .. Len(s) - 1, ~(j < i) PROVE (a \o b)[j] = s[j + 1]
    <3>1. /\ (a \o b)[j] = b[j - (i - 1)] /\ j - (i - 1) \in 1 .. Len(s) - i
          /\ i + (j - (i - 1)) = j + 1
      BY <1>0, <1>1, <1>2, <1>3, <2>2
    <3> QED
      BY <1>2, <3>1
  <2> QED
    BY <2>1, <2>2
<1>5. EraseAt(s, i) = a \o b
  BY DEF EraseAt, a, b
<1> QED
  BY <1>0, <1>1, <1>2, <1>3, <1>4, <1>5

(* A waiter that has read an exit code forgets one process, or keeps all. *)
LEMMA Forgotten ==
    ASSUME TypeOK, Indices, NEW w \in Waiters, ReadCode(w) \/ RemoveProcess(w)
    PROVE  /\ active[w] \in Seq(Procs) /\ index[w] \in 1 .. Len(active[w])
           /\ Returned(w) \in Procs
           /\ \A v \in Waiters \ {w} : active'[v] = active[v] /\ wpc'[v] = wpc[v]
           /\ wpc[w] \in {"code", "delete"} /\ wpc'[w] \in {"delete", "idle"}
           /\ \A i \in 1 .. Len(active'[w]) :
                 \E j \in 1 .. Len(active[w]) : active'[w][i] = active[w][j]
<1>t_wpc. wpc \in [Waiters -> WaiterPcs]
  BY DEF TypeOK
<1>t_active. active \in [Waiters -> Seq(Procs)]
  BY DEF TypeOK
<1>t_index. index \in [Waiters -> Nat]
  BY DEF TypeOK
<1>1. /\ active[w] \in Seq(Procs) /\ Len(active[w]) \in Nat
      /\ index[w] \in 1 .. Len(active[w])
  BY <1>t_active, <1>t_index, LenProperties DEF ReadCode, RemoveProcess, Indices
<1>2. Returned(w) \in Procs
  BY <1>1, ElementOfSeq DEF Returned
<1>3. \/ active' = active
      \/ active' = [active EXCEPT ![w] = EraseAt(@, index[w])]
  BY DEF ReadCode, RemoveProcess
<1>4. \A v \in Waiters \ {w} : active'[v] = active[v]
  BY <1>3, <1>t_active
<1>5. /\ wpc[w] \in {"code", "delete"} /\ wpc'[w] \in {"delete", "idle"}
      /\ \A v \in Waiters \ {w} : wpc'[v] = wpc[v]
  BY <1>t_wpc DEF ReadCode, RemoveProcess, WGoto
<1>6. \A i \in 1 .. Len(active'[w]) :
         \E j \in 1 .. Len(active[w]) : active'[w][i] = active[w][j]
  <2>1. CASE active' = active
    BY <2>1
  <2>2. CASE active' = [active EXCEPT ![w] = EraseAt(@, index[w])]
    <3>1. active'[w] = EraseAt(active[w], index[w])
      BY <2>2, <1>t_active
    <3>2. /\ Len(active'[w]) = Len(active[w]) - 1
          /\ \A j \in 1 .. Len(active[w]) - 1 :
                active'[w][j] = IF j < index[w] THEN active[w][j] ELSE active[w][j + 1]
      BY <1>1, <3>1, Erased
    <3>3. ASSUME NEW i \in 1 .. Len(active'[w])
          PROVE  \E j \in 1 .. Len(active[w]) : active'[w][i] = active[w][j]
      <4>1. /\ i \in 1 .. Len(active[w]) - 1 /\ i \in 1 .. Len(active[w])
            /\ i + 1 \in 1 .. Len(active[w])
        BY <1>1, <3>2
      <4>2. active'[w][i] = active[w][i] \/ active'[w][i] = active[w][i + 1]
        BY <3>2, <4>1
      <4> QED
        BY <4>1, <4>2
    <3> QED
      BY <3>3
  <2> QED
    BY <1>3, <2>1, <2>2
<1> QED
  BY <1>1, <1>2, <1>4, <1>5, <1>6

(* What AddNewProcess enters. *)
LEMMA NewbornReady ==
    ASSUME TypeOK, Newborns, Life, NEW w \in Waiters, CloneAdd(w) \/ CloneRelease(w)
    PROVE  /\ Newborn(w) \in Procs /\ cpc[Newborn(w)] = "held"
           /\ state[Newborn(w)] = "Ready"
<1>t_active. active \in [Waiters -> Seq(Procs)]
  BY DEF TypeOK
<1>1. Len(active[w]) > 0 /\ cpc[Newborn(w)] = "held"
  BY DEF CloneAdd, CloneRelease, Newborns, Creating
<1>2. Newborn(w) \in Procs
  BY <1>1, <1>t_active, LenProperties, ElementOfSeq DEF Newborn
<1> QED
  BY <1>1, <1>2 DEF Life, Young

(* The index of a process that is in a sequence. *)
LEMMA IndexFound ==
    ASSUME NEW s \in Seq(Procs), NEW x
    PROVE  /\ IndexOf(s, x) \in 0 .. Len(s)
           /\ IndexOf(s, x) > 0 => s[IndexOf(s, x)] = x
           /\ x \in Elements(s) => IndexOf(s, x) > 0
<1>1. Len(s) \in Nat
  BY LenProperties
<1>2. CASE x \in Elements(s)
  <2>1. \E i \in 1 .. Len(s) : s[i] = x
    BY <1>2 DEF Elements
  <2>2. IndexOf(s, x) \in 1 .. Len(s) /\ s[IndexOf(s, x)] = x
    BY <1>2, <2>1 DEF IndexOf
  <2> QED
    BY <1>1, <2>2
<1>3. CASE x \notin Elements(s)
  BY <1>1, <1>3 DEF IndexOf
<1> QED
  BY <1>2, <1>3


(* The variables keep their types. *)
LEMMA TypeKept ==
    ASSUME TypeOK, Newborns, Indices, Notifying, [Next]_vars
    PROVE  TypeOK'
<1> USE Kinds DEF procVars, listVars, semVars, waitVars, histVars, WGoto, CGoto
<1>a. TypeOK /\ Newborns /\ Indices /\ Notifying
  OBVIOUS
<1>t0. handles \in SUBSET Procs
  BY <1>a DEF TypeOK
<1>t1. table \in SUBSET Procs
  BY <1>a DEF TypeOK
<1>t2. state \in [Procs -> {"Ready", "Terminated"}]
  BY <1>a DEF TypeOK
<1>t3. exitCode \in [Procs -> Codes \cup {Success}]
  BY <1>a DEF TypeOK
<1>t4. listeners \in [Procs -> Seq(Waiters)]
  BY <1>a DEF TypeOK
<1>t5. listenersLock \in [Procs -> Procs \cup Waiters \cup {Nobody}]
  BY <1>a DEF TypeOK
<1>t6. cpc \in [Procs -> ProcPcs]
  BY <1>a DEF TypeOK
<1>t7. npos \in [Procs -> Nat]
  BY <1>a DEF TypeOK
<1>t8. count \in [Waiters -> Nat]
  BY <1>a DEF TypeOK
<1>t9. notified \in [Waiters -> BOOLEAN]
  BY <1>a DEF TypeOK
<1>t10. notifier \in [Waiters -> Procs \cup {Nobody}]
  BY <1>a DEF TypeOK
<1>t11. wpc \in [Waiters -> WaiterPcs]
  BY <1>a DEF TypeOK
<1>t12. active \in [Waiters -> Seq(Procs)]
  BY <1>a DEF TypeOK
<1>t13. pos \in [Waiters -> Nat]
  BY <1>a DEF TypeOK
<1>t14. registered \in [Waiters -> Nat]
  BY <1>a DEF TypeOK
<1>t15. index \in [Waiters -> Nat]
  BY <1>a DEF TypeOK
<1>t16. why \in [Waiters -> {"none", "invalid", "dead", "woken"}]
  BY <1>a DEF TypeOK
<1>t17. lastExit \in [Procs -> Codes \cup {"none"}]
  BY <1>a DEF TypeOK
<1>t18. report \in [Procs -> Codes \cup {Success, "none", "Unknown_Error"}]
  BY <1>a DEF TypeOK
<1>1. CASE UNCHANGED vars
  BY <1>a, <1>1 DEF vars, TypeOK
<1>2. ASSUME NEW p \in Procs, ExitCode(p) PROVE TypeOK'
  <2>1. exitCode' \in [Procs -> Codes \cup {Success}]
    BY <1>2, <1>t3 DEF ExitCode
  <2>2. lastExit' \in [Procs -> Codes \cup {"none"}]
    BY <1>2, <1>t17 DEF ExitCode
  <2>3. cpc' \in [Procs -> ProcPcs]
    BY <1>2, <1>t6 DEF ExitCode, ProcPcs
  <2>4. UNCHANGED <<handles, table, state, listeners, listenersLock, npos,
                    count, notified, notifier, wpc, active, pos, registered,
                    index, why, report>>
    BY <1>2 DEF ExitCode
  <2> QED
    BY <1>a, <2>1, <2>2, <2>3, <2>4 DEF TypeOK
<1>3. ASSUME NEW p \in Procs, ExitState(p) PROVE TypeOK'
  <2>1. state' \in [Procs -> {"Ready", "Terminated"}]
    BY <1>3, <1>t2 DEF ExitState
  <2>2. cpc' \in [Procs -> ProcPcs]
    BY <1>3, <1>t6 DEF ExitState, ProcPcs
  <2>3. UNCHANGED <<handles, table, exitCode, listeners, listenersLock, npos,
                    count, notified, notifier, wpc, active, pos, registered,
                    index, why, lastExit, report>>
    BY <1>3 DEF ExitState
  <2> QED
    BY <1>a, <2>1, <2>2, <2>3 DEF TypeOK
<1>4. ASSUME NEW p \in Procs, ProgramEnds(p) PROVE TypeOK'
  <2>1. cpc' \in [Procs -> ProcPcs]
    BY <1>4, <1>t6 DEF ProgramEnds, ProcPcs
  <2>2. UNCHANGED <<handles, table, state, exitCode, listeners, listenersLock,
                    npos, count, notified, notifier, wpc, active, pos,
                    registered, index, why, lastExit, report>>
    BY <1>4 DEF ProgramEnds
  <2> QED
    BY <1>a, <2>1, <2>2 DEF TypeOK
<1>5. ASSUME NEW p \in Procs, RemoveHandle(p) PROVE TypeOK'
  <2>1. handles' \in SUBSET Procs
    BY <1>5, <1>t0 DEF RemoveHandle
  <2>2. cpc' \in [Procs -> ProcPcs]
    BY <1>5, <1>t6 DEF RemoveHandle, ProcPcs
  <2>3. UNCHANGED <<table, state, exitCode, listeners, listenersLock, npos,
                    count, notified, notifier, wpc, active, pos, registered,
                    index, why, lastExit, report>>
    BY <1>5 DEF RemoveHandle
  <2> QED
    BY <1>a, <2>1, <2>2, <2>3 DEF TypeOK
<1>6. ASSUME NEW p \in Procs, SetTerminated(p) PROVE TypeOK'
  <2>1. state' \in [Procs -> {"Ready", "Terminated"}]
    BY <1>6, <1>t2 DEF SetTerminated
  <2>2. cpc' \in [Procs -> ProcPcs]
    BY <1>6, <1>t6 DEF SetTerminated, ProcPcs
  <2>3. UNCHANGED <<handles, table, exitCode, listeners, listenersLock, npos,
                    count, notified, notifier, wpc, active, pos, registered,
                    index, why, lastExit, report>>
    BY <1>6 DEF SetTerminated
  <2> QED
    BY <1>a, <2>1, <2>2, <2>3 DEF TypeOK
<1>7. ASSUME NEW p \in Procs, NotifyLock(p) PROVE TypeOK'
  <2>1. listenersLock' \in [Procs -> Procs \cup Waiters \cup {Nobody}]
    BY <1>7, <1>t5 DEF NotifyLock
  <2>2. npos' \in [Procs -> Nat]
    BY <1>7, <1>t7 DEF NotifyLock
  <2>3. cpc' \in [Procs -> ProcPcs]
    BY <1>7, <1>t6 DEF NotifyLock, ProcPcs
  <2>4. UNCHANGED <<handles, table, state, exitCode, listeners, count,
                    notified, notifier, wpc, active, pos, registered, index,
                    why, lastExit, report>>
    BY <1>7 DEF NotifyLock
  <2> QED
    BY <1>a, <2>1, <2>2, <2>3, <2>4 DEF TypeOK
<1>8. ASSUME NEW p \in Procs, NotifyTest(p) PROVE TypeOK'
  <2>1. npos' \in [Procs -> Nat]
    <3>1. npos' = npos \/ npos' = [npos EXCEPT ![p] = @ + 1]
      BY <1>8 DEF NotifyTest
    <3> QED
      BY <3>1, <1>t7
  <2>2. cpc' \in [Procs -> ProcPcs]
    <3>1. cpc' = cpc \/ cpc' = [cpc EXCEPT ![p] = "mark"]
      BY <1>8 DEF NotifyTest
    <3> QED
      BY <3>1, <1>t6 DEF ProcPcs
  <2>3. UNCHANGED <<handles, table, state, exitCode, listeners, listenersLock,
                    count, notified, notifier, wpc, active, pos, registered,
                    index, why, lastExit, report>>
    BY <1>8 DEF NotifyTest
  <2> QED
    BY <1>a, <2>1, <2>2, <2>3 DEF TypeOK
<1>9. ASSUME NEW p \in Procs, NotifyMark(p) PROVE TypeOK'
  <2>1. notified' \in [Waiters -> BOOLEAN]
    BY <1>9, <1>t9 DEF NotifyMark
  <2>2. notifier' \in [Waiters -> Procs \cup {Nobody}]
    BY <1>9, <1>t10 DEF NotifyMark
  <2>3. cpc' \in [Procs -> ProcPcs]
    BY <1>9, <1>t6 DEF NotifyMark, ProcPcs
  <2>4. UNCHANGED <<handles, table, state, exitCode, listeners, listenersLock,
                    npos, count, wpc, active, pos, registered, index, why,
                    lastExit, report>>
    BY <1>9 DEF NotifyMark
  <2> QED
    BY <1>a, <2>1, <2>2, <2>3, <2>4 DEF TypeOK
<1>10. ASSUME NEW p \in Procs, NotifyPost(p) PROVE TypeOK'
  <2>1. count' \in [Waiters -> Nat]
    <3>1. listeners[p][npos[p]] \in Waiters
      BY <1>10, <1>a, <1>t8, <1>t7, <1>t4 DEF NotifyPost, Notifying
    <3>2. count' = [count EXCEPT ![listeners[p][npos[p]]] = @ + 1]
      BY <1>10 DEF NotifyPost
    <3> QED
      BY <3>1, <3>2, <1>t8
  <2>2. npos' \in [Procs -> Nat]
    BY <1>10, <1>t7 DEF NotifyPost
  <2>3. cpc' \in [Procs -> ProcPcs]
    BY <1>10, <1>t6 DEF NotifyPost, ProcPcs
  <2>4. UNCHANGED <<handles, table, state, exitCode, listeners, listenersLock,
                    notified, notifier, wpc, active, pos, registered, index,
                    why, lastExit, report>>
    BY <1>10 DEF NotifyPost
  <2> QED
    BY <1>a, <2>1, <2>2, <2>3, <2>4 DEF TypeOK
<1>11. ASSUME NEW p \in Procs, NotifyClear(p) PROVE TypeOK'
  <2>1. listeners' \in [Procs -> Seq(Waiters)]
    <3>1. listeners' = [listeners EXCEPT ![p] = <<>>]
      BY <1>11 DEF NotifyClear
    <3> QED
      BY <3>1, <1>t4
  <2>2. listenersLock' \in [Procs -> Procs \cup Waiters \cup {Nobody}]
    BY <1>11, <1>t5 DEF NotifyClear
  <2>3. cpc' \in [Procs -> ProcPcs]
    BY <1>11, <1>t6 DEF NotifyClear, ProcPcs
  <2>4. UNCHANGED <<handles, table, state, exitCode, npos, count, notified,
                    notifier, wpc, active, pos, registered, index, why,
                    lastExit, report>>
    BY <1>11 DEF NotifyClear
  <2> QED
    BY <1>a, <2>1, <2>2, <2>3, <2>4 DEF TypeOK
<1>12. ASSUME NEW w \in Waiters, CloneProcess(w) PROVE TypeOK'
  <2>1. active' \in [Waiters -> Seq(Procs)]
    <3>1. PICK p \in Procs : active' = [active EXCEPT ![w] = Append(@, p)]
      BY <1>12 DEF CloneProcess
    <3>2. Append(active[w], p) \in Seq(Procs)
      BY <1>t12, AppendProperties
    <3> QED
      BY <3>1, <3>2, <1>t12
  <2>2. cpc' \in [Procs -> ProcPcs]
    BY <1>12, <1>t6 DEF CloneProcess, ProcPcs
  <2>3. wpc' \in [Waiters -> WaiterPcs]
    BY <1>12, <1>t11 DEF CloneProcess, WaiterPcs
  <2>4. UNCHANGED <<handles, table, state, exitCode, listeners, listenersLock,
                    npos, count, notified, notifier, pos, registered, index,
                    why, lastExit, report>>
    BY <1>12 DEF CloneProcess
  <2> QED
    BY <1>a, <2>1, <2>2, <2>3, <2>4 DEF TypeOK
<1>13. ASSUME NEW w \in Waiters, Learn(w) PROVE TypeOK'
  <2>1. active' \in [Waiters -> Seq(Procs)]
    <3>1. PICK p \in Procs : active' = [active EXCEPT ![w] = Append(@, p)]
      BY <1>13 DEF Learn
    <3>2. Append(active[w], p) \in Seq(Procs)
      BY <1>t12, AppendProperties
    <3> QED
      BY <3>1, <3>2, <1>t12
  <2>2. UNCHANGED <<handles, table, state, exitCode, listeners, listenersLock,
                    cpc, npos, count, notified, notifier, wpc, pos, registered,
                    index, why, lastExit, report>>
    BY <1>13 DEF Learn
  <2> QED
    BY <1>a, <2>1, <2>2 DEF TypeOK
<1>14. ASSUME NEW w \in Waiters, WaitFor(w) PROVE TypeOK'
  <2>1. count' \in [Waiters -> Nat]
    BY <1>14, <1>t8 DEF WaitFor
  <2>2. notified' \in [Waiters -> BOOLEAN]
    BY <1>14, <1>t9 DEF WaitFor
  <2>3. notifier' \in [Waiters -> Procs \cup {Nobody}]
    BY <1>14, <1>t10 DEF WaitFor
  <2>4. pos' \in [Waiters -> Nat]
    BY <1>14, <1>t13 DEF WaitFor
  <2>5. wpc' \in [Waiters -> WaiterPcs]
    BY <1>14, <1>t11 DEF WaitFor, WaiterPcs
  <2>6. UNCHANGED <<handles, table, state, exitCode, listeners, listenersLock,
                    cpc, npos, active, registered, index, why, lastExit,
                    report>>
    BY <1>14 DEF WaitFor
  <2> QED
    BY <1>a, <2>1, <2>2, <2>3, <2>4, <2>5, <2>6 DEF TypeOK
<1>15. ASSUME NEW w \in Waiters, CloneConvert(w) PROVE TypeOK'
  <2>1. handles' \in SUBSET Procs
    <3>1. Newborn(w) \in Procs
      BY <1>15, <1>a, <1>t12 DEF CloneConvert, Newborns, Newborn, Creating
    <3> QED
      BY <1>15, <3>1, <1>t0 DEF CloneConvert
  <2>2. wpc' \in [Waiters -> WaiterPcs]
    BY <1>15, <1>t11 DEF CloneConvert, WaiterPcs
  <2>3. UNCHANGED <<table, state, exitCode, listeners, listenersLock, cpc,
                    npos, count, notified, notifier, active, pos, registered,
                    index, why, lastExit, report>>
    BY <1>15 DEF CloneConvert
  <2> QED
    BY <1>a, <2>1, <2>2, <2>3 DEF TypeOK
<1>16. ASSUME NEW w \in Waiters, CloneAdd(w) PROVE TypeOK'
  <2>1. table' \in SUBSET Procs
    <3>1. Newborn(w) \in Procs
      BY <1>16, <1>a, <1>t12 DEF CloneAdd, Newborns, Newborn, Creating
    <3> QED
      BY <1>16, <3>1, <1>t1 DEF CloneAdd
  <2>2. wpc' \in [Waiters -> WaiterPcs]
    BY <1>16, <1>t11 DEF CloneAdd, WaiterPcs
  <2>3. UNCHANGED <<handles, state, exitCode, listeners, listenersLock, cpc,
                    npos, count, notified, notifier, active, pos, registered,
                    index, why, lastExit, report>>
    BY <1>16 DEF CloneAdd
  <2> QED
    BY <1>a, <2>1, <2>2, <2>3 DEF TypeOK
<1>17. ASSUME NEW w \in Waiters, CloneRelease(w) PROVE TypeOK'
  <2>1. cpc' \in [Procs -> ProcPcs]
    <3>1. cpc' = [cpc EXCEPT ![Newborn(w)] = "running"]
      BY <1>17 DEF CloneRelease
    <3> QED
      BY <3>1, <1>t6 DEF ProcPcs
  <2>2. wpc' \in [Waiters -> WaiterPcs]
    BY <1>17, <1>t11 DEF CloneRelease, WaiterPcs
  <2>3. UNCHANGED <<handles, table, state, exitCode, listeners, listenersLock,
                    npos, count, notified, notifier, active, pos, registered,
                    index, why, lastExit, report>>
    BY <1>17 DEF CloneRelease
  <2> QED
    BY <1>a, <2>1, <2>2, <2>3 DEF TypeOK
<1>18. ASSUME NEW w \in Waiters, WaitResolve(w) PROVE TypeOK'
  <2>1. wpc' \in [Waiters -> WaiterPcs]
    <3>1. wpc' = [wpc EXCEPT ![w] = "sleep"]
             \/ wpc' = [wpc EXCEPT ![w] = "check"]
             \/ wpc' = [wpc EXCEPT ![w] = "unlist"]
      BY <1>18 DEF WaitResolve, Leave
    <3> QED
      BY <3>1, <1>t11 DEF WaiterPcs
  <2>2. pos' \in [Waiters -> Nat]
    <3>1. pos' = pos \/ pos' = [pos EXCEPT ![w] = 1]
      BY <1>18 DEF WaitResolve, Leave
    <3> QED
      BY <3>1, <1>t13
  <2>3. registered' \in [Waiters -> Nat]
    <3>1. pos[w] > 0
      BY <1>18, <1>a DEF WaitResolve, Indices
    <3>2. registered' = registered \/ registered' = [registered EXCEPT ![w] = pos[w] - 1]
      BY <1>18 DEF WaitResolve, Leave
    <3>3. pos[w] \in Nat /\ pos[w] - 1 \in Nat
      BY <3>1, <1>t13
    <3> QED
      BY <3>2, <3>3, <1>t14
  <2>4. index' \in [Waiters -> Nat]
    <3>1. index' = index \/ index' = [index EXCEPT ![w] = pos[w]]
      BY <1>18 DEF WaitResolve, Leave
    <3> QED
      BY <3>1, <1>t15, <1>t13
  <2>5. why' \in [Waiters -> {"none", "invalid", "dead", "woken"}]
    <3>1. why' = why \/ \E s \in {"invalid", "dead"} : why' = [why EXCEPT ![w] = s]
      BY <1>18 DEF WaitResolve, Leave
    <3> QED
      BY <3>1, <1>t16
  <2>6. UNCHANGED <<handles, table, state, exitCode, listeners, listenersLock,
                    cpc, npos, count, notified, notifier, active, lastExit,
                    report>>
    BY <1>18 DEF WaitResolve, Leave
  <2> QED
    BY <1>a, <2>1, <2>2, <2>3, <2>4, <2>5, <2>6 DEF TypeOK
<1>19. ASSUME NEW w \in Waiters, WaitCheck(w) PROVE TypeOK'
  <2>1. wpc' \in [Waiters -> WaiterPcs]
    <3>1. wpc' = [wpc EXCEPT ![w] = "crashed"]
             \/ wpc' = [wpc EXCEPT ![w] = "enlist"]
             \/ wpc' = [wpc EXCEPT ![w] = "unlist"]
      BY <1>19 DEF WaitCheck, Leave
    <3> QED
      BY <3>1, <1>t11 DEF WaiterPcs
  <2>2. pos' \in [Waiters -> Nat]
    <3>1. pos' = pos \/ pos' = [pos EXCEPT ![w] = 1]
      BY <1>19 DEF WaitCheck, Leave
    <3> QED
      BY <3>1, <1>t13
  <2>3. registered' \in [Waiters -> Nat]
    <3>1. pos[w] > 0
      BY <1>19, <1>a DEF WaitCheck, Indices
    <3>2. registered' = registered \/ registered' = [registered EXCEPT ![w] = pos[w] - 1]
      BY <1>19 DEF WaitCheck, Leave
    <3>3. pos[w] \in Nat /\ pos[w] - 1 \in Nat
      BY <3>1, <1>t13
    <3> QED
      BY <3>2, <3>3, <1>t14
  <2>4. index' \in [Waiters -> Nat]
    <3>1. index' = index \/ index' = [index EXCEPT ![w] = pos[w]]
      BY <1>19 DEF WaitCheck, Leave
    <3> QED
      BY <3>1, <1>t15, <1>t13
  <2>5. why' \in [Waiters -> {"none", "invalid", "dead", "woken"}]
    <3>1. why' = why \/ \E s \in {"invalid", "dead"} : why' = [why EXCEPT ![w] = s]
      BY <1>19 DEF WaitCheck, Leave
    <3> QED
      BY <3>1, <1>t16
  <2>6. UNCHANGED <<handles, table, state, exitCode, listeners, listenersLock,
                    cpc, npos, count, notified, notifier, active, lastExit,
                    report>>
    BY <1>19 DEF WaitCheck, Leave
  <2> QED
    BY <1>a, <2>1, <2>2, <2>3, <2>4, <2>5, <2>6 DEF TypeOK
<1>20. ASSUME NEW w \in Waiters, WaitEnlist(w) PROVE TypeOK'
  <2>1. listeners' \in [Procs -> Seq(Waiters)]
    <3>1. Current(w) \in Procs
      BY <1>20, <1>a, <1>t12, <1>t13 DEF WaitEnlist, Current, Indices
    <3>2. Append(listeners[Current(w)], w) \in Seq(Waiters)
      BY <3>1, <1>t4, AppendProperties
    <3>3. listeners' = [listeners EXCEPT ![Current(w)] = Append(@, w)]
      BY <1>20 DEF WaitEnlist
    <3> QED
      BY <3>1, <3>2, <3>3, <1>t4
  <2>2. pos' \in [Waiters -> Nat]
    BY <1>20, <1>t13 DEF WaitEnlist
  <2>3. wpc' \in [Waiters -> WaiterPcs]
    BY <1>20, <1>t11 DEF WaitEnlist, WaiterPcs
  <2>4. UNCHANGED <<handles, table, state, exitCode, listenersLock, cpc, npos,
                    count, notified, notifier, active, registered, index, why,
                    lastExit, report>>
    BY <1>20 DEF WaitEnlist
  <2> QED
    BY <1>a, <2>1, <2>2, <2>3, <2>4 DEF TypeOK
<1>21. ASSUME NEW w \in Waiters, WaitWake(w) PROVE TypeOK'
  <2>1. count' \in [Waiters -> Nat]
    BY <1>21, <1>t8 DEF WaitWake, Leave
  <2>2. wpc' \in [Waiters -> WaiterPcs]
    BY <1>21, <1>t11 DEF WaitWake, Leave, WaiterPcs
  <2>3. pos' \in [Waiters -> Nat]
    BY <1>21, <1>t13 DEF WaitWake, Leave
  <2>4. registered' \in [Waiters -> Nat]
    <3>1. Len(active[w]) \in Nat
      BY <1>t12, LenProperties
    <3>2. registered' = [registered EXCEPT ![w] = Len(active[w])]
      BY <1>21 DEF WaitWake, Leave
    <3> QED
      BY <3>1, <3>2, <1>t14
  <2>5. index' \in [Waiters -> Nat]
    <3>1. IndexOf(active[w], notifier[w]) \in Nat
      <4>1. Len(active[w]) \in Nat
        BY <1>t12, LenProperties
      <4>2. CASE notifier[w] \in Elements(active[w])
        <5>1. \E i \in 1 .. Len(active[w]) : active[w][i] = notifier[w]
          BY <4>2 DEF Elements
        <5>2. IndexOf(active[w], notifier[w]) \in 1 .. Len(active[w])
          BY <4>2, <5>1 DEF IndexOf
        <5> QED
          BY <4>1, <5>2
      <4> QED
        BY <4>2 DEF IndexOf
    <3>2. index' = [index EXCEPT ![w] = IndexOf(active[w], notifier[w])]
      BY <1>21 DEF WaitWake, Leave
    <3> QED
      BY <3>1, <3>2, <1>t15
  <2>6. why' \in [Waiters -> {"none", "invalid", "dead", "woken"}]
    BY <1>21, <1>t16 DEF WaitWake, Leave
  <2>7. UNCHANGED <<handles, table, state, exitCode, listeners, listenersLock,
                    cpc, npos, notified, notifier, active, lastExit, report>>
    BY <1>21 DEF WaitWake, Leave
  <2> QED
    BY <1>a, <2>1, <2>2, <2>3, <2>4, <2>5, <2>6, <2>7 DEF TypeOK
<1>22. ASSUME NEW w \in Waiters, WaitUnlist(w) PROVE TypeOK'
  <2>1. listeners' \in [Procs -> Seq(Waiters)]
    <3>1. \/ UNCHANGED listeners
          \/ listeners' = [listeners EXCEPT ![Current(w)] = <<>>]
          \/ /\ Current(w) \in table
             /\ \E k \in 1 .. Len(listeners[Current(w)]) :
                   listeners' = [listeners EXCEPT ![Current(w)] = SubSeq(@, k, Len(@))]
      BY <1>22 DEF WaitUnlist
    <3>2. CASE UNCHANGED listeners
      BY <3>2, <1>t4
    <3>3. CASE listeners' = [listeners EXCEPT ![Current(w)] = <<>>]
      <4>1. <<>> \in Seq(Waiters)
        OBVIOUS
      <4> QED
        BY <3>3, <4>1, <1>t4
    <3>4. ASSUME Current(w) \in table, NEW k \in 1 .. Len(listeners[Current(w)]),
                 listeners' = [listeners EXCEPT ![Current(w)] = SubSeq(@, k, Len(@))]
          PROVE  listeners' \in [Procs -> Seq(Waiters)]
      <4>1. listeners[Current(w)] \in Seq(Waiters)
        BY <3>4, <1>t4, <1>t1
      <4>2. SubSeq(listeners[Current(w)], k, Len(listeners[Current(w)])) \in Seq(Waiters)
        BY <4>1, LenProperties, ElementOfSeq, SubSeqProperties
      <4> QED
        BY <3>4, <4>2, <1>t4
    <3> QED
      BY <3>1, <3>2, <3>3, <3>4
  <2>2. listenersLock' \in [Procs -> Procs \cup Waiters \cup {Nobody}]
    <3>1. listenersLock' = listenersLock
          \/ listenersLock' = [listenersLock EXCEPT ![Current(w)] = w]
      BY <1>22 DEF WaitUnlist
    <3> QED
      BY <3>1, <1>t5
  <2>3. pos' \in [Waiters -> Nat]
    <3>1. pos' = pos \/ pos' = [pos EXCEPT ![w] = @ + 1]
      BY <1>22 DEF WaitUnlist
    <3> QED
      BY <3>1, <1>t13
  <2>4. wpc' \in [Waiters -> WaiterPcs]
    <3>1. wpc' = wpc \/ wpc' = [wpc EXCEPT ![w] = "spinning"]
      BY <1>22 DEF WaitUnlist
    <3> QED
      BY <3>1, <1>t11 DEF WaiterPcs
  <2>5. UNCHANGED <<handles, table, state, exitCode, cpc, npos, count,
                    notified, notifier, active, registered, index, why,
                    lastExit, report>>
    BY <1>22 DEF WaitUnlist
  <2> QED
    BY <1>a, <2>1, <2>2, <2>3, <2>4, <2>5 DEF TypeOK
<1>23. ASSUME NEW w \in Waiters, WaitReturn(w) PROVE TypeOK'
  <2>1. wpc' \in [Waiters -> WaiterPcs]
    BY <1>23, <1>t11 DEF WaitReturn, WaiterPcs
  <2>2. UNCHANGED <<handles, table, state, exitCode, listeners, listenersLock,
                    cpc, npos, count, notified, notifier, active, pos,
                    registered, index, why, lastExit, report>>
    BY <1>23 DEF WaitReturn
  <2> QED
    BY <1>a, <2>1, <2>2 DEF TypeOK
<1>24. ASSUME NEW w \in Waiters, ReadCode(w) PROVE TypeOK'
  <2>1. report' \in [Procs -> Codes \cup {Success, "none", "Unknown_Error"}]
    <3>1. \/ /\ report' = [report EXCEPT ![Returned(w)] = exitCode[Returned(w)]]
             /\ Returned(w) \in table
          \/ report' = [report EXCEPT ![Returned(w)] = "Unknown_Error"]
      BY <1>24 DEF ReadCode
    <3> QED
      BY <3>1, <1>t18, <1>t3, <1>t1
  <2>2. active' \in [Waiters -> Seq(Procs)]
    <3>1. EraseAt(active[w], index[w]) \in Seq(Procs)
      BY <1>24, <1>a, <1>t12, <1>t15, Erased DEF ReadCode, Indices
    <3>2. active' = active \/ active' = [active EXCEPT ![w] = EraseAt(@, index[w])]
      BY <1>24 DEF ReadCode
    <3> QED
      BY <3>1, <3>2, <1>t12
  <2>3. wpc' \in [Waiters -> WaiterPcs]
    <3>1. wpc' = [wpc EXCEPT ![w] = "delete"] \/ wpc' = [wpc EXCEPT ![w] = "idle"]
      BY <1>24 DEF ReadCode
    <3> QED
      BY <3>1, <1>t11 DEF WaiterPcs
  <2>4. UNCHANGED <<handles, table, state, exitCode, listeners, listenersLock,
                    cpc, npos, count, notified, notifier, pos, registered,
                    index, why, lastExit>>
    BY <1>24 DEF ReadCode
  <2> QED
    BY <1>a, <2>1, <2>2, <2>3, <2>4 DEF TypeOK
<1>25. ASSUME NEW w \in Waiters, RemoveProcess(w) PROVE TypeOK'
  <2>1. table' \in SUBSET Procs
    BY <1>25, <1>t1 DEF RemoveProcess
  <2>2. active' \in [Waiters -> Seq(Procs)]
    <3>1. EraseAt(active[w], index[w]) \in Seq(Procs)
      BY <1>25, <1>a, <1>t12, <1>t15, Erased DEF RemoveProcess, Indices
    <3>2. active' = active \/ active' = [active EXCEPT ![w] = EraseAt(@, index[w])]
      BY <1>25 DEF RemoveProcess
    <3> QED
      BY <3>1, <3>2, <1>t12
  <2>3. wpc' \in [Waiters -> WaiterPcs]
    BY <1>25, <1>t11 DEF RemoveProcess, WaiterPcs
  <2>4. UNCHANGED <<handles, state, exitCode, listeners, listenersLock, cpc,
                    npos, count, notified, notifier, pos, registered, index,
                    why, lastExit, report>>
    BY <1>25 DEF RemoveProcess
  <2> QED
    BY <1>a, <2>1, <2>2, <2>3, <2>4 DEF TypeOK
<1> QED
  BY <1>1, <1>2, <1>3, <1>4, <1>5, <1>6, <1>7, <1>8, <1>9, <1>10, <1>11, <1>12,
     <1>13, <1>14, <1>15, <1>16, <1>17, <1>18, <1>19, <1>20, <1>21, <1>22,
     <1>23, <1>24, <1>25
  DEF Next, ProcStep, WaiterCall, WaiterStep

(* Most steps leave newborns and whoever clones them alone. *)
LEMMA NewbornsFrame ==
    ASSUME Newborns, UNCHANGED active,
           \A p \in Procs : /\ cpc'[p] = "held" <=> cpc[p] = "held"
                            /\ cpc'[p] = "unborn" <=> cpc[p] = "unborn",
           \A w \in Waiters : wpc'[w] = wpc[w] \/ (~Creating(w) /\ ~Creating(w)'),
           \A p \in Procs : cpc[p] = "held" =>
              (p \in handles => p \in handles') /\ (p \in table => p \in table'),
           active \in [Waiters -> Seq(Procs)]
    PROVE  Newborns'
<1>1. \A w \in Waiters : Creating(w)' => Creating(w) /\ wpc'[w] = wpc[w]
  BY DEF Creating
<1>2. \A w \in Waiters : Creating(w) => Creating(w)'
  BY DEF Creating
<1>3. \A w \in Waiters : \A i \in 1 .. Len(active[w]) : active[w][i] \in Procs
  BY ElementOfSeq
<1>4. ASSUME NEW w \in Waiters, Creating(w)'
      PROVE  /\ Len(active'[w]) > 0 /\ cpc'[active'[w][Len(active'[w])]] = "held"
             /\ wpc'[w] # "convert" => active'[w][Len(active'[w])] \in handles'
             /\ wpc'[w] = "release" => active'[w][Len(active'[w])] \in table'
  <2>1. /\ Len(active[w]) > 0 /\ cpc[active[w][Len(active[w])]] = "held"
        /\ wpc[w] # "convert" => active[w][Len(active[w])] \in handles
        /\ wpc[w] = "release" => active[w][Len(active[w])] \in table
    BY <1>1, <1>4 DEF Newborns, Newborn
  <2>2. active[w][Len(active[w])] \in Procs
    BY <1>3, <2>1, LenProperties
  <2> QED
    BY <1>1, <1>4, <2>1, <2>2
<1>5. \A v, w \in Waiters : Creating(v)' /\ Creating(w)' /\ v # w =>
          active'[v][Len(active'[v])] # active'[w][Len(active'[w])]
  BY <1>1 DEF Newborns, Newborn
<1>6. ASSUME NEW w \in Waiters, NEW i \in 1 .. Len(active'[w]),
             cpc'[active'[w][i]] \in {"unborn", "held"}
      PROVE  Creating(w)' /\ i = Len(active'[w])
  <2>1. active[w][i] \in Procs
    BY <1>3
  <2>2. Young(active[w][i])
    BY <1>6, <2>1 DEF Young
  <2> QED
    BY <1>2, <2>2 DEF Newborns
<1> QED
  BY <1>4, <1>5, <1>6 DEF Newborns, Newborn, Young

(* The process that is cloned was in nobody's sequence. *)
LEMMA NewbornsClone ==
    ASSUME TypeOK, Newborns, NEW w \in Waiters, CloneProcess(w)
    PROVE  Newborns'
<1>t_cpc. cpc \in [Procs -> ProcPcs]
  BY DEF TypeOK
<1>t_wpc. wpc \in [Waiters -> WaiterPcs]
  BY DEF TypeOK
<1>t_active. active \in [Waiters -> Seq(Procs)]
  BY DEF TypeOK
<1>1. PICK p \in Procs : /\ cpc[p] = "unborn" /\ cpc' = [cpc EXCEPT ![p] = "held"]
                         /\ active' = [active EXCEPT ![w] = Append(@, p)]
  BY DEF CloneProcess, CGoto
<1>2. /\ wpc[w] = "idle" /\ wpc' = [wpc EXCEPT ![w] = "convert"]
      /\ handles' = handles /\ table' = table
  BY DEF CloneProcess, WGoto, procVars
<1>3. \A v \in Waiters : Len(active[v]) \in Nat
         /\ \A i \in 1 .. Len(active[v]) : active[v][i] \in Procs /\ active[v][i] # p
  <2>1. \A v \in Waiters : Len(active[v]) \in Nat
         /\ \A i \in 1 .. Len(active[v]) : active[v][i] \in Procs
    BY <1>t_active, LenProperties, ElementOfSeq
  <2>2. ASSUME NEW v \in Waiters, NEW i \in 1 .. Len(active[v]), active[v][i] = p
        PROVE  FALSE
    <3>1. Creating(v) /\ i = Len(active[v])
      BY <1>1, <2>2 DEF Newborns, Young
    <3>2. cpc[active[v][i]] = "held"
      BY <3>1 DEF Newborns, Newborn
    <3> QED
      BY <1>1, <2>2, <3>2
  <2> QED
    BY <2>1, <2>2
<1>4. /\ Len(active'[w]) = Len(active[w]) + 1
      /\ active'[w][Len(active[w]) + 1] = p
      /\ \A i \in 1 .. Len(active[w]) : active'[w][i] = active[w][i]
  <2>1. active'[w] = Append(active[w], p)
    BY <1>1, <1>t_active
  <2> QED
    BY <2>1, <1>t_active, AppendProperties
<1>5. \A v \in Waiters \ {w} : active'[v] = active[v] /\ wpc'[v] = wpc[v]
  BY <1>1, <1>2, <1>t_active, <1>t_wpc
<1>6. /\ wpc'[w] = "convert" /\ cpc'[p] = "held"
      /\ \A q \in Procs \ {p} : cpc'[q] = cpc[q]
  BY <1>1, <1>2, <1>t_cpc, <1>t_wpc
<1>7. ASSUME NEW v \in Waiters, Creating(v)'
      PROVE  /\ Len(active'[v]) > 0 /\ cpc'[active'[v][Len(active'[v])]] = "held"
             /\ wpc'[v] # "convert" => active'[v][Len(active'[v])] \in handles'
             /\ wpc'[v] = "release" => active'[v][Len(active'[v])] \in table'
  <2>1. CASE v = w
    BY <1>3, <1>4, <1>6, <2>1
  <2>2. CASE v # w
    <3>1. Creating(v)
      BY <1>5, <1>7, <2>2 DEF Creating
    <3>2. /\ Len(active[v]) > 0 /\ cpc[active[v][Len(active[v])]] = "held"
          /\ wpc[v] # "convert" => active[v][Len(active[v])] \in handles
          /\ wpc[v] = "release" => active[v][Len(active[v])] \in table
      BY <3>1 DEF Newborns, Newborn
    <3>3. active[v][Len(active[v])] \in Procs \ {p}
      BY <1>3, <3>2
    <3> QED
      BY <1>2, <1>5, <1>6, <2>2, <3>2, <3>3
  <2> QED
    BY <2>1, <2>2
<1>8. ASSUME NEW u \in Waiters, NEW v \in Waiters, Creating(u)', Creating(v)', u # v
      PROVE  active'[u][Len(active'[u])] # active'[v][Len(active'[v])]
  <2>1. \A z \in Waiters \ {w} : Creating(z)' =>
           Creating(z) /\ Len(active[z]) > 0 /\ active[z][Len(active[z])] # p
    <3>1. \A z \in Waiters \ {w} : Creating(z)' => Creating(z) /\ Len(active[z]) > 0
      BY <1>5 DEF Creating, Newborns
    <3> QED
      BY <1>3, <3>1
  <2>2. u # w /\ v # w => active[u][Len(active[u])] # active[v][Len(active[v])]
    BY <1>8, <2>1 DEF Newborns, Newborn
  <2> QED
    BY <1>4, <1>5, <1>8, <2>1, <2>2
<1>9. ASSUME NEW v \in Waiters, NEW i \in 1 .. Len(active'[v]),
             cpc'[active'[v][i]] \in {"unborn", "held"}
      PROVE  Creating(v)' /\ i = Len(active'[v])
  <2>1. CASE v = w /\ i = Len(active[w]) + 1
    BY <1>4, <1>6, <2>1 DEF Creating
  <2>2. CASE ~(v = w /\ i = Len(active[w]) + 1)
    <3>1. i \in 1 .. Len(active[v]) /\ active'[v][i] = active[v][i]
      BY <1>3, <1>4, <1>5, <2>2
    <3>2. Young(active[v][i])
      BY <1>3, <1>6, <1>9, <3>1 DEF Young
    <3>3. Creating(v) /\ i = Len(active[v])
      BY <3>1, <3>2 DEF Newborns
    <3>4. v # w
      BY <1>2, <3>3 DEF Creating
    <3> QED
      BY <1>5, <3>3, <3>4 DEF Creating
  <2> QED
    BY <2>1, <2>2
<1> QED
  BY <1>7, <1>8, <1>9 DEF Newborns, Newborn, Young

(* A process that is learnt is not young any more. *)
LEMMA NewbornsLearn ==
    ASSUME TypeOK, Newborns, NEW w \in Waiters, Learn(w)
    PROVE  Newborns'
<1>t_cpc. cpc \in [Procs -> ProcPcs]
  BY DEF TypeOK
<1>t_wpc. wpc \in [Waiters -> WaiterPcs]
  BY DEF TypeOK
<1>t_active. active \in [Waiters -> Seq(Procs)]
  BY DEF TypeOK
<1>1. PICK p \in Procs : /\ cpc[p] \notin {"unborn", "held"}
                         /\ active' = [active EXCEPT ![w] = Append(@, p)]
  BY DEF Learn
<1>2. /\ wpc[w] = "idle" /\ wpc' = wpc /\ cpc' = cpc
      /\ handles' = handles /\ table' = table
  BY DEF Learn, procVars
<1>3. /\ Len(active'[w]) = Len(active[w]) + 1 /\ Len(active[w]) \in Nat
      /\ active'[w][Len(active[w]) + 1] = p
      /\ \A i \in 1 .. Len(active[w]) : active'[w][i] = active[w][i]
  <2>1. active'[w] = Append(active[w], p)
    BY <1>1, <1>t_active
  <2> QED
    BY <2>1, <1>t_active, AppendProperties, LenProperties
<1>4. \A v \in Waiters \ {w} : active'[v] = active[v]
  BY <1>1, <1>t_active
<1>5. \A v \in Waiters : Creating(v) => v # w
  BY <1>2 DEF Creating
<1>6. ASSUME NEW v \in Waiters, NEW i \in 1 .. Len(active'[v]),
             cpc[active'[v][i]] \in {"unborn", "held"}
      PROVE  Creating(v) /\ i = Len(active'[v])
  <2>1. CASE v = w /\ i = Len(active[w]) + 1
    BY <1>1, <1>3, <1>6, <2>1
  <2>2. CASE v = w /\ i # Len(active[w]) + 1
    <3>1. i \in 1 .. Len(active[w]) /\ active'[v][i] = active[w][i]
      BY <1>3, <2>2
    <3>2. Creating(w)
      BY <1>6, <3>1 DEF Newborns, Young
    <3> QED
      BY <1>5, <3>2
  <2>3. CASE v # w
    BY <1>4, <1>6, <2>3 DEF Newborns, Young
  <2> QED
    BY <2>1, <2>2, <2>3
<1> QED
  BY <1>2, <1>4, <1>5, <1>6 DEF Newborns, Newborn, Young, Creating

(* Convert_Native_Handle and AddNewProcess enter the newborn. *)
LEMMA NewbornsEnter ==
    ASSUME TypeOK, Newborns, NEW w \in Waiters, CloneConvert(w) \/ CloneAdd(w)
    PROVE  Newborns'
<1>t_wpc. wpc \in [Waiters -> WaiterPcs]
  BY DEF TypeOK
<1>t_active. active \in [Waiters -> Seq(Procs)]
  BY DEF TypeOK
<1>1. /\ wpc[w] \in {"convert", "add"} /\ active' = active /\ cpc' = cpc
      /\ wpc' = [wpc EXCEPT ![w] = IF wpc[w] = "convert" THEN "add" ELSE "release"]
      /\ handles' = IF wpc[w] = "convert" THEN handles \cup {Newborn(w)} ELSE handles
      /\ table' = IF wpc[w] = "add" THEN table \cup {Newborn(w)} ELSE table
  BY DEF CloneConvert, CloneAdd, WGoto
<1>2. /\ wpc'[w] = IF wpc[w] = "convert" THEN "add" ELSE "release"
      /\ \A v \in Waiters \ {w} : wpc'[v] = wpc[v]
  BY <1>1, <1>t_wpc
<1>3. \A v \in Waiters : Creating(v)' <=> Creating(v)
  BY <1>1, <1>2 DEF Creating
<1>4. ASSUME NEW v \in Waiters, Creating(v)'
      PROVE  /\ Len(active[v]) > 0 /\ cpc[Newborn(v)] = "held"
             /\ wpc'[v] # "convert" => Newborn(v) \in handles'
             /\ wpc'[v] = "release" => Newborn(v) \in table'
  <2>1. /\ Len(active[v]) > 0 /\ cpc[Newborn(v)] = "held"
        /\ wpc[v] # "convert" => Newborn(v) \in handles
        /\ wpc[v] = "release" => Newborn(v) \in table
    BY <1>3, <1>4 DEF Newborns
  <2> QED
    BY <1>1, <1>2, <2>1
<1> QED
  BY <1>1, <1>3, <1>4 DEF Newborns, Newborn, Young

(* Two waiters never have the same newborn. *)
LEMMA NewbornsRelease ==
    ASSUME TypeOK, Newborns, NEW w \in Waiters, CloneRelease(w)
    PROVE  Newborns'
<1>t_cpc. cpc \in [Procs -> ProcPcs]
  BY DEF TypeOK
<1>t_wpc. wpc \in [Waiters -> WaiterPcs]
  BY DEF TypeOK
<1>t_active. active \in [Waiters -> Seq(Procs)]
  BY DEF TypeOK
<1>1. /\ wpc[w] = "release" /\ wpc' = [wpc EXCEPT ![w] = "idle"]
      /\ cpc' = [cpc EXCEPT ![Newborn(w)] = "running"]
      /\ active' = active /\ handles' = handles /\ table' = table
  BY DEF CloneRelease, WGoto, CGoto, procVars
<1>2. /\ wpc'[w] = "idle" /\ \A v \in Waiters \ {w} : wpc'[v] = wpc[v]
  BY <1>1, <1>t_wpc
<1>3. \A v \in Waiters : \A i \in 1 .. Len(active[v]) : active[v][i] \in Procs
  BY <1>t_active, ElementOfSeq
<1>4. Newborn(w) \in Procs
  BY <1>1, <1>3, <1>t_active, LenProperties DEF Newborns, Newborn, Creating
<1>5. /\ cpc'[Newborn(w)] = "running" /\ \A p \in Procs \ {Newborn(w)} : cpc'[p] = cpc[p]
  BY <1>1, <1>4, <1>t_cpc
<1>6. \A v \in Waiters : Creating(v)' <=> Creating(v) /\ v # w
  BY <1>2 DEF Creating
<1>7. Creating(w)
  BY <1>1 DEF Creating
<1>8. ASSUME NEW v \in Waiters, Creating(v), v # w
      PROVE  /\ Len(active[v]) > 0 /\ cpc'[Newborn(v)] = "held"
             /\ wpc'[v] # "convert" => Newborn(v) \in handles
             /\ wpc'[v] = "release" => Newborn(v) \in table
  <2>1. /\ Len(active[v]) > 0 /\ cpc[Newborn(v)] = "held"
        /\ wpc[v] # "convert" => Newborn(v) \in handles
        /\ wpc[v] = "release" => Newborn(v) \in table
    BY <1>8 DEF Newborns
  <2>2. Newborn(v) \in Procs
    BY <1>3, <1>t_active, LenProperties, <2>1 DEF Newborn
  <2>3. Newborn(v) # Newborn(w)
    BY <1>7, <1>8 DEF Newborns
  <2> QED
    BY <1>2, <1>5, <1>8, <2>1, <2>2, <2>3
<1>9. ASSUME NEW v \in Waiters, NEW i \in 1 .. Len(active[v]),
             cpc'[active[v][i]] \in {"unborn", "held"}
      PROVE  Creating(v)' /\ i = Len(active[v])
  <2>1. active[v][i] # Newborn(w) /\ Young(active[v][i])
    BY <1>3, <1>5, <1>9 DEF Young
  <2>2. Creating(v) /\ i = Len(active[v])
    BY <2>1 DEF Newborns
  <2>3. v # w
    BY <2>1, <2>2 DEF Newborn
  <2> QED
    BY <1>6, <2>2, <2>3
<1> QED
  BY <1>1, <1>6, <1>8, <1>9 DEF Newborns, Newborn, Young

(* Nobody forgets a newborn. *)
LEMMA NewbornsForget ==
    ASSUME TypeOK, Newborns, Indices, NEW w \in Waiters, ReadCode(w) \/ RemoveProcess(w)
    PROVE  Newborns'
<1>t_active. active \in [Waiters -> Seq(Procs)]
  BY DEF TypeOK
<1>1. /\ active[w] \in Seq(Procs) /\ index[w] \in 1 .. Len(active[w])
      /\ Returned(w) \in Procs
      /\ \A v \in Waiters \ {w} : active'[v] = active[v] /\ wpc'[v] = wpc[v]
      /\ wpc[w] \in {"code", "delete"} /\ wpc'[w] \in {"delete", "idle"}
      /\ \A i \in 1 .. Len(active'[w]) :
            \E j \in 1 .. Len(active[w]) : active'[w][i] = active[w][j]
  BY Forgotten
<1>2. /\ cpc' = cpc /\ handles' = handles
      /\ table' = table \/ table' = table \ {Returned(w)}
  BY DEF ReadCode, RemoveProcess, procVars
<1>3. \A v \in Waiters : /\ Creating(v)' <=> Creating(v)
                         /\ Creating(v) => v # w
  BY <1>1 DEF Creating
<1>4. \A j \in 1 .. Len(active[w]) : ~Young(active[w][j])
  BY <1>3 DEF Newborns
<1>5. ASSUME NEW v \in Waiters, Creating(v)
      PROVE  /\ Len(active[v]) > 0 /\ cpc[Newborn(v)] = "held"
             /\ wpc[v] # "convert" => Newborn(v) \in handles
             /\ wpc[v] = "release" => Newborn(v) \in table'
  <2>1. /\ Len(active[v]) > 0 /\ cpc[Newborn(v)] = "held"
        /\ wpc[v] # "convert" => Newborn(v) \in handles
        /\ wpc[v] = "release" => Newborn(v) \in table
    BY <1>5 DEF Newborns
  <2>2. Newborn(v) # Returned(w)
    BY <1>1, <1>4, <2>1 DEF Young, Returned
  <2> QED
    BY <1>2, <2>1, <2>2
<1>6. ASSUME NEW v \in Waiters, NEW i \in 1 .. Len(active'[v]),
             cpc[active'[v][i]] \in {"unborn", "held"}
      PROVE  Creating(v) /\ i = Len(active'[v])
  <2>1. v # w
    BY <1>1, <1>4, <1>6 DEF Young
  <2> QED
    BY <1>1, <1>6, <2>1 DEF Newborns, Young
<1>7. ASSUME NEW v \in Waiters, Creating(v)'
      PROVE  /\ Newborn(v)' = Newborn(v)
             /\ active'[v] = active[v] /\ wpc'[v] = wpc[v]
  BY <1>1, <1>3, <1>7 DEF Newborn
<1>8. \A u, v \in Waiters : Creating(u)' /\ Creating(v)' /\ u # v =>
          Newborn(u)' # Newborn(v)'
  BY <1>3, <1>7 DEF Newborns
<1>9. \A v \in Waiters : Creating(v)' =>
          /\ Len(active'[v]) > 0 /\ cpc'[Newborn(v)'] = "held"
          /\ wpc'[v] # "convert" => Newborn(v)' \in handles'
          /\ wpc'[v] = "release" => Newborn(v)' \in table'
  BY <1>2, <1>3, <1>5, <1>7
<1>10. \A v \in Waiters : \A i \in 1 .. Len(active'[v]) :
          Young(active[v][i])' => Creating(v)' /\ i = Len(active'[v])
  BY <1>1, <1>2, <1>3, <1>6 DEF Young
<1> QED
  BY <1>8, <1>9, <1>10 DEF Newborns

(* Newborns is kept by every step. *)
LEMMA NewbornsKept ==
    ASSUME TypeOK, Newborns, Indices, [Next]_vars
    PROVE  Newborns'
<1>t0. TypeOK /\ Newborns /\ Indices
  OBVIOUS
<1>t1. cpc \in [Procs -> ProcPcs]
  BY DEF TypeOK
<1>t2. wpc \in [Waiters -> WaiterPcs]
  BY DEF TypeOK
<1>t3. active \in [Waiters -> Seq(Procs)]
  BY DEF TypeOK
<1>1. CASE UNCHANGED vars
  BY <1>1 DEF vars, procVars, listVars, semVars, waitVars, histVars, Newborns,
     Creating, Young, Newborn
<1>2. ASSUME NEW p \in Procs, ExitCode(p) PROVE Newborns'
  <2>1. active' = active /\ table' = table
    BY <1>2 DEF ExitCode, procVars, waitVars
  <2>2. \A q \in Procs : /\ cpc'[q] = "held" <=> cpc[q] = "held"
                         /\ cpc'[q] = "unborn" <=> cpc[q] = "unborn"
    BY <1>2, <1>t1 DEF ExitCode, CGoto
  <2>3. \A v \in Waiters : wpc'[v] = wpc[v] \/ (~Creating(v) /\ ~Creating(v)')
    BY <1>2, <1>t2 DEF ExitCode, WGoto, waitVars, Creating
  <2>4. \A q \in Procs : cpc[q] = "held" => (q \in handles => q \in handles')
    BY <1>2 DEF ExitCode, procVars
  <2> QED
    BY <1>t0, <1>t3, <2>1, <2>2, <2>3, <2>4, NewbornsFrame
<1>3. ASSUME NEW p \in Procs, ExitState(p) PROVE Newborns'
  <2>1. active' = active /\ table' = table
    BY <1>3 DEF ExitState, procVars, waitVars
  <2>2. \A q \in Procs : /\ cpc'[q] = "held" <=> cpc[q] = "held"
                         /\ cpc'[q] = "unborn" <=> cpc[q] = "unborn"
    BY <1>3, <1>t1 DEF ExitState, CGoto
  <2>3. \A v \in Waiters : wpc'[v] = wpc[v] \/ (~Creating(v) /\ ~Creating(v)')
    BY <1>3, <1>t2 DEF ExitState, WGoto, waitVars, Creating
  <2>4. \A q \in Procs : cpc[q] = "held" => (q \in handles => q \in handles')
    BY <1>3 DEF ExitState, procVars
  <2> QED
    BY <1>t0, <1>t3, <2>1, <2>2, <2>3, <2>4, NewbornsFrame
<1>4. ASSUME NEW p \in Procs, ProgramEnds(p) PROVE Newborns'
  <2>1. active' = active /\ table' = table
    BY <1>4 DEF ProgramEnds, procVars, waitVars
  <2>2. \A q \in Procs : /\ cpc'[q] = "held" <=> cpc[q] = "held"
                         /\ cpc'[q] = "unborn" <=> cpc[q] = "unborn"
    BY <1>4, <1>t1 DEF ProgramEnds, CGoto
  <2>3. \A v \in Waiters : wpc'[v] = wpc[v] \/ (~Creating(v) /\ ~Creating(v)')
    BY <1>4, <1>t2 DEF ProgramEnds, WGoto, waitVars, Creating
  <2>4. \A q \in Procs : cpc[q] = "held" => (q \in handles => q \in handles')
    BY <1>4 DEF ProgramEnds, procVars
  <2> QED
    BY <1>t0, <1>t3, <2>1, <2>2, <2>3, <2>4, NewbornsFrame
<1>5. ASSUME NEW p \in Procs, RemoveHandle(p) PROVE Newborns'
  <2>1. active' = active /\ table' = table
    BY <1>5 DEF RemoveHandle, procVars, waitVars
  <2>2. \A q \in Procs : /\ cpc'[q] = "held" <=> cpc[q] = "held"
                         /\ cpc'[q] = "unborn" <=> cpc[q] = "unborn"
    BY <1>5, <1>t1 DEF RemoveHandle, CGoto
  <2>3. \A v \in Waiters : wpc'[v] = wpc[v] \/ (~Creating(v) /\ ~Creating(v)')
    BY <1>5, <1>t2 DEF RemoveHandle, WGoto, waitVars, Creating
  <2>4. \A q \in Procs : cpc[q] = "held" => (q \in handles => q \in handles')
    BY <1>5 DEF RemoveHandle, procVars
  <2> QED
    BY <1>t0, <1>t3, <2>1, <2>2, <2>3, <2>4, NewbornsFrame
<1>6. ASSUME NEW p \in Procs, SetTerminated(p) PROVE Newborns'
  <2>1. active' = active /\ table' = table
    BY <1>6 DEF SetTerminated, procVars, waitVars
  <2>2. \A q \in Procs : /\ cpc'[q] = "held" <=> cpc[q] = "held"
                         /\ cpc'[q] = "unborn" <=> cpc[q] = "unborn"
    BY <1>6, <1>t1 DEF SetTerminated, CGoto
  <2>3. \A v \in Waiters : wpc'[v] = wpc[v] \/ (~Creating(v) /\ ~Creating(v)')
    BY <1>6, <1>t2 DEF SetTerminated, WGoto, waitVars, Creating
  <2>4. \A q \in Procs : cpc[q] = "held" => (q \in handles => q \in handles')
    BY <1>6 DEF SetTerminated, procVars
  <2> QED
    BY <1>t0, <1>t3, <2>1, <2>2, <2>3, <2>4, NewbornsFrame
<1>7. ASSUME NEW p \in Procs, NotifyLock(p) PROVE Newborns'
  <2>1. active' = active /\ table' = table
    BY <1>7 DEF NotifyLock, procVars, waitVars
  <2>2. \A q \in Procs : /\ cpc'[q] = "held" <=> cpc[q] = "held"
                         /\ cpc'[q] = "unborn" <=> cpc[q] = "unborn"
    BY <1>7, <1>t1 DEF NotifyLock, CGoto
  <2>3. \A v \in Waiters : wpc'[v] = wpc[v] \/ (~Creating(v) /\ ~Creating(v)')
    BY <1>7, <1>t2 DEF NotifyLock, WGoto, waitVars, Creating
  <2>4. \A q \in Procs : cpc[q] = "held" => (q \in handles => q \in handles')
    BY <1>7 DEF NotifyLock, procVars
  <2> QED
    BY <1>t0, <1>t3, <2>1, <2>2, <2>3, <2>4, NewbornsFrame
<1>8. ASSUME NEW p \in Procs, NotifyTest(p) PROVE Newborns'
  <2>1. active' = active /\ table' = table
    BY <1>8 DEF NotifyTest, procVars, waitVars
  <2>2. \A q \in Procs : /\ cpc'[q] = "held" <=> cpc[q] = "held"
                         /\ cpc'[q] = "unborn" <=> cpc[q] = "unborn"
    BY <1>8, <1>t1 DEF NotifyTest, CGoto
  <2>3. \A v \in Waiters : wpc'[v] = wpc[v] \/ (~Creating(v) /\ ~Creating(v)')
    BY <1>8, <1>t2 DEF NotifyTest, WGoto, waitVars, Creating
  <2>4. \A q \in Procs : cpc[q] = "held" => (q \in handles => q \in handles')
    BY <1>8 DEF NotifyTest, procVars
  <2> QED
    BY <1>t0, <1>t3, <2>1, <2>2, <2>3, <2>4, NewbornsFrame
<1>9. ASSUME NEW p \in Procs, NotifyMark(p) PROVE Newborns'
  <2>1. active' = active /\ table' = table
    BY <1>9 DEF NotifyMark, procVars, waitVars
  <2>2. \A q \in Procs : /\ cpc'[q] = "held" <=> cpc[q] = "held"
                         /\ cpc'[q] = "unborn" <=> cpc[q] = "unborn"
    BY <1>9, <1>t1 DEF NotifyMark, CGoto
  <2>3. \A v \in Waiters : wpc'[v] = wpc[v] \/ (~Creating(v) /\ ~Creating(v)')
    BY <1>9, <1>t2 DEF NotifyMark, WGoto, waitVars, Creating
  <2>4. \A q \in Procs : cpc[q] = "held" => (q \in handles => q \in handles')
    BY <1>9 DEF NotifyMark, procVars
  <2> QED
    BY <1>t0, <1>t3, <2>1, <2>2, <2>3, <2>4, NewbornsFrame
<1>10. ASSUME NEW p \in Procs, NotifyPost(p) PROVE Newborns'
  <2>1. active' = active /\ table' = table
    BY <1>10 DEF NotifyPost, procVars, waitVars
  <2>2. \A q \in Procs : /\ cpc'[q] = "held" <=> cpc[q] = "held"
                         /\ cpc'[q] = "unborn" <=> cpc[q] = "unborn"
    BY <1>10, <1>t1 DEF NotifyPost, CGoto
  <2>3. \A v \in Waiters : wpc'[v] = wpc[v] \/ (~Creating(v) /\ ~Creating(v)')
    BY <1>10, <1>t2 DEF NotifyPost, WGoto, waitVars, Creating
  <2>4. \A q \in Procs : cpc[q] = "held" => (q \in handles => q \in handles')
    BY <1>10 DEF NotifyPost, procVars
  <2> QED
    BY <1>t0, <1>t3, <2>1, <2>2, <2>3, <2>4, NewbornsFrame
<1>11. ASSUME NEW p \in Procs, NotifyClear(p) PROVE Newborns'
  <2>1. active' = active /\ table' = table
    BY <1>11 DEF NotifyClear, procVars, waitVars
  <2>2. \A q \in Procs : /\ cpc'[q] = "held" <=> cpc[q] = "held"
                         /\ cpc'[q] = "unborn" <=> cpc[q] = "unborn"
    BY <1>11, <1>t1 DEF NotifyClear, CGoto
  <2>3. \A v \in Waiters : wpc'[v] = wpc[v] \/ (~Creating(v) /\ ~Creating(v)')
    BY <1>11, <1>t2 DEF NotifyClear, WGoto, waitVars, Creating
  <2>4. \A q \in Procs : cpc[q] = "held" => (q \in handles => q \in handles')
    BY <1>11 DEF NotifyClear, procVars
  <2> QED
    BY <1>t0, <1>t3, <2>1, <2>2, <2>3, <2>4, NewbornsFrame
<1>12. ASSUME NEW w \in Waiters, CloneProcess(w) PROVE Newborns'
  BY <1>12, <1>t0, NewbornsClone
<1>13. ASSUME NEW w \in Waiters, Learn(w) PROVE Newborns'
  BY <1>13, <1>t0, NewbornsLearn
<1>14. ASSUME NEW w \in Waiters, WaitFor(w) PROVE Newborns'
  <2>1. active' = active /\ table' = table
    BY <1>14 DEF WaitFor, procVars, waitVars
  <2>2. \A q \in Procs : /\ cpc'[q] = "held" <=> cpc[q] = "held"
                         /\ cpc'[q] = "unborn" <=> cpc[q] = "unborn"
    BY <1>14, <1>t1 DEF WaitFor, CGoto
  <2>3. \A v \in Waiters : wpc'[v] = wpc[v] \/ (~Creating(v) /\ ~Creating(v)')
    BY <1>14, <1>t2 DEF WaitFor, WGoto, waitVars, Creating
  <2>4. \A q \in Procs : cpc[q] = "held" => (q \in handles => q \in handles')
    BY <1>14 DEF WaitFor, procVars
  <2> QED
    BY <1>t0, <1>t3, <2>1, <2>2, <2>3, <2>4, NewbornsFrame
<1>15. ASSUME NEW w \in Waiters, CloneConvert(w) PROVE Newborns'
  BY <1>15, <1>t0, NewbornsEnter
<1>16. ASSUME NEW w \in Waiters, CloneAdd(w) PROVE Newborns'
  BY <1>16, <1>t0, NewbornsEnter
<1>17. ASSUME NEW w \in Waiters, CloneRelease(w) PROVE Newborns'
  BY <1>17, <1>t0, NewbornsRelease
<1>18. ASSUME NEW w \in Waiters, WaitResolve(w) PROVE Newborns'
  <2>1. active' = active /\ table' = table
    BY <1>18 DEF WaitResolve, Leave, procVars, waitVars
  <2>2. \A q \in Procs : /\ cpc'[q] = "held" <=> cpc[q] = "held"
                         /\ cpc'[q] = "unborn" <=> cpc[q] = "unborn"
    BY <1>18, <1>t1 DEF WaitResolve, Leave, CGoto
  <2>3. \A v \in Waiters : wpc'[v] = wpc[v] \/ (~Creating(v) /\ ~Creating(v)')
    BY <1>18, <1>t2 DEF WaitResolve, Leave, WGoto, waitVars, Creating
  <2>4. \A q \in Procs : cpc[q] = "held" => (q \in handles => q \in handles')
    BY <1>18 DEF WaitResolve, Leave, procVars
  <2> QED
    BY <1>t0, <1>t3, <2>1, <2>2, <2>3, <2>4, NewbornsFrame
<1>19. ASSUME NEW w \in Waiters, WaitCheck(w) PROVE Newborns'
  <2>1. active' = active /\ table' = table
    BY <1>19 DEF WaitCheck, Leave, procVars, waitVars
  <2>2. \A q \in Procs : /\ cpc'[q] = "held" <=> cpc[q] = "held"
                         /\ cpc'[q] = "unborn" <=> cpc[q] = "unborn"
    BY <1>19, <1>t1 DEF WaitCheck, Leave, CGoto
  <2>3. \A v \in Waiters : wpc'[v] = wpc[v] \/ (~Creating(v) /\ ~Creating(v)')
    BY <1>19, <1>t2 DEF WaitCheck, Leave, WGoto, waitVars, Creating
  <2>4. \A q \in Procs : cpc[q] = "held" => (q \in handles => q \in handles')
    BY <1>19 DEF WaitCheck, Leave, procVars
  <2> QED
    BY <1>t0, <1>t3, <2>1, <2>2, <2>3, <2>4, NewbornsFrame
<1>20. ASSUME NEW w \in Waiters, WaitEnlist(w) PROVE Newborns'
  <2>1. active' = active /\ table' = table
    BY <1>20 DEF WaitEnlist, procVars, waitVars
  <2>2. \A q \in Procs : /\ cpc'[q] = "held" <=> cpc[q] = "held"
                         /\ cpc'[q] = "unborn" <=> cpc[q] = "unborn"
    BY <1>20, <1>t1 DEF WaitEnlist, CGoto
  <2>3. \A v \in Waiters : wpc'[v] = wpc[v] \/ (~Creating(v) /\ ~Creating(v)')
    BY <1>20, <1>t2 DEF WaitEnlist, WGoto, waitVars, Creating
  <2>4. \A q \in Procs : cpc[q] = "held" => (q \in handles => q \in handles')
    BY <1>20 DEF WaitEnlist, procVars
  <2> QED
    BY <1>t0, <1>t3, <2>1, <2>2, <2>3, <2>4, NewbornsFrame
<1>21. ASSUME NEW w \in Waiters, WaitWake(w) PROVE Newborns'
  <2>1. active' = active /\ table' = table
    BY <1>21 DEF WaitWake, Leave, procVars, waitVars
  <2>2. \A q \in Procs : /\ cpc'[q] = "held" <=> cpc[q] = "held"
                         /\ cpc'[q] = "unborn" <=> cpc[q] = "unborn"
    BY <1>21, <1>t1 DEF WaitWake, Leave, CGoto
  <2>3. \A v \in Waiters : wpc'[v] = wpc[v] \/ (~Creating(v) /\ ~Creating(v)')
    BY <1>21, <1>t2 DEF WaitWake, Leave, WGoto, waitVars, Creating
  <2>4. \A q \in Procs : cpc[q] = "held" => (q \in handles => q \in handles')
    BY <1>21 DEF WaitWake, Leave, procVars
  <2> QED
    BY <1>t0, <1>t3, <2>1, <2>2, <2>3, <2>4, NewbornsFrame
<1>22. ASSUME NEW w \in Waiters, WaitUnlist(w) PROVE Newborns'
  <2>1. active' = active /\ table' = table
    BY <1>22 DEF WaitUnlist, procVars, waitVars
  <2>2. \A q \in Procs : /\ cpc'[q] = "held" <=> cpc[q] = "held"
                         /\ cpc'[q] = "unborn" <=> cpc[q] = "unborn"
    BY <1>22, <1>t1 DEF WaitUnlist, CGoto
  <2>3. \A v \in Waiters : wpc'[v] = wpc[v] \/ (~Creating(v) /\ ~Creating(v)')
    BY <1>22, <1>t2 DEF WaitUnlist, WGoto, waitVars, Creating
  <2>4. \A q \in Procs : cpc[q] = "held" => (q \in handles => q \in handles')
    BY <1>22 DEF WaitUnlist, procVars
  <2> QED
    BY <1>t0, <1>t3, <2>1, <2>2, <2>3, <2>4, NewbornsFrame
<1>23. ASSUME NEW w \in Waiters, WaitReturn(w) PROVE Newborns'
  <2>1. active' = active /\ table' = table
    BY <1>23 DEF WaitReturn, procVars, waitVars
  <2>2. \A q \in Procs : /\ cpc'[q] = "held" <=> cpc[q] = "held"
                         /\ cpc'[q] = "unborn" <=> cpc[q] = "unborn"
    BY <1>23, <1>t1 DEF WaitReturn, CGoto
  <2>3. \A v \in Waiters : wpc'[v] = wpc[v] \/ (~Creating(v) /\ ~Creating(v)')
    BY <1>23, <1>t2 DEF WaitReturn, WGoto, waitVars, Creating
  <2>4. \A q \in Procs : cpc[q] = "held" => (q \in handles => q \in handles')
    BY <1>23 DEF WaitReturn, procVars
  <2> QED
    BY <1>t0, <1>t3, <2>1, <2>2, <2>3, <2>4, NewbornsFrame
<1>24. ASSUME NEW w \in Waiters, ReadCode(w) PROVE Newborns'
  BY <1>24, <1>t0, NewbornsForget
<1>25. ASSUME NEW w \in Waiters, RemoveProcess(w) PROVE Newborns'
  BY <1>25, <1>t0, NewbornsForget
<1> QED
  BY <1>1, <1>2, <1>3, <1>4, <1>5, <1>6, <1>7, <1>8, <1>9, <1>10, <1>11, <1>12,
     <1>13, <1>14, <1>15, <1>16, <1>17, <1>18, <1>19, <1>20, <1>21, <1>22,
     <1>23, <1>24, <1>25 DEF Next, ProcStep, WaiterCall, WaiterStep

(* Only a process that is Terminated leaves the table. *)
LEMMA LifeForget ==
    ASSUME TypeOK, Life, Indices, NEW w \in Waiters, RemoveProcess(w)
    PROVE  Life'
<1>1. /\ wpc[w] = "delete" /\ table' = table \ {Returned(w)}
      /\ UNCHANGED <<handles, state, lastExit, listeners, cpc>>
  BY DEF RemoveProcess, listVars, histVars
<1>2. state[Returned(w)] = "Terminated"
  BY <1>1 DEF Indices
<1> QED
  BY <1>1, <1>2 DEF Life, Young

(* Nobody waits for a process that is being cloned. *)
LEMMA LifeEnlist ==
    ASSUME TypeOK, Newborns, Life, Indices, NEW w \in Waiters, WaitEnlist(w)
    PROVE  Life'
<1>t_listeners. listeners \in [Procs -> Seq(Waiters)]
  BY DEF TypeOK
<1>t_active. active \in [Waiters -> Seq(Procs)]
  BY DEF TypeOK
<1>t_pos. pos \in [Waiters -> Nat]
  BY DEF TypeOK
<1>1. /\ wpc[w] = "enlist" /\ listeners' = [listeners EXCEPT ![Current(w)] = Append(@, w)]
      /\ UNCHANGED <<handles, table, state, lastExit, cpc>>
  BY DEF WaitEnlist, procVars, histVars
<1>2. pos[w] \in 1 .. Len(active[w])
  BY <1>1, <1>t_active, <1>t_pos, LenProperties DEF Indices
<1>3. Current(w) \in Procs
  BY <1>2, <1>t_active, ElementOfSeq DEF Current
<1>4. ~Young(Current(w))
  BY <1>1, <1>2 DEF Newborns, Creating, Current
<1>5. \A p \in Procs \ {Current(w)} : listeners'[p] = listeners[p]
  BY <1>1, <1>3, <1>t_listeners
<1>6. \A p \in Procs : Young(p) => listeners'[p] = listeners[p]
  BY <1>4, <1>5
<1> QED
  BY <1>1, <1>6 DEF Life, Young

(* A process that looks at a listener is Terminated. *)
LEMMA LifeTest ==
    ASSUME TypeOK, Life, NEW p \in Procs, NotifyTest(p)
    PROVE  Life'
<1>t_cpc. cpc \in [Procs -> ProcPcs]
  BY DEF TypeOK
<1>1. /\ cpc[p] = "notify" /\ cpc' \in {cpc, [cpc EXCEPT ![p] = "mark"]}
      /\ UNCHANGED <<handles, table, state, lastExit, listeners>>
  BY DEF NotifyTest, CGoto, procVars, listVars, histVars
<1>2. /\ cpc'[p] \in {"notify", "mark"} /\ \A q \in Procs \ {p} : cpc'[q] = cpc[q]
  BY <1>1, <1>t_cpc
<1> QED
  BY <1>1, <1>2 DEF Life, Young

(* Life is kept by every step. *)
LEMMA LifeKept ==
    ASSUME TypeOK, Newborns, Life, Indices, [Next]_vars
    PROVE  Life'
<1>a. TypeOK /\ Newborns /\ Life /\ Indices
  OBVIOUS
<1>1. ASSUME NEW p \in Procs, NotifyTest(p) PROVE Life'
  BY <1>1, <1>a, LifeTest
<1>2. ASSUME NEW w \in Waiters, WaitEnlist(w) PROVE Life'
  BY <1>2, <1>a, LifeEnlist
<1>3. ASSUME NEW w \in Waiters, RemoveProcess(w) PROVE Life'
  BY <1>3, <1>a, LifeForget
<1> USE Kinds DEF procVars, listVars, semVars, waitVars, histVars, WGoto, CGoto,
        TypeOK, Newborns, Life, Newborn, Creating, Young
<1>4. CASE UNCHANGED vars
  BY <1>4 DEF vars
<1>5. ASSUME NEW p \in Procs, ExitCode(p) PROVE Life'
  BY <1>5 DEF ExitCode
<1>6. ASSUME NEW p \in Procs, ExitState(p) PROVE Life'
  BY <1>6 DEF ExitState
<1>7. ASSUME NEW p \in Procs, ProgramEnds(p) PROVE Life'
  BY <1>7 DEF ProgramEnds
<1>8. ASSUME NEW p \in Procs, RemoveHandle(p) PROVE Life'
  BY <1>8 DEF RemoveHandle
<1>9. ASSUME NEW p \in Procs, SetTerminated(p) PROVE Life'
  BY <1>9 DEF SetTerminated
<1>10. ASSUME NEW p \in Procs, NotifyLock(p) PROVE Life'
  BY <1>10 DEF NotifyLock
<1>11. ASSUME NEW p \in Procs, NotifyMark(p) PROVE Life'
  BY <1>11 DEF NotifyMark
<1>12. ASSUME NEW p \in Procs, NotifyPost(p) PROVE Life'
  BY <1>12 DEF NotifyPost
<1>13. ASSUME NEW p \in Procs, NotifyClear(p) PROVE Life'
  BY <1>13 DEF NotifyClear
<1>14. ASSUME NEW w \in Waiters, CloneProcess(w) PROVE Life'
  BY <1>14 DEF CloneProcess
<1>15. ASSUME NEW w \in Waiters, Learn(w) PROVE Life'
  BY <1>15 DEF Learn
<1>16. ASSUME NEW w \in Waiters, WaitFor(w) PROVE Life'
  BY <1>16 DEF WaitFor
<1>17. ASSUME NEW w \in Waiters, CloneConvert(w) PROVE Life'
  BY <1>17 DEF CloneConvert
<1>18. ASSUME NEW w \in Waiters, CloneAdd(w) PROVE Life'
  BY <1>18 DEF CloneAdd
<1>19. ASSUME NEW w \in Waiters, CloneRelease(w) PROVE Life'
  BY <1>19 DEF CloneRelease
<1>20. ASSUME NEW w \in Waiters, WaitResolve(w) PROVE Life'
  BY <1>20 DEF WaitResolve, Leave
<1>21. ASSUME NEW w \in Waiters, WaitCheck(w) PROVE Life'
  BY <1>21 DEF WaitCheck, Leave
<1>22. ASSUME NEW w \in Waiters, WaitWake(w) PROVE Life'
  BY <1>22 DEF WaitWake, Leave
<1>23. ASSUME NEW w \in Waiters, WaitUnlist(w) PROVE Life'
  BY <1>23 DEF WaitUnlist
<1>24. ASSUME NEW w \in Waiters, WaitReturn(w) PROVE Life'
  BY <1>24 DEF WaitReturn
<1>25. ASSUME NEW w \in Waiters, ReadCode(w) PROVE Life'
  BY <1>25 DEF ReadCode
<1> QED
  BY <1>1, <1>2, <1>3, <1>4, <1>5, <1>6, <1>7, <1>8, <1>9, <1>10, <1>11, <1>12,
     <1>13, <1>14, <1>15, <1>16, <1>17, <1>18, <1>19, <1>20, <1>21, <1>22,
     <1>23, <1>24, <1>25 DEF Next, ProcStep, WaiterCall, WaiterStep

(* What is reported is the code of a process that is Terminated. *)
LEMMA CodesRead ==
    ASSUME TypeOK, CodesFinal, Indices, NEW w \in Waiters, ReadCode(w)
    PROVE  CodesFinal'
<1>t_report. report \in [Procs -> Codes \cup {Success, "none", "Unknown_Error"}]
  BY DEF TypeOK
<1>1. Returned(w) \in Procs
  BY Forgotten
<1>2. /\ UNCHANGED <<exitCode, state, lastExit, cpc>>
      /\ \/ /\ state[Returned(w)] = "Terminated"
            /\ report' = [report EXCEPT ![Returned(w)] = exitCode[Returned(w)]]
         \/ report' = [report EXCEPT ![Returned(w)] = "Unknown_Error"]
  BY DEF ReadCode, procVars
<1>3. /\ \A p \in Procs \ {Returned(w)} : report'[p] = report[p]
      /\ \/ /\ state[Returned(w)] = "Terminated"
            /\ report'[Returned(w)] = exitCode[Returned(w)]
         \/ report'[Returned(w)] = "Unknown_Error"
  BY <1>1, <1>2, <1>t_report
<1> QED
  BY <1>2, <1>3 DEF CodesFinal

(* A program begins in a process that is Ready. *)
LEMMA CodesRelease ==
    ASSUME TypeOK, Newborns, Life, CodesFinal, NEW w \in Waiters, CloneRelease(w)
    PROVE  CodesFinal'
<1>t_cpc. cpc \in [Procs -> ProcPcs]
  BY DEF TypeOK
<1>t_active. active \in [Waiters -> Seq(Procs)]
  BY DEF TypeOK
<1>1. /\ wpc[w] = "release" /\ cpc' = [cpc EXCEPT ![Newborn(w)] = "running"]
      /\ UNCHANGED <<exitCode, state, lastExit, report>>
  BY DEF CloneRelease, CGoto, procVars, histVars
<1>2. Len(active[w]) > 0 /\ cpc[Newborn(w)] = "held"
  BY <1>1 DEF Newborns, Creating
<1>3. Newborn(w) \in Procs
  BY <1>2, <1>t_active, LenProperties, ElementOfSeq DEF Newborn
<1>4. state[Newborn(w)] = "Ready"
  BY <1>2, <1>3 DEF Life, Young
<1>5. \A p \in Procs \ {Newborn(w)} : cpc'[p] = cpc[p]
  BY <1>1, <1>3, <1>t_cpc
<1> QED
  BY <1>1, <1>4, <1>5 DEF CodesFinal

(* CodesFinal is kept by every step. *)
LEMMA CodesKept ==
    ASSUME TypeOK, Newborns, Life, CodesFinal, Indices, [Next]_vars
    PROVE  CodesFinal'
<1>a. TypeOK /\ Newborns /\ Life /\ CodesFinal /\ Indices
  OBVIOUS
<1>1. ASSUME NEW w \in Waiters, CloneRelease(w) PROVE CodesFinal'
  BY <1>1, <1>a, CodesRelease
<1>2. ASSUME NEW w \in Waiters, ReadCode(w) PROVE CodesFinal'
  BY <1>2, <1>a, CodesRead
<1> USE Kinds DEF procVars, listVars, semVars, waitVars, histVars, WGoto, CGoto,
        TypeOK, CodesFinal, Life, Young
<1>3. CASE UNCHANGED vars
  BY <1>3 DEF vars
<1>4. ASSUME NEW p \in Procs, ExitCode(p) PROVE CodesFinal'
  BY <1>4 DEF ExitCode
<1>5. ASSUME NEW p \in Procs, ExitState(p) PROVE CodesFinal'
  BY <1>5 DEF ExitState
<1>6. ASSUME NEW p \in Procs, ProgramEnds(p) PROVE CodesFinal'
  BY <1>6 DEF ProgramEnds
<1>7. ASSUME NEW p \in Procs, RemoveHandle(p) PROVE CodesFinal'
  BY <1>7 DEF RemoveHandle
<1>8. ASSUME NEW p \in Procs, SetTerminated(p) PROVE CodesFinal'
  BY <1>8 DEF SetTerminated
<1>9. ASSUME NEW p \in Procs, NotifyLock(p) PROVE CodesFinal'
  BY <1>9 DEF NotifyLock
<1>10. ASSUME NEW p \in Procs, NotifyTest(p) PROVE CodesFinal'
  BY <1>10 DEF NotifyTest
<1>11. ASSUME NEW p \in Procs, NotifyMark(p) PROVE CodesFinal'
  BY <1>11 DEF NotifyMark
<1>12. ASSUME NEW p \in Procs, NotifyPost(p) PROVE CodesFinal'
  BY <1>12 DEF NotifyPost
<1>13. ASSUME NEW p \in Procs, NotifyClear(p) PROVE CodesFinal'
  BY <1>13 DEF NotifyClear
<1>14. ASSUME NEW w \in Waiters, CloneProcess(w) PROVE CodesFinal'
  BY <1>14 DEF CloneProcess
<1>15. ASSUME NEW w \in Waiters, Learn(w) PROVE CodesFinal'
  BY <1>15 DEF Learn
<1>16. ASSUME NEW w \in Waiters, WaitFor(w) PROVE CodesFinal'
  BY <1>16 DEF WaitFor
<1>17. ASSUME NEW w \in Waiters, CloneConvert(w) PROVE CodesFinal'
  BY <1>17 DEF CloneConvert
<1>18. ASSUME NEW w \in Waiters, CloneAdd(w) PROVE CodesFinal'
  BY <1>18 DEF CloneAdd
<1>19. ASSUME NEW w \in Waiters, WaitResolve(w) PROVE CodesFinal'
  BY <1>19 DEF WaitResolve, Leave
<1>20. ASSUME NEW w \in Waiters, WaitCheck(w) PROVE CodesFinal'
  BY <1>20 DEF WaitCheck, Leave
<1>21. ASSUME NEW w \in Waiters, WaitEnlist(w) PROVE CodesFinal'
  BY <1>21 DEF WaitEnlist
<1>22. ASSUME NEW w \in Waiters, WaitWake(w) PROVE CodesFinal'
  BY <1>22 DEF WaitWake, Leave
<1>23. ASSUME NEW w \in Waiters, WaitUnlist(w) PROVE CodesFinal'
  BY <1>23 DEF WaitUnlist
<1>24. ASSUME NEW w \in Waiters, WaitReturn(w) PROVE CodesFinal'
  BY <1>24 DEF WaitReturn
<1>25. ASSUME NEW w \in Waiters, RemoveProcess(w) PROVE CodesFinal'
  BY <1>25 DEF RemoveProcess
<1> QED
  BY <1>1, <1>2, <1>3, <1>4, <1>5, <1>6, <1>7, <1>8, <1>9, <1>10, <1>11, <1>12,
     <1>13, <1>14, <1>15, <1>16, <1>17, <1>18, <1>19, <1>20, <1>21, <1>22,
     <1>23, <1>24, <1>25 DEF Next, ProcStep, WaiterCall, WaiterStep

(* The steps of waitFor stay in the sequence. *)
LEMMA IndicesWait ==
    ASSUME TypeOK, Indices, NEW w \in Waiters,
           \/ WaitResolve(w) \/ WaitCheck(w) \/ WaitEnlist(w)
           \/ WaitWake(w) \/ WaitUnlist(w)
    PROVE  Indices'
<1>t_wpc. wpc \in [Waiters -> WaiterPcs]
  BY DEF TypeOK
<1>t_active. active \in [Waiters -> Seq(Procs)]
  BY DEF TypeOK
<1>t_pos. pos \in [Waiters -> Nat]
  BY DEF TypeOK
<1>t_registered. registered \in [Waiters -> Nat]
  BY DEF TypeOK
<1>t_index. index \in [Waiters -> Nat]
  BY DEF TypeOK
<1>1. active[w] \in Seq(Procs) /\ Len(active[w]) \in Nat /\ pos[w] \in Nat
  BY <1>t_active, <1>t_pos, LenProperties
<1>2. UNCHANGED <<active, state>>
  BY DEF WaitResolve, WaitCheck, WaitEnlist, WaitWake, WaitUnlist, procVars
<1>3. \A v \in Waiters \ {w} :
         /\ wpc'[v] = wpc[v] /\ pos'[v] = pos[v]
         /\ registered'[v] = registered[v] /\ index'[v] = index[v]
  BY <1>t_wpc, <1>t_pos, <1>t_registered, <1>t_index
     DEF WaitResolve, WaitCheck, WaitEnlist, WaitWake, WaitUnlist, Leave, WGoto
<1>4. /\ wpc'[w] \in {"resolve", "check", "enlist", "unlist", "spinning"} => pos'[w] > 0
      /\ wpc'[w] \in {"check", "enlist"} => pos'[w] <= Len(active[w])
      /\ wpc'[w] = "resolve" => pos'[w] <= Len(active[w]) + 1
      /\ wpc'[w] = "unlist" =>
            index'[w] <= Len(active[w]) /\ registered'[w] <= Len(active[w])
      /\ wpc'[w] \notin {"code", "delete"}
  <2>1. CASE WaitResolve(w)
    <3>1. wpc[w] = "resolve" /\ pos[w] > 0 /\ pos[w] <= Len(active[w]) + 1
      BY <2>1 DEF WaitResolve, Indices
    <3>2. \/ wpc'[w] = "sleep"
          \/ wpc'[w] = "check" /\ pos'[w] = pos[w] /\ pos[w] <= Len(active[w])
          \/ /\ wpc'[w] = "unlist" /\ pos'[w] = 1 /\ pos[w] <= Len(active[w])
             /\ index'[w] = pos[w] /\ registered'[w] = pos[w] - 1
      BY <2>1, <1>t_wpc, <1>t_pos, <1>t_registered, <1>t_index DEF WaitResolve,
         Leave, WGoto
    <3> QED
      BY <1>1, <3>1, <3>2
  <2>2. CASE WaitCheck(w)
    <3>1. wpc[w] = "check" /\ pos[w] > 0 /\ pos[w] <= Len(active[w])
      BY <2>2 DEF WaitCheck, Indices
    <3>2. \/ wpc'[w] = "crashed"
          \/ wpc'[w] = "enlist" /\ pos'[w] = pos[w]
          \/ /\ wpc'[w] = "unlist" /\ pos'[w] = 1
             /\ index'[w] = pos[w] /\ registered'[w] = pos[w] - 1
      BY <2>2, <1>t_wpc, <1>t_pos, <1>t_registered, <1>t_index DEF WaitCheck,
         Leave, WGoto
    <3> QED
      BY <1>1, <3>1, <3>2
  <2>3. CASE WaitEnlist(w)
    <3>1. wpc[w] = "enlist" /\ pos[w] > 0 /\ pos[w] <= Len(active[w])
      BY <2>3 DEF WaitEnlist, Indices
    <3>2. wpc'[w] = "resolve" /\ pos'[w] = pos[w] + 1
      BY <2>3, <1>t_wpc, <1>t_pos DEF WaitEnlist, WGoto
    <3> QED
      BY <1>1, <3>1, <3>2
  <2>4. CASE WaitWake(w)
    <3>1. /\ wpc'[w] = "unlist" /\ pos'[w] = 1 /\ registered'[w] = Len(active[w])
          /\ index'[w] = IndexOf(active[w], notifier[w])
      BY <2>4, <1>t_wpc, <1>t_pos, <1>t_registered, <1>t_index DEF WaitWake,
         Leave, WGoto
    <3>2. IndexOf(active[w], notifier[w]) <= Len(active[w])
      BY <1>1, IndexFound
    <3> QED
      BY <1>1, <3>1, <3>2
  <2>5. CASE WaitUnlist(w)
    <3>1. /\ wpc[w] = "unlist" /\ pos[w] > 0
          /\ index[w] <= Len(active[w]) /\ registered[w] <= Len(active[w])
      BY <2>5 DEF WaitUnlist, Indices
    <3>2. /\ wpc'[w] \in {"unlist", "spinning"} /\ pos'[w] \in {pos[w], pos[w] + 1}
          /\ index'[w] = index[w] /\ registered'[w] = registered[w]
      BY <2>5, <3>1, <1>t_wpc, <1>t_pos DEF WaitUnlist, WGoto
    <3> QED
      BY <1>1, <3>1, <3>2
  <2> QED
    BY <2>1, <2>2, <2>3, <2>4, <2>5
<1> QED
  BY <1>2, <1>3, <1>4 DEF Indices, Returned

(* Read_Exit_Code of the process that Wait_For returned. *)
LEMMA IndicesRead ==
    ASSUME TypeOK, Indices, NEW w \in Waiters, ReadCode(w)
    PROVE  Indices'
<1>t_wpc. wpc \in [Waiters -> WaiterPcs]
  BY DEF TypeOK
<1>t_active. active \in [Waiters -> Seq(Procs)]
  BY DEF TypeOK
<1>1. /\ wpc[w] = "code"
      /\ \/ wpc' = [wpc EXCEPT ![w] = "delete"] /\ active' = active
            /\ state[Returned(w)] = "Terminated"
         \/ wpc' = [wpc EXCEPT ![w] = "idle"]
      /\ UNCHANGED <<state, pos, registered, index>>
  BY DEF ReadCode, procVars, WGoto
<1>2. \A v \in Waiters \ {w} : active'[v] = active[v] /\ wpc'[v] = wpc[v]
  BY Forgotten
<1>3. \/ wpc'[w] = "delete" /\ active' = active /\ state[Returned(w)] = "Terminated"
      \/ wpc'[w] = "idle"
  BY <1>1, <1>t_wpc
<1>4. /\ index[w] <= Len(active[w]) /\ registered[w] <= Len(active[w]) /\ index[w] > 0
  BY <1>1 DEF Indices
<1> QED
  BY <1>1, <1>2, <1>3, <1>4 DEF Indices, Returned

(* Indices is kept by every step. *)
LEMMA IndicesKept ==
    ASSUME TypeOK, Indices, [Next]_vars
    PROVE  Indices'
<1>a. TypeOK /\ Indices
  OBVIOUS
<1>1. ASSUME NEW w \in Waiters, WaitResolve(w) PROVE Indices'
  BY <1>1, <1>a, IndicesWait
<1>2. ASSUME NEW w \in Waiters, WaitCheck(w) PROVE Indices'
  BY <1>2, <1>a, IndicesWait
<1>3. ASSUME NEW w \in Waiters, WaitEnlist(w) PROVE Indices'
  BY <1>3, <1>a, IndicesWait
<1>4. ASSUME NEW w \in Waiters, WaitWake(w) PROVE Indices'
  BY <1>4, <1>a, IndicesWait
<1>5. ASSUME NEW w \in Waiters, WaitUnlist(w) PROVE Indices'
  BY <1>5, <1>a, IndicesWait
<1>6. ASSUME NEW w \in Waiters, ReadCode(w) PROVE Indices'
  BY <1>6, <1>a, IndicesRead
<1> USE Kinds DEF procVars, listVars, semVars, waitVars, histVars, WGoto, CGoto,
        TypeOK, Indices, Returned
<1>7. CASE UNCHANGED vars
  BY <1>7 DEF vars
<1>8. ASSUME NEW p \in Procs, ExitCode(p) PROVE Indices'
  BY <1>8 DEF ExitCode
<1>9. ASSUME NEW p \in Procs, ExitState(p) PROVE Indices'
  BY <1>9 DEF ExitState
<1>10. ASSUME NEW p \in Procs, ProgramEnds(p) PROVE Indices'
  BY <1>10 DEF ProgramEnds
<1>11. ASSUME NEW p \in Procs, RemoveHandle(p) PROVE Indices'
  BY <1>11 DEF RemoveHandle
<1>12. ASSUME NEW p \in Procs, SetTerminated(p) PROVE Indices'
  BY <1>12 DEF SetTerminated
<1>13. ASSUME NEW p \in Procs, NotifyLock(p) PROVE Indices'
  BY <1>13 DEF NotifyLock
<1>14. ASSUME NEW p \in Procs, NotifyTest(p) PROVE Indices'
  BY <1>14 DEF NotifyTest
<1>15. ASSUME NEW p \in Procs, NotifyMark(p) PROVE Indices'
  BY <1>15 DEF NotifyMark
<1>16. ASSUME NEW p \in Procs, NotifyPost(p) PROVE Indices'
  BY <1>16 DEF NotifyPost
<1>17. ASSUME NEW p \in Procs, NotifyClear(p) PROVE Indices'
  BY <1>17 DEF NotifyClear
<1>18. ASSUME NEW w \in Waiters, CloneProcess(w) PROVE Indices'
  BY <1>18 DEF CloneProcess
<1>19. ASSUME NEW w \in Waiters, Learn(w) PROVE Indices'
  BY <1>19 DEF Learn
<1>20. ASSUME NEW w \in Waiters, WaitFor(w) PROVE Indices'
  BY <1>20 DEF WaitFor
<1>21. ASSUME NEW w \in Waiters, CloneConvert(w) PROVE Indices'
  BY <1>21 DEF CloneConvert
<1>22. ASSUME NEW w \in Waiters, CloneAdd(w) PROVE Indices'
  BY <1>22 DEF CloneAdd
<1>23. ASSUME NEW w \in Waiters, CloneRelease(w) PROVE Indices'
  BY <1>23 DEF CloneRelease
<1>24. ASSUME NEW w \in Waiters, WaitReturn(w) PROVE Indices'
  BY <1>24 DEF WaitReturn
<1>25. ASSUME NEW w \in Waiters, RemoveProcess(w) PROVE Indices'
  BY <1>25 DEF RemoveProcess
<1> QED
  BY <1>1, <1>2, <1>3, <1>4, <1>5, <1>6, <1>7, <1>8, <1>9, <1>10, <1>11, <1>12,
     <1>13, <1>14, <1>15, <1>16, <1>17, <1>18, <1>19, <1>20, <1>21, <1>22,
     <1>23, <1>24, <1>25 DEF Next, ProcStep, WaiterCall, WaiterStep

(* A turn of the loop over the listeners. *)
LEMMA NotifyingTest ==
    ASSUME TypeOK, Notifying, NEW p \in Procs, NotifyTest(p)
    PROVE  Notifying'
<1>t_cpc. cpc \in [Procs -> ProcPcs]
  BY DEF TypeOK
<1>t_npos. npos \in [Procs -> Nat]
  BY DEF TypeOK
<1>1. /\ cpc[p] = "notify" /\ npos[p] <= Len(listeners[p])
      /\ UNCHANGED <<listeners, listenersLock>>
      /\ \/ cpc' = cpc /\ npos' = [npos EXCEPT ![p] = @ + 1]
         \/ cpc' = [cpc EXCEPT ![p] = "mark"] /\ npos' = npos
  BY DEF NotifyTest, CGoto, listVars
<1>2. /\ \A q \in Procs \ {p} : cpc'[q] = cpc[q] /\ npos'[q] = npos[q]
      /\ \/ cpc'[p] = "notify" /\ npos'[p] = npos[p] + 1
         \/ cpc'[p] = "mark" /\ npos'[p] = npos[p]
  BY <1>1, <1>t_cpc, <1>t_npos
<1>3. npos[p] \in Nat /\ npos[p] > 0 /\ listenersLock[p] = p
  BY <1>1, <1>t_npos DEF Notifying
<1> QED
  BY <1>1, <1>2, <1>3 DEF Notifying

(* A list changes only if nobody goes through it. *)
LEMMA NotifyingUnlist ==
    ASSUME TypeOK, Notifying, NEW w \in Waiters, WaitUnlist(w)
    PROVE  Notifying'
<1>t_listeners. listeners \in [Procs -> Seq(Waiters)]
  BY DEF TypeOK
<1>t_listenersLock. listenersLock \in [Procs -> Procs \cup Waiters \cup {Nobody}]
  BY DEF TypeOK
<1>1. UNCHANGED <<cpc, npos>>
  BY DEF WaitUnlist
<1>2. \/ UNCHANGED <<listeners, listenersLock>>
      \/ /\ listenersLock[Current(w)] = Nobody
         /\ \E s : listeners' = [listeners EXCEPT ![Current(w)] = s]
         /\ \/ listenersLock' = listenersLock
            \/ listenersLock' = [listenersLock EXCEPT ![Current(w)] = w]
  BY DEF WaitUnlist, listVars
<1>3. \A p \in Procs : listenersLock[p] = p =>
         listeners'[p] = listeners[p] /\ listenersLock'[p] = p
  BY <1>2, <1>t_listeners, <1>t_listenersLock, Kinds
<1> QED
  BY <1>1, <1>3 DEF Notifying

(* Notifying is kept by every step. *)
LEMMA NotifyingKept ==
    ASSUME TypeOK, Notifying, Life, [Next]_vars
    PROVE  Notifying'
<1>a. TypeOK /\ Notifying /\ Life
  OBVIOUS
<1>1. ASSUME NEW p \in Procs, NotifyTest(p) PROVE Notifying'
  BY <1>1, <1>a, NotifyingTest
<1>2. ASSUME NEW w \in Waiters, WaitUnlist(w) PROVE Notifying'
  BY <1>2, <1>a, NotifyingUnlist
<1> USE Kinds DEF procVars, listVars, semVars, waitVars, histVars, WGoto, CGoto,
        TypeOK, Notifying
<1>3. CASE UNCHANGED vars
  BY <1>3 DEF vars
<1>4. ASSUME NEW p \in Procs, ExitCode(p) PROVE Notifying'
  BY <1>4 DEF ExitCode
<1>5. ASSUME NEW p \in Procs, ExitState(p) PROVE Notifying'
  BY <1>5 DEF ExitState
<1>6. ASSUME NEW p \in Procs, ProgramEnds(p) PROVE Notifying'
  BY <1>6 DEF ProgramEnds
<1>7. ASSUME NEW p \in Procs, RemoveHandle(p) PROVE Notifying'
  BY <1>7 DEF RemoveHandle
<1>8. ASSUME NEW p \in Procs, SetTerminated(p) PROVE Notifying'
  BY <1>8 DEF SetTerminated
<1>9. ASSUME NEW p \in Procs, NotifyLock(p) PROVE Notifying'
  BY <1>9 DEF NotifyLock
<1>10. ASSUME NEW p \in Procs, NotifyMark(p) PROVE Notifying'
  BY <1>10 DEF NotifyMark
<1>11. ASSUME NEW p \in Procs, NotifyPost(p) PROVE Notifying'
  BY <1>11 DEF NotifyPost
<1>12. ASSUME NEW p \in Procs, NotifyClear(p) PROVE Notifying'
  BY <1>12 DEF NotifyClear
<1>13. ASSUME NEW w \in Waiters, CloneProcess(w) PROVE Notifying'
  BY <1>13 DEF CloneProcess
<1>14. ASSUME NEW w \in Waiters, Learn(w) PROVE Notifying'
  BY <1>14 DEF Learn
<1>15. ASSUME NEW w \in Waiters, WaitFor(w) PROVE Notifying'
  BY <1>15 DEF WaitFor
<1>16. ASSUME NEW w \in Waiters, CloneConvert(w) PROVE Notifying'
  BY <1>16 DEF CloneConvert
<1>17. ASSUME NEW w \in Waiters, CloneAdd(w) PROVE Notifying'
  BY <1>17 DEF CloneAdd
<1>18. ASSUME NEW w \in Waiters, CloneRelease(w) PROVE Notifying'
  BY <1>18 DEF CloneRelease
<1>19. ASSUME NEW w \in Waiters, WaitResolve(w) PROVE Notifying'
  BY <1>19 DEF WaitResolve, Leave
<1>20. ASSUME NEW w \in Waiters, WaitCheck(w) PROVE Notifying'
  BY <1>20 DEF WaitCheck, Leave
<1>21. ASSUME NEW w \in Waiters, WaitEnlist(w) PROVE Notifying'
  BY <1>21 DEF WaitEnlist
<1>22. ASSUME NEW w \in Waiters, WaitWake(w) PROVE Notifying'
  BY <1>22 DEF WaitWake, Leave
<1>23. ASSUME NEW w \in Waiters, WaitReturn(w) PROVE Notifying'
  BY <1>23 DEF WaitReturn
<1>24. ASSUME NEW w \in Waiters, ReadCode(w) PROVE Notifying'
  BY <1>24 DEF ReadCode
<1>25. ASSUME NEW w \in Waiters, RemoveProcess(w) PROVE Notifying'
  BY <1>25 DEF RemoveProcess
<1> QED
  BY <1>1, <1>2, <1>3, <1>4, <1>5, <1>6, <1>7, <1>8, <1>9, <1>10, <1>11, <1>12,
     <1>13, <1>14, <1>15, <1>16, <1>17, <1>18, <1>19, <1>20, <1>21, <1>22,
     <1>23, <1>24, <1>25 DEF Next, ProcStep, WaiterCall, WaiterStep

(* What a step of a waiter has to see to: only its own entries. *)
LEMMA ListedFrame ==
    ASSUME Listed, NEW w \in Waiters,
           \A v \in Waiters \ {w} :
              /\ wpc'[v] = wpc[v] /\ active'[v] = active[v]
              /\ pos'[v] = pos[v] /\ registered'[v] = registered[v],
           listeners' \in [Procs -> Seq(Waiters)], table' \subseteq Procs,
           \A p \in table' : \A v \in Elements(listeners'[p]) :
              IF v = w THEN WaitsFor(w, p)'
              ELSE p \in table /\ v \in Elements(listeners[p])
    PROVE  Listed'
<1>1. \A p \in table' : \A v \in Elements(listeners'[p]) : v \in Waiters
  BY LenProperties, ElementOfSeq DEF Elements
<1>2. ASSUME NEW p \in table', NEW v \in Elements(listeners'[p]) PROVE WaitsFor(v, p)'
  <2>1. CASE v = w
    BY <1>2, <2>1
  <2>2. CASE v # w
    <3>1. WaitsFor(v, p)
      BY <2>2 DEF Listed
    <3>2. v \in Waiters \ {w}
      BY <1>1, <2>2
    <3> QED
      BY <3>1, <3>2 DEF WaitsFor, Enlisted
  <2> QED
    BY <2>1, <2>2
<1>3. \A p : \A v : v \in Elements(listeners'[p]) <=> v \in Elements(listeners[p])'
  BY DEF Elements
<1> QED
  BY <1>2, <1>3 DEF Listed

(* Processes only take listeners away. *)
LEMMA ListedProc ==
    ASSUME TypeOK, Listed, NEW p \in Procs, ExitCode(p) \/ ProcStep(p)
    PROVE  Listed'
<1>t_listeners. listeners \in [Procs -> Seq(Waiters)]
  BY DEF TypeOK
<1>1. UNCHANGED <<table, wpc, active, pos, registered>>
  BY DEF ExitCode, ProcStep, ExitState, ProgramEnds, RemoveHandle,
     SetTerminated,
         NotifyLock, NotifyTest, NotifyMark, NotifyPost, NotifyClear, procVars, waitVars
<1>2. listeners' = listeners \/ listeners' = [listeners EXCEPT ![p] = <<>>]
  BY DEF ExitCode, ProcStep, ExitState, ProgramEnds, RemoveHandle,
     SetTerminated,
         NotifyLock, NotifyTest, NotifyMark, NotifyPost, NotifyClear, listVars
<1>3. \A q \in Procs : Elements(listeners'[q]) \subseteq Elements(listeners[q])
  <2>1. \A q \in Procs : listeners'[q] = listeners[q] \/ listeners'[q] = <<>>
    BY <1>2, <1>t_listeners
  <2>2. Elements(<<>>) = {}
    BY DEF Elements
  <2> QED
    BY <2>1, <2>2
<1>4. table \subseteq Procs
  BY DEF TypeOK
<1>5. \A q \in table : \A v \in Elements(listeners'[q]) : WaitsFor(v, q)'
  BY <1>1, <1>3, <1>4 DEF Listed, WaitsFor, Enlisted
<1>6. \A q : \A v : v \in Elements(listeners'[q]) <=> v \in Elements(listeners[q])'
  BY DEF Elements
<1> QED
  BY <1>1, <1>5, <1>6 DEF Listed

(* Who is not in Wait_For is on no list. *)
LEMMA ListedCall ==
    ASSUME TypeOK, Listed, Newborns, Life, Indices, NEW w \in Waiters,
           \/ CloneProcess(w) \/ Learn(w) \/ WaitFor(w) \/ CloneConvert(w)
           \/ CloneAdd(w) \/ CloneRelease(w) \/ WaitReturn(w)
           \/ ReadCode(w) \/ RemoveProcess(w)
    PROVE  Listed'
<1>t_wpc. wpc \in [Waiters -> WaiterPcs]
  BY DEF TypeOK
<1>t_active. active \in [Waiters -> Seq(Procs)]
  BY DEF TypeOK
<1>t_pos. pos \in [Waiters -> Nat]
  BY DEF TypeOK
<1>t_registered. registered \in [Waiters -> Nat]
  BY DEF TypeOK
<1>t_listeners. listeners \in [Procs -> Seq(Waiters)]
  BY DEF TypeOK
<1>t_table. table \in SUBSET Procs
  BY DEF TypeOK
<1>1. /\ \/ wpc[w] \in {"idle", "convert", "add", "release", "code", "delete"}
         \/ wpc[w] = "unlist" /\ pos[w] > registered[w]
      /\ listeners' = listeners /\ registered' = registered
  BY DEF CloneProcess, Learn, WaitFor, CloneConvert, CloneAdd, CloneRelease,
     WaitReturn,
         ReadCode, RemoveProcess, listVars
<1>2. \A i \in 1 .. Len(active[w]) : ~Enlisted(w, i)
  <2>1. Len(active[w]) \in Nat /\ pos[w] \in Nat /\ registered[w] \in Nat
    BY <1>t_active, <1>t_pos, <1>t_registered, LenProperties
  <2> QED
    BY <1>1, <2>1 DEF Enlisted
<1>3. \A p \in table : w \notin Elements(listeners[p])
  BY <1>2 DEF Listed, WaitsFor
<1>4. \A v \in Waiters \ {w} :
          wpc'[v] = wpc[v] /\ active'[v] = active[v] /\ pos'[v] = pos[v]
  <2>1. CASE ReadCode(w) \/ RemoveProcess(w)
    <3>1. \A v \in Waiters \ {w} : active'[v] = active[v] /\ wpc'[v] = wpc[v]
      BY <2>1, Forgotten
    <3>2. pos' = pos
      BY <2>1 DEF ReadCode, RemoveProcess
    <3> QED
      BY <3>1, <3>2
  <2>2. CASE CloneProcess(w) \/ Learn(w)
    <3>1. /\ \E p : active' = [active EXCEPT ![w] = Append(@, p)]
          /\ wpc' = wpc \/ wpc' = [wpc EXCEPT ![w] = "convert"]
          /\ pos' = pos
      BY <2>2 DEF CloneProcess, Learn, WGoto
    <3> QED
      BY <3>1, <1>t_wpc, <1>t_active
  <2>3. CASE \/ WaitFor(w) \/ CloneConvert(w) \/ CloneAdd(w)
             \/ CloneRelease(w) \/ WaitReturn(w)
    BY <2>3, <1>t_wpc, <1>t_pos
       DEF WaitFor, CloneConvert, CloneAdd, CloneRelease, WaitReturn, WGoto
  <2> QED
    BY <2>1, <2>2, <2>3
<1>5. /\ table' \subseteq Procs
      /\ \A p \in table' : p \in table \/ listeners[p] = <<>>
  <2>1. CASE CloneAdd(w)
    <3>1. Len(active[w]) > 0 /\ cpc[Newborn(w)] = "held"
      BY <2>1 DEF CloneAdd, Newborns, Creating
    <3>2. Newborn(w) \in Procs
      BY <3>1, <1>t_active, LenProperties, ElementOfSeq DEF Newborn
    <3>3. listeners[Newborn(w)] = <<>>
      BY <3>1, <3>2 DEF Life, Young
    <3> QED
      BY <2>1, <3>2, <3>3, <1>t_table DEF CloneAdd
  <2>2. CASE ~CloneAdd(w)
    <3>1. table' \subseteq table
      BY <2>2 DEF CloneProcess, Learn, WaitFor, CloneConvert, CloneRelease,
         WaitReturn,
         ReadCode, RemoveProcess, procVars
    <3> QED
      BY <3>1, <1>t_table
  <2> QED
    BY <2>1, <2>2
<1>6. Elements(<<>>) = {}
  BY DEF Elements
<1>7. \A p \in table' : \A v \in Elements(listeners'[p]) :
         v # w /\ p \in table /\ v \in Elements(listeners[p])
  BY <1>1, <1>3, <1>5, <1>6
<1>8. listeners' \in [Procs -> Seq(Waiters)]
  BY <1>1, <1>t_listeners
<1> QED
  BY <1>1, <1>4, <1>5, <1>7, <1>8, ListedFrame

(* waitFor knows where it is enlisted. *)
LEMMA ListedWait ==
    ASSUME TypeOK, Listed, Indices, NEW w \in Waiters,
           WaitResolve(w) \/ WaitCheck(w) \/ WaitWake(w)
    PROVE  Listed'
<1>t_wpc. wpc \in [Waiters -> WaiterPcs]
  BY DEF TypeOK
<1>t_active. active \in [Waiters -> Seq(Procs)]
  BY DEF TypeOK
<1>t_pos. pos \in [Waiters -> Nat]
  BY DEF TypeOK
<1>t_registered. registered \in [Waiters -> Nat]
  BY DEF TypeOK
<1>t_listeners. listeners \in [Procs -> Seq(Waiters)]
  BY DEF TypeOK
<1>t_table. table \in SUBSET Procs
  BY DEF TypeOK
<1>1. UNCHANGED <<active, table, listeners>>
  BY DEF WaitResolve, WaitCheck, WaitWake, procVars, listVars
<1>2. \A v \in Waiters \ {w} :
         wpc'[v] = wpc[v] /\ pos'[v] = pos[v] /\ registered'[v] = registered[v]
  BY <1>t_wpc, <1>t_pos, <1>t_registered DEF WaitResolve, WaitCheck, WaitWake,
     Leave, WGoto
<1>3. Len(active[w]) \in Nat /\ pos[w] \in Nat
  BY <1>t_active, <1>t_pos, LenProperties
<1>4. ASSUME NEW i \in 1 .. Len(active[w]), Enlisted(w, i) PROVE Enlisted(w, i)'
  <2>1. CASE WaitWake(w)
    <3>1. wpc'[w] = "unlist" /\ pos'[w] = 1 /\ registered'[w] = Len(active[w])
      BY <2>1, <1>t_wpc, <1>t_pos, <1>t_registered DEF WaitWake, Leave, WGoto
    <3> QED
      BY <1>3, <3>1 DEF Enlisted
  <2>2. CASE WaitResolve(w) \/ WaitCheck(w)
    <3>1. wpc[w] \in {"resolve", "check"} /\ i < pos[w]
      BY <1>4, <2>2 DEF WaitResolve, WaitCheck, Enlisted
    <3>2. \/ wpc'[w] \in {"sleep", "crashed"}
          \/ wpc'[w] \in {"check", "enlist"} /\ pos'[w] = pos[w]
          \/ wpc'[w] = "unlist" /\ pos'[w] = 1 /\ registered'[w] = pos[w] - 1
      BY <2>2, <1>t_wpc, <1>t_pos, <1>t_registered DEF WaitResolve, WaitCheck,
         Leave, WGoto
    <3> QED
      BY <1>3, <3>1, <3>2 DEF Enlisted
  <2> QED
    BY <2>1, <2>2
<1>5. \A p \in table : w \in Elements(listeners[p]) => WaitsFor(w, p)'
  BY <1>1, <1>4 DEF Listed, WaitsFor
<1>6. \A p \in table' : \A v \in Elements(listeners'[p]) :
         IF v = w THEN WaitsFor(w, p)' ELSE p \in table /\ v \in Elements(listeners[p])
  BY <1>1, <1>5
<1> QED
  BY <1>1, <1>2, <1>6, <1>t_listeners, <1>t_table, ListedFrame

(* addListener *)
LEMMA ListedEnlist ==
    ASSUME TypeOK, Listed, Indices, NEW w \in Waiters, WaitEnlist(w)
    PROVE  Listed'
<1>t_wpc. wpc \in [Waiters -> WaiterPcs]
  BY DEF TypeOK
<1>t_active. active \in [Waiters -> Seq(Procs)]
  BY DEF TypeOK
<1>t_pos. pos \in [Waiters -> Nat]
  BY DEF TypeOK
<1>t_registered. registered \in [Waiters -> Nat]
  BY DEF TypeOK
<1>t_listeners. listeners \in [Procs -> Seq(Waiters)]
  BY DEF TypeOK
<1>t_table. table \in SUBSET Procs
  BY DEF TypeOK
<1>1. /\ UNCHANGED <<active, table, registered>>
      /\ listeners' = [listeners EXCEPT ![Current(w)] = Append(@, w)]
  BY DEF WaitEnlist, procVars
<1>2. /\ wpc[w] = "enlist" /\ wpc'[w] = "resolve" /\ pos'[w] = pos[w] + 1
      /\ \A v \in Waiters \ {w} : wpc'[v] = wpc[v] /\ pos'[v] = pos[v]
  BY <1>t_wpc, <1>t_pos DEF WaitEnlist, WGoto
<1>3. Len(active[w]) \in Nat /\ pos[w] \in Nat /\ pos[w] \in 1 .. Len(active[w])
  BY <1>2, <1>t_active, <1>t_pos, LenProperties DEF Indices
<1>4. Current(w) \in Procs
  BY <1>3, <1>t_active, ElementOfSeq DEF Current
<1>5. /\ \A p \in Procs \ {Current(w)} : listeners'[p] = listeners[p]
      /\ listeners'[Current(w)] = Append(listeners[Current(w)], w)
  BY <1>1, <1>4, <1>t_listeners
<1>6. /\ Append(listeners[Current(w)], w) \in Seq(Waiters)
      /\ Elements(Append(listeners[Current(w)], w)) \subseteq
             Elements(listeners[Current(w)]) \cup {w}
  <2>1. listeners[Current(w)] \in Seq(Waiters)
    BY <1>4, <1>t_listeners
  <2> QED
    BY <2>1, AppendProperties, LenProperties DEF Elements
<1>7. listeners' \in [Procs -> Seq(Waiters)]
  BY <1>1, <1>6, <1>t_listeners
<1>8. \A i \in 1 .. Len(active[w]) : Enlisted(w, i) \/ i = pos[w] => Enlisted(w, i)'
  BY <1>2, <1>3 DEF Enlisted
<1>9. \A p \in Procs : WaitsFor(w, p) \/ p = Current(w) => WaitsFor(w, p)'
  BY <1>1, <1>3, <1>8 DEF WaitsFor, Current
<1>10. ASSUME NEW p \in table, NEW v \in Elements(listeners'[p])
       PROVE  IF v = w THEN WaitsFor(w, p)' ELSE v \in Elements(listeners[p])
  <2>1. p \in Procs
    BY <1>t_table
  <2>2. \/ v \in Elements(listeners[p])
        \/ p = Current(w) /\ v = w
    BY <1>5, <1>6, <1>10, <2>1
  <2> QED
    BY <1>9, <2>1, <2>2 DEF Listed
<1>11. /\ \A p \in table' : \A v \in Elements(listeners'[p]) :
             IF v = w THEN WaitsFor(w, p)' ELSE p \in table /\ v \in Elements(listeners[p])
       /\ table' \subseteq Procs
       /\ \A v \in Waiters \ {w} :
             /\ wpc'[v] = wpc[v] /\ active'[v] = active[v]
             /\ pos'[v] = pos[v] /\ registered'[v] = registered[v]
  BY <1>1, <1>2, <1>10, <1>t_table
<1> QED
  BY <1>7, <1>11, ListedFrame

(* removeAssignedListener goes through them in their order. *)
LEMMA ListedUnlist ==
    ASSUME TypeOK, Listed, Indices, NEW w \in Waiters, WaitUnlist(w)
    PROVE  Listed'
<1>t_wpc. wpc \in [Waiters -> WaiterPcs]
  BY DEF TypeOK
<1>t_active. active \in [Waiters -> Seq(Procs)]
  BY DEF TypeOK
<1>t_pos. pos \in [Waiters -> Nat]
  BY DEF TypeOK
<1>t_registered. registered \in [Waiters -> Nat]
  BY DEF TypeOK
<1>t_listeners. listeners \in [Procs -> Seq(Waiters)]
  BY DEF TypeOK
<1>t_table. table \in SUBSET Procs
  BY DEF TypeOK
<1>1. /\ UNCHANGED <<active, table, registered>>
      /\ wpc[w] = "unlist" /\ pos[w] <= registered[w]
  BY DEF WaitUnlist, procVars
<1>2. /\ Len(active[w]) \in Nat /\ pos[w] \in Nat /\ registered[w] \in Nat
      /\ pos[w] \in 1 .. Len(active[w])
  <2>1. Len(active[w]) \in Nat /\ pos[w] \in Nat /\ registered[w] \in Nat
    BY <1>t_active, <1>t_pos, <1>t_registered, LenProperties
  <2> QED
    BY <1>1, <2>1 DEF Indices
<1>3. Current(w) \in Procs
  BY <1>2, <1>t_active, ElementOfSeq DEF Current
<1>4. \A v \in Waiters \ {w} : wpc'[v] = wpc[v] /\ pos'[v] = pos[v]
  BY <1>t_wpc, <1>t_pos DEF WaitUnlist, WGoto
<1>5. \/ /\ Current(w) \notin table /\ pos'[w] = pos[w] + 1
         /\ wpc'[w] = "unlist" /\ listeners' = listeners
      \/ /\ Current(w) \in table /\ pos'[w] = pos[w] + 1
         /\ wpc'[w] = "unlist" /\ listeners' = [listeners EXCEPT ![Current(w)] = <<>>]
      \/ /\ wpc'[w] = "spinning"
         /\ \E k \in 1 .. Len(listeners[Current(w)]) :
               listeners' = [listeners EXCEPT ![Current(w)] = SubSeq(@, k, Len(@))]
  BY <1>1, <1>t_wpc, <1>t_pos DEF WaitUnlist, WGoto, listVars
<1>6. /\ \A p \in Procs : /\ listeners'[p] \in Seq(Waiters)
                          /\ Elements(listeners'[p]) \subseteq Elements(listeners[p])
      /\ wpc'[w] = "unlist" =>
            w \notin Elements(listeners'[Current(w)]) \/ Current(w) \notin table
  <2>1. listeners[Current(w)] \in Seq(Waiters)
    BY <1>3, <1>t_listeners
  <2>2. Elements(<<>>) = {} /\ <<>> \in Seq(Waiters)
    BY DEF Elements
  <2>3. ASSUME NEW k \in 1 .. Len(listeners[Current(w)])
        PROVE  LET s == SubSeq(listeners[Current(w)], k, Len(listeners[Current(w)]))
               IN  /\ s \in Seq(Waiters)
                   /\ Elements(s) \subseteq Elements(listeners[Current(w)])
    <3> DEFINE l == listeners[Current(w)]
               s == SubSeq(l, k, Len(l))
    <3>1. /\ l \in Seq(Waiters) /\ Len(l) \in Nat
          /\ \A i \in 1 .. Len(l) : l[i] \in Waiters
      BY <2>1, LenProperties, ElementOfSeq
    <3>2. /\ s \in Seq(Waiters) /\ Len(s) = Len(l) - k + 1
          /\ \A i \in 1 .. Len(l) - k + 1 : s[i] = l[k + i - 1]
      BY <3>1, SubSeqProperties
    <3> HIDE DEF l, s
    <3>3. k \in 1 .. Len(l)
      BY DEF l
    <3>4. \A i \in 1 .. Len(s) : k + i - 1 \in 1 .. Len(l)
      BY <3>1, <3>2, <3>3
    <3>5. \A i \in 1 .. Len(s) : s[i] \in Elements(l)
      BY <3>2, <3>4 DEF Elements
    <3>6. Elements(s) \subseteq Elements(l)
      BY <3>5 DEF Elements
    <3> QED
      BY <3>2, <3>6 DEF l, s
  <2>4. CASE listeners' = listeners
    BY <1>5, <2>2, <2>4, <1>t_listeners, <1>3
  <2>5. CASE listeners' = [listeners EXCEPT ![Current(w)] = <<>>]
    BY <2>2, <2>5, <1>t_listeners, <1>3
  <2>6. CASE /\ wpc'[w] = "spinning"
             /\ \E k \in 1 .. Len(listeners[Current(w)]) :
                  listeners' = [listeners EXCEPT ![Current(w)] = SubSeq(@, k, Len(@))]
    <3>1. PICK k \in 1 .. Len(listeners[Current(w)]) :
             listeners' = [listeners EXCEPT ![Current(w)] = SubSeq(@, k, Len(@))]
      BY <2>6
    <3>2. /\ listeners'[Current(w)] =
                SubSeq(listeners[Current(w)], k, Len(listeners[Current(w)]))
          /\ \A p \in Procs \ {Current(w)} : listeners'[p] = listeners[p]
      BY <3>1, <1>t_listeners, <1>3
    <3> QED
      BY <2>3, <2>6, <3>2, <1>t_listeners
  <2> QED
    BY <1>5, <2>4, <2>5, <2>6
<1>7. listeners' \in [Procs -> Seq(Waiters)]
  <2>1. \E s : listeners' = [listeners EXCEPT ![Current(w)] = s]
    BY <1>5, <1>t_listeners, <1>3
  <2> QED
    BY <1>6, <2>1, <1>t_listeners
<1>8. ASSUME NEW p \in table, w \in Elements(listeners'[p]) PROVE WaitsFor(w, p)'
  <2>1. p \in Procs /\ w \in Elements(listeners[p])
    BY <1>6, <1>8, <1>t_table
  <2>2. PICK i \in 1 .. Len(active[w]) : active[w][i] = p /\ Enlisted(w, i)
    BY <2>1 DEF Listed, WaitsFor
  <2>3. pos[w] <= i /\ i <= registered[w]
    BY <1>1, <2>2 DEF Enlisted
  <2>4. CASE wpc'[w] = "spinning"
    BY <1>1, <2>2, <2>4 DEF WaitsFor, Enlisted
  <2>5. CASE wpc'[w] = "unlist"
    <3>1. p # Current(w)
      BY <1>6, <1>8, <2>5
    <3>2. i # pos[w] /\ pos'[w] = pos[w] + 1
      BY <1>5, <2>2, <2>5, <3>1 DEF Current
    <3>3. pos'[w] <= i
      BY <1>2, <2>3, <3>2
    <3> QED
      BY <1>1, <2>2, <2>3, <2>5, <3>3 DEF WaitsFor, Enlisted
  <2> QED
    BY <1>5, <2>4, <2>5
<1>9. \A p \in table' : \A v \in Elements(listeners'[p]) :
         IF v = w THEN WaitsFor(w, p)' ELSE p \in table /\ v \in Elements(listeners[p])
  BY <1>1, <1>6, <1>8, <1>t_table
<1> QED
  BY <1>1, <1>4, <1>7, <1>9, <1>t_table, ListedFrame

(* Listed is kept by every step. *)
LEMMA ListedKept ==
    ASSUME TypeOK, Newborns, Life, Indices, Listed, [Next]_vars
    PROVE  Listed'
<1>1. CASE UNCHANGED vars
  BY <1>1 DEF vars, procVars, listVars, waitVars, Listed, WaitsFor, Enlisted,
     Elements
<1>2. ASSUME NEW p \in Procs, ExitCode(p) \/ ProcStep(p) PROVE Listed'
  BY <1>2, ListedProc
<1>3. ASSUME NEW w \in Waiters, WaiterCall(w) \/ WaiterStep(w) PROVE Listed'
  BY <1>3, ListedCall, ListedWait, ListedEnlist, ListedUnlist DEF WaiterCall,
     WaiterStep
<1> QED
  BY <1>1, <1>2, <1>3 DEF Next


(* The steps of a waiter that leave its Semaphore alone. *)
LEMMA NotifiersWait ==
    ASSUME TypeOK, Notifiers, Newborns, Life, Indices, NEW w \in Waiters,
           \/ WaitResolve(w) \/ WaitCheck(w) \/ WaitUnlist(w)
           \/ ReadCode(w) \/ CloneAdd(w)
    PROVE  Notifiers'
<1>t_wpc. wpc \in [Waiters -> WaiterPcs]
  BY DEF TypeOK
<1>1. UNCHANGED <<notifier, state>>
  BY DEF WaitResolve, WaitCheck, WaitUnlist, ReadCode, CloneAdd, semVars,
     procVars
<1>2. \A p \in table' : state[p] = "Terminated" => p \in table
  <2>1. CASE CloneAdd(w)
    BY <2>1, NewbornReady DEF CloneAdd
  <2>2. CASE ~CloneAdd(w)
    BY <2>2 DEF WaitResolve, WaitCheck, WaitUnlist, ReadCode, procVars
  <2> QED
    BY <2>1, <2>2
<1>3. \A v \in Waiters : InWait(v)' => InWait(v) /\ active'[v] = active[v]
  <2>1. CASE ReadCode(w)
    <3>1. /\ \A v \in Waiters \ {w} : active'[v] = active[v] /\ wpc'[v] = wpc[v]
          /\ wpc'[w] \in {"delete", "idle"}
      BY <2>1, Forgotten
    <3> QED
      BY <3>1 DEF InWait
  <2>2. CASE ~ReadCode(w)
    <3>1. /\ active' = active /\ \A v \in Waiters \ {w} : wpc'[v] = wpc[v]
          /\ wpc[w] \in {"resolve", "check", "unlist"} \/ wpc'[w] = "release"
      BY <2>2, <1>t_wpc DEF WaitResolve, WaitCheck, WaitUnlist, CloneAdd, Leave,
         WGoto
    <3> QED
      BY <3>1 DEF InWait
  <2> QED
    BY <2>1, <2>2
<1> QED
  BY <1>1, <1>2, <1>3 DEF Notifiers, Elements

(* The listener that is marked waits for this process. *)
LEMMA NotifiersMark ==
    ASSUME TypeOK, Notifiers, Life, Listed, Notifying, NEW p \in Procs, NotifyMark(p)
    PROVE  Notifiers'
<1>t_notifier. notifier \in [Waiters -> Procs \cup {Nobody}]
  BY DEF TypeOK
<1>t_listeners. listeners \in [Procs -> Seq(Waiters)]
  BY DEF TypeOK
<1>t_npos. npos \in [Procs -> Nat]
  BY DEF TypeOK
<1> DEFINE v == listeners[p][npos[p]]
<1>1. /\ cpc[p] = "mark" /\ notifier' = [notifier EXCEPT ![v] = p]
      /\ UNCHANGED <<state, table, wpc, active>>
  BY DEF NotifyMark, procVars, waitVars
<1>2. npos[p] \in 1 .. Len(listeners[p])
  BY <1>1, <1>t_npos, <1>t_listeners, LenProperties DEF Notifying
<1>3. v \in Waiters /\ v \in Elements(listeners[p])
  BY <1>2, <1>t_listeners, ElementOfSeq DEF Elements
<1> HIDE DEF v
<1>4. notifier'[v] = p /\ \A w \in Waiters \ {v} : notifier'[w] = notifier[w]
  BY <1>1, <1>3, <1>t_notifier
<1>5. state[p] = "Terminated"
  BY <1>1 DEF Life
<1>6. p \in table => p \in Elements(active[v])
  BY <1>3 DEF Listed, WaitsFor, Elements
<1> QED
  BY <1>1, <1>4, <1>5, <1>6 DEF Notifiers, InWait, Elements

(* Notifiers is kept by every step. *)
LEMMA NotifiersKept ==
    ASSUME TypeOK, Newborns, Life, Indices, Notifying, Listed, Notifiers, [Next]_vars
    PROVE  Notifiers'
<1>a. TypeOK /\ Newborns /\ Life /\ Indices /\ Notifying /\ Listed /\ Notifiers
  OBVIOUS
<1>1. ASSUME NEW p \in Procs, NotifyMark(p) PROVE Notifiers'
  BY <1>1, <1>a, NotifiersMark
<1>2. ASSUME NEW w \in Waiters, CloneAdd(w) PROVE Notifiers'
  BY <1>2, <1>a, NotifiersWait
<1>3. ASSUME NEW w \in Waiters, WaitResolve(w) PROVE Notifiers'
  BY <1>3, <1>a, NotifiersWait
<1>4. ASSUME NEW w \in Waiters, WaitCheck(w) PROVE Notifiers'
  BY <1>4, <1>a, NotifiersWait
<1>5. ASSUME NEW w \in Waiters, WaitUnlist(w) PROVE Notifiers'
  BY <1>5, <1>a, NotifiersWait
<1>6. ASSUME NEW w \in Waiters, ReadCode(w) PROVE Notifiers'
  BY <1>6, <1>a, NotifiersWait
<1> USE Kinds DEF procVars, listVars, semVars, waitVars, histVars, WGoto, CGoto,
        TypeOK, Notifiers, InWait, Elements
<1>7. CASE UNCHANGED vars
  BY <1>7 DEF vars
<1>8. ASSUME NEW p \in Procs, ExitCode(p) PROVE Notifiers'
  BY <1>8 DEF ExitCode
<1>9. ASSUME NEW p \in Procs, ExitState(p) PROVE Notifiers'
  BY <1>9 DEF ExitState
<1>10. ASSUME NEW p \in Procs, ProgramEnds(p) PROVE Notifiers'
  BY <1>10 DEF ProgramEnds
<1>11. ASSUME NEW p \in Procs, RemoveHandle(p) PROVE Notifiers'
  BY <1>11 DEF RemoveHandle
<1>12. ASSUME NEW p \in Procs, SetTerminated(p) PROVE Notifiers'
  BY <1>12 DEF SetTerminated
<1>13. ASSUME NEW p \in Procs, NotifyLock(p) PROVE Notifiers'
  BY <1>13 DEF NotifyLock
<1>14. ASSUME NEW p \in Procs, NotifyTest(p) PROVE Notifiers'
  BY <1>14 DEF NotifyTest
<1>15. ASSUME NEW p \in Procs, NotifyPost(p) PROVE Notifiers'
  BY <1>15 DEF NotifyPost
<1>16. ASSUME NEW p \in Procs, NotifyClear(p) PROVE Notifiers'
  BY <1>16 DEF NotifyClear
<1>17. ASSUME NEW w \in Waiters, CloneProcess(w) PROVE Notifiers'
  BY <1>17 DEF CloneProcess
<1>18. ASSUME NEW w \in Waiters, Learn(w) PROVE Notifiers'
  BY <1>18 DEF Learn
<1>19. ASSUME NEW w \in Waiters, WaitFor(w) PROVE Notifiers'
  BY <1>19 DEF WaitFor
<1>20. ASSUME NEW w \in Waiters, CloneConvert(w) PROVE Notifiers'
  BY <1>20 DEF CloneConvert
<1>21. ASSUME NEW w \in Waiters, CloneRelease(w) PROVE Notifiers'
  BY <1>21 DEF CloneRelease
<1>22. ASSUME NEW w \in Waiters, WaitEnlist(w) PROVE Notifiers'
  BY <1>22 DEF WaitEnlist
<1>23. ASSUME NEW w \in Waiters, WaitWake(w) PROVE Notifiers'
  BY <1>23 DEF WaitWake, Leave
<1>24. ASSUME NEW w \in Waiters, WaitReturn(w) PROVE Notifiers'
  BY <1>24 DEF WaitReturn
<1>25. ASSUME NEW w \in Waiters, RemoveProcess(w) PROVE Notifiers'
  BY <1>25 DEF RemoveProcess
<1> QED
  BY <1>1, <1>2, <1>3, <1>4, <1>5, <1>6, <1>7, <1>8, <1>9, <1>10, <1>11, <1>12,
     <1>13, <1>14, <1>15, <1>16, <1>17, <1>18, <1>19, <1>20, <1>21, <1>22,
     <1>23, <1>24, <1>25 DEF Next, ProcStep, WaiterCall, WaiterStep

(* The listener a process has in its hand. *)
LEMMA InHand ==
    ASSUME TypeOK, Notifying, NEW p \in Procs, cpc[p] \in {"mark", "post"}
    PROVE  /\ npos[p] \in 1 .. Len(listeners[p]) /\ listeners[p][npos[p]] \in Waiters
           /\ listeners[p][npos[p]] \in Elements(listeners[p]) /\ listenersLock[p] = p
<1>t_listeners. listeners \in [Procs -> Seq(Waiters)]
  BY DEF TypeOK
<1>t_npos. npos \in [Procs -> Nat]
  BY DEF TypeOK
<1>1. npos[p] \in 1 .. Len(listeners[p]) /\ listenersLock[p] = p
  BY <1>t_npos, <1>t_listeners, LenProperties DEF Notifying
<1> QED
  BY <1>1, <1>t_listeners, ElementOfSeq DEF Elements

(* A listener in hand keeps its Semaphore and its place in the list. *)
LEMMA PostedWaiter ==
    ASSUME TypeOK, Newborns, Life, Indices, Notifying, Listed, Posted, NEW w \in Waiters,
           WaitFor(w) \/ WaitEnlist(w) \/ WaitUnlist(w) \/ CloneAdd(w)
    PROVE  Posted'
<1>t_listeners. listeners \in [Procs -> Seq(Waiters)]
  BY DEF TypeOK
<1>t_count. count \in [Waiters -> Nat]
  BY DEF TypeOK
<1>t_notifier. notifier \in [Waiters -> Procs \cup {Nobody}]
  BY DEF TypeOK
<1>t_pos. pos \in [Waiters -> Nat]
  BY DEF TypeOK
<1>t_active. active \in [Waiters -> Seq(Procs)]
  BY DEF TypeOK
<1>t_table. table \in SUBSET Procs
  BY DEF TypeOK
<1>1. UNCHANGED <<cpc, npos, state>>
  BY DEF WaitFor, WaitEnlist, WaitUnlist, CloneAdd, procVars
<1>2. /\ table \subseteq table'
      /\ \A p \in table' : p \in Procs /\ (state[p] = "Terminated" => p \in table)
  <2>1. CASE CloneAdd(w)
    BY <2>1, NewbornReady, <1>t_table DEF CloneAdd
  <2>2. CASE ~CloneAdd(w)
    BY <2>2, <1>t_table DEF WaitFor, WaitEnlist, WaitUnlist, procVars
  <2> QED
    BY <2>1, <2>2
<1>3. \A p \in table' : cpc[p] = "post" => p \in table
  BY <1>2 DEF Life
<1>4. Deleted => Deleted'
  BY <1>1, <1>2 DEF Deleted
<1>5. \A v \in Waiters : count'[v] > 0 => count[v] > 0 /\ notifier'[v] = notifier[v]
  <2>1. CASE WaitFor(w)
    <3>1. /\ count'[w] = 0
          /\ \A v \in Waiters \ {w} : count'[v] = count[v] /\ notifier'[v] = notifier[v]
      BY <2>1, <1>t_count, <1>t_notifier DEF WaitFor
    <3> QED
      BY <3>1
  <2>2. CASE ~WaitFor(w)
    BY <2>2 DEF WaitEnlist, WaitUnlist, CloneAdd, semVars
  <2> QED
    BY <2>1, <2>2
<1>6. ASSUME NEW p \in table, cpc[p] = "post"
      PROVE  notifier'[listeners'[p][npos[p]]] = notifier[listeners[p][npos[p]]]
  <2> DEFINE v == listeners[p][npos[p]]
  <2>1. p \in Procs
    BY <1>t_table
  <2>2. v \in Waiters /\ v \in Elements(listeners[p]) /\ listenersLock[p] = p
    BY <1>6, <2>1, InHand
  <2> HIDE DEF v
  <2>3. \/ listeners' = listeners
        \/ /\ listenersLock[Current(w)] = Nobody
           /\ \E s : listeners' = [listeners EXCEPT ![Current(w)] = s]
    BY <1>t_listeners DEF WaitFor, WaitEnlist, WaitUnlist, CloneAdd, listVars
  <2>4. listeners'[p] = listeners[p]
    BY <2>1, <2>2, <2>3, <1>t_listeners, Kinds
  <2>5. CASE WaitFor(w)
    <3>1. v # w
      BY <2>2, <2>5 DEF WaitFor, Listed, WaitsFor, Enlisted
    <3>2. notifier'[v] = notifier[v]
      BY <2>2, <2>5, <3>1, <1>t_notifier DEF WaitFor
    <3> QED
      BY <2>4, <3>2 DEF v
  <2>6. CASE ~WaitFor(w)
    BY <2>4, <2>6 DEF WaitEnlist, WaitUnlist, CloneAdd, semVars
  <2> QED
    BY <2>5, <2>6
<1> QED
  BY <1>1, <1>3, <1>4, <1>5, <1>6 DEF Posted

(* The Semaphore is marked before it is posted. *)
LEMMA PostedNotify ==
    ASSUME TypeOK, Life, Notifying, Posted, NEW p \in Procs,
           NotifyTest(p) \/ NotifyMark(p) \/ NotifyPost(p)
    PROVE  Posted'
<1>t_cpc. cpc \in [Procs -> ProcPcs]
  BY DEF TypeOK
<1>t_npos. npos \in [Procs -> Nat]
  BY DEF TypeOK
<1>t_listeners. listeners \in [Procs -> Seq(Waiters)]
  BY DEF TypeOK
<1>t_count. count \in [Waiters -> Nat]
  BY DEF TypeOK
<1>t_notifier. notifier \in [Waiters -> Procs \cup {Nobody}]
  BY DEF TypeOK
<1>t_table. table \in SUBSET Procs
  BY DEF TypeOK
<1> DEFINE v == listeners[p][npos[p]]
<1>1. UNCHANGED <<table, state, listeners>>
  BY DEF NotifyTest, NotifyMark, NotifyPost, procVars, listVars
<1>2. Deleted' = Deleted
  BY <1>1 DEF Deleted
<1>3. \A q \in Procs \ {p} : cpc'[q] = cpc[q] /\ npos'[q] = npos[q]
  BY <1>t_cpc, <1>t_npos DEF NotifyTest, NotifyMark, NotifyPost, CGoto
<1>4. CASE NotifyTest(p)
  <2>1. cpc'[p] # "post" /\ notifier' = notifier /\ count' = count
    BY <1>4, <1>t_cpc DEF NotifyTest, CGoto, semVars
  <2> QED
    BY <1>1, <1>2, <1>3, <1>t_table, <2>1 DEF Posted
<1>5. CASE NotifyMark(p)
  <2>1. v \in Waiters
    BY <1>5, InHand DEF NotifyMark
  <2>2. /\ notifier' = [notifier EXCEPT ![v] = p] /\ count' = count /\ npos' = npos
    BY <1>5 DEF NotifyMark
  <2> HIDE DEF v
  <2>3. notifier'[v] = p /\ \A w \in Waiters \ {v} : notifier'[w] = notifier[w]
    BY <2>1, <2>2, <1>t_notifier
  <2>4. ASSUME NEW q \in table, cpc'[q] = "post"
        PROVE  notifier'[listeners[q][npos'[q]]] \in Procs
    <3>1. CASE q = p
      BY <2>2, <2>3, <3>1 DEF v
    <3>2. CASE q # p
      <4>1. q \in Procs /\ cpc[q] = "post"
        BY <1>3, <1>t_table, <2>4, <3>2
      <4>2. listeners[q][npos[q]] \in Waiters
        BY <4>1, InHand
      <4>3. notifier[listeners[q][npos[q]]] \in Procs
        BY <4>1 DEF Posted
      <4> QED
        BY <2>2, <2>3, <4>2, <4>3
    <3> QED
      BY <3>1, <3>2
  <2>5. \A w \in Waiters : count'[w] > 0 => notifier'[w] \in Procs \/ Deleted
    BY <2>2, <2>3 DEF Posted
  <2> QED
    BY <1>1, <1>2, <2>4, <2>5 DEF Posted
<1>6. CASE NotifyPost(p)
  <2>1. v \in Waiters
    BY <1>6, InHand DEF NotifyPost
  <2>2. /\ cpc[p] = "post" /\ cpc' = [cpc EXCEPT ![p] = "notify"]
        /\ count' = [count EXCEPT ![v] = @ + 1] /\ notifier' = notifier
    BY <1>6 DEF NotifyPost, CGoto
  <2> HIDE DEF v
  <2>3. cpc'[p] # "post" /\ \A w \in Waiters \ {v} : count'[w] = count[w]
    BY <2>1, <2>2, <1>t_cpc, <1>t_count
  <2>4. notifier[v] \in Procs \/ Deleted
    <3>1. CASE p \in table
      BY <2>2, <3>1 DEF Posted, v
    <3>2. CASE p \notin table
      BY <2>2, <3>2 DEF Life, Deleted
    <3> QED
      BY <3>1, <3>2
  <2>5. \A q \in table : cpc'[q] = "post" => notifier[listeners[q][npos'[q]]] \in Procs
    BY <1>3, <1>t_table, <2>3 DEF Posted
  <2>6. \A w \in Waiters : count'[w] > 0 => notifier[w] \in Procs \/ Deleted
    BY <2>1, <2>3, <2>4 DEF Posted
  <2> QED
    BY <1>1, <1>2, <2>2, <2>5, <2>6 DEF Posted
<1> QED
  BY <1>4, <1>5, <1>6

(* Posted is kept by every step. *)
LEMMA PostedKept ==
    ASSUME TypeOK, Newborns, Life, Indices, Notifying, Listed, Posted, [Next]_vars
    PROVE  Posted'
<1>a. TypeOK /\ Newborns /\ Life /\ Indices /\ Notifying /\ Listed /\ Posted
  OBVIOUS
<1>1. ASSUME NEW p \in Procs, NotifyTest(p) PROVE Posted'
  BY <1>1, <1>a, PostedNotify
<1>2. ASSUME NEW p \in Procs, NotifyMark(p) PROVE Posted'
  BY <1>2, <1>a, PostedNotify
<1>3. ASSUME NEW p \in Procs, NotifyPost(p) PROVE Posted'
  BY <1>3, <1>a, PostedNotify
<1>4. ASSUME NEW w \in Waiters, WaitFor(w) PROVE Posted'
  BY <1>4, <1>a, PostedWaiter
<1>5. ASSUME NEW w \in Waiters, CloneAdd(w) PROVE Posted'
  BY <1>5, <1>a, PostedWaiter
<1>6. ASSUME NEW w \in Waiters, WaitEnlist(w) PROVE Posted'
  BY <1>6, <1>a, PostedWaiter
<1>7. ASSUME NEW w \in Waiters, WaitUnlist(w) PROVE Posted'
  BY <1>7, <1>a, PostedWaiter
<1> USE Kinds DEF procVars, listVars, semVars, waitVars, histVars, WGoto, CGoto,
        TypeOK, Posted, Deleted
<1>8. CASE UNCHANGED vars
  BY <1>8 DEF vars
<1>9. ASSUME NEW p \in Procs, ExitCode(p) PROVE Posted'
  BY <1>9 DEF ExitCode
<1>10. ASSUME NEW p \in Procs, ExitState(p) PROVE Posted'
  BY <1>10 DEF ExitState
<1>11. ASSUME NEW p \in Procs, ProgramEnds(p) PROVE Posted'
  BY <1>11 DEF ProgramEnds
<1>12. ASSUME NEW p \in Procs, RemoveHandle(p) PROVE Posted'
  BY <1>12 DEF RemoveHandle
<1>13. ASSUME NEW p \in Procs, SetTerminated(p) PROVE Posted'
  BY <1>13 DEF SetTerminated
<1>14. ASSUME NEW p \in Procs, NotifyLock(p) PROVE Posted'
  BY <1>14 DEF NotifyLock
<1>15. ASSUME NEW p \in Procs, NotifyClear(p) PROVE Posted'
  BY <1>15 DEF NotifyClear
<1>16. ASSUME NEW w \in Waiters, CloneProcess(w) PROVE Posted'
  BY <1>16 DEF CloneProcess
<1>17. ASSUME NEW w \in Waiters, Learn(w) PROVE Posted'
  BY <1>17 DEF Learn
<1>18. ASSUME NEW w \in Waiters, CloneConvert(w) PROVE Posted'
  BY <1>18 DEF CloneConvert
<1>19. ASSUME NEW w \in Waiters, CloneRelease(w) PROVE Posted'
  BY <1>19 DEF CloneRelease
<1>20. ASSUME NEW w \in Waiters, WaitResolve(w) PROVE Posted'
  BY <1>20 DEF WaitResolve, Leave
<1>21. ASSUME NEW w \in Waiters, WaitCheck(w) PROVE Posted'
  BY <1>21 DEF WaitCheck, Leave
<1>22. ASSUME NEW w \in Waiters, WaitWake(w) PROVE Posted'
  BY <1>22 DEF WaitWake, Leave
<1>23. ASSUME NEW w \in Waiters, WaitReturn(w) PROVE Posted'
  BY <1>23 DEF WaitReturn
<1>24. ASSUME NEW w \in Waiters, ReadCode(w) PROVE Posted'
  BY <1>24 DEF ReadCode
<1>25. ASSUME NEW w \in Waiters, RemoveProcess(w) PROVE Posted'
  BY <1>25 DEF RemoveProcess
<1> QED
  BY <1>1, <1>2, <1>3, <1>4, <1>5, <1>6, <1>7, <1>8, <1>9, <1>10, <1>11, <1>12,
     <1>13, <1>14, <1>15, <1>16, <1>17, <1>18, <1>19, <1>20, <1>21, <1>22,
     <1>23, <1>24, <1>25 DEF Next, ProcStep, WaiterCall, WaiterStep

(* What Wait_For returns on each of its ways out. *)
LEMMA ReturnsDecide ==
    ASSUME TypeOK, Newborns, Life, Indices, Notifiers, Posted, ReturnsEnded,
           NEW w \in Waiters,
           WaitResolve(w) \/ WaitCheck(w) \/ WaitWake(w)
    PROVE  ReturnsEnded'
<1>t_wpc. wpc \in [Waiters -> WaiterPcs]
  BY DEF TypeOK
<1>t_active. active \in [Waiters -> Seq(Procs)]
  BY DEF TypeOK
<1>t_pos. pos \in [Waiters -> Nat]
  BY DEF TypeOK
<1>t_index. index \in [Waiters -> Nat]
  BY DEF TypeOK
<1>t_why. why \in [Waiters -> {"none", "invalid", "dead", "woken"}]
  BY DEF TypeOK
<1>t_count. count \in [Waiters -> Nat]
  BY DEF TypeOK
<1>t_cpc. cpc \in [Procs -> ProcPcs]
  BY DEF TypeOK
<1>t_notifier. notifier \in [Waiters -> Procs \cup {Nobody}]
  BY DEF TypeOK
<1>1. UNCHANGED <<active, cpc, state, table>>
  BY DEF WaitResolve, WaitCheck, WaitWake, procVars
<1>2. /\ \A v \in Waiters \ {w} :
            wpc'[v] = wpc[v] /\ index'[v] = index[v] /\ why'[v] = why[v]
      /\ wpc'[w] # "code"
  BY <1>t_wpc, <1>t_index, <1>t_why DEF WaitResolve, WaitCheck, WaitWake, Leave,
     WGoto
<1>3. active[w] \in Seq(Procs) /\ Len(active[w]) \in Nat /\ pos[w] \in Nat
  BY <1>t_active, <1>t_pos, LenProperties
<1>4. ASSUME wpc'[w] = "unlist"
      PROVE  IF index'[w] = 0 THEN Deleted
             ELSE \/ state[active[w][index'[w]]] = "Terminated"
                  \/ why'[w] = "invalid" /\ cpc[active[w][index'[w]]] = "unhandled"
  <2>1. CASE WaitResolve(w)
    <3>1. /\ wpc[w] = "resolve" /\ pos[w] <= Len(active[w]) /\ Current(w) \notin handles
          /\ index'[w] = pos[w] /\ why'[w] = "invalid"
      BY <1>4, <2>1, <1>t_wpc, <1>t_index, <1>t_why DEF WaitResolve, Leave,
         WGoto
    <3>2. pos[w] \in 1 .. Len(active[w])
      BY <1>3, <3>1 DEF Indices
    <3>3. Current(w) \in Procs /\ ~Young(Current(w))
      BY <1>3, <3>1, <3>2, ElementOfSeq DEF Current, Newborns, Creating
    <3>4. state[Current(w)] = "Terminated" \/ cpc[Current(w)] = "unhandled"
      BY <3>1, <3>3, <1>t_cpc DEF Life, Young, ProcPcs
    <3> QED
      BY <3>1, <3>2, <3>4 DEF Current
  <2>2. CASE WaitCheck(w)
    <3>1. /\ wpc[w] = "check" /\ state[Current(w)] = "Terminated" /\ index'[w] = pos[w]
      BY <1>4, <2>2, <1>t_wpc, <1>t_index DEF WaitCheck, Leave, WGoto
    <3>2. pos[w] > 0
      BY <3>1 DEF Indices
    <3> QED
      BY <1>3, <3>1, <3>2 DEF Current
  <2>3. CASE WaitWake(w)
    <3>1. /\ wpc[w] = "sleep" /\ count[w] > 0
          /\ index'[w] = IndexOf(active[w], notifier[w])
      BY <2>3, <1>t_index DEF WaitWake, Leave
    <3>2. CASE notifier[w] \in Elements(active[w])
      <4>1. index'[w] > 0 /\ active[w][index'[w]] = notifier[w]
        BY <1>3, <3>1, <3>2, IndexFound
      <4>2. notifier[w] \in Procs
        BY <1>3, <3>2, ElementOfSeq DEF Elements
      <4>3. state[notifier[w]] = "Terminated"
        BY <4>2 DEF Notifiers
      <4> QED
        BY <4>1, <4>3
    <3>3. CASE notifier[w] \notin Elements(active[w])
      <4>1. index'[w] = 0
        BY <3>1, <3>3 DEF IndexOf
      <4>2. notifier[w] \in Procs \/ Deleted
        BY <3>1 DEF Posted
      <4>3. notifier[w] \in Procs =>
               notifier[w] \notin table /\ state[notifier[w]] = "Terminated"
        BY <3>1, <3>3 DEF Notifiers, InWait
      <4> QED
        BY <4>1, <4>2, <4>3 DEF Deleted
    <3> QED
      BY <3>2, <3>3
  <2> QED
    BY <2>1, <2>2, <2>3
<1> QED
  BY <1>1, <1>2, <1>4 DEF ReturnsEnded, Returned, Deleted

(* Nobody disturbs a result that is about to be returned. *)
LEMMA ReturnsOthers ==
    ASSUME TypeOK, Newborns, Life, Indices, ReturnsEnded, NEW w \in Waiters,
           \/ CloneAdd(w) \/ CloneRelease(w) \/ Learn(w)
           \/ WaitUnlist(w) \/ ReadCode(w)
    PROVE  ReturnsEnded'
<1>t_wpc. wpc \in [Waiters -> WaiterPcs]
  BY DEF TypeOK
<1>t_active. active \in [Waiters -> Seq(Procs)]
  BY DEF TypeOK
<1>t_cpc. cpc \in [Procs -> ProcPcs]
  BY DEF TypeOK
<1>t_index. index \in [Waiters -> Nat]
  BY DEF TypeOK
<1>1. UNCHANGED <<index, why, state>>
  BY DEF CloneAdd, CloneRelease, Learn, WaitUnlist, ReadCode, procVars
<1>2. Deleted => Deleted'
  <2>1. CASE CloneAdd(w)
    <3>1. state[Newborn(w)] = "Ready" /\ table' = table \cup {Newborn(w)}
      BY <2>1, NewbornReady DEF CloneAdd
    <3> QED
      BY <1>1, <3>1 DEF Deleted
  <2>2. CASE ~CloneAdd(w)
    <3>1. table' = table
      BY <2>2 DEF CloneRelease, Learn, WaitUnlist, ReadCode, procVars
    <3> QED
      BY <1>1, <3>1 DEF Deleted
  <2> QED
    BY <2>1, <2>2
<1>3. \A p \in Procs : cpc[p] = "unhandled" => cpc'[p] = "unhandled"
  <2>1. CASE CloneRelease(w)
    <3>1. /\ Newborn(w) \in Procs /\ cpc[Newborn(w)] = "held"
          /\ cpc' = [cpc EXCEPT ![Newborn(w)] = "running"]
      BY <2>1, NewbornReady DEF CloneRelease, CGoto
    <3>2. \A p \in Procs \ {Newborn(w)} : cpc'[p] = cpc[p]
      BY <3>1, <1>t_cpc
    <3> QED
      BY <3>1, <3>2
  <2>2. CASE ~CloneRelease(w)
    BY <2>2 DEF CloneAdd, Learn, WaitUnlist, ReadCode
  <2> QED
    BY <2>1, <2>2
<1>4. \A v \in Waiters : wpc'[v] \in {"unlist", "code"} =>
         wpc[v] \in {"unlist", "code"} /\ active'[v] = active[v]
  <2>1. CASE ReadCode(w)
    BY <2>1, Forgotten
  <2>2. CASE Learn(w)
    <3>1. /\ wpc[w] = "idle" /\ wpc' = wpc
          /\ \E p : active' = [active EXCEPT ![w] = Append(@, p)]
      BY <2>2 DEF Learn
    <3>2. \A v \in Waiters \ {w} : active'[v] = active[v]
      BY <3>1, <1>t_active
    <3> QED
      BY <3>1, <3>2
  <2>3. CASE CloneAdd(w) \/ CloneRelease(w) \/ WaitUnlist(w)
    BY <2>3, <1>t_wpc DEF CloneAdd, CloneRelease, WaitUnlist, WGoto
  <2> QED
    BY <2>1, <2>2, <2>3
<1>5. ASSUME NEW v \in Waiters, wpc'[v] \in {"unlist", "code"}
      PROVE  IF index[v] = 0 THEN Deleted'
             ELSE \/ state[active'[v][index[v]]] = "Terminated"
                  \/ why[v] = "invalid" /\ cpc'[active'[v][index[v]]] = "unhandled"
  <2>1. wpc[v] \in {"unlist", "code"} /\ active'[v] = active[v]
    BY <1>4, <1>5
  <2>2. index[v] # 0 => active[v][index[v]] \in Procs
    <3>1. Len(active[v]) \in Nat /\ index[v] \in Nat /\ index[v] <= Len(active[v])
      BY <2>1, <1>t_active, <1>t_index, LenProperties DEF Indices
    <3> QED
      BY <3>1, <1>t_active, ElementOfSeq
  <2> QED
    BY <1>2, <1>3, <2>1, <2>2 DEF ReturnsEnded, Returned, Deleted
<1> QED
  BY <1>1, <1>5 DEF ReturnsEnded, Returned, Deleted

(* A process that goes through its list is over. *)
LEMMA ReturnsTest ==
    ASSUME TypeOK, Life, Indices, ReturnsEnded, NEW p \in Procs, NotifyTest(p)
    PROVE  ReturnsEnded'
<1>t_cpc. cpc \in [Procs -> ProcPcs]
  BY DEF TypeOK
<1>t_active. active \in [Waiters -> Seq(Procs)]
  BY DEF TypeOK
<1>t_index. index \in [Waiters -> Nat]
  BY DEF TypeOK
<1>1. /\ cpc[p] = "notify" /\ UNCHANGED <<wpc, index, why, active, state, table>>
      /\ cpc' = cpc \/ cpc' = [cpc EXCEPT ![p] = "mark"]
  BY DEF NotifyTest, CGoto, procVars, waitVars
<1>2. /\ \A v \in Waiters : wpc[v] \in {"unlist", "code"} /\ index[v] # 0 =>
              Returned(v) \in Procs
      /\ \A q \in Procs : cpc[q] = "unhandled" => cpc'[q] = "unhandled"
  <2>1. \A q \in Procs \ {p} : cpc'[q] = cpc[q]
    BY <1>1, <1>t_cpc
  <2>2. \A v \in Waiters : Len(active[v]) \in Nat /\ index[v] \in Nat
    BY <1>t_active, <1>t_index, LenProperties
  <2>3. \A v \in Waiters : wpc[v] \in {"unlist", "code"} /\ index[v] # 0 =>
           index[v] \in 1 .. Len(active[v])
    BY <2>2 DEF Indices
  <2> QED
    BY <1>1, <1>t_active, <2>1, <2>3, ElementOfSeq DEF Returned
<1> QED
  BY <1>1, <1>2 DEF ReturnsEnded, Returned

(* ReturnsEnded is kept by every step. *)
LEMMA ReturnsKept ==
    ASSUME TypeOK, Newborns, Life, Indices, Notifiers, Posted, ReturnsEnded, [Next]_vars
    PROVE  ReturnsEnded'
<1>a. TypeOK /\ Newborns /\ Life /\ Indices /\ Notifiers /\ Posted /\ ReturnsEnded
  OBVIOUS
<1>1. ASSUME NEW p \in Procs, NotifyTest(p) PROVE ReturnsEnded'
  BY <1>1, <1>a, ReturnsTest
<1>2. ASSUME NEW w \in Waiters, Learn(w) PROVE ReturnsEnded'
  BY <1>2, <1>a, ReturnsOthers
<1>3. ASSUME NEW w \in Waiters, CloneAdd(w) PROVE ReturnsEnded'
  BY <1>3, <1>a, ReturnsOthers
<1>4. ASSUME NEW w \in Waiters, CloneRelease(w) PROVE ReturnsEnded'
  BY <1>4, <1>a, ReturnsOthers
<1>5. ASSUME NEW w \in Waiters, WaitResolve(w) PROVE ReturnsEnded'
  BY <1>5, <1>a, ReturnsDecide
<1>6. ASSUME NEW w \in Waiters, WaitCheck(w) PROVE ReturnsEnded'
  BY <1>6, <1>a, ReturnsDecide
<1>7. ASSUME NEW w \in Waiters, WaitWake(w) PROVE ReturnsEnded'
  BY <1>7, <1>a, ReturnsDecide
<1>8. ASSUME NEW w \in Waiters, WaitUnlist(w) PROVE ReturnsEnded'
  BY <1>8, <1>a, ReturnsOthers
<1>9. ASSUME NEW w \in Waiters, ReadCode(w) PROVE ReturnsEnded'
  BY <1>9, <1>a, ReturnsOthers
<1> USE Kinds DEF procVars, listVars, semVars, waitVars, histVars, WGoto, CGoto,
        TypeOK, ReturnsEnded, Returned
<1>10. CASE UNCHANGED vars
  BY <1>10 DEF vars
<1>11. ASSUME NEW p \in Procs, ExitCode(p) PROVE ReturnsEnded'
  BY <1>11 DEF ExitCode
<1>12. ASSUME NEW p \in Procs, ExitState(p) PROVE ReturnsEnded'
  BY <1>12 DEF ExitState
<1>13. ASSUME NEW p \in Procs, ProgramEnds(p) PROVE ReturnsEnded'
  BY <1>13 DEF ProgramEnds
<1>14. ASSUME NEW p \in Procs, RemoveHandle(p) PROVE ReturnsEnded'
  BY <1>14 DEF RemoveHandle
<1>15. ASSUME NEW p \in Procs, SetTerminated(p) PROVE ReturnsEnded'
  BY <1>15 DEF SetTerminated
<1>16. ASSUME NEW p \in Procs, NotifyLock(p) PROVE ReturnsEnded'
  BY <1>16 DEF NotifyLock
<1>17. ASSUME NEW p \in Procs, NotifyMark(p) PROVE ReturnsEnded'
  BY <1>17 DEF NotifyMark
<1>18. ASSUME NEW p \in Procs, NotifyPost(p) PROVE ReturnsEnded'
  BY <1>18 DEF NotifyPost
<1>19. ASSUME NEW p \in Procs, NotifyClear(p) PROVE ReturnsEnded'
  BY <1>19 DEF NotifyClear
<1>20. ASSUME NEW w \in Waiters, CloneProcess(w) PROVE ReturnsEnded'
  BY <1>20 DEF CloneProcess
<1>21. ASSUME NEW w \in Waiters, WaitFor(w) PROVE ReturnsEnded'
  BY <1>21 DEF WaitFor
<1>22. ASSUME NEW w \in Waiters, CloneConvert(w) PROVE ReturnsEnded'
  BY <1>22 DEF CloneConvert
<1>23. ASSUME NEW w \in Waiters, WaitEnlist(w) PROVE ReturnsEnded'
  BY <1>23 DEF WaitEnlist
<1>24. ASSUME NEW w \in Waiters, WaitReturn(w) PROVE ReturnsEnded'
  BY <1>24 DEF WaitReturn
<1>25. ASSUME NEW w \in Waiters, RemoveProcess(w) PROVE ReturnsEnded'
  BY <1>25 DEF RemoveProcess
<1> QED
  BY <1>1, <1>2, <1>3, <1>4, <1>5, <1>6, <1>7, <1>8, <1>9, <1>10, <1>11, <1>12,
     <1>13, <1>14, <1>15, <1>16, <1>17, <1>18, <1>19, <1>20, <1>21, <1>22,
     <1>23, <1>24, <1>25 DEF Next, ProcStep, WaiterCall, WaiterStep


(* The program starts in the invariant. *)
LEMMA InitHolds == Init => IInv
<1> SUFFICES ASSUME Init PROVE IInv
  OBVIOUS
<1> USE Kinds DEF Init
<1>1. \A s : Elements(<<>>) = {}
  BY DEF Elements
<1>2. TypeOK
  BY DEF TypeOK, ProcPcs, WaiterPcs
<1>3. Newborns
  BY DEF Newborns, Creating, Newborn
<1>4. Life /\ CodesFinal
  BY DEF Life, Young, CodesFinal
<1>5. Indices /\ Notifying /\ Listed
  BY DEF Indices, Notifying, Listed
<1>6. Notifiers /\ Posted /\ ReturnsEnded
  BY DEF Notifiers, Posted, ReturnsEnded
<1> QED
  BY <1>2, <1>3, <1>4, <1>5, <1>6 DEF IInv

(* Every step keeps the invariant. *)
LEMMA IInvKept == IInv /\ [Next]_vars => IInv'
BY TypeKept, NewbornsKept, LifeKept, CodesKept, IndicesKept, NotifyingKept,
   ListedKept, NotifiersKept, PostedKept, ReturnsKept DEF IInv

(* The inductive invariant holds of every behaviour, whatever the processes *)
(* and the waiters are.                                                    *)
THEOREM Invariant == Spec => []IInv
BY InitHolds, IInvKept, PTL DEF Spec

(* A program that runs has its entries in the handle map and in the process *)
(* table until it called Exit: cloneProcess holds it back until they exist, *)
(* and removeProcess needs the state that only Exit or the end sets.       *)
THEOREM RunningHasEntryHolds == Spec => []RunningHasEntry
<1>1. IInv => RunningHasEntry
  BY DEF IInv, Life, RunningHasEntry
<1> QED
  BY <1>1, Invariant, PTL

(* Read_Exit_Code reports what the process passed to Exit, because exit()   *)
(* stores the code before the state and readExitCode tests the state.      *)
THEOREM ExitCodeReportedHolds == Spec => []ExitCodeReported
<1>1. IInv => ExitCodeReported
  BY DEF IInv, CodesFinal, ExitCodeReported
<1> QED
  BY <1>1, Invariant, PTL

(* Wait_For returns the index of a process that is over or about to be, and *)
(* -1 only if some process has been deleted.                               *)
THEOREM ReturnsEndedHolds == Spec => []ReturnsEnded
<1>1. IInv => ReturnsEnded
  BY DEF IInv
<1> QED
  BY <1>1, Invariant, PTL

(* The Semaphore of a wait that returned is in no list of a process in the  *)
(* table and in no such process's hand: removeAssignedListener went through *)
(* every place of the sequence that waitFor had passed.                    *)
THEOREM NoDanglingListenerHolds == Spec => []NoDanglingListener
<1>1. ASSUME IInv PROVE NoDanglingListener
  <2> USE <1>1 DEF IInv
  <2>1. ASSUME NEW p \in table, NEW w \in Elements(listeners[p])
        PROVE  InWait(w) /\ p \in Elements(active[w])
    <3>1. WaitsFor(w, p)
      BY DEF Listed
    <3>2. PICK i \in 1 .. Len(active[w]) : active[w][i] = p /\ Enlisted(w, i)
      BY <3>1 DEF WaitsFor
    <3> QED
      BY <3>2 DEF Enlisted, InWait, Elements
  <2>2. ASSUME NEW p \in table, cpc[p] \in {"mark", "post"}
        PROVE  InWait(listeners[p][npos[p]])
    <3>1. npos[p] \in 1 .. Len(listeners[p])
      BY <2>2 DEF Notifying, TypeOK
    <3>2. listeners[p][npos[p]] \in Elements(listeners[p])
      BY <3>1 DEF Elements
    <3> QED
      BY <2>1, <3>2
  <2> QED
    BY <2>1, <2>2 DEF NoDanglingListener
<1> QED
  BY <1>1, Invariant, PTL
=============================================================================
