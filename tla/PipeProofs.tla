----------------------------- MODULE PipeProofs -----------------------------
(***************************************************************************)
(* Proofs about Pipe and PipeHandles, for every ring size, every set of    *)
(* characters and every length of the calls: the types and the safety      *)
(* properties of Pipe, that Pipe implements PipeChannel, that a pipe       *)
(* behind the table of handles implements Pipe, and who holds the lock of  *)
(* the table.                                                              *)
(***************************************************************************)
EXTENDS PipeHandles, SequenceTheorems, TLAPS

(* A thread past the load of lock() finds the permit still there: nobody   *)
(* else decrements its lock.                                               *)
PermitSeen ==
    /\ wpc = "take" => writeLock > 0
    /\ rpc = "take" => readLock > 0

(* The permits of close() come after the flag; a writer whose flag is set  *)
(* has left.                                                               *)
FlagFirst ==
    /\ writeClosed => wpc = "closed"
    /\ rpc \in {"freeWriter", "freeReader"} => readClosed
    /\ kpc \in {"freeWriter", "freeReader", "done"} => readClosed

(* Where the writer's next character goes, once the statements that move   *)
(* writePtr have run.                                                      *)
NextSlot == IF wpc = "advance" THEN Slot(writePtr, 1)
            ELSE IF writePtr = pipeSize THEN 0 ELSE writePtr

Pointers ==
    /\ writePtr = pipeSize => wpc = "wrap"
    /\ NextSlot = Slot(readPtr, InFlight)

(* A thread past its second check owns what it is about to touch, even if  *)
(* the read end is closed meanwhile.                                       *)
Claims ==
    /\ wpc = "store" => InFlight < pipeSize
    /\ rpc = "fetch" => InFlight > 0

IInv == /\ TypeOK /\ PermitSeen /\ FlagFirst
        /\ PermitsBalance /\ Claims
        /\ Pointers /\ Fifo /\ UnreadIntact

(* The assumption, without the set difference. *)
LEMMA Sizes == /\ pipeSize \in Int /\ pipeSize > 0
               /\ MaxWrite \in Int /\ MaxWrite >= 0
               /\ MaxRead \in Int /\ MaxRead >= 0
  BY PipeAssumption

(* Init establishes the inductive invariant. *)
LEMMA InitIInv == Init => IInv
<1> SUFFICES ASSUME Init PROVE IInv
  OBVIOUS
<1>1. TypeOK
  <2>1. buffer \in [0 .. pipeSize - 1 -> Chars]
    BY PipeAssumption DEF Init
  <2>2. /\ writePtr \in 0 .. pipeSize /\ readPtr \in 0 .. pipeSize - 1
        /\ readLock \in Nat /\ writeLock \in Nat
    <3>1. /\ writePtr = 0 /\ readPtr = 0
          /\ readLock = 0 /\ writeLock = pipeSize
      BY DEF Init
    <3> QED
      BY <3>1, Sizes
  <2>5. /\ wsize \in -1 .. MaxWrite /\ rsize \in 0 .. MaxRead
        /\ written \in Nat /\ rcount \in Nat
    BY Sizes DEF Init
  <2>6. writeClosed \in BOOLEAN /\ readClosed \in BOOLEAN
    BY DEF Init
  <2>3. /\ wpc \in WriterPcs /\ rpc \in ReaderPcs /\ kpc \in CloserPcs
        /\ wresult \in Results /\ rresult \in Results
    BY DEF Init, WriterPcs, ReaderPcs, CloserPcs, ClosePcs, Results
  <2>4. sent \in Seq(Chars) /\ received \in Seq(Chars)
    BY DEF Init
  <2> QED
    BY <2>1, <2>2, <2>3, <2>4, <2>5, <2>6 DEF TypeOK
<1>2. PermitSeen /\ FlagFirst /\ PermitsBalance /\ Claims
  BY Sizes DEF Init, PermitSeen, FlagFirst, PermitsBalance, Claims, InFlight
<1>3. Pointers /\ Fifo /\ UnreadIntact
  BY Sizes DEF Init, Pointers, NextSlot, Slot, Fifo, UnreadIntact, InFlight
<1> QED
  BY <1>1, <1>2, <1>3 DEF IInv

(* The types and the two facts about permits and flags they rest on. *)
LEMMA TypeStep == IInv /\ [Next]_vars => TypeOK' /\ PermitSeen' /\ FlagFirst'
<1> SUFFICES ASSUME IInv, [Next]_vars PROVE TypeOK' /\ PermitSeen' /\ FlagFirst'
  OBVIOUS
<1> USE PipeAssumption DEF IInv, TypeOK, PermitSeen, FlagFirst, WriterPcs,
        ReaderPcs, CloserPcs, ClosePcs, Results, ring, flags, locks, wvars, rvars, hist
<1>1. CASE UNCHANGED vars
  BY <1>1 DEF vars
<1>2. CASE WriteCall
  BY <1>2 DEF WriteCall, Written
<1>3. CASE CloseWriteCall
  BY <1>3 DEF CloseWriteCall
<1>4. CASE WriteCheck
  BY <1>4 DEF WriteCheck, WriteRefused, Written
<1>5. CASE WriteLock
  BY <1>5 DEF WriteLock
<1>6. CASE WriteTake
  BY <1>6 DEF WriteTake
<1>7. CASE WriteRecheck
  BY <1>7 DEF WriteRecheck, WriteRefused, Written
<1>8. CASE WriteStore
  BY <1>8 DEF WriteStore, Pointers
<1>9. CASE WriteAdvance
  BY <1>9 DEF WriteAdvance, Pointers
<1>10. CASE WriteWrap
  BY <1>10 DEF WriteWrap
<1>11. CASE WriteSignal
  BY <1>11 DEF WriteSignal, Written
<1>12. CASE WriteMark
  BY <1>12 DEF WriteMark
<1>13. CASE ReadCall
  BY <1>13 DEF ReadCall
<1>14. CASE ReadCheck
  BY <1>14 DEF ReadCheck, ReadReturns
<1>15. CASE ReadLock
  BY <1>15 DEF ReadLock
<1>16. CASE ReadTake
  BY <1>16 DEF ReadTake
<1>17. CASE ReadRecheck
  BY <1>17 DEF ReadRecheck, ReadReturns
<1>18. CASE ReadFetch
  BY <1>18 DEF ReadFetch
<1>19. CASE ReadGrant
  BY <1>19 DEF ReadGrant, ReadReturns
<1>20. CASE ReaderClose
  <2>1. CASE rpc = "flag"
    BY <1>20, <2>1 DEF ReaderClose, CloseFlag
  <2>2. CASE rpc = "freeWriter"
    BY <1>20, <2>2 DEF ReaderClose, CloseFreeWriter
  <2>3. CASE rpc = "freeReader"
    BY <1>20, <2>3 DEF ReaderClose, ReadReturns, CloseFreeReader
  <2> QED
    BY <1>20, <2>1, <2>2, <2>3 DEF ReaderClose
<1>21. CASE CloseReadCall
  BY <1>21 DEF CloseReadCall
<1>22. CASE CloserStep
  <2>1. CASE kpc = "flag"
    BY <1>22, <2>1 DEF CloserStep, CloseFlag
  <2>2. CASE kpc = "freeWriter"
    BY <1>22, <2>2 DEF CloserStep, CloseFreeWriter
  <2>3. CASE kpc = "freeReader"
    BY <1>22, <2>3 DEF CloserStep, CloseFreeReader
  <2> QED
    BY <1>22, <2>1, <2>2, <2>3 DEF CloserStep
<1> QED
  BY <1>1, <1>2, <1>3, <1>4, <1>5, <1>6, <1>7, <1>8, <1>9, <1>10, <1>11,
     <1>12, <1>13, <1>14, <1>15, <1>16, <1>17, <1>18, <1>19, <1>20, <1>21, <1>22
  DEF Next, Calls, WriterStep, ReaderStep

(* No step loses a permit or invents one. *)
LEMMA BalanceStep == IInv /\ [Next]_vars => PermitsBalance' /\ Claims'
<1> SUFFICES ASSUME IInv, [Next]_vars PROVE PermitsBalance' /\ Claims'
  OBVIOUS
<1>0. Len(sent) \in Nat /\ Len(received) \in Nat
  BY LenProperties DEF IInv, TypeOK
<1>a. /\ pipeSize \in Int /\ pipeSize > 0 /\ readLock \in Nat /\ writeLock \in Nat
      /\ readClosed \in BOOLEAN /\ wpc \in WriterPcs
      /\ PermitsBalance /\ Claims /\ FlagFirst
  BY Sizes DEF IInv, TypeOK
<1> USE <1>a DEF PermitsBalance, Claims, FlagFirst, InFlight, WriterPcs,
        ClosePcs, ring, flags, locks, wvars, rvars, hist
<1>1. CASE UNCHANGED vars
  BY <1>1 DEF vars
<1>2. CASE WriteCall
  BY <1>2 DEF WriteCall
<1>3. CASE CloseWriteCall
  BY <1>3 DEF CloseWriteCall
<1>4. CASE WriteCheck
  BY <1>4 DEF WriteCheck, WriteRefused
<1>5. CASE WriteLock
  BY <1>5 DEF WriteLock
<1>6. CASE WriteTake
  BY <1>6 DEF WriteTake
<1>7. CASE WriteRecheck
  BY <1>0, <1>7 DEF WriteRecheck, WriteRefused
<1>8. CASE WriteStore
  <2>1. PICK c \in Chars : sent' = Append(sent, c)
    BY <1>8, PipeAssumption DEF WriteStore
  <2>2. Len(sent') = Len(sent) + 1
    BY <2>1, AppendProperties
  <2>3. /\ wpc = "store" /\ wpc' = "advance"
        /\ UNCHANGED <<readClosed, readLock, writeLock, rpc, received>>
    BY <1>8 DEF WriteStore
  <2>4. InFlight' = InFlight + 1 /\ InFlight \in Int
    BY <1>0, <2>2, <2>3
  <2> HIDE DEF InFlight
  <2>5. PermitsBalance'
    BY <2>3, <2>4
  <2>6. Claims'
    BY <2>3, <2>4
  <2> QED
    BY <2>5, <2>6
<1>9. CASE WriteAdvance
  BY <1>9 DEF WriteAdvance
<1>10. CASE WriteWrap
  BY <1>10 DEF WriteWrap
<1>11. CASE WriteSignal
  BY <1>0, <1>11 DEF WriteSignal
<1>12. CASE WriteMark
  BY <1>12 DEF WriteMark
<1>13. CASE ReadCall
  BY <1>13 DEF ReadCall
<1>14. CASE ReadCheck
  BY <1>14 DEF ReadCheck, ReadReturns
<1>15. CASE ReadLock
  BY <1>15 DEF ReadLock
<1>16. CASE ReadTake
  BY <1>16 DEF ReadTake
<1>17. CASE ReadRecheck
  BY <1>0, <1>17 DEF ReadRecheck, ReadReturns
<1>18. CASE ReadFetch
  <2>1. received' = Append(received, buffer[readPtr])
    BY <1>18 DEF ReadFetch
  <2>2. Len(received') = Len(received) + 1
    BY <2>1, AppendProperties
  <2>3. /\ rpc = "fetch" /\ rpc' = "grant"
        /\ UNCHANGED <<readClosed, readLock, writeLock, wpc, sent>>
    BY <1>18 DEF ReadFetch
  <2> QED
    BY <1>0, <2>2, <2>3
<1>19. CASE ReadGrant
  BY <1>19 DEF ReadGrant, ReadReturns
<1>20. CASE ReaderClose
  BY <1>20 DEF ReaderClose, ReadReturns, CloseFlag, CloseFreeWriter, CloseFreeReader
<1>21. CASE CloseReadCall
  BY <1>21 DEF CloseReadCall
<1>22. CASE CloserStep
  BY <1>22 DEF CloserStep, CloseFlag, CloseFreeWriter, CloseFreeReader
<1> QED
  BY <1>1, <1>2, <1>3, <1>4, <1>5, <1>6, <1>7, <1>8, <1>9, <1>10, <1>11, <1>12, <1>13, <1>14, <1>15, <1>16, <1>17, <1>18, <1>19, <1>20, <1>21, <1>22
  DEF Next, Calls, WriterStep, ReaderStep

(* Both pointers move round the ring together with the characters in flight. *)
LEMMA PointersStep == IInv /\ [Next]_vars => Pointers'
<1> SUFFICES ASSUME IInv, [Next]_vars PROVE Pointers'
  OBVIOUS
<1>0. Len(sent) \in Nat /\ Len(received) \in Nat
  BY LenProperties DEF IInv, TypeOK
<1>a. /\ pipeSize \in Int /\ pipeSize > 0 /\ writePtr \in 0 .. pipeSize
      /\ readPtr \in 0 .. pipeSize - 1 /\ InFlight <= pipeSize
      /\ Len(received) <= Len(sent) /\ Pointers /\ Claims
  BY Sizes DEF IInv, TypeOK, UnreadIntact, Fifo
<1> USE <1>a DEF Pointers, Claims, NextSlot, Slot, InFlight,
        ring, flags, locks, wvars, rvars, hist
<1>1. CASE UNCHANGED vars
  BY <1>1 DEF vars
<1>2. CASE WriteCall
  BY <1>2 DEF WriteCall
<1>3. CASE CloseWriteCall
  BY <1>3 DEF CloseWriteCall
<1>4. CASE WriteCheck
  BY <1>4 DEF WriteCheck, WriteRefused
<1>5. CASE WriteLock
  BY <1>5 DEF WriteLock
<1>6. CASE WriteTake
  BY <1>6 DEF WriteTake
<1>7. CASE WriteRecheck
  BY <1>0, <1>7 DEF WriteRecheck, WriteRefused
<1>8. CASE WriteStore
  BY <1>8 DEF WriteStore
<1>9. CASE WriteAdvance
  BY <1>9 DEF WriteAdvance
<1>10. CASE WriteWrap
  BY <1>10 DEF WriteWrap
<1>11. CASE WriteSignal
  BY <1>0, <1>11 DEF WriteSignal
<1>12. CASE WriteMark
  BY <1>12 DEF WriteMark
<1>13. CASE ReadCall
  BY <1>13 DEF ReadCall
<1>14. CASE ReadCheck
  BY <1>14 DEF ReadCheck, ReadReturns
<1>15. CASE ReadLock
  BY <1>15 DEF ReadLock
<1>16. CASE ReadTake
  BY <1>16 DEF ReadTake
<1>17. CASE ReadRecheck
  BY <1>0, <1>17 DEF ReadRecheck, ReadReturns
<1>18. CASE ReadFetch
  BY <1>18 DEF ReadFetch
<1>19. CASE ReadGrant
  BY <1>19 DEF ReadGrant, ReadReturns
<1>20. CASE ReaderClose
  BY <1>20 DEF ReaderClose, ReadReturns, CloseFlag, CloseFreeWriter, CloseFreeReader
<1>21. CASE CloseReadCall
  BY <1>21 DEF CloseReadCall
<1>22. CASE CloserStep
  BY <1>22 DEF CloserStep, CloseFlag, CloseFreeWriter, CloseFreeReader
<1> QED
  BY <1>1, <1>2, <1>3, <1>4, <1>5, <1>6, <1>7, <1>8, <1>9, <1>10, <1>11, <1>12, <1>13, <1>14, <1>15, <1>16, <1>17, <1>18, <1>19, <1>20, <1>21, <1>22
  DEF Next, Calls, WriterStep, ReaderStep

(* The ring and the two histories agree.  Only the store and the fetch     *)
(* touch them.                                                             *)
LEMMA RingStep == IInv /\ [Next]_vars => Fifo' /\ UnreadIntact'
<1> SUFFICES ASSUME IInv, [Next]_vars PROVE Fifo' /\ UnreadIntact'
  OBVIOUS
<1> USE PipeAssumption
<1>1. /\ Len(sent) \in Nat /\ Len(received) \in Nat
      /\ InFlight = Len(sent) - Len(received) /\ InFlight \in 0 .. pipeSize
  BY LenProperties DEF IInv, TypeOK, Fifo, UnreadIntact, InFlight
<1>2. /\ buffer \in [0 .. pipeSize - 1 -> Chars] /\ readPtr \in 0 .. pipeSize - 1
      /\ sent \in Seq(Chars) /\ received \in Seq(Chars)
  BY DEF IInv, TypeOK
<1>3. CASE WriteStore
  <2>1. PICK c \in Chars : /\ buffer' = [buffer EXCEPT ![writePtr] = c]
                           /\ sent' = Append(sent, c)
    BY <1>3 DEF WriteStore
  <2>2. wpc = "store" /\ readPtr' = readPtr /\ received' = received
    BY <1>3 DEF WriteStore
  <2>3. InFlight < pipeSize /\ writePtr = Slot(readPtr, InFlight)
    BY <2>2 DEF IInv, Claims, Pointers, NextSlot
  <2>4. /\ Len(sent') = Len(sent) + 1 /\ sent'[Len(sent) + 1] = c
        /\ \A i \in 1 .. Len(sent) : sent'[i] = sent[i]
    BY <1>2, <2>1, AppendProperties
  <2>5. InFlight' = InFlight + 1
    BY <1>1, <2>2, <2>4 DEF InFlight
  <2>6. Fifo'
    BY <1>1, <2>2, <2>4 DEF IInv, Fifo
  <2>7. ASSUME NEW k \in 0 .. InFlight' - 1
        PROVE  buffer'[Slot(readPtr, k)] = sent'[Len(received) + k + 1]
    <3>1. CASE k = InFlight
      BY <1>1, <1>2, <2>1, <2>3, <2>4, <3>1 DEF Slot
    <3>2. CASE k < InFlight
      <4>1. Slot(readPtr, k) # writePtr /\ Slot(readPtr, k) \in 0 .. pipeSize - 1
        BY <1>1, <1>2, <2>3, <3>2 DEF Slot
      <4>2. buffer[Slot(readPtr, k)] = sent[Len(received) + k + 1]
        BY <1>1, <3>2 DEF IInv, UnreadIntact
      <4>3. Len(received) + k + 1 \in 1 .. Len(sent)
        BY <1>1, <3>2
      <4> QED
        BY <1>2, <2>1, <2>4, <4>1, <4>2, <4>3
    <3> QED
      BY <1>1, <2>5, <3>1, <3>2
  <2>8. UnreadIntact'
    BY <1>1, <2>2, <2>3, <2>5, <2>7 DEF UnreadIntact, Slot
  <2> QED
    BY <2>6, <2>8
<1>4. CASE ReadFetch
  <2>1. /\ received' = Append(received, buffer[readPtr])
        /\ readPtr' = Slot(readPtr, 1)
        /\ rpc = "fetch" /\ buffer' = buffer /\ sent' = sent
    BY <1>2, <1>4 DEF ReadFetch, Slot
  <2>2. buffer[readPtr] \in Chars
    BY <1>2
  <2>3. InFlight > 0
    BY <2>1 DEF IInv, Claims
  <2>4. /\ Len(received') = Len(received) + 1
        /\ received'[Len(received) + 1] = buffer[readPtr]
        /\ \A i \in 1 .. Len(received) : received'[i] = received[i]
    BY <1>2, <2>1, <2>2, AppendProperties
  <2>5. InFlight' = InFlight - 1
    BY <1>1, <2>1, <2>4 DEF InFlight
  <2>6. buffer[readPtr] = sent[Len(received) + 1]
    <3>1. Slot(readPtr, 0) = readPtr
      BY <1>2 DEF Slot
    <3>2. buffer[Slot(readPtr, 0)] = sent[Len(received) + 0 + 1]
      BY <1>1, <2>3 DEF IInv, UnreadIntact
    <3> QED
      BY <1>1, <3>1, <3>2
  <2>7. Fifo'
    <3>1. Len(received') <= Len(sent')
      BY <1>1, <2>1, <2>3, <2>4
    <3>2. ASSUME NEW i \in 1 .. Len(received') PROVE received'[i] = sent'[i]
      <4>1. CASE i = Len(received) + 1
        BY <2>1, <2>4, <2>6, <4>1
      <4>2. CASE i \in 1 .. Len(received)
        BY <2>1, <2>4, <4>2 DEF IInv, Fifo
      <4> QED
        BY <1>1, <2>4, <4>1, <4>2
    <3> QED
      BY <3>1, <3>2 DEF Fifo
  <2>8. ASSUME NEW k \in 0 .. InFlight' - 1
        PROVE  buffer[Slot(readPtr', k)] = sent[Len(received') + k + 1]
    <3>1. Slot(readPtr', k) = Slot(readPtr, k + 1)
      BY <1>1, <1>2, <2>1, <2>5 DEF Slot
    <3>2. k + 1 \in 0 .. InFlight - 1
      BY <1>1, <2>5
    <3>3. buffer[Slot(readPtr, k + 1)] = sent[Len(received) + (k + 1) + 1]
      BY <3>2 DEF IInv, UnreadIntact
    <3> QED
      BY <1>1, <2>4, <3>1, <3>3
  <2>9. UnreadIntact'
    BY <1>1, <2>1, <2>5, <2>8 DEF UnreadIntact, Slot
  <2> QED
    BY <2>7, <2>9
<1>5. CASE UNCHANGED <<buffer, readPtr, hist>>
  BY <1>5 DEF IInv, Fifo, UnreadIntact, InFlight, Slot, hist
<1>6. [Next]_vars => WriteStore \/ ReadFetch \/ UNCHANGED <<buffer, readPtr, hist>>
  BY DEF Next, Calls, WriterStep, ReaderStep, vars, ring, flags, locks, wvars,
     rvars, hist, WriteCall, CloseWriteCall, WriteCheck, WriteLock, WriteTake,
     WriteRecheck, WriteAdvance, WriteWrap, WriteSignal, WriteMark, ReadCall,
     ReadCheck, ReadLock, ReadTake, ReadRecheck, ReadGrant, ReaderClose,
     CloseReadCall, CloserStep, CloseFlag, CloseFreeWriter, CloseFreeReader
<1> QED
  BY <1>3, <1>4, <1>5, <1>6

(* The inductive invariant holds in every reachable state. *)
THEOREM Inductive == Spec => []IInv
<1>1. IInv /\ [Next]_vars => IInv'
  BY TypeStep, BalanceStep, PointersStep, RingStep DEF IInv
<1> QED
  BY InitIInv, <1>1, PTL DEF Spec

(* Every variable keeps its type; no permit counter ever wraps below zero. *)
THEOREM TypeCorrect == Spec => []TypeOK
  BY Inductive, PTL DEF IInv

(* The characters that come out of a pipe are a prefix of those put in. *)
THEOREM FifoHolds == Spec => []Fifo
  BY Inductive, PTL DEF IInv

(* No unread character is overwritten, at any moment of a close. *)
THEOREM UnreadIntactHolds == Spec => []UnreadIntact
  BY Inductive, PTL DEF IInv

(* While the read end is open every slot of the ring is accounted for. *)
THEOREM PermitsBalanceHolds == Spec => []PermitsBalance
  BY Inductive, PTL DEF IInv

(* A call cannot give up on an open pipe: only the writer itself sets       *)
(* writeClosed, so what refuses it is readClosed, which nothing resets; a   *)
(* reader that got an EOT comes back past its own flag.                     *)
LEMMA GivesUpStep == IInv /\ GivesUpOnlyWhenClosed /\ [Next]_vars
                        => GivesUpOnlyWhenClosed'
<1> SUFFICES ASSUME IInv, GivesUpOnlyWhenClosed, [Next]_vars
             PROVE  GivesUpOnlyWhenClosed'
  OBVIOUS
<1>a. /\ readClosed \in BOOLEAN /\ writeClosed \in BOOLEAN
      /\ wsize \in Int /\ written \in Nat /\ rcount \in Nat /\ rsize \in Int
      /\ FlagFirst /\ GivesUpOnlyWhenClosed
  BY Sizes DEF IInv, TypeOK
<1> USE <1>a DEF GivesUpOnlyWhenClosed, FlagFirst, ring, flags, locks, wvars,
        rvars, hist
<1>1. CASE UNCHANGED vars
  BY <1>1 DEF vars
<1>2. CASE WriteCall
  BY <1>2 DEF WriteCall
<1>3. CASE CloseWriteCall
  BY <1>3 DEF CloseWriteCall
<1>4. CASE WriteCheck
  BY <1>4 DEF WriteCheck, WriteRefused
<1>5. CASE WriteLock
  BY <1>5 DEF WriteLock
<1>6. CASE WriteTake
  BY <1>6 DEF WriteTake
<1>7. CASE WriteRecheck
  BY <1>7 DEF WriteRecheck, WriteRefused
<1>8. CASE WriteStore
  BY <1>8 DEF WriteStore
<1>9. CASE WriteAdvance
  BY <1>9 DEF WriteAdvance
<1>10. CASE WriteWrap
  BY <1>10 DEF WriteWrap
<1>11. CASE WriteSignal
  BY <1>11 DEF WriteSignal
<1>12. CASE WriteMark
  BY <1>12 DEF WriteMark
<1>13. CASE ReadCall
  BY <1>13 DEF ReadCall
<1>14. CASE ReadCheck
  BY <1>14 DEF ReadCheck, ReadReturns
<1>15. CASE ReadLock
  BY <1>15 DEF ReadLock
<1>16. CASE ReadTake
  BY <1>16 DEF ReadTake
<1>17. CASE ReadRecheck
  BY <1>17 DEF ReadRecheck, ReadReturns
<1>18. CASE ReadFetch
  BY <1>18 DEF ReadFetch
<1>19. CASE ReadGrant
  BY <1>19 DEF ReadGrant, ReadReturns
<1>20. CASE ReaderClose
  BY <1>20 DEF ReaderClose, ReadReturns, CloseFlag, CloseFreeWriter, CloseFreeReader
<1>21. CASE CloseReadCall
  BY <1>21 DEF CloseReadCall
<1>22. CASE CloserStep
  BY <1>22 DEF CloserStep, CloseFlag, CloseFreeWriter, CloseFreeReader
<1> QED
  BY <1>1, <1>2, <1>3, <1>4, <1>5, <1>6, <1>7, <1>8, <1>9, <1>10, <1>11,
     <1>12, <1>13, <1>14, <1>15, <1>16, <1>17, <1>18, <1>19, <1>20, <1>21, <1>22
  DEF Next, Calls, WriterStep, ReaderStep

(* A write that falls short, a read that brings nothing and an IO_Error     *)
(* come from a closed read end and from nothing else.                       *)
THEOREM GivesUpOnlyWhenClosedHolds == Spec => []GivesUpOnlyWhenClosed
<1>1. Init => GivesUpOnlyWhenClosed
  BY DEF Init, GivesUpOnlyWhenClosed
<1> QED
  BY Inductive, GivesUpStep, <1>1, PTL DEF Spec

-----------------------------------------------------------------------------
(* Every step of the threads is a step of the channel or leaves it as it   *)
(* was.                                                                    *)

(* What EOT does.  Once it is fetched the reader closes its end before it  *)
(* could fetch again; and the writer leaves only after it put one, unless  *)
(* the read end is closed.                                                 *)
EOTEnds ==
    /\ EndsInEOT(received) => /\ rpc # "fetch"
                              /\ readClosed \/ rpc \in {"grant", "flag"}
    /\ Closing /\ wpc \in {"advance", "wrap", "signal"} => EndsInEOT(sent)
    /\ wpc = "mark" => readClosed \/ EndsInEOT(sent)

(* EOTEnds holds initially and no step breaks it. *)
LEMMA InitEOTEnds == Init => EOTEnds
  BY DEF Init, EOTEnds, EndsInEOT

(* EOTEnds is preserved. *)
LEMMA EOTEndsStep == IInv /\ EOTEnds /\ [Next]_vars => EOTEnds'
<1> SUFFICES ASSUME IInv, EOTEnds, [Next]_vars PROVE EOTEnds'
  OBVIOUS
<1>1. /\ sent \in Seq(Chars) /\ Len(sent) \in Nat
      /\ writeClosed => wpc = "closed"
      /\ rpc \in {"freeWriter", "freeReader"} => readClosed
  BY LenProperties DEF IInv, TypeOK, FlagFirst
<1>2. CASE WriteStore
  <2>1. PICK c \in Chars : sent' = Append(sent, c) /\ (Closing => c = EOT)
    BY <1>2, PipeAssumption DEF WriteStore
  <2>2. Closing => EndsInEOT(sent')
    BY <1>1, <2>1, AppendProperties DEF EndsInEOT
  <2>3. /\ UNCHANGED <<received, rpc, readClosed, wsize>> /\ wpc' = "advance"
    BY <1>2 DEF WriteStore, rvars, hist, flags
  <2> QED
    BY <2>2, <2>3 DEF EOTEnds, Closing, EndsInEOT
<1>3. CASE ReadFetch
  BY <1>3 DEF ReadFetch, EOTEnds, Closing, EndsInEOT, flags, wvars
<1>4. CASE WriteCheck \/ WriteRecheck
  BY <1>1, <1>4 DEF WriteCheck, WriteRecheck, WriteRefused, EOTEnds, Closing, EndsInEOT,
                    flags, rvars, hist
<1>5. CASE WriteCall \/ CloseWriteCall \/ WriteLock \/ WriteTake
  BY <1>5 DEF WriteCall, CloseWriteCall, WriteLock, WriteTake, EOTEnds, Closing,
              EndsInEOT, flags, rvars, hist
<1>6. CASE WriteAdvance \/ WriteWrap \/ WriteSignal \/ WriteMark
  BY <1>6 DEF WriteAdvance, WriteWrap, WriteSignal, WriteMark, EOTEnds, Closing,
              EndsInEOT, flags, rvars, hist
<1>7. CASE ReadCall \/ ReadCheck \/ ReadLock \/ ReadTake
  BY <1>7 DEF ReadCall, ReadCheck, ReadLock, ReadTake, ReadReturns, EOTEnds, Closing,
              EndsInEOT, flags, wvars, hist
<1>8. CASE ReadRecheck
  BY <1>8 DEF ReadRecheck, ReadReturns, EOTEnds, Closing, EndsInEOT, flags, wvars, hist
<1>9. CASE ReadGrant
  BY <1>9 DEF ReadGrant, ReadReturns, EOTEnds, Closing, EndsInEOT, flags, wvars, hist
<1>10. CASE ReaderClose
  BY <1>1, <1>10 DEF ReaderClose, ReadReturns, CloseFlag, CloseFreeWriter,
              CloseFreeReader, EOTEnds, Closing, EndsInEOT, flags, wvars, hist
<1>11. CASE CloseReadCall \/ CloserStep
  BY <1>11 DEF CloseReadCall, CloserStep, CloseFlag, CloseFreeWriter, CloseFreeReader,
               EOTEnds, Closing, EndsInEOT, flags, wvars, rvars, hist
<1>12. CASE UNCHANGED vars
  BY <1>12 DEF vars, EOTEnds, Closing, EndsInEOT, flags, wvars, rvars, hist
<1> QED
  BY <1>2, <1>3, <1>4, <1>5, <1>6, <1>7, <1>8, <1>9, <1>10, <1>11, <1>12
  DEF Next, Calls, WriterStep, ReaderStep

(* The initial state of a pipe is that of a channel. *)
LEMMA InitRefines == Init => Channel!ChInit
  BY DEF Init, Channel!ChInit, Late

(* A step of a pipe is a step of the channel or invisible there. *)
LEMMA StepRefines ==
    IInv /\ EOTEnds /\ [Next]_vars => [Channel!ChNext]_(Channel!chVars)
<1> SUFFICES ASSUME IInv, EOTEnds, [Next]_vars
             PROVE  Channel!ChNext \/ UNCHANGED Channel!chVars
  OBVIOUS
<1> USE DEF flags, hist
<1>1. /\ sent \in Seq(Chars) /\ received \in Seq(Chars)
      /\ Len(sent) \in Nat /\ Len(received) \in Nat /\ pipeSize \in Nat
      /\ InFlight = Len(sent) - Len(received)
      /\ readClosed \in BOOLEAN /\ writeClosed \in BOOLEAN
      /\ writeClosed => wpc = "closed"
  BY LenProperties, PipeAssumption DEF IInv, TypeOK, FlagFirst, InFlight
<1>2. CASE WriteStore
  <2>1. /\ wpc = "store" /\ wpc' = "advance" /\ UNCHANGED <<rpc, received, flags>>
    BY <1>2 DEF WriteStore, rvars
  <2>2. \E c \in Chars : sent' = Append(sent, c)
    BY <1>2, PipeAssumption DEF WriteStore
  <2>3. Len(sent) - Len(received) < pipeSize
    BY <1>1, <2>1 DEF IInv, Claims
  <2>4. readClosed => "put" \in Late
    BY <2>1 DEF Late
  <2>5. Late' = Late \ {"put"}
    BY <2>1 DEF Late
  <2> QED
    BY <1>1, <2>1, <2>2, <2>3, <2>4, <2>5 DEF Channel!ChNext, Channel!Put
<1>3. CASE ReadFetch
  <2>1. /\ rpc = "fetch" /\ rpc' = "grant" /\ UNCHANGED <<wpc, sent, flags>>
        /\ received' = Append(received, buffer[readPtr])
    BY <1>3 DEF ReadFetch, wvars
  <2>2. Len(received) < Len(sent)
    BY <1>1, <2>1 DEF IInv, Claims
  <2>3. buffer[readPtr] = sent[Len(received) + 1]
    <3>1. readPtr = Slot(readPtr, 0) /\ 0 \in 0 .. InFlight - 1
      BY <1>1, <2>2, PipeAssumption DEF Slot, IInv, TypeOK
    <3>2. buffer[Slot(readPtr, 0)] = sent[Len(received) + 0 + 1]
      BY <3>1 DEF IInv, UnreadIntact
    <3> QED
      BY <1>1, <3>1, <3>2
  <2>4. ~EndsInEOT(received)
    BY <2>1 DEF EOTEnds
  <2>5. readClosed => "take" \in Late
    BY <2>1 DEF Late
  <2>6. Late' = Late \ {"take"}
    BY <2>1 DEF Late
  <2>7. ~Channel!EndsInEOT(received)
    BY <2>4 DEF EndsInEOT, Channel!EndsInEOT
  <2> QED
    BY <2>1, <2>2, <2>3, <2>5, <2>6, <2>7 DEF Channel!ChNext, Channel!Take
<1>4. CASE WriteMark
  <2>1. /\ wpc = "mark" /\ wpc' = "closed" /\ writeClosed' = TRUE
        /\ UNCHANGED <<readClosed, rpc, sent, received>>
    BY <1>4 DEF WriteMark, rvars
  <2>2. readClosed \/ Channel!EndsInEOT(sent)
    BY <2>1 DEF EOTEnds, EndsInEOT, Channel!EndsInEOT
  <2>3. Late' = Late
    BY <2>1 DEF Late
  <2> QED
    BY <1>1, <2>1, <2>2, <2>3 DEF Channel!ChNext, Channel!Finish
<1>5. CASE readClosed' # readClosed
  <2>1. /\ ~readClosed /\ readClosed' = TRUE
        /\ UNCHANGED <<sent, received, writeClosed>>
    BY <1>1, <1>5 DEF Next, Calls, WriterStep, ReaderStep, vars, ring, locks,
     wvars, rvars, WriteCall, CloseWriteCall, WriteCheck, WriteLock, WriteTake,
     WriteRecheck, WriteStore, WriteAdvance, WriteWrap, WriteSignal, WriteMark,
     ReadCall, ReadCheck, ReadLock, ReadTake, ReadRecheck, ReadFetch, ReadGrant,
     ReaderClose, CloseReadCall, CloserStep, CloseFlag, CloseFreeWriter, CloseFreeReader
  <2>2. Late' \in SUBSET Channel!Operations
    BY DEF Late, Channel!Operations
  <2> QED
    BY <2>1, <2>2 DEF Channel!ChNext, Channel!Shut
<1>6. CASE /\ UNCHANGED <<sent, received, flags>>
           /\ wpc' = "store" => wpc = "store" \/ ~readClosed
           /\ rpc' = "fetch" => rpc = "fetch" \/ ~readClosed
           /\ readClosed => (wpc = "store" => wpc' = "store")
           /\ readClosed => (rpc = "fetch" => rpc' = "fetch")
  BY <1>6 DEF Late, Channel!chVars
<1>7. CASE UNCHANGED vars
  BY <1>6, <1>7 DEF vars, wvars, rvars
<1>8. CASE /\ ~WriteStore /\ ~ReadFetch /\ ~WriteMark
           /\ readClosed' = readClosed /\ Next
  BY <1>1, <1>6, <1>8 DEF Next, Calls, WriterStep, ReaderStep, ring, locks,
     wvars, rvars, WriteCall, CloseWriteCall, WriteCheck, WriteLock, WriteTake,
     WriteRecheck, WriteRefused, WriteAdvance, WriteWrap, WriteSignal,
     ReadCall, ReadCheck, ReadLock, ReadTake, ReadRecheck, ReadReturns, ReadGrant,
     ReaderClose, CloseReadCall, CloserStep, CloseFlag, CloseFreeWriter, CloseFreeReader
<1> QED
  BY <1>2, <1>3, <1>4, <1>5, <1>7, <1>8

(* A pipe behaves as a bounded channel that EOT or a close ends: Pipe, for  *)
(* every ring size and every alphabet, implements PipeChannel.              *)
THEOREM Implements == Spec => ChannelSpec
<1>1. IInv /\ EOTEnds /\ [Next]_vars => EOTEnds'
  BY EOTEndsStep
<1>2. Spec => []EOTEnds
  BY InitEOTEnds, Inductive, <1>1, PTL DEF Spec
<1> QED
  BY InitRefines, StepRefines, Inductive, <1>2, PTL DEF Spec, ChannelSpec, Channel!ChSpec

-----------------------------------------------------------------------------
(* Behind the table of handles. *)

(* A step behind the table is a step of the pipe. *)
LEMMA HandleStep == [HNext]_hvars => [Next]_vars
  BY DEF HNext, HCalls, WriteFile, ReadFile, CloseWriteEnd, CloseReadEnd, HWriterStep,
         HReaderStep, HCloserStep, hvars, Next, Calls

(* A pipe whose ends are entries of the handle table is still a pipe: what  *)
(* the lock of io.cpp adds only takes steps away.                           *)
THEOREM HandlesImplement == HSpec => Spec
  BY HandleStep, PTL DEF HSpec, HInit, Spec

(* So it is a bounded channel too, and what holds of Pipe holds of it.      *)
THEOREM HandlesAreChannel == HSpec => ChannelSpec /\ []IInv
  BY HandlesImplement, Implements, Inductive, PTL

(* The lock of the table is held by a close from its first statement to     *)
(* its last, by that close only, and by nobody else: removeIoHandle gives   *)
(* it back however PipeOut::close and PipeIn::close get to their end, and   *)
(* two closes never run at the same time.                                   *)
LockIsOfTheClose ==
    /\ ioHandleLock \in {"free", "closeRead", "closeWrite"}
    /\ ioHandleLock = "closeRead" <=> kpc \in ClosePcs
    /\ ioHandleLock = "closeWrite" <=> Closing /\ wpc # "closed"
    /\ wpc = "mark" => Closing

(* LockIsOfTheClose is preserved. *)
LEMMA LockStep == IInv /\ LockIsOfTheClose /\ [HNext]_hvars => LockIsOfTheClose'
<1> SUFFICES ASSUME IInv, LockIsOfTheClose, [HNext]_hvars PROVE LockIsOfTheClose'
  OBVIOUS
<1>a. kpc \in CloserPcs /\ wpc \in WriterPcs
  BY DEF IInv, TypeOK
<1> USE <1>a DEF LockIsOfTheClose, Closing, ClosePcs, CloserPcs, WriterPcs
<1>1. CASE WriteFile
  BY <1>1, Sizes DEF WriteFile, WriteCall
<1>2. CASE ReadFile
  BY <1>2 DEF ReadFile, ReadCall, wvars
<1>3. CASE CloseWriteEnd
  BY <1>3 DEF CloseWriteEnd, CloseWriteCall
<1>4. CASE CloseReadEnd
  BY <1>4 DEF CloseReadEnd, CloseReadCall, wvars
<1>5. CASE HWriterStep
  <2>1. CASE WriteCheck \/ WriteLock \/ WriteTake \/ WriteRecheck
    BY <1>5, <2>1 DEF HWriterStep, WriteCheck, WriteLock, WriteTake, WriteRecheck,
                      WriteRefused
  <2>2. CASE WriteStore \/ WriteAdvance \/ WriteWrap
    BY <1>5, <2>2 DEF HWriterStep, WriteStore, WriteAdvance, WriteWrap
  <2>3. CASE WriteSignal
    BY <1>5, <2>3 DEF HWriterStep, WriteSignal
  <2>4. CASE WriteMark
    BY <1>5, <2>4 DEF HWriterStep, WriteMark
  <2> QED
    BY <1>5, <2>1, <2>2, <2>3, <2>4 DEF HWriterStep, WriterStep
<1>6. CASE HReaderStep
  BY <1>6 DEF HReaderStep, ReaderStep, ReadCheck, ReadLock, ReadTake, ReadRecheck,
              ReadFetch, ReadGrant, ReaderClose, CloseFlag, CloseFreeWriter,
              CloseFreeReader, wvars
<1>7. CASE HCloserStep
  BY <1>7 DEF HCloserStep, CloserStep, CloseFlag, CloseFreeWriter, CloseFreeReader, wvars
<1>8. CASE UNCHANGED hvars
  BY <1>8 DEF hvars, vars, wvars
<1> QED
  BY <1>1, <1>2, <1>3, <1>4, <1>5, <1>6, <1>7, <1>8 DEF HNext, HCalls

(* The lock of the handle table belongs to the close that runs.             *)
THEOREM LockIsOfTheCloseHolds == HSpec => []LockIsOfTheClose
<1>1. HInit => LockIsOfTheClose
  BY DEF HInit, Init, LockIsOfTheClose, Closing, ClosePcs
<1>2. HSpec => []IInv
  BY HandlesAreChannel, PTL
<1> QED
  BY <1>1, <1>2, LockStep, PTL DEF HSpec
=============================================================================
