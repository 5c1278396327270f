-------------------------------- MODULE Pipe --------------------------------
(***************************************************************************)
(* One pipe of the kernel (PipeUtils.cpp, PipeUtils.h): a ring of pipeSize *)
(* characters between the program that holds the PipeOut end and the one   *)
(* that holds the PipeIn end.  Two counting spin locks (IntSpinlock) hold  *)
(* the permits: writeLock counts free slots, readLock filled ones.         *)
(*                                                                         *)
(* Three threads touch a pipe: the writer, which writes buffers and at     *)
(* last closes its end; the reader, which reads and closes its own end     *)
(* when an EOT arrives; and a closer, a thread that closes the read end    *)
(* by Close_Handle (io.cpp, removeIoHandle) while the reader may be inside *)
(* a call.  One action is one access to shared memory.  A spinning lock()  *)
(* is an action that is not enabled until the load finds a permit.         *)
(*                                                                         *)
(* The character a write stores is chosen at the store: nothing before it  *)
(* depends on the value.  sent and received are history variables.         *)
(***************************************************************************)
EXTENDS Integers, Sequences

CONSTANTS Chars,      \* the characters a program can write, EOT among them
          EOT,        \* NControl_Codes::EOT
          pipeSize,   \* slots of the ring, 1024 in io::CreatePipe
          MaxWrite,   \* bound: length of the buffer of one write call
          MaxRead,    \* bound: length of the buffer of one read call
          MaxSent     \* bound: no write call starts after this many characters

ASSUME PipeAssumption ==
    /\ EOT \in Chars
    /\ pipeSize \in Nat \ {0}
    /\ MaxWrite \in Nat /\ MaxRead \in Nat /\ MaxSent \in Nat

VARIABLES
    buffer, writePtr, readPtr,   \* the ring
    writeClosed, readClosed,     \* the flags close() sets
    readLock, writeLock,         \* IntSpinlock::lockVal of both locks
    wpc, wsize, written, wresult,\* the writer: statement, call, its result
    rpc, rsize, rcount, rresult, \* the reader
    kpc,                         \* the closer
    sent, received               \* history

ring  == <<buffer, writePtr, readPtr>>
flags == <<writeClosed, readClosed>>
locks == <<readLock, writeLock>>
wvars == <<wpc, wsize, written, wresult>>
rvars == <<rpc, rsize, rcount, rresult>>
hist  == <<sent, received>>
vars  == <<ring, flags, locks, wvars, rvars, kpc, hist>>

Results == {"none", "Success", "IO_Error"}

(* Statements of PipeOut::write(char), where a writer stands before ...   *)
WriterPcs == {"idle", "check", "lock", "take", "recheck", "store", "advance",
              "wrap", "signal", "mark", "closed"}
(* ... and of PipeIn::read and PipeIn::close.                             *)
ClosePcs  == {"flag", "freeWriter", "freeReader"}
ReaderPcs == {"idle", "check", "lock", "take", "recheck", "fetch", "grant"}
             \cup ClosePcs
CloserPcs == {"idle", "done"} \cup ClosePcs

(* A new buffer is not initialised; Fifo says that nobody reads it so.      *)
Init ==
    /\ buffer \in [0 .. pipeSize - 1 -> {EOT}]
    /\ writePtr = 0 /\ readPtr = 0
    /\ writeClosed = FALSE /\ readClosed = FALSE
    /\ readLock = 0 /\ writeLock = pipeSize
    /\ wpc = "idle" /\ wsize = 0 /\ written = 0 /\ wresult = "none"
    /\ rpc = "idle" /\ rsize = 0 /\ rcount = 0 /\ rresult = "none"
    /\ kpc = "idle"
    /\ sent = <<>> /\ received = <<>>

Closing == wsize = -1     \* the writer is in PipeOut::close, not in write

-----------------------------------------------------------------------------
(* The writer *)

Written(n) == IF n > 0 THEN "Success" ELSE "IO_Error"

WriteCall ==
    /\ wpc = "idle" /\ Len(sent) < MaxSent
    /\ \E n \in 0 .. MaxWrite :
          /\ wsize' = n
          /\ wpc' = IF n > 0 THEN "check" ELSE "idle"
          /\ wresult' = IF n > 0 THEN "none" ELSE Written(0)
    /\ written' = 0
    /\ UNCHANGED <<ring, flags, locks, rvars, kpc, hist>>

(* Mutant of CloseWriteCall: close() sets the flag and writes no EOT. *)
CloseWriteSilently ==
    /\ wpc = "idle"
    /\ wpc' = "mark" /\ wsize' = -1 /\ written' = 0
    /\ UNCHANGED <<wresult, ring, flags, locks, rvars, kpc, hist>>

CloseWriteCall ==
    /\ wpc = "idle"
    /\ wpc' = "check" /\ wsize' = -1 /\ written' = 0
    /\ UNCHANGED <<wresult, ring, flags, locks, rvars, kpc, hist>>

(* write(char) returned FALSE: the loop of write(buffer) ends, close goes on *)
WriteRefused ==
    IF Closing THEN wpc' = "mark" /\ UNCHANGED wresult
               ELSE wpc' = "idle" /\ wresult' = Written(written)

WriteCheck ==
    /\ wpc = "check"
    /\ IF writeClosed \/ readClosed
       THEN WriteRefused
       ELSE wpc' = "lock" /\ UNCHANGED wresult
    /\ UNCHANGED <<wsize, written, ring, flags, locks, rvars, kpc, hist>>

(* Mutant of WriteLock: a try_lock that gives up on a full ring. *)
WriteTryLock ==
    /\ wpc = "lock"
    /\ IF writeLock = 0 THEN WriteRefused ELSE wpc' = "take" /\ UNCHANGED wresult
    /\ UNCHANGED <<wsize, written, ring, flags, locks, rvars, kpc, hist>>

WriteLock ==
    /\ wpc = "lock" /\ writeLock # 0
    /\ wpc' = "take"
    /\ UNCHANGED <<wsize, written, wresult, ring, flags, locks, rvars, kpc, hist>>

WriteTake ==
    /\ wpc = "take"
    /\ writeLock' = writeLock - 1
    /\ wpc' = "recheck"
    /\ UNCHANGED <<wsize, written, wresult, ring, flags, readLock, rvars, kpc, hist>>

(* Mutant of WriteRecheck: no second look at the flags. *)
WriteNoRecheck ==
    /\ wpc = "recheck"
    /\ wpc' = "store"
    /\ UNCHANGED <<wsize, written, wresult, ring, flags, locks, rvars, kpc, hist>>

WriteRecheck ==
    /\ wpc = "recheck"
    /\ IF writeClosed \/ readClosed
       THEN WriteRefused
       ELSE wpc' = "store" /\ UNCHANGED wresult
    /\ UNCHANGED <<wsize, written, ring, flags, locks, rvars, kpc, hist>>

WriteStore ==
    /\ wpc = "store"
    /\ \E c \in IF Closing THEN {EOT} ELSE Chars :
          /\ buffer' = [buffer EXCEPT ![writePtr] = c]
          /\ sent' = Append(sent, c)
    /\ wpc' = "advance"
    /\ UNCHANGED <<wsize, written, wresult, writePtr, readPtr, flags, locks,
                   rvars, kpc, received>>

WriteAdvance ==
    /\ wpc = "advance"
    /\ writePtr' = writePtr + 1
    /\ wpc' = "wrap"
    /\ UNCHANGED <<wsize, written, wresult, buffer, readPtr, flags, locks,
                   rvars, kpc, hist>>

(* Mutant of WriteWrap: the pointer wraps one slot too late. *)
WriteWrapLate ==
    /\ wpc = "wrap"
    /\ writePtr' = IF writePtr > pipeSize THEN 0 ELSE writePtr
    /\ wpc' = "signal"
    /\ UNCHANGED <<wsize, written, wresult, buffer, readPtr, flags, locks,
                   rvars, kpc, hist>>

WriteWrap ==
    /\ wpc = "wrap"
    /\ writePtr' = IF writePtr = pipeSize THEN 0 ELSE writePtr
    /\ wpc' = "signal"
    /\ UNCHANGED <<wsize, written, wresult, buffer, readPtr, flags, locks,
                   rvars, kpc, hist>>

(* readLock->unlock(1), return true, and the head of the loop of the buffer *)
WriteSignal ==
    /\ wpc = "signal"
    /\ readLock' = readLock + 1
    /\ IF Closing
       THEN wpc' = "mark" /\ UNCHANGED <<written, wresult>>
       ELSE /\ written' = written + 1
            /\ IF written + 1 < wsize
               THEN wpc' = "check" /\ UNCHANGED wresult
               ELSE wpc' = "idle" /\ wresult' = Written(written + 1)
    /\ UNCHANGED <<wsize, ring, flags, writeLock, rvars, kpc, hist>>

(* writeClosed = true, the end of PipeOut::close; the handle is gone *)
WriteMark ==
    /\ wpc = "mark"
    /\ writeClosed' = TRUE
    /\ wpc' = "closed"
    /\ UNCHANGED <<wsize, written, wresult, ring, readClosed, locks, rvars,
                   kpc, hist>>

WriterStep == \/ WriteCheck \/ WriteLock \/ WriteTake \/ WriteRecheck
              \/ WriteStore \/ WriteAdvance \/ WriteWrap \/ WriteSignal
              \/ WriteMark

-----------------------------------------------------------------------------
(* The reader *)

EndsInEOT(s) == s # <<>> /\ s[Len(s)] = EOT

(* A call needs the handle, which the closer erases (io::getIoHandle). *)
ReadCall ==
    /\ rpc = "idle" /\ kpc = "idle"
    /\ \E n \in 0 .. MaxRead :
          /\ rsize' = n
          /\ rpc' = IF n > 0 THEN "check" ELSE "idle"
          /\ rresult' = IF n > 0 THEN "none" ELSE "Success"
    /\ rcount' = 0
    /\ UNCHANGED <<ring, flags, locks, wvars, kpc, hist>>

ReadReturns(result) == rpc' = "idle" /\ rresult' = result

ReadCheck ==
    /\ rpc = "check"
    /\ IF readClosed /\ readPtr = writePtr
       THEN ReadReturns("IO_Error")
       ELSE rpc' = "lock" /\ UNCHANGED rresult
    /\ UNCHANGED <<rsize, rcount, ring, flags, locks, wvars, kpc, hist>>

ReadLock ==
    /\ rpc = "lock" /\ readLock # 0
    /\ rpc' = "take"
    /\ UNCHANGED <<rsize, rcount, rresult, ring, flags, locks, wvars, kpc, hist>>

ReadTake ==
    /\ rpc = "take"
    /\ readLock' = readLock - 1
    /\ rpc' = "recheck"
    /\ UNCHANGED <<rsize, rcount, rresult, ring, flags, writeLock, wvars, kpc, hist>>

(* Mutant of ReadRecheck: no look at the flag after the wait. *)
ReadNoRecheck ==
    /\ rpc = "recheck"
    /\ rpc' = "fetch"
    /\ UNCHANGED <<rsize, rcount, rresult, ring, flags, locks, wvars, kpc, hist>>

ReadRecheck ==
    /\ rpc = "recheck"
    /\ IF readClosed
       THEN ReadReturns("Success")
       ELSE rpc' = "fetch" /\ UNCHANGED rresult
    /\ UNCHANGED <<rsize, rcount, ring, flags, locks, wvars, kpc, hist>>

(* val = buffer[readPtr] and the advance of readPtr, which only the reader *)
(* uses; the character is on its way to out_buffer.                        *)
ReadFetch ==
    /\ rpc = "fetch"
    /\ received' = Append(received, buffer[readPtr])
    /\ readPtr' = IF readPtr + 1 >= pipeSize THEN 0 ELSE readPtr + 1
    /\ rpc' = "grant"
    /\ UNCHANGED <<rsize, rcount, rresult, buffer, writePtr, flags, locks,
                   wvars, kpc, sent>>

(* Mutant of ReadGrant: the test for EOT comes before the unlock. *)
ReadGrantUnlessEOT ==
    /\ rpc = "grant"
    /\ writeLock' = IF EndsInEOT(received) THEN writeLock ELSE writeLock + 1
    /\ rcount' = rcount + 1
    /\ IF EndsInEOT(received)
       THEN rpc' = "flag" /\ UNCHANGED rresult
       ELSE IF rcount + 1 < rsize
            THEN rpc' = "check" /\ UNCHANGED rresult
            ELSE ReadReturns("Success")
    /\ UNCHANGED <<rsize, ring, flags, readLock, wvars, kpc, hist>>

(* writeLock->unlock(1), the character in out_buffer, the test for EOT and *)
(* the head of the loop                                                    *)
ReadGrant ==
    /\ rpc = "grant"
    /\ writeLock' = writeLock + 1
    /\ rcount' = rcount + 1
    /\ IF EndsInEOT(received)
       THEN rpc' = "flag" /\ UNCHANGED rresult
       ELSE IF rcount + 1 < rsize
            THEN rpc' = "check" /\ UNCHANGED rresult
            ELSE ReadReturns("Success")
    /\ UNCHANGED <<rsize, ring, flags, readLock, wvars, kpc, hist>>

-----------------------------------------------------------------------------
(* PipeIn::close, run by the reader inside read, or by the closer *)

CloseFlag ==
    /\ readClosed' = TRUE
    /\ UNCHANGED <<ring, writeClosed, locks, wvars, hist>>

(* Mutant of CloseFreeWriter and of CloseFreeReader: nobody is let go. *)
CloseFreeNobody ==
    UNCHANGED <<ring, flags, locks, wvars, hist>>

CloseFreeWriter ==
    /\ writeLock' = writeLock + 1
    /\ UNCHANGED <<ring, flags, readLock, wvars, hist>>

CloseFreeReader ==
    /\ readLock' = readLock + 1
    /\ UNCHANGED <<ring, flags, writeLock, wvars, hist>>

ReaderClose ==
    \/ /\ rpc = "flag" /\ CloseFlag
       /\ rpc' = "freeWriter" /\ UNCHANGED <<rsize, rcount, rresult, kpc>>
    \/ /\ rpc = "freeWriter" /\ CloseFreeWriter
       /\ rpc' = "freeReader" /\ UNCHANGED <<rsize, rcount, rresult, kpc>>
    \/ /\ rpc = "freeReader" /\ CloseFreeReader
       /\ ReadReturns("Success") /\ UNCHANGED <<rsize, rcount, kpc>>

ReaderStep == \/ ReadCheck \/ ReadLock \/ ReadTake \/ ReadRecheck
              \/ ReadFetch \/ ReadGrant \/ ReaderClose

CloseReadCall ==
    /\ kpc = "idle"
    /\ kpc' = "flag"
    /\ UNCHANGED <<ring, flags, locks, wvars, rvars, hist>>

CloserStep ==
    \/ kpc = "flag" /\ CloseFlag /\ kpc' = "freeWriter" /\ UNCHANGED rvars
    \/ kpc = "freeWriter" /\ CloseFreeWriter /\ kpc' = "freeReader" /\ UNCHANGED rvars
    \/ kpc = "freeReader" /\ CloseFreeReader /\ kpc' = "done" /\ UNCHANGED rvars

-----------------------------------------------------------------------------
Calls == WriteCall \/ CloseWriteCall \/ ReadCall \/ CloseReadCall

Next == Calls \/ WriterStep \/ ReaderStep \/ CloserStep

Spec == Init /\ [][Next]_vars

(* Every thread that is inside a call goes on: they are threads of the     *)
(* host system.  Whether a program makes a call is its own affair.         *)
Fairness == WF_vars(WriterStep) /\ WF_vars(ReaderStep) /\ WF_vars(CloserStep)

FairSpec == Spec /\ Fairness

-----------------------------------------------------------------------------
(* Properties *)

InFlight == Len(sent) - Len(received)

(* The slot k places after p, for k up to pipeSize.                       *)
Slot(p, k) == IF p + k >= pipeSize THEN p + k - pipeSize ELSE p + k

(* The types of the variables; that the locks stay in Nat says that no     *)
(* fetch_sub of an IntSpinlock wraps below zero, although lock() tests and  *)
(* decrements in two steps and both close() and a refused write move        *)
(* permits around.                                                          *)
TypeOK ==
    /\ buffer \in [0 .. pipeSize - 1 -> Chars]
    /\ writePtr \in 0 .. pipeSize /\ readPtr \in 0 .. pipeSize - 1
    /\ writeClosed \in BOOLEAN /\ readClosed \in BOOLEAN
    /\ readLock \in Nat /\ writeLock \in Nat
    /\ wpc \in WriterPcs /\ wsize \in -1 .. MaxWrite
    /\ written \in Nat /\ wresult \in Results
    /\ rpc \in ReaderPcs /\ rsize \in 0 .. MaxRead
    /\ rcount \in Nat /\ rresult \in Results
    /\ kpc \in CloserPcs
    /\ sent \in Seq(Chars) /\ received \in Seq(Chars)

(* What arrives is what was written, in order and without loss, doubling   *)
(* or damage, whatever the moment the read end is closed.                  *)
Fifo ==
    /\ Len(received) <= Len(sent)
    /\ \A i \in 1 .. Len(received) : received[i] = sent[i]

(* Every character not yet fetched is still in its slot: nobody writes     *)
(* over it, not even with the permit a close() puts into writeLock.        *)
UnreadIntact ==
    /\ InFlight <= pipeSize
    /\ \A k \in 0 .. InFlight - 1 :
          buffer[Slot(readPtr, k)] = sent[Len(received) + k + 1]

(* While the read end is open every slot is accounted for exactly once: a  *)
(* free permit, one a thread carries between two statements, or a          *)
(* character in the ring.  Neither side can lose a slot or invent one.     *)
PermitsBalance ==
    ~readClosed =>
        /\ writeLock + InFlight
              + (IF wpc \in {"recheck", "store"} THEN 1 ELSE 0)
              + (IF rpc = "grant" THEN 1 ELSE 0) = pipeSize
        /\ readLock
              + (IF rpc \in {"recheck", "fetch"} THEN 1 ELSE 0)
              + (IF wpc \in {"advance", "wrap", "signal"} THEN 1 ELSE 0) = InFlight

(* A call gives up early only because an end was closed: a write that      *)
(* stored less than its buffer, a read that brought nothing, an IO_Error.  *)
GivesUpOnlyWhenClosed ==
    /\ wpc = "idle" /\ wresult # "none" /\ written < wsize => readClosed
    /\ rpc = "idle" /\ rresult # "none" /\ rcount = 0 /\ rsize > 0 => readClosed
    /\ rresult = "IO_Error" => readClosed

(* A thread whose end of the pipe is no longer served comes back from its  *)
(* call: the writer once the read end is closed, the reader once either    *)
(* end is, even if it was already spinning on its lock (the reason of the  *)
(* unlock calls in PipeIn::close and of the EOT that PipeOut::close writes). *)
(* A reader that calls read again after it got an EOT is on its own; none  *)
(* of the programs in user/ does.                                          *)
ReadsOn == EndsInEOT(received) /\ rpc \in {"check", "lock", "take", "recheck"}

EndsReleased ==
    /\ readClosed ~> wpc \in {"idle", "closed"}
    /\ readClosed \/ writeClosed ~> rpc = "idle" \/ ReadsOn

(* Pipe implements PipeChannel.  A channel that is shut lets those         *)
(* operations finish that had passed their second check when it was shut.  *)
Late == (IF readClosed /\ wpc = "store" THEN {"put"} ELSE {})
           \cup (IF readClosed /\ rpc = "fetch" THEN {"take"} ELSE {})

Channel == INSTANCE PipeChannel WITH Capacity <- pipeSize, shut <- readClosed,
                                     ended <- writeClosed, late <- Late

ChannelSpec == Channel!ChSpec
=============================================================================
