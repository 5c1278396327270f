---------------------------- MODULE PipeHandles -----------------------------
(***************************************************************************)
(* A pipe as two entries of the handle table: Pipe composed with the lock  *)
(* of io.cpp.  Write_File and Read_File look their handle up under         *)
(* ioHandleLock and run outside it.  Close_Handle holds the lock for the   *)
(* whole of PipeOut::close or PipeIn::close, and PipeOut::close writes a   *)
(* character, for which it may have to wait.                               *)
(*                                                                         *)
(* The write end is closed by the shell after the writing program ended    *)
(* (Execute_Commands), so its close takes the place of the writer.         *)
(***************************************************************************)
EXTENDS Pipe

VARIABLE ioHandleLock       \* "free" or the close that holds it

hvars == <<vars, ioHandleLock>>

HInit == Init /\ ioHandleLock = "free"

(* io::getIoHandle, then the object's write or read *)
WriteFile == WriteCall /\ ioHandleLock = "free" /\ UNCHANGED ioHandleLock
ReadFile  == ReadCall  /\ ioHandleLock = "free" /\ UNCHANGED ioHandleLock

(* Mutant of CloseWriteEnd: the entry is erased, the object only marked. *)
CloseWriteUnwritten ==
    /\ wpc = "idle" /\ ioHandleLock = "free" /\ ioHandleLock' = "closeWrite"
    /\ wpc' = "mark" /\ wsize' = -1 /\ written' = 0
    /\ UNCHANGED <<wresult, ring, flags, locks, rvars, kpc, hist>>

(* io::removeIoHandle up to the call of close() *)
CloseWriteEnd ==
    CloseWriteCall /\ ioHandleLock = "free" /\ ioHandleLock' = "closeWrite"

CloseReadEnd ==
    CloseReadCall /\ ioHandleLock = "free" /\ ioHandleLock' = "closeRead"

(* Statements inside the objects.  The last one of a close() is followed   *)
(* by the erase and the unlock of removeIoHandle.                          *)
HWriterStep ==
    /\ WriterStep
    /\ ioHandleLock' = IF wpc = "mark" THEN "free" ELSE ioHandleLock

HReaderStep == ReaderStep /\ UNCHANGED ioHandleLock

(* Mutant of HCloserStep: removeIoHandle returns without the unlock. *)
HCloserKeepsLock == CloserStep /\ UNCHANGED ioHandleLock

HCloserStep ==
    /\ CloserStep
    /\ ioHandleLock' = IF kpc = "freeReader" THEN "free" ELSE ioHandleLock

HCalls == WriteFile \/ ReadFile \/ CloseWriteEnd \/ CloseReadEnd

HNext == HCalls \/ HWriterStep \/ HReaderStep \/ HCloserStep

HSpec == HInit /\ [][HNext]_hvars

(* Threads inside the kernel go on, the reading program goes on reading    *)
(* (every reader of user/*.cpp loops until EOT).  A spinning thread gets a *)
(* lock that stays free.                                                   *)
HFairness == /\ WF_hvars(HWriterStep) /\ WF_hvars(HReaderStep)
             /\ WF_hvars(HCloserStep) /\ WF_hvars(ReadFile)

HFairSpec == HSpec /\ HFairness

-----------------------------------------------------------------------------
(* Properties *)

(* Closing the write end ends the transmission: the EOT gets into the pipe *)
(* (PipeOut::close, "write the EOT char to pipe") unless nobody reads.     *)
CloseEndsTransmission ==
    ioHandleLock = "closeWrite" ~> EndsInEOT(sent) \/ readClosed

(* Whoever holds the lock of the handle table gives it back. *)
LockReleased == ioHandleLock # "free" ~> ioHandleLock = "free"
=============================================================================
