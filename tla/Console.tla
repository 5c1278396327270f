------------------------------- MODULE Console -------------------------------
(***************************************************************************)
(* The keyboard from the keys of the host to the text a program reads:     *)
(* the simulated BIOS (boot/keyboard.cpp), whose Ctrl+C handler runs in a  *)
(* thread of the host, the line editor (KeyboardHandle.cpp) and a program  *)
(* that reads until it gets an ETX or an EOT (type.cpp), in front of a     *)
(* second one that reads what the first wrote in pieces of any length.     *)
(*                                                                         *)
(* One action is one access to what the two threads share: the queue       *)
(* Keyboard_Buffer, the flag Std_In_Is_Open and the pending ReadFile,      *)
(* which CancelIoEx makes fail.  Recover_From_Cancel_Io only clears an     *)
(* error of the C library and is left out.  push and pop of the queue are  *)
(* taken as atomic, which the code does nothing for.                       *)
(***************************************************************************)
EXTENDS Filters

CONSTANTS Keys,       \* codes of the keys that are typed
          Size,       \* the length of the buffer of a read, 256 in the programs
          Max_Keyboard_Buffer_Size,   \* 16
          MaxKeys, MaxPresses         \* bounds: keys typed, Ctrl+C pressed

ASSUME ConsoleAssumption ==
    /\ Size \in Nat \ {0} /\ Max_Keyboard_Buffer_Size \in Nat \ {0}
    /\ MaxKeys \in Nat /\ MaxPresses \in Nat /\ ETX \notin Keys \cup {NUL}

VARIABLES
    host, typed,           \* the input of the host; the keys ReadFile returned
    Keyboard_Buffer, Std_In_Is_Open,
    kpc, presses, accepted,\* the Ctrl+C handler; presses, those put in the queue
    rpc, code, non_zero,   \* the reader: where it is, what Read_Char gave it
    line,                  \* buffer of KeyboardHandle::read, up to pos
    chunks,                \* reads of the first program that have returned
    given, ends,           \* history: codes given to the editor, ends told to it
    lines,                 \* what the first program, sort, has of its lines
    left, text,            \* what the second has not read; what it has read
    cuts, t, s, n, chars   \* its reads; what it has so far as type, sort, find, freq

ctrlVars == <<kpc, presses, accepted>>
readVars == <<rpc, code, non_zero>>
textVars == <<line, chunks, lines, given, ends>>
pipeVars == <<left, text, cuts, t, s, n, chars>>
vars == <<host, typed, Keyboard_Buffer, Std_In_Is_Open, ctrlVars, readVars,
          textVars, pipeVars>>

(* A console, or an input that is redirected and has an end: a file, which *)
(* is then read as no characters, or a pipe, of which a read then fails.   *)
Init ==
    /\ typed = <<>> /\ host \in {"console", "file", "pipe"}
    /\ Keyboard_Buffer = <<>> /\ Std_In_Is_Open = TRUE
    /\ kpc = "idle" /\ presses = 0 /\ accepted = 0
    /\ rpc = "program" /\ code = NUL /\ non_zero = TRUE
    /\ line = <<>> /\ chunks = 0 /\ given = <<>> /\ ends = 0
    /\ lines = Begin /\ left = <<>> /\ text = <<>> /\ cuts = 0
    /\ t = Begin /\ s = Begin /\ n = 0 /\ chars = [c \in Keys \cup {LF} |-> 0]

RGoto(l) == rpc' = l

-----------------------------------------------------------------------------
(* The Ctrl+C handler *)

(* CtrlHandler, which Init_Keyboard installs for a console: Write_Char     *)
(* tests, pushes and cancels.                                              *)
CtrlC ==
    /\ kpc = "idle" /\ host = "console" /\ presses < MaxPresses
    /\ presses' = presses + 1
    /\ kpc' = IF Std_In_Is_Open /\ Len(Keyboard_Buffer) < Max_Keyboard_Buffer_Size
              THEN "push" ELSE "idle"
    /\ UNCHANGED <<host, typed, Keyboard_Buffer, Std_In_Is_Open, accepted,
                   readVars, textVars, pipeVars>>

Push ==
    /\ kpc = "push"
    /\ Keyboard_Buffer' = Append(Keyboard_Buffer, ETX)
    /\ accepted' = accepted + 1 /\ kpc' = "cancel"
    /\ UNCHANGED <<host, typed, Std_In_Is_Open, presses, readVars, textVars, pipeVars>>

(* Mutant of Cancel: the pending read is left alone. *)
CancelNothing ==
    /\ kpc = "cancel" /\ kpc' = "idle"
    /\ UNCHANGED <<host, typed, Keyboard_Buffer, Std_In_Is_Open, presses, accepted,
                   readVars, textVars, pipeVars>>

(* CancelIoEx fails a ReadFile that is pending and nothing else. *)
Cancel ==
    /\ kpc = "cancel" /\ kpc' = "idle"
    /\ RGoto(IF rpc = "blocked" THEN "failed" ELSE rpc)
    /\ UNCHANGED <<host, typed, Keyboard_Buffer, Std_In_Is_Open, presses, accepted,
                   code, non_zero, textVars, pipeVars>>

-----------------------------------------------------------------------------
(* Read_Char *)

Give(c, ok) == code' = c /\ non_zero' = ok /\ RGoto("code")

(* Mutant of ReadChar: an input that was closed once stays closed. *)
ReadCharIfOpen ==
    /\ rpc = "ask"
    /\ \/ /\ Std_In_Is_Open /\ Keyboard_Buffer # <<>>
          /\ Give(Head(Keyboard_Buffer), TRUE)
          /\ Keyboard_Buffer' = Tail(Keyboard_Buffer)
       \/ /\ Std_In_Is_Open /\ Keyboard_Buffer = <<>>
          /\ RGoto("file") /\ UNCHANGED <<code, non_zero, Keyboard_Buffer>>
       \/ ~Std_In_Is_Open /\ Give(EOT, FALSE) /\ UNCHANGED Keyboard_Buffer
    /\ UNCHANGED <<host, typed, Std_In_Is_Open, ctrlVars, textVars, pipeVars>>

(* check_and_replay_buffer, before the host is asked. *)
ReadChar ==
    /\ rpc = "ask"
    /\ IF Keyboard_Buffer # <<>>
       THEN /\ Give(Head(Keyboard_Buffer), TRUE)
            /\ Keyboard_Buffer' = Tail(Keyboard_Buffer)
       ELSE RGoto("file") /\ UNCHANGED <<code, non_zero, Keyboard_Buffer>>
    /\ UNCHANGED <<host, typed, Std_In_Is_Open, ctrlVars, textVars, pipeVars>>

ReadFile ==
    /\ rpc = "file" /\ RGoto("blocked")
    /\ UNCHANGED <<host, typed, Keyboard_Buffer, Std_In_Is_Open, ctrlVars, code,
                   non_zero, textVars, pipeVars>>

(* Mutant of KeyArrives: an ETX that came in the meantime goes first, and  *)
(* the key is forgotten.                                                   *)
KeyOvertaken ==
    /\ rpc = "blocked" /\ Len(typed) < MaxKeys
    /\ \E k \in Keys :
          /\ typed' = Append(typed, k)
          /\ Give(IF Keyboard_Buffer = <<>> THEN k ELSE Head(Keyboard_Buffer), TRUE)
    /\ Keyboard_Buffer' = IF Keyboard_Buffer = <<>> THEN <<>> ELSE Tail(Keyboard_Buffer)
    /\ Std_In_Is_Open' = TRUE
    /\ UNCHANGED <<host, ctrlVars, textVars, pipeVars>>

(* ReadFile returns a key, which may have been typed at any time before. *)
KeyArrives ==
    /\ rpc = "blocked" /\ Len(typed) < MaxKeys
    /\ \E k \in Keys : typed' = Append(typed, k) /\ Give(k, TRUE)
    /\ Std_In_Is_Open' = TRUE
    /\ UNCHANGED <<host, Keyboard_Buffer, ctrlVars, textVars, pipeVars>>

(* At the end of a file it returns no characters, of which a NUL is made. *)
FileAtEnd ==
    /\ rpc = "blocked" /\ host = "file" /\ Len(typed) = MaxKeys
    /\ Give(NUL, TRUE)
    /\ Std_In_Is_Open' = TRUE
    /\ UNCHANGED <<host, typed, Keyboard_Buffer, ctrlVars, textVars, pipeVars>>

(* The writer of the pipe is gone. *)
FileEnds ==
    /\ rpc = "blocked" /\ host = "pipe" /\ Len(typed) = MaxKeys
    /\ RGoto("failed")
    /\ UNCHANGED <<host, typed, Keyboard_Buffer, Std_In_Is_Open, ctrlVars, code,
                   non_zero, textVars, pipeVars>>

FileFailed ==
    /\ rpc = "failed"
    /\ Std_In_Is_Open' = FALSE /\ RGoto("replay")
    /\ UNCHANGED <<host, typed, Keyboard_Buffer, ctrlVars, code, non_zero, textVars,
                   pipeVars>>

(* check_and_replay_buffer again, after the read failed. *)
Replay ==
    /\ rpc = "replay"
    /\ IF Keyboard_Buffer # <<>>
       THEN /\ Give(Head(Keyboard_Buffer), TRUE) /\ Std_In_Is_Open' = TRUE
            /\ Keyboard_Buffer' = Tail(Keyboard_Buffer)
       ELSE Give(EOT, FALSE) /\ UNCHANGED <<Std_In_Is_Open, Keyboard_Buffer>>
    /\ UNCHANGED <<host, typed, ctrlVars, textVars, pipeVars>>

-----------------------------------------------------------------------------
(* KeyboardHandle::read *)

(* The first program takes the line; when it has ended, what it wrote is   *)
(* in the pipe, with the EOT of the close, and the next read is one of the *)
(* shell.                                                                  *)
Return ==
    /\ RGoto("program") /\ UNCHANGED <<code, non_zero>>
    /\ chunks' = chunks + 1
    /\ lines' = IF lines.done THEN lines ELSE sort(lines, line')
    /\ left' = IF ~lines.done /\ lines'.done THEN Append(Output(lines'), EOT) ELSE left

Stay == RGoto("ask") /\ UNCHANGED <<chunks, lines, code, non_zero, left>>

(* A code that is not a control code is stored; the buffer is full, or the *)
(* code ends the text.                                                     *)
Store(c) ==
    /\ line' = Append(line, c)
    /\ IF c \in Stops \/ Len(line) + 1 = Size THEN Return ELSE Stay

(* What Read_Char gave: nothing, the end of the line, a newline that is    *)
(* swallowed, a letter to take back, or a code to keep.                    *)
Edit ==
    \/ ~non_zero /\ line' = line /\ Return
    \/ non_zero /\ code \in {NUL, CR} /\ line' = line /\ Return
    \/ non_zero /\ code = LF /\ line' = line /\ Stay
    \/ /\ non_zero /\ code = BS
       /\ line' = IF line = <<>> THEN line ELSE Front(line)
       /\ Stay
    \/ non_zero /\ code \notin {NUL, CR, LF, BS} /\ Store(code)

EditCode ==
    /\ rpc = "code"
    /\ Edit
    /\ given' = IF non_zero THEN Append(given, code) ELSE given
    /\ ends' = IF non_zero THEN ends ELSE ends + 1
    /\ UNCHANGED <<host, typed, Keyboard_Buffer, Std_In_Is_Open, ctrlVars, text, cuts,
                   t, s, n, chars>>

-----------------------------------------------------------------------------
(* The programs *)

(* A read that returned nothing did not fail: the programs read on.        *)
(* Bound: so many reads, and none after the first program at a redirected  *)
(* input.                                                                  *)
ReadCall ==
    /\ rpc = "program" /\ (lines.done => host = "console") /\ chunks < MaxKeys + MaxPresses
    /\ line' = <<>> /\ RGoto("ask")
    /\ UNCHANGED <<host, typed, Keyboard_Buffer, Std_In_Is_Open, ctrlVars, code,
                   non_zero, chunks, lines, given, ends, pipeVars>>

(* The second program.  Bound: it begins when the first has ended, which   *)
(* leaves every way to cut the text into pieces, and only at a redirected  *)
(* input, where no handler runs beside it.                                 *)
PipeRead ==
    /\ host # "console"
    /\ \E k \in 1 .. Len(left) :
          LET chunk == SubSeq(left, 1, k) IN
          /\ k <= Size
          /\ left' = SubSeq(left, k + 1, Len(left)) /\ text' = text \o chunk
          /\ cuts' = cuts + 1
          /\ t' = type(t, chunk) /\ s' = sort(s, chunk)
          /\ n' = find(n, chunk) /\ chars' = freq(chars, chunk)
    /\ UNCHANGED <<host, typed, Keyboard_Buffer, Std_In_Is_Open, ctrlVars, readVars,
                   textVars>>

-----------------------------------------------------------------------------
ReaderStep == ReadChar \/ ReadFile \/ FileAtEnd \/ FileEnds \/ FileFailed \/ Replay
              \/ EditCode \/ ReadCall \/ PipeRead

Next == CtrlC \/ Push \/ Cancel \/ KeyArrives \/ ReaderStep

(* The threads run and the host executes what is asked of it; nobody has   *)
(* to type.                                                                *)
Spec == Init /\ [][Next]_vars /\ WF_vars(Push) /\ WF_vars(Cancel) /\ WF_vars(ReaderStep)

-----------------------------------------------------------------------------
(* Properties *)

(* However presses of Ctrl+C fall between the test of the queue and the    *)
(* read of the host, the editor is given each key once and in its order (a *)
(* NUL is made for the end of a file), and each press that Write_Char took *)
(* is in the queue or was given to the reader, once.                       *)
InputKept ==
    LET pending == IF rpc = "code" /\ non_zero THEN <<code>> ELSE <<>> IN
    /\ Without(given \o pending, {ETX, NUL}) = Without(typed, {NUL})
    /\ Times(given \o pending, ETX) + Len(Keyboard_Buffer) = accepted

(* A cancel that comes after its ETX was read makes the next read fail     *)
(* with nothing in the queue: the editor is told that the input ended when *)
(* it did not.  That costs at most one such end for each press, and an end *)
(* without a press is the end of a pipe.                                   *)
EndsAreCaused == host # "pipe" => ends <= accepted

(* A press of Ctrl+C while a read waits for the host wakes that read,      *)
(* without another key.  Write_Char drops such a press only if the queue   *)
(* is full, or if a late cancel has closed the input before, which the     *)
(* editor was told as an end: the read after it hears no press until a key *)
(* is typed.  A press that comes between the test of the queue and         *)
(* ReadFile, before the read waits, need not wake it.                      *)
CtrlCWakes ==
    /\ [][presses' # presses /\ rpc = "blocked" =>
            kpc' = "push" \/ Len(Keyboard_Buffer) = Max_Keyboard_Buffer_Size \/ ends > 0]_vars
    /\ kpc = "push" /\ rpc = "blocked" ~> rpc \in {"code", "program"}

(* How a pipe cuts a text does not show in what type and freq make of it,  *)
(* and sort loses no character; what type has not written yet, and loses   *)
(* when a read fails, is the line that has begun.  find alone counts every *)
(* piece for a line.  Both count as far as their integers go.              *)
CutsDoNotShow ==
    /\ Output(t) \o t.line = IF t.done THEN Append(Before(text), LF) ELSE text
    /\ FlattenSeq(s.lines) \o s.line = Without(Before(text), {LF})
    /\ \A c \in DOMAIN chars : chars[c] = Times(Before(text), c) % CharCounts
    /\ n = (Times(Before(text), LF) + cuts) % LineCounts
=============================================================================
