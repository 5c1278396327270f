-------------------------------- MODULE Shell --------------------------------
(***************************************************************************)
(* The shell (shell.cpp), the pipelines it starts and waits for            *)
(* (command_parser.cpp, Execute_Commands) and the working directory of its *)
(* process (io.cpp), over a table of handles that gives out the first free *)
(* number (addIoHandle) and the programs it starts.                        *)
(*                                                                         *)
(* One action is one turn of a loop of the shell or one event of a         *)
(* program.  A program that was started is known by the end of its input,  *)
(* by the room for its output, and by a file it opens and closes itself.   *)
(* The wait of the kernel and the ring of a pipe are in Processes and      *)
(* Pipe; what they may do to the shell is an action here that may be       *)
(* taken: the wait overlooks an end or gives back an index of no program,  *)
(* the close of a full pipe waits with the lock of the table held.         *)
(***************************************************************************)
EXTENDS CommandLine

CONSTANTS Lines,      \* the lines that are typed
          Programs,   \* the names Create_Process finds
          Readers,    \* programs that read their input to its end
          Openers,    \* programs that open a file of their own
          Floods,     \* programs that write more than a pipe holds
          Tree,       \* the items of the disk: paths without the drive
          BufferDepth,\* components of a path the 256 characters have room for,
                      \* its end included; with one more they are just full
          MaxLines    \* bound: lines typed

ASSUME ShellAssumption ==
    /\ Readers \subseteq Programs /\ Floods \subseteq Programs
    /\ BufferDepth \in Nat /\ MaxLines \in Nat
    /\ Lines \subseteq Seq(STRING) /\ LineRoom \in Nat
    /\ \A line \in Lines : Len(line) <= LineRoom + 1
    /\ Tree \subseteq Seq(Seq(STRING) \ {<<>>}) \ {<<>>}

VARIABLES
    workingDirectory,    \* Process::workingDirectory of the shell
    directory, echo_on,  \* the prompt
    pc,
    program_vector, it,  \* the line and where the loop over it is
    index, pipes, active_handles,   \* of Execute_Commands, index from 1
    signaled, closing,   \* the active program that ended, the end to close next
    openedHandles,       \* handle -> object
    programs,            \* the programs started for this line, in their order
    pipesMade, lines,    \* numbers the pipes; lines typed
    clean, failed,       \* history: the line is clean; what failed in it;
    spotless             \* every line so far was clean and did not fail

dirVars   == <<workingDirectory, directory, echo_on>>
execVars  == <<index, pipes, active_handles, signaled, closing>>
histVars  == <<clean, failed, spotless>>
vars == <<dirVars, pc, program_vector, it, execVars, openedHandles, programs,
          pipesMade, lines, histVars>>

std_in  == 1
std_out == 0
Console == [h \in {std_in, std_out} |-> <<"console", h>>]

Init ==
    /\ workingDirectory = RootPath /\ directory = RootPath /\ echo_on = TRUE
    /\ pc = "read" /\ program_vector = <<>> /\ it = 0
    /\ index = 0 /\ pipes = <<>> /\ active_handles = <<>>
    /\ signaled = 0 /\ closing = 0
    /\ openedHandles = Console /\ programs = <<>>
    /\ pipesMade = 0 /\ lines = 0 /\ failed = {}
    /\ clean = TRUE /\ spotless = TRUE

-----------------------------------------------------------------------------
(* The table *)

FirstFree(t) == CHOOSE n \in 0 .. Cardinality(DOMAIN t) :
                    n \notin DOMAIN t /\ 0 .. n - 1 \subseteq DOMAIN t

With(t, object) == [n \in DOMAIN t \cup {FirstFree(t)} |->
                        IF n \in DOMAIN t THEN t[n] ELSE object]

(* Close_Handle of a number that is not in the table fails, unheeded.      *)
Closed(t, handles) == [n \in DOMAIN t \ handles |-> t[n]]

IsOpen(object) == \E n \in DOMAIN openedHandles : openedHandles[n] = object

-----------------------------------------------------------------------------
(* The prompt *)

IsCd(p)   == p.command = <<"cd">>
IsEchoSwitch(p) == p.command = <<"echo">> /\ p.argument \in {<<"on">>, <<"off">>}
HandledInShell(p) == IsCd(p) \/ IsEchoSwitch(p)

(* A line is clean if its operators mean what they say in this shell. *)
PlainFile(v, i) ==
    v[i].file => /\ i > 1 /\ ~v[i - 1].file
                 /\ v[i - 1].redirection_out => i = Len(v)

CleanLine(v) ==
    /\ \A i \in DOMAIN v : v[i].command # <<>> /\ PlainFile(v, i)
    /\ \A i \in DOMAIN v : HandledInShell(v[i]) => Len(v) = 1
    /\ v # <<>> => ~Last(v).pipe_out /\ (Last(v).redirection_in => Last(v).file)
                   /\ ~Last(v).redirection_out

(* A command that overruns the buffers is undefined: the byte too many is  *)
(* not missed, or the system ends when the stack is found damaged.         *)
ReadLine ==
    /\ pc = "read" /\ lines < MaxLines
    /\ \E line \in Lines : /\ program_vector' = ProcessLine(line)
                           /\ clean' = CleanLine(ProcessLine(line))
                           /\ pc' = "special" \/ (Overruns(line) /\ pc' = "aborted")
    /\ lines' = lines + 1 /\ it' = 1 /\ programs' = <<>> /\ failed' = {}
    /\ UNCHANGED <<dirVars, execVars, openedHandles, pipesMade, spotless>>

(* The input is at its end, or nothing can be written. *)
Leave ==
    /\ pc \in {"read", "newline"}
    /\ pc' = "exited"
    /\ UNCHANGED <<dirVars, program_vector, it, execVars, openedHandles, programs,
                   pipesMade, lines, histVars>>

Typed == program_vector[it]
AtCommand(name) == pc = "special" /\ it <= Len(program_vector) /\ Typed.command = <<name>>

(* Commands of the shell itself leave all the rest alone. *)
Special == UNCHANGED <<execVars, openedHandles, programs, pipesMade, lines, histVars>>

Exit ==
    /\ AtCommand("exit") /\ pc' = "exited"
    /\ UNCHANGED <<dirVars, program_vector, it>> /\ Special

Echo ==
    /\ AtCommand("echo")
    /\ echo_on' = (Typed.argument = <<"on">> \/ (echo_on /\ Typed.argument # <<"off">>))
    /\ program_vector' = IF Typed.argument # <<>> THEN program_vector
                         ELSE [program_vector EXCEPT ![it].argument =
                                 <<"ECHO is", IF echo_on THEN "on" ELSE "off">>]
    /\ it' = it + 1
    /\ UNCHANGED <<workingDirectory, directory, pc>> /\ Special

(* SetWorkingDirectory: any item will do, a file as well. *)
Target == resolvePath(workingDirectory, Split(Typed.argument))
Found  == Tail(Trim(Target)) \in Tree \cup {<<>>}

(* Mutant of ChangeDirectory: the prompt takes the argument, not the path. *)
ChangeUnasked ==
    /\ AtCommand("cd")
    /\ IF Typed.argument # <<>> /\ Found
       THEN /\ workingDirectory' = Target
            /\ directory' = Append(Trim(directory), Typed.argument)
       ELSE UNCHANGED <<workingDirectory, directory>>
    /\ it' = it + 1
    /\ UNCHANGED <<echo_on, pc, program_vector>> /\ Special

(* A path that is too long for the buffer leaves it as it is.  One that    *)
(* fills it without room for its end is let through to strcpy_s, which     *)
(* empties the buffer and fails.                                           *)
NoRoomForEnd(wd) == Len(wd) = BufferDepth + 1

GetWorkingDirectory(wd) ==
    IF NoRoomForEnd(wd) THEN <<>> ELSE IF Len(wd) > BufferDepth THEN directory ELSE wd

ChangeDirectory ==
    /\ AtCommand("cd")
    /\ IF Typed.argument # <<>> /\ Found
       THEN /\ workingDirectory' = Target
            /\ directory' = GetWorkingDirectory(Target)
       ELSE UNCHANGED <<workingDirectory, directory>>
    /\ it' = it + 1
    /\ UNCHANGED <<echo_on, pc, program_vector>> /\ Special

(* By default strcpy_s ends the system if there is no room. *)
StrcpyEndsSystem ==
    /\ AtCommand("cd") /\ Typed.argument # <<>> /\ Found /\ NoRoomForEnd(Target)
    /\ workingDirectory' = Target /\ pc' = "aborted"
    /\ UNCHANGED <<directory, echo_on, program_vector, it>> /\ Special

NotSpecial ==
    /\ pc = "special" /\ it <= Len(program_vector)
    /\ Typed.command \notin {<<"exit">>, <<"echo">>, <<"cd">>}
    /\ it' = it + 1
    /\ UNCHANGED <<dirVars, pc, program_vector>> /\ Special

SpecialDone ==
    /\ pc = "special" /\ it > Len(program_vector)
    /\ pc' = "newline"
    /\ UNCHANGED <<dirVars, program_vector, it>> /\ Special

-----------------------------------------------------------------------------
(* Execute_Commands: the pipes *)

(* The loops have the last entry in front of them. *)
Execute ==
    /\ pc = "newline"
    /\ IF program_vector = <<>>
       THEN pc' = "read" /\ UNCHANGED <<it, index, pipes>>
       ELSE /\ it' = Len(program_vector) /\ index' = Len(program_vector)
            /\ pipes' = <<>> /\ pc' = "pipes"
    /\ UNCHANGED <<dirVars, program_vector, active_handles, signaled, closing,
                   openedHandles, programs, pipesMade, lines, histVars>>

PipesWanted == pc = "pipes" /\ Len(pipes) < 2 * CountPipes(program_vector)

(* Mutant of CreatePipe: the ends are stacked in the order they came. *)
CreatePipeStraight ==
    /\ PipesWanted
    /\ LET k == pipesMade + 1
           t == With(openedHandles, <<"read", k>>)
       IN  /\ pipesMade' = k /\ openedHandles' = With(t, <<"write", k>>)
           /\ pipes' = pipes \o <<FirstFree(openedHandles), FirstFree(t)>>
    /\ UNCHANGED <<dirVars, pc, program_vector, it, index, active_handles, signaled,
                   closing, programs, lines, histVars>>

(* Create_Pipe gives the number of the read end, then of the write end;    *)
(* they are stacked the other way round.                                   *)
CreatePipe ==
    /\ PipesWanted
    /\ LET k == pipesMade + 1
           t == With(openedHandles, <<"read", k>>)
       IN  /\ pipesMade' = k /\ openedHandles' = With(t, <<"write", k>>)
           /\ pipes' = pipes \o <<FirstFree(t), FirstFree(openedHandles)>>
    /\ UNCHANGED <<dirVars, pc, program_vector, it, index, active_handles, signaled,
                   closing, programs, lines, histVars>>

PipesCreated ==
    /\ pc = "pipes" /\ ~PipesWanted
    /\ pc' = "start"
    /\ UNCHANGED <<dirVars, program_vector, it, execVars, openedHandles, programs,
                   pipesMade, lines, histVars>>

-----------------------------------------------------------------------------
(* Execute_Commands: the programs from the last to the first *)

(* cd and echo on: continue without index--. *)
SkipSpecial ==
    /\ pc = "start" /\ it > 0 /\ HandledInShell(Typed)
    /\ it' = it - 1
    /\ UNCHANGED <<dirVars, pc, program_vector, execVars, openedHandles, programs,
                   pipesMade, lines, histVars>>

SkipFile ==
    /\ pc = "start" /\ it > 0 /\ Typed.file /\ ~HandledInShell(Typed)
    /\ it' = it - 1 /\ index' = index - 1
    /\ UNCHANGED <<dirVars, pc, program_vector, pipes, active_handles, signaled,
                   closing, openedHandles, programs, pipesMade, lines, histVars>>

AtProgram == pc = "start" /\ it > 0 /\ ~Typed.file /\ ~HandledInShell(Typed)
IsLast    == index = Len(program_vector)
Redirects == ~IsLast /\ (Typed.redirection_in \/ Typed.redirection_out)

OpenFails ==
    /\ AtProgram /\ Redirects
    /\ failed' = failed \cup {"open"} /\ pc' = "wait"
    /\ UNCHANGED <<dirVars, program_vector, it, execVars, openedHandles, programs,
                   pipesMade, lines, clean, spotless>>

(* A program that reads a file in front of a pipe writes to that pipe.     *)
PipesOut == /\ ~IsLast
            /\ \/ Typed.pipe_out
               \/ /\ Typed.redirection_in /\ program_vector[index + 1].pipe_out
                  /\ Len(program_vector) > index + 1

Pops == (IF PipesOut THEN 1 ELSE 0) + (IF Typed.pipe_in THEN 1 ELSE 0)

(* The entry with the handles it is given: the file first, then the pipe   *)
(* behind it, then the pipe in front of it.                                *)
Wired ==
    LET file == IF Redirects THEN FirstFree(openedHandles) ELSE NoHandle IN
    [Typed EXCEPT
        !.pipe_out = Typed.pipe_out \/ PipesOut,
        !.redirection_in_handle  = IF Typed.redirection_in THEN file ELSE NoHandle,
        !.redirection_out_handle = IF Typed.redirection_out THEN file ELSE NoHandle,
        !.pipe_out_handle = IF PipesOut THEN Last(pipes) ELSE NoHandle,
        !.pipe_in_handle  = IF Typed.pipe_in THEN pipes[Len(pipes) + 1 - Pops] ELSE NoHandle]

FirstOf(first, second, default) ==
    IF first # NoHandle THEN first ELSE IF second # NoHandle THEN second ELSE default

InOf(p)  == FirstOf(p.pipe_in_handle, p.redirection_in_handle, std_in)
OutOf(p) == FirstOf(p.pipe_out_handle, p.redirection_out_handle, std_out)

(* pipes.at(pipes.size() - 1) of an empty vector throws, and nobody        *)
(* catches it: the system ends.                                            *)
PopsTooMuch ==
    /\ AtProgram /\ Pops > Len(pipes)
    /\ pc' = "crashed"
    /\ UNCHANGED <<dirVars, program_vector, it, execVars, openedHandles, programs,
                   pipesMade, lines, histVars>>

Flagged(flag, handle) == IF flag THEN {handle} ELSE {}

ObjectOf(t, h) == IF h \in DOMAIN t THEN t[h] ELSE <<"none", h>>

(* Create_Process with the handles of p. *)
CreateProcess ==
    /\ AtProgram /\ Pops <= Len(pipes)
    /\ LET p == Wired
           t == IF Redirects THEN With(openedHandles, <<"file", it>>) ELSE openedHandles
           n == Len(programs) + 1
       IN  /\ pipes' = SubSeq(pipes, 1, Len(pipes) - Pops)
           /\ IF p.command \in {<<c>> : c \in Programs}
              THEN /\ programs' = Append(programs,
                        [name |-> p.command[1], in |-> InOf(p), out |-> OutOf(p),
                         from |-> ObjectOf(t, InOf(p)), to |-> ObjectOf(t, OutOf(p)),
                         own |-> NoHandle, ended |-> FALSE])
                   /\ program_vector' = [program_vector EXCEPT ![it] = [p EXCEPT !.handle = n]]
                   /\ active_handles' = Append(active_handles, n)
                   /\ openedHandles' = t /\ index' = index - 1 /\ it' = it - 1
                   /\ UNCHANGED <<pc, failed>>
              ELSE /\ program_vector' = [program_vector EXCEPT ![it] = p]
                   /\ openedHandles' = Closed(t, Flagged(p.pipe_in, p.pipe_in_handle)
                                                 \cup Flagged(p.pipe_out, p.pipe_out_handle))
                   /\ failed' = failed \cup {"create"} /\ pc' = "wait"
                   /\ UNCHANGED <<programs, active_handles, index, it>>
    /\ UNCHANGED <<dirVars, signaled, closing, pipesMade, lines, clean, spotless>>

AllStarted ==
    /\ pc = "start" /\ it = 0
    /\ pc' = "wait"
    /\ UNCHANGED <<dirVars, program_vector, it, execVars, openedHandles, programs,
                   pipesMade, lines, histVars>>

-----------------------------------------------------------------------------
(* What lets a program that was started end *)

Running(n) == n \in DOMAIN programs /\ ~programs[n].ended

(* The read end of a pipe gives no end of the input while the write end is *)
(* open; all else that can be read from ends, if only by an error.         *)
InputEnds(n) ==
    programs[n].name \in Readers =>
        ~(/\ programs[n].from[1] = "read" /\ IsOpen(programs[n].from)
          /\ IsOpen(<<"write", programs[n].from[2]>>))

(* A full pipe has room again when its reader reads, or fails the writer   *)
(* when the read end is closed.                                            *)
OutputEnds(n) ==
    programs[n].name \in Floods =>
        \/ programs[n].to[1] # "write" \/ ~IsOpen(programs[n].to)
        \/ ~IsOpen(<<"read", programs[n].to[2]>>)
        \/ \E m \in DOMAIN programs : /\ Running(m) /\ programs[m].name \in Readers
                                       /\ programs[m].from = <<"read", programs[n].to[2]>>

-----------------------------------------------------------------------------
(* Execute_Commands: the wait for what was started *)

Same == UNCHANGED <<dirVars, index, pipes, programs, pipesMade, lines, clean, failed>>

EntryOf(n) == SelectInSeq(program_vector, LAMBDA p : p.handle = n)

Signaled == program_vector[EntryOf(active_handles[signaled])]

(* Mutant of FlaggedEnds: the write end stays open. *)
FlaggedEndsButOne(p) ==
    << Flagged(p.pipe_in, p.pipe_in_handle), {},
       Flagged(p.redirection_in, p.redirection_in_handle),
       Flagged(p.redirection_out, p.redirection_out_handle) >>

(* The ends an entry has flags for, in the order they are closed. *)
FlaggedEnds(p) ==
    << Flagged(p.pipe_in, p.pipe_in_handle), Flagged(p.pipe_out, p.pipe_out_handle),
       Flagged(p.redirection_in, p.redirection_in_handle),
       Flagged(p.redirection_out, p.redirection_out_handle) >>

(* Mutant of WaitFor: any program of the line is taken for the one that    *)
(* ended.                                                                  *)
WaitForAny ==
    /\ pc = "wait"
    /\ \E i \in DOMAIN active_handles : signaled' = i
    /\ closing' = 1 /\ pc' = "close"
    /\ UNCHANGED <<program_vector, it, active_handles, openedHandles, spotless>> /\ Same

(* Wait_For, Read_Exit_Code, and the entry of the program that ended. *)
WaitFor ==
    /\ pc = "wait"
    /\ \E i \in DOMAIN active_handles :
          /\ programs[active_handles[i]].ended
          /\ signaled' = i
          /\ IF EntryOf(active_handles[i]) = 0
             THEN pc' = "crashed" /\ UNCHANGED closing
             ELSE pc' = "close" /\ closing' = 1
    /\ UNCHANGED <<program_vector, it, active_handles, openedHandles, spotless>> /\ Same

(* A program that ends between the test of its state and addListener is    *)
(* not heard of: if no other program of the line can end then, the shell   *)
(* waits for ever.                                                         *)
WaitOverlooks ==
    /\ pc = "wait"
    /\ \E i \in DOMAIN active_handles : programs[active_handles[i]].ended
    /\ \A i \in DOMAIN active_handles : LET n == active_handles[i] IN
          Running(n) => ~(InputEnds(n) /\ OutputEnds(n))
    /\ pc' = "asleep"
    /\ UNCHANGED <<program_vector, it, active_handles, signaled, closing, openedHandles,
                   spotless>> /\ Same

(* A process is deleted when its exit code is read, and its thread may     *)
(* still be about to notify: it then wakes this wait, which finds no index *)
(* for it and returns -1, and at() throws.                                 *)
WaitGarbled ==
    /\ pc = "wait" /\ active_handles # <<>>
    /\ lines > 1 \/ \E n \in DOMAIN programs :
                       ~Running(n) /\ n \notin Range(active_handles)
    /\ pc' = "aborted"
    /\ UNCHANGED <<program_vector, it, active_handles, signaled, closing, openedHandles,
                   spotless>> /\ Same

(* Mutant of CloseEnd: the end is only forgotten. *)
CloseNothing ==
    /\ pc = "close" /\ closing <= Len(FlaggedEnds(Signaled))
    /\ closing' = closing + 1
    /\ UNCHANGED <<pc, program_vector, it, active_handles, signaled, openedHandles,
                   spotless>> /\ Same

CloseEnd ==
    /\ pc = "close" /\ closing <= Len(FlaggedEnds(Signaled))
    /\ openedHandles' = Closed(openedHandles, FlaggedEnds(Signaled)[closing])
    /\ closing' = closing + 1
    /\ UNCHANGED <<pc, program_vector, it, active_handles, signaled, spotless>> /\ Same

(* The close of a write end puts the last character into the pipe.  If its *)
(* writer left the pipe full and the read end is open it waits for room,   *)
(* with the lock of the table held: unless the reader is in a read already *)
(* it never gets the lock, and nobody makes room.                          *)
MayBeFull(object) ==
    /\ object[1] = "write" /\ IsOpen(<<"read", object[2]>>)
    /\ \E n \in DOMAIN programs : programs[n].to = object /\ programs[n].name \in Floods

CloseWaits ==
    /\ pc = "close" /\ closing <= Len(FlaggedEnds(Signaled))
    /\ \E h \in FlaggedEnds(Signaled)[closing] : MayBeFull(ObjectOf(openedHandles, h))
    /\ pc' = "stuck"
    /\ UNCHANGED <<program_vector, it, active_handles, signaled, closing, openedHandles,
                   spotless>> /\ Same

EraseProgram ==
    /\ pc = "close" /\ closing > Len(FlaggedEnds(Signaled))
    /\ program_vector' = RemoveAt(program_vector, EntryOf(active_handles[signaled]))
    /\ active_handles' = RemoveAt(active_handles, signaled)
    /\ pc' = "wait"
    /\ UNCHANGED <<it, signaled, closing, openedHandles, spotless>> /\ Same

(* Nothing runs any more: a newline, and the next prompt. *)
ExecuteReturns ==
    /\ pc = "wait" /\ active_handles = <<>>
    /\ pc' = "read"
    /\ spotless' = (spotless /\ clean /\ failed = {})
    /\ UNCHANGED <<program_vector, it, active_handles, signaled, closing, openedHandles>>
    /\ Same

-----------------------------------------------------------------------------
(* The programs that were started *)

Numbers == 1 .. Max({0} \cup {Len(ProcessLine(line)) : line \in Lines})
Spent      == -2      \* the number of a file that was closed
HasFile(n) == programs[n].own \notin {NoHandle, Spent}

Alone == UNCHANGED <<dirVars, pc, program_vector, it, execVars, pipesMade,
                          lines, histVars>>

(* Nobody holds the lock of the table for ever, and the system runs. *)
TableFree == pc \notin {"stuck", "aborted", "crashed"}

(* Bound: a program opens one file, and only once. *)
ProgramOpens(n) ==
    /\ Running(n) /\ TableFree /\ programs[n].own = NoHandle
    /\ programs[n].name \in Openers
    /\ openedHandles' = With(openedHandles, <<"own", n>>)
    /\ programs' = [programs EXCEPT ![n].own = FirstFree(openedHandles)]
    /\ Alone

ProgramCloses(n) ==
    /\ Running(n) /\ TableFree /\ HasFile(n)
    /\ openedHandles' = Closed(openedHandles, {programs[n].own})
    /\ programs' = [programs EXCEPT ![n].own = Spent]
    /\ Alone

ProgramEnds(n) ==
    /\ Running(n) /\ ~HasFile(n)
    /\ InputEnds(n) /\ OutputEnds(n)
    /\ programs' = [programs EXCEPT ![n].ended = TRUE]
    /\ UNCHANGED openedHandles
    /\ Alone

-----------------------------------------------------------------------------
ShellStep ==
    \/ Exit \/ Echo \/ ChangeDirectory \/ NotSpecial \/ SpecialDone \/ Execute
    \/ CreatePipe \/ PipesCreated
    \/ SkipSpecial \/ SkipFile \/ OpenFails \/ PopsTooMuch \/ CreateProcess \/ AllStarted
    \/ WaitFor \/ CloseEnd \/ EraseProgram \/ ExecuteReturns

(* What may happen to the shell, and need not. *)
GivesUp == StrcpyEndsSystem \/ WaitOverlooks \/ WaitGarbled \/ CloseWaits

Next == \/ ReadLine \/ Leave \/ ShellStep \/ GivesUp
        \/ \E n \in Numbers : ProgramOpens(n) \/ ProgramCloses(n) \/ ProgramEnds(n)

Spec == Init /\ [][Next]_vars

(* Threads run; a program ends when its input and its output let it.  That *)
(* a wait overlooks an end, or a close waits, is possible and never due.   *)
FairSpec == /\ Spec /\ WF_vars(ShellStep)
            /\ \A n \in Numbers : WF_vars(ProgramCloses(n)) /\ WF_vars(ProgramEnds(n))

-----------------------------------------------------------------------------
(* Properties *)

(* Where the shell can be held up for ever, or be ended: a wait that never *)
(* returns, a close that waits with the lock held, and all that ends the   *)
(* system here but the stack of pipe ends.                                 *)
NotReturned == {"asleep", "stuck", "aborted"}

TypeOK ==
    /\ IsAbsolute(workingDirectory) /\ echo_on \in BOOLEAN
    /\ directory = <<>> \/ IsAbsolute(directory)
    /\ pc \in {"read", "special", "newline", "pipes", "start", "wait", "close", "exited",
               "crashed"} \cup NotReturned
    /\ it \in 0 .. Len(program_vector) + 1 \/ pc \notin {"special", "newline", "pipes", "start"}
    /\ index \in Nat /\ Len(pipes) <= 2 * pipesMade
    /\ \A i \in DOMAIN active_handles : active_handles[i] \in DOMAIN programs
    /\ DOMAIN openedHandles \subseteq Nat /\ pipesMade \in Nat /\ lines \in 0 .. MaxLines
    /\ failed \subseteq {"open", "create"} /\ clean \in BOOLEAN /\ spotless \in BOOLEAN

(* The numbers of the table are given out again, so a handle closed twice, *)
(* or closed for the wrong program, is the handle of somebody else.        *)
(* Whatever is typed, a program that runs finds behind its input, its      *)
(* output and the file it opened what they were when it got them.  (The    *)
(* types of the variables are a conjunct.)                                 *)
RunningKeepsHandles ==
    /\ TypeOK
    /\ \A n \in DOMAIN programs : Running(n) =>
          /\ ObjectOf(openedHandles, programs[n].in) = programs[n].from
          /\ ObjectOf(openedHandles, programs[n].out) = programs[n].to
          /\ HasFile(n) =>
                ObjectOf(openedHandles, programs[n].own) = <<"own", n>>

(* Back at the prompt after lines that meant what they said, of which      *)
(* nothing failed, no pipe and no file is left open.                       *)
NothingLeft == pc = "read" /\ spotless => openedHandles = Console

(* The programs of such a line, started from the last to the first, hang   *)
(* together: each writes to the write end of the pipe whose read end the   *)
(* next one reads, and a file takes the place of the console only at the   *)
(* ends of the line.                                                       *)
NeighboursShareAPipe ==
    clean => \A n \in 2 .. Len(programs) :
        /\ programs[n].to[1] = "write"
        /\ programs[n - 1].from = <<"read", programs[n].to[2]>>

(* Ill-formed lines mix up the pipes, but the stack of their ends only     *)
(* runs out if a command is missing from the line.  (This is one of the    *)
(* ways the system ends by itself: NotReturned names those that a good     *)
(* line runs into as well.)                                                *)
PopsNeedGap ==
    pc = "crashed" => \E i \in DOMAIN program_vector : program_vector[i].command = <<>>

(* The prompt shows where relative names are looked up, unless that is too *)
(* long for the buffer of the shell.                                       *)
PromptIsTrue == Len(workingDirectory) <= BufferDepth => directory = workingDirectory

(* cd goes where a walk through the folders goes that takes .. one up and  *)
(* stays at the root, whenever every step of that walk exists (a step that *)
(* does not may be taken back by ..: only the end of a path is looked up). *)
Names(path) == Tail(Trim(path))
Lost == <<<<>>>>     \* no path: a name is not empty
Walk(at, c) ==
    LET next == IF c = Up THEN (IF at = <<>> THEN <<>> ELSE Front(at))
                ELSE IF c = Here THEN at ELSE Append(at, c)
    IN  IF at # Lost /\ next \in Tree \cup {<<>>} THEN next ELSE Lost

Walked(at, rel) ==
    LET after[i \in 0 .. Len(rel)] == IF i = 0 THEN at ELSE Walk(after[i - 1], rel[i])
    IN  after[Len(rel)]

CdWalks ==
    [][AtCommand("cd") /\ Typed.argument # <<>> /\ ~IsAbsolute(Split(Typed.argument)) =>
          LET end == Walked(Names(workingDirectory), Trim(Split(Typed.argument)))
          IN  end # Lost => Names(workingDirectory') = end]_vars

(* The shell comes back to the prompt from every such line whose files can *)
(* be opened, also if one of its programs does not exist, or is at one of  *)
(* the three places NotReturned names: there is no fourth, as there would  *)
(* be if an end of a pipe was left open that somebody waits for.  (After a *)
(* failed open such ends are left open, and the line may never end.)       *)
ShellReturns ==
    pc = "wait" /\ clean /\ "open" \notin failed ~>
        pc \in {"read", "exited"} \cup NotReturned
=============================================================================
