----------------------------- MODULE CommandLine -----------------------------
(***************************************************************************)
(* How the shell reads a line (command_parser.cpp, ProcessLine) and a path *)
(* (filesystems.cpp, parse_path).                                          *)
(*                                                                         *)
(* A line is a sequence of tokens: a word of letters, a run of other       *)
(* characters, a space, one of the operators, or a separator of folders.   *)
(* A command and an argument are sequences of tokens too.  A path is what  *)
(* is left of its text when it is split at the separators: C:\ is the      *)
(* drive followed by an empty component.                                   *)
(***************************************************************************)
EXTENDS Integers, FiniteSets, SequencesExt

CONSTANTS Words,      \* the tokens that consist of letters
          Drive,      \* the token C:
          LineRoom    \* tokens a command and its end have room for in 256
                      \* characters; with one more they are just full

Space     == " "
Separator == "\\"
Operators == {"|", "<", ">"}
NoHandle  == -1       \* Invalid_Handle

From(s, i) == SubSeq(s, i, Len(s))

(* The numbers of a set, in their order. *)
InOrder(S) ==
    [k \in 1 .. Cardinality(S) |-> CHOOSE i \in S : Cardinality({j \in S : j <= i}) = k]

-----------------------------------------------------------------------------
(* Lines *)

Program == [command |-> <<>>, argument |-> <<>>, file |-> FALSE,
            redirection_in |-> FALSE, redirection_out |-> FALSE,
            pipe_in |-> FALSE, pipe_out |-> FALSE, handle |-> NoHandle,
            pipe_in_handle |-> NoHandle, pipe_out_handle |-> NoHandle,
            redirection_in_handle |-> NoHandle, redirection_out_handle |-> NoHandle]

RemoveLeadingWhitespace(s) ==
    IF \E i \in DOMAIN s : s[i] # Space
    THEN From(s, SelectInSeq(s, LAMBDA t : t # Space)) ELSE <<>>

RemoveTrailingWhitespace(s) == SubSeq(s, 1, SelectLastInSeq(s, LAMBDA t : t # Space))

RemoveWhitespace(s) == RemoveTrailingWhitespace(RemoveLeadingWhitespace(s))

(* The text between two operators.  After < or > all of it is the name of  *)
(* a file, which goes by the command of the entry; else the letters it     *)
(* begins with are the command.  A missing operator is "".                 *)
ProcessCommand(text, left, right) ==
    LET c == RemoveWhitespace(text)
        letters == IF c # <<>> /\ Head(c) \in Words THEN 1 ELSE 0 IN
    IF c = <<>> THEN Program
    ELSE [Program EXCEPT
            !.pipe_in  = left = "|",  !.pipe_out = right = "|",
            !.redirection_in = right = "<" \/ left \in {"<", ">"},
            !.redirection_out = right = ">",
            !.file     = left \in {"<", ">"},
            !.command  = IF left \in {"<", ">"} THEN c ELSE SubSeq(c, 1, letters),
            !.argument = IF left \in {"<", ">"} THEN <<>>
                         ELSE RemoveLeadingWhitespace(From(c, letters + 1))]

(* FindPipeOrRedirect: where the commands of a line end.  What follows the *)
(* last operator is a command unless nothing follows.                      *)
Ends(line) ==
    InOrder({i \in DOMAIN line : line[i] \in Operators} \cup
            (IF line # <<>> /\ Last(line) \notin Operators THEN {Len(line) + 1} ELSE {}))

ProcessLine(line) ==
    LET ends == Ends(line)
        begin(k) == IF k = 1 THEN 1 ELSE ends[k - 1] + 1
        Op(i) == IF i \in DOMAIN line THEN line[i] ELSE ""
    IN  [k \in DOMAIN ends |->
            ProcessCommand(SubSeq(line, begin(k), ends[k] - 1),
                           IF k = 1 THEN "" ELSE Op(ends[k - 1]), Op(ends[k]))]

(* A full line with no operator leaves no room for the end of the command  *)
(* in the buffers it is copied to.                                         *)
Overruns(line) ==
    Len(line) > LineRoom /\ \A i \in DOMAIN line : line[i] \notin Operators

(* Mutant of CountPipes: the entry of a file has no pipe behind it. *)
CountProgramPipes(v) == Cardinality({i \in DOMAIN v : v[i].pipe_out /\ ~v[i].file})

CountPipes(v) == Cardinality({i \in DOMAIN v : v[i].pipe_out})

-----------------------------------------------------------------------------
(* Paths *)

Split(s) ==
    LET cuts == InOrder({0, Len(s) + 1} \cup {i \in DOMAIN s : s[i] = Separator})
    IN  [k \in 1 .. Len(cuts) - 1 |-> SubSeq(s, cuts[k] + 1, cuts[k + 1] - 1)]

Up   == <<"..">>
Here == <<".">>

(* The text of a path does not keep an empty last component apart. *)
Trim(path) == IF path # <<>> /\ Last(path) = <<>> THEN Front(path) ELSE path

RootPath == <<<<Drive>>, <<>>>>

(* Mutant of Component: there is no going up from the root. *)
ComponentStays(abs, c) ==
    IF c = Up /\ Len(abs) > 1 THEN Front(abs)
    ELSE IF c = Here THEN abs ELSE Append(abs, c)

(* One turn of the loop of parse_path. *)
Component(abs, c) ==
    LET next == IF c = Up THEN Front(abs)
                ELSE IF c = Here THEN abs ELSE Append(abs, c)
    IN  IF next = <<>> THEN <<<<Drive>>>> ELSE next

parse_path(abs, rel) ==
    LET after[i \in 0 .. Len(rel)] ==
            IF i = 0 THEN Trim(abs) ELSE Component(after[i - 1], rel[i])
        path == after[Len(rel)]
    IN  IF Len(path) = 1 THEN Append(path, <<>>) ELSE path

(* A path with a drive and a separator after it is absolute, and is used   *)
(* as it stands: nothing resolves the .. in it.                            *)
IsAbsolute(path) == Len(path) > 1 /\ path[1] = <<Drive>>

resolvePath(wd, path) == IF IsAbsolute(path) THEN path ELSE parse_path(wd, path)
=============================================================================
