------------------------------- MODULE Filters -------------------------------
(***************************************************************************)
(* The programs that read a text to its end: type, sort, find and freq.    *)
(* Each is an operator that takes what the program has so far and what a   *)
(* call of Read_File returned.  A read that fails ends the program; what   *)
(* it has then is its result.  A text is a sequence of codes.  The order   *)
(* that std::sort gives the lines is left out.                             *)
(***************************************************************************)
EXTENDS Integers, FiniteSets, SequencesExt

CONSTANTS NUL, ETX, EOT, BS, LF, CR,   \* NControl_Codes
          LineCounts,                  \* the values of uint16_t, which find counts in
          CharCounts                   \* the values of uint32_t, which freq counts in

ASSUME FiltersAssumption ==
    LF \notin {EOT, ETX} /\ LineCounts \in Nat \ {0} /\ CharCounts \in Nat \ {0}

Stops == {EOT, ETX}

(* A text up to its end. *)
Before(text) ==
    LET stop == SelectInSeq(text, LAMBDA c : c \in Stops) IN
    IF stop = 0 THEN text ELSE SubSeq(text, 1, stop - 1)

Times(text, c) == Cardinality({i \in DOMAIN text : text[i] = c})

(* A text without the codes in drop. *)
Without(text, drop) ==
    LET kept[i \in 0 .. Len(text)] ==
            IF i = 0 THEN <<>>
            ELSE IF text[i] \in drop THEN kept[i - 1] ELSE Append(kept[i - 1], text[i])
    IN  kept[Len(text)]

Begin == [lines |-> <<>>, line |-> <<>>, done |-> FALSE]

(* One code: a newline and the end both end the line. *)
Code(s, c) ==
    IF s.done THEN s
    ELSE IF c \in Stops \cup {LF}
         THEN [lines |-> Append(s.lines, s.line), line |-> <<>>, done |-> c \in Stops]
         ELSE [s EXCEPT !.line = Append(@, c)]

(* Mutant of type: a line does not go on in the next read. *)
typeCut(s, chunk) ==
    FoldLeft(LAMBDA t, c : Code(t, c), [s EXCEPT !.line = <<>>], chunk)

(* The lines written, and the one that has begun. *)
type(s, chunk) ==
    LET after[i \in 0 .. Len(chunk)] ==
            IF i = 0 THEN s ELSE Code(after[i - 1], chunk[i])
    IN  after[Len(chunk)]

(* sort takes the end of a read for the end of a line, unless it reads a   *)
(* file that it opened itself, which it does like type.                    *)
sort(s, chunk) == type([s EXCEPT !.lines = Append(@, s.line), !.line = <<>>], chunk)

(* find counts its reads and the newlines, in 16 bits; freq the ASCII      *)
(* codes, in 32.                                                           *)
find(n, chunk) == (n + 1 + Times(Before(chunk), LF)) % LineCounts

freq(chars, chunk) ==
    [c \in DOMAIN chars |-> (chars[c] + Times(Before(chunk), c)) % CharCounts]

(* What type and sort write for their lines. *)
Output(s) == FlattenSeq([i \in DOMAIN s.lines |-> Append(s.lines[i], LF)])
=============================================================================
