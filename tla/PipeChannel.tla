---------------------------- MODULE PipeChannel ----------------------------
(***************************************************************************)
(* What a pipe of the kernel promises to the two programs it connects: a   *)
(* bounded first-in first-out channel of characters.  The writing side may *)
(* end the transmission, and then the last character sent is EOT unless    *)
(* nobody reads any more.  The reading side may be shut at any moment; a   *)
(* put and a take that had already passed their checks then still happen,  *)
(* at most one of each.  Nothing is taken after an EOT.                    *)
(*                                                                         *)
(* Pipe.tla is the detailed specification and implements this one.         *)
(***************************************************************************)
EXTENDS Naturals, Sequences

CONSTANTS Chars,      \* the characters a program can write
          EOT,        \* end of transmission, one of them
          Capacity    \* how many characters the channel holds

VARIABLES sent,       \* every character put into the channel, in order
          received,   \* every character taken out of it, in order
          shut,       \* nobody reads any more
          ended,      \* nobody writes any more
          late        \* the operations a shut channel still lets finish

chVars == <<sent, received, shut, ended, late>>

Operations == {"put", "take"}

EndsInEOT(s) == s # <<>> /\ s[Len(s)] = EOT

ChInit == /\ sent = <<>>
          /\ received = <<>>
          /\ shut = FALSE
          /\ ended = FALSE
          /\ late = {}

Put == /\ ~ended
       /\ shut => "put" \in late
       /\ Len(sent) - Len(received) < Capacity
       /\ \E c \in Chars : sent' = Append(sent, c)
       /\ late' = late \ {"put"}
       /\ UNCHANGED <<received, shut, ended>>

Take == /\ shut => "take" \in late
        /\ Len(received) < Len(sent)
        /\ ~EndsInEOT(received)
        /\ received' = Append(received, sent[Len(received) + 1])
        /\ late' = late \ {"take"}
        /\ UNCHANGED <<sent, shut, ended>>

Shut == /\ ~shut
        /\ shut' = TRUE
        /\ late' \in SUBSET Operations
        /\ UNCHANGED <<sent, received, ended>>

Finish == /\ ~ended
          /\ shut \/ EndsInEOT(sent)
          /\ ended' = TRUE
          /\ UNCHANGED <<sent, received, shut, late>>

ChNext == Put \/ Take \/ Shut \/ Finish

ChSpec == ChInit /\ [][ChNext]_chVars
=============================================================================
