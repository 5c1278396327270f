------------------------------- MODULE MCShell -------------------------------
(* Lines for every path through the shell, with programs that read their   *)
(* input, that write more than a pipe holds, and that do neither.  (A path *)
(* of four components is too long for a prompt, one of three just fills    *)
(* its buffer; a line of ten tokens just fills the buffer of a command.)   *)
EXTENDS Shell

MCLines == {
    <<>>, <<"exit">>, <<"echo", " ", "off">>, <<"echo">>,
    <<"cd", " ", "d", "\\", "e">>, <<"cd", " ", ".">>, <<"cd", "..">>, <<"cd">>,
    <<"cd", " ", "nosuch">>, <<"cd", " ", "..", "\\", "..", "\\", "f", "\\">>,
    <<"cd", " ", "C:", "\\", "d">>,
    <<"cd", " ", "C:", "\\", "d", "\\", "e", "\\", "d">>,
    <<"cat", " ", "f", " ", "f", " ", "f", " ", "f", " ">>,
    <<" ", "cat", " ">>, <<"big", " ", "|", " ", "cat">>,
    <<"cat", "<", "f", "|", "big", "|", "cat", ">", "f">>,
    <<"big", "|", "echo", " ", "f">>, <<"cat", "|", "nosuch">>, <<"nosuch", "|", "cat">>,
    <<"cat", "|", "nosuch", "|", "cat">>,
    <<"cat", "|", "big", "<", "f">>,
    <<"|", "cat">>, <<"cat", "|">>, <<"big", "|", "|", "cat">>,
    <<"big", ">", "f", "|", "cat">>, <<"big", "|", "cat", "|", "cd">>,
    <<"big", "|", "cd", " ", "d", "|", "cat">>,
    <<"big", "|", "cat", "|", "echo", " ", "on">>}
MCWords == {"cat", "big", "echo", "cd", "exit", "on", "off", "d", "e", "f", "nosuch"}
MCTree  == {<<<<"d">>>>, <<<<"d">>, <<"e">>>>, <<<<"d">>, <<"e">>, <<"d">>>>, <<<<"f">>>>}
=============================================================================
