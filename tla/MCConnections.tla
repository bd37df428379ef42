---------------------------- MODULE MCConnections ---------------------------
(***************************************************************************)
(* A small instance of Connections for TLC.                                *)
(***************************************************************************)
EXTENDS Connections

\* Short, cut and empty lines, "cr" where a line is cut and elsewhere, a line
\* without an end and one that fills the buffer, which holds 3 bytes.
LongStreams ==
    {<<"x", "nl", "nl", "x", "nl">>,
     <<"x", "cr", "nl", "x">>,
     <<"cr", "x", "nl", "x", "nl">>,
     <<"nl", "x", "x", "x", "x">>}

\* One client sends much, the others come and go.
OneIsLong ==
    [c \in Client |-> CASE c = "a" -> LongStreams
                       [] c = "b" -> {<<"x", "nl">>}
                       [] c = "c" -> {<<"nl">>}]
=============================================================================
