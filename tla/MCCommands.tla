----------------------------- MODULE MCCommands -----------------------------
(***************************************************************************)
(* A small instance of Commands for TLC: keys of up to 4 bytes, values of  *)
(* up to 6.                                                                *)
(***************************************************************************)
EXTENDS Commands

SomeNames == {"", "-", "set", "del", "get", "put", "k", "v", "w"}

\* Keys that are one byte too long end with a '-'.
SomeHyphens == {<<"-", 1>>, <<"k", 5>>}

Ops == {Token("set", 3), Token("del", 3), Token("get", 3), Token("put", 3)}
Keys == {Token("k", n) : n \in {1, 4, 5, 9}} \cup {Dash}
Values == {Token("v", n) : n \in {1, 6, 7}} \cup {Dash}

\* Lines with too few words, with the right ones, and with one too many.
SomeLines ==
    {<<o>> : o \in Ops} \cup {<<o, k>> : o \in Ops, k \in Keys}
    \cup {<<o, k, v>> : o \in Ops, k \in Keys, v \in Values}
    \cup {<<o, k, v, Token("w", 2)>> : o \in Ops, k \in Keys, v \in Values}
=============================================================================
