------------------------------- MODULE Voting -------------------------------
(***************************************************************************)
(* What elections promise, without messages, threads or roles: a voter     *)
(* votes in later and later terms, one candidate each, no vote is ever     *)
(* withdrawn, and whoever wins has the votes of a majority for that term.  *)
(***************************************************************************)
EXTENDS Integers, FiniteSets

CONSTANT Server

VARIABLES
    votes,      \* <<t, v, c>>: v has voted for c in term t
    winners     \* <<t, c>>: c has won term t

Init == votes = {} /\ winners = {}

\* The voter of ballot b has not voted in its term, nor in a later one.
Cast(b) ==
    /\ votes' = votes \cup {b}
    /\ \A a \in votes : a[2] = b[2] => a[1] < b[1]

Win(w) ==
    /\ winners' = winners \cup {w}
    /\ 2 * Cardinality({v \in Server : <<w[1], v, w[2]>> \in votes'}) > Cardinality(Server)

\* A vote may win the election it is cast in.
Next ==
    /\ votes' = votes \/ \E b \in votes' : Cast(b)
    /\ winners' = winners \/ \E w \in winners' : Win(w)

Spec == Init /\ [][Next]_<<votes, winners>>
=============================================================================
