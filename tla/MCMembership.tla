---------------------------- MODULE MCMembership ----------------------------
(***************************************************************************)
(* Small instances of Membership for TLC: ways to launch a cluster.        *)
(***************************************************************************)
EXTENDS Membership, TLC

CONSTANTS n1, n2, n3, n4, n5

Way(members, contacts, quitters, lossy) ==
    [members |-> members, contacts |-> contacts, quitters |-> quitters, lossy |-> lossy]

Nobody == [i \in {} |-> {}]

\* The README's demo: all contact the first node.
Demo == Way({}, n1 :> {} @@ n2 :> {n1} @@ n3 :> {n1}, {}, FALSE)

\* Two nodes join two members, neither of which knows of the other's newcomer.
Crossed == Way({n1, n2}, n3 :> {n1} @@ n4 :> {n2}, {}, FALSE)

\* Two of four members quit at once.
Partings == Way({n1, n2, n3, n4}, Nobody, {n3, n4}, FALSE)

\* A fifth node joins full tables, in which a member that quits makes room.
Full == Way({n1, n2, n3, n4}, n5 :> {n1}, {n1}, TRUE)

AllWays == {Demo, Crossed, Partings, Full}

\* A third node joins two of which one quits.
JoinAndPart == {Way({n1, n2}, n3 :> {n1}, {n2}, FALSE)}
=============================================================================
