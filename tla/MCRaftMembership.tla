-------------------------- MODULE MCRaftMembership --------------------------
(***************************************************************************)
(* Small instances of RaftMembership for TLC: ways to launch a cluster.    *)
(***************************************************************************)
EXTENDS RaftMembership, TLC

CONSTANTS n1, n2, n3

Way(members, contacts, quitters) ==
    [members |-> members, contacts |-> contacts, quitters |-> quitters,
     lossy |-> FALSE, writes |-> {}, appends |-> FALSE, racing |-> FALSE]

Nobody == [i \in {} |-> {}]

\* A third node joins two members.
Grow == Way({n1, n2}, n3 :> {n1}, {})

\* One of three members leaves.
Shrink == Way({n1, n2, n3}, Nobody, {n3})

\* The same, and answers to vote requests are sent while LEAVE is handled.
ShrinkRacing == [Shrink EXCEPT !.racing = TRUE]

\* A second node joins one that has led alone; lines are lost.
GrowLog ==
    [Way({n1}, n2 :> {n1}, {}) EXCEPT !.lossy = TRUE, !.writes = Command, !.appends = TRUE]

AllWays == {Grow, Shrink, ShrinkRacing, GrowLog}

\* What the theorems of RaftMembershipProofs assume of launches.
ASSUME WaysMeet == \A l \in AllWays : MajoritiesMeet(l)
ASSUME SomeWaysGrow == NobodyQuits(Grow) /\ NobodyQuits(GrowLog)

\* The README's demo: all contact the first node.
Demo == {[Way({}, n1 :> {} @@ n2 :> {n1} @@ n3 :> {n1}, {}) EXCEPT !.appends = TRUE]}

GrowHearing == {[Grow EXCEPT !.appends = TRUE]}
ShrinkOnly == {Shrink}
RacingOnly == {ShrinkRacing}
GrowLogOnly == {GrowLog}
=============================================================================
