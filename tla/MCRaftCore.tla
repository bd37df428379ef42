----------------------------- MODULE MCRaftCore -----------------------------
(***************************************************************************)
(* Small instances of RaftCore for TLC.                                    *)
(***************************************************************************)
EXTENDS RaftCore, TLC

\* Nodes differ only in their name, and so do writes.
Symmetry == Permutations(Server)
=============================================================================
