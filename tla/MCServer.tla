------------------------------ MODULE MCServer ------------------------------
(***************************************************************************)
(* Two clients and two processes: one client can stay silent in the read   *)
(* of its child while the other is served, arrives in two segments, or     *)
(* waits for a tracker that is killed; and fork() runs out of processes    *)
(* when both children are held.                                            *)
(***************************************************************************)
EXTENDS Server

CONSTANTS k1, k2, c1, c2

ConnValue  == {k1, k2}
ChildValue == {c1, c2}

=============================================================================
