---------------------------- MODULE MCLidDestroy ----------------------------
(* The servers of a safety run of LidDestroy are interchangeable. *)
EXTENDS LidDestroy, TLC

Symmetric == Permutations(Servers)

=============================================================================
