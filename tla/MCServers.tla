----------------------------- MODULE MCServers -----------------------------
(* The processes that run commands are alike, and so are the names.        *)
EXTENDS Servers, TLC

Alike == Permutations(Procs) \cup Permutations(Names)
=============================================================================
