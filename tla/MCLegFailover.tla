--------------------------- MODULE MCLegFailover ---------------------------
(* Network conditions for LegFailover's runs. *)
EXTENDS LegFailover

\* Every request may meet anything at any time.
Erratic == {[l \in Legs |-> Quality]}

\* Exactly one leg carries, and which one may change.
OneCarries == {Only(l) : l \in Legs}

=============================================================================
