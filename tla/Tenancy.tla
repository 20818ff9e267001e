------------------------------ MODULE Tenancy -------------------------------
(***************************************************************************)
(* What `mole up`, `mole down`, the daemon and its sing-box owe the        *)
(* machine together: the TUN device, the ports and the routes are a place  *)
(* for one tenant.  A daemon moves in only when nobody lives there and no  *)
(* engine is left from before; only the tenant starts an engine, and only  *)
(* when none runs.  A tenant that gives notice takes its engine along, and *)
(* how long that takes it is its own affair; the engine of one that is     *)
(* killed belongs to nobody, and is ended before the next one moves in.    *)
(* Engine implements it, with the engines that a signal still reaches.     *)
(***************************************************************************)
CONSTANTS
  Processes,  \* process ids
  Nobody      \* none of them

VARIABLES
  tenant,   \* the daemon that lives there, or Nobody
  engine    \* the engine that runs, with its owner; a function with at most one point

Vacant == [b \in {} |-> Nobody]

Init == tenant = Nobody /\ engine = Vacant

MoveIn(d) ==
  /\ tenant = Nobody /\ engine = Vacant
  /\ tenant' = d /\ UNCHANGED engine

StartEngine(b) ==
  /\ tenant # Nobody /\ engine = Vacant
  /\ engine' = [e \in {b} |-> tenant] /\ UNCHANGED tenant

\* It is stopped, dies, or no longer answers to anything.
EndEngine == engine' = Vacant /\ UNCHANGED tenant

\* It gives notice.
MoveOut == tenant' = Nobody /\ engine' = Vacant

\* It is killed.
Abandon == tenant' = Nobody /\ engine' = [b \in DOMAIN engine |-> Nobody]

Next == (\E p \in Processes : MoveIn(p) \/ StartEngine(p)) \/ EndEngine \/ MoveOut \/ Abandon

Spec == Init /\ [][Next]_<<tenant, engine>>

=============================================================================
