--------------------------- MODULE LidDestroyProofs ---------------------------
(***************************************************************************)
(* Proofs about LidDestroy, for every set of servers, grace and retry      *)
(* floor: its types and its lock, that what is owed stays on record once   *)
(* the file took it, and that the daemon only settles on proof.            *)
(***************************************************************************)
EXTENDS LidDestroy, TLAPS

\* The clocks saturate within their range.
LEMMA AtMostType ==
  ASSUME NEW bound \in Nat, NEW n \in 0..bound
  PROVE  AtMost(n + 1, bound) \in 0..bound /\ 0 \in 0..bound
BY DEF AtMost

\* Removing an entry leaves an active one exactly when entries are left.
LEMMA ForgetType ==
  ASSUME NEW s, Forget(s), entries \subseteq Servers, s \in Servers,
         active \in entries \/ (active = None /\ entries = {})
  PROVE  entries' \subseteq Servers /\ (active' \in entries' \/ (active' = None /\ entries' = {}))
<1>1. entries' = entries \ {s}
  BY DEF Forget
<1>2. CASE active = s
  <2>1. CASE entries = {s}
    BY <1>1, <1>2, <2>1 DEF Forget
  <2>2. CASE entries # {s}
    BY <1>1, <1>2, <2>2 DEF Forget
  <2> QED BY <2>1, <2>2
<1>3. CASE active # s
  BY <1>1, <1>3 DEF Forget
<1> QED BY <1>1, <1>2, <1>3

LEMMA InitIInv == Init => IInv
<1> SUFFICES ASSUME Init PROVE IInv
  OBVIOUS
<1> USE ServersAssumption, GracesAssumption, FloorAssumption
<1>1. TypeOK
  <2>1. debt \in Debts /\ named \in Servers /\ active \in entries
    BY DEF Init, Debts, NoDebt
  <2>2. pc \in [Threads -> Places] /\ life \in Lives /\ mu \in Threads \cup {None}
    BY DEF Init, Places, Lives
  <2>3. grace \in Graces /\ grace \in Nat /\ since \in 0..grace /\ attempted \in 0..Floor
    BY DEF Init
  <2>4. held \in [Threads -> 0..grace]
    BY <2>3 DEF Init
  <2> QED BY <2>1, <2>2, <2>3, <2>4 DEF Init, TypeOK
<1>2. Locked /\ target = None
  BY DEF Init, Locked, Threads, None
<1> QED BY <1>1, <1>2 DEF IInv

\* Every step of the machine, a person or a goroutine keeps the types and the lock.
LEMMA StepIInv == IInv /\ [Next]_vars => IInv'
<1> SUFFICES ASSUME IInv, [Next]_vars PROVE IInv'
  OBVIOUS
<1> USE ServersAssumption, GracesAssumption, FloorAssumption
<1>t. TypeOK /\ Locked /\ (target # None => \E t \in Threads : pc[t] = "destroy")
  BY DEF IInv
<1>n. grace \in Nat
  BY <1>t DEF TypeOK
<1>1. ASSUME NEW t \in Threads, NotNow(t) PROVE IInv'
  BY <1>t, <1>1 DEF NotNow, IInv, TypeOK, Locked, machine, account, daemon, record, Places, Goto, Threads, None
<1>2. ASSUME NEW t \in Threads, SeeLidOpen(t) PROVE IInv'
  BY <1>t, <1>2 DEF SeeLidOpen, IInv, TypeOK, Locked, machine, account, daemon, record, Places, Goto, Threads, None
<1>3. ASSUME NEW t \in Threads, Retry(t) PROVE IInv'
  BY <1>t, <1>3 DEF Retry, BeginDestroy, IInv, TypeOK, Locked, machine, account, daemon, record, Places, Goto, Threads, None
<1>4. ASSUME NEW t \in Threads, RecordLidReopened(t) PROVE IInv'
  BY <1>t, <1>n, <1>4 DEF RecordLidReopened, Unlock, IInv, TypeOK, Locked, machine, account, daemon, record, Places, Goto, Threads, None, Lives
<1>5. ASSUME NEW t \in Threads, RecordLidDestroyCancelled(t) PROVE IInv'
  BY <1>t, <1>5 DEF RecordLidDestroyCancelled, Persist, Unlock, IInv, TypeOK, Locked, machine, account, daemon, record, Places, Goto, Threads, None, Lives, Debts, Debt
<1>6. ASSUME NEW t \in Threads, DestroySucceeds(t) PROVE IInv'
  BY <1>t, <1>n, <1>6, ForgetType DEF DestroySucceeds, Settle, ClearLidDebt, Unlock, IInv, TypeOK, Locked, machine, Places, Goto, Threads, None, Lives, Debts, NoDebt
<1>7. ASSUME NEW t \in Threads, NEW a \in Answers, DestroyFails(t, a) PROVE IInv'
  BY <1>t, <1>n, <1>7 DEF DestroyFails, Owe, Persist, Unlock, IInv, TypeOK, Locked, machine, Places, Goto, Threads, None, Lives, Debts, Debt
<1>8. ASSUME NEW t \in Threads, NEW a \in Answers, NothingLocal(t, a) PROVE IInv'
  <2>1. CASE a = "ok" /\ remote = {}
    BY <1>t, <1>n, <1>8, <2>1 DEF NothingLocal, Settle, ClearLidDebt, Unlock, IInv, TypeOK, Locked, machine, account, Places, Goto, Threads, None, Lives, Debts, NoDebt
  <2>2. CASE ~(a = "ok" /\ remote = {})
    BY <1>t, <1>n, <1>8, <2>2 DEF NothingLocal, Owe, Persist, Unlock, IInv, TypeOK, Locked, machine, account, Places, Goto, Threads, None, Lives, Debts, Debt
  <2> QED BY <2>1, <2>2
<1>9. CASE ProbeTick
  BY <1>t, <1>n, <1>9 DEF ProbeTick, ReadOwed, IInv, TypeOK, Locked, machine, account, daemon, record, Places, Goto, Threads
<1>10. CASE UplinkBack
  BY <1>t, <1>n, <1>10 DEF UplinkBack, ReadOwed, IInv, TypeOK, Locked, machine, account, daemon, record, Places, Goto, Threads
<1>11. CASE OnPowerWake
  <2>1. /\ pc["N"] = "idle" /\ pc' \in [Threads -> Places] /\ held' \in [Threads -> 0..grace]
        /\ pc'["N"] \in {"idle", "held", "owed"} /\ \A t \in Threads \ {"N"} : pc'[t] = pc[t]
    BY <1>t, <1>n, <1>11 DEF OnPowerWake, ReadOwed, TypeOK, Places, Goto, Threads
  <2>2. TypeOK'
    BY <1>t, <1>11, <2>1 DEF OnPowerWake, TypeOK, account, daemon, record
  <2>3. Locked' /\ (target' # None => \E t \in Threads : pc'[t] = "destroy")
    BY <1>t, <1>11, <2>1 DEF OnPowerWake, Locked, Threads
  <2> QED BY <2>2, <2>3 DEF IInv
<1>12. CASE DeferLidClose
  <2>1. life' \in Lives /\ since' \in 0..grace /\ filed' \in BOOLEAN
    <3>1. CASE life = "deferred"
      BY <1>t, <1>12, <3>1, Zenon DEF DeferLidClose, record, TypeOK
    <3>2. CASE life # "deferred"
      BY <1>n, <1>12, <3>2 DEF DeferLidClose, Lives
    <3> QED BY <3>1, <3>2
  <2> QED BY <1>t, <1>12, <2>1 DEF DeferLidClose, IInv, TypeOK, Locked, account, daemon
<1>13. CASE OnLidClose
  BY <1>t, <1>13 DEF OnLidClose, IInv, TypeOK, Locked, account, daemon, record, Places, Goto, Threads
<1>14. CASE DestroyOnClose
  BY <1>t, <1>14 DEF DestroyOnClose, BeginDestroy, IInv, TypeOK, Locked, machine, account, daemon, record, Places, Goto, Threads, None
<1>15. CASE LidShuts \/ LidOpens
  BY <1>t, <1>15 DEF LidShuts, LidOpens, IInv, TypeOK, Locked, account, daemon, record
<1>16. CASE UplinkChanges
  BY <1>t, <1>16 DEF UplinkChanges, IInv, TypeOK, Locked, account, daemon, record, Places, Goto, Threads
<1>17. CASE Tick
  BY <1>t, <1>n, <1>17, AtMostType DEF Tick, IInv, TypeOK, Locked, machine, account, daemon
<1>18. CASE DaemonStops
  <2>1. pc' \in [Threads -> Places] /\ held' \in [Threads -> 0..grace] /\ mu' = None /\ target' = None
    BY <1>n, <1>18 DEF DaemonStops, Places
  <2>2. TypeOK'
    BY <1>t, <1>18, <2>1 DEF DaemonStops, TypeOK, machine, record
  <2>3. Locked'
    BY <1>18, <2>1 DEF DaemonStops, Locked, Threads, None
  <2> QED BY <2>1, <2>2, <2>3 DEF IInv
<1>19. CASE DaemonStarts
  <2>1. active \in Servers
    BY <1>t, <1>19 DEF DaemonStarts, TypeOK
  <2>2. TypeOK'
    <3>1. life' \in Lives /\ since' \in 0..grace /\ filed' \in BOOLEAN /\ attempted' \in 0..Floor
      BY <1>n, <1>19 DEF DaemonStarts, Lives
    <3>2. up' \in BOOLEAN /\ gone' \in BOOLEAN /\ wakeDue' \in BOOLEAN /\ named' \in Servers
      BY <1>19, <2>1 DEF DaemonStarts
    <3> QED BY <1>t, <1>19, <3>1, <3>2 DEF DaemonStarts, TypeOK, account
  <2> QED BY <1>t, <1>19, <2>2 DEF DaemonStarts, IInv, Locked
<1>20. ASSUME NEW s \in Servers, Use(s) PROVE IInv'
  BY <1>t, <1>20 DEF Use, IInv, TypeOK, Locked, machine, daemon, record
<1>21. ASSUME NEW s \in Servers, NEW a \in Answers, NEW forced \in BOOLEAN, Destroy(s, a, forced) PROVE IInv'
  BY <1>t, <1>21, ForgetType DEF Destroy, ClearLidDebt, IInv, TypeOK, Locked, machine, daemon, record, Debts, NoDebt
<1>22. CASE UNCHANGED vars
  BY <1>t, <1>22 DEF vars, IInv, TypeOK, Locked, machine, account, daemon, record
<1> QED
  BY <1>1, <1>2, <1>3, <1>4, <1>5, <1>6, <1>7, <1>8, <1>9, <1>10, <1>11, <1>12, <1>13, <1>14, <1>15,
     <1>16, <1>17, <1>18, <1>19, <1>20, <1>21, <1>22
  DEF Next, Reconcile, Attempt, Notifications, Person

\* Types, and lidMu: the retry, the wake and the lid close never act at the same time.
THEOREM LidTypes == Spec => []IInv
<1> QED BY InitIInv, StepIInv, PTL DEF Spec

\* What the daemon owes and what the file says of it are left alone.
LEMMA Untouched ==
  ASSUME OwedIsOnRecord, UNCHANGED <<debt, named, entries, record>>
  PROVE  OwedIsOnRecord'
<1>1. life' = life /\ debt' = debt /\ named' = named /\ entries' = entries /\ (filed' <=> filed)
  BY Zenon DEF record
<1> QED BY <1>1 DEF OwedIsOnRecord, Debt

\* A destroy that is owed or given up stays on record once the file took it: no step but a
\* write that fails leaves a pending or cancelled destroy whose file says something else
\* while its server is still listed.
THEOREM OwedOnRecord == Spec => []OwedIsOnRecord
<1>1. Init => OwedIsOnRecord
  BY DEF Init, OwedIsOnRecord
<1>2. IInv /\ IInv' /\ OwedIsOnRecord /\ [Next]_vars => OwedIsOnRecord'
  <2> SUFFICES ASSUME IInv, IInv', OwedIsOnRecord, [Next]_vars PROVE OwedIsOnRecord'
    OBVIOUS
  <2> filed \in BOOLEAN /\ filed' \in BOOLEAN
    BY DEF IInv, TypeOK
  <2>1. ASSUME NEW t \in Threads, Reconcile(t) PROVE OwedIsOnRecord'
    <3>1. CASE NotNow(t) \/ SeeLidOpen(t) \/ Retry(t)
      BY <3>1, Untouched DEF NotNow, SeeLidOpen, Retry, account, daemon
    <3>2. CASE RecordLidReopened(t) \/ DestroySucceeds(t)
      BY <3>2 DEF RecordLidReopened, DestroySucceeds, Settle, OwedIsOnRecord
    <3>3. CASE RecordLidDestroyCancelled(t)
      BY <3>3 DEF RecordLidDestroyCancelled, Persist, OwedIsOnRecord, Debt, daemon
    <3>4. ASSUME NEW a \in Answers, DestroyFails(t, a) PROVE OwedIsOnRecord'
      BY <3>4 DEF DestroyFails, Owe, Persist, OwedIsOnRecord, Debt
    <3>5. ASSUME NEW a \in Answers, NothingLocal(t, a) PROVE OwedIsOnRecord'
      BY <3>5 DEF NothingLocal, Settle, Owe, Persist, OwedIsOnRecord, Debt
    <3> QED BY <2>1, <3>1, <3>2, <3>3, <3>4, <3>5 DEF Reconcile, Attempt
  <2>2. CASE ProbeTick \/ UplinkBack \/ OnPowerWake \/ OnLidClose \/ DestroyOnClose
    BY <2>2, Untouched DEF ProbeTick, UplinkBack, OnPowerWake, OnLidClose, DestroyOnClose, account, daemon
  <2>3. CASE DeferLidClose
    <3>1. life' = "deferred" \/ UNCHANGED <<debt, named, entries, record>>
      BY <2>3 DEF DeferLidClose, account, daemon
    <3> QED BY <3>1, Untouched DEF OwedIsOnRecord
  <2>4. CASE LidShuts \/ LidOpens \/ UplinkChanges \/ UNCHANGED vars
    BY <2>4, Untouched DEF LidShuts, LidOpens, UplinkChanges, vars, account, daemon
  <2>5. CASE Tick
    <3>1. life' = life /\ debt' = debt /\ named' = named /\ entries' = entries /\ (filed' <=> filed)
      BY <2>5, Zenon DEF Tick, account, daemon
    <3> QED BY <3>1 DEF OwedIsOnRecord, Debt
  <2>7. CASE DaemonStarts
    BY <2>7 DEF DaemonStarts, OwedIsOnRecord
  <2>8. CASE DaemonStops
    BY <2>8, Untouched DEF DaemonStops
  <2>9. ASSUME NEW s \in Servers, Use(s) PROVE OwedIsOnRecord'
    BY <2>9, Untouched DEF Use, daemon
  \* The one way to lose the record is to destroy the server it names.
  <2>6. ASSUME NEW s \in Servers, NEW a \in Answers, NEW forced \in BOOLEAN, Destroy(s, a, forced)
        PROVE  OwedIsOnRecord'
    <3>1. life' = life /\ named' = named /\ filed' = filed
      BY <2>6 DEF Destroy, daemon, record
    <3>2. CASE a = "ok" \/ forced
      <4>1. entries' = entries \ {s} /\ (debt.server # s => debt' = debt)
        BY <2>6, <3>2 DEF Destroy, Forget
      <4>2. debt = Debt(life) => debt.server = named
        BY DEF Debt
      <4>3. CASE named = s
        BY <4>1, <4>3, <3>1 DEF OwedIsOnRecord
      <4>4. CASE named # s
        BY <4>1, <4>2, <4>4, <3>1 DEF OwedIsOnRecord, Debt
      <4> QED BY <4>3, <4>4
    <3>3. CASE ~(a = "ok" \/ forced)
      BY <2>6, <3>1, <3>3 DEF Destroy, OwedIsOnRecord, Debt
    <3> QED BY <3>2, <3>3
  <2> QED BY <2>1, <2>2, <2>3, <2>4, <2>5, <2>6, <2>7, <2>8, <2>9 DEF Next, Notifications, Person
<1> QED BY <1>1, <1>2, InitIInv, StepIInv, PTL DEF Spec

\* The daemon only calls it settled, and stops, on proof: of all steps only a delete that
\* was answered and an empty account raise the flag.
THEOREM SettledOnProof == Spec => SettledIsProven
<1>1. [Next]_vars => [~gone /\ gone' => IF target = None THEN remote' = {} ELSE target \notin remote']_vars
  <2> SUFFICES ASSUME Next, ~gone, gone'
               PROVE  IF target = None THEN remote' = {} ELSE target \notin remote'
    OBVIOUS
  <2>1. PICK t \in Threads : Reconcile(t)
    BY DEF Next, ProbeTick, UplinkBack, Notifications, OnPowerWake, DeferLidClose, OnLidClose,
           DestroyOnClose, LidShuts, LidOpens, UplinkChanges, Tick, Person, Use, Destroy,
           DaemonStarts, DaemonStops, daemon
  <2>2. DestroySucceeds(t) \/ \E a \in Answers : NothingLocal(t, a) /\ a = "ok" /\ remote = {}
    BY <2>1 DEF Reconcile, NotNow, SeeLidOpen, Retry, RecordLidReopened,
                RecordLidDestroyCancelled, Attempt, DestroyFails, NothingLocal, Owe, daemon
  <2> QED BY <2>2 DEF DestroySucceeds, NothingLocal, account
<1> QED BY <1>1, PTL DEF Spec, SettledIsProven

-----------------------------------------------------------------------------

\* A goroutine goes somewhere, and what is owed stays as it is.
LEMMA Going ==
  ASSUME IInv, NothingUnderWay, NEW t \in Threads, NEW l, Goto(t, l),
         l \notin {"close", "destroy"}, life' \notin {"deferred", "pending"}
  PROVE  NothingUnderWay'
<1>1. pc \in [Threads -> Places]
  BY DEF IInv, TypeOK
<1>2. \A u \in Threads : pc'[u] = IF u = t THEN l ELSE pc[u]
  BY <1>1 DEF Goto
<1> QED
  BY <1>2 DEF NothingUnderWay

\* Once nothing is owed or on its way under an open lid, nothing is until the lid shuts: a
\* goroutine that acts on what it has read before finds the lid open under lidMu, and takes
\* the destroy back (reconcileLidDebt, onLidClose).
THEOREM OpenLidTheorem == Spec => OpenLidIsSafe
<1>1. ASSUME IInv, [Next]_vars, lid = "open", lid' = "open", NothingUnderWay
      PROVE  NothingUnderWay'
  <2>1. ASSUME NEW t \in Threads, Reconcile(t) PROVE NothingUnderWay'
    <3>1. CASE NotNow(t)
      BY <1>1, <3>1, Going DEF NotNow, NothingUnderWay, record
    <3>2. CASE SeeLidOpen(t)
      <4>1. Goto(t, IF pc[t] = "held" THEN "reopen" ELSE "cancel") /\ life' = life
        BY <3>2 DEF SeeLidOpen, record
      <4> QED
        BY <1>1, <4>1, Going DEF NothingUnderWay
    <3>3. CASE Retry(t)
      BY <1>1, <3>3 DEF Retry
    <3>4. CASE RecordLidReopened(t) \/ RecordLidDestroyCancelled(t)
      <4>1. Goto(t, "idle") /\ life' \in {"armed", "cancelled"}
        BY <3>4 DEF RecordLidReopened, RecordLidDestroyCancelled, Unlock
      <4> QED
        BY <1>1, <4>1, Going
    <3>5. CASE Attempt(t)
      BY <1>1, <3>5 DEF Attempt, DestroySucceeds, DestroyFails, NothingLocal, NothingUnderWay
    <3> QED
      BY <2>1, <3>1, <3>2, <3>3, <3>4, <3>5 DEF Reconcile
  <2>2. CASE ProbeTick
    BY <1>1, <2>2 DEF ProbeTick, NothingUnderWay
  <2>3. ASSUME NEW t \in Threads, ReadOwed(t), UNCHANGED record PROVE NothingUnderWay'
    <3>1. Goto(t, "idle") /\ life' = life
      BY <1>1, <2>3 DEF ReadOwed, NothingUnderWay, record
    <3> QED
      BY <1>1, <3>1, Going DEF NothingUnderWay
  <2>4. CASE UplinkBack \/ OnPowerWake
    BY <2>3, <2>4 DEF UplinkBack, OnPowerWake, Threads
  <2>5. CASE DeferLidClose \/ OnLidClose \/ DestroyOnClose
    BY <1>1, <2>5 DEF DeferLidClose, OnLidClose, DestroyOnClose, NothingUnderWay, Threads
  <2>6. CASE UplinkChanges
    <3>1. (Goto("U", "spawned") \/ UNCHANGED pc) /\ life' = life /\ "U" \in Threads
      BY <2>6 DEF UplinkChanges, record, Threads
    <3> QED
      BY <1>1, <3>1, Going DEF NothingUnderWay
  <2>7. CASE LidShuts \/ LidOpens
    BY <1>1, <2>7 DEF LidShuts, LidOpens
  <2>8. CASE DaemonStops
    BY <1>1, <2>8 DEF DaemonStops, NothingUnderWay, record
  <2>9. CASE Tick \/ DaemonStarts \/ UNCHANGED vars
    BY <1>1, <2>9 DEF Tick, DaemonStarts, vars, record, NothingUnderWay
  <2>10. ASSUME NEW s \in Servers, Use(s) \/ \E a \in Answers, forced \in BOOLEAN : Destroy(s, a, forced)
         PROVE  NothingUnderWay'
    BY <1>1, <2>10 DEF Use, Destroy, record, NothingUnderWay
  <2> QED
    BY <1>1, <2>1, <2>2, <2>4, <2>5, <2>6, <2>7, <2>8, <2>9, <2>10
    DEF Next, Notifications, Person
<1>2. IInv /\ [Next]_vars =>
        [lid = "open" /\ lid' = "open" /\ NothingUnderWay => NothingUnderWay']_vars
  BY <1>1
<1> QED
  BY <1>2, LidTypes, PTL DEF Spec, OpenLidIsSafe

-----------------------------------------------------------------------------

\* What keeps a lid close alive.
Stands ==
  \/ closeDue \/ pc["N"] = "close" \/ gone
  \/ \E t \in Threads : pc[t] = "destroy"
  \/ life = "pending" /\ \A t \in Threads : pc[t] \notin {"reopen", "cancel"}

\* A goroutine that is neither in the lid close, nor at the provider, nor about to take
\* anything back goes to another such place.
LEMMA StillStands ==
  ASSUME IInv, Stands, NEW t \in Threads, NEW l, Goto(t, l) \/ UNCHANGED pc,
         pc[t] \notin {"close", "destroy"}, l \notin {"reopen", "cancel"},
         UNCHANGED <<closeDue, gone, life>>
  PROVE  Stands'
<1>1. pc \in [Threads -> Places]
  BY DEF IInv, TypeOK
<1>2. \A u \in Threads : u # t => pc'[u] = pc[u]
  BY <1>1 DEF Goto
<1>3. pc'[t] = l \/ pc'[t] = pc[t]
  BY <1>1 DEF Goto
<1>4. "N" \in Threads
  BY DEF Threads
<1> QED
  BY <1>2, <1>3, <1>4 DEF Stands

\* A delete that ends settles the close, or leaves it owed: nobody else is in lidMu.
LEMMA AttemptStands ==
  ASSUME IInv, NEW t \in Threads, Attempt(t)
  PROVE  Stands'
<1>1. pc[t] = "destroy" /\ (Settle(t) \/ Owe(t))
  BY DEF Attempt, DestroySucceeds, DestroyFails, NothingLocal
<1>2. CASE Settle(t)
  BY <1>2 DEF Settle, Stands
<1>3. CASE Owe(t)
  <2>1. \A u \in Threads : u # t => pc[u] \notin {"reopen", "cancel"}
    BY <1>1 DEF IInv, Locked
  <2>2. \A u \in Threads : pc'[u] = IF u = t THEN "idle" ELSE pc[u]
    BY <1>3 DEF Owe, Unlock, Goto, IInv, TypeOK
  <2>3. life' = "pending"
    BY <1>3 DEF Owe
  <2> QED
    BY <2>1, <2>2, <2>3 DEF Stands
<1> QED
  BY <1>1, <1>2, <1>3

\* What a goroutine takes back is not the close, which waits for it.
LEMMA TakingBackStands ==
  ASSUME IInv, Stands, NEW t \in Threads,
         RecordLidReopened(t) \/ RecordLidDestroyCancelled(t)
  PROVE  Stands'
<1>1. pc[t] \in {"reopen", "cancel"} /\ mu = t /\ Goto(t, "idle") /\ UNCHANGED <<closeDue, gone>>
  BY DEF RecordLidReopened, RecordLidDestroyCancelled, Unlock, IInv, Locked, machine, daemon
<1>2. \A u \in Threads : u # t => pc'[u] = pc[u]
  BY <1>1 DEF Goto, IInv, TypeOK
<1>3. "N" \in Threads /\ \A u \in Threads : pc[u] # "destroy"
  BY <1>1 DEF IInv, Locked, Threads
<1>4. closeDue \/ gone \/ pc["N"] = "close"
  BY <1>1, <1>3 DEF Stands
<1> QED
  BY <1>1, <1>2, <1>3, <1>4 DEF Stands

\* A lid close on a daemon without a grace is never lost while the lid stays shut: the
\* invariant IInv gives the lock, and under it each of the ways a close may be standing leads
\* to another one (onLidClose, attemptLidDestroy, reconcileLidDebt): the safety half of
\* LidCloseIsAnswered.
THEOREM CloseTheorem == Spec => []CloseStands
<1>1. Init => CloseStands
  BY DEF Init, CloseStands
<1>2. ASSUME IInv, CloseStands, [Next]_vars, lid' = "shut", up', grace' = 0
      PROVE  Stands'
  <2>1. CASE LidShuts
    BY <2>1 DEF LidShuts, Stands
  <2>2. CASE LidOpens \/ DaemonStarts \/ DaemonStops
    BY <1>2, <2>2 DEF LidOpens, DaemonStarts, DaemonStops, machine
  <2>3. CASE /\ lid = "shut" /\ up /\ grace = 0
             /\ ~ (LidShuts \/ LidOpens \/ DaemonStarts \/ DaemonStops)
    <3>1. Stands
      BY <1>2, <2>3 DEF CloseStands, Stands
    <3>2. ASSUME NEW t \in Threads, Reconcile(t) PROVE Stands'
      <4>1. CASE NotNow(t)
        <5>1. /\ Goto(t, "idle") /\ pc[t] \notin {"close", "destroy"}
              /\ UNCHANGED <<closeDue, gone, life>>
          BY <4>1 DEF NotNow, machine, daemon, record
        <5> QED
          BY <1>2, <3>1, <5>1, StillStands
      <4>2. CASE SeeLidOpen(t)
        BY <2>3, <4>2 DEF SeeLidOpen
      <4>3. CASE Retry(t)
        <5>1. /\ Goto(t, "destroy") /\ pc[t] \notin {"close", "destroy"}
              /\ UNCHANGED <<closeDue, gone, life>>
          BY <4>3 DEF Retry, BeginDestroy, machine, daemon, record
        <5> QED
          BY <1>2, <3>1, <5>1, StillStands
      <4>4. CASE RecordLidReopened(t) \/ RecordLidDestroyCancelled(t)
        BY <1>2, <3>1, <4>4, TakingBackStands
      <4>5. CASE Attempt(t)
        BY <1>2, <4>5, AttemptStands
      <4> QED
        BY <3>2, <4>1, <4>2, <4>3, <4>4, <4>5 DEF Reconcile
    <3>3. ASSUME NEW t \in Threads, ReadOwed(t), pc[t] \in {"idle", "spawned"},
                 UNCHANGED <<closeDue, gone, life>>
          PROVE  Stands'
      <4>1. Goto(t, "held") \/ Goto(t, "owed") \/ Goto(t, "idle")
        BY <3>3 DEF ReadOwed
      <4> QED
        BY <1>2, <3>1, <3>3, <4>1, StillStands
    <3>4. CASE ProbeTick \/ UplinkBack \/ OnPowerWake
      BY <3>3, <3>4 DEF ProbeTick, UplinkBack, OnPowerWake, Threads, machine, daemon, record
    <3>5. CASE DeferLidClose
      BY <1>2, <2>3, <3>5, GracesAssumption DEF DeferLidClose
    <3>6. CASE OnLidClose
      <4>1. pc'["N"] = "close"
        BY <1>2, <3>6 DEF OnLidClose, Goto, IInv, TypeOK, Threads
      <4> QED
        BY <4>1 DEF Stands
    <3>7. CASE DestroyOnClose
      <4>1. "N" \in Threads /\ pc'["N"] = "destroy"
        BY <1>2, <3>7 DEF DestroyOnClose, BeginDestroy, Goto, IInv, TypeOK, Threads
      <4> QED
        BY <4>1 DEF Stands
    <3>8. CASE UplinkChanges
      <4>1. /\ "U" \in Threads /\ UNCHANGED <<closeDue, gone, life>>
            /\ UNCHANGED pc \/ (Goto("U", "spawned") /\ pc["U"] = "idle")
        BY <3>8 DEF UplinkChanges, Threads, daemon, record
      <4>2. CASE UNCHANGED pc
        BY <3>1, <4>1, <4>2 DEF Stands
      <4>3. CASE Goto("U", "spawned") /\ pc["U"] = "idle"
        BY <1>2, <3>1, <4>1, <4>3, StillStands
      <4> QED
        BY <4>1, <4>2, <4>3
    <3>9. CASE Tick \/ UNCHANGED vars
      BY <3>1, <3>9 DEF Tick, vars, machine, daemon, record, Stands
    <3>10. ASSUME NEW s \in Servers,
                  Use(s) \/ \E a \in Answers, forced \in BOOLEAN : Destroy(s, a, forced)
           PROVE  Stands'
      BY <2>3, <3>10 DEF Use, Destroy
    <3> QED
      BY <1>2, <2>3, <3>2, <3>4, <3>5, <3>6, <3>7, <3>8, <3>9, <3>10
      DEF Next, Notifications, Person
  <2>4. /\ lid' # lid => LidShuts \/ LidOpens
        /\ up' # up => DaemonStarts \/ DaemonStops
        /\ grace' = grace
    <3>1. CASE \E t \in Threads : Reconcile(t)
      BY <3>1 DEF Reconcile, NotNow, SeeLidOpen, Retry, RecordLidReopened,
                  RecordLidDestroyCancelled, Attempt, DestroySucceeds, DestroyFails,
                  NothingLocal, machine, daemon
    <3>2. CASE ProbeTick \/ UplinkBack \/ Notifications
      BY <3>2 DEF ProbeTick, UplinkBack, Notifications, OnPowerWake, DeferLidClose, OnLidClose,
                  DestroyOnClose, machine, daemon
    <3>3. CASE LidShuts \/ LidOpens \/ UplinkChanges \/ Tick \/ UNCHANGED vars
      BY <3>3 DEF LidShuts, LidOpens, UplinkChanges, Tick, vars, machine, daemon
    <3>4. CASE Person
      BY <3>4 DEF Person, Use, Destroy, DaemonStarts, DaemonStops, machine, daemon
    <3> QED
      BY <1>2, <3>1, <3>2, <3>3, <3>4 DEF Next
  <2> QED
    BY <1>2, <2>1, <2>2, <2>3, <2>4
<1>3. IInv /\ CloseStands /\ [Next]_vars => CloseStands'
  BY <1>2 DEF CloseStands, Stands
<1> QED
  BY <1>1, <1>3, LidTypes, PTL DEF Spec

=============================================================================
