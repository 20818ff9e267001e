---------------------------- MODULE ServersProofs ---------------------------
(***************************************************************************)
(* For any number of processes, deployments and names.                     *)
(*                                                                         *)
(* First, servers.json keeps the promise of Registry.  What that rests on  *)
(* is small (FileInv): who holds the lock has read the file as it is, the  *)
(* file holds nothing twice, and what is appended is an entry.             *)
(*                                                                         *)
(* Then the file, the account and the receipts agree (IInv).  What a       *)
(* process carries fits them (Fits), and every step of a process is kind   *)
(* to what the others carry (Onward): an instance that exists never        *)
(* un-exists, one on record stays on record, and only the process of a     *)
(* deployment creates its instance, enters it and turns its receipt back.  *)
(***************************************************************************)
EXTENDS Servers, TLAPS

Book(e) == [name |-> e.name, id |-> e.id]
BooksOf(file) == {Book(e) : e \in file}

LEMMA BooksAreOfTheStore == Books = BooksOf(store)
BY DEF Books, BooksOf, Book

\* A file of servers, none of them twice.
Sound(file) == file \subseteq Entries /\ Unique(file)

\* One entry is changed, and still stands for the same server.
LEMMA OneChanges ==
  ASSUME NEW file, Sound(file), NEW e \in file, NEW f \in Entries, f.name = e.name, f.id = e.id
  PROVE  /\ Sound((file \ {e}) \cup {f})
         /\ BooksOf((file \ {e}) \cup {f}) = BooksOf(file)
<1> DEFINE new == (file \ {e}) \cup {f}
<1>1. Unique(new)
  BY DEF Sound, Unique
<1>2. Book(f) = Book(e)
  BY DEF Book
<1>3. BooksOf(new) = BooksOf(file)
  BY <1>2 DEF BooksOf
<1> QED
  BY <1>1, <1>3 DEF Sound

\* One entry goes.
LEMMA OneGoes ==
  ASSUME NEW file, Sound(file), NEW e \in file
  PROVE  /\ Sound(file \ {e}) /\ Book(e) \in BooksOf(file)
         /\ BooksOf(file \ {e}) = BooksOf(file) \ {Book(e)}
<1>1. \A f \in file \ {e} : Book(f) # Book(e)
  BY DEF Sound, Unique, Book
<1> QED
  BY <1>1 DEF Sound, Unique, BooksOf

\* Every entry is changed, and each still stands for the same server.
LEMMA AllChange ==
  ASSUME NEW file, Sound(file), NEW f \in [file -> Entries],
         \A e \in file : f[e].name = e.name /\ f[e].id = e.id
  PROVE  /\ Sound({f[e] : e \in file})
         /\ BooksOf({f[e] : e \in file}) = BooksOf(file)
<1>1. Unique({f[e] : e \in file})
  BY DEF Sound, Unique
<1>2. \A e \in file : Book(f[e]) = Book(e)
  BY DEF Book
<1>3. BooksOf({f[e] : e \in file}) = BooksOf(file)
  BY <1>2 DEF BooksOf
<1> QED
  BY <1>1, <1>3 DEF Sound

\* What the books may go through in one write.
Turn(old, new) ==
  \/ new = old
  \/ \E s \in R!Servers : (\A t \in old : ~R!SameServer(s, t)) /\ new = old \cup {s}
  \/ \E s \in R!Servers : s \in old /\ new = old \ {s}

LEMMA PatchedIsTheSame ==
  ASSUME NEW e \in Entries, NEW c
  PROVE  Patched(c, e) \in Entries /\ Patched(c, e).name = e.name /\ Patched(c, e).id = e.id
BY DEF Patched, Entries

LEMMA AppendTurns ==
  ASSUME NEW file, Sound(file), NEW t \in Entries, NEW new \in AppendServer(file, t)
  PROVE  Sound(new) /\ Turn(BooksOf(file), BooksOf(new)) /\ BooksOf(new) = BooksOf(file) \cup {Book(t)}
<1> DEFINE e == [t EXCEPT !.active = (file = {})]
<1>1. new = file \cup {e} /\ \A f \in file : f.name # t.name /\ (t.id # None => f.id # t.id)
  BY DEF AppendServer
<1>2. e \in Entries /\ e.name = t.name /\ e.id = t.id
  BY DEF Entries
<1> HIDE DEF e
<1>3. Sound(new)
  BY <1>1, <1>2 DEF Sound, Unique
<1>4. BooksOf(new) = BooksOf(file) \cup {Book(e)} /\ Book(e) = Book(t)
  BY <1>1, <1>2 DEF BooksOf, Book
<1>5. Book(e) \in R!Servers
  BY <1>2 DEF Book, R!Servers, Entries
<1>6. \A s \in BooksOf(file) : ~R!SameServer(Book(e), s)
  BY <1>1, <1>2 DEF BooksOf, Book, R!SameServer
<1> QED
  BY <1>3, <1>4, <1>5, <1>6 DEF Turn

LEMMA RemoveTurns ==
  ASSUME NEW file, Sound(file), NEW t, NEW new \in RemoveServer(file, t)
  PROVE  /\ Sound(new) /\ Turn(BooksOf(file), BooksOf(new))
         /\ \/ new = file /\ Meant(file, t) = {}
            \/ \E e \in Meant(file, t) : BooksOf(new) = BooksOf(file) \ {Book(e)}
<1>1. CASE Meant(file, t) = {}
  BY <1>1 DEF RemoveServer, Turn
<1>2. CASE Meant(file, t) # {}
  <2>1. PICK e \in Meant(file, t) :
          new \in IF e.active THEN Inherited(file \ {e}) ELSE {file \ {e}}
    BY <1>2 DEF RemoveServer
  <2>2. e \in file /\ e \in Entries
    BY DEF Meant, Sound
  <2>3. Sound(file \ {e}) /\ Book(e) \in BooksOf(file)
        /\ BooksOf(file \ {e}) = BooksOf(file) \ {Book(e)}
    BY <2>2, OneGoes
  <2>4. Sound(new) /\ BooksOf(new) = BooksOf(file \ {e})
    <3>1. CASE new = file \ {e}
      BY <2>3, <3>1
    <3>2. CASE new # file \ {e}
      <4>1. PICK h \in file \ {e} : new = ((file \ {e}) \ {h}) \cup {[h EXCEPT !.active = TRUE]}
        BY <2>1, <3>2 DEF Inherited
      <4>2. h \in Entries
        BY DEF Sound
      <4>3. [h EXCEPT !.active = TRUE] \in Entries /\ [h EXCEPT !.active = TRUE].name = h.name
            /\ [h EXCEPT !.active = TRUE].id = h.id
        BY <4>2 DEF Entries
      <4> QED
        BY <2>3, <4>1, <4>3, OneChanges
    <3> QED
      BY <3>1, <3>2
  <2>5. Book(e) \in R!Servers
    BY <2>2 DEF Book, R!Servers, Entries
  <2> QED
    BY <2>3, <2>4, <2>5 DEF Turn
<1> QED
  BY <1>1, <1>2

\* A change that is neither an addition nor a removal leaves the books as they are.
LEMMA ChangesKeepBooks ==
  ASSUME NEW r, NEW file, Sound(file), r.change \notin {"append", "remove"},
         NEW new \in Outcomes(r, file)
  PROVE  Sound(new) /\ BooksOf(new) = BooksOf(file)
<1>1. CASE r.change = "use"
  <2> DEFINE used == [e \in file |-> [e EXCEPT !.active = (e.name = r.target.name)]]
  <2>1. new = {used[e] : e \in file}
    BY <1>1 DEF Outcomes, UseServer
  <2>2. ASSUME NEW e \in file
        PROVE  used[e] \in Entries /\ used[e].name = e.name /\ used[e].id = e.id
    <3>1. e \in Entries
      BY DEF Sound
    <3>2. used[e] = [e EXCEPT !.active = (e.name = r.target.name)]
      OBVIOUS
    <3>3. (e.name = r.target.name) \in BOOLEAN
      OBVIOUS
    <3> QED
      BY <3>1, <3>2, <3>3 DEF Entries
  <2>3. used \in [file -> Entries]
    BY <2>2
  <2> HIDE DEF used
  <2> QED
    BY <2>1, <2>2, <2>3, AllChange
<1>2. CASE r.change = "fill"
  <2> DEFINE filled == [e \in file |-> IF e.id \in r.seen /\ ~e.addr
                                       THEN [e EXCEPT !.addr = TRUE] ELSE e]
  <2>1. new = {filled[e] : e \in file}
    BY <1>2 DEF Outcomes, FillAddresses
  <2>2. ASSUME NEW e \in file
        PROVE  filled[e] \in Entries /\ filled[e].name = e.name /\ filled[e].id = e.id
    <3>1. e \in Entries
      BY DEF Sound
    <3>2. filled[e] = IF e.id \in r.seen /\ ~e.addr THEN [e EXCEPT !.addr = TRUE] ELSE e
      OBVIOUS
    <3> QED
      BY <3>1, <3>2 DEF Entries
  <2>3. filled \in [file -> Entries]
    BY <2>2
  <2> HIDE DEF filled
  <2> QED
    BY <2>1, <2>2, <2>3, AllChange
<1>3. CASE r.change \notin {"append", "remove", "use", "fill"}
  <2>1. PICK e \in Meant(file, r.target) : new = (file \ {e}) \cup {Patched(r.change, e)}
    BY <1>3 DEF Outcomes, ChangeServer
  <2>2. e \in file /\ e \in Entries
    BY DEF Meant, Sound
  <2> QED
    BY <2>1, <2>2, PatchedIsTheSame, OneChanges
<1> QED
  BY <1>1, <1>2, <1>3

\* Whatever a command makes of the file, servers enter or leave the books one at a time.
LEMMA OutcomesTurn ==
  ASSUME NEW r, NEW file, Sound(file), r.change = "append" => r.target \in Entries,
         NEW new \in Outcomes(r, file)
  PROVE  Sound(new) /\ Turn(BooksOf(file), BooksOf(new))
<1>1. CASE r.change = "append"
  BY <1>1, AppendTurns DEF Outcomes
<1>2. CASE r.change = "remove"
  BY <1>2, RemoveTurns DEF Outcomes
<1>3. CASE r.change \notin {"append", "remove"}
  BY <1>3, ChangesKeepBooks DEF Turn
<1> QED
  BY <1>1, <1>2, <1>3

-----------------------------------------------------------------------------

\* What is appended is an entry, and a deployment has one in hand.
Sane(r) ==
  /\ r.change = "append" => r.target \in Entries
  /\ r.cmd = "deploy" => r.target \in Entries /\ r.deploy \in Deploys
  /\ r.at \in {"script", "order", "post", "created"} => r.cmd = "deploy"

FileInv == TypeOK /\ Unique(store) /\ Locked /\ \A p \in Procs : Sane(run[p])

LEMMA IdleIsARun == Idle \in Runs /\ Sane(Idle) /\ Idle.at = "idle" /\ Idle.change = "use"
BY DEF Idle, Runs, Sane, Changes, Places

\* A process without the lock makes a step that leaves the file and the lock alone.
Accounts == [Deploys -> {"none", "on", "halted", "gone"}]
Receipts == [Deploys -> Stages]

Outside(p) ==
  /\ run[p].at # "locked" /\ UNCHANGED <<store, lock, dropped>>
  /\ account' \in Accounts /\ stage' \in Receipts

LEMMA Kept ==
  ASSUME FileInv
  PROVE  /\ account \in Accounts /\ stage \in Receipts
         /\ \A d : \A v \in {"none", "on", "halted", "gone"} : [account EXCEPT ![d] = v] \in Accounts
         /\ \A d : \A s \in Stages : [stage EXCEPT ![d] = s] \in Receipts
         /\ \A p \in Procs : run[p] \in Runs /\ Sane(run[p])
BY DEF FileInv, TypeOK, Accounts, Receipts

LEMMA Elsewhere ==
  ASSUME FileInv, NEW p \in Procs, NEW r \in Runs, run' = [run EXCEPT ![p] = r],
         r.at # "locked", Sane(r), Outside(p)
  PROVE  FileInv'
<1> USE DEF FileInv
<1>1. run' \in [Procs -> Runs] /\ run'[p] = r /\ (\A q \in Procs \ {p} : run'[q] = run[q])
  BY DEF TypeOK
<1>2. TypeOK'
  BY <1>1 DEF TypeOK, Outside, Accounts, Receipts
<1>3. Locked'
  BY <1>1 DEF Locked, Outside
<1> QED
  BY <1>1, <1>2, <1>3 DEF Outside

LEMMA ToElsewhere ==
  ASSUME FileInv, NEW p \in Procs, NEW place \in Places \ {"locked"}, To(p, place),
         place \in {"script", "order", "post", "created"} => run[p].cmd = "deploy",
         Outside(p)
  PROVE  FileInv'
<1> DEFINE r == [run[p] EXCEPT !.at = place]
<1>1. run[p] \in Runs /\ Sane(run[p])
  BY DEF FileInv, TypeOK
<1>2. r \in Runs /\ r.at # "locked" /\ Sane(r)
  BY <1>1 DEF Runs, Sane
<1>3. run' = [run EXCEPT ![p] = r]
  BY DEF To, Go
<1> HIDE DEF r
<1> QED
  BY <1>2, <1>3, Elsewhere

LEMMA EndElsewhere ==
  ASSUME FileInv, NEW p \in Procs, End(p),
         Outside(p)
  PROVE  FileInv'
BY IdleIsARun, Elsewhere DEF End, Go

LEMMA WantElsewhere ==
  ASSUME FileInv, NEW p \in Procs, NEW c \in Changes, Want(p, c, run[p].target),
         c = "append" => run[p].cmd = "deploy",
         Outside(p)
  PROVE  FileInv'
<1> DEFINE r == [run[p] EXCEPT !.at = "want", !.change = c, !.target = run[p].target]
<1>1. run[p] \in Runs /\ Sane(run[p])
  BY DEF FileInv, TypeOK
<1>2. r \in Runs /\ r.at # "locked" /\ Sane(r)
  BY <1>1 DEF Runs, Sane, Places
<1>3. run' = [run EXCEPT ![p] = r]
  BY DEF Want, Go
<1> HIDE DEF r
<1> QED
  BY <1>2, <1>3, Elsewhere

LEMMA BeginElsewhere ==
  ASSUME FileInv, NEW p \in Procs, NEW c \in Commands, NEW r \in Runs, Begin(p, c, r),
         r.at # "locked", r.change = "append" => r.target \in Entries,
         c = "deploy" => r.target \in Entries /\ r.deploy \in Deploys,
         r.at \in {"script", "order", "post", "created"} => c = "deploy",
         Outside(p)
  PROVE  FileInv'
<1> DEFINE q == [r EXCEPT !.cmd = c]
<1>1. q \in Runs /\ q.at # "locked" /\ Sane(q)
  BY DEF Runs, Sane
<1>2. run' = [run EXCEPT ![p] = q]
  BY DEF Begin, Go
<1> HIDE DEF q
<1> QED
  BY <1>1, <1>2, Elsewhere

-----------------------------------------------------------------------------
\* A deployment.

LEMMA CreateStartupScriptKeeps == ASSUME FileInv, NEW p \in Procs, CreateStartupScript(p) PROVE FileInv'
<1>1. Outside(p)
  BY Kept DEF CreateStartupScript, Outside, Stage, Stages
<1>2. (run[p].at = "script" /\ To(p, "order"))
      \/ To(p, "wind")
  BY DEF CreateStartupScript
<1> QED
  BY <1>1, <1>2, Kept, ToElsewhere DEF Sane, Places, Changes

LEMMA OrderKeeps == ASSUME FileInv, NEW p \in Procs, Order(p) PROVE FileInv'
<1>1. Outside(p)
  BY Kept DEF Order, Outside, Stage, Stages
<1>2. (run[p].at = "order" /\ To(p, "post"))
      \/ To(p, "wind")
  BY DEF Order
<1> QED
  BY <1>1, <1>2, Kept, ToElsewhere DEF Sane, Places, Changes

LEMMA CreatedKeeps == ASSUME FileInv, NEW p \in Procs, Created(p) PROVE FileInv'
<1>1. Outside(p)
  BY Kept DEF Created, Outside, Stage, Stages
<1>2. (run[p].at = "created" /\ Want(p, "append", run[p].target))
      \/ To(p, "wind")
  BY DEF Created
<1> QED
  BY <1>1, <1>2, Kept, WantElsewhere, ToElsewhere DEF Sane, Places, Changes

LEMMA RecordedKeeps == ASSUME FileInv, NEW p \in Procs, Recorded(p) PROVE FileInv'
<1>1. Outside(p)
  BY Kept DEF Recorded, Outside, Stage, Stages
<1>2. To(p, "address") \/ To(p, "wind")
  BY DEF Recorded
<1> QED
  BY <1>1, <1>2, Kept, ToElsewhere DEF Sane, Places, Changes

LEMMA WaitForIPKeeps == ASSUME FileInv, NEW p \in Procs, WaitForIP(p) PROVE FileInv'
<1>1. Outside(p)
  BY Kept DEF WaitForIP, Outside, Stage, Stages
<1>2. Want(p, "address", run[p].target) \/ To(p, "verify") \/ To(p, "wind")
  BY DEF WaitForIP
<1> QED
  BY <1>1, <1>2, Kept, WantElsewhere, ToElsewhere DEF Sane, Places, Changes

LEMMA AddressedKeeps == ASSUME FileInv, NEW p \in Procs, Addressed(p) PROVE FileInv'
<1>1. Outside(p)
  BY Kept DEF Addressed, Outside, Stage, Stages
<1>2. To(p, "verify") \/ To(p, "wind")
  BY DEF Addressed
<1> QED
  BY <1>1, <1>2, Kept, ToElsewhere DEF Sane, Places, Changes

LEMMA VerifyNodeKeeps == ASSUME FileInv, NEW p \in Procs, VerifyNode(p) PROVE FileInv'
<1>1. Outside(p)
  BY Kept DEF VerifyNode, Outside, Stage, Stages
<1>2. Want(p, "verified", run[p].target)
  BY DEF VerifyNode
<1> QED
  BY <1>1, <1>2, Kept, WantElsewhere DEF Sane, Places, Changes

LEMMA VerifiedKeeps == ASSUME FileInv, NEW p \in Procs, Verified(p) PROVE FileInv'
<1>1. Outside(p)
  BY Kept DEF Verified, Outside, Stage, Stages
<1>2. To(p, "wind")
  BY DEF Verified
<1> QED
  BY <1>1, <1>2, Kept, ToElsewhere DEF Sane, Places, Changes

LEMMA WorkIsOverKeeps == ASSUME FileInv, NEW p \in Procs, WorkIsOver(p) PROVE FileInv'
<1>1. Outside(p)
  BY Kept DEF WorkIsOver, Outside, Stage, Stages
<1>2. To(p, "clean") \/ End(p)
  BY DEF WorkIsOver
<1> QED
  BY <1>1, <1>2, Kept, ToElsewhere, EndElsewhere DEF Sane, Places, Changes

LEMMA CleanupInstanceKeeps == ASSUME FileInv, NEW p \in Procs, CleanupInstance(p) PROVE FileInv'
<1>1. Outside(p)
  BY Kept DEF CleanupInstance, Outside, Stage, Stages
<1>2. Want(p, "remove", run[p].target) \/ End(p)
  BY DEF CleanupInstance
<1> QED
  BY <1>1, <1>2, Kept, WantElsewhere, EndElsewhere DEF Sane, Places, Changes

LEMMA CleanedUpKeeps == ASSUME FileInv, NEW p \in Procs, CleanedUp(p) PROVE FileInv'
<1>1. Outside(p)
  BY Kept DEF CleanedUp, Outside, Stage, Stages
<1>2. End(p)
  BY DEF CleanedUp
<1> QED
  BY <1>1, <1>2, Kept, EndElsewhere DEF Sane, Places, Changes

\* The other commands.

LEMMA DeleteInstanceKeeps == ASSUME FileInv, NEW p \in Procs, DeleteInstance(p) PROVE FileInv'
<1>1. Outside(p)
  BY Kept DEF DeleteInstance, Outside, Stage, Stages
<1>2. To(p, "want") \/ End(p)
  BY DEF DeleteInstance
<1> QED
  BY <1>1, <1>2, Kept, ToElsewhere, EndElsewhere DEF Sane, Places, Changes

LEMMA PowerInstanceKeeps == ASSUME FileInv, NEW p \in Procs, PowerInstance(p) PROVE FileInv'
<1> DEFINE now == Power(run[p].cmd, account[run[p].target.id])
<1>a. now \in {"none", "on", "halted", "gone"}
  BY DEF Power
<1>b. account' = account \/ account' = [account EXCEPT ![run[p].target.id] = now]
  BY DEF PowerInstance
<1> HIDE DEF now
<1>c. account' \in Accounts
  <2>1. CASE account' = account
    BY <2>1, Kept
  <2>2. CASE account' = [account EXCEPT ![run[p].target.id] = now]
    BY <2>2, <1>a, Kept
  <2> QED
    BY <1>b, <2>1, <2>2
<1>1. Outside(p)
  BY <1>c, Kept DEF PowerInstance, Outside
<1>2. To(p, "poll") \/ End(p)
  BY DEF PowerInstance
<1> QED
  BY <1>1, <1>2, Kept, ToElsewhere, EndElsewhere DEF Sane, Places, Changes

LEMMA PollInstanceKeeps == ASSUME FileInv, NEW p \in Procs, PollInstance(p) PROVE FileInv'
<1>1. Outside(p)
  BY Kept DEF PollInstance, Outside, Stage, Stages
<1>2. Want(p, "stopped", run[p].target) \/ Want(p, "started", run[p].target) \/ End(p)
  BY DEF PollInstance
<1> QED
  BY <1>1, <1>2, Kept, WantElsewhere, EndElsewhere DEF Sane, Places, Changes

LEMMA CreateInstanceKeeps == ASSUME FileInv, NEW p \in Procs, CreateInstance(p) PROVE FileInv'
<1>1. Outside(p)
  BY Kept DEF CreateInstance, Outside, Stage, Stages
<1>2. CASE To(p, "wind")
  BY <1>1, <1>2, Kept, ToElsewhere DEF Places
<1>3. CASE Go(p, [run[p] EXCEPT !.at = "created", !.target.id = run[p].deploy])
  <2> DEFINE t == [run[p].target EXCEPT !.id = run[p].deploy]
             r == [run[p] EXCEPT !.at = "created", !.target = t]
  <2>1. run[p].cmd = "deploy" /\ run[p] \in Runs /\ Sane(run[p])
    BY Kept DEF CreateInstance, Sane
  <2>2. t \in Entries
    BY <2>1 DEF Sane, Entries
  <2> HIDE DEF t
  <2>3. r \in Runs /\ r.at # "locked" /\ Sane(r)
    BY <2>1, <2>2 DEF Runs, Places, Sane
  <2>4. run' = [run EXCEPT ![p] = r]
    BY <1>3, <2>1 DEF Go, t, Runs
  <2> HIDE DEF r
  <2> QED
    BY <1>1, <2>3, <2>4, Elsewhere
<1> QED
  BY <1>2, <1>3 DEF CreateInstance

LEMMA ListInstancesKeeps == ASSUME FileInv, NEW p \in Procs, ListInstances(p) PROVE FileInv'
<1>1. Outside(p)
  BY Kept DEF ListInstances, Outside
<1>2. CASE End(p)
  BY <1>1, <1>2, EndElsewhere
<1>3. CASE Go(p, [run[p] EXCEPT !.at = "purge", !.seen = Billing \ run[p].seen])
  <2> DEFINE left == Billing \ run[p].seen
             r == [run[p] EXCEPT !.at = "purge", !.seen = left]
  <2>1. left \subseteq Deploys
    BY DEF Billing
  <2> HIDE DEF left
  <2>2. r \in Runs /\ r.at # "locked" /\ Sane(r)
    BY <2>1, Kept DEF Runs, Places, Sane
  <2>3. run' = [run EXCEPT ![p] = r]
    BY <1>3 DEF Go, left
  <2> HIDE DEF r
  <2> QED
    BY <1>1, <2>2, <2>3, Elsewhere
<1> QED
  BY <1>2, <1>3 DEF ListInstances

LEMMA DestroyRemoteKeeps == ASSUME FileInv, NEW p \in Procs, DestroyRemote(p) PROVE FileInv'
<1>1. Outside(p)
  BY Kept DEF DestroyRemote, Outside
<1>2. CASE End(p)
  BY <1>1, <1>2, EndElsewhere
<1>3. ASSUME NEW d \in run[p].seen, Go(p, [run[p] EXCEPT !.seen = run[p].seen \ {d}])
      PROVE  FileInv'
  <2> DEFINE r == [run[p] EXCEPT !.seen = run[p].seen \ {d}]
  <2>1. r \in Runs /\ r.at # "locked" /\ Sane(r)
    BY Kept DEF Runs, Sane, DestroyRemote
  <2>2. run' = [run EXCEPT ![p] = r]
    BY <1>3 DEF Go
  <2> HIDE DEF r
  <2> QED
    BY <1>1, <2>1, <2>2, Elsewhere
<1> QED
  BY <1>2, <1>3 DEF DestroyRemote

\* A process that starts is idle, and an entry of the file is what it may start from.
LEMMA Ready ==
  ASSUME FileInv, NEW p \in Procs, run[p] = Idle, UNCHANGED <<store, lock, account, dropped>>,
         stage' \in Receipts
  PROVE  Outside(p)
BY Kept, IdleIsARun DEF Outside

LEMMA RefIsAnEntry == ASSUME FileInv, NEW e \in store
                      PROVE  Ref(e) \in Entries /\ e.id \in Deploys \cup {None}
BY DEF FileInv, TypeOK, Ref, Entry, Entries

LEMMA NewEntry ==
  ASSUME NEW n \in Names, NEW i \in Deploys \cup {None}, NEW o \in Deploys \cup {None},
         NEW a \in BOOLEAN
  PROVE  Entry(n, i, o, a) \in Entries
BY DEF Entry, Entries

LEMMA StartDeployKeeps == ASSUME FileInv, NEW p \in Procs, NEW d \in Deploys, NEW n \in Names, StartDeploy(p, d, n) PROVE FileInv'
<1> DEFINE r == [Idle EXCEPT !.at = "script", !.deploy = d, !.target = Entry(n, None, d, FALSE)]
<1>1. run[p] = Idle /\ "deploy" \in Commands /\ Begin(p, "deploy", r)
  BY DEF StartDeploy, Begin
<1>2. Outside(p)
  BY <1>1, Kept, Ready DEF StartDeploy, Stages
<1>3. Entry(n, None, d, FALSE) \in Entries
  BY NewEntry
<1>4. r \in Runs /\ r.at # "locked" /\ (r.change = "append" => r.target \in Entries)
      /\ r.target \in Entries /\ r.deploy \in Deploys
  BY <1>3, IdleIsARun DEF Runs, Places, Changes
<1> HIDE DEF r
<1> QED
  BY <1>1, <1>2, <1>4, BeginElsewhere

LEMMA StartDestroyKeeps == ASSUME FileInv, NEW p \in Procs, NEW e \in store, NEW f \in BOOLEAN, StartDestroy(p, e, f) PROVE FileInv'
<1> DEFINE r == [Idle EXCEPT !.at = IF e.id = None THEN "want" ELSE "delete",
                            !.change = "remove", !.target = Ref(e), !.force = f]
<1>1. run[p] = Idle /\ "destroy" \in Commands /\ Begin(p, "destroy", r)
  BY DEF StartDestroy, Begin
<1>2. Outside(p)
  BY <1>1, Kept, Ready DEF StartDestroy, Stages
<1>3. Ref(e) \in Entries /\ e.id \in Deploys \cup {None}
  BY RefIsAnEntry
<1>4. r \in Runs /\ r.at # "locked" /\ (r.change = "append" => r.target \in Entries)
      /\ r.at \notin {"script", "order", "post", "created"}
  BY <1>3, IdleIsARun DEF Runs, Places, Changes
<1> HIDE DEF r
<1> QED
  BY <1>1, <1>2, <1>4, BeginElsewhere

LEMMA StartStopKeeps == ASSUME FileInv, NEW p \in Procs, NEW e \in store, StartStop(p, e) PROVE FileInv'
<1> DEFINE r == [Idle EXCEPT !.at = "power", !.target = Ref(e)]
<1>1. run[p] = Idle /\ "stop" \in Commands /\ Begin(p, "stop", r)
  BY DEF StartStop, Begin
<1>2. Outside(p)
  BY <1>1, Kept, Ready DEF StartStop, Stages
<1>3. Ref(e) \in Entries /\ e.id \in Deploys \cup {None}
  BY RefIsAnEntry
<1>4. r \in Runs /\ r.at # "locked" /\ (r.change = "append" => r.target \in Entries)
      /\ r.at \notin {"script", "order", "post", "created"}
  BY <1>3, IdleIsARun DEF Runs, Places, Changes
<1> HIDE DEF r
<1> QED
  BY <1>1, <1>2, <1>4, BeginElsewhere

LEMMA StartStartKeeps == ASSUME FileInv, NEW p \in Procs, NEW e \in store, NEW c \in {"start", "wake"}, StartStart(p, e, c) PROVE FileInv'
<1> DEFINE r == [Idle EXCEPT !.at = "power", !.target = Ref(e)]
<1>1. run[p] = Idle /\ c \in Commands /\ Begin(p, c, r)
  BY DEF StartStart, Begin
<1>2. Outside(p)
  BY <1>1, Kept, Ready DEF StartStart, Stages
<1>3. Ref(e) \in Entries /\ e.id \in Deploys \cup {None}
  BY RefIsAnEntry
<1>4. r \in Runs /\ r.at # "locked" /\ (r.change = "append" => r.target \in Entries)
      /\ r.at \notin {"script", "order", "post", "created"}
  BY <1>3, IdleIsARun DEF Runs, Places, Changes
<1> HIDE DEF r
<1> QED
  BY <1>1, <1>2, <1>4, BeginElsewhere

LEMMA StartUseKeeps == ASSUME FileInv, NEW p \in Procs, NEW e \in store, StartUse(p, e) PROVE FileInv'
<1> DEFINE r == [Idle EXCEPT !.at = "want", !.change = "use", !.target = Ref(e)]
<1>1. run[p] = Idle /\ "manage" \in Commands /\ Begin(p, "manage", r)
  BY DEF StartUse, Begin
<1>2. Outside(p)
  BY <1>1, Kept, Ready DEF StartUse, Stages
<1>3. Ref(e) \in Entries /\ e.id \in Deploys \cup {None}
  BY RefIsAnEntry
<1>4. r \in Runs /\ r.at # "locked" /\ (r.change = "append" => r.target \in Entries)
      /\ r.at \notin {"script", "order", "post", "created"}
  BY <1>3, IdleIsARun DEF Runs, Places, Changes
<1> HIDE DEF r
<1> QED
  BY <1>1, <1>2, <1>4, BeginElsewhere

LEMMA StartImportKeeps == ASSUME FileInv, NEW p \in Procs, NEW n \in Names, StartImport(p, n) PROVE FileInv'
<1> DEFINE r == [Idle EXCEPT !.at = "want", !.change = "append", !.target = Entry(n, None, None, TRUE)]
<1>1. run[p] = Idle /\ "import" \in Commands /\ Begin(p, "import", r)
  BY DEF StartImport, Begin
<1>2. Outside(p)
  BY <1>1, Kept, Ready DEF StartImport, Stages
<1>3. Entry(n, None, None, TRUE) \in Entries
  BY NewEntry
<1>4. r \in Runs /\ r.at # "locked" /\ (r.change = "append" => r.target \in Entries)
      /\ r.at \notin {"script", "order", "post", "created"}
  BY <1>3, IdleIsARun DEF Runs, Places, Changes
<1> HIDE DEF r
<1> QED
  BY <1>1, <1>2, <1>4, BeginElsewhere

LEMMA StartAdoptKeeps == ASSUME FileInv, NEW p \in Procs, NEW d \in Deploys, NEW n \in Names, StartAdopt(p, d, n) PROVE FileInv'
<1> DEFINE r == [Idle EXCEPT !.at = "want", !.change = "append",
                            !.target = Entry(n, TopLevel(Reply(d), "id"), d, FALSE)]
<1>1. run[p] = Idle /\ "adopt" \in Commands /\ Begin(p, "adopt", r)
  BY DEF StartAdopt, Begin
<1>2. Outside(p)
  BY <1>1, Kept, Ready DEF StartAdopt, Stages
<1>3. Entry(n, TopLevel(Reply(d), "id"), d, FALSE) \in Entries
  BY NewEntry DEF TopLevel, Reply
<1>4. r \in Runs /\ r.at # "locked" /\ (r.change = "append" => r.target \in Entries)
      /\ r.at \notin {"script", "order", "post", "created"}
  BY <1>3, IdleIsARun DEF Runs, Places, Changes
<1> HIDE DEF r
<1> QED
  BY <1>1, <1>2, <1>4, BeginElsewhere

LEMMA StartVerifyKeeps == ASSUME FileInv, NEW p \in Procs, NEW e \in store, StartVerify(p, e) PROVE FileInv'
<1> DEFINE r == [Idle EXCEPT !.at = IF e.addr THEN "verify" ELSE "address", !.deploy = e.id, !.target = Ref(e)]
<1>1. run[p] = Idle /\ "verify" \in Commands /\ Begin(p, "verify", r)
  BY DEF StartVerify, Begin
<1>2. Outside(p)
  BY <1>1, Kept, Ready DEF StartVerify, Stages
<1>3. Ref(e) \in Entries /\ e.id \in Deploys \cup {None}
  BY RefIsAnEntry
<1>4. r \in Runs /\ r.at # "locked" /\ (r.change = "append" => r.target \in Entries)
      /\ r.at \notin {"script", "order", "post", "created"}
  BY <1>3, IdleIsARun DEF Runs, Places, Changes
<1> HIDE DEF r
<1> QED
  BY <1>1, <1>2, <1>4, BeginElsewhere

LEMMA StartRepairKeeps == ASSUME FileInv, NEW p \in Procs, NEW e \in store, StartRepair(p, e) PROVE FileInv'
<1> DEFINE r == [Idle EXCEPT !.at = "want", !.change = "repaired", !.target = Ref(e)]
<1>1. run[p] = Idle /\ "repair" \in Commands /\ Begin(p, "repair", r)
  BY DEF StartRepair, Begin
<1>2. Outside(p)
  BY <1>1, Kept, Ready DEF StartRepair, Stages
<1>3. Ref(e) \in Entries /\ e.id \in Deploys \cup {None}
  BY RefIsAnEntry
<1>4. r \in Runs /\ r.at # "locked" /\ (r.change = "append" => r.target \in Entries)
      /\ r.at \notin {"script", "order", "post", "created"}
  BY <1>3, IdleIsARun DEF Runs, Places, Changes
<1> HIDE DEF r
<1> QED
  BY <1>1, <1>2, <1>4, BeginElsewhere

LEMMA StartReconcileKeeps == ASSUME FileInv, NEW p \in Procs, StartReconcile(p) PROVE FileInv'
<1> DEFINE r == [Idle EXCEPT !.at = "list", !.seen = Ids(store)]
<1>1. run[p] = Idle /\ "reconcile" \in Commands /\ Begin(p, "reconcile", r)
  BY DEF StartReconcile, Begin
<1>2. Outside(p)
  BY <1>1, Kept, Ready DEF StartReconcile, Stages
<1>3. Ids(store) \subseteq Deploys
  BY DEF FileInv, TypeOK, Ids, Entries
<1>4. r \in Runs /\ r.at # "locked" /\ (r.change = "append" => r.target \in Entries)
      /\ r.at \notin {"script", "order", "post", "created"}
  BY <1>3, IdleIsARun DEF Runs, Places, Changes
<1> HIDE DEF r
<1> QED
  BY <1>1, <1>2, <1>4, BeginElsewhere

LEMMA StartFillKeeps == ASSUME FileInv, NEW p \in Procs, StartFill(p) PROVE FileInv'
<1>1. PICK assigned \in SUBSET Billing :
        Begin(p, "reconcile", [Idle EXCEPT !.at = "want", !.change = "fill", !.seen = assigned])
  BY DEF StartFill
<1> DEFINE r == [Idle EXCEPT !.at = "want", !.change = "fill", !.seen = assigned]
<1>2. run[p] = Idle /\ "reconcile" \in Commands
  BY <1>1 DEF Begin
<1>3. Outside(p)
  BY <1>2, Kept, Ready DEF StartFill
<1>4. assigned \subseteq Deploys
  BY DEF Billing
<1>5. r \in Runs /\ r.at # "locked" /\ (r.change = "append" => r.target \in Entries)
      /\ r.at \notin {"script", "order", "post", "created"}
  BY <1>4, IdleIsARun DEF Runs, Places, Changes
<1>6. Begin(p, "reconcile", r)
  BY <1>1
<1> HIDE DEF r
<1> QED
  BY <1>2, <1>3, <1>5, <1>6, BeginElsewhere

-----------------------------------------------------------------------------

\* The lock and the file.
LEMMA LockKeeps == ASSUME FileInv, NEW p \in Procs, Lock(p) PROVE FileInv'
<1> DEFINE r == [run[p] EXCEPT !.at = "locked", !.read = store]
<1>0. run[p] \in Runs /\ Sane(run[p]) /\ store \subseteq Entries
  BY Kept DEF FileInv, TypeOK
<1>1. r \in Runs /\ r.at = "locked" /\ r.read = store /\ Sane(r)
  BY <1>0 DEF Runs, Places, Sane
<1>2. run' = [run EXCEPT ![p] = r]
  BY DEF Lock, Go
<1> HIDE DEF r
<1>3. run' \in [Procs -> Runs] /\ run'[p] = r /\ (\A q \in Procs \ {p} : run'[q] = run[q])
  BY <1>1, <1>2 DEF FileInv, TypeOK
<1>4. TypeOK'
  BY <1>3 DEF FileInv, TypeOK, Lock
<1>5. Locked'
  BY <1>1, <1>3, NoneAssumption DEF FileInv, Locked, Lock
<1> QED
  BY <1>1, <1>3, <1>4, <1>5 DEF FileInv, Lock

LEMMA InterruptKeeps == ASSUME FileInv, NEW p \in Procs, Interrupt(p) PROVE FileInv'
<1> DEFINE r == [run[p] EXCEPT !.intr = TRUE]
<1>1. r \in Runs /\ r.at = run[p].at /\ r.read = run[p].read /\ Sane(r)
  BY Kept DEF Runs, Sane
<1>2. run' = [run EXCEPT ![p] = r]
  BY DEF Interrupt, Go
<1> HIDE DEF r
<1>3. run' \in [Procs -> Runs] /\ run'[p] = r /\ (\A q \in Procs \ {p} : run'[q] = run[q])
  BY <1>1, <1>2 DEF FileInv, TypeOK
<1>4. TypeOK'
  BY <1>3 DEF FileInv, TypeOK, Interrupt
<1>5. Locked'
  BY <1>1, <1>3 DEF FileInv, Locked, Interrupt
<1> QED
  BY <1>1, <1>3, <1>4, <1>5 DEF FileInv, Interrupt

\* A process lets go of the lock, if it has it; only one that has it may change the file.
LEMMA Released ==
  ASSUME FileInv, NEW p \in Procs, NEW r \in Runs, run' = [run EXCEPT ![p] = r],
         r.at # "locked", Sane(r), lock' = IF lock = p THEN None ELSE lock,
         Sound(store'), store' = store \/ lock = p, dropped' \subseteq Deploys,
         UNCHANGED <<account, stage>>
  PROVE  FileInv'
<1>1. run' \in [Procs -> Runs] /\ run'[p] = r /\ (\A q \in Procs \ {p} : run'[q] = run[q])
  BY DEF FileInv, TypeOK
<1>2. TypeOK'
  BY <1>1 DEF FileInv, TypeOK, Sound
<1>3. Locked'
  BY <1>1, NoneAssumption DEF FileInv, Locked
<1> QED
  BY <1>1, <1>2, <1>3 DEF FileInv, Sound

LEMMA OverEnds ==
  ASSUME FileInv, NEW p \in Procs, NEW how \in {"stored", "refused"}, Over(p, how)
  PROVE  \E r \in Runs : r.at # "locked" /\ Sane(r) /\ run' = [run EXCEPT ![p] = r]
<1> DEFINE r == [run[p] EXCEPT !.at = how, !.read = {}]
<1>1. r \in Runs /\ r.at # "locked" /\ Sane(r)
  BY Kept DEF Runs, Places, Sane
<1>2. run' = [run EXCEPT ![p] = r] \/ run' = [run EXCEPT ![p] = Idle]
  BY DEF Over, Go
<1> HIDE DEF r
<1> QED
  BY <1>1, <1>2, IdleIsARun

LEMMA TheFileIsSound == ASSUME FileInv PROVE Sound(store) /\ dropped \subseteq Deploys
BY DEF FileInv, TypeOK, Sound

LEMMA LockFailsKeeps == ASSUME FileInv, NEW p \in Procs, LockFails(p) PROVE FileInv'
<1>1. PICK r \in Runs : r.at # "locked" /\ Sane(r) /\ run' = [run EXCEPT ![p] = r]
  BY OverEnds DEF LockFails
<1>2. lock # p
  BY DEF LockFails, FileInv, Locked
<1> QED
  BY <1>1, <1>2, TheFileIsSound, Released DEF LockFails

LEMMA WriteFailsKeeps == ASSUME FileInv, NEW p \in Procs, WriteFails(p) PROVE FileInv'
<1>1. PICK r \in Runs : r.at # "locked" /\ Sane(r) /\ run' = [run EXCEPT ![p] = r]
  BY OverEnds DEF WriteFails
<1>2. lock = p
  BY DEF WriteFails, FileInv, Locked
<1> QED
  BY <1>1, <1>2, TheFileIsSound, Released DEF WriteFails

LEMMA KillKeeps == ASSUME FileInv, NEW p \in Procs, Kill(p) PROVE FileInv'
BY IdleIsARun, TheFileIsSound, Released DEF Kill, End, Go

\* What is written is made of the file as it is.
LEMMA WriteTurns ==
  ASSUME FileInv, NEW p \in Procs, Write(p)
  PROVE  Sound(store') /\ Turn(BooksOf(store), BooksOf(store'))
<1>1. run[p].read = store /\ Sane(run[p])
  BY DEF Write, FileInv, Locked
<1>2. store' \in Outcomes(run[p], store)
  BY <1>1 DEF Write
<1> QED
  BY <1>1, <1>2, TheFileIsSound, OutcomesTurn DEF Sane

LEMMA WriteKeeps == ASSUME FileInv, NEW p \in Procs, Write(p) PROVE FileInv'
<1>1. PICK r \in Runs : r.at # "locked" /\ Sane(r) /\ run' = [run EXCEPT ![p] = r]
  BY OverEnds DEF Write
<1>2. lock = p
  BY DEF Write, FileInv, Locked
<1>3. Ids(store) \subseteq Deploys
  BY DEF FileInv, TypeOK, Ids, Entries
<1>4. dropped' \subseteq Deploys
  BY <1>3, TheFileIsSound DEF Write
<1> QED
  BY <1>1, <1>2, <1>4, WriteTurns, Released DEF Write

-----------------------------------------------------------------------------

LEMMA InitHolds == Init => FileInv
BY IdleIsARun, NoneAssumption DEF Init, FileInv, TypeOK, Unique, Locked, Stages

LEMMA StartKeeps == ASSUME FileInv, NEW p \in Procs, Start(p) PROVE FileInv'
BY StartDeployKeeps, StartDestroyKeeps, StartStopKeeps, StartStartKeeps, StartUseKeeps,
   StartVerifyKeeps, StartRepairKeeps, StartImportKeeps, StartAdoptKeeps, StartFillKeeps,
   StartReconcileKeeps DEF Start

LEMMA FileStepKeeps == ASSUME FileInv, NEW p \in Procs, FileStep(p) PROVE FileInv'
BY LockKeeps, LockFailsKeeps, WriteKeeps, WriteFailsKeeps DEF FileStep

LEMMA DeployStepKeeps == ASSUME FileInv, NEW p \in Procs, DeployStep(p) PROVE FileInv'
BY CreateStartupScriptKeeps, OrderKeeps, CreateInstanceKeeps, CreatedKeeps, RecordedKeeps,
   WaitForIPKeeps, AddressedKeeps, VerifyNodeKeeps, VerifiedKeeps, WorkIsOverKeeps,
   CleanupInstanceKeeps, CleanedUpKeeps, InterruptKeeps DEF DeployStep

LEMMA CommandStepKeeps == ASSUME FileInv, NEW p \in Procs, CommandStep(p) PROVE FileInv'
BY DeleteInstanceKeeps, PowerInstanceKeeps, PollInstanceKeeps, ListInstancesKeeps,
   DestroyRemoteKeeps, KillKeeps DEF CommandStep

LEMMA StutterKeeps == ASSUME FileInv, UNCHANGED vars PROVE FileInv'
BY DEF FileInv, TypeOK, Locked, Sane, vars

LEMMA FileInvKept == FileInv /\ [Next]_vars => FileInv'
BY StartKeeps, FileStepKeeps, DeployStepKeeps, CommandStepKeeps, StutterKeeps DEF Next

(* Who has the lock changes servers.json from the file as it is, and the   *)
(* file never holds a name or an instance twice: no update of one command  *)
(* is undone by another's (server_store.go:63-117).                        *)
THEOREM FileInvariant == Spec => [](Locked /\ Unique(store))
<1>1. FileInv => Locked /\ Unique(store)
  BY DEF FileInv
<1> QED
  BY InitHolds, FileInvKept, <1>1, PTL DEF Spec

\* Only a write changes the file.
LEMMA OnlyAWrite ==
  ASSUME [Next]_vars
  PROVE  (\E p \in Procs : Write(p)) \/ UNCHANGED store
BY DEF Next, vars, Start, FileStep, DeployStep, CommandStep, StartDeploy, StartDestroy, StartStop,
   StartStart, StartUse, StartVerify, StartRepair, StartImport, StartAdopt, StartFill,
   StartReconcile, Lock, LockFails, WriteFails, CreateStartupScript, Order, CreateInstance,
   Created, Recorded, WaitForIP, Addressed, VerifyNode, Verified, WorkIsOver, CleanupInstance,
   CleanedUp, Interrupt, DeleteInstance, PowerInstance, PollInstance, ListInstances,
   DestroyRemote, Kill

(* Through races, failures and kills, servers come on the books of         *)
(* servers.json and leave them one at a time, as Registry promises.        *)
THEOREM RegistryTheorem == Spec => StoreIsRegistry
<1>1. Init => R!Init
  BY DEF Init, R!Init, Books
<1>2. FileInv /\ [Next]_vars => [R!Next]_Books
  <2> SUFFICES ASSUME FileInv, [Next]_vars PROVE [R!Next]_Books
    OBVIOUS
  <2>1. CASE UNCHANGED store
    BY <2>1 DEF Books
  <2>2. ASSUME NEW p \in Procs, Write(p) PROVE [R!Next]_Books
    <3>1. Turn(BooksOf(store), BooksOf(store'))
      BY <2>2, WriteTurns
    <3>2. Books = BooksOf(store) /\ Books' = BooksOf(store')
      BY DEF Books, BooksOf, Book
    <3> QED
      BY <3>1, <3>2 DEF Turn, R!Next, R!Enter, R!Leave
  <2> QED
    BY <2>1, <2>2, OnlyAWrite
<1> QED
  BY InitHolds, FileInvKept, <1>1, <1>2, PTL DEF Spec, StoreIsRegistry, R!Spec

-----------------------------------------------------------------------------

\* What a process carries fits the file, the account and the receipts.
Fits(p) ==
  /\ Target(run[p])
  /\ run[p].cmd = "deploy" => Deploying(run[p])
  /\ run[p].cmd = "verify" => Verifying(run[p])

By(p, d) == run[p].cmd = "deploy" /\ run[p].deploy = d

\* What a step of p may do to the facts that the others rest on.
Onward(p) ==
  /\ \A q \in Procs \ {p} : run'[q] = run[q]
  /\ \A d \in Deploys :
       /\ account[d] # "none" => account'[d] # "none"
       /\ account[d] = "gone" => account'[d] = "gone"
       /\ account'[d] # "none" => account[d] # "none" \/ By(p, d)
       /\ Covered(d) => Covered(d)'
       /\ d \in Ids(store') => d \in Ids(store) \/ By(p, d)
       /\ \/ stage'[d] = stage[d] \/ By(p, d) \/ stage[d] = "none"
          \/ stage'[d] = "recorded" /\ account[d] # "none"

LEMMA InvIsFileInv == IInv => FileInv /\ \A p \in Procs : Fits(p)
BY DEF IInv, FileInv, InStep, Fits, Sane, Target, Deploying, PlacesOf, Places, Storing

LEMMA TargetIsTyped ==
  ASSUME FileInv, NEW p \in Procs
  PROVE  run[p].target.id \in Deploys \cup {None} /\ run[p].seen \subseteq Deploys
         /\ run[p].deploy \in Deploys \cup {None}
BY DEF FileInv, TypeOK, Runs, Entries, NoEntry, Entry

LEMMA OthersFit ==
  ASSUME IInv, NEW p \in Procs, NEW q \in Procs \ {p}, Onward(p)
  PROVE  Fits(q)'
<1>1. Fits(q) /\ FileInv /\ run'[q] = run[q]
  BY InvIsFileInv DEF Onward
<1>2. Target(run[q])'
  BY <1>1, TargetIsTyped DEF Onward, Fits, Target, Careless, Exists
<1>3. ASSUME run[q].cmd = "deploy"
      PROVE  Deploying(run[q])'
  <2> DEFINE d == run[q].deploy
  <2>1. d \in Deploys /\ ~By(p, d) /\ Deploying(run[q])
    BY <1>1, <1>3 DEF Fits, Deploying, IInv, Alone, By
  <2>2. /\ Exists(d) => account'[d] # "none"
        /\ account[d] = "gone" => account'[d] = "gone"
        /\ account'[d] # "none" => Exists(d)
        /\ Covered(d) => Covered(d)'
        /\ d \in Ids(store') => d \in Ids(store)
        /\ stage'[d] = stage[d] \/ (stage'[d] = "recorded" /\ Exists(d))
    BY <2>1 DEF Onward, Exists, Deploying
  <2> QED
    BY <1>1, <2>1, <2>2 DEF Deploying, Exists, Covered
<1>4. ASSUME run[q].cmd = "verify"
      PROVE  Verifying(run[q])'
  BY <1>1, <1>4 DEF Onward, Fits, Verifying, Exists, Covered
<1> QED
  BY <1>1, <1>2, <1>3, <1>4 DEF Fits

\* A step that leaves the file alone keeps the invariant if it does for its own process and
\* for the deployments it touches.
LEMMA MovesOn ==
  ASSUME IInv, FileInv', NEW p \in Procs, Onward(p), UNCHANGED <<store, dropped>>, Fits(p)',
         run'[p].cmd = "deploy" => By(p, run'[p].deploy) \/ stage[run'[p].deploy] = "none",
         \A d \in Deploys : stage'[d] # stage[d] \/ (account[d] = "none" /\ account'[d] # "none") =>
             /\ Covered(d)' \/ stage'[d] \in Unsettled \/ account'[d] = "none"
             /\ stage'[d] = "destroyed" => account'[d] = "gone" /\ d \notin Ids(store)
             /\ stage'[d] \in {"none", "preparing"} => account'[d] = "none"
  PROVE  IInv'
<1>1. TypeOK /\ TypeOK' /\ Unique(store)' /\ Locked'
  BY DEF IInv, FileInv
<1>2. InStep'
  BY OthersFit DEF InStep, Fits
<1>3. Alone'
  <2>1. \A q \in Procs \ {p} : run'[q] = run[q] /\ (run[q].cmd = "deploy" => Deploying(run[q]))
    BY DEF Onward, IInv, InStep
  <2> QED
    BY <2>1 DEF IInv, Alone, By, Deploying
<1>4. BillIsOnRecord'
  <2> SUFFICES ASSUME NEW d \in Deploys, account'[d] \in {"on", "halted"}
               PROVE  Covered(d)' \/ stage'[d] \in Unsettled
    BY DEF BillIsOnRecord, Billing, Unsettled
  <2>1. CASE stage'[d] = stage[d] /\ account[d] # "none"
    <3>1. account[d] \in {"on", "halted"}
      BY <1>1, <2>1 DEF TypeOK, Onward
    <3> QED
      BY <2>1, <3>1 DEF IInv, BillIsOnRecord, Billing, Onward
  <2>2. CASE ~(stage'[d] = stage[d] /\ account[d] # "none")
    BY <2>2
  <2> QED
    BY <2>1, <2>2
<1>5. DestroyedIsOver' /\ Fresh'
  BY DEF IInv, DestroyedIsOver, Fresh, Exists, Onward
<1>6. OneActive(store)' /\ Deployed'
  <2>1. \A e \in store : e.id \in Deploys \cup {None}
    BY <1>1 DEF TypeOK, Entries
  <2> QED
    BY <2>1 DEF IInv, OneActive, Deployed, Onward
<1> QED
  BY <1>1, <1>2, <1>3, <1>4, <1>5, <1>6 DEF IInv

LEMMA QuietMoves ==
  ASSUME IInv, FileInv', NEW p \in Procs, \A q \in Procs \ {p} : run'[q] = run[q],
         UNCHANGED <<store, account, stage, dropped>>, Fits(p)',
         run'[p].cmd = "deploy" => By(p, run'[p].deploy) \/ stage[run'[p].deploy] = "none"
  PROVE  IInv'
<1>1. Onward(p)
  BY DEF Onward, Covered, Ids
<1> QED
  BY <1>1, MovesOn

\* The steps of a command, by what they leave of it.
Keeps(p) ==
  /\ run'[p].cmd = run[p].cmd /\ run'[p].deploy = run[p].deploy
  /\ run'[p].target = run[p].target /\ run'[p].seen = run[p].seen
  /\ run'[p].force => run[p].force
  /\ run[p].force => run'[p].force

Others(p) == \A q \in Procs \ {p} : run'[q] = run[q]

LEMMA AfterTo ==
  ASSUME FileInv, NEW p \in Procs, NEW place \in Places, To(p, place)
  PROVE  Others(p) /\ Keeps(p) /\ run'[p].at = place /\ run'[p].change = run[p].change
<1> DEFINE r == [run[p] EXCEPT !.at = place]
<1>1. run[p] \in Runs
  BY Kept
<1>2. /\ r.cmd = run[p].cmd /\ r.deploy = run[p].deploy /\ r.target = run[p].target
      /\ r.seen = run[p].seen /\ r.at = place /\ r.change = run[p].change
      /\ (r.force => run[p].force) /\ (run[p].force => r.force)
  BY <1>1 DEF Runs
<1>3. run' = [run EXCEPT ![p] = r]
  BY DEF To, Go
<1> HIDE DEF r
<1>4. run'[p] = r /\ Others(p)
  BY <1>3 DEF FileInv, TypeOK, Others
<1> QED
  BY <1>2, <1>4 DEF Keeps

LEMMA AfterWant ==
  ASSUME FileInv, NEW p \in Procs, NEW c \in Changes, Want(p, c, run[p].target)
  PROVE  Others(p) /\ Keeps(p) /\ run'[p].at = "want" /\ run'[p].change = c
<1> DEFINE r == [run[p] EXCEPT !.at = "want", !.change = c, !.target = run[p].target]
<1>1. run[p] \in Runs
  BY Kept
<1>2. /\ r.cmd = run[p].cmd /\ r.deploy = run[p].deploy /\ r.target = run[p].target
      /\ r.seen = run[p].seen /\ r.at = "want" /\ r.change = c
      /\ (r.force => run[p].force) /\ (run[p].force => r.force)
  BY <1>1 DEF Runs
<1>3. run' = [run EXCEPT ![p] = r]
  BY DEF Want, Go
<1> HIDE DEF r
<1>4. run'[p] = r /\ Others(p)
  BY <1>3 DEF FileInv, TypeOK, Others
<1> QED
  BY <1>2, <1>4 DEF Keeps

LEMMA AfterEnd ==
  ASSUME FileInv, NEW p \in Procs, End(p)
  PROVE  Others(p) /\ run'[p] = Idle /\ Fits(p)' /\ run'[p].cmd = "none"
<1>1. Others(p) /\ run'[p] = Idle
  BY DEF FileInv, TypeOK, Others, End, Go
<1>2. /\ Idle.cmd = "none" /\ Idle.at = "idle" /\ Idle.change = "use" /\ Idle.force = FALSE
      /\ Idle.target.id = None
  BY DEF Idle, NoEntry, Entry
<1> QED
  BY <1>1, <1>2 DEF Fits, Target, Careless, PlacesOf

\* The record of a process that goes on fits what the step leaves.
LEMMA ToFits ==
  ASSUME IInv, NEW p \in Procs, NEW place \in Places, To(p, place), Onward(p),
         place \in PlacesOf(run[p].cmd) \ {"created", "stored", "purge", "locked", "delete", "power"},
         place \in {"poll", "clean"} => run[p].target.id # None,
         place = "want" => /\ run[p].cmd = "destroy" /\ run[p].target.id # None
                           /\ run[p].force \/ account'[run[p].target.id] = "gone",
         run[p].cmd = "deploy" =>
           /\ stage'[run[p].deploy] \notin {"none", "destroyed"}
           /\ place \in {"script", "order", "post"} => account'[run[p].deploy] = "none"
           /\ place = "post" => stage'[run[p].deploy] = "creating_instance"
           /\ place \in {"address", "verify"} =>
                /\ run[p].target.id = run[p].deploy
                /\ account[run[p].deploy] # "none" /\ Covered(run[p].deploy)
  PROVE  Fits(p)' /\ (run'[p].cmd = "deploy" => By(p, run'[p].deploy))
<1>1. Fits(p) /\ FileInv
  BY InvIsFileInv
<1>2. Others(p) /\ Keeps(p) /\ run'[p].at = place /\ run'[p].change = run[p].change
  BY <1>1, AfterTo
<1>3. Target(run[p])'
  BY <1>1, <1>2, TargetIsTyped DEF Onward, Fits, Target, Careless, Exists, Keeps, Storing
<1>4. ASSUME run[p].cmd = "deploy"
      PROVE  Deploying(run[p])'
  <2>1. run[p].deploy \in Deploys
    BY <1>1, <1>4 DEF Fits, Deploying
  <2> QED
    BY <1>1, <1>2, <1>4, <2>1 DEF Onward, Fits, Deploying, Exists, Keeps
<1>5. ASSUME run[p].cmd = "verify"
      PROVE  Verifying(run[p])'
  BY <1>1, <1>2, <1>5 DEF Onward, Fits, Verifying, Exists, Keeps
<1> QED
  BY <1>2, <1>3, <1>4, <1>5 DEF Fits, Keeps, By

LEMMA WantFits ==
  ASSUME IInv, NEW p \in Procs, NEW c \in Changes, Want(p, c, run[p].target), Onward(p),
         run[p].cmd \notin {"none", "destroy"},
         c \in {"append", "remove"} => run[p].cmd = "deploy" /\ run[p].target.id = run[p].deploy,
         run[p].cmd = "deploy" =>
           /\ stage'[run[p].deploy] \notin {"none", "destroyed"}
           /\ c = "append" => account[run[p].deploy] # "none"
           /\ c = "remove" => account'[run[p].deploy] = "gone"
           /\ c \in {"address", "verified"} =>
                /\ run[p].target.id = run[p].deploy
                /\ account[run[p].deploy] # "none" /\ Covered(run[p].deploy)
  PROVE  Fits(p)' /\ (run'[p].cmd = "deploy" => By(p, run'[p].deploy))
<1>1. Fits(p) /\ FileInv
  BY InvIsFileInv
<1>2. Others(p) /\ Keeps(p) /\ run'[p].at = "want" /\ run'[p].change = c
  BY <1>1, AfterWant
<1>3. run'[p].at \in PlacesOf(run'[p].cmd)
  BY <1>2 DEF PlacesOf, Places, Storing, Keeps
<1>4. Target(run[p])'
  <2>1. run[p].cmd = "deploy" => run[p].deploy \in Deploys /\ run[p].target \in Entries
                                 /\ ~run[p].target.active /\ run[p].target.name \in Names
    BY <1>1 DEF Fits, Deploying
  <2> QED
    BY <1>1, <1>2, <1>3, <2>1, TargetIsTyped, NoneAssumption DEF Onward, Fits, Target, Careless, Exists, Keeps, Storing
<1>5. ASSUME run[p].cmd = "deploy"
      PROVE  Deploying(run[p])'
  <2>1. run[p].deploy \in Deploys
    BY <1>1, <1>5 DEF Fits, Deploying
  <2> QED
    BY <1>1, <1>2, <1>5, <2>1 DEF Onward, Fits, Deploying, Exists, Keeps
<1>6. ASSUME run[p].cmd = "verify"
      PROVE  Verifying(run[p])'
  BY <1>1, <1>2, <1>6 DEF Onward, Fits, Verifying, Exists, Keeps
<1> QED
  BY <1>2, <1>4, <1>5, <1>6 DEF Fits, Keeps, By

\* Whose places they are.
LEMMA WhoIsWhere ==
  ASSUME IInv, NEW p \in Procs
  PROVE  /\ run[p].at \in {"script", "order", "post", "created", "clean"} =>
              run[p].cmd = "deploy" /\ Deploying(run[p])
         /\ run[p].at \in {"address", "verify", "wind", "stored", "refused"} =>
              \/ run[p].cmd = "deploy" /\ Deploying(run[p])
              \/ run[p].cmd = "verify" /\ Verifying(run[p])
         /\ run[p].at = "delete" => run[p].cmd = "destroy"
         /\ run[p].at \in {"power", "poll"} => run[p].cmd \in {"stop", "start", "wake"}
         /\ run[p].at \in {"list", "purge"} => run[p].cmd = "reconcile"
BY InvIsFileInv DEF Fits, Target, PlacesOf, Places, Storing

LEMMA QuietIsOnward ==
  ASSUME NEW p \in Procs, Others(p), UNCHANGED <<store, account, stage, dropped>>
  PROVE  Onward(p)
BY DEF Onward, Others, Covered, Ids

LEMMA StageIsOnward ==
  ASSUME IInv, NEW p \in Procs, NEW s \in Stages, Others(p), Stage(p, s),
         UNCHANGED <<store, account, dropped>>,
         run[p].cmd = "deploy" \/ (s = "recorded" /\ (run[p].deploy \in Deploys => account[run[p].deploy] # "none"))
  PROVE  Onward(p)
<1>1. \A d \in Deploys : stage'[d] = IF d = run[p].deploy THEN s ELSE stage[d]
  BY DEF Stage, IInv, TypeOK
<1> QED
  BY <1>1 DEF Onward, Others, Covered, Ids, By

\* A step that writes a receipt and nothing else.
LEMMA StageMoves ==
  ASSUME IInv, FileInv', NEW p \in Procs, NEW s \in Stages \ {"none", "preparing"}, Onward(p),
         Stage(p, s), UNCHANGED <<store, account, dropped>>, Fits(p)',
         run'[p].cmd = "deploy" => By(p, run'[p].deploy),
         run[p].deploy \in Deploys =>
           /\ Covered(run[p].deploy) \/ s \in Unsettled \/ account[run[p].deploy] = "none"
           /\ s = "destroyed" => account[run[p].deploy] = "gone" /\ run[p].deploy \notin Ids(store)
  PROVE  IInv'
<1>1. \A d \in Deploys : stage'[d] = IF d = run[p].deploy THEN s ELSE stage[d]
  BY DEF Stage, IInv, TypeOK
<1>2. \A d \in Deploys : stage'[d] # stage[d] => d = run[p].deploy /\ stage'[d] = s
  BY <1>1
<1> QED
  BY <1>2, MovesOn DEF Onward

LEMMA CreateStartupScriptHolds == ASSUME IInv, FileInv', NEW p \in Procs, CreateStartupScript(p) PROVE IInv'
<1>1. FileInv /\ run[p].cmd = "deploy" /\ Deploying(run[p])
  BY InvIsFileInv, WhoIsWhere DEF CreateStartupScript
<1>2. PICK place \in {"wind", "order"} : To(p, place)
  BY DEF CreateStartupScript
<1>3. Others(p)
  BY <1>1, <1>2, AfterTo DEF Places
<1>4. Onward(p)
  BY <1>3, QuietIsOnward DEF CreateStartupScript
<1>5. Fits(p)' /\ (run'[p].cmd = "deploy" => By(p, run'[p].deploy))
  BY <1>1, <1>2, <1>4, ToFits DEF CreateStartupScript, PlacesOf, Places, Deploying, Exists
<1> QED
  BY <1>3, <1>5, QuietMoves DEF CreateStartupScript, Others

LEMMA OrderHolds == ASSUME IInv, FileInv', NEW p \in Procs, Order(p) PROVE IInv'
<1>1. FileInv /\ run[p].cmd = "deploy" /\ Deploying(run[p])
  BY InvIsFileInv, WhoIsWhere DEF Order
<1>2. CASE To(p, "wind") /\ UNCHANGED stage
  <2>1. Others(p)
    BY <1>1, <1>2, AfterTo DEF Places
  <2>2. Onward(p)
    BY <1>2, <2>1, QuietIsOnward DEF Order
  <2>3. Fits(p)' /\ (run'[p].cmd = "deploy" => By(p, run'[p].deploy))
    BY <1>1, <1>2, <2>2, ToFits DEF Order, PlacesOf, Places, Deploying
  <2> QED
    BY <1>2, <2>1, <2>3, QuietMoves DEF Order, Others
<1>3. CASE To(p, "post") /\ Stage(p, "creating_instance")
  <2>1. Others(p)
    BY <1>1, <1>3, AfterTo DEF Places
  <2>2. Onward(p)
    BY <1>1, <1>3, <2>1, StageIsOnward DEF Order, Stages
  <2>3. stage'[run[p].deploy] = "creating_instance"
    BY <1>1, <1>3 DEF Stage, Deploying, IInv, TypeOK
  <2>4. Fits(p)' /\ (run'[p].cmd = "deploy" => By(p, run'[p].deploy))
    BY <1>1, <1>3, <2>2, <2>3, ToFits DEF Order, PlacesOf, Places, Deploying, Exists
  <2> QED
    BY <1>3, <2>2, <2>4, StageMoves DEF Order, Stages, Unsettled
<1> QED
  BY <1>2, <1>3 DEF Order

LEMMA CreatedHolds == ASSUME IInv, FileInv', NEW p \in Procs, Created(p) PROVE IInv'
<1>1. FileInv /\ run[p].cmd = "deploy" /\ Deploying(run[p])
  BY InvIsFileInv, WhoIsWhere DEF Created
<1>2. CASE To(p, "wind") /\ UNCHANGED stage
  <2>1. Others(p)
    BY <1>1, <1>2, AfterTo DEF Places
  <2>2. Onward(p)
    BY <1>2, <2>1, QuietIsOnward DEF Created
  <2>3. Fits(p)' /\ (run'[p].cmd = "deploy" => By(p, run'[p].deploy))
    BY <1>1, <1>2, <2>2, ToFits DEF Created, PlacesOf, Places, Deploying
  <2> QED
    BY <1>2, <2>1, <2>3, QuietMoves DEF Created, Others
<1>3. CASE Want(p, "append", run[p].target) /\ Stage(p, "created")
  <2>1. Others(p)
    BY <1>1, <1>3, AfterWant DEF Changes
  <2>2. Onward(p)
    BY <1>1, <1>3, <2>1, StageIsOnward DEF Created, Stages
  <2>3. stage'[run[p].deploy] = "created"
    BY <1>1, <1>3 DEF Stage, Deploying, IInv, TypeOK
  <2>4. run[p].target.id = run[p].deploy /\ account[run[p].deploy] # "none"
    BY <1>1, InvIsFileInv, NoneAssumption DEF Created, Deploying, Fits, Target, Exists
  <2>5. Fits(p)' /\ (run'[p].cmd = "deploy" => By(p, run'[p].deploy))
    BY <1>1, <1>3, <2>2, <2>3, <2>4, WantFits DEF Changes
  <2> QED
    BY <1>3, <2>2, <2>5, StageMoves DEF Created, Stages, Unsettled
<1> QED
  BY <1>2, <1>3 DEF Created

LEMMA RecordedHolds == ASSUME IInv, FileInv', NEW p \in Procs, Recorded(p) PROVE IInv'
<1>1. FileInv /\ run[p].cmd = "deploy" /\ Deploying(run[p])
  BY InvIsFileInv DEF Recorded, Fits
<1>2. PICK place \in {"address", "wind"}, s \in {"recorded", "local_record_failed"} :
        /\ To(p, place) /\ Stage(p, s)
        /\ IF run[p].at = "stored" THEN place = "address" /\ s = "recorded"
           ELSE place = "wind" /\ s = "local_record_failed"
  BY DEF Recorded
<1>3. Others(p)
  BY <1>1, <1>2, AfterTo DEF Places
<1>4. Onward(p)
  BY <1>1, <1>2, <1>3, StageIsOnward DEF Recorded, Stages
<1>5. stage'[run[p].deploy] = s
  BY <1>1, <1>2 DEF Stage, Deploying, IInv, TypeOK
<1>6. s = "recorded" => /\ run[p].target.id = run[p].deploy
                        /\ account[run[p].deploy] # "none" /\ Covered(run[p].deploy)
  BY <1>1, <1>2 DEF Recorded, Deploying, Exists
<1>7. Fits(p)' /\ (run'[p].cmd = "deploy" => By(p, run'[p].deploy))
  BY <1>1, <1>2, <1>4, <1>5, <1>6, ToFits DEF PlacesOf, Places
<1> QED
  BY <1>2, <1>4, <1>6, <1>7, StageMoves DEF Recorded, Stages, Unsettled

LEMMA AddressedHolds == ASSUME IInv, FileInv', NEW p \in Procs, Addressed(p) PROVE IInv'
<1>1. FileInv /\ (run[p].cmd = "deploy" => Deploying(run[p])) /\ run[p].cmd \in {"deploy", "verify"}
      /\ (run[p].cmd = "verify" => Verifying(run[p]))
  BY InvIsFileInv, WhoIsWhere DEF Addressed
<1>2. run[p].deploy \in Deploys => account[run[p].deploy] # "none" /\ Covered(run[p].deploy)
  BY <1>1, NoneAssumption DEF Addressed, Deploying, Verifying, Exists
<1>3. run[p].cmd = "deploy" => run[p].deploy \in Deploys /\ run[p].target.id = run[p].deploy
  BY <1>1 DEF Addressed, Deploying
<1>4. CASE UNCHANGED stage /\ To(p, "wind")
  <2>1. Others(p)
    BY <1>1, <1>4, AfterTo DEF Places
  <2>2. Onward(p)
    BY <1>4, <2>1, QuietIsOnward DEF Addressed
  <2>3. Fits(p)' /\ (run'[p].cmd = "deploy" => By(p, run'[p].deploy))
    BY <1>1, <1>4, <2>2, ToFits DEF PlacesOf, Places, Deploying
  <2> QED
    BY <1>4, <2>1, <2>3, QuietMoves DEF Addressed, Others
<1>5. ASSUME NEW place \in {"verify", "wind"}, Stage(p, "recorded"), To(p, place)
      PROVE  IInv'
  <2>1. Others(p)
    BY <1>1, <1>5, AfterTo DEF Places
  <2>2. Onward(p)
    BY <1>2, <1>5, <2>1, StageIsOnward DEF Addressed, Stages
  <2>3. run[p].cmd = "deploy" => stage'[run[p].deploy] = "recorded"
    BY <1>3, <1>5 DEF Stage, IInv, TypeOK
  <2>4. Fits(p)' /\ (run'[p].cmd = "deploy" => By(p, run'[p].deploy))
    BY <1>1, <1>2, <1>3, <1>5, <2>2, <2>3, ToFits DEF PlacesOf, Places, Storing
  <2> QED
    BY <1>2, <1>5, <2>2, <2>4, StageMoves DEF Addressed, Stages
<1> QED
  BY <1>4, <1>5 DEF Addressed

LEMMA WaitForIPHolds == ASSUME IInv, FileInv', NEW p \in Procs, WaitForIP(p) PROVE IInv'
<1>1. FileInv /\ (run[p].cmd = "deploy" => Deploying(run[p])) /\ run[p].cmd \in {"deploy", "verify"}
      /\ (run[p].cmd = "verify" => Verifying(run[p]))
  BY InvIsFileInv, WhoIsWhere DEF WaitForIP
<1>2. run[p].deploy \in Deploys => account[run[p].deploy] # "none" /\ Covered(run[p].deploy)
  BY <1>1, NoneAssumption DEF WaitForIP, Deploying, Verifying, Exists
<1>3. run[p].cmd = "deploy" => run[p].deploy \in Deploys /\ run[p].target.id = run[p].deploy
  BY <1>1 DEF WaitForIP, Deploying
<1>4. run[p].cmd = "deploy" => stage'[run[p].deploy] = "recorded"
  BY <1>3 DEF WaitForIP, Stage, IInv, TypeOK
<1>5. Others(p) => Onward(p)
  BY <1>2, StageIsOnward DEF WaitForIP, Stages
<1>6. CASE run[p].cmd = "deploy" /\ Want(p, "address", run[p].target)
  <2>1. Onward(p)
    BY <1>1, <1>5, <1>6, AfterWant DEF Changes
  <2>2. Fits(p)' /\ (run'[p].cmd = "deploy" => By(p, run'[p].deploy))
    BY <1>2, <1>3, <1>4, <1>6, <2>1, WantFits DEF Changes
  <2> QED
    BY <1>2, <2>1, <2>2, StageMoves DEF WaitForIP, Stages
<1>7. ASSUME NEW place \in {"verify", "wind"}, To(p, place)
      PROVE  IInv'
  <2>1. Onward(p)
    BY <1>1, <1>5, <1>7, AfterTo DEF Places
  <2>2. Fits(p)' /\ (run'[p].cmd = "deploy" => By(p, run'[p].deploy))
    BY <1>1, <1>2, <1>3, <1>4, <1>7, <2>1, ToFits DEF PlacesOf, Places, Storing
  <2> QED
    BY <1>2, <2>1, <2>2, StageMoves DEF WaitForIP, Stages
<1> QED
  BY <1>6, <1>7 DEF WaitForIP

LEMMA VerifyNodeHolds == ASSUME IInv, FileInv', NEW p \in Procs, VerifyNode(p) PROVE IInv'
<1>1. FileInv /\ (run[p].cmd = "deploy" => Deploying(run[p])) /\ run[p].cmd \in {"deploy", "verify"}
  BY InvIsFileInv, WhoIsWhere DEF VerifyNode
<1>2. Others(p)
  BY <1>1, AfterWant DEF VerifyNode, Changes
<1>3. Onward(p)
  BY <1>2, QuietIsOnward DEF VerifyNode
<1>4. Fits(p)' /\ (run'[p].cmd = "deploy" => By(p, run'[p].deploy))
  BY <1>1, <1>3, WantFits DEF VerifyNode, Changes, Deploying, Exists
<1> QED
  BY <1>2, <1>4, QuietMoves DEF VerifyNode, Others

LEMMA VerifiedHolds == ASSUME IInv, FileInv', NEW p \in Procs, Verified(p) PROVE IInv'
<1>1. FileInv /\ (run[p].cmd = "deploy" => Deploying(run[p])) /\ run[p].cmd \in {"deploy", "verify"}
      /\ (run[p].cmd = "verify" => Verifying(run[p]))
  BY InvIsFileInv, WhoIsWhere DEF Verified
<1>2. run[p].deploy \in Deploys => account[run[p].deploy] # "none" /\ Covered(run[p].deploy)
  BY <1>1, NoneAssumption DEF Verified, Deploying, Verifying, Exists
<1>3. run[p].cmd = "deploy" => run[p].deploy \in Deploys
  BY <1>1 DEF Deploying
<1>4. Others(p)
  BY <1>1, AfterTo DEF Verified, Places
<1>5. CASE UNCHANGED stage
  <2>1. Onward(p)
    BY <1>4, <1>5, QuietIsOnward DEF Verified
  <2>2. Fits(p)' /\ (run'[p].cmd = "deploy" => By(p, run'[p].deploy))
    BY <1>1, <1>5, <2>1, ToFits DEF Verified, PlacesOf, Places, Deploying
  <2> QED
    BY <1>4, <1>5, <2>2, QuietMoves DEF Verified, Others
<1>6. CASE Stage(p, "recorded")
  <2>1. Onward(p)
    BY <1>2, <1>4, <1>6, StageIsOnward DEF Verified, Stages
  <2>2. run[p].cmd = "deploy" => stage'[run[p].deploy] = "recorded"
    BY <1>3, <1>6 DEF Stage, IInv, TypeOK
  <2>3. Fits(p)' /\ (run'[p].cmd = "deploy" => By(p, run'[p].deploy))
    BY <1>1, <2>1, <2>2, ToFits DEF Verified, PlacesOf, Places
  <2> QED
    BY <1>2, <1>6, <2>1, <2>3, StageMoves DEF Verified, Stages
<1> QED
  BY <1>5, <1>6 DEF Verified

LEMMA WorkIsOverHolds == ASSUME IInv, FileInv', NEW p \in Procs, WorkIsOver(p) PROVE IInv'
<1>1. FileInv
  BY InvIsFileInv
<1>2. CASE End(p) /\ UNCHANGED stage
  BY <1>1, <1>2, AfterEnd, QuietMoves DEF WorkIsOver, Others
<1>3. CASE /\ run[p].cmd = "deploy" /\ run[p].target.id # None
           /\ To(p, "clean") /\ Stage(p, "destroying_after_interrupt")
  <2>1. Deploying(run[p]) /\ Others(p)
    BY <1>1, <1>3, AfterTo, InvIsFileInv DEF Places, Fits
  <2>2. Onward(p)
    BY <1>3, <2>1, StageIsOnward DEF WorkIsOver, Stages
  <2>3. stage'[run[p].deploy] = "destroying_after_interrupt"
    BY <1>3, <2>1 DEF Stage, Deploying, IInv, TypeOK
  <2>4. Fits(p)' /\ (run'[p].cmd = "deploy" => By(p, run'[p].deploy))
    BY <1>3, <2>2, <2>3, ToFits DEF PlacesOf, Places
  <2> QED
    BY <1>3, <2>2, <2>4, StageMoves DEF WorkIsOver, Stages, Unsettled
<1> QED
  BY <1>2, <1>3 DEF WorkIsOver

LEMMA CleanedUpHolds == ASSUME IInv, FileInv', NEW p \in Procs, CleanedUp(p) PROVE IInv'
<1>1. FileInv /\ Deploying(run[p]) /\ Others(p) /\ Fits(p)' /\ run'[p].cmd = "none"
  BY InvIsFileInv, AfterEnd DEF CleanedUp, Fits
<1>2. PICK s \in {"destroyed", "deleted_local_cleanup_pending"} :
        Stage(p, s) /\ (s = "destroyed" => run[p].at = "stored")
  BY DEF CleanedUp
<1>3. Onward(p)
  BY <1>1, <1>2, StageIsOnward DEF CleanedUp, Stages
<1>4. account[run[p].deploy] = "gone" /\ (s = "destroyed" => run[p].deploy \notin Ids(store))
  BY <1>1, <1>2 DEF CleanedUp, Deploying
<1> QED
  BY <1>1, <1>2, <1>3, <1>4, StageMoves DEF CleanedUp, Stages, Covered

LEMMA InterruptHolds == ASSUME IInv, FileInv', NEW p \in Procs, Interrupt(p) PROVE IInv'
<1> DEFINE r == [run[p] EXCEPT !.intr = TRUE]
<1>1. FileInv /\ Fits(p) /\ Deploying(run[p])
  BY InvIsFileInv DEF Interrupt, Fits
<1>2. /\ r.cmd = run[p].cmd /\ r.at = run[p].at /\ r.deploy = run[p].deploy
      /\ r.target = run[p].target /\ r.change = run[p].change /\ r.seen = run[p].seen
      /\ (r.force => run[p].force) /\ (run[p].force => r.force)
  BY <1>1, Kept DEF Runs
<1>3. run' = [run EXCEPT ![p] = r]
  BY DEF Interrupt, Go
<1> HIDE DEF r
<1>4. run'[p] = r /\ Others(p)
  BY <1>1, <1>3 DEF FileInv, TypeOK, Others
<1>5. Target(run[p])'
  BY <1>1, <1>2, <1>4 DEF Fits, Target, Careless, Interrupt, Exists
<1>6. Deploying(run[p])'
  BY <1>1, <1>2, <1>4 DEF Deploying, Interrupt, Exists, Covered, Ids
<1>7. Fits(p)' /\ By(p, run'[p].deploy)
  BY <1>2, <1>4, <1>5, <1>6 DEF Fits, Interrupt, By
<1> QED
  BY <1>4, <1>7, QuietMoves DEF Interrupt, Others

\* A call to the provider about an instance that exists.
LEMMA ActIsOnward ==
  ASSUME IInv, NEW p \in Procs, NEW d \in Deploys, NEW v \in {"on", "halted", "gone"}, Others(p),
         account[d] # "none", account[d] = "gone" => v = "gone",
         account' = account \/ account' = [account EXCEPT ![d] = v], UNCHANGED <<store, dropped>>,
         \A e \in Deploys : stage'[e] = stage[e] \/ By(p, e)
  PROVE  Onward(p)
<1>1. \A e \in Deploys : account'[e] = account[e] \/ (e = d /\ account'[e] = v)
  BY DEF IInv, TypeOK
<1> QED
  BY <1>1 DEF Onward, Others, Covered, Ids

LEMMA ActMoves ==
  ASSUME IInv, FileInv', NEW p \in Procs, Onward(p), UNCHANGED <<store, stage, dropped>>, Fits(p)',
         run[p].cmd # "deploy", run'[p].cmd # "deploy"
  PROVE  IInv'
<1>1. \A e \in Deploys : account[e] = "none" => account'[e] = "none"
  BY DEF Onward, By
<1> QED
  BY <1>1, MovesOn

LEMMA DeleteInstanceHolds == ASSUME IInv, FileInv', NEW p \in Procs, DeleteInstance(p) PROVE IInv'
<1> DEFINE d == run[p].target.id
<1>1. FileInv /\ Fits(p) /\ run[p].cmd = "destroy" /\ d \in Deploys /\ account[d] # "none"
  BY InvIsFileInv, WhoIsWhere, TargetIsTyped DEF DeleteInstance, Fits, Target, Exists
<1>2. Others(p)
  BY <1>1, AfterTo, AfterEnd DEF DeleteInstance, Places
<1>3. Onward(p)
  BY <1>1, <1>2, ActIsOnward DEF DeleteInstance
<1>4. CASE End(p)
  BY <1>1, <1>3, <1>4, AfterEnd, ActMoves DEF DeleteInstance
<1>5. CASE To(p, "want") /\ (run[p].force \/ account' = [account EXCEPT ![d] = "gone"])
  <2>1. run[p].force \/ account'[d] = "gone"
    BY <1>1, <1>5 DEF FileInv, TypeOK
  <2>2. Fits(p)' /\ (run'[p].cmd = "deploy" => By(p, run'[p].deploy))
    BY <1>1, <1>3, <1>5, <2>1, NoneAssumption, ToFits DEF Places, PlacesOf, Storing
  <2> QED
    BY <1>1, <1>3, <2>2, ActMoves DEF DeleteInstance, By
<1> QED
  BY <1>4, <1>5 DEF DeleteInstance

LEMMA PowerInstanceHolds == ASSUME IInv, FileInv', NEW p \in Procs, PowerInstance(p) PROVE IInv'
<1> DEFINE d == run[p].target.id
           v == Power(run[p].cmd, account[d])
<1>1. /\ FileInv /\ run[p].cmd \in {"stop", "start", "wake"} /\ d \in Deploys
      /\ account[d] # "none"
  BY InvIsFileInv, WhoIsWhere, TargetIsTyped DEF PowerInstance, Fits, Target, Exists
<1>2. v \in {"on", "halted", "gone"} /\ (account[d] = "gone" => v = "gone")
  BY DEF Power
<1>3. Others(p)
  BY <1>1, AfterTo, AfterEnd DEF PowerInstance, Places
<1>4. account' = account \/ account' = [account EXCEPT ![d] = v]
  BY DEF PowerInstance
<1>5. Onward(p)
  <2> HIDE DEF v
  <2> QED
    BY <1>1, <1>2, <1>3, <1>4, ActIsOnward DEF PowerInstance
<1>6. CASE End(p)
  BY <1>1, <1>5, <1>6, AfterEnd, ActMoves DEF PowerInstance
<1>7. CASE To(p, "poll")
  <2>1. Fits(p)' /\ (run'[p].cmd = "deploy" => By(p, run'[p].deploy))
    BY <1>1, <1>5, <1>7, NoneAssumption, ToFits DEF Places, PlacesOf, Storing
  <2> QED
    BY <1>1, <1>5, <2>1, ActMoves DEF PowerInstance, By
<1> QED
  BY <1>6, <1>7 DEF PowerInstance

LEMMA PollInstanceHolds == ASSUME IInv, FileInv', NEW p \in Procs, PollInstance(p) PROVE IInv'
<1>1. FileInv /\ run[p].cmd \in {"stop", "start", "wake"}
  BY InvIsFileInv, WhoIsWhere DEF PollInstance
<1>2. CASE End(p)
  BY <1>1, <1>2, AfterEnd, QuietMoves DEF PollInstance, Others
<1>3. ASSUME NEW c \in {"stopped", "started"}, Want(p, c, run[p].target)
      PROVE  IInv'
  <2>1. Others(p)
    BY <1>1, <1>3, AfterWant DEF Changes
  <2>2. Onward(p)
    BY <2>1, QuietIsOnward DEF PollInstance
  <2>3. Fits(p)' /\ (run'[p].cmd = "deploy" => By(p, run'[p].deploy))
    BY <1>1, <1>3, <2>2, WantFits DEF Changes
  <2> QED
    BY <2>1, <2>3, QuietMoves DEF PollInstance, Others
<1> QED
  BY <1>2, <1>3 DEF PollInstance

LEMMA CleanupInstanceHolds == ASSUME IInv, FileInv', NEW p \in Procs, CleanupInstance(p) PROVE IInv'
<1> DEFINE d == run[p].deploy
<1>1. FileInv /\ run[p].cmd = "deploy" /\ Deploying(run[p]) /\ d \in Deploys
  BY InvIsFileInv, WhoIsWhere DEF CleanupInstance, Deploying
<1>2. run[p].target.id = d /\ account[d] # "none"
  BY <1>1, InvIsFileInv DEF CleanupInstance, Deploying, Fits, Target, Exists
<1>3. Others(p)
  BY <1>1, AfterWant, AfterEnd DEF CleanupInstance, Changes
<1>4. CASE /\ account' = [account EXCEPT ![d] = "gone"] /\ UNCHANGED stage
           /\ Want(p, "remove", run[p].target)
  <2>1. Onward(p) /\ account'[d] = "gone"
    BY <1>1, <1>2, <1>3, <1>4, ActIsOnward DEF CleanupInstance, FileInv, TypeOK
  <2>2. Fits(p)' /\ (run'[p].cmd = "deploy" => By(p, run'[p].deploy))
    BY <1>1, <1>2, <1>4, <2>1, WantFits DEF Changes, Deploying
  <2> QED
    BY <1>2, <1>4, <2>1, <2>2, MovesOn DEF CleanupInstance, Onward
<1>5. CASE /\ account' \in {account, [account EXCEPT ![d] = "gone"]}
           /\ Stage(p, "cleanup_pending") /\ End(p)
  <2>1. \A e \in Deploys : stage'[e] = IF e = d THEN "cleanup_pending" ELSE stage[e]
    BY <1>5 DEF Stage, IInv, TypeOK
  <2>2. Onward(p)
    BY <1>1, <1>2, <1>3, <1>5, <2>1, ActIsOnward DEF CleanupInstance, By
  <2>3. Fits(p)' /\ run'[p].cmd = "none"
    BY <1>1, <1>5, AfterEnd
  <2>4. \A e \in Deploys : /\ stage'[e] # stage[e] => stage'[e] = "cleanup_pending"
                           /\ account[e] = "none" => account'[e] = "none"
    BY <1>1, <1>2, <2>1, <2>2 DEF Onward, By
  <2> QED
    BY <2>2, <2>3, <2>4, MovesOn DEF CleanupInstance, Unsettled
<1> QED
  BY <1>2, <1>4, <1>5 DEF CleanupInstance

LEMMA CreateInstanceHolds == ASSUME IInv, FileInv', NEW p \in Procs, CreateInstance(p) PROVE IInv'
<1> DEFINE d == run[p].deploy
<1>1. FileInv /\ Fits(p) /\ run[p].cmd = "deploy" /\ Deploying(run[p]) /\ d \in Deploys
  BY InvIsFileInv, WhoIsWhere DEF CreateInstance, Deploying
<1>2. account[d] = "none" /\ stage[d] = "creating_instance"
  BY <1>1 DEF CreateInstance, Deploying, Exists
<1>3. \A e \in Deploys : account'[e] = account[e] \/ (e = d /\ account'[e] = "on")
  BY <1>1 DEF CreateInstance, FileInv, TypeOK
<1>4. \A e \in Deploys : stage'[e] = stage[e] \/ (e = d /\ stage'[e] = "instance_creation_unconfirmed")
  BY <1>1 DEF CreateInstance, FileInv, TypeOK, Stage
<1>5. Others(p) => Onward(p)
  BY <1>1, <1>2, <1>3, <1>4 DEF CreateInstance, Onward, Others, Covered, Ids, By
<1>6. stage'[d] \in {"creating_instance", "instance_creation_unconfirmed"}
  BY <1>1, <1>2, <1>4
<1>7. Others(p) /\ Fits(p)' /\ (run'[p].cmd = "deploy" => By(p, run'[p].deploy)) => IInv'
  BY <1>2, <1>3, <1>4, <1>5, <1>6, MovesOn DEF CreateInstance, Unsettled
<1>8. CASE To(p, "wind")
  <2>1. Others(p)
    BY <1>1, <1>8, AfterTo DEF Places
  <2>2. Fits(p)' /\ (run'[p].cmd = "deploy" => By(p, run'[p].deploy))
    BY <1>1, <1>5, <1>6, <1>8, <2>1, ToFits DEF Places, PlacesOf
  <2> QED
    BY <1>7, <2>1, <2>2
<1>9. CASE /\ account' = [account EXCEPT ![d] = "on"] /\ UNCHANGED stage
           /\ Go(p, [run[p] EXCEPT !.at = "created", !.target.id = d])
  <2> DEFINE t == [run[p].target EXCEPT !.id = d]
             r == [run[p] EXCEPT !.at = "created", !.target = t]
  <2>1. run[p] \in Runs /\ run[p].target \in Entries
    BY <1>1, Kept DEF Deploying
  <2>2. t \in Entries /\ t.id = d /\ t.name = run[p].target.name /\ ~t.active
    BY <1>1, <2>1 DEF Deploying, Entries
  <2> HIDE DEF t
  <2>3. /\ r.cmd = run[p].cmd /\ r.at = "created" /\ r.deploy = d /\ r.target = t
        /\ r.change = run[p].change /\ r.seen = run[p].seen /\ (r.force => run[p].force)
    BY <2>1 DEF Runs
  <2>4. run' = [run EXCEPT ![p] = r]
    BY <1>9, <2>1 DEF Go, t, Runs
  <2> HIDE DEF r
  <2>5. run'[p] = r /\ Others(p)
    BY <1>1, <2>4 DEF FileInv, TypeOK, Others
  <2>6. account'[d] = "on"
    BY <1>1, <1>9 DEF FileInv, TypeOK
  <2>7. Target(run[p])'
    BY <1>1, <2>2, <2>3, <2>5, <2>6, NoneAssumption
    DEF Fits, Target, Careless, Deploying, Exists, PlacesOf, Places, Storing
  <2>8. run[p].change \notin {"append", "address", "verified", "remove"}
    BY <1>1, <1>2, NoneAssumption DEF Fits, Target, Deploying, Exists
  <2>9. Deploying(run[p])'
    BY <1>1, <1>6, <2>2, <2>3, <2>5, <2>6, <2>8 DEF Deploying, Exists
  <2>10. Fits(p)' /\ By(p, run'[p].deploy)
    BY <1>1, <2>3, <2>5, <2>7, <2>9 DEF Fits, By
  <2> QED
    BY <1>7, <2>5, <2>10
<1> QED
  BY <1>8, <1>9 DEF CreateInstance

LEMMA ListInstancesHolds == ASSUME IInv, FileInv', NEW p \in Procs, ListInstances(p) PROVE IInv'
<1>1. FileInv /\ Fits(p) /\ run[p].cmd = "reconcile"
  BY InvIsFileInv, WhoIsWhere DEF ListInstances
<1>2. CASE End(p)
  BY <1>1, <1>2, AfterEnd, QuietMoves DEF ListInstances, Others
<1>3. CASE Go(p, [run[p] EXCEPT !.at = "purge", !.seen = Billing \ run[p].seen])
  <2> DEFINE left == Billing \ run[p].seen
             r == [run[p] EXCEPT !.at = "purge", !.seen = left]
  <2>1. \A d \in left : account[d] # "none"
    BY DEF Billing
  <2>2. /\ r.cmd = "reconcile" /\ r.at = "purge" /\ r.target = run[p].target
        /\ r.change = run[p].change /\ r.seen = left /\ (r.force => run[p].force)
    BY <1>1, Kept DEF Runs
  <2>3. run' = [run EXCEPT ![p] = r]
    BY <1>3 DEF Go
  <2> HIDE DEF r, left
  <2>4. run'[p] = r /\ Others(p)
    BY <1>1, <2>3 DEF FileInv, TypeOK, Others
  <2>5. Fits(p)' /\ run'[p].cmd = "reconcile"
    BY <1>1, <2>1, <2>2, <2>4 DEF Fits, Target, Careless, Exists, PlacesOf, Storing, ListInstances
  <2> QED
    BY <2>4, <2>5, QuietMoves DEF ListInstances, Others
<1> QED
  BY <1>2, <1>3 DEF ListInstances

LEMMA DestroyRemoteHolds == ASSUME IInv, FileInv', NEW p \in Procs, DestroyRemote(p) PROVE IInv'
<1>1. FileInv /\ Fits(p) /\ run[p].cmd = "reconcile" /\ run[p] \in Runs
  BY InvIsFileInv, WhoIsWhere, Kept DEF DestroyRemote
<1>2. CASE End(p) /\ UNCHANGED account
  BY <1>1, <1>2, AfterEnd, QuietMoves DEF DestroyRemote, Others
<1>3. ASSUME NEW d \in run[p].seen, account' \in {account, [account EXCEPT ![d] = "gone"]},
             Go(p, [run[p] EXCEPT !.seen = run[p].seen \ {d}])
      PROVE  IInv'
  <2> DEFINE left == run[p].seen \ {d}
             r == [run[p] EXCEPT !.seen = left]
  <2>1. \A e \in run[p].seen : e \in Deploys /\ account[e] # "none"
    BY <1>1, TargetIsTyped DEF Fits, Target, Exists, DestroyRemote
  <2>2. /\ r.cmd = run[p].cmd /\ r.at = run[p].at /\ r.target = run[p].target
        /\ r.change = run[p].change /\ r.seen = left /\ (r.force => run[p].force)
    BY <1>1 DEF Runs
  <2>3. run' = [run EXCEPT ![p] = r]
    BY <1>3 DEF Go
  <2>4. left \subseteq run[p].seen
    OBVIOUS
  <2> HIDE DEF r, left
  <2>5. run'[p] = r /\ Others(p)
    BY <1>1, <2>3 DEF FileInv, TypeOK, Others
  <2>6. Onward(p)
    BY <1>3, <2>1, <2>5, ActIsOnward DEF DestroyRemote
  <2>7. Fits(p)' /\ run'[p].cmd = "reconcile"
    <3>1. run[p].target.id \in Deploys \cup {None}
      BY <1>1, TargetIsTyped
    <3> QED
      BY <1>1, <2>1, <2>2, <2>4, <2>5, <2>6, <3>1 DEF Fits, Target, Careless, Exists, Storing, Onward, DestroyRemote
  <2> QED
    BY <1>1, <2>6, <2>7, ActMoves DEF DestroyRemote
<1> QED
  BY <1>2, <1>3 DEF DestroyRemote

LEMMA KillHolds == ASSUME IInv, FileInv', NEW p \in Procs, Kill(p) PROVE IInv'
BY InvIsFileInv, AfterEnd, QuietMoves DEF Kill, Others

LEMMA LockHolds == ASSUME IInv, FileInv', NEW p \in Procs, Lock(p) PROVE IInv'
<1> DEFINE r == [run[p] EXCEPT !.at = "locked", !.read = store]
<1>1. FileInv /\ Fits(p) /\ run[p] \in Runs
  BY InvIsFileInv, Kept
<1>2. /\ r.cmd = run[p].cmd /\ r.at = "locked" /\ r.deploy = run[p].deploy
      /\ r.target = run[p].target /\ r.change = run[p].change /\ r.seen = run[p].seen
      /\ (r.force => run[p].force) /\ (run[p].force => r.force)
  BY <1>1 DEF Runs
<1>3. run' = [run EXCEPT ![p] = r]
  BY DEF Lock, Go
<1> HIDE DEF r
<1>4. run'[p] = r /\ Others(p)
  BY <1>1, <1>3 DEF FileInv, TypeOK, Others
<1>5. Target(run[p])'
  BY <1>1, <1>2, <1>4 DEF Fits, Target, Careless, Exists, Lock, PlacesOf, Places, Storing
<1>6. run[p].cmd = "deploy" => Deploying(run[p])'
  BY <1>1, <1>2, <1>4 DEF Fits, Deploying, Exists, Covered, Ids, Lock
<1>7. run[p].cmd = "verify" => Verifying(run[p])'
  BY <1>1, <1>2, <1>4 DEF Fits, Verifying, Exists, Covered, Ids, Lock
<1>8. Fits(p)' /\ (run'[p].cmd = "deploy" => By(p, run'[p].deploy))
  BY <1>2, <1>4, <1>5, <1>6, <1>7 DEF Fits, By
<1> QED
  BY <1>4, <1>8, QuietMoves DEF Lock, Others

\* A change that is over: its process has ended, or has the outcome before it.
LEMMA AfterOver ==
  ASSUME FileInv, NEW p \in Procs, NEW how \in {"stored", "refused"}, Over(p, how)
  PROVE  /\ Others(p)
         /\ IF run[p].cmd \in {"deploy", "verify"}
            THEN Keeps(p) /\ run'[p].at = how /\ run'[p].change = run[p].change
            ELSE End(p)
<1>1. run[p] \in Runs
  BY Kept
<1>2. CASE run[p].cmd \in {"deploy", "verify"}
  <2> DEFINE r == [run[p] EXCEPT !.at = how, !.read = {}]
  <2>1. /\ r.cmd = run[p].cmd /\ r.deploy = run[p].deploy /\ r.target = run[p].target
        /\ r.seen = run[p].seen /\ r.at = how /\ r.change = run[p].change
        /\ (r.force => run[p].force) /\ (run[p].force => r.force)
    BY <1>1 DEF Runs
  <2>2. run' = [run EXCEPT ![p] = r]
    BY <1>2 DEF Over, Go
  <2> HIDE DEF r
  <2>3. run'[p] = r /\ Others(p)
    BY <2>2 DEF FileInv, TypeOK, Others
  <2> QED
    BY <1>2, <2>1, <2>3 DEF Keeps
<1>3. CASE run[p].cmd \notin {"deploy", "verify"}
  BY <1>3, AfterEnd DEF Over, End
<1> QED
  BY <1>2, <1>3

LEMMA RefusedFits ==
  ASSUME IInv, NEW p \in Procs, Over(p, "refused"), UNCHANGED <<store, account, stage, dropped>>
  PROVE  Others(p) /\ Fits(p)' /\ (run'[p].cmd = "deploy" => By(p, run'[p].deploy))
<1>1. FileInv /\ Fits(p)
  BY InvIsFileInv
<1>2. CASE run[p].cmd \notin {"deploy", "verify"}
  BY <1>1, <1>2, AfterOver, AfterEnd
<1>3. CASE run[p].cmd \in {"deploy", "verify"}
  <2>1. Others(p) /\ Keeps(p) /\ run'[p].at = "refused" /\ run'[p].change = run[p].change
    BY <1>1, <1>3, AfterOver
  <2>2. Target(run[p])'
    BY <1>1, <1>3, <2>1 DEF Fits, Target, Careless, Exists, PlacesOf, Places, Storing, Keeps
  <2>3. run[p].cmd = "deploy" => Deploying(run[p])'
    BY <1>1, <2>1 DEF Fits, Deploying, Exists, Covered, Ids, Keeps
  <2>4. run[p].cmd = "verify" => Verifying(run[p])'
    BY <1>1, <2>1 DEF Fits, Verifying, Exists, Covered, Ids, Keeps
  <2> QED
    BY <2>1, <2>2, <2>3, <2>4 DEF Fits, Keeps, By
<1> QED
  BY <1>2, <1>3

LEMMA LockFailsHolds == ASSUME IInv, FileInv', NEW p \in Procs, LockFails(p) PROVE IInv'
BY RefusedFits, QuietMoves DEF LockFails, Others

LEMMA WriteFailsHolds == ASSUME IInv, FileInv', NEW p \in Procs, WriteFails(p) PROVE IInv'
BY RefusedFits, QuietMoves DEF WriteFails, Others

\* A command begins.
LEMMA AfterBegin ==
  ASSUME FileInv, NEW p \in Procs, NEW c \in Commands, NEW r \in Runs, Begin(p, c, r)
  PROVE  /\ Others(p) /\ run'[p].cmd = c /\ run'[p].at = r.at /\ run'[p].deploy = r.deploy
         /\ run'[p].target = r.target /\ run'[p].change = r.change /\ run'[p].seen = r.seen
         /\ (run'[p].force => r.force) /\ (r.force => run'[p].force)
<1> DEFINE q == [r EXCEPT !.cmd = c]
<1>1. /\ q.cmd = c /\ q.at = r.at /\ q.deploy = r.deploy /\ q.target = r.target
      /\ q.change = r.change /\ q.seen = r.seen /\ (q.force => r.force) /\ (r.force => q.force)
  BY DEF Runs
<1>2. run' = [run EXCEPT ![p] = q]
  BY DEF Begin, Go
<1> HIDE DEF q
<1>3. run'[p] = q /\ Others(p)
  BY <1>2 DEF FileInv, TypeOK, Others
<1> QED
  BY <1>1, <1>3

LEMMA EntryFits ==
  ASSUME IInv, NEW e \in store
  PROVE  /\ Ref(e) \in Entries /\ Ref(e).id = e.id /\ Ref(e).name = e.name
         /\ e.id \in Deploys \cup {None}
         /\ e.id # None => account[e.id] # "none" /\ Covered(e.id)
<1>1. e \in Entries /\ Ref(e) \in Entries
  BY InvIsFileInv, RefIsAnEntry DEF FileInv, TypeOK
<1> QED
  BY <1>1 DEF IInv, Deployed, Ref, Entry, Covered, Ids, Entries

LEMMA StartDestroyHolds == ASSUME IInv, FileInv', NEW p \in Procs, NEW e \in store, NEW f \in BOOLEAN, StartDestroy(p, e, f) PROVE IInv'
<1> DEFINE r == [Idle EXCEPT !.at = IF e.id = None THEN "want" ELSE "delete",
                            !.change = "remove", !.target = Ref(e), !.force = f]
<1>1. FileInv /\ "destroy" \in Commands /\ Begin(p, "destroy", r)
  BY InvIsFileInv DEF StartDestroy, Begin
<1>2. Ref(e) \in Entries
  BY EntryFits
<1>3. r \in Runs
  BY <1>2, IdleIsARun DEF Runs, Places, Changes
<1>4. r.at = (IF e.id = None THEN "want" ELSE "delete") /\ r.change = "remove" /\ r.target = Ref(e)
  BY DEF Idle, NoEntry, Entry
<1> HIDE DEF r
<1>5. Others(p) /\ run'[p].cmd = "destroy" /\ run'[p].at = r.at /\ run'[p].target = r.target
      /\ run'[p].change = r.change /\ (run'[p].force => r.force)
  BY <1>1, <1>3, AfterBegin
<1>6. Fits(p)'
  BY <1>2, <1>4, <1>5, EntryFits DEF Fits, Target, Careless, Exists, PlacesOf, Storing, StartDestroy
<1> QED
  BY <1>5, <1>6, QuietMoves DEF StartDestroy, Others

LEMMA StartStopHolds == ASSUME IInv, FileInv', NEW p \in Procs, NEW e \in store, StartStop(p, e) PROVE IInv'
<1> DEFINE r == [Idle EXCEPT !.at = "power", !.target = Ref(e)]
<1>1. FileInv /\ "stop" \in Commands /\ Begin(p, "stop", r)
  BY InvIsFileInv DEF StartStop, Begin
<1>2. Ref(e) \in Entries
  BY EntryFits
<1>3. r \in Runs
  BY <1>2, IdleIsARun DEF Runs, Places, Changes
<1>4. r.at = "power" /\ r.change = "use" /\ r.target = Ref(e) /\ ~r.force
  BY DEF Idle, NoEntry, Entry
<1> HIDE DEF r
<1>5. Others(p) /\ run'[p].cmd = "stop" /\ run'[p].at = r.at /\ run'[p].target = r.target
      /\ run'[p].change = r.change /\ (run'[p].force => r.force)
  BY <1>1, <1>3, AfterBegin
<1>6. Fits(p)'
  BY <1>2, <1>4, <1>5, EntryFits DEF Fits, Target, Careless, Exists, PlacesOf, Storing, StartStop
<1> QED
  BY <1>5, <1>6, QuietMoves DEF StartStop, Others

LEMMA StartStartHolds == ASSUME IInv, FileInv', NEW p \in Procs, NEW e \in store, NEW c \in {"start", "wake"}, StartStart(p, e, c) PROVE IInv'
<1> DEFINE r == [Idle EXCEPT !.at = "power", !.target = Ref(e)]
<1>1. FileInv /\ c \in Commands /\ Begin(p, c, r)
  BY InvIsFileInv DEF StartStart, Begin
<1>2. Ref(e) \in Entries
  BY EntryFits
<1>3. r \in Runs
  BY <1>2, IdleIsARun DEF Runs, Places, Changes
<1>4. r.at = "power" /\ r.change = "use" /\ r.target = Ref(e) /\ ~r.force
  BY DEF Idle, NoEntry, Entry
<1> HIDE DEF r
<1>5. Others(p) /\ run'[p].cmd = c /\ run'[p].at = r.at /\ run'[p].target = r.target
      /\ run'[p].change = r.change /\ (run'[p].force => r.force)
  BY <1>1, <1>3, AfterBegin
<1>6. Fits(p)'
  BY <1>2, <1>4, <1>5, EntryFits DEF Fits, Target, Careless, Exists, PlacesOf, Storing, StartStart
<1> QED
  BY <1>5, <1>6, QuietMoves DEF StartStart, Others

LEMMA StartUseHolds == ASSUME IInv, FileInv', NEW p \in Procs, NEW e \in store, StartUse(p, e) PROVE IInv'
<1> DEFINE r == [Idle EXCEPT !.at = "want", !.change = "use", !.target = Ref(e)]
<1>1. FileInv /\ "manage" \in Commands /\ Begin(p, "manage", r)
  BY InvIsFileInv DEF StartUse, Begin
<1>2. Ref(e) \in Entries
  BY EntryFits
<1>3. r \in Runs
  BY <1>2, IdleIsARun DEF Runs, Places, Changes
<1>4. r.at = "want" /\ r.change = "use" /\ r.target = Ref(e) /\ ~r.force
  BY DEF Idle, NoEntry, Entry
<1> HIDE DEF r
<1>5. Others(p) /\ run'[p].cmd = "manage" /\ run'[p].at = r.at /\ run'[p].target = r.target
      /\ run'[p].change = r.change /\ (run'[p].force => r.force)
  BY <1>1, <1>3, AfterBegin
<1>6. Fits(p)'
  BY <1>2, <1>4, <1>5, EntryFits DEF Fits, Target, Careless, Exists, PlacesOf, Storing, StartUse
<1> QED
  BY <1>5, <1>6, QuietMoves DEF StartUse, Others

LEMMA StartRepairHolds == ASSUME IInv, FileInv', NEW p \in Procs, NEW e \in store, StartRepair(p, e) PROVE IInv'
<1> DEFINE r == [Idle EXCEPT !.at = "want", !.change = "repaired", !.target = Ref(e)]
<1>1. FileInv /\ "repair" \in Commands /\ Begin(p, "repair", r)
  BY InvIsFileInv DEF StartRepair, Begin
<1>2. Ref(e) \in Entries
  BY EntryFits
<1>3. r \in Runs
  BY <1>2, IdleIsARun DEF Runs, Places, Changes
<1>4. r.at = "want" /\ r.change = "repaired" /\ r.target = Ref(e) /\ ~r.force
  BY DEF Idle, NoEntry, Entry
<1> HIDE DEF r
<1>5. Others(p) /\ run'[p].cmd = "repair" /\ run'[p].at = r.at /\ run'[p].target = r.target
      /\ run'[p].change = r.change /\ (run'[p].force => r.force)
  BY <1>1, <1>3, AfterBegin
<1>6. Fits(p)'
  BY <1>2, <1>4, <1>5, EntryFits DEF Fits, Target, Careless, Exists, PlacesOf, Storing, StartRepair
<1> QED
  BY <1>5, <1>6, QuietMoves DEF StartRepair, Others

LEMMA StartImportHolds == ASSUME IInv, FileInv', NEW p \in Procs, NEW n \in Names, StartImport(p, n) PROVE IInv'
<1> DEFINE r == [Idle EXCEPT !.at = "want", !.change = "append", !.target = Entry(n, None, None, TRUE)]
<1>1. FileInv /\ "import" \in Commands /\ Begin(p, "import", r)
  BY InvIsFileInv DEF StartImport, Begin
<1> DEFINE t == Entry(n, None, None, TRUE)
<1>2. t \in Entries /\ t.id = None /\ ~t.active
  BY NewEntry DEF Entry
<1> HIDE DEF t
<1>3. r \in Runs
  BY <1>2, IdleIsARun DEF Runs, Places, Changes, t
<1>4. r.at = "want" /\ r.change = "append" /\ r.target = t /\ ~r.force
  BY DEF Idle, NoEntry, Entry, t
<1> HIDE DEF r
<1>5. Others(p) /\ run'[p].cmd = "import" /\ run'[p].at = r.at /\ run'[p].target = r.target
      /\ run'[p].change = r.change /\ (run'[p].force => r.force)
  BY <1>1, <1>3, AfterBegin
<1>6. Fits(p)'
  BY <1>2, <1>4, <1>5 DEF Fits, Target, Careless, Exists, PlacesOf, Storing, StartImport
<1> QED
  BY <1>5, <1>6, QuietMoves DEF StartImport, Others

LEMMA StartAdoptHolds == ASSUME IInv, FileInv', NEW p \in Procs, NEW d \in Deploys, NEW n \in Names, StartAdopt(p, d, n) PROVE IInv'
<1> DEFINE r == [Idle EXCEPT !.at = "want", !.change = "append",
                            !.target = Entry(n, TopLevel(Reply(d), "id"), d, FALSE)]
<1>1. FileInv /\ "adopt" \in Commands /\ Begin(p, "adopt", r)
  BY InvIsFileInv DEF StartAdopt, Begin
<1> DEFINE t == Entry(n, TopLevel(Reply(d), "id"), d, FALSE)
<1>2. t \in Entries /\ t.id = None /\ ~t.active
  <2>1. TopLevel(Reply(d), "id") = None
    BY DEF TopLevel, Reply
  <2> QED
    BY <2>1, NewEntry DEF Entry
<1> HIDE DEF t
<1>3. r \in Runs
  BY <1>2, IdleIsARun DEF Runs, Places, Changes, t
<1>4. r.at = "want" /\ r.change = "append" /\ r.target = t /\ ~r.force
  BY DEF Idle, NoEntry, Entry, t
<1> HIDE DEF r
<1>5. Others(p) /\ run'[p].cmd = "adopt" /\ run'[p].at = r.at /\ run'[p].target = r.target
      /\ run'[p].change = r.change /\ (run'[p].force => r.force)
  BY <1>1, <1>3, AfterBegin
<1>6. Fits(p)'
  BY <1>2, <1>4, <1>5 DEF Fits, Target, Careless, Exists, PlacesOf, Storing, StartAdopt
<1> QED
  BY <1>5, <1>6, QuietMoves DEF StartAdopt, Others

LEMMA StartReconcileHolds == ASSUME IInv, FileInv', NEW p \in Procs, StartReconcile(p) PROVE IInv'
<1> DEFINE r == [Idle EXCEPT !.at = "list", !.seen = Ids(store)]
<1>1. FileInv /\ "reconcile" \in Commands /\ Begin(p, "reconcile", r)
  BY InvIsFileInv DEF StartReconcile, Begin
<1>2. Ids(store) \subseteq Deploys
  BY <1>1 DEF FileInv, TypeOK, Ids, Entries
<1>3. r \in Runs
  BY <1>2, IdleIsARun DEF Runs, Places, Changes
<1>4. r.at = "list" /\ r.change = "use" /\ r.target.id = None /\ ~r.force
  BY DEF Idle, NoEntry, Entry
<1> HIDE DEF r
<1>5. Others(p) /\ run'[p].cmd = "reconcile" /\ run'[p].at = r.at /\ run'[p].target = r.target
      /\ run'[p].change = r.change /\ (run'[p].force => r.force)
  BY <1>1, <1>3, AfterBegin
<1>6. Fits(p)'
  BY <1>2, <1>4, <1>5 DEF Fits, Target, Careless, Exists, PlacesOf, Storing, StartReconcile
<1> QED
  BY <1>5, <1>6, QuietMoves DEF StartReconcile, Others

LEMMA StartFillHolds == ASSUME IInv, FileInv', NEW p \in Procs, StartFill(p) PROVE IInv'
<1>1. PICK assigned \in SUBSET Billing :
        Begin(p, "reconcile", [Idle EXCEPT !.at = "want", !.change = "fill", !.seen = assigned])
  BY DEF StartFill
<1> DEFINE r == [Idle EXCEPT !.at = "want", !.change = "fill", !.seen = assigned]
<1>2. FileInv /\ "reconcile" \in Commands /\ assigned \subseteq Deploys
  BY <1>1, InvIsFileInv DEF Begin, Billing
<1>3. r \in Runs
  BY <1>2, IdleIsARun DEF Runs, Places, Changes
<1>4. r.at = "want" /\ r.change = "fill" /\ r.target.id = None /\ ~r.force
  BY DEF Idle, NoEntry, Entry
<1>5. Begin(p, "reconcile", r)
  BY <1>1
<1> HIDE DEF r
<1>6. Others(p) /\ run'[p].cmd = "reconcile" /\ run'[p].at = r.at /\ run'[p].target = r.target
      /\ run'[p].change = r.change /\ (run'[p].force => r.force)
  BY <1>2, <1>3, <1>5, AfterBegin
<1>7. Fits(p)'
  BY <1>4, <1>6 DEF Fits, Target, Careless, PlacesOf, Storing
<1> QED
  BY <1>6, <1>7, QuietMoves DEF StartFill, Others

LEMMA StartDeployHolds ==
  ASSUME IInv, FileInv', NEW p \in Procs, NEW d \in Deploys, NEW n \in Names, StartDeploy(p, d, n)
  PROVE  IInv'
<1> DEFINE t == Entry(n, None, d, FALSE)
           r == [Idle EXCEPT !.at = "script", !.deploy = d, !.target = t]
<1>1. FileInv /\ "deploy" \in Commands /\ Begin(p, "deploy", r)
  BY InvIsFileInv DEF StartDeploy, Begin
<1>2. t \in Entries /\ t.id = None /\ t.name \in Names /\ ~t.active
  BY NewEntry DEF Entry
<1> HIDE DEF t
<1>3. r \in Runs
  BY <1>2, IdleIsARun DEF Runs, Places, Changes
<1>4. r.at = "script" /\ r.change = "use" /\ r.target = t /\ ~r.force /\ r.deploy = d
  BY DEF Idle
<1> HIDE DEF r
<1>5. Others(p) /\ run'[p].cmd = "deploy" /\ run'[p].at = "script" /\ run'[p].target = t
      /\ run'[p].change = "use" /\ ~run'[p].force /\ run'[p].deploy = d
  BY <1>1, <1>3, <1>4, AfterBegin
<1>6. \A e \in Deploys : stage'[e] = IF e = d THEN "preparing" ELSE stage[e]
  BY DEF StartDeploy, IInv, TypeOK
<1>7. stage[d] = "none" /\ account[d] = "none"
  BY DEF StartDeploy, IInv, Fresh, Exists
<1>8. Onward(p)
  BY <1>5, <1>6, <1>7 DEF StartDeploy, Onward, Others, Covered, Ids
<1>9. Target(run[p])'
  BY <1>2, <1>5 DEF Target, Careless, PlacesOf, Places, Storing
<1>10. Deploying(run[p])'
  BY <1>2, <1>5, <1>6, <1>7 DEF Deploying, Exists, StartDeploy
<1>11. Fits(p)'
  BY <1>5, <1>9, <1>10 DEF Fits
<1>12. \A e \in Deploys : stage'[e] # stage[e] => e = d /\ stage'[e] = "preparing"
  BY <1>6
<1>13. account' = account
  BY DEF StartDeploy
<1> QED
  BY <1>5, <1>7, <1>8, <1>11, <1>12, <1>13, MovesOn DEF StartDeploy

LEMMA StartVerifyHolds ==
  ASSUME IInv, FileInv', NEW p \in Procs, NEW e \in store, StartVerify(p, e)
  PROVE  IInv'
<1> DEFINE r == [Idle EXCEPT !.at = IF e.addr THEN "verify" ELSE "address",
                            !.deploy = e.id, !.target = Ref(e)]
<1>1. FileInv /\ "verify" \in Commands /\ Begin(p, "verify", r)
  BY InvIsFileInv DEF StartVerify, Begin
<1>2. /\ Ref(e) \in Entries /\ Ref(e).id = e.id /\ e.id \in Deploys \cup {None}
      /\ e.id # None => account[e.id] # "none" /\ Covered(e.id)
  BY EntryFits
<1>3. r \in Runs
  BY <1>2, IdleIsARun DEF Runs, Places, Changes
<1>4. r.at \in {"verify", "address"} /\ r.change = "use" /\ r.target = Ref(e) /\ ~r.force
      /\ r.deploy = e.id
  BY DEF Idle
<1> HIDE DEF r
<1>5. Others(p) /\ run'[p].cmd = "verify" /\ run'[p].at \in {"verify", "address"}
      /\ run'[p].target = Ref(e) /\ run'[p].change = "use" /\ ~run'[p].force
      /\ run'[p].deploy = e.id
  BY <1>1, <1>3, <1>4, AfterBegin
<1>6. \A d \in Deploys : stage'[d] # stage[d] => d = e.id /\ e.id # None /\ stage'[d] = "recorded"
  BY DEF StartVerify, IInv, TypeOK
<1>7. Onward(p)
  BY <1>2, <1>5, <1>6 DEF StartVerify, Onward, Others, Covered, Ids
<1>8. Target(run[p])'
  BY <1>2, <1>5 DEF Target, Careless, PlacesOf, Storing, Exists, StartVerify
<1>9. Verifying(run[p])'
  BY <1>2, <1>5 DEF Verifying, Exists, Covered, Ids, StartVerify
<1>10. Fits(p)'
  BY <1>5, <1>8, <1>9 DEF Fits
<1>11. account' = account
  BY DEF StartVerify
<1> QED
  BY <1>2, <1>5, <1>6, <1>7, <1>10, <1>11, MovesOn DEF StartVerify, Onward

-----------------------------------------------------------------------------
\* The active mark, through every change of the file.
LEMMA AppendKeepsOne ==
  ASSUME NEW file, OneActive(file), NEW t \in Entries, ~t.active, NEW new \in AppendServer(file, t)
  PROVE  OneActive(new)
<1> DEFINE e == [t EXCEPT !.active = (file = {})]
<1>1. new = file \cup {e}
  BY DEF AppendServer
<1>2. (e.active => file = {}) /\ (file = {} => e.active)
  BY DEF Entries
<1> HIDE DEF e
<1> QED
  BY <1>1, <1>2 DEF OneActive

LEMMA RemoveKeepsOne ==
  ASSUME NEW file, Sound(file), OneActive(file), NEW t, NEW new \in RemoveServer(file, t)
  PROVE  OneActive(new)
<1>1. CASE Meant(file, t) = {}
  BY <1>1 DEF RemoveServer
<1>2. CASE Meant(file, t) # {}
  <2>1. PICK e \in Meant(file, t) :
          new \in IF e.active THEN Inherited(file \ {e}) ELSE {file \ {e}}
    BY <1>2 DEF RemoveServer
  <2>2. PICK a \in file : a.active /\ \A f \in file : f.active => f = a
    BY <2>1 DEF Meant, OneActive
  <2>3. CASE ~e.active
    <3>1. new = file \ {e} /\ a # e
      BY <2>1, <2>2, <2>3
    <3> QED
      BY <2>2, <3>1 DEF OneActive
  <2>4. CASE e.active
    <3> DEFINE left == file \ {e}
    <3>1. new \in Inherited(left) /\ \A f \in left : ~f.active
      BY <2>1, <2>2, <2>4 DEF Meant
    <3>2. CASE new # {}
      <4>1. PICK h \in left : new = (left \ {h}) \cup {[h EXCEPT !.active = TRUE]}
        BY <3>1, <3>2 DEF Inherited
      <4>2. [h EXCEPT !.active = TRUE].active
        BY DEF Sound, Entries
      <4> QED
        BY <3>1, <4>1, <4>2 DEF OneActive
    <3> QED
      BY <3>2 DEF OneActive
  <2> QED
    BY <2>3, <2>4
<1> QED
  BY <1>1, <1>2

LEMMA ChangeKeepsOne ==
  ASSUME NEW file, Sound(file), OneActive(file), NEW t, NEW c, NEW new \in ChangeServer(file, c, t)
  PROVE  OneActive(new)
<1>1. PICK e \in Meant(file, t) : new = (file \ {e}) \cup {Patched(c, e)}
  BY DEF ChangeServer
<1>2. e \in file /\ e \in Entries
  BY DEF Meant, Sound
<1>3. (Patched(c, e).active => e.active) /\ (e.active => Patched(c, e).active)
  BY <1>2 DEF Patched, Entries
<1>4. PICK a \in file : a.active /\ \A f \in file : f.active => f = a
  BY <1>2 DEF OneActive
<1>5. CASE e = a
  BY <1>1, <1>3, <1>4, <1>5 DEF OneActive
<1>6. CASE e # a
  BY <1>1, <1>2, <1>3, <1>4, <1>6 DEF OneActive
<1> QED
  BY <1>5, <1>6

LEMMA UseKeepsOne ==
  ASSUME NEW file, Sound(file), NEW t, NEW new \in UseServer(file, t)
  PROVE  OneActive(new)
<1> DEFINE used(e) == [e EXCEPT !.active = (e.name = t.name)]
<1>1. new = {used(e) : e \in file}
  BY DEF UseServer
<1>2. PICK a \in file : a.name = t.name
  BY DEF UseServer
<1>3. ASSUME NEW e \in file
      PROVE  (used(e).active => e.name = t.name) /\ (e.name = t.name => used(e).active)
  BY DEF Sound, Entries
<1>4. \A e \in file : used(e).active => e = a
  BY <1>2, <1>3 DEF Sound, Unique
<1>5. used(a) \in new /\ used(a).active
  BY <1>1, <1>2, <1>3
<1> HIDE DEF used
<1>6. \A f \in new : f.active => f = used(a)
  BY <1>1, <1>4
<1> QED
  BY <1>5, <1>6 DEF OneActive

LEMMA FillKeepsOne ==
  ASSUME NEW file, Sound(file), OneActive(file), NEW s, NEW new \in FillAddresses(file, s)
  PROVE  OneActive(new)
<1> DEFINE filled(e) == IF e.id \in s /\ ~e.addr THEN [e EXCEPT !.addr = TRUE] ELSE e
<1>1. new = {filled(e) : e \in file}
  BY DEF FillAddresses
<1>2. ASSUME NEW e \in file
      PROVE  (filled(e).active => e.active) /\ (e.active => filled(e).active)
  BY DEF Sound, Entries
<1> HIDE DEF filled
<1>3. SUFFICES ASSUME file # {} PROVE OneActive(new)
  BY <1>1 DEF OneActive
<1>4. PICK a \in file : a.active /\ \A f \in file : f.active => f = a
  BY <1>3 DEF OneActive
<1>5. filled(a) \in new /\ filled(a).active
  BY <1>1, <1>2, <1>4
<1>6. \A f \in new : f.active => f = filled(a)
  BY <1>1, <1>2, <1>4
<1> QED
  BY <1>5, <1>6 DEF OneActive

LEMMA OutcomesKeepOne ==
  ASSUME NEW r, NEW file, Sound(file), OneActive(file),
         r.change = "append" => r.target \in Entries /\ ~r.target.active,
         NEW new \in Outcomes(r, file)
  PROVE  OneActive(new)
<1>1. CASE r.change = "append"
  BY <1>1, AppendKeepsOne DEF Outcomes
<1>2. CASE r.change = "remove"
  BY <1>2, RemoveKeepsOne DEF Outcomes
<1>3. CASE r.change = "use"
  BY <1>3, UseKeepsOne DEF Outcomes
<1>4. CASE r.change = "fill"
  BY <1>4, FillKeepsOne DEF Outcomes
<1>5. CASE r.change \notin {"append", "remove", "use", "fill"}
  BY <1>5, ChangeKeepsOne DEF Outcomes
<1> QED
  BY <1>1, <1>2, <1>3, <1>4, <1>5

\* Who is on the books tells which instances have an entry.
LEMMA IdsAreBooked ==
  ASSUME NEW file
  PROVE  \A d : d \in Ids(file) <=> d # None /\ \E b \in BooksOf(file) : b.id = d
<1>1. \A e : Book(e).id = e.id
  BY DEF Book
<1> QED
  BY <1>1 DEF Ids, BooksOf

\* What a write does to the instances that have an entry.
LEMMA WriteBooks ==
  ASSUME IInv, NEW p \in Procs, Write(p)
  PROVE  /\ Sound(store') /\ OneActive(store')
         /\ \/ BooksOf(store') = BooksOf(store)
            \/ run[p].change = "append" /\ BooksOf(store') = BooksOf(store) \cup {Book(run[p].target)}
            \/ run[p].change = "remove" /\ BooksOf(store') \subseteq BooksOf(store)
         /\ run[p].change = "append" =>
              BooksOf(store') = BooksOf(store) \cup {Book(run[p].target)}
         /\ run[p].change = "remove" =>
              /\ \A d \in Ids(store) \ Ids(store') : Careless(run[p]) \/ d = run[p].target.id
              /\ run[p].target.id # None => run[p].target.id \notin Ids(store')
<1> DEFINE t == run[p].target
<1>1. FileInv /\ Target(run[p]) /\ Sound(store) /\ OneActive(store)
  BY InvIsFileInv, TheFileIsSound DEF Fits, IInv
<1>2. store' \in Outcomes(run[p], store)
  BY <1>1 DEF Write, FileInv, Locked
<1>3. run[p].change = "append" => t \in Entries /\ ~t.active
  BY <1>1 DEF Target
<1>4. Sound(store') /\ OneActive(store')
  BY <1>1, <1>2, <1>3, OutcomesTurn, OutcomesKeepOne
<1>5. CASE run[p].change = "append"
  <2>1. store' \in AppendServer(store, t)
    BY <1>2, <1>5 DEF Outcomes
  <2> QED
    BY <1>1, <1>3, <1>4, <1>5, <2>1, AppendTurns
<1>6. CASE run[p].change = "remove"
  <2>1. store' \in RemoveServer(store, t)
    BY <1>2, <1>6 DEF Outcomes
  <2>2. CASE store' = store /\ Meant(store, t) = {}
    BY <1>4, <1>6, <2>2 DEF Meant, Ids
  <2>3. ASSUME NEW e \in Meant(store, t), BooksOf(store') = BooksOf(store) \ {Book(e)}
        PROVE  /\ \A d \in Ids(store) \ Ids(store') : Careless(run[p]) \/ d = t.id
               /\ t.id # None => t.id \notin Ids(store')
    <3>1. e \in store /\ (IF t.id # None THEN e.id = t.id ELSE e.name = t.name)
      BY DEF Meant
    <3>2. CASE t.id = None
      BY <1>6, <3>2 DEF Careless
    <3>3. CASE t.id # None
      <4>1. ASSUME NEW d \in Ids(store) \ Ids(store')
            PROVE  d = t.id
        <5>1. PICK b \in BooksOf(store) : b.id = d /\ d # None
          BY <4>1, IdsAreBooked
        <5>2. b \notin BooksOf(store')
          BY <4>1, <5>1, IdsAreBooked
        <5> QED
          BY <2>3, <3>1, <3>3, <5>1, <5>2 DEF Book
      <4>2. t.id \notin Ids(store')
        <5>1. SUFFICES ASSUME NEW b \in BooksOf(store'), b.id = t.id PROVE FALSE
          BY IdsAreBooked
        <5>2. PICK f \in store : b = Book(f) /\ b # Book(e)
          BY <2>3, <5>1 DEF BooksOf
        <5>3. f.id = e.id /\ f.id # None
          BY <3>1, <3>3, <5>1, <5>2 DEF Book
        <5> QED
          BY <1>1, <3>1, <5>2, <5>3 DEF Sound, Unique
      <4> QED
        BY <4>1, <4>2
    <3> QED
      BY <3>2, <3>3
  <2> QED
    BY <1>1, <1>4, <1>6, <2>1, <2>2, <2>3, RemoveTurns
<1>7. CASE run[p].change \notin {"append", "remove"}
  BY <1>1, <1>2, <1>4, <1>7, ChangesKeepBooks
<1> QED
  BY <1>5, <1>6, <1>7

LEMMA AppendIds ==
  ASSUME NEW file, NEW new, NEW t, BooksOf(new) = BooksOf(file) \cup {Book(t)}
  PROVE  \A d : d \in Ids(new) <=> d \in Ids(file) \/ (d = t.id /\ d # None)
<1>1. Book(t).id = t.id
  BY DEF Book
<1> QED
  BY <1>1, IdsAreBooked

\* The instances of the entries were created, seen on the books.
LEMMA DeployedIsBooked ==
  ASSUME NEW file
  PROVE  (\A e \in file : e.id # None => account[e.id] # "none")
         <=> (\A b \in BooksOf(file) : b.id # None => account[b.id] # "none")
<1>1. \A e : Book(e).id = e.id
  BY DEF Book
<1> QED
  BY <1>1 DEF BooksOf

\* The instance whose entry a write drops is gone, or nobody asked the provider about it.
LEMMA LeavesWhenGone ==
  ASSUME IInv, NEW p \in Procs, Write(p), NEW d \in Ids(store) \ Ids(store')
  PROVE  account[d] = "gone" \/ (lock = p /\ Careless(run[p]) /\ d \in dropped')
<1>1. Fits(p) /\ lock = p
  BY InvIsFileInv DEF Write, FileInv, Locked
<1>2. run[p].change = "remove"
  BY WriteBooks, IdsAreBooked
<1>3. Careless(run[p]) \/ d = run[p].target.id
  BY <1>2, WriteBooks
<1>4. Careless(run[p]) \/ account[d] = "gone"
  BY <1>1, <1>2, <1>3 DEF Fits, Target, Write, Storing
<1> QED
  BY <1>1, <1>4 DEF Write

\* Only its own deployment's instance gets an entry, and only in a careless removal does one
\* that is not gone lose its.
LEMMA WriteIsOnward ==
  ASSUME IInv, NEW p \in Procs, Write(p)
  PROVE  Others(p) /\ Onward(p)
<1>1. FileInv /\ Fits(p)
  BY InvIsFileInv
<1>2. Others(p)
  BY <1>1, AfterOver DEF Write
<1>3. ASSUME NEW d \in Deploys, d \in Ids(store'), d \notin Ids(store)
      PROVE  By(p, d)
  <2>1. run[p].change = "append" /\ BooksOf(store') = BooksOf(store) \cup {Book(run[p].target)}
    BY <1>3, WriteBooks, IdsAreBooked
  <2>2. d = run[p].target.id
    BY <1>3, <2>1, AppendIds
  <2>3. run[p].cmd = "deploy" /\ Deploying(run[p])
    BY <1>1, <1>3, <2>1, <2>2, NoneAssumption DEF Fits, Target
  <2> QED
    BY <2>1, <2>2, <2>3 DEF Deploying, By
<1>4. \A d \in Deploys \cap Ids(store) : d \notin Ids(store') => account[d] = "gone" \/ d \in dropped'
  BY LeavesWhenGone
<1>5. \A d \in dropped : d \in dropped'
  BY DEF Write
<1>6. ASSUME NEW d \in Deploys, Covered(d)
      PROVE  Covered(d)'
  BY <1>4, <1>5, <1>6 DEF Covered, Write
<1> QED
  BY <1>2, <1>3, <1>6 DEF Onward, Others, Write

\* What a deployment or a verification carries once its change is in the file.
LEMMA StoredFits ==
  ASSUME IInv, NEW p \in Procs, Write(p)
  PROVE  Fits(p)' /\ (run'[p].cmd = "deploy" => By(p, run'[p].deploy))
<1>1. FileInv /\ Fits(p) /\ Over(p, "stored") /\ UNCHANGED <<account, stage>>
  BY InvIsFileInv DEF Write
<1>2. Onward(p)
  BY WriteIsOnward
<1>3. CASE run[p].cmd \notin {"deploy", "verify"}
  BY <1>1, <1>3, AfterOver, AfterEnd
<1>4. CASE run[p].cmd \in {"deploy", "verify"}
  <2>1. Keeps(p) /\ run'[p].at = "stored" /\ run'[p].change = run[p].change
    BY <1>1, <1>4, AfterOver
  <2>2. Target(run[p])'
    BY <1>1, <1>4, <2>1 DEF Fits, Target, Careless, Exists, PlacesOf, Places, Storing, Keeps
  <2>3. ASSUME run[p].cmd = "deploy"
        PROVE  Deploying(run[p])'
    <3> DEFINE d == run[p].deploy
    <3>1. Deploying(run[p]) /\ d \in Deploys /\ d # None
      BY <1>1, <2>3, NoneAssumption DEF Fits, Deploying
    <3>2. run[p].change \in {"append", "remove"} => run[p].target.id = d
      BY <3>1 DEF Deploying
    <3>3. run[p].change = "append" => d \in Ids(store') /\ account[d] # "none"
      BY <1>1, <3>1, <3>2, WriteBooks, AppendIds DEF Fits, Target, Exists
    <3>4. run[p].change = "remove" => d \notin Ids(store')
      BY <3>1, <3>2, WriteBooks
    <3>5. \A e \in Deploys : Covered(e) => Covered(e)'
      BY <1>2 DEF Onward
    <3> QED
      BY <1>1, <2>1, <3>1, <3>2, <3>3, <3>4, <3>5 DEF Deploying, Exists, Covered, Keeps
  <2>4. ASSUME run[p].cmd = "verify"
        PROVE  Verifying(run[p])'
    BY <1>1, <1>2, <2>1, <2>4 DEF Onward, Fits, Verifying, Exists, Keeps
  <2> QED
    BY <2>1, <2>2, <2>3, <2>4 DEF Fits, Keeps, By
<1> QED
  BY <1>3, <1>4

LEMMA WriteHolds == ASSUME IInv, FileInv', NEW p \in Procs, Write(p) PROVE IInv'
<1>1. FileInv /\ Fits(p) /\ Others(p) /\ Onward(p) /\ UNCHANGED <<account, stage>>
  BY InvIsFileInv, WriteIsOnward DEF Write
<1>2. Fits(p)' /\ (run'[p].cmd = "deploy" => By(p, run'[p].deploy))
  BY StoredFits
<1>3. TypeOK' /\ Unique(store)' /\ Locked' /\ OneActive(store)'
  BY WriteBooks DEF FileInv
<1>4. InStep'
  BY <1>1, <1>2, OthersFit DEF InStep, Fits
<1>5. Alone'
  BY <1>1, <1>2 DEF Others, IInv, Alone, By
<1>6. BillIsOnRecord'
  BY <1>1 DEF IInv, BillIsOnRecord, Billing, Onward, Unsettled
<1>7. DestroyedIsOver' /\ Fresh'
  <2>1. ASSUME NEW d \in Deploys, stage[d] = "destroyed"
        PROVE  d \notin Ids(store')
    <3>1. d \notin Ids(store)
      BY <2>1 DEF IInv, DestroyedIsOver
    <3>2. ~By(p, d)
      BY <1>1, <2>1 DEF By, Fits, Deploying
    <3> QED
      BY <1>1, <3>1, <3>2 DEF Onward
  <2> QED
    BY <1>1, <2>1 DEF IInv, DestroyedIsOver, Fresh, Exists
<1>8. Deployed'
  <2>1. ASSUME NEW b \in BooksOf(store')
        PROVE  b.id # None => account[b.id] # "none"
    <3>1. CASE b \in BooksOf(store)
      BY <3>1, DeployedIsBooked DEF IInv, Deployed
    <3>2. CASE b \notin BooksOf(store)
      <4>1. run[p].change = "append" /\ b = Book(run[p].target)
        BY <2>1, <3>2, WriteBooks
      <4> QED
        BY <1>1, <4>1 DEF Fits, Target, Exists, Book
    <3> QED
      BY <3>1, <3>2
  <2>2. \A e \in store' : Book(e) \in BooksOf(store') /\ Book(e).id = e.id
    BY DEF BooksOf, Book
  <2> QED
    BY <1>1, <2>1, <2>2 DEF Deployed
<1> QED
  BY <1>3, <1>4, <1>5, <1>6, <1>7, <1>8 DEF IInv

-----------------------------------------------------------------------------

LEMMA StartHolds == ASSUME IInv, FileInv', NEW p \in Procs, Start(p) PROVE IInv'
BY StartDeployHolds, StartDestroyHolds, StartStopHolds, StartStartHolds, StartUseHolds,
   StartVerifyHolds, StartRepairHolds, StartImportHolds, StartAdoptHolds, StartFillHolds,
   StartReconcileHolds DEF Start

LEMMA FileStepHolds == ASSUME IInv, FileInv', NEW p \in Procs, FileStep(p) PROVE IInv'
BY LockHolds, LockFailsHolds, WriteHolds, WriteFailsHolds DEF FileStep

LEMMA DeployStepHolds == ASSUME IInv, FileInv', NEW p \in Procs, DeployStep(p) PROVE IInv'
BY CreateStartupScriptHolds, OrderHolds, CreateInstanceHolds, CreatedHolds, RecordedHolds,
   WaitForIPHolds, AddressedHolds, VerifyNodeHolds, VerifiedHolds, WorkIsOverHolds,
   CleanupInstanceHolds, CleanedUpHolds, InterruptHolds DEF DeployStep

LEMMA CommandStepHolds == ASSUME IInv, FileInv', NEW p \in Procs, CommandStep(p) PROVE IInv'
BY DeleteInstanceHolds, PowerInstanceHolds, PollInstanceHolds, ListInstancesHolds,
   DestroyRemoteHolds, KillHolds DEF CommandStep

LEMMA StutterHolds == ASSUME IInv, FileInv', UNCHANGED vars PROVE IInv'
BY DEF vars, IInv, FileInv, OneActive, BillIsOnRecord, Billing, Covered, Ids, DestroyedIsOver,
   Deployed, InStep, Target, Exists, Deploying, Verifying, Alone, Fresh

LEMMA InitIsKept == Init => IInv
<1> SUFFICES ASSUME Init PROVE IInv
  OBVIOUS
<1>1. FileInv
  BY InitHolds
<1>2. ASSUME NEW p \in Procs
      PROVE  Fits(p) /\ run[p].cmd = "none"
  <2>1. run[p] = Idle
    BY DEF Init
  <2>2. /\ Idle.cmd = "none" /\ Idle.at = "idle" /\ Idle.change = "use" /\ Idle.force = FALSE
        /\ Idle.target.id = None
    BY DEF Idle, NoEntry, Entry
  <2> QED
    BY <2>1, <2>2 DEF Fits, Target, Careless, PlacesOf
<1>3. InStep /\ Alone
  BY <1>2 DEF InStep, Alone, Fits
<1>4. OneActive(store) /\ BillIsOnRecord /\ DestroyedIsOver /\ Deployed /\ Fresh
  BY DEF Init, OneActive, BillIsOnRecord, Billing, DestroyedIsOver, Deployed, Fresh, Exists
<1> QED
  BY <1>1, <1>3, <1>4 DEF FileInv, IInv

LEMMA InvIsKept == IInv /\ [Next]_vars => IInv'
<1> SUFFICES ASSUME IInv, [Next]_vars PROVE IInv'
  OBVIOUS
<1>1. FileInv'
  BY InvIsFileInv, FileInvKept
<1> QED
  BY <1>1, StartHolds, FileStepHolds, DeployStepHolds, CommandStepHolds, StutterHolds DEF Next

(* For any number of processes and deployments: what a command carries     *)
(* from one of its steps to a later one stays in agreement with the file,  *)
(* the account and the receipts, whatever the others do in between; the    *)
(* file holds nothing twice and, unless empty, one active entry            *)
(* (cmd/server.go, server_store.go, deploy_vultr.go).                      *)
THEOREM ServersInvariant == Spec => []IInv
BY InitIsKept, InvIsKept, PTL DEF Spec

(* An instance that bills has its entry in servers.json, or a receipt that *)
(* says it may exist without one.  What escapes is what --force-local gave *)
(* up, and what a removal by name took when the name had become another    *)
(* server's (deploy_vultr.go:32-160, server.go:829-830).                   *)
THEOREM BillTheorem == Spec => []BillIsOnRecord
<1>1. IInv => BillIsOnRecord
  BY DEF IInv
<1> QED
  BY <1>1, ServersInvariant, PTL

(* A receipt that says "destroyed" stays right: its instance is gone and   *)
(* no entry names it again (deploy_record.go:121).                         *)
THEOREM DestroyedTheorem == Spec => []DestroyedIsOver
<1>1. IInv => DestroyedIsOver
  BY DEF IInv
<1> QED
  BY <1>1, ServersInvariant, PTL

(* The entry of an instance outlives its bill, for any number of commands  *)
(* racing: it leaves only when the instance is gone, or while a command    *)
(* that does not ask the provider holds the lock: --force-local, or a      *)
(* removal by the name of an entry without an instance (server.go:829-830, *)
(* server_store.go:126-139).                                               *)
THEOREM EntryTheorem == Spec => EntryOutlivesBill
<1>1. IInv /\ [Next]_vars =>
        [\A d \in Ids(store) \ Ids(store') :
           account[d] = "gone" \/ \E p \in Procs : lock = p /\ Careless(run[p])]_vars
  BY OnlyAWrite, LeavesWhenGone DEF Ids
<1> QED
  BY <1>1, ServersInvariant, PTL DEF Spec, EntryOutlivesBill
=============================================================================
