------------------------------ MODULE Registry ------------------------------
(***************************************************************************)
(* What servers.json promises to everybody who changes it: a list of       *)
(* servers that are on the books.  Servers come on the books one at a      *)
(* time, under a name and an instance nobody on the books has, and they    *)
(* leave one at a time.  No change undoes somebody else's, and nobody who  *)
(* left comes back through an old copy of the list.                        *)
(***************************************************************************)
CONSTANTS Name,     \* the names a server can have
          Instance, \* the instances of the account
          None      \* stands for "no instance": a node the account knows nothing of

VARIABLE books      \* the set of servers on the books

Servers == [name : Name, id : Instance \cup {None}]

(* Two servers are taken for one when they share a name or an instance. *)
SameServer(s, t) == s.name = t.name \/ (s.id # None /\ s.id = t.id)

Init == books = {}

Enter(s) ==
    /\ \A t \in books : ~SameServer(s, t)
    /\ books' = books \cup {s}

Leave(s) ==
    /\ s \in books
    /\ books' = books \ {s}

Next == \E s \in Servers : Enter(s) \/ Leave(s)

Spec == Init /\ [][Next]_books
=============================================================================
