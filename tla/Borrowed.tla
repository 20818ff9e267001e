------------------------------- MODULE Borrowed -------------------------------
(***************************************************************************)
(* What mole promises about a host setting it takes over (utils/dns.go): a *)
(* setting is lent only while the owner's value is on record, and comes    *)
(* off the record only once it has been given back.                        *)
(***************************************************************************)
CONSTANTS
  Items,   \* the settings, one per network service
  Values,  \* what an owner may choose
  Lent,    \* the value of a setting that is taken over
  Missing  \* nothing is on record

VARIABLES
  setting, \* what the host uses
  own,     \* what its owner chose
  kept     \* what is on record

Init ==
  /\ own \in [Items -> Values]
  /\ setting = own
  /\ kept = [i \in Items |-> Missing]

\* The owner changes a setting that nobody has borrowed.
Choose(i, v) ==
  /\ kept[i] = Missing
  /\ own' = [own EXCEPT ![i] = v]
  /\ setting' = [setting EXCEPT ![i] = v]
  /\ UNCHANGED kept

\* Settings that are about to be borrowed go on record as their owner left them.
Note ==
  /\ kept' \in [Items -> Values \cup {Missing}]
  /\ \A i \in Items : kept'[i] \in {kept[i], own[i]}
  /\ \A i \in Items : kept[i] # Missing => kept'[i] = kept[i]
  /\ UNCHANGED <<setting, own>>

\* Some settings on record are taken over, or given back.
Move ==
  /\ setting' \in [Items -> Values \cup {Lent}]
  /\ \A i \in Items : setting'[i] # setting[i] => kept[i] # Missing /\ setting'[i] \in {Lent, kept[i]}
  /\ UNCHANGED <<own, kept>>

\* Settings that were given back come off the record.
Forget ==
  /\ kept' \in [Items -> Values \cup {Missing}]
  /\ \A i \in Items : kept'[i] # kept[i] => kept'[i] = Missing /\ setting[i] = own[i]
  /\ UNCHANGED <<setting, own>>

Next == (\E i \in Items, v \in Values : Choose(i, v)) \/ Note \/ Move \/ Forget

Spec == Init /\ [][Next]_<<setting, own, kept>>

\* Whatever happens, the owner's value is in use or on record.
Recoverable == \A i \in Items : setting[i] = own[i] \/ kept[i] = own[i]

=============================================================================
