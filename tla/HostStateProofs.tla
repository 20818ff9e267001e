--------------------------- MODULE HostStateProofs ---------------------------
(***************************************************************************)
(* Proofs about HostState, for every set of network services, resolvers    *)
(* and failing operations: its inductive invariant, that a `mole down`     *)
(* that reports success has given the DNS back, and that the take-over and *)
(* the restore of DNS implement the abstract Borrowed.                     *)
(***************************************************************************)
EXTENDS HostState, TLAPS

LEMMA InitIInv == Init => IInv
<1> SUFFICES ASSUME Init PROVE IInv
  OBVIOUS
<1> USE SettingsAssumption
<1>1. TypeOK
  BY DEF Init, TypeOK, Nothing, AtRest, Procs, FlagsOK, PlacesOK, DaemonPlaces, DownPlaces, Undo, Resolvers, Backups
<1>2. Recorded
  BY DEF Init, Recorded, Nothing
<1>3. InStep /\ Alone
  BY DEF Init, InStep, Alone, AtRest, Procs, Undo
<1> QED BY <1>1, <1>2, <1>3 DEF IInv

LEMMA StepIInv == IInv /\ [Next]_vars => IInv'
<1> SUFFICES ASSUME IInv, [Next]_vars PROVE IInv'
  OBVIOUS
<1> USE SettingsAssumption
<1>t. TypeOK /\ Recorded /\ InStep /\ Alone
  BY DEF IInv
<1> USE DEF Goto, Procs, Undo, Fails, borrowed, tuning, filter, life, work, answer
<1>1. CASE Up
  <2>1. TypeOK'
    <3>1. PlacesOK'
      BY <1>t, <1>1 DEF Up, TypeOK, PlacesOK, DaemonPlaces, DownPlaces
    <3>2. FlagsOK'
      BY <1>t, <1>1, Zenon DEF Up, TypeOK, FlagsOK
    <3> QED BY <1>t, <1>1, <3>1, <3>2 DEF Up, TypeOK, Resolvers, Backups
  <2>2. Recorded'
    BY <1>t, <1>1 DEF Up, TypeOK, Recorded, InStep, Backups
  <2>3. InStep'
    BY <1>t, <1>1 DEF Up, TypeOK, Recorded, InStep, Alone, PlacesOK, DaemonPlaces, DownPlaces, Backups
  <2>4. Alone'
    BY <1>t, <1>1 DEF Up, TypeOK, Recorded, InStep, Alone, PlacesOK, DaemonPlaces, DownPlaces
  <2> QED BY <2>1, <2>2, <2>3, <2>4 DEF IInv
<1>2. CASE Boot
  BY <1>t, <1>2 DEF Boot, IInv, TypeOK, FlagsOK, Recorded, InStep, Alone, PlacesOK, DaemonPlaces, DownPlaces, Resolvers, Backups
<1>3. CASE ReadForTakeOver
  BY <1>t, <1>3 DEF ReadForTakeOver, Strip, IInv, TypeOK, FlagsOK, Recorded, InStep, Alone, PlacesOK, DaemonPlaces, DownPlaces, Resolvers, Backups
<1>4. CASE SaveBackup
  <2>1. TypeOK'
    <3>1. PlacesOK'
      BY <1>t, <1>4 DEF SaveBackup, TypeOK, PlacesOK, DaemonPlaces, DownPlaces
    <3>2. FlagsOK'
      BY <1>t, <1>4, Zenon DEF SaveBackup, TypeOK, FlagsOK
    <3> QED BY <1>t, <1>4, <3>1, <3>2 DEF SaveBackup, TypeOK, Resolvers, Backups
  <2>2. Recorded'
    BY <1>t, <1>4 DEF SaveBackup, TypeOK, Recorded, InStep, Backups
  <2>3. InStep'
    BY <1>t, <1>4 DEF SaveBackup, TypeOK, Recorded, InStep, Alone, PlacesOK, DaemonPlaces, DownPlaces, Backups
  <2>4. Alone'
    BY <1>t, <1>4 DEF SaveBackup, TypeOK, Recorded, InStep, Alone, PlacesOK, DaemonPlaces, DownPlaces
  <2> QED BY <2>1, <2>2, <2>3, <2>4 DEF IInv
<1>5. CASE Point
  BY <1>t, <1>5 DEF Point, Reached, IInv, TypeOK, FlagsOK, Recorded, InStep, Alone, PlacesOK, DaemonPlaces, DownPlaces, Resolvers, Backups
<1>6. CASE BackUpKnob
  BY <1>t, <1>6 DEF BackUpKnob, IInv, TypeOK, FlagsOK, Recorded, InStep, Alone, PlacesOK, DaemonPlaces, DownPlaces, Resolvers, Backups
<1>7. CASE TuneKnob
  BY <1>t, <1>7 DEF TuneKnob, IInv, TypeOK, FlagsOK, Recorded, InStep, Alone, PlacesOK, DaemonPlaces, DownPlaces, Resolvers, Backups
<1>8. CASE LoadAnchor
  <2>1. TypeOK'
    <3>1. PlacesOK'
      BY <1>t, <1>8 DEF LoadAnchor, TypeOK, PlacesOK, DaemonPlaces, DownPlaces
    <3>2. FlagsOK'
      BY <1>t, <1>8, Zenon DEF LoadAnchor, TypeOK, FlagsOK
    <3> QED BY <1>t, <1>8, <3>1, <3>2 DEF LoadAnchor, TypeOK, Resolvers, Backups
  <2>2. Recorded'
    BY <1>t, <1>8 DEF LoadAnchor, TypeOK, Recorded, InStep, Backups
  <2>3. InStep'
    BY <1>t, <1>8 DEF LoadAnchor, TypeOK, Recorded, InStep, Alone, PlacesOK, DaemonPlaces, DownPlaces, Backups
  <2>4. Alone'
    BY <1>t, <1>8 DEF LoadAnchor, TypeOK, Recorded, InStep, Alone, PlacesOK, DaemonPlaces, DownPlaces
  <2> QED BY <2>1, <2>2, <2>3, <2>4 DEF IInv
<1>9. CASE EnableFilter
  BY <1>t, <1>9 DEF EnableFilter, IInv, TypeOK, FlagsOK, Recorded, InStep, Alone, PlacesOK, DaemonPlaces, DownPlaces, Resolvers, Backups
<1>10. CASE WriteToken
  <2>1. TypeOK'
    <3>1. PlacesOK'
      BY <1>t, <1>10 DEF WriteToken, TypeOK, PlacesOK, DaemonPlaces, DownPlaces
    <3>2. FlagsOK'
      BY <1>t, <1>10, Zenon DEF WriteToken, TypeOK, FlagsOK
    <3> QED BY <1>t, <1>10, <3>1, <3>2 DEF WriteToken, TypeOK, Resolvers, Backups
  <2>2. Recorded'
    BY <1>t, <1>10 DEF WriteToken, TypeOK, Recorded, InStep, Backups
  <2>3. InStep'
    BY <1>t, <1>10 DEF WriteToken, TypeOK, Recorded, InStep, Alone, PlacesOK, DaemonPlaces, DownPlaces, Backups
  <2>4. Alone'
    BY <1>t, <1>10 DEF WriteToken, TypeOK, Recorded, InStep, Alone, PlacesOK, DaemonPlaces, DownPlaces
  <2> QED BY <2>1, <2>2, <2>3, <2>4 DEF IInv
<1>11. CASE StartBox
  <2>1. TypeOK'
    <3>1. PlacesOK'
      BY <1>t, <1>11 DEF StartBox, CleanUp, TypeOK, PlacesOK, DaemonPlaces, DownPlaces
    <3>2. FlagsOK'
      BY <1>t, <1>11, Zenon DEF StartBox, CleanUp, TypeOK, FlagsOK
    <3> QED BY <1>t, <1>11, <3>1, <3>2 DEF StartBox, CleanUp, TypeOK, Resolvers, Backups
  <2>2. Recorded'
    BY <1>t, <1>11 DEF StartBox, CleanUp, TypeOK, Recorded, InStep, Backups
  <2>3. InStep'
    BY <1>t, <1>11 DEF StartBox, CleanUp, TypeOK, Recorded, InStep, Alone, PlacesOK, DaemonPlaces, DownPlaces, Backups
  <2>4. Alone'
    BY <1>t, <1>11 DEF StartBox, CleanUp, TypeOK, Recorded, InStep, Alone, PlacesOK, DaemonPlaces, DownPlaces
  <2> QED BY <2>1, <2>2, <2>3, <2>4 DEF IInv
<1>12. CASE BoxFlaps
  BY <1>t, <1>12 DEF BoxFlaps, IInv, TypeOK, FlagsOK, Recorded, InStep, Alone, PlacesOK, DaemonPlaces, DownPlaces, Resolvers, Backups
<1>13. CASE Exit
  <2>1. TypeOK'
    <3>1. PlacesOK'
      BY <1>t, <1>13 DEF Exit, CleanUp, TypeOK, PlacesOK, DaemonPlaces, DownPlaces
    <3>2. FlagsOK'
      BY <1>t, <1>13, Zenon DEF Exit, CleanUp, TypeOK, FlagsOK
    <3> QED BY <1>t, <1>13, <3>1, <3>2 DEF Exit, CleanUp, TypeOK, Resolvers, Backups
  <2>2. Recorded'
    BY <1>t, <1>13 DEF Exit, CleanUp, TypeOK, Recorded, InStep, Backups
  <2>3. InStep'
    BY <1>t, <1>13 DEF Exit, CleanUp, TypeOK, Recorded, InStep, Alone, PlacesOK, DaemonPlaces, DownPlaces, Backups
  <2>4. Alone'
    BY <1>t, <1>13 DEF Exit, CleanUp, TypeOK, Recorded, InStep, Alone, PlacesOK, DaemonPlaces, DownPlaces
  <2> QED BY <2>1, <2>2, <2>3, <2>4 DEF IInv
<1>14. CASE Bye
  <2>1. TypeOK'
    <3>1. PlacesOK'
      BY <1>t, <1>14 DEF Bye, TypeOK, PlacesOK, DaemonPlaces, DownPlaces
    <3>2. FlagsOK'
      BY <1>t, <1>14, Zenon DEF Bye, TypeOK, FlagsOK
    <3> QED BY <1>t, <1>14, <3>1, <3>2 DEF Bye, TypeOK, Resolvers, Backups
  <2>2. Recorded'
    BY <1>t, <1>14 DEF Bye, TypeOK, Recorded, InStep, Backups
  <2>3. InStep'
    BY <1>t, <1>14 DEF Bye, TypeOK, Recorded, InStep, Alone, PlacesOK, DaemonPlaces, DownPlaces, Backups
  <2>4. Alone'
    BY <1>t, <1>14 DEF Bye, TypeOK, Recorded, InStep, Alone, PlacesOK, DaemonPlaces, DownPlaces
  <2> QED BY <2>1, <2>2, <2>3, <2>4 DEF IInv
<1>15. CASE Down
  <2>1. TypeOK'
    <3>1. PlacesOK'
      BY <1>t, <1>15 DEF Down, TypeOK, PlacesOK, DaemonPlaces, DownPlaces
    <3>2. FlagsOK'
      BY <1>t, <1>15, Zenon DEF Down, TypeOK, FlagsOK
    <3> QED BY <1>t, <1>15, <3>1, <3>2 DEF Down, TypeOK, Resolvers, Backups
  <2>2. Recorded'
    BY <1>t, <1>15 DEF Down, TypeOK, Recorded, InStep, Backups
  <2>3. InStep'
    BY <1>t, <1>15 DEF Down, TypeOK, Recorded, InStep, Alone, PlacesOK, DaemonPlaces, DownPlaces, Backups
  <2>4. Alone'
    BY <1>t, <1>15 DEF Down, TypeOK, Recorded, InStep, Alone, PlacesOK, DaemonPlaces, DownPlaces
  <2> QED BY <2>1, <2>2, <2>3, <2>4 DEF IInv
<1>16. CASE Tidy
  BY <1>t, <1>16 DEF Tidy, IInv, TypeOK, FlagsOK, Recorded, InStep, Alone, PlacesOK, DaemonPlaces, DownPlaces, Resolvers, Backups
<1>17. CASE Term
  <2>a. PICK next \in Interrupted(pc["daemon"]) :
          /\ pc' = [pc EXCEPT !["down"] = "wait", !["daemon"] = next]
          /\ armed' = (armed /\ next # "off")
          /\ IF next = "off" THEN copy' = Nothing /\ todo' = {} ELSE UNCHANGED work
    BY <1>17 DEF Term
  <2>b. next \in {"unload", "untune", "off"} \/ next = pc["daemon"]
    BY DEF Interrupted, CleanUp
  <2>1. TypeOK'
    <3>1. PlacesOK'
      BY <1>t, <1>17, <2>a, <2>b DEF TypeOK, PlacesOK, DaemonPlaces, DownPlaces, Undo
    <3>2. FlagsOK'
      <4>1. box' \in BOOLEAN /\ armed' \in BOOLEAN /\ root' \in BOOLEAN
        BY <1>t, <1>17, <2>a, Zenon DEF Term, TypeOK, FlagsOK
      <4> QED BY <1>t, <1>17, <4>1, Zenon DEF Term, borrowed, TypeOK, FlagsOK
    <3>3. copy' \in Backups /\ todo' \subseteq Services
      BY <1>t, <2>a DEF TypeOK, Nothing, Backups, work
    <3> QED BY <1>t, <1>17, <3>1, <3>2, <3>3 DEF Term, borrowed, tuning, TypeOK, Resolvers
  <2>2. Recorded'
    BY <1>t, <1>17 DEF Term, borrowed, Recorded
  <2>3. InStep'
    BY <1>t, <1>17, <2>a, <2>b DEF Term, borrowed, work, TypeOK, InStep, Alone, PlacesOK, DaemonPlaces, DownPlaces, Backups
  <2>4. Alone'
    BY <1>t, <1>17, <2>a, <2>b DEF Term, TypeOK, Alone, PlacesOK, DaemonPlaces, DownPlaces
  <2> QED BY <2>1, <2>2, <2>3, <2>4 DEF IInv
<1>18. CASE Sweep
  <2>1. TypeOK'
    <3>1. PlacesOK'
      BY <1>t, <1>18 DEF Sweep, Nothing, TypeOK, PlacesOK, DaemonPlaces, DownPlaces
    <3>2. FlagsOK'
      BY <1>t, <1>18, Zenon DEF Sweep, Nothing, TypeOK, FlagsOK
    <3> QED BY <1>t, <1>18, <3>1, <3>2 DEF Sweep, Nothing, TypeOK, Resolvers, Backups
  <2>2. Recorded'
    BY <1>t, <1>18 DEF Sweep, Nothing, TypeOK, Recorded, InStep, Backups
  <2>3. InStep'
    BY <1>t, <1>18 DEF Sweep, Nothing, TypeOK, Recorded, InStep, Alone, PlacesOK, DaemonPlaces, DownPlaces, Backups
  <2>4. Alone'
    BY <1>t, <1>18 DEF Sweep, Nothing, TypeOK, Recorded, InStep, Alone, PlacesOK, DaemonPlaces, DownPlaces
  <2> QED BY <2>1, <2>2, <2>3, <2>4 DEF IInv
<1>19. CASE Verify
  BY <1>t, <1>19 DEF Verify, IInv, TypeOK, FlagsOK, Recorded, InStep, Alone, PlacesOK, DaemonPlaces, DownPlaces, Resolvers, Backups
<1>20. CASE Kill
  <2>1. TypeOK'
    <3>1. PlacesOK'
      BY <1>t, <1>20 DEF Kill, Nothing, TypeOK, PlacesOK, DaemonPlaces, DownPlaces
    <3>2. FlagsOK'
      BY <1>t, <1>20, Zenon DEF Kill, Nothing, TypeOK, FlagsOK
    <3> QED BY <1>t, <1>20, <3>1, <3>2 DEF Kill, Nothing, TypeOK, Resolvers, Backups
  <2>2. Recorded'
    BY <1>t, <1>20 DEF Kill, Nothing, TypeOK, Recorded, InStep, Backups
  <2>3. InStep'
    BY <1>t, <1>20 DEF Kill, Nothing, TypeOK, Recorded, InStep, Alone, PlacesOK, DaemonPlaces, DownPlaces, Backups
  <2>4. Alone'
    BY <1>t, <1>20 DEF Kill, Nothing, TypeOK, Recorded, InStep, Alone, PlacesOK, DaemonPlaces, DownPlaces
  <2> QED BY <2>1, <2>2, <2>3, <2>4 DEF IInv
<1>21. CASE CutShort
  <2>1. TypeOK'
    <3>1. PlacesOK'
      BY <1>t, <1>21 DEF CutShort, Nothing, TypeOK, PlacesOK, DaemonPlaces, DownPlaces
    <3>2. FlagsOK'
      BY <1>t, <1>21, Zenon DEF CutShort, Nothing, TypeOK, FlagsOK
    <3> QED BY <1>t, <1>21, <3>1, <3>2 DEF CutShort, Nothing, TypeOK, Resolvers, Backups
  <2>2. Recorded'
    BY <1>t, <1>21 DEF CutShort, Nothing, TypeOK, Recorded, InStep, Backups
  <2>3. InStep'
    BY <1>t, <1>21 DEF CutShort, Nothing, TypeOK, Recorded, InStep, Alone, PlacesOK, DaemonPlaces, DownPlaces, Backups
  <2>4. Alone'
    BY <1>t, <1>21 DEF CutShort, Nothing, TypeOK, Recorded, InStep, Alone, PlacesOK, DaemonPlaces, DownPlaces
  <2> QED BY <2>1, <2>2, <2>3, <2>4 DEF IInv
<1>22. CASE Reboot
  BY <1>t, <1>22 DEF Reboot, AtRest, Nothing, IInv, TypeOK, FlagsOK, Recorded, InStep, Alone, PlacesOK, DaemonPlaces, DownPlaces, Resolvers, Backups
<1>23. ASSUME NEW p \in Procs, Unload(p) PROVE IInv'
  <2>1. TypeOK'
    <3>1. PlacesOK'
      BY <1>t, <1>23 DEF Unload, After, TypeOK, PlacesOK, DaemonPlaces, DownPlaces
    <3>2. FlagsOK'
      BY <1>t, <1>23, Zenon DEF Unload, After, TypeOK, FlagsOK
    <3> QED BY <1>t, <1>23, <3>1, <3>2 DEF Unload, After, TypeOK, Resolvers, Backups
  <2>2. Recorded'
    BY <1>t, <1>23 DEF Unload, After, TypeOK, Recorded, InStep, Backups
  <2>3. InStep'
    BY <1>t, <1>23 DEF Unload, After, TypeOK, Recorded, InStep, Alone, PlacesOK, DaemonPlaces, DownPlaces, Backups
  <2>4. Alone'
    BY <1>t, <1>23 DEF Unload, After, TypeOK, Recorded, InStep, Alone, PlacesOK, DaemonPlaces, DownPlaces
  <2> QED BY <2>1, <2>2, <2>3, <2>4 DEF IInv
<1>24. ASSUME NEW p \in Procs, Untune(p) PROVE IInv'
  BY <1>t, <1>24 DEF Untune, After, IInv, TypeOK, FlagsOK, Recorded, InStep, Alone, PlacesOK, DaemonPlaces, DownPlaces, Resolvers, Backups
<1>25. ASSUME NEW p \in Procs, ReadForRestore(p) PROVE IInv'
  <2>1. TypeOK'
    <3>1. PlacesOK'
      BY <1>t, <1>25 DEF ReadForRestore, After, Strip, TypeOK, PlacesOK, DaemonPlaces, DownPlaces
    <3>2. FlagsOK'
      BY <1>t, <1>25, Zenon DEF ReadForRestore, After, Strip, TypeOK, FlagsOK
    <3> QED BY <1>t, <1>25, <3>1, <3>2 DEF ReadForRestore, After, Strip, TypeOK, Resolvers, Backups
  <2>2. Recorded'
    BY <1>t, <1>25 DEF ReadForRestore, After, Strip, TypeOK, Recorded, InStep, Backups
  <2>3. InStep'
    <3>1. \A q \in Procs : q # p => pc'[q] = pc[q] /\ pc[q] \notin {"save", "point", "give", "settle"}
      BY <1>t, <1>25 DEF ReadForRestore, TypeOK, PlacesOK, Alone, DaemonPlaces, DownPlaces
    <3>2. pc'[p] \notin {"save", "point", "settle"}
      BY <1>t, <1>25 DEF ReadForRestore, After, TypeOK, PlacesOK
    <3>3. pc'[p] = "give" => \A s \in Services : IF s \in todo' THEN saved'[s] # Missing /\ copy'[s] = saved'[s]
                                                                ELSE saved'[s] = Missing
      <4>1. CASE file
        BY <1>t, <1>25, <4>1 DEF ReadForRestore, After, TypeOK, PlacesOK
      <4>2. CASE ~file
        <5>1. \A s \in Services : saved[s] = Missing /\ dns[s] # Tun
          BY <1>t, <4>2 DEF Recorded, Nothing, TypeOK
        <5> QED BY <1>t, <1>25, <4>2, <5>1 DEF ReadForRestore, After, TypeOK, PlacesOK
      <4> QED BY <4>1, <4>2
    <3> QED BY <3>1, <3>2, <3>3 DEF InStep
  <2>4. Alone'
    BY <1>t, <1>25 DEF ReadForRestore, After, Strip, TypeOK, Recorded, InStep, Alone, PlacesOK, DaemonPlaces, DownPlaces
  <2> QED BY <2>1, <2>2, <2>3, <2>4 DEF IInv
<1>26. ASSUME NEW p \in Procs, GiveBack(p) PROVE IInv'
  BY <1>t, <1>26 DEF GiveBack, Reached, IInv, TypeOK, FlagsOK, Recorded, InStep, Alone, PlacesOK, DaemonPlaces, DownPlaces, Resolvers, Backups
<1>27. ASSUME NEW p \in Procs, Settle(p) PROVE IInv'
  <2>1. TypeOK'
    <3>1. PlacesOK'
      BY <1>t, <1>27 DEF Settle, After, Nothing, TypeOK, PlacesOK, DaemonPlaces, DownPlaces
    <3>2. FlagsOK'
      BY <1>t, <1>27, Zenon DEF Settle, After, Nothing, TypeOK, FlagsOK
    <3> QED BY <1>t, <1>27, <3>1, <3>2 DEF Settle, After, Nothing, TypeOK, Resolvers, Backups
  <2>2. Recorded'
    <3>1. CASE UNCHANGED <<file, saved>>
      BY <1>t, <1>27, <3>1 DEF Settle, Recorded
    <3>2. CASE saved' = [s \in Services |-> IF s \in todo THEN saved[s] ELSE Missing] /\ file' = (file /\ todo # {})
      <4>1. ~file' => saved' = Nothing
        BY <1>t, <3>2 DEF Recorded, Nothing, TypeOK, FlagsOK, Backups
      <4>2. \A s \in Services : s \notin todo => saved[s] = Missing \/ dns[s] = own[s]
        BY <1>t, <1>27 DEF Settle, InStep
      <4> QED BY <1>t, <1>27, <3>2, <4>1, <4>2 DEF Settle, Recorded
    <3> QED BY <1>27, <3>1, <3>2 DEF Settle
  <2>3. InStep'
    BY <1>t, <1>27 DEF Settle, After, Nothing, TypeOK, Recorded, InStep, Alone, PlacesOK, DaemonPlaces, DownPlaces, Backups
  <2>4. Alone'
    BY <1>t, <1>27 DEF Settle, After, Nothing, TypeOK, Recorded, InStep, Alone, PlacesOK, DaemonPlaces, DownPlaces
  <2> QED BY <2>1, <2>2, <2>3, <2>4 DEF IInv
<1>28. ASSUME NEW s \in Services, Plug(s) PROVE IInv'
  BY <1>t, <1>28 DEF Plug, IInv, TypeOK, FlagsOK, Recorded, InStep, Alone, PlacesOK, DaemonPlaces, DownPlaces, Resolvers, Backups
<1>29. ASSUME NEW s \in Services, Unplug(s) PROVE IInv'
  BY <1>t, <1>29 DEF Unplug, IInv, TypeOK, FlagsOK, Recorded, InStep, Alone, PlacesOK, DaemonPlaces, DownPlaces, Resolvers, Backups
<1>30. ASSUME NEW s \in Services, NEW v \in Settings, Choose(s, v) PROVE IInv'
  BY <1>t, <1>30 DEF Choose, IInv, TypeOK, FlagsOK, Recorded, InStep, Alone, PlacesOK, DaemonPlaces, DownPlaces, Resolvers, Backups
<1>u. CASE UNCHANGED vars
  BY <1>t, <1>u DEF vars, IInv, TypeOK, PlacesOK, FlagsOK, Recorded, InStep, Alone
<1> QED
  BY <1>u, <1>1, <1>2, <1>3, <1>4, <1>5, <1>6, <1>7, <1>8, <1>9, <1>10, <1>11, <1>12, <1>13, <1>14, <1>15, <1>16, <1>17, <1>18, <1>19, <1>20, <1>21, <1>22, <1>23, <1>24, <1>25, <1>26, <1>27, <1>28, <1>29, <1>30 DEF Next, Daemon, DownStep, Restore

\* The invariant that ties the DNS of the host to its backup and to the two processes in
\* their transactions (takeOver, restore, runDaemon, runDown) holds in every state.
THEOREM HostInvariant == Spec => []IInv
BY InitIInv, StepIInv, PTL DEF Spec

\* A `mole down` that says "VPN stopped" has given every service its owner's resolver and
\* left no pid file, daemon, sing-box or DNS backup (runDown).
THEOREM CleanStop == Spec => []StoppedIsClean
<1>1. IInv => StoppedIsClean
  BY SettingsAssumption DEF IInv, TypeOK, Recorded, Alone, StoppedIsClean, Nothing
<1> QED BY <1>1, HostInvariant, PTL

\* However it fails or is killed, the owner's resolver of every service is in use or in the
\* backup (takeOver, restore).
THEOREM OwnersValueSurvives == Spec => []Lending!Recoverable
<1>1. IInv => Lending!Recoverable
  BY DEF IInv, Recorded, Lending!Recoverable
<1> QED BY <1>1, HostInvariant, PTL

----------------------------------------------------------------------------
(* The take-over and the restore implement Borrowed.                       *)

LEMMA SaveNotes == ASSUME IInv, SaveBackup PROVE [Lending!Next]_<<dns, own, saved>>
<1>1. CASE UNCHANGED saved
  BY <1>1 DEF SaveBackup
<1>2. CASE saved' = copy
  <2>1. \A s \in Services : copy[s] \in {Missing, own[s]} /\ (saved[s] # Missing => copy[s] = own[s])
    BY DEF IInv, InStep, SaveBackup
  <2>2. \A s \in Services : saved[s] \in {Missing, own[s]}
    BY DEF IInv, Recorded
  <2>3. saved' \in [Services -> Settings \cup {Missing}]
    BY <1>2 DEF IInv, TypeOK, Backups
  <2>4. Lending!Note
    <3>1. \A s \in Services : saved'[s] \in {saved[s], own[s]}
      BY <1>2, <2>1, <2>2
    <3>2. \A s \in Services : saved[s] # Missing => saved'[s] = saved[s]
      BY <1>2, <2>1, <2>2
    <3> QED BY <2>3, <3>1, <3>2 DEF SaveBackup, Lending!Note
  <2> QED BY <2>4 DEF Lending!Next
<1> QED BY <1>1, <1>2 DEF SaveBackup

LEMMA PointMoves == ASSUME IInv, IInv', Point PROVE Lending!Next
<1>1. \A s \in Services : dns'[s] # dns[s] => saved[s] # Missing /\ dns'[s] = Tun
  BY DEF IInv, InStep, TypeOK, Point, Reached
<1>2. dns' \in [Services -> Settings \cup {Tun}]
  BY DEF IInv, TypeOK, Resolvers
<1>3. Lending!Move
  BY <1>1, <1>2 DEF Point, Lending!Move
<1> QED BY <1>3 DEF Lending!Next

LEMMA GiveBackMoves == ASSUME IInv, IInv', NEW p \in Procs, GiveBack(p) PROVE Lending!Next
<1>1. \A s \in Services : s \in todo => saved[s] # Missing /\ copy[s] = saved[s]
  BY DEF IInv, InStep, GiveBack
<1>2. \A s \in Services : dns'[s] # dns[s] => saved[s] # Missing /\ dns'[s] = saved[s]
  BY <1>1 DEF IInv, TypeOK, GiveBack, Reached
<1>3. dns' \in [Services -> Settings \cup {Tun}]
  BY DEF IInv, TypeOK, Resolvers
<1>4. Lending!Move
  BY <1>2, <1>3 DEF GiveBack, Lending!Move
<1> QED BY <1>4 DEF Lending!Next

LEMMA SettleForgets ==
  ASSUME IInv, IInv', NEW p \in Procs, Settle(p) PROVE [Lending!Next]_<<dns, own, saved>>
<1>1. CASE UNCHANGED saved
  BY <1>1 DEF Settle
<1>2. CASE saved' = [s \in Services |-> IF s \in todo THEN saved[s] ELSE Missing]
  <2>1. \A s \in Services : s \notin todo => saved[s] = Missing \/ dns[s] = own[s]
    BY DEF IInv, InStep, Settle
  <2>2. \A s \in Services : saved'[s] # saved[s] => saved'[s] = Missing /\ dns[s] = own[s]
    BY <1>2, <2>1
  <2>3. saved' \in [Services -> Settings \cup {Missing}]
    BY DEF IInv, TypeOK, Backups
  <2>4. Lending!Forget
    BY <2>2, <2>3 DEF Settle, Lending!Forget
  <2> QED BY <2>4 DEF Lending!Next
<1> QED BY <1>1, <1>2 DEF Settle

\* Every other step leaves the DNS, what its owners chose and the backup alone.
LEMMA StepLends == IInv /\ IInv' /\ [Next]_vars => [Lending!Next]_<<dns, own, saved>>
<1> SUFFICES ASSUME IInv, IInv', [Next]_vars PROVE [Lending!Next]_<<dns, own, saved>>
  OBVIOUS
<1> DEFINE Idle == UNCHANGED <<dns, own, saved>>
<1>1. ASSUME NEW s \in Services, NEW v \in Settings, Choose(s, v) PROVE Lending!Next
  BY <1>1 DEF Choose, Lending!Choose, Lending!Next
<1>2. Up \/ Boot \/ ReadForTakeOver \/ BackUpKnob \/ TuneKnob \/ LoadAnchor => Idle
  BY DEF Up, Boot, ReadForTakeOver, BackUpKnob, TuneKnob, LoadAnchor, borrowed
<1>3. EnableFilter \/ WriteToken \/ StartBox \/ BoxFlaps \/ Exit \/ Bye => Idle
  BY DEF EnableFilter, WriteToken, StartBox, BoxFlaps, Exit, Bye, borrowed
<1>4. Down \/ Tidy \/ Term \/ Sweep \/ Verify \/ Kill \/ CutShort \/ Reboot => Idle
  BY DEF Down, Tidy, Term, Sweep, Verify, Kill, CutShort, Reboot, borrowed
<1>5. ASSUME NEW p \in Procs, Unload(p) \/ Untune(p) \/ ReadForRestore(p) PROVE Idle
  BY <1>5 DEF Unload, Untune, ReadForRestore, borrowed
<1>6. ASSUME NEW s \in Services, Plug(s) \/ Unplug(s) PROVE Idle
  BY <1>6 DEF Plug, Unplug, borrowed
<1>7. CASE UNCHANGED vars
  BY <1>7 DEF vars, borrowed
<1>8. "daemon" \in Procs /\ "down" \in Procs
  BY DEF Procs
<1> QED
  BY <1>1, <1>2, <1>3, <1>4, <1>5, <1>6, <1>7, <1>8, SaveNotes, PointMoves, GiveBackMoves, SettleForgets
  DEF Next, Daemon, DownStep, Restore

\* The DNS of the host is lent only while its owner's value is on record and comes off the
\* record only once it is back, whatever fails, dies or starts over (takeOver, restore).
THEOREM DnsImplementsBorrowed == Spec => DnsIsBorrowed
<1>1. Init => Lending!Init
  BY DEF Init, Nothing, Lending!Init
<1> QED BY <1>1, StepLends, HostInvariant, PTL DEF Spec, DnsIsBorrowed, Lending!Spec

=============================================================================
