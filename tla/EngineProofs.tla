---------------------------- MODULE EngineProofs ----------------------------
(***************************************************************************)
(* For any number of processes and every combination of faults: one        *)
(* engine, readiness that is real, and a `mole down` that is thorough.     *)
(***************************************************************************)
EXTENDS Engine, FiniteSetTheorems, WellFoundedInduction, TLAPS

\* OneEngine without counting.
Apart == \A b, c \in Engines : b = c

PInv == IInv /\ Apart

\* Who may own a sing-box.
Owners == Daemons \cup leaving \cup {Nobody, Stray}

LEMMA NobodyIsNoProcess ==
  /\ Nobody \notin Daemon /\ Stray \notin Daemon /\ Nobody \notin Box
  /\ Nobody # Stray /\ Daemon \cap Box = {}
BY ProcessesAssumption DEF Processes, Nobody, Stray

\* A new process has an identity nobody knows.
LEMMA NewPidIsFresh ==
  ASSUME NEW Pids \in SUBSET Processes, Fresh(Pids) # {}
  PROVE  NewPid(Pids) \in Fresh(Pids)
<1>1. Fresh(Pids) \in SUBSET Nat
  BY ProcessesAssumption DEF Fresh
<1>2. PICK m \in Fresh(Pids) : \A k \in Fresh(Pids) : ~ (<<k, m>> \in OpToRel(<, Nat))
  BY <1>1, WFMin, NatLessThanWellFounded
<1>3. \A k \in Fresh(Pids) : m <= k
  <2>1. ASSUME NEW k \in Fresh(Pids) PROVE m <= k
    <3>1. k \in Nat /\ m \in Nat /\ ~ (k < m)
      BY <1>1, <1>2 DEF OpToRel
    <3> QED
      BY <3>1
  <2> QED
    BY <2>1
<1> QED
  BY <1>3 DEF NewPid

LEMMA NewBox ==
  ASSUME Fresh(Box) # {}
  PROVE  NewPid(Box) \in Box /\ NewPid(Box) \notin Boxes
BY NewPidIsFresh DEF Fresh, Processes

\* The daemons after a step that starts and ends none.
Same(gone) ==
  /\ daemon' \in [Daemons -> Lives]
  /\ \A e \in Daemons :
       /\ daemon'[e].box = IF daemon[e].box \in gone THEN Nobody ELSE daemon[e].box
       /\ daemon'[e].closed => daemon[e].closed \/ daemon[e].box \in gone

\* A daemon whose sing-box is gone.
LEMMA ReapedLife ==
  ASSUME NEW r \in Lives
  PROVE  LET q == [r EXCEPT !.box = Nobody, !.closed = TRUE]
         IN  /\ q \in Lives /\ q.box = Nobody /\ q.closed = TRUE
             /\ q.main = r.main /\ q.run = r.run /\ q.life = r.life
             /\ q.stop = r.stop /\ q.told = r.told
BY DEF Lives

LEMMA ReapedIsSound ==
  ASSUME TypeOK, NEW gone, Nobody \notin gone
  PROVE  /\ Reaped(gone) \in [Daemons -> Lives]
         /\ \A e \in Daemons :
              /\ Reaped(gone)[e].box = IF daemon[e].box \in gone THEN Nobody ELSE daemon[e].box
              /\ Reaped(gone)[e].closed => daemon[e].closed \/ daemon[e].box \in gone
              /\ Reaped(gone)[e].main = daemon[e].main /\ Reaped(gone)[e].run = daemon[e].run
              /\ Reaped(gone)[e].life = daemon[e].life /\ Reaped(gone)[e].stop = daemon[e].stop
              /\ Reaped(gone)[e].told = daemon[e].told
<1>1. ASSUME NEW e \in Daemons
      PROVE  /\ daemon[e] \in Lives
             /\ Reaped(gone)[e] = IF daemon[e].box \in gone
                                  THEN [daemon[e] EXCEPT !.box = Nobody, !.closed = TRUE]
                                  ELSE daemon[e]
  BY DEF TypeOK, Reaped
<1>2. ASSUME NEW e \in Daemons
      PROVE  /\ Reaped(gone)[e] \in Lives
             /\ Reaped(gone)[e].box = IF daemon[e].box \in gone THEN Nobody ELSE daemon[e].box
             /\ Reaped(gone)[e].closed => daemon[e].closed \/ daemon[e].box \in gone
             /\ Reaped(gone)[e].main = daemon[e].main /\ Reaped(gone)[e].run = daemon[e].run
             /\ Reaped(gone)[e].life = daemon[e].life /\ Reaped(gone)[e].stop = daemon[e].stop
             /\ Reaped(gone)[e].told = daemon[e].told
  <2>1. CASE daemon[e].box \in gone
    <3> DEFINE q == [daemon[e] EXCEPT !.box = Nobody, !.closed = TRUE]
    <3>1. Reaped(gone)[e] = q
      BY <1>1, <2>1
    <3>2. /\ q \in Lives /\ q.box = Nobody
          /\ q.main = daemon[e].main /\ q.run = daemon[e].run /\ q.life = daemon[e].life
          /\ q.stop = daemon[e].stop /\ q.told = daemon[e].told
      BY <1>1, ReapedLife
    <3> HIDE DEF q
    <3> QED
      BY <2>1, <3>1, <3>2
  <2>2. CASE daemon[e].box \notin gone
    BY <1>1, <2>2
  <2> QED
    BY <2>1, <2>2
<1>3. Reaped(gone) \in [Daemons -> Lives]
  <2>1. Reaped(gone) = [e \in Daemons |-> Reaped(gone)[e]]
    BY DEF Reaped
  <2> QED
    BY <1>2, <2>1
<1> QED
  BY <1>2, <1>3

\* Sing-boxes die, and nothing else happens to the others.
LEMMA Killing ==
  ASSUME PInv, NEW gone, Nobody \notin gone, Same(gone), parent' = Without(parent, gone),
         wedged \ gone \subseteq wedged', wedged' \subseteq Boxes \ gone, UNCHANGED leaving
  PROVE  /\ Daemons' = Daemons /\ Boxes' = Boxes \ gone
         /\ parent' \in [Boxes' -> Owners']
         /\ Tracked' /\ Apart'
         /\ OrphansAreWedged /\ (At("up", "daemonize")' => At("up", "daemonize") \/ Daemons # {})
              => OrphansAreWedged'
         /\ Boxes \subseteq wedged => Boxes' \subseteq wedged'
<1> USE DEF PInv, IInv
<1>1. Daemons' = Daemons /\ Boxes' = Boxes \ gone /\ (\A b \in Boxes' : parent'[b] = parent[b])
  BY DEF Same, Without, Daemons, Boxes
<1>2. parent' \in [Boxes' -> Owners']
  BY <1>1 DEF TypeOK, Without, Boxes, Owners
<1>3. Tracked'
  <2>1. ASSUME NEW d \in Daemons', daemon'[d].box # Nobody
        PROVE  daemon'[d].box \in Boxes' /\ parent'[daemon'[d].box] = d /\ ~daemon'[d].closed
    BY <1>1, <2>1 DEF Tracked, Same
  <2>2. ASSUME NEW d \in Daemons', NEW b \in Boxes', parent'[b] = d
        PROVE  b = daemon'[d].box
    <3>1. b \in Boxes /\ b \notin gone /\ parent[b] = d /\ d \in Daemons
      BY <1>1, <2>2
    <3>2. b = daemon[d].box
      BY <3>1 DEF Tracked
    <3> QED
      BY <3>1, <3>2 DEF Same
  <2> QED
    BY <2>1, <2>2 DEF Tracked
<1>4. Apart'
  <2>1. Engines' \subseteq Engines
    BY <1>1 DEF Engines
  <2> QED
    BY <2>1 DEF Apart
<1>5. ASSUME At("up", "daemonize")' => At("up", "daemonize") \/ Daemons # {}
      PROVE  OrphansAreWedged'
  BY <1>1, <1>5 DEF OrphansAreWedged
<1> QED
  BY <1>1, <1>2, <1>3, <1>4, <1>5

\* A step in which no sing-box and no daemon comes or goes.
LEMMA Quiet ==
  ASSUME PInv, Same({}), UNCHANGED <<parent, wedged, leaving>>,
         TypeOK', OneDaemon', OnFile', Swept',
         At("up", "daemonize")' => At("up", "daemonize") \/ Daemons # {}
  PROVE  PInv'
<1> USE DEF PInv, IInv
<1>1. parent \in [Boxes -> Owners]
  BY DEF TypeOK, Owners
<1>2. parent' = Without(parent, {})
  BY <1>1 DEF Without
<1>3. wedged \ {} \subseteq wedged' /\ wedged' \subseteq Boxes \ {}
  BY DEF TypeOK
<1>4. Tracked' /\ Apart' /\ OrphansAreWedged'
  BY <1>2, <1>3, Killing, Nobody \notin {}
<1> QED
  BY <1>4

\* As long as there is a daemon, `mole down` has not got far enough to promise anything.
LEMMA SweptLater ==
  ASSUME PInv, Daemons # {}
  PROVE  cli \notin NoDaemonAt /\ (cli' = cli => Swept')
<1>1. cli \notin NoDaemonAt
  BY DEF PInv, IInv, OneDaemon
<1> QED
  BY <1>1 DEF Swept, NoDaemonAt

LEMMA NothingGone ==
  ASSUME TypeOK
  PROVE  Reaped({}) = daemon /\ Without(parent, {}) = parent
BY DEF TypeOK, Reaped, Without

\* No daemon moves.
LEMMA StillSame ==
  ASSUME TypeOK, UNCHANGED daemon
  PROVE  Same({}) /\ Daemons' = Daemons
BY DEF TypeOK, Same, Daemons

-----------------------------------------------------------------------------

\* A goroutine of one daemon moves; the sing-boxes in gone die.
LEMMA OneMoves ==
  ASSUME PInv, NEW d \in Daemons, NEW gone, Nobody \notin gone, gone \cap wedged = {},
         NEW r \in Lives, daemon' = [Reaped(gone) EXCEPT ![d] = r],
         r.box = Reaped(gone)[d].box, r.closed => Reaped(gone)[d].closed,
         parent' = Without(parent, gone), UNCHANGED <<wedged, files, command, leaving, sound>>,
         r.main = "boot" <=> daemon[d].main = "boot", r.main \in Deaf => r.run = "start",
         daemon[d].run \in CameUp => r.run \in CameUp, r.life # "off" => r.run = "loops"
  PROVE  PInv'
<1> USE DEF PInv, IInv
<1>1. Reaped(gone) \in [Daemons -> Lives]
  BY ReapedIsSound
<1>2. daemon' \in [Daemons -> Lives] /\ daemon'[d] = r
  BY <1>1
<1>3. \A e \in Daemons : e = d
  BY DEF OneDaemon
<1>4. Same(gone)
  BY <1>1, <1>2, <1>3, ReapedIsSound DEF Same
<1>5. wedged \ gone \subseteq wedged' /\ wedged' \subseteq Boxes \ gone
  BY DEF TypeOK
<1>6. /\ Daemons' = Daemons /\ Boxes' = Boxes \ gone /\ Tracked' /\ Apart'
      /\ parent' \in [Boxes' -> Owners']
  BY <1>4, <1>5, Killing
<1>7. OrphansAreWedged'
  BY <1>4, <1>5, Killing DEF command, At
<1>8. TypeOK'
  BY <1>2, <1>5, <1>6 DEF TypeOK, Owners, files, command
<1>9. OneDaemon'
  BY <1>2, <1>3, <1>6 DEF OneDaemon, files, command, At
<1>10. OnFile'
  BY <1>2, <1>3, <1>6 DEF OnFile, files
<1>11. Swept'
  BY SweptLater DEF command
<1> QED
  BY <1>6, <1>7, <1>8, <1>9, <1>10, <1>11

\* The same when none dies.
LEMMA OneMovesAlone ==
  ASSUME PInv, NEW d \in Daemons, NEW r \in Lives, daemon' = [daemon EXCEPT ![d] = r],
         r.box = daemon[d].box, r.closed => daemon[d].closed,
         UNCHANGED <<parent, wedged, files, command, leaving, sound>>,
         r.main = "boot" <=> daemon[d].main = "boot", r.main \in Deaf => r.run = "start",
         daemon[d].run \in CameUp => r.run \in CameUp, r.life # "off" => r.run = "loops"
  PROVE  PInv'
<1>1. Reaped({}) = daemon /\ Without(parent, {}) = parent
  BY NothingGone DEF PInv, IInv
<1>2. /\ daemon' = [Reaped({}) EXCEPT ![d] = r] /\ parent' = Without(parent, {})
      /\ r.box = Reaped({})[d].box /\ (r.closed => Reaped({})[d].closed)
      /\ UNCHANGED <<wedged, files, command, leaving, sound>> /\ Nobody \notin {} /\ {} \cap wedged = {}
  BY <1>1
<1> QED
  BY <1>2, OneMoves

\* A goroutine of the daemon starts a sing-box.
LEMMA OneSpawns ==
  ASSUME PInv, NEW d \in Daemons, daemon[d].box = Nobody, Fresh(Box) # {},
         parent' = [b \in Boxes \cup {NewPid(Box)} |-> IF b = NewPid(Box) THEN d ELSE parent[b]],
         NEW r \in Lives, daemon' = [daemon EXCEPT ![d] = r], r.box = NewPid(Box), ~r.closed,
         UNCHANGED <<wedged, files, command, leaving, sound>>,
         r.main = daemon[d].main, r.main \notin Deaf,
         daemon[d].run \in CameUp => r.run \in CameUp, r.life # "off" => r.run = "loops"
  PROVE  PInv'
<1> USE DEF PInv, IInv
<1>1. /\ NewPid(Box) \in Box /\ NewPid(Box) \notin Boxes /\ NewPid(Box) # Nobody
      /\ d # Nobody /\ d # Stray /\ d \notin leaving
  BY NewBox, NobodyIsNoProcess DEF TypeOK
<1>2. daemon' \in [Daemons -> Lives] /\ Daemons' = Daemons /\ daemon'[d] = r
  BY DEF TypeOK, Daemons
<1>3. \A e \in Daemons : e = d
  BY DEF OneDaemon
<1>4. /\ Boxes' = Boxes \cup {NewPid(Box)} /\ parent'[NewPid(Box)] = d
      /\ \A b \in Boxes : parent'[b] = parent[b] /\ b # NewPid(Box)
  BY <1>1 DEF Boxes
<1>5. \A b \in Boxes : /\ parent[b] \in leaving \cup {Nobody, Stray}
                       /\ parent[b] = Nobody => b \in wedged
  <2>1. ASSUME NEW b \in Boxes PROVE parent[b] \in leaving \cup {Nobody, Stray}
    <3>1. parent[b] \in Owners /\ b # Nobody
      BY NobodyIsNoProcess DEF TypeOK, Owners
    <3>2. parent[b] # d
      BY <3>1 DEF Tracked
    <3> QED
      BY <1>3, <3>1, <3>2 DEF Owners
  <2> QED
    BY <2>1 DEF OrphansAreWedged
<1>6. parent' \in [Boxes' -> Owners']
  <2>1. Owners' = Owners /\ d \in Owners /\ \A b \in Boxes : parent[b] \in Owners
    BY <1>2, <1>5 DEF Owners
  <2> QED
    BY <1>1, <1>4, <2>1 DEF Boxes
<1>7. TypeOK'
  BY <1>1, <1>2, <1>4, <1>6 DEF TypeOK, Owners, files, command
<1>8. Tracked'
  BY <1>1, <1>2, <1>3, <1>4, <1>5 DEF Tracked
<1>9. Apart' /\ OrphansAreWedged'
  <2>1. Engines' \subseteq {NewPid(Box)}
    BY <1>4, <1>5 DEF Engines
  <2> QED
    BY <1>1, <1>4, <1>5, <2>1 DEF Apart, OrphansAreWedged
<1>10. OneDaemon'
  BY <1>2, <1>3 DEF OneDaemon, Deaf, files, command, At
<1>11. OnFile'
  BY <1>2, <1>3 DEF OnFile, files
<1>12. Swept'
  BY SweptLater DEF command
<1> QED
  BY <1>7, <1>8, <1>9, <1>10, <1>11, <1>12

\* What is left when the processes in S are gone.
LEMMA GoneIs ==
  ASSUME PInv, NEW S \in SUBSET Daemon, Gone(S), UNCHANGED wedged
  PROVE  /\ Daemons' = Daemons \ S /\ leaving' = leaving \ S /\ Boxes' = Boxes
         /\ \A e \in Daemons' : daemon'[e] = daemon[e]
         /\ daemon' \in [Daemons' -> Lives]
         /\ \A b \in Boxes : parent'[b] = IF parent[b] \in S \cap leaving THEN Stray
                                          ELSE IF parent[b] \in S \cap Daemons THEN Nobody
                                          ELSE parent[b]
         /\ parent' \in [Boxes' -> Owners']
         /\ Engines' \subseteq Engines
         /\ \A b \in Engines' : parent[b] \in Daemons \cup {Nobody}
<1> USE DEF PInv, IInv
<1>1. /\ Daemons' = Daemons \ S /\ leaving' = leaving \ S /\ Boxes' = Boxes
      /\ \A e \in Daemons' : daemon'[e] = daemon[e]
  BY DEF Gone, Without, Orphaned, Daemons, Boxes
<1>2. daemon' \in [Daemons' -> Lives]
  BY <1>1 DEF Gone, Without, Daemons, TypeOK
<1>3. \A b \in Boxes : parent[b] \in Owners
  BY DEF TypeOK, Owners
<1>4. \A b \in Boxes : parent'[b] = IF parent[b] \in S \cap leaving THEN Stray
                                    ELSE IF parent[b] \in S \cap Daemons THEN Nobody
                                    ELSE parent[b]
  <2>1. ASSUME NEW b \in Boxes
        PROVE  parent'[b] = IF parent[b] \in S \cap leaving THEN Stray
                            ELSE IF parent[b] \in S THEN Nobody ELSE parent[b]
    BY DEF Gone, Orphaned
  <2>2. Nobody \notin S /\ Stray \notin S
    BY NobodyIsNoProcess
  <2> QED
    BY <1>3, <2>1, <2>2 DEF Owners
<1>7. Nobody \notin leaving /\ Stray \notin leaving /\ leaving \cap Daemons = {}
  BY NobodyIsNoProcess DEF TypeOK
<1> HIDE DEF PInv, IInv
<1>5. parent' \in [Boxes' -> Owners']
  <2>1. \A b \in Boxes : parent'[b] \in Owners'
    BY <1>1, <1>3, <1>4 DEF Owners
  <2>2. parent' = [b \in Boxes |-> parent'[b]]
    BY DEF Gone, Orphaned
  <2> QED
    BY <1>1, <2>1, <2>2
<1>6. \A b \in Engines' : b \in Engines /\ parent[b] \in Daemons \cup {Nobody}
  <2>1. ASSUME NEW b \in Engines' PROVE b \in Engines /\ parent[b] \in Daemons \cup {Nobody}
    <3>1. b \in Boxes /\ b \notin wedged /\ parent'[b] \notin leaving' /\ parent'[b] # Stray
      BY <1>1, <2>1 DEF Engines
    <3>2. parent[b] \notin leaving /\ parent[b] # Stray
      <4>1. CASE parent[b] \in leaving
        <5>1. parent'[b] = Stray \/ parent'[b] \in leaving'
          BY <1>1, <1>4, <1>7, <3>1, <4>1
        <5> QED
          BY <3>1, <5>1
      <4>2. CASE parent[b] = Stray
        BY <1>4, <1>7, <3>1, <4>2, NobodyIsNoProcess
      <4> QED
        BY <4>1, <4>2
    <3> QED
      BY <1>3, <3>1, <3>2 DEF Engines, Owners
  <2> QED
    BY <2>1
<1> QED
  BY <1>1, <1>2, <1>4, <1>5, <1>6

LEMMA GoneHolds ==
  ASSUME PInv, NEW S \in SUBSET Daemon, Gone(S), UNCHANGED <<wedged, pidFile, file, target, seen, sound>>,
         \/ cli' = cli
         \/ At("down", "term") /\ cli' = <<"down", "kill">>
         \/ At("down", "kill") /\ cli' = <<"down", "sweep">> /\ Daemons \cup leaving \subseteq S
  PROVE  PInv'
<1> USE DEF PInv, IInv
<1>1. /\ Daemons' = Daemons \ S /\ leaving' = leaving \ S /\ Boxes' = Boxes
      /\ \A e \in Daemons' : daemon'[e] = daemon[e]
      /\ daemon' \in [Daemons' -> Lives] /\ parent' \in [Boxes' -> Owners']
      /\ Engines' \subseteq Engines
  BY GoneIs
<1>2. \A b \in Boxes : parent'[b] = IF parent[b] \in S \cap leaving THEN Stray
                                    ELSE IF parent[b] \in S \cap Daemons THEN Nobody
                                    ELSE parent[b]
  BY GoneIs
<1>3. TypeOK'
  BY <1>1 DEF TypeOK, Owners, Words, At
<1>4. Tracked'
  <2>1. ASSUME NEW d \in Daemons' PROVE d \in Daemons /\ d \notin S /\ d # Nobody /\ d # Stray
    BY <1>1, NobodyIsNoProcess DEF TypeOK
  <2>2. ASSUME NEW d \in Daemons', NEW b \in Boxes PROVE parent'[b] = d <=> parent[b] = d
    BY <1>2, <2>1 DEF TypeOK
  <2> QED
    BY <1>1, <2>1, <2>2 DEF Tracked
<1>5. Apart'
  BY <1>1 DEF Apart
<1>6. OneDaemon'
  BY <1>1 DEF OneDaemon, NoDaemonAt, At
<1>7. OrphansAreWedged'
  <2>1. SUFFICES ASSUME Daemons' # {} \/ At("up", "daemonize")', NEW b \in Boxes, parent'[b] = Nobody
                 PROVE  b \in wedged
    BY <1>1 DEF OrphansAreWedged
  <2>2. Daemons # {} \/ At("up", "daemonize")
    BY <1>1, <2>1 DEF At
  <2>3. \A d \in Daemons : d \notin S
    BY <1>1, <2>1 DEF OneDaemon, NoDaemonAt, At
  <2>4. parent[b] = Nobody
    BY <1>2, <2>1, <2>3, NobodyIsNoProcess
  <2> QED
    BY <2>2, <2>4 DEF OrphansAreWedged
<1>8. OnFile'
  BY <1>1 DEF OnFile
<1>9. Swept'
  BY <1>1 DEF Swept, At
<1> QED
  BY <1>3, <1>4, <1>5, <1>6, <1>7, <1>8, <1>9

\* The daemon removes its pid file.
LEMMA RemovePIDHolds ==
  ASSUME PInv, NEW d \in Daemons, RemovePID(d)
  PROVE  PInv'
<1> USE DEF PInv, IInv
<1>1. Daemons = {d}
  BY DEF OneDaemon
<1>2. /\ Daemons' = {} /\ daemon' \in [{} -> Lives] /\ leaving' = leaving \cup {d}
      /\ pidFile' = Nobody /\ UNCHANGED <<parent, wedged, file, cli, target, seen, sound>>
  BY <1>1 DEF RemovePID, Without, Daemons, command
<1>3. d \in Daemon /\ parent \in [Boxes -> Owners] /\ Owners' = Owners
  BY <1>1, <1>2 DEF TypeOK, Owners
<1>4. TypeOK'
  BY <1>2, <1>3 DEF TypeOK, Owners, Boxes
<1>5. cli \notin NoDaemonAt /\ Swept'
  BY <1>2, SweptLater
<1>6. Engines' \subseteq Engines
  BY <1>2 DEF Engines, Boxes
<1> QED
  BY <1>1, <1>2, <1>4, <1>5, <1>6
  DEF Tracked, Apart, OneDaemon, NoDaemonAt, OrphansAreWedged, OnFile, At

\* What a leaving daemon does.
LEMMA LeavesHolds ==
  ASSUME PInv, NEW d \in leaving, Leaves(d)
  PROVE  PInv'
<1> USE DEF PInv, IInv
<1>0. d \in Daemon /\ d \notin Daemons /\ d # Nobody /\ d # Stray
  BY NobodyIsNoProcess DEF TypeOK
<1>1. CASE LastStart(d)
  <2>1. /\ NewPid(Box) \in Box /\ NewPid(Box) \notin Boxes
        /\ parent' = [b \in Boxes \cup {NewPid(Box)} |-> IF b = NewPid(Box) THEN d ELSE parent[b]]
        /\ UNCHANGED <<daemon, leaving, wedged, pidFile, file, cli, target, seen, sound>>
    BY <1>1, NewBox DEF LastStart, files, command
  <2>2. /\ Boxes' = Boxes \cup {NewPid(Box)} /\ parent'[NewPid(Box)] = d /\ Daemons' = Daemons
        /\ \A b \in Boxes : parent'[b] = parent[b]
    BY <2>1 DEF Boxes, Daemons
  <2>3. parent' \in [Boxes' -> Owners']
    <3>1. Owners' = Owners /\ d \in Owners /\ \A b \in Boxes : parent[b] \in Owners
      BY <2>1, <2>2 DEF TypeOK, Owners
    <3> QED
      BY <2>1, <2>2, <3>1
  <2>4. TypeOK'
    BY <2>1, <2>2, <2>3 DEF TypeOK, Owners
  <2>5. Engines' = Engines
    BY <2>1, <2>2 DEF Engines
  <2>6. Tracked' /\ OrphansAreWedged'
    BY <1>0, <2>1, <2>2 DEF Tracked, OrphansAreWedged, At
  <2>7. Swept' /\ OneDaemon' /\ OnFile'
    BY <2>1, <2>2 DEF Swept, OneDaemon, OnFile, At
  <2> QED
    BY <2>4, <2>5, <2>6, <2>7 DEF Apart
<1>2. CASE LastWrite(d)
  <2>1. /\ file' \in [pid : {d}, box : {Nobody} \cup {b \in Boxes : parent[b] = d}]
        /\ UNCHANGED <<daemon, leaving, parent, wedged, pidFile, cli, target, seen, sound>>
    BY <1>2 DEF LastWrite, command
  <2>2. Daemons' = Daemons /\ Boxes' = Boxes
    BY <2>1 DEF Daemons, Boxes
  <2>3. TypeOK'
    BY <1>0, <2>1, <2>2 DEF TypeOK
  <2>4. OnFile'
    BY <1>0, <2>1, <2>2 DEF OnFile
  <2>5. Swept' /\ OneDaemon'
    BY <2>1, <2>2 DEF Swept, OneDaemon, At
  <2> QED
    BY <2>1, <2>2, <2>3, <2>4, <2>5, StillSame, Quiet DEF At
<1>3. CASE LastStop(d)
  <2> DEFINE gone == {b \in Boxes \ wedged : parent[b] = d}
  <2>1. /\ parent' = Without(parent, gone)
        /\ UNCHANGED <<daemon, leaving, wedged, pidFile, file, cli, target, seen, sound>>
    BY <1>3 DEF LastStop, files, command
  <2>2. Nobody \notin gone
    BY NobodyIsNoProcess DEF TypeOK
  <2>3. \A e \in Daemons : daemon[e].box \notin gone
    <3>1. ASSUME NEW e \in Daemons, daemon[e].box # Nobody PROVE daemon[e].box \notin gone
      BY <1>0, <3>1 DEF Tracked
    <3> QED
      BY <2>2, <3>1
  <2>4. Same(gone)
    BY <2>1, <2>3 DEF Same, TypeOK
  <2>5. wedged \ gone \subseteq wedged' /\ wedged' \subseteq Boxes \ gone
    BY <2>1 DEF TypeOK
  <2> HIDE DEF gone
  <2>6. /\ Daemons' = Daemons /\ Boxes' = Boxes \ gone /\ Tracked' /\ Apart' /\ OrphansAreWedged'
        /\ parent' \in [Boxes' -> Owners']
    BY <2>1, <2>2, <2>4, <2>5, Killing DEF At
  <2>7. TypeOK'
    BY <2>1, <2>5, <2>6 DEF TypeOK, Owners
  <2>8. OneDaemon' /\ OnFile' /\ Swept'
    BY <2>1, <2>6 DEF OneDaemon, OnFile, Swept, At
  <2> QED
    BY <2>6, <2>7, <2>8
<1>4. CASE Exit(d)
  <2>1. {d} \in SUBSET Daemon
    BY DEF TypeOK
  <2> QED
    BY <1>4, <2>1, GoneHolds DEF Exit, files, command
<1> QED
  BY <1>1, <1>2, <1>3, <1>4 DEF Leaves

-----------------------------------------------------------------------------

LEMMA LifeOf ==
  ASSUME PInv, NEW d \in Daemons
  PROVE  /\ daemon[d] \in Lives
         /\ daemon[d].life # "off" => daemon[d].run = "loops"
         /\ daemon[d].main \in Deaf => daemon[d].run = "start"
<1>1. daemon[d] \in Lives
  BY DEF PInv, IInv, TypeOK
<1>2. OnFile
  BY DEF PInv, IInv
<1> QED
  BY <1>1, <1>2 DEF OnFile

\* The steps of main.
LEMMA MainHolds ==
  ASSUME PInv, NEW d \in Daemons, Main(d)
  PROVE  PInv'
<1> USE DEF PInv, IInv
<1>0. /\ daemon[d] \in Lives
      /\ daemon[d].life # "off" => daemon[d].run = "loops"
      /\ daemon[d].main \in Deaf => daemon[d].run = "start"
  BY LifeOf
<1>9. cli' = cli => Swept'
  BY SweptLater
<1>1. CASE WritePID(d)
  <2>1. Same({})
    BY <1>1 DEF WritePID, Same, TypeOK, Lives
  <2>2. TypeOK'
    BY <1>1 DEF WritePID, TypeOK, Lives, command, Daemons, Boxes
  <2>3. OneDaemon' /\ OnFile'
    BY <1>1, <1>0 DEF WritePID, TypeOK, Lives, Deaf, command, Daemons, OneDaemon, OnFile, At
  <2> QED
    BY <1>1, <1>9, <2>1, <2>2, <2>3, Quiet DEF WritePID, command, At
<1>2. CASE TakeSignal(d)
  <2> DEFINE r == [daemon[d] EXCEPT !.main = "stop", !.stop = TRUE, !.told = FALSE]
  <2>1. /\ r \in Lives /\ r.box = daemon[d].box /\ r.closed = daemon[d].closed
        /\ r.main = "stop" /\ r.run = daemon[d].run /\ r.life = daemon[d].life
    BY <1>0 DEF Lives
  <2>2. daemon' = [daemon EXCEPT ![d] = r] /\ daemon[d].main = "serve"
    BY <1>2 DEF TakeSignal
  <2> HIDE DEF r
  <2>3. /\ r.main = "boot" <=> daemon[d].main = "boot"
        /\ r.main \in Deaf => r.run = "start"
        /\ daemon[d].run \in CameUp => r.run \in CameUp
        /\ r.life # "off" => r.run = "loops"
    BY <1>0, <2>1, <2>2 DEF Deaf
  <2>4. UNCHANGED <<parent, wedged, files, command, leaving, sound>>
    BY <1>2 DEF TakeSignal
  <2> QED
    BY <2>1, <2>2, <2>3, <2>4, OneMovesAlone
<1>3. CASE StopEngine(d)
  <2> DEFINE gone == {daemon[d].box} \ (wedged \cup {Nobody})
             r == [Reaped(gone)[d] EXCEPT !.main = "wait"]
  <2>1. Nobody \notin gone /\ gone \cap wedged = {}
    OBVIOUS
  <2>2. /\ parent' = Without(parent, gone) /\ daemon' = [Reaped(gone) EXCEPT ![d] = r]
        /\ daemon[d].main = "stop" /\ UNCHANGED <<wedged, files, command, leaving, sound>>
    BY <1>3 DEF StopEngine, StopBox
  <2> HIDE DEF gone
  <2>3. /\ Reaped(gone)[d] \in Lives /\ Reaped(gone)[d].run = daemon[d].run
        /\ Reaped(gone)[d].life = daemon[d].life
    BY <2>1, ReapedIsSound
  <2>4. /\ r \in Lives /\ r.box = Reaped(gone)[d].box /\ r.closed = Reaped(gone)[d].closed
        /\ r.main = "wait" /\ r.run = daemon[d].run /\ r.life = daemon[d].life
    BY <2>3 DEF Lives
  <2> HIDE DEF r
  <2>5. /\ r.main = "boot" <=> daemon[d].main = "boot"
        /\ r.main \in Deaf => r.run = "start"
        /\ daemon[d].run \in CameUp => r.run \in CameUp
        /\ r.life # "off" => r.run = "loops"
    BY <1>0, <2>2, <2>4 DEF Deaf
  <2> QED
    BY <2>1, <2>2, <2>4, <2>5, OneMoves
<1>4. CASE Waited(d)
  <2> DEFINE r == [daemon[d] EXCEPT !.main = "leave"]
  <2>1. /\ r \in Lives /\ r.box = daemon[d].box /\ r.closed = daemon[d].closed
        /\ r.main = "leave" /\ r.run = daemon[d].run /\ r.life = daemon[d].life
    BY <1>0 DEF Lives
  <2>2. daemon' = [daemon EXCEPT ![d] = r] /\ daemon[d].main = "wait"
    BY <1>4 DEF Waited
  <2> HIDE DEF r
  <2>3. /\ r.main = "boot" <=> daemon[d].main = "boot"
        /\ r.main \in Deaf => r.run = "start"
        /\ daemon[d].run \in CameUp => r.run \in CameUp
        /\ r.life # "off" => r.run = "loops"
    BY <1>0, <2>1, <2>2 DEF Deaf
  <2>4. UNCHANGED <<parent, wedged, files, command, leaving, sound>>
    BY <1>4 DEF Waited
  <2> QED
    BY <2>1, <2>2, <2>3, <2>4, OneMovesAlone
<1>5. CASE RunReturned(d)
  <2> DEFINE r == [daemon[d] EXCEPT !.main = "leave"]
  <2>1. /\ r \in Lives /\ r.box = daemon[d].box /\ r.closed = daemon[d].closed
        /\ r.main = "leave" /\ r.run = daemon[d].run /\ r.life = daemon[d].life
    BY <1>0 DEF Lives
  <2>2. daemon' = [daemon EXCEPT ![d] = r] /\ daemon[d].main = "serve"
    BY <1>5 DEF RunReturned
  <2> HIDE DEF r
  <2>3. /\ r.main = "boot" <=> daemon[d].main = "boot"
        /\ r.main \in Deaf => r.run = "start"
        /\ daemon[d].run \in CameUp => r.run \in CameUp
        /\ r.life # "off" => r.run = "loops"
    BY <1>0, <2>1, <2>2 DEF Deaf
  <2>4. UNCHANGED <<parent, wedged, files, command, leaving, sound>>
    BY <1>5 DEF RunReturned
  <2> QED
    BY <2>1, <2>2, <2>3, <2>4, OneMovesAlone
<1>6. CASE RemoveState(d)
  <2>1. Same({})
    BY <1>6 DEF RemoveState, Same, TypeOK, Lives
  <2>2. TypeOK'
    BY <1>6 DEF RemoveState, TypeOK, Lives, command, Daemons, Boxes, NoFile
  <2>3. OneDaemon'
    BY <1>6 DEF RemoveState, TypeOK, Lives, command, Daemons, OneDaemon, At
  <2>4. OnFile'
    BY <1>6, <1>0, NobodyIsNoProcess
    DEF RemoveState, TypeOK, Lives, Deaf, Daemons, OneDaemon, OnFile, NoFile
  <2> QED
    BY <1>6, <1>9, <2>1, <2>2, <2>3, <2>4, Quiet DEF RemoveState, command, At
<1>7. CASE PrepareFails(d)
  <2> DEFINE r == [daemon[d] EXCEPT !.main = "leave"]
  <2>1. /\ r \in Lives /\ r.box = daemon[d].box /\ r.closed = daemon[d].closed
        /\ r.main = "leave" /\ r.run = daemon[d].run /\ r.life = daemon[d].life
    BY <1>0 DEF Lives
  <2>2. daemon' = [daemon EXCEPT ![d] = r] /\ daemon[d].main = "prepare"
    BY <1>7 DEF PrepareFails
  <2> HIDE DEF r
  <2>3. /\ r.main = "boot" <=> daemon[d].main = "boot"
        /\ r.main \in Deaf => r.run = "start"
        /\ daemon[d].run \in CameUp => r.run \in CameUp
        /\ r.life # "off" => r.run = "loops"
    BY <1>0, <2>1, <2>2 DEF Deaf
  <2>4. UNCHANGED <<parent, wedged, files, command, leaving, sound>>
    BY <1>7 DEF PrepareFails
  <2> QED
    BY <2>1, <2>2, <2>3, <2>4, OneMovesAlone
<1>8. CASE Notify(d)
  <2> DEFINE r == [daemon[d] EXCEPT !.main = "serve"]
  <2>1. /\ r \in Lives /\ r.box = daemon[d].box /\ r.closed = daemon[d].closed
        /\ r.main = "serve" /\ r.run = daemon[d].run /\ r.life = daemon[d].life
    BY <1>0 DEF Lives
  <2>2. daemon' = [daemon EXCEPT ![d] = r] /\ daemon[d].main = "prepare"
    BY <1>8 DEF Notify
  <2> HIDE DEF r
  <2>3. /\ r.main = "boot" <=> daemon[d].main = "boot"
        /\ r.main \in Deaf => r.run = "start"
        /\ daemon[d].run \in CameUp => r.run \in CameUp
        /\ r.life # "off" => r.run = "loops"
    BY <1>0, <2>1, <2>2 DEF Deaf
  <2>4. UNCHANGED <<parent, wedged, files, command, leaving, sound>>
    BY <1>8 DEF Notify
  <2> QED
    BY <2>1, <2>2, <2>3, <2>4, OneMovesAlone
<1>10. CASE RemovePID(d)
  BY <1>10, RemovePIDHolds
<1> QED
  BY <1>1, <1>2, <1>3, <1>4, <1>5, <1>6, <1>7, <1>8, <1>10 DEF Main

\* The steps of Run.
LEMMA RunHolds ==
  ASSUME PInv, NEW d \in Daemons, Run(d)
  PROVE  PInv'
<1> USE DEF PInv, IInv
<1>0. /\ daemon[d] \in Lives
      /\ daemon[d].life # "off" => daemon[d].run = "loops"
      /\ daemon[d].main \in Deaf => daemon[d].run = "start"
  BY LifeOf
<1>1. CASE daemon[d].run = "start" /\ daemon[d].main \notin Deaf /\ Spawn(d, "run")
  <2> DEFINE r == [daemon[d] EXCEPT !.box = NewPid(Box), !.closed = FALSE, !.run = "settle"]
  <2>1. /\ daemon[d].box = Nobody /\ Fresh(Box) # {} /\ daemon[d].run = "start" /\ daemon[d].main \notin Deaf
        /\ parent' = [b \in Boxes \cup {NewPid(Box)} |-> IF b = NewPid(Box) THEN d ELSE parent[b]]
        /\ daemon' = [daemon EXCEPT ![d] = r]
        /\ UNCHANGED <<wedged, files, command, leaving, sound>>
    BY <1>1 DEF Spawn
  <2>2. NewPid(Box) \in Box
    BY <2>1, NewBox
  <2>3. /\ r \in Lives /\ r.box = NewPid(Box) /\ ~r.closed
        /\ r.main = daemon[d].main /\ r.run = "settle" /\ r.life = daemon[d].life
    BY <1>0, <2>2 DEF Lives
  <2> HIDE DEF r
  <2>4. /\ r.main \notin Deaf /\ (daemon[d].run \in CameUp => r.run \in CameUp)
        /\ r.life # "off" => r.run = "loops"
    BY <1>0, <2>1, <2>3 DEF CameUp
  <2> QED
    BY <2>1, <2>3, <2>4, OneSpawns
<1>2. CASE daemon[d].run = "start" /\ daemon[d].main \notin Deaf /\ StartFails(d, "run", "returned")
  <2> DEFINE r == [daemon[d] EXCEPT !.run = "returned"]
  <2>1. /\ r \in Lives /\ r.box = daemon[d].box /\ (r.closed => daemon[d].closed)
        /\ r.main = daemon[d].main /\ r.run = "returned" /\ r.life = daemon[d].life
    BY <1>0 DEF Lives
  <2>2. daemon' = [daemon EXCEPT ![d] = r] /\ daemon[d].run = "start" /\ daemon[d].main \notin Deaf
    BY <1>2 DEF StartFails
  <2> HIDE DEF r
  <2>3. /\ r.main = "boot" <=> daemon[d].main = "boot"
        /\ r.main \in Deaf => r.run = "start"
        /\ daemon[d].run \in CameUp => r.run \in CameUp
        /\ r.life # "off" => r.run = "loops"
    BY <1>0, <2>1, <2>2 DEF CameUp
  <2>4. UNCHANGED <<parent, wedged, files, command, leaving, sound>>
    BY <1>2 DEF StartFails
  <2> QED
    BY <2>1, <2>2, <2>3, <2>4, OneMovesAlone
<1>3. CASE RunRecords(d)
  <2> DEFINE r == [daemon[d] EXCEPT !.run = "loops", !.life = "watch"]
  <2>1. r \in Lives /\ r.box = daemon[d].box /\ r.closed = daemon[d].closed
    BY <1>0 DEF Lives
  <2>2. daemon' = [daemon EXCEPT ![d] = r]
    BY <1>3 DEF RunRecords
  <2> HIDE DEF r
  <2>3. Same({})
    BY <2>1, <2>2 DEF Same, TypeOK
  <2>4. TypeOK'
    BY <1>3 DEF RunRecords, Settled, TypeOK, Lives, command, Daemons, Boxes
  <2>5. OneDaemon'
    BY <1>3 DEF RunRecords, Settled, TypeOK, Lives, command, Daemons, OneDaemon, At
  <2>6. OnFile'
    BY <1>3, <1>0 DEF RunRecords, Settled, TypeOK, Lives, Deaf, Daemons, OneDaemon, OnFile, CameUp
  <2>7. Swept'
    BY <1>3, SweptLater DEF RunRecords, command
  <2> QED
    BY <1>3, <2>3, <2>4, <2>5, <2>6, <2>7, Quiet DEF RunRecords, command, At
<1>4. CASE Unsettled(d, "run", "returned")
  <2> DEFINE gone == {daemon[d].box} \ (wedged \cup {Nobody})
             r == [Reaped(gone)[d] EXCEPT !.run = "returned"]
  <2>1. Nobody \notin gone /\ gone \cap wedged = {}
    OBVIOUS
  <2>2. /\ parent' = Without(parent, gone) /\ daemon' = [Reaped(gone) EXCEPT ![d] = r]
        /\ daemon[d].run = "settle" /\ UNCHANGED <<wedged, files, command, leaving, sound>>
    BY <1>4 DEF Unsettled
  <2> HIDE DEF gone
  <2>3. /\ Reaped(gone)[d] \in Lives /\ Reaped(gone)[d].main = daemon[d].main
        /\ Reaped(gone)[d].run = daemon[d].run /\ Reaped(gone)[d].life = daemon[d].life
    BY <2>1, ReapedIsSound
  <2>4. /\ r \in Lives /\ r.box = Reaped(gone)[d].box /\ (r.closed => Reaped(gone)[d].closed)
        /\ r.main = daemon[d].main /\ r.run = "returned" /\ r.life = daemon[d].life
    BY <2>3 DEF Lives
  <2> HIDE DEF r
  <2>5. /\ r.main = "boot" <=> daemon[d].main = "boot"
        /\ r.main \in Deaf => r.run = "start"
        /\ daemon[d].run \in CameUp => r.run \in CameUp
        /\ r.life # "off" => r.run = "loops"
    BY <1>0, <2>2, <2>4 DEF CameUp
  <2> QED
    BY <2>1, <2>2, <2>4, <2>5, OneMoves
<1>5. CASE LoopsEnded(d)
  <2> DEFINE r == [daemon[d] EXCEPT !.run = "done"]
  <2>1. /\ r \in Lives /\ r.box = daemon[d].box /\ (r.closed => daemon[d].closed)
        /\ r.main = daemon[d].main /\ r.run = "done" /\ r.life = daemon[d].life
    BY <1>0 DEF Lives
  <2>2. daemon' = [daemon EXCEPT ![d] = r] /\ daemon[d].run = "loops" /\ daemon[d].life = "off"
    BY <1>5 DEF LoopsEnded
  <2> HIDE DEF r
  <2>3. /\ r.main = "boot" <=> daemon[d].main = "boot"
        /\ r.main \in Deaf => r.run = "start"
        /\ daemon[d].run \in CameUp => r.run \in CameUp
        /\ r.life # "off" => r.run = "loops"
    BY <1>0, <2>1, <2>2 DEF CameUp
  <2>4. UNCHANGED <<parent, wedged, files, command, leaving, sound>>
    BY <1>5 DEF LoopsEnded
  <2> QED
    BY <2>1, <2>2, <2>3, <2>4, OneMovesAlone
<1>6. CASE RunReturns(d)
  <2> DEFINE gone == {daemon[d].box} \ (wedged \cup {Nobody})
             r == [Reaped(gone)[d] EXCEPT !.run = "returned"]
  <2>1. Nobody \notin gone /\ gone \cap wedged = {}
    OBVIOUS
  <2>2. /\ parent' = Without(parent, gone) /\ daemon' = [Reaped(gone) EXCEPT ![d] = r]
        /\ daemon[d].run = "done" /\ UNCHANGED <<wedged, files, command, leaving, sound>>
    BY <1>6 DEF RunReturns, StopBox
  <2> HIDE DEF gone
  <2>3. /\ Reaped(gone)[d] \in Lives /\ Reaped(gone)[d].main = daemon[d].main
        /\ Reaped(gone)[d].run = daemon[d].run /\ Reaped(gone)[d].life = daemon[d].life
    BY <2>1, ReapedIsSound
  <2>4. /\ r \in Lives /\ r.box = Reaped(gone)[d].box /\ (r.closed => Reaped(gone)[d].closed)
        /\ r.main = daemon[d].main /\ r.run = "returned" /\ r.life = daemon[d].life
    BY <2>3 DEF Lives
  <2> HIDE DEF r
  <2>5. /\ r.main = "boot" <=> daemon[d].main = "boot"
        /\ r.main \in Deaf => r.run = "start"
        /\ daemon[d].run \in CameUp => r.run \in CameUp
        /\ r.life # "off" => r.run = "loops"
    BY <1>0, <2>2, <2>4 DEF CameUp
  <2> QED
    BY <2>1, <2>2, <2>4, <2>5, OneMoves
<1> QED
  BY <1>1, <1>2, <1>3, <1>4, <1>5, <1>6 DEF Run, RunStarts

\* The steps of the lifecycle loop.
LEMMA LifeHolds ==
  ASSUME PInv, NEW d \in Daemons, Life(d)
  PROVE  PInv'
<1> USE DEF PInv, IInv
<1>0. /\ daemon[d] \in Lives
      /\ daemon[d].life # "off" => daemon[d].run = "loops"
      /\ daemon[d].main \in Deaf => daemon[d].run = "start"
  BY LifeOf
<1>1. CASE LifeEnds(d)
  <2> DEFINE r == [daemon[d] EXCEPT !.life = "off"]
  <2>1. /\ r \in Lives /\ r.box = daemon[d].box /\ (r.closed => daemon[d].closed)
        /\ r.main = daemon[d].main /\ r.run = daemon[d].run /\ r.life = "off"
    BY <1>0 DEF Lives
  <2>2. daemon' = [daemon EXCEPT ![d] = r] /\ daemon[d].life \in {"watch", "backoff"}
    BY <1>1 DEF LifeEnds
  <2> HIDE DEF r
  <2>3. /\ r.main = "boot" <=> daemon[d].main = "boot"
        /\ r.main \in Deaf => r.run = "start"
        /\ daemon[d].run \in CameUp => r.run \in CameUp
        /\ r.life # "off" => r.run = "loops"
    BY <1>0, <2>1, <2>2 DEF CameUp
  <2>4. UNCHANGED <<parent, wedged, files, command, leaving, sound>>
    BY <1>1 DEF LifeEnds
  <2> QED
    BY <2>1, <2>2, <2>3, <2>4, OneMovesAlone
<1>2. CASE SeesExit(d)
  <2> DEFINE r == [daemon[d] EXCEPT !.life = "backoff"]
  <2>1. /\ r \in Lives /\ r.box = daemon[d].box /\ (r.closed => daemon[d].closed)
        /\ r.main = daemon[d].main /\ r.run = daemon[d].run /\ r.life = "backoff"
    BY <1>0 DEF Lives
  <2>2. daemon' = [daemon EXCEPT ![d] = r] /\ daemon[d].life = "watch"
    BY <1>2 DEF SeesExit
  <2> HIDE DEF r
  <2>3. /\ r.main = "boot" <=> daemon[d].main = "boot"
        /\ r.main \in Deaf => r.run = "start"
        /\ daemon[d].run \in CameUp => r.run \in CameUp
        /\ r.life # "off" => r.run = "loops"
    BY <1>0, <2>1, <2>2 DEF CameUp
  <2>4. UNCHANGED <<parent, wedged, files, command, leaving, sound>>
    BY <1>2 DEF SeesExit
  <2> QED
    BY <2>1, <2>2, <2>3, <2>4, OneMovesAlone
<1>3. CASE BackedOff(d)
  <2> DEFINE r == [daemon[d] EXCEPT !.life = "start"]
  <2>1. /\ r \in Lives /\ r.box = daemon[d].box /\ (r.closed => daemon[d].closed)
        /\ r.main = daemon[d].main /\ r.run = daemon[d].run /\ r.life = "start"
    BY <1>0 DEF Lives
  <2>2. daemon' = [daemon EXCEPT ![d] = r] /\ daemon[d].life = "backoff"
    BY <1>3 DEF BackedOff
  <2> HIDE DEF r
  <2>3. /\ r.main = "boot" <=> daemon[d].main = "boot"
        /\ r.main \in Deaf => r.run = "start"
        /\ daemon[d].run \in CameUp => r.run \in CameUp
        /\ r.life # "off" => r.run = "loops"
    BY <1>0, <2>1, <2>2 DEF CameUp
  <2>4. UNCHANGED <<parent, wedged, files, command, leaving, sound>>
    BY <1>3 DEF BackedOff
  <2> QED
    BY <2>1, <2>2, <2>3, <2>4, OneMovesAlone
<1>4. CASE daemon[d].life = "start" /\ Spawn(d, "life")
  <2> DEFINE r == [daemon[d] EXCEPT !.box = NewPid(Box), !.closed = FALSE, !.life = "settle"]
  <2>1. /\ daemon[d].box = Nobody /\ Fresh(Box) # {} /\ daemon[d].life = "start"
        /\ parent' = [b \in Boxes \cup {NewPid(Box)} |-> IF b = NewPid(Box) THEN d ELSE parent[b]]
        /\ daemon' = [daemon EXCEPT ![d] = r]
        /\ UNCHANGED <<wedged, files, command, leaving, sound>>
    BY <1>4 DEF Spawn
  <2>2. NewPid(Box) \in Box
    BY <2>1, NewBox
  <2>3. /\ r \in Lives /\ r.box = NewPid(Box) /\ ~r.closed
        /\ r.main = daemon[d].main /\ r.run = daemon[d].run /\ r.life = "settle"
    BY <1>0, <2>2 DEF Lives
  <2> HIDE DEF r
  <2>4. /\ r.main \notin Deaf /\ (daemon[d].run \in CameUp => r.run \in CameUp)
        /\ r.life # "off" => r.run = "loops"
    BY <1>0, <2>1, <2>3 DEF CameUp
  <2> QED
    BY <2>1, <2>3, <2>4, OneSpawns
<1>5. CASE daemon[d].life = "start" /\ StartFails(d, "life", "watch")
  <2> DEFINE r == [daemon[d] EXCEPT !.life = "watch"]
  <2>1. /\ r \in Lives /\ r.box = daemon[d].box /\ (r.closed => daemon[d].closed)
        /\ r.main = daemon[d].main /\ r.run = daemon[d].run /\ r.life = "watch"
    BY <1>0 DEF Lives
  <2>2. daemon' = [daemon EXCEPT ![d] = r] /\ daemon[d].life = "start"
    BY <1>5 DEF StartFails
  <2> HIDE DEF r
  <2>3. /\ r.main = "boot" <=> daemon[d].main = "boot"
        /\ r.main \in Deaf => r.run = "start"
        /\ daemon[d].run \in CameUp => r.run \in CameUp
        /\ r.life # "off" => r.run = "loops"
    BY <1>0, <2>1, <2>2 DEF CameUp
  <2>4. UNCHANGED <<parent, wedged, files, command, leaving, sound>>
    BY <1>5 DEF StartFails
  <2> QED
    BY <2>1, <2>2, <2>3, <2>4, OneMovesAlone
<1>6. CASE LifeRecords(d)
  <2>1. Same({})
    BY <1>6 DEF LifeRecords, Settled, Same, TypeOK, Lives
  <2>2. TypeOK'
    BY <1>6 DEF LifeRecords, Settled, TypeOK, Lives, command, Daemons, Boxes
  <2>3. OneDaemon'
    BY <1>6 DEF LifeRecords, Settled, TypeOK, Lives, command, Daemons, OneDaemon, At
  <2>4. OnFile'
    BY <1>6, <1>0 DEF LifeRecords, Settled, TypeOK, Lives, Deaf, Daemons, OneDaemon, OnFile, CameUp
  <2>5. Swept'
    BY <1>6, SweptLater DEF LifeRecords, command
  <2> QED
    BY <1>6, <2>1, <2>2, <2>3, <2>4, <2>5, Quiet DEF LifeRecords, command, At
<1>7. CASE Unsettled(d, "life", "watch")
  <2> DEFINE gone == {daemon[d].box} \ (wedged \cup {Nobody})
             r == [Reaped(gone)[d] EXCEPT !.life = "watch"]
  <2>1. Nobody \notin gone /\ gone \cap wedged = {}
    OBVIOUS
  <2>2. /\ parent' = Without(parent, gone) /\ daemon' = [Reaped(gone) EXCEPT ![d] = r]
        /\ daemon[d].life = "settle" /\ UNCHANGED <<wedged, files, command, leaving, sound>>
    BY <1>7 DEF Unsettled
  <2> HIDE DEF gone
  <2>3. /\ Reaped(gone)[d] \in Lives /\ Reaped(gone)[d].main = daemon[d].main
        /\ Reaped(gone)[d].run = daemon[d].run /\ Reaped(gone)[d].life = daemon[d].life
    BY <2>1, ReapedIsSound
  <2>4. /\ r \in Lives /\ r.box = Reaped(gone)[d].box /\ (r.closed => Reaped(gone)[d].closed)
        /\ r.main = daemon[d].main /\ r.run = daemon[d].run /\ r.life = "watch"
    BY <2>3 DEF Lives
  <2> HIDE DEF r
  <2>5. /\ r.main = "boot" <=> daemon[d].main = "boot"
        /\ r.main \in Deaf => r.run = "start"
        /\ daemon[d].run \in CameUp => r.run \in CameUp
        /\ r.life # "off" => r.run = "loops"
    BY <1>0, <2>2, <2>4 DEF CameUp
  <2> QED
    BY <2>1, <2>2, <2>4, <2>5, OneMoves
<1> QED
  BY <1>1, <1>2, <1>3, <1>4, <1>5, <1>6, <1>7 DEF Life, LifeStarts

-----------------------------------------------------------------------------

\* A command moves, and with it at most the files.
LEMMA CommandMoves ==
  ASSUME PInv, UNCHANGED <<daemon, leaving, parent, wedged>>, TypeOK', OneDaemon', OnFile', Swept',
         ~At("up", "daemonize")'
  PROVE  PInv'
BY StillSame, Quiet DEF PInv, IInv

LEMMA UpHolds ==
  ASSUME PInv, Up \/ Check \/ SweepOrphans \/ Daemonize \/ UpReady \/ UpFails
  PROVE  PInv'
<1> USE DEF PInv, IInv
<1>1. CASE Up
  <2>1. TypeOK'
    BY <1>1 DEF Up, Step, TypeOK, Words, files, Daemons, Boxes
  <2>2. OneDaemon' /\ OnFile' /\ Swept'
    BY <1>1 DEF Up, Step, OneDaemon, NoDaemonAt, OnFile, Swept, At, Idle, files, Daemons,
                     Boxes
  <2> QED
    BY <1>1, <2>1, <2>2, CommandMoves DEF Up, Step, At
<1>2. CASE Check
  <2>1. TypeOK'
    BY <1>2 DEF Check, Step, TypeOK, Words, Daemons, Boxes
  <2>2. OnFile' /\ Swept'
    BY <1>2 DEF Check, Step, OnFile, Swept, At, Idle, Daemons, Boxes
  <2>3. OneDaemon'
    <3>1. CASE pidFile \in Daemons
      BY <1>2, <3>1 DEF Check, OneDaemon, NoDaemonAt, At, Idle, Daemons
    <3>2. CASE pidFile \notin Daemons
      <4>1. Daemons = {}
        BY <1>2, <3>2 DEF Check, OneDaemon, At
      <4> QED
        BY <1>2, <3>2, <4>1 DEF Check, Step, OneDaemon, NoDaemonAt, At, Daemons
    <3> QED
      BY <3>1, <3>2
  <2> QED
    BY <1>2, <2>1, <2>2, <2>3, CommandMoves DEF Check, Step, At, Idle
<1>3. CASE SweepOrphans
  <2> DEFINE gone == Orphans \ wedged
  <2>1. Daemons = {}
    BY <1>3 DEF SweepOrphans, OneDaemon, NoDaemonAt, At
  <2>2. Nobody \notin gone
    BY NobodyIsNoProcess DEF Orphans, TypeOK
  <2>3. parent' = Without(parent, gone) /\ daemon' = Reaped(gone)
    BY <1>3 DEF SweepOrphans, Kill
  <2>4. Same(gone)
    BY <2>2, <2>3, ReapedIsSound DEF Same
  <2>5. wedged \ gone \subseteq wedged' /\ wedged' \subseteq Boxes \ gone /\ UNCHANGED leaving
    BY <1>3 DEF SweepOrphans, TypeOK
  <2>6. Daemons' = {} /\ Boxes' = Boxes \ gone /\ Tracked' /\ Apart'
        /\ parent' \in [Boxes' -> Owners']
    <3> HIDE DEF gone
    <3> QED
      BY <2>1, <2>2, <2>3, <2>4, <2>5, Killing
  <2>7. \A b \in Boxes' : parent'[b] = Nobody => b \in wedged'
    <3>1. \A b \in Boxes' : parent'[b] = parent[b] /\ b \in Boxes /\ b \notin gone
      BY <2>3, <2>6 DEF Without, Boxes
    <3> QED
      BY <1>3, <3>1 DEF SweepOrphans, Orphans
  <2>8. TypeOK'
    <3>1. daemon' \in [Daemons' -> Lives]
      BY <2>1, <2>4, <2>6 DEF Same
    <3> HIDE DEF gone
    <3> QED
      BY <1>3, <2>5, <2>6, <3>1 DEF SweepOrphans, Step, TypeOK, Owners, Words, files
  <2> QED
    BY <1>3, <2>6, <2>7, <2>8
    DEF SweepOrphans, Step, OneDaemon, OrphansAreWedged, OnFile, Swept, At, files
<1>4. CASE Daemonize
  <2> DEFINE n == NewPid(Daemon)
  <2>1. /\ Daemons = {} /\ Fresh(Daemon) # {}
        /\ \A b \in Boxes : parent[b] = Nobody => b \in wedged
        /\ cli' = <<"up", "wait">> /\ target' = n
        /\ UNCHANGED <<parent, wedged, pidFile, file, seen, leaving, sound>>
    <3>1. Daemons = {}
      BY <1>4 DEF Daemonize, OneDaemon, NoDaemonAt, At
    <3> QED
      BY <1>4, <3>1 DEF Daemonize, OrphansAreWedged, At, Step, files
  <2>2. /\ n \in Daemon /\ n \notin Boxes /\ n \notin leaving /\ n # file.pid
        /\ n # Nobody /\ n # Stray
    BY <2>1, NewPidIsFresh, NobodyIsNoProcess DEF Fresh, Remembered, Processes
  <2>3. Newborn \in Lives
    BY DEF Newborn, Lives
  <2>4. Daemons' = {n} /\ daemon' \in [{n} -> Lives] /\ daemon'[n] = Newborn
    BY <1>4, <2>1, <2>3 DEF Daemonize, Daemons
  <2> HIDE DEF n
  <2>5. \A b \in Boxes : parent[b] \in leaving \cup {Nobody, Stray}
    BY <2>1 DEF TypeOK
  <2>6. parent' \in [Boxes' -> Owners'] /\ Boxes' = Boxes
    BY <2>1, <2>4 DEF TypeOK, Owners, Boxes
  <2>7. TypeOK'
    BY <2>1, <2>2, <2>4, <2>6 DEF TypeOK, Owners, Words
  <2>8. Tracked' /\ OrphansAreWedged'
    BY <2>1, <2>2, <2>4, <2>5, <2>6 DEF Tracked, OrphansAreWedged, Newborn
  <2>9. Apart'
    BY <2>1, <2>6 DEF Apart, Engines
  <2>10. OneDaemon' /\ OnFile' /\ Swept'
    BY <2>1, <2>2, <2>4 DEF OneDaemon, NoDaemonAt, OnFile, Swept, Deaf, At, Newborn
  <2> QED
    BY <2>7, <2>8, <2>9, <2>10
<1>5. CASE UpReady
  <2>1. \A d \in Daemons : daemon[d].main # "boot"
    <3>1. SUFFICES ASSUME NEW d \in Daemons, daemon[d].main = "boot" PROVE FALSE
      OBVIOUS
    <3>2. file.pid = d /\ daemon[d].run = "start"
      BY <1>5, <3>1, LifeOf DEF UpReady, Ready, OneDaemon, Deaf
    <3> QED
      BY <3>1, <3>2 DEF OnFile, CameUp
  <2>2. TypeOK'
    BY <1>5 DEF UpReady, UpEnds, TypeOK, Words, files, Daemons, Boxes
  <2>3. OneDaemon' /\ OnFile' /\ Swept'
    BY <1>5, <2>1 DEF UpReady, UpEnds, OneDaemon, NoDaemonAt, OnFile, Swept, At, Idle, files, Daemons,
                     Boxes
  <2> QED
    BY <1>5, <2>2, <2>3, CommandMoves DEF UpReady, UpEnds, At, Idle
<1>6. CASE UpFails
  <2>1. \A d \in Daemons : daemon[d].main # "boot"
    BY <1>6 DEF UpFails, OneDaemon
  <2>2. TypeOK'
    BY <1>6 DEF UpFails, UpEnds, TypeOK, Words, files, Daemons, Boxes
  <2>3. OneDaemon' /\ OnFile' /\ Swept'
    BY <1>6, <2>1 DEF UpFails, UpEnds, OneDaemon, NoDaemonAt, OnFile, Swept, At, Idle, files, Daemons,
                     Boxes
  <2> QED
    BY <1>6, <2>2, <2>3, CommandMoves DEF UpFails, UpEnds, At, Idle
<1> QED
  BY <1>1, <1>2, <1>3, <1>4, <1>5, <1>6

LEMMA DownHolds ==
  ASSUME PInv,
         \/ Down \/ Collect \/ Clear \/ Term \/ KillDaemons \/ SweepAll \/ Tidy \/ DownEnds \/ Interrupt
         \/ \E w \in {"stopped", "leftovers"} : Report(w)
  PROVE  PInv'
<1> USE DEF PInv, IInv
<1>1. CASE Down
  <2>1. TypeOK'
    BY <1>1 DEF Down, Step, TypeOK, Words, files, Daemons, Boxes
  <2>2. OneDaemon' /\ OnFile' /\ Swept'
    BY <1>1 DEF Down, Step, OneDaemon, NoDaemonAt, OnFile, Swept, At, Idle, files, Daemons,
                     Boxes
  <2> QED
    BY <1>1, <2>1, <2>2, CommandMoves DEF Down, Step, At
<1>2. CASE Collect
  <2>1. TypeOK'
    BY <1>2 DEF Collect, Step, TypeOK, Words, files, Daemons, Boxes
  <2>4. /\ UNCHANGED <<daemon, parent, wedged, pidFile, file, target, leaving, sound>>
        /\ Daemons' = Daemons /\ Boxes' = Boxes /\ cli = <<"down", "collect">>
        /\ \/ cli' = <<"down", "clear">> /\ Daemons = {} /\ leaving = {} /\ Boxes = {}
           \/ cli' = <<"down", "term">> /\ seen' = Daemons \cup leaving
    BY <1>2 DEF Collect, Step, At, files, Daemons, Boxes
  <2>2. OneDaemon' /\ OnFile'
    BY <2>4 DEF OneDaemon, NoDaemonAt, OnFile, At
  <2>3. Swept'
    BY <2>4 DEF Swept
  <2> QED
    BY <1>2, <2>1, <2>2, <2>3, CommandMoves DEF Collect, Step, At
<1>3. CASE Term
  <2> DEFINE deaf == {d \in seen \cap Daemons : daemon[d].main \in Deaf}
  <2>1. /\ daemon' = [d \in Daemons \ deaf |->
                        IF d \in seen /\ daemon[d].main = "serve"
                        THEN [daemon[d] EXCEPT !.told = TRUE] ELSE daemon[d]]
        /\ parent' = Orphaned(deaf) /\ cli = <<"down", "term">> /\ cli' = <<"down", "kill">>
        /\ UNCHANGED <<wedged, pidFile, file, target, seen, leaving, sound>>
    BY <1>3 DEF Term, At, Step, files
  <2>2. \A d \in Daemons : daemon[d].main # "boot"
    BY <2>1 DEF OneDaemon, At
  <2>3. CASE deaf = {}
    <3>1. parent' = parent
      BY <2>1, <2>3 DEF Orphaned, TypeOK, Boxes
    <3>2. ASSUME NEW d \in Daemons
          PROVE  /\ daemon'[d] \in Lives /\ daemon'[d].main = daemon[d].main
                 /\ daemon'[d].run = daemon[d].run /\ daemon'[d].life = daemon[d].life
                 /\ daemon'[d].box = daemon[d].box /\ daemon'[d].closed = daemon[d].closed
      <4>1. daemon[d] \in Lives
        BY LifeOf
      <4>2. daemon'[d] = IF d \in seen /\ daemon[d].main = "serve"
                         THEN [daemon[d] EXCEPT !.told = TRUE] ELSE daemon[d]
        BY <2>1, <2>3
      <4> QED
        BY <4>1, <4>2 DEF Lives
    <3>3. daemon' \in [Daemons -> Lives] /\ Daemons' = Daemons
      BY <2>1, <2>3, <3>2 DEF Daemons
    <3> HIDE DEF deaf
    <3>4. Same({})
      BY <3>2, <3>3 DEF Same
    <3>5. TypeOK'
      BY <2>1, <3>1, <3>3 DEF TypeOK, Words, Boxes
    <3>6. OneDaemon' /\ OnFile' /\ Swept'
      BY <2>1, <2>2, <3>2, <3>3 DEF OneDaemon, NoDaemonAt, OnFile, Swept, At
    <3> QED
      BY <2>1, <3>1, <3>4, <3>5, <3>6, Quiet DEF At
  <2>4. CASE deaf # {}
    <3>1. deaf = Daemons
      BY <2>4 DEF OneDaemon
    <3>2. daemon' = Without(daemon, deaf)
      BY <2>1, <3>1 DEF Without, Daemons
    <3>3. leaving' = leaving \ deaf
      BY <2>1, <3>1 DEF TypeOK
    <3>4. deaf \in SUBSET Daemon
      BY DEF TypeOK
    <3> HIDE DEF deaf
    <3> QED
      BY <2>1, <3>2, <3>3, <3>4, GoneHolds DEF Gone, At
  <2> QED
    BY <2>3, <2>4
<1>4. CASE KillDaemons
  <2>1. Daemons \cup leaving \subseteq seen /\ seen \in SUBSET Daemon
    BY <1>4 DEF KillDaemons, OneDaemon, TypeOK
  <2> QED
    BY <1>4, <2>1, GoneHolds DEF KillDaemons, Step, At, files
<1>5. CASE SweepAll
  <2> DEFINE gone == Boxes \ wedged
  <2>1. Daemons = {} /\ leaving = {}
    BY <1>5 DEF SweepAll, OneDaemon, NoDaemonAt, Swept, At
  <2>2. Nobody \notin gone
    BY NobodyIsNoProcess DEF TypeOK
  <2>3. parent' = Without(parent, gone) /\ daemon' = Reaped(gone)
    BY <1>5 DEF SweepAll, Kill
  <2>4. Same(gone)
    BY <2>2, <2>3, ReapedIsSound DEF Same
  <2>5. wedged \ gone \subseteq wedged' /\ wedged' \subseteq Boxes \ gone
    BY <1>5 DEF SweepAll, TypeOK
  <2>6. Boxes \ gone \subseteq wedged' /\ UNCHANGED leaving
    BY <1>5 DEF SweepAll
  <2> HIDE DEF gone
  <2>7. Daemons' = {} /\ Boxes' = Boxes \ gone /\ Tracked' /\ Apart'
        /\ parent' \in [Boxes' -> Owners']
    BY <2>1, <2>2, <2>3, <2>4, <2>5, <2>6, Killing
  <2>8. TypeOK'
    <3>1. daemon' \in [Daemons' -> Lives]
      BY <2>1, <2>4, <2>7 DEF Same
    <3> QED
      BY <1>5, <2>5, <2>7, <3>1 DEF SweepAll, Step, TypeOK, Owners, Words, files
  <2> QED
    BY <1>5, <2>1, <2>6, <2>7, <2>8
    DEF SweepAll, Step, OneDaemon, OrphansAreWedged, OnFile, Swept, At, files
<1>6. CASE Tidy
  <2>1. TypeOK'
    BY <1>6 DEF Tidy, Step, TypeOK, Words, Daemons, Boxes, NoFile
  <2>2. Daemons = {}
    BY <1>6 DEF Tidy, OneDaemon, NoDaemonAt, At
  <2>3. OneDaemon' /\ OnFile' /\ Swept'
    BY <1>6, <2>2 DEF Tidy, Step, OneDaemon, NoDaemonAt, OnFile, Swept, At, Daemons, Boxes
  <2> QED
    BY <1>6, <2>1, <2>3, CommandMoves DEF Tidy, Step, At
<1>7. ASSUME NEW w \in {"stopped", "leftovers"}, Report(w) PROVE PInv'
  <2>1. TypeOK'
    BY <1>7 DEF Report, Step, TypeOK, Words, files, Daemons, Boxes
  <2>2. OneDaemon' /\ OnFile'
    BY <1>7 DEF Report, Step, OneDaemon, NoDaemonAt, OnFile, At, files, Daemons
  <2>3. Swept'
    BY <1>7 DEF Report, Step, Swept, At, Boxes
  <2> QED
    BY <1>7, <2>1, <2>2, <2>3, CommandMoves DEF Report, Step, At
<1>8. CASE DownEnds
  <2>1. TypeOK'
    BY <1>8 DEF DownEnds, TypeOK, Words, files, Daemons, Boxes
  <2>2. OneDaemon' /\ OnFile' /\ Swept'
    BY <1>8 DEF DownEnds, OneDaemon, NoDaemonAt, OnFile, Swept, At, Idle, files, Daemons,
                     Boxes
  <2> QED
    BY <1>8, <2>1, <2>2, CommandMoves DEF DownEnds, At, Idle
<1>9. CASE Interrupt
  <2>1. \A d \in Daemons : daemon[d].main # "boot"
    BY <1>9 DEF Interrupt, OneDaemon
  <2>2. TypeOK'
    BY <1>9 DEF Interrupt, TypeOK, Words, files, Daemons, Boxes
  <2>3. OneDaemon' /\ OnFile' /\ Swept'
    BY <1>9, <2>1 DEF Interrupt, OneDaemon, NoDaemonAt, OnFile, Swept, At, Idle, files, Daemons,
                     Boxes
  <2> QED
    BY <1>9, <2>2, <2>3, CommandMoves DEF Interrupt, At, Idle
<1>10. CASE Clear
  <2>1. TypeOK'
    BY <1>10 DEF Clear, Step, TypeOK, Words, Daemons, Boxes, NoFile
  <2>2. Daemons = {} /\ leaving = {} /\ Boxes = {}
    BY <1>10 DEF Clear, OneDaemon, NoDaemonAt, Swept, At
  <2>3. OneDaemon' /\ OnFile' /\ Swept'
    BY <1>10, <2>2 DEF Clear, Step, OneDaemon, NoDaemonAt, OnFile, Swept, At, Daemons, Boxes
  <2> QED
    BY <1>10, <2>1, <2>3, CommandMoves DEF Clear, Step, At
<1> QED
  BY <1>1, <1>2, <1>3, <1>4, <1>5, <1>6, <1>7, <1>8, <1>9, <1>10

-----------------------------------------------------------------------------

\* What happens by itself to a daemon.
LEMMA DaemonNatureHolds ==
  ASSUME PInv, NEW d \in Daemons, Publish(d) \/ StopItself(d) \/ Signalled(d) \/ DaemonKilled(d)
  PROVE  PInv'
<1> USE DEF PInv, IInv
<1>0. /\ daemon[d] \in Lives
      /\ daemon[d].life # "off" => daemon[d].run = "loops"
      /\ daemon[d].main \in Deaf => daemon[d].run = "start"
  BY LifeOf
<1>1. CASE Publish(d)
  <2>1. Same({})
    BY <1>1 DEF Publish, Same, TypeOK, Lives
  <2>2. TypeOK'
    BY <1>1 DEF Publish, TypeOK, Lives, command, Daemons, Boxes
  <2>3. OneDaemon'
    BY <1>1 DEF Publish, TypeOK, Lives, command, Daemons, OneDaemon, At
  <2>4. OnFile'
    BY <1>1, <1>0 DEF Publish, TypeOK, Lives, Daemons, OneDaemon, OnFile, CameUp
  <2>5. Swept'
    BY <1>1, SweptLater DEF Publish, command
  <2> QED
    BY <1>1, <2>1, <2>2, <2>3, <2>4, <2>5, Quiet DEF Publish, command, At
<1>2. CASE StopItself(d)
  <2> DEFINE gone == {daemon[d].box} \ (wedged \cup {Nobody})
             r == [Reaped(gone)[d] EXCEPT !.stop = TRUE]
  <2>1. Nobody \notin gone /\ gone \cap wedged = {}
    OBVIOUS
  <2>2. /\ parent' = Without(parent, gone) /\ daemon' = [Reaped(gone) EXCEPT ![d] = r]
        /\ daemon[d].run = "loops" /\ UNCHANGED <<wedged, files, command, leaving, sound>>
    BY <1>2 DEF StopItself
  <2> HIDE DEF gone
  <2>3. /\ Reaped(gone)[d] \in Lives /\ Reaped(gone)[d].main = daemon[d].main
        /\ Reaped(gone)[d].run = daemon[d].run /\ Reaped(gone)[d].life = daemon[d].life
    BY <2>1, ReapedIsSound
  <2>4. /\ r \in Lives /\ r.box = Reaped(gone)[d].box /\ (r.closed => Reaped(gone)[d].closed)
        /\ r.main = daemon[d].main /\ r.run = daemon[d].run /\ r.life = daemon[d].life
    BY <2>3 DEF Lives
  <2> HIDE DEF r
  <2>5. /\ r.main = "boot" <=> daemon[d].main = "boot"
        /\ r.main \in Deaf => r.run = "start"
        /\ daemon[d].run \in CameUp => r.run \in CameUp
        /\ r.life # "off" => r.run = "loops"
    BY <1>0, <2>2, <2>4 DEF CameUp
  <2> QED
    BY <2>1, <2>2, <2>4, <2>5, OneMoves
<1>3. CASE Signalled(d)
  <2> DEFINE r == [daemon[d] EXCEPT !.told = TRUE]
  <2>1. /\ r \in Lives /\ r.box = daemon[d].box /\ (r.closed => daemon[d].closed)
        /\ r.main = daemon[d].main /\ r.run = daemon[d].run /\ r.life = daemon[d].life
    BY <1>0 DEF Lives
  <2>2. daemon' = [daemon EXCEPT ![d] = r] /\ daemon[d].main = "serve"
    BY <1>3 DEF Signalled
  <2> HIDE DEF r
  <2>3. /\ r.main = "boot" <=> daemon[d].main = "boot"
        /\ r.main \in Deaf => r.run = "start"
        /\ daemon[d].run \in CameUp => r.run \in CameUp
        /\ r.life # "off" => r.run = "loops"
    BY <1>0, <2>1, <2>2 DEF CameUp
  <2>4. UNCHANGED <<parent, wedged, files, command, leaving, sound>>
    BY <1>3 DEF Signalled
  <2> QED
    BY <2>1, <2>2, <2>3, <2>4, OneMovesAlone
<1>4. CASE DaemonKilled(d)
  <2>1. {d} \in SUBSET Daemon
    BY DEF TypeOK
  <2> QED
    BY <1>4, <2>1, GoneHolds DEF DaemonKilled, files, command
<1> QED
  BY <1>1, <1>2, <1>3, <1>4

\* What happens by itself to a sing-box.
LEMMA BoxNatureHolds ==
  ASSUME PInv, NEW b \in Boxes, BoxDies(b) \/ BoxWedges(b)
  PROVE  PInv'
<1> USE DEF PInv, IInv
<1>1. CASE BoxDies(b)
  <2>1. Nobody \notin {b}
    BY NobodyIsNoProcess DEF TypeOK
  <2>2. parent' = Without(parent, {b}) /\ daemon' = Reaped({b})
    BY <1>1 DEF BoxDies
  <2>3. Same({b})
    BY <2>1, <2>2, ReapedIsSound DEF Same
  <2>4. wedged \ {b} \subseteq wedged' /\ wedged' \subseteq Boxes \ {b}
    BY <1>1 DEF BoxDies, TypeOK
  <2>5. UNCHANGED <<pidFile, file, cli, target, seen, leaving, sound>>
    BY <1>1 DEF BoxDies, files, command
  <2>6. /\ Daemons' = Daemons /\ Boxes' = Boxes \ {b} /\ Tracked' /\ Apart' /\ OrphansAreWedged'
        /\ parent' \in [Boxes' -> Owners']
    BY <2>1, <2>2, <2>3, <2>4, <2>5, Killing DEF At
  <2>7. TypeOK'
    BY <2>3, <2>4, <2>5, <2>6 DEF Same, TypeOK, Owners
  <2>8. \A e \in Daemons : /\ daemon'[e].main = daemon[e].main /\ daemon'[e].run = daemon[e].run
                           /\ daemon'[e].life = daemon[e].life
    BY <2>1, <2>2, ReapedIsSound
  <2>9. OneDaemon' /\ OnFile'
    BY <2>5, <2>6, <2>8 DEF OneDaemon, NoDaemonAt, OnFile, At
  <2>10. Swept'
    <3>1. Boxes \subseteq wedged => Boxes' \subseteq wedged'
      BY <2>4, <2>6
    <3> QED
      BY <2>5, <2>6, <3>1 DEF Swept
  <2> QED
    BY <2>6, <2>7, <2>9, <2>10
<1>2. CASE BoxWedges(b)
  <2>1. UNCHANGED <<daemon, leaving, parent, pidFile, file, cli, target, seen, sound>>
        /\ wedged' = wedged \cup {b}
    BY <1>2 DEF BoxWedges, files, command
  <2>2. TypeOK'
    BY <2>1 DEF TypeOK, Daemons, Boxes
  <2> QED
    BY <2>1, <2>2 DEF Tracked, Apart, Engines, OneDaemon, OrphansAreWedged, OnFile, Swept, At,
                      Daemons, Boxes
<1> QED
  BY <1>1, <1>2

LEMMA InitHolds == ASSUME Init PROVE PInv
<1>1. Daemons = {} /\ Boxes = {} /\ Engines = {}
  BY DEF Init, Daemons, Boxes, Engines
<1>2. daemon \in [{} -> Lives] /\ parent \in [{} -> Owners]
  BY <1>1 DEF Init, Daemons, Boxes
<1>3. TypeOK
  BY <1>1, <1>2 DEF Init, TypeOK, Owners, NoFile, Words
<1> QED
  BY <1>1, <1>3 DEF Init, PInv, IInv, Apart, Tracked, OneDaemon, OrphansAreWedged, OnFile,
                    Swept, NoFile, NoDaemonAt, At, Idle

LEMMA StepHolds == ASSUME PInv, [Next]_vars PROVE PInv'
<1>1. CASE \E d \in Daemons : Main(d) \/ Run(d) \/ Life(d)
  BY <1>1, MainHolds, RunHolds, LifeHolds
<1>2. CASE \E d \in leaving : Leaves(d)
  BY <1>2, LeavesHolds
<1>3. CASE Command
  BY <1>3, UpHolds, DownHolds DEF Command
<1>4. CASE Nature
  <2>1. CASE Weather
    BY <2>1 DEF Weather, PInv, IInv, TypeOK, Tracked, Apart, Engines, OneDaemon,
                OrphansAreWedged, OnFile, Swept, At, Daemons, Boxes, files, command
  <2> QED
    BY <1>4, <2>1, DaemonNatureHolds, BoxNatureHolds DEF Nature
<1>5. CASE UNCHANGED vars
  BY <1>5 DEF vars, PInv, IInv, TypeOK, Tracked, Apart, Engines, OneDaemon, OrphansAreWedged,
              OnFile, Swept, At, Daemons, Boxes, files, command
<1> QED
  BY <1>1, <1>2, <1>3, <1>4, <1>5 DEF Next

LEMMA Always == Spec => []PInv
<1>1. Init => PInv
  BY InitHolds
<1>2. PInv /\ [Next]_vars => PInv'
  BY StepHolds
<1> QED
  BY <1>1, <1>2, PTL DEF Spec

-----------------------------------------------------------------------------

\* The types hold, every daemon tracks the sing-box it started, there is one daemon that is
\* not leaving, what a killed daemon left is wedged, state.json names a daemon only when its
\* engine came up, and what `mole down` has swept stays swept.
THEOREM EngineInvariant == Spec => []IInv
<1>1. PInv => IInv
  BY DEF PInv
<1> QED
  BY <1>1, Always, PTL

\* Whatever was killed, orphaned or started again, two sing-boxes never run side by side
\* unless one of them is deaf to SIGKILL, or belongs or belonged to a daemon that had removed
\* its pid file and not ended yet (runParent, KillOrphanedSingboxes, runDaemon, Start).
THEOREM OneEngineTheorem == Spec => []OneEngine
<1>1. PInv => OneEngine
  <2>1. SUFFICES ASSUME PInv PROVE Cardinality(Engines) <= 1
    BY DEF OneEngine
  <2>2. ASSUME NEW b \in Engines PROVE Engines = {b}
    BY <2>1 DEF PInv, Apart
  <2>3. CASE Engines = {}
    BY <2>3, FS_EmptySet
  <2>4. CASE Engines # {}
    <3>1. PICK b : Engines = {b}
      BY <2>2, <2>4
    <3>2. Cardinality(Engines) = 1
      BY <3>1, FS_Singleton
    <3> QED
      BY <3>2
  <2> QED
    BY <2>3, <2>4
<1> QED
  BY <1>1, Always, PTL

\* `mole up` calls ready only a daemon whose engine came up (waitForDaemonReady, Run).
THEOREM ReadyIsRealTheorem == Spec => []ReadyIsReal
<1>1. PInv => ReadyIsReal
  BY DEF PInv, IInv, OnFile, ReadyIsReal, Ready
<1> QED
  BY <1>1, Always, PTL

\* However `mole down` was interleaved with signals, deaths and leaving daemons: when it ends
\* no daemon is left, nothing runs but what no signal reaches, and "VPN stopped" is true, also
\* where it is printed without a second look (runDown).
THEOREM DownIsThoroughTheorem == Spec => []DownIsThorough
<1>1. PInv => DownIsThorough
  <2>1. SUFFICES ASSUME PInv, cli \in {<<"down", "stopped">>, <<"down", "leftovers">>}
                 PROVE  /\ Daemons \cup leaving = {} /\ Boxes \subseteq wedged
                        /\ At("down", "stopped") => Boxes = {}
    BY DEF DownIsThorough, At
  <2>2. Daemons = {} /\ leaving = {}
    BY <2>1 DEF PInv, IInv, OneDaemon, NoDaemonAt, Swept
  <2>3. Boxes \subseteq wedged /\ (At("down", "stopped") => Boxes = {})
    BY <2>1 DEF PInv, IInv, Swept, At
  <2> QED
    BY <2>2, <2>3
<1> QED
  BY <1>1, Always, PTL

-----------------------------------------------------------------------------
(* The engine under its daemon implements Tenancy.                         *)

Running == [b \in Engines |-> parent[b]]
Moves == [Machine!Next]_<<Holder, Running>>

LEMMA HolderIsTheDaemon ==
  ASSUME PInv
  PROVE  /\ Daemons = {} => Holder = Nobody
         /\ \A d \in Daemons : Holder = d /\ d # Nobody /\ d \in Processes
BY NobodyIsNoProcess DEF PInv, IInv, TypeOK, OneDaemon, Holder, Processes

\* The daemon stays, and at most its sing-box goes.
LEMMA Fewer ==
  ASSUME PInv, Daemons' = Daemons, Engines' \subseteq Engines,
         \A b \in Engines' : parent'[b] = parent[b]
  PROVE  Moves
<1>1. Holder' = Holder
  BY DEF Holder
<1>2. CASE Engines' = {}
  <2>1. Running' = Machine!Vacant
    BY <1>2 DEF Running, Machine!Vacant
  <2> QED
    BY <1>1, <2>1 DEF Moves, Running, Machine!Next, Machine!EndEngine
<1>3. CASE Engines' # {}
  <2>1. Engines' = Engines
    BY <1>3 DEF PInv, Apart
  <2>2. Running' = Running
    BY <2>1 DEF Running
  <2> QED
    BY <1>1, <2>2 DEF Moves, Running
<1> QED
  BY <1>2, <1>3

\* The sing-boxes in gone end, and nothing else happens to the others.
LEMMA SomeEnd ==
  ASSUME PInv, NEW gone, Daemons' = Daemons, parent' = Without(parent, gone),
         wedged \ gone \subseteq wedged', UNCHANGED leaving
  PROVE  Moves
<1>1. Boxes' = Boxes \ gone /\ \A b \in Boxes' : parent'[b] = parent[b]
  BY DEF Without, Boxes
<1>2. Engines' \subseteq Engines /\ \A b \in Engines' : b \in Boxes'
  BY <1>1 DEF Engines
<1> QED
  BY <1>1, <1>2, Fewer

LEMMA NoneEnds ==
  ASSUME PInv, Daemons' = Daemons, UNCHANGED <<parent, wedged, leaving>>
  PROVE  Moves
<1>1. Engines' = Engines
  BY DEF Engines, Boxes
<1> QED
  BY <1>1, Fewer

\* Whatever process is gone, what it leaves belongs to nobody or is no longer looked at.
LEMMA GoneMoves ==
  ASSUME PInv, NEW S \in SUBSET Daemon, Gone(S), UNCHANGED wedged
  PROVE  Moves
<1>1. /\ Daemons' = Daemons \ S /\ leaving' = leaving \ S /\ Boxes' = Boxes
      /\ Engines' \subseteq Engines /\ \A b \in Engines' : parent[b] \in Daemons \cup {Nobody}
  BY GoneIs
<1>2. \A b \in Boxes : parent'[b] = IF parent[b] \in S \cap leaving THEN Stray
                                    ELSE IF parent[b] \in S \cap Daemons THEN Nobody
                                    ELSE parent[b]
  BY GoneIs
<1>3. \A b \in Engines : b \in Boxes /\ b \notin wedged /\ parent[b] \in Daemons \cup {Nobody}
  BY DEF Engines, PInv, IInv, TypeOK
<1>4. leaving \cap Daemons = {} /\ Nobody \notin leaving /\ Nobody # Stray
  BY NobodyIsNoProcess DEF PInv, IInv, TypeOK
<1>5. CASE Daemons \cap S = {}
  <2>1. \A b \in Engines' : parent'[b] = parent[b]
    BY <1>1, <1>2, <1>3, <1>4, <1>5
  <2> QED
    BY <1>1, <1>5, <2>1, Fewer
<1>6. CASE Daemons \cap S # {}
  <2>1. Daemons \subseteq S /\ Daemons' = {}
    BY <1>1, <1>6 DEF PInv, IInv, OneDaemon
  <2>2. \A b \in Engines : parent'[b] = Nobody
    BY <1>2, <1>3, <1>4, <2>1
  <2>3. Engines' = Engines
    BY <1>1, <1>3, <1>4, <2>2 DEF Engines
  <2>4. Holder' = Nobody
    BY <2>1 DEF Holder
  <2>5. Running' = [b \in DOMAIN Running |-> Nobody]
    BY <2>2, <2>3 DEF Running
  <2> QED
    BY <2>4, <2>5 DEF Moves, Running, Machine!Next, Machine!Abandon
<1> QED
  BY <1>5, <1>6

\* The daemon removes its pid file, and its engine is its own affair.
LEMMA DaemonLeaves ==
  ASSUME PInv, NEW d \in Daemons, RemovePID(d)
  PROVE  Moves
<1>1. Daemons = {d}
  BY DEF PInv, IInv, OneDaemon
<1>2. Daemons' = {} /\ leaving' = leaving \cup {d} /\ UNCHANGED <<parent, wedged>>
  BY <1>1 DEF RemovePID, Without, Daemons
<1>3. Engines' = {}
  <2>1. ASSUME NEW b \in Engines' PROVE FALSE
    <3>1. b \in Boxes /\ b \notin wedged /\ parent[b] \notin leaving /\ parent[b] # d
          /\ parent[b] # Stray
      BY <1>2, <2>1 DEF Engines, Boxes
    <3>2. parent[b] = Nobody
      BY <1>1, <3>1 DEF PInv, IInv, TypeOK
    <3> QED
      BY <3>1, <3>2 DEF PInv, IInv, OrphansAreWedged
  <2> QED
    BY <2>1
<1>4. Holder' = Nobody /\ Running' = Machine!Vacant
  BY <1>2, <1>3 DEF Holder, Running, Machine!Vacant
<1> QED
  BY <1>4 DEF Moves, Running, Machine!Next, Machine!MoveOut

\* A goroutine of the daemon starts a sing-box.
LEMMA Starts ==
  ASSUME PInv, NEW d \in Daemons, daemon[d].box = Nobody, Fresh(Box) # {},
         parent' = [b \in Boxes \cup {NewPid(Box)} |-> IF b = NewPid(Box) THEN d ELSE parent[b]],
         Daemons' = Daemons, UNCHANGED <<wedged, leaving>>
  PROVE  Moves
<1>1. NewPid(Box) \in Processes /\ NewPid(Box) \notin Boxes /\ NewPid(Box) \in Box
  BY NewBox DEF Processes
<1>2. \A b \in Boxes : b \in wedged \/ parent[b] \in leaving \cup {Stray}
  <2>1. \A b \in Boxes : parent[b] \in Owners /\ parent[b] # d
    BY NobodyIsNoProcess DEF PInv, IInv, TypeOK, Tracked, Owners
  <2> QED
    BY <2>1 DEF PInv, IInv, OneDaemon, OrphansAreWedged, Owners
<1>3. Running = Machine!Vacant
  BY <1>2 DEF Running, Engines, Machine!Vacant
<1>4. PICK p \in Processes : p = NewPid(Box)
  BY <1>1
<1>5. Engines' = {p} /\ parent'[p] = d
  <2>1. /\ Boxes' = Boxes \cup {p} /\ parent'[p] = d
        /\ \A b \in Boxes : parent'[b] = parent[b]
    BY <1>1, <1>4 DEF Boxes
  <2>2. d \notin leaving /\ d # Stray /\ p \notin wedged
    BY <1>1, <1>4, NobodyIsNoProcess DEF PInv, IInv, TypeOK
  <2> QED
    BY <1>2, <2>1, <2>2 DEF Engines
<1>6. Running' = [b \in {p} |-> d]
  BY <1>5 DEF Running
<1>7. Holder' = Holder /\ Holder = d /\ d # Nobody
  BY HolderIsTheDaemon DEF Holder
<1>8. Machine!StartEngine(p)
  BY <1>3, <1>6, <1>7 DEF Running, Machine!StartEngine
<1> QED
  BY <1>8 DEF Moves, Machine!Next

\* `mole up` starts a daemon.
LEMMA Enters ==
  ASSUME PInv, Daemonize
  PROVE  Moves
<1>1. Daemons = {} /\ \A b \in Boxes : parent[b] = Nobody => b \in wedged
  BY DEF Daemonize, PInv, IInv, OneDaemon, NoDaemonAt, OrphansAreWedged, At
<1>2. NewPid(Daemon) \in Processes /\ NewPid(Daemon) \in Daemon /\ Daemons' = {NewPid(Daemon)}
  BY <1>1, NewPidIsFresh DEF Daemonize, Daemons, Fresh, Processes
<1>3. Holder = Nobody /\ Holder' = NewPid(Daemon)
  BY <1>1, <1>2 DEF Holder
<1>4. Engines = {} /\ Engines' = Engines
  BY <1>1 DEF Daemonize, Engines, Boxes, PInv, IInv, TypeOK
<1>5. Running = Machine!Vacant /\ Running' = Running
  BY <1>4 DEF Running, Machine!Vacant
<1>6. Machine!MoveIn(NewPid(Daemon))
  BY <1>3, <1>5 DEF Running, Machine!MoveIn
<1> QED
  BY <1>2, <1>6 DEF Moves, Machine!Next

LEMMA MainMoves == ASSUME PInv, NEW d \in Daemons, Main(d) PROVE Moves
<1>1. CASE \/ WritePID(d) \/ PrepareFails(d) \/ Notify(d) \/ TakeSignal(d) \/ Waited(d)
           \/ RunReturned(d) \/ RemoveState(d)
  <2>1. Daemons' = Daemons /\ UNCHANGED <<parent, wedged, leaving>>
    BY <1>1 DEF WritePID, PrepareFails, Notify, TakeSignal, Waited, RunReturned, RemoveState,
                Daemons
  <2> QED
    BY <2>1, NoneEnds
<1>2. CASE StopEngine(d)
  <2> DEFINE gone == {daemon[d].box} \ (wedged \cup {Nobody})
  <2>1. parent' = Without(parent, gone) /\ Daemons' = Daemons /\ UNCHANGED <<wedged, leaving>>
    BY <1>2 DEF StopEngine, StopBox, Reaped, Daemons
  <2> QED
    BY <2>1, SomeEnd
<1>3. CASE RemovePID(d)
  BY <1>3, DaemonLeaves
<1> QED
  BY <1>1, <1>2, <1>3 DEF Main

\* What a leaving daemon does is not looked at.
LEMMA LeavesMoves == ASSUME PInv, NEW d \in leaving, Leaves(d) PROVE Moves
<1>1. CASE LastStart(d)
  <2>1. /\ Daemons' = Daemons /\ Boxes' = Boxes \cup {NewPid(Box)} /\ parent'[NewPid(Box)] = d
        /\ \A b \in Boxes : parent'[b] = parent[b]
        /\ UNCHANGED <<wedged, leaving>>
    BY <1>1, NewBox DEF LastStart, Daemons, Boxes
  <2>2. Engines' = Engines /\ Engines \subseteq Boxes
    BY <2>1 DEF Engines
  <2> QED
    BY <2>1, <2>2, Fewer
<1>2. CASE LastWrite(d)
  BY <1>2, NoneEnds DEF LastWrite, Daemons
<1>3. CASE LastStop(d)
  BY <1>3, SomeEnd DEF LastStop, Daemons
<1>4. CASE Exit(d)
  <2>1. {d} \in SUBSET Daemon
    BY DEF PInv, IInv, TypeOK
  <2> QED
    BY <1>4, <2>1, GoneMoves DEF Exit
<1> QED
  BY <1>1, <1>2, <1>3, <1>4 DEF Leaves

\* A goroutine starts the sing-box, or fails to.
LEMMA SpawnMoves ==
  ASSUME PInv, NEW d \in Daemons, NEW g, NEW to, Spawn(d, g) \/ StartFails(d, g, to)
  PROVE  Moves
<1>1. CASE Spawn(d, g)
  <2>1. Daemons' = Daemons
    BY <1>1 DEF Spawn, Daemons
  <2> QED
    BY <1>1, <2>1, Starts DEF Spawn
<1>2. CASE StartFails(d, g, to)
  <2>1. Daemons' = Daemons /\ UNCHANGED <<parent, wedged, leaving>>
    BY <1>2 DEF StartFails, Daemons
  <2> QED
    BY <2>1, NoneEnds
<1> QED
  BY <1>1, <1>2

LEMMA UnsettledMoves ==
  ASSUME PInv, NEW d \in Daemons, NEW g, NEW to, Unsettled(d, g, to)
  PROVE  Moves
<1> DEFINE gone == {daemon[d].box} \ (wedged \cup {Nobody})
<1>1. parent' = Without(parent, gone) /\ Daemons' = Daemons /\ UNCHANGED <<wedged, leaving>>
  BY DEF Unsettled, Reaped, Daemons
<1> QED
  BY <1>1, SomeEnd

LEMMA RunMoves == ASSUME PInv, NEW d \in Daemons, Run(d) PROVE Moves
<1>1. CASE RunStarts(d)
  BY <1>1, SpawnMoves DEF RunStarts
<1>2. CASE RunRecords(d) \/ LoopsEnded(d)
  <2>1. Daemons' = Daemons /\ UNCHANGED <<parent, wedged, leaving>>
    BY <1>2 DEF RunRecords, LoopsEnded, Daemons
  <2> QED
    BY <2>1, NoneEnds
<1>3. CASE Unsettled(d, "run", "returned")
  BY <1>3, UnsettledMoves
<1>4. CASE RunReturns(d)
  <2> DEFINE gone == {daemon[d].box} \ (wedged \cup {Nobody})
  <2>1. parent' = Without(parent, gone) /\ Daemons' = Daemons /\ UNCHANGED <<wedged, leaving>>
    BY <1>4 DEF RunReturns, StopBox, Reaped, Daemons
  <2> QED
    BY <2>1, SomeEnd
<1> QED
  BY <1>1, <1>2, <1>3, <1>4 DEF Run

LEMMA LifeMoves == ASSUME PInv, NEW d \in Daemons, Life(d) PROVE Moves
<1>1. CASE LifeEnds(d) \/ SeesExit(d) \/ BackedOff(d) \/ LifeRecords(d)
  <2>1. Daemons' = Daemons /\ UNCHANGED <<parent, wedged, leaving>>
    BY <1>1 DEF LifeEnds, SeesExit, BackedOff, LifeRecords, Daemons
  <2> QED
    BY <2>1, NoneEnds
<1>2. CASE LifeStarts(d)
  BY <1>2, SpawnMoves DEF LifeStarts
<1>3. CASE Unsettled(d, "life", "watch")
  BY <1>3, UnsettledMoves
<1> QED
  BY <1>1, <1>2, <1>3 DEF Life

\* The sweeps of `mole up` and `mole down`.
LEMMA KillMoves ==
  ASSUME PInv, NEW S, Kill(S), UNCHANGED <<wedged, leaving>>
  PROVE  Moves
<1>1. parent' = Without(parent, S \ wedged) /\ Daemons' = Daemons
  BY DEF Kill, Reaped, Daemons
<1> QED
  BY <1>1, SomeEnd

LEMMA CommandsMove == ASSUME PInv, Command PROVE Moves
<1>1. CASE \/ Up \/ Check \/ UpReady \/ UpFails \/ Down \/ Collect \/ Clear \/ Tidy \/ DownEnds
           \/ (\E w \in {"stopped", "leftovers"} : Report(w)) \/ Interrupt
  <2>1. UNCHANGED <<daemon, parent, wedged, leaving>>
    BY <1>1 DEF Up, Check, UpReady, UpFails, UpEnds, Down, Collect, Clear, Tidy, DownEnds,
                Report, Interrupt
  <2> QED
    BY <2>1, NoneEnds DEF Daemons
<1>2. CASE SweepOrphans \/ SweepAll
  BY <1>2, KillMoves DEF SweepOrphans, SweepAll
<1>3. CASE Daemonize
  BY <1>3, Enters
<1>4. CASE Term
  <2> DEFINE deaf == {d \in seen \cap Daemons : daemon[d].main \in Deaf}
  <2>1. /\ Daemons' = Daemons \ deaf /\ parent' = Orphaned(deaf)
        /\ UNCHANGED <<wedged, leaving>>
    BY <1>4 DEF Term, Daemons
  <2>2. CASE deaf = {}
    <3>1. parent' = parent
      BY <2>1, <2>2 DEF Orphaned, PInv, IInv, TypeOK, Boxes
    <3> QED
      BY <2>1, <2>2, <3>1, NoneEnds
  <2>3. CASE deaf # {}
    <3>1. deaf = Daemons
      BY <2>3 DEF PInv, IInv, OneDaemon
    <3>2. daemon' = Without(daemon, deaf)
      BY <1>4, <3>1 DEF Term, Without, Daemons
    <3>3. leaving' = leaving \ deaf
      BY <2>1, <3>1 DEF PInv, IInv, TypeOK
    <3>4. deaf \in SUBSET Daemon
      BY DEF PInv, IInv, TypeOK
    <3> HIDE DEF deaf
    <3> QED
      BY <2>1, <3>2, <3>3, <3>4, GoneMoves DEF Gone
  <2> QED
    BY <2>2, <2>3
<1>5. CASE KillDaemons
  <2>1. seen \in SUBSET Daemon
    BY DEF PInv, IInv, TypeOK
  <2> QED
    BY <1>5, <2>1, GoneMoves DEF KillDaemons
<1> QED
  BY <1>1, <1>2, <1>3, <1>4, <1>5 DEF Command

LEMMA NatureMoves == ASSUME PInv, Nature PROVE Moves
<1>1. ASSUME NEW d \in Daemons, Publish(d) \/ Signalled(d) PROVE Moves
  <2>1. Daemons' = Daemons /\ UNCHANGED <<parent, wedged, leaving>>
    BY <1>1 DEF Publish, Signalled, Daemons
  <2> QED
    BY <2>1, NoneEnds
<1>2. ASSUME NEW d \in Daemons, StopItself(d) PROVE Moves
  <2> DEFINE gone == {daemon[d].box} \ (wedged \cup {Nobody})
  <2>1. parent' = Without(parent, gone) /\ Daemons' = Daemons /\ UNCHANGED <<wedged, leaving>>
    BY <1>2 DEF StopItself, Reaped, Daemons
  <2> QED
    BY <2>1, SomeEnd
<1>3. ASSUME NEW d \in Daemons, DaemonKilled(d) PROVE Moves
  <2>1. {d} \in SUBSET Daemon
    BY DEF PInv, IInv, TypeOK
  <2> QED
    BY <1>3, <2>1, GoneMoves DEF DaemonKilled
<1>4. ASSUME NEW b \in Boxes, BoxDies(b) PROVE Moves
  <2>1. /\ parent' = Without(parent, {b}) /\ Daemons' = Daemons
        /\ wedged \ {b} \subseteq wedged' /\ UNCHANGED leaving
    BY <1>4 DEF BoxDies, Reaped, Daemons
  <2> QED
    BY <2>1, SomeEnd
<1>5. ASSUME NEW b \in Boxes, BoxWedges(b) PROVE Moves
  <2>1. UNCHANGED <<daemon, parent, leaving>> /\ wedged' = wedged \cup {b}
    BY <1>5 DEF BoxWedges
  <2>2. Engines' \subseteq Engines
    BY <2>1 DEF Engines, Boxes
  <2> QED
    BY <2>1, <2>2, Fewer DEF Daemons
<1>6. CASE Weather
  BY <1>6, NoneEnds DEF Weather, Daemons
<1> QED
  BY <1>1, <1>2, <1>3, <1>4, <1>5, <1>6 DEF Nature

LEMMA EveryStepMoves == PInv /\ [Next]_vars => Moves
<1> SUFFICES ASSUME PInv, [Next]_vars PROVE Moves
  OBVIOUS
<1>1. CASE UNCHANGED vars
  BY <1>1, NoneEnds DEF vars, Daemons
<1> QED
  BY <1>1, MainMoves, RunMoves, LifeMoves, LeavesMoves, CommandsMove, NatureMoves DEF Next

\* Whatever is killed, orphaned, wedged, started again or interrupted, the machine has one
\* tenant at a time, and it moves into an empty place: the detailed specification implements
\* Tenancy, with a daemon that has removed its pid file no longer counted as a tenant
\* (CheckAlreadyRunning, KillOrphanedSingboxes, runDaemon, Start, Stop, runDown).
THEOREM OneTenantTheorem == Spec => OneTenant
<1>1. Init => Machine!Init
  BY DEF Init, Machine!Init, Machine!Vacant, Holder, Engines, Daemons, Boxes
<1>2. PInv /\ [Next]_vars => [Machine!Next]_<<Holder, [b \in Engines |-> parent[b]]>>
  BY EveryStepMoves DEF Moves, Running
<1> QED
  BY <1>1, <1>2, Always, PTL DEF Spec, OneTenant, Machine!Spec

=============================================================================
