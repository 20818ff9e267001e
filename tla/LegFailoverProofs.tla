-------------------------- MODULE LegFailoverProofs --------------------------
(* Proofs about LegFailover: its inductive invariant, that a pin disarms the      *)
(* failover for good, and that settled traffic stays where it is.                 *)
EXTENDS LegFailover, TLAPS

USE DEF Legs, Threads, NoLeg

\* The window of fresh dials (RecordDial) keeps its bound whatever is appended.
LEMMA RecordType ==
  ASSUME NEW window \in Seq(Quality), Len(window) <= DialWindow, NEW sample \in Quality
  PROVE  Record(window, sample) \in Seq(Quality) /\ Len(Record(window, sample)) <= DialWindow
<1> DEFINE longer == Append(window, sample)
<1>1. longer \in Seq(Quality) /\ Len(longer) = Len(window) + 1
  OBVIOUS
<1>2. CASE Len(longer) > DialWindow
  <2>1. longer # << >>
    BY <1>1
  <2>2. Tail(longer) \in Seq(Quality) /\ Len(Tail(longer)) = Len(longer) - 1
    BY <1>1, <2>1
  <2> QED BY <1>1, <1>2, <2>2, CountsAssumption DEF Record
<1>3. CASE ~(Len(longer) > DialWindow)
  BY <1>1, <1>3, CountsAssumption DEF Record
<1> QED BY <1>2, <1>3

\* A dwell lies between the minimum and the cap (fallbackState.enter).
LEMMA NextDwellType == PolicyOK => NextDwell \in MinDwell..MaxDwell
  BY DwellAssumption DEF PolicyOK, NextDwell, AtMost, AtLeast

\* Every operation of fallbackState keeps its types.
LEMMA PolicyStep ==
  ASSUME PolicyOK, Enter \/ Leave \/ (fb.on /\ Extend) \/ UNCHANGED policy
  PROVE  PolicyOK'
<1>1. CASE Enter
  <2>1. NextDwell \in MinDwell..MaxDwell /\ NextDwell # 0
    BY NextDwellType, DwellAssumption
  <2> QED BY <1>1, <2>1, DwellAssumption DEF Enter, PolicyOK
<1>2. CASE Leave
  <2>1. fb' = [on |-> FALSE, dwell |-> fb.dwell] /\ fb.dwell \in {0} \cup MinDwell..MaxDwell
    BY <1>2 DEF Leave, PolicyOK
  <2>2. fb' \in [on : BOOLEAN, dwell : {0} \cup MinDwell..MaxDwell] /\ ~fb'.on
    BY <2>1
  <2> QED BY <1>2, <2>2, DwellAssumption DEF Leave, PolicyOK
<1>3. CASE fb.on /\ Extend
  BY <1>3, DwellAssumption DEF Extend, PolicyOK
<1>4. CASE UNCHANGED policy
  BY <1>4 DEF policy, PolicyOK
<1> QED BY <1>1, <1>2, <1>3, <1>4

\* A goroutine that returns stands where its caller goes on.
LEMMA ReturnType ==
  ASSUME ControlOK, NEW t \in Threads, Return(t)
  PROVE  /\ pc' = [pc EXCEPT ![t] = After(t)]
         /\ pc' \in [Threads -> PCs]
         /\ arm' \in {"warm", "fresh"}
         /\ t = "K" => After(t) \in {"sample", "idle"}
         /\ t = "S" => After(t) = (IF member = NoLeg THEN "choose" ELSE "compare")
  BY DEF ControlOK, Return, Goto, After, PCs, Urgent

\* The hand-back either returns or goes on to its selection.
LEMMA HandoffType ==
  ASSUME ControlOK, NEW t \in Threads, HandoffToPrimary(t)
  PROVE  /\ pc' \in [Threads -> PCs]
         /\ arm' \in {"warm", "fresh"}
         /\ \E next \in {After(t), "selectPrimary"} : pc' = [pc EXCEPT ![t] = next]
         /\ t = "K" => After(t) \in {"sample", "idle"}
         /\ t = "S" => After(t) = (IF member = NoLeg THEN "choose" ELSE "compare")
  BY ReturnType DEF ControlOK, HandoffToPrimary, Goto, After, PCs, Urgent

\* Entering the fallback commits a stay or returns.
LEMMA EnterType ==
  ASSUME ControlOK, PolicyOK, EnterFallback
  PROVE  /\ pc' \in [Threads -> PCs]
         /\ arm' \in {"warm", "fresh"}
         /\ \E next \in {"sample", "idle", "warmUp"} : pc' = [pc EXCEPT !["K"] = next]
         /\ PolicyOK'
<1>1. Enter \/ UNCHANGED policy
  BY DEF EnterFallback
<1>2. PolicyOK'
  BY <1>1, PolicyStep
<1>3. CASE Return("K")
  BY <1>2, <1>3, ReturnType
<1>4. CASE Goto("K", "warmUp") /\ UNCHANGED arm
  BY <1>2, <1>4 DEF Goto, ControlOK, PCs, Urgent
<1> QED BY <1>3, <1>4 DEF EnterFallback

\* The early recovery starts its probes or returns.
LEMMA RecoverType ==
  ASSUME ControlOK, RecoverPrimary
  PROVE  /\ pc' \in [Threads -> PCs]
         /\ arm' \in {"warm", "fresh"}
         /\ \E next \in {"sample", "idle", "verify"} : pc' = [pc EXCEPT !["K"] = next]
  BY ReturnType DEF ControlOK, RecoverPrimary, Goto, PCs, Urgent

\* A selection leaves the selector on a leg.
LEMMA SelectedType ==
  ASSUME RouteOK, NEW answer, NEW target \in Legs
  PROVE  Selected(answer, target) \in Legs
  BY DEF RouteOK, Selected

\* A request meets one of the qualities the model knows.
LEMMA OutcomesType ==
  ASSUME WorldOK, NEW l \in Legs
  PROVE  Outcomes(l) \subseteq Quality
  BY WeatherAssumption DEF WorldOK, Outcomes

\* Every step keeps the invariant: one step per operation, one conjunct at a time.
LEMMA StepIInv == IInv /\ [Next]_vars => IInv'
<1> SUFFICES ASSUME IInv, [Next]_vars PROVE IInv'
  OBVIOUS
<1>0. UserOK /\ RouteOK /\ PolicyOK /\ EvidenceOK /\ WorldOK /\ ControlOK /\ CarriedOK
  BY DEF IInv, TypeOK
<1>1. ASSUME NEW t \in Threads, ResetKeepaliveCount(t) PROVE IInv'
  <2>1. UserOK'
    BY <1>0, <1>1 DEF UserOK, user, ResetKeepaliveCount
  <2>2. RouteOK'
    BY <1>0, <1>1 DEF RouteOK, ResetKeepaliveCount
  <2>3. PolicyOK'
    BY <1>0, <1>1 DEF PolicyOK, policy, ResetKeepaliveCount
  <2>4. EvidenceOK'
    BY <1>0, <1>1, CountsAssumption DEF EvidenceOK, evidence, ResetKeepaliveCount
  <2>5. WorldOK'
    BY <1>0, <1>1 DEF WorldOK, world, ResetKeepaliveCount
  <2>6. ControlOK'
    BY <1>0, <1>1, ReturnType DEF ControlOK, locals, PCs, Urgent, ResetKeepaliveCount
  <2>7. CarriedOK'
    BY <1>0, <1>1, ReturnType DEF CarriedOK, ControlOK, WorldOK, user, locals, ResetKeepaliveCount
  <2> QED BY <2>1, <2>2, <2>3, <2>4, <2>5, <2>6, <2>7 DEF IInv, TypeOK
<1>2. ASSUME NEW t \in Threads, VerifyLegRecovery(t) PROVE IInv'
  <2>1. UserOK'
    BY <1>0, <1>2 DEF UserOK, user, VerifyLegRecovery
  <2>2. RouteOK'
    BY <1>0, <1>2 DEF RouteOK, VerifyLegRecovery
  <2>3. PolicyOK'
    BY <1>0, <1>2, PolicyStep DEF PolicyOK, policy, VerifyLegRecovery
  <2>4. EvidenceOK'
    BY <1>0, <1>2 DEF EvidenceOK, evidence, VerifyLegRecovery
  <2>5. WorldOK'
    BY <1>0, <1>2 DEF WorldOK, world, VerifyLegRecovery
  <2>6. ControlOK'
    BY <1>0, <1>2, ReturnType, HandoffType, CountsAssumption DEF ControlOK, locals, PCs, Urgent, VerifyLegRecovery
  <2>7. CarriedOK'
    BY <1>0, <1>2, ReturnType, HandoffType DEF CarriedOK, ControlOK, WorldOK, user, locals, VerifyLegRecovery
  <2> QED BY <2>1, <2>2, <2>3, <2>4, <2>5, <2>6, <2>7 DEF IInv, TypeOK
<1>3. ASSUME NEW t \in Threads, NEW a \in Answers, SelectPrimary(t, a) PROVE IInv'
  <2>1. UserOK'
    BY <1>0, <1>3 DEF UserOK, user, SelectPrimary
  <2>2. RouteOK'
    BY <1>0, <1>3, SelectedType DEF RouteOK, SelectPrimary
  <2>3. PolicyOK'
    BY <1>0, <1>3 DEF PolicyOK, policy, SelectPrimary
  <2>4. EvidenceOK'
    BY <1>0, <1>3 DEF EvidenceOK, evidence, SelectPrimary
  <2>5. WorldOK'
    BY <1>0, <1>3 DEF WorldOK, world, SelectPrimary
  <2>6. ControlOK'
    BY <1>0, <1>3, ReturnType DEF ControlOK, locals, PCs, Urgent, Goto, SelectPrimary
  <2>7. CarriedOK'
    BY <1>0, <1>3, ReturnType DEF CarriedOK, ControlOK, WorldOK, user, locals, Goto, SelectPrimary
  <2> QED BY <2>1, <2>2, <2>3, <2>4, <2>5, <2>6, <2>7 DEF IInv, TypeOK
<1>4. ASSUME NEW t \in Threads, ReleaseFallback(t) PROVE IInv'
  <2>1. UserOK'
    BY <1>0, <1>4 DEF UserOK, user, ReleaseFallback
  <2>2. RouteOK'
    BY <1>0, <1>4 DEF RouteOK, ReleaseFallback
  <2>3. PolicyOK'
    BY <1>0, <1>4, PolicyStep DEF PolicyOK, policy, ReleaseFallback
  <2>4. EvidenceOK'
    BY <1>0, <1>4 DEF EvidenceOK, evidence, ReleaseFallback
  <2>5. WorldOK'
    BY <1>0, <1>4 DEF WorldOK, world, ReleaseFallback
  <2>6. ControlOK'
    BY <1>0, <1>4, ReturnType DEF ControlOK, locals, PCs, Urgent, Goto, ReleaseFallback
  <2>7. CarriedOK'
    BY <1>0, <1>4, ReturnType DEF CarriedOK, ControlOK, WorldOK, user, locals, Goto, ReleaseFallback
  <2> QED BY <2>1, <2>2, <2>3, <2>4, <2>5, <2>6, <2>7 DEF IInv, TypeOK
<1>5. ASSUME StartKeepalive PROVE IInv'
  <2>1. UserOK'
    BY <1>0, <1>5 DEF UserOK, user, StartKeepalive
  <2>2. RouteOK'
    BY <1>0, <1>5 DEF RouteOK, StartKeepalive
  <2>3. PolicyOK'
    BY <1>0, <1>5 DEF PolicyOK, policy, StartKeepalive
  <2>4. EvidenceOK'
    BY <1>0, <1>5 DEF EvidenceOK, evidence, StartKeepalive
  <2>5. WorldOK'
    BY <1>0, <1>5 DEF WorldOK, world, StartKeepalive
  <2>6. ControlOK'
    BY <1>0, <1>5 DEF ControlOK, locals, PCs, Urgent, Goto, RouteOK, StartKeepalive
  <2>7. CarriedOK'
    BY <1>0, <1>5 DEF CarriedOK, ControlOK, WorldOK, user, locals, Goto, RouteOK, StartKeepalive
  <2> QED BY <2>1, <2>2, <2>3, <2>4, <2>5, <2>6, <2>7 DEF IInv, TypeOK
<1>6. ASSUME FinishKeepalive PROVE IInv'
  <2>1. UserOK'
    BY <1>0, <1>6 DEF UserOK, user, FinishKeepalive
  <2>2. RouteOK'
    BY <1>0, <1>6 DEF RouteOK, CarriedOK, FinishKeepalive
  <2>3. PolicyOK'
    BY <1>0, <1>6, EnterType DEF PolicyOK, policy, FinishKeepalive
  <2>4. EvidenceOK'
    BY <1>0, <1>6, CountsAssumption DEF EvidenceOK, evidence, AtMost, FinishKeepalive
  <2>5. WorldOK'
    BY <1>0, <1>6 DEF WorldOK, world, FinishKeepalive
  <2>6. ControlOK'
    BY <1>0, <1>6, EnterType, RecoverType, ReturnType DEF ControlOK, locals, PCs, Urgent, FinishKeepalive
  <2>7. CarriedOK'
    BY <1>0, <1>6, EnterType, RecoverType, ReturnType DEF CarriedOK, ControlOK, WorldOK, user, locals, FinishKeepalive
  <2> QED BY <2>1, <2>2, <2>3, <2>4, <2>5, <2>6, <2>7 DEF IInv, TypeOK
<1>7. ASSUME NEW a \in Answers, SelectFallback(a) PROVE IInv'
  <2>1. UserOK'
    BY <1>0, <1>7 DEF UserOK, user, SelectFallback
  <2>2. RouteOK'
    BY <1>0, <1>7, SelectedType DEF RouteOK, SelectFallback
  <2>3. PolicyOK'
    BY <1>0, <1>7 DEF PolicyOK, policy, SelectFallback
  <2>4. EvidenceOK'
    BY <1>0, <1>7 DEF EvidenceOK, evidence, SelectFallback
  <2>5. WorldOK'
    BY <1>0, <1>7 DEF WorldOK, world, SelectFallback
  <2>6. ControlOK'
    BY <1>0, <1>7 DEF ControlOK, locals, PCs, Urgent, Goto, SelectFallback
  <2>7. CarriedOK'
    BY <1>0, <1>7 DEF CarriedOK, ControlOK, WorldOK, user, locals, Goto, SelectFallback
  <2> QED BY <2>1, <2>2, <2>3, <2>4, <2>5, <2>6, <2>7 DEF IInv, TypeOK
<1>7a. ASSUME WarmFallback PROVE IInv'
  <2>1. UserOK'
    BY <1>0, <1>7a DEF UserOK, user, WarmFallback
  <2>2. RouteOK'
    BY <1>0, <1>7a DEF RouteOK, WarmFallback
  <2>3. PolicyOK'
    BY <1>0, <1>7a DEF PolicyOK, policy, WarmFallback
  <2>4. EvidenceOK'
    BY <1>0, <1>7a DEF EvidenceOK, evidence, WarmFallback
  <2>5. WorldOK'
    BY <1>0, <1>7a DEF WorldOK, world, WarmFallback
  <2>6. ControlOK'
    BY <1>0, <1>7a DEF ControlOK, locals, PCs, Urgent, Goto, WarmFallback
  <2>7. CarriedOK'
    BY <1>0, <1>7a DEF CarriedOK, ControlOK, WorldOK, user, locals, Goto, WarmFallback
  <2> QED BY <2>1, <2>2, <2>3, <2>4, <2>5, <2>6, <2>7 DEF IInv, TypeOK
<1>8. ASSUME UndoFallback PROVE IInv'
  <2>1. UserOK'
    BY <1>0, <1>8 DEF UserOK, user, UndoFallback
  <2>2. RouteOK'
    BY <1>0, <1>8 DEF RouteOK, UndoFallback
  <2>3. PolicyOK'
    BY <1>0, <1>8, PolicyStep DEF PolicyOK, policy, UndoFallback
  <2>4. EvidenceOK'
    BY <1>0, <1>8 DEF EvidenceOK, evidence, UndoFallback
  <2>5. WorldOK'
    BY <1>0, <1>8 DEF WorldOK, world, UndoFallback
  <2>6. ControlOK'
    BY <1>0, <1>8, ReturnType DEF ControlOK, locals, PCs, Urgent, UndoFallback
  <2>7. CarriedOK'
    BY <1>0, <1>8, ReturnType DEF CarriedOK, ControlOK, WorldOK, user, locals, UndoFallback
  <2> QED BY <2>1, <2>2, <2>3, <2>4, <2>5, <2>6, <2>7 DEF IInv, TypeOK
<1>9. ASSUME StartDial PROVE IInv'
  <2>1. UserOK'
    BY <1>0, <1>9 DEF UserOK, user, StartDial
  <2>2. RouteOK'
    BY <1>0, <1>9 DEF RouteOK, StartDial
  <2>3. PolicyOK'
    BY <1>0, <1>9 DEF PolicyOK, policy, StartDial
  <2>4. EvidenceOK'
    BY <1>0, <1>9 DEF EvidenceOK, evidence, StartDial
  <2>5. WorldOK'
    BY <1>0, <1>9 DEF WorldOK, world, StartDial
  <2>6. ControlOK'
    BY <1>0, <1>9 DEF ControlOK, locals, PCs, Urgent, Goto, RouteOK, StartDial
  <2>7. CarriedOK'
    BY <1>0, <1>9 DEF CarriedOK, ControlOK, WorldOK, user, locals, Goto, RouteOK, StartDial
  <2> QED BY <2>1, <2>2, <2>3, <2>4, <2>5, <2>6, <2>7 DEF IInv, TypeOK
<1>10. ASSUME SkipDial PROVE IInv'
  <2>1. UserOK'
    BY <1>0, <1>10 DEF UserOK, user, SkipDial
  <2>2. RouteOK'
    BY <1>0, <1>10 DEF RouteOK, SkipDial
  <2>3. PolicyOK'
    BY <1>0, <1>10 DEF PolicyOK, policy, SkipDial
  <2>4. EvidenceOK'
    BY <1>0, <1>10 DEF EvidenceOK, evidence, SkipDial
  <2>5. WorldOK'
    BY <1>0, <1>10 DEF WorldOK, world, SkipDial
  <2>6. ControlOK'
    BY <1>0, <1>10 DEF ControlOK, locals, PCs, Urgent, Goto, SkipDial
  <2>7. CarriedOK'
    BY <1>0, <1>10 DEF CarriedOK, ControlOK, WorldOK, user, locals, Goto, SkipDial
  <2> QED BY <2>1, <2>2, <2>3, <2>4, <2>5, <2>6, <2>7 DEF IInv, TypeOK
<1>11. ASSUME FinishDial PROVE IInv'
  <2>1. UserOK'
    BY <1>0, <1>11 DEF UserOK, user, FinishDial
  <2>2. RouteOK'
    BY <1>0, <1>11 DEF RouteOK, FinishDial
  <2>3. PolicyOK'
    BY <1>0, <1>11 DEF PolicyOK, policy, FinishDial
  <2>4. EvidenceOK'
    BY <1>0, <1>11, RecordType, OutcomesType DEF EvidenceOK, evidence, CarriedOK, FinishDial
  <2>5. WorldOK'
    BY <1>0, <1>11 DEF WorldOK, world, FinishDial
  <2>6. ControlOK'
    BY <1>0, <1>11, ReturnType DEF ControlOK, locals, PCs, Urgent, Goto, FinishDial
  <2>7. CarriedOK'
    BY <1>0, <1>11, ReturnType DEF CarriedOK, ControlOK, WorldOK, user, locals, Goto, FinishDial
  <2> QED BY <2>1, <2>2, <2>3, <2>4, <2>5, <2>6, <2>7 DEF IInv, TypeOK
<1>12. ASSUME SkipRace PROVE IInv'
  <2>1. UserOK'
    BY <1>0, <1>12 DEF UserOK, user, SkipRace
  <2>2. RouteOK'
    BY <1>0, <1>12 DEF RouteOK, SkipRace
  <2>3. PolicyOK'
    BY <1>0, <1>12 DEF PolicyOK, policy, SkipRace
  <2>4. EvidenceOK'
    BY <1>0, <1>12 DEF EvidenceOK, evidence, SkipRace
  <2>5. WorldOK'
    BY <1>0, <1>12 DEF WorldOK, world, SkipRace
  <2>6. ControlOK'
    BY <1>0, <1>12, ReturnType DEF ControlOK, locals, PCs, Urgent, SkipRace
  <2>7. CarriedOK'
    BY <1>0, <1>12, ReturnType DEF CarriedOK, ControlOK, WorldOK, user, locals, SkipRace
  <2> QED BY <2>1, <2>2, <2>3, <2>4, <2>5, <2>6, <2>7 DEF IInv, TypeOK
<1>13. ASSUME NEW a \in Answers, StartRace(a) PROVE IInv'
  <2>1. UserOK'
    BY <1>0, <1>13 DEF UserOK, user, StartRace
  <2>2. RouteOK'
    BY <1>0, <1>13 DEF RouteOK, StartRace
  <2>3. PolicyOK'
    BY <1>0, <1>13 DEF PolicyOK, policy, StartRace
  <2>4. EvidenceOK'
    BY <1>0, <1>13, CountsAssumption DEF EvidenceOK, evidence, StartRace
  <2>5. WorldOK'
    BY <1>0, <1>13 DEF WorldOK, world, StartRace
  <2>6. ControlOK'
    <3>1. race' \in [onFallback : BOOLEAN, candidate : BOOLEAN, active : BOOLEAN]
      <4>1. fb.on \in BOOLEAN
        BY <1>0 DEF PolicyOK
      <4>2. CASE a = "ok"
        <5>1. race' = [onFallback |-> fb.on, candidate |-> TRUE, active |-> TRUE]
          BY <1>13, <4>2 DEF StartRace, NoRace
        <5> QED BY <4>1, <5>1
      <4>3. CASE a # "ok"
        BY <1>0, <1>13, <4>3 DEF StartRace, ControlOK
      <4> QED BY <4>2, <4>3
    <3> QED BY <1>0, <1>13, <3>1, ReturnType DEF ControlOK, PCs, Urgent, Goto, StartRace
  <2>7. CarriedOK'
    BY <1>0, <1>13, ReturnType DEF CarriedOK, ControlOK, WorldOK, user, locals, Goto, StartRace
  <2> QED BY <2>1, <2>2, <2>3, <2>4, <2>5, <2>6, <2>7 DEF IInv, TypeOK
<1>14. ASSUME RaceRound PROVE IInv'
  <2>1. UserOK'
    BY <1>0, <1>14 DEF UserOK, user, RaceRound
  <2>2. RouteOK'
    BY <1>0, <1>14 DEF RouteOK, RaceRound
  <2>3. PolicyOK'
    BY <1>0, <1>14 DEF PolicyOK, policy, RaceRound
  <2>4. EvidenceOK'
    BY <1>0, <1>14 DEF EvidenceOK, evidence, RaceRound
  <2>5. WorldOK'
    BY <1>0, <1>14 DEF WorldOK, world, RaceRound
  <2>6. ControlOK'
    <3>1. race' \in [onFallback : BOOLEAN, candidate : BOOLEAN, active : BOOLEAN]
      <4>1. PICK c \in BOOLEAN, d \in BOOLEAN : race' = [race EXCEPT !.candidate = @ /\ c, !.active = @ /\ d]
        BY <1>14 DEF RaceRound
      <4> QED BY <1>0, <4>1 DEF ControlOK
    <3> QED BY <1>0, <1>14, <3>1, CountsAssumption DEF ControlOK, PCs, Urgent, Goto, RaceRound
  <2>7. CarriedOK'
    BY <1>0, <1>14 DEF CarriedOK, ControlOK, WorldOK, user, locals, Goto, RaceRound
  <2> QED BY <2>1, <2>2, <2>3, <2>4, <2>5, <2>6, <2>7 DEF IInv, TypeOK
<1>15. ASSUME JudgeRace PROVE IInv'
  <2>1. UserOK'
    BY <1>0, <1>15 DEF UserOK, user, JudgeRace
  <2>2. RouteOK'
    BY <1>0, <1>15 DEF RouteOK, JudgeRace
  <2>3. PolicyOK'
    BY <1>0, <1>15, EnterType DEF PolicyOK, policy, JudgeRace
  <2>4. EvidenceOK'
    BY <1>0, <1>15 DEF EvidenceOK, evidence, JudgeRace
  <2>5. WorldOK'
    BY <1>0, <1>15 DEF WorldOK, world, JudgeRace
  <2>6. ControlOK'
    BY <1>0, <1>15, EnterType, HandoffType, ReturnType DEF ControlOK, locals, PCs, Urgent, NoRace, JudgeRace
  <2>7. CarriedOK'
    BY <1>0, <1>15, EnterType, HandoffType, ReturnType DEF CarriedOK, ControlOK, WorldOK, user, locals, JudgeRace
  <2> QED BY <2>1, <2>2, <2>3, <2>4, <2>5, <2>6, <2>7 DEF IInv, TypeOK
<1>16. ASSUME ApplyPinned PROVE IInv'
  <2>1. UserOK'
    BY <1>0, <1>16 DEF UserOK, user, ApplyPinned
  <2>2. RouteOK'
    BY <1>0, <1>16 DEF RouteOK, ApplyPinned
  <2>3. PolicyOK'
    BY <1>0, <1>16 DEF PolicyOK, policy, ApplyPinned
  <2>4. EvidenceOK'
    BY <1>0, <1>16 DEF EvidenceOK, evidence, ApplyPinned
  <2>5. WorldOK'
    BY <1>0, <1>16 DEF WorldOK, world, ApplyPinned
  <2>6. ControlOK'
    BY <1>0, <1>16, PinsAssumption DEF ControlOK, locals, PCs, Urgent, Goto, UserOK, ApplyPinned
  <2>7. CarriedOK'
    BY <1>0, <1>16, PinsAssumption DEF CarriedOK, ControlOK, WorldOK, user, locals, Goto, UserOK, ApplyPinned
  <2> QED BY <2>1, <2>2, <2>3, <2>4, <2>5, <2>6, <2>7 DEF IInv, TypeOK
<1>17. ASSUME ApplyAuto PROVE IInv'
  <2>1. UserOK'
    BY <1>0, <1>17 DEF UserOK, user, ApplyAuto
  <2>2. RouteOK'
    BY <1>0, <1>17 DEF RouteOK, ApplyAuto
  <2>3. PolicyOK'
    BY <1>0, <1>17 DEF PolicyOK, policy, ApplyAuto
  <2>4. EvidenceOK'
    BY <1>0, <1>17 DEF EvidenceOK, evidence, ApplyAuto
  <2>5. WorldOK'
    BY <1>0, <1>17 DEF WorldOK, world, ApplyAuto
  <2>6. ControlOK'
    BY <1>0, <1>17 DEF ControlOK, locals, PCs, Urgent, Goto, Decided, ApplyAuto
  <2>7. CarriedOK'
    BY <1>0, <1>17 DEF CarriedOK, ControlOK, WorldOK, user, locals, Goto, Decided, ApplyAuto
  <2> QED BY <2>1, <2>2, <2>3, <2>4, <2>5, <2>6, <2>7 DEF IInv, TypeOK
<1>18. ASSUME ChooseMember PROVE IInv'
  <2>1. UserOK'
    BY <1>0, <1>18 DEF UserOK, user, ChooseMember
  <2>2. RouteOK'
    BY <1>0, <1>18 DEF RouteOK, ChooseMember
  <2>3. PolicyOK'
    BY <1>0, <1>18 DEF PolicyOK, policy, ChooseMember
  <2>4. EvidenceOK'
    BY <1>0, <1>18 DEF EvidenceOK, evidence, ChooseMember
  <2>5. WorldOK'
    BY <1>0, <1>18 DEF WorldOK, world, ChooseMember
  <2>6. ControlOK'
    BY <1>0, <1>18 DEF ControlOK, locals, PCs, Urgent, Goto, Decided, ChooseMember
  <2>7. CarriedOK'
    BY <1>0, <1>18 DEF CarriedOK, ControlOK, WorldOK, user, locals, Goto, Decided, ChooseMember
  <2> QED BY <2>1, <2>2, <2>3, <2>4, <2>5, <2>6, <2>7 DEF IInv, TypeOK
<1>19. ASSUME NEW a \in Answers, CompareSelection(a) PROVE IInv'
  <2>1. UserOK'
    BY <1>0, <1>19 DEF UserOK, user, CompareSelection
  <2>2. RouteOK'
    BY <1>0, <1>19 DEF RouteOK, CarriedOK, CompareSelection
  <2>3. PolicyOK'
    BY <1>0, <1>19 DEF PolicyOK, policy, CompareSelection
  <2>4. EvidenceOK'
    BY <1>0, <1>19 DEF EvidenceOK, evidence, CompareSelection
  <2>5. WorldOK'
    BY <1>0, <1>19 DEF WorldOK, world, CompareSelection
  <2>6. ControlOK'
    BY <1>0, <1>19 DEF ControlOK, locals, PCs, Urgent, Goto, EndTick, CompareSelection
  <2>7. CarriedOK'
    BY <1>0, <1>19 DEF CarriedOK, ControlOK, WorldOK, user, locals, Goto, EndTick, CompareSelection
  <2> QED BY <2>1, <2>2, <2>3, <2>4, <2>5, <2>6, <2>7 DEF IInv, TypeOK
<1>20. ASSUME CheckGeneration PROVE IInv'
  <2>1. UserOK'
    BY <1>0, <1>20 DEF UserOK, user, CheckGeneration
  <2>2. RouteOK'
    BY <1>0, <1>20 DEF RouteOK, CheckGeneration
  <2>3. PolicyOK'
    BY <1>0, <1>20 DEF PolicyOK, policy, CheckGeneration
  <2>4. EvidenceOK'
    BY <1>0, <1>20 DEF EvidenceOK, evidence, CheckGeneration
  <2>5. WorldOK'
    BY <1>0, <1>20 DEF WorldOK, world, CheckGeneration
  <2>6. ControlOK'
    BY <1>0, <1>20 DEF ControlOK, locals, PCs, Urgent, Goto, EndTick, CheckGeneration
  <2>7. CarriedOK'
    BY <1>0, <1>20 DEF CarriedOK, ControlOK, WorldOK, user, locals, Goto, EndTick, CheckGeneration
  <2> QED BY <2>1, <2>2, <2>3, <2>4, <2>5, <2>6, <2>7 DEF IInv, TypeOK
<1>21. ASSUME NEW a \in Answers, SelectMember(a) PROVE IInv'
  <2>1. UserOK'
    BY <1>0, <1>21 DEF UserOK, user, SelectMember
  <2>2. RouteOK'
    BY <1>0, <1>21, SelectedType DEF RouteOK, CarriedOK, SelectMember
  <2>3. PolicyOK'
    BY <1>0, <1>21 DEF PolicyOK, policy, SelectMember
  <2>4. EvidenceOK'
    BY <1>0, <1>21 DEF EvidenceOK, evidence, SelectMember
  <2>5. WorldOK'
    BY <1>0, <1>21 DEF WorldOK, world, SelectMember
  <2>6. ControlOK'
    BY <1>0, <1>21 DEF ControlOK, locals, PCs, Urgent, Goto, EndTick, SelectMember
  <2>7. CarriedOK'
    BY <1>0, <1>21 DEF CarriedOK, ControlOK, WorldOK, user, locals, Goto, EndTick, SelectMember
  <2> QED BY <2>1, <2>2, <2>3, <2>4, <2>5, <2>6, <2>7 DEF IInv, TypeOK
<1>22. ASSUME ClearLeg PROVE IInv'
  <2>1. UserOK'
    BY <1>0, <1>22, PinsAssumption DEF UserOK, user, NoUser, ClearLeg, policy, evidence, world, locals
  <2>2. RouteOK'
    BY <1>0, <1>22 DEF RouteOK, ClearLeg, NoUser, policy, evidence, world, locals
  <2>3. PolicyOK'
    BY <1>0, <1>22 DEF PolicyOK, policy, ClearLeg, NoUser, evidence, world, locals
  <2>4. EvidenceOK'
    BY <1>0, <1>22 DEF EvidenceOK, evidence, ClearLeg, NoUser, policy, world, locals
  <2>5. WorldOK'
    BY <1>0, <1>22 DEF WorldOK, world, ClearLeg, NoUser, policy, evidence, locals
  <2>6. ControlOK'
    BY <1>0, <1>22 DEF ControlOK, locals, PCs, Urgent, ClearLeg, NoUser, policy, evidence, world
  <2>7. CarriedOK'
    BY <1>0, <1>22 DEF CarriedOK, ControlOK, WorldOK, user, locals, ClearLeg, NoUser, policy, evidence, world
  <2> QED BY <2>1, <2>2, <2>3, <2>4, <2>5, <2>6, <2>7 DEF IInv, TypeOK
<1>23. ASSUME NEW want \in Pins, TruncateLeg(want) PROVE IInv'
  <2>1. UserOK'
    BY <1>0, <1>23, PinsAssumption DEF UserOK, user, NoUser, TruncateLeg, policy, evidence, world, locals
  <2>2. RouteOK'
    BY <1>0, <1>23 DEF RouteOK, TruncateLeg, NoUser, policy, evidence, world, locals
  <2>3. PolicyOK'
    BY <1>0, <1>23 DEF PolicyOK, policy, TruncateLeg, NoUser, evidence, world, locals
  <2>4. EvidenceOK'
    BY <1>0, <1>23 DEF EvidenceOK, evidence, TruncateLeg, NoUser, policy, world, locals
  <2>5. WorldOK'
    BY <1>0, <1>23 DEF WorldOK, world, TruncateLeg, NoUser, policy, evidence, locals
  <2>6. ControlOK'
    BY <1>0, <1>23 DEF ControlOK, locals, PCs, Urgent, TruncateLeg, NoUser, policy, evidence, world
  <2>7. CarriedOK'
    BY <1>0, <1>23, PinsAssumption DEF CarriedOK, ControlOK, WorldOK, user, locals, TruncateLeg, NoUser, policy, evidence, world
  <2> QED BY <2>1, <2>2, <2>3, <2>4, <2>5, <2>6, <2>7 DEF IInv, TypeOK
<1>24. ASSUME WriteLeg PROVE IInv'
  <2>1. UserOK'
    BY <1>0, <1>24 DEF UserOK, user, NoUser, WriteLeg, policy, evidence, world, locals
  <2>2. RouteOK'
    BY <1>0, <1>24 DEF RouteOK, WriteLeg, NoUser, policy, evidence, world, locals
  <2>3. PolicyOK'
    BY <1>0, <1>24 DEF PolicyOK, policy, WriteLeg, NoUser, evidence, world, locals
  <2>4. EvidenceOK'
    BY <1>0, <1>24 DEF EvidenceOK, evidence, WriteLeg, NoUser, policy, world, locals
  <2>5. WorldOK'
    BY <1>0, <1>24 DEF WorldOK, world, WriteLeg, NoUser, policy, evidence, locals
  <2>6. ControlOK'
    BY <1>0, <1>24 DEF ControlOK, locals, PCs, Urgent, WriteLeg, NoUser, policy, evidence, world
  <2>7. CarriedOK'
    BY <1>0, <1>24, PinsAssumption DEF CarriedOK, ControlOK, WorldOK, user, locals, NoUser, UserOK, WriteLeg, policy, evidence, world
  <2> QED BY <2>1, <2>2, <2>3, <2>4, <2>5, <2>6, <2>7 DEF IInv, TypeOK
<1>25. ASSUME NEW a \in Answers, SelectPinned(a) PROVE IInv'
  <2>1. UserOK'
    BY <1>0, <1>25 DEF UserOK, user, SelectPinned
  <2>2. RouteOK'
    BY <1>0, <1>25, SelectedType DEF RouteOK, CarriedOK, SelectPinned
  <2>3. PolicyOK'
    BY <1>0, <1>25 DEF PolicyOK, policy, SelectPinned
  <2>4. EvidenceOK'
    BY <1>0, <1>25 DEF EvidenceOK, evidence, SelectPinned
  <2>5. WorldOK'
    BY <1>0, <1>25 DEF WorldOK, world, SelectPinned
  <2>6. ControlOK'
    BY <1>0, <1>25 DEF ControlOK, locals, PCs, Urgent, SelectPinned
  <2>7. CarriedOK'
    BY <1>0, <1>25 DEF CarriedOK, ControlOK, WorldOK, user, locals, SelectPinned
  <2> QED BY <2>1, <2>2, <2>3, <2>4, <2>5, <2>6, <2>7 DEF IInv, TypeOK
<1>26. ASSUME Tick PROVE IInv'
  <2>1. UserOK'
    BY <1>0, <1>26 DEF UserOK, user, Tick
  <2>2. RouteOK'
    BY <1>0, <1>26 DEF RouteOK, Tick
  <2>3. PolicyOK'
    BY <1>0, <1>26, DwellAssumption DEF PolicyOK, policy, AtMost, Tick
  <2>4. EvidenceOK'
    BY <1>0, <1>26, CountsAssumption DEF EvidenceOK, evidence, AtMost, Tick
  <2>5. WorldOK'
    BY <1>0, <1>26 DEF WorldOK, world, Tick
  <2>6. ControlOK'
    BY <1>0, <1>26 DEF ControlOK, locals, PCs, Urgent, Tick
  <2>7. CarriedOK'
    BY <1>0, <1>26 DEF CarriedOK, ControlOK, WorldOK, user, locals, Tick
  <2> QED BY <2>1, <2>2, <2>3, <2>4, <2>5, <2>6, <2>7 DEF IInv, TypeOK
<1>27. ASSUME World PROVE IInv'
  <2>1. UserOK'
    BY <1>0, <1>27 DEF UserOK, user, World
  <2>2. RouteOK'
    BY <1>0, <1>27 DEF RouteOK, World
  <2>3. PolicyOK'
    BY <1>0, <1>27 DEF PolicyOK, policy, World
  <2>4. EvidenceOK'
    BY <1>0, <1>27 DEF EvidenceOK, evidence, World
  <2>5. WorldOK'
    BY <1>0, <1>27 DEF WorldOK, world, World
  <2>6. ControlOK'
    BY <1>0, <1>27 DEF ControlOK, locals, PCs, Urgent, World
  <2>7. CarriedOK'
    BY <1>0, <1>27 DEF CarriedOK, ControlOK, WorldOK, user, locals, World
  <2> QED BY <2>1, <2>2, <2>3, <2>4, <2>5, <2>6, <2>7 DEF IInv, TypeOK
<1>28. CASE UNCHANGED vars
  BY <1>0, <1>28 DEF IInv, TypeOK, CarriedOK, UserOK, RouteOK, PolicyOK, EvidenceOK, WorldOK, ControlOK, vars
<1> QED
  BY <1>1, <1>2, <1>3, <1>4, <1>5, <1>6, <1>7, <1>7a, <1>8, <1>9, <1>10, <1>11, <1>12, <1>13, <1>14, <1>15, <1>16, <1>17, <1>18, <1>19, <1>20, <1>21, <1>22, <1>23, <1>24, <1>25, <1>26, <1>27, <1>28 DEF Next, Keepalive, Scheduler, Command, Shared

\* The daemon starts unpinned, on the primary, with no evidence.
LEMMA InitIInv == Init => IInv
<1> SUFFICES ASSUME Init PROVE IInv
  OBVIOUS
<1>1. UserOK /\ RouteOK /\ WorldOK
  BY PinsAssumption DEF Init, UserOK, RouteOK, WorldOK
<1>2. PolicyOK
  BY DwellAssumption DEF Init, PolicyOK
<1>3. EvidenceOK
  BY CountsAssumption DEF Init, EvidenceOK
<1>4. ControlOK
  BY CountsAssumption DEF Init, ControlOK, NoRace, PCs, Urgent
<1>5. CarriedOK
  BY DEF Init, CarriedOK
<1> QED BY <1>1, <1>2, <1>3, <1>4, <1>5 DEF IInv, TypeOK

\* The failover's state keeps its types, a stay never dwells past the cap, and what a
\* goroutine or the command carries between two steps is what its next step expects.
THEOREM FailoverTypes == Spec => []IInv
  BY InitIInv, StepIInv, PTL DEF Spec

\* Once the moves decided before the pin have landed, no step takes the selector off the
\* pinned leg, begins a stay, or decides another move while the pin stands.
LEMMA SettledStep ==
  ASSUME IInv, [Next]_vars, NEW l \in Legs, Settled(l), pin' = l
  PROVE  Settled(l)' /\ (selector = l => selector' = l) /\ (fb'.on => fb.on)
<1>0. UserOK /\ RouteOK /\ PolicyOK /\ ControlOK /\ CarriedOK
  BY DEF IInv, TypeOK
<1>p. pin = l /\ pin # "auto" /\ pin # "both" /\ (pc["S"] # "idle" => member = l)
  BY DEF Settled
<1>s. pc["S"] \notin {"verify", "selectPrimary", "choose"} \/ member # l
  BY <1>0 DEF CarriedOK
<1>1. ASSUME NEW t \in Threads, ResetKeepaliveCount(t)
      PROVE  Settled(l)' /\ (selector = l => selector' = l) /\ (fb'.on => fb.on)
  BY <1>0, <1>p, <1>s, <1>1, ReturnType DEF Settled, ResetKeepaliveCount, user, policy, Goto, ControlOK
<1>2. ASSUME NEW t \in Threads, VerifyLegRecovery(t)
      PROVE  Settled(l)' /\ (selector = l => selector' = l) /\ (fb'.on => fb.on)
  BY <1>0, <1>p, <1>s, <1>2, ReturnType DEF Settled, VerifyLegRecovery, user, policy, HandoffToPrimary, Extend, ControlOK
<1>3. ASSUME NEW t \in Threads, NEW a \in Answers, SelectPrimary(t, a)
      PROVE  Settled(l)' /\ (selector = l => selector' = l) /\ (fb'.on => fb.on)
  BY <1>0, <1>p, <1>s, <1>3, ReturnType DEF Settled, SelectPrimary, user, policy, Goto, ControlOK
<1>4. ASSUME NEW t \in Threads, ReleaseFallback(t)
      PROVE  Settled(l)' /\ (selector = l => selector' = l) /\ (fb'.on => fb.on)
  BY <1>0, <1>p, <1>s, <1>4, ReturnType DEF Settled, ReleaseFallback, user, policy, Leave, Goto, ControlOK
<1>5. ASSUME StartKeepalive
      PROVE  Settled(l)' /\ (selector = l => selector' = l) /\ (fb'.on => fb.on)
  BY <1>0, <1>p, <1>s, <1>5 DEF Settled, StartKeepalive, user, policy, Goto, ControlOK
<1>6. ASSUME FinishKeepalive
      PROVE  Settled(l)' /\ (selector = l => selector' = l) /\ (fb'.on => fb.on)
  BY <1>0, <1>p, <1>s, <1>6, ReturnType DEF Settled, FinishKeepalive, user, policy, EnterFallback, RecoverPrimary, KeepaliveLegAction, RescueStuck
<1>7. ASSUME NEW a \in Answers, SelectFallback(a)
      PROVE  Settled(l)' /\ (selector = l => selector' = l) /\ (fb'.on => fb.on)
  BY <1>0, <1>p, <1>s, <1>7 DEF Settled, SelectFallback, user, policy
<1>7a. ASSUME WarmFallback
      PROVE  Settled(l)' /\ (selector = l => selector' = l) /\ (fb'.on => fb.on)
  BY <1>0, <1>p, <1>s, <1>7a DEF Settled, WarmFallback, user, policy, Goto, ControlOK
<1>8. ASSUME UndoFallback
      PROVE  Settled(l)' /\ (selector = l => selector' = l) /\ (fb'.on => fb.on)
  BY <1>0, <1>p, <1>s, <1>8, ReturnType DEF Settled, UndoFallback, user, policy, Leave
<1>9. ASSUME StartDial
      PROVE  Settled(l)' /\ (selector = l => selector' = l) /\ (fb'.on => fb.on)
  BY <1>0, <1>p, <1>s, <1>9 DEF Settled, StartDial, user, policy, Goto, ControlOK
<1>10. ASSUME SkipDial
      PROVE  Settled(l)' /\ (selector = l => selector' = l) /\ (fb'.on => fb.on)
  BY <1>0, <1>p, <1>s, <1>10 DEF Settled, SkipDial, user, policy, Goto, ControlOK
<1>11. ASSUME FinishDial
      PROVE  Settled(l)' /\ (selector = l => selector' = l) /\ (fb'.on => fb.on)
  BY <1>0, <1>p, <1>s, <1>11, ReturnType DEF Settled, FinishDial, user, policy, Goto, ControlOK
<1>12. ASSUME SkipRace
      PROVE  Settled(l)' /\ (selector = l => selector' = l) /\ (fb'.on => fb.on)
  BY <1>0, <1>p, <1>s, <1>12, ReturnType DEF Settled, SkipRace, user, policy, Goto, ControlOK
<1>13. ASSUME NEW a \in Answers, StartRace(a)
      PROVE  Settled(l)' /\ (selector = l => selector' = l) /\ (fb'.on => fb.on)
  BY <1>0, <1>p, <1>s, <1>13, ReturnType DEF Settled, StartRace, user, policy, Goto, ControlOK
<1>14. ASSUME RaceRound
      PROVE  Settled(l)' /\ (selector = l => selector' = l) /\ (fb'.on => fb.on)
  BY <1>0, <1>p, <1>s, <1>14 DEF Settled, RaceRound, user, policy, Goto, ControlOK
<1>15. ASSUME JudgeRace
      PROVE  Settled(l)' /\ (selector = l => selector' = l) /\ (fb'.on => fb.on)
  BY <1>0, <1>p, <1>s, <1>15, ReturnType DEF Settled, JudgeRace, user, policy, EnterFallback, HandoffToPrimary
<1>16. ASSUME ApplyPinned
      PROVE  Settled(l)' /\ (selector = l => selector' = l) /\ (fb'.on => fb.on)
  BY <1>0, <1>p, <1>s, <1>16 DEF Settled, ApplyPinned, user, policy, Goto, ControlOK
<1>17. ASSUME ApplyAuto
      PROVE  Settled(l)' /\ (selector = l => selector' = l) /\ (fb'.on => fb.on)
  BY <1>0, <1>p, <1>s, <1>17 DEF Settled, ApplyAuto, user, policy, Goto, ControlOK
<1>18. ASSUME ChooseMember
      PROVE  Settled(l)' /\ (selector = l => selector' = l) /\ (fb'.on => fb.on)
  BY <1>0, <1>p, <1>s, <1>18 DEF Settled, ChooseMember, user, policy, Goto, ControlOK
<1>19. ASSUME NEW a \in Answers, CompareSelection(a)
      PROVE  Settled(l)' /\ (selector = l => selector' = l) /\ (fb'.on => fb.on)
  BY <1>0, <1>p, <1>s, <1>19 DEF Settled, CompareSelection, user, policy, EndTick, Goto, ControlOK
<1>20. ASSUME CheckGeneration
      PROVE  Settled(l)' /\ (selector = l => selector' = l) /\ (fb'.on => fb.on)
  BY <1>0, <1>p, <1>s, <1>20 DEF Settled, CheckGeneration, user, policy, EndTick, Goto, ControlOK
<1>21. ASSUME NEW a \in Answers, SelectMember(a)
      PROVE  Settled(l)' /\ (selector = l => selector' = l) /\ (fb'.on => fb.on)
  BY <1>0, <1>p, <1>s, <1>21 DEF Settled, SelectMember, user, policy, Selected, EndTick, Goto, ControlOK
<1>22. ASSUME ClearLeg
      PROVE  Settled(l)' /\ (selector = l => selector' = l) /\ (fb'.on => fb.on)
  BY <1>0, <1>p, <1>s, <1>22 DEF Settled, ClearLeg, user, policy, Goto, ControlOK, NoUser, locals
<1>23. ASSUME NEW want \in Pins, TruncateLeg(want)
      PROVE  Settled(l)' /\ (selector = l => selector' = l) /\ (fb'.on => fb.on)
  BY <1>0, <1>p, <1>s, <1>23 DEF Settled, TruncateLeg, user, policy, Goto, ControlOK, NoUser, locals
<1>24. ASSUME WriteLeg
      PROVE  Settled(l)' /\ (selector = l => selector' = l) /\ (fb'.on => fb.on)
  BY <1>0, <1>p, <1>s, <1>24 DEF Settled, WriteLeg, user, policy, Goto, ControlOK, NoUser, locals
<1>25. ASSUME NEW a \in Answers, SelectPinned(a)
      PROVE  Settled(l)' /\ (selector = l => selector' = l) /\ (fb'.on => fb.on)
  BY <1>0, <1>p, <1>s, <1>25 DEF Settled, SelectPinned, user, policy, Selected
<1>26. ASSUME Tick
      PROVE  Settled(l)' /\ (selector = l => selector' = l) /\ (fb'.on => fb.on)
  BY <1>0, <1>p, <1>s, <1>26 DEF Settled, Tick, user, policy
<1>27. ASSUME World
      PROVE  Settled(l)' /\ (selector = l => selector' = l) /\ (fb'.on => fb.on)
  BY <1>0, <1>p, <1>s, <1>27 DEF Settled, World, user, policy
<1>28. CASE UNCHANGED vars
  BY <1>0, <1>p, <1>28 DEF Settled, vars
<1> QED
  BY <1>1, <1>2, <1>3, <1>4, <1>5, <1>6, <1>7, <1>7a, <1>8, <1>9, <1>10, <1>11, <1>12, <1>13, <1>14, <1>15, <1>16, <1>17, <1>18, <1>19, <1>20, <1>21, <1>22, <1>23, <1>24, <1>25, <1>26, <1>27, <1>28 DEF Next, Keepalive, Scheduler, Command, Shared

\* `mole leg` disarms the failover, for every policy constant and every network.
THEOREM PinDisarmsFailover == Spec => PinIsNeverOverridden
<1>1. IInv /\ [Next]_vars =>
        [\A l \in Legs : Settled(l) /\ pin' = l =>
           /\ Settled(l)'
           /\ selector = l => selector' = l
           /\ fb'.on => fb.on]_vars
  BY SettledStep
<1> QED BY <1>1, FailoverTypes, PTL DEF Spec, PinIsNeverOverridden

\* Steadiness survives every step of either goroutine, the command, time and the world.
LEMMA SteadyStep ==
  ASSUME IInv, [Next]_vars, NEW l \in Legs, Steady(l), Unpinned, ~linkBad, weather = Only(l)
  PROVE  Steady(l)'
<1> USE DEF Unpinned
<1>0. RouteOK /\ PolicyOK /\ ControlOK /\ CarriedOK /\ Steady(l) /\ Unpinned
  BY DEF IInv, TypeOK
<1>w. \A m \in Legs : Outcomes(m) = IF m = l THEN {"clean"} ELSE {"dead"}
  BY DEF Outcomes, Only
<1>1. ASSUME NEW t \in Threads, ResetKeepaliveCount(t) PROVE Steady(l)'
  BY <1>0, <1>w, <1>1 DEF Steady, ControlOK, CarriedOK, RouteOK, PolicyOK, policy, locals, ResetKeepaliveCount, Return, After, Goto
<1>2. ASSUME NEW t \in Threads, VerifyLegRecovery(t) PROVE Steady(l)'
  BY <1>0, <1>w, <1>2 DEF Steady, ControlOK, CarriedOK, RouteOK, PolicyOK, policy, locals, VerifyLegRecovery, Return, After, Goto, HandoffToPrimary, Extend
<1>3. ASSUME NEW t \in Threads, NEW a \in Answers, SelectPrimary(t, a) PROVE Steady(l)'
  BY <1>0, <1>w, <1>3 DEF Steady, ControlOK, CarriedOK, RouteOK, PolicyOK, policy, locals, SelectPrimary, Return, After, Goto, Selected
<1>4. ASSUME NEW t \in Threads, ReleaseFallback(t) PROVE Steady(l)'
  BY <1>0, <1>w, <1>4 DEF Steady, ControlOK, CarriedOK, RouteOK, PolicyOK, policy, locals, ReleaseFallback, Return, After, Goto, Leave
<1>5. ASSUME StartKeepalive PROVE Steady(l)'
  BY <1>0, <1>w, <1>5 DEF Steady, ControlOK, CarriedOK, RouteOK, PolicyOK, policy, locals, StartKeepalive, Goto
<1>6. ASSUME FinishKeepalive PROVE Steady(l)'
  BY <1>0, <1>w, <1>6, CountsAssumption DEF Steady, KeepaliveLegAction, RescueStuck, AtMost, ControlOK, CarriedOK, RouteOK, PolicyOK, policy, locals, FinishKeepalive, Return, After, Goto, EnterFallback, RecoverPrimary, Enter
<1>7. ASSUME NEW a \in Answers, SelectFallback(a) PROVE Steady(l)'
  BY <1>0, <1>w, <1>7 DEF Steady, ControlOK, CarriedOK, RouteOK, PolicyOK, policy, locals, SelectFallback, Goto, Selected
<1>7a. ASSUME WarmFallback PROVE Steady(l)'
  BY <1>0, <1>w, <1>7a DEF Steady, ControlOK, CarriedOK, RouteOK, PolicyOK, policy, locals, WarmFallback, Goto
<1>8. ASSUME UndoFallback PROVE Steady(l)'
  BY <1>0, <1>w, <1>8 DEF Steady, ControlOK, CarriedOK, RouteOK, PolicyOK, policy, locals, UndoFallback, Return, After, Goto, Leave
<1>9. ASSUME StartDial PROVE Steady(l)'
  BY <1>0, <1>w, <1>9 DEF Steady, ControlOK, CarriedOK, RouteOK, PolicyOK, policy, locals, StartDial, Goto
<1>10. ASSUME SkipDial PROVE Steady(l)'
  BY <1>0, <1>w, <1>10 DEF Steady, ControlOK, CarriedOK, RouteOK, PolicyOK, policy, locals, SkipDial, Goto
<1>11. ASSUME FinishDial PROVE Steady(l)'
  BY <1>0, <1>w, <1>11 DEF Steady, ControlOK, CarriedOK, RouteOK, PolicyOK, policy, locals, FinishDial, Return, After, Goto
<1>12. ASSUME SkipRace PROVE Steady(l)'
  BY <1>0, <1>w, <1>12 DEF Steady, ControlOK, CarriedOK, RouteOK, PolicyOK, policy, locals, SkipRace, Return, After, Goto
<1>13. ASSUME NEW a \in Answers, StartRace(a) PROVE Steady(l)'
  BY <1>0, <1>w, <1>13 DEF Steady, ControlOK, CarriedOK, RouteOK, PolicyOK, policy, locals, StartRace, Return, After, Goto
<1>14. ASSUME RaceRound PROVE Steady(l)'
  <2>1. race'.candidate => race.onFallback # fb.on
    BY <1>0, <1>w, <1>14 DEF RaceRound, Steady, ControlOK
  <2>2. race'.onFallback = race.onFallback /\ UNCHANGED <<selector, fb, pooled, leg, member, current>>
    BY <1>0, <1>14 DEF RaceRound, ControlOK, policy
  <2>3. pc["K"] = "race" /\ pc'["K"] \in {"race", "judge"} /\ pc'["S"] = pc["S"]
    BY <1>0, <1>14 DEF RaceRound, Goto, ControlOK
  <2> QED BY <1>0, <2>1, <2>2, <2>3 DEF Steady
<1>15. ASSUME JudgeRace PROVE Steady(l)'
  BY <1>0, <1>w, <1>15 DEF Steady, ControlOK, CarriedOK, RouteOK, PolicyOK, policy, locals, JudgeRace, Return, After, Goto, EnterFallback, HandoffToPrimary, Enter
<1>16. ASSUME ApplyPinned PROVE Steady(l)'
  BY <1>0, <1>w, <1>16 DEF Steady, ControlOK, CarriedOK, RouteOK, PolicyOK, policy, locals, ApplyPinned, Goto
<1>17. ASSUME ApplyAuto PROVE Steady(l)'
  BY <1>0, <1>w, <1>17 DEF Steady, ControlOK, CarriedOK, RouteOK, PolicyOK, policy, locals, ApplyAuto, Goto, Decided
<1>18. ASSUME ChooseMember PROVE Steady(l)'
  BY <1>0, <1>w, <1>18 DEF Steady, ControlOK, CarriedOK, RouteOK, PolicyOK, policy, locals, ChooseMember, Goto, Decided
<1>19. ASSUME NEW a \in Answers, CompareSelection(a) PROVE Steady(l)'
  BY <1>0, <1>w, <1>19 DEF Steady, ControlOK, CarriedOK, RouteOK, PolicyOK, policy, locals, CompareSelection, EndTick, Goto
<1>20. ASSUME CheckGeneration PROVE Steady(l)'
  BY <1>0, <1>w, <1>20 DEF Steady, ControlOK, CarriedOK, RouteOK, PolicyOK, policy, locals, CheckGeneration, EndTick, Goto
<1>21. ASSUME NEW a \in Answers, SelectMember(a) PROVE Steady(l)'
  BY <1>0, <1>w, <1>21 DEF Steady, ControlOK, CarriedOK, RouteOK, PolicyOK, policy, locals, SelectMember, EndTick, Goto, Selected
<1>22. ASSUME ClearLeg PROVE Steady(l)'
  BY <1>0, <1>w, <1>22 DEF Steady, ControlOK, CarriedOK, RouteOK, PolicyOK, policy, locals, ClearLeg, NoUser
<1>23. ASSUME NEW want \in Pins, TruncateLeg(want) PROVE Steady(l)'
  BY <1>0, <1>w, <1>23 DEF Steady, ControlOK, CarriedOK, RouteOK, PolicyOK, policy, locals, TruncateLeg, NoUser
<1>24. ASSUME WriteLeg PROVE Steady(l)'
  BY <1>0, <1>w, <1>24 DEF Steady, ControlOK, CarriedOK, RouteOK, PolicyOK, policy, locals, WriteLeg, NoUser
<1>25. ASSUME NEW a \in Answers, SelectPinned(a) PROVE Steady(l)'
  BY <1>0, <1>w, <1>25 DEF Steady, ControlOK, CarriedOK, RouteOK, PolicyOK, policy, locals, SelectPinned
<1>26. ASSUME Tick PROVE Steady(l)'
  BY <1>0, <1>w, <1>26 DEF Steady, ControlOK, CarriedOK, RouteOK, PolicyOK, policy, locals, Tick
<1>27. ASSUME World PROVE Steady(l)'
  BY <1>0, <1>w, <1>27 DEF Steady, ControlOK, CarriedOK, RouteOK, PolicyOK, policy, locals, World
<1>28. CASE UNCHANGED vars
  BY <1>28 DEF Steady, vars
<1> QED
  BY <1>1, <1>2, <1>3, <1>4, <1>5, <1>6, <1>7, <1>7a, <1>8, <1>9, <1>10, <1>11, <1>12, <1>13, <1>14, <1>15, <1>16, <1>17, <1>18, <1>19, <1>20, <1>21, <1>22, <1>23, <1>24, <1>25, <1>26, <1>27, <1>28 DEF Next, Keepalive, Scheduler, Command, Shared

\* Settled traffic is never taken off the only leg that carries it, by any interleaving of
\* the two goroutines, with lost answers of the Clash API too, and the failover's memory
\* stays with it (probeGeneration, verifyLegRecovery, considerLegFailover, apply).
THEOREM SteadyTheorem == Spec => SteadyStays
<1>1. IInv /\ [Next]_vars =>
        [\A l \in Legs : Steady(l) /\ Unpinned /\ ~linkBad /\ weather = Only(l) => Steady(l)']_vars
  BY SteadyStep
<1> QED BY <1>1, FailoverTypes, PTL DEF Spec, SteadyStays

=============================================================================
