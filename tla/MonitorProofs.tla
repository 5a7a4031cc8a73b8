---------------------------- MODULE MonitorProofs ----------------------------
(* Proofs that the properties of MonitorProperties hold of Monitor for     *)
(* every value of its constants.                                           *)
EXTENDS MonitorProperties, SequenceTheorems, TLAPS

(* Closing an alert keeps the history a sequence of outcomes of bounded    *)
(* length.                                                                 *)
LEMMA TrimType ==
    ASSUME NEW closed \in Seq(Outcome), Len(closed) <= HistoryMax, NEW outcome \in Outcome
    PROVE  /\ Trim(Append(closed, outcome)) \in Seq(Outcome)
           /\ Len(Trim(Append(closed, outcome))) <= HistoryMax
<1> DEFINE longer == Append(closed, outcome)
<1>1. longer \in Seq(Outcome) /\ longer # <<>> /\ Len(longer) = Len(closed) + 1
  BY AppendProperties
<1>2. HistoryMax \in Nat /\ Len(closed) \in Nat
  BY ConfigAssumption, LenProperties
<1>3. Tail(longer) \in Seq(Outcome) /\ Len(Tail(longer)) = Len(longer) - 1
  BY <1>1, HeadTailProperties
<1> QED
  BY <1>1, <1>2, <1>3 DEF Trim

(* What the detector returns is a severity or nothing for every finding.   *)
LEMMA AnalyzeType ==
    ASSUME NEW up \in BOOLEAN, NEW known
    PROVE  Analyze(up, known) \in Verdict
BY RatingAssumption DEF Analyze, Verdict, HostRating, Severity, Absent, Low, Medium, High, Critical

LEMMA ViewsType == TypeOK => Views \subseteq BOOLEAN
BY DEF Views, TypeOK

(* An evaluation keeps the session variables well typed.                   *)
LEMMA SampleType ==
    ASSUME TypeOK, NEW up \in BOOLEAN, Context(up)
    PROVE  /\ tracking' \in BOOLEAN /\ enforce' \in BOOLEAN
           /\ vpnAge' \in 0 .. Grace /\ baseline' \in SUBSET HostRoute
<1>1. Grace \in Nat
  BY ConfigAssumption
<1>2. Learned \in SUBSET HostRoute
  BY DEF Learned, TypeOK
<1>3. vpnAge' \in 0 .. Grace
  BY <1>1 DEF Context, TypeOK
<1>4. baseline' \in SUBSET HostRoute
  BY <1>2 DEF Context
<1>5. tracking' \in BOOLEAN /\ enforce' \in BOOLEAN
  BY Zenon DEF Context, TypeOK
<1> QED
  BY <1>3, <1>4, <1>5

(* An answer keeps everything it touches well typed.                       *)
LEMMA AnswerType ==
    ASSUME TypeOK, NEW action \in Actions, Answer(action)
    PROVE  /\ present' \in SUBSET Finding /\ vpn' \in BOOLEAN
           /\ enforce' \in BOOLEAN /\ alert' \in Alert
           /\ acked' \in SUBSET Finding /\ ackAge' \in [Finding -> 0 .. RemindAfter + 1]
           /\ wake' \in BOOLEAN /\ unchecked' \in BOOLEAN
<1>1. alert' \in Alert
  <2>1. Answered(action) \in AnsweredStatus
    BY DEF Answered, Actions, AnsweredStatus
  <2> QED
    BY <2>1 DEF Answer, TypeOK, Alert
<1>2. wake' \in BOOLEAN /\ unchecked' \in BOOLEAN
  BY DEF Answer, Signal
<1>3. CASE action = "mitigate"
  BY <1>1, <1>2, <1>3 DEF Answer, Mitigate, Enforcing, TypeOK, acks
<1>4. CASE action = "disconnect"
  BY <1>1, <1>2, <1>4 DEF Answer, Disconnect, TypeOK, acks
<1>5. CASE action = "continue"
  <2>1. 0 \in 0 .. RemindAfter + 1
    BY ConfigAssumption
  <2>2. acked' \in SUBSET Finding
    BY <1>5 DEF Answer, Acknowledge, TypeOK, AtLeast
  <2>3. ackAge' \in [Finding -> 0 .. RemindAfter + 1]
    BY <1>5, <2>1 DEF Answer, Acknowledge, TypeOK
  <2> QED
    BY <1>1, <1>2, <1>5, <2>2, <2>3 DEF Answer, Acknowledge, TypeOK, world
<1> QED
  BY <1>3, <1>4, <1>5 DEF Actions

----------------------------------------------------------------------------
(* Type correctness.                                                       *)

LEMMA NothingType == Nothing \in Verdict
BY DEF Nothing, Verdict, Absent

LEMMA EmptyType ==
    /\ NoAlert \in Alert /\ <<>> \in Seq(Outcome) /\ Len(<<>>) <= HistoryMax
    /\ [f \in Finding |-> 0] \in [Finding -> 0 .. RemindAfter + 1]
    /\ 0 \in 0 .. Grace /\ 0 \in 0 .. PollInterval
BY ConfigAssumption DEF NoAlert, Alert

LEMMA InitType == Init => TypeOK
<1> SUFFICES ASSUME Init PROVE TypeOK
  OBVIOUS
<1>1. present \in SUBSET Finding /\ vpn \in BOOLEAN
  BY DEF Init
<1>2. loop \in {"cycle", "wait", "clear"} /\ phase \in Phase /\ pending \in Actions \cup {NoAction}
  BY DEF Init, Phase, NoAction
<1>3. found \in Verdict /\ findings \in Verdict
  BY NothingType DEF Init
<1>4. waited \in 0 .. PollInterval /\ vpnAge \in 0 .. Grace
  BY EmptyType DEF Init
<1>5. alert \in Alert /\ history \in Seq(Outcome) /\ Len(history) <= HistoryMax
      /\ ackAge \in [Finding -> 0 .. RemindAfter + 1]
  BY EmptyType DEF Init
<1>6. wake \in BOOLEAN /\ sampled \in BOOLEAN /\ enforce \in BOOLEAN /\ tracking \in BOOLEAN
      /\ unchecked \in BOOLEAN
  BY Zenon DEF Init
<1>7. acked \in SUBSET Finding /\ baseline \in SUBSET HostRoute /\ tolerated \in SUBSET HostRoute
  BY DEF Init
<1> QED
  BY <1>1, <1>2, <1>3, <1>4, <1>5, <1>6, <1>7 DEF TypeOK

LEMMA EndCycleType ==
    ASSUME TypeOK, EndCycle \/ AbortCycle
    PROVE  /\ phase' \in Phase /\ loop' \in {"cycle", "wait", "clear"}
           /\ pending' \in Actions \cup {NoAction}
BY DEF EndCycle, AbortCycle, TypeOK, Phase

LEMMA CommitType ==
    ASSUME TypeOK, Commit
    PROVE  /\ findings' \in Verdict /\ found' \in Verdict /\ sampled' \in BOOLEAN
           /\ tolerated' \in SUBSET HostRoute
BY NothingType DEF Commit, HarmlessHosts, TypeOK

LEMMA CloseType ==
    ASSUME TypeOK, NEW outcome \in Outcome, Close(outcome)
    PROVE  history' \in Seq(Outcome) /\ Len(history') <= HistoryMax
BY TrimType DEF Close, TypeOK

LEMMA ClosedOutcome ==
    ASSUME TypeOK, AlertShape, alert # NoAlert
    PROVE  /\ alert.status \in {"open"} \cup AnsweredStatus
           /\ \A outcome \in {"resolved", "superseded"} :
                (IF alert.status = "open" THEN outcome ELSE alert.status) \in Outcome
           /\ (IF alert.status \in {"open", "continued"} THEN "resolved" ELSE alert.status) \in Outcome
BY DEF AlertShape, TypeOK, Alert, Outcome, AnsweredStatus

LEMMA AgeType ==
    ASSUME NEW limit \in Nat, NEW age \in 0 .. limit
    PROVE  Older(age, limit) \in 0 .. limit
BY DEF Older

LEMMA NextType == TypeOK /\ AlertShape /\ [Next]_vars => TypeOK'
<1> SUFFICES ASSUME TypeOK, AlertShape, [Next]_vars PROVE TypeOK'
  OBVIOUS
<1> USE DEF world, thread, session, acks, verdict
<1>1. CASE VpnUp
  BY <1>1 DEF VpnUp, WorldStep, TypeOK
<1>2. CASE VpnDown
  BY <1>2 DEF VpnDown, WorldStep, TypeOK
<1>3. ASSUME NEW f \in Finding, Appear(f) \/ Vanish(f) PROVE TypeOK'
  BY <1>3 DEF Appear, Vanish, WorldStep, TypeOK
<1>4. CASE Restart
  <2>1. loop' \in {"cycle", "wait", "clear"} /\ phase' \in Phase /\ pending' \in Actions \cup {NoAction}
    BY <1>4 DEF Restart, Phase, NoAction
  <2>2. found' \in Verdict /\ findings' \in Verdict
    BY <1>4, NothingType DEF Restart
  <2>3. /\ waited' \in 0 .. PollInterval /\ vpnAge' \in 0 .. Grace
        /\ alert' \in Alert /\ history' \in Seq(Outcome) /\ Len(history') <= HistoryMax
        /\ ackAge' \in [Finding -> 0 .. RemindAfter + 1]
    BY <1>4, EmptyType DEF Restart
  <2>4. /\ wake' \in BOOLEAN /\ sampled' \in BOOLEAN /\ enforce' \in BOOLEAN
        /\ tracking' \in BOOLEAN /\ unchecked' \in BOOLEAN
    BY <1>4, Zenon DEF Restart
  <2>5. acked' \in SUBSET Finding /\ baseline' \in SUBSET HostRoute /\ tolerated' \in SUBSET HostRoute
    BY <1>4 DEF Restart
  <2>6. present' \in SUBSET Finding /\ vpn' \in BOOLEAN
    BY <1>4 DEF Restart, TypeOK
  <2> QED
    BY <2>1, <2>2, <2>3, <2>4, <2>5, <2>6 DEF TypeOK
<1>5. ASSUME NEW action \in UserActions, NEW target, Perform(action, target) PROVE TypeOK'
  <2>1. action \in Actions
    BY EnvironmentAssumption
  <2>2. CASE sampled /\ Answer(action) /\ UNCHANGED <<loop, phase, pending>>
    BY <2>1, <2>2, AnswerType DEF Answer, TypeOK
  <2>3. CASE ~sampled
    BY <1>5, <2>1, <2>3 DEF Perform, TypeOK, Phase
  <2> QED
    BY <1>5, <2>2, <2>3 DEF Perform
<1>6. CASE BeginCycle
  BY <1>6 DEF BeginCycle, TypeOK, Phase
<1>7. CASE Evaluate \/ Recheck
  <2>1. PICK up \in BOOLEAN : Sample(up)
    BY <1>7, ViewsType DEF Evaluate, Recheck
  <2>2. found' \in Verdict
    BY <2>1, AnalyzeType DEF Sample
  <2>3. Context(up)
    BY <2>1 DEF Sample
  <2>4. phase' \in Phase
    BY <1>7 DEF Evaluate, Recheck, Phase
  <2> QED
    BY <1>7, <2>2, <2>3, <2>4, SampleType DEF Evaluate, Recheck, TypeOK
<1>8. CASE EvaluationRaises
  <2>1. Context(TRUE)
    BY <1>8 DEF EvaluationRaises
  <2>2. found' \in Verdict
    BY <1>8, NothingType DEF EvaluationRaises
  <2> QED
    BY <1>8, <2>1, <2>2, SampleType, EndCycleType DEF EvaluationRaises, TypeOK
<1>9. CASE Enforce
  <2>1. found' \in Verdict /\ phase' \in Phase
    BY <1>9, NothingType DEF Enforce, Phase
  <2> QED
    BY <1>9, <2>1 DEF Enforce, TypeOK
<1>10. CASE CommitClear
  <2>1. /\ alert' \in Alert /\ phase' \in Phase
        /\ history' \in Seq(Outcome) /\ Len(history') <= HistoryMax
    BY <1>10, ClosedOutcome, CloseType, EmptyType DEF CommitClear, Phase
  <2> QED
    BY <1>10, <2>1, CommitType DEF CommitClear, Commit, TypeOK
<1>11. CASE CommitKeep
  BY <1>11, CommitType DEF CommitKeep, Commit, TypeOK, Phase
<1>12. ASSUME NEW id \in AlertId, CommitRaise(id) PROVE TypeOK'
  <2>1. history' \in Seq(Outcome) /\ Len(history') <= HistoryMax
    <3>1. CASE alert = NoAlert /\ UNCHANGED history
      BY <3>1 DEF TypeOK
    <3>2. CASE alert # NoAlert
      BY <1>12, <3>2, ClosedOutcome, CloseType DEF CommitRaise
    <3> QED
      BY <1>12, <3>1, <3>2 DEF CommitRaise
  <2>2. alert' \in Alert
    <3>1. Fps \in SUBSET Finding /\ 0 \in 0 .. AutoDelay
      BY ConfigAssumption DEF Fps, AtLeast
    <3> QED
      BY <1>12, <3>1 DEF CommitRaise, Alert
  <2>3. /\ phase' \in Phase /\ loop' \in {"cycle", "wait", "clear"}
        /\ pending' \in Actions \cup {NoAction}
    BY <1>12, EndCycleType DEF CommitRaise, TypeOK, Phase
  <2>4. Commit
    BY <1>12 DEF CommitRaise
  <2> QED
    BY <2>1, <2>2, <2>3, <2>4, CommitType DEF Commit, TypeOK
<1>13. CASE AutoAct
  <2>1. AutoAction \in Actions
    BY <1>13, ConfigAssumption DEF AutoAct, AutoDue, Actions
  <2>2. Answer(AutoAction) /\ EndCycle
    BY <1>13 DEF AutoAct
  <2> QED
    BY <2>1, <2>2, AnswerType, EndCycleType DEF Answer, TypeOK
<1>14. CASE AutoSkip
  BY <1>14, EndCycleType DEF AutoSkip, TypeOK
<1>15. CASE PendingAnswer
  <2>1. pending \in Actions
    BY <1>15 DEF PendingAnswer, Answer, TypeOK, Actions, NoAction
  <2>2. Answer(pending)
    BY <1>15 DEF PendingAnswer
  <2> QED
    BY <1>15, <2>1, <2>2, AnswerType DEF PendingAnswer, Answer, TypeOK, Phase
<1>16. CASE WaitDone
  BY <1>16, EmptyType DEF WaitDone, TypeOK
<1>17. CASE Clear
  BY <1>17 DEF Clear, TypeOK
<1>18. CASE Tick
  <2>1. alert' \in Alert
    BY <1>18, AgeType, EmptyType, ConfigAssumption DEF Tick, TypeOK, Alert
  <2>2. ackAge' \in [Finding -> 0 .. RemindAfter + 1]
    <3>1. RemindAfter + 1 \in Nat
      BY ConfigAssumption
    <3>2. ackAge \in [Finding -> 0 .. RemindAfter + 1]
      BY DEF TypeOK
    <3>3. \A f \in Finding : Older(ackAge[f], RemindAfter + 1) \in 0 .. RemindAfter + 1
      BY <3>1, <3>2, AgeType
    <3> QED
      BY <1>18, <3>2, <3>3 DEF Tick
  <2>3. vpnAge' \in 0 .. Grace /\ waited' \in 0 .. PollInterval
    BY <1>18, AgeType, ConfigAssumption DEF Tick, TypeOK
  <2>4. UNCHANGED <<world, loop, wake, phase, found, pending, history, acked, enforce,
                    tracking, baseline, verdict, unchecked>>
    BY <1>18 DEF Tick
  <2>5. /\ UNCHANGED <<present, vpn, loop, wake, phase, found, findings, sampled, tolerated>>
        /\ UNCHANGED <<pending, history, acked, enforce, tracking, baseline, unchecked>>
    BY <2>4
  <2> QED
    BY <2>1, <2>2, <2>3, <2>5 DEF TypeOK
<1>19. CASE UNCHANGED vars
  BY <1>19 DEF vars, TypeOK
<1> QED
  BY <1>1, <1>2, <1>3, <1>4, <1>5, <1>6, <1>7, <1>8, <1>9, <1>10, <1>11, <1>12, <1>13,
     <1>14, <1>15, <1>16, <1>17, <1>18, <1>19 DEF Next, Environment, Users, Daemon

LEMMA InitShape == Init => AlertShape
BY DEF Init, AlertShape

(* A current alert keeps its identity and its findings; only answers give  *)
(* it another status.                                                      *)
LEMMA NextShape == TypeOK /\ AlertShape /\ [Next]_vars => AlertShape'
<1> SUFFICES ASSUME TypeOK, AlertShape, [Next]_vars PROVE AlertShape'
  OBVIOUS
<1> USE DEF AlertShape
<1>1. ASSUME NEW action \in Actions, Answer(action) PROVE AlertShape'
  <2>1. Answered(action) # "none"
    BY DEF Answered, Actions
  <2> QED
    BY <1>1, <2>1 DEF Answer, TypeOK, Alert
<1>2. CASE Tick
  BY <1>2 DEF Tick, TypeOK, Alert
<1>3. CASE AutoAct
  BY <1>1, <1>3, ConfigAssumption DEF AutoAct, AutoDue, Actions
<1>4. CASE PendingAnswer
  <2>1. pending \in Actions
    BY <1>4 DEF PendingAnswer, Answer, TypeOK, Actions, NoAction
  <2> QED
    BY <1>1, <1>4, <2>1 DEF PendingAnswer
<1>5. ASSUME NEW action \in UserActions, NEW target, Perform(action, target) PROVE AlertShape'
  <2>1. action \in Actions
    BY EnvironmentAssumption
  <2> QED
    BY <1>1, <1>5, <2>1 DEF Perform
<1>6. ASSUME NEW id \in AlertId, CommitRaise(id) PROVE AlertShape'
  <2>1. Fps # {}
    BY <1>6 DEF CommitRaise, ShouldRaise, Unacked
  <2> QED
    BY <1>6, <2>1 DEF CommitRaise
<1>7. CASE CommitClear \/ CommitKeep \/ Restart
  BY <1>7 DEF CommitClear, CommitKeep, Restart
<1>8. CASE UNCHANGED alert
  BY <1>8
<1>9. CASE \/ BeginCycle \/ Evaluate \/ EvaluationRaises \/ Enforce \/ Recheck
           \/ AutoSkip \/ WaitDone \/ Clear
  BY <1>8, <1>9 DEF BeginCycle, Evaluate, EvaluationRaises, Enforce, Recheck, AutoSkip, WaitDone, Clear
<1>10. CASE Environment /\ ~Restart
  BY <1>8, <1>10 DEF Environment, VpnUp, VpnDown, Appear, Vanish, WorldStep
<1> QED
  BY <1>2, <1>3, <1>4, <1>5, <1>6, <1>7, <1>8, <1>9, <1>10
     DEF Next, Environment, Users, Daemon, vars

(* Every variable keeps its type in every reachable state.                 *)
THEOREM TypeCorrect == Spec => []TypeOK
<1>1. Init => TypeOK /\ AlertShape
  BY InitType, InitShape
<1>2. TypeOK /\ AlertShape /\ [Next]_vars => TypeOK' /\ AlertShape'
  BY NextType, NextShape
<1> QED
  BY <1>1, <1>2, PTL DEF Spec

----------------------------------------------------------------------------
(* Enforcement and the VPN session.                                        *)

(* With the VPN down the detector reports nothing that can be mitigated.   *)
LEMMA NoMitigableWithoutVpn ==
    ASSUME NEW up \in BOOLEAN, ~up, NEW known
    PROVE  AtLeast(Analyze(up, known), Medium) \cap Mitigable = {}
<1> SUFFICES ASSUME NEW f \in Mitigable PROVE f \notin AtLeast(Analyze(up, known), Medium)
  OBVIOUS
<1>1. f \in Finding /\ f \notin Ambient
  BY RouteAssumption
<1>2. Analyze(up, known)[f] = 0
  BY <1>1 DEF Analyze, Reported, Absent
<1>3. ~(0 >= Medium)
  BY DEF Medium
<1> QED
  BY <1>2, <1>3 DEF AtLeast

LEMMA NothingIsNothing ==
    ASSUME NEW limit \in Severity
    PROVE  AtLeast(Nothing, limit) = {}
<1>1. ~(0 >= limit)
  BY DEF Severity, Low, Medium, High, Critical
<1> QED
  BY <1>1 DEF AtLeast, Nothing, Absent

(* Only an answer given to findings that can be mitigated arms the daemon. *)
LEMMA AnswerArms ==
    ASSUME TypeOK, NEW action, Answer(action), enforce'
    PROVE  enforce \/ AtLeast(findings, Medium) \cap Mitigable # {}
<1>1. CASE action = "mitigate"
  <2>1. Removable(findings, Medium) \subseteq AtLeast(findings, Medium) \cap Mitigable
    BY DEF Removable
  <2> QED
    BY <1>1, <2>1, Zenon DEF Answer, Mitigate, Enforcing
<1>2. CASE action = "disconnect"
  BY <1>2, Zenon DEF Answer, Disconnect
<1>3. CASE action = "continue"
  BY <1>3, Zenon DEF Answer, Acknowledge
<1> QED
  BY <1>1, <1>2, <1>3 DEF Answer

SessionInv == EnforceOnlyWithVpn /\ FindingsNeedSession /\ FoundNeedsSession

LEMMA InitSession == Init => SessionInv
<1> SUFFICES ASSUME Init PROVE SessionInv
  OBVIOUS
<1>1. AtLeast(findings, Medium) = {}
  BY NothingIsNothing DEF Init, Severity
<1> QED
  BY <1>1 DEF Init, SessionInv, EnforceOnlyWithVpn, FindingsNeedSession, FoundNeedsSession

LEMMA NextSession == TypeOK /\ SessionInv /\ [Next]_vars => SessionInv'
<1> SUFFICES ASSUME TypeOK, SessionInv, [Next]_vars PROVE SessionInv'
  OBVIOUS
<1> USE DEF SessionInv, EnforceOnlyWithVpn, FindingsNeedSession, FoundNeedsSession,
            world, thread, session, acks, verdict
<1>1. ASSUME NEW action, Answer(action), phase \in {"idle", "auto", "answer"},
             phase' \in {"idle", "answer"}
      PROVE  SessionInv'
  <2>1. enforce' => enforce \/ AtLeast(findings, Medium) \cap Mitigable # {}
    BY <1>1, AnswerArms
  <2>2. UNCHANGED <<tracking, findings>>
    BY <1>1 DEF Answer
  <2> QED
    BY <1>1, <2>1, <2>2 DEF AtLeast
<1>2. ASSUME NEW action \in UserActions, NEW target, Perform(action, target) PROVE SessionInv'
  BY <1>1, <1>2 DEF Perform, AtLeast
<1>3. CASE AutoAct
  BY <1>1, <1>3 DEF AutoAct, EndCycle
<1>4. CASE PendingAnswer
  BY <1>1, <1>4 DEF PendingAnswer
<1>5. CASE Evaluate \/ Recheck
  <2>1. PICK up \in BOOLEAN : Sample(up)
    BY <1>5, ViewsType DEF Evaluate, Recheck
  <2>2. Context(up) /\ found' = Analyze(up, baseline)
    BY <2>1 DEF Sample
  <2>3. phase' \in {"enforce", "commit"}
    BY <1>5 DEF Evaluate, Recheck
  <2>4. CASE up
    <3>1. tracking'
      BY <2>2, <2>4, Zenon DEF Context
    <3> QED
      BY <2>3, <3>1
  <2>5. CASE ~up
    <3>1. ~enforce'
      BY <2>2, <2>5, Zenon DEF Context
    <3>2. AtLeast(found', Medium) \cap Mitigable = {}
      BY <2>2, <2>5, NoMitigableWithoutVpn
    <3>3. AtLeast(found', Medium) = AtLeast(found, Medium)'
      BY DEF AtLeast
    <3> QED
      BY <2>3, <3>1, <3>2, <3>3
  <2> QED
    BY <2>4, <2>5
<1>6. CASE EvaluationRaises
  <2>1. tracking' /\ phase' = "idle"
    BY <1>6, Zenon DEF EvaluationRaises, Context, AbortCycle
  <2> QED
    BY <2>1
<1>7. CASE Enforce
  BY <1>7 DEF Enforce
<1>8. ASSUME Commit, UNCHANGED <<tracking, enforce>>, phase' # "commit" PROVE SessionInv'
  BY <1>8 DEF Commit, AtLeast
<1>9. CASE CommitClear \/ CommitKeep \/ \E id \in AlertId : CommitRaise(id)
  BY <1>8, <1>9 DEF CommitClear, CommitKeep, CommitRaise, Commit, AbortCycle
<1>10. CASE AutoSkip
  BY <1>10 DEF AutoSkip, EndCycle, AtLeast
<1>11. CASE BeginCycle
  BY <1>11 DEF BeginCycle
<1>12. CASE WaitDone \/ Clear \/ Tick \/ (Environment /\ ~Restart) \/ UNCHANGED vars
  <2>1. UNCHANGED <<phase, tracking, enforce, findings, found>>
    BY <1>12 DEF WaitDone, Clear, Tick, Environment, VpnUp, VpnDown, Appear, Vanish, WorldStep, vars
  <2> QED
    BY <2>1 DEF AtLeast
<1>13. CASE Restart
  <2>1. findings' = Nothing /\ ~enforce' /\ phase' = "idle"
    BY <1>13, Zenon DEF Restart
  <2>2. AtLeast(findings, Medium)' = {}
    BY <2>1, NothingIsNothing DEF AtLeast, Severity
  <2> QED
    BY <2>1, <2>2
<1> QED
  BY <1>2, <1>3, <1>4, <1>5, <1>6, <1>7, <1>9, <1>10, <1>11, <1>12, <1>13
     DEF Next, Environment, Users, Daemon

(* The daemon is armed only within a VPN session it is tracking.           *)
THEOREM EnforcementNeedsVpn == Spec => []EnforceOnlyWithVpn
<1>1. Init => TypeOK /\ AlertShape /\ SessionInv
  BY InitType, InitShape, InitSession
<1>2. TypeOK /\ AlertShape /\ SessionInv /\ [Next]_vars => (TypeOK /\ AlertShape /\ SessionInv)'
  BY NextType, NextShape, NextSession
<1>3. SessionInv => EnforceOnlyWithVpn
  BY DEF SessionInv
<1> QED
  BY <1>1, <1>2, <1>3, PTL DEF Spec

----------------------------------------------------------------------------
(* No silent threat.                                                       *)

CommitStep == CommitClear \/ CommitKeep \/ \E id \in AlertId : CommitRaise(id)

(* The only ways out of the last phase of a cycle.                         *)
LEMMA LeavingCommit ==
    ASSUME [Next]_vars, phase = "commit", phase' # "commit"
    PROVE  CommitStep \/ Restart
<1> USE DEF CommitStep
<1>1. CASE Environment
  BY <1>1 DEF Environment, VpnUp, VpnDown, Appear, Vanish, WorldStep
<1>2. CASE Users
  BY <1>2 DEF Users, Perform
<1>3. CASE Daemon
  BY <1>3 DEF Daemon, BeginCycle, Evaluate, EvaluationRaises, Enforce, Recheck, AutoAct,
              AutoSkip, PendingAnswer, WaitDone, Clear
<1>4. CASE Tick \/ UNCHANGED vars
  BY <1>4 DEF Tick, vars
<1> QED
  BY <1>1, <1>2, <1>3, <1>4 DEF Next

LEMMA StepNotSilent ==
    ASSUME TypeOK, [Next]_vars, phase = "commit", phase' # "commit", sampled'
    PROVE  Fps \subseteq alert'.fps \cup Acknowledged
<1>1. CASE CommitClear
  BY <1>1 DEF CommitClear
<1>2. CASE CommitKeep
  <2>1. CASE Unacked(Fps) = {}
    <3>1. \A f \in Fps : f \in acked /\ ~(RemindAfter > 0 /\ ackAge[f] > RemindAfter)
      BY <2>1 DEF Unacked
    <3>2. \A f \in Fps : RemindAfter \in Nat /\ ackAge[f] \in Nat
      BY ConfigAssumption DEF TypeOK, Fps, AtLeast
    <3> QED
      BY <3>1, <3>2 DEF Acknowledged
  <2>2. CASE SameSituation
    BY <1>2, <2>2 DEF CommitKeep, SameSituation
  <2> QED
    BY <1>2, <2>1, <2>2 DEF CommitKeep, ShouldRaise
<1>3. CASE \E id \in AlertId : CommitRaise(id)
  BY <1>3 DEF CommitRaise
<1>4. CASE Restart
  BY <1>4, Zenon DEF Restart
<1> QED
  BY <1>1, <1>2, <1>3, <1>4, LeavingCommit DEF CommitStep

(* Every alertable finding that a cycle commits is in the current alert or *)
(* covered by an acknowledgement that has not expired.                     *)
THEOREM NothingSilent == Spec => NoSilentThreat
<1>1. TypeOK /\ [Next]_vars =>
        [phase = "commit" /\ phase' # "commit" /\ sampled'
            => Fps \subseteq alert'.fps \cup Acknowledged]_vars
  BY StepNotSilent
<1> QED
  BY <1>1, TypeCorrect, PTL DEF Spec, NoSilentThreat

----------------------------------------------------------------------------
(* A "continue" sticks.                                                    *)

LEMMA InitContinued == Init => ContinuedIsAcked
BY DEF Init, ContinuedIsAcked, NoAlert

LEMMA NextContinued == TypeOK /\ ContinuedIsAcked /\ [Next]_vars => ContinuedIsAcked'
<1> SUFFICES ASSUME TypeOK, ContinuedIsAcked, [Next]_vars,
                    NotifyMin >= Medium, alert'.status = "continued"
             PROVE  AtLeast(findings, NotifyMin)' \subseteq acked'
  BY DEF ContinuedIsAcked
<1> USE DEF world, thread, session, acks, verdict
<1>1. CASE UNCHANGED <<findings, acked>> /\ alert'.status = alert.status
  BY <1>1 DEF ContinuedIsAcked, AtLeast
<1>2. ASSUME NEW action \in Actions, Answer(action)
      PROVE  AtLeast(findings, NotifyMin)' \subseteq acked'
  <2>1. alert # NoAlert
    BY <1>2 DEF Answer, NoAlert
  <2>2. action = "continue"
    BY <1>2, <2>1 DEF Answer, Answered, Actions, TypeOK, Alert
  <2>3. AtLeast(findings, NotifyMin) \subseteq AtLeast(findings, Medium)
    <3>1. \A f \in Finding : findings[f] \in Nat
      BY DEF TypeOK, Verdict, Severity, Absent, Low, Medium, High, Critical
    <3>2. NotifyMin \in Nat
      BY ConfigAssumption DEF Severity, Low, Medium, High, Critical
    <3> QED
      BY <3>1, <3>2 DEF AtLeast, Medium
  <2>4. findings' = findings
    BY <1>2 DEF Answer
  <2> QED
    BY <1>2, <2>2, <2>3, <2>4 DEF Answer, Acknowledge, AtLeast
<1>3. CASE Users
  <2>1. PICK action \in UserActions, target \in {NoId} \cup AlertId : Perform(action, target)
    BY <1>3 DEF Users
  <2> QED
    BY <1>1, <1>2, <2>1, EnvironmentAssumption DEF Perform
<1>4. CASE AutoAct
  BY <1>2, <1>4, ConfigAssumption DEF AutoAct, AutoDue, Actions
<1>5. CASE PendingAnswer
  <2>1. pending \in Actions
    BY <1>5 DEF PendingAnswer, Answer, TypeOK, Actions, NoAction
  <2> QED
    BY <1>2, <1>5, <2>1 DEF PendingAnswer
<1>6. CASE CommitKeep
  <2>1. findings' = found /\ acked' = acked /\ alert.status = "continued"
    BY <1>6 DEF CommitKeep, Commit
  <2>2. Fps \subseteq acked
    BY <1>6, <2>1 DEF CommitKeep, ShouldRaise, Unacked
  <2> QED
    BY <2>1, <2>2 DEF Fps, AtLeast
<1>7. CASE CommitClear \/ Restart \/ \E id \in AlertId : CommitRaise(id)
  BY <1>7 DEF CommitClear, Restart, CommitRaise, NoAlert
<1>8. CASE Tick
  BY <1>1, <1>8 DEF Tick, TypeOK, Alert
<1>9. CASE \/ BeginCycle \/ Evaluate \/ EvaluationRaises \/ Enforce \/ Recheck
           \/ AutoSkip \/ WaitDone \/ Clear \/ UNCHANGED vars
  BY <1>1, <1>9 DEF BeginCycle, Evaluate, EvaluationRaises, Enforce, Recheck, AutoSkip,
                    WaitDone, Clear, vars
<1>10. CASE Environment /\ ~Restart
  BY <1>1, <1>10 DEF Environment, VpnUp, VpnDown, Appear, Vanish, WorldStep
<1> QED
  BY <1>3, <1>4, <1>5, <1>6, <1>7, <1>8, <1>9, <1>10 DEF Next, Environment, Daemon

(* Only the raising of a new alert opens one.                              *)
LEMMA OnlyRaiseReopens ==
    ASSUME TypeOK, [Next]_vars, alert.status = "continued", alert'.status = "open"
    PROVE  \E id \in AlertId : CommitRaise(id)
<1> USE DEF world, thread, session, acks, verdict
<1>1. ASSUME NEW action \in Actions PROVE ~Answer(action)
  BY DEF Answer, Answered, Actions, TypeOK, Alert, NoAlert
<1>2. alert' # alert
  OBVIOUS
<1>3. CASE Users
  BY <1>1, <1>2, <1>3, EnvironmentAssumption DEF Users, Perform
<1>4. CASE Environment
  BY <1>2, <1>4 DEF Environment, VpnUp, VpnDown, Appear, Vanish, WorldStep, Restart, NoAlert
<1>5. CASE Tick
  BY <1>5 DEF Tick, TypeOK, Alert
<1>6. CASE AutoAct
  BY <1>1, <1>6, ConfigAssumption DEF AutoAct, AutoDue, Actions
<1>7. CASE PendingAnswer
  <2>1. pending \in Actions
    BY <1>7 DEF PendingAnswer, Answer, TypeOK, Actions, NoAction
  <2> QED
    BY <1>1, <1>7, <2>1 DEF PendingAnswer
<1>8. CASE CommitClear
  BY <1>8 DEF CommitClear, NoAlert
<1>9. CASE \/ BeginCycle \/ Evaluate \/ EvaluationRaises \/ Enforce \/ Recheck
           \/ CommitKeep \/ AutoSkip \/ WaitDone \/ Clear \/ UNCHANGED vars
  <2>1. UNCHANGED alert
    BY <1>9 DEF BeginCycle, Evaluate, EvaluationRaises, Enforce, Recheck, CommitKeep,
                AutoSkip, WaitDone, Clear, vars
  <2> QED
    BY <1>2, <2>1
<1> QED
  BY <1>3, <1>4, <1>5, <1>6, <1>7, <1>8, <1>9 DEF Next, Daemon

LEMMA StepSticks ==
    ASSUME TypeOK, ContinuedIsAcked, NotifyMin >= Medium, [Next]_vars,
           alert.status = "continued", alert'.status = "open",
           alert'.fps \subseteq AtLeast(findings, NotifyMin)
    PROVE  alert'.fps \cap acked \cap Unacked(Finding) # {}
<1>1. PICK id \in AlertId : CommitRaise(id)
  BY OnlyRaiseReopens
<1>2. alert'.fps = Fps /\ Unacked(Fps) # {}
  BY <1>1 DEF CommitRaise, ShouldRaise
<1>3. Fps \subseteq acked
  BY <1>2 DEF ContinuedIsAcked
<1>4. PICK f \in Unacked(Fps) : TRUE
  BY <1>2
<1>5. f \in Fps /\ f \in Unacked(Finding)
  BY <1>4 DEF Unacked, Fps, AtLeast
<1> QED
  BY <1>2, <1>3, <1>5

(* With the default threshold or any other from MEDIUM up, a continued     *)
(* alert is asked again only for something new or after it has expired.    *)
THEOREM ContinueHolds == ASSUME NotifyMin >= Medium PROVE Spec => ContinueSticks
<1>1. TypeOK /\ ContinuedIsAcked /\ [Next]_vars =>
        [alert.status = "continued" /\ alert'.status = "open"
            => \/ ~(alert'.fps \subseteq AtLeast(findings, NotifyMin))
               \/ alert'.fps \cap acked \cap Unacked(Finding) # {}]_vars
  BY StepSticks
<1>2. ContinuedIsAcked /\ TypeOK /\ [Next]_vars => ContinuedIsAcked'
  BY NextContinued
<1> QED
  BY <1>1, <1>2, InitContinued, TypeCorrect, PTL DEF Spec, ContinueSticks

----------------------------------------------------------------------------
(* What is silenced was listed.                                            *)

LEMMA NothingAlertable == AtLeast(Nothing, NotifyMin) = {}
BY ConfigAssumption DEF AtLeast, Nothing, Absent, Severity, Low, Medium, High, Critical

LEMMA InitListed == Init => ListedOrAcked
BY NothingAlertable DEF Init, ListedOrAcked

(* An answer changes neither the findings nor what the alert lists.        *)
LEMMA AnswerListed ==
    ASSUME TypeOK, ListedOrAcked, NEW action, Answer(action)
    PROVE  ListedOrAcked'
<1>1. findings' = findings
  BY DEF Answer, verdict
<1>2. alert'.fps = alert.fps
  BY DEF Answer, TypeOK, Alert
<1>3. acked \subseteq acked'
  BY DEF Answer, Mitigate, Disconnect, Acknowledge, acks
<1> QED
  BY <1>1, <1>2, <1>3 DEF ListedOrAcked, AtLeast

LEMMA NextListed == TypeOK /\ ListedOrAcked /\ [Next]_vars => ListedOrAcked'
<1> SUFFICES ASSUME TypeOK, ListedOrAcked, [Next]_vars PROVE ListedOrAcked'
  OBVIOUS
<1> USE DEF world, thread, session, acks, verdict
<1>1. CASE UNCHANGED <<findings, acked>> /\ alert'.fps = alert.fps
  BY <1>1 DEF ListedOrAcked, AtLeast
<1>2. CASE Users
  <2>1. PICK action \in UserActions, target \in {NoId} \cup AlertId : Perform(action, target)
    BY <1>2 DEF Users
  <2> QED
    BY <1>1, <2>1, AnswerListed DEF Perform
<1>3. CASE AutoAct \/ PendingAnswer
  BY <1>3, AnswerListed DEF AutoAct, PendingAnswer
<1>4. CASE CommitClear
  <2>1. Fps = {} /\ findings' = found
    BY <1>4 DEF CommitClear, Commit
  <2> QED
    BY <2>1 DEF ListedOrAcked, Fps, AtLeast
<1>5. CASE CommitKeep
  <2>1. findings' = found /\ UNCHANGED <<alert, acked>>
    BY <1>5 DEF CommitKeep, Commit
  <2>2. Fps \subseteq acked \/ Fps = alert.fps
    BY <1>5 DEF CommitKeep, ShouldRaise, Unacked, SameSituation
  <2> QED
    BY <2>1, <2>2 DEF ListedOrAcked, Fps, AtLeast
<1>6. ASSUME NEW id \in AlertId, CommitRaise(id) PROVE ListedOrAcked'
  <2>1. findings' = found /\ alert'.fps = Fps
    BY <1>6 DEF CommitRaise, Commit
  <2> QED
    BY <2>1 DEF ListedOrAcked, Fps, AtLeast
<1>7. CASE Restart
  <2>1. findings' = Nothing
    BY <1>7 DEF Restart
  <2>2. AtLeast(findings, NotifyMin)' = AtLeast(Nothing, NotifyMin)
    BY <2>1 DEF AtLeast
  <2> QED
    BY <2>2, NothingAlertable DEF ListedOrAcked
<1>8. CASE Tick
  BY <1>1, <1>8 DEF Tick, TypeOK, Alert
<1>9. CASE \/ BeginCycle \/ Evaluate \/ EvaluationRaises \/ Enforce \/ Recheck
           \/ AutoSkip \/ WaitDone \/ Clear \/ UNCHANGED vars
  BY <1>1, <1>9 DEF BeginCycle, Evaluate, EvaluationRaises, Enforce, Recheck, AutoSkip,
                    WaitDone, Clear, vars
<1>10. CASE Environment /\ ~Restart
  BY <1>1, <1>10 DEF Environment, VpnUp, VpnDown, Appear, Vanish, WorldStep
<1> QED
  BY <1>2, <1>3, <1>4, <1>5, <1>6, <1>7, <1>8, <1>9, <1>10 DEF Next, Environment, Daemon

(* Of the findings above the threshold an answer silences for the first    *)
(* time only those that the answered alert lists.                          *)
THEOREM SilencedListed == Spec => SilencedWasListed
<1>1. ListedOrAcked /\ [Next]_vars =>
        [(acked' \ acked) \cap AtLeast(findings, NotifyMin) \subseteq alert.fps]_vars
  BY DEF ListedOrAcked
<1>2. TypeOK /\ ListedOrAcked /\ [Next]_vars => ListedOrAcked'
  BY NextListed
<1> QED
  BY <1>1, <1>2, InitListed, TypeCorrect, PTL DEF Spec, SilencedWasListed

----------------------------------------------------------------------------
(* Suspects stay suspects.                                                 *)

LEMMA InitSuspects == Init => SuspectsOutsideBaseline
<1> SUFFICES ASSUME Init, NEW f \in HostRoute PROVE findings[f] # High /\ phase # "commit"
  BY DEF SuspectsOutsideBaseline
<1>1. f \in Finding
  BY RouteAssumption
<1> QED
  BY <1>1 DEF Init, Nothing, Absent, High

(* The detector rates a host route HIGH exactly when it is reported, the   *)
(* baseline is closed and the route is not in it.                          *)
LEMMA HostVerdict ==
    ASSUME NEW f \in HostRoute, NEW up \in BOOLEAN
    PROVE  /\ Analyze(up, baseline)[f] = High => up /\ ~Learning /\ f \notin baseline
           /\ ~Learning /\ f \notin baseline => Analyze(up, baseline)[f] \in {High, Absent}
           /\ ~up => Analyze(up, baseline)[f] = Absent
<1>1. f \in Finding /\ f \notin Ambient
  BY RouteAssumption
<1> QED
  BY <1>1 DEF Analyze, Reported, HostRating, Absent, Low, Medium, High

LEMMA NextSuspects == TypeOK /\ SuspectsOutsideBaseline /\ [Next]_vars => SuspectsOutsideBaseline'
<1> SUFFICES ASSUME TypeOK, SuspectsOutsideBaseline, [Next]_vars, NEW f \in HostRoute
             PROVE  /\ findings'[f] = High /\ phase' # "commit" => ~Learning' /\ f \notin baseline'
                    /\ phase' = "commit" /\ found'[f] = High => ~Learning' /\ f \notin baseline'
                    /\ phase' = "commit" /\ findings'[f] = High => found'[f] \in {High, Absent}
  BY DEF SuspectsOutsideBaseline
<1> USE DEF SuspectsOutsideBaseline, world, thread, session, acks, verdict
<1>0. f \in Finding
  BY RouteAssumption
<1>1. CASE Evaluate \/ Recheck
  <2>1. PICK up \in BOOLEAN : Sample(up)
    BY <1>1, ViewsType DEF Evaluate, Recheck
  <2>2. Context(up) /\ found' = Analyze(up, baseline) /\ UNCHANGED findings
    BY <1>1, <2>1 DEF Sample, Evaluate, Recheck
  <2>3. phase # "commit"
    BY <1>1 DEF Evaluate, Recheck
  <2>4. CASE up
    <3>1. ~Learning => ~Learning' /\ baseline' = baseline
      BY <2>2, <2>4 DEF Context, Learning, Learned
    <3> QED
      BY <2>2, <2>3, <3>1, HostVerdict
  <2>5. CASE ~up
    <3>1. phase' = "commit"
      <4>1. ~enforce'
        BY <2>2, <2>5, Zenon DEF Context
      <4> QED
        BY <1>1, <4>1 DEF Evaluate, Recheck, ShouldEnforce
    <3>2. found'[f] = Absent
      BY <2>2, <2>5, HostVerdict
    <3> QED
      BY <3>1, <3>2 DEF Absent, High
  <2> QED
    BY <2>4, <2>5
<1>2. CASE EvaluationRaises
  <2>1. UNCHANGED <<findings, vpnAge>> /\ baseline' = Learned /\ phase' = "idle" /\ phase # "commit"
    BY <1>2 DEF EvaluationRaises, Context, AbortCycle
  <2> QED
    BY <2>1 DEF Learning, Learned
<1>3. ASSUME Commit, phase' # "commit"
      PROVE  findings'[f] = High => ~Learning' /\ f \notin baseline'
  BY <1>3 DEF Commit, Learning
<1>4. CASE CommitClear \/ CommitKeep \/ \E id \in AlertId : CommitRaise(id)
  BY <1>3, <1>4 DEF CommitClear, CommitKeep, CommitRaise, AbortCycle
<1>5. CASE Restart
  BY <1>0, <1>5 DEF Restart, Nothing, Absent, High
<1>6. CASE UNCHANGED <<findings, vpnAge, baseline>> /\ phase # "commit" /\ phase' # "commit"
  BY <1>6 DEF Learning
<1>7. ASSUME NEW action, Answer(action) PROVE UNCHANGED <<findings, vpnAge, baseline>>
  BY <1>7 DEF Answer
<1>8. CASE Users \/ AutoAct \/ PendingAnswer
  BY <1>6, <1>7, <1>8 DEF Users, Perform, AutoAct, EndCycle, PendingAnswer
<1>9. CASE BeginCycle \/ Enforce \/ AutoSkip
  BY <1>6, <1>9 DEF BeginCycle, Enforce, AutoSkip, EndCycle
<1>10. CASE WaitDone \/ Clear \/ (Environment /\ ~Restart) \/ UNCHANGED vars
  <2>1. UNCHANGED <<phase, findings, found, vpnAge, baseline>>
    BY <1>10 DEF WaitDone, Clear, Environment, VpnUp, VpnDown, Appear, Vanish, WorldStep, vars
  <2> QED
    BY <2>1 DEF Learning
<1>11. CASE Tick
  <2>1. UNCHANGED <<phase, findings, found, baseline>>
    BY <1>11 DEF Tick
  <2>2. ~Learning => ~Learning'
    BY <1>11, ConfigAssumption DEF Tick, Learning, Older, TypeOK
  <2> QED
    BY <2>1, <2>2
<1> QED
  BY <1>1, <1>2, <1>4, <1>5, <1>8, <1>9, <1>10, <1>11 DEF Next, Environment, Daemon

(* The findings change only as a whole: by a commit, or with the process.  *)
LEMMA FindingsStep ==
    ASSUME [Next]_vars
    PROVE  UNCHANGED findings \/ (Commit /\ findings' = found) \/ findings' = Nothing
<1> USE DEF world, thread, session, acks, verdict
<1>1. ASSUME NEW action, Answer(action) PROVE UNCHANGED findings
  BY <1>1 DEF Answer
<1>2. CASE Users \/ AutoAct \/ PendingAnswer
  BY <1>1, <1>2 DEF Users, Perform, AutoAct, PendingAnswer
<1>3. CASE CommitClear \/ CommitKeep \/ \E id \in AlertId : CommitRaise(id)
  BY <1>3 DEF CommitClear, CommitKeep, CommitRaise, Commit
<1>4. CASE Environment
  BY <1>4 DEF Environment, VpnUp, VpnDown, Appear, Vanish, WorldStep, Restart
<1>5. CASE \/ BeginCycle \/ Evaluate \/ EvaluationRaises \/ Enforce \/ Recheck \/ AutoSkip
           \/ WaitDone \/ Clear \/ Tick \/ UNCHANGED vars
  BY <1>5 DEF BeginCycle, Evaluate, EvaluationRaises, Enforce, Recheck, AutoSkip, WaitDone,
              Clear, Tick, vars
<1> QED
  BY <1>2, <1>3, <1>4, <1>5 DEF Next, Daemon

LEMMA StepKeepsSuspects ==
    ASSUME SuspectsOutsideBaseline, [Next]_vars, NEW f \in HostRoute, findings[f] = High
    PROVE  findings'[f] \in {High, Absent}
<1>1. f \in Finding
  BY RouteAssumption
<1> QED
  BY <1>1, FindingsStep DEF SuspectsOutsideBaseline, Commit, Nothing

(* A route that appeared after the VPN connected does not become one that  *)
(* was there before while it stays reported, whatever fails meanwhile.     *)
THEOREM SuspectsStay == Spec => SuspectStaysSuspect
<1>1. SuspectsOutsideBaseline /\ [Next]_vars =>
        [\A f \in HostRoute : findings[f] = High => findings'[f] \in {High, Absent}]_vars
  BY StepKeepsSuspects
<1> QED
  BY <1>1, InitSuspects, NextSuspects, TypeCorrect, PTL DEF Spec, SuspectStaysSuspect

----------------------------------------------------------------------------
(* Enforcement ends only with the VPN.                                     *)

LEMMA StepKeepsEnforcing ==
    ASSUME Faults \cap {"collect", "restart"} = {}, TypeOK, [Next]_vars, enforce, ~enforce'
    PROVE  ~vpn
<1> USE DEF world, thread, session, acks, verdict
<1>1. ASSUME NEW action, Answer(action) PROVE FALSE
  BY <1>1, Zenon DEF Answer, Mitigate, Enforcing, Disconnect, Acknowledge
<1>2. CASE Users \/ AutoAct \/ PendingAnswer
  BY <1>1, <1>2 DEF Users, Perform, AutoAct, PendingAnswer
<1>3. CASE Evaluate \/ Recheck
  <2>1. PICK up \in Views : Sample(up)
    BY <1>3 DEF Evaluate, Recheck
  <2>2. ~up
    BY <2>1 DEF Sample, Context
  <2> QED
    BY <2>2 DEF Views
<1>4. CASE EvaluationRaises
  BY <1>4 DEF EvaluationRaises, Context
<1>5. CASE Restart
  BY <1>5 DEF Restart
<1>6. CASE CommitClear \/ CommitKeep \/ \E id \in AlertId : CommitRaise(id)
  BY <1>6 DEF CommitClear, CommitKeep, CommitRaise, Commit
<1>7. CASE \/ BeginCycle \/ Enforce \/ AutoSkip \/ WaitDone \/ Clear \/ Tick
           \/ (Environment /\ ~Restart) \/ UNCHANGED vars
  BY <1>7 DEF BeginCycle, Enforce, AutoSkip, WaitDone, Clear, Tick, Environment, VpnUp,
              VpnDown, Appear, Vanish, WorldStep, vars
<1> QED
  BY <1>2, <1>3, <1>4, <1>5, <1>6, <1>7 DEF Next, Environment, Daemon

(* As long as snapshots do not fail and the process lives, enforcement     *)
(* that is on stays on until the VPN is down.                              *)
THEOREM EnforcementLasts ==
    ASSUME Faults \cap {"collect", "restart"} = {}
    PROVE  Spec => EnforcementOnlyStopsWithVpn
<1>1. TypeOK /\ [Next]_vars => [enforce /\ ~enforce' => ~vpn]_vars
  BY StepKeepsEnforcing
<1> QED
  BY <1>1, TypeCorrect, PTL DEF Spec, EnforcementOnlyStopsWithVpn

----------------------------------------------------------------------------
(* Answers are rechecked.                                                  *)

RecheckInv == AnswerIsRechecked /\ LockHolder

LEMMA InitRecheck == Init => RecheckInv
BY DEF Init, RecheckInv, AnswerIsRechecked, LockHolder

LEMMA NextRecheck == TypeOK /\ RecheckInv /\ [Next]_vars => RecheckInv'
<1> SUFFICES ASSUME TypeOK, RecheckInv, [Next]_vars PROVE RecheckInv'
  OBVIOUS
<1> USE DEF RecheckInv, AnswerIsRechecked, LockHolder, world, thread, session, acks, verdict
<1>1. ASSUME NEW action, Answer(action) PROVE wake'
  BY <1>1, Zenon DEF Answer, Signal
<1>2. ASSUME NEW action \in UserActions, NEW target, Perform(action, target) PROVE RecheckInv'
  <2>1. action # NoAction
    BY EnvironmentAssumption DEF Actions, NoAction
  <2>2. CASE sampled /\ Answer(action) /\ UNCHANGED <<loop, phase, pending>>
    BY <1>1, <1>2, <2>2 DEF Perform
  <2>3. CASE ~sampled
    BY <1>2, <2>1, <2>3 DEF Perform
  <2> QED
    BY <1>2, <2>2, <2>3 DEF Perform
<1>3. CASE AutoAct
  BY <1>1, <1>3 DEF AutoAct, EndCycle
<1>4. CASE PendingAnswer
  BY <1>1, <1>4 DEF PendingAnswer
<1>5. CASE AutoSkip
  BY <1>5 DEF AutoSkip, EndCycle
<1>6. CASE EvaluationRaises
  BY <1>6 DEF EvaluationRaises, AbortCycle
<1>7. ASSUME NEW id \in AlertId, CommitRaise(id) PROVE RecheckInv'
  BY <1>7 DEF CommitRaise, Commit, AbortCycle
<1>8. CASE CommitClear \/ CommitKeep
  BY <1>8 DEF CommitClear, CommitKeep, Commit
<1>9. CASE Evaluate \/ Recheck \/ Enforce
  BY <1>9 DEF Evaluate, Recheck, Enforce
<1>10. CASE BeginCycle
  BY <1>10 DEF BeginCycle
<1>11. CASE WaitDone \/ Clear
  BY <1>11 DEF WaitDone, Clear
<1>12. CASE Restart
  BY <1>12 DEF Restart
<1>13. CASE Tick \/ (Environment /\ ~Restart) \/ UNCHANGED vars
  BY <1>13 DEF Tick, Environment, VpnUp, VpnDown, Appear, Vanish, WorldStep, vars
<1> QED
  BY <1>2, <1>3, <1>4, <1>5, <1>6, <1>7, <1>8, <1>9, <1>10, <1>11, <1>12, <1>13
     DEF Next, Environment, Users, Daemon

(* No answer waits for the poll timer to be followed by a fresh snapshot.  *)
THEOREM AnswersRechecked == Spec => []AnswerIsRechecked
<1>1. RecheckInv => AnswerIsRechecked
  BY DEF RecheckInv
<1> QED
  BY <1>1, InitRecheck, NextRecheck, TypeCorrect, PTL DEF Spec

----------------------------------------------------------------------------
(* The daemon implements AlertBoard.                                       *)

LEMMA BoardInit == Init => Board!Init
BY DEF Init, Board!Init, NoAlert

LEMMA BoardClose ==
    ASSUME NEW outcome, Close(outcome)
    PROVE  Board!Record(outcome)
BY DEF Close, Trim, Board!Record, Board!Latest

LEMMA BoardAnswer ==
    ASSUME TypeOK, AlertShape, NEW action \in Actions, Answer(action)
    PROVE  [Board!Next]_(Board!board)
<1>1. UNCHANGED history
  BY DEF Answer
<1>2. CASE alert = NoAlert
  BY <1>1, <1>2 DEF Answer, Board!board
<1>3. CASE alert # NoAlert
  <2>1. Answered(action) \in Board!Answers
    BY DEF Answered, Actions, Board!Answers
  <2>2. /\ alert.status # "none"
        /\ alert'.status = Answered(action) /\ alert'.id = alert.id /\ alert'.fps = alert.fps
    BY <1>3 DEF Answer, AlertShape, TypeOK, Alert
  <2> QED
    BY <1>1, <2>1, <2>2 DEF Board!Next, Board!Answer
<1> QED
  BY <1>2, <1>3

LEMMA BoardRaise ==
    ASSUME TypeOK, AlertShape, NEW new \in AlertId, CommitRaise(new)
    PROVE  Board!Raise(new, Fps)
<1>1. Fps # {}
  BY DEF CommitRaise, ShouldRaise, Unacked
<1>2. alert'.id = new /\ alert'.status = "open" /\ alert'.fps = Fps /\ new # alert.id
  BY DEF CommitRaise
<1>3. CASE alert = NoAlert /\ UNCHANGED history
  BY <1>1, <1>2, <1>3 DEF Board!Raise, NoAlert
<1>4. CASE alert # NoAlert /\ alert.status = "open" /\ Close("superseded")
  BY <1>1, <1>2, <1>4, BoardClose DEF Board!Raise
<1>5. CASE alert # NoAlert /\ alert.status # "open" /\ Close(alert.status)
  <2>1. alert.status \in Board!Answers
    BY <1>5, ClosedOutcome DEF AnsweredStatus, Board!Answers
  <2> QED
    BY <1>1, <1>2, <1>5, <2>1, BoardClose DEF Board!Raise
<1> QED
  BY <1>3, <1>4, <1>5 DEF CommitRaise

LEMMA BoardStep == TypeOK /\ AlertShape /\ [Next]_vars => [Board!Next]_(Board!board)
<1> SUFFICES ASSUME TypeOK, AlertShape, [Next]_vars PROVE [Board!Next]_(Board!board)
  OBVIOUS
<1> USE DEF world, thread, session, acks, verdict
<1>1. CASE Users
  <2>1. PICK action \in UserActions, target \in {NoId} \cup AlertId : Perform(action, target)
    BY <1>1 DEF Users
  <2>2. CASE Answer(action)
    BY <2>2, BoardAnswer, EnvironmentAssumption
  <2>3. CASE UNCHANGED <<alert, history>>
    BY <2>3 DEF Board!board
  <2> QED
    BY <2>1, <2>2, <2>3 DEF Perform
<1>2. CASE AutoAct
  BY <1>2, BoardAnswer, ConfigAssumption DEF AutoAct, AutoDue, Actions
<1>3. CASE PendingAnswer
  <2>1. pending \in Actions
    BY <1>3 DEF PendingAnswer, Answer, TypeOK, Actions, NoAction
  <2> QED
    BY <1>3, <2>1, BoardAnswer DEF PendingAnswer
<1>4. CASE \E id \in AlertId : CommitRaise(id)
  <2>1. Fps \in SUBSET Finding
    BY DEF Fps, AtLeast
  <2> QED
    BY <1>4, <2>1, BoardRaise DEF Board!Next
<1>5. CASE CommitClear
  <2>1. alert # NoAlert /\ alert' = NoAlert
    BY <1>5 DEF CommitClear
  <2>2. CASE alert.status \in {"open", "continued"} /\ Close("resolved")
    BY <2>1, <2>2, BoardClose DEF Board!Next, Board!Retire, NoAlert
  <2>3. CASE alert.status \notin {"open", "continued"} /\ Close(alert.status)
    <3>1. alert.status \in {"mitigated", "disconnected"}
      BY <2>1, <2>3, ClosedOutcome DEF AnsweredStatus
    <3> QED
      BY <2>1, <2>3, <3>1, BoardClose DEF Board!Next, Board!Retire, NoAlert
  <2> QED
    BY <1>5, <2>2, <2>3 DEF CommitClear
<1>6. CASE Restart
  BY <1>6 DEF Restart, Board!Next, Board!Lose, NoAlert
<1>7. CASE Tick
  <2>1. UNCHANGED history /\ alert'.id = alert.id /\ alert'.status = alert.status /\ alert'.fps = alert.fps
    BY <1>7 DEF Tick, TypeOK, Alert
  <2> QED
    BY <2>1 DEF Board!board
<1>8. CASE UNCHANGED <<alert, history>>
  BY <1>8 DEF Board!board
<1>9. CASE \/ BeginCycle \/ Evaluate \/ EvaluationRaises \/ Enforce \/ Recheck \/ CommitKeep
           \/ AutoSkip \/ WaitDone \/ Clear \/ (Environment /\ ~Restart) \/ UNCHANGED vars
  BY <1>8, <1>9 DEF BeginCycle, Evaluate, EvaluationRaises, Enforce, Recheck, CommitKeep,
                    AutoSkip, WaitDone, Clear, Environment, VpnUp, VpnDown, Appear, Vanish,
                    WorldStep, vars
<1> QED
  BY <1>1, <1>2, <1>3, <1>4, <1>5, <1>6, <1>7, <1>9 DEF Next, Environment, Daemon

(* What users see of alerts is an AlertBoard.                              *)
THEOREM Refinement == Spec => ImplementsBoard
<1>1. TypeOK /\ AlertShape /\ [Next]_vars => (TypeOK /\ AlertShape)'
  BY NextType, NextShape
<1> QED
  BY <1>1, InitType, InitShape, BoardInit, BoardStep, PTL DEF Spec, ImplementsBoard, Board!Spec

----------------------------------------------------------------------------
(* What was reported without alarm.                                        *)

SessionMemory == ToleratedIsLearned /\ LearnedForSession

LEMMA InitMemory == Init => SessionMemory
<1> SUFFICES ASSUME Init PROVE SessionMemory
  OBVIOUS
<1>1. tolerated = {} /\ phase # "commit"
  BY DEF Init
<1> QED
  BY <1>1 DEF SessionMemory, ToleratedIsLearned, LearnedForSession

(* A host route rated LOW or MEDIUM is in the baseline that the same       *)
(* evaluation leaves.                                                      *)
LEMMA HarmlessIsLearned ==
    ASSUME NEW f \in HostRoute, Context(TRUE), Analyze(TRUE, baseline)[f] \in {Low, Medium}
    PROVE  f \in baseline'
<1>1. f \in Finding
  BY RouteAssumption
<1>2. baseline' = Learned
  BY DEF Context
<1>3. f \in present
  BY <1>1 DEF Analyze, Reported, Absent, Low, Medium
<1>4. CASE Learning
  BY <1>2, <1>3, <1>4 DEF Learned
<1>5. CASE ~Learning
  <2>1. Analyze(TRUE, baseline)[f] # High
    <3>1. \A rating \in {Low, Medium} : rating # High
      BY DEF Low, Medium, High
    <3> QED
      BY <3>1
  <2>2. Analyze(TRUE, baseline)[f] = HostRating(f, baseline)
    BY <1>1, <1>3 DEF Analyze, Reported
  <2>3. f \in baseline
    BY <1>5, <2>1, <2>2, Zenon DEF HostRating
  <2> QED
    BY <1>2, <1>5, <2>3 DEF Learned
<1> QED
  BY <1>4, <1>5

(* While the session is tracked an evaluation only adds to the baseline.   *)
LEMMA BaselineGrows ==
    ASSUME Context(TRUE)
    PROVE  baseline \subseteq baseline'
BY DEF Context, Learned

LEMMA NextMemory ==
    TypeOK /\ SuspectsOutsideBaseline /\ SessionMemory /\ [Next]_vars => SessionMemory'
<1> SUFFICES ASSUME TypeOK, SuspectsOutsideBaseline, SessionMemory, [Next]_vars
             PROVE  SessionMemory'
  OBVIOUS
<1> USE DEF SessionMemory, ToleratedIsLearned, LearnedForSession,
            world, thread, session, acks, verdict
<1>1. CASE Evaluate \/ Recheck
  <2>1. PICK up \in BOOLEAN : Sample(up)
    BY <1>1, ViewsType DEF Evaluate, Recheck
  <2>2. Context(up) /\ found' = Analyze(up, baseline)
    BY <2>1 DEF Sample
  <2>3. UNCHANGED <<findings, tolerated>> /\ phase # "commit"
    BY <1>1 DEF Evaluate, Recheck
  <2>4. CASE up
    <3>1. Context(TRUE) /\ tracking' /\ found' = Analyze(TRUE, baseline)
      BY <2>2, <2>4, Zenon DEF Context
    <3>2. baseline \subseteq baseline'
      BY <3>1, BaselineGrows
    <3>3. tolerated \subseteq baseline
      BY <2>3
    <3>4. HarmlessHosts' \subseteq baseline'
      BY <3>1, HarmlessIsLearned DEF HarmlessHosts
    <3> QED
      BY <2>3, <3>1, <3>2, <3>3, <3>4
  <2>5. CASE ~up
    <3>1. ~tracking' /\ ~enforce'
      BY <2>2, <2>5, Zenon DEF Context
    <3>2. phase' = "commit"
      BY <1>1, <3>1 DEF Evaluate, Recheck, ShouldEnforce
    <3>3. \A f \in HostRoute : found'[f] = Absent
      BY <2>2, <2>5, HostVerdict
    <3>4. HarmlessHosts' = {}
      BY <3>3 DEF HarmlessHosts, Absent, Low, Medium
    <3> QED
      BY <2>3, <3>1, <3>2, <3>4
  <2> QED
    BY <2>4, <2>5
<1>2. CASE EvaluationRaises
  <2>1. Context(TRUE) /\ phase # "commit" /\ phase' = "idle" /\ UNCHANGED <<findings, tolerated>>
    BY <1>2 DEF EvaluationRaises, AbortCycle
  <2>2. tracking' /\ baseline \subseteq baseline'
    BY <2>1, BaselineGrows, Zenon DEF Context
  <2> QED
    BY <2>1, <2>2
<1>3. CASE CommitStep
  <2>1. /\ phase = "commit" /\ findings' = found /\ UNCHANGED <<tracking, baseline>>
        /\ tolerated' = IF tracking THEN tolerated \cup HarmlessHosts ELSE {}
    BY <1>3 DEF CommitStep, CommitClear, CommitKeep, CommitRaise, Commit
  <2>2. phase' # "commit"
    BY <1>3 DEF CommitStep, CommitClear, CommitKeep, CommitRaise, AbortCycle
  <2>3. tracking' => tolerated' \subseteq baseline'
    BY <2>1
  <2>4. ASSUME NEW f \in HostRoute, findings'[f] = High PROVE f \notin tolerated'
    <3>1. f \notin baseline
      BY <2>1, <2>4 DEF SuspectsOutsideBaseline
    <3> QED
      BY <2>1, <2>3, <3>1
  <2> QED
    BY <2>1, <2>2, <2>3, <2>4
<1>4. CASE Restart
  <2>1. tolerated' = {} /\ phase' = "idle"
    BY <1>4, Zenon DEF Restart
  <2> QED
    BY <2>1
<1>5. CASE /\ UNCHANGED <<tracking, baseline, findings, tolerated>>
           /\ phase # "commit" /\ phase' # "commit"
  BY <1>5
<1>6. CASE /\ UNCHANGED <<tracking, baseline, findings, tolerated, phase, found>>
  BY <1>6 DEF HarmlessHosts
<1>7. CASE Users
  <2>1. PICK action \in UserActions, target \in {NoId} \cup AlertId : Perform(action, target)
    BY <1>7 DEF Users
  <2> QED
    BY <1>5, <2>1 DEF Perform, Answer
<1>8. CASE AutoAct \/ PendingAnswer
  BY <1>5, <1>8 DEF AutoAct, PendingAnswer, Answer, EndCycle
<1>9. CASE BeginCycle \/ Enforce \/ AutoSkip
  BY <1>5, <1>9 DEF BeginCycle, Enforce, AutoSkip, EndCycle
<1>10. CASE WaitDone \/ Clear \/ Tick \/ (Environment /\ ~Restart) \/ UNCHANGED vars
  BY <1>6, <1>10 DEF WaitDone, Clear, Tick, Environment, VpnUp, VpnDown, Appear, Vanish,
                     WorldStep, vars
<1> QED
  BY <1>1, <1>2, <1>3, <1>4, <1>7, <1>8, <1>9, <1>10 DEF Next, Environment, Daemon, CommitStep

(* What a session has reported without alarm it never turns into a HIGH    *)
(* finding, whatever comes, goes or fails meanwhile.                       *)
THEOREM LearnedStaysLearned == Spec => []LearnedForSession
<1>1. SessionMemory => LearnedForSession
  BY DEF SessionMemory
<1> QED
  BY <1>1, InitMemory, NextMemory, InitSuspects, NextSuspects, TypeCorrect, PTL DEF Spec

----------------------------------------------------------------------------
(* The parts together.                                                     *)

(* The invariant of MonitorProperties is inductive, and holds in every     *)
(* reachable state whatever fails.                                         *)
THEOREM InvHolds == Spec => []Inv
<1>1. Init => TypeOK /\ AlertShape /\ SessionInv /\ SuspectsOutsideBaseline /\ SessionMemory
              /\ ContinuedIsAcked /\ ListedOrAcked /\ RecheckInv
  BY InitType, InitShape, InitSession, InitSuspects, InitMemory, InitContinued, InitListed, InitRecheck
<1>2. TypeOK /\ AlertShape /\ SessionInv /\ SuspectsOutsideBaseline /\ SessionMemory /\ ContinuedIsAcked
      /\ ListedOrAcked /\ RecheckInv /\ [Next]_vars =>
        (TypeOK /\ AlertShape /\ SessionInv /\ SuspectsOutsideBaseline /\ SessionMemory /\ ContinuedIsAcked
         /\ ListedOrAcked /\ RecheckInv)'
  BY NextType, NextShape, NextSession, NextSuspects, NextMemory, NextContinued, NextListed, NextRecheck
<1>3. TypeOK /\ AlertShape /\ SessionInv /\ SuspectsOutsideBaseline /\ SessionMemory /\ ContinuedIsAcked
      /\ ListedOrAcked /\ RecheckInv => Inv
  BY DEF SessionInv, SessionMemory, RecheckInv, Inv
<1> QED
  BY <1>1, <1>2, <1>3, PTL DEF Spec

=============================================================================
