------------------------------ MODULE Monitor ------------------------------
(***************************************************************************)
(* The monitoring daemon (daemon.py): one loop thread that samples the     *)
(* routing state and keeps at most one alert, and request threads that     *)
(* call Monitor.perform with the user's answers.  Both run under one       *)
(* re-entrant lock; `phase` is the position inside the critical section    *)
(* (phase = "idle" means the lock is free), because the world keeps moving *)
(* between a snapshot and the commands that act on it.                     *)
(*                                                                         *)
(* A finding stands for its fingerprint.  Time is a set of ages, each      *)
(* saturating just above the limit the code compares it with.              *)
(*                                                                         *)
(* Some definitions follow a variant that carries a plausible bug:         *)
(* LearnedAlways, LearnedAfresh, ContextKeepsEnforcing,                    *)
(* EnforcingAsLastAnswered, SignalForgotten, ShouldEnforceNewOnly,         *)
(* UnackedForEver, ShouldRaiseContinued, ShouldRaiseUnlessOpen, TrimLatest *)
(* and AutoDueMitigate.  No action uses them: they show what each property *)
(* catches when put in place of the definition they precede.               *)
(***************************************************************************)
EXTENDS Naturals, Sequences

CONSTANTS
    Finding,        \* fingerprints the detector may report
    Rating,         \* severity of a finding that does not depend on the baseline
    Mitigable,      \* findings that name a route which can be deleted
    HostRoute,      \* single-address routes on a physical interface, rated by baseline
    Ambient,        \* findings reported whether or not a VPN is up
    NotifyMin,      \* Config.notify_min_severity
    AutoAction,     \* Config.auto_action
    AutoDelay,      \* Config.auto_action_delay, in ticks
    RemindAfter,    \* Config.remind_after, in ticks (0 = never)
    Grace,          \* Config.vpn_grace_seconds, in ticks
    PollInterval,   \* Config.poll_interval, in ticks
    HistoryMax,     \* closed alerts kept (20 in the code)
    AlertId,        \* alert identifiers
    NoId,           \* the absent identifier
    UserActions,    \* the answers users give in this instance
    Admin,          \* whether the process has administrator rights
    Faults          \* kinds of failure the environment may produce

Absent   == 0
Low      == 20
Medium   == 30
High     == 40
Critical == 50

Severity == {10, Low, Medium, High, Critical}
Actions  == {"mitigate", "disconnect", "continue"}
NoAction == "none"

Answered(action) ==
    CASE action = "mitigate"   -> "mitigated"
      [] action = "disconnect" -> "disconnected"
      [] action = "continue"   -> "continued"

AnsweredStatus == {"mitigated", "disconnected", "continued"}
Outcome        == AnsweredStatus \cup {"resolved", "superseded"}

ASSUME RatingAssumption == Rating \in [Finding -> Severity]
ASSUME RouteAssumption ==
    /\ HostRoute \subseteq Mitigable
    /\ Mitigable \subseteq Finding
    /\ Ambient \subseteq Finding
    /\ Ambient \cap Mitigable = {}
ASSUME ConfigAssumption ==
    /\ NotifyMin \in Severity
    /\ AutoAction \in {NoAction, "mitigate", "disconnect"}
    /\ AutoDelay \in Nat /\ RemindAfter \in Nat /\ Grace \in Nat
    /\ PollInterval \in Nat /\ HistoryMax \in Nat \ {0}
ASSUME EnvironmentAssumption ==
    /\ NoId \notin AlertId
    /\ UserActions \subseteq Actions
    /\ Admin \in BOOLEAN
    /\ Faults \subseteq {"collect", "lookup", "emit", "command", "restart"}

VARIABLES
    present,    \* findings whose cause exists in the world now
    vpn,        \* whether a tunnel interface carries routes now
    loop,       \* position of the loop thread: "cycle", "wait" or "clear"
    waited,     \* age of the current Event.wait
    wake,       \* Monitor.wake
    phase,      \* position of the lock holder
    found,      \* the cycle's local list of findings
    pending,    \* the answer that made an inline cycle necessary
    alert,      \* Monitor.alert
    history,    \* Monitor.history, the outcomes of closed alerts
    acked,      \* keys of Monitor.acked
    ackAge,     \* age of each acknowledgement
    enforce,    \* Monitor.enforce
    tracking,   \* vpn_since is not None
    vpnAge,     \* time since vpn_since
    baseline,   \* Monitor.baseline
    findings,   \* Monitor.findings, with Absent for what is not in the list
    sampled,    \* Monitor.snap is not None
    tolerated,  \* history variable: host routes reported without alarm in this VPN session
    unchecked   \* history variable: an answer was given since the last cycle began

world    == <<present, vpn>>
thread   == <<loop, waited, wake>>
session  == <<tracking, vpnAge, baseline>>
acks     == <<acked, ackAge>>
verdict  == <<findings, sampled, tolerated>>
vars     == <<world, thread, phase, found, pending, alert, history, acks,
              enforce, session, verdict, unchecked>>

Phase == {"idle", "evaluate", "enforce", "recheck", "commit", "auto", "answer"}

NoAlert == [id |-> NoId, status |-> "none", fps |-> {}, age |-> 0]
Alert   == [id : AlertId \cup {NoId},
            status : {"none", "open"} \cup AnsweredStatus,
            fps : SUBSET Finding,
            age : 0 .. AutoDelay]

Nothing == [f \in Finding |-> Absent]
Verdict == [Finding -> Severity \cup {Absent}]
AtLeast(list, limit) == {f \in Finding : list[f] >= limit}

TypeOK ==
    /\ present \in SUBSET Finding /\ vpn \in BOOLEAN
    /\ loop \in {"cycle", "wait", "clear"}
    /\ waited \in 0 .. PollInterval /\ wake \in BOOLEAN
    /\ phase \in Phase
    /\ found \in Verdict /\ findings \in Verdict /\ sampled \in BOOLEAN
    /\ tolerated \in SUBSET HostRoute
    /\ pending \in Actions \cup {NoAction}
    /\ alert \in Alert
    /\ history \in Seq(Outcome) /\ Len(history) <= HistoryMax
    /\ acked \in SUBSET Finding /\ ackAge \in [Finding -> 0 .. RemindAfter + 1]
    /\ enforce \in BOOLEAN /\ tracking \in BOOLEAN
    /\ vpnAge \in 0 .. Grace
    /\ baseline \in SUBSET HostRoute
    /\ unchecked \in BOOLEAN

----------------------------------------------------------------------------
(* Detection, as far as the daemon depends on it.                          *)

Learning == vpnAge < Grace

HostRating(f, known) ==
    IF Learning THEN Medium ELSE IF f \in known THEN Low ELSE High

Reported(f, up) == f \in present /\ (up \/ f \in Ambient)

Analyze(up, known) ==
    [f \in Finding |->
        IF ~Reported(f, up) THEN Absent
        ELSE IF f \in HostRoute THEN HostRating(f, known) ELSE Rating[f]]

LearnedAlways == baseline \cup (present \cap HostRoute)

LearnedAfresh == IF Learning THEN present \cap HostRoute ELSE baseline

Learned == IF Learning THEN baseline \cup (present \cap HostRoute) ELSE baseline

(* What a snapshot shows of the VPN: a failed collection leaves the route  *)
(* table empty, which looks like a VPN that is down.                       *)
Views == IF "collect" \in Faults THEN {vpn, FALSE} ELSE {vpn}

ContextKeepsEnforcing(up) ==
    /\ tracking' = up
    /\ \/ up /\ baseline' = Learned /\ UNCHANGED <<vpnAge, enforce>>
       \/ ~up /\ vpnAge' = 0 /\ baseline' = {} /\ UNCHANGED enforce

Context(up) ==
    \/ /\ up
       /\ tracking' = TRUE
       /\ baseline' = Learned
       /\ UNCHANGED <<vpnAge, enforce>>
    \/ /\ ~up
       /\ tracking' = FALSE
       /\ vpnAge' = 0
       /\ baseline' = {}
       /\ enforce' = FALSE

Sample(up) ==
    /\ Context(up)
    /\ found' = Analyze(up, baseline)

----------------------------------------------------------------------------
(* The end of a cycle: back to run_forever, or to the perform that needed  *)
(* a first snapshot.                                                       *)

EndCycle ==
    /\ phase' = IF pending = NoAction THEN "idle" ELSE "answer"
    /\ loop' = IF pending = NoAction THEN "wait" ELSE loop
    /\ UNCHANGED pending

AbortCycle ==
    /\ phase' = "idle"
    /\ loop' = IF pending = NoAction THEN "wait" ELSE loop
    /\ pending' = NoAction

----------------------------------------------------------------------------
(* Responses (actions.py and Monitor.perform).                             *)

Removable(list, limit) == AtLeast(list, limit) \cap AtLeast(list, Medium) \cap Mitigable

(* The sets of routes that a round of delete_route calls can get rid of.   *)
Deletions(targets) ==
    IF ~Admin THEN {{}}
    ELSE IF "command" \in Faults THEN SUBSET (targets \cap present)
    ELSE {targets \cap present}

EnforcingAsLastAnswered(targets, deleted) == targets # {} /\ deleted = targets

Enforcing(targets, deleted) == enforce \/ (targets # {} /\ deleted = targets)

Mitigate ==
    LET targets == Removable(findings, Medium)
    IN  \E deleted \in Deletions(targets) :
            /\ present' = present \ deleted
            /\ enforce' = Enforcing(targets, deleted)
            /\ UNCHANGED <<vpn, acks>>

(* The interfaces with a finding of MEDIUM or more go down, and with them  *)
(* their routes; without such a finding, those that carry a default route  *)
(* do, if there are any.                                                   *)
Disconnections ==
    IF ~Admin THEN {{}}
    ELSE {gone \in SUBSET (present \ Ambient) :
            \/ "command" \in Faults
            \/ (AtLeast(findings, Medium) \cap present) \ Ambient \subseteq gone}

Disconnect ==
    /\ \E gone \in Disconnections : present' = present \ gone
    /\ UNCHANGED <<vpn, acks, enforce>>

Acknowledge ==
    LET answered == AtLeast(findings, Medium)
    IN  /\ acked' = acked \cup answered
        /\ ackAge' = [f \in Finding |-> IF f \in answered THEN 0 ELSE ackAge[f]]
        /\ UNCHANGED <<world, enforce>>

SignalForgotten == UNCHANGED wake

Signal == wake' = TRUE

Answer(action) ==
    /\ \/ action = "mitigate" /\ Mitigate
       \/ action = "disconnect" /\ Disconnect
       \/ action = "continue" /\ Acknowledge
    /\ alert' = IF alert = NoAlert THEN NoAlert
                ELSE [alert EXCEPT !.status = Answered(action)]
    /\ Signal
    /\ unchecked' = TRUE
    /\ UNCHANGED <<waited, found, history, session, verdict>>

(* A request is served when the lock is free.  An answer that names an     *)
(* alert other than the current one is refused and changes nothing.        *)
Perform(action, target) ==
    /\ phase = "idle"
    /\ target \in {NoId, alert.id}
    /\ \/ sampled /\ Answer(action) /\ UNCHANGED <<loop, phase, pending>>
       \/ /\ ~sampled
          /\ phase' = "evaluate"
          /\ pending' = action
          /\ UNCHANGED <<world, thread, found, alert, history, acks, enforce,
                         session, verdict, unchecked>>

PendingAnswer ==
    /\ phase = "answer"
    /\ Answer(pending)
    /\ phase' = "idle"
    /\ pending' = NoAction
    /\ UNCHANGED loop

----------------------------------------------------------------------------
(* Monitor.cycle.                                                          *)

BeginCycle ==
    /\ loop = "cycle" /\ phase = "idle"
    /\ phase' = "evaluate"
    /\ unchecked' = FALSE
    /\ UNCHANGED <<world, thread, found, pending, alert, history, acks,
                   enforce, session, verdict>>

ShouldEnforceNewOnly(armed, list) ==
    armed /\ (AtLeast(list, NotifyMin) \cap Mitigable) \ alert.fps # {}

ShouldEnforce(armed, list) == armed /\ AtLeast(list, NotifyMin) \cap Mitigable # {}

Evaluate ==
    /\ phase = "evaluate"
    /\ \E up \in Views :
        /\ Sample(up)
        /\ phase' = IF ShouldEnforce(enforce', found') THEN "enforce" ELSE "commit"
    /\ UNCHANGED <<world, thread, pending, alert, history, acks, verdict, unchecked>>

Enforce ==
    /\ phase = "enforce"
    /\ \E deleted \in Deletions(Removable(found, NotifyMin)) :
        present' = present \ deleted
    /\ phase' = "recheck"
    /\ found' = Nothing
    /\ UNCHANGED <<vpn, thread, pending, alert, history, acks, enforce,
                   session, verdict, unchecked>>

Recheck ==
    /\ phase = "recheck"
    /\ \E up \in Views : Sample(up)
    /\ phase' = "commit"
    /\ UNCHANGED <<world, thread, pending, alert, history, acks, verdict, unchecked>>

(* util.run forgives a missing command and a timeout, nothing else: a      *)
(* lookup that cannot be started escapes analyze, and so does a canary     *)
(* address that does not parse.  The context has been updated by then, the *)
(* findings have not.                                                      *)
EvaluationRaises ==
    /\ "lookup" \in Faults
    /\ phase \in {"evaluate", "recheck"}
    /\ vpn /\ Context(TRUE)
    /\ found' = Nothing
    /\ AbortCycle
    /\ UNCHANGED <<world, waited, wake, alert, history, acks, verdict, unchecked>>

----------------------------------------------------------------------------
(* Monitor._update_alert: exactly one of the three Commit actions applies. *)

Fps == AtLeast(found, NotifyMin)

UnackedForEver(fps) == fps \ acked

Unacked(fps) ==
    {f \in fps : f \notin acked \/ (RemindAfter > 0 /\ ackAge[f] > RemindAfter)}

SameSituation == alert # NoAlert /\ alert.fps = Fps

ShouldRaiseContinued ==
    /\ Fps # {}
    /\ SameSituation => alert.status = "continued"

ShouldRaiseUnlessOpen ==
    /\ Unacked(Fps) # {}
    /\ alert.status # "open"
    /\ SameSituation => alert.status = "continued"

(* A situation already alerted on is raised again only when it was         *)
(* "continued"; anything raised needs an unacknowledged finding.           *)
ShouldRaise ==
    /\ Unacked(Fps) # {}
    /\ SameSituation => alert.status = "continued"

TrimLatest(closed) == SubSeq(closed, 1, HistoryMax)

Trim(closed) == IF Len(closed) > HistoryMax THEN Tail(closed) ELSE closed

Close(outcome) == history' = Trim(Append(history, outcome))

HarmlessHosts == {f \in HostRoute : found[f] \in {Low, Medium}}

Commit ==
    /\ phase = "commit"
    /\ findings' = found
    /\ found' = Nothing
    /\ sampled' = TRUE
    /\ tolerated' = IF tracking THEN tolerated \cup HarmlessHosts ELSE {}
    /\ UNCHANGED <<world, waited, wake, acks, enforce, session, unchecked>>

CommitClear ==
    /\ Commit
    /\ Fps = {} /\ alert # NoAlert
    /\ Close(IF alert.status \in {"open", "continued"} THEN "resolved" ELSE alert.status)
    /\ alert' = NoAlert
    /\ phase' = "auto"
    /\ UNCHANGED <<loop, pending>>

CommitKeep ==
    /\ Commit
    /\ ~ShouldRaise
    /\ Fps # {} \/ alert = NoAlert
    /\ phase' = "auto"
    /\ UNCHANGED <<loop, pending, alert, history>>

(* The new alert is recorded before it is announced, so an announcement    *)
(* that raises (the `wall` command timing out) loses only the rest of the  *)
(* cycle.                                                                  *)
CommitRaise(id) ==
    /\ Commit
    /\ ShouldRaise
    /\ id # alert.id
    /\ \/ alert = NoAlert /\ UNCHANGED history
       \/ alert # NoAlert /\ Close(IF alert.status = "open" THEN "superseded" ELSE alert.status)
    /\ alert' = [id |-> id, status |-> "open", fps |-> Fps, age |-> 0]
    /\ \/ phase' = "auto" /\ UNCHANGED <<loop, pending>>
       \/ "emit" \in Faults /\ AbortCycle

AutoDueMitigate == alert.status = "open" /\ AutoAction = "mitigate" /\ alert.age >= AutoDelay

(* Monitor._maybe_auto_act.                                                *)
AutoDue == alert.status = "open" /\ AutoAction # NoAction /\ alert.age >= AutoDelay

AutoAct ==
    /\ phase = "auto" /\ AutoDue
    /\ Answer(AutoAction)
    /\ EndCycle

AutoSkip ==
    /\ phase = "auto" /\ ~AutoDue
    /\ EndCycle
    /\ UNCHANGED <<world, waited, wake, found, alert, history, acks, enforce,
                   session, verdict, unchecked>>

----------------------------------------------------------------------------
(* Monitor.run_forever between two cycles.                                 *)

WaitDone ==
    /\ loop = "wait"
    /\ wake \/ waited >= PollInterval
    /\ loop' = "clear"
    /\ waited' = 0
    /\ UNCHANGED <<world, wake, phase, found, pending, alert, history, acks,
                   enforce, session, verdict, unchecked>>

Clear ==
    /\ loop = "clear"
    /\ wake' = FALSE
    /\ loop' = "cycle"
    /\ UNCHANGED <<world, waited, phase, found, pending, alert, history, acks,
                   enforce, session, verdict, unchecked>>

----------------------------------------------------------------------------
(* The world: VPN clients, DHCP servers, time and the service manager.     *)

WorldStep == UNCHANGED <<thread, phase, found, pending, alert, history, acks,
                         enforce, session, verdict, unchecked>>

VpnUp ==
    /\ ~vpn
    /\ vpn' = TRUE
    /\ UNCHANGED present /\ WorldStep

VpnDown ==
    /\ vpn
    /\ vpn' = FALSE
    /\ UNCHANGED present /\ WorldStep

(* Routes come and go at any time, those a VPN client installs towards its *)
(* own server included: before or after the tunnel, and again in the same  *)
(* session.                                                                *)
Appear(f) ==
    /\ f \in Finding \ present
    /\ present' = present \cup {f}
    /\ UNCHANGED vpn /\ WorldStep

Vanish(f) ==
    /\ f \in present
    /\ present' = present \ {f}
    /\ UNCHANGED vpn /\ WorldStep

Older(age, limit) == IF age < limit THEN age + 1 ELSE age

Tick ==
    /\ alert' = IF alert = NoAlert THEN NoAlert
                ELSE [alert EXCEPT !.age = Older(alert.age, AutoDelay)]
    /\ ackAge' = [f \in Finding |->
                     IF f \in acked THEN Older(ackAge[f], RemindAfter + 1) ELSE ackAge[f]]
    /\ vpnAge' = IF tracking THEN Older(vpnAge, Grace) ELSE vpnAge
    /\ waited' = IF loop = "wait" THEN Older(waited, PollInterval) ELSE waited
    /\ UNCHANGED <<world, loop, wake, phase, found, pending, history, acked, enforce,
                   tracking, baseline, verdict, unchecked>>

(* Nothing of the daemon's state outlives the process.                     *)
Restart ==
    /\ "restart" \in Faults
    /\ loop' = "cycle" /\ waited' = 0 /\ wake' = FALSE
    /\ phase' = "idle" /\ found' = Nothing /\ pending' = NoAction
    /\ alert' = NoAlert /\ history' = <<>>
    /\ acked' = {} /\ ackAge' = [f \in Finding |-> 0]
    /\ enforce' = FALSE
    /\ tracking' = FALSE /\ vpnAge' = 0 /\ baseline' = {}
    /\ findings' = Nothing /\ sampled' = FALSE /\ tolerated' = {}
    /\ unchecked' = FALSE
    /\ UNCHANGED world

Init ==
    /\ vpn \in BOOLEAN /\ present \in SUBSET Finding
    /\ loop = "cycle" /\ waited = 0 /\ wake = FALSE
    /\ phase = "idle" /\ found = Nothing /\ pending = NoAction
    /\ alert = NoAlert /\ history = <<>>
    /\ acked = {} /\ ackAge = [f \in Finding |-> 0]
    /\ enforce = FALSE
    /\ tracking = FALSE /\ vpnAge = 0 /\ baseline = {}
    /\ findings = Nothing /\ sampled = FALSE /\ tolerated = {}
    /\ unchecked = FALSE

Environment ==
    \/ VpnUp
    \/ VpnDown
    \/ \E f \in Finding : Appear(f) \/ Vanish(f)
    \/ Restart

Users == \E action \in UserActions, target \in {NoId} \cup AlertId : Perform(action, target)

(* What the loop thread and the holder of the lock do on their own.        *)
Daemon ==
    \/ BeginCycle
    \/ Evaluate
    \/ EvaluationRaises
    \/ Enforce
    \/ Recheck
    \/ CommitClear
    \/ CommitKeep
    \/ \E id \in AlertId : CommitRaise(id)
    \/ AutoAct
    \/ AutoSkip
    \/ PendingAnswer
    \/ WaitDone
    \/ Clear

Next == Environment \/ Users \/ Daemon \/ Tick

Spec == Init /\ [][Next]_vars

(* The loop thread and time go on; users and networks promise nothing.     *)
Fairness == WF_vars(Daemon) /\ WF_vars(Tick)
FairSpec == Spec /\ Fairness

=============================================================================
