------------------------- MODULE MonitorProperties -------------------------
(* What the daemon promises, over the state of Monitor.                    *)
EXTENDS Monitor

(* Enforcement belongs to a VPN session: whatever the order of answers,    *)
(* cycles and snapshots, the daemon is never armed to delete routes after  *)
(* it has seen the VPN go down (daemon.py, _context and perform).          *)
EnforceOnlyWithVpn == enforce => tracking

(* The outcome of an answer is verified at once: while an answer has not   *)
(* been followed by a cycle, the loop thread is not left sleeping out its  *)
(* poll interval (daemon.py, wake.set in perform against wake.clear in     *)
(* run_forever).                                                           *)
AnswerIsRechecked == unchecked /\ loop = "wait" => wake

(* Every finding at or above the threshold that a cycle commits is either  *)
(* listed by the alert that is current after it, or was acknowledged by a  *)
(* "continue" that has not expired (daemon.py, _update_alert).             *)
Acknowledged == {f \in acked : RemindAfter = 0 \/ ackAge[f] <= RemindAfter}

NoSilentThreat ==
    [][phase = "commit" /\ phase' # "commit" /\ sampled'
        => Fps \subseteq alert'.fps \cup Acknowledged]_vars

(* What an answer silences for the first time, of the findings at or above *)
(* the threshold, is listed by the alert that is answered: "continue"      *)
(* takes the findings of the latest cycle, not those of the alert, and an  *)
(* alert that is kept keeps its old list (daemon.py, perform against       *)
(* _update_alert).                                                         *)
SilencedWasListed ==
    [][(acked' \ acked) \cap AtLeast(findings, NotifyMin) \subseteq alert.fps]_vars

(* A host route rated HIGH because it appeared after the VPN connected is  *)
(* not relabelled as one that was there all along, as long as it stays     *)
(* reported: only a VPN session that ends can launder it (daemon.py,       *)
(* _context; detect.py, analyze).                                          *)
SuspectStaysSuspect ==
    [][\A f \in HostRoute : findings[f] = High => findings'[f] \in {High, Absent}]_vars

(* Once armed, enforcement ends only when the VPN is really down: neither  *)
(* another answer nor a failed deletion disarms it.                        *)
EnforcementOnlyStopsWithVpn == [][enforce /\ ~enforce' => ~vpn]_vars

(* "Continue" sticks: a cycle that finds nothing above the threshold that  *)
(* the previous one had not found replaces a continued alert only when one *)
(* of the acknowledgements has expired.                                    *)
ContinueSticks ==
    [][alert.status = "continued" /\ alert'.status = "open"
        => \/ ~(alert'.fps \subseteq AtLeast(findings, NotifyMin))
           \/ alert'.fps \cap acked \cap Unacked(Finding) # {}]_vars

(* A host route reported without alarm in a VPN session, as the one to the *)
(* VPN's own server is that appears within vpn_grace_seconds, is not rated *)
(* HIGH later in that session, though it vanishes and comes back, and      *)
(* though cycles fail in between (config.py:49; daemon.py, _context;       *)
(* detect.py, analyze).                                                    *)
LearnedForSession == \A f \in HostRoute : findings[f] = High => f \notin tolerated

(* The alerts the daemon shows are those of an AlertBoard: every cycle,    *)
(* answer, failure and restart is one of its steps or changes nothing on   *)
(* it (daemon.py, _update_alert, _close and perform).                      *)
Board == INSTANCE AlertBoard WITH
            id <- alert.id, status <- alert.status, about <- alert.fps, closed <- history

ImplementsBoard == Board!Spec

----------------------------------------------------------------------------
(* The inductive invariant behind these properties, in named parts.        *)

AlertShape ==
    alert = NoAlert \/ (alert.id \in AlertId /\ alert.status # "none" /\ alert.fps # {})

(* Findings that can be mitigated exist only while a VPN session is        *)
(* tracked, in the daemon's memory and in the hands of a cycle.            *)
FindingsNeedSession ==
    phase \in {"idle", "auto", "answer"} /\ AtLeast(findings, Medium) \cap Mitigable # {}
        => tracking

FoundNeedsSession == phase = "commit" /\ AtLeast(found, Medium) \cap Mitigable # {} => tracking

(* A host route rated HIGH is outside a baseline that no longer grows.     *)
SuspectsOutsideBaseline ==
    \A f \in HostRoute :
        /\ findings[f] = High /\ phase # "commit" => ~Learning /\ f \notin baseline
        /\ phase = "commit" /\ found[f] = High => ~Learning /\ f \notin baseline
        /\ phase = "commit" /\ findings[f] = High => found[f] \in {High, Absent}

(* What is reported without alarm is in the baseline, which only grows     *)
(* while the session lasts; a session that ends is forgotten with the      *)
(* commit of the cycle that saw it end.                                    *)
ToleratedIsLearned ==
    /\ tracking => tolerated \subseteq baseline
    /\ ~tracking /\ phase # "commit" => tolerated = {}
    /\ phase = "commit" => HarmlessHosts \subseteq baseline

(* A continued alert leaves nothing above the threshold unacknowledged.    *)
ContinuedIsAcked ==
    NotifyMin >= Medium /\ alert.status = "continued" => AtLeast(findings, NotifyMin) \subseteq acked

(* Everything above the threshold is listed by the current alert or has    *)
(* been acknowledged once.                                                 *)
ListedOrAcked ==
    AtLeast(findings, NotifyMin) \subseteq alert.fps \cup acked

(* Who is inside the critical section, and for whom.                       *)
LockHolder ==
    /\ phase \notin {"idle", "answer"} /\ pending = NoAction => loop = "cycle" /\ ~unchecked
    /\ phase = "answer" => pending # NoAction

Inv ==
    /\ TypeOK /\ AlertShape
    /\ EnforceOnlyWithVpn /\ FindingsNeedSession /\ FoundNeedsSession
    /\ SuspectsOutsideBaseline /\ ToleratedIsLearned /\ LearnedForSession
    /\ ContinuedIsAcked /\ ListedOrAcked
    /\ AnswerIsRechecked /\ LockHolder

----------------------------------------------------------------------------
(* Progress.  `Quiet` is a suffix in which users give no answers and the   *)
(* world does not change.                                                  *)

Quiet == <>[][~Environment /\ ~Users]_vars

(* When nobody answers and the situation stays what it is, an open alert   *)
(* is eventually handled by auto_action (daemon.py, _maybe_auto_act).      *)
AutoActed == Quiet => (alert.status = "open" ~> alert.status # "open")

(* While enforcement is on and the VPN is up, a route that overrides the   *)
(* VPN does not stay: DHCP may push it again, and again it is removed.     *)
Enforced ==
    \A f \in Mitigable \ HostRoute :
        Rating[f] >= NotifyMin =>
            (enforce /\ vpn /\ f \in present ~> ~enforce \/ ~vpn \/ f \notin present)

(* Once the user has chosen to mitigate and nothing else changes, a route  *)
(* that overrides the VPN is removed or the user is asked again: "the      *)
(* daemon keeps removing them while the VPN stays up" (README.md:126).     *)
MitigationLasts ==
    Quiet => \A f \in Mitigable \ HostRoute :
        Rating[f] >= NotifyMin =>
            (alert.status = "mitigated" /\ vpn /\ f \in present
                ~> alert.status = "open" \/ f \notin present)

(* A continued alert does not stay acknowledged for ever: it is raised     *)
(* again, or closed because its findings are gone.                         *)
Reminded == Quiet => (alert.status = "continued" ~> alert.status # "continued")

=============================================================================
