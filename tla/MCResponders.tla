---------------------------- MODULE MCResponders ----------------------------
(* What is expected of the answers to alerts, and instances to check it.   *)
EXTENDS Responders

Pc == {"out", "poll", "get", "read", "prompt", "post", "done", "refused", "unreachable", "stopped"}

(* Of a terminal's prompts no more than were shown leave a reader behind,  *)
(* and each alert is asked about at most once (cli.py, on_alert).          *)
RespondersTypeOK ==
    /\ BoardTypeOK /\ mode \in Modes /\ lock \in {"free", "cycle", "auto"}
    /\ raised \subseteq AlertId /\ walled \subseteq raised /\ unattended \subseteq raised
    /\ fresh \subseteq seen /\ seen \subseteq Agent \cup Cli
    /\ agent \in [Agent -> [pc : Pc, shown : AlertId \cup {NoId}, choice : Actions \cup {NoChoice}]]
    /\ handled \in [Agent -> SUBSET raised]
    /\ posts \subseteq [from : Agent \cup Cli, target : raised \cup {NoId}, action : Actions]
    /\ queue \subseteq raised /\ console \in (raised \ queue) \cup {NoId}
    /\ readers \in 0 .. Cardinality(raised \ (queue \cup {console})) /\ spent \in 0 .. MaxIncidents

(* The daemon carries out for an alert only what somebody answered to that *)
(* alert, however late the request arrives, or asked for without naming an *)
(* alert: `tvv action` without --alert is carried out for whatever alert   *)
(* is current when it is served (Monitor.perform).                         *)
AnswerMeant == \A i \in AlertId : recorded[i] \subseteq chosen[i] \cup loose

(* Who is told that an answer was carried out can rely on it, and who is   *)
(* told that the alert is no longer current will not see it again          *)
(* (agent.py, handle_alert).                                               *)
ToldTruth ==
    \A a \in Agent :
        /\ Busy(a) = "done" => agent[a].choice \in recorded[agent[a].shown]
        /\ Busy(a) = "refused" => agent[a].shown # id

(* Inductive: why AnswerMeant and ToldTruth hold.  A request and a screen  *)
(* name an alert that was raised, so no alert raised later can be mistaken *)
(* for it.                                                                 *)
RespondersInv ==
    /\ raised \subseteq AlertId /\ id \in raised \cup {NoId} /\ (status = "none" <=> id = NoId)
    /\ mode \in Mode /\ queue \subseteq raised /\ console \in raised \cup {NoId}
    /\ agent \in [Agent -> [pc : Pc, shown : raised \cup {NoId}, choice : Actions \cup {NoChoice}]]
    /\ \A a \in Agent : Busy(a) \in {"prompt", "post", "done", "refused"} => agent[a].shown # NoId
    /\ posts \subseteq [from : Agent \cup Cli, target : raised \cup {NoId}, action : Actions]
    /\ \A post \in posts : post.action \in IF post.target = NoId THEN loose ELSE chosen[post.target]
    /\ chosen \in [AlertId -> SUBSET Actions] /\ recorded \in [AlertId -> SUBSET Actions] /\ loose \subseteq Actions
    /\ AnswerMeant /\ ToldTruth

(* An alert that stays open is shown to everybody who stays logged in,     *)
(* whatever they were shown before (agent.py, run_agent).                  *)
Shown ==
    \A a \in Agent, i \in AlertId :
        (id = i /\ status = "open" /\ Busy(a) # "out") ~>
            (i \in handled[a] \/ Busy(a) = "out" \/ id # i \/ status # "open")

(* Somebody hears of an alert of the service that stays open: it is        *)
(* written to all terminals or shown by an agent.  Excepted are alerts     *)
(* whose last agent leaves before it shows them, and, while there is no    *)
(* agent, those raised when somebody still counts as present (an agent     *)
(* that left, a `tvv status`), when there is no `wall` (macOS, Windows),   *)
(* or when the announcement fails (Monitor._emit).                         *)
Heard ==
    \A i \in AlertId :
        (id = i /\ status = "open" /\ ~mode.console) ~>
            \/ i \in walled \/ i \in unattended \/ (\E a \in Agent : i \in handled[a])
            \/ id # i \/ status # "open"

(* On a console, every announced alert gets its prompt (cli.py, on_alert). *)
ConsoleAsked == \A i \in AlertId : i \in queue ~> console = i

(* The service with its agents, on a Linux with `wall` and elsewhere, and  *)
(* `tvv monitor` on a terminal, where an auto_action may come between, and *)
(* on a desktop.                                                           *)
Service  == [agents |-> Agent, console |-> FALSE, terminal |-> FALSE, wall |-> TRUE, auto |-> NoChoice]
Wallless == [Service EXCEPT !.wall = FALSE]
Terminal == [agents |-> {}, console |-> TRUE, terminal |-> TRUE, wall |-> TRUE, auto |-> "mitigate"]
Desktop  == [agents |-> {}, console |-> TRUE, terminal |-> FALSE, wall |-> FALSE, auto |-> NoChoice]
AllModes == {Service, Wallless, Terminal, Desktop}

=============================================================================
