----------------------------- MODULE Responders -----------------------------
(***************************************************************************)
(* Who answers an alert: session agents (agent.py) that poll the daemon    *)
(* over the local API (api.py) and show a prompt (notify.py), the console  *)
(* of `tvv monitor` (cli.py), `tvv status` and `tvv action` on a command   *)
(* line, and auto_action.  The daemon is the AlertBoard behind one lock:   *)
(* a cycle may hold it for long, requests wait for it, and clients do not  *)
(* wait for ever.                                                          *)
(*                                                                         *)
(* AcceptedWhenAny, VerdictHasty, PresentOnceSeen, AfterFailureStop        *)
(* and ReleasedIfAnswered are variants with a plausible bug that no action *)
(* uses.                                                                   *)
(***************************************************************************)
EXTENDS AlertBoard, FiniteSets

CONSTANTS
    Agent,      \* users with a session agent
    Cli,        \* other users, of `tvv status` and `tvv action`
    Choices,    \* the answers people give in this instance
    Modes,      \* how the daemon was started in this instance
    Incidents,  \* what may go wrong or come between in this instance
    MaxIncidents \* bound on how often something of the kind happens

Actions  == {"mitigate", "disconnect", "continue"}
NoChoice == "none"

Answered(action) ==
    CASE action = "mitigate"   -> "mitigated"
      [] action = "disconnect" -> "disconnected"
      [] action = "continue"   -> "continued"

(* Who uses session agents, whether there is a console, whether it has no  *)
(* graphical dialogs, only a terminal, and whether this is a Linux with    *)
(* `wall`.                                                                 *)
Mode == [agents : SUBSET Agent, console : BOOLEAN, terminal : BOOLEAN, wall : BOOLEAN,
         auto : {NoChoice, "mitigate", "disconnect"}]

ASSUME ResponderAssumption ==
    /\ NoId \notin AlertId /\ Agent \cap Cli = {} /\ Choices \subseteq Actions /\ Modes \subseteq Mode /\ HistoryMax \in Nat \ {0} /\ MaxIncidents \in Nat
    /\ Incidents \subseteq {"slow", "restart", "session", "race", "shell", "wall"}

VARIABLES
    mode,       \* how the daemon was started
    lock,       \* Monitor.lock: free, or held by a cycle before or after the alert is updated
    raised,     \* alert ids given out
    seen,       \* keys of Monitor.agents
    fresh,      \* those seen within the last AGENT_FRESH seconds
    walled,     \* alerts announced with `wall`
    agent,      \* where each session agent is
    handled,    \* run_agent's set of alerts, per agent
    posts,      \* POST /action requests the daemon has not served
    queue,      \* on_alert threads waiting for prompt_lock
    console,    \* the alert of the thread that holds it
    readers,    \* threads left in input() by prompts that timed out
    spent,      \* incidents so far
    chosen,     \* history variable: answers given to each alert by whoever named it
    loose,      \* history variable: answers given without naming an alert
    recorded,   \* history variable: answers the daemon carried out for each alert
    unattended  \* history variable: alerts that nobody could hear of when they were raised,
                \* or whose last listener left

daemon == <<board, mode, lock, raised, seen, fresh, walled, posts>>
users  == <<agent, handled>>
screen == <<queue, console, readers>>
past   == <<chosen, loose, recorded, unattended>>
vars   == <<daemon, users, screen, spent, past>>

Away    == [pc |-> "out", shown |-> NoId, choice |-> NoChoice]
Idle    == [Away EXCEPT !.pc = "poll"]
At(pc, shown, choice) == [pc |-> pc, shown |-> shown, choice |-> choice]
Busy(a) == agent[a].pc
Running == {a \in Agent : Busy(a) # "out"}

Incident(kind) == kind \in Incidents /\ spent < MaxIncidents /\ spent' = spent + 1

----------------------------------------------------------------------------
(* The daemon (daemon.py).                                                 *)

BeginCycle ==
    /\ lock = "free"
    /\ lock' = "cycle"
    /\ UNCHANGED <<board, mode, raised, seen, fresh, walled, posts, users, screen, spent, past>>

PresentOnceSeen == seen # {}

AgentPresent == fresh # {}

(* The alert is written to all terminals, or a thread asks at the console. *)
Announce(new) ==
    /\ walled' = IF ~AgentPresent /\ ~mode.console /\ mode.wall THEN walled \cup {new} ELSE walled
    /\ queue' = IF mode.console THEN queue \cup {new} ELSE queue
    /\ lock' = "auto"
    /\ UNCHANGED <<seen, fresh, agent, spent>>

(* `wall` fails, which nobody looks at, or does not end in time or cannot  *)
(* be started, which ends the cycle.                                       *)
WallFails ==
    /\ ~AgentPresent /\ ~mode.console /\ mode.wall
    /\ Incident("wall")
    /\ lock' \in {"auto", "free"}
    /\ UNCHANGED <<seen, fresh, agent, walled, queue>>

(* The table of agents is read without its writers being locked out: an    *)
(* agent's first poll or a first `tvv status` in the meantime makes the    *)
(* read raise, and the alert is announced no further.                      *)
NewReader ==
    /\ Incident("race")
    /\ \E u \in (Agent \cup Cli) \ seen :
        /\ \/ u \in Cli /\ UNCHANGED agent
           \/ u \in Agent /\ Busy(u) = "poll" /\ agent' = [agent EXCEPT ![u].pc = "get"]
        /\ seen' = seen \cup {u} /\ fresh' = fresh \cup {u}
    /\ lock' = "free"
    /\ UNCHANGED <<walled, queue>>

(* Monitor._emit.                                                          *)
Emit(new) == Announce(new) \/ WallFails \/ NewReader

(* No agent is there to show an alert, and it cannot be on the terminals   *)
(* either: somebody still counts as present, there is no `wall`, or the    *)
(* announcement failed.                                                    *)
NobodyHears == Running = {} /\ (fresh' # {} \/ ~mode.wall \/ spent' # spent)

RaiseAlert(new, findings) ==
    /\ lock = "cycle"
    /\ new \notin raised
    /\ Raise(new, findings)
    /\ raised' = raised \cup {new}
    /\ Emit(new)
    /\ unattended' = IF NobodyHears THEN unattended \cup {new} ELSE unattended
    /\ UNCHANGED <<mode, posts, handled, console, readers, chosen, loose, recorded>>

RetireAlert ==
    /\ lock = "cycle"
    /\ Retire
    /\ lock' = "auto"
    /\ UNCHANGED <<mode, raised, seen, fresh, walled, posts, users, screen, spent, past>>

KeepAlert ==
    /\ lock = "cycle"
    /\ lock' = "auto"
    /\ UNCHANGED <<board, mode, raised, seen, fresh, walled, posts, users, screen, spent, past>>

(* An answer that is carried out for the current alert.                    *)
CarryOut(action) ==
    /\ Answer(Answered(action))
    /\ recorded' = [recorded EXCEPT ![id] = @ \cup {action}]

AutoAct ==
    /\ lock = "auto" /\ status = "open" /\ mode.auto # NoChoice
    /\ CarryOut(mode.auto)
    /\ chosen' = [chosen EXCEPT ![id] = @ \cup {mode.auto}]
    /\ lock' = "free"
    /\ UNCHANGED <<mode, raised, seen, fresh, walled, posts, users, screen, spent, loose, unattended>>

EndCycle ==
    /\ lock = "auto"
    /\ lock' = "free"
    /\ UNCHANGED <<board, mode, raised, seen, fresh, walled, posts, users, screen, spent, past>>

AcceptedWhenAny(target) == id # NoId

(* Monitor.perform takes an answer for the current alert, or one that      *)
(* names no alert.                                                         *)
Accepted(target) == target \in {id, NoId}

VerdictHasty(target) == "done"

Verdict(target) == IF Accepted(target) THEN "done" ELSE "refused"

(* Without an alert, the action is carried out and nothing is recorded.    *)
Perform(action, target) ==
    /\ lock = "free"
    /\ \/ Accepted(target) /\ id # NoId /\ CarryOut(action)
       \/ ~(Accepted(target) /\ id # NoId) /\ UNCHANGED <<board, recorded>>

(* The service manager starts the daemon again; consoles end with it.      *)
Restart ==
    /\ ~mode.console
    /\ Incident("restart")
    /\ Lose
    /\ lock' = "free" /\ seen' = {} /\ fresh' = {} /\ posts' = {}
    /\ agent' = [a \in Agent |->
                    IF Busy(a) \in {"get", "read"} THEN Idle
                    ELSE IF Busy(a) = "post" THEN [agent[a] EXCEPT !.pc = "unreachable"]
                    ELSE agent[a]]
    /\ UNCHANGED <<mode, raised, walled, handled, screen, past>>

(* Thirty seconds without a poll: an agent that shows something does not   *)
(* poll.                                                                   *)
Expire(u) ==
    /\ u \in fresh
    /\ u \in Agent => Busy(u) \notin {"get", "read"}
    /\ fresh' = fresh \ {u}
    /\ UNCHANGED <<board, mode, lock, raised, seen, walled, posts, users, screen, spent, past>>

----------------------------------------------------------------------------
(* The session agent (agent.py).                                           *)

(* The poll is noted before the lock is taken.                             *)
Poll(a) ==
    /\ Busy(a) = "poll"
    /\ agent' = [agent EXCEPT ![a].pc = "get"]
    /\ seen' = seen \cup {a} /\ fresh' = fresh \cup {a}
    /\ UNCHANGED <<board, mode, lock, raised, walled, posts, handled, screen, spent, past>>

Look(a) ==
    /\ Busy(a) = "get" /\ lock = "free"
    /\ agent' = [agent EXCEPT ![a] = At("read", id, NoChoice)]
    /\ UNCHANGED <<daemon, handled, screen, spent, past>>

(* The alert is put into the reply after the lock is released, with the    *)
(* status it has by then.                                                  *)
Unhandled(a, alert) == alert = id /\ status = "open" /\ alert \notin handled[a]

ReplyAlert(a) ==
    /\ Busy(a) = "read"
    /\ Unhandled(a, agent[a].shown)
    /\ agent' = [agent EXCEPT ![a].pc = "prompt"]
    /\ handled' = [handled EXCEPT ![a] = @ \cup {id}]
    /\ UNCHANGED <<daemon, screen, spent, past>>

ReplyNothing(a) ==
    /\ Busy(a) = "read"
    /\ ~Unhandled(a, agent[a].shown)
    /\ agent' = [agent EXCEPT ![a] = Idle]
    /\ UNCHANGED <<daemon, handled, screen, spent, past>>

AfterFailureStop == At("stopped", NoId, NoChoice)

AfterFailure == Idle

(* The daemon did not answer within 10 seconds.                            *)
GiveUpPoll(a) ==
    /\ Busy(a) = "get" /\ lock # "free"
    /\ Incident("slow")
    /\ agent' = [agent EXCEPT ![a] = AfterFailure]
    /\ UNCHANGED <<daemon, handled, screen, past>>

Submitted(choice) == choice # NoChoice

(* The user answers, closes the prompt, or lets it time out.               *)
Choose(a, choice) ==
    LET alert == agent[a].shown
    IN  /\ Busy(a) = "prompt"
        /\ IF Submitted(choice)
           THEN /\ agent' = [agent EXCEPT ![a] = At("post", alert, choice)]
                /\ posts' = posts \cup {[from |-> a, target |-> alert, action |-> choice]}
                /\ chosen' = [chosen EXCEPT ![alert] = @ \cup {choice}]
           ELSE agent' = [agent EXCEPT ![a] = Idle] /\ UNCHANGED <<posts, chosen>>
        /\ UNCHANGED <<board, mode, lock, raised, seen, fresh, walled, handled, screen, spent,
                       loose, recorded, unattended>>

(* The daemon serves a request whether or not its client still waits.      *)
Serve(post) ==
    /\ post \in posts
    /\ Perform(post.action, post.target)
    /\ posts' = posts \ {post}
    /\ agent' = IF post.from \in Agent /\ agent[post.from] = At("post", post.target, post.action)
                THEN [agent EXCEPT ![post.from].pc = Verdict(post.target)]
                ELSE agent
    /\ UNCHANGED <<mode, lock, raised, seen, fresh, walled, handled, screen, spent, chosen, loose,
                   unattended>>

(* No reply within 120 seconds; the answer may still be carried out.       *)
GiveUpPost(a) ==
    /\ Busy(a) = "post" /\ lock # "free"
    /\ Incident("slow")
    /\ agent' = [agent EXCEPT ![a].pc = "unreachable"]
    /\ UNCHANGED <<daemon, handled, screen, past>>

(* notify.show_result until the user closes it.                            *)
Told(a) == Busy(a) \in {"done", "refused", "unreachable"}

CloseResult(a) ==
    /\ Told(a)
    /\ agent' = [agent EXCEPT ![a] = Idle]
    /\ UNCHANGED <<daemon, handled, screen, spent, past>>

(* Users log in and out; an agent remembers nothing.                       *)
Logout(a) ==
    /\ Busy(a) # "out"
    /\ Incident("session")
    /\ agent' = [agent EXCEPT ![a] = Away]
    /\ handled' = [handled EXCEPT ![a] = {}]
    /\ unattended' = IF Running = {a} THEN unattended \cup ({id} \ (walled \cup {NoId})) ELSE unattended
    /\ UNCHANGED <<daemon, screen, chosen, loose, recorded>>

Login(a) ==
    /\ Busy(a) = "out" /\ a \in mode.agents
    /\ agent' = [agent EXCEPT ![a] = Idle]
    /\ UNCHANGED <<daemon, handled, screen, spent, past>>

----------------------------------------------------------------------------
(* The command line.  `tvv status` polls like an agent does.               *)

CliStatus(u) ==
    /\ u \in Cli
    /\ Incident("shell")
    /\ seen' = seen \cup {u} /\ fresh' = fresh \cup {u}
    /\ UNCHANGED <<board, mode, lock, raised, walled, posts, users, screen, past>>

(* `tvv action` posts an answer to the alert it names, be it long over, or *)
(* to none; it is served like an agent's.                                  *)
CliPost(u, action, target) ==
    /\ u \in Cli
    /\ Incident("shell")
    /\ posts' = posts \cup {[from |-> u, target |-> target, action |-> action]}
    /\ \/ /\ target \in raised
          /\ chosen' = [chosen EXCEPT ![target] = @ \cup {action}] /\ UNCHANGED loose
       \/ /\ target = NoId
          /\ loose' = loose \cup {action} /\ UNCHANGED chosen
    /\ UNCHANGED <<board, mode, lock, raised, seen, fresh, walled, users, screen, recorded, unattended>>

----------------------------------------------------------------------------
(* The console of `tvv monitor` (cli.py, on_alert): one thread per alert,  *)
(* one prompt at a time.                                                   *)

ConsoleAsk(alert) ==
    /\ console = NoId
    /\ alert \in queue
    /\ console' = alert /\ queue' = queue \ {alert}
    /\ UNCHANGED <<daemon, users, readers, spent, past>>

ReleasedIfAnswered == console

Released == NoId

(* A dialog that is closed, or anything else than an answer typed.         *)
ConsoleClose ==
    /\ console # NoId
    /\ console' = Released
    /\ UNCHANGED <<daemon, users, queue, readers, spent, past>>

(* Prompts time out when there is an auto_action; one on a terminal leaves *)
(* its reader behind.                                                      *)
ConsoleTimeout ==
    /\ console # NoId /\ mode.auto # NoChoice
    /\ console' = Released
    /\ readers' = IF mode.terminal THEN readers + 1 ELSE readers
    /\ UNCHANGED <<daemon, users, queue, spent, past>>

(* The answer is carried out by the thread itself.                         *)
ConsoleAnswer(action) ==
    /\ console # NoId
    /\ Perform(action, console)
    /\ chosen' = [chosen EXCEPT ![console] = @ \cup {action}]
    /\ console' = NoId
    /\ UNCHANGED <<mode, lock, raised, seen, fresh, walled, posts, users, queue, readers, spent,
                   loose, unattended>>

(* What is typed goes to a reader left behind, and the prompt goes on.     *)
ConsoleMistyped ==
    /\ console # NoId /\ readers > 0
    /\ readers' = readers - 1
    /\ UNCHANGED <<daemon, users, queue, console, spent, past>>

----------------------------------------------------------------------------

Start ==
    /\ Init
    /\ mode \in Modes
    /\ lock = "free" /\ raised = {} /\ seen = {} /\ fresh = {} /\ walled = {}
    /\ agent = [a \in Agent |-> IF a \in mode.agents THEN Idle ELSE Away] /\ handled = [a \in Agent |-> {}]
    /\ posts = {} /\ queue = {} /\ console = NoId /\ readers = 0 /\ spent = 0
    /\ chosen = [i \in AlertId |-> {}] /\ recorded = [i \in AlertId |-> {}]
    /\ loose = {} /\ unattended = {}

Daemon ==
    \/ \E new \in AlertId, findings \in SUBSET Finding : RaiseAlert(new, findings)
    \/ RetireAlert
    \/ KeepAlert
    \/ AutoAct
    \/ EndCycle

Step(a) ==
    \/ Poll(a)
    \/ Look(a)
    \/ ReplyAlert(a)
    \/ ReplyNothing(a)

Person(a) == CloseResult(a) \/ \E choice \in Choices \cup {NoChoice} : Choose(a, choice)

ConsoleEnds ==
    ConsoleClose \/ ConsoleTimeout \/ ConsoleMistyped \/ \E action \in Choices : ConsoleAnswer(action)

Interruption(a) == GiveUpPoll(a) \/ GiveUpPost(a) \/ Logout(a) \/ Login(a)

Shell(u) ==
    \/ CliStatus(u)
    \/ \E action \in Choices, target \in raised \cup {NoId} : CliPost(u, action, target)

Act ==
    \/ BeginCycle
    \/ Daemon
    \/ Restart
    \/ \E a \in Agent : Step(a) \/ Person(a) \/ Interruption(a)
    \/ \E post \in posts : Serve(post)
    \/ \E u \in Agent \cup Cli : Expire(u)
    \/ \E u \in Cli : Shell(u)
    \/ \E i \in AlertId : ConsoleAsk(i)
    \/ ConsoleEnds

Behaviour == Start /\ [][Act]_vars

(* Cycles end; agents go on, and get the lock while the loop waits out its *)
(* poll interval; people answer or close what they are shown.              *)
Going ==
    /\ WF_vars(Daemon)
    /\ \A a \in Agent : /\ SF_vars(Step(a))
                        /\ WF_vars(Person(a))
    /\ \A a \in Agent, i \in AlertId, action \in Choices :
        SF_vars(Serve([from |-> a, target |-> i, action |-> action]))
    /\ \A i \in AlertId : WF_vars(ConsoleAsk(i))
    /\ SF_vars(ConsoleEnds)

FairBehaviour == Behaviour /\ Going

=============================================================================
