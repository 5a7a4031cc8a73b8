--------------------------- MODULE ResponderProofs ---------------------------
(* Why an answer reaches no alert but the one it was given for, and why    *)
(* people are told the truth about it, for any number of alerts, agents    *)
(* and incidents; and why what a dialog returns is what was chosen in it.  *)
EXTENDS MCResponders, Prompts, FiniteSetTheorems, TLAPS

USE DEF Busy

(* At first there is no alert and nobody has answered.                     *)
LEMMA StartInv == Start => RespondersInv
BY ResponderAssumption
    DEF Start, Init, RespondersInv, AnswerMeant, ToldTruth, ResponderAssumption, Idle, Away, At, Pc, Actions, NoChoice

(* The rest of the daemon, agents that get or give up a poll, and consoles *)
(* that close change nothing that matters here.                            *)
LEMMA QuietKeeps ==
    ASSUME RespondersInv, UNCHANGED <<id, status, mode, raised, posts, agent, chosen, loose, recorded>>,
           queue' \subseteq raised, console' \in raised \cup {NoId}
    PROVE  RespondersInv'
BY DEF RespondersInv, AnswerMeant, ToldTruth

(* An agent that moves on without an answer of its own.                    *)
LEMMA AgentKeeps ==
    ASSUME RespondersInv, NEW a \in Agent,
           UNCHANGED <<id, status, mode, raised, posts, chosen, loose, recorded, queue, console>>,
           NEW now \in [pc : Pc, shown : raised \cup {NoId}, choice : Actions \cup {NoChoice}],
           agent' = [agent EXCEPT ![a] = now],
           now.pc \notin {"post", "done", "refused"},
           now.pc = "prompt" => now.shown # NoId
    PROVE  RespondersInv'
<1>1. agent' \in [Agent -> [pc : Pc, shown : raised \cup {NoId}, choice : Actions \cup {NoChoice}]]
    BY DEF RespondersInv
<1>2. \A b \in Agent : agent'[b].pc \in {"prompt", "post", "done", "refused"} => agent'[b].shown # NoId
    BY DEF RespondersInv
<1>3. ToldTruth'
    BY DEF RespondersInv, ToldTruth
<1> QED
    BY <1>1, <1>2, <1>3 DEF RespondersInv, AnswerMeant

(* A new alert is none that a request or a screen names.                   *)
LEMMA RaiseKeeps ==
    ASSUME RespondersInv, NEW new \in AlertId, NEW findings, RaiseAlert(new, findings)
    PROVE  RespondersInv'
<1>1. /\ new \notin raised /\ id' = new /\ status' = "open" /\ raised' = raised \cup {new}
      /\ UNCHANGED <<mode, posts, console, chosen, loose, recorded>>
    BY DEF RaiseAlert, Raise
<1>2. queue' \subseteq raised'
    BY <1>1 DEF RaiseAlert, Emit, Announce, WallFails, NewReader, RespondersInv
<1>3. new # NoId
    BY ResponderAssumption DEF ResponderAssumption
<1>4. \/ UNCHANGED agent
      \/ \E a \in Agent : agent[a].pc = "poll" /\ agent' = [agent EXCEPT ![a].pc = "get"]
    BY DEF RaiseAlert, Emit, Announce, WallFails, NewReader
<1>5. /\ agent' \in [Agent -> [pc : Pc, shown : raised \cup {NoId}, choice : Actions \cup {NoChoice}]]
      /\ \A b \in Agent : agent'[b].pc \in {"prompt", "post", "done", "refused"} => agent'[b] = agent[b]
    BY <1>4 DEF RespondersInv, Pc
<1>6. agent' \in [Agent -> [pc : Pc, shown : raised' \cup {NoId}, choice : Actions \cup {NoChoice}]]
    BY <1>1, <1>5
<1>7. \A b \in Agent : agent'[b].pc \in {"prompt", "post", "done", "refused"} => agent'[b].shown # NoId
    BY <1>5 DEF RespondersInv
<1>8. ToldTruth'
    BY <1>1, <1>5 DEF RespondersInv, ToldTruth
<1>9. posts' \subseteq [from : Agent \cup Cli, target : raised' \cup {NoId}, action : Actions]
    BY <1>1 DEF RespondersInv
<1> QED
    BY <1>1, <1>2, <1>3, <1>6, <1>7, <1>8, <1>9 DEF RespondersInv, AnswerMeant

LEMMA RetireKeeps ==
    ASSUME RespondersInv, RetireAlert
    PROVE  RespondersInv'
<1>1. /\ id' = NoId /\ status' = "none"
      /\ UNCHANGED <<mode, raised, posts, agent, chosen, loose, recorded, queue, console>>
    BY DEF RetireAlert, Retire, users, screen, past
<1>2. ToldTruth'
    BY <1>1 DEF RespondersInv, ToldTruth
<1> QED
    BY <1>1, <1>2 DEF RespondersInv, AnswerMeant

LEMMA RestartKeeps ==
    ASSUME RespondersInv, Restart
    PROVE  RespondersInv'
<1>1. /\ id' = NoId /\ status' = "none" /\ posts' = {}
      /\ UNCHANGED <<mode, raised, chosen, loose, recorded, queue, console>>
    BY DEF Restart, Lose, screen, past
<1>2. \A b \in Agent :
          \/ agent'[b] = agent[b]
          \/ agent'[b] = Idle
          \/ agent'[b] = [agent[b] EXCEPT !.pc = "unreachable"]
    BY DEF Restart
<1>3. agent' \in [Agent -> [pc : Pc, shown : raised \cup {NoId}, choice : Actions \cup {NoChoice}]]
    <2>1. Idle \in [pc : Pc, shown : raised \cup {NoId}, choice : Actions \cup {NoChoice}]
        BY DEF Idle, Away, Pc
    <2>2. \A b \in Agent :
              (IF Busy(b) \in {"get", "read"} THEN Idle
               ELSE IF Busy(b) = "post" THEN [agent[b] EXCEPT !.pc = "unreachable"]
               ELSE agent[b]) \in [pc : Pc, shown : raised \cup {NoId}, choice : Actions \cup {NoChoice}]
        BY <2>1 DEF RespondersInv, Pc
    <2> QED
        BY <2>2 DEF Restart
<1>4. \A b \in Agent : agent'[b].pc \in {"prompt", "post", "done", "refused"} => agent'[b] = agent[b]
    BY <1>2 DEF RespondersInv, Idle, Away
<1>5. ToldTruth'
    BY <1>1, <1>4 DEF RespondersInv, ToldTruth
<1>6. \A b \in Agent : agent'[b].pc \in {"prompt", "post", "done", "refused"} => agent'[b].shown # NoId
    BY <1>4 DEF RespondersInv
<1> QED
    BY <1>1, <1>3, <1>5, <1>6 DEF RespondersInv, AnswerMeant

(* An answer that is carried out, for an alert and after a choice.         *)
LEMMA CarryOutKeeps ==
    ASSUME RespondersInv, NEW action \in Actions, CarryOut(action),
           chosen' \in [AlertId -> SUBSET Actions],
           \A i \in AlertId : chosen[i] \subseteq chosen'[i],
           action \in chosen'[id] \cup loose,
           UNCHANGED <<mode, raised, agent, queue, loose>>, console' \in raised \cup {NoId},
           posts' \subseteq posts
    PROVE  RespondersInv'
<1>1. /\ id \in AlertId /\ UNCHANGED id /\ status' # "none" /\ id # NoId
      /\ recorded' = [recorded EXCEPT ![id] = @ \cup {action}]
    BY DEF RespondersInv, CarryOut, Answer, Answered, Actions
<1>2. /\ recorded' \in [AlertId -> SUBSET Actions]
      /\ \A i \in AlertId : recorded[i] \subseteq recorded'[i] /\ recorded'[i] \subseteq chosen'[i] \cup loose'
    BY <1>1 DEF RespondersInv, AnswerMeant
<1>3. \A post \in posts' : post.action \in IF post.target = NoId THEN loose' ELSE chosen'[post.target]
    BY DEF RespondersInv
<1>4. ToldTruth'
    <2>1. ASSUME NEW a \in Agent, agent[a].pc = "done"
          PROVE  agent[a].choice \in recorded'[agent[a].shown]
        <3>1. agent[a].shown \in AlertId
            BY <2>1 DEF RespondersInv
        <3> QED
            BY <2>1, <3>1, <1>2 DEF RespondersInv, ToldTruth
    <2> QED
        BY <1>1, <2>1 DEF RespondersInv, ToldTruth
<1> QED
    BY <1>1, <1>2, <1>3, <1>4 DEF RespondersInv, AnswerMeant

LEMMA AutoActKeeps ==
    ASSUME RespondersInv, AutoAct
    PROVE  RespondersInv'
<1>1. /\ mode.auto \in Actions /\ id \in AlertId /\ CarryOut(mode.auto)
      /\ chosen' = [chosen EXCEPT ![id] = @ \cup {mode.auto}]
      /\ UNCHANGED <<mode, raised, agent, queue, console, posts, loose>>
    BY DEF AutoAct, RespondersInv, Mode, Actions, NoChoice, users, screen
<1>2. /\ chosen' \in [AlertId -> SUBSET Actions] /\ mode.auto \in chosen'[id]
      /\ \A i \in AlertId : chosen[i] \subseteq chosen'[i]
    BY <1>1 DEF RespondersInv
<1> QED
    BY <1>1, <1>2, CarryOutKeeps DEF RespondersInv

(* A request from a command line is one that somebody made.                *)
LEMMA CliPostKeeps ==
    ASSUME RespondersInv, NEW u, NEW action \in Actions, NEW target \in raised \cup {NoId}, CliPost(u, action, target)
    PROVE  RespondersInv'
<1>1. /\ u \in Cli /\ posts' = posts \cup {[from |-> u, target |-> target, action |-> action]}
      /\ UNCHANGED <<id, status, mode, raised, agent, queue, console, recorded>>
    BY DEF CliPost, board, users, screen
<1>2. NoId \notin raised
    BY ResponderAssumption DEF ResponderAssumption, RespondersInv
<1>3. /\ chosen' \in [AlertId -> SUBSET Actions]
      /\ \A i \in AlertId : chosen[i] \subseteq chosen'[i]
      /\ loose \subseteq loose' /\ loose' \subseteq Actions
      /\ action \in IF target = NoId THEN loose' ELSE chosen'[target]
    BY <1>2 DEF CliPost, RespondersInv
<1>4. posts' \subseteq [from : Agent \cup Cli, target : raised' \cup {NoId}, action : Actions]
    BY <1>1 DEF RespondersInv
<1>5. \A post \in posts' : post.action \in IF post.target = NoId THEN loose' ELSE chosen'[post.target]
    BY <1>1, <1>3 DEF RespondersInv
<1>6. AnswerMeant' /\ ToldTruth'
    BY <1>1, <1>3 DEF RespondersInv, AnswerMeant, ToldTruth
<1> QED
    BY <1>1, <1>3, <1>4, <1>5, <1>6 DEF RespondersInv

LEMMA ConsoleAnswerKeeps ==
    ASSUME RespondersInv, NEW action \in Actions, ConsoleAnswer(action)
    PROVE  RespondersInv'
<1>1. /\ console \in AlertId /\ Perform(action, console)
      /\ chosen' = [chosen EXCEPT ![console] = @ \cup {action}] /\ console' = NoId
      /\ UNCHANGED <<mode, raised, agent, queue, posts, loose>>
    BY DEF ConsoleAnswer, RespondersInv, users
<1>2. /\ chosen' \in [AlertId -> SUBSET Actions] /\ action \in chosen'[console]
      /\ \A i \in AlertId : chosen[i] \subseteq chosen'[i]
    BY <1>1 DEF RespondersInv
<1>3. CASE Accepted(console) /\ CarryOut(action)
    BY <1>1, <1>2, <1>3, ResponderAssumption, CarryOutKeeps DEF RespondersInv, Accepted, ResponderAssumption
<1>4. CASE UNCHANGED <<board, recorded>>
    <2>1. UNCHANGED <<id, status, recorded>>
        BY <1>4 DEF board
    <2>2. ToldTruth' /\ AnswerMeant'
        BY <1>1, <1>2, <2>1 DEF RespondersInv, ToldTruth, AnswerMeant
    <2>3. \A post \in posts' : post.action \in IF post.target = NoId THEN loose' ELSE chosen'[post.target]
        BY <1>1, <1>2 DEF RespondersInv
    <2> QED
        BY <1>1, <1>2, <2>1, <2>2, <2>3 DEF RespondersInv
<1> QED
    BY <1>1, <1>3, <1>4 DEF Perform

(* An answer that a user submits is one that the user gave.                *)
LEMMA ChooseKeeps ==
    ASSUME RespondersInv, NEW a \in Agent, NEW choice \in Choices \cup {NoChoice}, Choose(a, choice)
    PROVE  RespondersInv'
<1> DEFINE alert == agent[a].shown
<1>1. /\ alert \in AlertId /\ alert \in raised /\ alert # NoId /\ choice \in Actions \cup {NoChoice}
      /\ UNCHANGED <<id, status, mode, raised, loose, recorded, queue, console>>
    BY ResponderAssumption DEF Choose, RespondersInv, ResponderAssumption, board, screen
<1>2. CASE choice = NoChoice
    <2>1. agent' = [agent EXCEPT ![a] = Idle] /\ UNCHANGED <<posts, chosen>>
        BY <1>2 DEF Choose, Submitted
    <2>2. /\ Idle \in [pc : Pc, shown : raised \cup {NoId}, choice : Actions \cup {NoChoice}]
          /\ Idle.pc = "poll"
        BY DEF Idle, Away, Pc
    <2> QED
        BY <1>1, <2>1, <2>2, AgentKeeps
<1>3. CASE choice # NoChoice
    <2>1. /\ agent' = [agent EXCEPT ![a] = At("post", alert, choice)]
          /\ posts' = posts \cup {[from |-> a, target |-> alert, action |-> choice]}
          /\ chosen' = [chosen EXCEPT ![alert] = @ \cup {choice}]
        BY <1>3 DEF Choose, Submitted
    <2>2. At("post", alert, choice) \in [pc : Pc, shown : raised \cup {NoId}, choice : Actions \cup {NoChoice}]
        BY <1>1 DEF At, Pc
    <2>3. agent' \in [Agent -> [pc : Pc, shown : raised \cup {NoId}, choice : Actions \cup {NoChoice}]]
        BY <2>1, <2>2 DEF RespondersInv
    <2>4. /\ chosen' \in [AlertId -> SUBSET Actions] /\ choice \in chosen'[alert]
          /\ \A i \in AlertId : chosen[i] \subseteq chosen'[i]
        BY <1>1, <1>3, <2>1 DEF RespondersInv
    <2>5. /\ posts' \subseteq [from : Agent \cup Cli, target : raised \cup {NoId}, action : Actions]
          /\ \A post \in posts' : post.action \in IF post.target = NoId THEN loose' ELSE chosen'[post.target]
        BY <1>1, <1>3, <2>1, <2>4 DEF RespondersInv
    <2>6. AnswerMeant' /\ ToldTruth'
        BY <1>1, <2>1, <2>4 DEF RespondersInv, AnswerMeant, ToldTruth, At
    <2>7. \A b \in Agent : agent'[b].pc \in {"prompt", "post", "done", "refused"} => agent'[b].shown # NoId
        BY <1>1, <2>1 DEF RespondersInv, At
    <2> QED
        BY <1>1, <2>3, <2>4, <2>5, <2>6, <2>7 DEF RespondersInv
<1> QED
    BY <1>2, <1>3

(* The reply to a request is what became of it.                            *)
LEMMA ServeKeeps ==
    ASSUME RespondersInv, NEW post \in posts, Serve(post)
    PROVE  RespondersInv'
<1>1. /\ post.target \in raised \cup {NoId} /\ post.action \in Actions /\ raised \subseteq AlertId
      /\ post.action \in IF post.target = NoId THEN loose ELSE chosen[post.target]
      /\ Perform(post.action, post.target)
      /\ posts' \subseteq posts /\ UNCHANGED <<mode, raised, queue, console, chosen, loose>>
    BY DEF Serve, RespondersInv, screen
<1>2. /\ UNCHANGED id /\ (status' = "none" <=> id' = NoId)
      /\ recorded' \in [AlertId -> SUBSET Actions]
      /\ \A i \in AlertId : recorded[i] \subseteq recorded'[i] /\ recorded'[i] \subseteq chosen[i] \cup loose
      /\ post.target # NoId /\ Verdict(post.target) = "done" => post.action \in recorded'[post.target]
      /\ Verdict(post.target) \in {"done", "refused"}
      /\ Verdict(post.target) = "refused" => post.target # id
    <2>1. CASE Accepted(post.target) /\ id # NoId /\ CarryOut(post.action)
        <3>1. /\ post.target \in {id, NoId} /\ UNCHANGED id /\ status' # "none" /\ id \in AlertId
              /\ post.action \in chosen[id] \cup loose
            BY <1>1, <2>1 DEF RespondersInv, Accepted, CarryOut, Answer, Answered, Actions
        <3>2. recorded' = [recorded EXCEPT ![id] = @ \cup {post.action}]
            BY <2>1 DEF CarryOut
        <3>3. /\ recorded' \in [AlertId -> SUBSET Actions] /\ post.action \in recorded'[id]
              /\ \A i \in AlertId : recorded[i] \subseteq recorded'[i] /\ recorded'[i] \subseteq chosen[i] \cup loose
            BY <1>1, <3>1, <3>2 DEF RespondersInv, AnswerMeant
        <3> QED
            BY <2>1, <3>1, <3>3 DEF Verdict
    <2>2. CASE ~(Accepted(post.target) /\ id # NoId) /\ UNCHANGED <<board, recorded>>
        BY <1>1, <2>2 DEF RespondersInv, AnswerMeant, Verdict, Accepted, board
    <2> QED
        BY <1>1, <2>1, <2>2 DEF Perform
<1>3. \A b \in Agent :
          \/ agent'[b] = agent[b]
          \/ /\ agent[b] = At("post", post.target, post.action) /\ post.target # NoId
             /\ agent'[b] = At(Verdict(post.target), post.target, post.action)
    BY <1>1 DEF Serve, RespondersInv, At
<1>4. agent' \in [Agent -> [pc : Pc, shown : raised \cup {NoId}, choice : Actions \cup {NoChoice}]]
    <2>1. At(Verdict(post.target), post.target, post.action)
              \in [pc : Pc, shown : raised \cup {NoId}, choice : Actions \cup {NoChoice}]
        BY <1>1, <1>2 DEF At, Pc
    <2>2. \A b \in Agent : agent'[b] \in [pc : Pc, shown : raised \cup {NoId}, choice : Actions \cup {NoChoice}]
        BY <1>3, <2>1 DEF RespondersInv
    <2>3. agent' = [b \in Agent |-> agent'[b]]
        BY DEF Serve, RespondersInv
    <2> QED
        BY <2>2, <2>3
<1>5. ASSUME NEW b \in Agent
      PROVE  /\ agent'[b].pc \in {"prompt", "post", "done", "refused"} => agent'[b].shown # NoId
             /\ agent'[b].pc = "done" => agent'[b].choice \in recorded'[agent'[b].shown]
             /\ agent'[b].pc = "refused" => agent'[b].shown # id'
    <2>1. CASE agent'[b] = agent[b]
        <3>1. agent[b].pc = "done" => agent[b].shown \in AlertId
            BY DEF RespondersInv
        <3> QED
            BY <1>2, <2>1, <3>1 DEF RespondersInv, ToldTruth
    <2>2. CASE post.target # NoId /\ agent'[b] = At(Verdict(post.target), post.target, post.action)
        BY <1>2, <2>2 DEF At
    <2> QED
        BY <1>3, <2>1, <2>2
<1>6. AnswerMeant' /\ ToldTruth'
    BY <1>1, <1>2, <1>5 DEF AnswerMeant, ToldTruth
<1> QED
    BY <1>1, <1>2, <1>4, <1>5, <1>6 DEF RespondersInv

(* What an agent does between its answers.                                 *)
LEMMA AgentStepKeeps ==
    ASSUME RespondersInv, NEW a \in Agent,
           \/ Step(a) \/ CloseResult(a) \/ Interruption(a)
    PROVE  RespondersInv'
<1> DEFINE State == [pc : Pc, shown : raised \cup {NoId}, choice : Actions \cup {NoChoice}]
<1>1. UNCHANGED <<id, status, mode, raised, posts, chosen, loose, recorded, queue, console>>
    BY DEF Step, Poll, Look, ReplyAlert, ReplyNothing, CloseResult, Interruption, GiveUpPoll, GiveUpPost, Logout, Login,
           daemon, board, screen, past
<1>2. agent[a] \in State /\ agent \in [Agent -> State] /\ id \in raised \cup {NoId}
    BY DEF RespondersInv
<1>3. /\ Idle \in State /\ Idle.pc = "poll" /\ Away \in State /\ Away.pc = "out"
      /\ At("read", id, NoChoice) \in State /\ At("read", id, NoChoice).pc = "read"
    BY <1>2 DEF Idle, Away, At, Pc
<1>4. \A pc \in {"get", "prompt", "unreachable"} :
          /\ [agent[a] EXCEPT !.pc = pc] \in State
          /\ [agent[a] EXCEPT !.pc = pc].pc = pc
          /\ [agent[a] EXCEPT !.pc = pc].shown = agent[a].shown
          /\ [agent EXCEPT ![a].pc = pc] = [agent EXCEPT ![a] = [agent[a] EXCEPT !.pc = pc]]
    BY <1>2 DEF Pc
<1>5. ReplyAlert(a) => agent[a].shown # NoId
    BY DEF ReplyAlert, Unhandled, RespondersInv
<1>6. \E now \in State :
          /\ agent' = [agent EXCEPT ![a] = now]
          /\ now.pc \notin {"post", "done", "refused"}
          /\ now.pc = "prompt" => now.shown # NoId
    <2>1. CASE Poll(a) \/ ReplyAlert(a) \/ GiveUpPost(a)
        <3>1. PICK pc \in {"get", "prompt", "unreachable"} :
                  agent' = [agent EXCEPT ![a].pc = pc] /\ (pc = "prompt" => agent[a].shown # NoId)
            BY <2>1, <1>5 DEF Poll, ReplyAlert, GiveUpPost
        <3> QED
            BY <3>1, <1>4
    <2>2. CASE Look(a)
        BY <2>2, <1>3 DEF Look
    <2>3. CASE ReplyNothing(a) \/ CloseResult(a) \/ GiveUpPoll(a) \/ Login(a)
        BY <2>3, <1>3 DEF ReplyNothing, CloseResult, GiveUpPoll, AfterFailure, Login
    <2>4. CASE Logout(a)
        BY <2>4, <1>3 DEF Logout
    <2> QED
        BY <2>1, <2>2, <2>3, <2>4 DEF Step, Interruption
<1> QED
    BY <1>1, <1>6, AgentKeeps

(* The invariant holds however cycles, people, time-outs and restarts      *)
(* interleave (agent.py, cli.py, daemon.py).                               *)
THEOREM RespondersInvHolds == Behaviour => []RespondersInv
<1>1. ASSUME RespondersInv, [Act]_vars
      PROVE  RespondersInv'
    <2>1. CASE BeginCycle \/ KeepAlert \/ EndCycle
        BY <1>1, <2>1, QuietKeeps DEF BeginCycle, KeepAlert, EndCycle, board, users, screen, past, RespondersInv
    <2>2. CASE \E new \in AlertId, findings \in SUBSET Finding : RaiseAlert(new, findings)
        BY <1>1, <2>2, RaiseKeeps
    <2>3. CASE RetireAlert
        BY <1>1, <2>3, RetireKeeps
    <2>4. CASE AutoAct
        BY <1>1, <2>4, AutoActKeeps
    <2>5. CASE Restart
        BY <1>1, <2>5, RestartKeeps
    <2>6. CASE \E a \in Agent : Step(a) \/ CloseResult(a) \/ Interruption(a)
        BY <1>1, <2>6, AgentStepKeeps
    <2>7. CASE \E a \in Agent : \E choice \in Choices \cup {NoChoice} : Choose(a, choice)
        BY <1>1, <2>7, ChooseKeeps
    <2>8. CASE \E post \in posts : Serve(post)
        BY <1>1, <2>8, ServeKeeps
    <2>9. CASE \/ \E u \in Agent \cup Cli : Expire(u)
               \/ \E u \in Cli : CliStatus(u)
        BY <1>1, <2>9, QuietKeeps DEF Expire, CliStatus, board, users, screen, past, RespondersInv
    <2>10. CASE \E u \in Cli : \E action \in Choices, target \in raised \cup {NoId} : CliPost(u, action, target)
        BY <1>1, <2>10, CliPostKeeps, ResponderAssumption DEF ResponderAssumption
    <2>11. CASE \/ \E i \in AlertId : ConsoleAsk(i)
                \/ ConsoleClose \/ ConsoleTimeout \/ ConsoleMistyped
        BY <1>1, <2>11, QuietKeeps
            DEF ConsoleAsk, ConsoleClose, ConsoleTimeout, ConsoleMistyped, Released, daemon, board, users, past, RespondersInv
    <2>12. CASE \E action \in Choices : ConsoleAnswer(action)
        BY <1>1, <2>12, ConsoleAnswerKeeps, ResponderAssumption DEF ResponderAssumption
    <2>13. CASE UNCHANGED vars
        BY <1>1, <2>13, QuietKeeps DEF vars, daemon, board, users, screen, past, RespondersInv
    <2> QED
        BY <1>1, <2>1, <2>2, <2>3, <2>4, <2>5, <2>6, <2>7, <2>8, <2>9, <2>10, <2>11, <2>12, <2>13
            DEF Act, Daemon, Person, Shell, ConsoleEnds
<1> QED
    BY <1>1, StartInv, PTL DEF Behaviour

(* The daemon carries out for an alert only what somebody answered to that *)
(* alert.                                                                  *)
THEOREM AnswersMeant == Behaviour => []AnswerMeant
<1>1. RespondersInv => AnswerMeant
    BY DEF RespondersInv
<1> QED
    BY <1>1, RespondersInvHolds, PTL

(* Who is told that an answer was carried out can rely on it, and who is   *)
(* told that the alert is no longer current does not see it again.         *)
THEOREM TruthTold == Behaviour => []ToldTruth
<1>1. RespondersInv => ToldTruth
    BY DEF RespondersInv
<1> QED
    BY <1>1, RespondersInvHolds, PTL


----------------------------------------------------------------------------
(* Types: the daemon behind its clients is still the board.                *)

(* An answer that is carried out is the board's Answer.                    *)
LEMMA CarryOutAnswers ==
    ASSUME NEW action \in Actions, CarryOut(action)
    PROVE  \E answer \in Answers : Answer(answer)
<1>1. Answered(action) \in Answers
    BY DEF Answered, Actions, Answers
<1> QED
    BY <1>1 DEF CarryOut

(* Every step of the daemon, of a client or of a user is a step of the     *)
(* board or leaves it alone.                                               *)
LEMMA StepOnBoard ==
    ASSUME RespondersInv, [Act]_vars
    PROVE  [Next]_board
<1>1. CASE \E new \in AlertId, findings \in SUBSET Finding : RaiseAlert(new, findings)
    BY <1>1 DEF RaiseAlert, Next
<1>2. CASE RetireAlert
    BY <1>2 DEF RetireAlert, Next
<1>3. CASE Restart
    BY <1>3 DEF Restart, Next
<1>4. CASE AutoAct
    <2>1. mode.auto \in Actions
        BY <1>4 DEF AutoAct, RespondersInv, Mode, Actions
    <2> QED
        BY <1>4, <2>1, CarryOutAnswers DEF AutoAct, Next
<1>5. CASE \E u \in Cli, action \in Choices, target \in raised \cup {NoId} : CliPost(u, action, target)
    BY <1>5 DEF CliPost
<1>6. CASE (\E post \in posts : Serve(post)) \/ \E action \in Choices : ConsoleAnswer(action)
    <2>1. PICK action \in Actions : \E target : Perform(action, target)
        BY <1>6, ResponderAssumption DEF Serve, ConsoleAnswer, RespondersInv, ResponderAssumption
    <2> QED
        BY <2>1, CarryOutAnswers DEF Perform, Next
<1>7. CASE \/ BeginCycle \/ KeepAlert \/ EndCycle
           \/ \E u \in Agent \cup Cli : Expire(u)
           \/ \E u \in Cli : CliStatus(u)
    BY <1>7 DEF BeginCycle, KeepAlert, EndCycle, Expire, CliStatus
<1>8. CASE \E a \in Agent : Step(a) \/ Person(a) \/ Interruption(a)
    BY <1>8 DEF Step, Poll, Look, ReplyAlert, ReplyNothing, Person, CloseResult, Choose, Interruption, GiveUpPoll, GiveUpPost,
           Logout, Login, daemon
<1>9. CASE (\E i \in AlertId : ConsoleAsk(i)) \/ ConsoleClose \/ ConsoleTimeout \/ ConsoleMistyped
    BY <1>9 DEF ConsoleAsk, ConsoleClose, ConsoleTimeout, ConsoleMistyped, daemon
<1>10. CASE UNCHANGED vars
    BY <1>10 DEF vars, daemon
<1> QED
    BY <1>1, <1>2, <1>3, <1>4, <1>5, <1>6, <1>7, <1>8, <1>9, <1>10 DEF Act, Daemon, Shell, ConsoleEnds

(* The board's invariants hold here too.                                   *)
LEMMA RespondersRefine == Behaviour => Spec
<1>1. Start => Init
    BY DEF Start
<1> QED
    BY <1>1, StepOnBoard, RespondersInvHolds, PTL DEF Behaviour, Spec


(* A list that is full makes room for the alert that is closed.            *)
LEMMA RecordKeeps ==
    ASSUME closed \in Seq(Outcomes), Len(closed) <= HistoryMax, NEW outcome \in Outcomes, Record(outcome)
    PROVE  closed' \in Seq(Outcomes) /\ Len(closed') <= HistoryMax
<1> DEFINE list == Append(closed, outcome)
<1>1. list \in Seq(Outcomes) /\ Len(list) = Len(closed) + 1 /\ list # <<>>
    OBVIOUS
<1>2. Tail(list) \in Seq(Outcomes) /\ Len(Tail(list)) = Len(list) - 1
  <2> HIDE DEF list
  <2> QED
    BY <1>1
<1>3. closed' = IF Len(list) > HistoryMax THEN Tail(list) ELSE list
    BY DEF Record, Latest
<1> HIDE DEF list
<1> QED
    BY <1>1, <1>2, <1>3, ResponderAssumption DEF ResponderAssumption

(* What GET /status returns is of this form, whoever implements the board  *)
(* (daemon.py, status).                                                    *)
THEOREM BoardTypeCorrect == Spec => []BoardTypeOK
<1>1. Init => BoardTypeOK
    BY ResponderAssumption DEF Init, BoardTypeOK, ResponderAssumption
<1>2. ASSUME BoardTypeOK, [Next]_board PROVE BoardTypeOK'
    <2>1. CASE \E new \in AlertId, findings \in SUBSET Finding : Raise(new, findings)
        <3>1. PICK new \in AlertId, findings \in SUBSET Finding : Raise(new, findings)
            BY <2>1
        <3>2. closed' \in Seq(Outcomes) /\ Len(closed') <= HistoryMax
            BY <1>2, <3>1, RecordKeeps DEF Raise, BoardTypeOK, Outcomes
        <3> QED
            BY <3>1, <3>2, ResponderAssumption DEF Raise, BoardTypeOK, ResponderAssumption
    <2>2. CASE \E answer \in Answers : Answer(answer)
        BY <1>2, <2>2 DEF Answer, Answers, BoardTypeOK
    <2>3. CASE Retire
        <3>1. closed' \in Seq(Outcomes) /\ Len(closed') <= HistoryMax
            BY <1>2, <2>3, RecordKeeps DEF Retire, BoardTypeOK, Outcomes, Answers
        <3> QED
            BY <2>3, <3>1 DEF Retire, BoardTypeOK
    <2>4. CASE Lose
        BY <2>4, ResponderAssumption DEF Lose, BoardTypeOK, ResponderAssumption
    <2>5. CASE UNCHANGED board
        BY <1>2, <2>5 DEF board, BoardTypeOK
    <2> QED
        BY <1>2, <2>1, <2>2, <2>3, <2>4, <2>5 DEF Next
<1> QED
    BY <1>1, <1>2, PTL DEF Spec

(* A prompt on a terminal that times out leaves its reader behind, and     *)
(* there are no more prompts than alerts were raised.                      *)
LEMMA ReadersKeep ==
    ASSUME IsFiniteSet(raised), queue \subseteq raised, console \in (raised \ queue) \cup {NoId}, NoId \notin raised,
           readers \in 0 .. Cardinality(raised \ (queue \cup {console})), console # NoId
    PROVE  readers + 1 \in 0 .. Cardinality(raised \ queue)
<1> DEFINE Before == raised \ (queue \cup {console})
<1>1. raised \ queue = Before \cup {console} /\ console \notin Before
    OBVIOUS
<1>2. IsFiniteSet(Before)
    BY FS_Difference
<1> HIDE DEF Before
<1>3. Cardinality(Before \cup {console}) = Cardinality(Before) + 1 /\ Cardinality(Before) \in Nat
    BY <1>1, <1>2, FS_AddElement, FS_CardinalityType
<1> QED
    BY <1>1, <1>3 DEF Before


ReadersOK ==
    /\ IsFiniteSet(raised) /\ NoId \notin raised
    /\ queue \subseteq raised /\ console \in (raised \ queue) \cup {NoId}
    /\ readers \in 0 .. Cardinality(raised \ (queue \cup {console}))

(* A prompt that is over in another way, or one more alert, leaves room.   *)
LEMMA ReadersStay ==
    ASSUME ReadersOK, IsFiniteSet(raised'), NoId \notin raised', readers' \in Nat, readers' <= readers,
           queue' \subseteq raised', console' \in (raised' \ queue') \cup {NoId},
           raised \ (queue \cup {console}) \subseteq raised' \ (queue' \cup {console'})
    PROVE  ReadersOK'
<1> DEFINE Before == raised \ (queue \cup {console})
           After  == raised' \ (queue' \cup {console'})
<1>1. IsFiniteSet(Before) /\ IsFiniteSet(After) /\ Before \subseteq After
    BY FS_Difference DEF ReadersOK
<1>2. readers <= Cardinality(Before) /\ readers \in Nat
    BY DEF ReadersOK
<1>3. readers' \in 0 .. Cardinality(After) => ReadersOK'
    BY DEF ReadersOK
<1> HIDE DEF Before, After
<1>4. Cardinality(Before) <= Cardinality(After) /\ Cardinality(Before) \in Nat /\ Cardinality(After) \in Nat
    BY <1>1, FS_Subset, FS_CardinalityType
<1>5. readers' \in 0 .. Cardinality(After)
    BY <1>2, <1>4
<1> QED
    BY <1>3, <1>5

LEMMA ReadersKept ==
    ASSUME RespondersInv, ReadersOK, [Act]_vars
    PROVE  ReadersOK'
<1>1. readers \in Nat
    BY DEF ReadersOK
<1>2. CASE \E new \in AlertId, findings \in SUBSET Finding : RaiseAlert(new, findings)
    <2>1. PICK new \in AlertId : /\ new \notin raised /\ raised' = raised \cup {new} /\ UNCHANGED <<console, readers>>
                                 /\ queue' \in {queue, queue \cup {new}}
        BY <1>2 DEF RaiseAlert, Emit, Announce, WallFails, NewReader
    <2>2. new # NoId
        BY ResponderAssumption DEF ResponderAssumption
    <2>3. IsFiniteSet(raised')
        BY <2>1, FS_AddElement DEF ReadersOK
    <2> QED
        BY <1>1, <2>1, <2>2, <2>3, ReadersStay DEF ReadersOK
<1>3. CASE \E i \in AlertId : ConsoleAsk(i)
    BY <1>1, <1>3, ReadersStay DEF ReadersOK, ConsoleAsk, daemon
<1>4. CASE ConsoleClose \/ \E action \in Choices : ConsoleAnswer(action)
    BY <1>1, <1>4, ReadersStay DEF ReadersOK, ConsoleClose, Released, ConsoleAnswer, daemon
<1>5. CASE ConsoleMistyped
    BY <1>1, <1>5, ReadersStay DEF ReadersOK, ConsoleMistyped, daemon
<1>6. CASE ConsoleTimeout
    <2>1. /\ console # NoId /\ console' = NoId /\ readers' \in {readers, readers + 1}
          /\ UNCHANGED <<raised, queue>>
        BY <1>6 DEF ConsoleTimeout, Released, daemon
    <2>2. CASE readers' = readers
        BY <1>1, <2>1, <2>2, ReadersStay DEF ReadersOK
    <2>3. CASE readers' = readers + 1
        <3>1. readers + 1 \in 0 .. Cardinality(raised \ queue)
            BY <2>1, ReadersKeep DEF ReadersOK
        <3>2. raised' \ (queue' \cup {console'}) = raised \ queue
            BY <2>1 DEF ReadersOK
        <3> QED
            BY <2>1, <2>3, <3>1, <3>2 DEF ReadersOK
    <2> QED
        BY <2>1, <2>2, <2>3
<1>7. CASE UNCHANGED <<raised, queue, console, readers>>
    BY <1>7 DEF ReadersOK
<1>8. \/ \E new \in AlertId, findings \in SUBSET Finding : RaiseAlert(new, findings)
      \/ \E i \in AlertId : ConsoleAsk(i)
      \/ ConsoleEnds
      \/ UNCHANGED <<raised, queue, console, readers>>
    <2>1. CASE BeginCycle \/ RetireAlert \/ KeepAlert \/ AutoAct \/ EndCycle \/ Restart \/ UNCHANGED vars
        BY <2>1 DEF BeginCycle, RetireAlert, KeepAlert, AutoAct, EndCycle, Restart, vars, daemon, screen
    <2>2. CASE \E a \in Agent : Step(a) \/ Person(a) \/ Interruption(a)
        BY <2>2 DEF Step, Poll, Look, ReplyAlert, ReplyNothing, Person, CloseResult, Choose, Interruption, GiveUpPoll,
               GiveUpPost, Logout, Login, daemon, screen
    <2>3. CASE \/ \E post \in posts : Serve(post)
               \/ \E u \in Agent \cup Cli : Expire(u)
               \/ \E u \in Cli : Shell(u)
        BY <2>3 DEF Serve, Expire, Shell, CliStatus, CliPost, screen
    <2> QED
        BY <2>1, <2>2, <2>3 DEF Act, Daemon
<1> QED
    BY <1>2, <1>3, <1>4, <1>5, <1>6, <1>7, <1>8 DEF ConsoleEnds

ClientsOK ==
    /\ mode \in Modes /\ lock \in {"free", "cycle", "auto"} /\ spent \in 0 .. MaxIncidents
    /\ walled \subseteq raised /\ unattended \subseteq raised
    /\ fresh \subseteq seen /\ seen \subseteq Agent \cup Cli
    /\ handled \in [Agent -> SUBSET raised]

LEMMA ClientsKept ==
    ASSUME RespondersInv, ClientsOK, [Act]_vars
    PROVE  ClientsOK'
<1>1. \A kind : Incident(kind) => spent' \in 0 .. MaxIncidents
    BY ResponderAssumption DEF Incident, ClientsOK, ResponderAssumption
<1>2. CASE \E new \in AlertId, findings \in SUBSET Finding : RaiseAlert(new, findings)
    <2>1. PICK new \in AlertId, findings \in SUBSET Finding : RaiseAlert(new, findings)
        BY <1>2
    <2>2. /\ raised' = raised \cup {new} /\ UNCHANGED <<mode, handled>>
          /\ unattended' \subseteq unattended \cup {new} /\ walled' \subseteq walled \cup {new}
          /\ lock' \in {"free", "auto"}
          /\ spent' \in 0 .. MaxIncidents
          /\ \/ UNCHANGED <<seen, fresh>>
             \/ \E u \in Agent \cup Cli : seen' = seen \cup {u} /\ fresh' = fresh \cup {u}
        BY <1>1, <2>1 DEF RaiseAlert, Emit, Announce, WallFails, NewReader, ClientsOK
    <2> QED
        BY <2>2 DEF ClientsOK
<1>3. CASE BeginCycle \/ RetireAlert \/ KeepAlert \/ AutoAct \/ EndCycle \/ Restart
    BY <1>1, <1>3 DEF BeginCycle, RetireAlert, KeepAlert, AutoAct, EndCycle, Restart, users, past, ClientsOK
<1>4. CASE \E a \in Agent : Step(a) \/ Person(a) \/ Interruption(a)
    <2>1. PICK a \in Agent : Step(a) \/ Person(a) \/ Interruption(a)
        BY <1>4
    <2>2. CASE Poll(a)
        BY <2>2 DEF Poll, past, ClientsOK
    <2>3. CASE ReplyAlert(a)
        <3>1. id \in raised
            BY <2>3 DEF ReplyAlert, Unhandled, RespondersInv
        <3> QED
            BY <2>3, <3>1 DEF ReplyAlert, daemon, past, ClientsOK
    <2>4. CASE Logout(a)
        <3>1. {id} \ (walled \cup {NoId}) \subseteq raised
            BY DEF RespondersInv
        <3> QED
            BY <1>1, <2>4, <3>1 DEF Logout, daemon, ClientsOK
    <2>5. CASE Look(a) \/ ReplyNothing(a) \/ Person(a) \/ GiveUpPoll(a) \/ GiveUpPost(a) \/ Login(a)
        BY <1>1, <2>5 DEF Look, ReplyNothing, Person, CloseResult, Choose, GiveUpPoll, GiveUpPost, Login, daemon, past, ClientsOK
    <2> QED
        BY <2>1, <2>2, <2>3, <2>4, <2>5 DEF Step, Interruption
<1>5. CASE \/ \E post \in posts : Serve(post)
           \/ \E u \in Agent \cup Cli : Expire(u)
           \/ \E u \in Cli : Shell(u)
    BY <1>1, <1>5 DEF Serve, Expire, Shell, CliStatus, CliPost, users, past, ClientsOK
<1>6. CASE (\E i \in AlertId : ConsoleAsk(i)) \/ ConsoleEnds
    BY <1>6 DEF ConsoleAsk, ConsoleEnds, ConsoleClose, ConsoleTimeout, ConsoleMistyped, ConsoleAnswer, daemon, users, past,
           ClientsOK
<1>7. CASE UNCHANGED vars
    BY <1>7 DEF vars, daemon, users, past, ClientsOK
<1> QED
    BY <1>2, <1>3, <1>4, <1>5, <1>6, <1>7 DEF Act, Daemon

(* Types, for any number of alerts.  Each alert is asked about on a console *)
(* at most once, so no more prompts leave a reader behind than were shown   *)
(* (cli.py, on_alert).                                                      *)
THEOREM RespondersTypeCorrect == Behaviour => []RespondersTypeOK
<1>1. Start => ReadersOK /\ ClientsOK
    <2>1. Start => ReadersOK
        BY FS_EmptySet DEF Start, ReadersOK
    <2>2. Start => ClientsOK
        BY ResponderAssumption DEF Start, ClientsOK, ResponderAssumption
    <2> QED
        BY <2>1, <2>2
<1>2. Behaviour => [](ReadersOK /\ ClientsOK)
    BY <1>1, ReadersKept, ClientsKept, RespondersInvHolds, PTL DEF Behaviour
<1>3. RespondersInv /\ ReadersOK /\ ClientsOK /\ BoardTypeOK => RespondersTypeOK
    <2>1. ASSUME RespondersInv PROVE agent \in [Agent -> [pc : Pc, shown : AlertId \cup {NoId}, choice : Actions \cup {NoChoice}]]
        BY <2>1 DEF RespondersInv
    <2> QED
        BY <2>1 DEF RespondersInv, ReadersOK, ClientsOK, RespondersTypeOK
<1> QED
    BY <1>2, <1>3, RespondersInvHolds, RespondersRefine, BoardTypeCorrect, PTL

----------------------------------------------------------------------------
(* The dialogs in front of the answers (notify.py).  What an agent or the  *)
(* console takes for somebody's choice is what prompt returned.            *)

Chained == os \in {"linux", "macos", "windows"} /\ at \in 1 .. Len(Backends[os])

(* The chain of each system.                                               *)
LEMMA Chain ==
    /\ DOMAIN Backends = {"linux", "macos", "windows"}
    /\ os = "linux" => Backends[os] = <<"zenity", "kdialog", "tk", "terminal">>
    /\ os = "macos" => Backends[os] = <<"osascript", "tk", "terminal">>
    /\ os = "windows" => Backends[os] = <<"tk", "msgbox", "terminal">>
BY DEF Backends

LEMMA BackendOfChain ==
    ASSUME Chained
    PROVE  /\ Len(Backends[os]) \in Nat
           /\ Backend \in {"zenity", "kdialog", "tk", "osascript", "msgbox", "terminal"}
           /\ Backend = "zenity" => at = 1
           /\ Backend = "osascript" => AtOsascript
           /\ Backend = "terminal" <=> at = Len(Backends[os])
<1>1. CASE os = "linux"
    <2>1. PICK chain : chain = <<"zenity", "kdialog", "tk", "terminal">> /\ chain = Backends[os]
        BY <1>1, Chain
    <2>2. Len(chain) = 4 /\ at \in {1, 2, 3, 4} /\ chain[at] = Backend
        BY <2>1 DEF Chained, Backend
    <2> QED
        BY <2>1, <2>2
<1>2. CASE os = "macos"
    <2>1. PICK chain : chain = <<"osascript", "tk", "terminal">> /\ chain = Backends[os]
        BY <1>2, Chain
    <2>2. Len(chain) = 3 /\ at \in {1, 2, 3} /\ chain[at] = Backend
        BY <2>1 DEF Chained, Backend
    <2>3. Backend = "osascript" => at = 1
        BY <2>1, <2>2
    <2>4. /\ Len(Backends[os]) \in Nat
          /\ Backend \in {"osascript", "tk", "terminal"}
          /\ Backend = "terminal" <=> at = Len(Backends[os])
        BY <2>1, <2>2
    <2> QED
        BY <1>2, <2>3, <2>4 DEF AtOsascript
<1>3. CASE os = "windows"
    <2>1. PICK chain : chain = <<"tk", "msgbox", "terminal">> /\ chain = Backends[os]
        BY <1>3, Chain
    <2>2. Len(chain) = 3 /\ at \in {1, 2, 3} /\ chain[at] = Backend
        BY <2>1 DEF Chained, Backend
    <2> QED
        BY <2>1, <2>2
<1> QED
    BY <1>1, <1>2, <1>3 DEF Chained

(* zenity's exit code is 1 for two buttons, a closed window and a crash.   *)
LEMMA ZenityAnswers ==
    ASSUME Backend = "zenity", NEW event, NEW answer \in AnswersTo(event)
    PROVE  /\ event \in Buttons => answer = event
           /\ event = "close" => answer = "continue"
           /\ event = "timer" => answer = "none"
           /\ event = "kill" => answer = "unavailable"
           /\ event = "crash" => answer \in {"continue", "unavailable"}
<1>1. PICK raw \in ZenityReturns(event) : answer = Zenity(raw)
    <2>1. AnswersTo(event) = {Zenity(raw) : raw \in ZenityReturns(event)}
        BY Zenon DEF AnswersTo
    <2> QED
        BY <2>1
<1>2. ASSUME event = "mitigate" PROVE raw.rc = 0
    <2>1. raw = Raw(0, "")
        BY <1>2, Zenon DEF ZenityReturns
    <2> QED
        BY <2>1 DEF Raw
<1>3. ASSUME event = "disconnect" PROVE raw.rc = 1 /\ raw.out = "disconnect"
    <2>1. raw = Raw(1, "disconnect")
        BY <1>3, Zenon DEF ZenityReturns
    <2> QED
        BY <2>1 DEF Raw
<1>4. ASSUME event \in {"continue", "close"} PROVE raw.rc = 1 /\ raw.out = ""
    <2>1. raw = Raw(1, "")
        BY <1>4, Zenon DEF ZenityReturns
    <2> QED
        BY <2>1 DEF Raw
<1>5. ASSUME event = "timer" PROVE raw.rc = 5
    <2>1. raw = Raw(5, "")
        BY <1>5, Zenon DEF ZenityReturns
    <2> QED
        BY <2>1 DEF Raw
<1>6. ASSUME event = "kill" PROVE raw.rc = 124
    <2>1. raw = Raw(124, "")
        BY <1>6, Zenon DEF ZenityReturns, Killed
    <2> QED
        BY <2>1 DEF Raw
<1>7. ASSUME event = "crash" PROVE (raw.rc = 1 /\ raw.out = "") \/ raw.rc = 99
    <2>1. raw = Raw(1, "") \/ raw = Raw(99, "")
        BY <1>7, Zenon DEF ZenityReturns, Crashed
    <2>2. CASE raw = Raw(1, "")
        BY <2>2 DEF Raw
    <2>3. CASE raw = Raw(99, "")
        BY <2>3 DEF Raw
    <2> QED
        BY <2>1, <2>2, <2>3
<1>8. /\ raw.rc = 0 => Zenity(raw) = "mitigate"
      /\ raw.rc = 1 /\ raw.out = "disconnect" => Zenity(raw) = "disconnect"
      /\ raw.rc = 1 /\ raw.out = "" => Zenity(raw) = "continue"
      /\ raw.rc = 5 => Zenity(raw) = "none"
      /\ raw.rc \in {99, 124} => Zenity(raw) = "unavailable"
    <2>1. /\ raw.rc = 0 => raw.rc # 1 /\ raw.rc # 5
          /\ raw.rc = 1 => raw.rc # 0 /\ raw.rc # 5
          /\ raw.rc = 5 => raw.rc # 0 /\ raw.rc # 1
          /\ raw.rc \in {99, 124} => raw.rc \notin {0, 1, 5}
          /\ "" # "disconnect"
        OBVIOUS
    <2> QED
        BY <2>1, Zenon DEF Zenity
<1> QED
    BY <1>1, <1>2, <1>3, <1>4, <1>5, <1>6, <1>7, <1>8 DEF Buttons

LEMMA KdialogAnswers ==
    ASSUME Backend = "kdialog", NEW event, NEW answer \in AnswersTo(event)
    PROVE  /\ event \in Buttons => answer = event
           /\ event = "close" => answer = "continue"
           /\ event \in {"kill", "crash"} => answer = "unavailable"
<1>1. PICK raw \in KdialogReturns(event) : answer = Kdialog(raw)
    <2>1. Backend # "zenity"
        OBVIOUS
    <2>2. AnswersTo(event) = {Kdialog(raw) : raw \in KdialogReturns(event)}
        BY <2>1, Zenon DEF AnswersTo
    <2> QED
        BY <2>2
<1>2. ASSUME event = "mitigate" PROVE raw.rc = 0
    <2>1. raw = Raw(0, "")
        BY <1>2, Zenon DEF KdialogReturns
    <2> QED
        BY <2>1 DEF Raw
<1>3. ASSUME event = "disconnect" PROVE raw.rc = 1
    <2>1. raw = Raw(1, "")
        BY <1>3, Zenon DEF KdialogReturns
    <2> QED
        BY <2>1 DEF Raw
<1>4. ASSUME event \in {"continue", "close"} PROVE raw.rc = 2
    <2>1. raw = Raw(2, "")
        BY <1>4, Zenon DEF KdialogReturns
    <2> QED
        BY <2>1 DEF Raw
<1>5. ASSUME event = "kill" PROVE raw.rc = 124
    <2>1. raw = Raw(124, "")
        BY <1>5, Zenon DEF KdialogReturns, Killed
    <2> QED
        BY <2>1 DEF Raw
<1>6. ASSUME event = "crash" PROVE raw.rc = 99
    <2>1. raw = Raw(99, "")
        BY <1>6, Zenon DEF KdialogReturns, Crashed
    <2> QED
        BY <2>1 DEF Raw
<1>7. /\ raw.rc = 0 => Kdialog(raw) = "mitigate"
      /\ raw.rc = 1 => Kdialog(raw) = "disconnect"
      /\ raw.rc = 2 => Kdialog(raw) = "continue"
      /\ raw.rc \in {99, 124} => Kdialog(raw) = "unavailable"
    <2>1. /\ raw.rc = 0 => raw.rc # 1 /\ raw.rc # 2
          /\ raw.rc = 1 => raw.rc # 0 /\ raw.rc # 2
          /\ raw.rc = 2 => raw.rc # 0 /\ raw.rc # 1
          /\ raw.rc \in {99, 124} => raw.rc \notin {0, 1, 2}
        OBVIOUS
    <2> QED
        BY <2>1, Zenon DEF Kdialog
<1> QED
    BY <1>1, <1>2, <1>3, <1>4, <1>5, <1>6, <1>7 DEF Buttons

(* osascript ends with 1 when the dialog is closed and when it failed, and *)
(* says which.                                                             *)
LEMMA OsascriptAnswers ==
    ASSUME Backend = "osascript", NEW event, NEW answer \in AnswersTo(event)
    PROVE  /\ event \in Buttons => answer = event
           /\ event \in {"close", "timer", "kill"} => answer = "none"
           /\ event = "crash" => answer \in {"unavailable", "none"}
<1>1. PICK raw \in OsascriptReturns(event) : answer = Osascript(raw)
    <2>1. Backend # "zenity" /\ Backend # "kdialog"
        OBVIOUS
    <2>2. AnswersTo(event) = {Osascript(raw) : raw \in OsascriptReturns(event)}
        BY <2>1, Zenon DEF AnswersTo
    <2> QED
        BY <2>2
<1>2. ASSUME event \in Buttons PROVE raw.rc = 0 /\ raw.out = event
    <2>1. raw = Raw(0, event)
        BY <1>2, Zenon DEF OsascriptReturns, Buttons
    <2> QED
        BY <2>1 DEF Raw
<1>3. ASSUME event = "close" PROVE raw.rc = 1 /\ raw.out = "execution error -128"
    <2>1. raw = Raw(1, "execution error -128")
        BY <1>3, Zenon DEF OsascriptReturns, Buttons
    <2> QED
        BY <2>1 DEF Raw
<1>4. ASSUME event = "timer" PROVE raw.rc = 0 /\ raw.out = "gave up:true"
    <2>1. raw = Raw(0, "gave up:true")
        BY <1>4, Zenon DEF OsascriptReturns, Buttons
    <2> QED
        BY <2>1 DEF Raw
<1>5. ASSUME event = "kill" PROVE raw.rc = 124 /\ raw.out = "timeout"
    <2>1. raw = Raw(124, "timeout")
        BY <1>5, Zenon DEF OsascriptReturns, Killed, Buttons
    <2> QED
        BY <2>1 DEF Raw
<1>6. ASSUME event = "crash"
      PROVE  (raw.rc = 1 /\ raw.out = "execution error") \/ (raw.rc = 99 /\ raw.out = "")
    <2>1. raw = Raw(1, "execution error") \/ raw = Raw(99, "")
        BY <1>6, Zenon DEF OsascriptReturns, Crashed, Buttons
    <2>2. ASSUME raw = Raw(1, "execution error") PROVE raw.rc = 1 /\ raw.out = "execution error"
        BY <2>2 DEF Raw
    <2>3. ASSUME raw = Raw(99, "") PROVE raw.rc = 99 /\ raw.out = ""
        BY <2>3 DEF Raw
    <2> QED
        BY <2>1, <2>2, <2>3
<1>7. /\ raw.rc = 0 /\ raw.out \in Buttons => Osascript(raw) = raw.out
      /\ raw.rc = 0 /\ raw.out = "gave up:true" => Osascript(raw) = "none"
      /\ raw.rc \in {1, 99, 124} /\ raw.out = "execution error" => Osascript(raw) = "unavailable"
      /\ raw.rc \in {1, 99, 124} /\ raw.out # "execution error" => Osascript(raw) = "none"
    <2>1. /\ raw.rc \in {1, 99, 124} => raw.rc # 0
          /\ "gave up:true" \notin Buttons
        BY DEF Buttons
    <2> QED
        BY <2>1, Zenon DEF Osascript
<1> QED
    BY <1>1, <1>2, <1>3, <1>4, <1>5, <1>6, <1>7

LEMMA MsgboxAnswers ==
    ASSUME Backend = "msgbox", NEW event, NEW answer \in AnswersTo(event)
    PROVE  /\ event \in Buttons => answer = event
           /\ event = "close" => answer = "continue"
           /\ event \in {"kill", "crash"} => answer = "unavailable"
<1>1. PICK raw \in MsgboxReturns(event) : answer = Msgbox(raw)
    <2>1. Backend # "zenity" /\ Backend # "kdialog" /\ Backend # "osascript"
        OBVIOUS
    <2>2. AnswersTo(event) = {Msgbox(raw) : raw \in MsgboxReturns(event)}
        BY <2>1, Zenon DEF AnswersTo
    <2> QED
        BY <2>2
<1>2. ASSUME event \in Buttons PROVE raw.out = event
    <2>1. raw = Raw(0, event)
        BY <1>2, Zenon DEF MsgboxReturns, Buttons
    <2> QED
        BY <2>1 DEF Raw
<1>3. ASSUME event = "close" PROVE raw.out = "continue"
    <2>1. raw = Raw(0, "continue")
        BY <1>3, Zenon DEF MsgboxReturns, Buttons
    <2> QED
        BY <2>1 DEF Raw
<1>4. ASSUME event = "kill" PROVE raw.out = ""
    <2>1. raw = Raw(124, "")
        BY <1>4, Zenon DEF MsgboxReturns, Killed, Buttons
    <2> QED
        BY <2>1 DEF Raw
<1>5. ASSUME event = "crash" PROVE raw.out = ""
    <2>1. raw = Raw(99, "")
        BY <1>5, Zenon DEF MsgboxReturns, Crashed, Buttons
    <2> QED
        BY <2>1 DEF Raw
<1> QED
    BY <1>1, <1>2, <1>3, <1>4, <1>5 DEF Msgbox, Buttons

LEMMA OwnAnswers ==
    ASSUME Backend \in {"tk", "terminal"}, NEW event, NEW answer \in AnswersTo(event)
    PROVE  /\ event \in Buttons => answer = event
           /\ event \in {"close", "timer"} => answer = "none"
           /\ event = "crash" => answer = "unavailable"
<1>1. Backend \notin {"zenity", "kdialog", "osascript", "msgbox"}
    OBVIOUS
<1>2. AnswersTo(event) = {Own(event)}
    BY <1>1, Zenon DEF AnswersTo
<1> QED
    BY <1>2 DEF Own, Buttons

(* What a back end answers to what happened in front of it.                *)
LEMMA EventAnswers ==
    ASSUME Chained, NEW event, NEW answer \in AnswersTo(event)
    PROVE  /\ event \in Buttons => answer = event
           /\ event = "close" => answer \in {"continue", "none"}
           /\ event = "timer" /\ Backend \in OwnTimer => answer = "none"
           /\ event = "kill" /\ Backend \in {"zenity", "kdialog", "osascript", "msgbox"}
              => answer \in {"unavailable", "none"}
           /\ event = "crash" => \/ answer = "unavailable"
                                 \/ answer = "continue" /\ Backend = "zenity"
                                 \/ answer = "none" /\ Backend = "osascript"
<1>1. CASE Backend = "zenity"
    BY <1>1, ZenityAnswers DEF OwnTimer
<1>2. CASE Backend = "kdialog"
    BY <1>2, KdialogAnswers DEF OwnTimer
<1>3. CASE Backend = "osascript"
    BY <1>3, OsascriptAnswers DEF OwnTimer
<1>4. CASE Backend = "msgbox"
    BY <1>4, MsgboxAnswers DEF OwnTimer
<1>5. CASE Backend \in {"tk", "terminal"}
    BY <1>5, OwnAnswers DEF OwnTimer
<1> QED
    BY <1>1, <1>2, <1>3, <1>4, <1>5, BackendOfChain

(* Inductive: the two invariants with what they rest on.                   *)
DialogInv ==
    /\ TypeOK /\ DialogOpen /\ PassedOver
    /\ ChoiceMeant /\ AskedIfPossible

LEMMA HostKept ==
    ASSUME UNCHANGED host
    PROVE  /\ UNCHANGED <<os, tools, display, tty, timed>>
           /\ Possible' = Possible
           /\ \A i : Usable(i)' = Usable(i)
           /\ at' = at => Backend' = Backend
BY DEF host, Possible, Usable, Backend

(* What an answer does to the invariant: it has to be what was done, "none" *)
(* has to come out of a dialog, and what calls itself unavailable before   *)
(* anything was shown could not have been asked.                           *)
LEMMA TakeKeeps ==
    ASSUME DialogInv, result = "pending", Chained, UNCHANGED <<host, shown>>,
           NEW answer \in Buttons \cup {"none", "unavailable"}, Take(answer),
           did' \in Buttons \cup {"nothing", "closed"},
           answer \in Buttons /\ did' # answer =>
               answer = "continue" /\ (did' = "closed" \/ (did' = "nothing" /\ Backend = "zenity")),
           answer = "none" => shown \/ AtOsascript,
           answer = "unavailable" /\ ~shown => ~Usable(at)
    PROVE  DialogInv'
<1>1. /\ UNCHANGED <<os, tools, display, tty, timed, shown>> /\ open' = FALSE
      /\ answer = "unavailable" => at' = at + 1 /\ result' = "pending"
      /\ answer # "unavailable" => at' = at /\ result' = answer
    BY HostKept DEF Take
<1>2. Len(Backends[os]) \in Nat /\ at \in 1 .. Len(Backends[os])
    BY BackendOfChain DEF Chained
<1>3. TypeOK'
    <2>1. TypeOK
        BY DEF DialogInv
    <2>2. os' \in DOMAIN Backends /\ tools' \subseteq {"zenity", "kdialog", "tk"}
        BY ONLY <1>1, <2>1, Zenon DEF TypeOK
    <2>3. {display, tty, timed, open, shown}' \subseteq BOOLEAN
        BY ONLY <1>1, <2>1 DEF TypeOK
    <2>4. at' \in 1 .. Len(Backends[os']) + 1
        BY <1>1, <1>2
    <2>5. result' \in Buttons \cup {"pending", "none"}
        BY <1>1
    <2> QED
        BY <2>2, <2>3, <2>4, <2>5 DEF TypeOK
<1>4. DialogOpen'
    BY <1>1, <1>2, "pending" \notin Buttons DEF DialogOpen, Buttons
<1>5. PassedOver'
    <2>1. ASSUME ~shown, NEW i \in 1 .. Len(Backends[os]), i < at' PROVE ~Usable(i)
        <3>1. CASE i < at
            BY <2>1, <3>1 DEF DialogInv, PassedOver
        <3>2. CASE i = at
            BY <2>1, <3>2, <1>1, <1>2
        <3> QED
            BY <2>1, <3>1, <3>2, <1>1, <1>2
    <2>2. ~shown' => \A i \in 1 .. Len(Backends[os']) : i < at' => ~Usable(i)'
        BY <2>1, <1>1, HostKept
    <2> QED
        BY ONLY <2>2, Zenon DEF PassedOver
<1>6. ChoiceMeant'
    <2>1. CASE answer = "unavailable"
        BY <2>1, <1>1 DEF ChoiceMeant, Buttons
    <2>2. CASE answer # "unavailable"
        <3>1. Backend' = Backend /\ result' = answer
            BY <2>2, <1>1, HostKept
        <3> QED
            BY <3>1 DEF ChoiceMeant
    <2> QED
        BY <2>1, <2>2
<1>7. AskedIfPossible'
    <2>1. result' = "none" => shown' \/ AtOsascript'
        BY <1>1 DEF AtOsascript
    <2> QED
        BY <2>1 DEF AskedIfPossible
<1> QED
    BY <1>3, <1>4, <1>5, <1>6, <1>7 DEF DialogInv

(* Where a back end is shown, and where it cannot be.                      *)
LEMMA CanAsk ==
    ASSUME Chained
    PROVE  Usable(at) <=> (Installed /\ IF Windowed THEN display ELSE tty)
<1>1. Backend = Backends[os][at]
    BY DEF Backend
<1>2. CASE Backend = "terminal"
    BY <1>1, <1>2 DEF Usable, Installed, Windowed
<1>3. CASE Backend # "terminal"
    BY <1>1, <1>3 DEF Usable, Installed, Windowed
<1> QED
    BY <1>2, <1>3

(* At the end of the chain everything was passed over.                     *)
LEMMA NothingLeft ==
    ASSUME TypeOK, \A i \in 1 .. Len(Backends[os]) : ~Usable(i)
    PROVE  ~Possible
<1>1. CASE os = "linux"
    <2>1. PICK chain : chain = <<"zenity", "kdialog", "tk", "terminal">> /\ chain = Backends[os]
        BY <1>1, Chain
    <2>2. Len(chain) = 4 /\ chain[1] = "zenity" /\ chain[2] = "kdialog" /\ chain[3] = "tk" /\ chain[4] = "terminal"
        BY <2>1
    <2>3. ~Usable(1) /\ ~Usable(2) /\ ~Usable(3) /\ ~Usable(4)
        BY <2>1, <2>2
    <2> QED
        BY <1>1, <2>1, <2>2, <2>3 DEF Usable, Possible, TypeOK
<1>2. CASE os = "macos"
    <2>1. PICK chain : chain = <<"osascript", "tk", "terminal">> /\ chain = Backends[os]
        BY <1>2, Chain
    <2>2. Len(chain) = 3 /\ chain[1] = "osascript" /\ chain[3] = "terminal"
        BY <2>1
    <2>3. ~Usable(1) /\ ~Usable(3)
        BY <2>1, <2>2
    <2> QED
        BY <1>2, <2>1, <2>2, <2>3 DEF Usable, Possible
<1>3. CASE os = "windows"
    <2>1. PICK chain : chain = <<"tk", "msgbox", "terminal">> /\ chain = Backends[os]
        BY <1>3, Chain
    <2>2. Len(chain) = 3 /\ chain[2] = "msgbox" /\ chain[3] = "terminal"
        BY <2>1
    <2>3. ~Usable(2) /\ ~Usable(3)
        BY <2>1, <2>2
    <2> QED
        BY <1>3, <2>1, <2>2, <2>3 DEF Usable, Possible
<1> QED
    BY <1>1, <1>2, <1>3, Chain DEF TypeOK

(* Where the chain stands when something happens to it.                    *)
LEMMA Positions ==
    ASSUME DialogInv
    PROVE  /\ Trying => Chained
           /\ open => Chained /\ result = "pending" /\ did = "nothing" /\ shown
           /\ at = 1 /\ result = "pending" => did = "nothing"
           /\ did \in Buttons \cup {"nothing", "closed"}
<1>1. os \in {"linux", "macos", "windows"} /\ at \in 1 .. Len(Backends[os]) + 1
    BY Chain DEF DialogInv, TypeOK
<1>2. Len(Backends[os]) \in Nat
    BY <1>1, Chain
<1>3. Trying => Chained
    BY <1>1, <1>2 DEF Trying, Chained
<1> QED
    BY <1>1, <1>3 DEF DialogInv, TypeOK, DialogOpen, Chained

(* Nothing was tried yet.                                                  *)
LEMMA DialogInit ==
    ASSUME PromptInit
    PROVE  DialogInv
<1>1. os \in {"linux", "macos", "windows"} /\ at = 1
    BY Chain DEF PromptInit
<1>2. Len(Backends[os]) \in Nat
    BY <1>1, Chain
<1>3. TypeOK
    <2>1. at \in 1 .. Len(Backends[os]) + 1
        BY <1>1, <1>2
    <2>2. tools \subseteq {"zenity", "kdialog", "tk"} /\ os \in DOMAIN Backends
        BY DEF PromptInit
    <2>3. {display, tty, timed, open, shown} \subseteq BOOLEAN
        BY DEF PromptInit
    <2>4. did = "nothing" /\ result = "pending"
        BY DEF PromptInit
    <2> QED
        BY <2>1, <2>2, <2>3, <2>4 DEF TypeOK
<1>4. PassedOver
    BY <1>1, <1>2 DEF PassedOver
<1> QED
    BY <1>3, <1>4 DEF PromptInit, DialogInv, DialogOpen, ChoiceMeant,
        AskedIfPossible, Buttons

(* One step of the chain or of the user.                                   *)
LEMMA DialogStep ==
    ASSUME DialogInv, PromptNext
    PROVE  DialogInv'
<1>1. ASSUME Missing PROVE DialogInv'
    <2>1. Chained /\ result = "pending" /\ UNCHANGED <<host, shown, did>>
          /\ Take("unavailable") /\ ~Usable(at)
        BY <1>1, Positions, CanAsk DEF Missing, Trying
    <2> QED
        BY <2>1, Positions, TakeKeeps DEF Buttons
<1>2. ASSUME NoDisplay PROVE DialogInv'
    <2>1. Chained /\ result = "pending" /\ UNCHANGED <<host, shown, did>> /\ ~Usable(at)
        BY <1>2, Positions, CanAsk DEF NoDisplay, Trying
    <2>2. PICK answer \in AnswersTo("crash") : Take(answer)
        BY <1>2 DEF NoDisplay
    <2>3. \/ answer = "unavailable"
          \/ answer = "continue" /\ Backend = "zenity"
          \/ answer = "none" /\ Backend = "osascript"
        BY <2>1, EventAnswers
    <2>4. /\ Backend = "zenity" => did = "nothing"
          /\ Backend = "osascript" => AtOsascript
        BY <2>1, Positions, BackendOfChain
    <2> QED
        BY <2>1, <2>2, <2>3, <2>4, Positions, TakeKeeps DEF Buttons
<1>3. ASSUME NEW action \in Buttons, Press(action) PROVE DialogInv'
    <2>1. Chained /\ result = "pending" /\ UNCHANGED <<host, shown>> /\ did' = action /\ shown
        BY <1>3, Positions DEF Press
    <2>2. PICK answer \in AnswersTo(action) : Take(answer)
        BY <1>3 DEF Press
    <2>3. answer = action
        BY <2>1, EventAnswers
    <2> QED
        BY <2>1, <2>2, <2>3, TakeKeeps
<1>4. ASSUME Dismiss PROVE DialogInv'
    <2>1. Chained /\ result = "pending" /\ UNCHANGED <<host, shown>> /\ did' = "closed" /\ shown
        BY <1>4, Positions DEF Dismiss
    <2>2. PICK answer \in AnswersTo("close") : Take(answer)
        BY <1>4 DEF Dismiss
    <2>3. answer \in {"continue", "none"}
        BY <2>1, EventAnswers
    <2> QED
        BY <2>1, <2>2, <2>3, TakeKeeps DEF Buttons
<1>5. ASSUME GiveUp PROVE DialogInv'
    <2>1. Chained /\ result = "pending" /\ UNCHANGED <<host, shown, did>> /\ shown
          /\ Backend \in OwnTimer
        BY <1>5, Positions DEF GiveUp
    <2>2. PICK answer \in AnswersTo("timer") : Take(answer)
        BY <1>5 DEF GiveUp
    <2>3. answer = "none"
        BY <2>1, EventAnswers
    <2> QED
        BY <2>1, <2>2, <2>3, Positions, TakeKeeps DEF Buttons
<1>6. ASSUME Kill PROVE DialogInv'
    <2>1. Chained /\ result = "pending" /\ UNCHANGED <<host, shown, did>> /\ shown
          /\ Backend \in {"zenity", "kdialog", "osascript", "msgbox"}
        BY <1>6, Positions DEF Kill
    <2>2. PICK answer \in AnswersTo("kill") : Take(answer)
        BY <1>6 DEF Kill
    <2>3. answer \in {"unavailable", "none"}
        BY <2>1, EventAnswers
    <2> QED
        BY <2>1, <2>2, <2>3, Positions, TakeKeeps DEF Buttons
<1>7. ASSUME Crash PROVE DialogInv'
    <2>1. Chained /\ result = "pending" /\ UNCHANGED <<host, shown, did>> /\ shown /\ did = "nothing"
        BY <1>7, Positions DEF Crash
    <2>2. PICK answer \in AnswersTo("crash") : Take(answer)
        BY <1>7 DEF Crash
    <2>3. \/ answer = "unavailable"
          \/ answer = "continue" /\ Backend = "zenity"
          \/ answer = "none" /\ Backend = "osascript"
        BY <2>1, EventAnswers
    <2> QED
        BY <2>1, <2>2, <2>3, Positions, TakeKeeps DEF Buttons
<1>8. ASSUME Show PROVE DialogInv'
    <2>1. /\ UNCHANGED <<os, tools, display, tty, timed, at, result>> /\ result = "pending" /\ Chained
          /\ open' = TRUE /\ shown' = TRUE /\ did' = "nothing"
        BY <1>8, Positions DEF Show, Trying, host
    <2>2. TypeOK'
        <3>1. TypeOK
            BY DEF DialogInv
        <3>2. {display, tty, timed, open, shown}' \subseteq BOOLEAN
            BY ONLY <2>1, <3>1 DEF TypeOK
        <3>3. /\ os' \in DOMAIN Backends /\ tools' \subseteq {"zenity", "kdialog", "tk"}
              /\ at' \in 1 .. Len(Backends[os']) + 1
            BY ONLY <2>1, <3>1, Zenon DEF TypeOK
        <3>4. did' = "nothing" /\ result' = "pending"
            BY <2>1
        <3> QED
            BY <3>2, <3>3, <3>4 DEF TypeOK
    <2> QED
        BY <2>1, <2>2 DEF DialogInv, DialogOpen, PassedOver, ChoiceMeant,
            AskedIfPossible, Buttons, Chained
<1>9. ASSUME Exhausted PROVE DialogInv'
    <2>1. /\ UNCHANGED <<os, tools, display, tty, timed, at, open, shown, did>>
          /\ result' = "none" /\ at > Len(Backends[os]) /\ UNCHANGED host
        BY <1>9 DEF Exhausted, host
    <2>2. TypeOK'
        <3>1. TypeOK
            BY DEF DialogInv
        <3>2. {display, tty, timed, open, shown}' \subseteq BOOLEAN
            BY ONLY <2>1, <3>1 DEF TypeOK
        <3>3. /\ os' \in DOMAIN Backends /\ tools' \subseteq {"zenity", "kdialog", "tk"}
              /\ at' \in 1 .. Len(Backends[os']) + 1 /\ did' \in Buttons \cup {"nothing", "closed"}
            BY ONLY <2>1, <3>1, Zenon DEF TypeOK
        <3> QED
            BY <2>1, <3>2, <3>3 DEF TypeOK
    <2>3. os \in {"linux", "macos", "windows"} /\ Len(Backends[os]) \in Nat /\ at \in Nat
        BY Chain DEF DialogInv, TypeOK
    <2>4. ~open
        BY <2>1, <2>3, Positions DEF Chained
    <2>5. ~shown => ~Possible
        BY <2>1, <2>3, NothingLeft DEF DialogInv, PassedOver
    <2>6. PassedOver'
        <3>1. ~shown' => \A i \in 1 .. Len(Backends[os']) : i < at' => ~Usable(i)'
            BY <2>1, HostKept DEF DialogInv, PassedOver
        <3> QED
            BY ONLY <3>1, Zenon DEF PassedOver
    <2>7. AskedIfPossible'
        BY <2>1, <2>5, HostKept DEF AskedIfPossible, AtOsascript
    <2> QED
        BY <2>1, <2>2, <2>4, <2>6, <2>7 DEF DialogInv, DialogOpen, ChoiceMeant, Buttons
<1> QED
    BY <1>1, <1>2, <1>3, <1>4, <1>5, <1>6, <1>7, <1>8, <1>9
        DEF PromptNext, Program, User

(* A step of something else.                                               *)
LEMMA DialogStutter ==
    ASSUME DialogInv, UNCHANGED prompt
    PROVE  DialogInv'
BY DEF DialogInv, prompt, host, TypeOK, DialogOpen, PassedOver,
    Usable, ChoiceMeant, Backend, AskedIfPossible, AtOsascript, Possible

(* However dialogs, their users and their time limits interleave.          *)
LEMMA DialogCorrect == PromptSpec => []DialogInv
<1>1. DialogInv /\ [PromptNext]_prompt => DialogInv'
    BY DialogStep, DialogStutter
<1> QED
    BY <1>1, DialogInit, PTL DEF PromptSpec

(* The variables of a dialog have their types.                             *)
THEOREM DialogTypeCorrect == PromptSpec => []TypeOK
BY DialogCorrect, PTL DEF DialogInv

(* An action that prompt returns is the one its user chose in the dialog   *)
(* that was open, or "continue" for a window that was closed or a zenity   *)
(* that ended by itself: on every system, with every set of installed back *)
(* ends, whatever crashes, runs out of time or is killed on the way.       *)
THEOREM ChoicesMeant == PromptSpec => []ChoiceMeant
BY DialogCorrect, PTL DEF DialogInv

(* "No answer" without a dialog means that no back end could ask, or that  *)
(* osascript ended in a way that is taken for no answer.                   *)
THEOREM AskedWhenPossible == PromptSpec => []AskedIfPossible
BY DialogCorrect, PTL DEF DialogInv

=============================================================================
