----------------------------- MODULE AlertBoard -----------------------------
(* What GET /status promises about alerts, without the machinery that      *)
(* produces them: there is one current alert or none; it is about a fixed, *)
(* non-empty set of findings; it is open until it is answered; it leaves   *)
(* only into the list of closed alerts, with the outcome that its status   *)
(* implies; and the list keeps the latest HistoryMax of them, in order.    *)
EXTENDS Naturals, Sequences

CONSTANTS Finding, AlertId, NoId, HistoryMax

VARIABLES id, status, about, closed

board == <<id, status, about, closed>>

Answers == {"mitigated", "disconnected", "continued"}

Latest(list) == IF Len(list) > HistoryMax THEN Tail(list) ELSE list

Record(outcome) == closed' = Latest(Append(closed, outcome))

Init == id = NoId /\ status = "none" /\ about = {} /\ closed = <<>>

(* A new situation takes the place of the old one.                         *)
Raise(new, findings) ==
    /\ new # id /\ findings # {}
    /\ \/ status = "none" /\ UNCHANGED closed
       \/ status = "open" /\ Record("superseded")
       \/ status \in Answers /\ Record(status)
    /\ id' = new /\ status' = "open" /\ about' = findings

(* Users may change their minds: a later answer replaces an earlier one.   *)
Answer(answer) ==
    /\ status # "none"
    /\ status' = answer
    /\ UNCHANGED <<id, about, closed>>

(* The situation is over: only a mitigated or a disconnected alert is      *)
(* credited with it.                                                       *)
Retire ==
    /\ \/ status \in {"open", "continued"} /\ Record("resolved")
       \/ status \in {"mitigated", "disconnected"} /\ Record(status)
    /\ id' = NoId /\ status' = "none" /\ about' = {}

(* A process that ends takes the board with it.                            *)
Lose == id' = NoId /\ status' = "none" /\ about' = {} /\ closed' = <<>>

Next ==
    \/ \E new \in AlertId, findings \in SUBSET Finding : Raise(new, findings)
    \/ \E answer \in Answers : Answer(answer)
    \/ Retire
    \/ Lose

Spec == Init /\ [][Next]_board

Outcomes == Answers \cup {"resolved", "superseded"}

(* There is an alert exactly when there is something it is about, and no   *)
(* more closed alerts are kept than HistoryMax.                            *)
BoardTypeOK ==
    /\ id \in AlertId \cup {NoId} /\ status \in {"none", "open"} \cup Answers /\ about \subseteq Finding
    /\ (status = "none" <=> id = NoId) /\ (status = "none" <=> about = {})
    /\ closed \in Seq(Outcomes) /\ Len(closed) <= HistoryMax

=============================================================================
