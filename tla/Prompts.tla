------------------------------ MODULE Prompts ------------------------------
(***************************************************************************)
(* Asking the user (notify.py, prompt): a chain of back ends per system,   *)
(* tried until one does not call itself unavailable.  A dialog is another  *)
(* process or a window; what comes back of it is an exit code and some     *)
(* text, also when nobody answered, when there is no display, or when the  *)
(* process was killed because it took too long.                            *)
(*                                                                         *)
(* ZenityByCode, KdialogOrNone and WaitsOn are variants with a plausible   *)
(* bug; no action uses them.                                               *)
(***************************************************************************)
EXTENDS Naturals, Sequences

(* What a button stands for; in a terminal it is a letter.                 *)
Buttons == {"mitigate", "disconnect", "continue"}

(* Exit codes: of a program that crashed, where it is none the dialogs     *)
(* give a meaning to, and the one `run` reports for a program it stopped.  *)
Crashed == 99
Killed  == 124

VARIABLES
    os,         \* the system
    tools,      \* back ends that are installed
    display,    \* whether a dialog can be shown
    tty,        \* whether stdin is a terminal
    timed,      \* whether the caller gave a timeout (auto_action is set)
    at,         \* position in the chain
    open,       \* whether the dialog at this position is on the screen
    shown,      \* history variable: whether any dialog has been
    did,        \* history variable: what the user last did
    result      \* what prompt returned

host == <<os, tools, display, tty, timed>>
prompt == <<host, at, open, shown, did, result>>

Backends ==
    [linux   |-> <<"zenity", "kdialog", "tk", "terminal">>,
     macos   |-> <<"osascript", "tk", "terminal">>,
     windows |-> <<"tk", "msgbox", "terminal">>]

Backend == Backends[os][at]

TypeOK ==
    /\ os \in DOMAIN Backends /\ tools \subseteq {"zenity", "kdialog", "tk"}
    /\ {display, tty, timed, open, shown} \subseteq BOOLEAN
    /\ at \in 1 .. Len(Backends[os]) + 1
    /\ did \in Buttons \cup {"nothing", "closed"}
    /\ result \in Buttons \cup {"pending", "none"}

----------------------------------------------------------------------------
(* What the dialogs return (their own programs, as notify.py reads them).  *)
(* `event` is a button, "close", "timer" (the dialog gave up), "kill" (run *)
(* gave up on it) or "crash".                                              *)

Raw(rc, out) == [rc |-> rc, out |-> out]

ZenityReturns(event) ==
    CASE event = "mitigate"   -> {Raw(0, "")}
      [] event = "disconnect" -> {Raw(1, "disconnect")}
      [] event \in {"continue", "close"} -> {Raw(1, "")}
      [] event = "timer"      -> {Raw(5, "")}
      [] event = "kill"       -> {Raw(Killed, "")}
      [] event = "crash"      -> {Raw(1, ""), Raw(Crashed, "")}

KdialogReturns(event) ==
    CASE event = "mitigate"   -> {Raw(0, "")}
      [] event = "disconnect" -> {Raw(1, "")}
      [] event \in {"continue", "close"} -> {Raw(2, "")}
      [] event = "kill"       -> {Raw(Killed, "")}
      [] event = "crash"      -> {Raw(Crashed, "")}

OsascriptReturns(event) ==
    CASE event \in Buttons    -> {Raw(0, event)}
      [] event = "close"      -> {Raw(1, "execution error -128")}
      [] event = "timer"      -> {Raw(0, "gave up:true")}
      [] event = "kill"       -> {Raw(Killed, "timeout")}
      [] event = "crash"      -> {Raw(1, "execution error"), Raw(Crashed, "")}

MsgboxReturns(event) ==
    CASE event \in Buttons    -> {Raw(0, event)}
      [] event = "close"      -> {Raw(0, "continue")}
      [] event = "kill"       -> {Raw(Killed, "")}
      [] event = "crash"      -> {Raw(Crashed, "")}

(* What the program makes of it: an action, "none" or "unavailable".       *)

ZenityByCode(raw) ==
    CASE raw.rc = 0 -> "mitigate"
      [] raw.rc = 1 -> "continue"
      [] raw.rc = 5 -> "none"
      [] OTHER      -> "unavailable"

Zenity(raw) ==
    CASE raw.rc = 0 -> "mitigate"
      [] raw.rc = 1 -> IF raw.out = "disconnect" THEN "disconnect" ELSE "continue"
      [] raw.rc = 5 -> "none"
      [] OTHER      -> "unavailable"

KdialogOrNone(raw) ==
    CASE raw.rc = 0 -> "mitigate"
      [] raw.rc = 1 -> "disconnect"
      [] raw.rc = 2 -> "continue"
      [] OTHER      -> "none"

Kdialog(raw) ==
    CASE raw.rc = 0 -> "mitigate"
      [] raw.rc = 1 -> "disconnect"
      [] raw.rc = 2 -> "continue"
      [] OTHER      -> "unavailable"

Osascript(raw) ==
    CASE raw.rc = 0 /\ raw.out \in Buttons      -> raw.out
      [] raw.rc # 0 /\ raw.out = "execution error" -> "unavailable"
      [] OTHER -> "none"

Msgbox(raw) == IF raw.out \in Buttons THEN raw.out ELSE "unavailable"

(* A window of tkinter and a terminal are in the program's own hands.      *)
Own(event) == IF event \in Buttons THEN event ELSE IF event = "crash" THEN "unavailable" ELSE "none"

AnswersTo(event) ==
    CASE Backend = "zenity"    -> {Zenity(raw) : raw \in ZenityReturns(event)}
      [] Backend = "kdialog"   -> {Kdialog(raw) : raw \in KdialogReturns(event)}
      [] Backend = "osascript" -> {Osascript(raw) : raw \in OsascriptReturns(event)}
      [] Backend = "msgbox"    -> {Msgbox(raw) : raw \in MsgboxReturns(event)}
      [] OTHER                 -> {Own(event)}

----------------------------------------------------------------------------
(* The chain.                                                              *)

Installed == Backend \in tools \cup {"osascript", "msgbox", "terminal"}

Windowed == Backend # "terminal"

(* The next back end is tried after one that is unavailable or raised.     *)
Take(answer) ==
    /\ open' = FALSE
    /\ IF answer = "unavailable" THEN at' = at + 1 /\ UNCHANGED result
       ELSE result' = answer /\ UNCHANGED at

Trying == result = "pending" /\ ~open /\ at <= Len(Backends[os])

(* Not installed, or for a terminal not one.                               *)
Missing ==
    /\ Trying
    /\ ~Installed \/ (~Windowed /\ ~tty)
    /\ Take("unavailable")
    /\ UNCHANGED <<host, shown, did>>

Show ==
    /\ Trying /\ Installed
    /\ IF Windowed THEN display ELSE tty
    /\ open' = TRUE /\ shown' = TRUE /\ did' = "nothing"
    /\ UNCHANGED <<host, at, result>>

(* A window that cannot be opened ends its program at once.                *)
NoDisplay ==
    /\ Trying /\ Installed /\ Windowed /\ ~display
    /\ \E answer \in AnswersTo("crash") : Take(answer)
    /\ UNCHANGED <<host, shown, did>>

Press(action) ==
    /\ open /\ did' = action
    /\ \E answer \in AnswersTo(action) : Take(answer)
    /\ UNCHANGED <<host, shown>>

(* Closing the window, or typing another letter or the end of input.       *)
Dismiss ==
    /\ open /\ did' = "closed"
    /\ \E answer \in AnswersTo("close") : Take(answer)
    /\ UNCHANGED <<host, shown>>

WaitsOn == {"zenity", "osascript", "tk"}

(* kdialog and the Windows message box have no time limit of their own.    *)
OwnTimer == {"zenity", "osascript", "tk", "terminal"}

GiveUp ==
    /\ open /\ timed /\ Backend \in OwnTimer
    /\ \E answer \in AnswersTo("timer") : Take(answer)
    /\ UNCHANGED <<host, shown, did>>

(* run ends a program after the timeout and thirty seconds, or a day.      *)
Kill ==
    /\ open /\ Backend \in {"zenity", "kdialog", "osascript", "msgbox"}
    /\ \E answer \in AnswersTo("kill") : Take(answer)
    /\ UNCHANGED <<host, shown, did>>

Crash ==
    /\ open /\ Windowed
    /\ \E answer \in AnswersTo("crash") : Take(answer)
    /\ UNCHANGED <<host, shown, did>>

Exhausted ==
    /\ result = "pending" /\ at > Len(Backends[os])
    /\ result' = "none"
    /\ UNCHANGED <<host, at, open, shown, did>>

PromptInit ==
    /\ os \in DOMAIN Backends /\ tools \in SUBSET {"zenity", "kdialog", "tk"}
    /\ display \in BOOLEAN /\ tty \in BOOLEAN /\ timed \in BOOLEAN
    /\ at = 1 /\ open = FALSE /\ shown = FALSE
    /\ did = "nothing" /\ result = "pending"

Program == Missing \/ Show \/ NoDisplay \/ GiveUp \/ Kill \/ Exhausted
User    == (\E action \in Buttons : Press(action)) \/ Dismiss

PromptNext == Program \/ User \/ Crash

PromptSpec == PromptInit /\ [][PromptNext]_prompt

(* The program runs, and its time limits pass; users need not answer.      *)
FairSpec == PromptSpec /\ WF_prompt(Program)

----------------------------------------------------------------------------
(* Properties.                                                             *)

(* No action is returned that the user did not choose in the dialog that   *)
(* was open last, with two exceptions, both "continue": a window that was  *)
(* closed, and a zenity that ended by itself with the exit code that its   *)
(* cancel button also gives (notify.py, every back end).                   *)
ChoiceMeant ==
    result \in Buttons /\ did # result =>
        /\ result = "continue"
        /\ did = "closed" \/ (did = "nothing" /\ Backend = "zenity")

(* "'mitigate' | 'disconnect' | 'continue' | None (no answer / no UI)"     *)
(* (notify.py:65): an action is an answer, and comes out of a UI.          *)
NoAnswerNoAction == result \in Buttons => shown

(* "No answer" is not returned without asking while some back end could    *)
(* have asked: one that fails hands over to the next.  An osascript that   *)
(* ends without an "execution error" does not: notify.py:122 takes that    *)
(* for a dialog nobody answered.                                           *)
Possible ==
    \/ tty
    \/ display /\ (os # "linux" \/ tools # {})

AtOsascript == os = "macos" /\ at = 1

AskedIfPossible == result = "none" /\ ~shown => ~Possible \/ AtOsascript

(* What the two invariants rest on.  While a dialog is open nobody has     *)
(* answered it and nothing is returned; the first back end is tried before *)
(* anybody did anything; and as long as nothing was shown, no back end     *)
(* that was passed over could have been asked.                             *)
Usable(i) ==
    LET backend == Backends[os][i] IN
    IF backend = "terminal" THEN tty
    ELSE display /\ backend \in tools \cup {"osascript", "msgbox"}

DialogOpen ==
    /\ open => result = "pending" /\ did = "nothing" /\ shown /\ at \in 1 .. Len(Backends[os])
    /\ at = 1 /\ result = "pending" => did = "nothing"

PassedOver == ~shown => \A i \in 1 .. Len(Backends[os]) : i < at => ~Usable(i)

(* With a timeout prompt returns though nobody ever answers, so that the   *)
(* agent and the console get to the next alert (config.py:37).             *)
PromptEnds == timed => <>(result # "pending")

=============================================================================
