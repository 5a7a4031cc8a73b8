------------------------------ MODULE Service ------------------------------
(***************************************************************************)
(* The program as it is installed and run: install-service and             *)
(* uninstall-service (service.py), the processes that are a monitor        *)
(* (cli.py, _start_monitor), the token files through which clients get     *)
(* into the local API (api.py) and the configuration that a process must   *)
(* load before it is one (config.py).                                      *)
(*                                                                         *)
(* Two processes can be a monitor: "service", `tvv daemon` run by the      *)
(* service manager, and "console", a `tvv monitor` that somebody starts    *)
(* beside it.  Only one of them can listen on the port, but both write the *)
(* token first.  One client, an agent, reads a token and sends a request.  *)
(*                                                                         *)
(* ReadableHomeFirst, EnabledNow, RemovedUnlessBusy and HandKept are       *)
(* variants with a plausible bug; no action uses them.                     *)
(***************************************************************************)
EXTENDS Naturals

CONSTANTS
    Token,      \* what secrets.token_hex returns: never twice the same
    NoToken     \* no file, or nothing read yet

ASSUME TokenAssumption == NoToken \notin Token

Process == {"service", "console"}
Path    == {"state", "home"}
Nobody  == "nobody"

VARIABLES
    os,         \* which of the three systems this is
    config,     \* the configuration file: "absent", "valid" or "wrong"
    unit,       \* whether the unit, the plist or the task exists
    enabled,    \* whether systemd starts the unit at boot
    supervised, \* whether the service manager starts the daemon again when it ends
    script,     \* position of install-service or uninstall-service
    stage,      \* how far each process has come
    rights,     \* whose process it is: "root" or "user"
    where,      \* the path a process wrote its token to
    token,      \* the token its server compares with
    port,       \* the process that listens
    store,      \* the token files
    hand,       \* the token the client has read
    installed,  \* history variable: what the user was told last
    overwritten \* history variable: processes whose token file was written by another

disk    == <<config, unit, enabled>>
manager == <<supervised, script, installed>>
process == <<stage, rights, where, token, port, overwritten>>
vars    == <<os, disk, manager, process, store, hand>>

TypeOK ==
    /\ os \in {"linux", "macos", "windows"}
    /\ config \in {"absent", "valid", "wrong"}
    /\ unit \in BOOLEAN /\ enabled \in BOOLEAN /\ supervised \in BOOLEAN
    /\ script \in {"none", "install", "uninstall"}
    /\ stage \in [Process -> {"off", "write", "read", "bind", "up"}]
    /\ rights \in [Process -> {"root", "user"}]
    /\ where \in [Process -> Path]
    /\ token \in [Process -> Token \cup {NoToken}]
    /\ port \in Process \cup {Nobody}
    /\ store \in [Path -> Token \cup {NoToken}]
    /\ hand \in Token \cup {NoToken}
    /\ installed \in {"never", "yes", "removed", "gone", "unknown"}
    /\ overwritten \in SUBSET Process

----------------------------------------------------------------------------
(* install-service and uninstall-service.                                  *)

(* A process ends with all it holds; its token file stays.                 *)
Ended(ps) ==
    /\ stage' = [p \in Process |-> IF p \in ps THEN "off" ELSE stage[p]]
    /\ token' = [p \in Process |-> IF p \in ps THEN NoToken ELSE token[p]]
    /\ port' = IF port \in ps THEN Nobody ELSE port
    /\ overwritten' = overwritten \ ps
    /\ rights' = [p \in Process |-> IF p \in ps THEN "root" ELSE rights[p]]
    /\ where' = [p \in Process |-> IF p \in ps THEN "state" ELSE where[p]]

(* _ensure_config leaves a configuration alone that is there already.      *)
EnsureConfig == config' = IF config = "absent" THEN "valid" ELSE config

InstallFiles ==
    /\ script = "none"
    /\ EnsureConfig
    /\ unit' = (unit \/ os # "windows")
    /\ script' = "install" /\ installed' = "unknown"
    /\ UNCHANGED <<os, enabled, supervised, process, store, hand>>

EnabledNow == enabled

(* `systemctl enable --now` also makes the unit start at boot.             *)
EnabledAtBoot == os = "linux"

(* bootout ends a daemon of launchd that runs already; systemd and the     *)
(* task scheduler leave it running.                                        *)
InstallManaged ==
    /\ script = "install" /\ script' = "none"
    /\ IF os = "macos" THEN Ended({"service"}) ELSE UNCHANGED process
    /\ \/ /\ unit' = TRUE /\ supervised' = TRUE /\ enabled' = EnabledAtBoot /\ installed' = "yes"
       \/ /\ installed' = "unknown"
          /\ supervised' = (supervised /\ os # "macos")
          /\ \/ UNCHANGED <<unit, enabled>>
             \/ os = "linux" /\ enabled' = EnabledAtBoot /\ UNCHANGED unit
             \/ os = "windows" /\ unit' = TRUE /\ UNCHANGED enabled
    /\ UNCHANGED <<os, config, store, hand>>

(* Stop it and make the manager forget it, if the command succeeds.        *)
UninstallManaged ==
    /\ script = "none" /\ script' = "uninstall"
    /\ installed' = "unknown"
    /\ \/ /\ supervised' = FALSE /\ enabled' = FALSE /\ Ended({"service"})
          /\ unit' = (unit /\ os # "windows")
       \/ UNCHANGED <<supervised, enabled, unit, process>>
    /\ UNCHANGED <<os, config, store, hand>>

RemovedUnlessBusy == unit /\ supervised

(* What is left of the unit after uninstall: on Windows the task, when the *)
(* command failed; elsewhere the file is removed whatever it did.          *)
Left == unit /\ os = "windows"

UninstallFiles ==
    /\ script = "uninstall" /\ script' = "none"
    /\ unit' = Left
    /\ installed' = "removed"
    /\ \/ UNCHANGED supervised
       \/ os = "linux" /\ supervised' = FALSE
    /\ UNCHANGED <<os, config, enabled, process, store, hand>>

----------------------------------------------------------------------------
(* A process becomes a monitor.                                            *)

(* Config.load raises on a key or a value it does not know, outside the    *)
(* handler of main: such a process ends at once.                           *)
Loads == config # "wrong"

Start(p, who) ==
    /\ stage[p] = "off" /\ Loads
    /\ p = "service" => supervised /\ who = "root"
    /\ stage' = [stage EXCEPT ![p] = "write"]
    /\ rights' = [rights EXCEPT ![p] = who]
    /\ UNCHANGED <<os, disk, manager, where, token, port, overwritten, store, hand>>

Used  == {store[path] : path \in Path} \cup {token[p] : p \in Process} \cup {hand}
Fresh == CHOOSE t \in Token : t \notin Used

(* The state directory belongs to root; on Windows it may be open to users. *)
Writable(p) ==
    IF rights[p] = "root" THEN {"state"} ELSE IF os = "windows" THEN Path ELSE {"home"}

WriteToken(p) ==
    /\ stage[p] = "write" /\ ~(Token \subseteq Used)
    /\ \E path \in Writable(p) :
        /\ store' = [store EXCEPT ![path] = Fresh]
        /\ where' = [where EXCEPT ![p] = path]
        /\ overwritten' = overwritten \cup
                {q \in Process \ {p} : stage[q] \in {"bind", "up"} /\ where[q] = path}
    /\ stage' = [stage EXCEPT ![p] = "read"]
    /\ UNCHANGED <<os, disk, manager, rights, token, port, hand>>

(* The server gets its token from the file, not from write_token.          *)
ReadBack(p) ==
    /\ stage[p] = "read"
    /\ token' = [token EXCEPT ![p] = store[where[p]]]
    /\ stage' = [stage EXCEPT ![p] = "bind"]
    /\ UNCHANGED <<os, disk, manager, rights, where, port, overwritten, store, hand>>

(* A port that is taken only disables the API: the monitor runs on without *)
(* it and never tries again.  On Windows SO_REUSEADDR may let it in.       *)
Bind(p) ==
    /\ stage[p] = "bind"
    /\ \/ port = Nobody /\ port' = p
       \/ port # Nobody /\ port' = port
       \/ os = "windows" /\ port' = p
    /\ stage' = [stage EXCEPT ![p] = "up"]
    /\ UNCHANGED <<os, disk, manager, rights, where, token, overwritten, store, hand>>

----------------------------------------------------------------------------
(* A client calls; read_token runs anew for every call.                    *)

ReadableHomeFirst == IF store["home"] # NoToken THEN store["home"] ELSE store["state"]

Readable == IF store["state"] # NoToken THEN store["state"] ELSE store["home"]

ReadToken ==
    /\ hand = NoToken /\ Readable # NoToken
    /\ hand' = Readable
    /\ UNCHANGED <<os, disk, manager, process, store>>

HandKept == hand

HandAfter == NoToken

(* Whatever the server says, the next call reads the token again.          *)
Send ==
    /\ hand # NoToken
    /\ hand' = HandAfter
    /\ UNCHANGED <<os, disk, manager, process, store>>

----------------------------------------------------------------------------
(* Processes end, machines boot, administrators edit.                      *)

End(p) ==
    /\ stage[p] # "off" /\ Ended({p})
    /\ UNCHANGED <<os, disk, manager, store, hand>>

Boot ==
    /\ Ended(Process)
    /\ script' = "none"
    /\ supervised' = (unit /\ (os = "linux" => enabled))
    /\ installed' = IF script # "none" THEN "unknown"
                    ELSE IF installed = "removed" THEN "gone" ELSE installed
    /\ hand' = NoToken
    /\ UNCHANGED <<os, disk, store>>

Edit ==
    /\ config' \in {"valid", "wrong"} \ {config}
    /\ UNCHANGED <<os, unit, enabled, manager, process, store, hand>>

Init ==
    /\ os \in {"linux", "macos", "windows"}
    /\ config = "absent" /\ unit = FALSE /\ enabled = FALSE
    /\ supervised = FALSE /\ script = "none" /\ installed = "never"
    /\ stage = [p \in Process |-> "off"] /\ rights = [p \in Process |-> "root"]
    /\ where = [p \in Process |-> "state"] /\ token = [p \in Process |-> NoToken]
    /\ port = Nobody /\ overwritten = {}
    /\ store = [path \in Path |-> NoToken]
    /\ hand = NoToken

Becomes(p) == (\E who \in {"root", "user"} : Start(p, who)) \/ WriteToken(p) \/ ReadBack(p) \/ Bind(p)
Call       == ReadToken \/ Send
Scripts    == InstallFiles \/ InstallManaged \/ UninstallManaged \/ UninstallFiles

Next == (\E p \in Process : Becomes(p) \/ End(p)) \/ Call \/ Scripts \/ Boot \/ Edit

Spec == Init /\ [][Next]_vars

(* The service manager starts what it supervises, a process that started   *)
(* runs, and an agent keeps polling.                                       *)
FairSpec == Spec /\ WF_vars(Becomes("service")) /\ WF_vars(Call)

----------------------------------------------------------------------------
(* Properties.                                                             *)

(* Where a user's client looks first: a server whose token is elsewhere is *)
(* not found by it.                                                        *)
Shadowed(p) == where[p] = "home" /\ store["state"] # NoToken

(* Whatever was started, ended, installed or booted before: a client that  *)
(* reads the token now gets into the server that listens, unless another   *)
(* monitor wrote the same file since, or an older file shadows it (api.py, *)
(* write_token and read_token; cli.py, _start_monitor).                    *)
ClientsServed ==
    port # Nobody /\ port \notin overwritten /\ ~Shadowed(port) => Readable = token[port]

(* What makes it so: from the moment a process has read its token back the *)
(* file it was written to holds that token, or somebody else's.            *)
FileOfServer ==
    \A p \in Process :
        /\ stage[p] \in {"read", "bind", "up"} => store[where[p]] # NoToken
        /\ stage[p] \in {"bind", "up"} /\ p \notin overwritten => token[p] = store[where[p]]

ServerRuns == port # Nobody => stage[port] = "up"

(* "The token is readable by local users so their agents can reach the     *)
(* daemon" (README.md:136): no exception for a second monitor.             *)
AgentsReach == port = "service" => Readable = token["service"]

(* After an uninstall and a boot nothing of the service runs or will run,  *)
(* though the commands of the uninstall may have failed (service.py).      *)
UninstallSticks ==
    installed = "gone" /\ os # "windows" => stage["service"] = "off" /\ ~supervised

(* Progress is promised when processes are not ended again and again.      *)
Calm == <>[][~Boot /\ ~End("service")]_vars

(* What install-service reported as started comes back after every crash   *)
(* and boot, as long as its configuration can be loaded (Restart=always    *)
(* and KeepAlive; a task is started again only when Windows says it        *)
(* failed).                                                                *)
ComesBack ==
    Calm => (installed = "yes" /\ os # "windows"
                ~> stage["service"] = "up" \/ installed # "yes" \/ config = "wrong")

(* An agent outlives the daemon it talked to: once some server goes on     *)
(* undisturbed the agent is let in again and again, with the token of that *)
(* server (agent.py, run_agent; api.py, call).                             *)
Undisturbed == port # Nobody /\ port \notin overwritten /\ ~Shadowed(port)

LetInAgain == <>[]Undisturbed => []<>(port # Nobody /\ hand = token[port])

=============================================================================
