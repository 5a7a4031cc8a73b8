# TunnelVisionVision in TLA+

TunnelVisionVision watches a host's routing state for routes that carry traffic around a connected VPN (TunnelVision,
CVE-2024-3661), tells the user, and carries out the answer: *mitigate* (delete the routes, and keep deleting them),
*disconnect* (take the interface down) or *continue* (acknowledge). This directory holds a TLA+ model of it, the TLC
configurations that check it on small instances, and TLAPS proofs of its main properties for every instance.

All source paths below are relative to `src/tunnelvisionvision/` unless they name another place.

## Inventory

| Component | State | Operations | Interacts with |
|---|---|---|---|
| **Monitor** (`daemon.py`) | `alert`, `history`, `acked`, `enforce`, `vpn_since`, `baseline`, `snap`, `findings`, `last_cycle`, `agents`, `wake`, `lock` | `cycle`, `perform`, `status`, `run_forever` | calls collectors, detector, responses; called by API threads and the console |
| **Responses** (`actions.py`) | none; changes the OS's routes and interfaces | `mitigate`, `disconnect`, `acknowledge` | called by `perform`, by `cycle` (enforcement) and by `tvv check -i` |
| **Detector** (`detect.py`) | none; reads the snapshot, the baseline and the sniffer's list | `analyze`, `summarize` | asks the platform for route lookups |
| **Collectors** (`platforms/`) | the Windows one keeps `_cache` between three calls | `snapshot`, `route_lookup`, `delete_route`, `disconnect`, `manual_steps` | run OS commands; every failed part of a snapshot becomes an empty part |
| **Sniffer** (`sniff.py`) | a deque of 500 observations, `error` | `run` (own thread), `recent` | decodes with `dhcp.py`, read by `cycle` |
| **DHCP decoding** (`dhcp.py`) | none | `decode_rfc3442`, `parse_route_text`, `parse_options`, `parse_bootp`, the encoders | collectors and sniffer |
| **Local API** (`api.py`) | the token file | `serve` (a thread per request), `call` | `Monitor.status`, `Monitor.perform` |
| **Session agent** (`agent.py`) | `handled` | poll `/status`, prompt, post `/action` | the API; a prompt |
| **Console** (`cli.py`, `tvv monitor`) | `prompt_lock` | `on_alert` (a thread per alert) | `Monitor.perform` directly |
| **Prompts** (`notify.py`) | none | a chain of back ends per OS | the user |
| **Command line** (`cli.py`) | none | `check`, `status`, `action`, ... | the API, or a platform directly |
| **Configuration** (`config.py`) | the settings | `load`, `update` | everything |
| **Service manager** (`service.py`; systemd, launchd and the task scheduler are external) | the unit, the configuration file | `install_daemon`, `uninstall_daemon`; restarts the daemon for ever | the daemon's process |

**What is hard here.** The loop thread, a thread per HTTP request, a thread per console alert and the sniffer run
concurrently. One re-entrant lock guards the monitor, but the *world* is not under it: routes, leases and VPNs change
between a snapshot and the commands that act on it, and users answer alerts that describe an older world. `wake` is set
under the lock and cleared outside it. Everything about "did the user already decide" is a comparison of wall-clock
ages, fingerprint sets and a status. Commands fail and time out; some failures are tolerated (an empty route table),
some end the cycle half-way. All state is lost when the service manager restarts the process. The list of hazards, each
at its line and with the properties that watch it, is in `PROJECT.json`.

**What makes each component correct.**

* Monitor: nothing above the threshold goes unlisted unless it was acknowledged recently; "continue" does not nag and does
  expire; enforcement is confined to a VPN session, and lasts as long as it; what appeared after the VPN is not laundered
  into the baseline; alerts leave exactly once and with the right outcome; an answer is verified at once; an unanswered
  alert gets its `auto_action`.
* Responses: delete what was named, report a failure as one, leave the VPN's own route alone.
* Detector: a finding for exactly the routes that take traffic the VPN would carry.
* Collectors: a snapshot is of one moment, and says what it lacks.
* Parsers and deletion: a snapshot shows the routes that forward traffic as they are, however a system abbreviates them; a
  deletion takes away the entry that was read and no bystander, on a table that has changed since.
* Sniffer and decoder: every offer with hostile routes within the window is seen; decoding inverts encoding.
* Agent, console, API: the open alert is shown to somebody; an answer is carried out only for the alert it was given for,
  and what the user is told about it is true.
* Prompts: an answer is one that a person gave in a dialog; a back end that fails hands over to the next; with a timeout
  the chain ends.
* Service and token: a client finds the token of the server that listens; the daemon comes back after a crash and a boot;
  an uninstalled one does not.

## Modules

| Module | What it is | Code |
|---|---|---|
| `Monitor.tla` | the daemon: loop thread, request threads, lock, world, time, faults | `daemon.py`, `actions.py`, parts of `detect.py`, `platforms/base.py` |
| `AlertBoard.tla` | what `GET /status` promises about alerts, without the machinery | abstract |
| `MonitorProperties.tla`, `MonitorProofs.tla`, `MCMonitor.tla` | properties of `Monitor`, with its refinement of `AlertBoard`; proofs; TLC constants | |
| `Detect.tla` | `analyze`, on route tables over a small address space | `detect.py`, `model.py` |
| `DetectProperties.tla`, `DetectProofs.tla`, `MCDetect.tla` | its reference definition of a leak and its properties; proofs; TLC constants | |
| `Responders.tla` | agents, console, command line and requests in flight, composed with `AlertBoard` as the daemon | `agent.py`, `api.py`, `cli.py`, `notify.py`, `daemon.py` |
| `MCResponders.tla`, `ResponderProofs.tla` | properties and TLC constants; proofs, of the dialogs of `Prompts` as well | |
| `Dhcp.tla` | option 121 as bytes and as text: pure operators | `dhcp.py` |
| `Sniffer.tla`, `MCSniffer.tla` | the sniffer's deque and what is made of it and of lease files; properties and TLC constants | `sniff.py`, `detect.py`, the lease readers of `platforms/linux.py` |
| `Collect.tla`, `MCCollect.tla` | a snapshot of several commands, with its properties; TLC constants | `platforms/` |
| `SnifferProofs.tla` | proofs about observations and about option 121 as bytes and as text | |
| `CollectProofs.tla` | proofs about snapshots and merged leases | |
| `Tables.tla`, `MCTables.tla` | route tables and registry options as systems print them, as they are read, and deletion by command; properties and TLC constants | the parsers and `delete_route` of `platforms/` |
| `TableProofs.tla` | proofs about parsers, deletion and registry options | |
| `Prompts.tla` | the chain of prompt back ends, with its properties | `notify.py` |
| `Service.tla`, `MCService.tla` | installation, processes, the port and the token files, with their properties; TLC constants | `service.py`, `api.py`, `cli.py`, `config.py` |
| `ServiceProofs.tla` | proofs about tokens and about uninstalling | |
| `Lists.tla` | what matters of a list, and as much of it as a text names, for `Detect` and `Sniffer` | `detect.py` |
| `Recursion.tla` | lemmas: induction over numbers and functions defined by recursion, for the proofs about decoders, scans, folds and listings | |

`Monitor` implements `AlertBoard` by a refinement mapping (`Refinement`). `Responders` EXTENDS the board and restricts its steps
to the holder of the lock and to fresh ids: the people and requests in front and the machinery behind are models that meet at
the board.
`Sniffer` EXTENDS `Dhcp`, so that what is heard is decoded from bytes. `Tables`, `Prompts` and `Service` each stand
alone: what they show is what the others assume of a snapshot, of a screen and of a client that can reach the daemon.

### Monitor

*Findings.* A finding stands for its fingerprint. `Rating`, `Mitigable`, `HostRoute` and `Ambient` say of each what the
detector would: its severity, whether it names a route that can be deleted, whether it is a host route rated by the
baseline (LOW if known, MEDIUM while the grace period runs, HIGH later), and whether it is reported without a VPN as well.
`present` is the set of findings whose cause exists in the world now. Host routes, those a VPN client installs towards its own
server included, come and go at any time: before, with or after the tunnel, during or after the grace period, and again in the
same session. A VPN may go down and come back between two cycles. How prefixes, leases and lookups make a finding is in `Detect`.

*Control.* `phase` is the position inside the critical section, `"idle"` when the lock is free. A cycle runs
`BeginCycle`, `Evaluate`, perhaps `Enforce` and `Recheck`, one of `CommitClear`, `CommitKeep` and `CommitRaise`, and
`AutoAct` or `AutoSkip`. Between any two of them the world moves and time passes. `Perform` is a whole request when a snapshot
exists; before the first one it runs a cycle inline (`pending` holds the answer) and ends with `PendingAnswer`. The status
line of the alert, the result texts and `manual_steps` are left out. A request for another alert id, or an unknown action,
changes nothing and so is a stutter.

*Exceptions.* `EvaluationRaises` is an exception out of `analyze`, after `_context` has changed its state. `CommitRaise`
has the outcome in which `wall` times out inside `_emit`, after the alert is stored. Both return to the loop thread, or
abort the request that had to run the cycle.

*Time.* Each timestamp is an age that saturates just above the limit it is compared with (`vpnAge`, `alert.age`, `ackAge`,
`waited`), and `Tick` advances all. `tolerated`, the host routes reported without alarm in the present session, is a history variable. This keeps the state space finite and loses nothing: the code only ever compares.

*Faults*, a constant set, switches the environment's failures on: `collect` (a route table that could not be read is
empty), `lookup`, `emit`, `command` (a deletion or a disconnection fails), `restart` (`Restart=always`, KeepAlive).
Even without `command` a deletion fails when its route is already
gone, because the commands name routes of an older snapshot.

### Detect

*Data.* A network is the set of its addresses, so "is a subnet of" is `\subseteq`; the assumption on the constants says
that networks nest or are disjoint. `Probe` and `Middle` are the address `probe_address` picks and the one a canary gets.
Severities keep the numbers of `model.Severity`. Destinations that `is_special` discards are not in the snapshot. `Key` is
`Route.key`, without the metric, so that two routes may share one; the table a route is in is left out. What a lease or an offer
pushes is a sequence, because a text names only the first `MaxListed` routes (8 in the code) and the text is the fingerprint: `Listed`,
and in `notes` whether it ends with "..." and speaks of an overlap.

*Control.* `stage` follows `analyze`: `Scan` (route findings), `Confirm` (one lookup per finding, which downgrades),
`ProbeCanaries`, `Report` (leases, sniffer, deduplication: of findings with one fingerprint and severity any one may be the first,
and so be kept). Between them `Reroute` changes `os`, the operating system's
answers, at will; some routing is by longest prefix and metric (`LongestPrefix`), some is not (policy routing, failed
lookups).

*Properties.* `Leaks` is the reference: ask for every address which route wins. `LeakReported`, `MitigationRestores` and
`DefaultLeakSeen` say `Steady` (routing did not change under the analysis and is by prefix), because a lookup cannot
speak about another moment; the others hold whatever the system answers. `Excused` lists the reasons that are no route's
fault. `Representative` is the condition under which one probe address may stand for a network (see "What the properties had
to be told").

### Responders

*Clients.* `agent[a]` is where the agent of user `a` is: polling (`get` waits for the lock, `read` holds a reply not yet
compared), showing a prompt, waiting for a POST, showing a result. `handled` is the set in `run_agent`. `posts` are requests
the daemon has accepted: `Serve` carries one out whether its client still waits or not; `GiveUpPoll` and `GiveUpPost` are
the 10 s and 120 s time-outs, possible only while the lock is held. `CliPost` is `tvv action`, with `--alert` or
without: the request waits like any other, may outlive its client, and without an id is carried out for the alert that is current
then. `Logout` and `Login` start an agent anew. The console
of `tvv monitor` has a thread per alert (`queue`), `prompt_lock` (`console`) and the readers that timed-out terminal
prompts leave in `input()` (`readers`). `tvv status` counts as an agent for thirty seconds (`fresh`), as in the code.

*Daemon.* The board and one lock; a cycle holds it in two parts, since an exception in `Emit` skips the second. `Emit` is `Announce`,
which calls `wall` if there is one (`mode.wall`: Linux, and installed), no agent counts as present and no console runs; or `WallFails`,
in which `wall` cannot be run, times out or reaches nobody; or `NewReader`, in which an agent's first poll or a `tvv status` adds to the
table of agents while it is read, so that the alert is announced nowhere. An answer before the first snapshot, which makes
`perform` run a cycle, is left to `Monitor`; here it is a cycle just before the answer.

*What incidents are.* Restarts, time-outs, logouts, a failing `wall`, that race and shell commands are bounded together by `MaxIncidents`.

### Dhcp and Sniffer

*Data.* Bytes are numbers; a packet is its options field with its port numbers; a text is a sequence of words, each an
address, a network or a number with its digits (splitting at blanks, commas and colons is left out). `Packet` and
`LeaseText` are what servers and clients of other makes write (RFC 3442, RFC 3396), independently of the code's own
encoder: option 121, 249, both, in pieces, padded, cut short; networks, decimal bytes, hex dumps with and without `0x`.

*Reports.* `RogueOffers` has one report per fingerprint, that of the oldest observation: the text lists the first `MaxListed` routes
that bypass the VPN and not the server, so of two servers that push the same on one interface one is named.

*Time.* Observations carry an age that saturates at `Window`.

*Proviso.* `Telling`: a hex dump whose digits are all decimal cannot be told from a list of decimal bytes, and is read as
one (`dhcp.py:73` comes first). `LeaseRead` does not speak of those.

### Collect

A part of a snapshot is the set of moments at which it was read (empty when it failed); `moment` counts changes of the host.
So "stale" and "mixed" are statements about numbers. On Windows `cache` is the moment of `_cache`; on Linux `found` is
the lease of one interface, merged by `Add` from groups of files, in any order a glob may give, or by modification time (`written`,
in which files written at one moment tie) for dhclient. An exception leaves a part empty and is noted; a command of
Linux that exits with an error is not, nor is a cmdlet that fails on Windows, where the script runs with `SilentlyContinue`
(`windows.py:23`; `Find`), and neither is a lease file that cannot be read (`missed`). On Windows a moment is one run of the script; that its
cmdlets run one after another is left out.

### Tables

*Data.* A network is four octets and a length. `source` is where the program reads: iproute2, `/proc/net/route` (the
fallback), `netstat`, `Get-NetRoute`, or the registry. `IpRow`, `ProcRow`, `NetstatRow` and `WindowsRow` are what the systems
print (external): the word "default", octets and lengths that netstat leaves out by the class of the address, the byte order of
`/proc`. `Parse...` is what the code makes of one row. IPv6 and the splitting of lines into fields are left out.

*Control.* `Change` is anybody else, `Snapshot` reads all rows, `Delete` runs the command for a route read earlier. `Command` says which
fields the command names; a field it cannot name is `Unnamed`, and `Meant` is what the system may then take it to
mean. `Careless` is netstat's system deleting by destination alone, which is why `DeletionExact` asks for the interface only elsewhere. The
command may always fail, and without iproute2 there is none. A table holds no two entries of one key (`Distinct`): duplicates that
`ip route append` could make are left out.

*The registry.* `Renew` stores a list of options in one of two layouts, and `ParseOptions` decides between them by trial,
as `parse_dhcp_interface_options` does. `Telling` is the proviso: in the layout without expiry times, an option
shorter than two bytes after the first can make the list read like one with them.

### Prompts

`at` is the position in the chain, `open` whether its dialog is on the screen. `ZenityReturns` and its like are
the exit codes and texts the dialogs' programs give for a button, a closed window, a timer that ran out, a program that was killed or
crashed (external, with what osascript prints of a crash or nothing of it); `Zenity` and its like are what the code makes of them. `Missing`, `NoDisplay` and `Crash` hand over or not, as those
say. The model has no constants: it is all of the system, over every set of installed tools, with and without display,
terminal and timeout.

### Service

*Processes.* `stage` follows `_start_monitor`: `write` a token, `read` it back, `bind` the port, `up`. The service manager starts
`"service"` while `supervised`; anybody starts `"console"` (`tvv monitor`), as root or not, which decides which of two
token files it writes. The server compares with the token it read back, for as long as it lives. `Bind` fails on a port that is
taken, which only disables the API; on Windows `SO_REUSEADDR` may let it in.

*Clients.* `hand` is the token an agent has read: `ReadToken` looks into the state directory first, at every call.

*Scripts.* Install and uninstall are two steps each, files and service manager, because commands of the second fail
and a machine may boot between them. `supervised` and `enabled` are two things: restarting after a crash, and starting at boot.
`Edit` changes the configuration under a running daemon; one that does not load ends every process that starts with it.

*Provisos.* `uninstall_daemon` on Windows reports success though its PowerShell command failed (`service.py:79-81`), and its task
is restarted only when Windows says it failed, so `UninstallSticks` and `ComesBack` do not speak of Windows. `Shadowed` and `overwritten` are the two
ways in which a server's token is not what a client finds.

### Bugs kept beside the code

Some operators, named in each module's header, are variants with a plausible bug; no action uses them. Put in
place of the definition they precede, each makes TLC refute a property: this is how the properties were shown to
depend on the code. `PROJECT.json` pairs every property with one of them.

## Properties and runs

| Run | Instance and bounds | Properties |
|---|---|---|
| `faults` | a DHCP route and a host route; all faults, `auto_action` mitigate | `EnforceOnlyWithVpn`, `AnswerIsRechecked`, `LearnedForSession`, `NoSilentThreat`, `SilencedWasListed`, `SuspectStaysSuspect`, `ContinueSticks`, `ImplementsBoard` |
| `live` | a DHCP route and a canary, threshold CRITICAL; no faults, `auto_action` disconnect; fairness | `EnforcementOnlyStopsWithVpn`, `AutoActed`, `Enforced`, `Reminded` |
| `detect` | 8 addresses; no VPN, full tunnel, split default, or a tunnel with a host route; up to three of twelve physical routes; three lease sets, two sets of offers, three baselines; two canary lookups, one route named | `LeakReported`, `MitigationRestores`, `MitigationSpares`, `DefaultLeakSeen`, `LeaseAccounted` |
| `responders` | one agent, one command-line user, two alerts, one incident; a service with and without `wall`, a console on a terminal with `auto_action`, one on a desktop; fairness | `AnswerMeant`, `ToldTruth`, `Shown`, `Heard`, `ConsoleAsked` |
| `sniffer` | seven answers, six shapes, two networks; a deque of 2, three answers, a window of 2 ticks, one route named | `OfferReported`, `OfferReal`, `CompetitorsSeen`, `LeaseRead`, `EncodeInverse` |
| `collect` | three systems; three lease files of two groups, three leases; two changes of the host | `Fresh`, `OneMoment`, `PushedSeen` |
| `tables` | four route sources with five to twelve possible entries, up to three at a time; lists of up to three options in two layouts | `TableFaithful`, `OptionsTold`, `DeletionExact` |
| `prompts` | everything there is; fairness of the program | `ChoiceMeant`, `AskedIfPossible`, `PromptEnds` |
| `service` | three systems, two processes, two token files, one client; fairness | `ClientsServed`, `UninstallSticks`, `ComesBack`, `LetInAgain` |

*Why the bounds are enough.* `Monitor`: findings are one or two, chosen per question; two alert ids (a fresh id need only differ
from the current one, so two give every equality the code can test); `HistoryMax` 1 (the second closed alert already
trims); `RemindAfter`, `Grace`, `AutoDelay` and `PollInterval` 1 tick (or 0 where the run says so), enough for "before" and
"after" each limit. Alert ids are symmetric, except in runs with liveness properties, which use no symmetry. `Detect`: every leak
involves one address, the route that wins and the VPN route it beats, and mitigation adds one route that is deleted or spared;
two physical routes beside four VPN tables reach all, a third stands by when two share a key, and three address bits give a network,
one inside it and a host; with `MaxListed` 1 a lease of two routes is cut.
`Responders`: a request that outlives its alert needs a second alert; one incident at a time is what the code guards
against. `Sniffer`: three answers push one out of a deque of two; routes of widths 0, 1, 12, 16 and 32 have every number
of significant bytes except three, whose loop step is the same. `Collect`: two changes put every pair of parts at different
moments, and two files may swap their order of writing. `Tables`: a deletion that goes wrong needs the entry that
was read, one that took its place and a bystander, so `MaxEntries` is 3; the entries have every class of address, both
halves of a split default, and metrics and tables that tell two routes to one network apart; three options put every length of datum
first, between and last. `Service`: two files, two processes and the client hold a token each, and one of six is fresh. `MaxHeard`, `MaxChanges`, `MaxIncidents` and the finite set of alert ids
bound what is unbounded in the code; the theorems do without.

*Deadlock* is checked except in `detect`, where `analyze` ends, and in `prompts`, where the prompt returns.

*Inductive invariants and types* were checked by TLC on the runs' instances before they were proved, and no run checks them any more.
`ErrorsTell` of `Collect` likewise.

The other runs are disagreements between the code and what its texts say; TLC finds each as a counterexample:

| Run | What the code does |
|---|---|
| `mitigated_idle` | The alert becomes `mitigated` even when a deletion failed (`daemon.py:163`), while enforcement is armed only when all succeeded (`:152`). DHCP withdraws the route, the user mitigates, the deletion fails, DHCP pushes it again: it stays, and nobody is asked. `README.md:126` promises removal while the VPN is up. |
| `agents_locked_out` | `_start_monitor` writes a new token before it knows whether it gets the port (`cli.py:127`, `:132`); a second monitor as root replaces the file, and the service goes on comparing with the old one (`api.py:60-61`). `README.md:136` says the token is readable "so their agents can reach the daemon". |
| `unasked_continue` | zenity ends with exit code 1 both for its cancel button and when it cannot open a display; `notify.py:136` reads "continue", and no other back end is tried. `notify.py:65` promises `None` for "no answer / no UI". |

### What the properties had to be told

Conditions that the properties state because the code does not hold without them. The first six are further places where the
code and a text differ; each was a counterexample while the properties were written.

* Mitigate deletes every mitigable finding from MEDIUM up; in the grace period that includes the VPN client's own route to its
  server (`detect.py:105-107`), although `README.md:124` promises to delete rogue routes. `MitigationSpares` protects the
  routes to VPN servers that are known from the baseline, or whose address is among the endpoints.
* Of two routes that differ in the metric one is reported (`model.py:62-63`, `detect.py:208-213`) and, on Linux, deleted
  (`linux.py:302-303`): traffic does not fall back to the VPN as `actions.py:46` says before a later round.
  `MitigationRestores` exempts addresses of such a twin (`TwinGone`).
* One failed route collection looks like a VPN that is down and disarms enforcement (`daemon.py:45-49`), against
  `README.md:126`. `EnforcementOnlyStopsWithVpn` is about hosts without collection failures and restarts.
* A VPN route over the one address that stands for a rogue network (`util.py:98-102`) makes the detector call all of it
  "not currently leaking" (`detect.py:126`). `LeakReported` says `Representative`.
* Of two dhclient lease files with routes for an interface the older one wins (`linux.py:260`, `:242`), against "the current
  DHCP lease" of `README.md:26-27`. `PushedSeen` asks that some pushed routes are seen, not whose.
* A route of several hops has its device in rows that `parse_ip_route` drops (`linux.py:70-73`), against "all routing tables"
  of `README.md:26`; and a rejecting row of `/proc/net/route` comes out as a route of the device `*` (`linux.py:106`, `:124`).
  `TableFaithful` says `Plain`.
* "Continue" acknowledges findings from MEDIUM up, listed or not (`daemon.py:149`, `:158`). With the default threshold of HIGH a
  finding that was MEDIUM and becomes HIGH in a later session is then silent although it was never listed: `SilencedWasListed`
  is about findings that were above the threshold when they were acknowledged.
* A route to the VPN's own server that is first seen after the grace period of `config.py:49`, or comes again through another gateway,
  which is another key, is rated HIGH (`detect.py:99-101`), unless its address is among the endpoints. `LearnedForSession` is about
  routes that were seen in time.
* The open alert of which only acknowledged findings are left stays, and `auto_action` acts for it (`daemon.py:95`);
  no property speaks of that.

`ContinueSticks` holds from a threshold of MEDIUM up, since "continue"
acknowledges no finding below (`daemon.py:149`) and with `notify_min_severity` LOW the prompt returns every cycle;
`AutoActed` holds when the world is quiet,
since a situation that keeps changing restarts `auto_action_delay`. An alert that has been answered
accepts further answers, whatever `daemon.py:146` says of "already answered"; `AnswerMeant` lets an action that was posted without an id
(`loose`) be carried out for any alert.

`Heard` is about alerts that stay open while somebody can be told. The exceptions (`NobodyHears`) are recorded when no agent runs, and
somebody without an agent counts as present (an agent that left, or `tvv status`, silences `wall` for thirty
seconds: `daemon.py:125`, `api.py:94`), there is no `wall` (macOS, Windows), or the announcement fails (`daemon.py:127`, `:169`). An alert
whose last agent logs out before showing it counts as such too.

`OfferReported` promises a report that names the first `MaxListed` bypassing routes of an answer, not its server. `LeaseAccounted` is content
with "there are more" for routes beyond `MaxListed`. `DefaultLeakSeen` stops at the cap of canaries, and
excuses addresses inside the network of any finding: a leak that hides behind either is not caught. `AskedIfPossible` excepts osascript, which
hands over only if its text has "execution error" (`notify.py:121-122`). `ErrorsTell`
promises complete errors for macOS only.

## Fairness

`Monitor`: `FairSpec` assumes weak fairness of `Daemon` (the loop thread and whoever holds the lock: Python schedules runnable
threads, every command has a timeout, and `wake.wait` has one) and of `Tick` (time passes). Users and the environment promise nothing.
`Daemon` is one weakly fair disjunction: exactly one of its steps is enabled at a time for the lock holder, and the wait's
end is enabled only while the loop thread does not hold the lock, so none starves another. A request thread takes
the lock only for `Perform`, and can delay the loop thread's `BeginCycle` for ever only by never ceasing to answer; the
properties that need it say `Quiet`. `Enforced` is not conditioned on `Quiet`, since removing must win against a DHCP server
that pushes again; it is checked without faults, because a deletion that fails for ever cannot be enforced.

`Responders`: `Going` assumes weak fairness of `Daemon` (a cycle that began ends) and of `Person` (people answer or close what
they are shown; without it a screen stays for ever, and that is nobody's fault), and strong fairness of an agent's `Step` and of
`Serve`, because the lock is free during every poll interval, again and again, and a thread that waits for it then gets
it. `ConsoleAsk` is weakly fair; `ConsoleEnds` is strongly fair since an answer needs the lock as well. No fairness is assumed
of `BeginCycle`, restarts, time-outs, logins or the command line.

`Prompts`: weak fairness of `Program`, since the program runs and its time limits pass; no user need answer. `PromptEnds` is about
prompts with a timeout, because without one a dialog may stay for a day.

`Service`: weak fairness of `Becomes("service")` (the service manager starts what it supervises, and a started process runs on) and
of `Call` (an agent polls for ever). No administrator promises anything; `ComesBack` says `Calm`, because a machine that boots again and
again, or a daemon that always crashes, is never up for good.

`Detect`, `Sniffer`, `Collect` and `Tables` have no liveness properties.

## Proofs

From the named assumptions on the constants only, for all their values:

| Theorem | States | Extra assumption |
|---|---|---|
| `MonitorProofs!TypeCorrect` | `Spec => []TypeOK` | |
| `InvHolds` | `Spec => []Inv` | |
| `EnforcementNeedsVpn` | `Spec => []EnforceOnlyWithVpn` | |
| `AnswersRechecked` | `Spec => []AnswerIsRechecked` | |
| `NothingSilent` | `Spec => NoSilentThreat` | |
| `SilencedListed` | `Spec => SilencedWasListed` | |
| `SuspectsStay` | `Spec => SuspectStaysSuspect` | |
| `ContinueHolds` | `Spec => ContinueSticks` | `NotifyMin >= Medium` |
| `EnforcementLasts` | `Spec => EnforcementOnlyStopsWithVpn` | no `collect`, no `restart` fault |
| `LearnedStaysLearned` | `Spec => []LearnedForSession` | |
| `Refinement` | `Spec => ImplementsBoard` | |
| `DetectProofs!DetectInvHolds` | `Spec => []DetectInv` | |
| `LeaksReported`, `MitigationGivesBack`, `MitigationSparesOthers` | `Spec => []LeakReported`, `[]MitigationRestores`, `[]MitigationSpares` | |
| `AlarmsConfirmed`, `DefaultLeaksSeen`, `LeasesAccounted` | `Spec => []NoFalseAlarm`, `[]DefaultLeakSeen`, `[]LeaseAccounted` | |
| `ResponderProofs!RespondersInvHolds`, `AnswersMeant`, `TruthTold` | `Behaviour => []RespondersInv`, `[]AnswerMeant`, `[]ToldTruth` | |
| `BoardTypeCorrect` | `Spec => []BoardTypeOK`, where `Spec` is `AlertBoard`'s | |
| `RespondersTypeCorrect` | `Behaviour => []RespondersTypeOK` | |
| `ChoicesMeant`, `AskedWhenPossible`, `DialogTypeCorrect` | `PromptSpec => []ChoiceMeant`, `[]AskedIfPossible`, `[]TypeOK`, of `Prompts` | |
| `ServiceProofs!ServiceInvHolds`, `ServedHolds`, `UninstallHolds` | `Spec => []ServiceInv`, `[]ClientsServed`, `[]UninstallSticks` | |
| `CollectProofs!CollectInvHolds`, `FreshHolds`, `OneMomentHolds`, `PushedHolds` | `Spec => []CollectInv`, `[]Fresh`, `[]OneMoment`, `[]PushedSeen` | |
| `CollectTypeCorrect`, `ProblemsSurface` | `Spec => []CollectTypeOK`, `[]ErrorsTell` | |
| `SnifferProofs!SnifferInvariant`, `SnifferTypeCorrect` | `Spec => []SnifferInv`, `[]SnifferTypeOK` | |
| `HostileReported`, `ReportsReal`, `CompetitionSeen` | `Spec => []OfferReported`, `[]OfferReal`, `[]CompetitorsSeen` | |
| `EncodingInverse`, `LeasesRead` | `Spec => []EncodeInverse`, `[]LeaseRead` | |
| `TableProofs!TablesInvariant`, `SnapshotFaithful`, `OptionsRight` | `Spec => []TablesInv`, `[]TableFaithful`, `[]OptionsTold` | |
| `DeletionsExact` | `Spec => DeletionExact` | |

*Monitor.* `enforce => tracking` is not inductive: `perform` arms enforcement without looking
at the VPN. It is safe because a mitigable finding can be in the daemon's memory only while a session is tracked
(`FindingsNeedSession`), which in turn holds because a cycle commits what it analysed in the same critical
section in which it updated the session (`FoundNeedsSession`); ratings matter, since ambient findings survive a VPN.
`SuspectStaysSuspect` needs that a HIGH host route implies a grace period that is over and a baseline without it
(`SuspectsOutsideBaseline`), also while the new findings are held but not yet committed. `ContinueSticks` needs that
a continued alert leaves nothing above the threshold unacknowledged (`ContinuedIsAcked`). `SilencedWasListed` needs that what the daemon
holds above the threshold is listed or acknowledged already at the moment of the answer (`ListedOrAcked`), which every way to
commit findings must leave behind. `AnswerIsRechecked`
needs to know whom the critical section works for (`LockHolder`): a cycle of the loop thread begins with nothing unchecked, and
an answer given during the loop's wait leaves `wake` set. `LearnedForSession` needs that what was tolerated in a session is in its baseline, and so is what
a cycle is about to commit without alarm (`ToleratedIsLearned`). `AlertShape` carries the refinement: a step that commits, answers or restarts maps to one
step of the board, every other step to a stutter.

*Detect.* The invariant says at each stage what the findings are: from the lookups on, those that name a route are verdicts on
suspects, and of suspects with one key and code one has its verdict (`VerdictsStand`); then also what canaries showed (`CanariesSeen`)
and leases carry. Deduplication by fingerprint keeps it, because suspects with one key and code are judged alike (`JudgedAlike`). That
what a lease pushes is named or counted comes from `Recursion`: a scan of a list keeps the order, so the `i`-th element that matters is
not later than the `i`-th (`AmongPlaces`). `LeakReported` rests on a geometric argument:
the route that wins at a leaking address is a suspect, and when no VPN route lies inside it, the routes that are best at that address are
also best at the probe address (`SameBest`), so the lookup gives the same answer there (`ProbeWins`). The same argument on
the table without the reported routes gives `MitigationRestores`, where a suspect that was not reported has a twin that was.

*Responders.* `ToldTruth` is not inductive: a refused answer stays on the screen while new alerts are raised. What makes it so
is that every request and screen names an alert that *was raised* and that ids are not given out twice; and `recorded` is inside
`chosen`, or `loose`, because a request carries its answer and its alert together from the prompt to `perform` (`posts` in `RespondersInv`).
The type of the readers that terminal prompts leave
in `input()` is a counting argument: each is of an alert that was raised, is no longer queued and is not on the console
now (`ReadersOK`), and an alert that left the queue does not enter it again, so that the console's alert can pay for its reader when its time runs out.

*Prompts.* `ChoiceMeant` is inductive together with what holds while a dialog is open: nothing was done in it yet and nothing is
returned (`DialogOpen`); and what was done in an earlier dialog, which had to be unavailable, does not count, because the next one starts
afresh. A zenity that cannot open a window answers "continue" without a dialog: it is the first of its chain, so nobody has done anything then. All the rest is in what each
back end answers to each event (`EventAnswers`), by the code's reading of exit codes and texts. `AskedIfPossible` needs that
as long as nothing was shown, every back end that was passed over could not have asked (`PassedOver`): at the end of the chain these are all.

*Collect.* The cache exists only inside a snapshot, between its first part and its third, and is not older than it
(`CacheOfSnapshot`); what a Windows snapshot has so far is of the cache's moment, and nothing if there is no cache
(`WindowsSoFar`). So a part that fails first, and makes the next one collect, cannot mix.
`ErrorsTell` says what `base.py:50` promises, "keep going with partial data; surface the problem": at the end of a snapshot the parts that are noted are empty, and on macOS
all empty parts are noted. It is inductive with the parts a snapshot has behind it (`Behind`, `ErrorsSoFar`) and one fact about macOS: there
the second half of the routes is read only when the first half was, so what is there at that moment is not empty.

*Service.* `ClientsServed` follows from two facts that are inductive together: a server that listens is up (`ServerRuns`), and from
the moment a process has read its token back its file holds that token, unless another process wrote it since
(`FileOfServer`). The only assumption is that tokens are never given out twice, which `Fresh` has in it.

`UninstallSticks` is inductive together with what an uninstall leaves behind (`Uninstalled`): no unit file whatever the commands
did, and no script half-way that could bring it back; a boot supervises only what has a file.

*Data of any length.* The prover cannot instantiate an induction theorem, but it knows sets: `Recursion` derives, from the fact that every set
of numbers has a least element, that a property true of `n` whenever it is true of everything smaller (or, for scans that run towards an end,
larger) is true of all numbers; it shows that a recursive function equals its defining equation, from the library's well-founded recursion; and
it unfolds `FlattenSeq` and `FoldLeft` by one element. With these, what the decoders, the scan of the registry and the merge of
leases compute is proved for all lists of routes that an option has room for, all registry blobs and all sets of files, where the runs enumerate a few.

*Sniffer.* Two facts are inductive together: whatever is in the deque was heard (`Sourced`), and each of the last `MaxLen` answers that came whole is
in the deque, no deeper than it was heard (`Retained`; the depth is what makes it survive a full deque). Of reports with one fingerprint the
oldest is there, since every set of numbers has a least element (`FirstReported`). Both compare with what the
server sent, so `Hear` needs that parsing undoes building. That is shown in three layers. One route: the significant octets of a
network, padded with zeros, are the network (for each of the widths 0 to 32). Option 121: `Decode` of `Wire` is the list
of routes, by induction over the list. The packet: an options field is a list of pieces, each of which adds its bytes
to one code's data; in every shape of `Packet` the pieces give codes 53, 54 and 121 or 249 what they
were cut from, whatever padding stands between them; of a field that is cut short no routes are read. `LeasesRead` adds the forms of text:
a number's decimal and hexadecimal digits give it back, and only a dump that `Telling` excludes passes for decimal.

*Tables.* `SnapshotFaithful` goes by source. For `/proc`, masks of different lengths differ, so the length that is chosen is the one that was
printed. For netstat, the octets that are left out are zero, and a length is left out only where the class of the address
or the host flag gives it. `DeletionsExact` needs that the route was read from an entry the table can hold (`RoutesRead`), that the table never
holds two entries that are not `Distinct`; then of all that the command may mean nothing comes before the entry that was read in the order in which
the system chooses, if that entry is still there. `OptionsRight` walks the blob record by record: with headers of the
right size the scan stands at the start of every record and ends clean; with four words where there are three, `Telling` lets it go wrong
at the second record at the latest, or end with words left over. Options met later do not hide earlier ones, as no code is stored twice.

*Lease files.* `PushedSeen` needs `PushedSoFar`: between two groups, what was found has routes if a file of the groups read so far has. Within a group
the merge is a fold over an order that names every file; `Add` never gives up routes for none.

*Only model-checked*: the liveness properties (fairness and ENABLED are outside the prover), that is `AutoActed`, `Enforced`, `Reminded`, `Shown`, `Heard`,
`ConsoleAsked`, `PromptEnds`, `ComesBack` and `LetInAgain`; and the violations. Every invariant and every action property of the runs is a
theorem.

## Plan

Done, in this order: the monitor and its refinement, the detector, the responders, the decoder and sniffer, the collectors, the tables,
the prompts, the service. What would come next:

1. *Monitor and Responders together*: what a user was shown beside what an answer acts on. `perform` acknowledges and mitigates the
   latest findings, not those of the prompt (`daemon.py:158`, `:95`).
2. *Interfaces and endpoints*: the parsers that decide which device is a VPN and which addresses its servers have.
3. *Tables for IPv6*, whose text has scopes and zones instead of classes.

## Not modelled

Uninstalling on Windows beyond its report, and the agents' autostart files; `tvv check`, printing and reports; the commands that
disconnect (in `Monitor`, an outcome); manual steps, `notify` and `show_result`, which change no state; the probing of the environment
(`have`, `is_admin`, `in_container`); HTTP requests that are malformed; the conversion of single settings; dry-run mode, in which
no command changes the world; logging. Unit files are text.
