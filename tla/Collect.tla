------------------------------ MODULE Collect ------------------------------
(***************************************************************************)
(* How a snapshot comes together (platforms/base.py): interfaces, routes,  *)
(* leases and VPN endpoints, each from commands of its own and each        *)
(* allowed to fail, while the host changes.  A part is modelled by the     *)
(* moments it was read at.  On Windows one script collects all and a cache *)
(* hands it out (windows.py); on Linux and macOS every part has its        *)
(* commands, and on Linux leases are merged from several DHCP clients'     *)
(* files (linux.py), of which there is one interface's worth here.         *)
(*                                                                         *)
(* BetterFirst, ClearedNever and CachedNever are variants with a plausible *)
(* bug that no action uses.                                                *)
(***************************************************************************)
EXTENDS Integers, FiniteSets, SequencesExt

CONSTANTS
    File,       \* lease files of the interface
    Groups,     \* the sets of files as they are read, one glob after the other
    ByAge,      \* the files that are read in the order they were written
    Lease,      \* leases in this instance
    NoLease,
    MaxChanges  \* bound on the changes of the host in a behaviour

Part == {"interfaces", "routes", "leases"}

ASSUME CollectAssumption ==
    /\ IsFiniteSet(File) /\ Groups \in Seq(SUBSET File) \ {<<>>} /\ ByAge \subseteq File /\ MaxChanges \in Nat
    /\ \A lease \in Lease : lease.server \in BOOLEAN /\ IsFiniteSet(lease.routes)
    /\ NoLease \notin Lease

VARIABLES
    platform,
    moment,     \* how often the host has changed
    content,    \* what is in each lease file
    written,    \* the moment each lease file was last written at
    pc,         \* where the snapshot is
    group,      \* the group of lease files that comes next
    since,      \* the moment it began
    parts,      \* the moments at which each part was read
    errors,     \* Snapshot.errors
    found,      \* the lease of the interface
    cache,      \* WindowsPlatform._cache, as its moment
    missed      \* history variable: lease files that could not be read

host     == <<platform, moment, content, written>>
snapshot == <<since, parts, errors, found>>
vars     == <<host, pc, group, snapshot, cache, missed>>

NoCache == -1

Changing == moment < MaxChanges /\ moment' = moment + 1

Change ==
    /\ Changing
    /\ UNCHANGED <<platform, content, written, pc, group, snapshot, cache, missed>>

(* A DHCP client writes a lease.                                           *)
Renew(file, lease) ==
    /\ Changing
    /\ content' = [content EXCEPT ![file] = lease]
    /\ written' = [written EXCEPT ![file] = moment']
    /\ UNCHANGED <<platform, pc, group, snapshot, cache, missed>>

----------------------------------------------------------------------------
(* Platform.snapshot: a part that raises is noted and stays empty.         *)

Begin ==
    /\ pc = "idle"
    /\ pc' = "interfaces" /\ since' = moment
    /\ group' = 1 /\ parts' = [p \in Part |-> {}] /\ errors' = {} /\ found' = NoLease /\ missed' = {}
    /\ UNCHANGED <<host, cache>>

After(part) ==
    CASE part = "interfaces" -> IF platform = "windows" THEN "routes" ELSE "routes4"
      [] part = "routes"     -> "leases"
      [] part = "leases"     -> "endpoints"

Fail(part) ==
    /\ errors' = errors \cup {part}
    /\ parts' = [parts EXCEPT ![part] = {}]
    /\ pc' = After(part)
    /\ UNCHANGED <<host, since, cache>>

Read(part, at) == parts' = [parts EXCEPT ![part] = @ \cup {at}]

(* Linux and macOS: commands of their own.  On Linux one that exits with   *)
(* an error is no exception: routes of its family are missing, interfaces  *)
(* are read from sysfs.  On macOS this holds for IPv6 routes only.         *)
Interfaces ==
    /\ platform # "windows" /\ pc = "interfaces"
    /\ \/ /\ Read("interfaces", moment)
          /\ pc' = After("interfaces")
          /\ UNCHANGED <<host, since, errors, cache>>
       \/ Fail("interfaces")
    /\ UNCHANGED <<group, found, missed>>

RoutesOf(family, next) ==
    /\ pc = family
    /\ \/ /\ \/ Read("routes", moment)
             \/ (platform = "linux" \/ family = "routes6") /\ UNCHANGED parts
          /\ pc' = next
          /\ UNCHANGED <<host, since, errors, cache>>
       \/ Fail("routes")
    /\ UNCHANGED <<group, found, missed>>

MacLeases ==
    /\ platform = "macos" /\ pc = "leases"
    /\ \/ /\ Read("leases", moment)
          /\ pc' = After("leases")
          /\ UNCHANGED <<host, since, errors, cache>>
       \/ Fail("leases")
    /\ UNCHANGED <<group, found, missed>>

----------------------------------------------------------------------------
(* Linux: leases.                                                          *)

Usable(lease) == lease # NoLease /\ parts["interfaces"] # {} /\ (lease.server \/ lease.routes # {})

BetterFirst(lease, than) == than = NoLease

Better(lease, than) == than = NoLease \/ (lease.routes # {} /\ than.routes = {})

Add(kept, lease) == IF Usable(lease) /\ Better(lease, kept) THEN lease ELSE kept

(* The orders in which the files of a group may come from a glob.          *)
Orders(files) ==
    {order \in SetToSeqs(files) :
        files \subseteq ByAge => \A i, j \in DOMAIN order : i < j => written[order[i]] <= written[order[j]]}

(* A client or a file that cannot be read says nothing.                    *)
Merge ==
    /\ platform = "linux" /\ pc = "leases"
    /\ \E unread \in SUBSET Groups[group] :
        /\ \E order \in Orders(Groups[group] \ unread) :
            found' = FoldLeft(LAMBDA kept, file : Add(kept, content[file]), found, order)
        /\ missed' = missed \cup unread
    /\ Read("leases", moment)
    /\ group' = group + 1
    /\ pc' = IF group = Len(Groups) THEN After("leases") ELSE pc
    /\ UNCHANGED <<host, since, errors, cache>>

(* A file that vanishes between the glob and its getmtime.                 *)
MergeFails ==
    /\ platform = "linux" /\ pc = "leases"
    /\ Groups[group] \cap ByAge # {}
    /\ Fail("leases")
    /\ found' = NoLease
    /\ UNCHANGED <<group, missed>>

----------------------------------------------------------------------------
(* Windows: interfaces always collects, routes and leases when there is no *)
(* cache, and leases clears it.                                            *)

CachedNever == FALSE

Cached == cache # NoCache

ClearedNever(at) == at

Cleared(at) == NoCache

Collected == IF Cached THEN cache ELSE moment

(* A cmdlet that fails does so silently (SilentlyContinue): the script     *)
(* succeeds, and this part of what it found is empty.                      *)
Find(part, at) == Read(part, at) \/ UNCHANGED parts

WindowsInterfaces ==
    /\ platform = "windows" /\ pc = "interfaces"
    /\ \/ /\ Find("interfaces", moment)
          /\ cache' = moment
          /\ pc' = After("interfaces")
          /\ UNCHANGED <<host, since, errors>>
       \/ Fail("interfaces")
    /\ UNCHANGED <<group, found, missed>>

WindowsRoutes ==
    /\ platform = "windows" /\ pc = "routes"
    /\ \/ /\ Find("routes", Collected)
          /\ cache' = Collected
          /\ pc' = After("routes")
          /\ UNCHANGED <<host, since, errors>>
       \/ ~Cached /\ Fail("routes")
    /\ UNCHANGED <<group, found, missed>>

WindowsLeases ==
    /\ platform = "windows" /\ pc = "leases"
    /\ \/ /\ Find("leases", Collected)
          /\ cache' = Cleared(Collected)
          /\ pc' = After("leases")
          /\ UNCHANGED <<host, since, errors>>
       \/ ~Cached /\ Fail("leases")
    /\ UNCHANGED <<group, found, missed>>

Endpoints ==
    /\ pc = "endpoints"
    /\ \E failed \in SUBSET {"vpn endpoints"} : errors' = errors \cup failed
    /\ pc' = "idle"
    /\ UNCHANGED <<host, group, since, parts, found, cache, missed>>

----------------------------------------------------------------------------

Init ==
    /\ platform \in {"linux", "macos", "windows"}
    /\ moment = 0 /\ since = 0 /\ pc = "idle" /\ group = 1 /\ cache = NoCache
    /\ content \in [File -> Lease \cup {NoLease}] /\ written = [file \in File |-> 0]
    /\ parts = [p \in Part |-> {}] /\ errors = {} /\ found = NoLease /\ missed = {}

Next ==
    \/ Change
    \/ \E file \in File, lease \in Lease : Renew(file, lease)
    \/ Begin \/ Interfaces \/ MacLeases
    \/ RoutesOf("routes4", "routes6") \/ RoutesOf("routes6", After("routes"))
    \/ Merge \/ MergeFails
    \/ WindowsInterfaces \/ WindowsRoutes \/ WindowsLeases
    \/ Endpoints

Spec == Init /\ [][Next]_vars

----------------------------------------------------------------------------
(* What is expected of snapshots.                                          *)

Steps == {"idle", "interfaces", "routes", "routes4", "routes6", "leases", "endpoints"}

CollectTypeOK ==
    /\ platform \in {"linux", "macos", "windows"} /\ missed \subseteq File
    /\ content \in [File -> Lease \cup {NoLease}] /\ written \in [File -> 0 .. moment]
    /\ moment \in 0 .. MaxChanges /\ since \in 0 .. moment /\ cache \in {NoCache} \cup 0 .. moment
    /\ pc \in Steps /\ group \in 1 .. Len(Groups) + 1
    /\ parts \in [Part -> SUBSET (0 .. moment)] /\ errors \subseteq Part \cup {"vpn endpoints"}
    /\ found = NoLease \/ (found \in Lease /\ (found.server \/ found.routes # {}))

(* No part of a snapshot is older than the snapshot, whatever failed in it *)
(* or in those before (windows.py, the cache).                             *)
Fresh == \A p \in Part : \A at \in parts[p] : at >= since

(* On Windows what a snapshot has is of one moment, that is of one run of  *)
(* the script, also when part of it failed: no route is judged by          *)
(* interfaces of another run.                                              *)
OneMoment ==
    platform = "windows" => \A p, q \in Part : \A at \in parts[p], other \in parts[q] : at = other

(* What a step of a snapshot on Windows finds: nothing of the parts still  *)
(* to come, and nothing at all unless the cache has the moment of it.      *)
WindowsSoFar ==
    platform = "windows" =>
        /\ pc \notin {"routes4", "routes6"}
        /\ pc \in {"interfaces", "routes", "leases"} =>
              \A p \in Part : parts[p] \subseteq (IF Cached THEN {cache} ELSE {})

(* The cache outlives no snapshot, and is not older than the one it is of. *)
CacheOfSnapshot ==
    Cached => platform = "windows" /\ pc \in {"routes", "leases"} /\ cache \in since .. moment

(* A part that is noted as failed is empty, and on macOS, where commands   *)
(* that exit with an error raise, what is empty at the end is noted        *)
(* (base.py).                                                              *)
ErrorsTell ==
    /\ \A p \in Part \cap errors : parts[p] = {}
    /\ platform = "macos" /\ pc = "endpoints" => \A p \in Part : parts[p] = {} => p \in errors

(* Inductive: what a snapshot that is under way may have noted.            *)
Behind ==
    CASE pc = "interfaces" -> {}
      [] pc \in {"routes", "routes4", "routes6"} -> {"interfaces"}
      [] pc = "leases" -> {"interfaces", "routes"}
      [] OTHER -> Part

ErrorsSoFar ==
    /\ \A p \in Part \cap errors : parts[p] = {} /\ p \in Behind
    /\ platform = "macos" /\ pc # "idle" => \A p \in Behind : parts[p] = {} => p \in errors
    /\ platform = "macos" /\ pc = "routes6" => parts["routes"] # {}

Pushes(lease) == lease # NoLease /\ lease.routes # {}

(* What the merging of lease files on Linux has come to: as long as the    *)
(* host has not changed, the lease pushes routes if one of the files that  *)
(* have been read does.                                                    *)
PushedSoFar ==
    platform = "linux" =>
        /\ pc \in {"interfaces", "routes4", "routes6"} => group = 1
        /\ pc = "leases" => group \in 1 .. Len(Groups)
        /\ moment = since /\ parts["interfaces"] # {} /\ (pc \in {"endpoints", "idle"} => parts["leases"] # {}) =>
              \A n \in 1 .. (CASE pc = "leases" -> group - 1
                             [] pc \in {"endpoints", "idle"} -> Len(Groups)
                             [] OTHER -> 0) :
                  \A f \in Groups[n] \ missed : Pushes(content[f]) => Pushes(found)

(* Inductive: why Fresh and OneMoment hold in every state.                 *)
CollectInv ==
    /\ moment \in Nat /\ since \in 0 .. moment /\ parts \in [Part -> SUBSET (since .. moment)]
    /\ pc \in Steps
    /\ CacheOfSnapshot /\ WindowsSoFar /\ OneMoment

Settled == pc = "idle" /\ moment = since /\ parts["leases"] # {} /\ parts["interfaces"] # {}

Files == UNION {Groups[n] : n \in DOMAIN Groups}

(* Routes pushed by DHCP are not hidden by a client that does not report   *)
(* them: "Prefer the source that actually reports routes" (linux.py:241).  *)
PushedSeen ==
    platform = "linux" /\ Settled /\ (\E f \in Files \ missed : Pushes(content[f])) => Pushes(found)

=============================================================================
