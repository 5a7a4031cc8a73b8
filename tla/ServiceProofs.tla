--------------------------- MODULE ServiceProofs ---------------------------
(* Proofs about Service: who finds which token.                            *)
EXTENDS Service, TLAPS

ServiceInv == TypeOK /\ FileOfServer /\ ServerRuns

(* A fresh token is one that no file, process or client has.               *)
LEMMA FreshToken ==
    ASSUME ~(Token \subseteq Used)
    PROVE  Fresh \in Token /\ Fresh # NoToken
BY TokenAssumption DEF Fresh

LEMMA InitService == Init => ServiceInv
BY DEF Init, ServiceInv, TypeOK, FileOfServer, ServerRuns, Process, Path, Nobody

(* Processes that end take nothing from those that go on.                  *)
LEMMA EndedKeeps ==
    ASSUME ServiceInv, NEW ps \in SUBSET Process, Ended(ps), store' = store
    PROVE  /\ stage' \in [Process -> {"off", "write", "read", "bind", "up"}]
           /\ rights' \in [Process -> {"root", "user"}]
           /\ where' \in [Process -> Path]
           /\ token' \in [Process -> Token \cup {NoToken}]
           /\ port' \in Process \cup {Nobody}
           /\ overwritten' \in SUBSET Process
           /\ FileOfServer' /\ ServerRuns'
<1>1. /\ stage' \in [Process -> {"off", "write", "read", "bind", "up"}]
      /\ rights' \in [Process -> {"root", "user"}]
      /\ where' \in [Process -> Path]
      /\ token' \in [Process -> Token \cup {NoToken}]
      /\ port' \in Process \cup {Nobody}
      /\ overwritten' \in SUBSET Process
  BY DEF ServiceInv, TypeOK, Ended, Path
<1>2. FileOfServer'
  BY DEF ServiceInv, TypeOK, FileOfServer, Ended
<1>3. ServerRuns'
  BY DEF ServiceInv, TypeOK, ServerRuns, Ended, Process, Nobody
<1> QED BY <1>1, <1>2, <1>3

LEMMA BecomesKeeps ==
    ASSUME ServiceInv, NEW p \in Process, Becomes(p)
    PROVE  ServiceInv'
<1> USE DEF ServiceInv
<1>1. CASE \E who \in {"root", "user"} : Start(p, who)
  <2>1. TypeOK' BY <1>1 DEF Start, TypeOK, disk, manager
  <2>2. FileOfServer' BY <1>1 DEF Start, TypeOK, FileOfServer
  <2>3. ServerRuns' BY <1>1 DEF Start, TypeOK, ServerRuns, Process, Nobody
  <2> QED BY <2>1, <2>2, <2>3
<1>2. CASE WriteToken(p)
  <2>1. Writable(p) \subseteq Path BY DEF Writable, Path, TypeOK
  <2>2. PICK path \in Path :
            /\ store' = [store EXCEPT ![path] = Fresh]
            /\ where' = [where EXCEPT ![p] = path]
            /\ overwritten' = overwritten \cup
                    {q \in Process \ {p} : stage[q] \in {"bind", "up"} /\ where[q] = path}
    BY <1>2, <2>1 DEF WriteToken
  <2>3. Fresh \in Token /\ Fresh # NoToken BY <1>2, FreshToken DEF WriteToken
  <2>4. TypeOK' BY <1>2, <2>2, <2>3 DEF WriteToken, TypeOK, disk, manager
  <2>5. FileOfServer' BY <1>2, <2>2, <2>3 DEF WriteToken, TypeOK, FileOfServer
  <2>6. ServerRuns' BY <1>2 DEF WriteToken, TypeOK, ServerRuns, Process, Nobody
  <2> QED BY <2>4, <2>5, <2>6
<1>3. CASE ReadBack(p)
  <2>1. TypeOK' BY <1>3 DEF ReadBack, TypeOK, disk, manager
  <2>2. FileOfServer' BY <1>3 DEF ReadBack, TypeOK, FileOfServer
  <2>3. ServerRuns' BY <1>3 DEF ReadBack, TypeOK, ServerRuns, Process, Nobody
  <2> QED BY <2>1, <2>2, <2>3
<1>4. CASE Bind(p)
  <2>1. TypeOK' BY <1>4 DEF Bind, TypeOK, disk, manager
  <2>2. FileOfServer' BY <1>4 DEF Bind, TypeOK, FileOfServer
  <2>3. ServerRuns' BY <1>4 DEF Bind, TypeOK, ServerRuns, Process, Nobody
  <2> QED BY <2>1, <2>2, <2>3
<1> QED BY <1>1, <1>2, <1>3, <1>4 DEF Becomes

(* Scripts, boots and ends change processes only by ending some.           *)
LEMMA OthersKeep ==
    ASSUME ServiceInv, Next
    PROVE  ServiceInv'
<1> USE DEF ServiceInv
<1>1. CASE \E p \in Process : Becomes(p) BY <1>1, BecomesKeeps
<1>2. CASE \E p \in Process : End(p)
  <2>1. PICK p \in Process : End(p) BY <1>2
  <2>2. Ended({p}) /\ store' = store BY <2>1 DEF End
  <2> QED BY <2>1, <2>2, EndedKeeps DEF End, TypeOK, disk, manager
<1>3. CASE Boot
  <2>1. Ended(Process) /\ store' = store BY <1>3 DEF Boot
  <2>2. supervised' \in BOOLEAN /\ installed' \in {"never", "yes", "removed", "gone", "unknown"}
    BY <1>3 DEF Boot, TypeOK
  <2>3. /\ os' = os /\ config' = config /\ unit' = unit /\ enabled' = enabled
        /\ hand' = NoToken /\ script' = "none"
    BY <1>3 DEF Boot, disk
  <2>4. supervised' \in BOOLEAN /\ Process \in SUBSET Process
    BY <2>2
  <2> QED BY <2>1, <2>2, <2>3, <2>4, EndedKeeps DEF TypeOK
<1>4. CASE InstallManaged
  <2>1. store' = store /\ (Ended({"service"}) \/ UNCHANGED process)
    BY <1>4 DEF InstallManaged
  <2>2. /\ os' = os /\ config' = config /\ hand' = hand /\ script' = "none"
        /\ unit' \in BOOLEAN /\ enabled' \in BOOLEAN /\ supervised' \in BOOLEAN
        /\ installed' \in {"yes", "unknown"}
    BY <1>4 DEF InstallManaged, TypeOK, EnabledAtBoot
  <2>3. CASE Ended({"service"}) BY <2>1, <2>2, <2>3, EndedKeeps DEF TypeOK, Process
  <2>4. CASE UNCHANGED process
    BY <2>1, <2>2, <2>4 DEF TypeOK, process, FileOfServer, ServerRuns
  <2> QED BY <2>1, <2>3, <2>4
<1>5. CASE UninstallManaged
  <2>1. store' = store /\ (Ended({"service"}) \/ UNCHANGED process)
    BY <1>5 DEF UninstallManaged
  <2>2. /\ os' = os /\ config' = config /\ hand' = hand /\ script' = "uninstall"
        /\ unit' \in BOOLEAN /\ enabled' \in BOOLEAN /\ supervised' \in BOOLEAN
        /\ installed' = "unknown"
    BY <1>5 DEF UninstallManaged, TypeOK
  <2>3. CASE Ended({"service"}) BY <2>1, <2>2, <2>3, EndedKeeps DEF TypeOK, Process
  <2>4. CASE UNCHANGED process
    BY <2>1, <2>2, <2>4 DEF TypeOK, process, FileOfServer, ServerRuns
  <2> QED BY <2>1, <2>3, <2>4
<1>6. CASE Edit \/ Call \/ InstallFiles \/ UninstallFiles
  <2>1. UNCHANGED <<process, store>>
    BY <1>6 DEF Edit, Call, ReadToken, Send, InstallFiles, UninstallFiles
  <2>2. TypeOK'
    <3>1. CASE Edit BY <2>1, <3>1 DEF TypeOK, process, Edit, manager
    <3>2. CASE Call
      <4>1. Readable \in Token \cup {NoToken} BY DEF TypeOK, Readable, Path
      <4> QED BY <2>1, <3>2, <4>1 DEF TypeOK, process, Call, ReadToken, Send, HandAfter, disk, manager
    <3>3. CASE InstallFiles BY <2>1, <3>3 DEF TypeOK, process, InstallFiles, EnsureConfig
    <3>4. CASE UninstallFiles BY <2>1, <3>4 DEF TypeOK, process, UninstallFiles, Left
    <3> QED BY <1>6, <3>1, <3>2, <3>3, <3>4
  <2> QED BY <2>1, <2>2 DEF process, FileOfServer, ServerRuns
<1> QED BY <1>1, <1>2, <1>3, <1>4, <1>5, <1>6 DEF Next, Scripts

(* Every file a running server relies on holds its token, or one that      *)
(* another process wrote later (api.py, write_token; cli.py,               *)
(* _start_monitor).                                                        *)
THEOREM ServiceInvHolds == Spec => []ServiceInv
<1>1. ServiceInv /\ [Next]_vars => ServiceInv'
  <2> SUFFICES ASSUME ServiceInv, [Next]_vars PROVE ServiceInv' OBVIOUS
  <2>1. CASE Next BY <2>1, OthersKeep
  <2>2. CASE UNCHANGED vars
    BY <2>2 DEF ServiceInv, vars, disk, manager, process, TypeOK, FileOfServer, ServerRuns
  <2> QED BY <2>1, <2>2
<1> QED BY InitService, <1>1, PTL DEF Spec

(* Whatever was started, ended, installed or booted before, a client that  *)
(* reads the token now gets into the server that listens, unless another   *)
(* monitor wrote the same file since, or an older file shadows it (api.py, *)
(* read_token).                                                            *)
THEOREM ServedHolds == Spec => []ClientsServed
<1>1. ServiceInv => ClientsServed
  BY DEF ServiceInv, TypeOK, FileOfServer, ServerRuns, ClientsServed, Shadowed, Readable, Path
<1> QED BY <1>1, ServiceInvHolds, PTL

(* Why an uninstall sticks: the file is removed whatever the commands did, *)
(* every script that could bring it back takes the promise back first, and *)
(* a boot starts only what has a file.                                     *)
Uninstalled ==
    /\ installed \in {"removed", "gone"} => script = "none"
    /\ installed \in {"removed", "gone"} /\ os # "windows" => ~unit

UninstallInv == ServiceInv /\ Uninstalled /\ UninstallSticks

LEMMA BecomesUninstalled ==
    ASSUME UninstallInv, NEW p \in Process, Becomes(p)
    PROVE  Uninstalled' /\ UninstallSticks'
<1>1. UNCHANGED <<os, disk, manager>>
  BY DEF Becomes, Start, WriteToken, ReadBack, Bind
<1>2. stage["service"] = "off" /\ ~supervised => stage'["service"] = "off"
  <2>1. stage["service"] = "off" /\ ~supervised => p # "service"
    BY DEF Becomes, Start, WriteToken, ReadBack, Bind
  <2>2. p # "service" => stage'["service"] = stage["service"]
    BY DEF Becomes, Start, WriteToken, ReadBack, Bind, UninstallInv, ServiceInv, TypeOK, Process
  <2> QED BY <2>1, <2>2
<1> QED BY <1>1, <1>2 DEF UninstallInv, Uninstalled, UninstallSticks, disk, manager

LEMMA StepUninstalled ==
    ASSUME UninstallInv, Next
    PROVE  Uninstalled' /\ UninstallSticks'
<1> USE DEF UninstallInv, Uninstalled, UninstallSticks
<1>1. CASE \E p \in Process : Becomes(p) BY <1>1, BecomesUninstalled
<1>2. CASE \E p \in Process : End(p) BY <1>2 DEF End, Ended, Process, disk, manager
<1>3. CASE Boot
  <2>1. script' = "none" /\ stage'["service"] = "off" /\ UNCHANGED <<os, unit>>
    BY <1>3 DEF Boot, Ended, Process, disk
  <2>2. installed' = "gone" => installed \in {"removed", "gone"}
    BY <1>3 DEF Boot
  <2>3. installed' = "removed" => FALSE
    BY <1>3 DEF Boot
  <2>4. ~unit => ~supervised' BY <1>3 DEF Boot
  <2> QED BY <2>1, <2>2, <2>3, <2>4
<1>4. CASE InstallFiles BY <1>4 DEF InstallFiles
<1>5. CASE InstallManaged BY <1>5 DEF InstallManaged
<1>6. CASE UninstallManaged BY <1>6 DEF UninstallManaged
<1>7. CASE UninstallFiles BY <1>7 DEF UninstallFiles, Left
<1>8. CASE Edit BY <1>8 DEF Edit, manager, process
<1>9. CASE Call BY <1>9 DEF Call, ReadToken, Send, disk, manager, process
<1> QED BY <1>1, <1>2, <1>3, <1>4, <1>5, <1>6, <1>7, <1>8, <1>9 DEF Next, Scripts

(* After an uninstall and a boot nothing of the service runs or will run   *)
(* on Linux and macOS, whatever commands of it failed, whoever boots,      *)
(* ends or starts what before (service.py, uninstall_service).             *)
THEOREM UninstallHolds == Spec => []UninstallSticks
<1>1. Init => UninstallInv
  BY InitService DEF Init, UninstallInv, Uninstalled, UninstallSticks
<1>2. UninstallInv /\ [Next]_vars => UninstallInv'
  <2> SUFFICES ASSUME UninstallInv, [Next]_vars PROVE UninstallInv' OBVIOUS
  <2>1. CASE Next BY <2>1, StepUninstalled, OthersKeep DEF UninstallInv
  <2>2. CASE UNCHANGED vars
    BY <2>2 DEF UninstallInv, ServiceInv, Uninstalled, UninstallSticks, vars, disk, manager,
                process, TypeOK, FileOfServer, ServerRuns
  <2> QED BY <2>1, <2>2
<1>3. UninstallInv => UninstallSticks BY DEF UninstallInv
<1> QED BY <1>1, <1>2, <1>3, PTL DEF Spec

=============================================================================
