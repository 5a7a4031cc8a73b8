----------------------------- MODULE MCMonitor -----------------------------
(* Instances of Monitor for TLC, and the properties its runs check.        *)
EXTENDS MonitorProperties, TLC

CONSTANTS
    rogue,      \* a route pushed by DHCP option 121: CRITICAL, can be deleted
    host,       \* a host route, a stranger's or the VPN client's to its server
    canary,     \* a leak no single route explains: HIGH, cannot be deleted
    lease       \* option 121 in a lease while no VPN is up: LOW

MCRating ==
    [f \in Finding |->
        CASE f = rogue  -> Critical
          [] f = canary -> High
          [] f = lease  -> Low
          [] OTHER      -> Medium]

MCMitigable == Finding \cap {rogue, host}
MCHostRoute == Finding \cap {host}
MCAmbient   == Finding \cap {lease}

Symmetry == Permutations(AlertId)

=============================================================================
