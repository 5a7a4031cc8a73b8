----------------------------- MODULE MCCollect -----------------------------
(* Lease files of one Wi-Fi interface, to check snapshots with.            *)
EXTENDS Collect

Silent  == [server |-> TRUE, routes |-> {}]
Pushing == [server |-> TRUE, routes |-> {"rogue"}]
Partial == [server |-> FALSE, routes |-> {}]
AllGroups == <<{"nmcli"}, {"home", "hotel"}>>
Leases  == {Silent, Pushing, Partial}

=============================================================================
