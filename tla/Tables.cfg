SPECIFICATION Spec

CONSTANTS
    Entries <- MCEntries
    MaxEntries = 3
    Loopback = {"lo0", "Loopback"}
    Tunnel = {"tun0", "utun3", "VPN"}
    NoGateway = NoGateway
    NoMetric = NoMetric
    Unnamed = Unnamed
    Lists <- MCLists

INVARIANTS
    TableFaithful
    OptionsTold
PROPERTIES
    DeletionExact
