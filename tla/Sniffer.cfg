SPECIFICATION Spec
SYMMETRY Networks

CONSTANTS
    Iface = {wlan, eth}
    Answer <- MCAnswer
    VpnNets <- MCVpnNets
    Trusted <- MCTrusted
    MaxLen = 2
    Window = 2
    MaxListed = 1
    MaxHeard = 3

INVARIANTS
    OfferReported
    OfferReal
    CompetitorsSeen
    LeaseRead
    EncodeInverse
