SPECIFICATION Spec

CONSTANTS
    tun = tun
    eth = eth
    wlan = wlan
    honest = honest
    rogueServer = rogueServer
    gw = gw
    Router = {gw}
    OnLink = OnLink
    NoDev = NoDev
    NoRoute = NoRoute
    NoServer = NoServer
    MaxRoutes = 3
    Address <- MCAddress
    Network <- MCNetwork
    Probe <- MCProbe
    Middle <- MCMiddle
    Iface = {tun, eth, wlan}
    Vpn = {tun}
    Connected <- MCConnected
    Oversize <- MCOversize
    Endpoints = {3}
    TrustedRoutes <- MCTrusted
    TrustedServers = {honest}
    Canaries = {0, 5, 7}
    Sampled <- MCSampled
    MaxCanaries = 2
    MaxListed = 1
    Tables <- MCTables
    Leases <- MCLeases
    Offers <- MCOffers
    Baselines <- MCBaselines

CHECK_DEADLOCK FALSE

INVARIANTS
    LeakReported
    MitigationRestores
    MitigationSpares
    DefaultLeakSeen
    LeaseAccounted
