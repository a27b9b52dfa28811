SPECIFICATION FairSpec
CONSTANTS
    Host = {t, s}
    Subnet <- MCSubnet
    Target = {t}
    MaxConn = 5
    MaxShaking = 1
    Dialer = {"loop", "node"}
    Hash = {x, y}
    SeenCap = 1
    MaxOutbound = 1
    MaxInbound = 1
    MaxOutboundPerSubnet = 2
    BanThreshold = 2
    MaxFaults = 3
    MaxEvents = 3
    None = none
INVARIANTS
    PeersAreLive
    SeenBounded
PROPERTIES
    TargetsReturn
CHECK_DEADLOCK FALSE
