SPECIFICATION Spec
CONSTANTS
    ip = ip
    mdns = mdns
    i1 = i1
    Android <- MCAndroid
    Ios = {i1}
    Serial <- MCSerial
    Mdns = {mdns}
    Address = {ip}
    RetryMax = 1
    MinInterval = 1
    RestartDelay = 1
    IosPeriod = 2
    Off = Off
    Worlds <- MCWorlds
INVARIANTS
    ForcedIsPending
    SpinnerFollowsReload
PROPERTIES
    ForgetsNoDevice
    DiscoveryConverges
CHECK_DEADLOCK FALSE
