--------------------------- MODULE MCDeviceDiscovery ---------------------------
(* Instances of DeviceDiscovery for TLC: every Android id is one phone's.     *)
(* There is an Android phone and an iPhone, or one Android phone under its    *)
(* address and under its mDNS name.                                           *)
EXTENDS DeviceDiscovery

CONSTANTS ip, mdns, i1

MCAndroid == {ip, mdns}
MCSerial  == [a \in Android |-> "serial"]

MCWorlds == {
    [devices |-> {ip, i1}, changes |-> 1, failures |-> 1, ends |-> 1, refreshes |-> 1],
    [devices |-> {ip, mdns}, changes |-> 2, failures |-> 1, ends |-> 0, refreshes |-> 0]}
================================================================================
