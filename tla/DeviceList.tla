------------------------------- MODULE DeviceList ------------------------------
(***************************************************************************)
(* What the list of devices promises to those who listen to it: it starts  *)
(* empty, and a device once listed stays listed, connected or not.         *)
(* DeviceDiscovery implements it; DeviceSessions relies on it.             *)
(***************************************************************************)
CONSTANT Device

VARIABLE known   \* DevicesRepository.devices

Connection == {"unknown", "connected", "disconnected"}

Init == known = [d \in Device |-> "unknown"]

\* The list is replaced as a whole.
Publish(next) ==
    /\ \A d \in Device : known[d] # "unknown" => next[d] # "unknown"
    /\ known' = next

Next == \E next \in [Device -> Connection] : Publish(next)

Spec == Init /\ [][Next]_known
================================================================================
