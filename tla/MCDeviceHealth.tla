--------------------------- MODULE MCDeviceHealth ---------------------------
(* DeviceHealth for TLC: requests are model values named in the cfg. *)
EXTENDS DeviceHealth, TLC

CONSTANTS c1, c2, a1, a2

Slots == Permutations({c1, c2}) \cup Permutations({a1, a2})
=============================================================================
