------------------------- MODULE MCWifiProvisioning -------------------------
(* Instances of WifiProvisioning for TLC. *)
EXTENDS WifiProvisioning

CONSTANTS a1, a2

Accounts2 == {a1, a2}

=============================================================================
