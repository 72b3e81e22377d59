-------------------------------- MODULE MCIp --------------------------------
(***************************************************************************)
(* A guest and the discovery of its address, for TLC.                      *)
(***************************************************************************)
EXTENDS IpDiscovery

GuestAddresses == {"10.0.0.1", "10.0.0.2", "10.0.0.3"}
BehindNat == {"192.168.0.1"}
AllGetters == {"auto", "http", "tools"}
=============================================================================
