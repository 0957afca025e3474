-------------------------- MODULE MCOpenVpnMonitor --------------------------
(* A proxy we start, two that we do not (one with credentials, so Remote    *)
(* without them adds nothing), and none; two looks at the Shadowsocks log.  *)
EXTENDS OpenVpnMonitor

MCProxies == {"None", "Local", "RemoteAuth", "Shadowsocks"}
=============================================================================
