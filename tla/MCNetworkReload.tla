-------------------------- MODULE MCNetworkReload --------------------------
(* A list whose adapters log a failed open, one whose adapters throw, and  *)
(* one behind it; two names, so that one can fail before the other.        *)
EXTENDS NetworkReload

MCLists == <<"httpServers", "websocketServers", "websocketClients">>
MCNames == {"a", "b"}
MCEndpoints == {"e1", "bad"}
MCBadPorts == {"bad"}
=============================================================================
