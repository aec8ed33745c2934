----------------------------- MODULE MCWsClient -----------------------------
(* Two servers and a url that throws, one heartbeat interval besides "off",*)
(* four sockets: a first one, its successor after a reload, the one that   *)
(* the first one's late close adds, and a redial after that.               *)
EXTENDS WsClient

CONSTANTS u1, u2, bad

MCUrls == {u1, u2, bad}
MCBadUrls == {bad}
MCHeartIntervals == {5, 9}
=============================================================================
