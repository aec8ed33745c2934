--------------------------- MODULE MCMessageUnique ---------------------------
(* Four message ids in two conversations and a hash with collisions, among *)
(* them one between two ids that each occur in both conversations.         *)
EXTENDS MessageUnique

CONSTANTS m1, m2, m3, m4, p1, p2

MCMsgIds == {m1, m2, m3, m4}
MCPeers == {p1, p2}
MCShortIds == 0..5
MCHash ==
    [m \in MCMsgIds \X MCPeers |->
        CASE m \in {<<m1, p1>>, <<m2, p2>>} -> 5
          [] m \in {<<m1, p2>>} -> 1
          [] m \in {<<m2, p1>>, <<m3, p1>>} -> 2
          [] m \in {<<m3, p2>>} -> 3
          [] m \in {<<m4, p1>>} -> 4
          [] OTHER -> 0]
=============================================================================
