--------------------------- MODULE MCRecallEvents ---------------------------
(* Three callbacks over two messages, one of them the bot's own recall and *)
(* one replayed from history, with room for one key in the cache.          *)
EXTENDS RecallEvents

CONSTANTS c1, c2, c3, own, old

MCCallbacks == {c1, c2, c3}
MCKeys == {own, old}
MCOldKeys == {old}
MCSelfKeys == {own}
=============================================================================
