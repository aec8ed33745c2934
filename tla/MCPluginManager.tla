--------------------------- MODULE MCPluginManager ---------------------------
(* The opening of the manager and two more requests, on one plugin, and one *)
(* message.  The instances of different requests have different methods, as *)
(* when a new version of the plugin is installed.                           *)
EXTENDS PluginManager

CONSTANTS p1

MCIds == {p1}

MCmessage == [n \in 1 .. MaxEvents |-> TRUE]

MChooks ==
    [i \in Instances |-> IF i[1] = 1 THEN Hooks
                         ELSE IF i[1] = 2 THEN {"plugin_onmessage"} ELSE {"plugin_onevent"}]
=============================================================================
