---------------------------- MODULE PluginManager ----------------------------
(***************************************************************************)
(* The plugin manager: napcat-onebot/network/plugin-manger.ts with         *)
(* plugin/loader.ts.                                                       *)
(*                                                                         *)
(* Each public call is a request of the WebUI, the network manager or a    *)
(* plugin.  Nothing locks: a request is suspended while a module is        *)
(* imported, initialised or cleaned up and while directories are scanned,  *)
(* and others run in between.  A scan makes new PluginEntry objects; an    *)
(* old one lives on in the requests that hold it.  Events are dispatched   *)
(* at any time, and a plugin's methods take their time.                    *)
(*                                                                         *)
(* An instance is one imported module whose plugin_init succeeded, named   *)
(* by the request that imported it and its entry.                          *)
(***************************************************************************)
EXTENDS Integers, FiniteSets, Functions

CONSTANTS
    Ids,
    MaxRequests,  \* bound: the requests of one behaviour
    MaxEntries,   \* bound: the PluginEntry objects of one behaviour
    MaxEvents,    \* bound: the events of one behaviour
    message,      \* event -> whether it has a message_type
    hooks,        \* instance -> the event methods its module has
    None

ASSUME PluginBoundsAssumption == MaxRequests \in Nat \ {0} /\ MaxEntries \in Nat

Requests == 1 .. MaxRequests  \* in the order they begin
Entries == 1 .. MaxEntries
Instances == Requests \X Entries
Hooks == {"plugin_onevent", "plugin_onmessage"}

ASSUME PluginEventsAssumption ==
    /\ MaxEvents \in Nat
    /\ message \in [1 .. MaxEvents -> BOOLEAN]
    /\ hooks \in [Instances -> SUBSET Hooks]
ASSUME PluginIdsAssumption == IsFiniteSet(Ids)
ASSUME PluginNoneAssumption == None \notin Nat \union Ids \union Instances

VARIABLES
    plugins,       \* plugin id -> its entry, or None
    entry,         \* entry -> the fields of the PluginEntry
    made,          \* the entries made so far are 1 .. made
    pluginRouters, \* plugin id -> instance the router was made for, or None
    config,        \* plugins.json: plugin id -> enabled
    isEnable,
    request,       \* request -> what it does and where it is suspended
    arrived,       \* the events so far are 1 .. arrived
    handling,      \* the methods that are running for an event
    \* History.
    live,          \* instances initialised and not yet cleaned up
    overlapped     \* ids two requests have worked on at once

manager == <<plugins, entry, made, pluginRouters, config, isEnable, request,
             live, overlapped>>
dispatch == <<arrived, handling>>
vars == <<manager, dispatch>>

Kinds == {"enable", "disable", "load", "install", "unregister", "uninstall",
          "reload", "open", "close", "restart"}

\* Where a request is suspended: in scanPlugins, between two entries of a
\* loop, in the import, in plugin_init, in plugin_cleanup, after unloadPlugin
\* when there is more to do.
Points == {"unborn", "scan", "next", "import", "init", "cleanup", "unloaded", "done"}

Entry == [id : Ids \union {None}, enable : BOOLEAN, loaded : BOOLEAN,
          status : {"unloaded", "loaded", "error"}, module : Instances \union {None}]

\* seen: the ids a loop over the map has passed.  scanned: the statuses its
\* scan has read.  module: the instance its unloadPlugin cleans up.
Request == [kind : Kinds, id : Ids \union {None}, at : Points,
            entry : Entries \union {None}, module : Instances \union {None},
            seen : SUBSET Ids, scanned : [Ids -> BOOLEAN]]

\* A suspended callPluginEventHandler.
Handler == [event : 1 .. MaxEvents, module : Instances, hook : Hooks]

Idle == [kind |-> "open", id |-> None, at |-> "done", entry |-> None,
         module |-> None, seen |-> {}, scanned |-> [p \in Ids |-> FALSE]]

Init ==
    /\ plugins = [p \in Ids |-> None]
    /\ entry = [e \in Entries |-> [id |-> None, enable |-> FALSE, loaded |-> FALSE,
                                   status |-> "unloaded", module |-> None]]
    /\ made = 0
    /\ pluginRouters = [p \in Ids |-> None]
    /\ config \in [Ids -> BOOLEAN]
    /\ isEnable = FALSE
    /\ request = [r \in Requests |-> [Idle EXCEPT !.at = "unborn"]]
    /\ arrived = 0
    /\ handling = {}
    /\ live = {}
    /\ overlapped = {}

-----------------------------------------------------------------------------
(* A request on its way. *)

Loop(kind) == kind \in {"open", "close", "restart"}

Active(r) == request[r].at \notin {"unborn", "done"}
Touches(r) == IF Loop(request[r].kind) THEN Ids ELSE {request[r].id}
Busy(p) == \E r \in Requests : Active(r) /\ p \in Touches(r)

\* The history of overlaps, when a request for these ids begins.
Begin(ids) == overlapped' = overlapped \union {p \in ids : Busy(p)}

\* The request q back from loadPlugin, and back from unloadPlugin.
Loaded(q) ==
    IF Loop(q.kind) THEN [q EXCEPT !.at = "next", !.entry = None, !.module = None] ELSE Idle
Unloaded(q) ==
    IF q.kind \in {"uninstall", "reload"}
    THEN [q EXCEPT !.at = "unloaded", !.entry = None, !.module = None]
    ELSE Loaded(q)

\* loadPlugin and unloadPlugin of entry e, with fields f, up to their first
\* await.
Loading(q, e, f) ==
    IF f.loaded \/ f.status = "error" THEN Loaded(q)
    ELSE [q EXCEPT !.entry = e, !.at = "import"]
Unloading(q, e) ==
    IF entry[e].loaded /\ entry[e].status = "loaded"
    THEN [q EXCEPT !.entry = e, !.at = "cleanup", !.module = entry[e].module]
    ELSE Unloaded(q)

Arrives(r) ==
    /\ request[r].at = "unborn"
    /\ r > 1
    /\ request[r - 1].at # "unborn"

Started(r, kind, p) == [request[r] EXCEPT !.kind = kind, !.id = p]

\* rescanPlugin: a new entry from the files and plugins.json; it is an error
\* entry when there is no entry file.
Rescanned(p, status) ==
    [id |-> p, enable |-> config[p], loaded |-> FALSE, status |-> status, module |-> None]

NewEntry(f) ==
    /\ made < MaxEntries
    /\ made' = made + 1
    /\ entry' = [entry EXCEPT ![made + 1] = f]

-----------------------------------------------------------------------------
(* The public calls, up to their first await. *)

\* setPluginStatus; a failed save of plugins.json is only logged.
setPluginStatus(r, p, enable, saved) ==
    LET e == plugins[p]
        q == Started(r, IF enable THEN "enable" ELSE "disable", p)
    IN  /\ Arrives(r)
        /\ Begin({p})
        /\ config' = IF saved THEN [config EXCEPT ![p] = enable] ELSE config
        /\ IF e = None
           THEN /\ request' = [request EXCEPT ![r] = Idle]
                /\ UNCHANGED entry
           ELSE /\ entry' = [entry EXCEPT ![e].enable = enable]
                /\ request' = [request EXCEPT ![r] =
                       IF enable /\ ~entry[e].loaded THEN Loading(q, e, entry[e])
                       ELSE IF ~enable /\ entry[e].loaded THEN Unloading(q, e)
                       ELSE Idle]
        /\ UNCHANGED <<plugins, made, pluginRouters, isEnable, live>>

\* Mutant: a plugin is loaded whatever its status.
loadPluginByIdAnyway(r, p) ==
    /\ Arrives(r)
    /\ plugins[p] # None
    /\ Begin({p})
    /\ request' = [request EXCEPT ![r] =
                      Loading(Started(r, "load", p), plugins[p], entry[plugins[p]])]
    /\ UNCHANGED <<plugins, entry, made, pluginRouters, config, isEnable, live>>

\* loadPluginById of a plugin that is registered.
loadPluginById(r, p) ==
    LET e == plugins[p]
        q == Started(r, "load", p)
    IN  /\ Arrives(r)
        /\ e # None
        /\ Begin({p})
        /\ request' = [request EXCEPT ![r] = IF entry[e].enable THEN Loading(q, e, entry[e])
                                             ELSE Idle]
        /\ UNCHANGED <<plugins, entry, made, pluginRouters, config, isEnable, live>>

\* loadPluginById and loadDirectoryPlugin of one that is not, when its files
\* are found and accepted.
installPlugin(r, p, status) ==
    LET q == Started(r, "install", p)
        f == Rescanned(p, status)
    IN  /\ Arrives(r)
        /\ plugins[p] = None
        /\ Begin({p})
        /\ NewEntry(f)
        /\ plugins' = [plugins EXCEPT ![p] = made + 1]
        /\ request' = [request EXCEPT ![r] = IF f.enable THEN Loading(q, made + 1, f)
                                             ELSE Idle]
        /\ UNCHANGED <<pluginRouters, config, isEnable, live>>

\* unregisterPlugin and reloadPlugin begin with unloadPlugin.
UnloadFirst(r, p, kind) ==
    /\ Arrives(r)
    /\ plugins[p] # None
    /\ Begin({p})
    /\ request' = [request EXCEPT ![r] = Unloading(Started(r, kind, p), plugins[p])]
    /\ UNCHANGED <<plugins, entry, made, pluginRouters, config, isEnable, live>>

\* Mutant: the old instance is replaced without being unloaded.
reloadPluginOver(r, p) ==
    /\ Arrives(r)
    /\ plugins[p] # None
    /\ Begin({p})
    /\ request' = [request EXCEPT ![r] =
                      Unloaded(Started(r, "reload", p))]
    /\ UNCHANGED <<plugins, entry, made, pluginRouters, config, isEnable, live>>

unregisterPlugin(r, p) == UnloadFirst(r, p, "unregister")
reloadPlugin(r, p) == UnloadFirst(r, p, "reload")

\* uninstallPlugin unloads only a loaded plugin.
uninstallPlugin(r, p) ==
    LET e == plugins[p]
        q == Started(r, "uninstall", p)
    IN  /\ Arrives(r)
        /\ e # None
        /\ Begin({p})
        /\ request' = [request EXCEPT ![r] = IF entry[e].loaded THEN Unloading(q, e)
                                             ELSE Unloaded(q)]
        /\ UNCHANGED <<plugins, entry, made, pluginRouters, config, isEnable, live>>

\* open: the manager is opened as soon as it is registered, before anyone
\* can find it.
open(r) ==
    /\ r = 1
    /\ request[r].at = "unborn"
    /\ ~isEnable
    /\ Begin(Ids)
    /\ isEnable' = TRUE
    /\ request' = [request EXCEPT ![r] =
                      [Started(r, "open", None) EXCEPT !.at = "scan", !.scanned = config]]
    /\ UNCHANGED <<plugins, entry, made, pluginRouters, config, live>>

\* close, and reload, which is close followed by open.  (A closed manager has
\* left the network manager, and nothing reloads it.)
close(r, kind) ==
    /\ Arrives(r)
    /\ isEnable
    /\ Begin(Ids)
    /\ isEnable' = FALSE
    /\ request' = [request EXCEPT ![r] =
                      [Started(r, kind, None) EXCEPT !.at = "next", !.seen = {}]]
    /\ UNCHANGED <<plugins, entry, made, pluginRouters, config, live>>

-----------------------------------------------------------------------------
(* What happens at the awaits. *)

\* scanPlugins ends: the entries it made, from the statuses it read at its
\* beginning, replace the whole map; every loop over the map starts anew.
Scanned(r, found) ==
    LET q == request[r]
        Number == CHOOSE n \in Bijection(found, 1 .. Cardinality(found)) : TRUE
    IN  /\ q.at = "scan"
        /\ made + Cardinality(found) <= MaxEntries
        /\ made' = made + Cardinality(found)
        /\ plugins' = [p \in Ids |-> IF p \in found THEN made + Number[p] ELSE None]
        /\ entry' = [e \in Entries |->
               IF \E p \in found : e = made + Number[p]
               THEN LET p == CHOOSE x \in found : e = made + Number[x]
                    IN  [Rescanned(p, "unloaded") EXCEPT !.enable = q.scanned[p]]
               ELSE entry[e]]
        /\ request' = [s \in Requests |->
               IF s = r THEN [Idle EXCEPT !.at = "next"]
               ELSE [request[s] EXCEPT !.seen = {}]]
        /\ UNCHANGED <<pluginRouters, config, isEnable, live, overlapped>>

\* Mutant: the loop starts over at each entry.
NextEntryAgain(r, p) ==
    LET e == plugins[p]
    IN  /\ request[r].at = "next"
        /\ e # None
        /\ p \notin request[r].seen
        /\ request' = [request EXCEPT ![r] =
               IF @.kind = "open"
               THEN IF entry[e].enable THEN Loading(@, e, entry[e]) ELSE @
               ELSE IF entry[e].loaded THEN Unloading(@, e) ELSE @]
        /\ UNCHANGED <<plugins, entry, made, pluginRouters, config, isEnable,
                       live, overlapped>>

\* The loops of scanAndLoadPlugins and close come to the next entry of the
\* map, in any order.
NextEntry(r, p) ==
    LET q == [request[r] EXCEPT !.seen = @ \union {p}]
        e == plugins[p]
    IN  /\ request[r].at = "next"
        /\ e # None
        /\ p \notin request[r].seen
        /\ request' = [request EXCEPT ![r] =
               IF q.kind = "open"
               THEN IF entry[e].enable THEN Loading(q, e, entry[e]) ELSE q
               ELSE IF entry[e].loaded THEN Unloading(q, e) ELSE q]
        /\ UNCHANGED <<plugins, entry, made, pluginRouters, config, isEnable,
                       live, overlapped>>

\* The loop is over; reload goes on to open.
LoopEnds(r) ==
    LET q == request[r]
        opens == q.kind = "restart" /\ ~isEnable
    IN  /\ q.at = "next"
        /\ \A p \in Ids : plugins[p] # None => p \in q.seen
        /\ isEnable' = (isEnable \/ opens)
        /\ request' = [request EXCEPT ![r] =
               IF opens THEN [q EXCEPT !.at = "scan", !.scanned = config, !.seen = {}] ELSE Idle]
        /\ UNCHANGED <<plugins, entry, made, pluginRouters, config, live, overlapped>>

\* The import ends: the context is made, with a new router, and plugin_init
\* is called; or the entry is marked and nothing else.
Imported(r, valid) ==
    LET q == request[r]
        e == q.entry
    IN  /\ q.at = "import"
        /\ IF valid
           THEN /\ pluginRouters' = [pluginRouters EXCEPT ![entry[e].id] = <<r, e>>]
                /\ UNCHANGED entry
           ELSE /\ entry' = [entry EXCEPT ![e].status = "error", ![e].module = None]
                /\ UNCHANGED pluginRouters
        /\ request' = [request EXCEPT ![r] = IF valid THEN [q EXCEPT !.at = "init"] ELSE Loaded(q)]
        /\ UNCHANGED <<plugins, made, config, isEnable, live, overlapped>>

\* The plugin directory cannot be read, or the data directory of the context
\* cannot be made: the call rejects, and with it the loop it is part of.
Rejects(r) ==
    /\ request[r].at \in {"scan", "import"}
    /\ request' = [request EXCEPT ![r] = Idle]
    /\ UNCHANGED <<plugins, entry, made, pluginRouters, config, isEnable,
                   live, overlapped>>

\* plugin_init ends.
Initialised(r, succeeds) ==
    LET q == request[r]
        e == q.entry
    IN  /\ q.at = "init"
        /\ entry' = [entry EXCEPT
               ![e].loaded = succeeds,
               ![e].status = IF succeeds THEN "loaded" ELSE "error",
               ![e].module = IF succeeds THEN <<r, e>> ELSE None]
        /\ live' = IF succeeds THEN live \union {<<r, e>>} ELSE live
        /\ request' = [request EXCEPT ![r] = Loaded(q)]
        /\ UNCHANGED <<plugins, made, pluginRouters, config, isEnable, overlapped>>

\* Mutant: the entry still refers to the instance.
CleanedUpKept(r) ==
    LET q == request[r]
        p == entry[q.entry].id
    IN  /\ q.at = "cleanup"
        /\ live' = live \ {q.module}
        /\ pluginRouters' = [pluginRouters EXCEPT ![p] = None]
        /\ request' = [request EXCEPT ![r] = Unloaded(q)]
        /\ UNCHANGED <<plugins, entry, made, config, isEnable, overlapped>>

\* plugin_cleanup has ended or failed, and the rest of unloadPlugin is done.
CleanedUp(r) ==
    LET q == request[r]
        e == q.entry
        p == entry[e].id
    IN  /\ q.at = "cleanup"
        /\ live' = live \ {q.module}
        /\ pluginRouters' = [pluginRouters EXCEPT ![p] = None]
        /\ entry' = [entry EXCEPT ![e].loaded = FALSE, ![e].status = "unloaded",
                                  ![e].module = None]
        /\ request' = [request EXCEPT ![r] = Unloaded(q)]
        /\ UNCHANGED <<plugins, made, config, isEnable, overlapped>>

\* uninstallPlugin takes the id out of the map and removes the files.
Uninstalled(r) ==
    LET q == request[r]
    IN  /\ q.at = "unloaded"
        /\ q.kind = "uninstall"
        /\ plugins' = [plugins EXCEPT ![q.id] = None]
        /\ request' = [s \in Requests |->
               IF s = r THEN Idle ELSE [request[s] EXCEPT !.seen = @ \ {q.id}]]
        /\ UNCHANGED <<entry, made, pluginRouters, config, isEnable, live, overlapped>>

\* reloadPlugin finds no acceptable files.
ReloadFails(r) ==
    /\ request[r].at = "unloaded"
    /\ request[r].kind = "reload"
    /\ request' = [request EXCEPT ![r] = Idle]
    /\ UNCHANGED <<plugins, entry, made, pluginRouters, config, isEnable,
                   live, overlapped>>

\* reloadPlugin registers a new entry and loads it.
Reloaded(r, status) ==
    LET q == request[r]
        f == Rescanned(q.id, status)
    IN  /\ q.at = "unloaded"
        /\ q.kind = "reload"
        /\ NewEntry(f)
        /\ plugins' = [plugins EXCEPT ![q.id] = made + 1]
        /\ request' = [request EXCEPT ![r] = IF f.enable THEN Loading(q, made + 1, f)
                                             ELSE Idle]
        /\ UNCHANGED <<pluginRouters, config, isEnable, live, overlapped>>

-----------------------------------------------------------------------------
(* Events. *)

\* getLoadedPlugins, and the check of callPluginEventHandler.
Receives(p) ==
    LET e == plugins[p]
    IN  /\ e # None
        /\ entry[e].loaded
        /\ entry[e].status = "loaded"
        /\ entry[e].module # None

Receivers == {entry[plugins[p]].module : p \in {q \in Ids : Receives(q)}}

\* The method callPluginEventHandler calls before its first await.
FirstHook(i, n) ==
    IF "plugin_onevent" \in hooks[i] THEN {"plugin_onevent"}
    ELSE IF message[n] THEN hooks[i]
    ELSE {}

\* onEvent: all the handlers start at once.
onEvent ==
    /\ arrived < MaxEvents
    /\ isEnable
    /\ arrived' = arrived + 1
    /\ handling' = handling \union
          {h \in Handler : /\ h.event = arrived + 1
                           /\ h.module \in Receivers
                           /\ h.hook \in FirstHook(h.module, arrived + 1)}
    /\ UNCHANGED manager

\* plugin_onevent has ended; the entry is not looked at again.
SecondHook(h) ==
    /\ h \in handling
    /\ h.hook = "plugin_onevent"
    /\ message[h.event]
    /\ "plugin_onmessage" \in hooks[h.module]
    /\ handling' = (handling \ {h}) \union {[h EXCEPT !.hook = "plugin_onmessage"]}
    /\ UNCHANGED <<arrived, manager>>

\* A method has failed, or the last one has ended.
Handled(h) ==
    /\ h \in handling
    /\ handling' = handling \ {h}
    /\ UNCHANGED <<arrived, manager>>

-----------------------------------------------------------------------------
Calls(r) ==
    /\ UNCHANGED dispatch
    /\ \/ \E p \in Ids :
             \/ \E enable, saved \in BOOLEAN : setPluginStatus(r, p, enable, saved)
             \/ loadPluginById(r, p)
             \/ \E status \in {"unloaded", "error"} : installPlugin(r, p, status)
             \/ unregisterPlugin(r, p)
             \/ reloadPlugin(r, p)
             \/ uninstallPlugin(r, p)
       \/ open(r)
       \/ \E kind \in {"close", "restart"} : close(r, kind)

Continues(r) ==
    /\ UNCHANGED dispatch
    /\ \/ \E found \in SUBSET Ids : Scanned(r, found)
       \/ \E p \in Ids : NextEntry(r, p)
       \/ LoopEnds(r)
       \/ \E valid \in BOOLEAN : Imported(r, valid)
       \/ Rejects(r)
       \/ \E succeeds \in BOOLEAN : Initialised(r, succeeds)
       \/ CleanedUp(r)
       \/ Uninstalled(r)
       \/ ReloadFails(r)
       \/ \E status \in {"unloaded", "error"} : Reloaded(r, status)

Next ==
    \/ \E r \in Requests : Calls(r) \/ Continues(r)
    \/ onEvent
    \/ \E h \in handling : SecondHook(h) \/ Handled(h)

Spec == Init /\ [][Next]_vars

\* The plugins' own functions settle.
FairSpec == Spec /\ \A r \in Requests : WF_vars(Continues(r))

-----------------------------------------------------------------------------
(* Properties. *)

\* The fields of the manager, of its entries and of the requests.
FieldsOK ==
    /\ plugins \in [Ids -> Entries \union {None}]
    /\ entry \in [Entries -> Entry]
    /\ made \in 0 .. MaxEntries
    /\ pluginRouters \in [Ids -> Instances \union {None}]
    /\ config \in [Ids -> BOOLEAN]
    /\ isEnable \in BOOLEAN
    /\ request \in [Requests -> Request]
    /\ live \subseteq Instances
    /\ overlapped \subseteq Ids

\* Types.
TypeOK ==
    /\ FieldsOK
    /\ arrived \in 0 .. MaxEvents
    /\ handling \subseteq Handler

\* As long as no two requests have worked on a plugin at once, each instance
\* that was initialised and not cleaned up is the one instance of the entry in
\* the map, with the plugin's router, so that it gets events and can be
\* unloaded.
InstancesTracked ==
    \A p \in Ids \ overlapped, i \in live :
        entry[i[2]].id = p =>
            /\ plugins[p] = i[2]
            /\ entry[i[2]].loaded
            /\ entry[i[2]].module = i
            /\ pluginRouters[p] = i

ReachesLive ==
    /\ \A h \in handling' \ handling :
          h.module \in live \/ [h EXCEPT !.hook = "plugin_onevent"] \in handling
    /\ arrived' # arrived =>
          \A i \in live :
             entry[i[2]].id \notin overlapped /\ "plugin_onevent" \in hooks[i] =>
                \E h \in handling' : h.event = arrived' /\ h.module = i

\* Whatever overlaps, an event is given only to instances that are alive when
\* it arrives: initialised, and plugin_cleanup not ended; and to each such
\* instance of a plugin on which no two requests have worked at once.  An
\* instance that is cleaned up while its plugin_onevent runs may still get the
\* same event through plugin_onmessage, for callPluginEventHandler does not
\* look again; it gets no other.
EventsReachLive == [][ReachesLive]_vars

\* When such a plugin is left alone, it is loaded only if it is enabled: a
\* disabled plugin does not go on running, whatever failed on the way.
LoadedIsEnabled ==
    \A p \in Ids \ overlapped :
        ~Busy(p) /\ plugins[p] # None /\ entry[plugins[p]].loaded => entry[plugins[p]].enable

\* Every request comes to its end, the loops over a map that changes included:
\* as there are finitely many, a time comes at which none is on its way.
EveryRequestEnds == []<>(\A r \in Requests : ~Active(r))
=============================================================================
