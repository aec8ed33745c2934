--------------------------- MODULE NetworkReload ---------------------------
(***************************************************************************)
(* How a saved configuration reaches the running OneBot adapters:          *)
(* reloadNetwork and handleConfigChange of packages/napcat-onebot/index.ts *)
(* over the name -> adapter map of network/index.ts.                       *)
(*                                                                         *)
(* A change walks through the lists of the configuration in a fixed order; *)
(* in each list it first recycles the names that left it, then applies the *)
(* entries it has now.  One step here is the work on one name, but for an  *)
(* adapter that is closed and opened again: that takes two.  The names of  *)
(* a list come in any order: it is the order of the saved entries.  A      *)
(* change is over before the next one starts (nothing in it waits for      *)
(* I/O), but an adapter that throws ends it half way.                      *)
(*                                                                         *)
(* Bounds on the input: a name stands in at most one list.  The SSE        *)
(* servers, which behave like the HTTP servers, are left out.              *)
(***************************************************************************)
EXTENDS Integers, Sequences, Functions

CONSTANTS
    Lists,      \* the lists of the network configuration, in reload order
    Names,      \* the adapter names
    Endpoints,
    BadPorts    \* endpoints that a server cannot even try to listen on

ASSUME BadPortsAssumption == BadPorts \subseteq Endpoints
ASSUME ListsAssumption == Lists \in Seq(Range(Lists) \ {"none"})

VARIABLES
    now,       \* configData: the one saved last
    adapters,  \* networkManager.adapters
    todo,      \* the tasks the change still has to do
    touched,   \* history: names whose entry this change changes
    moved,     \* history: those of them it moves to an earlier list
    dropped    \* history: names whose work an aborted change skipped and none made up for

reloadVars == <<now, adapters, todo, touched, moved, dropped>>

None == [list |-> "none"]
Entries == [list : Range(Lists), enable : BOOLEAN, endpoint : Endpoints]
NetworkConfigs == [Names -> Entries \union {None}]
Adapters == [class : Range(Lists), config : Entries, isEnable : BOOLEAN]
Tasks == [list : Range(Lists), do : {"recycle", "apply", "reopen"}, name : Names]

Absent == [class |-> "none"]
Exists(n) == adapters[n] # Absent
IsOpen(n) == Exists(n) /\ adapters[n].isEnable

Servers == {"httpServers", "websocketServers"}

\* The port or the url that an adapter of this class reads of an entry: of an
\* entry for the other kind it reads nothing.
Address(class, entry) ==
    IF class \in Servers <=> entry.list \in Servers THEN {entry.endpoint} ELSE {}

\* Whether open() fails: a client adapter is enabled whatever it is given.
CannotOpen(class, entry) ==
    class \in Servers /\ Address(class, entry) \intersect BadPorts # {}

\* The HTTP server logs the failure, the WebSocket server lets it through.
Throws(class, entry) == class = "websocketServers" /\ CannotOpen(class, entry)

-----------------------------------------------------------------------------
(* The work of a change, and its order.                                    *)

Recycled(list, old, new) == {n \in Names : old[n].list = list /\ new[n].list # list}

Applied(list, new) == {n \in Names : new[n].list = list}

handleConfigChange(list, old, new) ==
    [list : {list}, do : {"recycle"}, name : Recycled(list, old, new)]
        \union [list : {list}, do : {"apply"}, name : Applied(list, new)]

reloadNetwork(old, new) ==
    UNION {handleConfigChange(list, old, new) : list \in Range(Lists)}

Position(list) == CHOOSE i \in DOMAIN Lists : Lists[i] = list

\* List by list, and in a list the names that left it first; what is being
\* opened again is opened before anything else.
Before(s, t) ==
    \/ s.do = "reopen" /\ t.do # "reopen"
    \/ Position(s.list) < Position(t.list)
    \/ s.list = t.list /\ s.do = "recycle" /\ t.do = "apply"

MovedUp(old, new) ==
    {n \in Names : /\ None \notin {old[n], new[n]}
                   /\ Position(new[n].list) < Position(old[n].list)}

\* onOB11ConfigChanged
Save(new) ==
    /\ todo = {}
    /\ now' = new
    /\ touched' = {n \in Names : new[n] # now[n]}
    /\ todo' = reloadNetwork(now, new)
    /\ moved' = MovedUp(now, new)
    /\ UNCHANGED <<adapters, dropped>>

-----------------------------------------------------------------------------
(* One name.                                                               *)

\* Recycling a name, or applying it to an adapter of the right class, makes
\* up for what was skipped.
MadeUp(t) ==
    IF \/ t.do = "recycle"
       \/ Exists(t.name) => adapters[t.name].class = now[t.name].list
    THEN {t.name} ELSE {}

Done(t) ==
    /\ todo' = todo \ {t}
    /\ dropped' = dropped \ MadeUp(t)

\* The exception leaves every loop; the configuration stays saved.
Aborted(t) ==
    /\ todo' = {}
    /\ dropped' = (dropped \ MadeUp(t)) \union {s.name : s \in todo \ {t}}

\* Mutant: the adapter of a recycled name is only closed when it is active.
closeSomeAdapterKept(n) ==
    adapters' = IF IsOpen(n) THEN [adapters EXCEPT ![n].isEnable = FALSE] ELSE adapters

\* closeSomeAdaterWhenOpen: out of the map, whether it was open or not.
closeSomeAdapter(n) == adapters' = [adapters EXCEPT ![n] = Absent]

Recycle(t) ==
    /\ closeSomeAdapter(t.name)
    /\ Done(t)

\* The map entry is made before open() is tried.
Register(t) ==
    LET entry == now[t.name]
        class == entry.list
    IN  /\ ~Exists(t.name)
        /\ entry.enable
        /\ adapters' = [adapters EXCEPT ![t.name] =
               [class |-> class, config |-> entry, isEnable |-> ~CannotOpen(class, entry)]]
        /\ IF Throws(class, entry) THEN Aborted(t) ELSE Done(t)

Ignore(t) ==
    /\ ~Exists(t.name)
    /\ ~now[t.name].enable
    /\ UNCHANGED adapters
    /\ Done(t)

\* reload() stores the entry before it opens or closes anything.
Opens(t) ==
    LET entry == now[t.name]
        class == adapters[t.name].class
    IN  /\ adapters' = [adapters EXCEPT ![t.name].config = entry,
                                       ![t.name].isEnable = ~CannotOpen(class, entry)]
        /\ IF Throws(class, entry) THEN Aborted(t) ELSE Done(t)

\* reload() with an enabled entry of a closed adapter.
ReloadEnabled(t) ==
    /\ Exists(t.name) /\ ~IsOpen(t.name)
    /\ now[t.name].enable
    /\ Opens(t)

\* Mutant: every reload() takes a connection of its own.
ReopensAlways(class, old, new) == class # "httpClients"

\* Whether reload() closes and opens: only the HTTP server reads
\* enableWebsocket, and the HTTP client holds nothing open.
Reopens(class, old, new) ==
    /\ class # "httpClients"
    /\ \/ Address(class, old) # Address(class, new)
       \/ class = "httpServers" /\ old.list # new.list

CloseToReopen(t) ==
    LET entry == now[t.name]
    IN  /\ IsOpen(t.name) /\ entry.enable
        /\ Reopens(adapters[t.name].class, adapters[t.name].config, entry)
        /\ adapters' = [adapters EXCEPT ![t.name].config = entry, ![t.name].isEnable = FALSE]
        /\ todo' = (todo \ {t}) \union {[t EXCEPT !.do = "reopen"]}
        /\ UNCHANGED dropped

ReloadSettings(t) ==
    LET entry == now[t.name]
    IN  /\ IsOpen(t.name) /\ entry.enable
        /\ ~Reopens(adapters[t.name].class, adapters[t.name].config, entry)
        /\ adapters' = [adapters EXCEPT ![t.name].config = entry]
        /\ Done(t)

\* reload() with a disabled entry: an open adapter answers NetWorkClose and
\* leaves the map, a closed one stays in it.
ReloadDisabled(t) ==
    /\ Exists(t.name) /\ ~now[t.name].enable
    /\ IF IsOpen(t.name) THEN closeSomeAdapter(t.name)
       ELSE adapters' = [adapters EXCEPT ![t.name].config = now[t.name]]
    /\ Done(t)

Step ==
    /\ \E t \in todo :
          /\ \A s \in todo : ~Before(s, t)
          /\ \/ t.do = "recycle" /\ Recycle(t)
             \/ t.do = "reopen" /\ Opens(t)
             \/ t.do = "apply" /\ \/ Register(t)
                                  \/ Ignore(t)
                                  \/ ReloadEnabled(t)
                                  \/ CloseToReopen(t)
                                  \/ ReloadSettings(t)
                                  \/ ReloadDisabled(t)
    /\ UNCHANGED <<now, touched, moved>>

-----------------------------------------------------------------------------
\* Before the first login configuration: nothing configured, nothing open.
ReloadInit ==
    /\ now = [n \in Names |-> None]
    /\ adapters = [n \in Names |-> Absent]
    /\ todo = {}
    /\ touched = {}
    /\ moved = {}
    /\ dropped = {}

ReloadNext == Step \/ \E new \in NetworkConfigs : Save(new)

ReloadSpec == ReloadInit /\ [][ReloadNext]_reloadVars

-----------------------------------------------------------------------------
ReloadTypeOK ==
    /\ now \in NetworkConfigs
    /\ adapters \in [Names -> Adapters \union {Absent}]
    /\ \A n \in Names : IsOpen(n) => ~CannotOpen(adapters[n].class, adapters[n].config)
    /\ todo \subseteq Tasks
    /\ moved \subseteq touched /\ touched \subseteq Names
    /\ dropped \subseteq Names

ShouldBeOpen(n) == now[n] # None /\ now[n].enable /\ ~CannotOpen(now[n].list, now[n])

(* A finished change leaves exactly the adapters the configuration enables *)
(* open, each of the class of its list and with its present entry, whatever*)
(* changes, failed opens and retries came before.  A name that an aborted  *)
(* change skipped is right again after the next whole one, unless it needs *)
(* an adapter of another class.  Left out are those and the names that this*)
(* change moved to an earlier list.                                        *)
Converges ==
    todo = {} =>
        \A n \in Names \ (moved \union dropped) :
            /\ IsOpen(n) <=> ShouldBeOpen(n)
            /\ Exists(n) => adapters[n].class = now[n].list /\ adapters[n].config = now[n]

(* A change does not interrupt an adapter whose entry it leaves enabled and*)
(* as it was, not even to open it again at once, whatever happens to the   *)
(* others, also when it is aborted.  It may interrupt an adapter that does *)
(* not have its entry yet, because an aborted change skipped the name.     *)
UntouchedStaysOpen ==
    [][\A n \in Names \ (touched' \union dropped) :
          ShouldBeOpen(n)' /\ IsOpen(n) => IsOpen(n)']_reloadVars

(* The comment at index.ts:270, on what a change does: it reloads what is  *)
(* there, removes what was closed and adds what is newly enabled.  So      *)
(* every enabled entry that can be opened is open after a whole change.    *)
AddsNewlyEnabled ==
    todo = {} =>
        \A n \in Names \ dropped : ShouldBeOpen(n) => IsOpen(n)
=============================================================================
