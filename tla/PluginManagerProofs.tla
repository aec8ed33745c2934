------------------------- MODULE PluginManagerProofs -------------------------
(* Safety of the plugin manager, for every finite set of plugins and any    *)
(* number of requests and entries.                                          *)
EXTENDS PluginManager, FiniteSetTheorems, FunctionTheorems, TLAPS

\* Active and Touches, of the fields q of a request.
On(q) == q.at \notin {"unborn", "done"}
Of(q) == IF Loop(q.kind) THEN Ids ELSE {q.id}

AtWork(q) == q.at \in {"import", "init", "cleanup"}

\* The fields that go with where a request is.
Shaped(q) ==
    /\ On(q) /\ ~Loop(q.kind) => q.id \in Ids
    /\ q.at \in {"scan", "next"} => Loop(q.kind)
    /\ q.at = "unloaded" => q.kind \in {"uninstall", "reload"}
    /\ q.at \in {"import", "init"} => q.kind \notin {"close", "restart"}
    /\ AtWork(q) => q.entry \in 1 .. made /\ entry[q.entry].id \in Of(q)
    /\ q.at = "cleanup" => q.module \in Instances /\ q.module[2] = q.entry

Shape ==
    /\ \A r \in Requests : Shaped(request[r])
    /\ \A e \in Entries : entry[e].module # None => entry[e].module[2] = e
    /\ \A e \in 1 .. made : entry[e].id \in Ids
    /\ \A e \in Entries \ (1 .. made) : entry[e].id = None
    /\ \A p \in Ids : plugins[p] # None => plugins[p] <= made /\ entry[plugins[p]].id = p
    /\ \A i \in live : i[2] <= made

-----------------------------------------------------------------------------
(* What holds of a plugin that no two requests have worked on at once.     *)

Alone(p) ==
    \A r, s \in Requests :
        On(request[r]) /\ p \in Of(request[r]) /\ On(request[s]) /\ p \in Of(request[s])
        => r = s

Tracked(p) ==
    \A i \in live :
        entry[i[2]].id = p =>
            /\ plugins[p] = i[2]
            /\ entry[i[2]].loaded
            /\ entry[i[2]].module = i
            /\ pluginRouters[p] = i

NoneLive(p) == \A i \in live : entry[i[2]].id # p

\* The request r, with fields q, at work on an entry.
InHand(r, q, p) ==
    AtWork(q) /\ entry[q.entry].id = p =>
        /\ plugins[p] = q.entry
        /\ q.at \in {"import", "init"} => ~entry[q.entry].loaded /\ entry[q.entry].enable
        /\ q.at = "init" => pluginRouters[p] = <<r, q.entry>>
        /\ q.at = "cleanup" => entry[q.entry].loaded /\ entry[q.entry].module = q.module

Closing == {"close", "restart"}

\* A closing loop has passed p.
Behind(q, p) ==
    /\ q.kind \in Closing
    /\ p \in q.seen
    /\ q.at = "next" \/ (q.at = "cleanup" /\ entry[q.entry].id # p)

\* What a closing loop has passed is unloaded; nothing lives on when a scan
\* or the second half of a reload or an uninstall begins.
Passed(q, p) ==
    /\ Behind(q, p) /\ plugins[p] # None => ~entry[plugins[p]].loaded
    /\ q.at = "scan" => NoneLive(p)
    /\ q.at = "unloaded" /\ q.id = p => NoneLive(p)

\* Loaded only with a live instance, and only if enabled or being unloaded.
Consistent(p) ==
    LET e == plugins[p]
    IN  e # None /\ entry[e].loaded =>
            /\ entry[e].status = "loaded"
            /\ \/ entry[e].enable
               \/ \E r \in Requests : request[r].at = "cleanup" /\ request[r].entry = e

Orderly(p) ==
    /\ Alone(p)
    /\ Tracked(p)
    /\ \A r \in Requests : InHand(r, request[r], p) /\ Passed(request[r], p)
    /\ Consistent(p)

\* Whatever overlaps, an entry that is loaded holds an instance that is alive.
LoadedIsLive ==
    \A e \in Entries :
        entry[e].loaded /\ entry[e].status = "loaded" => entry[e].module \in live

\* The manager is opened first.
Unopened ==
    request[1].at = "unborn" => live = {} /\ \A r \in Requests : request[r].at = "unborn"

IInv ==
    /\ FieldsOK
    /\ Shape
    /\ Unopened
    /\ LoadedIsLive
    /\ \A p \in Ids \ overlapped : Orderly(p)

-----------------------------------------------------------------------------
(* The requests that loadPlugin and unloadPlugin leave behind.             *)

LEMMA IdleFacts == Idle \in Request /\ Idle.at = "done"
<1>1. Idle.at = "done"
  BY DEF Idle
<1>2. [p \in Ids |-> FALSE] \in [Ids -> BOOLEAN]
  OBVIOUS
<1> QED
  BY <1>1, <1>2 DEF Idle, Request, Kinds, Points

\* q2 is q at another point, with another entry and module.
Moved(q, q2) == q2 \in Request /\ q2.kind = q.kind /\ q2.id = q.id /\ q2.seen = q.seen

LEMMA LoadedFacts ==
    ASSUME NEW q \in Request
    PROVE  \/ Loop(q.kind) /\ Moved(q, Loaded(q)) /\ Loaded(q).at = "next"
           \/ ~Loop(q.kind) /\ Loaded(q) = Idle
BY DEF Loaded, Moved, Request, Points

LEMMA UnloadedFacts ==
    ASSUME NEW q \in Request
    PROVE  \/ /\ q.kind \in {"uninstall", "reload"}
              /\ Moved(q, Unloaded(q)) /\ Unloaded(q).at = "unloaded"
           \/ q.kind \notin {"uninstall", "reload"} /\ Unloaded(q) = Loaded(q)
BY DEF Unloaded, Moved, Request, Points

LEMMA LoadingFacts ==
    ASSUME NEW q \in Request, NEW e \in Entries, NEW f
    PROVE  \/ (f.loaded \/ f.status = "error") /\ Loading(q, e, f) = Loaded(q)
           \/ /\ ~f.loaded
              /\ Moved(q, Loading(q, e, f))
              /\ Loading(q, e, f).at = "import" /\ Loading(q, e, f).entry = e
BY DEF Loading, Moved, Request, Points

LEMMA UnloadingFacts ==
    ASSUME FieldsOK, NEW q \in Request, NEW e \in Entries
    PROVE  \/ /\ ~(entry[e].loaded /\ entry[e].status = "loaded")
              /\ Unloading(q, e) = Unloaded(q)
           \/ /\ entry[e].loaded /\ entry[e].status = "loaded"
              /\ Moved(q, Unloading(q, e)) /\ Unloading(q, e).at = "cleanup"
              /\ Unloading(q, e).entry = e /\ Unloading(q, e).module = entry[e].module
BY DEF FieldsOK, Entry, Unloading, Moved, Request, Points

-----------------------------------------------------------------------------
\* A step that only moves the request r, to the fields q.
LEMMA RequestMoves ==
    ASSUME IInv, NEW r \in Requests, NEW q \in Request,
           request' = [request EXCEPT ![r] = q],
           UNCHANGED <<plugins, entry, made, pluginRouters, live>>,
           config' \in [Ids -> BOOLEAN], isEnable' \in BOOLEAN,
           overlapped \subseteq overlapped', overlapped' \subseteq Ids,
           Shaped(q),
           request[r].at # "cleanup", q.at # "unborn",
           r = 1 \/ request[1].at # "unborn",
           \A p \in Ids \ overlapped' :
              /\ InHand(r, q, p) /\ Passed(q, p)
              /\ On(q) /\ p \in Of(q) =>
                   \/ On(request[r]) /\ p \in Of(request[r])
                   \/ \A s \in Requests : ~(On(request[s]) /\ p \in Of(request[s]))
    PROVE  IInv'
<1>1. \A s \in Requests : request'[s] = IF s = r THEN q ELSE request[s]
  BY DEF IInv, FieldsOK
<1>2. FieldsOK'
  BY DEF IInv, FieldsOK
<1>3. Shape'
  <2>1. \A s \in Requests : Shaped(request'[s])
    BY <1>1 DEF IInv, Shape
  <2>2. \A s \in Requests : Shaped(request[s])'
    BY <2>1 DEF Shaped, AtWork, On, Of
  <2> QED
    BY <2>2 DEF IInv, Shape
<1>4. LoadedIsLive'
  BY DEF IInv, LoadedIsLive
<1>5. ASSUME NEW p \in Ids \ overlapped' PROVE Orderly(p)'
  <2>1. Orderly(p)
    BY <1>5 DEF IInv
  <2>2. Alone(p)'
    BY <1>1, <1>5, <2>1 DEF Orderly, Alone, On, Of
  <2>3. Tracked(p)'
    BY <2>1 DEF Orderly, Tracked
  <2>4. ASSUME NEW s \in Requests PROVE InHand(s, request[s], p)' /\ Passed(request[s], p)'
    <3>1. CASE s = r
      <4>1. InHand(r, q, p) /\ Passed(q, p)
        BY <1>5
      <4> QED
        BY <1>1, <3>1, <4>1 DEF InHand, Passed, Behind, Closing, NoneLive, AtWork
    <3>2. CASE s # r
      <4>1. InHand(s, request[s], p) /\ Passed(request[s], p)
        BY <2>1 DEF Orderly
      <4> QED
        BY <1>1, <3>2, <4>1 DEF InHand, Passed, Behind, Closing, NoneLive, AtWork
    <3> QED
      BY <3>1, <3>2
  <2>5. Consistent(p)'
    <3>1. \A s \in Requests : request[s].at = "cleanup" => request'[s] = request[s]
      BY <1>1
    <3> QED
      BY <2>1, <3>1 DEF Orderly, Consistent
  <2> QED
    BY <2>2, <2>3, <2>4, <2>5 DEF Orderly
<1>6. Unopened'
  BY <1>1, PluginBoundsAssumption DEF Unopened, Requests
<1> QED
  BY <1>2, <1>3, <1>4, <1>5, <1>6 DEF IInv

-----------------------------------------------------------------------------
(* Entering loadPlugin and unloadPlugin.                                   *)

\* The entry of a plugin.
LEMMA EntryFacts ==
    ASSUME IInv, NEW p \in Ids, plugins[p] # None
    PROVE  /\ plugins[p] \in Entries /\ plugins[p] \in 1 .. made
           /\ entry[plugins[p]] \in Entry /\ entry[plugins[p]].id = p
BY PluginBoundsAssumption DEF IInv, FieldsOK, Shape, Entries

\* An orderly plugin whose entry does not count as loaded has no instance.
LEMMA NotLoadedNoneLive ==
    ASSUME FieldsOK, NEW p \in Ids, Orderly(p),
           plugins[p] # None =>
              ~(entry[plugins[p]].loaded /\ entry[plugins[p]].status = "loaded")
    PROVE  NoneLive(p) /\ (plugins[p] # None => ~entry[plugins[p]].loaded)
<1>1. plugins[p] # None => ~entry[plugins[p]].loaded
  BY DEF Orderly, Consistent
<1>2. ASSUME NEW i \in live, entry[i[2]].id = p PROVE FALSE
  <2>1. plugins[p] = i[2] /\ entry[i[2]].loaded /\ entry[i[2]].module = i
    BY <1>2 DEF Orderly, Tracked
  <2>2. i[2] \in Entries /\ Entries \subseteq Nat
    BY DEF FieldsOK, Instances, Entries
  <2> QED
    BY <1>1, <2>1, <2>2, PluginNoneAssumption
<1> QED
  BY <1>1, <1>2 DEF NoneLive

\* A request that is over.
LEMMA IdleFits ==
    ASSUME NEW r, NEW p
    PROVE  Shaped(Idle) /\ InHand(r, Idle, p) /\ Passed(Idle, p) /\ ~On(Idle)
BY IdleFacts DEF Shaped, InHand, Passed, Behind, Closing, AtWork, On

\* An opening loop, or loadPluginById, enters loadPlugin of p.
LEMMA LoadHere ==
    ASSUME IInv, NEW r, NEW q \in Request, NEW p \in Ids, plugins[p] # None,
           entry[plugins[p]].enable,
           (q.kind = "load" /\ q.id = p) \/ q.kind = "open"
    PROVE  LET x == Loading(q, plugins[p], entry[plugins[p]])
           IN  /\ x \in Request /\ Shaped(x) /\ x.at # "unborn"
               /\ On(x) => Of(x) = Of(q)
               /\ \A p2 \in Ids : InHand(r, x, p2) /\ Passed(x, p2)
<1> DEFINE e == plugins[p]
           x == Loading(q, e, entry[e])
<1>1. e \in Entries /\ e \in 1 .. made /\ entry[e].id = p
  BY EntryFacts
<1>2. p \in Of(q) /\ q.kind \notin {"close", "restart", "uninstall", "reload"}
  BY DEF Of, Loop
<1>3. \/ x = Loaded(q)
      \/ ~entry[e].loaded /\ Moved(q, x) /\ x.at = "import" /\ x.entry = e
  BY <1>1, LoadingFacts
<1> HIDE DEF e, x
<1>4. CASE x = Loaded(q)
  <2>1. CASE Loop(q.kind)
    <3>1. Moved(q, x) /\ x.at = "next"
      BY <1>4, <2>1, LoadedFacts
    <3> QED
      BY <1>2, <2>1, <3>1 DEF Moved, Shaped, InHand, Passed, Behind, Closing, AtWork, On, Of, x, e
  <2>2. CASE ~Loop(q.kind)
    <3>1. x = Idle
      BY <1>4, <2>2, LoadedFacts
    <3> QED
      BY <3>1, IdleFacts, IdleFits DEF x, e
  <2> QED
    BY <2>1, <2>2
<1>5. CASE ~entry[e].loaded /\ Moved(q, x) /\ x.at = "import" /\ x.entry = e
  <2>1. Of(x) = Of(q) /\ x \in Request
    BY <1>5 DEF Moved, Of
  <2>2. Shaped(x)
    BY <1>1, <1>2, <1>5, <2>1 DEF Moved, Shaped, AtWork, On, Of, Loop
  <2>3. \A p2 \in Ids : InHand(r, x, p2) /\ Passed(x, p2)
    BY <1>1, <1>2, <1>5 DEF InHand, Passed, Behind, Closing, e
  <2> QED
    BY <1>5, <2>1, <2>2, <2>3 DEF x, e
<1> QED
  BY <1>3, <1>4, <1>5

\* A request enters unloadPlugin of p.
LEMMA UnloadHere ==
    ASSUME IInv, NEW r, NEW q \in Request, NEW p \in Ids, plugins[p] # None,
           \/ q.kind \in {"unregister", "uninstall", "reload"} /\ q.id = p
           \/ /\ q.kind \in Closing
              /\ \A p2 \in (Ids \ overlapped) \ {p} :
                    p2 \in q.seen /\ plugins[p2] # None => ~entry[plugins[p2]].loaded
    PROVE  LET x == Unloading(q, plugins[p])
           IN  /\ x \in Request /\ Shaped(x) /\ x.at # "unborn"
               /\ On(x) => Of(x) = Of(q)
               /\ \A p2 \in Ids \ overlapped : InHand(r, x, p2) /\ Passed(x, p2)
<1> DEFINE e == plugins[p]
           x == Unloading(q, e)
<1>1. e \in Entries /\ e \in 1 .. made /\ entry[e].id = p
  BY EntryFacts
<1>2. p \in Of(q) /\ (~Loop(q.kind) => q.id = p) /\ (Loop(q.kind) => q.kind \in Closing)
  BY DEF Of, Loop, Closing
<1>3. \/ ~(entry[e].loaded /\ entry[e].status = "loaded") /\ x = Unloaded(q)
      \/ /\ entry[e].loaded /\ entry[e].status = "loaded"
         /\ Moved(q, x) /\ x.at = "cleanup" /\ x.entry = e /\ x.module = entry[e].module
  BY <1>1, UnloadingFacts DEF IInv
<1>4. \A p2 \in Ids \ overlapped : p2 \in q.seen /\ p2 # p /\ q.kind \in Closing /\ plugins[p2] # None
                         => ~entry[plugins[p2]].loaded
  BY DEF Closing
<1>5. p \notin overlapped => Orderly(p)
  BY DEF IInv
<1>6. CASE ~(entry[e].loaded /\ entry[e].status = "loaded") /\ x = Unloaded(q)
  <2>1. p \notin overlapped => NoneLive(p) /\ ~entry[e].loaded
    BY <1>5, <1>6, NotLoadedNoneLive DEF IInv
  <2> HIDE DEF x, e
  <2>2. CASE q.kind \in {"uninstall", "reload"}
    <3>1. Moved(q, x) /\ x.at = "unloaded"
      BY <1>6, <2>2, UnloadedFacts
    <3>2. \A p2 \in Ids \ overlapped : InHand(r, x, p2) /\ Passed(x, p2)
      BY <1>2, <2>1, <2>2, <3>1 DEF Moved, InHand, Passed, Behind, Closing, AtWork, Loop
    <3> QED
      BY <1>2, <2>2, <3>1, <3>2 DEF Moved, Shaped, AtWork, On, Of, Loop, x, e
  <2>3. CASE Loop(q.kind)
    <3>1. Moved(q, x) /\ x.at = "next"
      BY <1>6, <2>3, UnloadedFacts, LoadedFacts DEF Loop
    <3>2. \A p2 \in Ids \ overlapped : InHand(r, x, p2) /\ Passed(x, p2)
      BY <1>2, <1>4, <2>1, <2>3, <3>1 DEF Moved, InHand, Passed, Behind, Closing, AtWork, e
    <3> QED
      BY <1>2, <2>3, <3>1, <3>2 DEF Moved, Shaped, AtWork, On, Of, Loop, x, e
  <2>4. CASE q.kind \notin {"uninstall", "reload"} /\ ~Loop(q.kind)
    <3>1. x = Idle
      BY <1>6, <2>4, UnloadedFacts, LoadedFacts
    <3> QED
      BY <3>1, IdleFacts, IdleFits DEF x, e
  <2> QED
    BY <2>2, <2>3, <2>4
<1>7. CASE /\ entry[e].loaded /\ entry[e].status = "loaded"
           /\ Moved(q, x) /\ x.at = "cleanup" /\ x.entry = e /\ x.module = entry[e].module
  <2>1. x.module \in live /\ x.module \in Instances /\ x.module # None
    BY <1>1, <1>7, PluginNoneAssumption DEF IInv, LoadedIsLive, FieldsOK
  <2>2. x.module[2] = e
    BY <1>1, <1>7, <2>1 DEF IInv, Shape
  <2>3. Of(x) = Of(q) /\ x \in Request
    BY <1>7 DEF Moved, Of
  <2> HIDE DEF x, e
  <2>4. Shaped(x)
    BY <1>1, <1>2, <1>7, <2>1, <2>2, <2>3 DEF Moved, Shaped, AtWork, On, Of
  <2>5. \A p2 \in Ids \ overlapped : InHand(r, x, p2) /\ Passed(x, p2)
    BY <1>1, <1>4, <1>7 DEF Moved, InHand, Passed, Behind, Closing, e
  <2> QED
    BY <1>7, <2>3, <2>4, <2>5 DEF x, e
<1> QED
  BY <1>3, <1>6, <1>7

-----------------------------------------------------------------------------
(* The actions that only move their request.                               *)

\* What the history of overlaps says of a request that begins.
LEMMA BeginFacts ==
    ASSUME IInv, NEW ids \in SUBSET Ids, Begin(ids)
    PROVE  /\ overlapped \subseteq overlapped' /\ overlapped' \subseteq Ids
           /\ \A p \in ids \ overlapped', s \in Requests :
                 ~(On(request[s]) /\ p \in Of(request[s]))
BY DEF IInv, FieldsOK, Begin, Busy, Active, Touches, On, Of

LEMMA ArrivesFacts ==
    ASSUME IInv, NEW r \in Requests, Arrives(r)
    PROVE  request[r].at = "unborn" /\ request[1].at # "unborn"
<1>1. r - 1 \in Requests
  BY PluginBoundsAssumption DEF Arrives, Requests
<1> QED
  BY <1>1 DEF IInv, Arrives, Unopened

\* The fields of a request that begins.
LEMMA StartedFacts ==
    ASSUME FieldsOK, NEW r \in Requests, NEW kind \in Kinds, NEW p \in Ids \union {None}
    PROVE  /\ Started(r, kind, p) \in Request
           /\ Started(r, kind, p).kind = kind /\ Started(r, kind, p).id = p
BY DEF FieldsOK, Started, Request

LEMMA LoadByIdIInv ==
    ASSUME IInv, NEW r \in Requests, NEW p \in Ids, loadPluginById(r, p)
    PROVE  IInv'
<1> DEFINE q == Started(r, "load", p)
           x == IF entry[plugins[p]].enable THEN Loading(q, plugins[p], entry[plugins[p]]) ELSE Idle
<1>1. q \in Request /\ q.kind = "load" /\ q.id = p /\ Of(q) = {p}
  BY StartedFacts DEF Kinds, IInv, Of, Loop
<1> HIDE DEF q
<1>2. /\ x \in Request /\ Shaped(x) /\ x.at # "unborn"
      /\ On(x) => Of(x) = {p}
      /\ \A p2 \in Ids : InHand(r, x, p2) /\ Passed(x, p2)
  BY <1>1, LoadHere, IdleFits, IdleFacts DEF loadPluginById
<1>3. /\ request' = [request EXCEPT ![r] = x]
      /\ UNCHANGED <<plugins, entry, made, pluginRouters, live>>
      /\ config' \in [Ids -> BOOLEAN] /\ isEnable' \in BOOLEAN
  BY DEF loadPluginById, IInv, FieldsOK, q
<1>4. /\ overlapped \subseteq overlapped' /\ overlapped' \subseteq Ids
      /\ \A p2 \in {p} \ overlapped', s \in Requests :
            ~(On(request[s]) /\ p2 \in Of(request[s]))
  BY BeginFacts DEF loadPluginById
<1>5. request[r].at = "unborn" /\ request[1].at # "unborn"
  BY ArrivesFacts DEF loadPluginById
<1> HIDE DEF x
<1> QED
  BY <1>2, <1>3, <1>4, <1>5, RequestMoves

\* unregisterPlugin, reloadPlugin and uninstallPlugin up to unloadPlugin.
LEMMA UnloadFirstIInv ==
    ASSUME IInv, NEW r \in Requests, NEW p \in Ids,
           \/ UnloadFirst(r, p, "unregister")
           \/ UnloadFirst(r, p, "reload")
           \/ uninstallPlugin(r, p)
    PROVE  IInv'
<1> PICK kind \in {"unregister", "reload", "uninstall"} :
        \/ kind # "uninstall" /\ UnloadFirst(r, p, kind)
        \/ kind = "uninstall" /\ uninstallPlugin(r, p)
  OBVIOUS
<1> DEFINE q == Started(r, kind, p)
           x == Unloading(q, plugins[p])
<1>1. q \in Request /\ q.kind = kind /\ q.id = p /\ Of(q) = {p}
  BY StartedFacts DEF Kinds, IInv, Of, Loop
<1>2. /\ plugins[p] # None /\ Arrives(r) /\ Begin({p})
      /\ UNCHANGED <<plugins, entry, made, pluginRouters, config, isEnable, live>>
  BY DEF UnloadFirst, uninstallPlugin
<1>3. request' = [request EXCEPT ![r] = x]
  BY DEF UnloadFirst, uninstallPlugin, Unloading
<1> HIDE DEF q
<1>4. /\ x \in Request /\ Shaped(x) /\ x.at # "unborn"
      /\ On(x) => Of(x) = {p}
      /\ \A p2 \in Ids \ overlapped : InHand(r, x, p2) /\ Passed(x, p2)
  BY <1>1, <1>2, UnloadHere
<1>5. config' \in [Ids -> BOOLEAN] /\ isEnable' \in BOOLEAN
  BY <1>2 DEF IInv, FieldsOK
<1>6. /\ overlapped \subseteq overlapped' /\ overlapped' \subseteq Ids
      /\ \A p2 \in {p} \ overlapped', s \in Requests :
            ~(On(request[s]) /\ p2 \in Of(request[s]))
  BY <1>2, BeginFacts
<1>7. request[r].at = "unborn" /\ request[1].at # "unborn"
  BY <1>2, ArrivesFacts
<1> HIDE DEF x
<1> QED
  BY <1>2, <1>3, <1>4, <1>5, <1>6, <1>7, RequestMoves

LEMMA OpenIInv ==
    ASSUME IInv, NEW r \in Requests, open(r)
    PROVE  IInv'
<1> DEFINE s == Started(r, "open", None)
           x == [s EXCEPT !.at = "scan", !.scanned = config]
<1>1. s \in Request /\ s.kind = "open"
  BY StartedFacts DEF Kinds, IInv
<1>2. request' = [request EXCEPT ![r] = x]
  BY DEF open
<1> HIDE DEF s
<1>3. x \in Request /\ x.kind = "open" /\ x.at = "scan"
  BY <1>1 DEF Request, Points, IInv, FieldsOK
<1>4. /\ UNCHANGED <<plugins, entry, made, pluginRouters, live>>
      /\ config' \in [Ids -> BOOLEAN] /\ isEnable' \in BOOLEAN
      /\ r = 1 /\ request[r].at = "unborn"
  BY DEF open, IInv, FieldsOK
<1>5. /\ overlapped \subseteq overlapped' /\ overlapped' \subseteq Ids
      /\ \A p \in Ids \ overlapped', t \in Requests :
            ~(On(request[t]) /\ p \in Of(request[t]))
  BY BeginFacts DEF open
<1>6. live = {}
  BY <1>4 DEF IInv, Unopened
<1> HIDE DEF x
<1>7. \A p \in Ids : InHand(r, x, p) /\ Passed(x, p)
  BY <1>3, <1>6 DEF InHand, Passed, Behind, Closing, NoneLive, AtWork
<1>8. Shaped(x)
  BY <1>3 DEF Shaped, AtWork, Loop
<1> QED
  BY <1>2, <1>3, <1>4, <1>5, <1>7, <1>8, RequestMoves

LEMMA CloseIInv ==
    ASSUME IInv, NEW r \in Requests, NEW kind \in Closing, close(r, kind)
    PROVE  IInv'
<1> DEFINE s == Started(r, kind, None)
           x == [s EXCEPT !.at = "next", !.seen = {}]
<1>1. s \in Request /\ s.kind = kind
  BY StartedFacts DEF Kinds, Closing, IInv
<1>2. request' = [request EXCEPT ![r] = x]
  BY DEF close
<1> HIDE DEF s
<1>3. x \in Request /\ x.kind = kind /\ x.at = "next" /\ x.seen = {}
  BY <1>1 DEF Request, Points
<1>4. /\ UNCHANGED <<plugins, entry, made, pluginRouters, live>>
      /\ config' \in [Ids -> BOOLEAN] /\ isEnable' \in BOOLEAN
      /\ Arrives(r)
  BY DEF close, IInv, FieldsOK
<1>5. /\ overlapped \subseteq overlapped' /\ overlapped' \subseteq Ids
      /\ \A p \in Ids \ overlapped', t \in Requests :
            ~(On(request[t]) /\ p \in Of(request[t]))
  BY BeginFacts DEF close
<1>6. request[r].at = "unborn" /\ request[1].at # "unborn"
  BY <1>4, ArrivesFacts
<1> HIDE DEF x
<1>7. \A p \in Ids : InHand(r, x, p) /\ Passed(x, p)
  BY <1>3 DEF InHand, Passed, Behind, Closing, AtWork
<1>8. Shaped(x)
  BY <1>3 DEF Shaped, AtWork, Loop, Closing
<1> QED
  BY <1>2, <1>3, <1>4, <1>5, <1>6, <1>7, <1>8, RequestMoves

\* Any request on its way was opened after the manager.
LEMMA OnIsOpened ==
    ASSUME IInv, NEW r \in Requests, request[r].at # "unborn"
    PROVE  request[1].at # "unborn"
BY DEF IInv, Unopened

LEMMA NextEntryIInv ==
    ASSUME IInv, NEW r \in Requests, NEW p \in Ids, NextEntry(r, p)
    PROVE  IInv'
<1> DEFINE o == request[r]
           q == [o EXCEPT !.seen = @ \union {p}]
           x == IF q.kind = "open"
                THEN IF entry[plugins[p]].enable
                     THEN Loading(q, plugins[p], entry[plugins[p]]) ELSE q
                ELSE IF entry[plugins[p]].loaded THEN Unloading(q, plugins[p]) ELSE q
<1>1. /\ o \in Request /\ o.at = "next" /\ plugins[p] # None /\ Loop(o.kind)
      /\ request' = [request EXCEPT ![r] = x]
      /\ UNCHANGED <<plugins, entry, made, pluginRouters, config, isEnable, live, overlapped>>
  BY DEF NextEntry, IInv, FieldsOK, Shape, Shaped
<1>2. /\ q \in Request /\ q.kind = o.kind /\ q.at = "next" /\ q.seen = o.seen \union {p}
      /\ Of(q) = Ids /\ Of(o) = Ids
  BY <1>1 DEF Request, Of
<1>3. \A p2 \in Ids \ overlapped : Orderly(p2) /\ Passed(o, p2)
  BY DEF IInv, Orderly
<1> HIDE DEF q, o
<1>4. \A p2 \in (Ids \ overlapped) \ {p} :
         q.kind \in Closing /\ p2 \in q.seen /\ plugins[p2] # None
            => ~entry[plugins[p2]].loaded
  <2> SUFFICES ASSUME NEW p2 \in Ids \ overlapped, p2 # p, q.kind \in Closing,
                      p2 \in q.seen, plugins[p2] # None
               PROVE  ~entry[plugins[p2]].loaded
    OBVIOUS
  <2>1. Passed(o, p2) /\ p2 \in o.seen /\ o.kind \in Closing /\ o.at = "next"
    BY <1>1, <1>2, <1>3
  <2> QED
    BY <2>1 DEF Passed, Behind, Closing
<1>5. /\ x \in Request /\ Shaped(x) /\ x.at # "unborn" /\ (On(x) => Of(x) = Ids)
      /\ \A p2 \in Ids \ overlapped : InHand(r, x, p2) /\ Passed(x, p2)
  <2>1. CASE q.kind = "open" /\ entry[plugins[p]].enable
    BY <1>1, <1>2, <2>1, LoadHere
  <2>2. CASE q.kind # "open" /\ entry[plugins[p]].loaded
    <3>1. q.kind \in Closing
      BY <1>1, <1>2, <2>2 DEF Loop, Closing
    <3> QED
      BY <1>1, <1>2, <1>4, <2>2, <3>1, UnloadHere
  <2>3. CASE x = q /\ (q.kind # "open" => ~entry[plugins[p]].loaded)
    <3>1. \A p2 \in Ids \ overlapped : InHand(r, q, p2) /\ Passed(q, p2)
      BY <1>1, <1>2, <1>4, <2>3 DEF InHand, Passed, Behind, Closing, AtWork, Closing
    <3> QED
      BY <1>1, <1>2, <2>3, <3>1 DEF Shaped, AtWork
  <2> QED
    BY <2>1, <2>2, <2>3
<1> HIDE DEF x
<1>6. config' \in [Ids -> BOOLEAN] /\ isEnable' \in BOOLEAN /\ overlapped' \subseteq Ids
  BY <1>1 DEF IInv, FieldsOK
<1>7. On(o) /\ request[1].at # "unborn"
  BY <1>1, OnIsOpened DEF On, o
<1> QED
  BY <1>1, <1>2, <1>5, <1>6, <1>7, RequestMoves DEF o

LEMMA LoopEndsIInv ==
    ASSUME IInv, NEW r \in Requests, LoopEnds(r)
    PROVE  IInv'
<1> DEFINE o == request[r]
           opens == o.kind = "restart" /\ ~isEnable
           y == [o EXCEPT !.at = "scan", !.scanned = config, !.seen = {}]
           x == IF opens THEN y ELSE Idle
<1>1. /\ o \in Request /\ o.at = "next" /\ Loop(o.kind)
      /\ request' = [request EXCEPT ![r] = x]
      /\ UNCHANGED <<plugins, entry, made, pluginRouters, config, live, overlapped>>
      /\ isEnable' \in BOOLEAN
      /\ \A p \in Ids : plugins[p] # None => p \in o.seen
  BY DEF LoopEnds, IInv, FieldsOK, Shape, Shaped
<1>2. config' \in [Ids -> BOOLEAN] /\ overlapped' \subseteq Ids /\ config \in [Ids -> BOOLEAN]
  BY <1>1 DEF IInv, FieldsOK
<1> HIDE DEF o
<1>3. y \in Request /\ y.at = "scan" /\ y.kind = o.kind
  BY <1>1, <1>2 DEF Request, Points
<1>4. \A p \in Ids \ overlapped : Orderly(p) /\ Passed(o, p)
  BY DEF IInv, Orderly, o
<1>5. ASSUME opens, NEW p \in Ids \ overlapped PROVE NoneLive(p)
  <2>1. plugins[p] # None => ~entry[plugins[p]].loaded
    <3>1. Passed(o, p) /\ o.kind = "restart" /\ o.at = "next"
      BY <1>1, <1>4, <1>5
    <3>2. plugins[p] # None => p \in o.seen
      BY <1>1
    <3> QED
      BY <3>1, <3>2 DEF Passed, Behind, Closing
  <2> QED
    BY <1>4, <2>1, NotLoadedNoneLive DEF IInv
<1> HIDE DEF y
<1>6. /\ x \in Request /\ Shaped(x) /\ x.at # "unborn" /\ (On(x) => Of(x) = Ids)
      /\ \A p \in Ids \ overlapped : InHand(r, x, p) /\ Passed(x, p)
  <2>1. CASE opens
    <3>1. \A p \in Ids \ overlapped : InHand(r, y, p) /\ Passed(y, p)
      BY <1>3, <1>5, <2>1 DEF InHand, Passed, Behind, Closing, AtWork
    <3> QED
      BY <1>1, <1>3, <2>1, <3>1 DEF Shaped, AtWork, Of
  <2>2. CASE ~opens
    BY <2>2, IdleFits, IdleFacts
  <2> QED
    BY <2>1, <2>2
<1> HIDE DEF x
<1>7. On(o) /\ Of(o) = Ids /\ request[1].at # "unborn"
  BY <1>1, OnIsOpened DEF On, Of, o
<1> QED
  BY <1>1, <1>2, <1>6, <1>7, RequestMoves DEF o

LEMMA GivesUpIInv ==
    ASSUME IInv, NEW r \in Requests, ReloadFails(r) \/ Rejects(r)
    PROVE  IInv'
<1>1. /\ request' = [request EXCEPT ![r] = Idle]
      /\ UNCHANGED <<plugins, entry, made, pluginRouters, config, isEnable, live, overlapped>>
      /\ request[r].at \in {"unloaded", "scan", "import"}
  BY DEF ReloadFails, Rejects
<1>2. /\ config' \in [Ids -> BOOLEAN] /\ isEnable' \in BOOLEAN /\ overlapped' \subseteq Ids
      /\ request[1].at # "unborn"
  BY <1>1, OnIsOpened DEF IInv, FieldsOK
<1> QED
  BY <1>1, <1>2, IdleFits, IdleFacts, RequestMoves

-----------------------------------------------------------------------------
(* The actions that change one plugin.                                     *)

\* A step that changes nothing of any plugin but p0.
Beside(p0) ==
    /\ \A p \in Ids \ {p0} : plugins'[p] = plugins[p] /\ pluginRouters'[p] = pluginRouters[p]
    /\ \A e \in Entries : entry'[e] # entry[e] => entry'[e].id = p0 /\ entry[e].id \in {p0, None}
    /\ \A i \in Instances : entry[i[2]].id # p0 => (i \in live' <=> i \in live)

\* A request that goes on as before, or whose loop over the map has lost ids.
Same(q, q2) ==
    /\ q2.kind = q.kind /\ q2.id = q.id /\ q2.at = q.at
    /\ q2.entry = q.entry /\ q2.module = q.module
    /\ q2.seen \subseteq q.seen

\* What the step leaves behind for p0, which no other request works on.
Leaves(r, q, p0) ==
    /\ Tracked(p0)
    /\ InHand(r, q, p0) /\ Passed(q, p0)
    /\ Consistent(p0)

LEMMA OneStep ==
    ASSUME IInv, NEW r \in Requests, NEW q \in Request, NEW p0 \in Ids,
           FieldsOK', request'[r] = q,
           \A s \in Requests \ {r} : Same(request[s], request'[s]),
           Beside(p0), made <= made', overlapped \subseteq overlapped',
           Shaped(q)', LoadedIsLive',
           \A e \in Entries : entry'[e].module # None => entry'[e].module[2] = e,
           \A e \in 1 .. made' : entry'[e].id \in Ids,
           \A e \in Entries \ (1 .. made') : entry'[e].id = None,
           plugins'[p0] # None => plugins'[p0] <= made' /\ entry'[plugins'[p0]].id = p0,
           \A i \in live' : i[2] <= made',
           request[r].at = "cleanup" => entry[request[r].entry].id = p0,
           q.at # "unborn", request[1].at # "unborn",
           p0 \notin overlapped' =>
              /\ \A s \in Requests \ {r} : ~(On(request[s]) /\ p0 \in Of(request[s]))
              /\ Leaves(r, q, p0)',
           \A p \in (Ids \ overlapped') \ {p0} :
              /\ InHand(r, q, p) /\ Passed(q, p)
              /\ On(q) /\ p \in Of(q) => On(request[r]) /\ p \in Of(request[r])
    PROVE  IInv'
<1>0. /\ made \in Nat /\ made' \in Nat /\ made' <= MaxEntries
      /\ Entries \subseteq Nat /\ Entries = 1 .. MaxEntries /\ MaxEntries \in Nat
      /\ None \notin Ids /\ None \notin Entries
  BY PluginBoundsAssumption, PluginNoneAssumption DEF IInv, FieldsOK, Entries
<1>1. \A e \in Entries : e \in 1 .. made => entry'[e].id = entry[e].id
  BY <1>0 DEF Beside, IInv, Shape
<1>2. Shape'
  <2>1. ASSUME NEW s \in Requests PROVE Shaped(request[s])'
    <3>1. CASE s = r
      BY <3>1 DEF Shaped, AtWork, On, Of
    <3>2. CASE s # r
      <4>1. Shaped(request[s]) /\ Same(request[s], request'[s])
        BY <3>2 DEF IInv, Shape
      <4>2. AtWork(request[s]) => request[s].entry \in 1 .. made' /\ request[s].entry \in Entries
        BY <1>0, <4>1 DEF Shaped, IInv, FieldsOK
      <4> QED
        BY <1>1, <4>1, <4>2 DEF Shaped, Same, AtWork, On, Of
    <3> QED
      BY <3>1, <3>2
  <2>2. ASSUME NEW p \in Ids, plugins'[p] # None
        PROVE  plugins'[p] <= made' /\ entry'[plugins'[p]].id = p
    <3>1. CASE p # p0
      <4>1. plugins'[p] = plugins[p] /\ plugins[p] \in Entries
        BY <2>2, <3>1 DEF Beside, IInv, FieldsOK
      <4>2. plugins[p] <= made /\ entry[plugins[p]].id = p
        BY <2>2, <4>1 DEF IInv, Shape
      <4> QED
        BY <1>0, <1>1, <4>1, <4>2
    <3> QED
      BY <2>2, <3>1
  <2> QED
    BY <2>1, <2>2 DEF Shape
<1>3. Unopened'
  <2>1. 1 \in Requests
    BY PluginBoundsAssumption DEF Requests
  <2> QED
    BY <2>1 DEF Unopened, Same
\* For another plugin, nothing has changed but the requests.
<1>4. ASSUME NEW p \in Ids \ overlapped', p # p0
      PROVE  /\ \A e \in Entries : entry[e].id = p \/ entry'[e].id = p => entry'[e] = entry[e]
             /\ \A i \in Instances :
                   entry'[i[2]].id = p /\ i \in live' => i \in live /\ i[2] \in Entries
             /\ plugins'[p] = plugins[p] /\ pluginRouters'[p] = pluginRouters[p]
             /\ plugins[p] # None => plugins[p] \in Entries /\ entry'[plugins[p]] = entry[plugins[p]]
  <2>1. \A e \in Entries : entry[e].id = p \/ entry'[e].id = p => entry'[e] = entry[e]
    BY <1>0, <1>4 DEF Beside
  <2>2. \A i \in Instances :
           entry'[i[2]].id = p /\ i \in live' => i \in live /\ i[2] \in Entries
    <3>1. \A i \in Instances : i[2] \in Entries
      BY DEF Instances
    <3> QED
      BY <1>4, <2>1, <3>1 DEF Beside
  <2>3. plugins[p] # None => plugins[p] \in Entries /\ entry[plugins[p]].id = p
    BY DEF IInv, Shape, FieldsOK
  <2> QED
    BY <1>4, <2>1, <2>2, <2>3 DEF Beside
<1>5. ASSUME NEW p \in Ids \ overlapped' PROVE Alone(p)'
  <2>1. Alone(p)
    BY <1>5 DEF IInv, Orderly
  <2>2. \A s \in Requests \ {r} : On(request'[s]) = On(request[s]) /\ Of(request'[s]) = Of(request[s])
    BY DEF Same, On, Of
  <2>3. Alone(p)' <=> \A s, t \in Requests :
           On(request'[s]) /\ p \in Of(request'[s]) /\ On(request'[t]) /\ p \in Of(request'[t]) => s = t
    BY DEF Alone, On, Of
  <2>4. CASE p = p0
    BY <1>5, <2>2, <2>3, <2>4
  <2>5. CASE p # p0
    BY <1>5, <2>1, <2>2, <2>3, <2>5 DEF Alone
  <2> QED
    BY <2>4, <2>5
<1>6. ASSUME NEW p \in Ids \ overlapped', p # p0 PROVE Orderly(p)'
  <2>1. Orderly(p)
    BY <1>6 DEF IInv
  <2>2. \A i \in live' : entry'[i[2]].id = p => i \in live /\ entry'[i[2]] = entry[i[2]]
    BY <1>4, <1>6 DEF FieldsOK
  <2>6. Tracked(p)'
    BY <1>4, <1>6, <2>1, <2>2 DEF Orderly, Tracked
  <2>3. NoneLive(p) => NoneLive(p)'
    BY <2>2 DEF NoneLive
  <2>4. ASSUME NEW s \in Requests PROVE InHand(s, request[s], p)' /\ Passed(request[s], p)'
    <3> PICK x : x = request'[s]
      OBVIOUS
    <3>1. x \in Request
      BY DEF FieldsOK
    <3>2. /\ InHand(s, x, p)' <=> InHand(s, request[s], p)'
          /\ Passed(x, p)' <=> Passed(request[s], p)'
      BY DEF InHand, AtWork, Passed, Behind, NoneLive
    <3>3. InHand(s, x, p) /\ Passed(x, p)
      <4>1. CASE s = r
        BY <1>6, <4>1
      <4>2. CASE s # r
        BY <2>1, <4>2 DEF Orderly, Same, InHand, AtWork, Passed, Behind
      <4> QED
        BY <4>1, <4>2
    <3>4. AtWork(x) => x.entry \in Entries
      <4>1. Shaped(x)'
        BY <1>2 DEF Shape, Shaped, AtWork, On, Of
      <4> QED
        BY <1>0, <4>1 DEF Shaped, AtWork
    <3>5. InHand(s, x, p)'
      BY <1>4, <1>6, <3>3, <3>4 DEF InHand, AtWork
    <3>6. Passed(x, p)'
      BY <1>4, <1>6, <2>3, <3>3, <3>4 DEF Passed, Behind, AtWork
    <3> QED
      BY <3>2, <3>5, <3>6
  <2>5. Consistent(p)'
    <3>1. ASSUME NEW s \in Requests, plugins[p] # None,
                 request[s].at = "cleanup", request[s].entry = plugins[p]
          PROVE  request'[s].at = "cleanup" /\ request'[s].entry = plugins[p]
      <4>1. entry[plugins[p]].id = p
        BY <3>1 DEF IInv, Shape
      <4> QED
        BY <1>6, <3>1, <4>1 DEF Same
    <3> QED
      BY <1>4, <1>6, <2>1, <3>1 DEF Orderly, Consistent
  <2> QED
    BY <1>5, <2>6, <2>4, <2>5 DEF Orderly
<1>7. ASSUME p0 \notin overlapped' PROVE Orderly(p0)'
  <2>1. Leaves(r, q, p0)'
    BY <1>7
  <2>2. ASSUME NEW s \in Requests PROVE InHand(s, request[s], p0)' /\ Passed(request[s], p0)'
    <3>1. CASE s = r
      BY <2>1, <3>1 DEF Leaves, InHand, AtWork, Passed, Behind, NoneLive
    <3>2. CASE s # r
      <4>1. ~(On(request[s]) /\ p0 \in Of(request[s])) /\ Same(request[s], request'[s])
        BY <1>7, <3>2
      <4>2. Shaped(request[s])'
        BY <1>2 DEF Shape
      <4>3. ~(On(request'[s]) /\ p0 \in Of(request'[s])) /\ request'[s] \in Request
        BY <4>1 DEF Same, On, Of, FieldsOK
      <4> QED
        BY <4>2, <4>3 DEF Shaped, On, Of, Loop, InHand, AtWork, Passed, Behind, Closing
    <3> QED
      BY <3>1, <3>2
  <2> QED
    BY <1>5, <1>7, <2>1, <2>2 DEF Orderly, Leaves
<1> QED
  BY <1>2, <1>3, <1>6, <1>7 DEF IInv

LEMMA MadeFacts ==
    ASSUME FieldsOK
    PROVE  made \in Nat /\ made <= MaxEntries /\ MaxEntries \in Nat /\ Entries = 1 .. MaxEntries
BY PluginBoundsAssumption DEF FieldsOK, Entries

\* What every action on a request at work starts from.
LEMMA WorkFacts ==
    ASSUME IInv, NEW r \in Requests, AtWork(request[r])
    PROVE  LET q == request[r]
               e == q.entry
               p == entry[e].id
           IN  /\ q \in Request /\ e \in Entries /\ e \in 1 .. made /\ entry[e] \in Entry
               /\ p \in Ids /\ p \in Of(q) /\ Shaped(q) /\ On(q)
               /\ request[1].at # "unborn"
               /\ p \notin overlapped =>
                     /\ Orderly(p) /\ InHand(r, q, p)
                     /\ \A s \in Requests \ {r} : ~(On(request[s]) /\ p \in Of(request[s]))
               /\ \A p2 \in Ids \ overlapped : Passed(q, p2)
<1> DEFINE q == request[r]
           e == q.entry
           p == entry[e].id
<1>1. q \in Request /\ Shaped(q) /\ On(q)
  BY DEF IInv, FieldsOK, Shape, AtWork, On
<1>2. e \in 1 .. made /\ p \in Of(q)
  BY <1>1 DEF Shaped
<1>3. e \in Entries /\ entry[e] \in Entry /\ p \in Ids
  BY <1>2, PluginBoundsAssumption DEF IInv, FieldsOK, Shape, Entries
<1>4. request[1].at # "unborn"
  BY OnIsOpened DEF AtWork
<1>5. \A p2 \in Ids \ overlapped : Orderly(p2) /\ Passed(q, p2) /\ InHand(r, q, p2)
  BY DEF IInv, Orderly
<1>6. p \notin overlapped =>
         \A s \in Requests \ {r} : ~(On(request[s]) /\ p \in Of(request[s]))
  BY <1>1, <1>2, <1>3, <1>5 DEF Orderly, Alone
<1> QED
  BY <1>1, <1>2, <1>3, <1>4, <1>5, <1>6

\* The request back from loadPlugin.
LEMMA BackFromLoad ==
    ASSUME NEW q \in Request, q.at \in {"import", "init"}, Shaped(q), NEW r, NEW p
    PROVE  LET x == Loaded(q)
           IN  /\ x \in Request /\ Shaped(x) /\ x.at # "unborn" /\ ~AtWork(x)
               /\ On(x) => Of(x) = Of(q)
               /\ InHand(r, x, p) /\ Passed(x, p) /\ Shaped(x)'
<1>1. q.kind \notin {"close", "restart"}
  BY DEF Shaped
<1>2. CASE Loop(q.kind)
  <2>1. Moved(q, Loaded(q)) /\ Loaded(q).at = "next"
    BY <1>2, LoadedFacts DEF Moved, Loop
  <2> QED
    BY <1>1, <1>2, <2>1 DEF Moved, Shaped, InHand, Passed, Behind, Closing, AtWork, On, Of
<1>3. CASE ~Loop(q.kind)
  <2>1. Loaded(q) = Idle
    BY <1>3, LoadedFacts
  <2> QED
    BY <2>1, IdleFacts DEF Shaped, InHand, Passed, Behind, Closing, AtWork, On, Of
<1> QED
  BY <1>2, <1>3

\* A request at work that leaves its entry e with the fields f, the router of
\* its plugin p as v, and itself as x.
LEMMA WorkStep ==
    ASSUME IInv, NEW r \in Requests, AtWork(request[r]),
           NEW e, NEW p, NEW x \in Request, NEW f \in Entry,
           NEW v \in Instances \union {None},
           e = request[r].entry, p = entry[e].id, f.id = p,
           request' = [request EXCEPT ![r] = x],
           entry' = [entry EXCEPT ![e] = f],
           pluginRouters' = [pluginRouters EXCEPT ![p] = v],
           UNCHANGED <<plugins, made, config, isEnable, overlapped>>,
           live' \subseteq Instances,
           \A i \in Instances : i[2] # e => (i \in live' <=> i \in live),
           LoadedIsLive',
           f.module # None => f.module[2] = e,
           Shaped(x)', x.at # "unborn", On(x) => Of(x) = Of(request[r]),
           p \notin overlapped => Leaves(r, x, p)',
           \A p2 \in (Ids \ overlapped) \ {p} : InHand(r, x, p2) /\ Passed(x, p2)
    PROVE  IInv'
<1>1. /\ e \in Entries /\ e \in 1 .. made /\ entry[e] \in Entry
      /\ p \in Ids /\ On(request[r]) /\ request[1].at # "unborn"
      /\ p \notin overlapped =>
            \A s \in Requests \ {r} : ~(On(request[s]) /\ p \in Of(request[s]))
  BY WorkFacts
<1>2. /\ entry' \in [Entries -> Entry]
      /\ entry'[e] = f
      /\ \A g \in Entries : entry'[g].id = entry[g].id /\ (g # e => entry'[g] = entry[g])
  BY <1>1 DEF IInv, FieldsOK
<1>3. /\ pluginRouters' \in [Ids -> Instances \union {None}]
      /\ \A p2 \in Ids \ {p} : pluginRouters'[p2] = pluginRouters[p2]
  BY <1>1 DEF IInv, FieldsOK
<1>4. FieldsOK'
  <2>1. request' \in [Requests -> Request]
    BY DEF IInv, FieldsOK
  <2> QED
    BY <1>2, <1>3, <2>1 DEF IInv, FieldsOK
<1>5. \A g \in Entries : entry'[g].module # None => entry'[g].module[2] = g
  BY <1>2 DEF IInv, Shape
<1>6. Beside(p)
  <2>1. \A i \in Instances : entry[i[2]].id # p => i[2] # e
    OBVIOUS
  <2> QED
    BY <1>2, <1>3, <2>1 DEF Beside
<1>7. /\ \A g \in 1 .. made' : entry'[g].id \in Ids
      /\ \A g \in Entries \ (1 .. made') : entry'[g].id = None
      /\ plugins'[p] # None => plugins'[p] <= made' /\ entry'[plugins'[p]].id = p
      /\ \A i \in live' : i[2] <= made'
  <2>1. \A i \in live' : i[2] = e \/ i \in live
    OBVIOUS
  <2> QED
    BY <1>1, <1>2, <2>1, MadeFacts DEF IInv, Shape, FieldsOK
<1>8. /\ request'[r] = x
      /\ \A s \in Requests \ {r} : Same(request[s], request'[s])
      /\ made <= made' /\ overlapped \subseteq overlapped'
  BY MadeFacts DEF IInv, FieldsOK, Same
<1> QED
  BY <1>1, <1>4, <1>5, <1>6, <1>7, <1>8, OneStep

LEMMA ImportedIInv ==
    ASSUME IInv, NEW r \in Requests, NEW valid \in BOOLEAN, Imported(r, valid)
    PROVE  IInv'
<1> PICK q : q = request[r]
  OBVIOUS
<1> PICK e, p : e = q.entry /\ p = entry[e].id
  OBVIOUS
<1> PICK x : x = IF valid THEN [q EXCEPT !.at = "init"] ELSE Loaded(q)
  OBVIOUS
<1> PICK f : f = IF valid THEN entry[e] ELSE [entry[e] EXCEPT !.status = "error", !.module = None]
  OBVIOUS
<1> PICK v : v = IF valid THEN <<r, e>> ELSE pluginRouters[p]
  OBVIOUS
<1>1. /\ q.at = "import" /\ AtWork(q)
      /\ request' = [request EXCEPT ![r] = x]
      /\ UNCHANGED <<plugins, made, config, isEnable, live, overlapped>>
  BY DEF Imported, AtWork
<1>2. /\ q \in Request /\ e \in Entries /\ e \in 1 .. made /\ entry[e] \in Entry
      /\ p \in Ids /\ p \in Of(q) /\ Shaped(q) /\ On(q)
      /\ p \notin overlapped => Orderly(p) /\ InHand(r, q, p)
      /\ \A p2 \in Ids \ overlapped : Passed(q, p2)
  BY <1>1, WorkFacts
<1>3. q.kind \notin Closing
  BY <1>1, <1>2 DEF Shaped, Closing
<1>4. /\ f \in Entry /\ f.id = p /\ f.loaded = entry[e].loaded /\ f.enable = entry[e].enable
      /\ f.status = "loaded" => f = entry[e]
      /\ f.module # None => f = entry[e]
      /\ entry' = [entry EXCEPT ![e] = f]
  BY <1>2 DEF Imported, IInv, FieldsOK, Entry
<1>5. v \in Instances \union {None} /\ pluginRouters' = [pluginRouters EXCEPT ![p] = v]
  <2>1. <<r, e>> \in Instances /\ p \in Ids
    BY <1>2 DEF Instances
  <2>2. pluginRouters \in [Ids -> Instances \union {None}]
    BY DEF IInv, FieldsOK
  <2>3. CASE valid
    BY <2>1, <2>2, <2>3 DEF Imported
  <2>4. CASE ~valid
    BY <2>1, <2>2, <2>4 DEF Imported
  <2> QED
    BY <2>3, <2>4
<1>6. /\ x \in Request /\ x.at # "unborn" /\ (On(x) => Of(x) = Of(q))
      /\ \A p2 \in Ids : p2 # p => InHand(r, x, p2) /\ Passed(x, p2)
      /\ (valid /\ x.at = "init" /\ x.kind = q.kind /\ x.id = q.id /\ x.entry = e) \/ ~AtWork(x)
      /\ Shaped(x)'
  <2>1. CASE valid
    <3>1. /\ x \in Request /\ x.at = "init" /\ x.kind = q.kind /\ x.id = q.id
          /\ x.entry = e /\ x.seen = q.seen
      BY <1>2, <2>1 DEF Request, Points
    <3>2. On(x) /\ Of(x) = Of(q)
      BY <3>1 DEF On, Of
    <3>3. entry' = entry
      BY <2>1 DEF Imported
    <3>4. Shaped(x)'
      BY <1>1, <1>2, <2>1, <3>1, <3>3 DEF Shaped, AtWork, On, Of
    <3>5. \A p2 \in Ids : p2 # p => InHand(r, x, p2) /\ Passed(x, p2)
      BY <1>3, <3>1 DEF InHand, AtWork, Passed, Behind
    <3> QED
      BY <2>1, <3>1, <3>2, <3>4, <3>5
  <2>2. CASE ~valid
    BY <1>1, <1>2, <2>2, BackFromLoad
  <2> QED
    BY <2>1, <2>2
<1>7. p \notin overlapped => NoneLive(p) /\ plugins[p] = e /\ ~entry[e].loaded /\ entry[e].enable
  <2>1. p \notin overlapped => plugins[p] = e /\ ~entry[e].loaded /\ entry[e].enable
    BY <1>1, <1>2 DEF InHand, AtWork
  <2> QED
    BY <1>2, <2>1, NotLoadedNoneLive DEF IInv
<1>8. LoadedIsLive'
  <2>1. \A g \in Entries : entry'[g].status = "loaded" => entry'[g] = entry[g]
    BY <1>2, <1>4 DEF IInv, FieldsOK
  <2> QED
    BY <1>1, <2>1 DEF IInv, LoadedIsLive
<1>9. p \notin overlapped => Leaves(r, x, p)'
  <2> SUFFICES ASSUME p \notin overlapped PROVE Leaves(r, x, p)'
    OBVIOUS
  <2>1. NoneLive(p) /\ plugins[p] = e /\ ~entry[e].loaded /\ entry[e].enable
    BY <1>7
  <2>2. /\ \A g \in Entries : entry'[g].id = entry[g].id
        /\ plugins'[p] = e /\ ~entry'[e].loaded /\ entry'[e].enable
        /\ pluginRouters'[p] = v
    BY <1>1, <1>2, <1>4, <1>5, <2>1 DEF IInv, FieldsOK
  <2>3. NoneLive(p)'
    <3>1. \A i \in live : i[2] \in Entries
      BY DEF IInv, FieldsOK, Instances
    <3> QED
      BY <1>1, <2>1, <2>2, <3>1 DEF NoneLive
  <2>4. InHand(r, x, p)'
    <3>1. CASE ~AtWork(x)
      BY <3>1 DEF InHand, AtWork
    <3>2. CASE x.at = "init" /\ valid /\ x.entry = e
      BY <2>2, <3>2 DEF InHand, AtWork
    <3> QED
      BY <1>6, <3>1, <3>2
  <2>5. Tracked(p)'
    BY <2>3 DEF Tracked, NoneLive
  <2>6. Passed(x, p)' /\ Consistent(p)'
    BY <2>2, <2>3 DEF Passed, Consistent
  <2> QED
    BY <2>4, <2>5, <2>6 DEF Leaves
<1>10. /\ f.module # None => f.module[2] = e
       /\ live' \subseteq Instances /\ \A i \in Instances : i \in live' <=> i \in live
  BY <1>1, <1>2, <1>4 DEF IInv, Shape, FieldsOK
<1>11. /\ AtWork(request[r])
       /\ \A i \in Instances : i[2] # e => (i \in live' <=> i \in live)
       /\ x.at # "unborn" /\ (On(x) => Of(x) = Of(request[r]))
       /\ \A p2 \in (Ids \ overlapped) \ {p} : InHand(r, x, p2) /\ Passed(x, p2)
  BY <1>1, <1>6, <1>10
<1>12. x \in Request /\ Shaped(x)'
  BY <1>6
<1>13. /\ request' = [request EXCEPT ![r] = x]
       /\ UNCHANGED <<plugins, made, config, isEnable, overlapped>>
  BY <1>1
<1> QED
  BY <1>4, <1>5, <1>8, <1>9, <1>10, <1>11, <1>12, <1>13, WorkStep, ZenonT(40)

LEMMA InitialisedIInv ==
    ASSUME IInv, NEW r \in Requests, NEW succeeds \in BOOLEAN, Initialised(r, succeeds)
    PROVE  IInv'
<1> PICK q : q = request[r]
  OBVIOUS
<1> PICK e, p : e = q.entry /\ p = entry[e].id
  OBVIOUS
<1> PICK x : x = Loaded(q)
  OBVIOUS
<1>1. /\ q.at = "init" /\ AtWork(q)
      /\ request' = [request EXCEPT ![r] = x]
      /\ UNCHANGED <<plugins, made, pluginRouters, config, isEnable, overlapped>>
      /\ live' = IF succeeds THEN live \union {<<r, e>>} ELSE live
  BY DEF Initialised, AtWork
<1>2. /\ q \in Request /\ e \in Entries /\ e \in 1 .. made /\ entry[e] \in Entry
      /\ p \in Ids /\ p \in Of(q) /\ Shaped(q)
      /\ p \notin overlapped => Orderly(p) /\ InHand(r, q, p)
  BY <1>1, WorkFacts
<1>3. <<r, e>> \in Instances
  BY <1>2 DEF Instances
<1>4. PICK f \in Entry :
         /\ f.id = p /\ f.enable = entry[e].enable
         /\ f.loaded = succeeds /\ (f.status = "loaded") = succeeds
         /\ f.module = IF succeeds THEN <<r, e>> ELSE None
         /\ entry' = [entry EXCEPT ![e] = f]
  <2> DEFINE g == [entry[e] EXCEPT
                     !.loaded = succeeds,
                     !.status = IF succeeds THEN "loaded" ELSE "error",
                     !.module = IF succeeds THEN <<r, e>> ELSE None]
  <2>1. g \in Entry
    BY <1>2, <1>3 DEF Entry
  <2>2. entry' = [entry EXCEPT ![e] = g]
    BY <1>2 DEF Initialised, IInv, FieldsOK, Entry
  <2>3. /\ g.id = p /\ g.enable = entry[e].enable
        /\ g.loaded = succeeds /\ (g.status = "loaded") = succeeds
        /\ g.module = IF succeeds THEN <<r, e>> ELSE None
    BY <1>2 DEF Entry
  <2> HIDE DEF g
  <2> QED
    BY <2>1, <2>2, <2>3
<1>5. /\ x \in Request /\ x.at # "unborn" /\ ~AtWork(x) /\ (On(x) => Of(x) = Of(request[r]))
      /\ Shaped(x)'
      /\ \A p2 \in Ids : InHand(r, x, p2) /\ Passed(x, p2)
  BY <1>1, <1>2, BackFromLoad
<1>6. p \notin overlapped =>
         /\ NoneLive(p) /\ plugins[p] = e /\ entry[e].enable
         /\ pluginRouters[p] = <<r, e>>
  <2>1. p \notin overlapped =>
           /\ plugins[p] = e /\ ~entry[e].loaded /\ entry[e].enable
           /\ pluginRouters[p] = <<r, e>>
    BY <1>1, <1>2 DEF InHand, AtWork
  <2> QED
    BY <1>2, <2>1, NotLoadedNoneLive DEF IInv
<1>7. /\ entry'[e] = f
      /\ \A g \in Entries : entry'[g].id = entry[g].id /\ (g # e => entry'[g] = entry[g])
  BY <1>2, <1>4 DEF IInv, FieldsOK
<1>8. LoadedIsLive'
  BY <1>1, <1>4, <1>7 DEF IInv, LoadedIsLive
<1>9. p \notin overlapped => Leaves(r, x, p)'
  <2> SUFFICES ASSUME p \notin overlapped PROVE Leaves(r, x, p)'
    OBVIOUS
  <2>1. /\ NoneLive(p) /\ plugins'[p] = e /\ entry'[e].enable
        /\ entry'[e].loaded = succeeds /\ pluginRouters'[p] = <<r, e>>
    BY <1>1, <1>4, <1>6, <1>7
  <2>2. \A i \in live' : entry'[i[2]].id = p => succeeds /\ i = <<r, e>>
    <3>1. \A i \in live : i[2] \in Entries
      BY DEF IInv, FieldsOK, Instances
    <3> QED
      BY <1>1, <1>7, <2>1, <3>1 DEF NoneLive
  <2>3. Tracked(p)'
    <3>1. ASSUME NEW i \in live', entry'[i[2]].id = p
          PROVE  /\ plugins'[p] = i[2] /\ entry'[i[2]].loaded
                 /\ entry'[i[2]].module = i /\ pluginRouters'[p] = i
      <4>1. succeeds /\ i = <<r, e>> /\ i[2] = e
        BY <2>2, <3>1
      <4> QED
        BY <1>4, <1>7, <2>1, <4>1, ZenonT(40)
    <3> QED
      BY <3>1 DEF Tracked
  <2>4. InHand(r, x, p)'
    BY <1>5 DEF InHand, AtWork
  <2>5. Passed(x, p)'
    <3>1. x.kind \notin Closing /\ x.at # "scan" /\ x.at # "unloaded"
      <4>1. CASE Loop(q.kind)
        BY <1>1, <1>2, <4>1, LoadedFacts DEF Moved, Shaped, Closing
      <4>2. CASE ~Loop(q.kind)
        BY <1>2, <4>2, LoadedFacts DEF Idle, Closing
      <4> QED
        BY <4>1, <4>2
    <3> QED
      BY <3>1 DEF Passed, Behind
  <2>6. Consistent(p)'
    BY <1>4, <1>7, <2>1 DEF Consistent
  <2> QED
    BY <2>3, <2>4, <2>5, <2>6 DEF Leaves
<1>10. /\ AtWork(request[r])
       /\ f.module # None => f.module[2] = e
       /\ live' \subseteq Instances
       /\ \A i \in Instances : i[2] # e => (i \in live' <=> i \in live)
  BY <1>1, <1>2, <1>3, <1>4 DEF IInv, FieldsOK
<1>11. PICK v : /\ v \in Instances \union {None}
                /\ pluginRouters' = [pluginRouters EXCEPT ![p] = v]
  <2>1. /\ pluginRouters[p] \in Instances \union {None}
        /\ pluginRouters' = [pluginRouters EXCEPT ![p] = pluginRouters[p]]
    BY <1>1, <1>2 DEF IInv, FieldsOK
  <2> QED
    BY <2>1
<1>12. \A p2 \in (Ids \ overlapped) \ {p} : InHand(r, x, p2) /\ Passed(x, p2)
  BY <1>5
<1>13. /\ request' = [request EXCEPT ![r] = x]
       /\ UNCHANGED <<plugins, made, config, isEnable, overlapped>>
  BY <1>1
<1>14. /\ f \in Entry /\ f.id = p /\ entry' = [entry EXCEPT ![e] = f]
       /\ x \in Request /\ x.at # "unborn" /\ (On(x) => Of(x) = Of(request[r]))
  BY <1>4, <1>5
<1>15. Shaped(x)'
  BY <1>5
<1> QED
  BY <1>8, <1>9, <1>10, <1>11, <1>12, <1>13, <1>14, <1>15, WorkStep, ZenonT(60)

\* The request back from unloadPlugin.
LEMMA BackFromUnload ==
    ASSUME NEW q \in Request, q.at = "cleanup"
    PROVE  LET x == Unloaded(q)
           IN  /\ x \in Request /\ x.at # "unborn" /\ ~AtWork(x)
               /\ On(x) => Of(x) = Of(q) /\ x.kind = q.kind /\ x.id = q.id /\ x.seen = q.seen
               /\ x.at = "next" => Loop(x.kind)
               /\ x.at = "unloaded" => x.kind \in {"uninstall", "reload"}
               /\ x.at # "scan"
<1>1. CASE q.kind \in {"uninstall", "reload"}
  <2>1. Moved(q, Unloaded(q)) /\ Unloaded(q).at = "unloaded"
    BY <1>1, UnloadedFacts
  <2> QED
    BY <1>1, <2>1 DEF Moved, AtWork, On, Of
<1>2. CASE Loop(q.kind)
  <2>1. Moved(q, Unloaded(q)) /\ Unloaded(q).at = "next"
    BY <1>2, UnloadedFacts, LoadedFacts DEF Loop
  <2> QED
    BY <1>2, <2>1 DEF Moved, AtWork, On, Of
<1>3. CASE q.kind \notin {"uninstall", "reload"} /\ ~Loop(q.kind)
  <2>1. Unloaded(q) = Idle
    BY <1>3, UnloadedFacts, LoadedFacts
  <2> QED
    BY <2>1, IdleFacts DEF AtWork, On
<1> QED
  BY <1>1, <1>2, <1>3

LEMMA CleanedUpIInv ==
    ASSUME IInv, NEW r \in Requests, CleanedUp(r)
    PROVE  IInv'
<1> PICK q : q = request[r]
  OBVIOUS
<1> PICK e, p : e = q.entry /\ p = entry[e].id
  OBVIOUS
<1> PICK x : x = Unloaded(q)
  OBVIOUS
<1> PICK f : f = [entry[e] EXCEPT !.loaded = FALSE, !.status = "unloaded", !.module = None]
  OBVIOUS
<1>1. /\ q.at = "cleanup" /\ AtWork(q)
      /\ request' = [request EXCEPT ![r] = x]
      /\ pluginRouters' = [pluginRouters EXCEPT ![p] = None]
      /\ UNCHANGED <<plugins, made, config, isEnable, overlapped>>
      /\ live' = live \ {q.module}
  BY DEF CleanedUp, AtWork
<1>2. /\ q \in Request /\ e \in Entries /\ e \in 1 .. made /\ entry[e] \in Entry
      /\ p \in Ids /\ p \in Of(q) /\ Shaped(q) /\ On(q)
      /\ p \notin overlapped => Orderly(p) /\ InHand(r, q, p)
      /\ \A p2 \in Ids \ overlapped : Passed(q, p2)
  BY <1>1, WorkFacts
<1>3. q.module \in Instances /\ q.module[2] = e
  BY <1>1, <1>2 DEF Shaped
<1>4. /\ f \in Entry /\ f.id = p /\ ~f.loaded /\ f.module = None
      /\ entry' = [entry EXCEPT ![e] = f]
  <2>1. f \in Entry
    BY <1>2 DEF Entry
  <2>2. entry' = [entry EXCEPT ![e] = f]
    BY <1>2 DEF CleanedUp, IInv, FieldsOK, Entry
  <2> QED
    BY <1>2, <2>1, <2>2 DEF Entry
<1>5. /\ entry'[e] = f
      /\ \A g \in Entries : entry'[g].id = entry[g].id /\ (g # e => entry'[g] = entry[g])
  BY <1>2, <1>4 DEF IInv, FieldsOK
<1>6. /\ x \in Request /\ x.at # "unborn" /\ ~AtWork(x)
      /\ On(x) => Of(x) = Of(q) /\ x.kind = q.kind /\ x.id = q.id /\ x.seen = q.seen
      /\ x.at = "next" => Loop(x.kind)
      /\ x.at = "unloaded" => x.kind \in {"uninstall", "reload"}
      /\ x.at # "scan"
  BY <1>1, <1>2, BackFromUnload
<1>7. Shaped(x)'
  BY <1>2, <1>6 DEF Shaped, AtWork, On
<1>8. \A p2 \in (Ids \ overlapped) \ {p} : InHand(r, x, p2) /\ Passed(x, p2)
  <2> SUFFICES ASSUME NEW p2 \in (Ids \ overlapped) \ {p}
               PROVE  InHand(r, x, p2) /\ Passed(x, p2)
    OBVIOUS
  <2>1. Behind(x, p2) => Behind(q, p2)
    BY <1>1, <1>6 DEF Behind, On
  <2>2. x.at = "unloaded" => x.id # p2
    BY <1>2, <1>6 DEF On, Of, Loop
  <2> QED
    BY <1>2, <1>6, <2>1, <2>2 DEF InHand, Passed
<1>9. LoadedIsLive'
  <2>1. \A g \in Entries : entry[g].module # None => entry[g].module[2] = g
    BY DEF IInv, Shape
  <2>2. None \notin live
    BY PluginNoneAssumption DEF IInv, FieldsOK
  <2>3. ASSUME NEW g \in Entries, entry'[g].loaded, entry'[g].status = "loaded"
        PROVE  entry'[g].module \in live'
    <3>1. g # e /\ entry'[g] = entry[g]
      BY <1>4, <1>5, <2>3, ZenonT(40)
    <3>2. entry[g].module \in live
      BY <2>3, <3>1 DEF IInv, LoadedIsLive
    <3>3. entry[g].module[2] = g
      BY <2>1, <2>2, <3>2
    <3> QED
      BY <1>1, <1>3, <3>1, <3>2, <3>3
  <2> QED
    BY <2>3 DEF LoadedIsLive
<1>10. p \notin overlapped => Leaves(r, x, p)'
  <2> SUFFICES ASSUME p \notin overlapped PROVE Leaves(r, x, p)'
    OBVIOUS
  <2>1. plugins'[p] = e /\ ~entry'[e].loaded /\ entry[e].module = q.module /\ plugins[p] = e
    BY <1>1, <1>2, <1>4, <1>5 DEF InHand, AtWork
  <2>2. NoneLive(p)'
    <3>1. \A i \in live : i[2] \in Entries
      BY DEF IInv, FieldsOK, Instances
    <3>2. \A i \in live : entry[i[2]].id = p => i = q.module
      <4>1. Tracked(p)
        BY <1>2 DEF Orderly
      <4>2. \A i \in live : entry[i[2]].id = p => plugins[p] = i[2] /\ entry[i[2]].module = i
        BY <4>1 DEF Tracked
      <4> QED
        BY <2>1, <4>2
    <3> QED
      BY <1>1, <1>5, <3>1, <3>2 DEF NoneLive
  <2>3. Tracked(p)'
    BY <2>2 DEF Tracked, NoneLive
  <2>4. InHand(r, x, p)'
    BY <1>6 DEF InHand, AtWork
  <2>5. Passed(x, p)' /\ Consistent(p)'
    BY <2>1, <2>2 DEF Passed, Consistent
  <2> QED
    BY <2>3, <2>4, <2>5 DEF Leaves
<1>11. /\ AtWork(request[r])
       /\ f.module # None => f.module[2] = e
       /\ live' \subseteq Instances
       /\ \A i \in Instances : i[2] # e => (i \in live' <=> i \in live)
       /\ On(x) => Of(x) = Of(request[r])
  BY <1>1, <1>3, <1>4, <1>6 DEF IInv, FieldsOK
<1>12. /\ request' = [request EXCEPT ![r] = x]
       /\ UNCHANGED <<plugins, made, config, isEnable, overlapped>>
  BY <1>1
<1> QED
  BY <1>1, <1>4, <1>6, <1>7, <1>8, <1>9, <1>10, <1>11, <1>12, WorkStep, ZenonT(40)

\* A request that unloadPlugin has left with more to do.
LEMMA UnloadedHere ==
    ASSUME IInv, NEW r \in Requests, request[r].at = "unloaded"
    PROVE  LET p == request[r].id
           IN  /\ p \in Ids /\ On(request[r]) /\ Of(request[r]) = {p}
               /\ request[1].at # "unborn"
               /\ p \notin overlapped =>
                     /\ NoneLive(p)
                     /\ \A s \in Requests \ {r} : ~(On(request[s]) /\ p \in Of(request[s]))
<1> DEFINE p == request[r].id
<1>1. p \in Ids /\ On(request[r]) /\ Of(request[r]) = {p}
  BY DEF IInv, Shape, Shaped, On, Of, Loop
<1>2. p \notin overlapped => Alone(p) /\ Passed(request[r], p)
  BY <1>1 DEF IInv, Orderly
<1>3. p \notin overlapped => NoneLive(p)
  BY <1>2 DEF Passed
<1>4. p \notin overlapped =>
         \A s \in Requests \ {r} : ~(On(request[s]) /\ p \in Of(request[s]))
  BY <1>1, <1>2 DEF Alone
<1> QED
  BY <1>1, <1>3, <1>4, OnIsOpened

LEMMA UninstalledIInv ==
    ASSUME IInv, NEW r \in Requests, Uninstalled(r)
    PROVE  IInv'
<1> PICK p : p = request[r].id
  OBVIOUS
<1>1. /\ request[r].at = "unloaded"
      /\ plugins' = [plugins EXCEPT ![p] = None]
      /\ request' = [s \in Requests |->
               IF s = r THEN Idle ELSE [request[s] EXCEPT !.seen = @ \ {p}]]
      /\ UNCHANGED <<entry, made, pluginRouters, config, isEnable, live, overlapped>>
  BY DEF Uninstalled
<1>2. /\ p \in Ids /\ request[1].at # "unborn"
      /\ p \notin overlapped =>
            /\ NoneLive(p)
            /\ \A s \in Requests \ {r} : ~(On(request[s]) /\ p \in Of(request[s]))
  BY <1>1, UnloadedHere
<1>3. /\ request' \in [Requests -> Request]
      /\ request'[r] = Idle
      /\ \A s \in Requests \ {r} : Same(request[s], request'[s])
  <2>1. ASSUME NEW s \in Requests
        PROVE  LET x == [request[s] EXCEPT !.seen = @ \ {p}]
               IN  x \in Request /\ Same(request[s], x)
    <3>1. request[s] \in Request
      BY DEF IInv, FieldsOK
    <3> QED
      BY <3>1 DEF Request, Same
  <2> QED
    BY <1>1, <2>1, IdleFacts
<1>4. /\ plugins' \in [Ids -> Entries \union {None}] /\ plugins'[p] = None
      /\ \A p2 \in Ids \ {p} : plugins'[p2] = plugins[p2]
  BY <1>1, <1>2 DEF IInv, FieldsOK
<1>5. FieldsOK'
  BY <1>1, <1>3, <1>4 DEF IInv, FieldsOK
<1>6. Beside(p) /\ made <= made' /\ overlapped \subseteq overlapped'
  BY <1>1, <1>4, MadeFacts DEF Beside, IInv
<1>7. /\ LoadedIsLive'
      /\ \A e \in Entries : entry'[e].module # None => entry'[e].module[2] = e
      /\ \A e \in 1 .. made' : entry'[e].id \in Ids
      /\ \A e \in Entries \ (1 .. made') : entry'[e].id = None
      /\ \A i \in live' : i[2] <= made'
  BY <1>1 DEF IInv, LoadedIsLive, Shape
<1>8. /\ Shaped(Idle)' /\ Idle \in Request /\ ~On(Idle) /\ Idle.at # "unborn"
      /\ request[r].at # "cleanup"
      /\ \A p2 : InHand(r, Idle, p2) /\ Passed(Idle, p2)
  BY <1>1, IdleFacts DEF Shaped, InHand, Passed, Behind, Closing, AtWork, On
<1>9. p \notin overlapped' => Leaves(r, Idle, p)'
  <2> SUFFICES ASSUME p \notin overlapped PROVE Leaves(r, Idle, p)'
    BY <1>1
  <2>1. NoneLive(p)'
    BY <1>1, <1>2 DEF NoneLive
  <2>2. Tracked(p)'
    BY <2>1 DEF Tracked, NoneLive
  <2>3. InHand(r, Idle, p)' /\ Passed(Idle, p)'
    BY IdleFacts DEF InHand, Passed, Behind, Closing, AtWork
  <2>4. Consistent(p)'
    BY <1>4 DEF Consistent
  <2> QED
    BY <2>2, <2>3, <2>4 DEF Leaves
<1>10. /\ plugins'[p] # None => plugins'[p] <= made' /\ entry'[plugins'[p]].id = p
       /\ p \notin overlapped' =>
             \A s \in Requests \ {r} : ~(On(request[s]) /\ p \in Of(request[s]))
       /\ \A p2 \in (Ids \ overlapped') \ {p} :
             /\ InHand(r, Idle, p2) /\ Passed(Idle, p2)
             /\ On(Idle) /\ p2 \in Of(Idle) => On(request[r]) /\ p2 \in Of(request[r])
  BY <1>1, <1>2, <1>4, <1>8
<1> QED
  BY <1>2, <1>3, <1>5, <1>6, <1>7, <1>8, <1>9, <1>10, OneStep

\* loadPluginById or reloadPlugin registers a new entry of p.
LEMMA NewEntryIInv ==
    ASSUME IInv, NEW r \in Requests, NEW q \in Request, NEW p \in Ids,
           q.kind \in {"install", "reload"}, q.id = p,
           NEW f \in Entry, f.id = p, ~f.loaded, f.module = None,
           NewEntry(f),
           plugins' = [plugins EXCEPT ![p] = made + 1],
           request' = [request EXCEPT ![r] = IF f.enable THEN Loading(q, made + 1, f) ELSE Idle],
           UNCHANGED <<pluginRouters, config, isEnable, live>>,
           overlapped \subseteq overlapped', overlapped' \subseteq Ids,
           request[1].at # "unborn", request[r].at # "cleanup",
           p \notin overlapped' =>
              /\ NoneLive(p)
              /\ \A s \in Requests \ {r} : ~(On(request[s]) /\ p \in Of(request[s]))
    PROVE  IInv'
<1> PICK n : n = made + 1
  OBVIOUS
<1>1. /\ n \in Entries /\ made' = n /\ made \in Nat /\ n \notin 1 .. made /\ n \in 1 .. n
      /\ made <= made' /\ Entries \subseteq Nat
      /\ entry' = [entry EXCEPT ![n] = f]
  BY MadeFacts DEF NewEntry, IInv, FieldsOK
<1>2. /\ entry[n].id = None /\ entry' \in [Entries -> Entry] /\ entry'[n] = f
      /\ \A e \in Entries : e # n => entry'[e] = entry[e]
  BY <1>1 DEF IInv, Shape, FieldsOK
<1> PICK x : x = IF f.enable THEN Loading(q, n, f) ELSE Idle
  OBVIOUS
<1>3. \/ x = Idle
      \/ Moved(q, x) /\ x.at = "import" /\ x.entry = n /\ f.enable
  BY <1>1, LoadingFacts, LoadedFacts DEF Loop
<1>4. /\ x \in Request /\ x.at # "unborn" /\ (On(x) => Of(x) = {p})
      /\ x.kind \notin Closing /\ x.at \notin {"scan", "unloaded"}
  BY <1>3, IdleFacts DEF Moved, On, Of, Loop, Closing, Idle
<1>5. Shaped(x)'
  <2>1. CASE x = Idle
    BY <2>1, IdleFacts DEF Shaped, AtWork, On
  <2>2. CASE Moved(q, x) /\ x.at = "import" /\ x.entry = n
    <3>1. p \in Of(x)
      BY <2>2 DEF Moved, Of, Loop
    <3> QED
      BY <1>1, <1>2, <2>2, <3>1 DEF Moved, Shaped, AtWork, On, Of, Loop
  <2> QED
    BY <1>3, <2>1, <2>2
<1>6. /\ request' \in [Requests -> Request] /\ request'[r] = x
      /\ \A s \in Requests \ {r} : Same(request[s], request'[s])
  BY <1>4 DEF IInv, FieldsOK, Same
<1>7. /\ plugins' \in [Ids -> Entries \union {None}] /\ plugins'[p] = n
      /\ \A p2 \in Ids \ {p} : plugins'[p2] = plugins[p2]
  BY <1>1 DEF IInv, FieldsOK
<1>8. FieldsOK'
  <2>1. made' \in 0 .. MaxEntries
    BY <1>1, MadeFacts DEF IInv
  <2> QED
    BY <1>2, <1>6, <1>7, <2>1 DEF IInv, FieldsOK
<1>9. Beside(p)
  BY <1>2, <1>7 DEF Beside
<1>10. \A i \in live : i[2] \in Entries /\ i[2] # n
  BY <1>1 DEF IInv, FieldsOK, Instances, Shape
<1>11. /\ LoadedIsLive'
       /\ \A e \in Entries : entry'[e].module # None => entry'[e].module[2] = e
       /\ \A i \in live' : i[2] <= made'
  <2>1. LoadedIsLive'
    BY <1>2 DEF IInv, LoadedIsLive
  <2>2. \A e \in Entries : entry'[e].module # None => entry'[e].module[2] = e
    BY <1>2 DEF IInv, Shape
  <2>3. ASSUME NEW i \in live' PROVE i[2] <= made'
    <3>1. i \in live /\ i[2] <= made /\ i[2] \in Nat
      BY <1>1, <1>10 DEF IInv, Shape
    <3> QED
      BY <1>1, <3>1
  <2> QED
    BY <2>1, <2>2, <2>3
<1>12. /\ \A e \in 1 .. made' : entry'[e].id \in Ids
       /\ \A e \in Entries \ (1 .. made') : entry'[e].id = None
  <2>1. /\ \A e \in 1 .. made' : e = n \/ (e # n /\ e \in 1 .. made /\ e \in Entries)
        /\ \A e \in Entries \ (1 .. made') : e # n /\ e \in Entries \ (1 .. made)
    BY <1>1, MadeFacts DEF IInv
  <2> QED
    BY <1>2, <2>1 DEF IInv, Shape
<1>13. /\ plugins'[p] # None => plugins'[p] <= made' /\ entry'[plugins'[p]].id = p
       /\ overlapped \subseteq overlapped'
       /\ request[r].at = "cleanup" => entry[request[r].entry].id = p
  BY <1>1, <1>2, <1>7
<1>14. p \notin overlapped' => Leaves(r, x, p)'
  <2> SUFFICES ASSUME p \notin overlapped' PROVE Leaves(r, x, p)'
    OBVIOUS
  <2>1. NoneLive(p)'
    BY <1>2, <1>10 DEF NoneLive
  <2>2. Tracked(p)'
    BY <2>1 DEF Tracked, NoneLive
  <2>3. InHand(r, x, p)'
    BY <1>2, <1>3, <1>7, IdleFacts DEF InHand, AtWork
  <2>4. Passed(x, p)'
    BY <1>4 DEF Passed, Behind
  <2>5. Consistent(p)'
    BY <1>2, <1>7 DEF Consistent
  <2> QED
    BY <2>2, <2>3, <2>4, <2>5 DEF Leaves
<1>15. \A p2 \in (Ids \ overlapped') \ {p} :
          /\ InHand(r, x, p2) /\ Passed(x, p2)
          /\ On(x) /\ p2 \in Of(x) => On(request[r]) /\ p2 \in Of(request[r])
  <2> SUFFICES ASSUME NEW p2 \in (Ids \ overlapped') \ {p}
               PROVE  InHand(r, x, p2) /\ Passed(x, p2) /\ ~(On(x) /\ p2 \in Of(x))
    OBVIOUS
  <2>1. AtWork(x) => entry[x.entry].id # p2
    BY <1>2, <1>3, IdleFacts, PluginNoneAssumption DEF AtWork
  <2> QED
    BY <1>4, <2>1 DEF InHand, Passed, Behind
<1> QED
  BY <1>1, <1>4, <1>5, <1>6, <1>8, <1>9, <1>11, <1>12, <1>13, <1>14, <1>15, OneStep

\* The fields of a new entry.
LEMMA RescannedFacts ==
    ASSUME FieldsOK, NEW p \in Ids, NEW status \in {"unloaded", "error"}
    PROVE  /\ Rescanned(p, status) \in Entry /\ Rescanned(p, status).id = p
           /\ ~Rescanned(p, status).loaded /\ Rescanned(p, status).module = None
BY DEF FieldsOK, Rescanned, Entry

LEMMA InstallIInv ==
    ASSUME IInv, NEW r \in Requests, NEW p \in Ids, NEW status \in {"unloaded", "error"},
           installPlugin(r, p, status)
    PROVE  IInv'
<1> DEFINE q == Started(r, "install", p)
           f == Rescanned(p, status)
<1>1. q \in Request /\ q.kind = "install" /\ q.id = p
  BY StartedFacts DEF Kinds, IInv
<1>2. f \in Entry /\ f.id = p /\ ~f.loaded /\ f.module = None
  BY RescannedFacts DEF IInv
<1>3. /\ NewEntry(f) /\ plugins[p] = None
      /\ plugins' = [plugins EXCEPT ![p] = made + 1]
      /\ request' = [request EXCEPT ![r] = IF f.enable THEN Loading(q, made + 1, f) ELSE Idle]
      /\ UNCHANGED <<pluginRouters, config, isEnable, live>>
  BY DEF installPlugin
<1>4. /\ overlapped \subseteq overlapped' /\ overlapped' \subseteq Ids
      /\ p \notin overlapped' =>
            \A s \in Requests : ~(On(request[s]) /\ p \in Of(request[s]))
  BY BeginFacts DEF installPlugin
<1>5. request[r].at = "unborn" /\ request[1].at # "unborn"
  BY ArrivesFacts DEF installPlugin
<1>6. p \notin overlapped' => NoneLive(p)
  <2>1. p \notin overlapped' => Orderly(p)
    BY <1>4 DEF IInv
  <2> QED
    BY <1>3, <2>1, NotLoadedNoneLive DEF IInv
<1> HIDE DEF q, f
<1> QED
  BY <1>1, <1>2, <1>3, <1>4, <1>5, <1>6, NewEntryIInv

LEMMA ReloadedIInv ==
    ASSUME IInv, NEW r \in Requests, NEW status \in {"unloaded", "error"}, Reloaded(r, status)
    PROVE  IInv'
<1> DEFINE q == request[r]
           p == q.id
           f == Rescanned(p, status)
<1>1. q \in Request /\ q.kind = "reload" /\ q.at = "unloaded"
  BY DEF Reloaded, IInv, FieldsOK
<1>2. /\ p \in Ids /\ request[1].at # "unborn"
      /\ p \notin overlapped =>
            /\ NoneLive(p)
            /\ \A s \in Requests \ {r} : ~(On(request[s]) /\ p \in Of(request[s]))
  BY <1>1, UnloadedHere
<1>3. f \in Entry /\ f.id = p /\ ~f.loaded /\ f.module = None
  BY <1>2, RescannedFacts DEF IInv
<1>4. /\ NewEntry(f)
      /\ plugins' = [plugins EXCEPT ![p] = made + 1]
      /\ request' = [request EXCEPT ![r] = IF f.enable THEN Loading(q, made + 1, f) ELSE Idle]
      /\ UNCHANGED <<pluginRouters, config, isEnable, live, overlapped>>
  BY DEF Reloaded
<1>5. overlapped \subseteq overlapped' /\ overlapped' \subseteq Ids /\ request[r].at # "cleanup"
  BY <1>1, <1>4 DEF IInv, FieldsOK
<1> HIDE DEF f
<1> QED
  BY <1>1, <1>2, <1>3, <1>4, <1>5, NewEntryIInv

LEMMA SetStatusIInv ==
    ASSUME IInv, NEW r \in Requests, NEW p \in Ids,
           NEW enable \in BOOLEAN, NEW saved \in BOOLEAN, setPluginStatus(r, p, enable, saved)
    PROVE  IInv'
<1> PICK e : e = plugins[p]
  OBVIOUS
<1> PICK q : q = Started(r, IF enable THEN "enable" ELSE "disable", p)
  OBVIOUS
<1>1. q \in Request /\ q.kind \in {"enable", "disable"} /\ q.id = p /\ Of(q) = {p}
  BY StartedFacts DEF Kinds, IInv, Of, Loop
<1>2. /\ overlapped \subseteq overlapped' /\ overlapped' \subseteq Ids
      /\ p \notin overlapped' =>
            \A s \in Requests : ~(On(request[s]) /\ p \in Of(request[s]))
  BY BeginFacts DEF setPluginStatus
<1>3. request[r].at = "unborn" /\ request[1].at # "unborn"
  BY ArrivesFacts DEF setPluginStatus
<1>4. /\ UNCHANGED <<plugins, made, pluginRouters, isEnable, live>>
      /\ config' \in [Ids -> BOOLEAN] /\ isEnable' \in BOOLEAN
  BY DEF setPluginStatus, IInv, FieldsOK
<1>5. CASE e = None
  <2>1. request' = [request EXCEPT ![r] = Idle] /\ UNCHANGED entry
    BY <1>5 DEF setPluginStatus
  <2> QED
    BY <1>2, <1>3, <1>4, <2>1, IdleFits, IdleFacts, RequestMoves
<1>6. CASE e # None
  <2> PICK x : x = IF enable /\ ~entry[e].loaded THEN Loading(q, e, entry[e])
                   ELSE IF ~enable /\ entry[e].loaded THEN Unloading(q, e)
                   ELSE Idle
    OBVIOUS
  <2>1. e \in Entries /\ e \in 1 .. made /\ entry[e] \in Entry /\ entry[e].id = p
    BY <1>6, EntryFacts
  <2>2. request' = [request EXCEPT ![r] = x] /\ entry' = [entry EXCEPT ![e].enable = enable]
    BY <1>6 DEF setPluginStatus
  <2>3. /\ entry' \in [Entries -> Entry] /\ entry'[e].enable = enable
        /\ \A g \in Entries :
              /\ entry'[g].id = entry[g].id /\ entry'[g].loaded = entry[g].loaded
              /\ entry'[g].status = entry[g].status /\ entry'[g].module = entry[g].module
              /\ (g # e => entry'[g] = entry[g])
    BY <2>1, <2>2 DEF IInv, FieldsOK, Entry
  <2>4. \/ x = Idle /\ (entry[e].loaded => enable \/ entry[e].status # "loaded")
        \/ Moved(q, x) /\ x.at = "import" /\ x.entry = e /\ ~entry[e].loaded /\ enable
        \/ /\ Moved(q, x) /\ x.at = "cleanup" /\ x.entry = e
           /\ x.module = entry[e].module /\ entry[e].loaded /\ entry[e].status = "loaded"
    <3>1. CASE enable /\ ~entry[e].loaded
      BY <1>1, <2>1, <3>1, LoadingFacts, LoadedFacts DEF Loop
    <3>2. CASE ~enable /\ entry[e].loaded
      <4>1. Unloaded(q) = Idle
        BY <1>1, UnloadedFacts, LoadedFacts DEF Loop
      <4> QED
        BY <1>1, <2>1, <3>2, <4>1, UnloadingFacts DEF IInv
    <3>3. CASE enable /\ entry[e].loaded
      BY <3>3
    <3>4. CASE ~enable /\ ~entry[e].loaded
      BY <3>4
    <3> QED
      BY <3>1, <3>2, <3>3, <3>4
  <2>5. /\ x \in Request /\ x.at # "unborn" /\ (On(x) => Of(x) = {p})
        /\ x.kind \notin Closing /\ x.at \notin {"scan", "unloaded"}
    <3>1. q.kind \notin {"open", "close", "restart"}
      BY <1>1
    <3>2. CASE x = Idle
      <4>1. Idle.kind = "open"
        BY DEF Idle
      <4>2. x \in Request /\ x.at = "done" /\ x.kind = "open"
        BY <3>2, <4>1, IdleFacts
      <4> QED
        BY <4>2 DEF On, Closing
    <3>3. CASE Moved(q, x) /\ x.at \in {"import", "cleanup"}
      <4>1. x \in Request /\ x.kind = q.kind /\ x.id = q.id
        BY <3>3 DEF Moved
      <4>2. Of(x) = {p}
        BY <1>1, <3>1, <4>1 DEF Of, Loop
      <4>3. x.at \notin {"unborn", "scan", "unloaded"}
        BY <3>3
      <4> QED
        BY <3>1, <4>1, <4>2, <4>3 DEF Closing
    <3> QED
      BY <2>4, <3>2, <3>3
  <2>6. x.at = "cleanup" => x.module \in Instances /\ x.module[2] = e
    <3>1. entry[e].loaded /\ entry[e].status = "loaded" =>
             /\ entry[e].module \in live /\ entry[e].module \in Instances
             /\ entry[e].module # None
      BY <2>1, PluginNoneAssumption DEF IInv, LoadedIsLive, FieldsOK
    <3>2. entry[e].module # None => entry[e].module[2] = e
      BY <2>1 DEF IInv, Shape
    <3> QED
      BY <2>4, <3>1, <3>2, IdleFacts
  <2>7. Shaped(x)'
    <3>1. CASE x = Idle
      BY <3>1, IdleFacts DEF Shaped, AtWork, On
    <3>2. CASE Moved(q, x) /\ x.at \in {"import", "cleanup"} /\ x.entry = e
      <4>1. /\ x.kind \notin {"open", "close", "restart"} /\ x.id = p
            /\ x.at \in {"import", "cleanup"} /\ x.entry = e
        BY <1>1, <3>2 DEF Moved
      <4>2. e \in 1 .. made' /\ entry'[e].id = p
        BY <1>4, <2>1, <2>3
      <4>3. Of(x) = {p}
        BY <4>1 DEF Of, Loop
      <4> QED
        BY <2>6, <4>1, <4>2, <4>3 DEF Shaped, AtWork, Loop
    <3> QED
      BY <2>4, <3>1, <3>2
  <2>8. /\ request' \in [Requests -> Request] /\ request'[r] = x
        /\ \A s \in Requests \ {r} : Same(request[s], request'[s])
    BY <2>2, <2>5 DEF IInv, FieldsOK, Same
  <2>9. FieldsOK'
    BY <1>2, <1>4, <2>3, <2>8 DEF IInv, FieldsOK
  <2>10. Beside(p)
    BY <1>4, <2>1, <2>3 DEF Beside
  <2>11. LoadedIsLive'
    BY <1>4, <2>3 DEF IInv, LoadedIsLive
  <2>12. /\ \A g \in Entries : entry'[g].module # None => entry'[g].module[2] = g
         /\ \A g \in Entries \ (1 .. made') : entry'[g].id = None
         /\ \A i \in live' : i[2] <= made'
         /\ plugins'[p] # None => plugins'[p] <= made' /\ entry'[plugins'[p]].id = p
    BY <1>4, <2>1, <2>3 DEF IInv, Shape
  <2>13. made <= made' /\ \A g \in 1 .. made' : entry'[g].id \in Ids
    <3>1. \A g \in 1 .. made : g \in Entries
      BY MadeFacts DEF IInv
    <3> QED
      BY <1>4, <2>3, <3>1, MadeFacts DEF IInv, Shape
  <2>14. p \notin overlapped' => Leaves(r, x, p)'
    <3> SUFFICES ASSUME p \notin overlapped' PROVE Leaves(r, x, p)'
      OBVIOUS
    <3>1. Orderly(p)
      BY <1>2 DEF IInv
    <3>2. Tracked(p)'
      <4>1. \A i \in live : i[2] \in Entries
        BY DEF IInv, FieldsOK, Instances
      <4> QED
        BY <1>4, <2>3, <3>1, <4>1 DEF Orderly, Tracked
    <3>3. InHand(r, x, p)'
      BY <1>4, <2>1, <2>3, <2>4, IdleFacts, ZenonT(40) DEF InHand, AtWork
    <3>4. Passed(x, p)'
      BY <2>5 DEF Passed, Behind
    <3>5. Consistent(p)'
      <4>1. entry[e].loaded => entry[e].status = "loaded"
        BY <1>6, <3>1 DEF Orderly, Consistent
      <4>2. entry[e].loaded /\ ~enable => request'[r].at = "cleanup" /\ request'[r].entry = e
        BY <2>4, <2>8, <4>1
      <4> QED
        BY <1>4, <2>1, <2>3, <4>1, <4>2 DEF Consistent
    <3> QED
      BY <3>2, <3>3, <3>4, <3>5 DEF Leaves
  <2>15. \A p2 \in (Ids \ overlapped') \ {p} :
            /\ InHand(r, x, p2) /\ Passed(x, p2)
            /\ On(x) /\ p2 \in Of(x) => On(request[r]) /\ p2 \in Of(request[r])
    <3> SUFFICES ASSUME NEW p2 \in (Ids \ overlapped') \ {p}
                 PROVE  InHand(r, x, p2) /\ Passed(x, p2) /\ ~(On(x) /\ p2 \in Of(x))
      OBVIOUS
    <3>1. AtWork(x) => entry[x.entry].id # p2
      BY <2>1, <2>4, IdleFacts DEF AtWork
    <3> QED
      BY <2>5, <3>1 DEF InHand, Passed, Behind
  <2>16. /\ request[r].at = "cleanup" => entry[request[r].entry].id = p
         /\ p \notin overlapped' =>
               \A s \in Requests \ {r} : ~(On(request[s]) /\ p \in Of(request[s]))
    BY <1>2, <1>3
  <2> QED
    BY <1>2, <1>3, <2>5, <2>7, <2>8, <2>9, <2>10, <2>11, <2>12, <2>13, <2>14, <2>15, <2>16, OneStep
<1> QED
  BY <1>5, <1>6

-----------------------------------------------------------------------------
(* The scan, which replaces every entry.                                   *)

\* The entries a scan makes can be numbered.
LEMMA NumberFacts ==
    ASSUME NEW found \in SUBSET Ids
    PROVE  LET N == Cardinality(found)
               Number == CHOOSE n \in Bijection(found, 1 .. N) : TRUE
           IN  /\ N \in Nat
               /\ \A p \in found : Number[p] \in 1 .. N
               /\ \A x, y \in found : Number[x] = Number[y] => x = y
               /\ \A k \in 1 .. N : \E p \in found : Number[p] = k
<1> DEFINE N == Cardinality(found)
           Number == CHOOSE n \in Bijection(found, 1 .. N) : TRUE
<1>1. IsFiniteSet(found)
  BY PluginIdsAssumption, FS_Subset
<1>2. N \in Nat /\ ExistsBijection(1 .. N, found)
  BY <1>1, FS_CardinalityType
<1> HIDE DEF N
<1>3. ExistsBijection(found, 1 .. N)
  BY <1>2, Fun_ExistsBijSymmetric
<1>4. Number \in Bijection(found, 1 .. N)
  BY <1>3 DEF ExistsBijection
<1> HIDE DEF Number
<1>5. /\ Number \in [found -> 1 .. N]
      /\ \A x, y \in found : Number[x] = Number[y] => x = y
      /\ \A k \in 1 .. N : \E p \in found : Number[p] = k
  BY <1>4 DEF Bijection, Injection, Surjection, IsInjective
<1> QED
  BY <1>2, <1>5 DEF N, Number

LEMMA ScannedIInv ==
    ASSUME IInv, NEW r \in Requests, NEW found \in SUBSET Ids, Scanned(r, found)
    PROVE  IInv'
<1> DEFINE N == Cardinality(found)
           Number == CHOOSE n \in Bijection(found, 1 .. N) : TRUE
<1> PICK q : q = request[r]
  OBVIOUS
<1>1. /\ N \in Nat
      /\ \A p \in found : Number[p] \in 1 .. N
      /\ \A x, y \in found : Number[x] = Number[y] => x = y
      /\ \A k \in 1 .. N : \E p \in found : Number[p] = k
  BY NumberFacts
<1>2. /\ q.at = "scan" /\ made + N <= MaxEntries /\ made' = made + N
      /\ plugins' = [p \in Ids |-> IF p \in found THEN made + Number[p] ELSE None]
      /\ entry' = [e \in Entries |->
               IF \E p \in found : e = made + Number[p]
               THEN LET p == CHOOSE x \in found : e = made + Number[x]
                    IN  [Rescanned(p, "unloaded") EXCEPT !.enable = q.scanned[p]]
               ELSE entry[e]]
      /\ request' = [s \in Requests |->
               IF s = r THEN [Idle EXCEPT !.at = "next"]
               ELSE [request[s] EXCEPT !.seen = {}]]
      /\ UNCHANGED <<pluginRouters, config, isEnable, live, overlapped>>
  BY DEF Scanned
<1> HIDE DEF N, Number
<1>3. /\ made \in Nat /\ MaxEntries \in Nat /\ Entries = 1 .. MaxEntries /\ Entries \subseteq Nat
      /\ None \notin Entries /\ None \notin Ids
  BY MadeFacts, PluginNoneAssumption DEF IInv
\* The new entries are those above made.
<1>4. ASSUME NEW e \in Entries
      PROVE  /\ (e <= made \/ made' < e) => entry'[e] = entry[e]
             /\ made < e /\ e <= made' =>
                   /\ entry'[e] \in Entry /\ ~entry'[e].loaded /\ entry'[e].module = None
                   /\ \E p \in found : e = made + Number[p] /\ entry'[e].id = p
  <2>1. e \in Nat
    BY <1>3
  <2>2. CASE e <= made \/ made' < e
    <3>1. ASSUME NEW p \in found, e = made + Number[p] PROVE FALSE
      <4>1. Number[p] \in Nat /\ 1 <= Number[p] /\ Number[p] <= N
        BY <1>1
      <4> QED
        BY <1>1, <1>2, <1>3, <2>1, <2>2, <3>1, <4>1
    <3>2. entry'[e] = entry[e]
      BY <1>2, <3>1
    <3> QED
      BY <1>1, <1>2, <1>3, <2>1, <2>2, <3>2
  <2>3. CASE made < e /\ e <= made'
    <3>1. e - made \in 1 .. N
      BY <1>1, <1>2, <1>3, <2>1, <2>3
    <3>2. PICK p \in found : Number[p] = e - made
      BY <1>1, <3>1
    <3>3. e = made + Number[p]
      BY <1>3, <2>1, <3>2
    <3>4. (CHOOSE x \in found : e = made + Number[x]) = p
      <4>1. \A x \in found : e = made + Number[x] => x = p
        BY <1>1, <1>3, <3>3
      <4> QED
        BY <3>3, <4>1
    <3>5. entry'[e] = [Rescanned(p, "unloaded") EXCEPT !.enable = q.scanned[p]]
      BY <1>2, <3>3, <3>4
    <3>6. q.scanned[p] \in BOOLEAN
      BY DEF IInv, FieldsOK, Request
    <3>7. Rescanned(p, "unloaded") \in Entry
      BY RescannedFacts DEF IInv
    <3>8. /\ entry'[e] \in Entry /\ ~entry'[e].loaded /\ entry'[e].module = None
          /\ entry'[e].id = p
      BY <3>5, <3>6, <3>7 DEF Entry, Rescanned
    <3>9. ~(e <= made \/ made' < e)
      BY <1>1, <1>2, <1>3, <2>1, <2>3
    <3> QED
      BY <3>3, <3>8, <3>9
  <2> QED
    BY <2>2, <2>3
<1>5. \A e \in Entries : e <= made \/ made' < e \/ (made < e /\ e <= made')
  BY <1>1, <1>2, <1>3
<1>6. ASSUME NEW p \in Ids, plugins'[p] # None
      PROVE  /\ plugins'[p] \in Entries /\ made < plugins'[p] /\ plugins'[p] <= made'
             /\ entry'[plugins'[p]].id = p /\ ~entry'[plugins'[p]].loaded
  <2>1. p \in found /\ plugins'[p] = made + Number[p]
    BY <1>2, <1>6
  <2>2. /\ plugins'[p] \in Entries /\ made < plugins'[p] /\ plugins'[p] <= made'
    BY <1>1, <1>2, <1>3, <2>1
  <2>3. PICK x \in found : plugins'[p] = made + Number[x] /\ entry'[plugins'[p]].id = x
    BY <1>4, <2>2
  <2>4. x = p
    BY <1>1, <1>3, <2>1, <2>3
  <2> QED
    BY <1>4, <2>2, <2>3, <2>4
<1> PICK x : x = [Idle EXCEPT !.at = "next"]
  OBVIOUS
<1>7. x \in Request /\ x.at = "next" /\ x.kind = "open"
  BY IdleFacts DEF Idle, Request, Points
<1>8. /\ request' \in [Requests -> Request] /\ request'[r] = x
      /\ \A s \in Requests \ {r} : Same(request[s], request'[s])
  <2>1. ASSUME NEW s \in Requests
        PROVE  LET y == [request[s] EXCEPT !.seen = {}]
               IN  y \in Request /\ Same(request[s], y)
    <3>1. request[s] \in Request
      BY DEF IInv, FieldsOK
    <3> QED
      BY <3>1 DEF Request, Same
  <2> QED
    BY <1>2, <1>7, <2>1
<1>9. FieldsOK'
  <2>1. entry' \in [Entries -> Entry]
    <3>1. \A e \in Entries : entry'[e] \in Entry
      BY <1>4, <1>5 DEF IInv, FieldsOK
    <3> QED
      BY <1>2, <3>1
  <2>2. plugins' \in [Ids -> Entries \union {None}]
    BY <1>2, <1>6
  <2>3. made' \in 0 .. MaxEntries
    BY <1>1, <1>2, <1>3
  <2> QED
    BY <1>2, <1>8, <2>1, <2>2, <2>3 DEF IInv, FieldsOK
<1>10. \A e \in Entries : e \in 1 .. made => entry'[e] = entry[e]
  BY <1>3, <1>4
<1>11. Shape'
  <2>1. ASSUME NEW s \in Requests PROVE Shaped(request[s])'
    <3>1. CASE s = r
      BY <1>7, <1>8, <3>1 DEF Shaped, AtWork, On, Of, Loop
    <3>2. CASE s # r
      <4>1. Shaped(request[s]) /\ Same(request[s], request'[s])
        BY <1>8, <3>2 DEF IInv, Shape
      <4>2. AtWork(request[s]) => request[s].entry \in 1 .. made' /\ request[s].entry \in Entries
        BY <1>1, <1>2, <1>3, <4>1 DEF Shaped, IInv, FieldsOK
      <4> QED
        BY <1>10, <4>1, <4>2 DEF Shaped, Same, AtWork, On, Of
    <3> QED
      BY <3>1, <3>2
  <2>2. \A e \in Entries : entry'[e].module # None => entry'[e].module[2] = e
    <3>1. \A e \in Entries : entry'[e].module # None => entry'[e] = entry[e]
      BY <1>4, <1>5
    <3> QED
      BY <3>1 DEF IInv, Shape
  <2>3. \A e \in 1 .. made' : entry'[e].id \in Ids
    <3> SUFFICES ASSUME NEW e \in 1 .. made' PROVE entry'[e].id \in Ids
      OBVIOUS
    <3>1. e \in Entries /\ (e \in 1 .. made \/ made < e)
      BY <1>1, <1>2, <1>3
    <3>2. CASE e \in 1 .. made
      BY <1>10, <3>1, <3>2 DEF IInv, Shape
    <3>3. CASE made < e
      BY <1>4, <3>1, <3>3
    <3> QED
      BY <3>1, <3>2, <3>3
  <2>4. \A e \in Entries \ (1 .. made') : entry'[e].id = None
    <3> SUFFICES ASSUME NEW e \in Entries \ (1 .. made') PROVE entry'[e].id = None
      OBVIOUS
    <3>1. made' < e /\ e \notin 1 .. made
      BY <1>1, <1>2, <1>3
    <3> QED
      BY <1>4, <3>1 DEF IInv, Shape
  <2>5. \A i \in live' : i[2] <= made'
    <3> SUFFICES ASSUME NEW i \in live PROVE i[2] <= made'
      BY <1>2
    <3>1. i[2] <= made /\ i[2] \in Nat
      BY <1>3 DEF IInv, Shape, FieldsOK, Instances
    <3> QED
      BY <1>1, <1>2, <1>3, <3>1
  <2> QED
    BY <1>6, <2>1, <2>2, <2>3, <2>4, <2>5 DEF Shape
<1>12. Unopened'
  <2>1. 1 \in Requests /\ request[1].at # "unborn"
    BY <1>2, OnIsOpened, PluginBoundsAssumption DEF Requests
  <2> QED
    BY <1>7, <1>8, <2>1 DEF Unopened, Same
<1>13. LoadedIsLive'
  <2>1. \A e \in Entries : entry'[e].loaded => entry'[e] = entry[e]
    BY <1>4, <1>5
  <2>2. ASSUME NEW e \in Entries, entry'[e].loaded, entry'[e].status = "loaded"
        PROVE  entry'[e].module \in live'
    <3>1. entry'[e] = entry[e]
      BY <2>1, <2>2
    <3>2. entry[e].module \in live
      BY <2>2, <3>1 DEF IInv, LoadedIsLive
    <3>3. live' = live
      BY <1>2
    <3> QED
      BY <3>1, <3>2, <3>3
  <2> QED
    BY <2>2 DEF LoadedIsLive
<1>14. On(q) /\ Of(q) = Ids
  BY <1>2 DEF IInv, Shape, Shaped, On, Of
<1>15. ASSUME NEW p \in Ids \ overlapped' PROVE Orderly(p)'
  <2>1. Orderly(p)
    BY <1>2, <1>15 DEF IInv
  <2>2. \A s \in Requests \ {r} : ~(On(request'[s]) /\ p \in Of(request'[s]))
    <3>1. \A s \in Requests \ {r} : ~(On(request[s]) /\ p \in Of(request[s]))
      BY <1>14, <2>1 DEF Orderly, Alone
    <3> QED
      BY <1>8, <3>1 DEF Same, On, Of
  <2>3. NoneLive(p)'
    <3>1. NoneLive(p)
      BY <1>2, <2>1 DEF Orderly, Passed
    <3>2. \A i \in live : i[2] \in Entries /\ i[2] \in 1 .. made
      BY <1>3 DEF IInv, Shape, FieldsOK, Instances
    <3> QED
      BY <1>2, <1>10, <3>1, <3>2 DEF NoneLive
  <2>4. Alone(p)'
    BY <2>2 DEF Alone, On, Of
  <2>5. Tracked(p)'
    BY <2>3 DEF Tracked, NoneLive
  <2>6. Consistent(p)'
    BY <1>6 DEF Consistent
  <2>7. ASSUME NEW s \in Requests PROVE InHand(s, request[s], p)' /\ Passed(request[s], p)'
    <3>1. CASE s = r
      BY <1>7, <1>8, <3>1 DEF InHand, AtWork, Passed, Behind, Closing
    <3>2. CASE s # r
      <4>1. Shaped(request[s])' /\ request'[s] \in Request
        BY <1>9, <1>11 DEF Shape, FieldsOK
      <4>2. ~(On(request'[s]) /\ p \in Of(request'[s]))
        BY <2>2, <3>2
      <4> QED
        BY <4>1, <4>2 DEF Shaped, On, Of, Loop, InHand, AtWork, Passed, Behind, Closing
    <3> QED
      BY <3>1, <3>2
  <2> QED
    BY <2>4, <2>5, <2>6, <2>7 DEF Orderly
<1> QED
  BY <1>9, <1>11, <1>12, <1>13, <1>15 DEF IInv

-----------------------------------------------------------------------------
(* The invariant, and what it says.                                        *)

LEMMA InitIInv == Init => IInv
<1> SUFFICES ASSUME Init PROVE IInv
  OBVIOUS
<1> DEFINE x == [Idle EXCEPT !.at = "unborn"]
<1>1. x \in Request /\ x.at = "unborn" /\ ~On(x) /\ ~AtWork(x)
  BY IdleFacts DEF Request, Points, On, AtWork
<1> HIDE DEF x
<1>2. /\ \A r \in Requests : request[r] = x
      /\ \A e \in Entries : /\ entry[e].id = None /\ entry[e].module = None
                             /\ ~entry[e].loaded
      /\ \A p \in Ids : plugins[p] = None
      /\ made = 0 /\ live = {}
  BY DEF Init, x
<1>3. FieldsOK
  <2>1. /\ plugins \in [Ids -> Entries \union {None}]
        /\ entry \in [Entries -> Entry]
        /\ pluginRouters \in [Ids -> Instances \union {None}]
        /\ config \in [Ids -> BOOLEAN] /\ isEnable \in BOOLEAN
    BY DEF Init, Entry
  <2>2. request \in [Requests -> Request]
    BY <1>1 DEF Init, x
  <2>3. made \in 0 .. MaxEntries /\ live \subseteq Instances /\ overlapped \subseteq Ids
    BY PluginBoundsAssumption DEF Init
  <2> QED
    BY <2>1, <2>2, <2>3 DEF FieldsOK
<1>4. Shape
  BY <1>1, <1>2 DEF Shape, Shaped, On, AtWork
<1>5. Unopened /\ LoadedIsLive
  BY <1>1, <1>2 DEF Unopened, LoadedIsLive
<1>6. \A p \in Ids : Orderly(p)
  BY <1>1, <1>2 DEF Orderly, Alone, On, Tracked, InHand, AtWork, Passed, Behind, Consistent
<1> QED
  BY <1>3, <1>4, <1>5, <1>6 DEF IInv

LEMMA NextIInv == IInv /\ [Next]_vars => IInv'
<1> SUFFICES ASSUME IInv, [Next]_vars PROVE IInv'
  OBVIOUS
<1>1. ASSUME NEW r \in Requests, Calls(r) PROVE IInv'
  <2>1. ASSUME NEW p \in Ids, NEW enable \in BOOLEAN, NEW saved \in BOOLEAN,
               setPluginStatus(r, p, enable, saved)
        PROVE  IInv'
    BY <2>1, SetStatusIInv
  <2>2. ASSUME NEW p \in Ids, loadPluginById(r, p) PROVE IInv'
    BY <2>2, LoadByIdIInv
  <2>3. ASSUME NEW p \in Ids, NEW status \in {"unloaded", "error"}, installPlugin(r, p, status)
        PROVE  IInv'
    BY <2>3, InstallIInv
  <2>4. ASSUME NEW p \in Ids, unregisterPlugin(r, p) \/ reloadPlugin(r, p) \/ uninstallPlugin(r, p)
        PROVE  IInv'
    BY <2>4, UnloadFirstIInv DEF unregisterPlugin, reloadPlugin
  <2>5. ASSUME open(r) PROVE IInv'
    BY <2>5, OpenIInv
  <2>6. ASSUME NEW kind \in {"close", "restart"}, close(r, kind) PROVE IInv'
    BY <2>6, CloseIInv DEF Closing
  <2> QED
    BY <1>1, <2>1, <2>2, <2>3, <2>4, <2>5, <2>6 DEF Calls
<1>2. ASSUME NEW r \in Requests, Continues(r) PROVE IInv'
  <2>1. ASSUME NEW found \in SUBSET Ids, Scanned(r, found) PROVE IInv'
    BY <2>1, ScannedIInv
  <2>2. ASSUME NEW p \in Ids, NextEntry(r, p) PROVE IInv'
    BY <2>2, NextEntryIInv
  <2>3. ASSUME NEW valid \in BOOLEAN, Imported(r, valid) PROVE IInv'
    BY <2>3, ImportedIInv
  <2>4. ASSUME NEW succeeds \in BOOLEAN, Initialised(r, succeeds) PROVE IInv'
    BY <2>4, InitialisedIInv
  <2>5. ASSUME NEW status \in {"unloaded", "error"}, Reloaded(r, status) PROVE IInv'
    BY <2>5, ReloadedIInv
  <2> QED
    BY <1>2, <2>1, <2>2, <2>3, <2>4, <2>5,
       LoopEndsIInv, CleanedUpIInv, UninstalledIInv, GivesUpIInv DEF Continues
<1>3. CASE UNCHANGED manager
  <2> USE <1>3 DEF manager
  <2>1. FieldsOK'
    BY DEF IInv, FieldsOK
  <2>2. Shape'
    BY DEF IInv, Shape, Shaped, On, Of, AtWork
  <2>3. Unopened' /\ LoadedIsLive'
    BY DEF IInv, Unopened, LoadedIsLive
  <2>4. ASSUME NEW p \in Ids \ overlapped' PROVE Orderly(p)'
    <3>1. Orderly(p)
      BY <2>4 DEF IInv
    <3>2. Alone(p)' /\ Tracked(p)' /\ Consistent(p)'
      BY <3>1 DEF Orderly, Alone, On, Of, Tracked, Consistent
    <3>3. \A r \in Requests : (InHand(r, request[r], p) /\ Passed(request[r], p))'
      BY <3>1 DEF Orderly, InHand, AtWork, Passed, Behind, NoneLive
    <3> QED
      BY <3>2, <3>3 DEF Orderly
  <2> QED
    BY <2>1, <2>2, <2>3, <2>4 DEF IInv
<1>4. UNCHANGED vars \/ onEvent \/ (\E h \in handling : SecondHook(h) \/ Handled(h))
         => UNCHANGED manager
  BY DEF vars, onEvent, SecondHook, Handled
<1> QED
  BY <1>1, <1>2, <1>3, <1>4 DEF Next

LEMMA SpecIInv == Spec => []IInv
BY InitIInv, NextIInv, PTL DEF Spec

-----------------------------------------------------------------------------
(* Events.                                                                 *)

DispatchOK == arrived \in 0 .. MaxEvents /\ handling \subseteq Handler

LEMMA DispatchStep == DispatchOK /\ [Next]_vars => DispatchOK'
<1> SUFFICES ASSUME DispatchOK, [Next]_vars PROVE DispatchOK'
  OBVIOUS
<1>1. CASE UNCHANGED dispatch
  BY <1>1 DEF dispatch, DispatchOK
<1>2. CASE onEvent
  BY <1>2, PluginEventsAssumption DEF onEvent, DispatchOK
<1>3. ASSUME NEW h \in handling, SecondHook(h) PROVE DispatchOK'
  <2>1. h \in Handler
    BY DEF DispatchOK
  <2>2. [h EXCEPT !.hook = "plugin_onmessage"] \in Handler
    BY <2>1 DEF Handler, Hooks
  <2> QED
    BY <1>3, <2>2 DEF SecondHook, DispatchOK
<1>4. ASSUME NEW h \in handling, Handled(h) PROVE DispatchOK'
  BY <1>4 DEF Handled, DispatchOK
<1> QED
  BY <1>1, <1>2, <1>3, <1>4 DEF Next, Calls, Continues, vars

LEMMA SpecDispatchOK == Spec => []DispatchOK
<1>1. Init => DispatchOK
  BY PluginEventsAssumption DEF Init, DispatchOK
<1> QED
  BY <1>1, DispatchStep, PTL DEF Spec

\* An event is given to live instances only, and misses none of an orderly
\* plugin.
LEMMA EventReaches ==
    ASSUME IInv, DispatchOK, onEvent
    PROVE  ReachesLive
<1>1. arrived \in Nat /\ arrived + 1 \in 1 .. MaxEvents /\ arrived' = arrived + 1
  BY PluginEventsAssumption DEF onEvent, DispatchOK
<1>2. handling' = handling \union
         {h \in Handler : /\ h.event = arrived + 1 /\ h.module \in Receivers
                          /\ h.hook \in FirstHook(h.module, arrived + 1)}
  BY DEF onEvent
<1>3. Receivers \subseteq live
  <2> SUFFICES ASSUME NEW p \in Ids, Receives(p) PROVE entry[plugins[p]].module \in live
    BY DEF Receivers
  <2>1. plugins[p] \in Entries
    BY DEF Receives, IInv, FieldsOK
  <2> QED
    BY <2>1 DEF Receives, IInv, LoadedIsLive
<1>4. \A h \in handling' \ handling : h.module \in live
  BY <1>2, <1>3
<1>5. ASSUME NEW i \in live, entry[i[2]].id \notin overlapped, "plugin_onevent" \in hooks[i]
      PROVE  \E h \in handling' : h.event = arrived' /\ h.module = i
  <2>1. i \in Instances /\ i[2] \in Entries /\ i[2] \in 1 .. made /\ i # None
    BY PluginNoneAssumption DEF IInv, FieldsOK, Shape, Instances, Entries
  <2>2. PICK p \in Ids \ overlapped : p = entry[i[2]].id
    BY <1>5, <2>1 DEF IInv, Shape
  <2>3. /\ plugins[p] = i[2] /\ entry[i[2]].loaded /\ entry[i[2]].module = i
        /\ plugins[p] # None /\ entry[i[2]].status = "loaded"
    <3>1. Tracked(p) /\ Consistent(p)
      BY <2>2 DEF IInv, Orderly
    <3>2. plugins[p] = i[2] /\ entry[i[2]].loaded /\ entry[i[2]].module = i
      BY <2>2, <3>1 DEF Tracked
    <3>3. i[2] # None
      BY <2>1, PluginNoneAssumption DEF Entries
    <3> QED
      BY <3>1, <3>2, <3>3 DEF Consistent
  <2>4. i \in Receivers
    BY <2>1, <2>3 DEF Receivers, Receives
  <2>5. PICK h : h = [event |-> arrived + 1, module |-> i, hook |-> "plugin_onevent"]
    OBVIOUS
  <2>6. h \in Handler /\ h.event = arrived + 1 /\ h.module = i /\ h.hook = "plugin_onevent"
    BY <1>1, <2>1, <2>5 DEF Handler, Hooks
  <2>7. h.hook \in FirstHook(i, arrived + 1)
    BY <1>5, <2>6 DEF FirstHook
  <2> QED
    BY <1>1, <1>2, <2>4, <2>6, <2>7
<1> QED
  BY <1>4, <1>5 DEF ReachesLive

LEMMA StepReaches == IInv /\ DispatchOK /\ [Next]_vars => [ReachesLive]_vars
<1> SUFFICES ASSUME IInv, DispatchOK, [Next]_vars PROVE ReachesLive \/ UNCHANGED vars
  OBVIOUS
<1>1. CASE UNCHANGED dispatch
  BY <1>1 DEF dispatch, ReachesLive
<1>2. CASE onEvent
  BY <1>2, EventReaches
<1>3. ASSUME NEW h \in handling, SecondHook(h) PROVE ReachesLive
  <2>1. h \in Handler /\ h.hook = "plugin_onevent" /\ arrived' = arrived
    BY <1>3 DEF SecondHook, DispatchOK
  <2>2. PICK g : g = [h EXCEPT !.hook = "plugin_onmessage"]
    OBVIOUS
  <2>3. [g EXCEPT !.hook = "plugin_onevent"] = h
    BY <2>1, <2>2 DEF Handler
  <2>4. handling' \ handling \subseteq {g}
    BY <1>3, <2>2 DEF SecondHook
  <2> QED
    BY <2>1, <2>3, <2>4 DEF ReachesLive
<1>4. ASSUME NEW h \in handling, Handled(h) PROVE ReachesLive
  BY <1>4 DEF Handled, ReachesLive
<1> QED
  BY <1>1, <1>2, <1>3, <1>4 DEF Next, Calls, Continues, vars

\* Every field keeps its type: entries, requests, routers and handlers.
THEOREM ManagerTypes == Spec => []TypeOK
<1>1. IInv /\ DispatchOK => TypeOK
  BY DEF IInv, DispatchOK, TypeOK
<1> QED
  BY <1>1, SpecIInv, SpecDispatchOK, PTL

\* However requests overlap, an event that arrives is given to instances that
\* are alive, and to all of a plugin on which no two requests have worked at
\* once (getLoadedPlugins); later methods of the event go to instances that
\* were alive when it arrived (callPluginEventHandler).
THEOREM EventsAlwaysReachLive == Spec => EventsReachLive
BY SpecIInv, SpecDispatchOK, StepReaches, PTL DEF Spec, EventsReachLive

\* Of a plugin on which no two requests have worked at once, no instance is
\* ever lost or doubled (loadPlugin, unloadPlugin, reloadPlugin).
THEOREM InstancesAlwaysTracked == Spec => []InstancesTracked
<1>1. IInv => InstancesTracked
  BY DEF IInv, Orderly, Tracked, InstancesTracked
<1> QED
  BY <1>1, SpecIInv, PTL

\* Left alone, such a plugin runs only if it is enabled (setPluginStatus,
\* loadPluginById, scanAndLoadPlugins).
THEOREM LoadedAlwaysEnabled == Spec => []LoadedIsEnabled
<1>1. IInv => LoadedIsEnabled
  <2> SUFFICES ASSUME IInv, NEW p \in Ids \ overlapped, ~Busy(p), plugins[p] # None,
                      entry[plugins[p]].loaded, ~entry[plugins[p]].enable
               PROVE  FALSE
    BY DEF LoadedIsEnabled
  <2>1. PICK r \in Requests : request[r].at = "cleanup" /\ request[r].entry = plugins[p]
    BY DEF IInv, Orderly, Consistent
  <2>2. Shaped(request[r]) /\ entry[plugins[p]].id = p
    BY DEF IInv, Shape
  <2>3. p \in Of(request[r])
    BY <2>1, <2>2 DEF Shaped, AtWork
  <2> QED
    BY <2>1, <2>3 DEF Busy, Active, Touches, Of
<1> QED
  BY <1>1, SpecIInv, PTL
=============================================================================
