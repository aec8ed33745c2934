---------------------------- MODULE NetworkProofs ----------------------------
(* The network adapters: the WebSocket client for every set of urls and    *)
(* heartbeat intervals and any number of sockets, and what a saved         *)
(* configuration does to the adapter map, for any lists, names, endpoints. *)
EXTENDS WsClient, NetworkReload, TLAPS

(* The interval that runs is the one that heartbeatRef holds.              *)
HeartbeatHeld == heartbeatRef = IF isEnable THEN config.heartInterval ELSE 0

IInv == TypeOK /\ LiveIsTracked /\ NeverStranded /\ OneHeartbeat /\ HeartbeatHeld

Quiet == [h \in HeartIntervals |-> 0]
Beating(length) == [h \in HeartIntervals |-> IF h = length THEN 1 ELSE 0]

-----------------------------------------------------------------------------
(* What the helpers do to the intervals and to the sockets.                *)

\* Clearing the held interval leaves none running.
LEMMA ClearedIsQuiet ==
    ASSUME IInv
    PROVE  WithoutHeartbeat = Quiet
<1>1. config.heartInterval \in HeartIntervals \union {0}
  BY DEF IInv, TypeOK, Configs
<1>2. ASSUME NEW h \in HeartIntervals PROVE h \in Nat \ {0}
  BY <1>2, HeartAssumption
<1>3. CASE isEnable
  <2>1. heartbeatRef = config.heartInterval
    BY <1>3 DEF IInv, HeartbeatHeld
  <2>2. intervals = Beating(heartbeatRef)
    BY <1>3, <2>1 DEF IInv, OneHeartbeat, Beating
  <2>3. CASE heartbeatRef > 0
    BY <2>1, <2>2, <2>3, <1>1, <1>2 DEF WithoutHeartbeat, Quiet, Beating
  <2>4. CASE ~(heartbeatRef > 0)
    BY <2>1, <2>2, <2>4, <1>1, <1>2 DEF WithoutHeartbeat, Quiet, Beating
  <2> QED
    BY <2>3, <2>4
<1>4. CASE ~isEnable
  BY <1>4 DEF IInv, OneHeartbeat, HeartbeatHeld, WithoutHeartbeat, Quiet
<1> QED
  BY <1>3, <1>4

\* Starting one of a configured length when none runs leaves that one.
LEMMA StartedIsOne ==
    ASSUME NEW length \in HeartIntervals \union {0}, StartHeartbeat(length, Quiet)
    PROVE  intervals' = Beating(length) /\ heartbeatRef' = length
<1>1. ASSUME NEW h \in HeartIntervals PROVE h \in Nat \ {0}
  BY <1>1, HeartAssumption
<1> QED
  BY <1>1 DEF StartHeartbeat, Quiet, Beating

\* Hanging up leaves no live socket but those the adapter had lost before.
LEMMA HangUpEndsLive ==
    ASSUME IInv
    PROVE  /\ HangUp \in [Sockets -> SockStates]
           /\ ~overtaken => \A s \in Sockets : HangUp[s] \notin {"connecting", "open"}
BY DEF IInv, TypeOK, LiveIsTracked, Live, HangUp, SockStates

\* Dialling adds at most one live socket, the new connection.
LEMMA DialAddsOne ==
    ASSUME NEW url \in Urls,
           NEW socks \in [Sockets -> SockStates],
           Dial(url, socks)
    PROVE  /\ connection' \in Sockets \union {0}
           /\ sock' \in [Sockets -> SockStates]
           /\ connection' = 0 => url \in BadUrls
           /\ (\A s \in Sockets : socks[s] \notin {"connecting", "open"})
                => \A s \in Sockets : sock'[s] \in {"connecting", "open"} => s = connection'
<1> DEFINE next == 1 + Cardinality({s \in Sockets : socks[s] # "none"})
<1>1. 0 \notin Sockets
  BY DEF Sockets
<1>2. \/ url \in BadUrls /\ connection' = 0 /\ sock' = socks
      \/ /\ next \in Sockets
         /\ connection' = next
         /\ sock' = [socks EXCEPT ![next] = "connecting"]
  BY DEF Dial
<1> HIDE DEF next
<1> QED
  BY <1>1, <1>2 DEF SockStates

\* Without an interval running, the present one is that of no heartbeat.
LEMMA ClosedIsQuiet ==
    ASSUME IInv, ~isEnable
    PROVE  intervals = Quiet
BY DEF IInv, OneHeartbeat, Quiet

-----------------------------------------------------------------------------
LEMMA InitIInv == Init => IInv
<1> SUFFICES ASSUME Init PROVE IInv
  OBVIOUS
<1>1. 1 \in Sockets /\ 0 \notin Sockets
  BY SocketsAssumption DEF Sockets
<1>2. config \in Configs
  BY DEF Init
<1>3. TypeOK
  BY <1>1, <1>2 DEF Init, TypeOK, Configs, SockStates
<1>4. LiveIsTracked
  BY <1>1 DEF Init, LiveIsTracked, Live
<1>5. NeverStranded
  BY DEF Init, NeverStranded
<1>6. OneHeartbeat /\ HeartbeatHeld
  BY DEF Init, OneHeartbeat, HeartbeatHeld
<1> QED
  BY <1>3, <1>4, <1>5, <1>6 DEF IInv

\* The cases of reload.
LEMMA ReloadIInv ==
    ASSUME IInv, NEW new \in Configs, reload(new)
    PROVE  IInv'
<1>1. /\ new.url \in Urls /\ new.enable \in BOOLEAN
      /\ new.heartInterval \in HeartIntervals \union {0}
  BY DEF Configs
<1>2. config' = new /\ reconnects' = reconnects /\ overtaken' = overtaken
  BY DEF reload
<1>3. TypeOK /\ LiveIsTracked /\ NeverStranded /\ OneHeartbeat /\ HeartbeatHeld
  BY DEF IInv
<1>4. [h \in HeartIntervals |-> 0] \in [HeartIntervals -> Nat]
  OBVIOUS
<1>5. CASE ReloadOpens(new)
  <2>1. isEnable' /\ ~isEnable /\ isEnable' \in BOOLEAN
    BY <1>5 DEF ReloadOpens, open
  <2>2. intervals' = Beating(new.heartInterval) /\ heartbeatRef' = new.heartInterval
    BY <1>5, <2>1, <1>1, ClosedIsQuiet, StartedIsOne DEF ReloadOpens, open
  <2>3. connection = 0 /\ sock \in [Sockets -> SockStates]
    BY <2>1, <1>3 DEF TypeOK
  <2>4. 0 \notin Sockets
    BY DEF Sockets
  <2>5. ~overtaken => \A s \in Sockets : sock[s] \notin {"connecting", "open"}
    BY <2>3, <2>4, <1>3 DEF LiveIsTracked, Live
  <2>6. Dial(new.url, sock)
    BY <1>5 DEF ReloadOpens, open
  <2>7. /\ connection' \in Sockets \union {0}
        /\ sock' \in [Sockets -> SockStates]
        /\ connection' = 0 => new.url \in BadUrls
        /\ ~overtaken => \A s \in Sockets : sock'[s] \in {"connecting", "open"} => s = connection'
    BY <2>3, <2>5, <2>6, <1>1, DialAddsOne
  <2> QED
    BY <2>1, <2>2, <2>7, <1>1, <1>2, <1>3
    DEF IInv, TypeOK, LiveIsTracked, Live, NeverStranded, OneHeartbeat, HeartbeatHeld, Beating
<1>6. CASE ReloadCloses(new)
  <2>1. isEnable' = FALSE /\ connection' = 0 /\ sock' = HangUp
    BY <1>6 DEF ReloadCloses, close
  <2>2. intervals' = Beating(0) /\ heartbeatRef' = 0
    BY <1>6, ClearedIsQuiet, StartedIsOne DEF ReloadCloses, close
  <2>3. ASSUME NEW h \in HeartIntervals PROVE h # 0
    BY <2>3, HeartAssumption
  <2> QED
    BY <2>1, <2>2, <2>3, <1>1, <1>2, <1>3, HangUpEndsLive
   , ZenonT(40) DEF IInv, TypeOK, LiveIsTracked, Live, NeverStranded, OneHeartbeat, HeartbeatHeld, Beating
<1>7. CASE ReloadRedials(new)
  <2>1. isEnable' = TRUE /\ Dial(new.url, HangUp)
    BY <1>7 DEF ReloadRedials, Redial
  <2>2. intervals' = Beating(new.heartInterval) /\ heartbeatRef' = new.heartInterval
    BY <1>7, <1>1, ClearedIsQuiet, StartedIsOne DEF ReloadRedials, Redial
  <2>3. /\ connection' \in Sockets \union {0}
        /\ sock' \in [Sockets -> SockStates]
        /\ connection' = 0 => new.url \in BadUrls
        /\ ~overtaken => \A s \in Sockets : sock'[s] \in {"connecting", "open"} => s = connection'
    BY <2>1, <1>1, HangUpEndsLive, DialAddsOne
  <2> QED
    BY <2>1, <2>2, <2>3, <1>1, <1>2, <1>3
    DEF IInv, TypeOK, LiveIsTracked, Live, NeverStranded, OneHeartbeat, HeartbeatHeld, Beating
<1>8. CASE ReloadHeartbeat(new)
  <2>1. /\ isEnable /\ new.url = config.url
        /\ isEnable' = isEnable /\ connection' = connection /\ sock' = sock
    BY <1>8 DEF ReloadHeartbeat
  <2>2. intervals' = Beating(new.heartInterval) /\ heartbeatRef' = new.heartInterval
    BY <1>8, <1>1, ClearedIsQuiet, StartedIsOne DEF ReloadHeartbeat
  <2> QED
    BY <2>1, <2>2, <1>1, <1>2, <1>3
    DEF IInv, TypeOK, LiveIsTracked, Live, NeverStranded, OneHeartbeat, HeartbeatHeld, Beating
<1>9. CASE ReloadStaysClosed(new)
  <2>1. /\ ~isEnable
        /\ UNCHANGED <<isEnable, connection, sock, heartbeatRef, intervals>>
    BY <1>9 DEF ReloadStaysClosed
  <2> QED
    BY <2>1, <1>1, <1>2, <1>3
    DEF IInv, TypeOK, LiveIsTracked, Live, NeverStranded, OneHeartbeat, HeartbeatHeld
<1> QED
  BY <1>5, <1>6, <1>7, <1>8, <1>9 DEF reload

\* A socket event that is handled as a loss.  A live socket that is not the
\* connection, or one that was hung up, makes `overtaken` true.
LEMMA LossIInv ==
    ASSUME IInv, NEW s \in Sockets, NEW after \in SockStates \ {"connecting", "open"},
           sock[s] \in {"connecting", "aborting", "open", "closing"},
           sock' = [sock EXCEPT ![s] = after],
           Lost(s),
           UNCHANGED <<config, isEnable, heartbeatRef, intervals>>
    PROVE  IInv'
<1>1. TypeOK /\ LiveIsTracked /\ NeverStranded /\ OneHeartbeat /\ HeartbeatHeld
  BY DEF IInv
<1>2. TypeOK'
  BY <1>1 DEF TypeOK, Lost
<1>3. LiveIsTracked'
  <2> SUFFICES ASSUME ~overtaken', NEW t \in Sockets, sock'[t] \in {"connecting", "open"}
               PROVE  t = connection'
    BY DEF LiveIsTracked, Live
  <2>1. t # s /\ sock[t] \in {"connecting", "open"} /\ ~overtaken
    BY <1>1 DEF TypeOK, Lost
  <2>2. t = connection
    BY <2>1, <1>1 DEF LiveIsTracked, Live
  <2>3. CASE isEnable
    <3>1. sock[s] \notin {"aborting", "closing"}
      BY <2>3 DEF Lost
    <3>2. s = connection
      BY <3>1, <2>1, <1>1 DEF LiveIsTracked, Live
    <3> QED
      BY <3>2, <2>1, <2>2
  <2>4. CASE ~isEnable
    BY <2>2, <2>4 DEF Lost
  <2> QED
    BY <2>3, <2>4
<1>4. NeverStranded'
  BY <1>1 DEF TypeOK, NeverStranded, Lost
<1>5. OneHeartbeat' /\ HeartbeatHeld'
  BY <1>1 DEF OneHeartbeat, HeartbeatHeld
<1> QED
  BY <1>2, <1>3, <1>4, <1>5 DEF IInv

\* The timer dials only when there is neither a connection nor, by
\* LiveIsTracked, a live socket.
LEMMA TimerIInv ==
    ASSUME IInv, ReconnectTimer
    PROVE  IInv'
<1>1. TypeOK /\ LiveIsTracked /\ NeverStranded /\ OneHeartbeat /\ HeartbeatHeld
  BY DEF IInv
<1>2. /\ reconnects' \in Nat
      /\ UNCHANGED <<config, isEnable, heartbeatRef, intervals, overtaken>>
  BY <1>1 DEF ReconnectTimer, TypeOK
<1>3. config.url \in Urls /\ 0 \notin Sockets
  BY <1>1 DEF TypeOK, Configs, Sockets
<1>4. CASE connection = 0 /\ isEnable
  <2>1. Dial(config.url, sock) /\ sock \in [Sockets -> SockStates]
    BY <1>1, <1>4 DEF ReconnectTimer, TypeOK
  <2>2. ~overtaken => \A s \in Sockets : sock[s] \notin {"connecting", "open"}
    BY <1>1, <1>3, <1>4 DEF LiveIsTracked, Live
  <2>3. /\ connection' \in Sockets \union {0}
        /\ sock' \in [Sockets -> SockStates]
        /\ connection' = 0 => config.url \in BadUrls
        /\ ~overtaken => \A s \in Sockets : sock'[s] \in {"connecting", "open"} => s = connection'
    BY <2>1, <2>2, <1>3, DialAddsOne
  <2> QED
    BY <2>3, <1>1, <1>2, <1>4
    DEF IInv, TypeOK, LiveIsTracked, Live, NeverStranded, OneHeartbeat, HeartbeatHeld
<1>5. CASE ~(connection = 0 /\ isEnable)
  <2>1. UNCHANGED <<connection, sock>>
    BY <1>5 DEF ReconnectTimer
  <2> QED
    BY <2>1, <1>1, <1>2, <1>5
    DEF IInv, TypeOK, LiveIsTracked, Live, NeverStranded, OneHeartbeat, HeartbeatHeld
<1> QED
  BY <1>4, <1>5

LEMMA NextIInv == IInv /\ [Next]_vars => IInv'
<1> SUFFICES ASSUME IInv, [Next]_vars PROVE IInv'
  OBVIOUS
<1>1. ASSUME NEW new \in Configs, reload(new) PROVE IInv'
  BY <1>1, ReloadIInv
<1>2. ASSUME NEW s \in Sockets, Opened(s) PROVE IInv'
  <2>1. sock'[s] = "open" /\ sock[s] = "connecting" /\ sock' \in [Sockets -> SockStates]
    BY <1>2 DEF Opened, IInv, TypeOK, SockStates
  <2>2. Live' = Live
    BY <1>2, <2>1 DEF Opened, Live, IInv, TypeOK
  <2> QED
    BY <1>2, <2>1, <2>2
    DEF Opened, IInv, TypeOK, LiveIsTracked, NeverStranded, OneHeartbeat, HeartbeatHeld
<1>3. ASSUME NEW s \in Sockets, ConnectFails(s) PROVE IInv'
  BY <1>3, LossIInv DEF ConnectFails, SockStates
<1>4. ASSUME NEW s \in Sockets, ErrorEvent(s) PROVE IInv'
  BY <1>4, LossIInv DEF ErrorEvent, SockStates
<1>5. ASSUME NEW s \in Sockets, CloseEvent(s) PROVE IInv'
  BY <1>5, LossIInv DEF CloseEvent, SockStates
<1>6. ASSUME NEW s \in Sockets, CloseAfterError(s) PROVE IInv'
  <2>1. sock' \in [Sockets -> SockStates] /\ Live' \subseteq Live
    BY <1>6 DEF CloseAfterError, IInv, TypeOK, SockStates, Live
  <2> QED
    BY <1>6, <2>1
    DEF CloseAfterError, IInv, TypeOK, LiveIsTracked, NeverStranded, OneHeartbeat, HeartbeatHeld
<1>7. CASE ReconnectTimer
  BY <1>7, TimerIInv
<1>8. CASE UNCHANGED vars
  BY <1>8 DEF vars, IInv, TypeOK, LiveIsTracked, Live, NeverStranded, OneHeartbeat, HeartbeatHeld
<1> QED
  BY <1>1, <1>2, <1>3, <1>4, <1>5, <1>6, <1>7, <1>8 DEF Next

-----------------------------------------------------------------------------
(* The states of the adapter stay well formed; in particular an adapter    *)
(* that close() left has no connection that an old event could revive.     *)
THEOREM ClientTypes == Spec => []TypeOK
<1>1. IInv => TypeOK
  BY DEF IInv
<1> QED
  BY InitIInv, NextIInv, <1>1, PTL DEF Spec

(* As long as no event of a socket that close() hung up was handled as a   *)
(* loss, the adapter knows every live socket.                              *)
THEOREM ClientTracksSockets == Spec => []LiveIsTracked
<1>1. IInv => LiveIsTracked
  BY DEF IInv
<1> QED
  BY InitIInv, NextIInv, <1>1, PTL DEF Spec

(* An enabled adapter without a connection has a reconnect timer, whatever *)
(* events of old sockets and reloads came before.                          *)
THEOREM ClientNeverStranded == Spec => []NeverStranded
<1>1. IInv => NeverStranded
  BY DEF IInv
<1> QED
  BY InitIInv, NextIInv, <1>1, PTL DEF Spec

(* One heartbeat timer, of the configured interval, runs exactly while the *)
(* adapter is enabled and wants one.                                       *)
THEOREM ClientOneHeartbeat == Spec => []OneHeartbeat
<1>1. IInv => OneHeartbeat
  BY DEF IInv
<1> QED
  BY InitIInv, NextIInv, <1>1, PTL DEF Spec
-----------------------------------------------------------------------------
(* How saved configurations reach the adapters (NetworkReload), whichever  *)
(* of them fail to open.                                                   *)

\* A name a finished change has settled: its adapter agrees with its entry,
\* and is missing only if nothing need be open or the change moved it up.
Settled(n) ==
    /\ Exists(n) => /\ adapters[n].class = now[n].list
                    /\ adapters[n].config = now[n]
                    /\ IsOpen(n) <=> ShouldBeOpen(n)
    /\ ~Exists(n) => ~ShouldBeOpen(n) \/ n \in moved

\* What the tasks of a change have to do with the configuration: present
\* entries are applied in their list; a name is recycled for a list it left,
\* and applied later, unless it left every list or moved up; what is opened
\* again is there and wanted.
TasksFit ==
    \A t \in todo :
        /\ t.do # "recycle" => t.list = now[t.name].list
        /\ t.do = "reopen" => Exists(t.name) /\ now[t.name].enable
        /\ t.do = "recycle" =>
              /\ t.name \in touched
              /\ t.list # now[t.name].list
              /\ \/ now[t.name] = None
                 \/ t.name \in moved
                 \/ \E s \in todo : s.do = "apply" /\ s.name = t.name /\ Before(t, s)

Waiting(n, what) == \E t \in todo : t.do = what /\ t.name = n

\* How far the change has come with each name that no abort skipped.
NamesProgress ==
    \A n \in Names \ dropped :
        /\ \/ Waiting(n, "recycle") \/ Waiting(n, "apply") \/ Waiting(n, "reopen")
           \/ Settled(n)
        /\ \/ Waiting(n, "recycle")
           \/ Exists(n) => adapters[n].class = now[n].list

\* An adapter whose entry the change leaves as it was has that entry.
UntouchedAgree ==
    \A n \in Names \ (touched \union dropped) :
        Exists(n) => adapters[n].class = now[n].list /\ adapters[n].config = now[n]

ReloadInv == ReloadTypeOK /\ TasksFit /\ NamesProgress /\ UntouchedAgree

-----------------------------------------------------------------------------
\* The place holders are no entries and no adapters, and stand in no list.
LEMMA PlaceHolders ==
    /\ \A e \in Entries : e # None /\ e.list \in Range(Lists) /\ e.enable \in BOOLEAN
    /\ \A a \in Adapters : a # Absent /\ a.class \in Range(Lists) /\ a.isEnable \in BOOLEAN
    /\ None.list = "none" /\ Absent.class = "none"
    /\ "none" \notin Range(Lists)
<1>1. "none" \notin Range(Lists)
  BY ListsAssumption DEF Range
<1>2. \A e \in Entries : e.list \in Range(Lists) /\ e.enable \in BOOLEAN
  BY DEF Entries
<1>3. \A a \in Adapters : a.class \in Range(Lists) /\ a.isEnable \in BOOLEAN
  BY DEF Adapters
<1>4. None.list = "none" /\ Absent.class = "none"
  BY DEF None, Absent
<1> QED
  BY <1>1, <1>2, <1>3, <1>4

\* An entry stands in the list it is in; a name without one stands in none.
LEMMA ListOf ==
    ASSUME NEW new \in NetworkConfigs, NEW n \in Names
    PROVE  /\ new[n] = None <=> new[n].list = "none"
           /\ new[n] # None => new[n] \in Entries /\ new[n].list \in Range(Lists)
BY PlaceHolders DEF NetworkConfigs

\* Lists have positions, and different ones.
LEMMA PositionIs ==
    ASSUME NEW k \in Range(Lists)
    PROVE  Position(k) \in Nat /\ Lists[Position(k)] = k
<1>1. Position(k) \in DOMAIN Lists /\ Lists[Position(k)] = k
  BY DEF Position, Range
<1>2. DOMAIN Lists = 1 .. Len(Lists) /\ Len(Lists) \in Nat
  BY ListsAssumption
<1> QED
  BY <1>1, <1>2

LEMMA PositionOf ==
    ASSUME NEW k \in Range(Lists), NEW l \in Range(Lists), k # l,
           ~(Position(l) < Position(k))
    PROVE  Position(k) < Position(l)
<1>1. Position(k) \in Nat /\ Position(l) \in Nat /\ Position(k) # Position(l)
  BY PositionIs
<1> QED
  BY <1>1

-----------------------------------------------------------------------------
(* A new configuration.                                                    *)

\* The tasks of a change, one by one.
LEMMA TasksOfChange ==
    ASSUME NEW old \in NetworkConfigs, NEW new \in NetworkConfigs
    PROVE  /\ reloadNetwork(old, new) \subseteq Tasks
           /\ \A t \in reloadNetwork(old, new) :
                 /\ t.do \in {"apply", "recycle"}
                 /\ t.do = "apply" => new[t.name].list = t.list
                 /\ t.do = "recycle" => old[t.name].list = t.list /\ new[t.name].list # t.list
           /\ \A n \in Names : new[n] # None =>
                 [list |-> new[n].list, do |-> "apply", name |-> n] \in reloadNetwork(old, new)
           /\ \A n \in Names : old[n] # None /\ old[n].list # new[n].list =>
                 [list |-> old[n].list, do |-> "recycle", name |-> n] \in reloadNetwork(old, new)
<1>1. \A t : t \in reloadNetwork(old, new) <=>
          \E list \in Range(Lists) :
             \/ t \in [list : {list}, do : {"recycle"}, name : Recycled(list, old, new)]
             \/ t \in [list : {list}, do : {"apply"}, name : Applied(list, new)]
  BY DEF reloadNetwork, handleConfigChange
<1>2. ASSUME NEW t \in reloadNetwork(old, new)
      PROVE  /\ t \in Tasks
             /\ t.do \in {"apply", "recycle"}
             /\ t.do = "apply" => new[t.name].list = t.list
             /\ t.do = "recycle" => old[t.name].list = t.list /\ new[t.name].list # t.list
  <2>1. PICK list \in Range(Lists) :
             \/ t \in [list : {list}, do : {"recycle"}, name : Recycled(list, old, new)]
             \/ t \in [list : {list}, do : {"apply"}, name : Applied(list, new)]
    BY <1>1, <1>2
  <2>2. CASE t \in [list : {list}, do : {"recycle"}, name : Recycled(list, old, new)]
    BY <2>2 DEF Recycled, Tasks
  <2>3. CASE t \in [list : {list}, do : {"apply"}, name : Applied(list, new)]
    BY <2>3 DEF Applied, Tasks
  <2> QED
    BY <2>1, <2>2, <2>3
<1>3. ASSUME NEW n \in Names, new[n] # None
      PROVE  [list |-> new[n].list, do |-> "apply", name |-> n] \in reloadNetwork(old, new)
  BY <1>1, <1>3, ListOf DEF Applied
<1>4. ASSUME NEW n \in Names, old[n] # None, old[n].list # new[n].list
      PROVE  [list |-> old[n].list, do |-> "recycle", name |-> n] \in reloadNetwork(old, new)
  BY <1>1, <1>4, ListOf DEF Recycled
<1> QED
  BY <1>2, <1>3, <1>4

LEMMA SaveReloadInv ==
    ASSUME ReloadInv, NEW new \in NetworkConfigs, Save(new)
    PROVE  ReloadInv'
<1>1. /\ todo = {} /\ now' = new /\ adapters' = adapters /\ dropped' = dropped
      /\ touched' = {n \in Names : new[n] # now[n]}
      /\ todo' = reloadNetwork(now, new) /\ moved' = MovedUp(now, new)
  BY DEF Save
<1>2. now \in NetworkConfigs
  BY DEF ReloadInv, ReloadTypeOK
<1>3. ReloadTypeOK'
  <2>1. todo' \subseteq Tasks
    BY <1>1, <1>2, TasksOfChange
  <2>2. moved' \subseteq touched' /\ touched' \subseteq Names
    <3>1. ASSUME NEW n \in MovedUp(now, new) PROVE n \in Names /\ new[n] # now[n]
      <4>1. n \in Names /\ new[n] # None /\ Position(new[n].list) < Position(now[n].list)
        BY DEF MovedUp
      <4>2. Position(new[n].list) \in Nat
        BY <4>1, ListOf, PositionIs
      <4> QED
        BY <4>1, <4>2
    <3> QED
      BY <1>1, <3>1
  <2> QED
    BY <1>1, <2>1, <2>2 DEF ReloadInv, ReloadTypeOK, IsOpen, Exists
<1>4. TasksFit'
  <2> SUFFICES ASSUME NEW t \in todo'
               PROVE  /\ t.do # "recycle" => t.list = new[t.name].list
                      /\ t.do # "reopen"
                      /\ t.do = "recycle" =>
                            /\ t.name \in touched'
                            /\ t.list # new[t.name].list
                            /\ \/ new[t.name] = None
                               \/ t.name \in moved'
                               \/ \E s \in todo' : /\ s.do = "apply" /\ s.name = t.name
                                                   /\ Before(t, s)
    BY <1>1 DEF TasksFit, Before
  <2>1. t.do # "reopen" /\ (t.do # "recycle" => t.list = new[t.name].list)
    BY <1>1, <1>2, TasksOfChange
  <2>2. ASSUME t.do = "recycle"
        PROVE  /\ t.name \in touched'
               /\ t.list # new[t.name].list
               /\ \/ new[t.name] = None
                  \/ t.name \in moved'
                  \/ \E s \in todo' : s.do = "apply" /\ s.name = t.name /\ Before(t, s)
    <3>1. t.name \in Names /\ t.list \in Range(Lists)
      BY <1>1, <1>2, TasksOfChange DEF Tasks
    <3>2. now[t.name].list = t.list /\ new[t.name].list # t.list
      BY <1>1, <1>2, <2>2, TasksOfChange
    <3>3. t.name \in touched'
      BY <1>1, <3>1, <3>2
    <3>4. now[t.name] # None
      BY <1>2, <3>1, <3>2, PlaceHolders
    <3>5. ASSUME new[t.name] # None, t.name \notin moved'
          PROVE  \E s \in todo' : s.do = "apply" /\ s.name = t.name /\ Before(t, s)
      <4> DEFINE s == [list |-> new[t.name].list, do |-> "apply", name |-> t.name]
      <4>1. s \in todo'
        BY <1>1, <1>2, <3>1, <3>5, TasksOfChange
      <4>2. ~(Position(new[t.name].list) < Position(now[t.name].list))
        BY <1>1, <3>1, <3>4, <3>5 DEF MovedUp
      <4>3. new[t.name].list \in Range(Lists)
        BY <3>1, <3>5, ListOf
      <4>4. Position(t.list) < Position(new[t.name].list)
        BY <3>1, <3>2, <4>2, <4>3, PositionOf
      <4> QED
        BY <4>1, <4>4 DEF Before
    <3> QED
      BY <3>2, <3>3, <3>5
  <2> QED
    BY <2>1, <2>2
<1>5. NamesProgress'
  <2> SUFFICES ASSUME NEW n \in Names \ dropped
               PROVE  /\ Waiting(n, "recycle")' \/ Waiting(n, "apply")' \/ Settled(n)'
                      /\ Waiting(n, "recycle")' \/ (Exists(n) => adapters[n].class = new[n].list)
    BY <1>1 DEF NamesProgress, Exists
  <2>1. Exists(n) => adapters[n] \in Adapters /\ adapters[n].class = now[n].list
    BY <1>1 DEF ReloadInv, NamesProgress, ReloadTypeOK, Waiting, Exists
  <2>2. CASE now[n] # None /\ now[n].list # new[n].list
    <3> DEFINE t == [list |-> now[n].list, do |-> "recycle", name |-> n]
    <3>1. t \in todo' /\ t.do = "recycle" /\ t.name = n
      BY <1>1, <1>2, <2>2, TasksOfChange
    <3> QED
      BY <3>1 DEF Waiting
  <2>3. CASE now[n] # None /\ now[n].list = new[n].list
    <3>1. new[n] # None
      BY <1>2, <2>3, ListOf
    <3> DEFINE t == [list |-> new[n].list, do |-> "apply", name |-> n]
    <3>2. t \in todo' /\ t.do = "apply" /\ t.name = n
      BY <1>1, <1>2, <3>1, TasksOfChange
    <3> QED
      BY <2>1, <2>3, <3>2 DEF Waiting
  <2>4. CASE now[n] = None
    <3>1. ~Exists(n)
      BY <2>1, <2>4, PlaceHolders
    <3>2. CASE new[n] = None
      BY <1>1, <3>1, <3>2 DEF Settled, Exists, ShouldBeOpen
    <3>3. CASE new[n] # None
      <4> DEFINE t == [list |-> new[n].list, do |-> "apply", name |-> n]
      <4>1. t \in todo' /\ t.do = "apply" /\ t.name = n
        BY <1>1, <1>2, <3>3, TasksOfChange
      <4> QED
        BY <3>1, <4>1 DEF Waiting
    <3> QED
      BY <3>1, <3>2, <3>3
  <2> QED
    BY <2>2, <2>3, <2>4
<1>6. UntouchedAgree'
  <2> SUFFICES ASSUME NEW n \in Names \ dropped, new[n] = now[n], Exists(n)
               PROVE  adapters[n].class = now[n].list /\ adapters[n].config = now[n]
    BY <1>1 DEF UntouchedAgree, Exists
  <2>1. Settled(n)
    BY <1>1 DEF ReloadInv, NamesProgress, Waiting
  <2> QED
    BY <2>1 DEF Settled
<1> QED
  BY <1>3, <1>4, <1>5, <1>6 DEF ReloadInv

-----------------------------------------------------------------------------
(* The work on one name.                                                   *)

First(t) == \A s \in todo : ~Before(s, t)

\* An applied entry: what is left of the change still fits the configuration,
\* since a name to be recycled is applied afterwards.
LEMMA AppliedTasksFit ==
    ASSUME TasksFit, NEW t \in todo, First(t), Done(t) \/ Aborted(t),
           t.do # "reopen" \/ (\A n \in Names : Exists(n) => Exists(n)'),
           \A s \in todo : s.name \in Names,
           UNCHANGED <<now, touched, moved>>
    PROVE  TasksFit'
<1>1. CASE Aborted(t)
  BY <1>1 DEF Aborted, TasksFit
<1>2. CASE Done(t)
  <2>1. todo' = todo \ {t}
    BY <1>2 DEF Done
  <2>2. ASSUME NEW r \in todo', r.do = "recycle", now[r.name] # None, r.name \notin moved
        PROVE  \E s \in todo' : s.do = "apply" /\ s.name = r.name /\ Before(r, s)
    <3>1. PICK s \in todo : s.do = "apply" /\ s.name = r.name /\ Before(r, s)
      BY <2>1, <2>2 DEF TasksFit
    <3>2. s # t
      BY <2>1, <2>2, <3>1 DEF First
    <3> QED
      BY <2>1, <3>1, <3>2
  <2>3. ASSUME NEW r \in todo', r.do = "reopen"
        PROVE  Exists(r.name)' /\ now'[r.name].enable
    <3>1. r \in todo /\ Exists(r.name) /\ now[r.name].enable
      BY <2>1, <2>3 DEF TasksFit
    <3>2. t.do = "reopen"
      BY <2>3, <3>1 DEF First, Before
    <3> QED
      BY <3>1, <3>2
  <2> QED
    BY <2>1, <2>2, <2>3 DEF TasksFit, Before
<1> QED
  BY <1>1, <1>2

\* The names a step does not work on are where they were; one that an abort
\* skips no longer counts.
LEMMA OthersProgress ==
    ASSUME ReloadInv, NEW t \in todo, Done(t) \/ Aborted(t),
           UNCHANGED <<now, touched, moved>>,
           NEW n \in Names \ dropped', n # t.name, adapters'[n] = adapters[n]
    PROVE  /\ \/ Waiting(n, "recycle")' \/ Waiting(n, "apply")' \/ Waiting(n, "reopen")'
              \/ Settled(n)'
           /\ Waiting(n, "recycle")' \/ (Exists(n) => adapters[n].class = now[n].list)'
<1>1. n \in Names \ dropped
  BY DEF Done, Aborted, MadeUp
<1>2. Settled(n) => Settled(n)'
  BY DEF Settled, Exists, IsOpen, ShouldBeOpen
<1>3. CASE Done(t)
  <2>1. \A what : Waiting(n, what) <=> Waiting(n, what)'
    BY <1>3 DEF Done, Waiting
  <2> QED
    BY <1>1, <1>2, <2>1 DEF ReloadInv, NamesProgress, Exists
<1>4. CASE Aborted(t)
  <2>1. \A s \in todo : s.name # n
    BY <1>4 DEF Aborted
  <2>2. \A what : ~Waiting(n, what)
    BY <2>1 DEF Waiting
  <2> QED
    BY <1>1, <1>2, <2>2 DEF ReloadInv, NamesProgress, Settled, Exists
<1> QED
  BY <1>3, <1>4

\* The same of the agreement of names the change does not touch.
LEMMA OthersAgree ==
    ASSUME ReloadInv, NEW t \in todo, UNCHANGED <<now, touched, moved>>,
           dropped' \subseteq dropped \union {s.name : s \in todo \ {t}},
           dropped \ {t.name} \subseteq dropped',
           NEW n \in Names \ (touched' \union dropped'), n # t.name,
           adapters'[n] = adapters[n], Exists(n)'
    PROVE  (adapters[n].class = now[n].list /\ adapters[n].config = now[n])'
BY DEF ReloadInv, UntouchedAgree, Exists

\* A step on t.name that leaves it settled unless it will be recycled.
LEMMA AppliedReloadInv ==
    ASSUME ReloadInv, NEW t \in todo, First(t), t.do # "recycle", Done(t) \/ Aborted(t),
           UNCHANGED <<now, touched, moved>>,
           NEW a \in Adapters \union {Absent},
           adapters' = [adapters EXCEPT ![t.name] = a],
           t.do = "reopen" => a # Absent,
           a # Absent => /\ a.isEnable => ~CannotOpen(a.class, a.config)
                         /\ a.config = now[t.name]
                         /\ Exists(t.name) => a.class = adapters[t.name].class,
           (Exists(t.name) => adapters[t.name].class = now[t.name].list)
               => Settled(t.name)'
    PROVE  ReloadInv'
<1>1. /\ t.name \in Names /\ adapters \in [Names -> Adapters \union {Absent}]
      /\ dropped \subseteq Names /\ todo \subseteq Tasks
  BY DEF ReloadInv, ReloadTypeOK, Tasks
<1>2. adapters' \in [Names -> Adapters \union {Absent}] /\ adapters'[t.name] = a
  BY <1>1
<1>3. \A n \in Names : n # t.name => adapters'[n] = adapters[n]
  BY <1>1
<1>4. ReloadTypeOK'
  <2>1. ASSUME NEW n \in Names, IsOpen(n)'
        PROVE  ~CannotOpen(adapters'[n].class, adapters'[n].config)
    <3>1. CASE n = t.name
      BY <1>2, <2>1, <3>1 DEF IsOpen, Exists
    <3>2. CASE n # t.name
      BY <1>3, <2>1, <3>2 DEF IsOpen, Exists, ReloadInv, ReloadTypeOK
    <3> QED
      BY <3>1, <3>2
  <2>2. todo' \subseteq Tasks /\ dropped' \subseteq Names
    BY <1>1 DEF Done, Aborted, Tasks
  <2> QED
    BY <1>2, <2>1, <2>2 DEF ReloadInv, ReloadTypeOK, CannotOpen, Address
<1>5. TasksFit'
  <2>1. \A s \in todo : s.name \in Names
    BY <1>1 DEF Tasks
  <2>2. t.do # "reopen" \/ \A n \in Names : Exists(n) => Exists(n)'
    BY <1>2, <1>3 DEF Exists
  <2> QED
    BY <2>1, <2>2, AppliedTasksFit DEF ReloadInv
<1>6. NamesProgress'
  <2> SUFFICES ASSUME NEW n \in Names \ dropped'
               PROVE  /\ \/ Waiting(n, "recycle")' \/ Waiting(n, "apply")'
                         \/ Waiting(n, "reopen")' \/ Settled(n)'
                      /\ Waiting(n, "recycle")' \/ (Exists(n) => adapters[n].class = now[n].list)'
    BY DEF NamesProgress
  <2>1. CASE n # t.name
    BY <1>3, <2>1, OthersProgress
  <2>2. CASE n = t.name
    <3>1. n \notin dropped \/ (Exists(n) => adapters[n].class = now[n].list)
      BY <2>2 DEF Done, Aborted, MadeUp
    <3>2. CASE n \notin dropped /\ Waiting(n, "recycle")
      <4>1. PICK s \in todo : s.do = "recycle" /\ s.name = n
        BY <3>2 DEF Waiting
      <4>2. s \in todo \ {t}
        BY <4>1
      <4>3. Done(t)
        BY <4>1, <4>2 DEF Aborted
      <4> QED
        BY <4>1, <4>2, <4>3 DEF Done, Waiting
    <3>3. CASE ~(n \notin dropped /\ Waiting(n, "recycle"))
      <4>1. Exists(n) => adapters[n].class = now[n].list
        BY <3>1, <3>3 DEF ReloadInv, NamesProgress
      <4>2. Settled(n)'
        BY <2>2, <4>1
      <4> QED
        BY <4>2 DEF Settled
    <3> QED
      BY <3>2, <3>3
  <2> QED
    BY <2>1, <2>2
<1>7. UntouchedAgree'
  <2> SUFFICES ASSUME NEW n \in Names \ (touched' \union dropped'), Exists(n)'
               PROVE  (adapters[n].class = now[n].list /\ adapters[n].config = now[n])'
    BY DEF UntouchedAgree
  <2>1. CASE n # t.name
    <3>1. /\ dropped' \subseteq dropped \union {s.name : s \in todo \ {t}}
          /\ dropped \ {t.name} \subseteq dropped'
      BY DEF Done, Aborted, MadeUp
    <3> QED
      BY <1>3, <2>1, <3>1, OthersAgree
  <2>2. CASE n = t.name
    <3>1. a # Absent
      BY <1>2, <2>2 DEF Exists
    <3>2. Exists(n) => adapters[n].class = now[n].list
      BY <2>2 DEF ReloadInv, UntouchedAgree, Done, Aborted, MadeUp
    <3>3. Settled(n)'
      BY <2>2, <3>2
    <3> QED
      BY <3>3 DEF Settled
  <2> QED
    BY <2>1, <2>2
<1> QED
  BY <1>4, <1>5, <1>6, <1>7 DEF ReloadInv

\* Where a step finds its name.
LEMMA TaskFacts ==
    ASSUME ReloadInv, NEW t \in todo
    PROVE  /\ t.name \in Names /\ t.list \in Range(Lists)
           /\ adapters \in [Names -> Adapters \union {Absent}]
           /\ Exists(t.name) => adapters[t.name] \in Adapters
           /\ t.do # "recycle" => now[t.name] \in Entries /\ now[t.name] # None
           /\ t.do = "reopen" => Exists(t.name) /\ now[t.name].enable
<1>1. t.name \in Names /\ t.list \in Range(Lists) /\ now \in NetworkConfigs
  BY DEF ReloadInv, ReloadTypeOK, Tasks
<1>2. adapters \in [Names -> Adapters \union {Absent}]
  BY DEF ReloadInv, ReloadTypeOK
<1>3. Exists(t.name) => adapters[t.name] \in Adapters
  BY <1>1, <1>2 DEF Exists
<1>4. ASSUME t.do # "recycle" PROVE now[t.name] \in Entries /\ now[t.name] # None
  <2>1. now[t.name].list \in Range(Lists)
    BY <1>1, <1>4 DEF ReloadInv, TasksFit
  <2> QED
    BY <1>1, <2>1, PlaceHolders DEF NetworkConfigs
<1> QED
  BY <1>1, <1>2, <1>3, <1>4 DEF ReloadInv, TasksFit

LEMMA RecycleReloadInv ==
    ASSUME ReloadInv, NEW t \in todo, First(t), t.do = "recycle", Recycle(t),
           UNCHANGED <<now, touched, moved>>
    PROVE  ReloadInv'
<1>1. /\ adapters' = [adapters EXCEPT ![t.name] = Absent]
      /\ todo' = todo \ {t} /\ dropped' = dropped \ {t.name}
  BY DEF Recycle, closeSomeAdapter, Done, MadeUp
<1>2. t.name \in Names /\ adapters \in [Names -> Adapters \union {Absent}]
  BY TaskFacts
<1>3. /\ adapters' \in [Names -> Adapters \union {Absent}] /\ adapters'[t.name] = Absent
      /\ \A n \in Names : n # t.name => adapters'[n] = adapters[n]
  BY <1>1, <1>2
<1>4. ReloadTypeOK'
  <2>1. ASSUME NEW n \in Names, IsOpen(n)'
        PROVE  ~CannotOpen(adapters'[n].class, adapters'[n].config)
    <3>1. n # t.name
      BY <1>3, <2>1 DEF IsOpen, Exists
    <3> QED
      BY <1>3, <2>1, <3>1 DEF IsOpen, Exists, ReloadInv, ReloadTypeOK
  <2> QED
    BY <1>1, <1>3, <2>1 DEF ReloadInv, ReloadTypeOK, CannotOpen, Address
<1>5. TasksFit'
  <2> SUFFICES ASSUME NEW r \in todo'
               PROVE  /\ r.do # "recycle" => r.list = now[r.name].list
                      /\ r.do # "reopen"
                      /\ r.do = "recycle" =>
                            /\ r.name \in touched
                            /\ r.list # now[r.name].list
                            /\ \/ now[r.name] = None
                               \/ r.name \in moved
                               \/ \E s \in todo' : /\ s.do = "apply" /\ s.name = r.name
                                                   /\ Before(r, s)
    BY DEF TasksFit, Before
  <2>1. \A s \in todo : s.do = "apply" => s \in todo'
    BY <1>1
  <2>2. r.do # "reopen"
    BY <1>1 DEF First, Before
  <2> QED
    BY <1>1, <2>1, <2>2 DEF ReloadInv, TasksFit
<1>6. NamesProgress'
  <2> SUFFICES ASSUME NEW n \in Names \ dropped'
               PROVE  /\ \/ Waiting(n, "recycle")' \/ Waiting(n, "apply")'
                         \/ Waiting(n, "reopen")' \/ Settled(n)'
                      /\ Waiting(n, "recycle")' \/ (Exists(n) => adapters[n].class = now[n].list)'
    BY DEF NamesProgress
  <2>1. CASE n # t.name
    <3>1. Done(t)
      BY DEF Recycle
    <3> QED
      BY <1>3, <2>1, <3>1, OthersProgress
  <2>2. CASE n = t.name
    <3>1. ~Exists(n)'
      BY <1>3, <2>2 DEF Exists
    <3>2. CASE now[n] = None \/ n \in moved
      BY <3>1, <3>2 DEF Settled, ShouldBeOpen
    <3>3. CASE ~(now[n] = None \/ n \in moved)
      <4>1. PICK s \in todo : s.do = "apply" /\ s.name = n
        BY <2>2, <3>3 DEF ReloadInv, TasksFit
      <4>2. s \in todo'
        BY <1>1, <4>1
      <4>3. Waiting(n, "apply")'
        BY <4>1, <4>2 DEF Waiting
      <4> QED
        BY <3>1, <4>3
    <3> QED
      BY <3>1, <3>2, <3>3
  <2> QED
    BY <2>1, <2>2
<1>7. UntouchedAgree'
  <2> SUFFICES ASSUME NEW n \in Names \ (touched' \union dropped'), Exists(n)'
               PROVE  (adapters[n].class = now[n].list /\ adapters[n].config = now[n])'
    BY DEF UntouchedAgree
  <2>1. n # t.name
    BY <1>3 DEF Exists
  <2> QED
    BY <1>1, <1>3, <2>1, OthersAgree
<1> QED
  BY <1>4, <1>5, <1>6, <1>7 DEF ReloadInv

LEMMA RegisterReloadInv ==
    ASSUME ReloadInv, NEW t \in todo, First(t), t.do = "apply", Register(t),
           UNCHANGED <<now, touched, moved>>
    PROVE  ReloadInv'
<1> DEFINE entry == now[t.name]
           a == [class |-> entry.list, config |-> entry,
                 isEnable |-> ~CannotOpen(entry.list, entry)]
<1>1. entry.enable /\ adapters' = [adapters EXCEPT ![t.name] = a]
  BY DEF Register
<1>2. Done(t) \/ Aborted(t)
  BY DEF Register
<1>3. t.name \in Names /\ adapters \in [Names -> Adapters \union {Absent}]
      /\ entry \in Entries /\ entry # None
  BY TaskFacts
<1>4. a \in Adapters /\ a # Absent
  <2>1. CannotOpen(entry.list, entry) \in BOOLEAN
    BY DEF CannotOpen
  <2>2. a \in Adapters
    BY <1>3, <2>1, PlaceHolders DEF Adapters
  <2> QED
    BY <2>2, PlaceHolders
<1>5. adapters'[t.name] = a
  BY <1>1, <1>3
<1>6. Settled(t.name)'
  <2> SUFFICES /\ a.class = entry.list /\ a.config = entry
               /\ a.isEnable <=> entry.enable /\ ~CannotOpen(entry.list, entry)
    BY <1>3, <1>4, <1>5 DEF Settled, Exists, IsOpen, ShouldBeOpen, CannotOpen, Address
  <2> QED
    BY <1>1
<1>7. (a.isEnable => ~CannotOpen(a.class, a.config)) /\ a.config = entry /\ ~Exists(t.name)
  BY DEF Register
<1> HIDE DEF a
<1> QED
  BY <1>1, <1>2, <1>4, <1>6, <1>7, AppliedReloadInv

LEMMA IgnoreReloadInv ==
    ASSUME ReloadInv, NEW t \in todo, First(t), t.do = "apply", Ignore(t),
           UNCHANGED <<now, touched, moved>>
    PROVE  ReloadInv'
<1>1. adapters' = adapters /\ Done(t) /\ ~Exists(t.name) /\ ~now[t.name].enable
  BY DEF Ignore
<1>2. t.name \in Names /\ adapters \in [Names -> Adapters \union {Absent}]
  BY TaskFacts
<1>3. adapters[t.name] = Absent /\ adapters' = [adapters EXCEPT ![t.name] = Absent]
  BY <1>1, <1>2 DEF Exists
<1>4. Settled(t.name)'
  BY <1>1 DEF Settled, Exists, ShouldBeOpen
<1> QED
  BY <1>1, <1>3, <1>4, AppliedReloadInv

\* An adapter that is opened, for the first time or again.
LEMMA OpensReloadInv ==
    ASSUME ReloadInv, NEW t \in todo, First(t), t.do # "recycle", Opens(t),
           Exists(t.name), now[t.name].enable, UNCHANGED <<now, touched, moved>>
    PROVE  ReloadInv'
<1> DEFINE entry == now[t.name]
           old == adapters[t.name]
           a == [old EXCEPT !.config = entry, !.isEnable = ~CannotOpen(old.class, entry)]
<1>1. Done(t) \/ Aborted(t)
  BY DEF Opens
<1>2. /\ t.name \in Names /\ adapters \in [Names -> Adapters \union {Absent}]
      /\ entry \in Entries /\ entry # None /\ old \in Adapters
  BY TaskFacts
<1>3. adapters' = [adapters EXCEPT ![t.name] = a]
  BY <1>2 DEF Opens
<1>4. /\ a.class = old.class /\ a.config = entry
      /\ a.isEnable <=> ~CannotOpen(old.class, entry)
      /\ a \in Adapters /\ a # Absent
  <2>1. CannotOpen(old.class, entry) \in BOOLEAN
    BY DEF CannotOpen
  <2>2. /\ a.class = old.class /\ a.config = entry
        /\ a.isEnable = ~CannotOpen(old.class, entry)
        /\ a \in Adapters
    BY <1>2, <2>1 DEF Adapters
  <2> QED
    BY <2>2, PlaceHolders
<1> HIDE DEF a
<1>5. adapters'[t.name] = a
  BY <1>2, <1>3
<1>6. ASSUME old.class = entry.list
      PROVE  Settled(t.name)'
  BY <1>2, <1>4, <1>5, <1>6 DEF Settled, Exists, IsOpen, ShouldBeOpen, CannotOpen, Address
<1> QED
  BY <1>1, <1>3, <1>4, <1>6, AppliedReloadInv

\* An open adapter that takes the entry without reopening can have it open.
LEMMA SettingsReloadInv ==
    ASSUME ReloadInv, NEW t \in todo, First(t), t.do = "apply", ReloadSettings(t),
           UNCHANGED <<now, touched, moved>>
    PROVE  ReloadInv'
<1> DEFINE entry == now[t.name]
           old == adapters[t.name]
           a == [old EXCEPT !.config = entry]
<1>1. Exists(t.name) /\ entry.enable /\ Done(t) /\ old.isEnable
  BY DEF ReloadSettings, IsOpen
<1>2. /\ t.name \in Names /\ adapters \in [Names -> Adapters \union {Absent}]
      /\ entry \in Entries /\ entry # None /\ old \in Adapters
  BY <1>1, TaskFacts
<1>3. adapters' = [adapters EXCEPT ![t.name] = a]
  BY <1>2 DEF ReloadSettings
<1>4. a.class = old.class /\ a.config = entry /\ a.isEnable /\ a \in Adapters
  BY <1>1, <1>2 DEF Adapters
<1>5. a # Absent
  BY <1>4, PlaceHolders
<1>6. ~CannotOpen(old.class, entry)
  <2>1. ~CannotOpen(old.class, old.config)
    BY <1>1, <1>2 DEF ReloadInv, ReloadTypeOK, IsOpen
  <2>2. old.class = "httpClients" \/ Address(old.class, old.config) = Address(old.class, entry)
    BY DEF ReloadSettings, Reopens
  <2> QED
    BY <2>1, <2>2 DEF CannotOpen, Servers
<1> HIDE DEF a
<1>7. adapters'[t.name] = a
  BY <1>2, <1>3
<1>8. ASSUME old.class = entry.list
      PROVE  Settled(t.name)'
  BY <1>1, <1>2, <1>4, <1>5, <1>6, <1>7, <1>8
     DEF Settled, Exists, IsOpen, ShouldBeOpen, CannotOpen, Address
<1> QED
  BY <1>1, <1>3, <1>4, <1>5, <1>6, <1>8, AppliedReloadInv

\* An adapter that is closed to be opened again: the entry has become a task.
LEMMA CloseToReopenReloadInv ==
    ASSUME ReloadInv, NEW t \in todo, First(t), t.do = "apply", CloseToReopen(t),
           UNCHANGED <<now, touched, moved>>
    PROVE  ReloadInv'
<1> DEFINE entry == now[t.name]
           old == adapters[t.name]
           a == [old EXCEPT !.config = entry, !.isEnable = FALSE]
           again == [t EXCEPT !.do = "reopen"]
<1>1. /\ Exists(t.name) /\ entry.enable /\ dropped' = dropped
      /\ todo' = (todo \ {t}) \union {again}
  BY DEF CloseToReopen, IsOpen
<1>2. /\ t.name \in Names /\ adapters \in [Names -> Adapters \union {Absent}]
      /\ entry \in Entries /\ old \in Adapters /\ t \in Tasks
  BY <1>1, TaskFacts DEF ReloadInv, ReloadTypeOK
<1>3. adapters' = [adapters EXCEPT ![t.name] = a]
  BY <1>2 DEF CloseToReopen
<1>4. a.class = old.class /\ a.config = entry /\ ~a.isEnable /\ a \in Adapters
  BY <1>2 DEF Adapters
<1>5. again \in Tasks /\ again.do = "reopen" /\ again.name = t.name /\ again.list = t.list
  BY <1>2 DEF Tasks
<1>6. a # Absent
  BY <1>4, PlaceHolders
<1> HIDE DEF a, again
<1>7. /\ adapters' \in [Names -> Adapters \union {Absent}] /\ adapters'[t.name] = a
      /\ \A n \in Names : n # t.name => adapters'[n] = adapters[n]
  BY <1>2, <1>3, <1>4
<1>8. ReloadTypeOK'
  <2>1. ASSUME NEW n \in Names, IsOpen(n)'
        PROVE  ~CannotOpen(adapters'[n].class, adapters'[n].config)
    <3>1. n # t.name
      BY <1>4, <1>7, <2>1 DEF IsOpen
    <3> QED
      BY <1>7, <2>1, <3>1 DEF IsOpen, Exists, ReloadInv, ReloadTypeOK
  <2> QED
    BY <1>1, <1>5, <1>7, <2>1 DEF ReloadInv, ReloadTypeOK, CannotOpen, Address
<1>9. TasksFit'
  <2> SUFFICES ASSUME NEW r \in todo'
               PROVE  /\ r.do # "recycle" => r.list = now[r.name].list
                      /\ r.do = "reopen" => Exists(r.name)' /\ now[r.name].enable
                      /\ r.do = "recycle" =>
                            /\ r.name \in touched
                            /\ r.list # now[r.name].list
                            /\ \/ now[r.name] = None
                               \/ r.name \in moved
                               \/ \E s \in todo' : /\ s.do = "apply" /\ s.name = r.name
                                                   /\ Before(r, s)
    BY DEF TasksFit, Before
  <2>1. CASE r = again
    BY <1>1, <1>5, <1>6, <1>7, <2>1 DEF ReloadInv, TasksFit, Exists
  <2>2. CASE r # again
    <3>1. r \in todo /\ r.do # "reopen"
      BY <1>1, <2>2 DEF First, Before
    <3>2. \A s \in todo : Before(r, s) => s \in todo'
      BY <1>1, <3>1 DEF First
    <3> QED
      BY <3>1, <3>2 DEF ReloadInv, TasksFit
  <2> QED
    BY <2>1, <2>2
<1>10. NamesProgress'
  <2> SUFFICES ASSUME NEW n \in Names \ dropped
               PROVE  /\ \/ Waiting(n, "recycle")' \/ Waiting(n, "apply")'
                         \/ Waiting(n, "reopen")' \/ Settled(n)'
                      /\ Waiting(n, "recycle")' \/ (Exists(n) => adapters[n].class = now[n].list)'
    BY <1>1 DEF NamesProgress
  <2>1. \A s \in todo : s # t => s \in todo'
    BY <1>1
  <2>2. Waiting(n, "recycle") => Waiting(n, "recycle")'
    BY <2>1 DEF Waiting
  <2>3. CASE n # t.name
    <3>1. \A what : Waiting(n, what) => Waiting(n, what)'
      BY <2>1, <2>3 DEF Waiting
    <3>2. Settled(n) => Settled(n)'
      BY <1>7, <2>3 DEF Settled, Exists, IsOpen, ShouldBeOpen
    <3> QED
      BY <1>7, <2>3, <3>1, <3>2 DEF ReloadInv, NamesProgress, Exists
  <2>4. CASE n = t.name
    <3>1. again \in todo'
      BY <1>1
    <3>2. Waiting(n, "reopen")'
      BY <1>5, <2>4, <3>1 DEF Waiting
    <3>3. Waiting(n, "recycle") \/ old.class = now[n].list
      BY <1>1, <2>4 DEF ReloadInv, NamesProgress
    <3> QED
      BY <1>4, <1>7, <2>2, <2>4, <3>2, <3>3
  <2> QED
    BY <2>3, <2>4
<1>11. UntouchedAgree'
  <2> SUFFICES ASSUME NEW n \in Names \ (touched \union dropped), Exists(n)'
               PROVE  adapters'[n].class = now[n].list /\ adapters'[n].config = now[n]
    BY <1>1 DEF UntouchedAgree
  <2> QED
    BY <1>1, <1>4, <1>7 DEF ReloadInv, UntouchedAgree, Exists
<1> QED
  BY <1>8, <1>9, <1>10, <1>11 DEF ReloadInv

LEMMA ReloadDisabledReloadInv ==
    ASSUME ReloadInv, NEW t \in todo, First(t), t.do = "apply", ReloadDisabled(t),
           UNCHANGED <<now, touched, moved>>
    PROVE  ReloadInv'
<1> DEFINE entry == now[t.name]
           old == adapters[t.name]
<1>1. Exists(t.name) /\ ~entry.enable /\ Done(t)
  BY DEF ReloadDisabled
<1>2. /\ t.name \in Names /\ adapters \in [Names -> Adapters \union {Absent}]
      /\ entry \in Entries /\ old \in Adapters
  BY <1>1, TaskFacts
<1>3. CASE IsOpen(t.name)
  <2>1. adapters' = [adapters EXCEPT ![t.name] = Absent]
    BY <1>3 DEF ReloadDisabled, closeSomeAdapter
  <2>2. Settled(t.name)'
    BY <1>1, <1>2, <2>1 DEF Settled, Exists, ShouldBeOpen
  <2> QED
    BY <1>1, <2>1, <2>2, AppliedReloadInv
<1>4. CASE ~IsOpen(t.name)
  <2> DEFINE a == [old EXCEPT !.config = entry]
  <2>1. adapters' = [adapters EXCEPT ![t.name] = a]
    BY <1>2, <1>4 DEF ReloadDisabled
  <2>2. a.class = old.class /\ a.config = entry /\ ~a.isEnable /\ a \in Adapters
    BY <1>1, <1>2, <1>4 DEF Adapters, IsOpen
  <2>3. a # Absent
    BY <2>2, PlaceHolders
  <2> HIDE DEF a
  <2>4. adapters'[t.name] = a
    BY <1>2, <2>1
  <2>5. ASSUME old.class = entry.list
        PROVE  Settled(t.name)'
    BY <1>1, <2>2, <2>3, <2>4, <2>5 DEF Settled, Exists, IsOpen, ShouldBeOpen
  <2> QED
    BY <1>1, <2>1, <2>2, <2>3, <2>5, AppliedReloadInv
<1> QED
  BY <1>3, <1>4

-----------------------------------------------------------------------------
LEMMA StepReloadInv == ReloadInv /\ [ReloadNext]_reloadVars => ReloadInv'
<1> SUFFICES ASSUME ReloadInv, [ReloadNext]_reloadVars PROVE ReloadInv'
  OBVIOUS
<1>1. CASE Step
  <2>1. UNCHANGED <<now, touched, moved>>
    BY <1>1 DEF Step
  <2>2. PICK t \in todo :
           /\ First(t)
           /\ \/ t.do = "recycle" /\ Recycle(t)
              \/ t.do = "reopen" /\ Opens(t)
              \/ t.do = "apply" /\ \/ Register(t)
                                   \/ Ignore(t)
                                   \/ ReloadEnabled(t)
                                   \/ CloseToReopen(t)
                                   \/ ReloadSettings(t)
                                   \/ ReloadDisabled(t)
    BY <1>1 DEF Step, First
  <2>3. CASE t.do = "recycle" /\ Recycle(t)
    BY <2>1, <2>2, <2>3, RecycleReloadInv
  <2>4. CASE t.do = "reopen" /\ Opens(t)
    BY <2>1, <2>2, <2>4, TaskFacts, OpensReloadInv
  <2>5. CASE t.do = "apply" /\ ReloadEnabled(t)
    BY <2>1, <2>2, <2>5, OpensReloadInv DEF ReloadEnabled
  <2> QED
    BY <2>1, <2>2, <2>3, <2>4, <2>5, RegisterReloadInv, IgnoreReloadInv,
       CloseToReopenReloadInv, SettingsReloadInv, ReloadDisabledReloadInv
<1>2. ASSUME NEW new \in NetworkConfigs, Save(new)
      PROVE  ReloadInv'
  BY <1>2, SaveReloadInv
<1>3. CASE UNCHANGED reloadVars
  <2>1. /\ now' = now /\ adapters' = adapters /\ todo' = todo /\ touched' = touched
        /\ moved' = moved /\ dropped' = dropped
    BY <1>3 DEF reloadVars
  <2>2. ReloadTypeOK'
    BY <2>1 DEF ReloadInv, ReloadTypeOK, IsOpen, Exists, CannotOpen, Address
  <2>3. TasksFit'
    BY <2>1 DEF ReloadInv, TasksFit, Before, Exists
  <2>4. NamesProgress'
    BY <2>1 DEF ReloadInv, NamesProgress, Waiting, Settled, Exists, IsOpen,
                ShouldBeOpen, CannotOpen, Address
  <2>5. UntouchedAgree'
    BY <2>1 DEF ReloadInv, UntouchedAgree, Exists
  <2> QED
    BY <2>2, <2>3, <2>4, <2>5 DEF ReloadInv
<1> QED
  BY <1>1, <1>2, <1>3 DEF ReloadNext

LEMMA InitReloadInv == ReloadInit => ReloadInv
<1> SUFFICES ASSUME ReloadInit PROVE ReloadInv
  OBVIOUS
<1>1. \A n \in Names : now[n] = None /\ adapters[n] = Absent
  BY DEF ReloadInit
<1>2. ReloadTypeOK
  BY <1>1 DEF ReloadInit, ReloadTypeOK, NetworkConfigs, IsOpen, Exists
<1>3. TasksFit
  BY DEF ReloadInit, TasksFit
<1>4. NamesProgress
  BY <1>1 DEF NamesProgress, Settled, Exists, ShouldBeOpen
<1>5. UntouchedAgree
  BY <1>1 DEF UntouchedAgree, Exists
<1> QED
  BY <1>2, <1>3, <1>4, <1>5 DEF ReloadInv

(* The adapter map only ever holds adapters of the lists' classes, open    *)
(* ones with an entry they could open, whatever the change under way.      *)
THEOREM ReloadTypes == ReloadSpec => []ReloadTypeOK
<1>1. ReloadInv => ReloadTypeOK
  BY DEF ReloadInv
<1> QED
  BY <1>1, InitReloadInv, StepReloadInv, PTL DEF ReloadSpec

(* reloadNetwork over any lists and names: after a change that is over, the*)
(* open adapters are those the configuration enables and that can open,    *)
(* each of the class of its list and with its present entry, but for names *)
(* moved to an earlier list and names that an adapter that threw made it   *)
(* skip, until a later change makes up for them.                           *)
THEOREM ReloadConverges == ReloadSpec => []Converges
<1>1. ReloadInv => Converges
  <2> SUFFICES ASSUME ReloadInv, todo = {}, NEW n \in Names, n \notin moved, n \notin dropped
               PROVE  /\ IsOpen(n) <=> ShouldBeOpen(n)
                      /\ Exists(n) => adapters[n].class = now[n].list /\ adapters[n].config = now[n]
    BY DEF Converges
  <2>1. Settled(n)
    BY DEF ReloadInv, NamesProgress, Waiting
  <2> QED
    BY <2>1 DEF Settled, IsOpen
<1> QED
  BY <1>1, InitReloadInv, StepReloadInv, PTL DEF ReloadSpec

(* No step of a change closes an open adapter whose entry the change left  *)
(* as it was and enabled, not even to open it again, whatever becomes of   *)
(* the other names: an adapter that has its entry finds nothing to reopen  *)
(* for, and no other step on its name closes anything.                     *)
THEOREM ReloadLeavesUntouchedOpen == ReloadSpec => UntouchedStaysOpen
<1> DEFINE A == \A n \in Names \ (touched' \union dropped) :
                   ShouldBeOpen(n)' /\ IsOpen(n) => IsOpen(n)'
<1>1. ReloadInv /\ [ReloadNext]_reloadVars => [A]_reloadVars
  <2> SUFFICES ASSUME ReloadInv, ReloadNext,
                      NEW n \in Names, n \notin touched', n \notin dropped,
                      ShouldBeOpen(n)', IsOpen(n)
               PROVE  IsOpen(n)'
    OBVIOUS
  <2>1. ASSUME NEW new \in NetworkConfigs, Save(new)
        PROVE  IsOpen(n)'
    BY <2>1 DEF Save, IsOpen, Exists
  <2>2. CASE Step
    <3>1. UNCHANGED <<now, touched, moved>>
      BY <2>2 DEF Step
    <3>2. PICK t \in todo :
             \/ t.do = "recycle" /\ Recycle(t)
             \/ t.do = "reopen" /\ Opens(t)
             \/ t.do = "apply" /\ \/ Register(t)
                                  \/ Ignore(t)
                                  \/ ReloadEnabled(t)
                                  \/ CloseToReopen(t)
                                  \/ ReloadSettings(t)
                                  \/ ReloadDisabled(t)
      BY <2>2 DEF Step
    <3>3. t.name \in Names /\ adapters \in [Names -> Adapters \union {Absent}]
          /\ adapters[n] \in Adapters
      BY TaskFacts DEF IsOpen, Exists
    <3>4. now[n].enable /\ ~CannotOpen(now[n].list, now[n])
      BY <3>1 DEF ShouldBeOpen, CannotOpen, Address
    <3>5. CASE n # t.name
      <4>1. adapters'[n] = adapters[n]
        BY <3>2, <3>3, <3>5 DEF Recycle, closeSomeAdapter, Register, Ignore, Opens,
                                ReloadEnabled, CloseToReopen, ReloadSettings, ReloadDisabled
      <4> QED
        BY <4>1 DEF IsOpen, Exists
    <3>6. CASE n = t.name
      <4>1. Exists(n) /\ adapters[n].isEnable /\ adapters[n].class # "none"
        BY <3>3, PlaceHolders DEF IsOpen
      <4>2. adapters[n].class = now[n].list /\ adapters[n].config = now[n]
        BY <3>1, <4>1 DEF ReloadInv, UntouchedAgree
      <4>3. t.do # "recycle"
        BY <3>1, <3>6 DEF ReloadInv, TasksFit
      <4>4. ~CloseToReopen(t)
        BY <3>6, <4>2 DEF CloseToReopen, Reopens
      <4>5. Opens(t) \/ ReloadSettings(t)
        BY <3>2, <3>4, <3>6, <4>1, <4>3, <4>4 DEF Register, Ignore, ReloadEnabled, ReloadDisabled
      <4>6. adapters'[n].isEnable /\ adapters'[n].class = adapters[n].class
        <5>1. CASE Opens(t)
          BY <3>3, <3>4, <3>6, <4>2, <5>1 DEF Opens, Adapters
        <5>2. CASE ReloadSettings(t)
          BY <3>3, <3>6, <4>1, <5>2 DEF ReloadSettings, Adapters
        <5> QED
          BY <4>5, <5>1, <5>2
      <4> QED
        BY <4>1, <4>6, PlaceHolders DEF IsOpen, Exists
    <3> QED
      BY <3>5, <3>6
  <2> QED
    BY <2>1, <2>2 DEF ReloadNext
<1> QED
  BY <1>1, InitReloadInv, StepReloadInv, PTL DEF ReloadSpec, UntouchedStaysOpen
=============================================================================
