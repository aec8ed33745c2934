------------------------------ MODULE WsClient ------------------------------
(***************************************************************************)
(* The OneBot adapter that dials out to a WebSocket server and redials     *)
(* when it loses the connection:                                           *)
(* packages/napcat-onebot/network/websocket-client.ts.                     *)
(*                                                                         *)
(* The adapter runs in one thread; what interleaves is the configuration   *)
(* changes that reload it, its reconnect timers, and the events of every   *)
(* socket it ever created.  The event handlers close over the adapter and  *)
(* not over their socket, so an old socket's event acts on the present     *)
(* connection.                                                             *)
(*                                                                         *)
(* Sockets (of the ws library) are numbered in the order of creation.      *)
(*                                                                         *)
(* reload is modelled for every configuration, as the class promises.  The *)
(* program forgets an adapter that reload closed (NetworkReload), so that  *)
(* ReloadOpens and ReloadStaysClosed are for other callers of the class.   *)
(***************************************************************************)
EXTENDS Integers, FiniteSets

CONSTANTS
    Urls,
    BadUrls,         \* those for which the WebSocket constructor throws
    HeartIntervals,  \* configured intervals; 0 sends no heartbeats
    MaxSockets       \* bound: sockets created

ASSUME UrlsAssumption == BadUrls \subseteq Urls
ASSUME HeartAssumption == HeartIntervals \subseteq Nat \ {0}
ASSUME SocketsAssumption == MaxSockets \in Nat \ {0}

VARIABLES
    config,
    isEnable,
    connection,    \* a socket, or 0 for null
    sock,          \* state of every socket
    reconnects,    \* reconnect timers that run
    heartbeatRef,  \* the interval it holds, by its length, or 0 for null
    intervals,     \* how many intervals of each length run
    overtaken      \* history: the end of a socket that the adapter itself hung
                   \* up was handled as a loss

vars == <<config, isEnable, connection, sock, reconnects, heartbeatRef, intervals, overtaken>>

Sockets == 1..MaxSockets
Configs == [enable : BOOLEAN, url : Urls, heartInterval : HeartIntervals \union {0}]

\* "aborting" was closed before it opened; "broken" has isClosedByError set.
SockStates == {"none", "connecting", "open", "aborting", "closing", "broken", "closed"}

Live == {s \in Sockets : sock[s] \in {"connecting", "open"}}
Exhausted == sock[MaxSockets] # "none"

-----------------------------------------------------------------------------
(* Connecting and disconnecting.                                           *)

\* `new WebSocket(url)`, with the sockets as they are by then.
Dial(url, sockNow) ==
    LET next == 1 + Cardinality({s \in Sockets : sockNow[s] # "none"})
    IN  \/ /\ url \in BadUrls
           /\ connection' = 0
           /\ sock' = sockNow
        \/ /\ url \notin BadUrls
           /\ next \in Sockets
           /\ connection' = next
           /\ sock' = [sockNow EXCEPT ![next] = "connecting"]

\* connection.close(): the socket's last events are still to come.
HangUp ==
    [s \in Sockets |->
        CASE s = connection /\ sock[s] = "connecting" -> "aborting"
          [] s = connection /\ sock[s] = "open" -> "closing"
          [] OTHER -> sock[s]]

StartHeartbeat(length, running) ==
    /\ heartbeatRef' = length
    /\ intervals' = IF length > 0 THEN [running EXCEPT ![length] = @ + 1] ELSE running

\* clearInterval(heartbeatRef)
WithoutHeartbeat ==
    IF heartbeatRef > 0 THEN [intervals EXCEPT ![heartbeatRef] = @ - 1] ELSE intervals

\* Only called when there is no connection.
open(new) ==
    /\ isEnable' = TRUE
    /\ StartHeartbeat(new.heartInterval, intervals)
    /\ Dial(new.url, sock)

\* Mutant: the connection is hung up, not forgotten.
closeKeepsConnection ==
    /\ isEnable' = FALSE
    /\ sock' = HangUp
    /\ StartHeartbeat(0, WithoutHeartbeat)
    /\ UNCHANGED connection

close ==
    /\ isEnable' = FALSE
    /\ connection' = 0
    /\ sock' = HangUp
    /\ StartHeartbeat(0, WithoutHeartbeat)

\* close() and open() in one go: the old socket's events come after both.
Redial(new) ==
    /\ isEnable' = TRUE
    /\ StartHeartbeat(new.heartInterval, WithoutHeartbeat)
    /\ Dial(new.url, HangUp)

-----------------------------------------------------------------------------
(* reload.                                                                 *)

ReloadOpens(new) ==
    /\ new.enable /\ ~isEnable
    /\ open(new)

ReloadCloses(new) ==
    /\ ~new.enable /\ isEnable
    /\ close

ReloadRedials(new) ==
    /\ new.enable /\ isEnable
    /\ new.url # config.url
    /\ Redial(new)

\* Mutant: the interval that runs is forgotten, not cleared.
ReloadHeartbeatLeaks(new) ==
    /\ new.enable /\ isEnable
    /\ new.url = config.url
    /\ new.heartInterval # config.heartInterval
    /\ StartHeartbeat(new.heartInterval, intervals)
    /\ UNCHANGED <<isEnable, connection, sock>>

ReloadHeartbeat(new) ==
    /\ new.enable /\ isEnable
    /\ new.url = config.url
    /\ new.heartInterval # config.heartInterval
    /\ StartHeartbeat(new.heartInterval, WithoutHeartbeat)
    /\ UNCHANGED <<isEnable, connection, sock>>

\* The adapter stays closed: close() returns early, no interval runs.
ReloadStaysClosed(new) ==
    /\ ~new.enable /\ ~isEnable
    /\ UNCHANGED <<isEnable, connection, sock, heartbeatRef, intervals>>

reload(new) ==
    /\ new # config
    /\ config' = new
    /\ \/ ReloadOpens(new)
       \/ ReloadCloses(new)
       \/ ReloadRedials(new)
       \/ ReloadHeartbeat(new)
       \/ ReloadStaysClosed(new)
    /\ UNCHANGED <<reconnects, overtaken>>

-----------------------------------------------------------------------------
(* Socket events and timers.                                               *)

Opened(s) ==
    /\ sock[s] = "connecting"
    /\ sock' = [sock EXCEPT ![s] = "open"]
    /\ UNCHANGED <<config, isEnable, connection, reconnects, heartbeatRef, intervals,
                   overtaken>>

\* Mutant: the reconnect is only scheduled for the present connection.
LostIfCurrent(s) ==
    /\ connection' = IF isEnable THEN 0 ELSE connection
    /\ reconnects' = IF isEnable /\ connection = s THEN reconnects + 1 ELSE reconnects
    /\ overtaken' = (overtaken \/ (isEnable /\ sock[s] \in {"aborting", "closing"}))

\* What the 'error' handler and the 'close' handler do.
Lost(s) ==
    /\ connection' = IF isEnable THEN 0 ELSE connection
    /\ reconnects' = IF isEnable THEN reconnects + 1 ELSE reconnects
    /\ overtaken' = (overtaken \/ (isEnable /\ sock[s] \in {"aborting", "closing"}))

\* No handshake (refused, timed out, aborted): 'error', and 'close' at once,
\* which isClosedByError turns into a no-op.
ConnectFails(s) ==
    /\ sock[s] \in {"connecting", "aborting"}
    /\ sock' = [sock EXCEPT ![s] = "closed"]
    /\ Lost(s)
    /\ UNCHANGED <<config, isEnable, heartbeatRef, intervals>>

\* A bad frame on an established connection: 'error', 'close' comes later.
ErrorEvent(s) ==
    /\ sock[s] \in {"open", "closing"}
    /\ sock' = [sock EXCEPT ![s] = "broken"]
    /\ Lost(s)
    /\ UNCHANGED <<config, isEnable, heartbeatRef, intervals>>

\* The connection has ended, from either side.
CloseEvent(s) ==
    /\ sock[s] \in {"open", "closing"}
    /\ sock' = [sock EXCEPT ![s] = "closed"]
    /\ Lost(s)
    /\ UNCHANGED <<config, isEnable, heartbeatRef, intervals>>

\* Mutant: the 'close' handler does not look at isClosedByError.
CloseAfterErrorHandled(s) ==
    /\ sock[s] = "broken"
    /\ sock' = [sock EXCEPT ![s] = "closed"]
    /\ Lost(s)
    /\ UNCHANGED <<config, isEnable, heartbeatRef, intervals>>

CloseAfterError(s) ==
    /\ sock[s] = "broken"
    /\ sock' = [sock EXCEPT ![s] = "closed"]
    /\ UNCHANGED <<config, isEnable, connection, reconnects, heartbeatRef, intervals,
                   overtaken>>

\* tryConnect, on a timer that nothing ever clears.
ReconnectTimer ==
    /\ reconnects > 0
    /\ reconnects' = reconnects - 1
    /\ IF connection = 0 /\ isEnable
       THEN Dial(config.url, sock) ELSE UNCHANGED <<connection, sock>>
    /\ UNCHANGED <<config, isEnable, heartbeatRef, intervals, overtaken>>

-----------------------------------------------------------------------------
\* Only enabled adapters are created, and they are opened at once.
Init ==
    /\ config \in {c \in Configs : c.enable}
    /\ isEnable = TRUE
    /\ connection = IF config.url \in BadUrls THEN 0 ELSE 1
    /\ sock = [s \in Sockets |-> IF s = connection THEN "connecting" ELSE "none"]
    /\ reconnects = 0
    /\ heartbeatRef = config.heartInterval
    /\ intervals = [h \in HeartIntervals |-> IF h = config.heartInterval THEN 1 ELSE 0]
    /\ overtaken = FALSE

Next ==
    \/ \E new \in Configs : reload(new)
    \/ \E s \in Sockets : \/ Opened(s) \/ ConnectFails(s) \/ ErrorEvent(s)
                          \/ CloseEvent(s) \/ CloseAfterError(s)
    \/ ReconnectTimer

Spec == Init /\ [][Next]_vars

\* A handshake ends (handshakeTimeout), a close completes (the library's own
\* timeout destroys the stream), and timers fire.
FairSpec ==
    /\ Spec
    /\ \A s \in Sockets : /\ WF_vars(Opened(s) \/ ConnectFails(s))
                          /\ WF_vars(sock[s] = "closing" /\ CloseEvent(s))
                          /\ WF_vars(CloseAfterError(s))
    /\ WF_vars(ReconnectTimer)

-----------------------------------------------------------------------------
TypeOK ==
    /\ config \in Configs
    /\ isEnable \in BOOLEAN
    /\ connection \in Sockets \union {0}
    /\ connection # 0 => isEnable
    /\ sock \in [Sockets -> SockStates]
    /\ reconnects \in Nat
    /\ heartbeatRef \in HeartIntervals \union {0}
    /\ intervals \in [HeartIntervals -> Nat]
    /\ overtaken \in BOOLEAN

(* The adapter holds every live socket: none stays connected behind its    *)
(* back, acting on messages and surviving a close.  An error and the close *)
(* that follows it, repeated losses and reloads while a timer runs do not  *)
(* break this.  What does is excluded by `overtaken`: after a new url the  *)
(* end of the old socket is taken for the loss of the new one.             *)
LiveIsTracked == ~overtaken => Live \subseteq {connection}

(* When an enabled adapter has no connection, a timer to dial again runs,  *)
(* unless the url cannot be dialled (then only a new url helps).           *)
NeverStranded ==
    isEnable /\ connection = 0 /\ config.url \notin BadUrls => reconnects > 0

(* Heartbeats are sent at the configured interval, by one timer only, and  *)
(* by none while the adapter is closed, whatever the order of reloads.     *)
OneHeartbeat ==
    intervals = [h \in HeartIntervals |->
                    IF isEnable /\ h = config.heartInterval THEN 1 ELSE 0]

(* An enabled adapter with a url it can dial keeps dialling.               *)
KeepsDialling ==
    []<>(~isEnable \/ config.url \in BadUrls \/ connection # 0 \/ Exhausted)
=============================================================================
