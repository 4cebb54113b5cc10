---------------------------- MODULE HubConnections ----------------------------
(***************************************************************************)
(* The hub's registry of SHIP connections (hub_connections_registry.go),   *)
(* and the goroutines that race for it:                                    *)
(*                                                                         *)
(*   - connectFoundService, one goroutine per outgoing dial                *)
(*     (hub_connections_client.go, hub_connections_dialstate.go);          *)
(*   - verifyPeerCertificate and ServeHTTP, one goroutine per incoming     *)
(*     connection (hub_connections_server.go);                             *)
(*   - the goroutines retire() spawns for displaced connections;           *)
(*   - HandleConnectionClosed, which runs in whatever goroutine closes a   *)
(*     connection and may run more than once for the same connection       *)
(*     (hub_shipconnection.go, ship/connection_lifecycle.go);              *)
(*   - Shutdown (hub.go).                                                  *)
(*                                                                         *)
(* Every critical section of muxCon is one step; whatever the code does    *)
(* between two critical sections is a step of its own.  The SHIP handshake *)
(* of a connection is reduced to what the registry can tell apart: whether *)
(* its state is SmeStateComplete.                                          *)
(***************************************************************************)
EXTENDS Naturals, FiniteSets

CONSTANTS
    Conn,           \* all connection attempts; an attempt becomes a ShipConnection
    SKI,            \* SKIs of the remote nodes
    RemoteSKI,      \* RemoteSKI[c]: the remote node of attempt c
    Outgoing,       \* the attempts this hub dials; the others are incoming
    SmallerSKIs,    \* remote nodes with a SKI smaller than the local one
    MaxConnections, \* Hub.maxConnections
    MayShutdown,    \* whether the application ever calls Shutdown
    None            \* no connection, no dial

ASSUME ConnAssumption ==
    /\ RemoteSKI \in [Conn -> SKI]
    /\ Outgoing \subseteq Conn
    /\ SmallerSKIs \subseteq SKI
    /\ MayShutdown \in BOOLEAN
    /\ None \notin Conn

\* SetMaxConnections replaces anything that is not positive by the default.
ASSUME LimitAssumption == MaxConnections \in Nat \ {0}

VARIABLES
    connections,    \* Hub.connections, under muxCon
    initiating,     \* Hub.connectionsInitiating, under muxCon
    superseded,     \* dialState.superseded of an attempt
    task,           \* where the goroutine that establishes an attempt stands
    other,          \* a connection or dial that goroutine holds in a local
    socket,         \* the attempt's data connection: none, open, cut off by dialState
                    \* beneath the websocket, or closed: it counts as closed (isConnClosed)
    hs,             \* the SHIP handshake of the attempt, as the hub sees it
    once,           \* ShipConnection.shutdownOnce has run
    report,         \* the calls of HandleConnectionClosed
    retiring,       \* the goroutine spawned by retire()
    down,           \* Shutdown: not called, server stopped, closing connections
    toClose         \* the connections the goroutines of Shutdown have to close

hubVars  == <<connections, initiating>>
connVars == <<socket, hs, once, report, retiring>>
downVars == <<down, toClose>>
vars == <<connections, initiating, superseded, task, other, socket, hs, once,
          report, retiring, down, toClose>>

-----------------------------------------------------------------------------

\* A connection's end is reported by whoever ran its shutdownOnce, and by its
\* read pump when the peer sends a connectionClose message.
Reporters == {"own", "peer"}

DialTasks  == {"dialLimit", "dialPath", "dialBare", "dialed", "awaiting"}
StartTasks == {"run", "register", "retire"}
Tasks == DialTasks \cup StartTasks \cup
         {"idle", "tls", "http", "double", "upgrade", "dialEnd", "ended"}

ReportSteps == {"idle", "delay", "unregister", "check", "told", "quiet"}

Typed ==
    /\ connections \in [SKI -> Conn \cup {None}]
    /\ initiating \in [SKI -> Conn \cup {None}]
    /\ superseded \in [Conn -> BOOLEAN]
    /\ task \in [Conn -> Tasks]
    /\ other \in [Conn -> Conn \cup {None}]
    /\ socket \in [Conn -> {"none", "open", "cut", "closed"}]
    /\ hs \in [Conn -> {"none", "handshake", "complete"}]
    /\ once \in [Conn -> BOOLEAN]
    /\ report \in [Conn -> [Reporters -> ReportSteps]]
    /\ retiring \in [Conn -> {"no", "spawned", "announce", "close"}]
    /\ down \in {"no", "server", "closing"}
    /\ toClose \subseteq Conn

\* A dial takes no step of ServeHTTP, an incoming connection none of
\* connectFoundService, its deferred delete included.
RoleInv ==
    \A c \in Conn :
        IF c \in Outgoing
        THEN task[c] \notin {"tls", "http", "double", "upgrade"}
        ELSE task[c] \notin DialTasks \cup {"dialEnd"}

\* Every variable has its type, and every goroutine takes the steps of its role.
TypeOK == Typed /\ RoleInv

Connected(s) == connections[s] # None

RegisteredSKIs == {s \in SKI : Connected(s)}

Complete(c) == hs[c] = "complete"

\* The attempt has become a ShipConnection with running pumps.
Started(c) == hs[c] # "none"

Goto(c, t) == task' = [task EXCEPT ![c] = t]

Init ==
    /\ connections = [s \in SKI |-> None]
    /\ initiating = [s \in SKI |-> None]
    /\ superseded = [c \in Conn |-> FALSE]
    /\ task = [c \in Conn |-> "idle"]
    /\ other = [c \in Conn |-> None]
    /\ socket = [c \in Conn |-> "none"]
    /\ hs = [c \in Conn |-> "none"]
    /\ once = [c \in Conn |-> FALSE]
    /\ report = [c \in Conn |-> [k \in Reporters |-> "idle"]]
    /\ retiring = [c \in Conn |-> "no"]
    /\ down = "no"
    /\ toClose = {}

-----------------------------------------------------------------------------
(* Closing a connection, and what the hub does about it. *)

\* Mutant of Close: a safe close announces the end and leaves it to the peer.
CloseUnattended(c, safe) ==
    /\ once' = [once EXCEPT ![c] = TRUE]
    /\ IF once[c] \/ (safe /\ Complete(c))
       THEN UNCHANGED <<report, socket>>
       ELSE /\ report' = [report EXCEPT ![c]["own"] = "unregister"]
            /\ socket' = [socket EXCEPT ![c] = "closed"]

\* ShipConnection.CloseConnection: only the first call does anything.  A safe
\* close in data exchange announces it and leaves the rest to a goroutine; when
\* the data connection counts as closed already, for the peer's own announcement
\* or for an error a pump is about to report, the announcement closes the
\* connection again from within shutdownOnce, and the caller never returns.
Close(c, safe) ==
    IF once[c]
    THEN UNCHANGED <<once, report, socket>>
    ELSE /\ once' = [once EXCEPT ![c] = TRUE]
         /\ IF safe /\ Complete(c)
            THEN /\ report' = IF socket[c] = "closed" THEN report
                              ELSE [report EXCEPT ![c]["own"] = "delay"]
                 /\ UNCHANGED socket
            ELSE /\ report' = [report EXCEPT ![c]["own"] = "unregister"]
                 /\ socket' = [socket EXCEPT ![c] = "closed"]

\* CloseDataConnection after the wait for the announce or confirm message.
DelayOver(c, k) ==
    /\ report[c][k] = "delay"
    /\ report' = [report EXCEPT ![c][k] = "unregister"]
    /\ socket' = [socket EXCEPT ![c] = "closed"]
    /\ UNCHANGED <<hubVars, superseded, task, other, hs, once, retiring, downVars>>

\* Mutant of Unregister: the entry goes by SKI, whichever connection it holds.
UnregisterSKI(c, k) ==
    /\ report[c][k] = "unregister"
    /\ connections' = [connections EXCEPT ![RemoteSKI[c]] = None]
    /\ report' = [report EXCEPT ![c][k] = "told"]
    /\ UNCHANGED <<initiating, superseded, task, other, socket, hs, once, retiring, downVars>>

\* HandleConnectionClosed, first critical section: UnregisterConnectionIfMatch.
\* The application is told (RemoteServiceDisconnected) when it has matched.
Unregister(c, k) ==
    LET s == RemoteSKI[c] IN
    /\ report[c][k] = "unregister"
    /\ \/ /\ connections[s] = c
          /\ connections' = [connections EXCEPT ![s] = None]
          /\ report' = [report EXCEPT ![c][k] = "told"]
       \/ /\ connections[s] # c
          /\ report' = [report EXCEPT ![c][k] = "check"]
          /\ UNCHANGED connections
    /\ UNCHANGED <<initiating, superseded, task, other, socket, hs, once, retiring, downVars>>

\* HandleConnectionClosed, second critical section: a connection that was not
\* the registered one is only reported when the SKI has no connection.
CheckDisplaced(c, k) ==
    /\ report[c][k] = "check"
    /\ report' = [report EXCEPT ![c][k] =
                      IF Connected(RemoteSKI[c]) THEN "quiet" ELSE "told"]
    /\ UNCHANGED <<hubVars, superseded, task, other, socket, hs, once, retiring, downVars>>

\* The handshake ends by itself, with an error or a time-out.
Fails(c) ==
    /\ hs[c] = "handshake" /\ ~once[c]
    /\ Close(c, FALSE)
    /\ UNCHANGED <<hubVars, superseded, task, other, hs, retiring, downVars>>

\* A pump meets an error of the network: the data connection counts as closed
\* from now on (close of the read pump, closeWithError of the write pump).
Loses(c) ==
    /\ Started(c) /\ socket[c] \in {"open", "cut"}
    /\ socket' = [socket EXCEPT ![c] = "closed"]
    /\ UNCHANGED <<hubVars, superseded, task, other, hs, once, report, retiring, downVars>>

\* The pump that met the error calls ReportConnectionError, up to half a second
\* later.  A close by this side ends the pumps silently, and so does one that
\* the peer asked for.
ReadError(c) ==
    /\ Started(c) /\ ~once[c]
    /\ socket[c] = "closed"
    /\ report[c]["peer"] \in {"idle", "delay"}
    /\ Close(c, FALSE)
    /\ UNCHANGED <<hubVars, superseded, task, other, hs, retiring, downVars>>

\* The peer announces the end of the connection, in any state of the handshake:
\* handleShipMessage confirms, waits, closes the data connection and reports, all
\* without shutdownOnce.
PeerAnnounces(c) ==
    /\ Started(c) /\ socket[c] = "open"
    /\ report[c]["peer"] = "idle"
    /\ report' = [report EXCEPT ![c]["peer"] = "delay"]
    /\ UNCHANGED <<hubVars, superseded, task, other, socket, hs, once, retiring, downVars>>

\* The peer confirms an end, whether this side has announced one or not.
PeerConfirms(c) ==
    /\ Started(c) /\ socket[c] = "open"
    /\ report[c]["peer"] = "idle"
    /\ report' = [report EXCEPT ![c]["peer"] = "unregister"]
    /\ socket' = [socket EXCEPT ![c] = "closed"]
    /\ UNCHANGED <<hubVars, superseded, task, other, hs, once, retiring, downVars>>

\* The application disconnects the SKI (DisconnectSKI, UnregisterRemoteService).
Disconnect(s) ==
    /\ Connected(s)
    /\ ~once[connections[s]]
    /\ Close(connections[s], TRUE)
    /\ UNCHANGED <<hubVars, superseded, task, other, hs, retiring, downVars>>

\* Mutant of RetireDecides: a displaced connection in its handshake is left alone.
RetireOnlyComplete(c) ==
    /\ retiring[c] = "spawned"
    /\ retiring' = [retiring EXCEPT ![c] = IF Complete(c) THEN "announce" ELSE "no"]
    /\ UNCHANGED <<hubVars, superseded, task, other, socket, hs, once, report, downVars>>

\* The goroutine of retire() looks at the handshake state, then closes.
RetireDecides(c) ==
    /\ retiring[c] = "spawned"
    /\ retiring' = [retiring EXCEPT ![c] = IF Complete(c) THEN "announce" ELSE "close"]
    /\ UNCHANGED <<hubVars, superseded, task, other, socket, hs, once, report, downVars>>

RetireCloses(c) ==
    /\ retiring[c] \in {"announce", "close"}
    /\ retiring' = [retiring EXCEPT ![c] = "no"]
    /\ Close(c, retiring[c] = "announce")
    /\ UNCHANGED <<hubVars, superseded, task, other, hs, downVars>>

-----------------------------------------------------------------------------
(* The SHIP handshake, as far as the hub is told about it. *)

\* setState(SmeStateComplete)
Completes(c) ==
    /\ hs[c] = "handshake" /\ socket[c] = "open"
    /\ hs' = [hs EXCEPT ![c] = "complete"]
    /\ UNCHANGED <<hubVars, superseded, task, other, socket, once, report, retiring, downVars>>

-----------------------------------------------------------------------------
(* connectFoundService: an outgoing dial. *)

\* Mutant of DialStart: the registry is asked, the dial that is in flight is not.
DialStartUnguarded(c) ==
    /\ c \in Outgoing /\ task[c] = "idle" /\ down # "closing"
    /\ ~Connected(RemoteSKI[c])
    /\ initiating' = [initiating EXCEPT ![RemoteSKI[c]] = c]
    /\ Goto(c, "dialLimit")
    /\ UNCHANGED <<connections, superseded, other, connVars, downVars>>

\* The first critical section: nothing to do for a SKI that is connected or
\* being dialled, otherwise the dial is entered in connectionsInitiating.
DialStart(c) ==
    LET s == RemoteSKI[c] IN
    /\ c \in Outgoing /\ task[c] = "idle" /\ down # "closing"
    /\ ~Connected(s) /\ initiating[s] = None
    /\ initiating' = [initiating EXCEPT ![s] = c]
    /\ Goto(c, "dialLimit")
    /\ UNCHANGED <<connections, superseded, other, connVars, downVars>>

\* validateConnectionLimit
DialLimit(c) ==
    /\ task[c] = "dialLimit"
    /\ Goto(c, IF Cardinality(RegisteredSKIs) < MaxConnections THEN "dialPath" ELSE "dialEnd")
    /\ UNCHANGED <<hubVars, superseded, other, connVars, downVars>>

\* Mutant of DialAdopt: adopt does not look at superseded.
DialAdoptUnchecked(c) ==
    /\ task[c] \in {"dialPath", "dialBare"} /\ socket[c] = "none"
    /\ socket' = [socket EXCEPT ![c] = "open"]
    /\ UNCHANGED <<hubVars, superseded, task, other, hs, once, report, retiring, downVars>>

\* dialState.adopt: the raw socket of the dial is known, and closed at once
\* when the dial was superseded before.
DialAdopt(c) ==
    /\ task[c] \in {"dialPath", "dialBare"}
    /\ socket[c] = "none"
    /\ socket' = [socket EXCEPT ![c] = IF superseded[c] THEN "cut" ELSE "open"]
    /\ UNCHANGED <<hubVars, superseded, task, other, hs, once, report, retiring, downVars>>

\* establishWebSocketConnection and connectFoundService on an error: a
\* superseded dial waits for the connection that took over, any other dial is
\* tried again without the path, once.
DialFails(c) ==
    /\ task[c] \in {"dialPath", "dialBare"}
    /\ \/ /\ superseded[c]
          /\ Goto(c, "awaiting")
          /\ socket' = [socket EXCEPT ![c] = "closed"]
       \/ /\ ~superseded[c] /\ task[c] = "dialPath"
          /\ Goto(c, "dialBare")
          /\ socket' = [socket EXCEPT ![c] = "none"]
       \/ /\ ~superseded[c] /\ task[c] = "dialBare"
          /\ Goto(c, "dialEnd")
          /\ socket' = [socket EXCEPT ![c] = "closed"]
    /\ UNCHANGED <<hubVars, superseded, other, hs, once, report, retiring, downVars>>

DialSucceeds(c) ==
    /\ task[c] \in {"dialPath", "dialBare"} /\ socket[c] = "open"
    /\ Goto(c, "dialed")
    /\ UNCHANGED <<hubVars, superseded, other, connVars, downVars>>

\* The remote certificate is not the expected one: safeClose and an error.
DialRejects(c) ==
    /\ task[c] = "dialed"
    /\ socket' = [socket EXCEPT ![c] = "closed"]
    /\ Goto(c, "dialEnd")
    /\ UNCHANGED <<hubVars, superseded, other, hs, once, report, retiring, downVars>>

\* The certificate is valid; wasSuperseded is looked at one last time.
DialAccepts(c) ==
    /\ task[c] = "dialed"
    /\ IF superseded[c]
       THEN /\ socket' = [socket EXCEPT ![c] = "closed"]
            /\ Goto(c, "awaiting")
       ELSE /\ UNCHANGED socket
            /\ Goto(c, "run")
    /\ UNCHANGED <<hubVars, superseded, other, hs, once, report, retiring, downVars>>

\* Mutant of DialAwaited: no grace period, the dial waits for the connection.
DialAwaitedForever(c) ==
    /\ task[c] = "awaiting" /\ Connected(RemoteSKI[c])
    /\ Goto(c, "dialEnd")
    /\ UNCHANGED <<hubVars, superseded, other, connVars, downVars>>

\* awaitSupersedingConnection returns: the SKI is connected, or the grace
\* period is over.
DialAwaited(c) ==
    /\ task[c] = "awaiting"
    /\ Goto(c, "dialEnd")
    /\ UNCHANGED <<hubVars, superseded, other, connVars, downVars>>

\* The deferred delete, which goes by SKI and not by dial.
DialEnd(c) ==
    /\ task[c] = "dialEnd"
    /\ initiating' = [initiating EXCEPT ![RemoteSKI[c]] = None]
    /\ Goto(c, "ended")
    /\ UNCHANGED <<connections, superseded, other, connVars, downVars>>

-----------------------------------------------------------------------------
(* verifyPeerCertificate and ServeHTTP: an incoming connection. *)

\* verifyPeerCertificate and the critical section of supersedeForIncoming: the
\* bigger SKI looks for its own dial to the peer.
Incoming(c) ==
    LET s == RemoteSKI[c]
        dial == IF s \in SmallerSKIs THEN initiating[s] ELSE None
    IN
    /\ c \notin Outgoing /\ task[c] = "idle" /\ down = "no"
    /\ other' = [other EXCEPT ![c] = dial]
    /\ Goto(c, IF dial = None THEN "http" ELSE "tls")
    /\ UNCHANGED <<hubVars, superseded, connVars, downVars>>

\* dialState.supersede closes the raw socket: a websocket that runs on it already
\* learns of it from its pumps (Loses).
Supersede(c) ==
    LET dial == other[c] IN
    /\ task[c] = "tls"
    /\ superseded' = [superseded EXCEPT ![dial] = TRUE]
    /\ socket' = [socket EXCEPT ![dial] = IF @ = "open" THEN "cut" ELSE @]
    /\ other' = [other EXCEPT ![c] = None]
    /\ Goto(c, "http")
    /\ UNCHANGED <<hubVars, hs, once, report, retiring, downVars>>

\* ServeHTTP: the limit is checked in two critical sections, the second for
\* the exemption of a SKI that already has a connection.
HttpLimit(c) ==
    /\ task[c] = "http"
    /\ Goto(c, IF Cardinality(RegisteredSKIs) < MaxConnections THEN "upgrade" ELSE "double")
    /\ UNCHANGED <<hubVars, superseded, other, connVars, downVars>>

HttpDouble(c) ==
    /\ task[c] = "double"
    /\ Goto(c, IF Connected(RemoteSKI[c]) THEN "upgrade" ELSE "ended")
    /\ UNCHANGED <<hubVars, superseded, other, connVars, downVars>>

Upgrade(c) ==
    /\ task[c] = "upgrade"
    /\ socket' = [socket EXCEPT ![c] = "open"]
    /\ Goto(c, "run")
    /\ UNCHANGED <<hubVars, superseded, other, hs, once, report, retiring, downVars>>

\* The upgrade fails, the sub protocol or certificate is not accepted, or the
\* identifiers conflict with the service registry.
UpgradeRejects(c) ==
    /\ task[c] = "upgrade"
    /\ Goto(c, "ended")
    /\ UNCHANGED <<hubVars, superseded, other, connVars, downVars>>

-----------------------------------------------------------------------------
(* startShipConnection, for both roles. *)

\* Mutant of Done: every attempt ends with the deferred delete of a dial.
DoneAsDial(c) == "dialEnd"

\* The end of connectFoundService, and that of ServeHTTP.
Done(c) == IF c \in Outgoing THEN "dialEnd" ELSE "ended"

\* NewConnectionHandler starts the pumps, Run reports the first states.
Run(c) ==
    /\ task[c] = "run"
    /\ hs' = [hs EXCEPT ![c] = "handshake"]
    /\ Goto(c, "register")
    /\ UNCHANGED <<hubVars, superseded, other, socket, once, report, retiring, downVars>>

\* The critical section of registerConnection: the swap.
Register(c) ==
    LET s == RemoteSKI[c] IN
    /\ task[c] = "register"
    /\ connections' = [connections EXCEPT ![s] = c]
    /\ other' = [other EXCEPT ![c] = connections[s]]
    /\ Goto(c, IF Connected(s) THEN "retire" ELSE Done(c))
    /\ UNCHANGED <<initiating, superseded, connVars, downVars>>

\* retire() spawns a goroutine for the displaced connection.
Retire(c) ==
    /\ task[c] = "retire"
    /\ retiring' = [retiring EXCEPT ![other[c]] = "spawned"]
    /\ other' = [other EXCEPT ![c] = None]
    /\ Goto(c, Done(c))
    /\ UNCHANGED <<hubVars, superseded, socket, hs, once, report, downVars>>

-----------------------------------------------------------------------------
(* Hub.Shutdown and the next Hub.Start. *)

\* The HTTP server stops accepting.
StopServer ==
    /\ MayShutdown /\ down = "no" /\ down' = "server"
    /\ UNCHANGED <<hubVars, superseded, task, other, connVars, toClose>>

\* The delay timers are gone; the connections are copied under muxCon, and a
\* goroutine per connection is started to close it.
CloseAll ==
    /\ down = "server" /\ down' = "closing"
    /\ toClose' = toClose \cup {c \in Conn : connections[RemoteSKI[c]] = c}
    /\ UNCHANGED <<hubVars, superseded, task, other, connVars>>

CloseOne(c) ==
    /\ c \in toClose
    /\ toClose' = toClose \ {c}
    /\ Close(c, FALSE)
    /\ UNCHANGED <<hubVars, superseded, task, other, hs, retiring, down>>

\* Shutdown has waited for the goroutines (at most 3 seconds) and the hub is
\* started again.
Restart ==
    /\ down = "closing" /\ down' = "no"
    /\ UNCHANGED <<hubVars, superseded, task, other, connVars, toClose>>

-----------------------------------------------------------------------------

\* The next step of the goroutine that establishes an attempt: its own steps,
\* and the network operations that end one way or the other.
Advance(c) ==
    \/ DialLimit(c) \/ DialAdopt(c) \/ DialFails(c) \/ DialSucceeds(c)
    \/ DialRejects(c) \/ DialAccepts(c) \/ DialAwaited(c) \/ DialEnd(c)
    \/ Supersede(c) \/ HttpLimit(c) \/ HttpDouble(c)
    \/ Upgrade(c) \/ UpgradeRejects(c)
    \/ Run(c) \/ Register(c) \/ Retire(c)

Retiring(c) == RetireDecides(c) \/ RetireCloses(c)

Reporting(c, k) == DelayOver(c, k) \/ Unregister(c, k) \/ CheckDisplaced(c, k)

\* What the peer, the network and the application do.
Environment(c) ==
    \/ DialStart(c) \/ Incoming(c)
    \/ Completes(c) \/ Fails(c) \/ Loses(c)
    \/ PeerAnnounces(c) \/ PeerConfirms(c)

Next ==
    \/ \E c \in Conn : \/ Advance(c) \/ Retiring(c) \/ ReadError(c)
                       \/ CloseOne(c) \/ Environment(c)
    \/ \E c \in Conn, k \in Reporters : Reporting(c, k)
    \/ \E s \in SKI : Disconnect(s)
    \/ StopServer \/ CloseAll \/ Restart

Spec == Init /\ [][Next]_vars

\* Goroutines are scheduled, and every dial and upgrade has a time-out
\* (HandshakeTimeout, ReadHeaderTimeout).  That some goroutine of a connection
\* goes on is enough: each of them has finitely many steps to do.
\* Nothing is assumed of the peer, the network or the application.
Fairness ==
    \A c \in Conn :
        /\ WF_vars(\/ Advance(c) \/ Retiring(c) \/ ReadError(c)
                   \/ \E k \in Reporters : Reporting(c, k))
        /\ WF_vars(CloseOne(c))

FairSpec == Spec /\ Fairness

-----------------------------------------------------------------------------
(* Properties. *)

\* registerConnection retires "everything else for that SKI" (dcAdopt): a
\* connection that is up and has been registered once is the registered one, or
\* somebody is on the way to close it.  No displaced connection is forgotten,
\* whatever the order of registrations, closes and retirements.
LiveIsAccountedFor ==
    \A c \in Conn :
        Started(c) /\ socket[c] = "open" =>
            \/ connections[RemoteSKI[c]] = c
            \/ task[c] = "register"
            \/ once[c]
            \/ report[c]["peer"] = "delay"
            \/ retiring[c] # "no"
            \/ \E d \in Conn : task[d] = "retire" /\ other[d] = c

\* The in-flight guard of connectFoundService: at any time at most one dial per
\* SKI is under way, and it is the one in connectionsInitiating.  The deferred
\* delete goes by SKI, so with two of them it would drop the other's entry, and
\* an incoming connection would have nothing to supersede.
OneDialPerSKI ==
    \A c \in Outgoing :
        task[c] \notin {"idle", "ended"} => initiating[RemoteSKI[c]] = c

\* SHIP 12.2.2 as verifyPeerCertificate implements it: once an incoming
\* connection has superseded a dial, that dial has no open socket, whether the
\* socket was handed to dialState before or after.
SupersededHasNoSocket ==
    \A c \in Conn : superseded[c] => socket[c] # "open"

\* UnregisterConnectionIfMatch: "we only remove the specific connection instance
\* that is being closed".  An entry of the registry is replaced by a newer
\* connection, which then holds it to retire it, or removed by the report of its
\* own end; the registry never passes through an empty state on a replacement.
LeavesByItsOwnEnd(s) ==
    LET c == connections[s] IN
    Connected(s) /\ connections'[s] # c =>
        IF connections'[s] = None
        THEN \E k \in Reporters : report[c][k] = "unregister" /\ report'[c][k] = "told"
        ELSE other'[connections'[s]] = c

EntryLeavesByItsOwnEnd == [][\A s \in SKI : LeavesByItsOwnEnd(s)]_vars

\* A connection that lost a double connection is eventually closed.
RetiredIsClosed ==
    \A c \in Conn : retiring[c] # "no" ~> socket[c] # "open"

\* A dial leaves connectionsInitiating, superseded or not: the SKI can be
\* dialled again.
DialSlotIsFreed ==
    \A s \in SKI : initiating[s] # None ~> initiating[s] = None

\* Somebody waits for himself in shutdownOnce: the end is never reported.
Hangs(c) == once[c] /\ report[c]["own"] = "idle"

\* A connection that Shutdown has copied while it was up counts as closed in the
\* end, also when it is closing or being closed for another reason, and leaves the
\* registry, unless a safe close (DisconnectSKI, retire) has come between the loss
\* of the connection and its report and hangs.
CopiedIsClosed ==
    \A c \in Conn :
        c \in toClose /\ socket[c] = "open" ~>
            /\ socket[c] # "open"
            /\ connections[RemoteSKI[c]] # c \/ Hangs(c)

-----------------------------------------------------------------------------
(* What the repository says and the code does not do. *)

\* docs/CONNECTION_LIFECYCLE.md: a trusted device is reconnected when its
\* "connection [is] lost due to network issues".  A connection that is lost
\* before startShipConnection registers it has had its HandleConnectionClosed:
\* it stays registered for good, and its SKI counts as connected.
DeadEntryIsRemoved ==
    \A s \in SKI :
        LET c == connections[s] IN
        Connected(s) =>
            \/ socket[c] = "open" \/ ~once[c]
            \/ \E k \in Reporters : report[c][k] \in {"delay", "unregister"}
=============================================================================
