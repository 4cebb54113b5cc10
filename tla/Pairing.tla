-------------------------------- MODULE Pairing --------------------------------
(***************************************************************************)
(* The SHIP Pairing Service of a node that is paired with (devA): the      *)
(* listener, the history of accepted digests, the trusted control units    *)
(* (addCu devices) and the replacement window.                             *)
(*                                                                         *)
(* A control unit announces a request over mDNS.  The mDNS provider's      *)
(* goroutine hands it to the listener, and every start of the listener     *)
(* spawns a goroutine that evaluates the requests announced so far.        *)
(* Evaluation calls back into the hub, which may replace the trusted       *)
(* control unit.  The listener is stopped by an accepted request, by a     *)
(* control unit that connects and by the user, and started again when a    *)
(* trusted control unit has been offline for the replacement window or is  *)
(* removed.  All these goroutines interleave; a step is one critical       *)
(* section of the listener, the registry, the tracker or the history.      *)
(*                                                                         *)
(* The digest stands for the request.  Requests that fail validation have  *)
(* no effect on the state and are left out, as are requests for others.    *)
(* Durations are abstracted: a timer that runs may expire at any time.     *)
(* Auto-accept is off: with it, every device that says hello is trusted.   *)
(***************************************************************************)
EXTENDS Naturals, FiniteSets

CONSTANTS
    Device,         \* control units, by fingerprint
    ShipID,         \* ShipID[d]: a device keeps it when its certificate changes
    Request,        \* pairing requests; at most as many as the history holds
    From,           \* From[r]: the device that announces r
    Snapshots,      \* the goroutines that evaluate announced requests, at a time
    Known,          \* the devices the application registers by itself
    Environments,   \* the environments of interest: one is chosen at the start
    None            \* no device

\* The devices that connect, the requests that come, and what the application may do:
\* register a device, remove one, cancel its pairing, shut the hub down.
Environment == [online : SUBSET Device, asking : SUBSET Request,
                may : SUBSET {"register", "remove", "cancel", "shutdown"}]

\* The goroutine of the mDNS provider, which browses for requests.
Browser == "browser"

ASSUME PairingAssumption ==
    /\ From \in [Request -> Device]
    /\ DOMAIN ShipID = Device
    /\ Known \subseteq Device
    /\ Environments \subseteq Environment
    /\ None \notin Device
    /\ Browser \notin Snapshots

VARIABLES
    env,        \* the environment, which does not change
    hub,        \* where Start and Shutdown stand
    announced,  \* MdnsManager.pairingEntries
    callback,   \* MdnsManager.pairingCallback is set
    listening,  \* PairingListener.listening; the secret is there when it is
    watched,    \* a goroutine of StartListening waits for the end of pairingCtx
    history,    \* the digests the ring buffer holds
    trust,      \* the entry of each device in Hub.remoteServices
    conn,       \* the device's connection
    eval,       \* the goroutines that evaluate requests
    tracker,    \* AddCuReplacementTracker: the device it tracks, its timer
    loose,      \* devices whose timer runs but is not the tracker's any more
    expiry,     \* the goroutine of the callback of an expired timer
    app,        \* RegisterRemoteService and UnregisterRemoteService
    opening,    \* HandleShipHandshakeStateUpdate, per device
    closing     \* HandleConnectionClosed, per device

listenerVars == <<announced, callback, listening, watched, history>>
trackerVars == <<tracker, loose>>
connVars == <<conn, opening, closing>>
vars == <<env, hub, listenerVars, trust, eval, trackerVars, expiry, app, connVars>>

-----------------------------------------------------------------------------

Evaluators == Snapshots \cup {Browser}

\* The evaluation of a request, from the listener through the history to
\* OnPairingSuccess and back.
EvalSteps == {"idle", "snapshot", "deliver", "check", "validate", "record",
              "trust", "window", "untrust", "remove", "stopTimer", "merge",
              "lookup", "arm", "stop"}

HubPhases == {"new", "listener", "timers", "up", "cancel", "service", "mdns",
              "connections", "off"}

TypeOK ==
    /\ env \in Environments
    /\ hub \in HubPhases
    /\ announced \subseteq Request
    /\ {callback, listening, watched} \subseteq BOOLEAN
    /\ history \subseteq Request
    /\ trust \in [Device -> {"unknown", "untrusted", "trusted"}]
    /\ conn \in [Device -> {"none", "pending", "aborted", "ready", "hello", "complete"}]
    /\ eval \in [Evaluators -> [at : EvalSteps, todo : SUBSET Request,
                                req : Request \cup {None},
                                old : Device \cup {None}, gone : BOOLEAN]]
    /\ tracker \in [dev : Device \cup {None}, running : BOOLEAN]
    /\ tracker.running => tracker.dev # None
    /\ loose \subseteq Device
    /\ expiry \in {"idle", "clear", "reactivate"}
    /\ app \in [at : {"idle", "registered", "lookup", "arm", "remove", "stopTimer",
                      "reactivate", "close", "untrust"},
                dev : Device \cup {None}, gone : BOOLEAN]
    /\ opening \in [Device -> {"idle", "stopTimer", "stopListener"}]
    /\ closing \in [Device -> {"idle", "complete", "incomplete", "arm"}]

Trusted == {d \in Device : trust[d] = "trusted"}

\* Hub.hasStarted, and MdnsManager.isStarted.
Started == hub \in {"up", "cancel", "service", "mdns", "connections"}
MdnsStarted == hub \notin {"new", "connections", "off"}

\* pairingCtx is cancelled by Shutdown.
Cancelled == hub \in {"service", "mdns", "connections", "off"}

Idle == [at |-> "idle", todo |-> {}, req |-> None, old |-> None, gone |-> FALSE]

\* The application has restored some of its devices before Start.
Init ==
    /\ env \in Environments
    /\ hub = "new"
    /\ announced = {} /\ callback = FALSE
    /\ listening = FALSE /\ watched = FALSE
    /\ history = {}
    /\ trust \in [Device -> {"unknown", "trusted"}]
    /\ Trusted \subseteq Known
    /\ conn = [d \in Device |-> "none"]
    /\ eval = [e \in Evaluators |-> Idle]
    /\ tracker = [dev |-> None, running |-> FALSE]
    /\ loose = {}
    /\ expiry = "idle"
    /\ app = [at |-> "idle", dev |-> None, gone |-> FALSE]
    /\ opening = [d \in Device |-> "idle"]
    /\ closing = [d \in Device |-> "idle"]

-----------------------------------------------------------------------------
(* The tracker: one device and one timer. *)

\* A timer that has fired is not stopped.
StartTimer(d) ==
    /\ tracker' = [dev |-> d, running |-> TRUE]
    /\ UNCHANGED loose

\* Mutant of StopTimer: the device is forgotten, and its timer runs on.
StopTimerHalf(d) ==
    /\ tracker' = IF tracker.dev # None /\ ShipID[tracker.dev] = ShipID[d]
                  THEN [tracker EXCEPT !.dev = None] ELSE tracker
    /\ UNCHANGED loose

\* Devices are told apart by their SHIP ID.
StopTimer(d) ==
    /\ tracker' = IF tracker.dev # None /\ ShipID[tracker.dev] = ShipID[d]
                  THEN [dev |-> None, running |-> FALSE] ELSE tracker
    /\ UNCHANGED loose

IsInReplacementWindow == tracker.dev # None

\* The tracker's timer expires, or one that has lost its place in the tracker.
Expire ==
    /\ expiry = "idle"
    /\ \/ tracker.running /\ tracker' = [tracker EXCEPT !.running = FALSE] /\ UNCHANGED loose
       \/ \E d \in loose : loose' = loose \ {d} /\ UNCHANGED tracker
    /\ expiry' = "clear"
    /\ UNCHANGED <<hub, listenerVars, trust, eval, app, connVars>>

\* The callback clears the tracker, whatever it tracks by now.
ExpiryClears ==
    /\ expiry = "clear" /\ expiry' = "reactivate"
    /\ loose' = loose \cup (IF tracker.running THEN {tracker.dev} ELSE {})
    /\ tracker' = [dev |-> None, running |-> FALSE]
    /\ UNCHANGED <<hub, listenerVars, trust, eval, app, connVars>>

-----------------------------------------------------------------------------
(* Starting and stopping the listener. *)

\* Mutant of Enable: the requests announced so far are not looked at.
EnableBlind ==
    IF listening \/ ~MdnsStarted
    THEN UNCHANGED <<listening, callback, watched, eval>>
    ELSE listening' = TRUE /\ callback' = TRUE /\ watched' = TRUE /\ UNCHANGED eval

\* Mutant of Enable: nothing waits for the end of the context.
EnableUnwatched ==
    IF listening \/ ~MdnsStarted
    THEN UNCHANGED <<listening, callback, watched, eval>>
    ELSE /\ listening' = TRUE /\ callback' = TRUE /\ UNCHANGED watched
         /\ \E e \in Snapshots :
               /\ eval[e].at = "idle"
               /\ eval' = [eval EXCEPT ![e].at = "snapshot"]

\* enablePairingListener and StartListening, under muxPairingListener and the
\* listener's mutex.  The callback is registered before the goroutine that reads
\* the requests announced so far is spawned; the search fails when mDNS is down.
Enable ==
    IF listening \/ ~MdnsStarted
    THEN UNCHANGED <<listening, callback, watched, eval>>
    ELSE /\ listening' = TRUE /\ callback' = TRUE /\ watched' = TRUE
         /\ \E e \in Snapshots :
               /\ eval[e].at = "idle"
               /\ eval' = [eval EXCEPT ![e].at = "snapshot"]

\* stopPairingListener, StopListening
StopListener == listening' = FALSE

\* reactivatePairingListener, on the time-out of the replacement window: whether
\* the device is still trusted makes no difference.
ExpiryReactivates ==
    /\ expiry = "reactivate" /\ expiry' = "idle"
    /\ Enable
    /\ UNCHANGED <<hub, announced, history, trust, trackerVars, app, connVars>>

\* pairingCtx is done: the goroutine of StartListening stops the listener.
Watch ==
    /\ watched /\ Cancelled
    /\ watched' = FALSE
    /\ StopListener
    /\ UNCHANGED <<hub, announced, callback, history, trust, eval, trackerVars, expiry, app, connVars>>

-----------------------------------------------------------------------------
(* Requests come and go: processShipPairingMdnsEntry. *)

\* A new request replaces the one its device has announced before.
Announce(r) ==
    /\ r \in env.asking
    /\ MdnsStarted /\ eval[Browser].at = "idle"
    /\ r \notin announced
    /\ announced' = {q \in announced : From[q] # From[r]} \cup {r}
    /\ eval' = [eval EXCEPT ![Browser].at = "deliver", ![Browser].todo = {r}]
    /\ UNCHANGED <<hub, callback, listening, watched, history, trust, trackerVars, expiry, app, connVars>>

Withdraw(r) ==
    /\ MdnsStarted /\ eval[Browser].at = "idle"
    /\ r \in announced
    /\ announced' = announced \ {r}
    /\ UNCHANGED <<hub, callback, listening, watched, history, trust, eval, trackerVars, expiry, app, connVars>>

\* The callback is read after the entry has been stored.
Deliver ==
    /\ eval[Browser].at = "deliver"
    /\ eval' = [eval EXCEPT ![Browser] = IF callback THEN [@ EXCEPT !.at = "check"] ELSE Idle]
    /\ UNCHANGED <<hub, listenerVars, trust, trackerVars, expiry, app, connVars>>

\* evaluateCurrentEntries
Snapshot(e) ==
    /\ eval[e].at = "snapshot"
    /\ eval' = [eval EXCEPT ![e] = IF MdnsStarted THEN [@ EXCEPT !.at = "check", !.todo = announced]
                                   ELSE Idle]
    /\ UNCHANGED <<hub, listenerVars, trust, trackerVars, expiry, app, connVars>>

-----------------------------------------------------------------------------
(* The evaluation of a request. *)

GoOn(e, step) == eval' = [eval EXCEPT ![e].at = step]

\* The request has failed: the next one, if there is one.
Fail(e) == eval' = [eval EXCEPT ![e].at = "check", ![e].req = None]

\* handleMdnsDiscovery: a listener that has been stopped ends the evaluation.
Check(e) ==
    /\ eval[e].at = "check"
    /\ \/ /\ ~listening \/ eval[e].todo = {}
          /\ eval' = [eval EXCEPT ![e] = Idle]
       \/ /\ listening
          /\ \E r \in eval[e].todo :
                eval' = [eval EXCEPT ![e].at = "validate", ![e].req = r, ![e].todo = @ \ {r}]
    /\ UNCHANGED <<hub, listenerVars, trust, trackerVars, expiry, app, connVars>>

\* The secret is copied; the digest is valid unless the listener has been
\* stopped, which clears the secret.  HasSeenDigest follows; as the history only
\* grows and a failure changes nothing, the two make one step.
Validate(e) ==
    /\ eval[e].at = "validate"
    /\ IF listening /\ eval[e].req \notin history THEN GoOn(e, "record") ELSE Fail(e)
    /\ UNCHANGED <<hub, listenerVars, trust, trackerVars, expiry, app, connVars>>

\* Mutant of Record: the hub is asked, and the digest is not recorded.
RecordNothing(e) ==
    /\ eval[e].at = "record"
    /\ GoOn(e, "trust")
    /\ UNCHANGED <<hub, listenerVars, trust, trackerVars, expiry, app, connVars>>

\* RecordPairing
Record(e) ==
    /\ eval[e].at = "record"
    /\ history' = history \cup {eval[e].req}
    /\ GoOn(e, "trust")
    /\ UNCHANGED <<hub, announced, callback, listening, watched, trust, trackerVars, expiry, app, connVars>>

\* OnPairingSuccess: GetTrustedAddCuDevice.  Another device, or another
\* certificate of the same device, is to be replaced.
FindTrusted(e) ==
    LET d == From[eval[e].req] IN
    /\ eval[e].at = "trust"
    /\ \/ Trusted = {} /\ GoOn(e, "merge")
       \/ \E old \in Trusted :
             IF old = d THEN GoOn(e, "merge")
             ELSE eval' = [eval EXCEPT ![e].at = "window", ![e].old = old]
    /\ UNCHANGED <<hub, listenerVars, trust, trackerVars, expiry, app, connVars>>

\* In the replacement window the request is ignored, and the listener stopped.
Window(e) ==
    /\ eval[e].at = "window"
    /\ eval' = IF IsInReplacementWindow
               THEN [eval EXCEPT ![e].at = "stop", ![e].old = None, ![e].gone = FALSE]
               ELSE [eval EXCEPT ![e].at = "untrust"]
    /\ UNCHANGED <<hub, listenerVars, trust, trackerVars, expiry, app, connVars>>

\* The entry is held by pointer: one that is out of the registry is changed
\* without effect.
Untrust(e) ==
    LET d == eval[e].old IN
    /\ eval[e].at = "untrust"
    /\ trust' = IF eval[e].gone THEN trust ELSE [trust EXCEPT ![d] = "untrusted"]
    /\ GoOn(e, "remove")
    /\ UNCHANGED <<hub, listenerVars, trackerVars, expiry, app, connVars>>

\* The goroutines that hold the entry of d hold one that is out of the registry.
Detach(d, ev, a) ==
    /\ eval' = [e \in Evaluators |-> IF ev[e].old = d THEN [ev[e] EXCEPT !.gone = TRUE] ELSE ev[e]]
    /\ app' = IF a.dev = d THEN [a EXCEPT !.gone = TRUE] ELSE a

\* removeServiceEntry
Remove(e) ==
    LET d == eval[e].old
        next == [eval EXCEPT ![e].at = "stopTimer"]
    IN
    /\ eval[e].at = "remove"
    /\ IF eval[e].gone
       THEN eval' = next /\ UNCHANGED <<trust, app>>
       ELSE trust' = [trust EXCEPT ![d] = "unknown"] /\ Detach(d, next, app)
    /\ UNCHANGED <<hub, listenerVars, trackerVars, expiry, connVars>>

StopOldTimer(e) ==
    /\ eval[e].at = "stopTimer"
    /\ StopTimer(eval[e].old)
    /\ eval' = [eval EXCEPT ![e].at = "merge", ![e].old = None, ![e].gone = FALSE]
    /\ UNCHANGED <<hub, listenerVars, trust, expiry, app, connVars>>

\* mergeOrAddService refuses a device whose SHIP ID is in the registry with
\* another fingerprint.
Conflict(d) == \E x \in Device \ {d} : trust[x] # "unknown" /\ ShipID[x] = ShipID[d]

Merge(e) ==
    LET d == From[eval[e].req] IN
    /\ eval[e].at = "merge"
    /\ IF Conflict(d)
       THEN GoOn(e, "stop") /\ UNCHANGED trust
       ELSE GoOn(e, "lookup") /\ trust' = [trust EXCEPT ![d] = "trusted"]
    /\ UNCHANGED <<hub, listenerVars, trackerVars, expiry, app, connVars>>

\* connectionForService, and the timer when there is no connection.
Lookup(e) ==
    /\ eval[e].at = "lookup"
    /\ GoOn(e, IF conn[From[eval[e].req]] = "none" THEN "arm" ELSE "stop")
    /\ UNCHANGED <<hub, listenerVars, trust, trackerVars, expiry, app, connVars>>

Arm(e) ==
    /\ eval[e].at = "arm"
    /\ StartTimer(From[eval[e].req])
    /\ GoOn(e, "stop")
    /\ UNCHANGED <<hub, listenerVars, trust, expiry, app, connVars>>

\* stopListeningInternal; the remaining requests are not evaluated.
Stop(e) ==
    /\ eval[e].at = "stop"
    /\ StopListener
    /\ eval' = [eval EXCEPT ![e] = Idle]
    /\ UNCHANGED <<hub, announced, callback, watched, history, trust, trackerVars, expiry, app, connVars>>

-----------------------------------------------------------------------------
(* The application. *)

AppIdle == [at |-> "idle", dev |-> None, gone |-> FALSE]

\* RegisterRemoteService with pairing type addCu: mergeOrAddService.
Register(d) ==
    /\ "register" \in env.may /\ d \in Known /\ app.at = "idle"
    /\ ~Conflict(d)
    /\ trust' = [trust EXCEPT ![d] = "trusted"]
    /\ app' = [at |-> "registered", dev |-> d, gone |-> FALSE]
    /\ UNCHANGED <<hub, listenerVars, eval, trackerVars, expiry, connVars>>

\* checkHasStarted waits for a Start under way.
Registered ==
    /\ app.at = "registered" /\ hub \notin {"listener", "timers"}
    /\ IF Started /\ trust[app.dev] = "trusted" /\ ~app.gone
       THEN StopListener /\ app' = [app EXCEPT !.at = "lookup"]
       ELSE UNCHANGED listening /\ app' = AppIdle
    /\ UNCHANGED <<hub, announced, callback, watched, history, trust, eval, trackerVars, expiry, connVars>>

RegisterLooksUp ==
    /\ app.at = "lookup"
    /\ app' = IF conn[app.dev] = "none" THEN [app EXCEPT !.at = "arm"] ELSE AppIdle
    /\ UNCHANGED <<hub, listenerVars, trust, eval, trackerVars, expiry, connVars>>

RegisterArms ==
    /\ app.at = "arm"
    /\ StartTimer(app.dev)
    /\ app' = AppIdle
    /\ UNCHANGED <<hub, listenerVars, trust, eval, expiry, connVars>>

\* UnregisterRemoteService: SetTrusted(false), removeServiceEntry, StopTimer,
\* reactivatePairingListener, CloseConnection.
Unregister(d) ==
    /\ "remove" \in env.may /\ app.at = "idle"
    /\ trust[d] # "unknown"
    /\ trust' = [trust EXCEPT ![d] = "untrusted"]
    /\ app' = [at |-> "remove", dev |-> d, gone |-> FALSE]
    /\ UNCHANGED <<hub, listenerVars, eval, trackerVars, expiry, connVars>>

UnregisterRemoves ==
    LET next == [app EXCEPT !.at = "stopTimer"] IN
    /\ app.at = "remove"
    /\ IF app.gone
       THEN app' = next /\ UNCHANGED <<trust, eval>>
       ELSE trust' = [trust EXCEPT ![app.dev] = "unknown"] /\ Detach(app.dev, eval, next)
    /\ UNCHANGED <<hub, listenerVars, trackerVars, expiry, connVars>>

UnregisterStopsTimer ==
    /\ app.at = "stopTimer"
    /\ StopTimer(app.dev)
    /\ app' = [app EXCEPT !.at = "reactivate"]
    /\ UNCHANGED <<hub, listenerVars, trust, eval, expiry, connVars>>

UnregisterReactivates ==
    /\ app.at = "reactivate"
    /\ Enable
    /\ app' = [app EXCEPT !.at = "close"]
    /\ UNCHANGED <<hub, announced, history, trust, trackerVars, expiry, connVars>>

\* CancelPairing: a handshake that is not beyond the hello phase is aborted, ...
Cancel(d) ==
    /\ "cancel" \in env.may /\ app.at = "idle"
    /\ conn' = [conn EXCEPT ![d] = IF @ \in {"pending", "ready"} THEN "aborted" ELSE @]
    /\ app' = [at |-> "untrust", dev |-> d, gone |-> FALSE]
    /\ UNCHANGED <<hub, listenerVars, trust, eval, trackerVars, expiry, opening, closing>>

\* ... and the entry is kept.
CancelUntrusts ==
    /\ app.at = "untrust" /\ app' = AppIdle
    /\ trust' = [trust EXCEPT ![app.dev] = IF @ = "trusted" THEN "untrusted" ELSE @]
    /\ UNCHANGED <<hub, listenerVars, eval, trackerVars, expiry, connVars>>

-----------------------------------------------------------------------------
(* Connections of the devices. *)

\* A connection is registered, in either direction; only a trusted device is dialled.
Connect(d) ==
    /\ d \in env.online /\ Started /\ hub # "connections" /\ conn[d] = "none"
    /\ \/ conn' = [conn EXCEPT ![d] = "pending"]
       \/ trust[d] = "trusted" /\ conn' = [conn EXCEPT ![d] = "ready"]
    /\ UNCHANGED <<hub, listenerVars, trust, eval, trackerVars, expiry, app, opening, closing>>

\* IsRemoteServiceForSKIPaired: a trusted device is told that this one is ready ...
Hello(d) ==
    /\ conn[d] = "pending" /\ trust[d] = "trusted"
    /\ conn' = [conn EXCEPT ![d] = "ready"]
    /\ UNCHANGED <<hub, listenerVars, trust, eval, trackerVars, expiry, app, opening, closing>>

\* ... and is trusted, again, when it is ready as well, whatever has become of its
\* trust in the meantime: SetTrusted(true), unless the entry is gone.
HelloOk(d) ==
    /\ conn[d] = "ready"
    /\ conn' = [conn EXCEPT ![d] = "hello"]
    /\ trust' = [trust EXCEPT ![d] = IF @ = "unknown" THEN @ ELSE "trusted"]
    /\ UNCHANGED <<hub, listenerVars, eval, trackerVars, expiry, app, opening, closing>>

\* HandleShipHandshakeStateUpdate(SmeStateComplete): StopAddCuReplacementTimer,
\* stopPairingListener.  A device that is not in the registry is ignored.
Complete(d) ==
    /\ conn[d] = "hello" /\ opening[d] = "idle"
    /\ conn' = [conn EXCEPT ![d] = "complete"]
    /\ opening' = [opening EXCEPT ![d] = IF trust[d] = "unknown" THEN "idle" ELSE "stopTimer"]
    /\ UNCHANGED <<hub, listenerVars, trust, eval, trackerVars, expiry, app, closing>>

CompleteStopsTimer(d) ==
    /\ opening[d] = "stopTimer"
    /\ StopTimer(d)
    /\ opening' = [opening EXCEPT ![d] = "stopListener"]
    /\ UNCHANGED <<hub, listenerVars, trust, eval, expiry, app, conn, closing>>

CompleteStopsListener(d) ==
    /\ opening[d] = "stopListener"
    /\ StopListener
    /\ opening' = [opening EXCEPT ![d] = "idle"]
    /\ UNCHANGED <<hub, announced, callback, watched, history, trust, eval, trackerVars, expiry, app, conn, closing>>

\* The connection of d leaves the registry.
Closed(d) == [closing EXCEPT ![d] = IF conn[d] = "complete" THEN "complete" ELSE "incomplete"]

Close(d) ==
    /\ conn[d] # "none" /\ closing[d] = "idle"
    /\ conn' = [conn EXCEPT ![d] = "none"]
    /\ closing' = Closed(d)
    /\ UNCHANGED <<hub, listenerVars, trust, eval, trackerVars, expiry, app, opening>>

\* UnregisterRemoteService, the close: at once, or announced in data exchange.
UnregisterCloses ==
    LET d == app.dev IN
    /\ app.at = "close" /\ app' = AppIdle
    /\ IF conn[d] \in {"pending", "aborted", "ready", "hello"}
       THEN /\ closing[d] = "idle" /\ closing' = Closed(d)
            /\ conn' = [conn EXCEPT ![d] = "none"]
       ELSE UNCHANGED <<conn, closing>>
    /\ UNCHANGED <<hub, listenerVars, trust, eval, trackerVars, expiry, opening>>

\* HandleConnectionClosed: the service is looked up, then the timer is started.
ClosedLooksUp(d) ==
    /\ closing[d] \in {"complete", "incomplete"}
    /\ closing' = [closing EXCEPT ![d] =
           IF trust[d] = "trusted" \/ (trust[d] = "untrusted" /\ closing[d] = "complete")
           THEN "arm" ELSE "idle"]
    /\ UNCHANGED <<hub, listenerVars, trust, eval, trackerVars, expiry, app, conn, opening>>

ClosedArms(d) ==
    /\ closing[d] = "arm"
    /\ StartTimer(d)
    /\ closing' = [closing EXCEPT ![d] = "idle"]
    /\ UNCHANGED <<hub, listenerVars, trust, eval, expiry, app, conn, opening>>

-----------------------------------------------------------------------------
(* Hub.Start and Hub.Shutdown. *)

Start ==
    /\ hub = "new" /\ app.at = "idle" /\ hub' = "listener"
    /\ UNCHANGED <<listenerVars, trust, eval, trackerVars, expiry, app, connVars>>

\* startPairingService: no listener while a control unit is trusted.
StartListener ==
    /\ hub = "listener" /\ hub' = "timers"
    /\ IF Trusted = {} THEN Enable ELSE UNCHANGED <<listening, callback, watched, eval>>
    /\ UNCHANGED <<announced, history, trust, trackerVars, expiry, app, connVars>>

\* startAddCuReplacementTimersForOfflineDevices: of several devices the last one
\* in the registry is tracked.
StartTimers ==
    LET offline == {d \in Trusted : conn[d] = "none"} IN
    /\ hub = "timers" /\ hub' = "up"
    /\ IF offline = {} THEN UNCHANGED trackerVars ELSE \E d \in offline : StartTimer(d)
    /\ UNCHANGED <<listenerVars, trust, eval, expiry, app, connVars>>

\* Shutdown: StopAll, pairingCancel, pairingService.Shutdown, mdns.Shutdown, and
\* the connections.
ShutdownStopsTimer ==
    /\ "shutdown" \in env.may /\ hub = "up" /\ hub' = "cancel"
    /\ tracker' = [dev |-> None, running |-> FALSE]
    /\ UNCHANGED <<listenerVars, trust, eval, loose, expiry, app, connVars>>

ShutdownCancels ==
    /\ hub = "cancel" /\ hub' = "service"
    /\ UNCHANGED <<listenerVars, trust, eval, trackerVars, expiry, app, connVars>>

ShutdownStopsListener ==
    /\ hub = "service" /\ hub' = "mdns"
    /\ StopListener
    /\ UNCHANGED <<announced, callback, watched, history, trust, eval, trackerVars, expiry, app, connVars>>

ShutdownStopsMdns ==
    /\ hub = "mdns" /\ hub' = "connections"
    /\ announced' = {} /\ callback' = FALSE
    /\ UNCHANGED <<listening, watched, history, trust, eval, trackerVars, expiry, app, connVars>>

ShutdownClosesConnections ==
    LET open == {d \in Device : conn[d] # "none"} IN
    /\ hub = "connections" /\ hub' = "off"
    /\ \A d \in open : closing[d] = "idle"
    /\ conn' = [d \in Device |-> "none"]
    /\ closing' = [d \in Device |-> IF d \in open THEN Closed(d)[d] ELSE closing[d]]
    /\ UNCHANGED <<listenerVars, trust, eval, trackerVars, expiry, app, opening>>

-----------------------------------------------------------------------------

Evaluate(e) ==
    \/ Snapshot(e) \/ Check(e) \/ Validate(e) \/ Record(e)
    \/ FindTrusted(e) \/ Window(e) \/ Untrust(e) \/ Remove(e) \/ StopOldTimer(e)
    \/ Merge(e) \/ Lookup(e) \/ Arm(e) \/ Stop(e)

AppStep ==
    \/ Registered \/ RegisterLooksUp \/ RegisterArms
    \/ UnregisterRemoves \/ UnregisterStopsTimer \/ UnregisterReactivates \/ UnregisterCloses
    \/ CancelUntrusts

Opening(d) == CompleteStopsTimer(d) \/ CompleteStopsListener(d)
Closing(d) == ClosedLooksUp(d) \/ ClosedArms(d)

HubStep ==
    \/ StartListener \/ StartTimers
    \/ ShutdownCancels \/ ShutdownStopsListener \/ ShutdownStopsMdns
    \/ ShutdownClosesConnections

Step ==
    \/ \E e \in Evaluators : Evaluate(e)
    \/ Deliver \/ Watch \/ AppStep \/ HubStep
    \/ Expire \/ ExpiryClears \/ ExpiryReactivates
    \/ Start \/ ShutdownStopsTimer
    \/ \E r \in Request : Announce(r) \/ Withdraw(r)
    \/ \E d \in Device :
          \/ Register(d) \/ Unregister(d) \/ Cancel(d)
          \/ Connect(d) \/ Hello(d) \/ HelloOk(d) \/ Complete(d) \/ Close(d)
          \/ Opening(d) \/ Closing(d)

Next == Step /\ UNCHANGED env

Spec == Init /\ [][Next]_vars

-----------------------------------------------------------------------------
(* Properties. *)

\* No goroutine is under way.
Quiet == /\ \A e \in Evaluators : eval[e].at = "idle"
         /\ expiry = "idle" /\ app.at = "idle"
         /\ \A d \in Device : opening[d] = "idle" /\ closing[d] = "idle"

\* What was announced while nobody listened is evaluated when the listener starts,
\* and what is announced later is delivered: however starts, stops and
\* announcements interleave, no request is left behind while the listener is on.
\* (StartListening: "every record is in at least one of the two deliveries".)
NothingMissed ==
    Quiet /\ hub = "up" /\ listening => announced \subseteq history

\* A control unit is trusted because the application has registered it or because
\* it made a request whose digest the history holds, whoever else was evaluating,
\* replacing or removing in the meantime, and although the end of the hello phase trusts
\* a device anew (SetTrusted(true)) that may have lost its trust since it was asked for.
TrustIsAccountedFor ==
    \A d \in Trusted : d \in Known \/ \E r \in history : From[r] = d

\* After Shutdown nobody listens, although a time-out or a removal may have started
\* the listener again behind Shutdown's back while mDNS was still up: the
\* goroutine of StartListening then stops it.
StaysOff == hub = "off" /\ Quiet /\ ~watched => ~listening

\* OnPairingSuccess says that a request deferred in the replacement window "will be
\* re-evaluated when the timer expires": its digest must not be spent.  The code
\* records the digest before it asks the hub.
DeferredIsNotSpent ==
    [][\A e \in Evaluators :
          eval[e].at = "window" /\ eval'[e].at = "stop" => eval[e].req \notin history']_vars

=============================================================================
