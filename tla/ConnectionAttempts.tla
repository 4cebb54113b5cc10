--------------------------- MODULE ConnectionAttempts ---------------------------
(***************************************************************************)
(* How a hub comes to dial the devices it trusts: the devices found by     *)
(* mDNS, the reports of them, the delayed attempts to connect, and what    *)
(* makes the hub try again.                                                *)
(*                                                                         *)
(*   - the listener of the mDNS provider updates MdnsManager.entries, and  *)
(*     every change starts a goroutine that runs ReportMdnsEntries         *)
(*     (hub/hub_mdns.go) on a copy of the entries;                         *)
(*   - a report cancels the attempts for devices that have gone, and sets  *)
(*     a delay timer for each device that is not connected                 *)
(*     (hub/hub_connections_retry.go, hub_connections_timers.go);          *)
(*   - the callback of the timer dials (hub/hub_connections_client.go); the *)
(*     dial itself, and double connections, are in HubConnections;         *)
(*   - a failed dial, the end of a connection and the application ask for  *)
(*     a report of the entries that are known already.                     *)
(*                                                                         *)
(* Each critical section (muxTimers, muxConAttempt, muxCon, muxReg, muxMdns)*)
(* is a step.                                                              *)
(***************************************************************************)
EXTENDS Naturals, FiniteSets

CONSTANTS
    SKI,            \* remote devices
    Path,           \* the interfaces and protocols that a device is seen on
    Reporter,       \* goroutines that run ReportMdnsEntries, at most so many at once
    Timer,          \* delay timers, at most so many at once
    Tries,          \* how often one attempt dials: the host name and the addresses
    LastRange,      \* the last index of connectionInitiationDelayTimeRanges
    None,
    Environments    \* what the devices and the application may do

\* An environment: how often a device appears or disappears on a path, a connection
\* comes in, a connection ends, and the application calls the hub; which calls it
\* makes; whether a timer is stored before its delay is over (which may be 0 ms); and
\* whether reports run without overlap.
Environment ==
    [changes : Nat, incoming : Nat, ends : Nat, calls : Nat, prompt : BOOLEAN, calm : BOOLEAN,
     may : SUBSET {"register", "unregister", "cancel", "restart"}]

ASSUME EnvironmentAssumption == Environments \subseteq Environment

ASSUME BoundAssumption == Tries \in Nat \ {0} /\ LastRange \in Nat

ASSUME NamesAssumption == None \notin SKI \cup Timer \cup Nat

VARIABLES
    env,        \* the environment
    spent,      \* what it has used
    seen,       \* the paths that a device is seen on
    entries,    \* MdnsManager.entries
    known,      \* Hub.knownMdnsEntries
    report,     \* the goroutines of ReportMdnsEntries
    running,    \* Hub.connectionAttemptRunning
    counter,    \* Hub.connectionAttemptCounter
    slot,       \* Hub.connectionDelayTimers
    timer,      \* the timers, and their callbacks
    dialing,    \* Hub.connectionsInitiating
    connected,  \* Hub.connections
    service,    \* Hub.remoteServices
    ending,     \* HandleConnectionClosed
    call,       \* the application's call of the hub
    hub         \* how far Shutdown has come

attemptVars == <<running, counter, slot, timer>>
connVars == <<dialing, connected, ending>>
appVars == <<service, call, hub>>
vars == <<env, spent, seen, entries, known, report, running, counter, slot, timer,
          dialing, connected, service, ending, call, hub>>

-----------------------------------------------------------------------------

NoReport == [at |-> "idle", entries |-> {}, new |-> FALSE, todo |-> {}, ski |-> None,
             timer |-> None]

NoTimer == [at |-> "free", ski |-> None, counter |-> None, tries |-> 0]

NoCall == [at |-> "no", ski |-> None]

TypeOK ==
    /\ env \in Environments
    /\ spent \in [changes : Nat, incoming : Nat, ends : Nat, calls : Nat]
    /\ seen \in [SKI -> SUBSET Path]
    /\ entries \subseteq SKI /\ known \subseteq SKI
    /\ report \in [Reporter ->
                      [at : {"idle", "queued", "cancel", "forget", "entries", "service", "coordinate",
                             "claim", "arm", "store", "known"},
                       entries : SUBSET SKI, new : BOOLEAN, todo : SUBSET SKI,
                       ski : SKI \cup {None}, timer : Timer \cup {None}]]
    /\ running \in [SKI -> BOOLEAN]
    /\ counter \in [SKI -> (0 .. LastRange) \cup {None}]
    /\ slot \in [SKI -> Timer \cup {None}]
    /\ timer \in [Timer ->
                     [at : {"free", "set", "fired", "counted", "checked", "try", "dial", "dialed",
                            "failed", "ending", "done"},
                      ski : SKI \cup {None}, counter : (0 .. LastRange) \cup {None}, tries : 0 .. Tries]]
    /\ dialing \in [SKI -> Timer \cup {None}]
    /\ connected \subseteq SKI
    /\ service \in [SKI -> {"none", "untrusted", "unnamed", "trusted"}]
    /\ ending \in [SKI -> {"no", "closed", "completed", "counted"}]
    /\ call \in [at : {"no", "look", "forget", "close", "abort", "untrust"}, ski : SKI \cup {None}]
    /\ hub \in {"up", "stopping", "closing", "down"}

\* The hub has just started.  A device is unknown, known without trust (it has
\* connected before), trusted, or trusted with a fingerprint and a SHIP ID only.
Init ==
    /\ env \in Environments
    /\ spent = [changes |-> 0, incoming |-> 0, ends |-> 0, calls |-> 0]
    /\ seen = [s \in SKI |-> {}]
    /\ entries = {} /\ known = {}
    /\ report = [r \in Reporter |-> NoReport]
    /\ running = [s \in SKI |-> FALSE]
    /\ counter = [s \in SKI |-> None]
    /\ slot = [s \in SKI |-> None]
    /\ timer = [t \in Timer |-> NoTimer]
    /\ dialing = [s \in SKI |-> None]
    /\ connected = {}
    /\ service \in [SKI -> {"none", "untrusted", "unnamed", "trusted"}]
    /\ ending = [s \in SKI |-> "no"]
    /\ call = NoCall
    /\ hub = "up"

-----------------------------------------------------------------------------
(* Shared pieces *)

Spend(what) ==
    /\ spent[what] < env[what]
    /\ spent' = [spent EXCEPT ![what] = @ + 1]

\* go ReportMdnsEntries(entries, new), on a copy: not after mdns.Shutdown.
Idle == {r \in Reporter : report[r].at = "idle"}

Report(found, new) ==
    IF hub # "up" THEN UNCHANGED report
    ELSE /\ Idle # {}
         /\ report' = [report EXCEPT ![CHOOSE r \in Idle : TRUE] =
                          [NoReport EXCEPT !.at = "queued", !.entries = found, !.new = new]]

\* cancelConnectionDelayTimer: a timer that has fired is left to its callback.
Pending(t) == t # None /\ timer[t].at = "set"

\* Mutant of CancelConnectionDelayTimer: connectionAttemptRunning is left to a callback
\* that never runs.
CancelConnectionDelayTimerOnly(s) ==
    /\ timer' = IF Pending(slot[s]) THEN [timer EXCEPT ![slot[s]] = NoTimer] ELSE timer
    /\ slot' = [slot EXCEPT ![s] = None]
    /\ UNCHANGED running

CancelConnectionDelayTimer(s) ==
    /\ timer' = IF Pending(slot[s]) THEN [timer EXCEPT ![slot[s]] = NoTimer] ELSE timer
    /\ running' = IF Pending(slot[s]) THEN [running EXCEPT ![s] = FALSE] ELSE running
    /\ slot' = [slot EXCEPT ![s] = None]

RemoveConnectionAttemptCounter(s) == counter' = [counter EXCEPT ![s] = None]

Trusted(s) == service[s] = "trusted"

\* checkAutoReannounce: more trusted services than connections.
CheckAutoReannounce ==
    IF Cardinality({s \in SKI : service[s] \in {"trusted", "unnamed"}}) > Cardinality(connected)
    THEN Report(entries, FALSE)
    ELSE UNCHANGED report

-----------------------------------------------------------------------------
(* The listener of the provider *)

\* The listener of the avahi provider hears of a device once for each interface and
\* protocol, and resolves it there.
Found(s, p) ==
    /\ p \notin seen[s]
    /\ seen' = [seen EXCEPT ![s] = @ \cup {p}]

\* A removal says nothing about the other paths; a zeroconf provider has only one.
Lost(s, p) ==
    /\ p \in seen[s]
    /\ seen' = [seen EXCEPT ![s] = @ \ {p}]

\* A device is new on a path: a new entry, or one more address of it.
Appears(s) ==
    /\ hub = "up" /\ Spend("changes")
    /\ \E p \in Path : Found(s, p)
    /\ entries' = entries \cup {s}
    /\ Report(entries', TRUE)
    /\ UNCHANGED <<known, attemptVars, connVars, appVars>>

\* A device goes from a path: its entry is deleted right away.
Disappears(s) ==
    /\ hub = "up" /\ Spend("changes")
    /\ \E p \in Path : Lost(s, p)
    /\ entries' = entries \ {s}
    /\ IF s \in entries THEN Report(entries', TRUE) ELSE UNCHANGED report
    /\ UNCHANGED <<known, attemptVars, connVars, appVars>>

-----------------------------------------------------------------------------
(* ReportMdnsEntries *)

At(r, w) == report[r].at = w

\* cleanupRemovedMdnsEntries reads knownMdnsEntries.
Begin(r) ==
    /\ At(r, "queued")
    /\ report' = [report EXCEPT ![r].at = "cancel", ![r].todo = known \ report[r].entries]
    /\ UNCHANGED <<seen, entries, known, attemptVars, connVars, appVars>>

CancelGone(r) ==
    /\ At(r, "cancel")
    /\ \/ \E s \in report[r].todo :
             /\ CancelConnectionDelayTimer(s)
             /\ report' = [report EXCEPT ![r].at = "forget", ![r].ski = s, ![r].todo = @ \ {s}]
       \/ /\ report[r].todo = {}
          /\ report' = [report EXCEPT ![r].at = "entries", ![r].todo = report[r].entries]
          /\ UNCHANGED <<running, slot, timer>>
    /\ UNCHANGED <<seen, entries, known, counter, connVars, appVars>>

ForgetGone(r) ==
    /\ At(r, "forget")
    /\ RemoveConnectionAttemptCounter(report[r].ski)
    /\ report' = [report EXCEPT ![r].at = "cancel", ![r].ski = None]
    /\ UNCHANGED <<seen, entries, known, running, slot, timer, connVars, appVars>>

\* The entries, in any order: not one that is connected.
Consider(r) ==
    /\ At(r, "entries")
    /\ \/ \E s \in report[r].todo :
             report' = [report EXCEPT ![r].at = IF s \in connected THEN "entries" ELSE "service",
                                      ![r].ski = IF s \in connected THEN None ELSE s,
                                      ![r].todo = @ \ {s}]
       \/ /\ report[r].todo = {}
          /\ report' = [report EXCEPT ![r].at = "known"]
    /\ UNCHANGED <<seen, entries, known, attemptVars, connVars, appVars>>

\* Not one that belongs to no service.  A service that is trusted by its fingerprint and
\* SHIP ID learns its SKI here.
Match(r) ==
    LET s == report[r].ski
    IN  /\ At(r, "service")
        /\ service' = [service EXCEPT ![s] = IF @ = "unnamed" THEN "trusted" ELSE @]
        /\ report' = [report EXCEPT ![r].at = IF service[s] = "none" THEN "entries" ELSE "coordinate",
                                    ![r].ski = IF service[s] = "none" THEN None ELSE s]
        /\ UNCHANGED <<seen, entries, known, attemptVars, connVars, call, hub>>

\* coordinateConnectionInitations: one attempt at a time ...
Coordinate(r) ==
    /\ At(r, "coordinate")
    /\ report' = [report EXCEPT ![r].at = IF running[report[r].ski] THEN "entries" ELSE "claim"]
    /\ UNCHANGED <<seen, entries, known, attemptVars, connVars, appVars>>

\* ... but the flag is set in a critical section of its own.
Claim(r) ==
    /\ At(r, "claim")
    /\ running' = [running EXCEPT ![report[r].ski] = TRUE]
    /\ report' = [report EXCEPT ![r].at = "arm"]
    /\ UNCHANGED <<seen, entries, known, counter, slot, timer, connVars, appVars>>

\* Mutant of Increased: the index runs past the last range.
IncreasedPast(s) ==
    IF counter[s] = None THEN 0
    ELSE IF counter[s] > LastRange THEN LastRange ELSE counter[s] + 1

\* increaseConnectionAttemptCounter
Increased(s) ==
    IF counter[s] = None THEN 0
    ELSE IF counter[s] + 1 >= LastRange THEN LastRange ELSE counter[s] + 1

Unused == {t \in Timer : timer[t].at = "free"}

\* The delay comes from the counter.  The timer runs from its creation; without a service
\* there is none, and the flag stays.
Arm(r) ==
    LET s == report[r].ski
    IN  /\ At(r, "arm")
        /\ counter' = [counter EXCEPT ![s] = Increased(s)]
        /\ IF service[s] \in {"untrusted", "trusted"}
           THEN /\ Unused # {}
                /\ LET t == CHOOSE t \in Unused : TRUE
                   IN  /\ timer' = [timer EXCEPT ![t] = [at |-> "set", ski |-> s,
                                                         counter |-> Increased(s), tries |-> 0]]
                       /\ report' = [report EXCEPT ![r].at = "store", ![r].timer = t]
           ELSE /\ report' = [report EXCEPT ![r].at = "entries", ![r].ski = None]
                /\ UNCHANGED timer
        /\ UNCHANGED <<seen, entries, known, running, slot, connVars, appVars>>

\* Mutant of Store: the timer that was there is not stopped.
StoreOver(r) ==
    LET s == report[r].ski
        t == report[r].timer
    IN  /\ At(r, "store")
        /\ IF timer[t].at = "done"
           THEN slot' = [slot EXCEPT ![s] = None] /\ timer' = [timer EXCEPT ![t] = NoTimer]
           ELSE slot' = [slot EXCEPT ![s] = t] /\ UNCHANGED timer
        /\ report' = [report EXCEPT ![r].at = "entries", ![r].ski = None, ![r].timer = None]
        /\ UNCHANGED <<seen, entries, known, running, counter, connVars, appVars>>

\* storeConnectionDelayTimer stops the timer that was there.  (A timer whose callback is
\* over is not kept in the model: to cancel it changes nothing.)
Store(r) ==
    LET s == report[r].ski
        t == report[r].timer
        gone == {x \in Timer : (x = slot[s] /\ Pending(x)) \/ (x = t /\ timer[x].at = "done")}
    IN  /\ At(r, "store")
        /\ timer' = [x \in Timer |-> IF x \in gone THEN NoTimer ELSE timer[x]]
        /\ slot' = [slot EXCEPT ![s] = IF t \in gone THEN None ELSE t]
        /\ report' = [report EXCEPT ![r].at = "entries", ![r].ski = None, ![r].timer = None]
        /\ UNCHANGED <<seen, entries, known, running, counter, connVars, appVars>>

\* Only a report of the listener is remembered.
Remember(r) ==
    /\ At(r, "known")
    /\ known' = IF report[r].new THEN report[r].entries ELSE known
    /\ report' = [report EXCEPT ![r] = NoReport]
    /\ UNCHANGED <<seen, entries, attemptVars, connVars, appVars>>

ReportGoesOn(r) ==
    \/ CancelGone(r) \/ ForgetGone(r) \/ Consider(r) \/ Match(r) \/ Coordinate(r)
    \/ Claim(r) \/ Arm(r) \/ Store(r) \/ Remember(r)

-----------------------------------------------------------------------------
(* The callback of a delay timer: prepareConnectionInitation *)

Goto(t, w) == timer' = [timer EXCEPT ![t].at = w]

Fire(t) ==
    /\ timer[t].at = "set" /\ Goto(t, "fired")
    /\ env.prompt => \A r \in Reporter : report[r].timer # t
    /\ UNCHANGED <<seen, entries, known, report, running, counter, slot, connVars, appVars>>

\* An attempt is void if another one has been counted, or the counter was removed, since.
IsVoid(t) == counter[timer[t].ski] # timer[t].counter

CheckCounter(t) ==
    /\ timer[t].at = "fired"
    /\ timer' = [timer EXCEPT
                    ![t].at = IF IsVoid(t) THEN "ending" ELSE "counted",
                    ![t].counter = None]
    /\ UNCHANGED <<seen, entries, known, report, running, counter, slot, connVars, appVars>>

CheckService(t) ==
    /\ timer[t].at = "counted"
    /\ Goto(t, IF Trusted(timer[t].ski) /\ timer[t].ski \notin connected THEN "checked" ELSE "ending")
    /\ UNCHANGED <<seen, entries, known, report, running, counter, slot, connVars, appVars>>

\* shouldAttemptConnection looks at the trust again, and counts as a failure.
ShouldAttempt(t) ==
    /\ timer[t].at = "checked"
    /\ timer' = [timer EXCEPT ![t].at = IF Trusted(timer[t].ski) THEN "try" ELSE "failed",
                              ![t].tries = Tries]
    /\ UNCHANGED <<seen, entries, known, report, running, counter, slot, connVars, appVars>>

\* connectFoundService: nothing to do, and a success, if the device is connected or
\* another dial is in flight.
Dial(t) ==
    LET s == timer[t].ski
    IN  /\ timer[t].at = "try"
        /\ IF s \in connected \/ dialing[s] # None
           THEN Goto(t, "ending") /\ UNCHANGED dialing
           ELSE Goto(t, "dial") /\ dialing' = [dialing EXCEPT ![s] = t]
        /\ UNCHANGED <<seen, entries, known, report, running, counter, slot, connected,
                       ending, appVars>>

\* registerConnection cancels the delay timer, under muxCon.
DialSucceeds(t) ==
    LET s == timer[t].ski
    IN  /\ timer[t].at = "dial"
        /\ connected' = connected \cup {s}
        /\ LET Dialed == [timer EXCEPT ![t].at = "dialed"]
           IN  /\ timer' = IF Pending(slot[s]) THEN [Dialed EXCEPT ![slot[s]] = NoTimer] ELSE Dialed
               /\ running' = IF Pending(slot[s]) THEN [running EXCEPT ![s] = FALSE] ELSE running
               /\ slot' = [slot EXCEPT ![s] = None]
        /\ UNCHANGED <<seen, entries, known, report, counter, dialing, ending, appVars>>

\* connectFoundService returns: the deferred delete from connectionsInitiating.
DialReturns(t) ==
    /\ timer[t].at = "dialed"
    /\ dialing' = [dialing EXCEPT ![timer[t].ski] = None]
    /\ Goto(t, "ending")
    /\ UNCHANGED <<seen, entries, known, report, running, counter, slot, connected, ending,
                   appVars>>

\* The host name and the addresses are tried in turn.
DialFails(t) ==
    /\ timer[t].at = "dial"
    /\ dialing' = [dialing EXCEPT ![timer[t].ski] = None]
    /\ timer' = [timer EXCEPT ![t].at = IF timer[t].tries > 1 THEN "try" ELSE "failed",
                              ![t].tries = @ - 1]
    /\ UNCHANGED <<seen, entries, known, report, running, counter, slot, connected, ending,
                   appVars>>


\* The known entries are reported again, before the flag is reset.
Retry(t) ==
    /\ timer[t].at = "failed" /\ CheckAutoReannounce
    /\ Goto(t, "ending")
    /\ UNCHANGED <<seen, entries, known, running, counter, slot, connVars, appVars>>

\* The deferred reset.
End(t) ==
    LET s == timer[t].ski
        held == \E r \in Reporter : report[r].timer = t
    IN  /\ timer[t].at = "ending"
        /\ running' = [running EXCEPT ![s] = FALSE]
        /\ timer' = [timer EXCEPT ![t] = IF held THEN [NoTimer EXCEPT !.at = "done"] ELSE NoTimer]
        /\ slot' = [slot EXCEPT ![s] = IF @ = t THEN None ELSE @]
        /\ UNCHANGED <<seen, entries, known, report, counter, connVars, appVars>>

Callback(t) ==
    \/ CheckCounter(t) \/ CheckService(t) \/ ShouldAttempt(t) \/ Dial(t)
    \/ DialSucceeds(t) \/ DialReturns(t) \/ DialFails(t) \/ Retry(t) \/ End(t)

-----------------------------------------------------------------------------
(* Other connections, and the ends of connections *)

\* The device connects to the hub, which knows it from then on.
Incoming(s) ==
    /\ hub = "up" /\ s \notin connected /\ Spend("incoming")
    /\ connected' = connected \cup {s}
    /\ service' = [service EXCEPT ![s] = IF @ = "none" THEN "untrusted"
                                         ELSE IF @ = "unnamed" THEN "trusted" ELSE @]
    /\ CancelConnectionDelayTimer(s)
    /\ UNCHANGED <<seen, entries, known, report, counter, dialing, ending, call, hub>>

\* HandleConnectionClosed, of a connection whose handshake was completed or not.
Ends(s) ==
    /\ s \in connected /\ ending[s] = "no" /\ Spend("ends")
    /\ connected' = connected \ {s}
    /\ \E how \in {"closed", "completed"} : ending' = [ending EXCEPT ![s] = how]
    /\ UNCHANGED <<seen, entries, known, report, attemptVars, dialing, appVars>>

\* The attempts start from the first delay again.
ForgetsAttempts(s) ==
    /\ ending[s] = "completed"
    /\ RemoveConnectionAttemptCounter(s)
    /\ ending' = [ending EXCEPT ![s] = "counted"]
    /\ UNCHANGED <<seen, entries, known, report, running, slot, timer, dialing, connected, appVars>>

\* No reconnection if the device is unknown, or if it has no trust and the handshake failed.
Reconnects(s) ==
    /\ ending[s] \in {"closed", "counted"}
    /\ ending' = [ending EXCEPT ![s] = "no"]
    /\ IF service[s] \in {"none", "unnamed"} \/ (ending[s] = "closed" /\ ~Trusted(s))
       THEN UNCHANGED report ELSE CheckAutoReannounce
    /\ UNCHANGED <<seen, entries, known, attemptVars, dialing, connected, appVars>>

EndGoesOn(s) == ForgetsAttempts(s) \/ Reconnects(s)

-----------------------------------------------------------------------------
(* The application, one call at a time *)

\* RegisterRemoteService, or OnPairingSuccess for a device whose SKI is not known.
Register(s) ==
    /\ "register" \in env.may /\ hub = "up" /\ call.at = "no" /\ Spend("calls")
    /\ \E new \in {"trusted"} \cup (IF service[s] \in {"none", "unnamed"} THEN {"unnamed"} ELSE {}) :
           service' = [service EXCEPT ![s] = new]
    /\ call' = [at |-> "look", ski |-> s]
    /\ UNCHANGED <<seen, entries, known, report, attemptVars, connVars, hub>>

\* A search is asked for, unless the device is connected: its handshake is approved then.
RegisterLooks ==
    /\ call.at = "look"
    /\ IF call.ski \in connected THEN UNCHANGED report ELSE Report(entries, FALSE)
    /\ call' = NoCall
    /\ UNCHANGED <<seen, entries, known, attemptVars, connVars, service, hub>>

UnregisterRemoteService(s) ==
    /\ "unregister" \in env.may /\ hub = "up" /\ call.at = "no" /\ Spend("calls")
    /\ service' = [service EXCEPT ![s] = "none"]
    /\ call' = [at |-> "forget", ski |-> s]
    /\ UNCHANGED <<seen, entries, known, report, attemptVars, connVars, hub>>

CancelPairing(s) ==
    /\ "cancel" \in env.may /\ hub = "up" /\ call.at = "no" /\ Spend("calls")
    /\ RemoveConnectionAttemptCounter(s)
    /\ call' = [at |-> "abort", ski |-> s]
    /\ UNCHANGED <<seen, entries, known, report, running, slot, timer, connVars, service, hub>>

UnregisterForgets ==
    /\ call.at = "forget"
    /\ RemoveConnectionAttemptCounter(call.ski)
    /\ call' = [call EXCEPT !.at = "close"]
    /\ UNCHANGED <<seen, entries, known, report, running, slot, timer, connVars, service, hub>>

\* UnregisterRemoteService closes the connection, CancelPairing aborts a handshake that
\* is still pending; the end is reported as any other.
CallCloses ==
    /\ call.at \in {"close", "abort"}
    /\ \/ /\ call.ski \in connected /\ ending[call.ski] = "no"
          /\ connected' = connected \ {call.ski}
          /\ \E how \in {"closed"} \cup (IF call.at = "close" THEN {"completed"} ELSE {}) :
                ending' = [ending EXCEPT ![call.ski] = how]
       \/ /\ call.ski \notin connected \/ call.at = "abort"
          /\ UNCHANGED <<connected, ending>>
    /\ call' = IF call.at = "close" THEN NoCall ELSE [call EXCEPT !.at = "untrust"]
    /\ UNCHANGED <<seen, entries, known, report, attemptVars, dialing, service, hub>>

CancelUntrusts ==
    /\ call.at = "untrust"
    /\ service' = [service EXCEPT ![call.ski] = IF @ = "none" THEN @ ELSE "untrusted"]
    /\ call' = NoCall
    /\ UNCHANGED <<seen, entries, known, report, attemptVars, connVars, hub>>

CallGoesOn == RegisterLooks \/ UnregisterForgets \/ CallCloses \/ CancelUntrusts

-----------------------------------------------------------------------------
(* Shutdown and a new start *)

\* mdns.Shutdown: the entries go.
ShutdownForgetsEntries ==
    /\ "restart" \in env.may /\ hub = "up" /\ call.at = "no" /\ Spend("calls")
    /\ entries' = {} /\ seen' = [s \in SKI |-> {}]
    /\ hub' = "stopping"
    /\ UNCHANGED <<known, report, attemptVars, connVars, service, call>>

\* The delay timers are stopped; connectionAttemptRunning is not reset.
ShutdownStopsTimers ==
    /\ hub = "stopping"
    /\ timer' = [t \in Timer |-> IF Pending(t) /\ \E s \in SKI : slot[s] = t
                                 THEN NoTimer ELSE timer[t]]
    /\ slot' = [s \in SKI |-> None]
    /\ hub' = "closing"
    /\ UNCHANGED <<seen, entries, known, report, running, counter, connVars, service, call>>

\* The connections are closed, by goroutines that Shutdown does not wait for too long.
ShutdownCloses ==
    /\ hub = "closing"
    /\ \E how \in {"closed", "completed"} :
           ending' = [s \in SKI |-> IF s \in connected /\ ending[s] = "no" THEN how ELSE ending[s]]
    /\ connected' = {s \in connected : ending[s] # "no"}
    /\ hub' = "down"
    /\ UNCHANGED <<seen, entries, known, report, attemptVars, dialing, service, call>>

ShutdownGoesOn == ShutdownStopsTimers \/ ShutdownCloses

Start ==
    /\ hub = "down" /\ hub' = "up"
    /\ UNCHANGED <<seen, entries, known, report, attemptVars, connVars, service, call>>

-----------------------------------------------------------------------------

\* In a calm environment reports come one after the other, in the order of the changes, each
\* between two steps of a callback; the end of a connection is handled in one go; and the
\* application's next call waits for the last one.
Reporting == \E r \in Reporter : ~At(r, "idle") /\ ~At(r, "queued")

EndHandled == \A s \in SKI : ending[s] = "no"

ReportStep(r) ==
    \/ Begin(r) /\ (env.calm => ~Reporting)
    \/ ReportGoesOn(r)

TimerStep(t) == (env.calm => ~Reporting /\ EndHandled) /\ (Fire(t) \/ Callback(t))

Quiet == env.calm => Idle = Reporter

NewStep ==
    /\ env.calm => call.at = "no" /\ EndHandled
    /\ \/ \E s \in SKI : Appears(s) \/ Disappears(s) \/ Incoming(s) \/ Ends(s)
                        \/ Register(s) \/ UnregisterRemoteService(s) \/ CancelPairing(s)
       \/ ShutdownForgetsEntries

HubStep == (\E s \in SKI : EndGoesOn(s)) \/ CallGoesOn \/ ShutdownGoesOn \/ Start

Step ==
    \/ \E r \in Reporter : ReportStep(r) /\ UNCHANGED spent
    \/ \E t \in Timer : TimerStep(t) /\ UNCHANGED spent
    \/ Quiet /\ NewStep
    \/ Quiet /\ HubStep /\ UNCHANGED spent

Next == Step /\ UNCHANGED env

Spec == Init /\ [][Next]_vars

\* Every goroutine goes on, timers fire, and a dial ends one way or the other.  Devices,
\* connections and the application need not do anything.
Fairness ==
    /\ \A r \in Reporter : WF_vars(ReportStep(r) /\ UNCHANGED <<env, spent>>)
    /\ \A t \in Timer : WF_vars(TimerStep(t) /\ UNCHANGED <<env, spent>>)
    /\ \A s \in SKI : WF_vars(Quiet /\ EndGoesOn(s) /\ UNCHANGED <<env, spent>>)
    /\ WF_vars(Quiet /\ CallGoesOn /\ UNCHANGED <<env, spent>>)
    /\ WF_vars(Quiet /\ ShutdownGoesOn /\ UNCHANGED <<env, spent>>)

FairSpec == Spec /\ Fairness

-----------------------------------------------------------------------------

\* Every pending attempt can be cancelled: its timer is the one in connectionDelayTimers,
\* or a report is about to store it.  A timer that is replaced unstopped, or dropped by
\* Shutdown, would dial a device that has gone.
PendingCanBeCancelled ==
    \A t \in Timer :
        timer[t].at = "set" =>
            \/ slot[timer[t].ski] = t
            \/ \E r \in Reporter : report[r].timer = t

\* connectionAttemptRunning does not stay set: whatever attempts are cancelled, replaced,
\* void or failing, the flag is reset again and again, or no report could start an attempt
\* any more.  Not so when a service is removed between the two lookups of a report
\* (hub_connections_retry.go:21), after Shutdown (hub.go:351), and when a timer whose
\* callback is over is stored in place of a pending one (hub_connections_timers.go:51).
FlagIsReset ==
    (env.prompt /\ env.may \cap {"unregister", "restart"} = {}) =>
        \A s \in SKI : []<>~running[s]

\* A device that stays visible, trusted and unconnected is dialled again and again, wherever
\* the trust came from, unless a report comes too soon: it finds the flag of an attempt that
\* is void, or over but for its deferred reset (hub_connections_retry.go:67 asks for the
\* report before :41 resets the flag; a new connection may end before, too), and starts
\* none of its own.
\* Neither is it claimed where the environment is not calm (a report that overlaps with
\* another one, or that is overtaken by a later one, or by a callback; the end of a
\* connection that is handled while others go on; a call that meets another one), nor after
\* CancelPairing or UnregisterRemoteService (RetriedIfPaired).
Wanted(s) == s \in entries /\ Trusted(s) /\ s \notin connected /\ hub = "up"

TooSoon(s) ==
    \E r \in Reporter, t \in Timer :
        /\ At(r, "coordinate") /\ report[r].ski = s
        /\ running[s] /\ timer[t].ski = s
        /\ timer[t].at \in {"dialed", "ending"} \/ (timer[t].at = "fired" /\ IsVoid(t))


\* docs/CONNECTION_LIFECYCLE.md:135 "Re-enable reconnection": a device that is registered
\* again is dialled again.
RetriedIfPaired ==
    \A s \in SKI : <>[]Wanted(s) => []<>(dialing[s] # None)

=============================================================================
