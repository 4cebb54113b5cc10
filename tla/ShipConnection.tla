----------------------------- MODULE ShipConnection -----------------------------
(***************************************************************************)
(* One node's side of a SHIP connection, from Run to its end (package      *)
(* ship), against a peer that sends what it likes.                         *)
(*                                                                         *)
(* Several goroutines work on one ShipConnection: the one that calls Run,  *)
(* the read pump, the write pump, the callback of the handshake timer, the *)
(* application (approve, cancel, disconnect, send), and the goroutines     *)
(* that close after a delay.  They share the handshake state and the       *)
(* timer, under two different mutexes, and hold neither while they handle  *)
(* a state.  So a handler is not atomic: it is a sequence of steps, and    *)
(* `code` holds what is left of it for every goroutine.  A step runs from  *)
(* one access to the handshake state, to shutdownOnce or to the hub up to  *)
(* the next one; what the code does in between to the timer and to the     *)
(* network belongs to the step.                                            *)
(*                                                                         *)
(* Names of states are those of model.ShipMessageExchangeState without     *)
(* Cmi/Sme, shortened.  Durations are abstracted: a running timer may      *)
(* expire at any time, and a delay is over at any time.  What the node     *)
(* sends is not kept: the peer is not a model of this program.             *)
(***************************************************************************)
EXTENDS Naturals, Sequences, Functions

\* What the node is set up for, and what may happen to it.
Environment == [
    roles : SUBSET {"client", "server"},   \* the roles of the node
    trust : {"paired", "undecided"},       \* what the user has decided before
    autoAccept : BOOLEAN,                  \* Hub.autoaccept
    knowsShipID : BOOLEAN,                 \* whether the peer's SHIP ID is known from before
    messages : SUBSET STRING,              \* what the peer may send
    early : BOOLEAN,                       \* whether it may before Run has done its part
    spine : Nat,                           \* bound on the SPINE messages it sends
    \* The handshake timer expires, the user cancels the pairing, the application
    \* disconnects, a write to the network fails, messages to write pile up.
    may : SUBSET {"timeout", "cancel", "disconnect", "break", "full"}]

CONSTANT Environments  \* the environments of interest: one is chosen at the start

ASSUME EnvironmentAssumption == Environments \subseteq Environment

\* The goroutines of a connection.
Goroutines == {"run", "reader", "writer", "timer", "approver", "user", "spine",
               "abort", "closer"}

None == "none"     \* no message

VARIABLES
    env,        \* the environment, which does not change
    role,       \* ShipConnection.role, which does not change
    state,      \* ShipConnection.smeState
    code,       \* code[g]: the steps goroutine g still has to do
    timer,      \* the handshake timer
    once,       \* shutdownOnce: not called, running, done
    closed,     \* WebsocketConnection.connectionClosed, which is not the socket: an
                \* error of the write pump sets it, and nobody closes the socket then
    full,       \* the buffer of the write pump is full
    reported,   \* HandleConnectionClosed has been called
    trust,      \* the user's decision, as the hub's registry has it
    reader,     \* ShipConnection.dataReader is set
    received,   \* how many SPINE messages have been received
    buffer,     \* ShipConnection.spineBuffer
    delivered   \* the SPINE messages that have reached the application

dataVars == <<env, role, full, reader, received, buffer, delivered>>
vars == <<state, code, timer, once, closed, reported, trust, dataVars>>

-----------------------------------------------------------------------------
(* The handlers, as sequences of steps. *)

\* The timer of a state, where setState starts or stops one.
TimerOf(s) ==
    IF s \in {"HelloReadyInit", "HelloPendingInit", "ProtClientListenChoice"} THEN "wait"
    ELSE IF s \in {"HelloOk", "HelloAbort", "HelloAbortDone", "HelloRemoteAbortDone",
                   "HelloRejected", "ProtClientOk"} THEN "stop"
    ELSE "keep"

Timer(op) == <<<<"timer", op>>>>

\* setState; SetWithTimer is a setState next to a call that starts or stops the
\* timer.
SetWithTimer(s, op) == <<<<"set", s, op>>>>
SetState(s) == SetWithTimer(s, TimerOf(s))

Handle(timeout, m) == <<<<"handle", timeout, m>>>>
SetAndHandle(s) == SetState(s) \o Handle(FALSE, None)

Close(safe) == <<<<"close", safe>>>>

EndWithError == SetWithTimer("Error", "stop") \o Close(TRUE)
AbortHello == SetAndHandle("HelloAbort")

\* WriteMessageToWebsocketConnection, and how the handler goes on after success
\* and after an error.
Write(ok, err) == IF closed \/ full THEN err ELSE ok

\* sendShipModel: shipMessage closes the ship connection when the data connection
\* is closed.  A full buffer is an error like any other.
Send(ok, err) == IF closed THEN Close(FALSE) \o err ELSE Write(ok, err)

AbortProtocol == Send(<<>>, <<>>) \o SetWithTimer("Error", "stop") \o Close(FALSE)

\* cmiState...: a missing message is taken for a valid one.
InitHandler(s, timeout, m) ==
    CASE s = "InitStart" /\ role = "client" ->
           SetState("ClientSend") \o Write(SetWithTimer("ClientWait", "wait"), EndWithError)
      [] s = "InitStart" /\ role = "server" -> SetWithTimer("ServerWait", "wait")
      [] s # "InitStart" /\ timeout -> EndWithError
      [] s = "ClientWait" /\ ~timeout ->
           SetState("ClientEvaluate") \o
           IF m \in {"init", None} THEN SetAndHandle("Hello") ELSE EndWithError
      [] s = "ServerWait" /\ ~timeout ->
           SetState("ServerEvaluate") \o
           IF m \in {"init", None} THEN Write(SetAndHandle("Hello"), EndWithError)
           ELSE EndWithError

\* AllowWaitingForTrust: the user is still willing to decide.
Waiting == trust # "denied"

\* A hello message with phase pending is ignored, unless it is a prolongation
\* request, which is granted.
ReadyListen(m) ==
    CASE m \in {"ready", "readyMid", "readyShort", "readyBare"} -> SetAndHandle("HelloOk")
      [] m \in {"pending", "pendingMid", "pendingShort", "pendingBare"} -> <<>>
      [] m \in {"prolong", "prolongWaiting"} ->
           (IF Waiting THEN Timer("wait") ELSE <<>>) \o Send(<<>>, EndWithError)
      [] m = "aborted" -> SetAndHandle("HelloRemoteAbortDone")
      [] OTHER -> AbortHello

\* Mutant of PendingListen: a peer that is ready is taken for a trusted one.
PendingListenTrusts(m) == ReadyListen(m)

\* Messages are told apart by what they say of the waiting time: at least
\* tHelloProlongThrInc, less, less than tHelloProlongMin, or nothing.  Where the
\* code leaves the switch without a return the state is handled once more.
PendingListen(m) ==
    CASE m \in {"ready", "pending"} -> Timer("prolong")
      [] m = "readyMid" -> Timer("stop") \o Handle(FALSE, None)
      [] m = "pendingMid" -> Timer("stop")
      [] m = "prolong" -> Send(<<>>, EndWithError)
      [] m \in {"readyShort", "pendingBare", "prolongWaiting"} -> AbortHello \o Handle(FALSE, None)
      [] m = "aborted" -> SetAndHandle("HelloRemoteAbortDone")
      [] OTHER -> AbortHello

\* The user is waited for as long as it takes; a user who has decided against
\* the peer only as long as the peer waits anyway.
PendingTimeout ==
    IF Waiting \/ timer.type = "prolong" THEN Send(Timer("wait"), EndWithError)
    ELSE AbortHello

HelloHandler(s, timeout, m) ==
    CASE s = "Hello" ->
           SetState(IF trust = "paired" \/ env.autoAccept \/ role = "client"
                    THEN "HelloReadyInit" ELSE "HelloPendingInit")
           \o Handle(timeout, m)
      [] s = "HelloReadyInit" -> Send(SetState("HelloReadyListen"), AbortHello)
      [] s = "HelloReadyListen" -> IF timeout THEN AbortHello ELSE ReadyListen(m)
      [] s = "HelloPendingInit" ->
           Send(SetState("HelloPendingListen") \o <<<<"allow">>>>, EndWithError)
      [] s = "HelloPendingListen" -> IF timeout THEN PendingTimeout ELSE PendingListen(m)
      [] s = "HelloAbort" -> Timer("stop") \o Send(SetAndHandle("HelloAbortDone"), EndWithError)
      [] s \in {"HelloAbortDone", "HelloRemoteAbortDone"} -> <<<<"spawn", "abort">>>>
      [] s = "HelloOk" /\ role = "server" ->
           SetWithTimer("ProtServerInit", "wait") \o SetState("ProtServerListenProposal")
      [] s = "HelloOk" /\ role = "client" ->
           SetState("ProtClientInit") \o Send(SetState("ProtClientListenChoice"), EndWithError)

ProtHandler(s, timeout, m) ==
    CASE s = "ProtServerListenProposal" /\ ~timeout /\ m = "announceMax" ->
           Send(SetWithTimer("ProtServerListenConfirm", "wait"), EndWithError)
      [] s = "ProtServerListenConfirm" /\ ~timeout /\ m = "select" ->
           SetWithTimer("ProtServerOk", "stop") \o Handle(FALSE, None)
      [] s = "ProtClientListenChoice" /\ ~timeout /\ m = "select" ->
           Send(SetAndHandle("ProtClientOk"), EndWithError)
      [] s \in {"ProtClientOk", "ProtServerOk"} -> SetAndHandle("PinCheckInit")
      [] OTHER -> AbortProtocol

PinHandler(s, m) ==
    CASE s = "PinCheckInit" -> Send(SetState("PinCheckListen"), EndWithError)
      [] s = "PinCheckListen" ->
           IF m = "pinNone" THEN SetAndHandle("PinCheckOk") ELSE EndWithError
      [] s = "PinCheckOk" -> Send(SetWithTimer("AccessMethodsRequest", "wait"), EndWithError)

\* SetupRemoteService, and the flush of the SPINE buffer, with approveHandshake's
\* states around them.
AccessHandler(m) ==
    CASE m = "accessRequest" -> Send(<<>>, EndWithError)
      [] m = "access" \/ (m = "accessOther" /\ ~env.knowsShipID) ->
           SetState("Approved") \o <<<<"setup">>>> \o SetWithTimer("Complete", "stop")
           \o <<<<"flush">>>>
      [] OTHER -> EndWithError

InitStates == {"InitStart", "ClientWait", "ServerWait"}
HelloStates == {"Hello", "HelloReadyInit", "HelloReadyListen", "HelloPendingInit",
                "HelloPendingListen", "HelloOk", "HelloAbort", "HelloAbortDone",
                "HelloRemoteAbortDone"}
ProtStates == {"ProtServerListenProposal", "ProtServerListenConfirm", "ProtServerOk",
               "ProtClientListenChoice", "ProtClientOk"}
PinStates == {"PinCheckInit", "PinCheckListen", "PinCheckOk"}

\* States in which nothing is handled: on the way, at the end, or in error.
PassiveStates == {"ClientSend", "ClientEvaluate", "ServerEvaluate", "HelloRejected",
                  "ProtServerInit", "ProtClientInit", "Approved", "Complete", "Error"}

States == InitStates \cup HelloStates \cup ProtStates \cup PinStates \cup PassiveStates
          \cup {"AccessMethodsRequest"}

\* handleState: what is done in state s on message m, or on a timeout.
Handler(s, timeout, m) ==
    CASE s \in InitStates -> InitHandler(s, timeout, m)
      [] s \in HelloStates -> HelloHandler(s, timeout, m)
      [] s \in ProtStates -> ProtHandler(s, timeout, m)
      [] s \in PinStates -> PinHandler(s, m)
      [] s = "AccessMethodsRequest" -> AccessHandler(m)
      [] OTHER -> <<>>

\* handleShipMessage
Message(m) ==
    LET end == <<<<"disconnect">>, <<"report", FALSE>>>> IN
    CASE m = "announceEnd" -> Send(<<>>, <<>>) \o end
      [] m = "confirmEnd" -> end
      [] OTHER -> Handle(FALSE, m)

\* Mutant of ConnectionError: a handshake that the peer has refused is not closed.
ConnectionErrorRefused(s) ==
    IF s = "HelloReadyListen" THEN SetState("HelloRejected") ELSE SetState("Error") \o Close(FALSE)

\* ReportConnectionError
ConnectionError(s) ==
    CASE s = "HelloReadyListen" -> SetState("HelloRejected") \o Close(FALSE)
      [] s \in {"HelloRemoteAbortDone", "HelloAbort", "HelloAbortDone"} -> Close(FALSE)
      [] OTHER -> SetState("Error") \o Close(FALSE)

-----------------------------------------------------------------------------

TypeOK ==
    /\ env \in Environments
    /\ role \in env.roles
    /\ state \in States
    /\ DOMAIN code = Goroutines
    /\ timer \in [on : BOOLEAN, type : {"wait", "prolong"}, fired : {"no", "current", "stale"}]
    /\ timer.fired = "current" => timer.on
    /\ once \in {"no", "running", "done"}
    /\ closed \in BOOLEAN /\ reported \in BOOLEAN /\ full \in BOOLEAN
    /\ trust \in {"paired", "undecided", "denied"}
    /\ reader \in BOOLEAN
    /\ received \in 0..env.spine
    /\ buffer \in Seq(1..env.spine) /\ delivered \in Seq(1..env.spine)

Init ==
    /\ env \in Environments
    /\ role \in env.roles
    /\ state = "InitStart"
    /\ code = [g \in Goroutines |-> IF g = "run" THEN Handle(FALSE, None) ELSE <<>>]
    /\ timer = [on |-> FALSE, type |-> "wait", fired |-> "no"]
    /\ once = "no"
    /\ closed = FALSE
    /\ full = FALSE
    /\ reported = FALSE
    /\ trust = env.trust
    /\ reader = FALSE
    /\ received = 0
    /\ buffer = <<>>
    /\ delivered = <<>>

\* The next step of goroutine g is a step of kind k.
At(g, k) == code[g] # <<>> /\ code[g][1][1] = k
Arg(g, i) == code[g][1][i]

\* Goroutine g has done its step and has ops to do before the rest.
Then(g, ops) == code' = [code EXCEPT ![g] = ops \o Tail(@)]

Busy(g) == code[g] # <<>>
Begin(g, ops) == ~Busy(g) /\ code' = [code EXCEPT ![g] = ops]

-----------------------------------------------------------------------------
(* The steps. *)

\* Mutant of TimerDone: a callback that has fired passes for that of the next timer.
TimerDoneInherits(op) ==
    timer' = IF op = "keep" THEN timer
             ELSE [timer EXCEPT !.on = op # "stop", !.type = IF op = "stop" THEN @ ELSE op]

\* stopHandshakeTimer and setHandshakeTimer: a callback that has fired before is
\* not stopped.
TimerDone(op) ==
    timer' = IF op = "keep" THEN timer
             ELSE [on |-> op # "stop",
                   type |-> IF op = "stop" THEN timer.type ELSE op,
                   fired |-> IF timer.fired = "current" THEN "stale" ELSE timer.fired]

\* setState.  Of what the hub does with the new state only the trust that comes
\* with HelloOk matters here.
Set(g) ==
    LET s == Arg(g, 2) IN
    /\ At(g, "set")
    /\ state' = s
    /\ TimerDone(Arg(g, 3))
    /\ Then(g, IF s = "HelloOk" /\ state # s THEN <<<<"trusted">>>> ELSE <<>>)
    /\ UNCHANGED <<once, closed, reported, trust, dataVars>>

\* HandleShipHandshakeStateUpdate
SetTrusted(g) ==
    /\ At(g, "trusted")
    /\ trust' = "paired"
    /\ Then(g, <<>>)
    /\ UNCHANGED <<state, timer, once, closed, reported, dataVars>>

\* handleState reads the state and decides on the handler.
HandleState(g) ==
    /\ At(g, "handle")
    /\ Then(g, Handler(state, Arg(g, 2), Arg(g, 3)))
    /\ UNCHANGED <<state, timer, once, closed, reported, trust, dataVars>>

SetTimer(g) ==
    /\ At(g, "timer")
    /\ TimerDone(Arg(g, 2))
    /\ Then(g, <<>>)
    /\ UNCHANGED <<state, once, closed, reported, trust, dataVars>>

Allow(g) ==
    /\ At(g, "allow")
    /\ Then(g, IF Waiting THEN <<>> ELSE AbortHello)
    /\ UNCHANGED <<state, timer, once, closed, reported, trust, dataVars>>

\* validateConnectionBeforeApproval and the end of ApproveIfPending
Validate(g) ==
    /\ At(g, "validate")
    /\ Then(g, IF ~closed /\ trust = "paired" THEN SetAndHandle("HelloOk") ELSE AbortHello)
    /\ UNCHANGED <<state, timer, once, closed, reported, trust, dataVars>>

\* SetupRemoteService returns the reader, and gives the application the writer.
Setup(g) ==
    /\ At(g, "setup")
    /\ reader' = TRUE
    /\ Then(g, <<>>)
    /\ UNCHANGED <<state, timer, once, closed, reported, trust, env, role, full, received, buffer, delivered>>

\* Mutant of Flush: the buffer is not emptied.
FlushKeeps(g) ==
    /\ At(g, "flush")
    /\ delivered' = delivered \o buffer
    /\ Then(g, <<>>)
    /\ UNCHANGED <<state, timer, once, closed, reported, trust, env, role, full, reader, received, buffer>>

\* processBufferedSpineMessages
Flush(g) ==
    /\ At(g, "flush")
    /\ delivered' = delivered \o buffer
    /\ buffer' = <<>>
    /\ Then(g, <<>>)
    /\ UNCHANGED <<state, timer, once, closed, reported, trust, env, role, full, reader, received>>

\* Mutant of Spawn: after an abort the peer is expected to close.
SpawnWaits(g) ==
    /\ At(g, "spawn")
    /\ Then(g, <<>>)
    /\ once' = IF Arg(g, 2) = "closer" THEN "done" ELSE once
    /\ UNCHANGED <<state, timer, closed, reported, trust, dataVars>>

\* go func(): the goroutine closes the connection after an abort, or the data
\* connection after an announced end, where shutdownOnce is done with.  One that
\* has been started for the same purpose before has the same effect.
Spawn(g) ==
    LET h == Arg(g, 2)
        ops == IF h = "abort" THEN Close(FALSE) ELSE <<<<"disconnect">>, <<"report", FALSE>>>>
    IN
    /\ At(g, "spawn")
    /\ code' = [code EXCEPT ![g] = Tail(@), ![h] = IF @ = <<>> THEN ops ELSE @]
    /\ once' = IF h = "closer" THEN "done" ELSE once
    /\ UNCHANGED <<state, timer, closed, reported, trust, dataVars>>

\* Mutant of CloseConnection: the hub is told before the data connection is closed.
CloseReportsFirst(g) ==
    /\ At(g, "close")
    /\ \/ /\ once = "no"
          /\ once' = "running"
          /\ TimerDone("stop")
          /\ Then(g, <<<<"report", TRUE>>, <<"disconnect">>>>)
       \/ /\ once = "done"
          /\ Then(g, <<>>)
          /\ UNCHANGED <<once, timer>>
    /\ UNCHANGED <<state, closed, reported, trust, dataVars>>

\* CloseConnection enters shutdownOnce, or finds it done; while it runs, every
\* other caller waits, and a caller from within waits for itself.  A safe close
\* in data exchange announces the end, and leaves the rest to a goroutine.
CloseConnection(g) ==
    /\ At(g, "close")
    /\ \/ /\ once = "no"
          /\ once' = "running"
          /\ TimerDone("stop")
          /\ Then(g, IF Arg(g, 2) /\ state = "Complete"
                     THEN Send(<<>>, <<>>) \o <<<<"spawn", "closer">>>>
                     ELSE <<<<"disconnect">>, <<"report", TRUE>>>>)
       \/ /\ once = "done"
          /\ Then(g, <<>>)
          /\ UNCHANGED <<once, timer>>
    /\ UNCHANGED <<state, closed, reported, trust, dataVars>>

\* CloseDataConnection
Disconnected(g) ==
    /\ At(g, "disconnect")
    /\ closed' = TRUE
    /\ Then(g, <<>>)
    /\ UNCHANGED <<state, timer, once, reported, trust, dataVars>>

\* HandleConnectionClosed, and the end of the function shutdownOnce runs.
Report(g) ==
    /\ At(g, "report")
    /\ reported' = TRUE
    /\ once' = IF Arg(g, 2) THEN "done" ELSE once
    /\ Then(g, <<>>)
    /\ UNCHANGED <<state, timer, closed, trust, dataVars>>

\* ReportConnectionError, which reads the state before it sets the next one.
ReportConnectionError(g) ==
    /\ At(g, "error")
    /\ Then(g, ConnectionError(state))
    /\ UNCHANGED <<state, timer, once, closed, reported, trust, dataVars>>

\* The first critical section of ApproveIfPending.
ApproveIfPending(g) ==
    /\ At(g, "approve")
    /\ IF state = "HelloPendingListen"
       THEN /\ state' = "HelloReadyInit"
            /\ TimerDone("stop")
            /\ Then(g, Handle(FALSE, None) \o <<<<"validate">>>>)
       ELSE Then(g, <<>>) /\ UNCHANGED <<state, timer>>
    /\ UNCHANGED <<once, closed, reported, trust, dataVars>>

\* The first critical section of AbortIfPending.
AbortIfPending(g) ==
    /\ At(g, "cancel")
    /\ IF state \in {"HelloPendingListen", "HelloReadyListen"}
       THEN /\ state' = "HelloAbort"
            /\ TimerDone("stop")
            /\ Then(g, Handle(FALSE, None))
       ELSE Then(g, <<>>) /\ UNCHANGED <<state, timer>>
    /\ UNCHANGED <<once, closed, reported, trust, dataVars>>

\* The end of CancelPairing.
Distrust(g) ==
    /\ At(g, "distrust")
    /\ trust' = "denied"
    /\ Then(g, <<>>)
    /\ UNCHANGED <<state, timer, once, closed, reported, dataVars>>

-----------------------------------------------------------------------------
(* What starts the goroutines. *)

\* The read pump is started by NewConnectionHandler, before Run.
Reading == ~closed /\ ~Busy("reader") /\ (Busy("run") => env.early)

\* The read pump hands a message to HandleIncomingWebsocketMessage.
Receive(m) ==
    /\ Reading
    /\ Begin("reader", Message(m))
    /\ UNCHANGED <<state, timer, once, closed, reported, trust, dataVars>>

\* A SPINE message is buffered until the application has given a reader.
ReceiveSpine ==
    /\ Reading /\ received < env.spine
    /\ received' = received + 1
    /\ IF reader
       THEN delivered' = Append(delivered, received') /\ UNCHANGED buffer
       ELSE buffer' = Append(buffer, received') /\ UNCHANGED delivered
    /\ UNCHANGED <<state, code, timer, once, closed, reported, trust, env, role, full, reader>>

\* Mutant of ReadError: the read pump ends without a word.
ReadErrorSilent ==
    /\ Reading
    /\ closed' = TRUE
    /\ UNCHANGED <<state, code, timer, once, reported, trust, dataVars>>

\* The read pump meets the end of the stream: it closes the data connection
\* before it reports the error.
ReadError ==
    /\ Reading
    /\ closed' = TRUE
    /\ Begin("reader", <<<<"error">>>>)
    /\ UNCHANGED <<state, timer, once, reported, trust, dataVars>>

\* A write to the socket fails in the write pump: closeWithError marks the data
\* connection as closed, so that close() has nothing left to do, and reports.
WriteError ==
    /\ "break" \in env.may /\ ~closed
    /\ closed' = TRUE
    /\ Begin("writer", <<<<"error">>>>)
    /\ UNCHANGED <<state, timer, once, reported, trust, dataVars>>

\* The write pump falls behind, and catches up.
BufferFills ==
    /\ "full" \in env.may /\ ~closed
    /\ full' = ~full
    /\ UNCHANGED <<state, code, timer, once, closed, reported, trust,
                   env, role, reader, received, buffer, delivered>>

\* The timer expires: its callback is scheduled, and has not taken the lock yet.
Expire ==
    /\ "timeout" \in env.may /\ timer.on /\ timer.fired = "no"
    /\ timer' = [timer EXCEPT !.fired = "current"]
    /\ UNCHANGED <<state, code, once, closed, reported, trust, dataVars>>

\* The callback checks that there is a timer, not that it is its own.  (A timer
\* that has lost its entry to another one's callback still runs, and may find a
\* third one; that is left out.)
Callback ==
    /\ timer.fired # "no"
    /\ IF timer.on
       THEN Begin("timer", Handle(TRUE, None))
       ELSE UNCHANGED code
    /\ timer' = [timer EXCEPT !.on = FALSE, !.fired = "no"]
    /\ UNCHANGED <<state, once, closed, reported, trust, dataVars>>

\* connectionForService finds the connection: it is registered after Run, and
\* removed by HandleConnectionClosed.
Registered == ~Busy("run") /\ ~reported

\* RegisterRemoteService: the service is trusted, its connection is told.
RegisterRemoteService ==
    /\ trust = "undecided"
    /\ trust' = "paired"
    /\ IF Registered THEN Begin("approver", <<<<"approve">>>>) ELSE UNCHANGED code
    /\ UNCHANGED <<state, timer, once, closed, reported, dataVars>>

CancelPairing ==
    /\ "cancel" \in env.may /\ trust # "denied"
    /\ Begin("user", (IF Registered THEN <<<<"cancel">>>> ELSE <<>>) \o <<<<"distrust">>>>)
    /\ UNCHANGED <<state, timer, once, closed, reported, trust, dataVars>>

DisconnectService ==
    /\ "disconnect" \in env.may /\ Registered /\ once = "no"
    /\ Begin("user", Close(TRUE))
    /\ UNCHANGED <<state, timer, once, closed, reported, trust, dataVars>>

\* WriteShipMessageWithPayload finds the data connection closed, or its buffer full.
SendSpine ==
    /\ reader /\ (closed \/ full) /\ once = "no"
    /\ Begin("spine", Close(FALSE))
    /\ UNCHANGED <<state, timer, once, closed, reported, trust, dataVars>>

-----------------------------------------------------------------------------

Step(g) ==
    \/ Set(g) \/ SetTrusted(g) \/ HandleState(g)
    \/ SetTimer(g) \/ Allow(g) \/ Validate(g) \/ Setup(g) \/ Flush(g) \/ Spawn(g)
    \/ CloseConnection(g)
    \/ Disconnected(g) \/ Report(g) \/ ReportConnectionError(g)
    \/ ApproveIfPending(g) \/ AbortIfPending(g) \/ Distrust(g)

Next ==
    \/ \E g \in Goroutines : Step(g)
    \/ \E m \in env.messages : Receive(m)
    \/ ReceiveSpine \/ ReadError \/ WriteError \/ BufferFills
    \/ Expire \/ Callback
    \/ RegisterRemoteService \/ CancelPairing \/ DisconnectService
    \/ SendSpine

Spec == Init /\ [][Next]_vars

\* Goroutines are scheduled and timers expire.  Nothing is assumed of the peer,
\* the network, the user and the application.
Fairness ==
    /\ \A g \in Goroutines : WF_vars(Step(g))
    /\ WF_vars(Expire) /\ WF_vars(Callback)

FairSpec == Spec /\ Fairness

-----------------------------------------------------------------------------
(* Properties. *)

\* HandleIncomingWebsocketMessage and processBufferedSpineMessages: the
\* application sees the SPINE messages once each and in the order of their
\* arrival, those that come before the end of the handshake included.
SpineInOrder == delivered \o buffer = [i \in 1..received |-> i]

\* A server goes on past the hello phase only after the user has trusted the
\* peer (or accepts everyone), whatever the peer sends and whenever.
BeyondHello ==
    \/ state \in ProtStates \cup PinStates
    \/ state \in {"HelloOk", "ProtServerInit", "AccessMethodsRequest", "Approved", "Complete"}

TrustBeforeProtocol ==
    role = "server" /\ ~env.autoAccept /\ BeyondHello => trust # "undecided"

\* HandleConnectionClosed is called for a data connection that counts as closed
\* (isConnClosed), whoever of the pumps, the peer, the timer and the application
\* has ended it: when the hub removes it, and may dial again at once, nothing more
\* is read from it or accepted for writing.  The socket itself is left open by an
\* error of the write pump, see WriteError.
ReportedIsClosed == reported => closed

\* No end is lost: once the data connection counts as closed, whoever has closed it,
\* the hub has been told, or a goroutine still has to tell it, to report the error,
\* or to call CloseConnection; one that finds shutdownOnce done relies on another.
Owes(g) == \E i \in DOMAIN code[g] : code[g][i][1] \in {"report", "error", "close", "spawn"}

EndIsNotLost == closed => reported \/ \E g \in Goroutines : Owes(g)

\* A handshake that is aborted, by either side, by an error or by a time-out,
\* ends with the data connection closed, unless a handler that was under way takes it out of
\* that state again (see AbortIsFinal).
Ended == state \in {"Error", "HelloAbortDone", "HelloRemoteAbortDone", "HelloRejected"}

EndedIsClosed == Ended ~> closed \/ ~Ended

\* The hub hears of the end of every connection, whoever closes it first, unless
\* the goroutine in shutdownOnce waits for itself (see ClosedIsReported).
Hangs == \E g \in Goroutines :
            At(g, "close") /\ once = "running" /\ <<"spawn", "closer">> \in Range(code[g])

EndIsReported == closed ~> reported \/ Hangs

-----------------------------------------------------------------------------
(* What the repository says and the code does not do. *)

\* hub/CONCURRENCY_GUIDE.md: "deadlock-free operation".  A safe close in data
\* exchange that finds the data connection closed, after the peer's announcement
\* or a write error, closes the connection again from within shutdownOnce.
ClosedIsReported == closed ~> reported

\* connection_handshake.go on AbortIfPending: it "prevents race conditions during
\* concurrent handshake operations by atomically checking and updating the
\* state".  ApproveIfPending only looks at the state when it starts: it goes on to
\* the protocol phase, and trusts the service again, after an abort in between.
AbortIsFinal ==
    [][~(state \in {"HelloAbort", "HelloAbortDone"} /\ BeyondHello')]_vars
=============================================================================
