--------------------- MODULE PairingListenerProofs ---------------------
(***************************************************************************)
(* No request is missed while the pairing listener is on, and nobody       *)
(* listens after Shutdown.  Proved of Pairing for any number of devices,   *)
(* requests and evaluating goroutines, from the types that PairingProofs   *)
(* shows.                                                                  *)
(***************************************************************************)
EXTENDS PairingProofs

\* The goroutine of an evaluation that has recorded its request goes on to stop the
\* listener.
PastRecord ==
    {"trust", "window", "untrust", "remove", "stopTimer", "merge", "lookup", "arm", "stop"}

\* Evaluation e will still look at request r, or stop the listener.
Pending(e, r) ==
    \/ eval[e].at = "snapshot"
    \/ eval[e].at \in {"deliver", "check", "validate", "record"} /\ r \in eval[e].todo
    \/ eval[e].at \in {"validate", "record"} /\ r = eval[e].req
    \/ eval[e].at \in PastRecord

\* While the listener is on, every announced request has been seen or is pending.
MissInv ==
    listening => \A r \in announced \ history : \E e \in Evaluators : Pending(e, r)

\* The callback is set as long as the listener is on and mDNS is up, and there are no
\* requests without mDNS.
MdnsInv ==
    /\ ~MdnsStarted => announced = {}
    /\ listening /\ hub \notin {"connections", "off"} => callback

\* Somebody waits for the end of the context as long as the listener is on.
WatchInv == listening => watched

ListenerInv == MissInv /\ MdnsInv /\ WatchInv

\* Nobody listens before the hub has been started.
LEMMA InitListener == Init => ListenerInv
BY DEF Init, ListenerInv, MissInv, MdnsInv, WatchInv, MdnsStarted

-----------------------------------------------------------------------------
(* What a step may do without losing a request. *)

\* An evaluation that stays where it is has the same requests before it.
LEMMA PendingSame ==
    ASSUME NEW e \in Evaluators, eval'[e].at = eval[e].at, eval'[e].todo = eval[e].todo,
           eval'[e].req = eval[e].req
    PROVE  \A r : Pending(e, r)' <=> Pending(e, r)
BY DEF Pending

\* Neither the listener nor the evaluations take part in the step.
LEMMA ListenerStays ==
    ASSUME ListenerInv, UNCHANGED <<hub, listenerVars, eval>>
    PROVE  ListenerInv'
<1>1. \A e \in Evaluators : \A r : Pending(e, r)' <=> Pending(e, r)
  BY PendingSame
<1> QED
  BY <1>1 DEF ListenerInv, MissInv, MdnsInv, WatchInv, MdnsStarted, listenerVars

\* The listener is stopped.
LEMMA ListenerStops ==
    ASSUME ListenerInv, UNCHANGED <<hub, announced>>, listening' = FALSE
    PROVE  ListenerInv'
BY DEF ListenerInv, MissInv, MdnsInv, WatchInv, MdnsStarted

\* Every request that was pending still is, with the same goroutine or another one.
LEMMA RequestsStay ==
    ASSUME ListenerInv, UNCHANGED <<hub, announced, callback, listening, watched>>,
           history \subseteq history',
           \A r \in announced \ history' :
               listening => \A e \in Evaluators :
                   Pending(e, r) => \E f \in Evaluators : Pending(f, r)'
    PROVE  ListenerInv'
<1>1. MissInv'
  <2> SUFFICES ASSUME listening, NEW r \in announced \ history'
               PROVE  \E f \in Evaluators : Pending(f, r)'
    BY DEF MissInv
  <2>1. PICK e \in Evaluators : Pending(e, r)
    BY DEF ListenerInv, MissInv
  <2> QED
    BY <2>1
<1> QED
  BY <1>1 DEF ListenerInv, MdnsInv, WatchInv, MdnsStarted

\* StartListening: the goroutine it spawns will look at everything announced so far.
LEMMA EnableListener ==
    ASSUME ListenerInv, EvalType, Enable, UNCHANGED <<announced, history>>,
           hub' = hub \/ (hub = "listener" /\ hub' = "timers")
    PROVE  ListenerInv'
<1>0. MdnsStarted' <=> MdnsStarted
  BY DEF MdnsStarted
<1>1. CASE listening \/ ~MdnsStarted
  <2>1. UNCHANGED <<listening, callback, watched, eval>>
    BY <1>1 DEF Enable
  <2>2. \A e \in Evaluators : \A r : Pending(e, r)' <=> Pending(e, r)
    BY <2>1, PendingSame
  <2> QED
    BY <1>0, <2>1, <2>2 DEF ListenerInv, MissInv, MdnsInv, WatchInv
<1>2. CASE ~(listening \/ ~MdnsStarted)
  <2>1. PICK s \in Snapshots :
            /\ listening' = TRUE /\ callback' = TRUE /\ watched' = TRUE
            /\ eval' = [eval EXCEPT ![s].at = "snapshot"]
    BY <1>2 DEF Enable
  <2>2. s \in Evaluators /\ eval'[s].at = "snapshot"
    BY <2>1 DEF EvalType, Evaluation, Evaluators
  <2>3. \A r : Pending(s, r)'
    BY <2>2 DEF Pending
  <2> QED
    BY <1>0, <1>2, <2>1, <2>2, <2>3 DEF ListenerInv, MissInv, MdnsInv, WatchInv
<1> QED
  BY <1>1, <1>2

-----------------------------------------------------------------------------
(* The steps. *)

\* An evaluation has looked at a request before it drops it, or will stop the listener.
LEMMA EvaluateListener ==
    ASSUME ListenerInv, EvalType, OtherTypes, RequestInv, NEW e \in Evaluators, Evaluate(e)
    PROVE  ListenerInv'
<1> USE DEF listenerVars
<1>0. eval[e] \in Evaluation /\ eval \in [Evaluators -> Evaluation] /\ history \subseteq Request
  BY DEF EvalType, OtherTypes
<1>1. CASE Stop(e)
  BY <1>1, ListenerStops DEF Stop, StopListener
<1>2. CASE ~Stop(e)
  <2>1. /\ UNCHANGED <<hub, announced, callback, listening, watched>>
        /\ history \subseteq history'
    BY <1>2 DEF Evaluate, Snapshot, Check, Validate, Record, FindTrusted, Window, Untrust, Remove,
         StopOldTimer, Merge, Lookup, Arm
  <2>2. ASSUME NEW f \in Evaluators \ {e}
        PROVE  /\ eval'[f].at = eval[f].at /\ eval'[f].todo = eval[f].todo
               /\ eval'[f].req = eval[f].req
    <3> USE DEF Evaluation
    <3>1. CASE Snapshot(e) \/ Check(e) \/ Validate(e) \/ Record(e)
      BY <1>0, <3>1 DEF Snapshot, Check, Validate, Record, GoOn, Fail
    <3>2. CASE FindTrusted(e) \/ Window(e) \/ Untrust(e)
      BY <1>0, <3>2 DEF FindTrusted, Window, Untrust, GoOn
    <3>3. CASE Remove(e)
      BY <1>0, <3>3 DEF Remove, Detach
    <3>4. CASE StopOldTimer(e) \/ Merge(e) \/ Lookup(e) \/ Arm(e)
      BY <1>0, <3>4 DEF StopOldTimer, Merge, Lookup, Arm, GoOn
    <3> QED
      BY <1>2, <3>1, <3>2, <3>3, <3>4 DEF Evaluate
  <2>3. ASSUME NEW r \in announced \ history', listening, Pending(e, r)
        PROVE  Pending(e, r)'
    <3> USE DEF Evaluation
    <3>1. CASE Snapshot(e)
      <4>1. MdnsStarted
        BY <2>3 DEF ListenerInv, MdnsInv
      <4>2. eval'[e].at = "check" /\ eval'[e].todo = announced
        BY <1>0, <3>1, <4>1 DEF Snapshot
      <4> QED
        BY <2>3, <4>2 DEF Pending
    <3>2. CASE Check(e)
      <4>1. r \in eval[e].todo /\ eval[e].at = "check"
        BY <2>3, <3>2 DEF Check, Pending, PastRecord
      <4>2. PICK q \in eval[e].todo :
                eval' = [eval EXCEPT ![e].at = "validate", ![e].req = q, ![e].todo = @ \ {q}]
        BY <2>3, <3>2, <4>1 DEF Check
      <4>3. eval'[e].at = "validate" /\ eval'[e].req = q /\ eval'[e].todo = eval[e].todo \ {q}
        BY <1>0, <4>2
      <4> QED
        BY <4>1, <4>3 DEF Pending
    <3>3. CASE Validate(e)
      <4>1. /\ eval'[e].todo = eval[e].todo
            /\ \/ eval'[e].at = "record" /\ eval'[e].req = eval[e].req
               \/ eval'[e].at = "check" /\ eval[e].req \in history
        BY <1>0, <2>3, <3>3 DEF Validate, GoOn, Fail
      <4>2. r \in eval[e].todo \/ r = eval[e].req
        BY <2>3, <3>3 DEF Validate, Pending, PastRecord
      <4>3. r \notin history
        BY <2>1, <2>3
      <4> QED
        BY <4>1, <4>2, <4>3 DEF Pending
    <3>4. CASE Record(e)
      <4>1. eval'[e].at = "trust"
        BY <1>0, <3>4 DEF Record, GoOn
      <4> QED
        BY <4>1 DEF Pending, PastRecord
    <3>5. CASE FindTrusted(e) \/ Window(e) \/ Untrust(e) \/ Merge(e) \/ Lookup(e) \/ Arm(e)
      <4>1. eval'[e].at \in PastRecord
        BY <1>0, <3>5 DEF FindTrusted, Window, Untrust, Merge, Lookup, Arm, GoOn, PastRecord
      <4> QED
        BY <4>1 DEF Pending
    <3>6. CASE Remove(e) \/ StopOldTimer(e)
      <4>1. eval'[e].at \in PastRecord
        BY <1>0, <3>6 DEF Remove, Detach, StopOldTimer, PastRecord
      <4> QED
        BY <4>1 DEF Pending
    <3> QED
      BY <1>2, <3>1, <3>2, <3>3, <3>4, <3>5, <3>6 DEF Evaluate
  <2>4. \A r \in announced \ history' :
            listening => \A g \in Evaluators :
                Pending(g, r) => \E f \in Evaluators : Pending(f, r)'
    <3> SUFFICES ASSUME NEW r \in announced \ history', listening,
                        NEW g \in Evaluators, Pending(g, r)
                 PROVE  Pending(g, r)'
      OBVIOUS
    <3>1. CASE g = e
      BY <2>3, <3>1
    <3>2. CASE g # e
      BY <2>2, <3>2, PendingSame
    <3> QED
      BY <3>1, <3>2
  <2> QED
    BY <2>1, <2>4, RequestsStay
<1> QED
  BY <1>1, <1>2

\* A new entry is stored before the callback is read.
LEMMA BrowserListener ==
    ASSUME ListenerInv, EvalType,
           Deliver \/ \E r \in Request : Announce(r) \/ Withdraw(r)
    PROVE  ListenerInv'
<1> USE DEF listenerVars
<1>0. Browser \in Evaluators /\ eval[Browser] \in Evaluation /\ eval \in [Evaluators -> Evaluation]
  BY DEF EvalType, Evaluators
<1>1. CASE Deliver
  <2>1. \A f \in Evaluators \ {Browser} : eval'[f] = eval[f]
    BY <1>0, <1>1 DEF Deliver
  <2>2. UNCHANGED <<hub, announced, callback, listening, watched, history>>
    BY <1>1 DEF Deliver
  <2>3. ASSUME NEW r \in announced, listening, Pending(Browser, r) PROVE Pending(Browser, r)'
    <3>1. callback
      BY <2>3 DEF ListenerInv, MdnsInv, MdnsStarted
    <3>2. eval'[Browser].at = "check" /\ eval'[Browser].todo = eval[Browser].todo
      BY <1>0, <1>1, <3>1 DEF Deliver, Evaluation
    <3>3. r \in eval[Browser].todo
      BY <1>1, <2>3 DEF Deliver, Pending, PastRecord
    <3> QED
      BY <3>2, <3>3 DEF Pending
  <2>4. \A r \in announced \ history' :
            listening => \A g \in Evaluators :
                Pending(g, r) => \E f \in Evaluators : Pending(f, r)'
    <3> SUFFICES ASSUME NEW r \in announced \ history', listening,
                        NEW g \in Evaluators, Pending(g, r)
                 PROVE  Pending(g, r)'
      OBVIOUS
    <3> QED
      BY <2>1, <2>3, PendingSame
  <2> QED
    BY <2>2, <2>4, RequestsStay
<1>2. ASSUME NEW r \in Request, Announce(r) PROVE ListenerInv'
  <2>1. /\ UNCHANGED <<hub, callback, listening, watched, history>>
        /\ MdnsStarted /\ eval[Browser].at = "idle" /\ announced' \subseteq announced \cup {r}
    BY <1>2 DEF Announce
  <2>2. /\ eval'[Browser].at = "deliver" /\ eval'[Browser].todo = {r}
        /\ \A f \in Evaluators \ {Browser} : eval'[f] = eval[f]
    BY <1>0, <1>2 DEF Announce, Evaluation
  <2>3. \A q : ~Pending(Browser, q)
    BY <2>1 DEF Pending, PastRecord
  <2>4. \A g \in Evaluators : \A q : Pending(g, q) => Pending(g, q)'
    BY <2>2, <2>3, PendingSame
  <2>5. Pending(Browser, r)'
    BY <2>2 DEF Pending
  <2>6. MissInv'
    BY <1>0, <2>1, <2>4, <2>5 DEF ListenerInv, MissInv
  <2> QED
    BY <2>1, <2>6 DEF ListenerInv, MdnsInv, WatchInv, MdnsStarted
<1>3. ASSUME NEW r \in Request, Withdraw(r) PROVE ListenerInv'
  <2>1. /\ UNCHANGED <<hub, callback, listening, watched, history, eval>>
        /\ announced' \subseteq announced
    BY <1>3 DEF Withdraw
  <2>2. \A g \in Evaluators : \A q : Pending(g, q) => Pending(g, q)'
    BY <2>1, PendingSame
  <2>3. MissInv'
    BY <2>1, <2>2 DEF ListenerInv, MissInv
  <2> QED
    BY <2>1, <2>3 DEF ListenerInv, MdnsInv, WatchInv, MdnsStarted
<1> QED
  BY <1>1, <1>2, <1>3

\* The application stops the listener when it registers a device, and starts it when it
\* removes one.
LEMMA AppListener ==
    ASSUME ListenerInv, EvalType, AppStep
    PROVE  ListenerInv'
<1> USE DEF listenerVars, trackerVars, connVars
<1>1. CASE Registered
  <2>1. listening' = FALSE \/ UNCHANGED listening
    BY <1>1 DEF Registered, StopListener
  <2> QED
    BY <1>1, <2>1, ListenerStops, ListenerStays DEF Registered
<1>2. CASE UnregisterRemoves
  <2>1. /\ UNCHANGED <<hub, listenerVars>>
        /\ \A f \in Evaluators : /\ eval'[f].at = eval[f].at /\ eval'[f].todo = eval[f].todo
                                 /\ eval'[f].req = eval[f].req
    BY <1>2 DEF UnregisterRemoves, Detach, EvalType, Evaluation
  <2>2. \A f \in Evaluators : \A r : Pending(f, r)' <=> Pending(f, r)
    BY <2>1, PendingSame
  <2> QED
    BY <2>1, <2>2, RequestsStay
<1>3. CASE UnregisterReactivates
  BY <1>3, EnableListener DEF UnregisterReactivates
<1>4. CASE \/ RegisterLooksUp \/ RegisterArms \/ UnregisterStopsTimer \/ UnregisterCloses
           \/ CancelUntrusts
  BY <1>4, ListenerStays DEF RegisterLooksUp, RegisterArms, UnregisterStopsTimer, UnregisterCloses,
       CancelUntrusts
<1> QED
  BY <1>1, <1>2, <1>3, <1>4 DEF AppStep

\* Start starts the listener when mDNS is up; Shutdown stops it while mDNS still is.
LEMMA HubListener ==
    ASSUME ListenerInv, EvalType, HubStep \/ Start \/ ShutdownStopsTimer
    PROVE  ListenerInv'
<1> USE DEF listenerVars, trackerVars, connVars
<1>1. CASE StartListener
  <2>1. CASE Trusted = {}
    BY <1>1, <2>1, EnableListener DEF StartListener
  <2>2. CASE Trusted # {}
    <3>1. UNCHANGED <<listenerVars, eval>> /\ hub = "listener" /\ hub' = "timers"
      BY <1>1, <2>2 DEF StartListener
    <3>2. \A e \in Evaluators : \A r : Pending(e, r)' <=> Pending(e, r)
      BY <3>1, PendingSame
    <3> QED
      BY <3>1, <3>2 DEF ListenerInv, MissInv, MdnsInv, WatchInv, MdnsStarted
  <2> QED
    BY <2>1, <2>2
<1>2. CASE ShutdownStopsMdns
  <2>1. announced' = {} /\ listening' = listening /\ watched' = watched /\ hub' = "connections"
    BY <1>2 DEF ShutdownStopsMdns
  <2> QED
    BY <2>1 DEF ListenerInv, MissInv, MdnsInv, WatchInv
<1>3. CASE ShutdownStopsListener
  <2>1. announced' = announced /\ listening' = FALSE /\ hub = "service" /\ hub' = "mdns"
    BY <1>3 DEF ShutdownStopsListener, StopListener
  <2> QED
    BY <2>1 DEF ListenerInv, MissInv, MdnsInv, WatchInv, MdnsStarted
<1>4. CASE StartTimers \/ ShutdownCancels \/ ShutdownClosesConnections \/ Start \/ ShutdownStopsTimer
  <2>1. /\ UNCHANGED <<listenerVars, eval>>
        /\ \/ hub = "new" /\ hub' = "listener"
           \/ hub = "timers" /\ hub' = "up"
           \/ hub = "up" /\ hub' = "cancel"
           \/ hub = "cancel" /\ hub' = "service"
           \/ hub = "connections" /\ hub' = "off"
    BY <1>4 DEF StartTimers, ShutdownCancels, ShutdownClosesConnections, Start, ShutdownStopsTimer
  <2>2. \A e \in Evaluators : \A r : Pending(e, r)' <=> Pending(e, r)
    BY <2>1, PendingSame
  <2> QED
    BY <2>1, <2>2 DEF ListenerInv, MissInv, MdnsInv, WatchInv, MdnsStarted
<1> QED
  BY <1>1, <1>2, <1>3, <1>4 DEF HubStep

\* A time-out of the replacement window starts the listener; the end of the context and
\* a control unit that has connected stop it.
LEMMA OtherListener ==
    ASSUME ListenerInv, EvalType,
           \/ Watch \/ Expire \/ ExpiryClears \/ ExpiryReactivates
           \/ \E d \in Device :
                 \/ Register(d) \/ Unregister(d) \/ Cancel(d)
                 \/ Connect(d) \/ Hello(d) \/ HelloOk(d) \/ Complete(d) \/ Close(d)
                 \/ Opening(d) \/ Closing(d)
           \/ UNCHANGED vars
    PROVE  ListenerInv'
<1> USE DEF listenerVars, trackerVars, connVars
<1>1. CASE Watch \/ \E d \in Device : CompleteStopsListener(d)
  BY <1>1, ListenerStops DEF Watch, CompleteStopsListener, StopListener
<1>2. CASE ExpiryReactivates
  BY <1>2, EnableListener DEF ExpiryReactivates
<1>3. CASE Expire \/ ExpiryClears \/ UNCHANGED vars
  BY <1>3, ListenerStays DEF Expire, ExpiryClears, vars
<1>4. ASSUME NEW d \in Device,
             \/ Register(d) \/ Unregister(d) \/ Cancel(d)
             \/ Connect(d) \/ Hello(d) \/ HelloOk(d) \/ Complete(d) \/ Close(d)
             \/ CompleteStopsTimer(d) \/ Closing(d)
      PROVE  ListenerInv'
  BY <1>4, ListenerStays DEF Register, Unregister, Cancel, Connect, Hello, HelloOk, Complete, Close,
       CompleteStopsTimer, Closing, ClosedLooksUp, ClosedArms
<1> QED
  BY <1>1, <1>2, <1>3, <1>4 DEF Opening

\* The three parts are inductive together with the types.
LEMMA ListenerStep ==
    ASSUME IInv, ListenerInv, [Next]_vars
    PROVE  ListenerInv'
<1>0. EvalType /\ OtherTypes /\ RequestInv
  BY TypeParts DEF IInv
<1>1. CASE \E e \in Evaluators : Evaluate(e)
  BY <1>0, <1>1, EvaluateListener
<1>2. CASE Deliver \/ \E r \in Request : Announce(r) \/ Withdraw(r)
  BY <1>0, <1>2, BrowserListener
<1>3. CASE AppStep
  BY <1>0, <1>3, AppListener
<1>4. CASE HubStep \/ Start \/ ShutdownStopsTimer
  BY <1>0, <1>4, HubListener
<1>5. CASE \/ Watch \/ Expire \/ ExpiryClears \/ ExpiryReactivates
           \/ \E d \in Device :
                 \/ Register(d) \/ Unregister(d) \/ Cancel(d)
                 \/ Connect(d) \/ Hello(d) \/ HelloOk(d) \/ Complete(d) \/ Close(d)
                 \/ Opening(d) \/ Closing(d)
           \/ UNCHANGED vars
  BY <1>0, <1>5, OtherListener
<1> QED
  BY <1>1, <1>2, <1>3, <1>4, <1>5 DEF Next, Step

\* The listener's part of the invariant holds in every state.
LEMMA ListenerHolds == Spec => []ListenerInv
<1>1. Init => ListenerInv
  BY InitListener
<1>2. IInv /\ ListenerInv /\ [Next]_vars => ListenerInv'
  BY ListenerStep
<1> QED
  BY <1>1, <1>2, Inductive, PTL DEF Spec

-----------------------------------------------------------------------------

\* However starts and stops of the listener, announcements and evaluations interleave:
\* when all goroutines have come to rest and the listener is on, every announced request
\* has been looked at.  (StartListening registers the callback before it reads the
\* requests announced so far, and an evaluation that gives up leaves the listener off.)
THEOREM NoRequestIsMissed == Spec => []NothingMissed
<1>1. ListenerInv => NothingMissed
  BY DEF ListenerInv, MissInv, NothingMissed, Quiet, Pending, PastRecord
<1> QED
  BY <1>1, ListenerHolds, PTL

\* A time-out or a removal may start the listener again behind Shutdown's back: whoever
\* starts it leaves a goroutine that stops it when the context ends, so that nobody
\* listens when all of them have come to rest.
THEOREM ListenerStaysOff == Spec => []StaysOff
<1>1. ListenerInv => StaysOff
  BY DEF ListenerInv, WatchInv, StaysOff
<1> QED
  BY <1>1, ListenerHolds, PTL
=============================================================================
