----------------------------- MODULE PairingProofs -----------------------------
(***************************************************************************)
(* A control unit is trusted for a reason: the application has registered  *)
(* it, or a request of its own is in the history.  Proved of Pairing for   *)
(* any number of devices, requests and evaluating goroutines.              *)
(***************************************************************************)
EXTENDS Pairing, TLAPS

\* What an evaluation knows of its request: it is one, and from RecordPairing on
\* its digest is in the history.
RequestInv ==
    \A e \in Evaluators :
        /\ eval[e].at \in {"validate", "record"} => eval[e].req \in Request
        /\ eval[e].at \in {"trust", "window", "untrust", "remove", "stopTimer",
                           "merge", "lookup", "arm", "stop"} => eval[e].req \in history

\* A timer that runs is the timer of a device.
TimerInv == tracker.running => tracker.dev \in Device

\* A call of the application is about a device.
AppInv == app.at # "idle" => app.dev \in Device

\* A device that is about to be trusted again, at the end of the hello phase, was trusted
\* when the phase began.
ReadyInv ==
    \A d \in Device : conn[d] = "ready" => d \in Known \/ \E r \in history : From[r] = d

IInv == TypeOK /\ RequestInv /\ TimerInv /\ AppInv /\ TrustIsAccountedFor /\ ReadyInv

Evaluation == [at : EvalSteps, todo : SUBSET Request, req : Request \cup {None},
               old : Device \cup {None}, gone : BOOLEAN]

-----------------------------------------------------------------------------

\* A hub that has just started has evaluated, trusted and timed nothing.
LEMMA InitIInv == Init => IInv
<1> SUFFICES ASSUME Init PROVE IInv
  OBVIOUS
<1> USE DEF Init
<1>1. Idle \in Evaluation
  BY DEF Idle, Evaluation, EvalSteps
<1>2. eval \in [Evaluators -> Evaluation]
  BY <1>1
<1>3. TypeOK
  BY <1>2 DEF TypeOK, Evaluation, HubPhases
<1>4. RequestInv
  BY DEF RequestInv, Idle
<1>5. TrustIsAccountedFor
  BY DEF TrustIsAccountedFor
<1>6. TimerInv /\ AppInv /\ ReadyInv
  BY DEF TimerInv, AppInv, ReadyInv
<1> QED
  BY <1>3, <1>4, <1>5, <1>6 DEF IInv

\* The type of the evaluating goroutines, apart from all other types: most steps
\* disturb one of the two.
EvalType == eval \in [Evaluators -> Evaluation]

OtherTypes ==
    /\ hub \in HubPhases
    /\ announced \subseteq Request
    /\ {callback, listening, watched} \subseteq BOOLEAN
    /\ history \subseteq Request
    /\ trust \in [Device -> {"unknown", "untrusted", "trusted"}]
    /\ conn \in [Device -> {"none", "pending", "aborted", "ready", "hello", "complete"}]
    /\ tracker \in [dev : Device \cup {None}, running : BOOLEAN]
    /\ loose \subseteq Device
    /\ expiry \in {"idle", "clear", "reactivate"}
    /\ app \in [at : {"idle", "registered", "lookup", "arm", "remove", "stopTimer",
                      "reactivate", "close", "untrust"},
                dev : Device \cup {None}, gone : BOOLEAN]
    /\ opening \in [Device -> {"idle", "stopTimer", "stopListener"}]
    /\ closing \in [Device -> {"idle", "complete", "incomplete", "arm"}]

\* TypeOK is the types of the evaluations, of the environment and of the rest.
LEMMA TypeParts ==
    TypeOK <=> /\ EvalType /\ OtherTypes /\ env \in Environments
               /\ tracker.running => tracker.dev # None
BY DEF TypeOK, EvalType, OtherTypes, Evaluation

\* The same of the next state.
LEMMA TypePartsNext ==
    TypeOK' <=> /\ EvalType' /\ OtherTypes' /\ env' \in Environments
                /\ tracker'.running => tracker'.dev # None
BY DEF TypeOK, EvalType, OtherTypes, Evaluation

\* The environment is chosen once.
LEMMA EnvironmentStays ==
    ASSUME TypeOK, [Next]_vars
    PROVE  env' \in Environments
BY DEF TypeOK, Next, vars

\* A step of evaluateEntry leaves an evaluation that has its type.
LEMMA EvaluateEval ==
    ASSUME EvalType, announced \subseteq Request,
           trust \in [Device -> {"unknown", "untrusted", "trusted"}],
           NEW e \in Evaluators, Evaluate(e)
    PROVE  EvalType'
<1> USE DEF EvalType, Evaluation
<1>0. eval[e] \in Evaluation
  OBVIOUS
<1>1. CASE Snapshot(e)
  BY <1>0, <1>1 DEF Snapshot, EvalSteps, Idle
<1>2. CASE Check(e)
  <2>1. CASE eval' = [eval EXCEPT ![e] = Idle]
    BY <2>1 DEF EvalSteps, Idle
  <2>2. ASSUME NEW r \in eval[e].todo,
               eval' = [eval EXCEPT ![e].at = "validate", ![e].req = r, ![e].todo = @ \ {r}]
        PROVE  EvalType'
    <3> DEFINE rest == eval[e].todo \ {r}
    <3>1. r \in Request /\ rest \in SUBSET Request
      BY <1>0
    <3>2. eval' = [eval EXCEPT ![e].at = "validate", ![e].req = r, ![e].todo = rest]
      BY <2>2
    <3> HIDE DEF rest
    <3> QED
      BY <1>0, <3>1, <3>2 DEF EvalSteps
  <2> QED
    BY <1>2, <2>1, <2>2 DEF Check
<1>3. CASE Validate(e)
  BY <1>0, <1>3 DEF Validate, EvalSteps, Fail, GoOn
<1>4. CASE Record(e)
  BY <1>0, <1>4 DEF Record, EvalSteps, GoOn
<1>5. CASE FindTrusted(e)
  BY <1>0, <1>5 DEF FindTrusted, EvalSteps, GoOn, Trusted
<1>6. CASE Window(e)
  BY <1>0, <1>6 DEF Window, EvalSteps
<1>7. CASE Untrust(e)
  BY <1>0, <1>7 DEF Untrust, EvalSteps, GoOn
<1>8. CASE Remove(e)
  <2> DEFINE next == [eval EXCEPT ![e].at = "stopTimer"]
  <2>1. next \in [Evaluators -> Evaluation]
    BY <1>0 DEF EvalSteps
  <2>2. CASE eval[e].gone
    BY <1>8, <2>1, <2>2 DEF Remove
  <2>3. CASE ~eval[e].gone
    <3>1. eval' = [f \in Evaluators |-> IF next[f].old = eval[e].old THEN [next[f] EXCEPT !.gone = TRUE]
                                        ELSE next[f]]
      BY <1>8, <2>3 DEF Remove, Detach
    <3> HIDE DEF next
    <3> QED
      BY ZenonT(60), <2>1, <3>1
  <2> QED
    BY <2>2, <2>3
<1>9. CASE StopOldTimer(e)
  BY <1>0, <1>9 DEF StopOldTimer, EvalSteps, StopTimer
<1>10. CASE Merge(e)
  BY <1>0, <1>10 DEF Merge, EvalSteps, GoOn
<1>11. CASE Lookup(e)
  BY <1>0, <1>11 DEF Lookup, EvalSteps, GoOn
<1>12. CASE Arm(e)
  BY <1>0, <1>12 DEF Arm, EvalSteps, GoOn, StartTimer
<1>13. CASE Stop(e)
  BY <1>0, <1>13 DEF Stop, EvalSteps, StopListener, Idle
<1> QED
  BY <1>1, <1>2, <1>3, <1>4, <1>5, <1>6, <1>7, <1>8, <1>9, <1>10, <1>11, <1>12, <1>13 DEF Evaluate

\* StartListening hands the announced requests to a goroutine, and nothing else.
LEMMA EnableEval ==
    ASSUME EvalType, Enable
    PROVE  EvalType'
<1>1. CASE listening \/ ~MdnsStarted
  BY <1>1 DEF Enable, EvalType
<1>2. ASSUME NEW s \in Snapshots, eval' = [eval EXCEPT ![s].at = "snapshot"]
      PROVE  EvalType'
  BY <1>2 DEF EvalType, Evaluation, EvalSteps, Evaluators
<1> QED
  BY <1>1, <1>2 DEF Enable

\* No step leaves an evaluation without its type.
LEMMA EvalStep ==
    ASSUME TypeOK, [Next]_vars
    PROVE  EvalType'
<1>0. EvalType /\ OtherTypes
  BY TypeParts
<1> USE DEF vars, listenerVars, trackerVars, connVars
<1>1. ASSUME NEW e \in Evaluators, Evaluate(e) PROVE EvalType'
  BY <1>0, <1>1, EvaluateEval DEF OtherTypes
<1>2. CASE Deliver
  BY <1>0, <1>2 DEF Deliver, EvalType, Evaluation, EvalSteps, Idle, Evaluators
<1>3. CASE AppStep
  <2>1. CASE UnregisterReactivates
    BY <1>0, <2>1, EnableEval DEF UnregisterReactivates
  <2>2. CASE UnregisterRemoves
    <3>1. \/ UNCHANGED eval
          \/ eval' = [e \in Evaluators |-> IF eval[e].old = app.dev
                                           THEN [eval[e] EXCEPT !.gone = TRUE] ELSE eval[e]]
      BY <2>2 DEF UnregisterRemoves, Detach
    <3> QED
      BY ZenonT(60), <1>0, <3>1 DEF EvalType, Evaluation
  <2>3. CASE \/ Registered \/ RegisterLooksUp \/ RegisterArms
             \/ UnregisterStopsTimer \/ UnregisterCloses \/ CancelUntrusts
    BY <1>0, <2>3 DEF Registered, RegisterLooksUp, RegisterArms, UnregisterStopsTimer,
                      UnregisterCloses, CancelUntrusts, EvalType
  <2> QED
    BY <1>3, <2>1, <2>2, <2>3 DEF AppStep
<1>4. CASE HubStep
  <2>1. CASE StartListener
    BY <1>0, <2>1, EnableEval DEF StartListener, EvalType
  <2>2. CASE HubStep /\ ~StartListener
    BY <1>0, <2>2 DEF HubStep, StartTimers, ShutdownCancels, ShutdownStopsListener,
                      ShutdownStopsMdns, ShutdownClosesConnections, EvalType
  <2> QED
    BY <1>4, <2>1, <2>2
<1>5. CASE ExpiryReactivates
  BY <1>0, <1>5, EnableEval DEF ExpiryReactivates
<1>6. ASSUME NEW r \in Request, Announce(r) PROVE EvalType'
  <2> DEFINE todo == {r}
  <2>1. todo \in SUBSET Request
    OBVIOUS
  <2>2. eval' = [eval EXCEPT ![Browser].at = "deliver", ![Browser].todo = todo]
    BY <1>6 DEF Announce
  <2>3. Browser \in Evaluators /\ eval[Browser] \in Evaluation
    BY <1>0 DEF EvalType, Evaluators
  <2> HIDE DEF todo
  <2> QED
    BY <1>0, <2>1, <2>2, <2>3 DEF EvalType, Evaluation, EvalSteps
<1>7. ASSUME NEW r \in Request, Withdraw(r) PROVE EvalType'
  BY <1>0, <1>7 DEF Withdraw, EvalType
<1>8. ASSUME NEW d \in Device,
             \/ Register(d) \/ Unregister(d) \/ Cancel(d) \/ Connect(d) \/ Hello(d)
             \/ HelloOk(d) \/ Complete(d) \/ Close(d) \/ Opening(d) \/ Closing(d)
      PROVE  EvalType'
  BY <1>0, <1>8 DEF Register, Unregister, Cancel, Connect, Hello, HelloOk, Complete, Close, Opening, Closing,
       CompleteStopsTimer, CompleteStopsListener, ClosedLooksUp, ClosedArms, EvalType
<1>9. CASE Watch \/ Expire \/ ExpiryClears \/ Start \/ ShutdownStopsTimer \/ UNCHANGED vars
  BY <1>0, <1>9 DEF Watch, Expire, ExpiryClears, Start, ShutdownStopsTimer, EvalType
<1> QED
  BY <1>1, <1>2, <1>3, <1>4, <1>5, <1>6, <1>7, <1>8, <1>9 DEF Next, Step

\* StartListening leaves the listener's flags flags.
LEMMA EnableTypes ==
    ASSUME OtherTypes, Enable
    PROVE  {callback', listening', watched'} \subseteq BOOLEAN
BY DEF OtherTypes, Enable

\* The tracker's Start and Stop only remember callbacks of devices.
LEMMA TimerTypes ==
    ASSUME OtherTypes, NEW d \in Device, StartTimer(d) \/ StopTimer(d)
    PROVE  /\ tracker' \in [dev : Device \cup {None}, running : BOOLEAN]
           /\ loose' = loose
<1>1. CASE StartTimer(d)
  BY <1>1 DEF StartTimer
<1>2. CASE StopTimer(d) /\ tracker' = tracker
  BY <1>2 DEF OtherTypes, StopTimer
<1>3. CASE StopTimer(d) /\ tracker' = [dev |-> None, running |-> FALSE]
  <2>1. tracker' \in [dev : Device \cup {None}, running : BOOLEAN]
    BY <1>3
  <2> QED
    BY <1>3, <2>1 DEF StopTimer
<1> QED
  BY <1>1, <1>2, <1>3 DEF StopTimer

\* Every other variable keeps its type.  An evaluation must hold a request by the
\* time it trusts its device, and the timer a device when it expires.
LEMMA OtherStep ==
    ASSUME TypeOK, RequestInv, TimerInv, [Next]_vars
    PROVE  OtherTypes'
<1>0. EvalType /\ OtherTypes
  BY TypeParts
<1> USE DEF vars, listenerVars, trackerVars, connVars
<1>1. ASSUME NEW e \in Evaluators, Evaluate(e) PROVE OtherTypes'
  <2>0. /\ eval[e] \in Evaluation
        /\ \A r \in Request : From[r] \in Device
        /\ history \subseteq Request
    BY <1>0, PairingAssumption DEF EvalType, OtherTypes
  <2>1. CASE Snapshot(e) \/ Check(e) \/ Validate(e) \/ FindTrusted(e) \/ Window(e) \/ Lookup(e)
    BY ZenonT(60), <1>0, <2>1 DEF OtherTypes, Snapshot, Check, Validate, FindTrusted, Window, Lookup
  <2>2. CASE Record(e)
    BY <1>0, <2>2 DEF OtherTypes, Record, RequestInv
  <2>3. CASE Untrust(e)
    BY <1>0, <2>3 DEF OtherTypes, Untrust
  <2>4. CASE Remove(e)
    BY ZenonT(60), <1>0, <2>4 DEF OtherTypes, Remove, Detach
  <2>5. CASE StopOldTimer(e)
    BY <1>0, <2>0, <2>5 DEF OtherTypes, StopOldTimer, StopTimer
  <2>6. CASE Merge(e)
    BY <1>0, <2>6 DEF OtherTypes, Merge
  <2>7. CASE Arm(e)
    <3>1. From[eval[e].req] \in Device
      BY <2>0, <2>7 DEF Arm, RequestInv
    <3> QED
      BY <1>0, <2>7, <3>1, TimerTypes DEF OtherTypes, Arm
  <2>8. CASE Stop(e)
    BY <1>0, <2>8 DEF OtherTypes, Stop, StopListener
  <2> QED
    BY <1>1, <2>1, <2>2, <2>3, <2>4, <2>5, <2>6, <2>7, <2>8 DEF Evaluate
<1>2. CASE AppStep
  <2>1. CASE Registered
    <3>1. app' \in {[app EXCEPT !.at = "lookup"], AppIdle} /\ listening' \in BOOLEAN
      BY <1>0, <2>1 DEF OtherTypes, Registered, StopListener
    <3>2. app' \in [at : {"idle", "registered", "lookup", "arm", "remove", "stopTimer",
                          "reactivate", "close", "untrust"},
                    dev : Device \cup {None}, gone : BOOLEAN]
      <4>1. CASE app' = [app EXCEPT !.at = "lookup"]
        BY <1>0, <4>1 DEF OtherTypes
      <4>2. CASE app' = AppIdle
        BY <4>2 DEF AppIdle
      <4> QED
        BY <3>1, <4>1, <4>2
    <3> QED
      BY <1>0, <2>1, <3>1, <3>2 DEF OtherTypes, Registered
  <2>2. CASE RegisterLooksUp
    BY <1>0, <2>2 DEF OtherTypes, RegisterLooksUp, AppIdle
  <2>3. CASE RegisterArms
    BY <1>0, <2>3 DEF OtherTypes, RegisterArms, AppIdle, StartTimer
  <2>4. CASE UnregisterRemoves
    BY ZenonT(60), <1>0, <2>4 DEF OtherTypes, UnregisterRemoves, Detach
  <2>5. CASE UnregisterStopsTimer
    BY <1>0, <2>5 DEF OtherTypes, UnregisterStopsTimer, StopTimer
  <2>6. CASE UnregisterReactivates
    BY <1>0, <2>6, EnableTypes DEF OtherTypes, UnregisterReactivates
  <2>7. CASE UnregisterCloses
    BY <1>0, <2>7 DEF OtherTypes, UnregisterCloses, Closed, AppIdle
  <2>8. CASE CancelUntrusts
    BY <1>0, <2>8 DEF OtherTypes, CancelUntrusts, AppIdle
  <2> QED
    BY <1>2, <2>1, <2>2, <2>3, <2>4, <2>5, <2>6, <2>7, <2>8 DEF AppStep
<1>3. CASE HubStep
  <2>1. CASE StartListener
    BY <1>0, <2>1, EnableTypes DEF OtherTypes, StartListener, HubPhases
  <2>2. CASE StartTimers
    <3>1. /\ tracker' \in [dev : Device \cup {None}, running : BOOLEAN]
          /\ loose' = loose
      BY <1>0, <2>2, TimerTypes DEF OtherTypes, StartTimers, Trusted
    <3> QED
      BY <1>0, <2>2, <3>1 DEF OtherTypes, StartTimers, HubPhases
  <2>3. CASE ShutdownCancels \/ ShutdownStopsListener \/ ShutdownStopsMdns
    BY ZenonT(60), <1>0, <2>3 DEF OtherTypes, ShutdownCancels, ShutdownStopsListener, ShutdownStopsMdns,
                      StopListener, HubPhases
  <2>4. CASE ShutdownClosesConnections
    BY <1>0, <2>4 DEF OtherTypes, ShutdownClosesConnections, Closed, HubPhases
  <2> QED
    BY <1>3, <2>1, <2>2, <2>3, <2>4 DEF HubStep
<1>4. CASE Expire \/ ExpiryClears \/ ShutdownStopsTimer
  <2>1. CASE Expire
    BY <1>0, <2>1 DEF OtherTypes, Expire
  <2>2. CASE ExpiryClears
    BY <1>0, <2>2 DEF OtherTypes, ExpiryClears, TimerInv
  <2>3. CASE ShutdownStopsTimer
    BY <1>0, <2>3 DEF OtherTypes, ShutdownStopsTimer, HubPhases
  <2> QED
    BY <1>4, <2>1, <2>2, <2>3
<1>5. CASE ExpiryReactivates
  BY <1>0, <1>5, EnableTypes DEF OtherTypes, ExpiryReactivates
<1>6. CASE Deliver \/ Watch \/ Start \/ UNCHANGED vars
  BY ZenonT(60), <1>0, <1>6 DEF OtherTypes, Deliver, Watch, StopListener, Start, HubPhases
<1>7. ASSUME NEW r \in Request, Announce(r) \/ Withdraw(r) PROVE OtherTypes'
  BY <1>0, <1>7 DEF OtherTypes, Announce, Withdraw
<1>8. ASSUME NEW d \in Device, Register(d) \/ Unregister(d) \/ Cancel(d) PROVE OtherTypes'
  <2>1. CASE Register(d)
    BY <1>0, <2>1 DEF OtherTypes, Register
  <2>2. CASE Unregister(d)
    BY <1>0, <2>2 DEF OtherTypes, Unregister
  <2>3. CASE Cancel(d)
    BY <1>0, <2>3 DEF OtherTypes, Cancel
  <2> QED
    BY <1>8, <2>1, <2>2, <2>3
<1>9. ASSUME NEW d \in Device, Connect(d) \/ Hello(d) \/ HelloOk(d) \/ Complete(d) \/ Close(d) PROVE OtherTypes'
  BY <1>0, <1>9 DEF OtherTypes, Connect, Hello, HelloOk, Complete, Close, Closed
<1>10. ASSUME NEW d \in Device, Opening(d) PROVE OtherTypes'
  <2>1. CASE CompleteStopsTimer(d)
    BY <1>0, <2>1, TimerTypes DEF OtherTypes, CompleteStopsTimer
  <2>2. CASE CompleteStopsListener(d)
    BY <1>0, <2>2 DEF OtherTypes, CompleteStopsListener, StopListener
  <2> QED
    BY <1>10, <2>1, <2>2 DEF Opening
<1>11. ASSUME NEW d \in Device, Closing(d) PROVE OtherTypes'
  <2>1. CASE ClosedLooksUp(d)
    BY <1>0, <2>1 DEF OtherTypes, ClosedLooksUp
  <2>2. CASE ClosedArms(d)
    BY <1>0, <2>2, TimerTypes DEF OtherTypes, ClosedArms
  <2> QED
    BY <1>11, <2>1, <2>2 DEF Closing
<1> QED
  BY <1>1, <1>2, <1>3, <1>4, <1>5, <1>6, <1>7, <1>8, <1>9, <1>10, <1>11 DEF Next, Step

\* Whoever starts the timer starts it for a device: the one just trusted, removed
\* or disconnected.
LEMMA TimerStep ==
    ASSUME TypeOK, RequestInv, TimerInv, AppInv, [Next]_vars
    PROVE  TimerInv'
<1>0. EvalType /\ OtherTypes
  BY TypeParts
<1> USE DEF vars, listenerVars, trackerVars, connVars
<1>1. ASSUME NEW d \in Device, StartTimer(d) \/ StopTimer(d) PROVE TimerInv'
  BY <1>1 DEF StartTimer, StopTimer, TimerInv
<1>2. CASE tracker' = [dev |-> None, running |-> FALSE] \/ UNCHANGED tracker
  BY <1>2 DEF TimerInv
<1>3. ASSUME NEW e \in Evaluators, Evaluate(e) PROVE TimerInv'
  <2>1. CASE StopOldTimer(e)
    BY <2>1 DEF StopOldTimer, StopTimer, TimerInv
  <2>2. CASE Arm(e)
    <3>1. From[eval[e].req] \in Device
      BY <1>0, <2>2, PairingAssumption DEF Arm, RequestInv, OtherTypes
    <3> QED
      BY <1>1, <2>2, <3>1 DEF Arm
  <2>3. CASE UNCHANGED tracker
    BY <1>2, <2>3
  <2> QED
    BY <1>3, <2>1, <2>2, <2>3 DEF Evaluate, Snapshot, Check, Validate, Record, FindTrusted, Window,
         Untrust, Remove, Merge, Lookup, Stop
<1>4. CASE AppStep
  <2>1. CASE RegisterArms
    BY <1>1, <2>1 DEF RegisterArms, AppInv
  <2>2. CASE UnregisterStopsTimer
    BY <2>2 DEF UnregisterStopsTimer, StopTimer, TimerInv
  <2> QED
    BY <1>2, <1>4, <2>1, <2>2 DEF AppStep, Registered, RegisterLooksUp, UnregisterRemoves,
         UnregisterReactivates, UnregisterCloses, CancelUntrusts
<1>5. CASE HubStep
  <2>1. CASE StartTimers
    BY <1>1, <1>2, <2>1 DEF StartTimers, Trusted
  <2> QED
    BY <1>2, <1>5, <2>1 DEF HubStep, StartListener, ShutdownCancels, ShutdownStopsListener,
         ShutdownStopsMdns, ShutdownClosesConnections
<1>6. CASE Expire
  BY <1>0, <1>6 DEF Expire, TimerInv, OtherTypes
<1>7. ASSUME NEW d \in Device, Opening(d) \/ Closing(d) PROVE TimerInv'
  BY <1>1, <1>2, <1>7 DEF Opening, Closing, CompleteStopsTimer, CompleteStopsListener,
       ClosedLooksUp, ClosedArms
<1>8. ASSUME NEW d \in Device,
             \/ Register(d) \/ Unregister(d) \/ Cancel(d)
             \/ Connect(d) \/ Hello(d) \/ HelloOk(d) \/ Complete(d) \/ Close(d)
      PROVE  TimerInv'
  BY <1>2, <1>8 DEF Register, Unregister, Cancel, Connect, Hello, HelloOk, Complete, Close
<1>9. ASSUME NEW r \in Request, Announce(r) \/ Withdraw(r) PROVE TimerInv'
  BY <1>2, <1>9 DEF Announce, Withdraw
<1> QED
  BY <1>2, <1>3, <1>4, <1>5, <1>6, <1>7, <1>8, <1>9
     DEF Next, Step, Deliver, Watch, ExpiryClears, ExpiryReactivates, Start, ShutdownStopsTimer

\* The application names a device in every call, until the call returns.
LEMMA AppInvStep ==
    ASSUME TypeOK, AppInv, [Next]_vars
    PROVE  AppInv'
<1>0. EvalType /\ OtherTypes
  BY TypeParts
<1> USE DEF vars, listenerVars, trackerVars, connVars
<1>1. CASE UNCHANGED app \/ app' = AppIdle
  BY <1>1 DEF AppInv, AppIdle
<1>2. ASSUME app.at # "idle", app'.dev = app.dev PROVE AppInv'
  BY <1>2 DEF AppInv
<1>3. ASSUME app' = [app EXCEPT !.gone = TRUE] PROVE AppInv'
  BY <1>0, <1>3 DEF AppInv, OtherTypes
<1>4. ASSUME NEW e \in Evaluators, Evaluate(e) PROVE AppInv'
  <2>1. CASE Remove(e)
    BY <1>1, <1>3, <2>1 DEF Remove, Detach
  <2> QED
    BY <1>1, <1>4, <2>1 DEF Evaluate, Snapshot, Check, Validate, Record, FindTrusted, Window,
         Untrust, StopOldTimer, Merge, Lookup, Arm, Stop
<1>5. CASE AppStep
  <2>1. CASE UnregisterRemoves
    BY <1>0, <1>2, <2>1 DEF UnregisterRemoves, Detach, OtherTypes
  <2> QED
    BY <1>0, <1>1, <1>2, <1>5, <2>1 DEF AppStep, Registered, RegisterLooksUp, RegisterArms,
         UnregisterStopsTimer, UnregisterReactivates, UnregisterCloses, CancelUntrusts, OtherTypes
<1>6. ASSUME NEW d \in Device, Register(d) \/ Unregister(d) \/ Cancel(d) PROVE AppInv'
  BY <1>6 DEF Register, Unregister, Cancel, AppInv
<1>7. ASSUME NEW d \in Device,
             \/ Connect(d) \/ Hello(d) \/ HelloOk(d) \/ Complete(d) \/ Close(d)
             \/ Opening(d) \/ Closing(d)
      PROVE  AppInv'
  BY <1>1, <1>7 DEF Connect, Hello, HelloOk, Complete, Close, Opening, Closing,
       CompleteStopsTimer, CompleteStopsListener, ClosedLooksUp, ClosedArms
<1>8. ASSUME NEW r \in Request, Announce(r) \/ Withdraw(r) PROVE AppInv'
  BY <1>1, <1>8 DEF Announce, Withdraw
<1>9. CASE HubStep
  BY <1>1, <1>9 DEF HubStep, StartListener, StartTimers, ShutdownCancels, ShutdownStopsListener,
       ShutdownStopsMdns, ShutdownClosesConnections
<1> QED
  BY <1>1, <1>4, <1>5, <1>6, <1>7, <1>8, <1>9
     DEF Next, Step, Deliver, Watch, Expire, ExpiryClears, ExpiryReactivates, Start, ShutdownStopsTimer

\* RecordPairing comes before OnPairingSuccess, and no digest leaves the history.
LEMMA RequestStep ==
    ASSUME TypeOK, RequestInv, [Next]_vars
    PROVE  RequestInv'
<1>0. EvalType /\ OtherTypes
  BY TypeParts
<1> USE DEF vars, listenerVars, trackerVars, connVars
<1>1. ASSUME NEW e \in Evaluators, Evaluate(e) PROVE RequestInv'
  <2>1. /\ history \subseteq history'
        /\ \A f \in Evaluators \ {e} : eval'[f].at = eval[f].at /\ eval'[f].req = eval[f].req
    <3> USE DEF EvalType, Evaluation
    <3>1. CASE Snapshot(e) \/ Check(e)
      BY <1>0, <3>1 DEF Snapshot, Check
    <3>2. CASE Validate(e) \/ Record(e)
      BY <1>0, <3>2 DEF Validate, Record, GoOn, Fail
    <3>3. CASE FindTrusted(e) \/ Window(e) \/ Untrust(e)
      BY <1>0, <3>3 DEF FindTrusted, Window, Untrust, GoOn
    <3>4. CASE Remove(e)
      BY <1>0, <3>4 DEF Remove, Detach
    <3>5. CASE StopOldTimer(e) \/ Merge(e) \/ Lookup(e)
      BY <1>0, <3>5 DEF StopOldTimer, Merge, Lookup, GoOn
    <3>6. CASE Arm(e) \/ Stop(e)
      BY <1>0, <3>6 DEF Arm, Stop, GoOn
    <3> QED
      BY <1>1, <3>1, <3>2, <3>3, <3>4, <3>5, <3>6 DEF Evaluate
  <2>2. /\ eval'[e].at \in {"validate", "record"} => eval'[e].req \in Request
        /\ eval'[e].at \in {"trust", "window", "untrust", "remove", "stopTimer",
                            "merge", "lookup", "arm", "stop"} => eval'[e].req \in history'
    <3> USE DEF EvalType, Evaluation, RequestInv
    <3>1. CASE Snapshot(e)
      BY <1>0, <3>1 DEF Snapshot, Idle
    <3>2. CASE Check(e)
      <4>1. CASE eval' = [eval EXCEPT ![e] = Idle]
        BY <1>0, <4>1 DEF Idle
      <4>2. ASSUME NEW r \in eval[e].todo,
                   eval' = [eval EXCEPT ![e].at = "validate", ![e].req = r, ![e].todo = @ \ {r}]
            PROVE  eval'[e].at = "validate" /\ eval'[e].req \in Request
        BY <1>0, <4>2
      <4> QED
        BY <3>2, <4>1, <4>2 DEF Check
    <3>3. CASE Validate(e)
      BY <1>0, <3>3 DEF Validate, GoOn, Fail
    <3>4. CASE Record(e)
      BY <1>0, <3>4 DEF Record, GoOn
    <3>5. CASE FindTrusted(e) \/ Window(e) \/ Untrust(e)
      BY <1>0, <3>5 DEF FindTrusted, Window, Untrust, GoOn
    <3>6. CASE Remove(e)
      <4>1. eval'[e].at = "stopTimer" /\ eval'[e].req = eval[e].req
        BY <1>0, <3>6 DEF Remove, Detach
      <4> QED
        BY <3>6, <4>1 DEF Remove
    <3>7. CASE StopOldTimer(e) \/ Merge(e) \/ Lookup(e) \/ Arm(e)
      BY <1>0, <3>7 DEF StopOldTimer, Merge, Lookup, Arm, GoOn
    <3>8. CASE Stop(e)
      BY <1>0, <3>8 DEF Stop, Idle
    <3> QED
      BY <1>1, <3>1, <3>2, <3>3, <3>4, <3>5, <3>6, <3>7, <3>8 DEF Evaluate
  <2> QED
    BY <2>1, <2>2 DEF RequestInv
<1>2. CASE UNCHANGED <<eval, history>>
  BY <1>2 DEF RequestInv
<1>3. ASSUME Enable, history' = history PROVE RequestInv'
  BY <1>0, <1>3 DEF Enable, RequestInv, EvalType, Evaluation, Evaluators
<1>4. CASE Deliver
  BY <1>0, <1>4 DEF Deliver, RequestInv, EvalType, Evaluation, Evaluators, Idle
<1>5. ASSUME NEW r \in Request, Announce(r) \/ Withdraw(r) PROVE RequestInv'
  BY <1>0, <1>5 DEF Announce, Withdraw, RequestInv, EvalType, Evaluation, Evaluators
<1>6. CASE AppStep
  <2>1. CASE UnregisterRemoves
    <3>1. \A f \in Evaluators : eval'[f].at = eval[f].at /\ eval'[f].req = eval[f].req
      BY <1>0, <2>1 DEF UnregisterRemoves, Detach, EvalType, Evaluation
    <3> QED
      BY <2>1, <3>1 DEF UnregisterRemoves, RequestInv
  <2> QED
    BY <1>2, <1>3, <1>6, <2>1 DEF AppStep, Registered, RegisterLooksUp, RegisterArms,
         UnregisterStopsTimer, UnregisterReactivates, UnregisterCloses, CancelUntrusts
<1>7. CASE HubStep
  BY <1>2, <1>3, <1>7 DEF HubStep, StartListener, StartTimers, ShutdownCancels,
       ShutdownStopsListener, ShutdownStopsMdns, ShutdownClosesConnections
<1>8. ASSUME NEW d \in Device,
             \/ Register(d) \/ Unregister(d) \/ Cancel(d)
             \/ Connect(d) \/ Hello(d) \/ HelloOk(d) \/ Complete(d) \/ Close(d)
             \/ Opening(d) \/ Closing(d)
      PROVE  RequestInv'
  BY <1>2, <1>8 DEF Register, Unregister, Cancel, Connect, Hello, HelloOk, Complete, Close, Opening, Closing,
       CompleteStopsTimer, CompleteStopsListener, ClosedLooksUp, ClosedArms
<1> QED
  BY <1>1, <1>2, <1>3, <1>4, <1>5, <1>6, <1>7, <1>8
     DEF Next, Step, Watch, Expire, ExpiryClears, ExpiryReactivates, Start, ShutdownStopsTimer

\* Who becomes trusted is known to the application or has asked.
LEMMA TrustStep ==
    ASSUME TypeOK, RequestInv, TrustIsAccountedFor, ReadyInv, [Next]_vars
    PROVE  TrustIsAccountedFor'
<1>0. EvalType /\ OtherTypes
  BY TypeParts
<1> USE DEF vars, listenerVars, trackerVars, connVars
<1>1. ASSUME history \subseteq history',
             \A d \in Device : trust'[d] = "trusted" =>
                trust[d] = "trusted" \/ d \in Known \/ \E r \in history' : From[r] = d
      PROVE  TrustIsAccountedFor'
  BY <1>1 DEF TrustIsAccountedFor, Trusted
<1>2. ASSUME UNCHANGED trust, history \subseteq history' PROVE TrustIsAccountedFor'
  BY <1>1, <1>2
<1>3. ASSUME NEW e \in Evaluators, Evaluate(e) PROVE TrustIsAccountedFor'
  <2>1. CASE Merge(e)
    <3>1. eval[e].req \in history
      BY <2>1 DEF Merge, RequestInv
    <3> QED
      BY <1>0, <1>1, <2>1, <3>1 DEF Merge, OtherTypes
  <2>2. CASE Untrust(e) \/ Remove(e)
    BY <1>0, <1>1, <2>2 DEF Untrust, Remove, OtherTypes
  <2> QED
    BY <1>2, <1>3, <2>1, <2>2 DEF Evaluate, Snapshot, Check, Validate, Record, FindTrusted, Window,
         StopOldTimer, Lookup, Arm, Stop
<1>4. CASE AppStep
  <2>1. CASE UnregisterRemoves
    BY <1>0, <1>1, <2>1 DEF UnregisterRemoves, OtherTypes
  <2>2. CASE CancelUntrusts
    BY <1>0, <1>1, <2>2 DEF CancelUntrusts, OtherTypes
  <2> QED
    BY <1>2, <1>4, <2>1, <2>2 DEF AppStep, Registered, RegisterLooksUp, RegisterArms,
         UnregisterStopsTimer, UnregisterReactivates, UnregisterCloses
<1>5. ASSUME NEW d \in Device, Register(d) \/ Unregister(d) \/ Cancel(d)
      PROVE  TrustIsAccountedFor'
  BY <1>0, <1>1, <1>5 DEF Register, Unregister, Cancel, OtherTypes
<1>6. ASSUME NEW d \in Device,
             \/ Connect(d) \/ Hello(d) \/ Complete(d) \/ Close(d) \/ Opening(d) \/ Closing(d)
      PROVE  TrustIsAccountedFor'
  BY <1>2, <1>6 DEF Connect, Hello, Complete, Close, Opening, Closing,
       CompleteStopsTimer, CompleteStopsListener, ClosedLooksUp, ClosedArms
<1>7. CASE HubStep
  BY <1>2, <1>7 DEF HubStep, StartListener, StartTimers, ShutdownCancels,
       ShutdownStopsListener, ShutdownStopsMdns, ShutdownClosesConnections
<1>8. ASSUME NEW r \in Request, Announce(r) \/ Withdraw(r) PROVE TrustIsAccountedFor'
  BY <1>2, <1>8 DEF Announce, Withdraw
<1>9. ASSUME NEW d \in Device, HelloOk(d) PROVE TrustIsAccountedFor'
  BY <1>0, <1>1, <1>9 DEF HelloOk, ReadyInv, OtherTypes
<1> QED
  BY <1>2, <1>3, <1>4, <1>5, <1>6, <1>7, <1>8, <1>9
     DEF Next, Step, Deliver, Watch, Expire, ExpiryClears, ExpiryReactivates, Start, ShutdownStopsTimer

\* Only a trusted device gets as far as the end of the hello phase.
LEMMA ReadyStep ==
    ASSUME TypeOK, TrustIsAccountedFor, ReadyInv, [Next]_vars
    PROVE  ReadyInv'
<1>0. OtherTypes
  BY TypeParts
<1> USE DEF vars, listenerVars, trackerVars, connVars
<1>1. ASSUME history \subseteq history',
             \A d \in Device : conn'[d] = "ready" => conn[d] = "ready" \/ trust[d] = "trusted"
      PROVE  ReadyInv'
  BY <1>1 DEF ReadyInv, TrustIsAccountedFor, Trusted
<1>2. ASSUME UNCHANGED conn, history \subseteq history' PROVE ReadyInv'
  BY <1>1, <1>2
<1>3. ASSUME NEW e \in Evaluators, Evaluate(e) PROVE ReadyInv'
  BY <1>2, <1>3 DEF Evaluate, Snapshot, Check, Validate, Record, FindTrusted, Window, Untrust,
       Remove, StopOldTimer, Merge, Lookup, Arm, Stop
<1>4. CASE AppStep
  <2>1. CASE UnregisterCloses
    BY <1>0, <1>1, <2>1 DEF UnregisterCloses, OtherTypes
  <2> QED
    BY <1>2, <1>4, <2>1 DEF AppStep, Registered, RegisterLooksUp, RegisterArms, UnregisterRemoves,
         UnregisterStopsTimer, UnregisterReactivates, CancelUntrusts
<1>5. ASSUME NEW d \in Device, Register(d) \/ Unregister(d) \/ Opening(d) \/ Closing(d)
      PROVE  ReadyInv'
  BY <1>2, <1>5 DEF Register, Unregister, Opening, Closing, CompleteStopsTimer,
       CompleteStopsListener, ClosedLooksUp, ClosedArms
<1>6. ASSUME NEW d \in Device,
             Cancel(d) \/ Connect(d) \/ Hello(d) \/ HelloOk(d) \/ Complete(d) \/ Close(d)
      PROVE  ReadyInv'
  BY <1>0, <1>1, <1>6 DEF Cancel, Connect, Hello, HelloOk, Complete, Close, OtherTypes
<1>7. CASE HubStep
  <2>1. CASE ShutdownClosesConnections
    BY <1>1, <2>1 DEF ShutdownClosesConnections
  <2> QED
    BY <1>2, <1>7, <2>1 DEF HubStep, StartListener, StartTimers, ShutdownCancels,
         ShutdownStopsListener, ShutdownStopsMdns
<1>8. ASSUME NEW r \in Request, Announce(r) \/ Withdraw(r) PROVE ReadyInv'
  BY <1>2, <1>8 DEF Announce, Withdraw
<1> QED
  BY <1>2, <1>3, <1>4, <1>5, <1>6, <1>7, <1>8
     DEF Next, Step, Deliver, Watch, Expire, ExpiryClears, ExpiryReactivates, Start, ShutdownStopsTimer

-----------------------------------------------------------------------------

\* The inductive invariant holds in every state: RecordPairing has entered the
\* request of every goroutine that is past it, whatever the others do.
THEOREM Inductive == Spec => []IInv
<1>1. Init => IInv
  BY InitIInv
<1>2. IInv /\ [Next]_vars => IInv'
  <2> SUFFICES ASSUME IInv, [Next]_vars PROVE IInv'
    OBVIOUS
  <2>1. TimerInv'
    BY TimerStep DEF IInv
  <2>2. tracker'.running => tracker'.dev # None
    BY <2>1, PairingAssumption DEF TimerInv
  <2>3. TypeOK'
    BY <2>2, EnvironmentStays, EvalStep, OtherStep, TypePartsNext DEF IInv
  <2> QED
    BY <2>1, <2>3, RequestStep, AppInvStep, TrustStep, ReadyStep DEF IInv
<1> QED
  BY <1>1, <1>2, PTL DEF Spec

\* Every state of the pairing service has its type.
THEOREM PairingTypeCorrect == Spec => []TypeOK
<1>1. IInv => TypeOK
  BY DEF IInv
<1> QED
  BY <1>1, Inductive, PTL

\* Whatever goroutines evaluate requests at the same time, and whatever time-outs,
\* replacements and removals they meet: a control unit that the hub trusts is known
\* to the application, or RecordPairing has entered a request of it.
THEOREM TrustHasAReason == Spec => []TrustIsAccountedFor
<1>1. IInv => TrustIsAccountedFor
  BY DEF IInv
<1> QED
  BY <1>1, Inductive, PTL
=============================================================================
