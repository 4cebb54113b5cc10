------------------------ MODULE ConnectionAttemptsProofs ------------------------
(***************************************************************************)
(* No delay timer gets lost: each one that is pending is either stored     *)
(* under its device or held by the report that is about to store it.       *)
(* Proved of ConnectionAttempts for any number of devices, paths, reports  *)
(* and timers, whatever the environment.                                   *)
(***************************************************************************)
EXTENDS ConnectionAttempts, TLAPS

\* What a report holds at the step where it uses it: a device, and a timer.
ReportInv ==
    \A r \in Reporter :
        /\ report[r].at \in {"forget", "service", "coordinate", "claim", "arm", "store"} => report[r].ski \in SKI
        /\ report[r].timer # None <=> report[r].at = "store"

\* What a callback needs: its device, and an address to try.
CallbackInv ==
    \A t \in Timer :
        /\ timer[t].at \notin {"free", "done"} => timer[t].ski \in SKI
        /\ timer[t].at \in {"try", "dial"} => timer[t].tries >= 1

\* A call of the application is about a device.
CallInv == call.at # "no" => call.ski \in SKI

\* A timer in connectionDelayTimers exists, under its own device.
SlotInv ==
    \A s \in SKI : slot[s] # None =>
        timer[slot[s]].at \notin {"free", "done"} /\ timer[slot[s]].ski = s

\* A timer that is not stored yet exists, belongs to the device that the report is
\* about, and to no other report.
HolderInv ==
    \A r \in Reporter : report[r].timer # None =>
        /\ timer[report[r].timer].at # "free"
        /\ timer[report[r].timer].at # "done" => timer[report[r].timer].ski = report[r].ski
        /\ \A q \in Reporter : report[q].timer = report[r].timer => q = r
        /\ \A s \in SKI : slot[s] # report[r].timer

IInv ==
    TypeOK /\ ReportInv /\ CallbackInv /\ CallInv /\ SlotInv /\ HolderInv /\ PendingCanBeCancelled

Reports ==
    [at : {"idle", "queued", "cancel", "forget", "entries", "service", "coordinate", "claim",
           "arm", "store", "known"},
     entries : SUBSET SKI, new : BOOLEAN, todo : SUBSET SKI,
     ski : SKI \cup {None}, timer : Timer \cup {None}]

Timers ==
    [at : {"free", "set", "fired", "counted", "checked", "try", "dial", "dialed", "failed",
           "ending", "done"},
     ski : SKI \cup {None}, counter : (0 .. LastRange) \cup {None}, tries : 0 .. Tries]

\* The types of everything but the reports and the timers.
SpentType ==
    env \in Environments /\ spent \in [changes : Nat, incoming : Nat, ends : Nat, calls : Nat]

PlainType ==
    /\ seen \in [SKI -> SUBSET Path]
    /\ entries \subseteq SKI /\ known \subseteq SKI
    /\ running \in [SKI -> BOOLEAN]
    /\ counter \in [SKI -> (0 .. LastRange) \cup {None}]
    /\ slot \in [SKI -> Timer \cup {None}]
    /\ dialing \in [SKI -> Timer \cup {None}]
    /\ connected \subseteq SKI
    /\ service \in [SKI -> {"none", "untrusted", "unnamed", "trusted"}]
    /\ ending \in [SKI -> {"no", "closed", "completed", "counted"}]
    /\ call \in [at : {"no", "look", "forget", "close", "abort", "untrust"}, ski : SKI \cup {None}]
    /\ hub \in {"up", "stopping", "closing", "down"}

\* The parts of IInv that are about the reports, and about the timers.
ReportPart == report \in [Reporter -> Reports] /\ ReportInv

TimerPart == timer \in [Timer -> Timers] /\ CallbackInv

PlainPart == PlainType /\ CallInv

HeldPart == SlotInv /\ HolderInv /\ PendingCanBeCancelled

LEMMA Parts == IInv <=> SpentType /\ PlainPart /\ ReportPart /\ TimerPart /\ HeldPart
BY DEF IInv, TypeOK, SpentType, PlainType, PlainPart, ReportPart, TimerPart, HeldPart, Reports, Timers

-----------------------------------------------------------------------------
(* What happens to the timers that are stored or held *)

\* No report takes a timer or lets go of one.
SameHolders ==
    \A r \in Reporter : /\ report'[r].timer = report[r].timer
                        /\ report[r].timer # None => report'[r].ski = report[r].ski

\* Steps that touch no timer.
LEMMA TimersRest ==
    ASSUME IInv, SameHolders, UNCHANGED <<timer, slot>>
    PROVE  TimerPart' /\ HeldPart'
BY DEF IInv, TypeOK, Timers, SameHolders, TimerPart, HeldPart, CallbackInv, SlotInv, HolderInv,
       PendingCanBeCancelled

\* A callback goes from one step to the next.
LEMMA CallbackMoves ==
    ASSUME IInv, SameHolders, UNCHANGED slot,
           NEW t \in Timer, NEW v \in Timers, timer' = [timer EXCEPT ![t] = v],
           timer[t].at \notin {"free", "done"}, v.ski = timer[t].ski,
           v.at \notin {"free", "done", "set"}, v.at \in {"try", "dial"} => v.tries >= 1
    PROVE  TimerPart' /\ HeldPart'
<1>1. timer \in [Timer -> Timers] /\ slot \in [SKI -> Timer \cup {None}]
  BY DEF IInv, TypeOK, Timers
<1>2. \A r \in Reporter : report[r].timer \in Timer \cup {None}
  BY DEF IInv, TypeOK
<1>3. TimerPart'
  BY <1>1 DEF IInv, TimerPart, CallbackInv
<1>4. \A x \in Timer : timer'[x].ski = timer[x].ski /\ (timer'[x].at = "set" => timer[x].at = "set")
                       /\ \/ timer'[x].at = timer[x].at
                          \/ timer[x].at \notin {"free", "done"} /\ timer'[x].at \notin {"free", "done"}
  BY <1>1
<1>5. SlotInv'
  BY <1>1, <1>4 DEF IInv, SlotInv
<1>6. HolderInv'
  BY <1>2, <1>4, NamesAssumption DEF IInv, HolderInv, SameHolders
<1>7. PendingCanBeCancelled'
  BY <1>4 DEF IInv, PendingCanBeCancelled, SameHolders
<1> QED
  BY <1>3, <1>5, <1>6, <1>7 DEF HeldPart

\* The stored timer of a device is stopped, and one callback, if any, ends.
LEMMA TimerStopped ==
    ASSUME IInv, SameHolders, NEW s \in SKI, CancelConnectionDelayTimer(s)
    PROVE  TimerPart' /\ HeldPart' /\ running' \in [SKI -> BOOLEAN]
           /\ slot' \in [SKI -> Timer \cup {None}]
<1>1. /\ timer \in [Timer -> Timers] /\ slot \in [SKI -> Timer \cup {None}]
      /\ running \in [SKI -> BOOLEAN]
  BY DEF IInv, TypeOK, Timers
<1>2. \A r \in Reporter : report[r].timer \in Timer \cup {None}
  BY DEF IInv, TypeOK
<1>3. NoTimer \in Timers /\ NoTimer.at = "free"
  BY BoundAssumption DEF NoTimer, Timers
<1>4. slot' = [slot EXCEPT ![s] = None]
  BY DEF CancelConnectionDelayTimer
<1>5. /\ \A x \in Timer : timer'[x] = timer[x] \/ (x = slot[s] /\ timer'[x] = NoTimer)
      /\ slot[s] # None => timer'[slot[s]].at # "set"
      /\ timer' \in [Timer -> Timers] /\ running' \in [SKI -> BOOLEAN]
  BY <1>1, <1>3, NamesAssumption DEF CancelConnectionDelayTimer, Pending
<1>6. TimerPart'
  BY <1>3, <1>5 DEF IInv, TimerPart, CallbackInv
<1>7. \A x \in SKI : slot'[x] # None => x # s /\ slot'[x] = slot[x] /\ slot[x] # slot[s]
  BY <1>1, <1>4 DEF IInv, SlotInv
<1>8. SlotInv'
  BY <1>1, <1>5, <1>7 DEF IInv, SlotInv
<1>9. HolderInv'
  BY <1>1, <1>2, <1>4, <1>5, NamesAssumption DEF IInv, HolderInv, SameHolders
<1>10. PendingCanBeCancelled'
  <2> SUFFICES ASSUME NEW x \in Timer, timer'[x].at = "set"
               PROVE  slot'[timer'[x].ski] = x \/ \E r \in Reporter : report'[r].timer = x
    BY DEF PendingCanBeCancelled
  <2>1. timer'[x] = timer[x] /\ x # slot[s]
    BY <1>3, <1>5, NamesAssumption
  <2>2. timer[x].ski \in SKI
    BY <2>1 DEF IInv, CallbackInv
  <2>3. slot[timer[x].ski] = x \/ \E r \in Reporter : report[r].timer = x
    BY <2>1 DEF IInv, PendingCanBeCancelled
  <2> QED
    BY <1>1, <1>4, <2>1, <2>2, <2>3 DEF SameHolders
<1> QED
  BY <1>1, <1>4, <1>5, <1>6, <1>8, <1>9, <1>10 DEF HeldPart

-----------------------------------------------------------------------------
(* The initial state *)

\* A hub that has just started has no reports, timers and calls.
LEMMA InitIInv == Init => IInv
<1> SUFFICES ASSUME Init PROVE IInv
  OBVIOUS
<1> USE DEF Init
<1>1. NoReport \in Reports
  BY DEF NoReport, Reports
<1>2. NoTimer \in Timers
  BY BoundAssumption DEF NoTimer, Timers
<1>3. report \in [Reporter -> Reports] /\ timer \in [Timer -> Timers]
  BY <1>1, <1>2
<1>4. TypeOK
  BY <1>3, EnvironmentAssumption DEF TypeOK, Reports, Timers, NoCall
<1>5. ReportInv /\ HolderInv
  BY DEF ReportInv, HolderInv, NoReport
<1>6. CallbackInv /\ PendingCanBeCancelled
  BY DEF CallbackInv, PendingCanBeCancelled, NoTimer
<1>7. CallInv /\ SlotInv
  BY DEF CallInv, SlotInv, NoCall
<1> QED
  BY <1>4, <1>5, <1>6, <1>7 DEF IInv

-----------------------------------------------------------------------------
(* Reports *)

\* A new report is taken from the idle ones.
LEMMA ReportSpawns ==
    ASSUME report \in [Reporter -> Reports], ReportInv,
           NEW found \in SUBSET SKI, NEW new \in BOOLEAN, Report(found, new)
    PROVE  /\ report' \in [Reporter -> Reports]
           /\ ReportInv'
           /\ \A r \in Reporter : report'[r].timer = report[r].timer
                                  /\ (report[r].timer # None => report'[r] = report[r])
<1>1. CASE UNCHANGED report
  BY <1>1 DEF ReportInv
<1>2. CASE ~UNCHANGED report
  <2> DEFINE q == CHOOSE r \in Idle : TRUE
             started == [NoReport EXCEPT !.at = "queued", !.entries = found, !.new = new]
  <2>1. q \in Idle /\ report' = [report EXCEPT ![q] = started]
    BY <1>2 DEF Report
  <2>2. q \in Reporter /\ report[q].at = "idle" /\ report[q].timer = None
    BY <2>1 DEF Idle, ReportInv
  <2>3. started \in Reports /\ started.at = "queued" /\ started.timer = None
    BY DEF NoReport, Reports
  <2> HIDE DEF q, started
  <2> QED
    BY <2>1, <2>2, <2>3 DEF ReportInv
<1> QED
  BY <1>1, <1>2

\* checkAutoReannounce spawns a report of the known entries, or nothing.
LEMMA ReannounceSpawns ==
    ASSUME TypeOK, ReportInv, CheckAutoReannounce
    PROVE  /\ report' \in [Reporter -> Reports]
           /\ ReportInv'
           /\ \A r \in Reporter : report'[r].timer = report[r].timer
                                  /\ (report[r].timer # None => report'[r] = report[r])
<1>0. report \in [Reporter -> Reports] /\ entries \in SUBSET SKI
  BY DEF TypeOK, Reports
<1>1. CASE Report(entries, FALSE)
  BY <1>0, <1>1, ReportSpawns
<1>2. CASE UNCHANGED report
  BY <1>0, <1>2 DEF ReportInv
<1> QED
  BY <1>1, <1>2 DEF CheckAutoReannounce

-----------------------------------------------------------------------------
(* The steps of a report *)

\* A report goes on without taking a timer or letting go of one.
LEMMA ReportMoves ==
    ASSUME IInv, NEW r \in Reporter, NEW v \in Reports, report' = [report EXCEPT ![r] = v],
           v.timer = report[r].timer, v.timer # None => v.ski = report[r].ski,
           v.at = "store" <=> report[r].at = "store",
           v.at \in {"forget", "service", "coordinate", "claim", "arm", "store"} => v.ski \in SKI
    PROVE  ReportPart' /\ SameHolders
<1>1. report \in [Reporter -> Reports] /\ ReportInv
  BY DEF IInv, TypeOK, Reports
<1>2. report' \in [Reporter -> Reports]
  BY <1>1
<1>3. \A q \in Reporter : report'[q] = IF q = r THEN v ELSE report[q]
  BY <1>1
<1>4. ReportInv'
  BY <1>1, <1>3 DEF ReportInv
<1>5. SameHolders
  BY <1>3 DEF SameHolders
<1> QED
  BY <1>2, <1>4, <1>5 DEF ReportPart

\* The reports are left alone.
LEMMA ReportsRest ==
    ASSUME IInv, UNCHANGED report
    PROVE  ReportPart' /\ SameHolders
BY DEF IInv, TypeOK, Reports, ReportInv, ReportPart, SameHolders

\* A report of the known entries, or of others, may be started.
LEMMA ReportMayStart ==
    ASSUME IInv,
           UNCHANGED report \/ CheckAutoReannounce
               \/ (\E found \in SUBSET SKI, new \in BOOLEAN : Report(found, new))
    PROVE  ReportPart' /\ SameHolders
<1>1. report \in [Reporter -> Reports] /\ ReportInv /\ TypeOK
  BY DEF IInv, TypeOK, Reports
<1>2. CASE UNCHANGED report
  BY <1>2, ReportsRest
<1>3. CASE CheckAutoReannounce
  BY <1>1, <1>3, ReannounceSpawns DEF ReportPart, SameHolders
<1>4. ASSUME NEW found \in SUBSET SKI, NEW new \in BOOLEAN, Report(found, new)
      PROVE  ReportPart' /\ SameHolders
  BY <1>1, <1>4, ReportSpawns DEF ReportPart, SameHolders
<1> QED
  BY <1>2, <1>3, <1>4

LEMMA BeginKeeps ==
    ASSUME IInv, NEW r \in Reporter, Begin(r)
    PROVE  PlainPart' /\ ReportPart' /\ TimerPart' /\ HeldPart'
<1> USE DEF Begin, attemptVars, connVars, appVars
<1>1. PlainPart'
  BY DEF IInv, TypeOK, PlainPart, PlainType, CallInv
<1>2. ReportPart' /\ SameHolders
  <2> DEFINE v == [report[r] EXCEPT !.at = "cancel", !.todo = known \ report[r].entries]
  <2>1. report[r] \in Reports /\ report[r].at = "queued" /\ known \subseteq SKI
    BY DEF IInv, TypeOK, Reports, At
  <2>2. v \in Reports /\ v.at = "cancel" /\ v.timer = report[r].timer /\ v.ski = report[r].ski
    BY <2>1 DEF Reports
  <2>3. report' = [report EXCEPT ![r] = v]
    BY DEF IInv, TypeOK
  <2>4. report[r].timer = None
    BY <2>1 DEF IInv, ReportInv
  <2> HIDE DEF v
  <2> QED
    BY <2>1, <2>2, <2>3, <2>4, ReportMoves
<1>3. TimerPart' /\ HeldPart'
  BY <1>2, TimersRest
<1> QED
  BY <1>1, <1>2, <1>3

LEMMA CancelGoneKeeps ==
    ASSUME IInv, NEW r \in Reporter, CancelGone(r)
    PROVE  PlainPart' /\ ReportPart' /\ TimerPart' /\ HeldPart'
<1> USE DEF connVars, appVars
<1>1. report[r] \in Reports /\ report[r].at = "cancel" /\ report[r].timer = None
  BY DEF IInv, TypeOK, Reports, CancelGone, At, ReportInv
<1>2. ASSUME NEW s \in report[r].todo, CancelConnectionDelayTimer(s),
             report' = [report EXCEPT ![r].at = "forget", ![r].ski = s, ![r].todo = @ \ {s}]
      PROVE  PlainPart' /\ ReportPart' /\ TimerPart' /\ HeldPart'
  <2> DEFINE v == [report[r] EXCEPT !.at = "forget", !.ski = s, !.todo = @ \ {s}]
  <2>1. s \in SKI
    BY <1>1 DEF Reports
  <2>2. v \in Reports /\ v.at = "forget" /\ v.timer = report[r].timer /\ v.ski = s
    BY <1>1, <2>1 DEF Reports
  <2>3. report' = [report EXCEPT ![r] = v]
    BY <1>2 DEF IInv, TypeOK
  <2> HIDE DEF v
  <2>4. ReportPart' /\ SameHolders
    BY <1>1, <2>1, <2>2, <2>3, ReportMoves
  <2>5. /\ TimerPart' /\ HeldPart' /\ running' \in [SKI -> BOOLEAN]
        /\ slot' \in [SKI -> Timer \cup {None}]
    BY <1>2, <2>1, <2>4, TimerStopped
  <2>6. PlainPart'
    BY <2>5 DEF CancelGone, IInv, TypeOK, PlainPart, PlainType, CallInv
  <2> QED
    BY <2>4, <2>5, <2>6
<1>3. CASE /\ report' = [report EXCEPT ![r].at = "entries", ![r].todo = report[r].entries]
           /\ UNCHANGED <<running, slot, timer>>
  <2> DEFINE v == [report[r] EXCEPT !.at = "entries", !.todo = report[r].entries]
  <2>1. v \in Reports /\ v.at = "entries" /\ v.timer = report[r].timer /\ v.ski = report[r].ski
    BY <1>1 DEF Reports
  <2>2. report' = [report EXCEPT ![r] = v]
    BY <1>3 DEF IInv, TypeOK
  <2> HIDE DEF v
  <2>3. ReportPart' /\ SameHolders
    BY <1>1, <2>1, <2>2, ReportMoves
  <2>4. TimerPart' /\ HeldPart'
    BY <1>3, <2>3, TimersRest
  <2>5. PlainPart'
    BY <1>3 DEF CancelGone, IInv, TypeOK, PlainPart, PlainType, CallInv
  <2> QED
    BY <2>3, <2>4, <2>5
<1> QED
  BY <1>2, <1>3 DEF CancelGone

LEMMA ForgetGoneKeeps ==
    ASSUME IInv, NEW r \in Reporter, ForgetGone(r)
    PROVE  PlainPart' /\ ReportPart' /\ TimerPart' /\ HeldPart'
<1> USE DEF ForgetGone, RemoveConnectionAttemptCounter, connVars, appVars
<1>1. PlainPart'
  BY DEF IInv, TypeOK, PlainPart, PlainType, CallInv
<1>2. ReportPart' /\ SameHolders
  <2> DEFINE v == [report[r] EXCEPT !.at = "cancel", !.ski = None]
  <2>1. report[r] \in Reports /\ report[r].at = "forget" /\ report[r].timer = None
    BY DEF IInv, TypeOK, Reports, At, ReportInv
  <2>2. v \in Reports /\ v.at = "cancel" /\ v.timer = report[r].timer
    BY <2>1 DEF Reports
  <2>3. report' = [report EXCEPT ![r] = v]
    BY DEF IInv, TypeOK
  <2> HIDE DEF v
  <2> QED
    BY <2>1, <2>2, <2>3, ReportMoves
<1>3. TimerPart' /\ HeldPart'
  BY <1>2, TimersRest
<1> QED
  BY <1>1, <1>2, <1>3

LEMMA ConsiderKeeps ==
    ASSUME IInv, NEW r \in Reporter, Consider(r)
    PROVE  PlainPart' /\ ReportPart' /\ TimerPart' /\ HeldPart'
<1> DEFINE next(s) == [report[r] EXCEPT !.at = IF s \in connected THEN "entries" ELSE "service",
                                       !.ski = IF s \in connected THEN None ELSE s,
                                       !.todo = @ \ {s}]
           done == [report[r] EXCEPT !.at = "known"]
<1>1. PlainPart'
  BY DEF Consider, attemptVars, connVars, appVars, IInv, TypeOK, PlainPart, PlainType, CallInv
<1>2. ReportPart' /\ SameHolders
  <2>1. report[r] \in Reports /\ report[r].at = "entries" /\ report[r].timer = None
    BY DEF Consider, IInv, TypeOK, Reports, At, ReportInv
  <2>2. \A s \in report[r].todo : /\ next(s) \in Reports /\ next(s).timer = None
                                  /\ next(s).at \in {"entries", "service"}
                                  /\ next(s).at = "service" => next(s).ski \in SKI
    BY <2>1 DEF Reports
  <2>3. done \in Reports /\ done.timer = None /\ done.at = "known"
    BY <2>1 DEF Reports
  <2>4. report \in [Reporter -> Reports]
    BY DEF IInv, TypeOK, Reports
  <2>5. \/ \E s \in report[r].todo : report' = [report EXCEPT ![r] = next(s)]
        \/ report' = [report EXCEPT ![r] = done]
    <3>1. CASE report[r].todo = {} /\ report' = [report EXCEPT ![r].at = "known"]
      BY <2>4, <3>1
    <3>2. ASSUME NEW s \in report[r].todo,
                 report' = [report EXCEPT ![r].at = IF s \in connected THEN "entries" ELSE "service",
                                          ![r].ski = IF s \in connected THEN None ELSE s,
                                          ![r].todo = @ \ {s}]
          PROVE  report' = [report EXCEPT ![r] = next(s)]
      <4>1. CASE s \in connected
        BY <2>1, <2>4, <3>2, <4>1
      <4>2. CASE s \notin connected
        BY <2>1, <2>4, <3>2, <4>2
      <4> QED
        BY <4>1, <4>2
    <3> HIDE DEF next, done
    <3> QED
      BY <3>1, <3>2 DEF Consider, done
  <2> HIDE DEF next, done
  <2> QED
    BY <2>1, <2>2, <2>3, <2>5, ReportMoves
<1>3. TimerPart' /\ HeldPart'
  BY <1>2, TimersRest DEF Consider, attemptVars
<1> QED
  BY <1>1, <1>2, <1>3

LEMMA MatchKeeps ==
    ASSUME IInv, NEW r \in Reporter, Match(r)
    PROVE  PlainPart' /\ ReportPart' /\ TimerPart' /\ HeldPart'
<1> USE DEF Match, attemptVars, connVars
<1>1. PlainPart'
  BY DEF IInv, TypeOK, PlainPart, PlainType, CallInv
<1>2. ReportPart' /\ SameHolders
  <2> DEFINE s == report[r].ski
             v == [report[r] EXCEPT !.at = IF service[s] = "none" THEN "entries" ELSE "coordinate",
                                    !.ski = IF service[s] = "none" THEN None ELSE s]
  <2>1. report[r] \in Reports /\ report[r].at = "service" /\ report[r].timer = None /\ s \in SKI
    BY DEF IInv, TypeOK, Reports, At, ReportInv
  <2>2. /\ v \in Reports /\ v.timer = None /\ v.at \in {"entries", "coordinate"}
        /\ v.at = "coordinate" => v.ski \in SKI
    BY <2>1 DEF Reports
  <2>3. report' = [report EXCEPT ![r] = v]
    BY DEF IInv, TypeOK
  <2> HIDE DEF v, s
  <2> QED
    BY <2>1, <2>2, <2>3, ReportMoves
<1>3. TimerPart' /\ HeldPart'
  BY <1>2, TimersRest
<1> QED
  BY <1>1, <1>2, <1>3

LEMMA CoordinateKeeps ==
    ASSUME IInv, NEW r \in Reporter, Coordinate(r)
    PROVE  PlainPart' /\ ReportPart' /\ TimerPart' /\ HeldPart'
<1> USE DEF Coordinate, attemptVars, connVars, appVars
<1>1. PlainPart'
  BY DEF IInv, TypeOK, PlainPart, PlainType, CallInv
<1>2. ReportPart' /\ SameHolders
  <2> DEFINE v == [report[r] EXCEPT !.at = IF running[report[r].ski] THEN "entries" ELSE "claim"]
  <2>1. /\ report[r] \in Reports /\ report[r].at = "coordinate" /\ report[r].timer = None
        /\ report[r].ski \in SKI
    BY DEF IInv, TypeOK, Reports, At, ReportInv
  <2>2. v \in Reports /\ v.at \in {"entries", "claim"} /\ v.timer = report[r].timer /\ v.ski = report[r].ski
    BY <2>1 DEF Reports
  <2>3. report' = [report EXCEPT ![r] = v]
    BY DEF IInv, TypeOK
  <2> HIDE DEF v
  <2> QED
    BY <2>1, <2>2, <2>3, ReportMoves
<1>3. TimerPart' /\ HeldPart'
  BY <1>2, TimersRest
<1> QED
  BY <1>1, <1>2, <1>3

LEMMA ClaimKeeps ==
    ASSUME IInv, NEW r \in Reporter, Claim(r)
    PROVE  PlainPart' /\ ReportPart' /\ TimerPart' /\ HeldPart'
<1> USE DEF Claim, attemptVars, connVars, appVars
<1>1. PlainPart'
  BY DEF IInv, TypeOK, PlainPart, PlainType, CallInv
<1>2. ReportPart' /\ SameHolders
  <2> DEFINE v == [report[r] EXCEPT !.at = "arm"]
  <2>1. /\ report[r] \in Reports /\ report[r].at = "claim" /\ report[r].timer = None
        /\ report[r].ski \in SKI
    BY DEF IInv, TypeOK, Reports, At, ReportInv
  <2>2. v \in Reports /\ v.at = "arm" /\ v.timer = report[r].timer /\ v.ski = report[r].ski
    BY <2>1 DEF Reports
  <2>3. report' = [report EXCEPT ![r] = v]
    BY DEF IInv, TypeOK
  <2> HIDE DEF v
  <2> QED
    BY <2>1, <2>2, <2>3, ReportMoves
<1>3. TimerPart' /\ HeldPart'
  BY <1>2, TimersRest
<1> QED
  BY <1>1, <1>2, <1>3

\* The index into the delay ranges stays within them.
LEMMA IncreasedInRange ==
    ASSUME counter \in [SKI -> (0 .. LastRange) \cup {None}], NEW s \in SKI
    PROVE  Increased(s) \in 0 .. LastRange
BY BoundAssumption, NamesAssumption DEF Increased

LEMMA ArmKeeps ==
    ASSUME IInv, NEW r \in Reporter, Arm(r)
    PROVE  PlainPart' /\ ReportPart' /\ TimerPart' /\ HeldPart'
<1> DEFINE s == report[r].ski
           t == CHOOSE t \in Unused : TRUE
           armed == [at |-> "set", ski |-> s, counter |-> Increased(s), tries |-> 0]
<1>1. /\ report[r] \in Reports /\ report[r].at = "arm" /\ report[r].timer = None
      /\ s \in SKI
  BY DEF Arm, IInv, TypeOK, Reports, At, ReportInv
<1>2. Increased(s) \in 0 .. LastRange
  BY <1>1, IncreasedInRange DEF IInv, TypeOK
<1>3. PlainPart'
  BY <1>1, <1>2 DEF Arm, connVars, appVars, IInv, TypeOK, PlainPart, PlainType, CallInv
<1>4. CASE UNCHANGED timer /\ report' = [report EXCEPT ![r].at = "entries", ![r].ski = None]
  <2> DEFINE v == [report[r] EXCEPT !.at = "entries", !.ski = None]
  <2>1. v \in Reports /\ v.at = "entries" /\ v.timer = None
    BY <1>1 DEF Reports
  <2>2. report' = [report EXCEPT ![r] = v]
    BY <1>4 DEF IInv, TypeOK
  <2> HIDE DEF v
  <2>3. ReportPart' /\ SameHolders
    BY <1>1, <2>1, <2>2, ReportMoves
  <2>4. TimerPart' /\ HeldPart'
    BY <1>4, <2>3, TimersRest DEF Arm
  <2> QED
    BY <1>3, <2>3, <2>4
<1>5. CASE /\ Unused # {}
           /\ timer' = [timer EXCEPT ![t] = armed]
           /\ report' = [report EXCEPT ![r].at = "store", ![r].timer = t]
  <2> DEFINE v == [report[r] EXCEPT !.at = "store", !.timer = t]
  <2>1. t \in Timer /\ timer[t].at = "free"
    <3>1. t \in Unused
      BY <1>5
    <3> QED
      BY <3>1 DEF Unused
  <2>2. armed \in Timers /\ armed.at = "set" /\ armed.ski = s
    BY <1>1, <1>2, BoundAssumption DEF Timers
  <2>3. v \in Reports /\ v.at = "store" /\ v.timer = t /\ v.ski = s
    BY <1>1, <2>1 DEF Reports
  <2>4. report' = [report EXCEPT ![r] = v]
    BY <1>5 DEF IInv, TypeOK
  <2>5. /\ report \in [Reporter -> Reports] /\ timer \in [Timer -> Timers]
        /\ slot \in [SKI -> Timer \cup {None}] /\ slot' = slot
    BY DEF Arm, IInv, TypeOK, Reports, Timers
  <2>6. \A q \in Reporter : report'[q] = IF q = r THEN v ELSE report[q]
    BY <2>4, <2>5
  <2>7. \A x \in Timer : timer'[x] = IF x = t THEN armed ELSE timer[x]
    BY <1>5, <2>5
  <2>8. /\ \A q \in Reporter : report[q].timer # t
        /\ \A x \in SKI : slot[x] # t
        /\ t # None
    <3> HIDE DEF t
    <3>1. t # None
      BY <2>1, NamesAssumption
    <3>2. HolderInv /\ SlotInv
      BY DEF IInv
    <3>3. ASSUME NEW q \in Reporter PROVE report[q].timer # t
      BY <2>1, <3>1, <3>2 DEF HolderInv
    <3>4. ASSUME NEW x \in SKI PROVE slot[x] # t
      BY <2>1, <3>1, <3>2 DEF SlotInv
    <3> QED
      BY <3>1, <3>3, <3>4
  <2>9. t \in Timer /\ s \in SKI
    BY <1>1, <2>1
  <2>10. timer' = [timer EXCEPT ![t] = armed]
    BY <1>5
  <2> HIDE DEF v, armed, t, s
  <2>11. ReportPart'
    <3>1. report' \in [Reporter -> Reports]
      BY <2>3, <2>4, <2>5
    <3>2. ReportInv'
      BY <2>3, <2>6, <2>8, <2>9 DEF IInv, ReportInv
    <3> QED
      BY <3>1, <3>2 DEF ReportPart
  <2>12. TimerPart'
    <3>1. timer' \in [Timer -> Timers]
      BY <2>2, <2>5, <2>10
    <3>2. CallbackInv'
      BY <2>2, <2>7, <2>9 DEF IInv, CallbackInv
    <3> QED
      BY <3>1, <3>2 DEF TimerPart
  <2>13. SlotInv'
    BY <2>5, <2>7, <2>8 DEF IInv, SlotInv
  <2>14. HolderInv'
    <3>1. \A q \in Reporter : report[q].timer \in Timer \cup {None}
      BY <2>5 DEF Reports
    <3> SUFFICES ASSUME NEW q \in Reporter, report'[q].timer # None
                 PROVE  /\ timer'[report'[q].timer].at # "free"
                        /\ timer'[report'[q].timer].at # "done"
                               => timer'[report'[q].timer].ski = report'[q].ski
                        /\ \A p \in Reporter : report'[p].timer = report'[q].timer => p = q
                        /\ \A x \in SKI : slot'[x] # report'[q].timer
      BY DEF HolderInv
    <3>2. CASE q = r
      BY <2>2, <2>3, <2>5, <2>6, <2>7, <2>8, <2>9, <3>2
    <3>3. CASE q # r
      BY <2>3, <2>5, <2>6, <2>7, <2>8, <3>1, <3>3 DEF IInv, HolderInv
    <3> QED
      BY <3>2, <3>3
  <2>15. PendingCanBeCancelled'
    BY <1>1, <2>3, <2>5, <2>6, <2>7, NamesAssumption DEF IInv, PendingCanBeCancelled
  <2> QED
    BY <1>3, <2>11, <2>12, <2>13, <2>14, <2>15 DEF HeldPart
<1> QED
  BY <1>4, <1>5 DEF Arm

LEMMA StoreKeeps ==
    ASSUME IInv, NEW r \in Reporter, Store(r)
    PROVE  PlainPart' /\ ReportPart' /\ TimerPart' /\ HeldPart'
<1> DEFINE s == report[r].ski
           t == report[r].timer
           v == [report[r] EXCEPT !.at = "entries", !.ski = None, !.timer = None]
           gone == {x \in Timer : (x = slot[s] /\ Pending(x)) \/ (x = t /\ timer[x].at = "done")}
<1>1. /\ report[r] \in Reports /\ report[r].at = "store"
      /\ s \in SKI /\ t \in Timer /\ t # None
  BY NamesAssumption DEF Store, IInv, TypeOK, Reports, At, ReportInv
<1>2. v \in Reports /\ v.at = "entries" /\ v.timer = None
  BY <1>1 DEF Reports
<1>3. /\ report \in [Reporter -> Reports] /\ timer \in [Timer -> Timers]
      /\ slot \in [SKI -> Timer \cup {None}]
  BY DEF IInv, TypeOK, Reports, Timers
<1>4. /\ report' = [report EXCEPT ![r] = v]
      /\ timer' = [x \in Timer |-> IF x \in gone THEN NoTimer ELSE timer[x]]
      /\ slot' = [slot EXCEPT ![s] = IF t \in gone THEN None ELSE t]
  BY DEF Store, IInv, TypeOK
<1>5. /\ \A x \in gone : (x = slot[s] /\ timer[x].at = "set") \/ (x = t /\ timer[x].at = "done")
      /\ slot[s] \in Timer /\ timer[slot[s]].at = "set" => slot[s] \in gone
      /\ timer[t].at = "done" => t \in gone
  BY <1>1, NamesAssumption DEF Pending
<1>6. NoTimer \in Timers /\ NoTimer.at = "free"
  BY BoundAssumption DEF NoTimer, Timers
<1>7. /\ timer[t].at # "free" /\ (timer[t].at # "done" => timer[t].ski = s)
      /\ \A q \in Reporter : report[q].timer = t => q = r
      /\ \A x \in SKI : slot[x] # t
  BY <1>1 DEF IInv, HolderInv
<1>8. \A q \in Reporter : report[q].timer \in Timer \cup {None}
  BY <1>3 DEF Reports
<1>9. PlainPart'
  BY <1>1, <1>4 DEF Store, connVars, appVars, IInv, TypeOK, PlainPart, PlainType, CallInv
<1> HIDE DEF s, t, v, gone
<1>10. /\ \A q \in Reporter : report'[q] = IF q = r THEN v ELSE report[q]
       /\ \A x \in Timer : timer'[x] = IF x \in gone THEN NoTimer ELSE timer[x]
       /\ \A x \in SKI : slot'[x] = IF x # s THEN slot[x] ELSE IF t \in gone THEN None ELSE t
  BY <1>3, <1>4
<1>11. ReportPart'
  <2>1. report' \in [Reporter -> Reports]
    BY <1>2, <1>3, <1>4
  <2>2. ReportInv'
    BY <1>2, <1>10 DEF IInv, ReportInv
  <2> QED
    BY <2>1, <2>2 DEF ReportPart
<1>12. TimerPart'
  <2>1. timer' \in [Timer -> Timers]
    BY <1>3, <1>4, <1>6
  <2>2. CallbackInv'
    BY <1>6, <1>10 DEF IInv, CallbackInv
  <2> QED
    BY <2>1, <2>2 DEF TimerPart
<1>13. SlotInv'
  <2> SUFFICES ASSUME NEW x \in SKI, slot'[x] # None
               PROVE  /\ timer'[slot'[x]].at \notin {"free", "done"}
                      /\ timer'[slot'[x]].ski = x
    BY DEF SlotInv
  <2>1. CASE x = s
    BY <1>1, <1>5, <1>7, <1>10, <2>1
  <2>2. CASE x # s
    <3>1. /\ slot'[x] = slot[x] /\ slot[x] \in Timer
          /\ timer[slot[x]].at \notin {"free", "done"} /\ timer[slot[x]].ski = x
      BY <1>3, <1>10, <2>2 DEF IInv, SlotInv
    <3>2. slot[x] # slot[s]
      BY <1>1, <2>2, <3>1 DEF IInv, SlotInv
    <3>3. slot[x] \notin gone
      BY <1>5, <3>1, <3>2
    <3> QED
      BY <1>10, <3>1, <3>3
  <2> QED
    BY <2>1, <2>2
<1>14. HolderInv'
  <2> SUFFICES ASSUME NEW q \in Reporter, report'[q].timer # None
               PROVE  /\ timer'[report'[q].timer].at # "free"
                      /\ timer'[report'[q].timer].at # "done"
                             => timer'[report'[q].timer].ski = report'[q].ski
                      /\ \A p \in Reporter : report'[p].timer = report'[q].timer => p = q
                      /\ \A x \in SKI : slot'[x] # report'[q].timer
    BY DEF HolderInv
  <2>1. q # r /\ report'[q] = report[q] /\ report[q].timer \in Timer
    BY <1>2, <1>8, <1>10
  <2>2. /\ timer[report[q].timer].at # "free"
        /\ timer[report[q].timer].at # "done" => timer[report[q].timer].ski = report[q].ski
        /\ \A p \in Reporter : report[p].timer = report[q].timer => p = q
        /\ \A x \in SKI : slot[x] # report[q].timer
    BY <2>1, NamesAssumption DEF IInv, HolderInv
  <2>3. report[q].timer # t
    BY <1>7, <2>1
  <2>4. report[q].timer \notin gone
    BY <1>1, <1>5, <2>2, <2>3
  <2>5. \A p \in Reporter : report'[p].timer = report'[q].timer => p = q
    BY <1>2, <1>10, <2>1, <2>2, NamesAssumption
  <2>6. \A x \in SKI : slot'[x] # report'[q].timer
    BY <1>10, <2>1, <2>2, <2>3, NamesAssumption
  <2> QED
    BY <1>10, <2>1, <2>2, <2>4, <2>5, <2>6
<1>15. PendingCanBeCancelled'
  <2> SUFFICES ASSUME NEW x \in Timer, timer'[x].at = "set"
               PROVE  slot'[timer'[x].ski] = x \/ \E q \in Reporter : report'[q].timer = x
    BY DEF PendingCanBeCancelled
  <2>1. x \notin gone /\ timer'[x] = timer[x]
    BY <1>6, <1>10
  <2>2. timer[x].ski \in SKI
    BY <2>1 DEF IInv, CallbackInv
  <2>3. CASE x = t
    BY <1>1, <1>7, <1>10, <2>1, <2>3
  <2>4. CASE x # t
    <3>1. slot[timer[x].ski] = x \/ \E q \in Reporter : report[q].timer = x
      BY <2>1 DEF IInv, PendingCanBeCancelled
    <3>2. ASSUME slot[timer[x].ski] = x
          PROVE  timer[x].ski # s
      BY <1>5, <2>1, <3>2
    <3>3. ASSUME NEW q \in Reporter, report[q].timer = x
          PROVE  q # r
      BY <2>4, <3>3 DEF t
    <3> QED
      BY <1>10, <2>1, <2>2, <3>1, <3>2, <3>3
  <2> QED
    BY <2>3, <2>4
<1> QED
  BY <1>9, <1>11, <1>12, <1>13, <1>14, <1>15 DEF HeldPart

LEMMA RememberKeeps ==
    ASSUME IInv, NEW r \in Reporter, Remember(r)
    PROVE  PlainPart' /\ ReportPart' /\ TimerPart' /\ HeldPart'
<1> USE DEF Remember, attemptVars, connVars, appVars
<1>1. report[r] \in Reports /\ report[r].at = "known" /\ report[r].timer = None
  BY DEF IInv, TypeOK, Reports, At, ReportInv
<1>2. PlainPart'
  BY <1>1 DEF IInv, TypeOK, Reports, PlainPart, PlainType, CallInv
<1>3. NoReport \in Reports /\ NoReport.at = "idle" /\ NoReport.timer = None
  BY DEF NoReport, Reports
<1>4. ReportPart' /\ SameHolders
  BY <1>1, <1>3, ReportMoves
<1>5. TimerPart' /\ HeldPart'
  BY <1>4, TimersRest
<1> QED
  BY <1>2, <1>4, <1>5

-----------------------------------------------------------------------------
(* The steps of a callback *)

LEMMA FireKeeps ==
    ASSUME IInv, NEW t \in Timer, Fire(t)
    PROVE  PlainPart' /\ ReportPart' /\ TimerPart' /\ HeldPart'
<1> USE DEF Fire, Goto, connVars, appVars
<1>1. PlainPart'
  BY DEF IInv, TypeOK, PlainPart, PlainType, CallInv
<1>2. ReportPart' /\ SameHolders
  BY ReportsRest
<1>3. TimerPart' /\ HeldPart'
  <2> DEFINE v == [timer[t] EXCEPT !.at = "fired"]
  <2>1. /\ timer[t] \in Timers /\ timer[t].at = "set"
    BY BoundAssumption DEF IInv, TypeOK, Timers, CallbackInv
  <2>2. /\ v \in Timers /\ v.ski = timer[t].ski /\ v.at \in {"fired"}
        /\ v.at \in {"try", "dial"} => v.tries >= 1
    BY <2>1, BoundAssumption DEF Timers
  <2>3. timer' = [timer EXCEPT ![t] = v] /\ UNCHANGED slot
    BY DEF IInv, TypeOK
  <2> HIDE DEF v
  <2> QED
    BY <1>2, <2>1, <2>2, <2>3, CallbackMoves
<1> QED
  BY <1>1, <1>2, <1>3

LEMMA CheckCounterKeeps ==
    ASSUME IInv, NEW t \in Timer, CheckCounter(t)
    PROVE  PlainPart' /\ ReportPart' /\ TimerPart' /\ HeldPart'
<1> USE DEF CheckCounter, connVars, appVars
<1>1. PlainPart'
  BY DEF IInv, TypeOK, PlainPart, PlainType, CallInv
<1>2. ReportPart' /\ SameHolders
  BY ReportsRest
<1>3. TimerPart' /\ HeldPart'
  <2> DEFINE v == [timer[t] EXCEPT
                    !.at = IF IsVoid(t) THEN "ending" ELSE "counted",
                    !.counter = None]
  <2>1. /\ timer[t] \in Timers /\ timer[t].at = "fired"
    BY BoundAssumption DEF IInv, TypeOK, Timers, CallbackInv
  <2>2. /\ v \in Timers /\ v.ski = timer[t].ski /\ v.at \in {"counted", "ending"}
        /\ v.at \in {"try", "dial"} => v.tries >= 1
    BY <2>1, BoundAssumption DEF Timers
  <2>3. timer' = [timer EXCEPT ![t] = v] /\ UNCHANGED slot
    BY DEF IInv, TypeOK
  <2> HIDE DEF v
  <2> QED
    BY <1>2, <2>1, <2>2, <2>3, CallbackMoves
<1> QED
  BY <1>1, <1>2, <1>3

LEMMA CheckServiceKeeps ==
    ASSUME IInv, NEW t \in Timer, CheckService(t)
    PROVE  PlainPart' /\ ReportPart' /\ TimerPart' /\ HeldPart'
<1> USE DEF CheckService, Goto, connVars, appVars
<1>1. PlainPart'
  BY DEF IInv, TypeOK, PlainPart, PlainType, CallInv
<1>2. ReportPart' /\ SameHolders
  BY ReportsRest
<1>3. TimerPart' /\ HeldPart'
  <2> DEFINE v == [timer[t] EXCEPT
                    !.at = IF Trusted(timer[t].ski) /\ timer[t].ski \notin connected
                           THEN "checked" ELSE "ending"]
  <2>1. /\ timer[t] \in Timers /\ timer[t].at = "counted"
    BY BoundAssumption DEF IInv, TypeOK, Timers, CallbackInv
  <2>2. /\ v \in Timers /\ v.ski = timer[t].ski /\ v.at \in {"checked", "ending"}
        /\ v.at \in {"try", "dial"} => v.tries >= 1
    BY <2>1, BoundAssumption DEF Timers
  <2>3. timer' = [timer EXCEPT ![t] = v] /\ UNCHANGED slot
    BY DEF IInv, TypeOK
  <2> HIDE DEF v
  <2> QED
    BY <1>2, <2>1, <2>2, <2>3, CallbackMoves
<1> QED
  BY <1>1, <1>2, <1>3

LEMMA ShouldAttemptKeeps ==
    ASSUME IInv, NEW t \in Timer, ShouldAttempt(t)
    PROVE  PlainPart' /\ ReportPart' /\ TimerPart' /\ HeldPart'
<1> USE DEF ShouldAttempt, connVars, appVars
<1>1. PlainPart'
  BY DEF IInv, TypeOK, PlainPart, PlainType, CallInv
<1>2. ReportPart' /\ SameHolders
  BY ReportsRest
<1>3. TimerPart' /\ HeldPart'
  <2> DEFINE v == [timer[t] EXCEPT !.at = IF Trusted(timer[t].ski) THEN "try" ELSE "failed",
                                  !.tries = Tries]
  <2>1. /\ timer[t] \in Timers /\ timer[t].at = "checked"
    BY BoundAssumption DEF IInv, TypeOK, Timers, CallbackInv
  <2>2. /\ v \in Timers /\ v.ski = timer[t].ski /\ v.at \in {"try", "failed"}
        /\ v.at \in {"try", "dial"} => v.tries >= 1
    <3> DEFINE w == IF Trusted(timer[t].ski) THEN "try" ELSE "failed"
               n == Tries
    <3>1. w \in {"try", "failed"} /\ n \in 0 .. Tries /\ (w = "try" => n >= 1)
      BY <2>1, BoundAssumption
    <3>2. v = [timer[t] EXCEPT !.at = w, !.tries = n]
      OBVIOUS
    <3> HIDE DEF v, w, n
    <3>3. v \in Timers /\ v.ski = timer[t].ski /\ v.at = w /\ v.tries = n
      BY <2>1, <3>1, <3>2 DEF Timers
    <3> QED
      BY <3>1, <3>3
  <2>3. timer' = [timer EXCEPT ![t] = v] /\ UNCHANGED slot
    BY DEF IInv, TypeOK
  <2> HIDE DEF v
  <2> QED
    BY <1>2, <2>1, <2>2, <2>3, CallbackMoves
<1> QED
  BY <1>1, <1>2, <1>3

LEMMA DialKeeps ==
    ASSUME IInv, NEW t \in Timer, Dial(t)
    PROVE  PlainPart' /\ ReportPart' /\ TimerPart' /\ HeldPart'
<1> USE DEF Dial, Goto, connVars, appVars
<1>1. PlainPart'
  BY DEF IInv, TypeOK, PlainPart, PlainType, CallInv
<1>2. ReportPart' /\ SameHolders
  BY ReportsRest
<1>3. TimerPart' /\ HeldPart'
  <2> DEFINE v == [timer[t] EXCEPT
                    !.at = IF timer[t].ski \in connected \/ dialing[timer[t].ski] # None
                           THEN "ending" ELSE "dial"]
  <2>1. /\ timer[t] \in Timers /\ timer[t].at = "try"
    BY BoundAssumption DEF IInv, TypeOK, Timers, CallbackInv
  <2>2. /\ v \in Timers /\ v.ski = timer[t].ski /\ v.at \in {"dial", "ending"}
        /\ v.at \in {"try", "dial"} => v.tries >= 1
    BY <2>1, BoundAssumption DEF Timers, IInv, CallbackInv
  <2>3. timer' = [timer EXCEPT ![t] = v] /\ UNCHANGED slot
    BY DEF IInv, TypeOK
  <2> HIDE DEF v
  <2> QED
    BY <1>2, <2>1, <2>2, <2>3, CallbackMoves
<1> QED
  BY <1>1, <1>2, <1>3

LEMMA DialFailsKeeps ==
    ASSUME IInv, NEW t \in Timer, DialFails(t)
    PROVE  PlainPart' /\ ReportPart' /\ TimerPart' /\ HeldPart'
<1> USE DEF DialFails, connVars, appVars
<1>1. PlainPart'
  BY DEF IInv, TypeOK, PlainPart, PlainType, CallInv
<1>2. ReportPart' /\ SameHolders
  BY ReportsRest
<1>3. TimerPart' /\ HeldPart'
  <2> DEFINE v == [timer[t] EXCEPT !.at = IF timer[t].tries > 1 THEN "try" ELSE "failed",
                                  !.tries = @ - 1]
  <2>1. /\ timer[t] \in Timers /\ timer[t].at = "dial"
        /\ timer[t].tries \in 1 .. Tries
    BY BoundAssumption DEF IInv, TypeOK, Timers, CallbackInv
  <2>2. /\ v \in Timers /\ v.ski = timer[t].ski /\ v.at \in {"try", "failed"}
        /\ v.at \in {"try", "dial"} => v.tries >= 1
    <3> DEFINE w == IF timer[t].tries > 1 THEN "try" ELSE "failed"
               n == timer[t].tries - 1
    <3>1. w \in {"try", "failed"} /\ n \in 0 .. Tries /\ (w = "try" => n >= 1)
      BY <2>1, BoundAssumption
    <3>2. v = [timer[t] EXCEPT !.at = w, !.tries = n]
      OBVIOUS
    <3> HIDE DEF v, w, n
    <3>3. v \in Timers /\ v.ski = timer[t].ski /\ v.at = w /\ v.tries = n
      BY <2>1, <3>1, <3>2 DEF Timers
    <3> QED
      BY <3>1, <3>3
  <2>3. timer' = [timer EXCEPT ![t] = v] /\ UNCHANGED slot
    BY DEF IInv, TypeOK
  <2> HIDE DEF v
  <2> QED
    BY <1>2, <2>1, <2>2, <2>3, CallbackMoves
<1> QED
  BY <1>1, <1>2, <1>3

LEMMA DialReturnsKeeps ==
    ASSUME IInv, NEW t \in Timer, DialReturns(t)
    PROVE  PlainPart' /\ ReportPart' /\ TimerPart' /\ HeldPart'
<1> USE DEF DialReturns, Goto, connVars, appVars
<1>1. PlainPart'
  BY DEF IInv, TypeOK, PlainPart, PlainType, CallInv
<1>2. ReportPart' /\ SameHolders
  BY ReportsRest
<1>3. TimerPart' /\ HeldPart'
  <2> DEFINE v == [timer[t] EXCEPT !.at = "ending"]
  <2>1. /\ timer[t] \in Timers /\ timer[t].at = "dialed"
    BY BoundAssumption DEF IInv, TypeOK, Timers, CallbackInv
  <2>2. /\ v \in Timers /\ v.ski = timer[t].ski /\ v.at \in {"ending"}
        /\ v.at \in {"try", "dial"} => v.tries >= 1
    BY <2>1, BoundAssumption DEF Timers
  <2>3. timer' = [timer EXCEPT ![t] = v] /\ UNCHANGED slot
    BY DEF IInv, TypeOK
  <2> HIDE DEF v
  <2> QED
    BY <1>2, <2>1, <2>2, <2>3, CallbackMoves
<1> QED
  BY <1>1, <1>2, <1>3

LEMMA RetryKeeps ==
    ASSUME IInv, NEW t \in Timer, Retry(t)
    PROVE  PlainPart' /\ ReportPart' /\ TimerPart' /\ HeldPart'
<1> USE DEF Retry, Goto, connVars, appVars
<1>1. PlainPart'
  BY DEF IInv, TypeOK, PlainPart, PlainType, CallInv
<1>2. ReportPart' /\ SameHolders
  BY ReportMayStart
<1>3. TimerPart' /\ HeldPart'
  <2> DEFINE v == [timer[t] EXCEPT !.at = "ending"]
  <2>1. /\ timer[t] \in Timers /\ timer[t].at = "failed"
    BY BoundAssumption DEF IInv, TypeOK, Timers, CallbackInv
  <2>2. /\ v \in Timers /\ v.ski = timer[t].ski /\ v.at \in {"ending"}
        /\ v.at \in {"try", "dial"} => v.tries >= 1
    BY <2>1, BoundAssumption DEF Timers
  <2>3. timer' = [timer EXCEPT ![t] = v] /\ UNCHANGED slot
    BY DEF IInv, TypeOK
  <2> HIDE DEF v
  <2> QED
    BY <1>2, <2>1, <2>2, <2>3, CallbackMoves
<1> QED
  BY <1>1, <1>2, <1>3

LEMMA DialSucceedsKeeps ==
    ASSUME IInv, NEW t \in Timer, DialSucceeds(t)
    PROVE  PlainPart' /\ ReportPart' /\ TimerPart' /\ HeldPart'
<1> DEFINE s == timer[t].ski
           v == [timer[t] EXCEPT !.at = "dialed"]
<1>1. /\ timer \in [Timer -> Timers] /\ slot \in [SKI -> Timer \cup {None}]
      /\ running \in [SKI -> BOOLEAN]
  BY DEF IInv, TypeOK, Timers
<1>2. timer[t].at = "dial" /\ s \in SKI
  BY DEF DialSucceeds, IInv, CallbackInv
<1>3. v \in Timers /\ v.at = "dialed" /\ v.ski = s
  BY <1>1 DEF Timers
<1>4. NoTimer \in Timers /\ NoTimer.at = "free"
  BY BoundAssumption DEF NoTimer, Timers
<1>5. slot' = [slot EXCEPT ![s] = None]
  BY DEF DialSucceeds
<1>6. running' \in [SKI -> BOOLEAN]
  BY <1>1, <1>2 DEF DialSucceeds
<1>7. PlainPart'
  BY <1>1, <1>2, <1>5, <1>6 DEF DialSucceeds, appVars, IInv, TypeOK, PlainPart, PlainType, CallInv
<1>8. ReportPart' /\ SameHolders
  BY ReportsRest DEF DialSucceeds
<1>9. /\ timer' \in [Timer -> Timers]
      /\ timer'[t] = v
      /\ \A x \in Timer : x # t => timer'[x] = timer[x] \/ (x = slot[s] /\ timer'[x] = NoTimer)
      /\ slot[s] # None => timer'[slot[s]].at # "set"
  <2> DEFINE ended == [timer EXCEPT ![t] = v]
  <2>1. ended = [timer EXCEPT ![t].at = "dialed"]
    BY <1>1
  <2>2. ended \in [Timer -> Timers] /\ \A x \in Timer : ended[x] = IF x = t THEN v ELSE timer[x]
    BY <1>1, <1>3
  <2>3. timer' = IF Pending(slot[s]) THEN [ended EXCEPT ![slot[s]] = NoTimer] ELSE ended
    BY <2>1 DEF DialSucceeds
  <2>4. Pending(slot[s]) => slot[s] # t /\ slot[s] \in Timer
    BY <1>1, <1>2 DEF Pending
  <2> HIDE DEF ended, v, s
  <2>5. CASE Pending(slot[s])
    <3>1. timer' = [ended EXCEPT ![slot[s]] = NoTimer] /\ slot[s] # t /\ slot[s] \in Timer
      BY <2>3, <2>4, <2>5
    <3> QED
      BY <1>4, <2>2, <3>1
  <2>6. CASE ~Pending(slot[s])
    <3>1. timer' = ended
      BY <2>3, <2>6
    <3>2. slot[s] # None => slot[s] \in Timer /\ timer[slot[s]].at # "set"
      BY <1>1, <1>2, <2>6 DEF Pending, s
    <3> QED
      BY <1>3, <2>2, <3>1, <3>2
  <2> QED
    BY <2>5, <2>6
<1> HIDE DEF s, v
<1>10. timer[t].ski = s
  BY DEF s
<1>11. TimerPart'
  BY <1>2, <1>3, <1>4, <1>9 DEF IInv, TimerPart, CallbackInv
<1>12. SlotInv'
  <2> SUFFICES ASSUME NEW x \in SKI, slot'[x] # None
               PROVE  /\ timer'[slot'[x]].at \notin {"free", "done"}
                      /\ timer'[slot'[x]].ski = x
    BY DEF SlotInv
  <2>1. x # s /\ slot'[x] = slot[x] /\ slot[x] \in Timer
    BY <1>1, <1>5
  <2>2. timer[slot[x]].at \notin {"free", "done"} /\ timer[slot[x]].ski = x
    BY <2>1 DEF IInv, SlotInv
  <2>3. slot[x] # slot[s]
    BY <1>2, <2>1, <2>2 DEF IInv, SlotInv
  <2>4. slot[x] # t
    BY <1>10, <2>1, <2>2
  <2> QED
    BY <1>9, <2>1, <2>2, <2>3, <2>4
<1>13. HolderInv'
  <2>1. \A r \in Reporter : report[r].timer \in Timer \cup {None}
    BY DEF IInv, TypeOK
  <2>2. UNCHANGED report
    BY DEF DialSucceeds
  <2> SUFFICES ASSUME NEW q \in Reporter, report[q].timer # None
               PROVE  /\ timer'[report[q].timer].at # "free"
                      /\ timer'[report[q].timer].at # "done"
                             => timer'[report[q].timer].ski = report[q].ski
                      /\ \A p \in Reporter : report[p].timer = report[q].timer => p = q
                      /\ \A x \in SKI : slot'[x] # report[q].timer
    BY <2>2 DEF HolderInv
  <2>3. /\ timer[report[q].timer].at # "free"
        /\ timer[report[q].timer].at # "done" => timer[report[q].timer].ski = report[q].ski
        /\ \A p \in Reporter : report[p].timer = report[q].timer => p = q
        /\ \A x \in SKI : slot[x] # report[q].timer
    BY DEF IInv, HolderInv
  <2>4. CASE report[q].timer = t
    BY <1>1, <1>2, <1>3, <1>5, <1>9, <1>10, <2>3, <2>4, NamesAssumption
  <2>5. CASE report[q].timer # t
    BY <1>1, <1>2, <1>5, <1>9, <2>1, <2>3, <2>5, NamesAssumption
  <2> QED
    BY <2>4, <2>5
<1>14. PendingCanBeCancelled'
  <2> SUFFICES ASSUME NEW x \in Timer, timer'[x].at = "set"
               PROVE  slot'[timer'[x].ski] = x \/ \E r \in Reporter : report'[r].timer = x
    BY DEF PendingCanBeCancelled
  <2>1. timer'[x] = timer[x] /\ x # slot[s]
    BY <1>3, <1>4, <1>9, NamesAssumption
  <2>2. timer[x].ski \in SKI
    BY <2>1 DEF IInv, CallbackInv
  <2>3. slot[timer[x].ski] = x \/ \E r \in Reporter : report[r].timer = x
    BY <2>1 DEF IInv, PendingCanBeCancelled
  <2> QED
    BY <1>1, <1>5, <1>8, <2>1, <2>2, <2>3 DEF SameHolders
<1> QED
  BY <1>7, <1>8, <1>11, <1>12, <1>13, <1>14 DEF HeldPart

LEMMA EndKeeps ==
    ASSUME IInv, NEW t \in Timer, End(t)
    PROVE  PlainPart' /\ ReportPart' /\ TimerPart' /\ HeldPart'
<1> DEFINE s == timer[t].ski
           held == \E r \in Reporter : report[r].timer = t
           v == IF held THEN [NoTimer EXCEPT !.at = "done"] ELSE NoTimer
<1>1. /\ timer \in [Timer -> Timers] /\ slot \in [SKI -> Timer \cup {None}]
      /\ running \in [SKI -> BOOLEAN]
  BY DEF IInv, TypeOK, Timers
<1>2. timer[t].at = "ending" /\ s \in SKI
  BY DEF End, IInv, CallbackInv
<1>3. /\ v \in Timers /\ v.at \in {"free", "done"}
      /\ v.at = "free" => ~held
  BY BoundAssumption DEF NoTimer, Timers
<1>4. /\ slot' = [slot EXCEPT ![s] = IF @ = t THEN None ELSE @]
      /\ timer' = [timer EXCEPT ![t] = v]
      /\ running' = [running EXCEPT ![s] = FALSE]
  BY DEF End
<1>5. PlainPart'
  BY <1>1, <1>2, <1>4 DEF End, connVars, appVars, IInv, TypeOK, PlainPart, PlainType, CallInv
<1>6. ReportPart' /\ SameHolders
  BY ReportsRest DEF End
<1>7. timer[t].ski = s
  OBVIOUS
<1> HIDE DEF s, v
<1>8. \A x \in Timer : timer'[x] = IF x = t THEN v ELSE timer[x]
  BY <1>1, <1>4
<1>9. TimerPart'
  <2>1. timer' \in [Timer -> Timers]
    BY <1>1, <1>3, <1>4
  <2>2. CallbackInv'
    BY <1>3, <1>8 DEF IInv, CallbackInv
  <2> QED
    BY <2>1, <2>2 DEF TimerPart
<1>10. \A x \in SKI : slot[x] = t => x = s
  BY <1>7, NamesAssumption DEF IInv, SlotInv
<1>11. \A x \in SKI : slot'[x] = IF slot[x] = t THEN None ELSE slot[x]
  BY <1>1, <1>4, <1>10
<1>12. SlotInv'
  BY <1>1, <1>8, <1>11 DEF IInv, SlotInv
<1>13. HolderInv'
  <2>1. \A r \in Reporter : report[r].timer \in Timer \cup {None}
    BY DEF IInv, TypeOK
  <2>2. UNCHANGED report
    BY DEF End
  <2> SUFFICES ASSUME NEW q \in Reporter, report[q].timer # None
               PROVE  /\ timer'[report[q].timer].at # "free"
                      /\ timer'[report[q].timer].at # "done"
                             => timer'[report[q].timer].ski = report[q].ski
                      /\ \A p \in Reporter : report[p].timer = report[q].timer => p = q
                      /\ \A x \in SKI : slot'[x] # report[q].timer
    BY <2>2 DEF HolderInv
  <2>3. /\ timer[report[q].timer].at # "free"
        /\ timer[report[q].timer].at # "done" => timer[report[q].timer].ski = report[q].ski
        /\ \A p \in Reporter : report[p].timer = report[q].timer => p = q
        /\ \A x \in SKI : slot[x] # report[q].timer
    BY DEF IInv, HolderInv
  <2>4. CASE report[q].timer = t
    BY <1>3, <1>8, <1>11, <2>3, <2>4
  <2>5. CASE report[q].timer # t
    BY <1>8, <1>11, <2>1, <2>3, <2>5
  <2> QED
    BY <2>4, <2>5
<1>14. PendingCanBeCancelled'
  <2> SUFFICES ASSUME NEW x \in Timer, timer'[x].at = "set"
               PROVE  slot'[timer'[x].ski] = x \/ \E r \in Reporter : report'[r].timer = x
    BY DEF PendingCanBeCancelled
  <2>1. x # t /\ timer'[x] = timer[x]
    BY <1>3, <1>8
  <2>2. timer[x].ski \in SKI
    BY <2>1 DEF IInv, CallbackInv
  <2>3. slot[timer[x].ski] = x \/ \E r \in Reporter : report[r].timer = x
    BY <2>1 DEF IInv, PendingCanBeCancelled
  <2> QED
    BY <1>6, <1>11, <2>1, <2>2, <2>3 DEF SameHolders
<1> QED
  BY <1>5, <1>6, <1>9, <1>12, <1>13, <1>14 DEF HeldPart

-----------------------------------------------------------------------------
(* The other steps *)

LEMMA IncomingKeeps ==
    ASSUME IInv, NEW s \in SKI, Incoming(s)
    PROVE  PlainPart' /\ ReportPart' /\ TimerPart' /\ HeldPart'
<1>1. ReportPart' /\ SameHolders
  BY ReportsRest DEF Incoming
<1>2. /\ TimerPart' /\ HeldPart' /\ running' \in [SKI -> BOOLEAN]
      /\ slot' \in [SKI -> Timer \cup {None}]
  BY <1>1, TimerStopped DEF Incoming
<1>3. service' \in [SKI -> {"none", "untrusted", "unnamed", "trusted"}]
  <2>1. service \in [SKI -> {"none", "untrusted", "unnamed", "trusted"}]
    BY DEF IInv, TypeOK
  <2> QED
    BY <2>1 DEF Incoming
<1>4. PlainPart'
  BY <1>2, <1>3 DEF Incoming, IInv, TypeOK, PlainPart, PlainType, CallInv
<1> QED
  BY <1>1, <1>2, <1>4

LEMMA ShutdownStopsTimersKeeps ==
    ASSUME IInv, ShutdownStopsTimers
    PROVE  PlainPart' /\ ReportPart' /\ TimerPart' /\ HeldPart'
<1>1. timer \in [Timer -> Timers] /\ slot \in [SKI -> Timer \cup {None}]
  BY DEF IInv, TypeOK, Timers
<1>2. NoTimer \in Timers /\ NoTimer.at = "free"
  BY BoundAssumption DEF NoTimer, Timers
<1>3. /\ timer' \in [Timer -> Timers]
      /\ \A x \in Timer : \/ timer'[x] = timer[x]
                          \/ timer'[x] = NoTimer /\ \E s \in SKI : slot[s] = x
      /\ \A x \in Timer : timer'[x].at = "set" => timer'[x] = timer[x] /\ \A s \in SKI : slot[s] # x
  BY <1>1, <1>2, NamesAssumption DEF ShutdownStopsTimers, Pending
<1>4. slot' = [s \in SKI |-> None]
  BY DEF ShutdownStopsTimers
<1>5. PlainPart'
  BY <1>4 DEF ShutdownStopsTimers, connVars, IInv, TypeOK, PlainPart, PlainType, CallInv
<1>6. ReportPart' /\ SameHolders
  BY ReportsRest DEF ShutdownStopsTimers
<1>7. TimerPart'
  BY <1>2, <1>3 DEF IInv, TimerPart, CallbackInv
<1>8. SlotInv'
  BY <1>4 DEF SlotInv
<1>9. HolderInv'
  <2>1. \A r \in Reporter : report[r].timer \in Timer \cup {None}
    BY DEF IInv, TypeOK
  <2> QED
    BY <1>3, <1>4, <1>6, <2>1 DEF IInv, HolderInv, SameHolders
<1>10. PendingCanBeCancelled'
  <2> SUFFICES ASSUME NEW x \in Timer, timer'[x].at = "set"
               PROVE  \E r \in Reporter : report'[r].timer = x
    BY DEF PendingCanBeCancelled
  <2>1. timer'[x] = timer[x] /\ \A s \in SKI : slot[s] # x
    BY <1>3
  <2>2. timer[x].ski \in SKI
    BY <2>1 DEF IInv, CallbackInv
  <2> QED
    BY <1>6, <2>1, <2>2 DEF IInv, PendingCanBeCancelled, SameHolders
<1> QED
  BY <1>5, <1>6, <1>7, <1>8, <1>9, <1>10 DEF HeldPart

\* Everything else touches neither the timers nor the delay timer of a device.
LEMMA NoTimerTouched ==
    ASSUME IInv, UNCHANGED <<timer, slot>>, PlainPart',
           UNCHANGED report \/ CheckAutoReannounce
               \/ (\E found \in SUBSET SKI, new \in BOOLEAN : Report(found, new))
    PROVE  PlainPart' /\ ReportPart' /\ TimerPart' /\ HeldPart'
<1>1. ReportPart' /\ SameHolders
  BY ReportMayStart
<1> QED
  BY <1>1, TimersRest

LEMMA DeviceStepKeeps ==
    ASSUME IInv, NEW s \in SKI,
           \/ Appears(s) \/ Disappears(s) \/ Ends(s) \/ Register(s) \/ UnregisterRemoteService(s)
           \/ CancelPairing(s) \/ ForgetsAttempts(s) \/ Reconnects(s)
    PROVE  PlainPart' /\ ReportPart' /\ TimerPart' /\ HeldPart'
<1> USE DEF attemptVars, connVars, appVars
<1>1. CASE Appears(s)
  <2>1. PlainPart'
    BY <1>1 DEF Appears, Found, IInv, TypeOK, PlainPart, PlainType, CallInv
  <2>2. entries' \in SUBSET SKI
    BY <2>1 DEF PlainPart, PlainType
  <2>3. \E found \in SUBSET SKI, new \in BOOLEAN : Report(found, new)
    BY <1>1, <2>2 DEF Appears
  <2> QED
    BY <1>1, <2>1, <2>3, NoTimerTouched DEF Appears
<1>2. CASE Disappears(s)
  <2>1. PlainPart'
    BY <1>2 DEF Disappears, Lost, IInv, TypeOK, PlainPart, PlainType, CallInv
  <2>2. entries' \in SUBSET SKI
    BY <2>1 DEF PlainPart, PlainType
  <2>3. UNCHANGED report \/ \E found \in SUBSET SKI, new \in BOOLEAN : Report(found, new)
    BY <1>2, <2>2 DEF Disappears
  <2> QED
    BY <1>2, <2>1, <2>3, NoTimerTouched DEF Disappears
<1>3. CASE Ends(s)
  <2>1. PlainPart'
    BY <1>3 DEF Ends, IInv, TypeOK, PlainPart, PlainType, CallInv
  <2> QED
    BY <1>3, <2>1, NoTimerTouched DEF Ends
<1>4. CASE Register(s)
  <2>1. PlainPart'
    BY <1>4 DEF Register, IInv, TypeOK, PlainPart, PlainType, CallInv
  <2> QED
    BY <1>4, <2>1, NoTimerTouched DEF Register
<1>5. CASE UnregisterRemoteService(s)
  <2>1. PlainPart'
    BY <1>5 DEF UnregisterRemoteService, IInv, TypeOK, PlainPart, PlainType, CallInv
  <2> QED
    BY <1>5, <2>1, NoTimerTouched DEF UnregisterRemoteService
<1>6. CASE CancelPairing(s)
  <2>1. PlainPart'
    BY <1>6 DEF CancelPairing, RemoveConnectionAttemptCounter, IInv, TypeOK, PlainPart, PlainType,
                CallInv
  <2> QED
    BY <1>6, <2>1, NoTimerTouched DEF CancelPairing
<1>7. CASE ForgetsAttempts(s)
  <2>1. PlainPart'
    BY <1>7 DEF ForgetsAttempts, RemoveConnectionAttemptCounter, IInv, TypeOK, PlainPart, PlainType,
                CallInv
  <2> QED
    BY <1>7, <2>1, NoTimerTouched DEF ForgetsAttempts
<1>8. CASE Reconnects(s)
  <2>1. PlainPart'
    BY <1>8 DEF Reconnects, IInv, TypeOK, PlainPart, PlainType, CallInv
  <2> QED
    BY <1>8, <2>1, NoTimerTouched DEF Reconnects
<1> QED
  BY <1>1, <1>2, <1>3, <1>4, <1>5, <1>6, <1>7, <1>8

LEMMA HubStepKeeps ==
    ASSUME IInv, RegisterLooks \/ UnregisterForgets \/ CallCloses \/ CancelUntrusts
                     \/ ShutdownForgetsEntries \/ ShutdownCloses \/ Start
    PROVE  PlainPart' /\ ReportPart' /\ TimerPart' /\ HeldPart'
<1> USE DEF attemptVars, connVars, appVars
<1>1. CASE RegisterLooks
  <2>1. PlainPart'
    BY <1>1 DEF RegisterLooks, NoCall, IInv, TypeOK, PlainPart, PlainType, CallInv
  <2>2. UNCHANGED report \/ \E found \in SUBSET SKI, new \in BOOLEAN : Report(found, new)
    BY <1>1 DEF RegisterLooks, IInv, TypeOK
  <2> QED
    BY <1>1, <2>1, <2>2, NoTimerTouched DEF RegisterLooks
<1>2. CASE UnregisterForgets
  <2>1. PlainPart'
    BY <1>2 DEF UnregisterForgets, RemoveConnectionAttemptCounter, IInv, TypeOK, PlainPart,
                PlainType, CallInv
  <2> QED
    BY <1>2, <2>1, NoTimerTouched DEF UnregisterForgets
<1>3. CASE CallCloses
  <2>1. /\ call \in [at : {"no", "look", "forget", "close", "abort", "untrust"},
                   ski : SKI \cup {None}]
        /\ ending \in [SKI -> {"no", "closed", "completed", "counted"}] /\ connected \subseteq SKI
        /\ call.ski \in SKI
    BY <1>3 DEF CallCloses, IInv, TypeOK, CallInv
  <2>2. connected' \subseteq SKI /\ ending' \in [SKI -> {"no", "closed", "completed", "counted"}]
    BY <1>3, <2>1 DEF CallCloses
  <2>3. /\ call' \in [at : {"no", "look", "forget", "close", "abort", "untrust"},
                    ski : SKI \cup {None}]
        /\ call'.at # "no" => call'.ski \in SKI
    BY <1>3, <2>1 DEF CallCloses, NoCall
  <2>4. PlainPart'
    BY <1>3, <2>2, <2>3 DEF CallCloses, IInv, TypeOK, PlainPart, PlainType, CallInv
  <2> QED
    BY <1>3, <2>4, NoTimerTouched DEF CallCloses
<1>4. CASE CancelUntrusts
  <2>1. PlainPart'
    BY <1>4 DEF CancelUntrusts, NoCall, IInv, TypeOK, PlainPart, PlainType, CallInv
  <2> QED
    BY <1>4, <2>1, NoTimerTouched DEF CancelUntrusts
<1>5. CASE ShutdownForgetsEntries
  <2>1. PlainPart'
    BY <1>5 DEF ShutdownForgetsEntries, IInv, TypeOK, PlainPart, PlainType, CallInv
  <2> QED
    BY <1>5, <2>1, NoTimerTouched DEF ShutdownForgetsEntries
<1>6. CASE ShutdownCloses
  <2>1. PlainPart'
    BY <1>6 DEF ShutdownCloses, IInv, TypeOK, PlainPart, PlainType, CallInv
  <2> QED
    BY <1>6, <2>1, NoTimerTouched DEF ShutdownCloses
<1>7. CASE Start
  <2>1. PlainPart'
    BY <1>7 DEF Start, IInv, TypeOK, PlainPart, PlainType, CallInv
  <2> QED
    BY <1>7, <2>1, NoTimerTouched DEF Start
<1> QED
  BY <1>1, <1>2, <1>3, <1>4, <1>5, <1>6, <1>7

-----------------------------------------------------------------------------
(* The theorems *)

\* What the environment has used is counted.
LEMMA SpentStep ==
    ASSUME IInv, Next
    PROVE  SpentType'
<1>1. env \in Environments /\ spent \in [changes : Nat, incoming : Nat, ends : Nat, calls : Nat]
  BY DEF IInv, TypeOK
<1>2. env' = env
  BY DEF Next
<1>3. UNCHANGED spent \/ \E what \in {"changes", "incoming", "ends", "calls"} : Spend(what)
  <2>1. CASE NewStep
    BY <2>1 DEF NewStep, Appears, Disappears, Incoming, Ends, Register, UnregisterRemoteService,
                CancelPairing, ShutdownForgetsEntries
  <2> QED
    BY <2>1 DEF Next, Step
<1>4. ASSUME NEW what \in {"changes", "incoming", "ends", "calls"}, Spend(what)
      PROVE  spent' \in [changes : Nat, incoming : Nat, ends : Nat, calls : Nat]
  <2>1. spent' = [spent EXCEPT ![what] = @ + 1]
    BY <1>4 DEF Spend
  <2> QED
    BY <1>1, <2>1
<1> QED
  BY <1>1, <1>2, <1>3, <1>4 DEF SpentType

\* Every step keeps the invariant.
LEMMA StepIInv == IInv /\ [Next]_vars => IInv'
<1> SUFFICES ASSUME IInv, [Next]_vars PROVE IInv'
  OBVIOUS
<1>1. CASE UNCHANGED vars
  BY <1>1 DEF vars, IInv, TypeOK, ReportInv, CallbackInv, CallInv, SlotInv, HolderInv,
              PendingCanBeCancelled
<1>2. CASE Next
  <2>1. SpentType'
    BY <1>2, SpentStep
  <2>2. PlainPart' /\ ReportPart' /\ TimerPart' /\ HeldPart'
    <3>1. ASSUME NEW r \in Reporter, ReportStep(r)
          PROVE  PlainPart' /\ ReportPart' /\ TimerPart' /\ HeldPart'
      BY <3>1, BeginKeeps, CancelGoneKeeps, ForgetGoneKeeps, ConsiderKeeps, MatchKeeps, CoordinateKeeps,
         ClaimKeeps, ArmKeeps, StoreKeeps, RememberKeeps DEF ReportStep, ReportGoesOn
    <3>2. ASSUME NEW t \in Timer, TimerStep(t)
          PROVE  PlainPart' /\ ReportPart' /\ TimerPart' /\ HeldPart'
      BY <3>2, FireKeeps, CheckCounterKeeps, CheckServiceKeeps, ShouldAttemptKeeps, DialKeeps,
         DialSucceedsKeeps, DialReturnsKeeps, DialFailsKeeps, RetryKeeps, EndKeeps DEF TimerStep, Callback
    <3>3. CASE NewStep
      BY <3>3, DeviceStepKeeps, HubStepKeeps, IncomingKeeps DEF NewStep
    <3>4. CASE HubStep
      BY <3>4, DeviceStepKeeps, HubStepKeeps, ShutdownStopsTimersKeeps
         DEF HubStep, EndGoesOn, CallGoesOn, ShutdownGoesOn
    <3> QED
      BY <1>2, <3>1, <3>2, <3>3, <3>4 DEF Next, Step
  <2>3. (SpentType /\ PlainPart /\ ReportPart /\ TimerPart /\ HeldPart)' => IInv'
    BY Parts, PTL
  <2> QED
    BY <2>1, <2>2, <2>3
<1> QED
  BY <1>1, <1>2

LEMMA Invariant == Spec => []IInv
BY InitIInv, StepIInv, PTL DEF Spec

\* The state of the attempts is what the hub's fields can hold, in every environment.
THEOREM AttemptsTypeCorrect == Spec => []TypeOK
<1>1. IInv => TypeOK
  BY DEF IInv
<1> QED
  BY <1>1, Invariant, PTL

\* No pending delay timer gets lost (storeConnectionDelayTimer stops the one it replaces,
\* hub_connections_timers.go): each can still be cancelled when its device goes.
THEOREM PendingIsCancellable == Spec => []PendingCanBeCancelled
<1>1. IInv => PendingCanBeCancelled
  BY DEF IInv
<1> QED
  BY <1>1, Invariant, PTL

=============================================================================
