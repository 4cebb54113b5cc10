----------------------- MODULE ShipConnectionProofs -----------------------
(***************************************************************************)
(* Safety of a SHIP connection, for every environment: every set of        *)
(* messages the peer may send, every number of SPINE messages, and every   *)
(* interleaving of the goroutines.                                         *)
(*                                                                         *)
(* The state of the connection includes what every goroutine still has to  *)
(* do, and the invariants depend on it.  So IInv says, besides the         *)
(* properties to be proved, of each goroutine's code (GoodOps) that        *)
(*   - it consists of steps of the known kinds, and only the read pump     *)
(*     handles messages, installs the reader and flushes the buffer;       *)
(*   - a flush follows where the reader is installed, and a report where   *)
(*     the data connection is closed;                                      *)
(*   - a report comes after a step that closes the data connection, unless *)
(*     that counts as closed already;                                      *)
(*   - while the user has not decided, none of its steps sets a state      *)
(*     beyond the hello phase, or trusts, validates or approves.           *)
(* A step takes the first operation off one goroutine's code and may put   *)
(* others in front of the rest.  GoodConcat and GoodTail say that this     *)
(* keeps the code good, and there is one lemma for every action on what it *)
(* puts there.                                                             *)
(***************************************************************************)
EXTENDS ShipConnection, SequenceTheorems, TLAPS

-----------------------------------------------------------------------------
(* The steps that goroutines may have to do. *)

\* What setState and the handlers do to the timer.
TimerOps == {"keep", "stop", "wait", "prolong"}

\* The kinds of steps without parameters.
Kinds == {"trusted", "allow", "validate", "setup", "flush", "disconnect", "error",
          "approve", "cancel", "distrust"}

\* Steps that set states of S, handle messages of M, and are of the kinds K.
Op(S, M, K) ==
    ({"set"} \X S \X TimerOps) \cup ({"timer"} \X TimerOps)
    \cup ({"handle"} \X BOOLEAN \X M) \cup ({"close", "report"} \X BOOLEAN)
    \cup ({"spawn"} \X {"abort", "closer"}) \cup {<<k>> : k \in K}

\* The steps of a handler of the handshake, the one of the access phase excepted.
HandlerOp(S) ==
    ({"set"} \X S \X TimerOps) \cup ({"timer"} \X TimerOps)
    \cup ({"handle"} \X BOOLEAN \X {None}) \cup ({"close"} \X BOOLEAN)
    \cup {<<"allow">>, <<"spawn", "abort">>}
HandlerOps(S) == Seq(HandlerOp(S))

\* The states a connection may be in until the user has decided.
UndecidedStates ==
    InitStates \cup {"ClientSend", "ClientEvaluate", "ServerEvaluate", "Hello",
                     "HelloPendingInit", "HelloPendingListen", "HelloAbort",
                     "HelloAbortDone", "HelloRemoteAbortDone", "HelloRejected", "Error"}

\* The user has to decide about the peer, and has not.
Undecided == role = "server" /\ ~env.autoAccept /\ trust = "undecided"

\* The states a handler called in state s may set: every one, and while the user has
\* not decided only such.
Targets(s) == {States} \cup IF Undecided /\ s \in UndecidedStates THEN {UndecidedStates} ELSE {}

\* The messages of the peers, and the missing one.
Messages == {None} \cup UNION {e.messages : e \in Environments}

\* The steps of any goroutine, of one that is not the read pump, and of any one
\* while the user has not decided.
AnyOp == Op(States, Messages, Kinds)
QuietOp == Op(States, {None}, Kinds \ {"setup", "flush"})
UndecidedOp == Op(UndecidedStates, Messages, Kinds \ {"trusted", "validate", "approve"})

\* Properties of code: it has a flush to do; where it installs the reader it flushes
\* later; where it closes the data connection it reports later; where it reports it
\* closes the data connection before.
HasFlush(c) == \E i \in 1..Len(c) : c[i][1] = "flush"
FlushFollows(c) ==
    \A i \in 1..Len(c) : c[i][1] = "setup" => \E j \in (i + 1)..Len(c) : c[j][1] = "flush"
ReportFollows(c) ==
    \A i \in 1..Len(c) : c[i][1] = "disconnect" => \E j \in (i + 1)..Len(c) : c[j][1] = "report"
Covered(c) ==
    \A i \in 1..Len(c) : c[i][1] = "report" => \E j \in 1..(i - 1) : c[j][1] = "disconnect"

\* What is known of the code of goroutine g, when the data connection counts as closed
\* (shut), and when the user has not decided (open).
GoodOps(g, c, shut, open) ==
    /\ c \in Seq(AnyOp)
    /\ FlushFollows(c) /\ ReportFollows(c)
    /\ g # "reader" => c \in Seq(QuietOp)
    /\ shut \/ Covered(c)
    /\ open => c \in Seq(UndecidedOp)

-----------------------------------------------------------------------------
(* The inductive invariant. *)

CodeInv ==
    /\ code \in [Goroutines -> Seq(AnyOp)]
    /\ \A g \in Goroutines : GoodOps(g, code[g], closed, Undecided)

\* What is in the buffer when the reader is there is still to be flushed by the read pump.
BufferInv == reader /\ buffer # <<>> => HasFlush(code["reader"])

UndecidedInv == Undecided => state \in UndecidedStates

IInv ==
    /\ TypeOK /\ CodeInv /\ BufferInv /\ UndecidedInv
    /\ SpineInOrder /\ ReportedIsClosed

\* TypeOK in two parts: of the handshake and its end, and of the data.
Timers ==
    {t \in [on : BOOLEAN, type : {"wait", "prolong"}, fired : {"no", "current", "stale"}] :
        t.fired = "current" => t.on}

ControlTypes ==
    /\ state \in States
    /\ timer \in Timers
    /\ once \in {"no", "running", "done"}
    /\ closed \in BOOLEAN /\ reported \in BOOLEAN
    /\ trust \in {"paired", "undecided", "denied"}

DataTypes ==
    /\ env \in Environments
    /\ role \in env.roles
    /\ full \in BOOLEAN
    /\ reader \in BOOLEAN
    /\ received \in 0..env.spine
    /\ buffer \in Seq(1..env.spine) /\ delivered \in Seq(1..env.spine)

\* What the rest of the state needs of a step.
Onward ==
    /\ ControlTypes' /\ DataTypes'
    /\ closed => closed'
    /\ Undecided' => Undecided /\ state' \in UndecidedStates
    /\ reported' => closed'

-----------------------------------------------------------------------------
(* What handlers are made of. *)

\* What the parts of a step can be.
LEMMA OpParts ==
    ASSUME NEW S, NEW M, NEW K \in SUBSET Kinds, NEW op \in Op(S, M, K)
    PROVE  /\ op[1] = "set" => op[2] \in S /\ op[3] \in TimerOps
           /\ op[1] = "timer" => op[2] \in TimerOps
           /\ op[1] = "handle" => op[2] \in BOOLEAN /\ op[3] \in M
           /\ op[1] \in {"close", "report"} => op[2] \in BOOLEAN
           /\ op[1] = "spawn" => op[2] \in {"abort", "closer"}
           /\ op[1] \in Kinds => op[1] \in K
  BY DEF Op, Kinds

\* The pieces handlers are made of are sequences of a handler's steps, and stay so when
\* they are put together.
LEMMA HandlerSteps ==
    ASSUME NEW S
    PROVE  /\ \A s \in S : /\ SetState(s) \in HandlerOps(S)
                           /\ \A t \in TimerOps : SetWithTimer(s, t) \in HandlerOps(S)
                           /\ SetAndHandle(s) \in HandlerOps(S)
           /\ \A t \in TimerOps : Timer(t) \in HandlerOps(S)
           /\ \A b \in BOOLEAN : Handle(b, None) \in HandlerOps(S) /\ Close(b) \in HandlerOps(S)
           /\ <<>> \in HandlerOps(S)
           /\ <<<<"allow">>>> \in HandlerOps(S)
           /\ <<<<"spawn", "abort">>>> \in HandlerOps(S)
           /\ \A p, q \in HandlerOps(S) :
                 /\ p \o q \in HandlerOps(S)
                 /\ Write(p, q) \in HandlerOps(S)
                 /\ Send(p, q) \in HandlerOps(S)
<1> DEFINE T == HandlerOps(S)
<1>1. ASSUME NEW op \in HandlerOp(S) PROVE <<op>> \in T
  BY <1>1 DEF HandlerOps
<1>2. ASSUME NEW p \in T, NEW q \in T PROVE p \o q \in T
  BY <1>2, ConcatProperties DEF HandlerOps
<1>3. <<>> \in T
  BY DEF HandlerOps
<1>4. ASSUME NEW s \in S, NEW t \in TimerOps PROVE SetWithTimer(s, t) \in T
  <2>1. <<"set", s, t>> \in HandlerOp(S)
    BY DEF HandlerOp
  <2>. QED BY <1>1, <2>1 DEF SetWithTimer
<1>5. ASSUME NEW s \in S PROVE SetState(s) \in T
  <2>1. TimerOf(s) \in TimerOps
    BY DEF TimerOf, TimerOps
  <2>. QED BY <2>1, <1>4 DEF SetState
<1>6. ASSUME NEW b \in BOOLEAN PROVE Handle(b, None) \in T
  <2>1. <<"handle", b, None>> \in HandlerOp(S)
    BY DEF HandlerOp
  <2>. QED BY <1>1, <2>1 DEF Handle
<1>7. ASSUME NEW b \in BOOLEAN PROVE Close(b) \in T
  <2>1. <<"close", b>> \in HandlerOp(S)
    BY DEF HandlerOp
  <2>. QED BY <1>1, <2>1 DEF Close
<1>8. ASSUME NEW t \in TimerOps PROVE Timer(t) \in T
  <2>1. <<"timer", t>> \in HandlerOp(S)
    BY DEF HandlerOp
  <2>. QED BY <1>1, <2>1 DEF Timer
<1>9. ASSUME NEW s \in S PROVE SetAndHandle(s) \in T
  BY <1>5, <1>6, <1>2 DEF SetAndHandle
<1>10. <<<<"allow">>>> \in T /\ <<<<"spawn", "abort">>>> \in T
  BY <1>1 DEF HandlerOp
<1>11. ASSUME NEW p \in T, NEW q \in T PROVE Write(p, q) \in T /\ Send(p, q) \in T
  <2>1. Write(p, q) \in T
    BY <1>11 DEF Write
  <2>2. Close(FALSE) \o q \in T
    BY <1>7, <1>2, <1>11
  <2>. QED BY <2>1, <2>2 DEF Send
<1> HIDE DEF T
<1>12. QED
  <2>1. \A s \in S : SetState(s) \in T /\ SetAndHandle(s) \in T
    BY <1>5, <1>9
  <2>2. \A s \in S : \A t \in TimerOps : SetWithTimer(s, t) \in T
    BY <1>4
  <2>3. \A t \in TimerOps : Timer(t) \in T
    BY <1>8
  <2>4. \A b \in BOOLEAN : Handle(b, None) \in T /\ Close(b) \in T
    BY <1>6, <1>7
  <2>5. \A p, q \in T : p \o q \in T /\ Write(p, q) \in T /\ Send(p, q) \in T
    BY <1>2, <1>11
  <2>. QED BY <2>1, <2>2, <2>3, <2>4, <2>5, <1>3, <1>10 DEF T

\* cmiState...: the handlers of the init phase set no state that needs the user.
LEMMA InitHandlerOps ==
    ASSUME role \in {"client", "server"}, NEW s \in InitStates, NEW t \in BOOLEAN, NEW m,
           NEW S, UndecidedStates \subseteq S
    PROVE  InitHandler(s, t, m) \in HandlerOps(S)
<1> USE DEF InitHandler
<1>0. {"ClientSend", "ClientWait", "ServerWait", "Error", "ClientEvaluate", "ServerEvaluate", "Hello"} \subseteq S
  BY DEF UndecidedStates, InitStates
<1>1. EndWithError \in HandlerOps(S)
  BY HandlerSteps, <1>0 DEF EndWithError, TimerOps
<1>2. CASE s = "InitStart"
  <2>1. SetWithTimer("ServerWait", "wait") \in HandlerOps(S) /\ SetWithTimer("ClientWait", "wait") \in HandlerOps(S)
    BY HandlerSteps, <1>0 DEF TimerOps
  <2>. QED BY <1>1, <1>2, <2>1, <1>0, HandlerSteps
<1>3. CASE s \in {"ClientWait", "ServerWait"}
  <2>1. SetAndHandle("Hello") \in HandlerOps(S) /\ SetState("ClientEvaluate") \in HandlerOps(S) /\ SetState("ServerEvaluate") \in HandlerOps(S)
    BY HandlerSteps, <1>0
  <2>2. Write(SetAndHandle("Hello"), EndWithError) \in HandlerOps(S)
    BY <2>1, <1>1, HandlerSteps
  <2>. QED BY <1>1, <1>3, <2>1, <2>2, HandlerSteps
<1>. QED BY <1>2, <1>3 DEF InitStates

\* Neither do those that abort or end the handshake, or wait for the user.
LEMMA AbortOps ==
    ASSUME NEW S, UndecidedStates \subseteq S
    PROVE  /\ EndWithError \in HandlerOps(S)
           /\ AbortHello \in HandlerOps(S)
           /\ AbortProtocol \in HandlerOps(S)
           /\ PendingTimeout \in HandlerOps(S)
           /\ \A m : PendingListen(m) \in HandlerOps(S)
<1>0. {"Error", "HelloAbort", "HelloRemoteAbortDone"} \subseteq S
  BY DEF UndecidedStates
<1>1. EndWithError \in HandlerOps(S)
  BY HandlerSteps, <1>0 DEF EndWithError, TimerOps
<1>2. AbortHello \in HandlerOps(S)
  BY HandlerSteps, <1>0 DEF AbortHello
<1>3. AbortProtocol \in HandlerOps(S)
  BY HandlerSteps, <1>0 DEF AbortProtocol, TimerOps
<1>4. \A t \in {"wait", "stop", "prolong"} : Timer(t) \in HandlerOps(S)
  BY HandlerSteps DEF TimerOps
<1>5. PendingTimeout \in HandlerOps(S)
  BY HandlerSteps, <1>1, <1>2, <1>4 DEF PendingTimeout
<1>6. ASSUME NEW m PROVE PendingListen(m) \in HandlerOps(S)
  BY HandlerSteps, <1>0, <1>1, <1>2, <1>4 DEF PendingListen
<1>. QED BY <1>1, <1>2, <1>3, <1>5, <1>6

\* The handlers of the hello phase, by the state they are called in.  That of its first
\* state passes the message on, see GoodHello.
LEMMA HelloHandlerOps ==
    ASSUME role \in {"client", "server"}, trust \in {"paired", "undecided", "denied"},
           NEW s \in HelloStates \ {"Hello"}, NEW t \in BOOLEAN, NEW m,
           NEW S \in Targets(s)
    PROVE  HelloHandler(s, t, m) \in HandlerOps(S)
<1> USE DEF HelloHandler
<1>0. UndecidedStates \subseteq S
  BY DEF Targets, UndecidedStates, States, InitStates, HelloStates, PassiveStates
<1>1. /\ EndWithError \in HandlerOps(S) /\ AbortHello \in HandlerOps(S)
      /\ PendingTimeout \in HandlerOps(S) /\ PendingListen(m) \in HandlerOps(S)
  BY <1>0, AbortOps
<1>4. CASE s = "HelloReadyInit"
  <2>1. S = States
    BY <1>4 DEF Targets, UndecidedStates, InitStates
  <2>2. "HelloReadyListen" \in S
    BY <2>1 DEF States, HelloStates
  <2>. QED BY <1>4, <2>2, HandlerSteps, <1>1
<1>5. CASE s = "HelloReadyListen"
  <2>1. S = States
    BY <1>5 DEF Targets, UndecidedStates, InitStates
  <2>2. {"HelloOk", "HelloRemoteAbortDone"} \subseteq S
    BY <2>1 DEF States, HelloStates
  <2>3. (IF Waiting THEN Timer("wait") ELSE <<>>) \in HandlerOps(S)
    BY HandlerSteps DEF TimerOps
  <2>4. ReadyListen(m) \in HandlerOps(S)
    BY <2>2, <2>3, HandlerSteps, <1>1 DEF ReadyListen
  <2>. QED BY <1>5, <2>4, <1>1
<1>6. CASE s = "HelloPendingInit"
  <2>1. "HelloPendingListen" \in S
    BY <1>0 DEF UndecidedStates
  <2>. QED BY <1>6, <2>1, HandlerSteps, <1>1
<1>7. CASE s = "HelloPendingListen"
  BY <1>7, <1>1
<1>8. CASE s = "HelloAbort"
  <2>1. "HelloAbortDone" \in S
    BY <1>0 DEF UndecidedStates
  <2>2. Timer("stop") \in HandlerOps(S)
    BY HandlerSteps DEF TimerOps
  <2>. QED BY <1>8, <2>1, <2>2, HandlerSteps, <1>1
<1>9. CASE s \in {"HelloAbortDone", "HelloRemoteAbortDone"}
  BY <1>9, HandlerSteps
<1>10. CASE s = "HelloOk"
  <2>1. S = States
    BY <1>10 DEF Targets, UndecidedStates, InitStates
  <2>2. {"ProtServerInit", "ProtServerListenProposal", "ProtClientInit", "ProtClientListenChoice"} \subseteq S
    BY <2>1 DEF States, ProtStates, PassiveStates
  <2>3. SetWithTimer("ProtServerInit", "wait") \o SetState("ProtServerListenProposal") \in HandlerOps(S)
    BY <2>2, HandlerSteps DEF TimerOps
  <2>4. SetState("ProtClientInit") \o Send(SetState("ProtClientListenChoice"), EndWithError) \in HandlerOps(S)
    BY <2>2, HandlerSteps, <1>1
  <2>. QED BY <1>10, <2>3, <2>4
<1>. QED BY <1>4, <1>5, <1>6, <1>7, <1>8, <1>9, <1>10 DEF HelloStates

\* The handlers of the protocol phase.
LEMMA ProtHandlerOps ==
    ASSUME NEW s \in ProtStates, NEW t \in BOOLEAN, NEW m
    PROVE  ProtHandler(s, t, m) \in HandlerOps(States)
<1>0. UndecidedStates \subseteq States
  BY DEF UndecidedStates, States, InitStates, HelloStates, PassiveStates
<1>1. EndWithError \in HandlerOps(States) /\ AbortProtocol \in HandlerOps(States)
  BY <1>0, AbortOps
<1>2. {"ProtServerListenConfirm", "ProtServerOk", "ProtClientOk", "PinCheckInit"} \subseteq States
  BY DEF States, ProtStates, PinStates
<1>3. /\ SetWithTimer("ProtServerListenConfirm", "wait") \in HandlerOps(States)
      /\ SetWithTimer("ProtServerOk", "stop") \in HandlerOps(States)
      /\ SetAndHandle("ProtClientOk") \in HandlerOps(States)
      /\ SetAndHandle("PinCheckInit") \in HandlerOps(States)
      /\ Handle(FALSE, None) \in HandlerOps(States)
  BY <1>2, HandlerSteps DEF TimerOps
<1>4. /\ Send(SetWithTimer("ProtServerListenConfirm", "wait"), EndWithError) \in HandlerOps(States)
      /\ Send(SetAndHandle("ProtClientOk"), EndWithError) \in HandlerOps(States)
      /\ SetWithTimer("ProtServerOk", "stop") \o Handle(FALSE, None) \in HandlerOps(States)
  BY <1>1, <1>3, HandlerSteps
<1>. QED BY <1>1, <1>3, <1>4 DEF ProtHandler

\* The handlers of the PIN phase.
LEMMA PinHandlerOps ==
    ASSUME NEW s \in PinStates, NEW m
    PROVE  PinHandler(s, m) \in HandlerOps(States)
<1>0. UndecidedStates \subseteq States
  BY DEF UndecidedStates, States, InitStates, HelloStates, PassiveStates
<1>1. EndWithError \in HandlerOps(States)
  BY <1>0, AbortOps
<1>2. {"PinCheckListen", "PinCheckOk", "AccessMethodsRequest"} \subseteq States
  BY DEF States, PinStates
<1>3. /\ SetState("PinCheckListen") \in HandlerOps(States)
      /\ SetAndHandle("PinCheckOk") \in HandlerOps(States)
      /\ SetWithTimer("AccessMethodsRequest", "wait") \in HandlerOps(States)
  BY <1>2, HandlerSteps DEF TimerOps
<1>4. /\ Send(SetState("PinCheckListen"), EndWithError) \in HandlerOps(States)
      /\ Send(SetWithTimer("AccessMethodsRequest", "wait"), EndWithError) \in HandlerOps(States)
  BY <1>1, <1>3, HandlerSteps
<1>. QED BY <1>1, <1>3, <1>4 DEF PinHandler, PinStates

\* A sequence over a set is one over a larger set.
LEMMA SubsetSeq ==
    ASSUME NEW A, NEW B, A \subseteq B, NEW c \in Seq(A)
    PROVE  c \in Seq(B)
  OBVIOUS

\* Good code in front of good code is good.
LEMMA GoodConcat ==
    ASSUME NEW g, NEW shut \in BOOLEAN, NEW open \in BOOLEAN, NEW a, NEW b,
           GoodOps(g, a, shut, open), GoodOps(g, b, shut, open)
    PROVE  GoodOps(g, a \o b, shut, open)
<1>1. a \in Seq(AnyOp) /\ b \in Seq(AnyOp)
  BY DEF GoodOps
<1> DEFINE c == a \o b
<1>2. /\ c \in Seq(AnyOp) /\ Len(c) = Len(a) + Len(b)
      /\ \A i \in 1..(Len(a) + Len(b)) : c[i] = IF i <= Len(a) THEN a[i] ELSE b[i - Len(a)]
  BY <1>1, ConcatProperties
<1>3. Len(a) \in Nat /\ Len(b) \in Nat
  BY <1>1
<1>4. FlushFollows(c)
  <2> SUFFICES ASSUME NEW i \in 1..Len(c), c[i][1] = "setup"
               PROVE  \E j \in (i + 1)..Len(c) : c[j][1] = "flush"
    BY DEF FlushFollows
  <2>1. CASE i <= Len(a)
    <3>1. PICK j \in (i + 1)..Len(a) : a[j][1] = "flush"
      BY <2>1, <1>2, <1>3 DEF GoodOps, FlushFollows
    <3>2. j \in (i + 1)..Len(c) /\ c[j] = a[j]
      BY <3>1, <1>2, <1>3
    <3>. QED BY <3>1, <3>2
  <2>2. CASE i > Len(a)
    <3>0. i - Len(a) \in 1..Len(b) /\ c[i] = b[i - Len(a)]
      BY <2>2, <1>2, <1>3
    <3>1. PICK j \in (i - Len(a) + 1)..Len(b) : b[j][1] = "flush"
      BY <3>0 DEF GoodOps, FlushFollows
    <3>2. j + Len(a) \in (i + 1)..Len(c) /\ c[j + Len(a)] = b[j]
      BY <3>1, <3>0, <1>2, <1>3
    <3>. QED BY <3>1, <3>2
  <2>. QED BY <2>1, <2>2, <1>2, <1>3
<1>4a. ReportFollows(c)
  <2> SUFFICES ASSUME NEW i \in 1..Len(c), c[i][1] = "disconnect"
               PROVE  \E j \in (i + 1)..Len(c) : c[j][1] = "report"
    BY DEF ReportFollows
  <2>1. CASE i <= Len(a)
    <3>1. PICK j \in (i + 1)..Len(a) : a[j][1] = "report"
      BY <2>1, <1>2, <1>3 DEF GoodOps, ReportFollows
    <3>2. j \in (i + 1)..Len(c) /\ c[j] = a[j]
      BY <3>1, <1>2, <1>3
    <3>. QED BY <3>1, <3>2
  <2>2. CASE i > Len(a)
    <3>0. i - Len(a) \in 1..Len(b) /\ c[i] = b[i - Len(a)]
      BY <2>2, <1>2, <1>3
    <3>1. PICK j \in (i - Len(a) + 1)..Len(b) : b[j][1] = "report"
      BY <3>0 DEF GoodOps, ReportFollows
    <3>2. j + Len(a) \in (i + 1)..Len(c) /\ c[j + Len(a)] = b[j]
      BY <3>1, <3>0, <1>2, <1>3
    <3>. QED BY <3>1, <3>2
  <2>. QED BY <2>1, <2>2, <1>2, <1>3
<1>5. ASSUME ~shut PROVE Covered(c)
  <2> SUFFICES ASSUME NEW i \in 1..Len(c), c[i][1] = "report"
               PROVE  \E j \in 1..(i - 1) : c[j][1] = "disconnect"
    BY DEF Covered
  <2>0. Covered(a) /\ Covered(b)
    BY <1>5 DEF GoodOps
  <2>1. CASE i <= Len(a)
    <3>1. PICK j \in 1..(i - 1) : a[j][1] = "disconnect"
      BY <2>0, <2>1, <1>2, <1>3 DEF Covered
    <3>2. j \in 1..(i - 1) /\ c[j] = a[j]
      BY <2>1, <3>1, <1>2, <1>3
    <3>. QED BY <3>1, <3>2
  <2>2. CASE i > Len(a)
    <3>0. i - Len(a) \in 1..Len(b) /\ c[i] = b[i - Len(a)]
      BY <2>2, <1>2, <1>3
    <3>1. PICK j \in 1..(i - Len(a) - 1) : b[j][1] = "disconnect"
      BY <2>0, <3>0 DEF Covered
    <3>2. j + Len(a) \in 1..(i - 1) /\ c[j + Len(a)] = b[j]
      BY <3>1, <3>0, <1>2, <1>3
    <3>. QED BY <3>1, <3>2
  <2>. QED BY <2>1, <2>2, <1>2, <1>3
<1>6. g # "reader" => c \in Seq(QuietOp)
  BY ConcatProperties DEF GoodOps
<1>7. open => c \in Seq(UndecidedOp)
  BY ConcatProperties DEF GoodOps
<1> HIDE DEF c
<1>8. GoodOps(g, c, shut, open)
  BY <1>2, <1>4, <1>4a, <1>5, <1>6, <1>7 DEF GoodOps
<1>. QED BY <1>8 DEF c

\* The rest of good code is good, once a step that closes the data connection has done so.
LEMMA GoodTail ==
    ASSUME NEW g, NEW shut \in BOOLEAN, NEW open \in BOOLEAN, NEW later \in BOOLEAN,
           NEW still \in BOOLEAN, shut => later, still => open,
           NEW c, c # <<>>, GoodOps(g, c, shut, open), later \/ c[1][1] # "disconnect"
    PROVE  GoodOps(g, Tail(c), later, still)
<1>1. c \in Seq(AnyOp)
  BY DEF GoodOps
<1> DEFINE d == Tail(c)
<1>2. /\ d \in Seq(AnyOp) /\ Len(d) = Len(c) - 1 /\ Len(c) \in Nat /\ Len(c) > 0
      /\ \A i \in 1..Len(d) : d[i] = c[i + 1]
  BY <1>1, HeadTailProperties
<1>3. FlushFollows(d)
  <2> SUFFICES ASSUME NEW i \in 1..Len(d), d[i][1] = "setup"
               PROVE  \E j \in (i + 1)..Len(d) : d[j][1] = "flush"
    BY DEF FlushFollows
  <2>1. i + 1 \in 1..Len(c) /\ c[i + 1][1] = "setup"
    BY <1>2
  <2>2. PICK j \in (i + 2)..Len(c) : c[j][1] = "flush"
    BY <2>1 DEF GoodOps, FlushFollows
  <2>3. j - 1 \in (i + 1)..Len(d) /\ d[j - 1] = c[j]
    BY <2>2, <1>2
  <2>. QED BY <2>2, <2>3
<1>3a. ReportFollows(d)
  <2> SUFFICES ASSUME NEW i \in 1..Len(d), d[i][1] = "disconnect"
               PROVE  \E j \in (i + 1)..Len(d) : d[j][1] = "report"
    BY DEF ReportFollows
  <2>1. i + 1 \in 1..Len(c) /\ c[i + 1][1] = "disconnect"
    BY <1>2
  <2>2. PICK j \in (i + 2)..Len(c) : c[j][1] = "report"
    BY <2>1 DEF GoodOps, ReportFollows
  <2>3. j - 1 \in (i + 1)..Len(d) /\ d[j - 1] = c[j]
    BY <2>2, <1>2
  <2>. QED BY <2>2, <2>3
<1>4. ASSUME ~later PROVE Covered(d)
  <2> SUFFICES ASSUME NEW i \in 1..Len(d), d[i][1] = "report"
               PROVE  \E j \in 1..(i - 1) : d[j][1] = "disconnect"
    BY DEF Covered
  <2>1. i + 1 \in 1..Len(c) /\ c[i + 1][1] = "report"
    BY <1>2
  <2>2. PICK j \in 1..i : c[j][1] = "disconnect"
    BY <2>1, <1>4 DEF GoodOps, Covered
  <2>3. j # 1
    BY <2>2, <1>4
  <2>4. j - 1 \in 1..(i - 1) /\ d[j - 1] = c[j]
    BY <2>2, <2>3, <1>2
  <2>. QED BY <2>2, <2>4
<1>5. g # "reader" => d \in Seq(QuietOp)
  BY HeadTailProperties DEF GoodOps
<1>6. still => d \in Seq(UndecidedOp)
  BY HeadTailProperties DEF GoodOps
<1> HIDE DEF d
<1>7. GoodOps(g, d, later, still)
  BY <1>2, <1>3, <1>3a, <1>4, <1>5, <1>6 DEF GoodOps
<1>. QED BY <1>7 DEF d

\* A sequence without a step that installs the reader, closes or reports is good.
LEMMA GoodPlain ==
    ASSUME NEW g, NEW shut \in BOOLEAN, NEW open \in BOOLEAN,
           NEW c \in Seq(AnyOp), \A i \in 1..Len(c) : c[i][1] \notin {"setup", "disconnect", "report"},
           g # "reader" => c \in Seq(QuietOp),
           open => c \in Seq(UndecidedOp)
    PROVE  GoodOps(g, c, shut, open)
  BY DEF GoodOps, FlushFollows, ReportFollows, Covered

\* How the sets of steps lie in each other.
LEMMA OpsMono ==
    /\ QuietOp \subseteq AnyOp /\ UndecidedOp \subseteq AnyOp
    /\ HandlerOp(States) \subseteq QuietOp
    /\ HandlerOp(UndecidedStates) \subseteq UndecidedOp
    /\ UndecidedStates \subseteq States
    /\ None \in Messages
<1>1. UndecidedStates \subseteq States
  BY DEF UndecidedStates, States, InitStates, HelloStates, PassiveStates
<1>2. None \in Messages
  BY DEF Messages
<1>3. QuietOp \subseteq AnyOp
  BY <1>2 DEF QuietOp, AnyOp, Op
<1>4. UndecidedOp \subseteq AnyOp
  BY <1>1 DEF UndecidedOp, AnyOp, Op
<1>5. HandlerOp(States) \subseteq QuietOp
  BY DEF HandlerOp, QuietOp, Op, Kinds
<1>6. HandlerOp(UndecidedStates) \subseteq UndecidedOp
  BY <1>2 DEF HandlerOp, UndecidedOp, Op, Kinds
<1>. QED BY <1>1, <1>2, <1>3, <1>4, <1>5, <1>6

\* What a handler of the handshake has to do is good.
LEMMA GoodHandler ==
    ASSUME NEW g, NEW shut \in BOOLEAN, NEW open \in BOOLEAN,
           NEW c \in HandlerOps(States), open => c \in HandlerOps(UndecidedStates)
    PROVE  GoodOps(g, c, shut, open)
<1>1. c \in Seq(QuietOp) /\ c \in Seq(AnyOp) /\ (open => c \in Seq(UndecidedOp))
  BY OpsMono, SubsetSeq DEF HandlerOps
<1>2. \A op \in HandlerOp(States) : op[1] \notin {"setup", "disconnect", "report"}
  BY DEF HandlerOp
<1>3. \A i \in 1..Len(c) : c[i] \in HandlerOp(States)
  BY DEF HandlerOps
<1>. QED BY <1>1, <1>2, <1>3, GoodPlain
-----------------------------------------------------------------------------
(* How a step changes the code. *)

\* TypeOK in two parts.
LEMMA TypeParts == TypeOK <=> ControlTypes /\ DataTypes /\ DOMAIN code = Goroutines
  BY DEF TypeOK, ControlTypes, DataTypes, Timers

\* The same of the next state.
LEMMA TypePartsNext == TypeOK' <=> ControlTypes' /\ DataTypes' /\ DOMAIN code' = Goroutines
  BY DEF TypeOK, ControlTypes, DataTypes, Timers

\* What is known of the node and of the messages it gets.
LEMMA EnvironmentFacts ==
    ASSUME DataTypes
    PROVE  /\ role \in {"client", "server"}
           /\ env.spine \in Nat
           /\ env.messages \subseteq Messages
           /\ Undecided \in BOOLEAN
  BY EnvironmentAssumption DEF DataTypes, Environment, Messages, Undecided

\* Good code stays good when the data connection is closed or the user decides.
LEMMA GoodLater ==
    ASSUME NEW g, NEW c, NEW shut \in BOOLEAN, NEW open \in BOOLEAN, NEW later \in BOOLEAN,
           NEW still \in BOOLEAN, shut => later, still => open, GoodOps(g, c, shut, open)
    PROVE  GoodOps(g, c, later, still)
  BY DEF GoodOps

\* What follows from Onward.
LEMMA OnwardFacts ==
    ASSUME IInv, Onward
    PROVE  /\ closed \in BOOLEAN /\ Undecided \in BOOLEAN
           /\ closed' \in BOOLEAN /\ Undecided' \in BOOLEAN
           /\ closed => closed'
           /\ Undecided' => Undecided
           /\ UndecidedInv' /\ ReportedIsClosed'
           /\ ControlTypes' /\ DataTypes'
  BY TypeParts DEF IInv, Onward, ControlTypes, Undecided, UndecidedInv, ReportedIsClosed

\* A step that leaves the code alone.
LEMMA CodeStays ==
    ASSUME IInv, Onward, UNCHANGED code
    PROVE  CodeInv'
<1>1. \A g \in Goroutines : GoodOps(g, code[g], closed', Undecided')
  BY GoodLater, OnwardFacts DEF IInv, CodeInv
<1>2. \A g \in Goroutines : GoodOps(g, code'[g], closed', Undecided')
  BY <1>1
<1>. QED BY <1>2 DEF IInv, CodeInv

\* A step of a goroutine that puts good code in front of the rest.
LEMMA CodeGoesOn ==
    ASSUME IInv, Onward, NEW g \in Goroutines, Busy(g), NEW ops, Then(g, ops),
           At(g, "disconnect") => closed', GoodOps(g, ops, closed', Undecided')
    PROVE  /\ CodeInv'
           /\ HasFlush(Tail(code[g])) => HasFlush(code'[g])
           /\ \A h \in Goroutines \ {g} : code'[h] = code[h]
<1>0. code \in [Goroutines -> Seq(AnyOp)] /\ code[g] # <<>> /\ ops \in Seq(AnyOp)
  BY DEF IInv, CodeInv, Busy, GoodOps
<1>1. GoodOps(g, Tail(code[g]), closed', Undecided')
  <2>1. closed' \/ code[g][1][1] # "disconnect"
    BY DEF At, Busy
  <2>2. GoodOps(g, code[g], closed, Undecided)
    BY DEF IInv, CodeInv
  <2>. QED BY <2>1, <2>2, <1>0, GoodTail, OnwardFacts
<1>2. GoodOps(g, ops \o Tail(code[g]), closed', Undecided')
  BY <1>1, GoodConcat, OnwardFacts
<1>3. /\ DOMAIN code' = Goroutines /\ code'[g] = ops \o Tail(code[g])
      /\ \A h \in Goroutines \ {g} : code'[h] = code[h]
  BY <1>0 DEF Then
<1>4. \A h \in Goroutines : GoodOps(h, code[h], closed', Undecided')
  BY GoodLater, OnwardFacts DEF IInv, CodeInv
<1>5. \A h \in Goroutines : GoodOps(h, code'[h], closed', Undecided')
  BY <1>2, <1>3, <1>4
<1>6. code' \in [Goroutines -> Seq(AnyOp)]
  <2>1. \A h \in Goroutines : code'[h] \in Seq(AnyOp)
    BY <1>5 DEF GoodOps
  <2>2. code' = [h \in Goroutines |-> code'[h]]
    BY <1>0 DEF Then
  <2>. QED BY <2>1, <2>2
<1>7. HasFlush(Tail(code[g])) => HasFlush(ops \o Tail(code[g]))
  <2>1. Tail(code[g]) \in Seq(AnyOp)
    BY <1>1 DEF GoodOps
  <2> DEFINE t == Tail(code[g])
  <2>2. t \in Seq(AnyOp) /\ Len(t) \in Nat /\ Len(ops) \in Nat
    BY <2>1, <1>0
  <2> HIDE DEF t
  <2>3. /\ Len(ops \o t) = Len(ops) + Len(t)
        /\ \A i \in 1..(Len(ops) + Len(t)) :
              (ops \o t)[i] = IF i <= Len(ops) THEN ops[i] ELSE t[i - Len(ops)]
    BY <2>2, <1>0, ConcatProperties
  <2>4. ASSUME HasFlush(t) PROVE HasFlush(ops \o t)
    <3>1. PICK i \in 1..Len(t) : t[i][1] = "flush"
      BY <2>4 DEF HasFlush
    <3>2. i + Len(ops) \in 1..(Len(ops) + Len(t)) /\ (ops \o t)[i + Len(ops)] = t[i]
      BY <3>1, <2>2, <2>3
    <3>. QED BY <3>1, <3>2, <2>3 DEF HasFlush
  <2>. QED BY <2>4 DEF t
<1>. QED BY <1>3, <1>5, <1>6, <1>7 DEF CodeInv

\* A goroutine that starts with good code.
LEMMA CodeBegins ==
    ASSUME IInv, Onward, NEW g \in Goroutines, NEW ops, Begin(g, ops),
           GoodOps(g, ops, closed', Undecided')
    PROVE  /\ CodeInv' /\ code[g] = <<>>
           /\ \A h \in Goroutines \ {g} : code'[h] = code[h]
<1>0. code \in [Goroutines -> Seq(AnyOp)] /\ code[g] = <<>> /\ ops \in Seq(AnyOp)
  BY DEF IInv, CodeInv, Begin, Busy, GoodOps
<1>3. /\ code'[g] = ops
      /\ \A h \in Goroutines \ {g} : code'[h] = code[h]
      /\ code' \in [Goroutines -> Seq(AnyOp)]
  BY <1>0 DEF Begin
<1>4. \A h \in Goroutines : GoodOps(h, code[h], closed', Undecided')
  BY GoodLater, OnwardFacts DEF IInv, CodeInv
<1>5. \A h \in Goroutines : GoodOps(h, code'[h], closed', Undecided')
  BY <1>3, <1>4
<1>. QED BY <1>0, <1>3, <1>5 DEF CodeInv

\* Where a flush is due, it stays due until it is done.
LEMMA FlushStaysDue ==
    ASSUME IInv, NEW g \in Goroutines, Busy(g), HasFlush(code[g]), ~At(g, "flush")
    PROVE  HasFlush(Tail(code[g]))
<1> DEFINE c == code[g]
<1>1. c \in Seq(AnyOp) /\ c # <<>> /\ c[1][1] # "flush"
  BY DEF IInv, CodeInv, Busy, At
<1>2. Len(Tail(c)) = Len(c) - 1 /\ Len(c) \in Nat /\ \A i \in 1..Len(Tail(c)) : Tail(c)[i] = c[i + 1]
  BY <1>1, HeadTailProperties
<1>3. PICK i \in 1..Len(c) : c[i][1] = "flush"
  BY DEF HasFlush
<1>4. i # 1 /\ i - 1 \in 1..Len(Tail(c)) /\ Tail(c)[i - 1] = c[i]
  BY <1>1, <1>2, <1>3
<1>. QED BY <1>3, <1>4 DEF HasFlush

\* A goroutine at rest has no flush to do.
LEMMA NoFlushInNothing == ~HasFlush(<<>>)
  BY DEF HasFlush

\* A step of a goroutine that leaves the SPINE data alone.
LEMMA StepKeeps ==
    ASSUME IInv, Onward, NEW g \in Goroutines, Busy(g), NEW ops, Then(g, ops),
           At(g, "disconnect") => closed', GoodOps(g, ops, closed', Undecided'),
           ~At(g, "flush"), UNCHANGED <<reader, received, buffer, delivered>>
    PROVE  IInv'
<1>1. /\ CodeInv'
      /\ HasFlush(Tail(code[g])) => HasFlush(code'[g])
      /\ \A h \in Goroutines \ {g} : code'[h] = code[h]
  BY CodeGoesOn
<1>2. BufferInv'
  <2> SUFFICES ASSUME reader, buffer # <<>>
               PROVE  HasFlush(code'["reader"])
    BY DEF BufferInv
  <2>1. HasFlush(code["reader"])
    BY DEF IInv, BufferInv
  <2>2. CASE g = "reader"
    BY <1>1, <2>1, <2>2, FlushStaysDue
  <2>3. CASE g # "reader"
    BY <1>1, <2>1, <2>3 DEF Goroutines
  <2>. QED BY <2>2, <2>3
<1>3. SpineInOrder'
  BY DEF IInv, SpineInOrder
<1>4. DOMAIN code' = Goroutines
  BY <1>1 DEF CodeInv
<1>. QED BY <1>1, <1>2, <1>3, <1>4, OnwardFacts, TypePartsNext DEF IInv

\* A goroutine that starts.
LEMMA StartKeeps ==
    ASSUME IInv, Onward, NEW g \in Goroutines, NEW ops, Begin(g, ops),
           GoodOps(g, ops, closed', Undecided'),
           UNCHANGED <<reader, received, buffer, delivered>>
    PROVE  IInv'
<1>1. /\ CodeInv' /\ code[g] = <<>>
      /\ \A h \in Goroutines \ {g} : code'[h] = code[h]
  BY CodeBegins
<1>2. BufferInv'
  <2> SUFFICES ASSUME reader, buffer # <<>>
               PROVE  HasFlush(code'["reader"])
    BY DEF BufferInv
  <2>1. HasFlush(code["reader"])
    BY DEF IInv, BufferInv
  <2>. QED BY <1>1, <2>1, NoFlushInNothing DEF Goroutines
<1>3. SpineInOrder'
  BY DEF IInv, SpineInOrder
<1>4. DOMAIN code' = Goroutines
  BY <1>1 DEF CodeInv
<1>. QED BY <1>1, <1>2, <1>3, <1>4, OnwardFacts, TypePartsNext DEF IInv

\* A step that starts and moves no goroutine.
LEMMA StillKeeps ==
    ASSUME IInv, Onward, UNCHANGED <<code, reader, received, buffer, delivered>>
    PROVE  IInv'
<1>1. CodeInv'
  BY CodeStays
<1>2. BufferInv' /\ SpineInOrder'
  BY DEF IInv, BufferInv, SpineInOrder
<1>3. DOMAIN code' = Goroutines
  BY <1>1 DEF CodeInv
<1>. QED BY <1>1, <1>2, <1>3, OnwardFacts, TypePartsNext DEF IInv

-----------------------------------------------------------------------------
(* What the steps put in front of the rest of the code. *)

\* Nothing to do is good.
LEMMA GoodNothing ==
    ASSUME NEW g, NEW shut \in BOOLEAN, NEW open \in BOOLEAN
    PROVE  GoodOps(g, <<>>, shut, open)
<1> DEFINE c == <<>>
<1>1. c \in Seq(AnyOp) /\ c \in Seq(QuietOp) /\ c \in Seq(UndecidedOp) /\ Len(c) = 0
  OBVIOUS
<1> HIDE DEF c
<1>2. \A i \in 1..Len(c) : c[i][1] \notin {"setup", "disconnect", "report"}
  BY <1>1
<1>3. GoodOps(g, c, shut, open)
  BY <1>1, <1>2, GoodPlain
<1>. QED BY <1>3 DEF c

\* A single step.
LEMMA GoodStep ==
    ASSUME NEW g, NEW shut \in BOOLEAN, NEW open \in BOOLEAN,
           NEW op \in AnyOp, op[1] \notin {"setup", "disconnect", "report"},
           g # "reader" => op \in QuietOp, open => op \in UndecidedOp
    PROVE  GoodOps(g, <<op>>, shut, open)
<1> DEFINE c == <<op>>
<1>1. /\ c \in Seq(AnyOp) /\ (op \in QuietOp => c \in Seq(QuietOp))
      /\ (op \in UndecidedOp => c \in Seq(UndecidedOp))
      /\ Len(c) = 1 /\ c[1] = op
  OBVIOUS
<1> HIDE DEF c
<1>2. \A i \in 1..Len(c) : c[i][1] \notin {"setup", "disconnect", "report"}
  BY <1>1
<1>3. GoodOps(g, c, shut, open)
  BY <1>1, <1>2, GoodPlain
<1>. QED BY <1>3 DEF c

\* A single step without parameters.
LEMMA GoodKind ==
    ASSUME NEW g, NEW shut \in BOOLEAN, NEW open \in BOOLEAN,
           NEW k \in {"trusted", "allow", "validate", "error", "approve",
                      "cancel", "distrust"},
           open => k \notin {"trusted", "validate", "approve"}
    PROVE  GoodOps(g, <<<<k>>>>, shut, open)
<1>1. <<k>> \in QuietOp
  BY DEF QuietOp, Op, Kinds
<1>2. open => <<k>> \in UndecidedOp
  BY DEF UndecidedOp, Op, Kinds
<1>3. <<k>>[1] \notin {"setup", "disconnect", "report"}
  OBVIOUS
<1>. QED BY <1>1, <1>2, <1>3, OpsMono, GoodStep

\* Handling a state: only the read pump has a message.
LEMMA GoodHandle ==
    ASSUME NEW g, NEW shut \in BOOLEAN, NEW open \in BOOLEAN, NEW t \in BOOLEAN,
           NEW m \in Messages, g = "reader" \/ m = None
    PROVE  GoodOps(g, Handle(t, m), shut, open)
<1> DEFINE op == <<"handle", t, m>>
<1>1. op \in AnyOp /\ op \in UndecidedOp /\ op[1] \notin {"setup", "disconnect", "report"}
  BY DEF AnyOp, UndecidedOp, Op
<1>2. m = None => op \in QuietOp
  BY DEF QuietOp, Op
<1> HIDE DEF op
<1>3. GoodOps(g, <<op>>, shut, open)
  BY <1>1, <1>2, GoodStep
<1>. QED BY <1>3 DEF Handle, op

\* Starting the goroutine that ends the connection.
LEMMA GoodSpawn ==
    ASSUME NEW g, NEW shut \in BOOLEAN, NEW open \in BOOLEAN
    PROVE  GoodOps(g, <<<<"spawn", "closer">>>>, shut, open)
<1> DEFINE op == <<"spawn", "closer">>
<1>1. op \in QuietOp /\ op \in UndecidedOp /\ op[1] = "spawn"
  BY DEF QuietOp, UndecidedOp, Op
<1> HIDE DEF op
<1>2. GoodOps(g, <<op>>, shut, open)
  BY <1>1, OpsMono, GoodStep
<1>. QED BY <1>2 DEF op

\* The end of a connection: closed, and then reported.
LEMMA GoodEnd ==
    ASSUME NEW g, NEW shut \in BOOLEAN, NEW open \in BOOLEAN, NEW b \in BOOLEAN
    PROVE  GoodOps(g, <<<<"disconnect">>, <<"report", b>>>>, shut, open)
<1> DEFINE d == <<"disconnect">>
           r == <<"report", b>>
           c == <<d, r>>
<1>1. /\ {d, r} \subseteq QuietOp /\ {d, r} \subseteq UndecidedOp
      /\ d[1] = "disconnect" /\ r[1] = "report"
  BY DEF QuietOp, UndecidedOp, Op, Kinds
<1>2. {d, r} \subseteq AnyOp
  BY <1>1, OpsMono
<1> HIDE DEF d, r
<1>3. c \in Seq(AnyOp) /\ c \in Seq(QuietOp) /\ c \in Seq(UndecidedOp)
  BY <1>1, <1>2
<1>4. Len(c) = 2 /\ c[1] = d /\ c[2] = r
  OBVIOUS
<1> HIDE DEF c
<1>5. FlushFollows(c) /\ ReportFollows(c)
  BY <1>1, <1>4 DEF FlushFollows, ReportFollows
<1>6. Covered(c)
  BY <1>1, <1>4 DEF Covered
<1>7. GoodOps(g, c, shut, open)
  BY <1>3, <1>5, <1>6 DEF GoodOps
<1>. QED BY <1>7 DEF c, d, r

\* The handlers' ways out.
LEMMA AbortIsGood ==
    ASSUME NEW g, NEW shut \in BOOLEAN, NEW open \in BOOLEAN
    PROVE  /\ GoodOps(g, EndWithError, shut, open)
           /\ GoodOps(g, AbortHello, shut, open)
           /\ GoodOps(g, Send(<<>>, <<>>), shut, open)
           /\ \A b \in BOOLEAN : GoodOps(g, Close(b), shut, open)
<1>1. ASSUME NEW S, UndecidedStates \subseteq S
      PROVE  /\ EndWithError \in HandlerOps(S) /\ AbortHello \in HandlerOps(S)
             /\ Send(<<>>, <<>>) \in HandlerOps(S)
             /\ \A b \in BOOLEAN : Close(b) \in HandlerOps(S)
  BY <1>1, AbortOps, HandlerSteps
<1>2. /\ EndWithError \in HandlerOps(States) /\ AbortHello \in HandlerOps(States)
      /\ Send(<<>>, <<>>) \in HandlerOps(States)
      /\ \A b \in BOOLEAN : Close(b) \in HandlerOps(States)
  BY <1>1, OpsMono
<1>3. /\ EndWithError \in HandlerOps(UndecidedStates)
      /\ AbortHello \in HandlerOps(UndecidedStates)
      /\ Send(<<>>, <<>>) \in HandlerOps(UndecidedStates)
      /\ \A b \in BOOLEAN : Close(b) \in HandlerOps(UndecidedStates)
  BY <1>1
<1>. QED BY <1>2, <1>3, GoodHandler

\* What ReportConnectionError has to do.
LEMMA GoodErrorReport ==
    ASSUME NEW g, NEW shut \in BOOLEAN, NEW open \in BOOLEAN, NEW s
    PROVE  GoodOps(g, ConnectionError(s), shut, open)
<1>1. ASSUME NEW S, UndecidedStates \subseteq S
      PROVE  ConnectionError(s) \in HandlerOps(S)
  <2>1. "HelloRejected" \in S /\ "Error" \in S
    BY <1>1 DEF UndecidedStates
  <2>2. SetState("HelloRejected") \in HandlerOps(S) /\ SetState("Error") \in HandlerOps(S) /\ Close(FALSE) \in HandlerOps(S)
    BY <2>1, HandlerSteps
  <2>3. SetState("HelloRejected") \o Close(FALSE) \in HandlerOps(S) /\ SetState("Error") \o Close(FALSE) \in HandlerOps(S)
    BY <2>2, HandlerSteps
  <2>. QED BY <2>2, <2>3 DEF ConnectionError
<1>. QED BY <1>1, OpsMono, GoodHandler

\* Code of the read pump that ends with the flush, whatever it sets up before.
LEMMA GoodFlush ==
    ASSUME NEW shut \in BOOLEAN, NEW ops \in Seq({op \in AnyOp : op[1] \notin {"disconnect", "report"}})
    PROVE  GoodOps("reader", ops \o <<<<"flush">>>>, shut, FALSE)
<1> DEFINE S == {op \in AnyOp : op[1] \notin {"disconnect", "report"}}
           d == <<"flush">>
           c == ops \o <<d>>
<1>1. d \in S /\ d[1] = "flush"
  BY DEF AnyOp, Op, Kinds
<1> HIDE DEF d
<1>2. <<d>> \in Seq(S) /\ Len(<<d>>) = 1 /\ <<d>>[1] = d
  BY <1>1
<1>3. /\ c \in Seq(S) /\ Len(c) = Len(ops) + 1 /\ Len(ops) \in Nat
      /\ c[Len(ops) + 1] = d
  BY <1>2, ConcatProperties
<1>4. S \subseteq AnyOp
  OBVIOUS
<1>5. \A op \in S : op[1] \notin {"disconnect", "report"}
  OBVIOUS
<1> HIDE DEF c, S
<1>6. c \in Seq(AnyOp) /\ \A i \in 1..Len(c) : c[i][1] \notin {"disconnect", "report"}
  BY <1>3, <1>4, <1>5
<1>7. FlushFollows(c)
  <2> SUFFICES ASSUME NEW i \in 1..Len(c), c[i][1] = "setup"
               PROVE  \E j \in (i + 1)..Len(c) : c[j][1] = "flush"
    BY DEF FlushFollows
  <2>1. i # Len(ops) + 1
    BY <1>1, <1>3
  <2>2. Len(c) \in (i + 1)..Len(c) /\ c[Len(c)][1] = "flush"
    BY <2>1, <1>1, <1>3
  <2>. QED BY <2>2
<1>8. Covered(c) /\ ReportFollows(c)
  BY <1>6 DEF Covered, ReportFollows
<1>9. GoodOps("reader", c, shut, FALSE)
  BY <1>6, <1>7, <1>8 DEF GoodOps
<1>. QED BY <1>9 DEF c, d

\* Where the reader of the SPINE data is installed, the flush of the buffer follows.
LEMMA GoodAccess ==
    ASSUME NEW g, NEW shut \in BOOLEAN, NEW m, g = "reader" \/ m = None
    PROVE  GoodOps(g, AccessHandler(m), shut, FALSE)
<1>1. GoodOps(g, EndWithError, shut, FALSE)
  BY AbortIsGood
<1>2. GoodOps(g, Send(<<>>, EndWithError), shut, FALSE)
  <2>1. EndWithError \in HandlerOps(States)
    BY AbortOps, OpsMono
  <2>2. Send(<<>>, EndWithError) \in HandlerOps(States)
    BY <2>1, HandlerSteps
  <2>. QED BY <2>2, GoodHandler
<1>3. ASSUME g = "reader"
      PROVE  GoodOps(g, SetState("Approved") \o <<<<"setup">>>> \o SetWithTimer("Complete", "stop")
                         \o <<<<"flush">>>>, shut, FALSE)
  <2> DEFINE S == {op \in AnyOp : op[1] \notin {"disconnect", "report"}}
             a == SetState("Approved")
             b == <<<<"setup">>>>
             c == SetWithTimer("Complete", "stop")
  <2>1. <<"set", "Approved", TimerOf("Approved")>> \in S /\ <<"setup">> \in S
        /\ <<"set", "Complete", "stop">> \in S
    BY DEF AnyOp, Op, Kinds, TimerOps, TimerOf, States, PassiveStates
  <2>2. ASSUME NEW op \in S PROVE <<op>> \in Seq(S)
    OBVIOUS
  <2> HIDE DEF S
  <2>3. a \in Seq(S) /\ b \in Seq(S) /\ c \in Seq(S)
    BY <2>1, <2>2 DEF SetState, SetWithTimer
  <2> HIDE DEF a, b, c
  <2>4. a \o b \in Seq(S)
    BY <2>3, ConcatProperties
  <2>5. (a \o b) \o c \in Seq(S)
    BY <2>3, <2>4, ConcatProperties
  <2>6. GoodOps("reader", a \o b \o c \o <<<<"flush">>>>, shut, FALSE)
    BY <2>5, GoodFlush DEF S
  <2>. QED BY <1>3, <2>6 DEF a, b, c
<1>. QED BY <1>1, <1>2, <1>3 DEF AccessHandler, None

\* The first handler of the hello phase sets the next state, and handles it with what it
\* has been called with: a time-out or a message.
LEMMA GoodHello ==
    ASSUME NEW g, NEW shut \in BOOLEAN, NEW t \in BOOLEAN, NEW m \in Messages,
           g = "reader" \/ m = None, Undecided \in BOOLEAN
    PROVE  GoodOps(g, HelloHandler("Hello", t, m), shut, Undecided)
<1> DEFINE s == IF trust = "paired" \/ env.autoAccept \/ role = "client"
                THEN "HelloReadyInit" ELSE "HelloPendingInit"
<1>1. s \in States /\ (Undecided => s \in UndecidedStates)
  BY DEF Undecided, UndecidedStates, States, HelloStates
<1>2. HelloHandler("Hello", t, m) = SetState(s) \o Handle(t, m)
  BY DEF HelloHandler
<1> HIDE DEF s
<1>3. SetState(s) \in HandlerOps(States)
  BY <1>1, HandlerSteps
<1>4. Undecided => SetState(s) \in HandlerOps(UndecidedStates)
  BY <1>1, HandlerSteps
<1>5. GoodOps(g, SetState(s), shut, Undecided)
  BY <1>3, <1>4, GoodHandler
<1>6. GoodOps(g, Handle(t, m), shut, Undecided)
  BY GoodHandle
<1>. QED BY <1>2, <1>5, <1>6, GoodConcat

\* What the handler of the current state has to do: nothing that goes beyond the hello
\* phase while the user has not decided.
LEMMA GoodHandlerOfState ==
    ASSUME IInv, NEW g, NEW shut \in BOOLEAN, NEW t \in BOOLEAN, NEW m \in Messages,
           g = "reader" \/ m = None
    PROVE  GoodOps(g, Handler(state, t, m), shut, Undecided)
<1>0. /\ role \in {"client", "server"} /\ trust \in {"paired", "undecided", "denied"}
      /\ Undecided \in BOOLEAN /\ state \in States
      /\ Undecided => state \in UndecidedStates
  BY EnvironmentFacts, TypeParts DEF IInv, ControlTypes, UndecidedInv
<1>1. CASE state \in InitStates
  <2>1. \A S : UndecidedStates \subseteq S => InitHandler(state, t, m) \in HandlerOps(S)
    BY <1>0, <1>1, InitHandlerOps
  <2>2. Handler(state, t, m) = InitHandler(state, t, m)
    BY <1>1 DEF Handler, InitStates, HelloStates, ProtStates, PinStates
  <2>. QED BY <2>1, <2>2, OpsMono, GoodHandler, <1>0
<1>2a. CASE state = "Hello"
  <2>1. Handler(state, t, m) = HelloHandler("Hello", t, m)
    BY <1>2a DEF Handler, InitStates, HelloStates, ProtStates, PinStates
  <2>. QED BY <2>1, GoodHello, <1>0
<1>2. CASE state \in HelloStates \ {"Hello"}
  <2>1. \A S \in Targets(state) : HelloHandler(state, t, m) \in HandlerOps(S)
    BY <1>0, <1>2, HelloHandlerOps
  <2>2. States \in Targets(state) /\ (Undecided => UndecidedStates \in Targets(state))
    BY <1>0 DEF Targets
  <2>3. Handler(state, t, m) = HelloHandler(state, t, m)
    BY <1>2 DEF Handler, InitStates, HelloStates, ProtStates, PinStates
  <2>. QED BY <2>1, <2>2, <2>3, GoodHandler, <1>0
<1>3. CASE state \in ProtStates
  <2>1. ~Undecided
    BY <1>0, <1>3 DEF UndecidedStates, ProtStates, InitStates
  <2>2. Handler(state, t, m) = ProtHandler(state, t, m)
    BY <1>3 DEF Handler, InitStates, HelloStates, ProtStates, PinStates
  <2>. QED BY <2>1, <2>2, <1>3, ProtHandlerOps, GoodHandler, <1>0
<1>4. CASE state \in PinStates
  <2>1. ~Undecided
    BY <1>0, <1>4 DEF UndecidedStates, PinStates, InitStates
  <2>2. Handler(state, t, m) = PinHandler(state, m)
    BY <1>4 DEF Handler, InitStates, HelloStates, ProtStates, PinStates
  <2>. QED BY <2>1, <2>2, <1>4, PinHandlerOps, GoodHandler, <1>0
<1>5. CASE state = "AccessMethodsRequest"
  <2>1. Undecided = FALSE
    BY <1>0, <1>5 DEF UndecidedStates, InitStates
  <2>2. Handler(state, t, m) = AccessHandler(m)
    BY <1>5 DEF Handler, InitStates, HelloStates, ProtStates, PinStates
  <2>. QED BY <2>1, <2>2, GoodAccess
<1>6. CASE state \in PassiveStates
  <2>2. Handler(state, t, m) = <<>>
    BY <1>6 DEF Handler, PassiveStates, InitStates, HelloStates, ProtStates, PinStates
  <2>. QED BY <2>2, GoodNothing, <1>0
<1>. QED BY <1>0, <1>1, <1>2a, <1>2, <1>3, <1>4, <1>5, <1>6 DEF States

\* What HandleIncomingWebsocketMessage has to do.
LEMMA GoodMessage ==
    ASSUME NEW shut \in BOOLEAN, NEW open \in BOOLEAN, NEW m \in Messages
    PROVE  GoodOps("reader", Message(m), shut, open)
<1> DEFINE end == <<<<"disconnect">>, <<"report", FALSE>>>>
<1>1. GoodOps("reader", end, shut, open)
  BY GoodEnd
<1>2. GoodOps("reader", Send(<<>>, <<>>), shut, open)
  BY AbortIsGood
<1>3. GoodOps("reader", Handle(FALSE, m), shut, open)
  BY GoodHandle
<1>4. GoodOps("reader", Send(<<>>, <<>>) \o end, shut, open)
  BY <1>1, <1>2, GoodConcat
<1>. QED BY <1>1, <1>3, <1>4 DEF Message

-----------------------------------------------------------------------------
(* The steps of the goroutines. *)

\* What the next step of a goroutine may be.
LEMMA NextStep ==
    ASSUME IInv, NEW g \in Goroutines, Busy(g)
    PROVE  /\ At(g, "set") => /\ Arg(g, 2) \in States /\ Arg(g, 3) \in TimerOps
                              /\ Undecided => Arg(g, 2) \in UndecidedStates
           /\ At(g, "timer") => Arg(g, 2) \in TimerOps
           /\ At(g, "handle") => /\ Arg(g, 2) \in BOOLEAN /\ Arg(g, 3) \in Messages
                                 /\ g = "reader" \/ Arg(g, 3) = None
           /\ At(g, "close") \/ At(g, "report") => Arg(g, 2) \in BOOLEAN
           /\ At(g, "spawn") => Arg(g, 2) \in {"abort", "closer"}
           /\ At(g, "setup") \/ At(g, "flush") => g = "reader"
           /\ At(g, "report") => closed
           /\ Undecided => ~At(g, "trusted") /\ ~At(g, "validate") /\ ~At(g, "approve")
<1> DEFINE c == code[g]
           op == c[1]
<1>1. /\ c \in Seq(AnyOp) /\ c # <<>>
      /\ g # "reader" => c \in Seq(QuietOp)
      /\ Undecided => c \in Seq(UndecidedOp)
      /\ closed \/ Covered(c)
  BY DEF IInv, CodeInv, GoodOps, Busy
<1>2. Len(c) \in Nat /\ 1 \in 1..Len(c)
  BY <1>1
<1>3. op \in AnyOp /\ (g # "reader" => op \in QuietOp) /\ (Undecided => op \in UndecidedOp)
  BY <1>1, <1>2
<1>4. \A k : At(g, k) <=> op[1] = k
  BY <1>1 DEF At
<1>5. Arg(g, 2) = op[2] /\ Arg(g, 3) = op[3]
  BY DEF Arg
<1>6. op[1] = "report" => closed
  BY <1>1, <1>2 DEF Covered
<1> HIDE DEF op, c
<1>7. /\ op[1] = "set" => op[2] \in States /\ op[3] \in TimerOps
      /\ op[1] = "timer" => op[2] \in TimerOps
      /\ op[1] = "handle" => op[2] \in BOOLEAN /\ op[3] \in Messages
      /\ op[1] \in {"close", "report"} => op[2] \in BOOLEAN
      /\ op[1] = "spawn" => op[2] \in {"abort", "closer"}
  BY <1>3, OpParts DEF AnyOp
<1>8. g # "reader" => /\ op[1] = "handle" => op[3] \in {None}
                      /\ op[1] \in Kinds => op[1] \in Kinds \ {"setup", "flush"}
  BY <1>3, OpParts DEF QuietOp
<1>9. Undecided => /\ op[1] = "set" => op[2] \in UndecidedStates
                   /\ op[1] \in Kinds => op[1] \in Kinds \ {"trusted", "validate", "approve"}
  BY <1>3, OpParts DEF UndecidedOp
<1>. QED BY <1>4, <1>5, <1>6, <1>7, <1>8, <1>9 DEF Kinds

\* A goroutine has one next step.
LEMMA AtIsBusy ==
    ASSUME NEW g, NEW k, At(g, k)
    PROVE  Busy(g) /\ \A l : At(g, l) => l = k
  BY DEF At, Busy

\* Starting and stopping the timer.
LEMMA TimerTyped ==
    ASSUME IInv, NEW op \in TimerOps, TimerDone(op)
    PROVE  timer' \in Timers
<1>1. timer \in Timers
  BY TypeParts DEF IInv, ControlTypes
<1>. QED BY <1>1 DEF TimerDone, TimerOps, Timers

\* What the invariant says of single variables.
LEMMA TypesOf ==
    ASSUME IInv
    PROVE  /\ ControlTypes /\ DataTypes
           /\ Undecided \in BOOLEAN /\ closed \in BOOLEAN
           /\ Undecided => state \in UndecidedStates
           /\ reported => closed
  BY TypeParts DEF IInv, Undecided, UndecidedInv, ReportedIsClosed, ControlTypes

\* A step that closes, reports or decides nothing.
LEMMA OnwardHandshake ==
    ASSUME IInv, state' \in States, Undecided => state' \in UndecidedStates, timer' \in Timers,
           once' \in {"no", "running", "done"},
           UNCHANGED <<closed, reported, trust, env, role>>, DataTypes'
    PROVE  Onward /\ Undecided' = Undecided /\ closed' = closed
<1>1. Undecided' = Undecided
  BY DEF Undecided
<1>. QED BY <1>1, TypesOf DEF Onward, ControlTypes

\* A step that leaves the SPINE data alone.
LEMMA DataStays ==
    ASSUME IInv, UNCHANGED dataVars
    PROVE  DataTypes' /\ UNCHANGED <<env, role, reader, received, buffer, delivered>>
  BY TypesOf DEF DataTypes, dataVars

\* setState keeps the invariant.
LEMMA SetKeeps ==
    ASSUME IInv, NEW g \in Goroutines, Set(g)
    PROVE  IInv'
<1> DEFINE s == Arg(g, 2)
           ops == IF s = "HelloOk" /\ state # s THEN <<<<"trusted">>>> ELSE <<>>
<1>0. At(g, "set") /\ Busy(g) /\ ~At(g, "flush") /\ ~At(g, "disconnect")
  BY AtIsBusy DEF Set
<1>1. s \in States /\ Arg(g, 3) \in TimerOps /\ (Undecided => s \in UndecidedStates)
  BY <1>0, NextStep
<1>2. /\ state' = s /\ TimerDone(Arg(g, 3)) /\ Then(g, ops)
      /\ UNCHANGED <<once, closed, reported, trust, dataVars>>
  BY DEF Set
<1>3. timer' \in Timers
  BY <1>1, <1>2, TimerTyped
<1>4. Onward /\ Undecided' = Undecided /\ closed' = closed
  BY <1>1, <1>2, <1>3, OnwardHandshake, DataStays, TypesOf DEF ControlTypes
<1>5. GoodOps(g, ops, closed', Undecided')
  <2>1. Undecided => s # "HelloOk"
    BY <1>1 DEF UndecidedStates, InitStates
  <2>. QED BY <2>1, <1>4, TypesOf, GoodNothing, GoodKind
<1> HIDE DEF ops, s
<1>. QED BY <1>0, <1>2, <1>4, <1>5, DataStays, StepKeeps

\* So does handleState, which puts a handler in front of the rest of the code.
LEMMA HandleStateKeeps ==
    ASSUME IInv, NEW g \in Goroutines, HandleState(g)
    PROVE  IInv'
<1> DEFINE ops == Handler(state, Arg(g, 2), Arg(g, 3))
<1>0. At(g, "handle") /\ Busy(g) /\ ~At(g, "flush") /\ ~At(g, "disconnect")
  BY AtIsBusy DEF HandleState
<1>1. Arg(g, 2) \in BOOLEAN /\ Arg(g, 3) \in Messages /\ (g = "reader" \/ Arg(g, 3) = None)
  BY <1>0, NextStep
<1>2. Then(g, ops) /\ UNCHANGED <<state, timer, once, closed, reported, trust, dataVars>>
  BY DEF HandleState
<1>3. Onward /\ Undecided' = Undecided /\ closed' = closed
  BY <1>2, OnwardHandshake, DataStays, TypesOf DEF ControlTypes
<1>4. GoodOps(g, ops, closed', Undecided')
  BY <1>1, <1>3, TypesOf, GoodHandlerOfState
<1> HIDE DEF ops
<1>. QED BY <1>0, <1>2, <1>3, <1>4, DataStays, StepKeeps

\* So do the steps that start or stop the timer,
LEMMA SetTimerKeeps ==
    ASSUME IInv, NEW g \in Goroutines, SetTimer(g)
    PROVE  IInv'
<1>0. At(g, "timer") /\ Busy(g) /\ ~At(g, "flush") /\ ~At(g, "disconnect")
  BY AtIsBusy DEF SetTimer
<1>1. timer' \in Timers
  BY <1>0, NextStep, TimerTyped DEF SetTimer
<1>2. Then(g, <<>>) /\ UNCHANGED <<state, once, closed, reported, trust, dataVars>>
  BY DEF SetTimer
<1>3. Onward /\ Undecided' = Undecided /\ closed' = closed
  BY <1>1, <1>2, OnwardHandshake, DataStays, TypesOf DEF ControlTypes
<1>4. GoodOps(g, <<>>, closed', Undecided')
  BY <1>3, TypesOf, GoodNothing
<1>. QED BY <1>0, <1>2, <1>3, <1>4, DataStays, StepKeeps

\* the question to the hub whether to wait for the user,
LEMMA AllowKeeps ==
    ASSUME IInv, NEW g \in Goroutines, Allow(g)
    PROVE  IInv'
<1> DEFINE ops == IF Waiting THEN <<>> ELSE AbortHello
<1>0. At(g, "allow") /\ Busy(g) /\ ~At(g, "flush") /\ ~At(g, "disconnect")
  BY AtIsBusy DEF Allow
<1>2. Then(g, ops) /\ UNCHANGED <<state, timer, once, closed, reported, trust, dataVars>>
  BY DEF Allow
<1>3. Onward /\ Undecided' = Undecided /\ closed' = closed
  BY <1>2, OnwardHandshake, DataStays, TypesOf DEF ControlTypes
<1>4. GoodOps(g, ops, closed', Undecided')
  BY <1>3, TypesOf, GoodNothing, AbortIsGood
<1> HIDE DEF ops
<1>. QED BY <1>0, <1>2, <1>3, <1>4, DataStays, StepKeeps

\* the check before an approval,
LEMMA ValidateKeeps ==
    ASSUME IInv, NEW g \in Goroutines, Validate(g)
    PROVE  IInv'
<1> DEFINE ops == IF ~closed /\ trust = "paired" THEN SetAndHandle("HelloOk") ELSE AbortHello
<1>0. At(g, "validate") /\ Busy(g) /\ ~At(g, "flush") /\ ~At(g, "disconnect") /\ Undecided = FALSE
  BY AtIsBusy, NextStep, TypesOf DEF Validate
<1>2. Then(g, ops) /\ UNCHANGED <<state, timer, once, closed, reported, trust, dataVars>>
  BY DEF Validate
<1>3. Onward /\ Undecided' = Undecided /\ closed' = closed
  BY <1>2, OnwardHandshake, DataStays, TypesOf DEF ControlTypes
<1>4. GoodOps(g, ops, closed', Undecided')
  <2>1. SetAndHandle("HelloOk") \in HandlerOps(States)
    BY HandlerSteps DEF States, HelloStates
  <2>2. GoodOps(g, SetAndHandle("HelloOk"), closed', FALSE)
    BY <2>1, GoodHandler, <1>3, TypesOf
  <2>. QED BY <2>2, <1>0, <1>3, TypesOf, AbortIsGood
<1> HIDE DEF ops
<1>. QED BY <1>0, <1>2, <1>3, <1>4, DataStays, StepKeeps

\* ReportConnectionError,
LEMMA ErrorKeeps ==
    ASSUME IInv, NEW g \in Goroutines, ReportConnectionError(g)
    PROVE  IInv'
<1> DEFINE ops == ConnectionError(state)
<1>0. At(g, "error") /\ Busy(g) /\ ~At(g, "flush") /\ ~At(g, "disconnect")
  BY AtIsBusy DEF ReportConnectionError
<1>2. Then(g, ops) /\ UNCHANGED <<state, timer, once, closed, reported, trust, dataVars>>
  BY DEF ReportConnectionError
<1>3. Onward /\ Undecided' = Undecided /\ closed' = closed
  BY <1>2, OnwardHandshake, DataStays, TypesOf DEF ControlTypes
<1>4. GoodOps(g, ops, closed', Undecided')
  BY <1>3, TypesOf, GoodErrorReport
<1> HIDE DEF ops
<1>. QED BY <1>0, <1>2, <1>3, <1>4, DataStays, StepKeeps

\* CloseConnection, for the first caller and for a later one,
LEMMA CloseKeeps ==
    ASSUME IInv, NEW g \in Goroutines, CloseConnection(g)
    PROVE  IInv'
<1>0. At(g, "close") /\ Busy(g) /\ ~At(g, "flush") /\ ~At(g, "disconnect")
  BY AtIsBusy DEF CloseConnection
<1>1. CASE once = "no"
  <2> DEFINE ops == IF Arg(g, 2) /\ state = "Complete"
                    THEN Send(<<>>, <<>>) \o <<<<"spawn", "closer">>>>
                    ELSE <<<<"disconnect">>, <<"report", TRUE>>>>
  <2>1. /\ once' = "running" /\ TimerDone("stop") /\ Then(g, ops)
        /\ UNCHANGED <<state, closed, reported, trust, dataVars>>
    BY <1>1 DEF CloseConnection
  <2>2. timer' \in Timers
    BY <2>1, TimerTyped DEF TimerOps
  <2>3. Onward /\ Undecided' = Undecided /\ closed' = closed
    BY <2>1, <2>2, OnwardHandshake, DataStays, TypesOf DEF ControlTypes
  <2>4. GoodOps(g, Send(<<>>, <<>>) \o <<<<"spawn", "closer">>>>, closed', Undecided')
    BY <2>3, TypesOf, AbortIsGood, GoodSpawn, GoodConcat
  <2>5. GoodOps(g, <<<<"disconnect">>, <<"report", TRUE>>>>, closed', Undecided')
    BY <2>3, TypesOf, GoodEnd
  <2>6. GoodOps(g, ops, closed', Undecided')
    BY <2>4, <2>5
  <2> HIDE DEF ops
  <2>. QED BY <1>0, <2>1, <2>3, <2>6, DataStays, StepKeeps
<1>2. CASE once = "done"
  <2>1. Then(g, <<>>) /\ UNCHANGED <<state, timer, once, closed, reported, trust, dataVars>>
    BY <1>2 DEF CloseConnection
  <2>2. Onward /\ Undecided' = Undecided /\ closed' = closed
    BY <2>1, OnwardHandshake, DataStays, TypesOf DEF ControlTypes
  <2>3. GoodOps(g, <<>>, closed', Undecided')
    BY <2>2, TypesOf, GoodNothing
  <2>. QED BY <1>0, <2>1, <2>2, <2>3, DataStays, StepKeeps
<1>. QED BY <1>1, <1>2 DEF CloseConnection

\* ApproveIfPending,
LEMMA ApproveKeeps ==
    ASSUME IInv, NEW g \in Goroutines, ApproveIfPending(g)
    PROVE  IInv'
<1>0. At(g, "approve") /\ Busy(g) /\ ~At(g, "flush") /\ ~At(g, "disconnect") /\ Undecided = FALSE
  BY AtIsBusy, NextStep, TypesOf DEF ApproveIfPending
<1>1. CASE state = "HelloPendingListen"
  <2> DEFINE ops == Handle(FALSE, None) \o <<<<"validate">>>>
  <2>1. /\ state' = "HelloReadyInit" /\ TimerDone("stop") /\ Then(g, ops)
        /\ UNCHANGED <<once, closed, reported, trust, dataVars>>
    BY <1>1 DEF ApproveIfPending
  <2>2. timer' \in Timers /\ state' \in States
    BY <2>1, TimerTyped DEF TimerOps, States, HelloStates
  <2>3. Onward /\ Undecided' = Undecided /\ closed' = closed
    BY <1>0, <2>1, <2>2, OnwardHandshake, DataStays, TypesOf DEF ControlTypes
  <2>4. GoodOps(g, Handle(FALSE, None), closed', Undecided') /\ GoodOps(g, <<<<"validate">>>>, closed', Undecided')
    BY <1>0, <2>3, TypesOf, OpsMono, GoodHandle, GoodKind
  <2>5. GoodOps(g, ops, closed', Undecided')
    BY <2>3, <2>4, TypesOf, GoodConcat
  <2> HIDE DEF ops
  <2>. QED BY <1>0, <2>1, <2>3, <2>5, DataStays, StepKeeps
<1>2. CASE state # "HelloPendingListen"
  <2>1. Then(g, <<>>) /\ UNCHANGED <<state, timer, once, closed, reported, trust, dataVars>>
    BY <1>2 DEF ApproveIfPending
  <2>2. Onward /\ Undecided' = Undecided /\ closed' = closed
    BY <2>1, OnwardHandshake, DataStays, TypesOf DEF ControlTypes
  <2>3. GoodOps(g, <<>>, closed', Undecided')
    BY <2>2, TypesOf, GoodNothing
  <2>. QED BY <1>0, <2>1, <2>2, <2>3, DataStays, StepKeeps
<1>. QED BY <1>1, <1>2

\* and AbortIfPending.
LEMMA AbortKeeps ==
    ASSUME IInv, NEW g \in Goroutines, AbortIfPending(g)
    PROVE  IInv'
<1>0. At(g, "cancel") /\ Busy(g) /\ ~At(g, "flush") /\ ~At(g, "disconnect")
  BY AtIsBusy DEF AbortIfPending
<1>1. CASE state \in {"HelloPendingListen", "HelloReadyListen"}
  <2> DEFINE ops == Handle(FALSE, None)
  <2>1. /\ state' = "HelloAbort" /\ TimerDone("stop") /\ Then(g, ops)
        /\ UNCHANGED <<once, closed, reported, trust, dataVars>>
    BY <1>1 DEF AbortIfPending
  <2>2. timer' \in Timers /\ state' \in UndecidedStates /\ state' \in States
    BY <2>1, TimerTyped DEF TimerOps, States, HelloStates, UndecidedStates
  <2>3. Onward /\ Undecided' = Undecided /\ closed' = closed
    BY <2>1, <2>2, OnwardHandshake, DataStays, TypesOf DEF ControlTypes
  <2>4. GoodOps(g, ops, closed', Undecided')
    BY <2>3, TypesOf, OpsMono, GoodHandle
  <2> HIDE DEF ops
  <2>. QED BY <1>0, <2>1, <2>3, <2>4, DataStays, StepKeeps
<1>2. CASE state \notin {"HelloPendingListen", "HelloReadyListen"}
  <2>1. Then(g, <<>>) /\ UNCHANGED <<state, timer, once, closed, reported, trust, dataVars>>
    BY <1>2 DEF AbortIfPending
  <2>2. Onward /\ Undecided' = Undecided /\ closed' = closed
    BY <2>1, OnwardHandshake, DataStays, TypesOf DEF ControlTypes
  <2>3. GoodOps(g, <<>>, closed', Undecided')
    BY <2>2, TypesOf, GoodNothing
  <2>. QED BY <1>0, <2>1, <2>2, <2>3, DataStays, StepKeeps
<1>. QED BY <1>1, <1>2

\* A step that may close, report or decide.
LEMMA OnwardEnd ==
    ASSUME IInv, UNCHANGED <<state, env, role>>, DataTypes', timer' \in Timers,
           once' \in {"no", "running", "done"}, closed' \in BOOLEAN, reported' \in BOOLEAN,
           trust' \in {"paired", "undecided", "denied"},
           closed => closed', reported' => closed', trust' = "undecided" => trust = "undecided"
    PROVE  Onward /\ Undecided' \in BOOLEAN
<1>1. Undecided' => Undecided
  BY DEF Undecided
<1>2. Undecided' \in BOOLEAN
  BY DEF Undecided
<1>. QED BY <1>1, <1>2, TypesOf DEF Onward, ControlTypes

\* HandleShipHandshakeStateUpdate: the service is trusted.
LEMMA SetTrustedKeeps ==
    ASSUME IInv, NEW g \in Goroutines, SetTrusted(g)
    PROVE  IInv'
<1>0. At(g, "trusted") /\ Busy(g) /\ ~At(g, "flush") /\ ~At(g, "disconnect")
  BY AtIsBusy DEF SetTrusted
<1>1. /\ trust' = "paired" /\ Then(g, <<>>)
      /\ UNCHANGED <<state, timer, once, closed, reported, dataVars>>
  BY DEF SetTrusted
<1>2. Onward /\ Undecided' \in BOOLEAN /\ closed' \in BOOLEAN
  BY <1>1, OnwardEnd, DataStays, TypesOf DEF ControlTypes
<1>3. GoodOps(g, <<>>, closed', Undecided')
  BY <1>2, GoodNothing
<1>. QED BY <1>0, <1>1, <1>2, <1>3, DataStays, StepKeeps

\* The end of CancelPairing.
LEMMA DistrustKeeps ==
    ASSUME IInv, NEW g \in Goroutines, Distrust(g)
    PROVE  IInv'
<1>0. At(g, "distrust") /\ Busy(g) /\ ~At(g, "flush") /\ ~At(g, "disconnect")
  BY AtIsBusy DEF Distrust
<1>1. /\ trust' = "denied" /\ Then(g, <<>>)
      /\ UNCHANGED <<state, timer, once, closed, reported, dataVars>>
  BY DEF Distrust
<1>2. Onward /\ Undecided' \in BOOLEAN /\ closed' \in BOOLEAN
  BY <1>1, OnwardEnd, DataStays, TypesOf DEF ControlTypes
<1>3. GoodOps(g, <<>>, closed', Undecided')
  BY <1>2, GoodNothing
<1>. QED BY <1>0, <1>1, <1>2, <1>3, DataStays, StepKeeps

\* CloseDataConnection.
LEMMA DisconnectedKeeps ==
    ASSUME IInv, NEW g \in Goroutines, Disconnected(g)
    PROVE  IInv'
<1>0. At(g, "disconnect") /\ Busy(g) /\ ~At(g, "flush")
  BY AtIsBusy DEF Disconnected
<1>1. /\ closed' = TRUE /\ Then(g, <<>>)
      /\ UNCHANGED <<state, timer, once, reported, trust, dataVars>>
  BY DEF Disconnected
<1>2. Onward /\ Undecided' \in BOOLEAN /\ closed' \in BOOLEAN
  BY <1>1, OnwardEnd, DataStays, TypesOf DEF ControlTypes
<1>3. GoodOps(g, <<>>, closed', Undecided')
  BY <1>2, GoodNothing
<1>. QED BY <1>0, <1>1, <1>2, <1>3, DataStays, StepKeeps

\* HandleConnectionClosed: the data connection has been closed before.
LEMMA ReportKeeps ==
    ASSUME IInv, NEW g \in Goroutines, Report(g)
    PROVE  IInv'
<1>0. At(g, "report") /\ Busy(g) /\ ~At(g, "flush") /\ ~At(g, "disconnect")
  BY AtIsBusy DEF Report
<1>1. /\ reported' = TRUE /\ once' = (IF Arg(g, 2) THEN "done" ELSE once) /\ Then(g, <<>>)
      /\ UNCHANGED <<state, timer, closed, trust, dataVars>>
  BY DEF Report
<1>2. closed
  BY <1>0, NextStep
<1>3. Onward /\ Undecided' \in BOOLEAN /\ closed' \in BOOLEAN
  BY <1>1, <1>2, OnwardEnd, DataStays, TypesOf DEF ControlTypes
<1>4. GoodOps(g, <<>>, closed', Undecided')
  BY <1>3, GoodNothing
<1>. QED BY <1>0, <1>1, <1>3, <1>4, DataStays, StepKeeps

\* The reader is installed, and the flush of the buffer is still to come.
LEMMA SetupKeeps ==
    ASSUME IInv, NEW g \in Goroutines, Setup(g)
    PROVE  IInv'
<1>0. At(g, "setup") /\ Busy(g) /\ ~At(g, "flush") /\ ~At(g, "disconnect")
  BY AtIsBusy DEF Setup
<1>1. g = "reader"
  BY <1>0, NextStep
<1>2. /\ reader' = TRUE /\ Then(g, <<>>)
      /\ UNCHANGED <<state, timer, once, closed, reported, trust, env, role, full,
                     received, buffer, delivered>>
  BY DEF Setup
<1>3. DataTypes'
  BY <1>2, TypesOf DEF DataTypes
<1>4. Onward /\ Undecided' \in BOOLEAN /\ closed' \in BOOLEAN
  BY <1>2, <1>3, OnwardEnd, TypesOf DEF ControlTypes
<1>5. GoodOps(g, <<>>, closed', Undecided')
  BY <1>4, GoodNothing
<1>6. CodeInv' /\ (HasFlush(Tail(code[g])) => HasFlush(code'[g]))
  BY <1>0, <1>2, <1>4, <1>5, CodeGoesOn
<1>7. HasFlush(Tail(code[g]))
  <2> DEFINE c == code[g]
  <2>1. c \in Seq(AnyOp) /\ c # <<>> /\ FlushFollows(c) /\ c[1][1] = "setup"
    BY <1>0 DEF IInv, CodeInv, GoodOps, At
  <2>2. Len(c) \in Nat /\ Len(c) > 0 /\ Len(Tail(c)) = Len(c) - 1
        /\ \A i \in 1..Len(Tail(c)) : Tail(c)[i] = c[i + 1]
    BY <2>1, HeadTailProperties
  <2>3. PICK j \in 2..Len(c) : c[j][1] = "flush"
    BY <2>1, <2>2 DEF FlushFollows
  <2>4. j - 1 \in 1..Len(Tail(c)) /\ Tail(c)[j - 1] = c[j]
    BY <2>2, <2>3
  <2>. QED BY <2>3, <2>4 DEF HasFlush
<1>8. BufferInv'
  BY <1>1, <1>6, <1>7 DEF BufferInv
<1>9. SpineInOrder'
  BY <1>2 DEF IInv, SpineInOrder
<1>10. DOMAIN code' = Goroutines
  BY <1>6 DEF CodeInv
<1>. QED BY <1>4, <1>6, <1>8, <1>9, <1>10, OnwardFacts, TypePartsNext DEF IInv

\* processBufferedSpineMessages: the messages change from the buffer to the application.
LEMMA FlushKeepsInv ==
    ASSUME IInv, NEW g \in Goroutines, Flush(g)
    PROVE  IInv'
<1>0. At(g, "flush") /\ Busy(g) /\ ~At(g, "disconnect")
  BY AtIsBusy DEF Flush
<1>1. /\ delivered' = delivered \o buffer /\ buffer' = <<>> /\ Then(g, <<>>)
      /\ UNCHANGED <<state, timer, once, closed, reported, trust, env, role, full, reader, received>>
  BY DEF Flush
<1>2. /\ buffer \in Seq(1..env.spine) /\ delivered \in Seq(1..env.spine)
      /\ delivered \o buffer \in Seq(1..env.spine)
  BY TypesOf, ConcatProperties DEF DataTypes
<1>3. DataTypes'
  BY <1>1, <1>2, TypesOf DEF DataTypes
<1>4. Onward /\ Undecided' \in BOOLEAN /\ closed' \in BOOLEAN
  BY <1>1, <1>3, OnwardEnd, TypesOf DEF ControlTypes
<1>5. GoodOps(g, <<>>, closed', Undecided')
  BY <1>4, GoodNothing
<1>6. CodeInv'
  BY <1>0, <1>1, <1>4, <1>5, CodeGoesOn
<1>7. BufferInv'
  BY <1>1 DEF BufferInv
<1>8. SpineInOrder'
  <2>1. delivered' \o buffer' = delivered \o buffer
    BY <1>1, <1>2, ConcatEmptySeq
  <2>. QED BY <1>1, <2>1 DEF IInv, SpineInOrder
<1>9. DOMAIN code' = Goroutines
  BY <1>6 DEF CodeInv
<1>. QED BY <1>4, <1>6, <1>7, <1>8, <1>9, OnwardFacts, TypePartsNext DEF IInv

\* go func(): the goroutine that is started closes before it reports.
LEMMA SpawnKeeps ==
    ASSUME IInv, NEW g \in Goroutines, Spawn(g)
    PROVE  IInv'
<1> DEFINE h == Arg(g, 2)
           ops == IF h = "abort" THEN Close(FALSE) ELSE <<<<"disconnect">>, <<"report", FALSE>>>>
<1>0. At(g, "spawn") /\ Busy(g) /\ ~At(g, "flush") /\ ~At(g, "disconnect")
  BY AtIsBusy DEF Spawn
<1>1. h \in {"abort", "closer"}
  BY <1>0, NextStep
<1>2. /\ code' = [code EXCEPT ![g] = Tail(@), ![h] = IF @ = <<>> THEN ops ELSE @]
      /\ once' = (IF h = "closer" THEN "done" ELSE once)
      /\ UNCHANGED <<state, timer, closed, reported, trust, dataVars>>
  BY DEF Spawn
<1>3. Onward /\ Undecided' \in BOOLEAN /\ closed' \in BOOLEAN
  BY <1>2, OnwardEnd, DataStays, TypesOf DEF ControlTypes
<1>4. GoodOps(h, ops, closed', Undecided')
  BY <1>3, AbortIsGood, GoodEnd
<1> HIDE DEF ops, h
<1>5. code \in [Goroutines -> Seq(AnyOp)] /\ code[g] # <<>> /\ h \in Goroutines /\ h # "reader"
  <2>1. h \in Goroutines /\ h # "reader"
    BY <1>1 DEF Goroutines
  <2>2. code \in [Goroutines -> Seq(AnyOp)]
    BY DEF IInv, CodeInv
  <2>3. code[g] # <<>>
    BY <1>0 DEF Busy
  <2>. QED BY <2>1, <2>2, <2>3
<1>6. /\ DOMAIN code' = Goroutines
      /\ code' = [x \in Goroutines |-> code'[x]]
      /\ \A x \in Goroutines \ {g, h} : code'[x] = code[x]
      /\ g # h => code'[g] = Tail(code[g])
      /\ code'[h] \in {ops, code[h], Tail(code[h])}
      /\ g # h => code'[h] \in {ops, code[h]}
  BY <1>2, <1>5
<1>7. \A x \in Goroutines : GoodOps(x, code[x], closed', Undecided')
  BY <1>3, GoodLater, OnwardFacts DEF IInv, CodeInv
<1>8. GoodOps(g, Tail(code[g]), closed', Undecided')
  <2>1. closed' \/ code[g][1][1] # "disconnect"
    BY <1>0 DEF At, Busy
  <2>2. GoodOps(g, code[g], closed, Undecided)
    BY DEF IInv, CodeInv
  <2>. QED BY <2>1, <2>2, <1>3, <1>5, GoodTail, OnwardFacts
<1>9. \A x \in Goroutines : GoodOps(x, code'[x], closed', Undecided')
  BY ZenonT(60), <1>4, <1>5, <1>6, <1>7, <1>8
<1>10. CodeInv'
  <2>1. \A x \in Goroutines : code'[x] \in Seq(AnyOp)
    BY <1>9 DEF GoodOps
  <2>. QED BY <2>1, <1>6, <1>9 DEF CodeInv
<1>11. UNCHANGED <<reader, received, buffer, delivered>>
  BY <1>2, DataStays
<1>12. BufferInv'
  <2> SUFFICES ASSUME reader, buffer # <<>>
               PROVE  HasFlush(code'["reader"])
    BY <1>11 DEF BufferInv
  <2>1. HasFlush(code["reader"])
    BY DEF IInv, BufferInv
  <2>2. CASE g = "reader"
    BY <1>0, <1>5, <1>6, <2>1, <2>2, FlushStaysDue
  <2>3. CASE g # "reader"
    BY <1>5, <1>6, <2>1, <2>3 DEF Goroutines
  <2>. QED BY <2>2, <2>3
<1>13. SpineInOrder'
  BY <1>11 DEF IInv, SpineInOrder
<1>. QED BY <1>3, <1>6, <1>10, <1>12, <1>13, OnwardFacts, TypePartsNext DEF IInv

-----------------------------------------------------------------------------
(* What starts the goroutines, and the rest. *)

\* HandleIncomingWebsocketMessage, for a SHIP message.
LEMMA ReceiveKeeps ==
    ASSUME IInv, NEW m \in env.messages, Receive(m)
    PROVE  IInv'
<1>1. /\ Begin("reader", Message(m))
      /\ UNCHANGED <<state, timer, once, closed, reported, trust, dataVars>>
  BY DEF Receive
<1>2. Onward /\ Undecided' = Undecided /\ closed' = closed
  BY <1>1, OnwardHandshake, DataStays, TypesOf DEF ControlTypes
<1>3. m \in Messages
  BY TypesOf, EnvironmentFacts
<1>4. GoodOps("reader", Message(m), closed', Undecided')
  BY <1>2, <1>3, TypesOf, GoodMessage
<1>5. "reader" \in Goroutines
  BY DEF Goroutines
<1>. QED BY <1>1, <1>2, <1>4, <1>5, DataStays, StartKeeps

\* And for a SPINE message: while the reader is installed and a flush is due, nothing
\* is read, so a message never overtakes the buffer.
LEMMA ReceiveSpineKeeps ==
    ASSUME IInv, ReceiveSpine
    PROVE  IInv'
<1> DEFINE n == received + 1
           Data == 1..env.spine
<1>1. /\ code["reader"] = <<>> /\ received < env.spine /\ received' = n
      /\ UNCHANGED <<state, code, timer, once, closed, reported, trust, env, role, full, reader>>
  BY DEF ReceiveSpine, Reading, Busy
<1>2. /\ env.spine \in Nat /\ received \in 0..env.spine
      /\ buffer \in Seq(Data) /\ delivered \in Seq(Data)
  BY TypesOf, EnvironmentFacts DEF DataTypes
<1>3. n \in Data /\ received' \in 0..env.spine
  BY <1>1, <1>2
<1>4. reader => buffer = <<>>
  BY <1>1, NoFlushInNothing DEF IInv, BufferInv
<1>5. delivered' \o buffer' = Append(delivered \o buffer, n) /\ delivered' \in Seq(Data) /\ buffer' \in Seq(Data)
  <2>1. CASE reader
    <3>1. delivered' = Append(delivered, n) /\ buffer' = <<>> /\ buffer = <<>>
      BY <1>1, <1>4, <2>1 DEF ReceiveSpine
    <3>2. delivered' \in Seq(Data) /\ delivered' \o <<>> = delivered' /\ delivered \o <<>> = delivered
      BY <1>2, <1>3, <3>1, AppendProperties, ConcatEmptySeq
    <3>. QED BY <1>2, <3>1, <3>2
  <2>2. CASE ~reader
    <3>1. buffer' = Append(buffer, n) /\ delivered' = delivered
      BY <1>1, <2>2 DEF ReceiveSpine
    <3>2. Append(buffer, n) = buffer \o <<n>> /\ Append(buffer, n) \in Seq(Data) /\ <<n>> \in Seq(Data)
      BY <1>2, <1>3, AppendIsConcat, AppendProperties
    <3>3. delivered \o buffer \in Seq(Data)
      BY <1>2, ConcatProperties
    <3>4. Append(delivered \o buffer, n) = (delivered \o buffer) \o <<n>>
      BY <1>3, <3>3, AppendIsConcat
    <3>5. (delivered \o buffer) \o <<n>> = delivered \o (buffer \o <<n>>)
      BY SMTT(30), <1>2, <3>2, ConcatAssociative
    <3>. QED BY <1>2, <3>1, <3>2, <3>4, <3>5
  <2>. QED BY <2>1, <2>2, <1>2 DEF DataTypes
<1>6. SpineInOrder'
  <2>1. delivered \o buffer = [i \in 1..received |-> i]
    BY DEF IInv, SpineInOrder
  <2>2. Append([i \in 1..received |-> i], n) = [i \in 1..n |-> i]
    BY <1>2
  <2>. QED BY <1>1, <1>5, <2>1, <2>2 DEF SpineInOrder
<1>7. DataTypes'
  BY <1>1, <1>3, <1>5, TypesOf DEF DataTypes
<1>8. Onward
  BY <1>1, <1>7, OnwardHandshake, TypesOf DEF ControlTypes
<1>9. CodeInv'
  BY <1>1, <1>8, CodeStays
<1>10. BufferInv'
  <2>1. reader => buffer' = <<>>
    BY <1>1, <1>4 DEF ReceiveSpine
  <2>. QED BY <1>1, <2>1 DEF BufferInv
<1>11. DOMAIN code' = Goroutines
  BY <1>9 DEF CodeInv
<1>. QED BY <1>6, <1>8, <1>9, <1>10, <1>11, OnwardFacts, TypePartsNext DEF IInv

\* A pump that meets an error marks the data connection as closed before it reports.
LEMMA EndOfStreamKeeps ==
    ASSUME IInv, ReadError \/ WriteError
    PROVE  IInv'
<1>1. /\ closed' = TRUE
      /\ \E g \in {"reader", "writer"} : Begin(g, <<<<"error">>>>)
      /\ UNCHANGED <<state, timer, once, reported, trust, dataVars>>
  BY DEF ReadError, WriteError
<1>2. Onward /\ Undecided' \in BOOLEAN /\ closed' \in BOOLEAN
  BY <1>1, OnwardEnd, DataStays, TypesOf DEF ControlTypes
<1>3. PICK g \in {"reader", "writer"} : Begin(g, <<<<"error">>>>)
  BY <1>1
<1>4. GoodOps(g, <<<<"error">>>>, closed', Undecided') /\ g \in Goroutines
  BY <1>2, GoodKind DEF Goroutines
<1>. QED BY <1>1, <1>2, <1>3, <1>4, DataStays, StartKeeps

\* A write pump that falls behind changes nothing but the answer to a write.
LEMMA BufferFillsKeeps ==
    ASSUME IInv, BufferFills
    PROVE  IInv'
<1>1. /\ full' = ~full
      /\ UNCHANGED <<state, code, timer, once, closed, reported, trust, env, role, reader,
                     received, buffer, delivered>>
  BY DEF BufferFills
<1>2. DataTypes'
  BY <1>1, TypesOf DEF DataTypes
<1>3. Onward
  BY <1>1, <1>2, OnwardHandshake, TypesOf DEF ControlTypes
<1>. QED BY <1>1, <1>3, StillKeeps

\* The timer's record after it has expired, and after its callback.
LEMMA TimerFields ==
    ASSUME IInv
    PROVE  (timer.on => [timer EXCEPT !.fired = "current"] \in Timers)
           /\ [timer EXCEPT !.on = FALSE, !.fired = "no"] \in Timers
<1>1. timer \in Timers
  BY TypesOf DEF ControlTypes
<1>. QED BY <1>1 DEF Timers

\* The timer expires.
LEMMA ExpireKeeps ==
    ASSUME IInv, Expire
    PROVE  IInv'
<1>1. UNCHANGED <<state, code, once, closed, reported, trust, dataVars>> /\ timer' \in Timers
  BY TimerFields DEF Expire
<1>2. Onward
  BY <1>1, OnwardHandshake, DataStays, TypesOf DEF ControlTypes
<1>. QED BY <1>1, <1>2, DataStays, StillKeeps

\* The callback of the timer handles the state.
LEMMA CallbackKeeps ==
    ASSUME IInv, Callback
    PROVE  IInv'
<1>1. UNCHANGED <<state, once, closed, reported, trust, dataVars>> /\ timer' \in Timers
  BY TimerFields DEF Callback
<1>2. Onward /\ Undecided' = Undecided /\ closed' = closed
  BY <1>1, OnwardHandshake, DataStays, TypesOf DEF ControlTypes
<1>3. CASE timer.on
  <2>1. Begin("timer", Handle(TRUE, None)) /\ "timer" \in Goroutines
    BY <1>3 DEF Callback, Goroutines
  <2>2. GoodOps("timer", Handle(TRUE, None), closed', Undecided')
    BY <1>2, TypesOf, OpsMono, GoodHandle
  <2>. QED BY <1>1, <1>2, <2>1, <2>2, DataStays, StartKeeps
<1>4. CASE ~timer.on
  <2>1. UNCHANGED code
    BY <1>4 DEF Callback
  <2>. QED BY <1>1, <1>2, <2>1, DataStays, StillKeeps
<1>. QED BY <1>3, <1>4

\* The approver starts when the user has decided.
LEMMA RegisterKeeps ==
    ASSUME IInv, RegisterRemoteService
    PROVE  IInv'
<1>1. trust' = "paired" /\ UNCHANGED <<state, timer, once, closed, reported, dataVars>>
  BY DEF RegisterRemoteService
<1>2. Onward /\ Undecided' \in BOOLEAN /\ closed' \in BOOLEAN
  BY <1>1, OnwardEnd, DataStays, TypesOf DEF ControlTypes
<1>3. ~Undecided'
  BY <1>1 DEF Undecided
<1>4. CASE Registered
  <2>1. Begin("approver", <<<<"approve">>>>) /\ "approver" \in Goroutines
    BY <1>4 DEF RegisterRemoteService, Goroutines
  <2>2. GoodOps("approver", <<<<"approve">>>>, closed', Undecided')
    BY <1>2, <1>3, GoodKind
  <2>. QED BY <1>1, <1>2, <2>1, <2>2, DataStays, StartKeeps
<1>5. CASE ~Registered
  <2>1. UNCHANGED code
    BY <1>5 DEF RegisterRemoteService
  <2>. QED BY <1>1, <1>2, <2>1, DataStays, StillKeeps
<1>. QED BY <1>4, <1>5

\* The steps of the application.
LEMMA UserKeeps ==
    ASSUME IInv, CancelPairing \/ DisconnectService \/ SendSpine
    PROVE  IInv'
<1>1. UNCHANGED <<state, timer, once, closed, reported, trust, dataVars>>
  BY DEF CancelPairing, DisconnectService, SendSpine
<1>2. Onward /\ Undecided' = Undecided /\ closed' = closed
  BY <1>1, OnwardHandshake, DataStays, TypesOf DEF ControlTypes
<1>3. "user" \in Goroutines /\ "spine" \in Goroutines
  BY DEF Goroutines
<1>4. CASE CancelPairing
  <2> DEFINE ops == (IF Registered THEN <<<<"cancel">>>> ELSE <<>>) \o <<<<"distrust">>>>
  <2>1. Begin("user", ops)
    BY <1>4 DEF CancelPairing
  <2>2. /\ GoodOps("user", IF Registered THEN <<<<"cancel">>>> ELSE <<>>, closed', Undecided')
        /\ GoodOps("user", <<<<"distrust">>>>, closed', Undecided')
    BY <1>2, TypesOf, GoodKind, GoodNothing
  <2>3. GoodOps("user", ops, closed', Undecided')
    BY <1>2, <2>2, TypesOf, GoodConcat
  <2> HIDE DEF ops
  <2>. QED BY <1>1, <1>2, <1>3, <2>1, <2>3, DataStays, StartKeeps
<1>5. CASE DisconnectService
  <2>1. Begin("user", Close(TRUE))
    BY <1>5 DEF DisconnectService
  <2>2. GoodOps("user", Close(TRUE), closed', Undecided')
    BY <1>2, TypesOf, AbortIsGood
  <2>. QED BY <1>1, <1>2, <1>3, <2>1, <2>2, DataStays, StartKeeps
<1>6. CASE SendSpine
  <2>1. Begin("spine", Close(FALSE))
    BY <1>6 DEF SendSpine
  <2>2. GoodOps("spine", Close(FALSE), closed', Undecided')
    BY <1>2, TypesOf, AbortIsGood
  <2>. QED BY <1>1, <1>2, <1>3, <2>1, <2>2, DataStays, StartKeeps
<1>. QED BY <1>4, <1>5, <1>6

-----------------------------------------------------------------------------
(* The invariant, and the theorems. *)

\* The connection starts in the invariant.
LEMMA InitIInv == Init => IInv
<1> SUFFICES ASSUME Init PROVE IInv
  OBVIOUS
<1>1. /\ env \in Environments /\ role \in env.roles /\ state = "InitStart"
      /\ code = [g \in Goroutines |-> IF g = "run" THEN Handle(FALSE, None) ELSE <<>>]
      /\ timer = [on |-> FALSE, type |-> "wait", fired |-> "no"]
      /\ once = "no" /\ closed = FALSE /\ full = FALSE /\ reported = FALSE /\ trust = env.trust
      /\ reader = FALSE /\ received = 0 /\ buffer = <<>> /\ delivered = <<>>
  BY DEF Init
<1>2. env.spine \in Nat /\ env.trust \in {"paired", "undecided"}
  BY <1>1, EnvironmentAssumption DEF Environment
<1>3. ControlTypes
  BY <1>1, <1>2 DEF ControlTypes, Timers, States, InitStates
<1>4. DataTypes
  <2>0. reader \in BOOLEAN /\ full \in BOOLEAN
    BY <1>1
  <2>1. received \in 0..env.spine
    BY <1>1, <1>2
  <2>2. buffer \in Seq(1..env.spine) /\ delivered \in Seq(1..env.spine)
    BY <1>1
  <2>. QED BY <1>1, <2>0, <2>1, <2>2 DEF DataTypes
<1>5. CodeInv
  <2>0. closed \in BOOLEAN /\ Undecided \in BOOLEAN
    BY <1>1 DEF Undecided
  <2>1. \A g \in Goroutines : /\ GoodOps(g, <<>>, closed, Undecided)
                              /\ GoodOps(g, Handle(FALSE, None), closed, Undecided)
    BY <2>0, GoodNothing, GoodHandle, OpsMono
  <2>2. \A g \in Goroutines : GoodOps(g, code[g], closed, Undecided)
    BY <1>1, <2>1
  <2>3. \A g \in Goroutines : code[g] \in Seq(AnyOp)
    BY <2>2 DEF GoodOps
  <2>4. code = [g \in Goroutines |-> code[g]]
    BY <1>1
  <2>. QED BY <2>2, <2>3, <2>4 DEF CodeInv
<1>6. BufferInv /\ ReportedIsClosed
  BY <1>1 DEF BufferInv, ReportedIsClosed
<1>7. UndecidedInv
  BY <1>1 DEF UndecidedInv, UndecidedStates, InitStates
<1>8. SpineInOrder
  BY <1>1 DEF SpineInOrder
<1>. QED BY <1>1, <1>3, <1>4, <1>5, <1>6, <1>7, <1>8, TypeParts DEF IInv

\* Every step of every goroutine, of the peer and of the application keeps it.
LEMMA StepIInv == IInv /\ [Next]_vars => IInv'
<1> SUFFICES ASSUME IInv, [Next]_vars PROVE IInv'
  OBVIOUS
<1>1. ASSUME NEW g \in Goroutines, Step(g) PROVE IInv'
  BY <1>1, SetKeeps, SetTrustedKeeps, HandleStateKeeps, SetTimerKeeps, AllowKeeps, ValidateKeeps,
     SetupKeeps, FlushKeepsInv, SpawnKeeps, CloseKeeps, DisconnectedKeeps, ReportKeeps, ErrorKeeps,
     ApproveKeeps, AbortKeeps, DistrustKeeps DEF Step
<1>2. ASSUME NEW m \in env.messages, Receive(m) PROVE IInv'
  BY <1>2, ReceiveKeeps
<1>3. CASE UNCHANGED vars
  <2>1. UNCHANGED <<state, code, timer, once, closed, reported, trust, dataVars>>
    BY <1>3 DEF vars
  <2>2. Onward
    BY <2>1, OnwardHandshake, DataStays, TypesOf DEF ControlTypes
  <2>. QED BY <2>1, <2>2, DataStays, StillKeeps
<1>. QED
  BY <1>1, <1>2, <1>3, ReceiveSpineKeeps, EndOfStreamKeeps, BufferFillsKeeps, ExpireKeeps, CallbackKeeps,
     RegisterKeeps, UserKeeps DEF Next

\* The inductive invariant holds.
LEMMA Invariant == Spec => []IInv
  BY InitIInv, StepIInv, PTL DEF Spec

\* Every variable of a connection keeps to its type.
THEOREM ConnectionTypeCorrect == Spec => []TypeOK
<1>1. IInv => TypeOK
  BY DEF IInv
<1>. QED BY <1>1, Invariant, PTL

\* The application sees every SPINE message once and in the order of its arrival, those
\* that are buffered until SetupRemoteService returns included
\* (processBufferedSpineMessages).
THEOREM SpineArrivesInOrder == Spec => []SpineInOrder
<1>1. IInv => SpineInOrder
  BY DEF IInv
<1>. QED BY <1>1, Invariant, PTL

\* HandleConnectionClosed is called only for a data connection that counts as closed
\* (isConnClosed), by whichever goroutine: nothing more is read from it or accepted for
\* writing when the hub removes it.  Of the socket it says nothing: an error of the write
\* pump sets the mark and leaves the socket open.
THEOREM ReportComesAfterClose == Spec => []ReportedIsClosed
<1>1. IInv => ReportedIsClosed
  BY DEF IInv
<1>. QED BY <1>1, Invariant, PTL

\* A server passes the hello phase only after the user has trusted the peer, whatever
\* the peer sends and however handlers, callbacks and the user interleave.
THEOREM NoProtocolWithoutTrust == Spec => []TrustBeforeProtocol
<1>1. IInv => TrustBeforeProtocol
  BY DEF IInv, UndecidedInv, UndecidedStates, Undecided, TrustBeforeProtocol, BeyondHello,
         InitStates, ProtStates, PinStates
<1>. QED BY <1>1, Invariant, PTL
=============================================================================
