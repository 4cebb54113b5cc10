---------------------- MODULE ShipConnectionEndProofs ----------------------
(***************************************************************************)
(* No end of a SHIP connection is lost (EndIsNotLost), for every           *)
(* environment.                                                            *)
(*                                                                         *)
(* A data connection is closed by three goroutines that do not know of     *)
(* each other: the read pump, the write pump and the one in shutdownOnce.  *)
(* (Closed means that it is marked so, isConnClosed.)  A goroutine         *)
(* that calls CloseConnection relies on whoever has been there before, so  *)
(* the property alone is not inductive.  EndInv adds that the one that has *)
(* been there has reported or left the report to the goroutine that closes *)
(* after a delay, and that the two delayed goroutines do nothing but end   *)
(* the connection.  That every CloseDataConnection is followed by a report *)
(* is part of IInv (ReportFollows).                                        *)
(***************************************************************************)
EXTENDS ShipConnectionProofs

\* The steps that lead to the report of an end.
OwingKinds == {"report", "error", "close", "spawn"}

OwesIn(c) == \E i \in 1..Len(c) : c[i][1] \in OwingKinds

\* What is left to the goroutine that ends the connection after an announced end,
\* and to the one after an abort.
CloserOp == {<<"disconnect">>} \cup ({"report"} \X BOOLEAN)
AbortOp == CloserOp \cup ({"close"} \X BOOLEAN) \cup ({"spawn"} \X {"abort", "closer"})

EndOpOf(g) == IF g = "closer" THEN CloserOp ELSE IF g = "abort" THEN AbortOp ELSE AnyOp

\* When shutdownOnce is done with, the report is made or left to the closer.
OnceIsSettled == once = "done" => reported \/ OwesIn(code["closer"])

DelayedInv == \A g \in Goroutines : code[g] \in Seq(EndOpOf(g))

EndInv == EndIsNotLost /\ OnceIsSettled /\ DelayedInv

-----------------------------------------------------------------------------
(* Code that owes a report. *)

\* Owes is OwesIn of a goroutine's code.
LEMMA OwesCode ==
    ASSUME NEW c, NEW g, c[g] \in Seq(AnyOp)
    PROVE  (\E i \in DOMAIN c[g] : c[g][i][1] \in {"report", "error", "close", "spawn"})
           <=> OwesIn(c[g])
  BY DEF OwesIn, OwingKinds

\* Code in front of other code loses no debt.
LEMMA OwesConcat ==
    ASSUME NEW a \in Seq(AnyOp), NEW b \in Seq(AnyOp), OwesIn(a) \/ OwesIn(b)
    PROVE  OwesIn(a \o b)
<1> DEFINE c == a \o b
<1>1. /\ Len(c) = Len(a) + Len(b) /\ Len(a) \in Nat /\ Len(b) \in Nat
      /\ \A i \in 1..(Len(a) + Len(b)) : c[i] = IF i <= Len(a) THEN a[i] ELSE b[i - Len(a)]
  BY ConcatProperties
<1> HIDE DEF c
<1>2. ASSUME OwesIn(a) PROVE OwesIn(c)
  <2>1. PICK i \in 1..Len(a) : a[i][1] \in OwingKinds
    BY <1>2 DEF OwesIn
  <2>2. i \in 1..Len(c) /\ c[i] = a[i]
    BY <1>1, <2>1
  <2>. QED BY <2>1, <2>2 DEF OwesIn
<1>3. ASSUME OwesIn(b) PROVE OwesIn(c)
  <2>1. PICK i \in 1..Len(b) : b[i][1] \in OwingKinds
    BY <1>3 DEF OwesIn
  <2>2. i + Len(a) \in 1..Len(c) /\ c[i + Len(a)] = b[i]
    BY <1>1, <2>1
  <2>. QED BY <2>1, <2>2 DEF OwesIn
<1>. QED BY <1>2, <1>3 DEF c

\* A step that owes nothing leaves what is owed to the rest of the code; one that
\* closes the data connection is followed by a report.
LEMMA OwesTail ==
    ASSUME NEW c \in Seq(AnyOp), c # <<>>, c[1][1] \notin OwingKinds,
           OwesIn(c) \/ (c[1][1] = "disconnect" /\ ReportFollows(c))
    PROVE  OwesIn(Tail(c))
<1> DEFINE d == Tail(c)
<1>1. /\ Len(d) = Len(c) - 1 /\ Len(c) \in Nat /\ Len(c) > 0
      /\ \A i \in 1..Len(d) : d[i] = c[i + 1]
  BY HeadTailProperties
<1>2. PICK i \in 2..Len(c) : c[i][1] \in OwingKinds
  <2>1. CASE OwesIn(c)
    <3>1. PICK i \in 1..Len(c) : c[i][1] \in OwingKinds
      BY <2>1 DEF OwesIn
    <3>2. i # 1
      BY <3>1
    <3>. QED BY <1>1, <3>1, <3>2
  <2>2. CASE c[1][1] = "disconnect" /\ ReportFollows(c)
    <3>1. 1 \in 1..Len(c)
      BY <1>1
    <3>2. PICK j \in (1 + 1)..Len(c) : c[j][1] = "report"
      BY <2>2, <3>1 DEF ReportFollows
    <3>. QED BY <3>2 DEF OwingKinds
  <2>. QED BY <2>1, <2>2
<1>3. i - 1 \in 1..Len(d) /\ d[i - 1] = c[i]
  BY <1>1, <1>2
<1> HIDE DEF d
<1>4. OwesIn(d)
  BY <1>2, <1>3 DEF OwesIn
<1>. QED BY <1>4 DEF d

\* A step that leads to a report.
LEMMA OwesStep ==
    ASSUME NEW op, op[1] \in OwingKinds
    PROVE  OwesIn(<<op>>)
<1> DEFINE c == <<op>>
<1>1. Len(c) = 1 /\ c[1] = op
  OBVIOUS
<1> HIDE DEF c
<1>2. 1 \in 1..Len(c) /\ c[1][1] \in OwingKinds
  BY <1>1
<1>3. OwesIn(c)
  BY <1>2 DEF OwesIn
<1>. QED BY <1>3 DEF c

\* A delayed goroutine that has something to do owes a report.
LEMMA DelayedOwes ==
    ASSUME NEW c \in Seq(AbortOp), c # <<>>, ReportFollows(c)
    PROVE  OwesIn(c)
<1>1. 1 \in 1..Len(c) /\ c[1] \in AbortOp
  OBVIOUS
<1>2. c[1][1] \in OwingKinds \cup {"disconnect"}
  BY <1>1 DEF AbortOp, CloserOp, OwingKinds
<1>3. CASE c[1][1] = "disconnect"
  <2>1. PICK j \in (1 + 1)..Len(c) : c[j][1] = "report"
    BY <1>1, <1>3 DEF ReportFollows
  <2>2. j \in 1..Len(c)
    BY <2>1
  <2>. QED BY <2>1, <2>2 DEF OwesIn, OwingKinds
<1>4. CASE c[1][1] \in OwingKinds
  BY <1>1, <1>4 DEF OwesIn
<1>. QED BY <1>2, <1>3, <1>4

\* What EndInv takes from IInv.
LEMMA EndFacts ==
    ASSUME IInv
    PROVE  /\ code \in [Goroutines -> Seq(AnyOp)]
           /\ \A g \in Goroutines : ReportFollows(code[g])
           /\ \A g \in Goroutines : Owes(g) <=> OwesIn(code[g])
<1>1. code \in [Goroutines -> Seq(AnyOp)] /\ \A g \in Goroutines : ReportFollows(code[g])
  BY DEF IInv, CodeInv, GoodOps
<1>2. ASSUME NEW g \in Goroutines PROVE Owes(g) <=> OwesIn(code[g])
  BY <1>1, OwesCode DEF Owes
<1>. QED BY <1>1, <1>2

\* The same of the next state.
LEMMA EndFactsNext ==
    ASSUME IInv'
    PROVE  /\ code' \in [Goroutines -> Seq(AnyOp)]
           /\ \A g \in Goroutines : ReportFollows(code'[g])
           /\ \A g \in Goroutines : Owes(g)' <=> OwesIn(code'[g])
<1>1. code' \in [Goroutines -> Seq(AnyOp)] /\ \A g \in Goroutines : ReportFollows(code'[g])
  BY DEF IInv, CodeInv, GoodOps
<1>2. ASSUME NEW g \in Goroutines PROVE Owes(g)' <=> OwesIn(code'[g])
  BY <1>1, OwesCode DEF Owes
<1>. QED BY <1>1, <1>2

-----------------------------------------------------------------------------
(* The steps of the goroutines. *)

\* Where no goroutine's debt is lost and nothing is closed, the end is not lost.
LEMMA NothingIsLost ==
    ASSUME IInv, IInv', EndInv, closed' = closed, reported => reported',
           \A g \in Goroutines : OwesIn(code[g]) => OwesIn(code'[g])
    PROVE  EndIsNotLost'
<1> SUFFICES ASSUME closed', ~reported'
             PROVE  \E g \in Goroutines : Owes(g)'
  BY DEF EndIsNotLost
<1>1. PICK g \in Goroutines : Owes(g)
  BY DEF EndInv, EndIsNotLost
<1>2. OwesIn(code'[g])
  BY <1>1, EndFacts
<1>. QED BY <1>2, EndFactsNext

\* What the code of a goroutine that has made a step owes.
LEMMA CodeAfter ==
    ASSUME IInv, NEW g \in Goroutines, Busy(g), NEW ops \in Seq(AnyOp), Then(g, ops)
    PROVE  /\ code'[g] = ops \o Tail(code[g]) /\ code[g] # <<>>
           /\ Tail(code[g]) \in Seq(AnyOp)
           /\ \A h \in Goroutines \ {g} : code'[h] = code[h]
           /\ OwesIn(ops) \/ OwesIn(Tail(code[g])) => OwesIn(code'[g])
           /\ OwesIn(code[g]) /\ code[g][1][1] \notin OwingKinds => OwesIn(code'[g])
<1>1. code \in [Goroutines -> Seq(AnyOp)] /\ code[g] # <<>>
  BY EndFacts DEF Busy
<1>2. /\ code'[g] = ops \o Tail(code[g])
      /\ \A h \in Goroutines \ {g} : code'[h] = code[h]
  BY <1>1 DEF Then
<1>3. Tail(code[g]) \in Seq(AnyOp)
  BY <1>1, HeadTailProperties
<1>4. OwesIn(ops) \/ OwesIn(Tail(code[g])) => OwesIn(code'[g])
  BY <1>2, <1>3, OwesConcat
<1>5. OwesIn(code[g]) /\ code[g][1][1] \notin OwingKinds => OwesIn(Tail(code[g]))
  BY <1>1, OwesTail
<1>. QED BY <1>1, <1>2, <1>3, <1>4, <1>5

\* The delayed goroutines keep to the steps of an end.
LEMMA DelayedGoesOn ==
    ASSUME IInv, IInv', EndInv, NEW g \in Goroutines, Busy(g), NEW ops \in Seq(AnyOp),
           Then(g, ops), g \in {"abort", "closer"} => ops \in Seq(EndOpOf(g))
    PROVE  DelayedInv'
<1> SUFFICES ASSUME NEW h \in Goroutines PROVE code'[h] \in Seq(EndOpOf(h))
  BY DEF DelayedInv
<1>1. code[h] \in Seq(EndOpOf(h))
  BY DEF EndInv, DelayedInv
<1>2. CASE h # g
  BY <1>1, <1>2, CodeAfter
<1>3. CASE h = g /\ g \in {"abort", "closer"}
  <2>1. Tail(code[g]) \in Seq(EndOpOf(g))
    BY <1>1, <1>3, CodeAfter, HeadTailProperties
  <2>. QED BY ZenonT(60), <1>3, <2>1, CodeAfter, ConcatProperties
<1>4. CASE h = g /\ g \notin {"abort", "closer"}
  BY <1>4, EndFactsNext DEF EndOpOf
<1>. QED BY <1>2, <1>3, <1>4

\* The next step of a delayed goroutine.
LEMMA DelayedSteps ==
    ASSUME EndInv, NEW g \in Goroutines, Busy(g)
    PROVE  /\ g = "closer" => At(g, "disconnect") \/ At(g, "report")
           /\ g = "abort" => \/ At(g, "disconnect") \/ At(g, "report")
                             \/ At(g, "close") \/ At(g, "spawn")
<1> DEFINE c == code[g]
<1>1. c \in Seq(EndOpOf(g)) /\ c # <<>>
  BY DEF EndInv, DelayedInv, Busy
<1>2. c[1] \in EndOpOf(g)
  BY <1>1
<1>3. \A k : At(g, k) <=> c[1][1] = k
  BY <1>1 DEF At
<1> HIDE DEF c
<1>. QED BY <1>2, <1>3 DEF EndOpOf, CloserOp, AbortOp

\* A step that has to do with the handshake and not with its end.
LEMMA HandshakeKeepsEnd ==
    ASSUME IInv, IInv', EndInv, NEW g \in Goroutines, Busy(g), NEW ops \in Seq(AnyOp),
           Then(g, ops), UNCHANGED <<once, closed, reported>>,
           \A k \in OwingKinds \cup {"disconnect"} : ~At(g, k)
    PROVE  EndInv'
<1>1. g \notin {"abort", "closer"}
  BY DelayedSteps DEF OwingKinds
<1>2. code[g][1][1] \notin OwingKinds
  BY DEF At, Busy
<1>3. \A h \in Goroutines : OwesIn(code[h]) => OwesIn(code'[h])
  BY <1>2, CodeAfter
<1>4. EndIsNotLost'
  BY <1>3, NothingIsLost
<1>5. OnceIsSettled'
  BY <1>3 DEF EndInv, OnceIsSettled, Goroutines
<1>6. DelayedInv'
  BY <1>1, DelayedGoesOn
<1>. QED BY <1>4, <1>5, <1>6 DEF EndInv

\* Good code is a sequence of steps.
LEMMA GoodIsSeq ==
    ASSUME NEW g, NEW c, NEW shut, NEW open, GoodOps(g, c, shut, open)
    PROVE  c \in Seq(AnyOp)
  BY DEF GoodOps

\* Such steps are setState, the handlers, and the first steps of an approval or a
\* cancellation.
LEMMA EndHandshake ==
    ASSUME IInv, IInv', EndInv, NEW g \in Goroutines,
           \/ Set(g) \/ SetTrusted(g) \/ HandleState(g) \/ SetTimer(g) \/ Allow(g) \/ Validate(g)
           \/ Setup(g) \/ Flush(g) \/ ApproveIfPending(g) \/ AbortIfPending(g) \/ Distrust(g)
    PROVE  EndInv'
<1>1. UNCHANGED <<once, closed, reported>>
  BY DEF Set, SetTrusted, HandleState, SetTimer, Allow, Validate, Setup, Flush,
         ApproveIfPending, AbortIfPending, Distrust
<1>2. \E k \in {"set", "trusted", "handle", "timer", "allow", "validate", "setup", "flush",
                "approve", "cancel", "distrust"} : At(g, k)
  BY DEF Set, SetTrusted, HandleState, SetTimer, Allow, Validate, Setup, Flush,
         ApproveIfPending, AbortIfPending, Distrust
<1>3. Busy(g) /\ \A k \in OwingKinds \cup {"disconnect"} : ~At(g, k)
  BY <1>2, AtIsBusy DEF OwingKinds
<1>4. <<>> \in Seq(AnyOp)
  BY GoodNothing, GoodIsSeq
<1>5. <<<<"trusted">>>> \in Seq(AnyOp)
  BY GoodKind, GoodIsSeq
<1>6. AbortHello \in Seq(AnyOp)
  BY AbortIsGood, GoodIsSeq
<1>7. SetAndHandle("HelloOk") \in Seq(AnyOp)
  <2>1. SetAndHandle("HelloOk") \in HandlerOps(States)
    BY HandlerSteps DEF States, HelloStates
  <2>. QED BY <2>1, OpsMono, SubsetSeq DEF HandlerOps
<1>8. Handle(FALSE, None) \in Seq(AnyOp)
  BY GoodHandle, OpsMono, GoodIsSeq
<1>9. Handle(FALSE, None) \o <<<<"validate">>>> \in Seq(AnyOp)
  <2>1. <<<<"validate">>>> \in Seq(AnyOp)
    BY GoodKind, GoodIsSeq
  <2>. QED BY <1>8, <2>1, ConcatProperties
<1>10. At(g, "handle") => Handler(state, Arg(g, 2), Arg(g, 3)) \in Seq(AnyOp)
  BY <1>3, NextStep, TypesOf, GoodHandlerOfState, GoodIsSeq
<1>11. \E ops \in Seq(AnyOp) : Then(g, ops)
  <2>1. CASE HandleState(g)
    BY <1>10, <2>1 DEF HandleState
  <2>2. CASE Set(g)
    BY <1>4, <1>5, <2>2 DEF Set
  <2>3. CASE Allow(g) \/ Validate(g)
    BY <1>4, <1>6, <1>7, <2>3 DEF Allow, Validate
  <2>4. CASE ApproveIfPending(g)
    BY <1>4, <1>9, <2>4 DEF ApproveIfPending
  <2>5. CASE AbortIfPending(g)
    BY <1>4, <1>8, <2>5 DEF AbortIfPending
  <2>6. CASE SetTrusted(g) \/ SetTimer(g) \/ Setup(g) \/ Flush(g) \/ Distrust(g)
    BY <1>4, <2>6 DEF SetTrusted, SetTimer, Setup, Flush, Distrust
  <2>. QED BY <2>1, <2>2, <2>3, <2>4, <2>5, <2>6
<1>. QED BY <1>1, <1>3, <1>11, HandshakeKeepsEnd

\* CloseDataConnection: the report is still to come.
LEMMA EndDisconnected ==
    ASSUME IInv, IInv', EndInv, NEW g \in Goroutines, Disconnected(g)
    PROVE  EndInv'
<1>1. /\ At(g, "disconnect") /\ Busy(g) /\ Then(g, <<>>) /\ UNCHANGED <<once, reported>>
  BY AtIsBusy DEF Disconnected
<1>2. <<>> \in Seq(AnyOp)
  BY GoodNothing, GoodIsSeq
<1>3. code[g] \in Seq(AnyOp) /\ ReportFollows(code[g]) /\ code[g][1][1] = "disconnect"
  BY <1>1, EndFacts DEF At
<1>4. OwesIn(Tail(code[g]))
  BY <1>1, <1>3, OwesTail DEF Busy, OwingKinds
<1>5. OwesIn(code'[g])
  BY <1>1, <1>2, <1>4, CodeAfter
<1>6. EndIsNotLost'
  BY <1>5, EndFactsNext DEF EndIsNotLost
<1>7. \A h \in Goroutines : OwesIn(code[h]) => OwesIn(code'[h])
  BY <1>1, <1>2, <1>5, CodeAfter
<1>8. OnceIsSettled'
  BY <1>1, <1>7 DEF EndInv, OnceIsSettled, Goroutines
<1>9. DelayedInv'
  <2>1. <<>> \in Seq(EndOpOf(g))
    OBVIOUS
  <2>. QED BY <1>1, <1>2, <2>1, DelayedGoesOn
<1>. QED BY <1>6, <1>8, <1>9 DEF EndInv

\* HandleConnectionClosed
LEMMA EndReport ==
    ASSUME IInv, IInv', EndInv, NEW g \in Goroutines, Report(g)
    PROVE  EndInv'
<1>1. Busy(g) /\ Then(g, <<>>) /\ reported' = TRUE
  BY AtIsBusy DEF Report
<1>2. <<>> \in Seq(AnyOp) /\ <<>> \in Seq(EndOpOf(g))
  BY GoodNothing, GoodIsSeq
<1>3. DelayedInv'
  BY <1>1, <1>2, DelayedGoesOn
<1>. QED BY <1>1, <1>3 DEF EndInv, EndIsNotLost, OnceIsSettled

\* ReportConnectionError closes in every state.
LEMMA ErrorOwes ==
    ASSUME NEW s
    PROVE  ConnectionError(s) \in Seq(AnyOp) /\ OwesIn(ConnectionError(s))
<1>1. /\ Close(FALSE) \in Seq(AnyOp) /\ SetState("HelloRejected") \in Seq(AnyOp)
      /\ SetState("Error") \in Seq(AnyOp)
  <2>1. /\ Close(FALSE) \in HandlerOps(States) /\ SetState("HelloRejected") \in HandlerOps(States)
        /\ SetState("Error") \in HandlerOps(States)
    BY HandlerSteps DEF States, PassiveStates
  <2>. QED BY <2>1, OpsMono, SubsetSeq DEF HandlerOps
<1>2. OwesIn(Close(FALSE))
  <2> DEFINE op == <<"close", FALSE>>
  <2>1. op[1] \in OwingKinds
    BY DEF OwingKinds
  <2> HIDE DEF op
  <2>2. OwesIn(<<op>>)
    BY <2>1, OwesStep
  <2>. QED BY <2>2 DEF op, Close
<1>3. /\ SetState("HelloRejected") \o Close(FALSE) \in Seq(AnyOp)
      /\ SetState("Error") \o Close(FALSE) \in Seq(AnyOp)
  BY <1>1, ConcatProperties
<1>4. OwesIn(SetState("HelloRejected") \o Close(FALSE)) /\ OwesIn(SetState("Error") \o Close(FALSE))
  BY <1>1, <1>2, OwesConcat
<1>. QED BY <1>1, <1>2, <1>3, <1>4 DEF ConnectionError

\* ReportConnectionError: the goroutine still has to call CloseConnection.
LEMMA EndError ==
    ASSUME IInv, IInv', EndInv, NEW g \in Goroutines, ReportConnectionError(g)
    PROVE  EndInv'
<1> DEFINE ops == ConnectionError(state)
<1>1. /\ At(g, "error") /\ Busy(g) /\ Then(g, ops) /\ UNCHANGED <<once, closed, reported>>
  BY AtIsBusy DEF ReportConnectionError
<1>2. ops \in Seq(AnyOp) /\ OwesIn(ops)
  BY ErrorOwes
<1> HIDE DEF ops
<1>3. g \notin {"abort", "closer"}
  BY <1>1, DelayedSteps, AtIsBusy
<1>4. OwesIn(code'[g]) /\ \A h \in Goroutines \ {g} : code'[h] = code[h]
  BY <1>1, <1>2, CodeAfter
<1>5. EndIsNotLost'
  BY <1>4, EndFactsNext DEF EndIsNotLost
<1>6. OnceIsSettled'
  BY <1>1, <1>3, <1>4 DEF EndInv, OnceIsSettled, Goroutines
<1>7. DelayedInv'
  BY <1>1, <1>2, <1>3, DelayedGoesOn
<1>. QED BY <1>5, <1>6, <1>7 DEF EndInv

\* CloseConnection: the first one ends the connection, any other one relies on the
\* goroutine that is left to end it.
LEMMA ClosingOwes ==
    ASSUME NEW ops \in {Send(<<>>, <<>>) \o <<<<"spawn", "closer">>>>,
                        <<<<"disconnect">>, <<"report", TRUE>>>>}
    PROVE  ops \in Seq(AnyOp) /\ OwesIn(ops) /\ ops \in Seq(AbortOp)
<1> DEFINE op == <<"spawn", "closer">>
           d == <<"disconnect">>
           r == <<"report", TRUE>>
           a == Send(<<>>, <<>>)
           end == <<d, r>>
<1>1. op[1] \in OwingKinds /\ r[1] \in OwingKinds /\ {op, d, r} \subseteq AbortOp
  <2>1. op[1] \in OwingKinds /\ r[1] \in OwingKinds
    BY DEF OwingKinds
  <2>2. op \in AbortOp /\ d \in AbortOp
    BY DEF AbortOp, CloserOp
  <2>3. \A b \in BOOLEAN : <<"report", b>> \in AbortOp
    BY DEF AbortOp, CloserOp
  <2>4. r \in AbortOp
    BY <2>3
  <2> HIDE DEF op, d, r
  <2>. QED BY <2>1, <2>2, <2>4
<1>2. AbortOp \subseteq AnyOp
  BY DEF AbortOp, CloserOp, AnyOp, Op, Kinds
<1>3. a \in Seq(AbortOp)
  <2>1. <<"close", FALSE>> \in AbortOp
    BY DEF AbortOp
  <2>2. <<>> \in Seq(AbortOp) /\ Close(FALSE) \in Seq(AbortOp)
    BY <2>1 DEF Close
  <2>3. Close(FALSE) \o <<>> \in Seq(AbortOp)
    BY <2>2, ConcatProperties
  <2>. QED BY <2>2, <2>3 DEF Send, Write
<1> HIDE DEF op, d, r, a
<1>4. <<op>> \in Seq(AbortOp) /\ end \in Seq(AbortOp)
  BY <1>1
<1>5. a \o <<op>> \in Seq(AbortOp)
  BY <1>3, <1>4, ConcatProperties
<1>6. a \in Seq(AnyOp) /\ <<op>> \in Seq(AnyOp) /\ end \in Seq(AnyOp) /\ a \o <<op>> \in Seq(AnyOp)
  BY <1>2, <1>3, <1>4, <1>5, SubsetSeq
<1>7. OwesIn(a \o <<op>>)
  BY <1>1, <1>6, OwesStep, OwesConcat
<1>8. OwesIn(end)
  <2>1. Len(end) = 2 /\ end[2] = r
    OBVIOUS
  <2>2. 2 \in 1..Len(end) /\ end[2][1] \in OwingKinds
    BY <1>1, <2>1
  <2> HIDE DEF end
  <2>. QED BY <2>2 DEF OwesIn
<1>. QED BY <1>4, <1>5, <1>6, <1>7, <1>8 DEF op, d, r, a

\* A first call of CloseConnection, and a later one.
LEMMA EndClose ==
    ASSUME IInv, IInv', EndInv, NEW g \in Goroutines, CloseConnection(g)
    PROVE  EndInv'
<1>0. At(g, "close") /\ Busy(g) /\ UNCHANGED <<closed, reported>>
  BY AtIsBusy DEF CloseConnection
<1>1. g # "closer"
  BY <1>0, DelayedSteps, AtIsBusy
<1>2. EndOpOf("abort") = AbortOp
  BY DEF EndOpOf
<1>3. CASE once = "no"
  <2> DEFINE ops == IF Arg(g, 2) /\ state = "Complete"
                    THEN Send(<<>>, <<>>) \o <<<<"spawn", "closer">>>>
                    ELSE <<<<"disconnect">>, <<"report", TRUE>>>>
  <2>1. once' = "running" /\ Then(g, ops)
    BY <1>3 DEF CloseConnection
  <2>2. ops \in Seq(AnyOp) /\ OwesIn(ops) /\ ops \in Seq(AbortOp)
    BY ClosingOwes
  <2> HIDE DEF ops
  <2>3. OwesIn(code'[g])
    BY <1>0, <2>1, <2>2, CodeAfter
  <2>4. EndIsNotLost'
    BY <2>3, EndFactsNext DEF EndIsNotLost
  <2>5. DelayedInv'
    BY <1>0, <1>1, <1>2, <2>1, <2>2, DelayedGoesOn
  <2>. QED BY <2>1, <2>4, <2>5 DEF EndInv, OnceIsSettled
<1>4. CASE once = "done"
  <2>1. once' = once /\ Then(g, <<>>)
    BY <1>4 DEF CloseConnection
  <2>2. <<>> \in Seq(AnyOp) /\ <<>> \in Seq(EndOpOf(g))
    BY GoodNothing, GoodIsSeq
  <2>3. code'["closer"] = code["closer"]
    BY <1>0, <1>1, <2>1, <2>2, CodeAfter DEF Goroutines
  <2>4. OnceIsSettled'
    BY <1>0, <2>1, <2>3 DEF EndInv, OnceIsSettled
  <2>5. EndIsNotLost'
    <3>1. reported' \/ OwesIn(code'["closer"])
      BY <1>4, <2>1, <2>4 DEF OnceIsSettled
    <3>. QED BY <3>1, EndFactsNext DEF EndIsNotLost, Goroutines
  <2>6. DelayedInv'
    BY <1>0, <2>1, <2>2, DelayedGoesOn
  <2>. QED BY <2>4, <2>5, <2>6 DEF EndInv
<1>. QED BY <1>3, <1>4 DEF CloseConnection

\* The code of a delayed goroutine when it starts.
LEMMA DelayedCode ==
    ASSUME NEW h \in {"abort", "closer"},
           NEW ops, ops = (IF h = "abort" THEN Close(FALSE)
                           ELSE <<<<"disconnect">>, <<"report", FALSE>>>>)
    PROVE  ops \in Seq(EndOpOf(h)) /\ ops # <<>>
<1> DEFINE d == <<"disconnect">>
           r == <<"report", FALSE>>
           c == <<"close", FALSE>>
<1>1. /\ <<d, r>> # <<>> /\ <<c>> # <<>>
      /\ \A S : {d, r} \subseteq S => <<d, r>> \in Seq(S)
      /\ \A S : {c} \subseteq S => <<c>> \in Seq(S)
  OBVIOUS
<1>2. \A b \in BOOLEAN : <<"report", b>> \in CloserOp /\ <<"close", b>> \in AbortOp
  BY DEF CloserOp, AbortOp
<1>3. d \in CloserOp /\ r \in CloserOp /\ c \in AbortOp
  <2>1. d \in CloserOp
    BY DEF CloserOp
  <2>. QED BY <1>2, <2>1
<1> HIDE DEF d, r, c
<1>4. <<d, r>> \in Seq(CloserOp) /\ <<c>> \in Seq(AbortOp)
  BY <1>1, <1>3
<1>. QED BY <1>1, <1>4 DEF EndOpOf, Close, d, r, c

\* A delayed goroutine that has been started owes a report.
LEMMA StartedOwes ==
    ASSUME IInv', DelayedInv', NEW h \in {"abort", "closer"}, code'[h] # <<>>
    PROVE  OwesIn(code'[h])
<1>1. h \in Goroutines
  BY DEF Goroutines
<1>2. code'[h] \in Seq(EndOpOf(h)) /\ ReportFollows(code'[h])
  BY <1>1, EndFactsNext DEF DelayedInv
<1>3. EndOpOf(h) \subseteq AbortOp
  BY DEF EndOpOf, AbortOp
<1>4. code'[h] \in Seq(AbortOp)
  BY <1>2, <1>3, SubsetSeq
<1>. QED BY <1>2, <1>4, DelayedOwes

\* go func()
LEMMA EndSpawn ==
    ASSUME IInv, IInv', EndInv, NEW g \in Goroutines, Spawn(g)
    PROVE  EndInv'
<1> DEFINE h == Arg(g, 2)
           ops == IF h = "abort" THEN Close(FALSE) ELSE <<<<"disconnect">>, <<"report", FALSE>>>>
<1>0. At(g, "spawn") /\ Busy(g) /\ UNCHANGED <<closed, reported>>
  BY AtIsBusy DEF Spawn
<1>1. h \in {"abort", "closer"} /\ g # "closer"
  BY <1>0, NextStep, DelayedSteps, AtIsBusy
<1>2. /\ code' = [code EXCEPT ![g] = Tail(@), ![h] = IF @ = <<>> THEN ops ELSE @]
      /\ once' = (IF h = "closer" THEN "done" ELSE once)
  BY DEF Spawn
<1>3. ops \in Seq(EndOpOf(h)) /\ ops # <<>>
  BY <1>1, DelayedCode
<1> HIDE DEF ops, h
<1>4. code \in [Goroutines -> Seq(AnyOp)] /\ code[g] # <<>> /\ h \in Goroutines
  BY <1>0, <1>1, EndFacts DEF Busy, Goroutines
<1>5. /\ \A x \in Goroutines \ {g, h} : code'[x] = code[x]
      /\ g # h => code'[g] = Tail(code[g])
      /\ g # h => code'[h] = IF code[h] = <<>> THEN ops ELSE code[h]
      /\ g = h => code'[h] = IF Tail(code[h]) = <<>> THEN ops ELSE Tail(code[h])
  BY <1>2, <1>4
<1>6. \A x \in Goroutines : code[x] \in Seq(EndOpOf(x))
  BY DEF EndInv, DelayedInv
<1>7. Tail(code[g]) \in Seq(EndOpOf(g))
  BY <1>4, <1>6, HeadTailProperties
<1>8. DelayedInv'
  <2>1. \A x \in Goroutines : code'[x] \in Seq(EndOpOf(x))
    BY <1>3, <1>4, <1>5, <1>6, <1>7
  <2>. QED BY <2>1 DEF DelayedInv
<1>9. OwesIn(code'[h])
  <2>1. code'[h] # <<>>
    BY <1>3, <1>5
  <2>. QED BY <1>1, <1>8, <2>1, StartedOwes
<1>10. EndIsNotLost'
  BY <1>4, <1>9, EndFactsNext DEF EndIsNotLost
<1>11. OnceIsSettled'
  <2>1. CASE h = "closer"
    BY <1>9, <2>1 DEF OnceIsSettled
  <2>2. CASE h # "closer"
    <3>1. code'["closer"] = code["closer"]
      BY <1>1, <1>5, <2>2 DEF Goroutines
    <3>. QED BY <1>0, <1>2, <2>2, <3>1 DEF EndInv, OnceIsSettled
  <2>. QED BY <2>1, <2>2
<1>. QED BY <1>8, <1>10, <1>11 DEF EndInv

-----------------------------------------------------------------------------
(* What starts the goroutines, and the rest. *)

\* A goroutine that is started by something else than an end.
LEMMA DelayedBegins ==
    ASSUME IInv, IInv', EndInv, NEW g \in Goroutines \ {"abort", "closer"}, NEW ops, Begin(g, ops)
    PROVE  /\ DelayedInv' /\ code'[g] = ops
           /\ \A h \in Goroutines : OwesIn(code[h]) => OwesIn(code'[h])
           /\ code'["closer"] = code["closer"]
<1>1. code \in [Goroutines -> Seq(AnyOp)] /\ code[g] = <<>>
  BY EndFacts DEF Begin, Busy
<1>2. code'[g] = ops /\ \A h \in Goroutines \ {g} : code'[h] = code[h]
  BY <1>1 DEF Begin
<1>3. \A h \in Goroutines : OwesIn(code[h]) => OwesIn(code'[h])
  <2>1. ~OwesIn(<<>>)
    BY DEF OwesIn
  <2>. QED BY <1>1, <1>2, <2>1
<1>4. \A h \in Goroutines : code'[h] \in Seq(EndOpOf(h))
  <2>1. \A h \in Goroutines \ {g} : code'[h] \in Seq(EndOpOf(h))
    BY <1>2 DEF EndInv, DelayedInv
  <2>2. EndOpOf(g) = AnyOp
    BY DEF EndOpOf
  <2>3. code'[g] \in Seq(AnyOp)
    BY EndFactsNext
  <2>. QED BY <2>1, <2>2, <2>3
<1>5. code'["closer"] = code["closer"]
  BY <1>2 DEF Goroutines
<1>. QED BY <1>2, <1>3, <1>4, <1>5 DEF DelayedInv

\* The data connection is closed by one of the pumps, which reports the error.
LEMMA EndOfStreamOwes ==
    ASSUME IInv, IInv', EndInv, ReadError \/ WriteError
    PROVE  EndInv'
<1>1. PICK g \in {"reader", "writer"} : Begin(g, <<<<"error">>>>)
  BY DEF ReadError, WriteError
<1>2. UNCHANGED <<once, reported>>
  BY DEF ReadError, WriteError
<1>3. g \in Goroutines \ {"abort", "closer"}
  BY DEF Goroutines
<1>4. DelayedInv' /\ code'[g] = <<<<"error">>>> /\ code'["closer"] = code["closer"]
  BY <1>1, <1>3, DelayedBegins
<1>5. OwesIn(<<<<"error">>>>)
  <2> DEFINE op == <<"error">>
  <2>1. op[1] \in OwingKinds
    BY DEF OwingKinds
  <2> HIDE DEF op
  <2>2. OwesIn(<<op>>)
    BY <2>1, OwesStep
  <2>. QED BY <2>2 DEF op
<1>6. EndIsNotLost'
  BY <1>3, <1>4, <1>5, EndFactsNext DEF EndIsNotLost
<1>7. OnceIsSettled'
  BY <1>2, <1>4 DEF EndInv, OnceIsSettled
<1>. QED BY <1>4, <1>6, <1>7 DEF EndInv

\* What else happens closes nothing.
LEMMA EndOthers ==
    ASSUME IInv, IInv', EndInv,
           \/ \E m \in env.messages : Receive(m)
           \/ ReceiveSpine \/ BufferFills \/ Expire \/ Callback
           \/ RegisterRemoteService \/ CancelPairing \/ DisconnectService \/ SendSpine
           \/ UNCHANGED vars
    PROVE  EndInv'
<1>1. UNCHANGED <<once, closed, reported>>
  BY DEF Receive, ReceiveSpine, BufferFills, Expire, Callback, RegisterRemoteService, CancelPairing,
         DisconnectService, SendSpine, vars
<1>2. \/ UNCHANGED code
      \/ \E g \in {"reader", "timer", "approver", "user", "spine"} : \E ops : Begin(g, ops)
  BY DEF Receive, ReceiveSpine, BufferFills, Expire, Callback, RegisterRemoteService, CancelPairing,
         DisconnectService, SendSpine, vars
<1>3. /\ DelayedInv' /\ code'["closer"] = code["closer"]
      /\ \A h \in Goroutines : OwesIn(code[h]) => OwesIn(code'[h])
  <2>1. CASE UNCHANGED code
    BY <2>1 DEF EndInv, DelayedInv
  <2>2. ASSUME NEW g \in {"reader", "timer", "approver", "user", "spine"}, NEW ops, Begin(g, ops)
        PROVE  /\ DelayedInv' /\ code'["closer"] = code["closer"]
               /\ \A h \in Goroutines : OwesIn(code[h]) => OwesIn(code'[h])
    <3>1. g \in Goroutines \ {"abort", "closer"}
      BY DEF Goroutines
    <3>. QED BY <2>2, <3>1, DelayedBegins
  <2>. QED BY <1>2, <2>1, <2>2
<1>4. EndIsNotLost'
  BY <1>1, <1>3, NothingIsLost
<1>5. OnceIsSettled'
  BY <1>1, <1>3 DEF EndInv, OnceIsSettled
<1>. QED BY <1>3, <1>4, <1>5 DEF EndInv

-----------------------------------------------------------------------------
(* The invariant, and the theorem. *)

\* The invariant at the start of a connection,
LEMMA InitEndInv == Init => EndInv
<1> SUFFICES ASSUME Init PROVE EndInv
  OBVIOUS
<1>1. IInv
  BY InitIInv
<1>2. ~closed /\ once = "no"
  BY DEF Init
<1>3. DelayedInv
  <2> SUFFICES ASSUME NEW g \in Goroutines PROVE code[g] \in Seq(EndOpOf(g))
    BY DEF DelayedInv
  <2>1. CASE g \in {"abort", "closer"}
    <3>1. code[g] = <<>>
      BY <2>1 DEF Init
    <3>. QED BY <3>1
  <2>2. CASE g \notin {"abort", "closer"}
    BY <1>1, <2>2, EndFacts DEF EndOpOf
  <2>. QED BY <2>1, <2>2
<1>. QED BY <1>2, <1>3 DEF EndInv, EndIsNotLost, OnceIsSettled

\* and after every step.
LEMMA StepEndInv == IInv /\ IInv' /\ EndInv /\ [Next]_vars => EndInv'
<1> SUFFICES ASSUME IInv, IInv', EndInv, [Next]_vars PROVE EndInv'
  OBVIOUS
<1>1. ASSUME NEW g \in Goroutines, Step(g) PROVE EndInv'
  BY <1>1, EndHandshake, EndSpawn, EndClose, EndDisconnected, EndReport, EndError DEF Step
<1>2. ASSUME NEW m \in env.messages, Receive(m) PROVE EndInv'
  BY <1>2, EndOthers
<1>. QED BY <1>1, <1>2, EndOfStreamOwes, EndOthers DEF Next

\* Once the data connection is closed, whoever has closed it (a pump that meets an error,
\* CloseConnection, or an announced end), HandleConnectionClosed has been called or
\* a goroutine is still on its way to it.
THEOREM NoEndIsLost == Spec => []EndIsNotLost
<1>1. EndInv => EndIsNotLost
  BY DEF EndInv
<1>. QED BY <1>1, InitEndInv, StepEndInv, Invariant, PTL DEF Spec
=============================================================================
