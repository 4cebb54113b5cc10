------------------------- MODULE HubConnectionsProofs -------------------------
(***************************************************************************)
(* Proofs about HubConnections, for every set of attempts and remote       *)
(* nodes.  IInv strengthens the safety invariants with what makes them     *)
(* inductive: where an attempt stands tells which role it has, whether it  *)
(* has become a connection, and what its local variables hold.             *)
(***************************************************************************)
EXTENDS HubConnections, TLAPS

\* Only dials are superseded.
DialInv ==
    /\ \A s \in SKI : initiating[s] # None => initiating[s] \in Outgoing
    /\ \A c \in Conn : task[c] = "tls" => other[c] \in Outgoing
    /\ \A c \in Conn : superseded[c] => c \in Outgoing

\* Only a started connection is registered, displaced, closed or reported, and a
\* report that is past its delay has closed the socket.
StartInv ==
    /\ \A s \in SKI : Connected(s) => Started(connections[s])
    /\ \A c \in Conn :
        /\ Started(c) => task[c] \in {"register", "retire", "dialEnd", "ended"}
        /\ task[c] = "register" => Started(c)
        /\ task[c] = "retire" => other[c] \in Conn /\ Started(other[c])
        /\ retiring[c] # "no" \/ c \in toClose => Started(c)
        /\ \A k \in Reporters :
              /\ report[c][k] # "idle" => Started(c)
              /\ report[c][k] \in {"unregister", "check", "told", "quiet"} => socket[c] # "open"

IInv ==
    /\ Typed
    /\ RoleInv
    /\ DialInv
    /\ StartInv
    /\ LiveIsAccountedFor
    /\ OneDialPerSKI
    /\ SupersededHasNoSocket

-----------------------------------------------------------------------------

\* What a call of CloseConnection can do: it marks the connection, and closes its
\* socket with the first report or leaves both to the delayed goroutine.
Closed(c) ==
    \A d \in Conn :
        /\ once'[d] = (once[d] \/ d = c)
        /\ socket'[d] \in {socket[d], "closed"}
        /\ \A k \in Reporters :
              \/ report'[d][k] = report[d][k]
              \/ d = c /\ k = "own" /\ report'[d][k] = "delay"
              \/ d = c /\ k = "own" /\ report'[d][k] = "unregister" /\ socket'[d] = "closed"

LEMMA CloseEffect ==
    ASSUME Typed, NEW c \in Conn, NEW safe \in BOOLEAN, Close(c, safe)
    PROVE  /\ once' \in [Conn -> BOOLEAN]
           /\ socket' \in [Conn -> {"none", "open", "cut", "closed"}]
           /\ report' \in [Conn -> [Reporters -> ReportSteps]]
           /\ Closed(c)
<1>1. CASE once[c]
  BY <1>1 DEF Close, Closed, Typed, Reporters
<1>2. CASE ~once[c] /\ safe /\ Complete(c)
  <2>1. /\ once' = [once EXCEPT ![c] = TRUE]
        /\ \/ report' = [report EXCEPT ![c]["own"] = "delay"]
           \/ report' = report
        /\ socket' = socket
    BY <1>2 DEF Close
  <2>2. CASE report' = [report EXCEPT ![c]["own"] = "delay"]
    BY <2>1, <2>2 DEF Closed, Typed, Reporters, ReportSteps
  <2>3. CASE report' = report
    BY <2>1, <2>3 DEF Closed, Typed, Reporters
  <2> QED
    BY <2>1, <2>2, <2>3
<1>3. CASE ~once[c] /\ ~(safe /\ Complete(c))
  <2>1. /\ once' = [once EXCEPT ![c] = TRUE]
        /\ report' = [report EXCEPT ![c]["own"] = "unregister"]
        /\ socket' = [socket EXCEPT ![c] = "closed"]
    BY <1>3 DEF Close
  <2> QED
    BY <2>1 DEF Closed, Typed, Reporters, ReportSteps
<1> QED
  BY <1>1, <1>2, <1>3

\* Every variable keeps its type: the connections and dials in the maps and in
\* the goroutines' locals are attempts.
LEMMA TypeStep == IInv /\ [Next]_vars => Typed'
<1> SUFFICES ASSUME IInv, [Next]_vars PROVE Typed'
  OBVIOUS
<1> USE ConnAssumption DEF IInv, Typed, vars, hubVars, connVars, downVars, Goto, Done,
                           Tasks, DialTasks, StartTasks, Reporters, ReportSteps
<1>1. ASSUME NEW c \in Conn, DialLimit(c) PROVE Typed'
  BY <1>1 DEF DialLimit
<1>2. ASSUME NEW c \in Conn, DialAdopt(c) PROVE Typed'
  BY <1>2 DEF DialAdopt
<1>3. ASSUME NEW c \in Conn, DialFails(c) PROVE Typed'
  BY <1>3 DEF DialFails
<1>4. ASSUME NEW c \in Conn, DialSucceeds(c) PROVE Typed'
  BY <1>4 DEF DialSucceeds
<1>5. ASSUME NEW c \in Conn, DialRejects(c) PROVE Typed'
  BY <1>5 DEF DialRejects
<1>6. ASSUME NEW c \in Conn, DialAccepts(c) PROVE Typed'
  BY <1>6 DEF DialAccepts
<1>7. ASSUME NEW c \in Conn, DialAwaited(c) PROVE Typed'
  BY <1>7 DEF DialAwaited
<1>8. ASSUME NEW c \in Conn, DialEnd(c) PROVE Typed'
  BY <1>8 DEF DialEnd
<1>9. ASSUME NEW c \in Conn, Supersede(c) PROVE Typed'
  BY <1>9 DEF Supersede
<1>10. ASSUME NEW c \in Conn, HttpLimit(c) PROVE Typed'
  BY <1>10 DEF HttpLimit
<1>11. ASSUME NEW c \in Conn, HttpDouble(c) PROVE Typed'
  BY <1>11 DEF HttpDouble
<1>12. ASSUME NEW c \in Conn, Upgrade(c) PROVE Typed'
  BY <1>12 DEF Upgrade
<1>13. ASSUME NEW c \in Conn, UpgradeRejects(c) PROVE Typed'
  BY <1>13 DEF UpgradeRejects
<1>14. ASSUME NEW c \in Conn, Run(c) PROVE Typed'
  BY <1>14 DEF Run
<1>15. ASSUME NEW c \in Conn, Register(c) PROVE Typed'
  BY <1>15 DEF Register
<1>16. ASSUME NEW c \in Conn, Retire(c) PROVE Typed'
  BY <1>16 DEF Retire
<1>17. ASSUME NEW c \in Conn, RetireDecides(c) PROVE Typed'
  BY <1>17 DEF RetireDecides
<1>18. ASSUME NEW c \in Conn, RetireCloses(c) PROVE Typed'
  BY <1>18, CloseEffect DEF RetireCloses
<1>19. ASSUME NEW c \in Conn, ReadError(c) PROVE Typed'
  BY <1>19, CloseEffect DEF ReadError
<1>20. ASSUME NEW c \in Conn, CloseOne(c) PROVE Typed'
  BY <1>20, CloseEffect DEF CloseOne
<1>21. ASSUME NEW c \in Conn, DialStart(c) PROVE Typed'
  BY <1>21 DEF DialStart
<1>22. ASSUME NEW c \in Conn, Incoming(c) PROVE Typed'
  BY <1>22 DEF Incoming
<1>23. ASSUME NEW c \in Conn, Completes(c) PROVE Typed'
  BY <1>23 DEF Completes
<1>24. ASSUME NEW c \in Conn, Fails(c) PROVE Typed'
  BY <1>24, CloseEffect DEF Fails
<1>25. ASSUME NEW c \in Conn, PeerAnnounces(c) PROVE Typed'
  BY <1>25 DEF PeerAnnounces
<1>26. ASSUME NEW c \in Conn, PeerConfirms(c) PROVE Typed'
  BY <1>26 DEF PeerConfirms
<1>27. ASSUME NEW c \in Conn, NEW k \in Reporters, DelayOver(c, k) PROVE Typed'
  BY <1>27 DEF DelayOver
<1>28. ASSUME NEW c \in Conn, NEW k \in Reporters, Unregister(c, k) PROVE Typed'
  <2>1. connections' \in [SKI -> Conn \cup {None}]
    BY <1>28 DEF Unregister
  <2>2. report' \in [Conn -> [Reporters -> ReportSteps]]
    <3>1. PICK r \in ReportSteps : report' = [report EXCEPT ![c][k] = r]
      BY <1>28 DEF Unregister
    <3> QED
      BY <3>1
  <2> QED
    BY <1>28, <2>1, <2>2 DEF Unregister
<1>29. ASSUME NEW c \in Conn, NEW k \in Reporters, CheckDisplaced(c, k) PROVE Typed'
  BY <1>29 DEF CheckDisplaced
<1>30. ASSUME NEW c \in Conn, Loses(c) PROVE Typed'
  BY <1>30 DEF Loses
<1>31. ASSUME NEW s \in SKI, Disconnect(s) PROVE Typed'
  BY ZenonT(60), <1>31, CloseEffect DEF Disconnect, Connected
<1>32. CASE StopServer \/ CloseAll \/ Restart \/ UNCHANGED vars
  BY <1>32 DEF StopServer, CloseAll, Restart
<1> QED
  BY SMTT(30), <1>1, <1>2, <1>3, <1>4, <1>5, <1>6, <1>7, <1>8, <1>9, <1>10, <1>11, <1>12, <1>13, <1>14, <1>15, <1>16, <1>17, <1>18, <1>19, <1>20, <1>21, <1>22, <1>23, <1>24, <1>25, <1>26, <1>27, <1>28, <1>29, <1>30, <1>31, <1>32 DEF Next, Advance, Retiring, Environment, Reporting

\* A dial never takes a step of ServeHTTP, nor an incoming connection one of
\* connectFoundService.
LEMMA RoleStep == IInv /\ Typed' /\ [Next]_vars => RoleInv'
<1> SUFFICES ASSUME IInv, Typed', [Next]_vars PROVE RoleInv'
  OBVIOUS
<1> USE ConnAssumption DEF IInv, Typed, vars, hubVars, connVars, downVars, Goto, Done, RoleInv, DialTasks, StartTasks
<1>1. ASSUME NEW c \in Conn, DialStart(c) PROVE RoleInv'
  BY <1>1 DEF DialStart
<1>2. ASSUME NEW c \in Conn, DialLimit(c) PROVE RoleInv'
  BY <1>2 DEF DialLimit
<1>3. ASSUME NEW c \in Conn, DialFails(c) PROVE RoleInv'
  BY <1>3 DEF DialFails
<1>4. ASSUME NEW c \in Conn, DialSucceeds(c) PROVE RoleInv'
  BY <1>4 DEF DialSucceeds
<1>5. ASSUME NEW c \in Conn, DialRejects(c) PROVE RoleInv'
  BY <1>5 DEF DialRejects
<1>6. ASSUME NEW c \in Conn, DialAccepts(c) PROVE RoleInv'
  BY <1>6 DEF DialAccepts
<1>7. ASSUME NEW c \in Conn, DialAwaited(c) PROVE RoleInv'
  BY <1>7 DEF DialAwaited
<1>8. ASSUME NEW c \in Conn, DialEnd(c) PROVE RoleInv'
  BY <1>8 DEF DialEnd
<1>9. ASSUME NEW c \in Conn, Incoming(c) PROVE RoleInv'
  BY <1>9 DEF Incoming
<1>10. ASSUME NEW c \in Conn, Supersede(c) PROVE RoleInv'
  BY <1>10 DEF Supersede
<1>11. ASSUME NEW c \in Conn, HttpLimit(c) PROVE RoleInv'
  BY <1>11 DEF HttpLimit
<1>12. ASSUME NEW c \in Conn, HttpDouble(c) PROVE RoleInv'
  BY <1>12 DEF HttpDouble
<1>13. ASSUME NEW c \in Conn, Upgrade(c) PROVE RoleInv'
  BY <1>13 DEF Upgrade
<1>14. ASSUME NEW c \in Conn, UpgradeRejects(c) PROVE RoleInv'
  BY <1>14 DEF UpgradeRejects
<1>15. ASSUME NEW c \in Conn, Run(c) PROVE RoleInv'
  BY <1>15 DEF Run
<1>16. ASSUME NEW c \in Conn, Register(c) PROVE RoleInv'
  BY <1>16 DEF Register
<1>17. ASSUME NEW c \in Conn, Retire(c) PROVE RoleInv'
  BY <1>17 DEF Retire
<1>18. ASSUME NEW c \in Conn, DialAdopt(c) \/ RetireDecides(c) \/ RetireCloses(c) \/ ReadError(c) \/ CloseOne(c) \/ Completes(c) \/ Fails(c) \/ Loses(c)
                           \/ PeerAnnounces(c) \/ PeerConfirms(c)
      PROVE  RoleInv'
  BY <1>18 DEF DialAdopt, RetireDecides, RetireCloses, ReadError, CloseOne, Completes, Fails, Loses, PeerAnnounces, PeerConfirms
<1>19. ASSUME NEW c \in Conn, NEW k \in Reporters, DelayOver(c, k) \/ Unregister(c, k) \/ CheckDisplaced(c, k)
      PROVE  RoleInv'
  BY <1>19 DEF DelayOver, Unregister, CheckDisplaced
<1>20. ASSUME NEW s \in SKI, Disconnect(s) PROVE RoleInv'
  BY <1>20 DEF Disconnect
<1>21. CASE StopServer \/ CloseAll \/ Restart \/ UNCHANGED vars
  BY <1>21 DEF StopServer, CloseAll, Restart
<1> QED
  BY <1>1, <1>2, <1>3, <1>4, <1>5, <1>6, <1>7, <1>8, <1>9, <1>10, <1>11, <1>12, <1>13, <1>14, <1>15, <1>16, <1>17, <1>18, <1>19, <1>20, <1>21
     DEF Next, Advance, Retiring, Environment, Reporting

\* Only a dial is entered in connectionsInitiating, so only a dial is superseded.
LEMMA DialStep == IInv /\ Typed' /\ [Next]_vars => DialInv'
<1> SUFFICES ASSUME IInv, Typed', [Next]_vars PROVE DialInv'
  OBVIOUS
<1> USE ConnAssumption DEF IInv, Typed, vars, hubVars, connVars, downVars, Goto, Done, DialInv
<1>1. ASSUME NEW c \in Conn, DialStart(c) PROVE DialInv'
  BY <1>1 DEF DialStart
<1>2. ASSUME NEW c \in Conn, DialLimit(c) PROVE DialInv'
  BY <1>2 DEF DialLimit
<1>3. ASSUME NEW c \in Conn, DialFails(c) PROVE DialInv'
  BY <1>3 DEF DialFails
<1>4. ASSUME NEW c \in Conn, DialSucceeds(c) PROVE DialInv'
  BY <1>4 DEF DialSucceeds
<1>5. ASSUME NEW c \in Conn, DialRejects(c) PROVE DialInv'
  BY <1>5 DEF DialRejects
<1>6. ASSUME NEW c \in Conn, DialAccepts(c) PROVE DialInv'
  BY <1>6 DEF DialAccepts
<1>7. ASSUME NEW c \in Conn, DialAwaited(c) PROVE DialInv'
  BY <1>7 DEF DialAwaited
<1>8. ASSUME NEW c \in Conn, DialEnd(c) PROVE DialInv'
  BY <1>8 DEF DialEnd
<1>9. ASSUME NEW c \in Conn, Incoming(c) PROVE DialInv'
  BY <1>9 DEF Incoming
<1>10. ASSUME NEW c \in Conn, Supersede(c) PROVE DialInv'
  BY <1>10 DEF Supersede
<1>11. ASSUME NEW c \in Conn, HttpLimit(c) PROVE DialInv'
  BY <1>11 DEF HttpLimit
<1>12. ASSUME NEW c \in Conn, HttpDouble(c) PROVE DialInv'
  BY <1>12 DEF HttpDouble
<1>13. ASSUME NEW c \in Conn, Upgrade(c) PROVE DialInv'
  BY <1>13 DEF Upgrade
<1>14. ASSUME NEW c \in Conn, UpgradeRejects(c) PROVE DialInv'
  BY <1>14 DEF UpgradeRejects
<1>15. ASSUME NEW c \in Conn, Run(c) PROVE DialInv'
  BY <1>15 DEF Run
<1>16. ASSUME NEW c \in Conn, Register(c) PROVE DialInv'
  BY <1>16 DEF Register
<1>17. ASSUME NEW c \in Conn, Retire(c) PROVE DialInv'
  BY <1>17 DEF Retire
<1>18. ASSUME NEW c \in Conn, DialAdopt(c) \/ RetireDecides(c) \/ RetireCloses(c) \/ ReadError(c) \/ CloseOne(c) \/ Completes(c) \/ Fails(c) \/ Loses(c)
                           \/ PeerAnnounces(c) \/ PeerConfirms(c)
      PROVE  DialInv'
  BY ZenonT(60), <1>18 DEF DialAdopt, RetireDecides, RetireCloses, ReadError, CloseOne, Completes, Fails, Loses, PeerAnnounces, PeerConfirms
<1>19. ASSUME NEW c \in Conn, NEW k \in Reporters, DelayOver(c, k) \/ Unregister(c, k) \/ CheckDisplaced(c, k)
      PROVE  DialInv'
  BY <1>19 DEF DelayOver, Unregister, CheckDisplaced
<1>20. ASSUME NEW s \in SKI, Disconnect(s) PROVE DialInv'
  BY <1>20 DEF Disconnect
<1>21. CASE StopServer \/ CloseAll \/ Restart \/ UNCHANGED vars
  BY <1>21 DEF StopServer, CloseAll, Restart
<1> QED
  BY <1>1, <1>2, <1>3, <1>4, <1>5, <1>6, <1>7, <1>8, <1>9, <1>10, <1>11, <1>12, <1>13, <1>14, <1>15, <1>16, <1>17, <1>18, <1>19, <1>20, <1>21
     DEF Next, Advance, Retiring, Environment, Reporting

\* The guard of connectFoundService and its deferred delete keep the dials of a
\* SKI apart.
LEMMA OneDialStep == IInv /\ Typed' /\ [Next]_vars => OneDialPerSKI'
<1> SUFFICES ASSUME IInv, Typed', [Next]_vars PROVE OneDialPerSKI'
  OBVIOUS
<1> USE ConnAssumption DEF IInv, Typed, vars, hubVars, connVars, downVars, Goto, Done, OneDialPerSKI, RoleInv, DialTasks, StartTasks
<1>1. ASSUME NEW c \in Conn, DialStart(c) PROVE OneDialPerSKI'
  BY <1>1 DEF DialStart
<1>2. ASSUME NEW c \in Conn, DialLimit(c) PROVE OneDialPerSKI'
  BY <1>2 DEF DialLimit
<1>3. ASSUME NEW c \in Conn, DialFails(c) PROVE OneDialPerSKI'
  BY ZenonT(60), <1>3 DEF DialFails
<1>4. ASSUME NEW c \in Conn, DialSucceeds(c) PROVE OneDialPerSKI'
  BY <1>4 DEF DialSucceeds
<1>5. ASSUME NEW c \in Conn, DialRejects(c) PROVE OneDialPerSKI'
  BY <1>5 DEF DialRejects
<1>6. ASSUME NEW c \in Conn, DialAccepts(c) PROVE OneDialPerSKI'
  BY SMTT(30), <1>6 DEF DialAccepts
<1>7. ASSUME NEW c \in Conn, DialAwaited(c) PROVE OneDialPerSKI'
  BY <1>7 DEF DialAwaited
<1>8. ASSUME NEW c \in Conn, DialEnd(c) PROVE OneDialPerSKI'
  BY <1>8 DEF DialEnd
<1>9. ASSUME NEW c \in Conn, Incoming(c) PROVE OneDialPerSKI'
  BY <1>9 DEF Incoming
<1>10. ASSUME NEW c \in Conn, Supersede(c) PROVE OneDialPerSKI'
  BY <1>10 DEF Supersede
<1>11. ASSUME NEW c \in Conn, HttpLimit(c) PROVE OneDialPerSKI'
  BY <1>11 DEF HttpLimit
<1>12. ASSUME NEW c \in Conn, HttpDouble(c) PROVE OneDialPerSKI'
  BY <1>12 DEF HttpDouble
<1>13. ASSUME NEW c \in Conn, Upgrade(c) PROVE OneDialPerSKI'
  BY <1>13 DEF Upgrade
<1>14. ASSUME NEW c \in Conn, UpgradeRejects(c) PROVE OneDialPerSKI'
  BY <1>14 DEF UpgradeRejects
<1>15. ASSUME NEW c \in Conn, Run(c) PROVE OneDialPerSKI'
  BY <1>15 DEF Run
<1>16. ASSUME NEW c \in Conn, Register(c) PROVE OneDialPerSKI'
  BY <1>16 DEF Register
<1>17. ASSUME NEW c \in Conn, Retire(c) PROVE OneDialPerSKI'
  BY <1>17 DEF Retire
<1>18. ASSUME NEW c \in Conn, DialAdopt(c) \/ RetireDecides(c) \/ RetireCloses(c) \/ ReadError(c) \/ CloseOne(c) \/ Completes(c) \/ Fails(c) \/ Loses(c)
                           \/ PeerAnnounces(c) \/ PeerConfirms(c)
      PROVE  OneDialPerSKI'
  BY <1>18 DEF DialAdopt, RetireDecides, RetireCloses, ReadError, CloseOne, Completes, Fails, Loses, PeerAnnounces, PeerConfirms
<1>19. ASSUME NEW c \in Conn, NEW k \in Reporters, DelayOver(c, k) \/ Unregister(c, k) \/ CheckDisplaced(c, k)
      PROVE  OneDialPerSKI'
  BY <1>19 DEF DelayOver, Unregister, CheckDisplaced
<1>20. ASSUME NEW s \in SKI, Disconnect(s) PROVE OneDialPerSKI'
  BY <1>20 DEF Disconnect
<1>21. CASE StopServer \/ CloseAll \/ Restart \/ UNCHANGED vars
  BY <1>21 DEF StopServer, CloseAll, Restart
<1> QED
  BY <1>1, <1>2, <1>3, <1>4, <1>5, <1>6, <1>7, <1>8, <1>9, <1>10, <1>11, <1>12, <1>13, <1>14, <1>15, <1>16, <1>17, <1>18, <1>19, <1>20, <1>21
     DEF Next, Advance, Retiring, Environment, Reporting

\* The three invariants about sockets, which the closing actions share.
SocketInv == StartInv /\ LiveIsAccountedFor /\ SupersededHasNoSocket

\* A call of CloseConnection for a started connection keeps them: the goroutine
\* that was to close it may go once shutdownOnce has run.
LEMMA ClosingKeeps ==
    ASSUME SocketInv, NEW c \in Conn, Started(c), Closed(c),
           UNCHANGED <<connections, superseded, task, other, hs>>,
           \A d \in Conn : retiring'[d] = retiring[d] \/ (d = c /\ retiring'[d] = "no"),
           toClose' \subseteq toClose
    PROVE  SocketInv'
<1>1. StartInv'
  BY DEF SocketInv, StartInv, Closed, Started, Connected, Reporters
<1>2. LiveIsAccountedFor'
  <2> SUFFICES ASSUME NEW d \in Conn, Started(d), socket'[d] = "open"
               PROVE  LiveIsAccountedFor!(d)'
    BY DEF LiveIsAccountedFor, Started
  <2>1. CASE d = c
    BY <2>1 DEF Closed
  <2>2. CASE d # c
    <3>1. socket[d] = "open" /\ LiveIsAccountedFor!(d)
      BY DEF Closed, SocketInv, LiveIsAccountedFor, Started
    <3> QED
      BY <2>2, <3>1 DEF Closed, Reporters, Started
  <2> QED
    BY <2>1, <2>2
<1>3. SupersededHasNoSocket'
  BY DEF SocketInv, SupersededHasNoSocket, Closed
<1> QED
  BY <1>1, <1>2, <1>3 DEF SocketInv

\* A step of HandleConnectionClosed or of the read pump keeps them.
LEMMA ReportingKeeps ==
    ASSUME SocketInv, NEW c \in Conn, NEW k \in Reporters, NEW r, Started(c),
           \A d \in Conn, j \in Reporters :
               report'[d][j] = IF d = c /\ j = k THEN r ELSE report[d][j],
           \A d \in Conn : socket'[d] \in {socket[d], "closed"},
           report[c][k] = "delay" \/ r \in {"unregister", "check", "told", "quiet"}
               => socket'[c] # "open",
           \A s \in SKI : connections'[s] # connections[s] =>
               connections[s] = c /\ connections'[s] = None /\ socket'[c] # "open",
           UNCHANGED <<superseded, task, other, hs, once, retiring, toClose>>
    PROVE  SocketInv'
<1>1. StartInv'
  <2>1. \A s \in SKI : Connected(s)' => Started(connections[s])'
    BY DEF SocketInv, StartInv, Started, Connected
  <2>2. ASSUME NEW d \in Conn
        PROVE  /\ Started(d)' => task'[d] \in {"register", "retire", "dialEnd", "ended"}
               /\ task'[d] = "register" => Started(d)'
               /\ task'[d] = "retire" => other'[d] \in Conn /\ Started(other[d])'
               /\ retiring'[d] # "no" \/ d \in toClose' => Started(d)'
    BY DEF SocketInv, StartInv, Started
  <2>3. ASSUME NEW d \in Conn, NEW j \in Reporters
        PROVE  /\ report'[d][j] # "idle" => Started(d)'
               /\ report'[d][j] \in {"unregister", "check", "told", "quiet"}
                     => socket'[d] # "open"
    BY DEF SocketInv, StartInv, Started
  <2> QED
    BY <2>1, <2>2, <2>3 DEF StartInv, Started
<1>2. LiveIsAccountedFor'
  <2> SUFFICES ASSUME NEW d \in Conn, Started(d), socket'[d] = "open"
               PROVE  LiveIsAccountedFor!(d)'
    BY DEF LiveIsAccountedFor, Started
  <2> QED
    BY ConnAssumption DEF SocketInv, LiveIsAccountedFor, Started, Reporters
<1>3. SupersededHasNoSocket'
  BY DEF SocketInv, SupersededHasNoSocket
<1> QED
  BY <1>1, <1>2, <1>3 DEF SocketInv

\* Nothing happens to a connection before Run has started it.
LEMMA AdvanceStart ==
    ASSUME IInv, NEW c \in Conn, Advance(c) \/ DialStart(c) \/ Incoming(c) \/ Completes(c)
    PROVE  StartInv'
<1> USE ConnAssumption DEF IInv, Typed, vars, hubVars, connVars, downVars, Goto, Done, StartInv, Started, Connected
<1>1. CASE DialStart(c)
  BY <1>1 DEF DialStart
<1>2. CASE DialLimit(c)
  BY <1>2 DEF DialLimit
<1>3. CASE DialAdopt(c)
  BY <1>3 DEF DialAdopt
<1>4. CASE DialFails(c)
  <2>1. CASE superseded[c]
    BY <1>4, <2>1 DEF DialFails
  <2>2. CASE ~superseded[c] /\ task[c] = "dialPath"
    BY <1>4, <2>2 DEF DialFails
  <2>3. CASE ~superseded[c] /\ task[c] = "dialBare"
    BY <1>4, <2>3 DEF DialFails
  <2> QED
    BY <2>1, <2>2, <2>3, <1>4 DEF DialFails
<1>5. CASE DialSucceeds(c)
  BY <1>5 DEF DialSucceeds
<1>6. CASE DialRejects(c)
  BY <1>6 DEF DialRejects
<1>7. CASE DialAccepts(c)
  <2>1. CASE superseded[c]
    BY <1>7, <2>1 DEF DialAccepts
  <2>2. CASE ~superseded[c]
    BY <1>7, <2>2 DEF DialAccepts
  <2> QED
    BY <2>1, <2>2
<1>8. CASE DialAwaited(c)
  BY <1>8 DEF DialAwaited
<1>9. CASE DialEnd(c)
  BY <1>9 DEF DialEnd
<1>10. CASE Incoming(c)
  BY <1>10 DEF Incoming
<1>11. CASE Supersede(c)
  BY <1>11 DEF Supersede
<1>12. CASE HttpLimit(c)
  BY <1>12 DEF HttpLimit
<1>13. CASE HttpDouble(c)
  BY <1>13 DEF HttpDouble
<1>14. CASE Upgrade(c)
  BY <1>14 DEF Upgrade
<1>15. CASE UpgradeRejects(c)
  BY <1>15 DEF UpgradeRejects
<1>16. CASE Run(c)
  BY <1>16 DEF Run
<1>17. CASE Register(c)
  BY <1>17 DEF Register
<1>18. CASE Retire(c)
  BY <1>18 DEF Retire
<1>19. CASE Completes(c)
  BY <1>19 DEF Completes
<1> QED
  BY <1>1, <1>2, <1>3, <1>4, <1>5, <1>6, <1>7, <1>8, <1>9, <1>10, <1>11, <1>12, <1>13, <1>14, <1>15, <1>16, <1>17, <1>18, <1>19 DEF Advance

\* Before Run and after Retire an attempt has no part in the accounting.
LEMMA OthersKeepLive ==
    ASSUME IInv, NEW c \in Conn, task[c] \notin {"register", "retire"},
           \A d \in Conn : d # c => task'[d] = task[d] /\ other'[d] = other[d],
           \A d \in Conn : socket'[d] \in {socket[d], "cut", "closed"} \/ ~Started(d),
           task'[c] # "retire",
           UNCHANGED <<connections, hs, once, report, retiring>>
    PROVE  LiveIsAccountedFor'
<1> SUFFICES ASSUME NEW d \in Conn, Started(d), socket'[d] = "open"
             PROVE  LiveIsAccountedFor!(d)'
  BY DEF LiveIsAccountedFor, Started
<1>1. socket[d] = "open" /\ LiveIsAccountedFor!(d)
  BY DEF IInv, LiveIsAccountedFor, Started
<1>2. CASE task[d] = "register"
  BY <1>2
<1>3. CASE \E e \in Conn : task[e] = "retire" /\ other[e] = d
  BY <1>3
<1> QED
  BY <1>1, <1>2, <1>3

\* A connection leaves the registry into the hands of retire.
LEMMA AdvanceLive ==
    ASSUME IInv, NEW c \in Conn, Advance(c) \/ DialStart(c) \/ Incoming(c) \/ Completes(c)
    PROVE  LiveIsAccountedFor'
<1> USE ConnAssumption DEF Typed, hubVars, connVars, downVars, Goto, Done
<1>1. CASE DialStart(c) \/ DialLimit(c) \/ DialSucceeds(c) \/ DialAwaited(c) \/ DialEnd(c)
  BY ZenonT(60), <1>1, OthersKeepLive DEF IInv, DialStart, DialLimit, DialSucceeds, DialAwaited, DialEnd
<1>2. CASE DialAdopt(c) \/ DialRejects(c) \/ DialAccepts(c)
  <2>1. task[c] \notin {"register", "retire"} /\ ~Started(c)
    BY <1>2 DEF IInv, StartInv, DialAdopt, DialRejects, DialAccepts
  <2> QED
    BY <1>2, <2>1, OthersKeepLive DEF IInv, DialAdopt, DialRejects, DialAccepts
<1>3. CASE DialFails(c)
  <2>1. task[c] \notin {"register", "retire"} /\ ~Started(c)
    BY <1>3 DEF IInv, StartInv, DialFails
  <2> QED
    BY SMTT(30), <1>3, <2>1, OthersKeepLive DEF IInv, DialFails
<1>4. CASE Incoming(c) \/ Supersede(c)
  BY SMTT(30), <1>4, OthersKeepLive DEF IInv, Incoming, Supersede
<1>5. CASE HttpLimit(c) \/ HttpDouble(c) \/ UpgradeRejects(c)
  BY <1>5, OthersKeepLive DEF IInv, HttpLimit, HttpDouble, UpgradeRejects
<1>6. CASE Upgrade(c)
  <2>1. ~Started(c)
    BY <1>6 DEF IInv, StartInv, Upgrade
  <2> QED
    BY <1>6, <2>1, OthersKeepLive DEF IInv, Upgrade
<1>7. CASE Run(c)
  BY <1>7 DEF IInv, LiveIsAccountedFor, Run, Started
<1>8. CASE Register(c)
  BY <1>8 DEF IInv, LiveIsAccountedFor, Register, Started, Connected
<1>9. CASE Retire(c)
  BY <1>9 DEF IInv, LiveIsAccountedFor, Retire, StartInv, Started
<1>10. CASE Completes(c)
  BY <1>10 DEF IInv, LiveIsAccountedFor, Completes, Started
<1> QED
  BY <1>1, <1>2, <1>3, <1>4, <1>5, <1>6, <1>7, <1>8, <1>9, <1>10 DEF Advance

\* Supersede closes the socket dialState holds, adopt closes one that comes later.
LEMMA AdvanceSuperseded ==
    ASSUME IInv, NEW c \in Conn, Advance(c) \/ DialStart(c) \/ Incoming(c) \/ Completes(c)
    PROVE  SupersededHasNoSocket'
<1> USE ConnAssumption DEF IInv, Typed, vars, hubVars, connVars, downVars, Goto, Done, SupersededHasNoSocket, DialInv, RoleInv, DialTasks
<1>1. CASE DialStart(c)
  BY <1>1 DEF DialStart
<1>2. CASE DialLimit(c)
  BY <1>2 DEF DialLimit
<1>3. CASE DialAdopt(c)
  BY <1>3 DEF DialAdopt
<1>4. CASE DialFails(c)
  <2>1. CASE superseded[c]
    BY <1>4, <2>1 DEF DialFails
  <2>2. CASE ~superseded[c] /\ task[c] = "dialPath"
    BY <1>4, <2>2 DEF DialFails
  <2>3. CASE ~superseded[c] /\ task[c] = "dialBare"
    BY <1>4, <2>3 DEF DialFails
  <2> QED
    BY <2>1, <2>2, <2>3, <1>4 DEF DialFails
<1>5. CASE DialSucceeds(c)
  BY <1>5 DEF DialSucceeds
<1>6. CASE DialRejects(c)
  BY <1>6 DEF DialRejects
<1>7. CASE DialAccepts(c)
  <2>1. CASE superseded[c]
    BY <1>7, <2>1 DEF DialAccepts
  <2>2. CASE ~superseded[c]
    BY <1>7, <2>2 DEF DialAccepts
  <2> QED
    BY <2>1, <2>2
<1>8. CASE DialAwaited(c)
  BY <1>8 DEF DialAwaited
<1>9. CASE DialEnd(c)
  BY <1>9 DEF DialEnd
<1>10. CASE Incoming(c)
  BY <1>10 DEF Incoming
<1>11. CASE Supersede(c)
  BY <1>11 DEF Supersede
<1>12. CASE HttpLimit(c)
  BY <1>12 DEF HttpLimit
<1>13. CASE HttpDouble(c)
  BY <1>13 DEF HttpDouble
<1>14. CASE Upgrade(c)
  BY <1>14 DEF Upgrade
<1>15. CASE UpgradeRejects(c)
  BY <1>15 DEF UpgradeRejects
<1>16. CASE Run(c)
  BY <1>16 DEF Run
<1>17. CASE Register(c)
  BY <1>17 DEF Register
<1>18. CASE Retire(c)
  BY <1>18 DEF Retire
<1>19. CASE Completes(c)
  BY <1>19 DEF Completes
<1> QED
  BY <1>1, <1>2, <1>3, <1>4, <1>5, <1>6, <1>7, <1>8, <1>9, <1>10, <1>11, <1>12, <1>13, <1>14, <1>15, <1>16, <1>17, <1>18, <1>19 DEF Advance

\* Every caller of CloseConnection closes a connection that Run has started.
LEMMA ClosingStep ==
    ASSUME IInv, NEW c \in Conn,
           \/ RetireCloses(c) \/ ReadError(c) \/ CloseOne(c) \/ Fails(c)
           \/ \E s \in SKI : connections[s] = c /\ Disconnect(s)
    PROVE  SocketInv'
<1>1. Started(c)
  BY DEF IInv, StartInv, RetireCloses, ReadError, CloseOne, Fails, Disconnect, Started, Connected
<1>2. Closed(c)
  BY CloseEffect DEF IInv, RetireCloses, ReadError, CloseOne, Fails, Disconnect
<1>3. UNCHANGED <<connections, superseded, task, other, hs>>
  BY DEF RetireCloses, ReadError, CloseOne, Fails, Disconnect, hubVars
<1>4. \A d \in Conn : retiring'[d] = retiring[d] \/ (d = c /\ retiring'[d] = "no")
  <2>1. retiring' = retiring \/ retiring' = [retiring EXCEPT ![c] = "no"]
    BY DEF RetireCloses, ReadError, CloseOne, Fails, Disconnect
  <2> QED
    BY <2>1 DEF IInv, Typed
<1>5. toClose' \subseteq toClose
  BY DEF RetireCloses, ReadError, CloseOne, Fails, Disconnect, downVars
<1> QED
  BY <1>1, <1>2, <1>3, <1>4, <1>5, ClosingKeeps DEF IInv, SocketInv

\* Every step of a report is of a started connection.
LEMMA ReportingStep ==
    ASSUME IInv, NEW c \in Conn, NEW k \in Reporters, Reporting(c, k)
    PROVE  SocketInv'
<1> USE DEF IInv, Typed, hubVars, downVars
<1>1. Started(c)
  BY DEF StartInv, Reporting, DelayOver, Unregister, CheckDisplaced, Started
<1>2. CASE DelayOver(c, k)
  BY <1>1, <1>2, ReportingKeeps DEF DelayOver, SocketInv
<1>3. CASE Unregister(c, k)
  <2>1. socket[c] # "open"
    BY <1>3 DEF StartInv, Unregister
  <2>2. PICK r \in {"told", "check"} : report' = [report EXCEPT ![c][k] = r]
    BY <1>3 DEF Unregister
  <2> QED
    BY <1>1, <1>3, <2>1, <2>2, ReportingKeeps DEF Unregister, SocketInv
<1>4. CASE CheckDisplaced(c, k)
  <2>1. socket[c] # "open"
    BY <1>4 DEF StartInv, CheckDisplaced
  <2> QED
    BY <1>1, <1>4, <2>1, ReportingKeeps DEF CheckDisplaced, SocketInv
<1> QED
  BY <1>2, <1>3, <1>4 DEF Reporting

\* A pump that meets an error closes a started connection and nothing else.
LEMMA LosingStep ==
    ASSUME IInv, NEW c \in Conn, Loses(c)
    PROVE  SocketInv'
<1>1. \A d \in Conn : socket'[d] \in {socket[d], "closed"}
  BY DEF IInv, Typed, Loses
<1>2. UNCHANGED <<connections, superseded, task, other, hs, once, report, retiring, toClose>>
  BY DEF Loses, hubVars, downVars
<1>3. StartInv'
  BY <1>1, <1>2 DEF IInv, StartInv, Started, Connected, Reporters
<1>4. LiveIsAccountedFor'
  BY <1>1, <1>2 DEF IInv, LiveIsAccountedFor, Started
<1>5. SupersededHasNoSocket'
  BY <1>1, <1>2 DEF IInv, SupersededHasNoSocket
<1> QED
  BY <1>3, <1>4, <1>5 DEF SocketInv

\* An end that the peer asks for starts the report of the read pump.
LEMMA PeerStep ==
    ASSUME IInv, NEW c \in Conn, PeerAnnounces(c) \/ PeerConfirms(c)
    PROVE  SocketInv'
<1> USE DEF IInv, Typed, hubVars, downVars, Reporters
<1>1. Started(c)
  BY DEF StartInv, PeerAnnounces, PeerConfirms, Started
<1>2. CASE PeerAnnounces(c)
  BY <1>1, <1>2, ReportingKeeps DEF PeerAnnounces, SocketInv
<1>3. CASE PeerConfirms(c)
  BY <1>1, <1>3, ReportingKeeps DEF PeerConfirms, SocketInv
<1> QED
  BY <1>2, <1>3

\* Shutdown and the first half of the goroutine of retire only take notes.
LEMMA NotingStep ==
    ASSUME IInv,
           \/ \E c \in Conn : RetireDecides(c)
           \/ StopServer \/ CloseAll \/ Restart \/ UNCHANGED vars
    PROVE  SocketInv'
<1> USE ConnAssumption DEF IInv, Typed, vars, hubVars, connVars, downVars
<1>1. /\ UNCHANGED <<connections, superseded, task, other, socket, hs, once, report>>
      /\ \A d \in Conn : retiring'[d] = "no" <=> retiring[d] = "no"
      /\ \A d \in toClose' : d \in toClose \/ connections[RemoteSKI[d]] = d
  BY DEF RetireDecides, StopServer, CloseAll, Restart
<1>2. StartInv'
  BY <1>1 DEF StartInv, Started, Connected
<1>3. LiveIsAccountedFor'
  BY <1>1 DEF LiveIsAccountedFor, Started
<1>4. SupersededHasNoSocket'
  BY <1>1 DEF SupersededHasNoSocket
<1> QED
  BY <1>2, <1>3, <1>4 DEF SocketInv

LEMMA InitLemma == Init => IInv
<1> SUFFICES ASSUME Init PROVE IInv
  OBVIOUS
<1>1. Typed
  BY DEF Init, Typed, Tasks, ReportSteps
<1>2. RoleInv /\ DialInv
  BY ConnAssumption DEF Init, RoleInv, DialInv, DialTasks
<1>3. StartInv
  BY DEF Init, StartInv, Started, Connected
<1>4. LiveIsAccountedFor /\ OneDialPerSKI /\ SupersededHasNoSocket
  BY ConnAssumption DEF Init, LiveIsAccountedFor, OneDialPerSKI, SupersededHasNoSocket, Started
<1> QED
  BY <1>1, <1>2, <1>3, <1>4 DEF IInv

LEMMA InductiveStep == IInv /\ [Next]_vars => IInv'
<1> SUFFICES ASSUME IInv, [Next]_vars PROVE IInv'
  OBVIOUS
<1>1. Typed' /\ RoleInv' /\ DialInv' /\ OneDialPerSKI'
  BY TypeStep, RoleStep, DialStep, OneDialStep
<1>2. SocketInv'
  <2>1. ASSUME NEW c \in Conn, Advance(c) \/ DialStart(c) \/ Incoming(c) \/ Completes(c)
        PROVE  SocketInv'
    BY <2>1, AdvanceStart, AdvanceLive, AdvanceSuperseded DEF SocketInv
  <2>2. ASSUME NEW c \in Conn, RetireCloses(c) \/ ReadError(c) \/ CloseOne(c) \/ Fails(c)
        PROVE  SocketInv'
    BY <2>2, ClosingStep
  <2>3. ASSUME NEW s \in SKI, Disconnect(s) PROVE SocketInv'
    <3>1. connections[s] \in Conn
      BY <2>3 DEF IInv, Typed, Disconnect, Connected
    <3> QED
      BY <2>3, <3>1, ClosingStep
  <2>4. ASSUME NEW c \in Conn, NEW k \in Reporters, Reporting(c, k) PROVE SocketInv'
    BY <2>4, ReportingStep
  <2>5. ASSUME NEW c \in Conn, Loses(c) \/ PeerAnnounces(c) \/ PeerConfirms(c) PROVE SocketInv'
    BY <2>5, PeerStep, LosingStep
  <2>6. CASE \/ \E c \in Conn : RetireDecides(c)
             \/ StopServer \/ CloseAll \/ Restart \/ UNCHANGED vars
    BY <2>6, NotingStep
  <2> QED
    BY <2>1, <2>2, <2>3, <2>4, <2>5, <2>6 DEF Next, Retiring, Environment
<1> QED
  BY <1>1, <1>2 DEF IInv, SocketInv

LEMMA Inductive == Spec => []IInv
<1> QED
  BY InitLemma, InductiveStep, PTL DEF Spec

-----------------------------------------------------------------------------
(* The theorems. *)

\* The registry, the dials and the locals of every goroutine of the hub hold
\* attempts and nothing else, and each goroutine takes the steps of its role,
\* through every closing and registering step.
THEOREM TypeCorrect == Spec => []TypeOK
<1>1. IInv => TypeOK
  BY DEF IInv, TypeOK
<1> QED
  BY <1>1, Inductive, PTL

\* registerConnection and retire lose no connection: one that is up is registered,
\* about to be, or in the hands of somebody who closes it.
THEOREM Accounted == Spec => []LiveIsAccountedFor
<1>1. IInv => LiveIsAccountedFor
  BY DEF IInv
<1> QED
  BY <1>1, Inductive, PTL

\* The in-flight guard of connectFoundService admits one dial per SKI, although
\* its deferred delete goes by SKI.
THEOREM OneDial == Spec => []OneDialPerSKI
<1>1. IInv => OneDialPerSKI
  BY DEF IInv
<1> QED
  BY <1>1, Inductive, PTL

\* A dial that an incoming connection has superseded keeps no open socket, in
\* whichever order dialState.supersede and dialState.adopt run.
THEOREM Superseded == Spec => []SupersededHasNoSocket
<1>1. IInv => SupersededHasNoSocket
  BY DEF IInv
<1> QED
  BY <1>1, Inductive, PTL

\* UnregisterConnectionIfMatch removes the entry of the connection that ends and
\* registerConnection hands a displaced one to retire: no other step touches the
\* registry.
THEOREM EntryLeaves == Spec => EntryLeavesByItsOwnEnd
<1>1. ASSUME IInv, [Next]_vars, NEW s \in SKI, Connected(s), connections'[s] # connections[s]
      PROVE  LeavesByItsOwnEnd(s)
  <2>1. \/ \E c \in Conn : Register(c)
        \/ \E c \in Conn, k \in Reporters : Unregister(c, k)
    BY ZenonT(60), <1>1 DEF Next, Advance, Retiring, Environment, Reporting, vars, hubVars,
         DialLimit, DialAdopt, DialFails, DialSucceeds, DialRejects, DialAccepts, DialAwaited,
         DialEnd, Supersede, HttpLimit, HttpDouble, Upgrade, UpgradeRejects, Run, Retire,
         RetireDecides, RetireCloses, ReadError, CloseOne, DialStart, Incoming, Completes,
         Fails, Loses, PeerAnnounces, PeerConfirms, DelayOver, CheckDisplaced, Disconnect,
         StopServer, CloseAll, Restart
  <2>2. ASSUME NEW c \in Conn, Register(c)
        PROVE  connections'[s] = c /\ c # None /\ other'[c] = connections[s]
    BY <1>1, <2>2, ConnAssumption DEF IInv, Typed, Register
  <2>3. ASSUME NEW c \in Conn, NEW k \in Reporters, Unregister(c, k)
        PROVE  /\ connections[s] = c /\ connections'[s] = None
               /\ report[c][k] = "unregister" /\ report'[c][k] = "told"
    BY <1>1, <2>3 DEF IInv, Typed, Unregister
  <2> QED
    BY <2>1, <2>2, <2>3 DEF LeavesByItsOwnEnd
<1>2. IInv /\ [Next]_vars => [\A s \in SKI : LeavesByItsOwnEnd(s)]_vars
  BY <1>1 DEF LeavesByItsOwnEnd
<1> QED
  BY <1>2, Inductive, PTL DEF Spec, EntryLeavesByItsOwnEnd
=============================================================================
