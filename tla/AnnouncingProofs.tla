------------------------ MODULE AnnouncingProofs ------------------------
(***************************************************************************)
(* What is announced over mDNS stays announced.  Proved of Announcing for  *)
(* any number of announcements, callers, IDs and interfaces, and for every *)
(* order in which interfaces, daemon, provider and goroutines move.        *)
(*                                                                         *)
(* PairingIsAccountedFor is not inductive.  AInv adds                      *)
(*   - that an ID stands for the service it is held for, in the table, in  *)
(*     the manager, in a call and in the copies of attemptReconnect: the   *)
(*     provider hands out no ID that somebody holds (NameInv);             *)
(*   - that only a service that has been announced has an instance, and a  *)
(*     call in progress has no entry in the table yet (CallInv, BegunInv); *)
(*   - what the refresh loop relies on while it has the table (LockInv).   *)
(* Most steps leave the pairing services alone: QuietKeeps and MoveKeeps   *)
(* settle them once, and each needs only its own effect.  The others have  *)
(* a lemma each, with one step per part of AInv.                           *)
(* The last part maps every step to one of Beacon.                         *)
(***************************************************************************)
EXTENDS Announcing, TLAPS

\* If the provider has an instance under i, it is one of service s.
Names(i, s) == i \in Registered => inst[i].svc = s

\* The IDs that the manager and its goroutines hold for the SHIP service.
ShipIds ==
    {None, mgr.instance} \cup {proc[p].id : p \in Caller \cup {Refresh}}
    \cup {proc[p].old : p \in Caller}

\* What is held under an ID, by the manager and its goroutines, by the table, by a call in
\* progress or by attemptReconnect, is an instance of the service it is held for, or gone:
\* an ID is not handed out again while somebody holds it.
NameInv ==
    /\ \A i \in ShipIds : Names(i, Ship)
    /\ \A a \in Announcement : Names(table[a], a)
    /\ call.at \in {"enter", "withdraw"} => Names(call.id, call.a)
    /\ \A r \in recon.todo : Names(r.id, r.svc)

\* Only registered instances are on the network, and each is of some service.
LiveInv ==
    /\ live \subseteq Registered
    /\ \A i \in Registered : inst[i].svc # None

\* An announcement in progress is not in the table, and everything in the table has been
\* asked for.
CallInv ==
    /\ call.at # "free" => call.a \in used /\ table[call.a] = Absent
    /\ \A a \in Announcement : table[a] # Absent => a \in used
    /\ \A a \in active : table[a] # Absent \/ (call.at = "withdraw" /\ call.a = a)

\* Only services that have been announced before have instances.
Begun(s) == s \in Announcement => s \in used /\ ~(call.at = "announce" /\ call.a = s)

\* What is registered, or about to be registered again, has been announced.
BegunInv ==
    /\ \A i \in Registered : Begun(inst[i].svc)
    /\ \A r \in recon.todo : Begun(r.svc)

\* While the refresh loop has the table, what it still has to announce anew is in it;
\* and while it withdraws an instance, the one that replaces it is there, until Shutdown
\* withdraws everything.
LockInv ==
    /\ TableLocked => \A a \in proc[Refresh].todo : table[a] # Absent
    /\ proc[Refresh].at = "swappedPairing" =>
         \E a \in Announcement :
             /\ table[a] # Absent /\ Names(proc[Refresh].old, a)
             /\ down = "no" /\ proc[Refresh].old \in live =>
                   \E j \in live \ {proc[Refresh].old} : inst[j].svc = a

\* attemptReconnect runs only after the daemon has been lost.
LossInv == spent.losses = 0 => recon.at = "no"

\* The inductive invariant.
AInv ==
    /\ TypeOK /\ NameInv /\ LiveInv /\ CallInv /\ BegunInv /\ LockInv /\ LossInv
    /\ PairingIsAccountedFor

-----------------------------------------------------------------------------
(* The parts of the type invariant, one for each component of the state. *)

\* The goroutines of the manager.
Goroutine == Caller \cup {Refresh}

\* What a goroutine of the manager is doing.
ProcType ==
    [at : {"idle", "check", "announce", "store", "forget", "swap", "monitor",
           "note", "notePairings", "resolve", "withdraw", "unannounce", "reset",
           "withdrawPairings", "pairings", "swapPairings", "swappedPairing", "panicked"},
     then : {"idle", "swap", "monitor", "pairings"},
     id : Id \cup {None}, old : Id \cup {None}, was : BOOLEAN, paired : BOOLEAN,
     todo : SUBSET Announcement]

\* The fields of the manager.
MgrType ==
    [started : BOOLEAN, provider : BOOLEAN, announced : BOOLEAN,
     instance : Id \cup {None}, known : SUBSET Iface, ticking : BOOLEAN]

\* The fields of the provider.
ProvType ==
    [kind : {"avahi", "zeroconf"}, link : {"none", "up", "lost", "closed"},
     manual : BOOLEAN, ifaces : SUBSET Iface, legacy : BOOLEAN,
     making : SUBSET Id, doomed : SUBSET Id]

\* The instances that are registered with the provider.
InstType == [Id -> [svc : Service \cup {None}, ifaces : SUBSET Iface]]

\* What attemptReconnect is doing.
ReconType ==
    [at : {"no", "check", "sleep", "snapshot", "restore"},
     todo : SUBSET [id : Id, svc : Service], legacy : BOOLEAN]

\* The hub's call of the manager.
CallType ==
    [at : {"free", "announce", "enter", "withdraw"},
     a : Announcement \cup {None}, id : Id \cup {None}]

\* The network around the manager.
NetTypes ==
    /\ env \in Environments
    /\ spent \in [changes : Nat, losses : Nat, failures : Nat]
    /\ usable \subseteq Iface /\ daemon \in BOOLEAN

\* The provider.
ProviderTypes == prov \in ProvType /\ inst \in InstType /\ live \subseteq Id

\* The hub.
HubTypes ==
    /\ active \subseteq Announcement /\ used \subseteq Announcement
    /\ call \in CallType
    /\ down \in {"no", "refresh", "entry", "unannounce", "reset", "provider", "reconnect",
                "instances", "closed", "done"}

\* The manager.
MdnsTypes ==
    /\ mgr \in MgrType
    /\ table \in [Announcement -> Id \cup {None, Absent}]
    /\ proc \in [Goroutine -> ProcType]

\* The type invariant is what its parts say, before a step.
LEMMA Types ==
    TypeOK <=> NetTypes /\ ProviderTypes /\ HubTypes /\ MdnsTypes /\ recon \in ReconType
  BY DEF TypeOK, NetTypes, ProviderTypes, HubTypes, MdnsTypes, ProvType, InstType, CallType,
         MgrType, ProcType, ReconType, Goroutine

\* And after a step.
LEMMA TypesNext ==
    TypeOK' <=> NetTypes' /\ ProviderTypes' /\ HubTypes' /\ MdnsTypes' /\ recon' \in ReconType
  BY DEF TypeOK, NetTypes, ProviderTypes, HubTypes, MdnsTypes, ProvType, InstType, CallType,
         MgrType, ProcType, ReconType, Goroutine

\* An ID that is new is held by nobody.
LEMMA NewIdIsNew ==
    ASSUME Id \ Held # {}
    PROVE  NewId \in Id /\ NewId \notin Held
  BY DEF NewId

\* A registration adds one instance, under an ID that nobody holds.
LEMMA RegistersEffect ==
    ASSUME TypeOK, NEW s \in Service, Registers(s)
    PROVE  /\ ProviderTypes'
           /\ NewId \in Id /\ NewId \notin Held
           /\ Registered' = Registered \cup {NewId} /\ inst'[NewId].svc = s
           /\ \A i \in Id \ {NewId} : inst'[i] = inst[i]
           /\ live' = live \cup {NewId}
           /\ Reachable' = Reachable
           /\ spent' = spent
<1>1. NewId \in Id /\ NewId \notin Held
  BY NewIdIsNew DEF Registers
<1> DEFINE n == NewId
           r == [svc |-> s, ifaces |-> prov.ifaces]
<1>2. inst' = [inst EXCEPT ![n] = r] /\ live' = live \cup {n}
      /\ prov' = [prov EXCEPT !.legacy = @ \/ s = Ship,
                              !.making = IF prov.kind = "zeroconf" THEN @ \cup {n} ELSE @]
      /\ spent' = spent
  BY DEF Registers
<1>3. inst \in InstType /\ prov \in ProvType /\ live \subseteq Id
  BY Types DEF ProviderTypes
<1>4. r \in [svc : Service \cup {None}, ifaces : SUBSET Iface] /\ r.svc = s
  BY <1>3 DEF ProvType
<1>5. r # NoInstance
  BY <1>4, NamesAssumption DEF NoInstance, Service
<1>6. prov' \in ProvType /\ Reachable' = Reachable
  <2> DEFINE l == prov.legacy \/ s = Ship
             m == IF prov.kind = "zeroconf" THEN prov.making \cup {n} ELSE prov.making
  <2>1. l \in BOOLEAN /\ prov' = [prov EXCEPT !.legacy = l, !.making = m]
    BY <1>2, <1>3 DEF ProvType
  <2>2. m \in SUBSET Id
    BY <1>1, <1>3 DEF ProvType
  <2> HIDE DEF l, m
  <2>. QED BY <1>3, <2>1, <2>2 DEF ProvType, Reachable
<1> HIDE DEF r, n
<1>7. n \in Id
  BY <1>1 DEF n
<1>8. /\ inst' \in InstType /\ inst'[n] = r
      /\ \A i \in Id \ {n} : inst'[i] = inst[i]
  BY <1>2, <1>3, <1>4, <1>7 DEF InstType
<1>9. Registered' = Registered \cup {n}
  BY <1>5, <1>7, <1>8 DEF Registered
<1>. QED BY <1>1, <1>2, <1>3, <1>4, <1>6, <1>7, <1>8, <1>9 DEF ProviderTypes, n

\* A withdrawal takes instances away and leaves the others as they are.
LEMMA UnregistersEffect ==
    ASSUME TypeOK, NEW ids, Unregisters(ids)
    PROVE  /\ ProviderTypes'
           /\ Registered' = Registered \ ids
           /\ \A i \in Registered' : inst'[i] = inst[i]
           /\ live' = live \ ids
           /\ Reachable' = Reachable
<1>1. inst' = [i \in Id |-> IF i \in ids THEN NoInstance ELSE inst[i]] /\ live' = live \ ids /\ prov' = prov
  BY DEF Unregisters
<1>2. inst \in InstType /\ prov \in ProvType /\ live \subseteq Id
  BY Types DEF ProviderTypes
<1>3. NoInstance \in [svc : Service \cup {None}, ifaces : SUBSET Iface]
  BY DEF NoInstance
<1>4. inst' \in InstType
  BY <1>1, <1>2, <1>3 DEF InstType
<1>. QED BY <1>1, <1>2, <1>4 DEF ProviderTypes, Registered, Reachable

\* A call of the provider that fails changes nothing there.
LEMMA FailsEffect ==
    ASSUME TypeOK, Fails
    PROVE  /\ UNCHANGED provVars
           /\ spent' \in [changes : Nat, losses : Nat, failures : Nat]
           /\ spent'.losses = spent.losses
<1>1. spent \in [changes : Nat, losses : Nat, failures : Nat]
  BY Types DEF NetTypes
<1>. QED BY <1>1 DEF Fails

-----------------------------------------------------------------------------
(* Steps that leave the pairing services alone. *)

\* What a step does to the provider if it does nothing to the pairing services.
ShipOnly ==
    /\ ProviderTypes'
    /\ \A i \in Held : i \in Registered' => i \in Registered /\ inst'[i] = inst[i]
    /\ \A i \in Registered' : inst'[i].svc = Ship \/ (i \in Registered /\ inst'[i] = inst[i])
    /\ live' \subseteq Registered'
    /\ \A i \in live' : i \in live \/ inst'[i].svc = Ship
    /\ \A i \in live : i \in live' \/ inst[i].svc = Ship

\* The invariant has the types, part by part.
LEMMA InstanceTypes ==
    ASSUME AInv
    PROVE  /\ NetTypes /\ ProviderTypes /\ HubTypes /\ MdnsTypes /\ recon \in ReconType
           /\ TypeOK
           /\ live \subseteq Registered /\ Registered \subseteq Id
           /\ Ship \in Service /\ Ship \notin Announcement
  BY Types, NamesAssumption DEF AInv, LiveInv, Registered, Service

\* What leaves the provider alone does nothing to the pairing services.
LEMMA UnchangedIsShipOnly ==
    ASSUME AInv, UNCHANGED provVars
    PROVE  ShipOnly /\ Reachable' = Reachable
<1>1. prov' = prov /\ inst' = inst /\ live' = live
  BY DEF provVars
<1>2. ProviderTypes' /\ Registered' = Registered
  BY <1>1, InstanceTypes DEF ProviderTypes, Registered
<1>. QED BY <1>1, <1>2, InstanceTypes DEF ShipOnly, Reachable

\* So does a call that fails.
LEMMA FailsIsShipOnly ==
    ASSUME AInv, Fails
    PROVE  ShipOnly /\ Reachable' = Reachable
  BY UnchangedIsShipOnly, FailsEffect, InstanceTypes

\* So does a registration of the SHIP service.
LEMMA RegistersIsShipOnly ==
    ASSUME AInv, Registers(Ship)
    PROVE  ShipOnly /\ Reachable' = Reachable
<1>1. /\ ProviderTypes'
      /\ NewId \in Id /\ NewId \notin Held
      /\ Registered' = Registered \cup {NewId} /\ inst'[NewId].svc = Ship
      /\ \A i \in Id \ {NewId} : inst'[i] = inst[i]
      /\ live' = live \cup {NewId}
      /\ Reachable' = Reachable
  BY RegistersEffect, InstanceTypes
<1>. QED BY <1>1, InstanceTypes DEF ShipOnly

\* So does the withdrawal of an instance of it.
LEMMA UnregistersIsShipOnly ==
    ASSUME AInv, NEW ids, Unregisters(ids), \A i \in ids : Names(i, Ship)
    PROVE  ShipOnly /\ Reachable' = Reachable
<1>1. /\ ProviderTypes'
      /\ Registered' = Registered \ ids
      /\ \A i \in Registered' : inst'[i] = inst[i]
      /\ live' = live \ ids
      /\ Reachable' = Reachable
  BY UnregistersEffect, InstanceTypes
<1>. QED BY <1>1, InstanceTypes DEF ShipOnly, Names

\* The names of the SHIP service stay good.
LEMMA ShipNames ==
    ASSUME AInv, ShipOnly, NEW i \in ShipIds
    PROVE  Names(i, Ship) /\ (i \in Registered' => inst'[i].svc = Ship)
<1>1. Names(i, Ship)
  BY DEF AInv, NameInv
<1>2. i \in Held \/ i = None
  BY DEF ShipIds, Held
<1>3. None \notin Registered'
  BY NamesAssumption DEF Registered
<1>. QED BY <1>1, <1>2, <1>3 DEF ShipOnly, Names

\* Where the refresh loop has the table.
PairingAt == {"swapPairings", "swappedPairing"}

\* The refresh loop may be in state r, as the table is, unless it has to withdraw an
\* instance.
LockGood(r) ==
    /\ r.at # "swappedPairing"
    /\ r.at = "swapPairings" => \A a \in r.todo : table[a] # Absent

\* The argument for every step that leaves the pairing services alone: the IDs that stand
\* for the SHIP service still do, and the refresh loop has the table as before.
LEMMA QuietKeeps ==
    ASSUME AInv, TypeOK', ShipOnly, UNCHANGED <<table, call, active, used>>,
           spent'.losses = spent.losses,
           \A i \in ShipIds' : i \in Registered' => inst'[i].svc = Ship,
           recon'.todo \subseteq recon.todo, recon'.at = "no" \/ recon.at # "no",
           down' = "no" => down = "no",
           \/ proc'[Refresh] = proc[Refresh]
           \/ proc[Refresh].at # "swappedPairing" /\ LockGood(proc'[Refresh])
    PROVE  AInv'
<1> USE InstanceTypes
<1>1. NameInv'
  <2>1. \A i \in ShipIds' : Names(i, Ship)'
    BY DEF Names
  <2>2. ASSUME NEW a \in Announcement PROVE Names(table[a], a)'
    <3>1. Names(table[a], a) /\ table[a] \in Held
      BY DEF AInv, NameInv, Held
    <3>. QED BY <3>1 DEF Names, ShipOnly
  <2>3. call.at \in {"enter", "withdraw"} => Names(call.id, call.a)'
    <3>1. call.id \in Held
      BY DEF Held
    <3>. QED BY <3>1 DEF AInv, NameInv, Names, ShipOnly
  <2>4. ASSUME NEW r \in recon.todo PROVE Names(r.id, r.svc)'
    <3>1. Names(r.id, r.svc) /\ r.id \in Held
      BY DEF AInv, NameInv, Held
    <3>. QED BY <3>1 DEF Names, ShipOnly
  <2>. QED BY <2>1, <2>2, <2>3, <2>4 DEF NameInv
<1>2. LiveInv'
  BY NamesAssumption DEF AInv, LiveInv, ShipOnly
<1>3. CallInv'
  BY DEF AInv, CallInv
<1>4. BegunInv'
  <2>1. \A s : Begun(s)' <=> Begun(s)
    BY DEF Begun
  <2>2. ASSUME NEW i \in Registered' PROVE Begun(inst'[i].svc)
    <3>1. CASE inst'[i].svc = Ship
      BY <3>1 DEF Begun
    <3>2. CASE i \in Registered /\ inst'[i] = inst[i]
      BY <3>2 DEF AInv, BegunInv
    <3>. QED BY <3>1, <3>2 DEF ShipOnly
  <2>3. \A r \in recon'.todo : Begun(r.svc)
    BY DEF AInv, BegunInv
  <2>. QED BY <2>1, <2>2, <2>3 DEF BegunInv
<1>5. LossInv'
  BY DEF AInv, LossInv
<1>6. LockInv'
  <2>1. CASE LockGood(proc'[Refresh])
    BY <2>1 DEF LockInv, TableLocked, LockGood
  <2>2. CASE proc'[Refresh] = proc[Refresh]
    <3>1. TableLocked => \A a \in proc[Refresh].todo : table[a] # Absent
      BY DEF AInv, LockInv
    <3>2. ASSUME proc[Refresh].at = "swappedPairing"
          PROVE  \E a \in Announcement :
                     /\ table[a] # Absent
                     /\ proc[Refresh].old \in Registered' => inst'[proc[Refresh].old].svc = a
                     /\ down' = "no" /\ proc[Refresh].old \in live' =>
                           \E j \in live' \ {proc[Refresh].old} : inst'[j].svc = a
      <4> DEFINE o == proc[Refresh].old
      <4>1. PICK a \in Announcement :
                     /\ table[a] # Absent /\ Names(o, a)
                     /\ down = "no" /\ o \in live => \E j \in live \ {o} : inst[j].svc = a
        BY <3>2 DEF AInv, LockInv
      <4>2. o \in Held
        BY DEF Held, Goroutine
      <4> HIDE DEF o
      <4>3. o \in Registered' => inst'[o].svc = a
        BY <4>1, <4>2 DEF Names, ShipOnly
      <4>5. o \in live' => o \in live /\ o \in Registered'
        BY <4>2, <4>3, <4>1 DEF ShipOnly, Names
      <4>4. ASSUME down' = "no", o \in live' PROVE \E j \in live' \ {o} : inst'[j].svc = a
        <5>1. inst'[o].svc = a /\ o \in live
          BY <4>3, <4>4, <4>5
        <5>2. PICK j \in live \ {o} : inst[j].svc = a
          BY <4>1, <4>4, <5>1
        <5>3. j \in live' /\ inst'[j].svc = a
          <6>1. a # Ship /\ j \in Held
            BY <5>2 DEF Held
          <6>. QED BY <5>2, <6>1 DEF ShipOnly
        <5>. QED BY <5>2, <5>3
      <4>. QED BY <4>1, <4>3, <4>4 DEF o
    <3>. QED BY <2>2, <3>1, <3>2 DEF LockInv, TableLocked, Names
  <2>. QED BY <2>1, <2>2
<1>7. PairingIsAccountedFor'
  <2> SUFFICES ASSUME spent'.losses = 0, NEW i \in live', inst'[i].svc \in Announcement
               PROVE  \/ table'[inst'[i].svc] = i
                      \/ call'.at \in {"enter", "withdraw"} /\ call'.a = inst'[i].svc /\ call'.id = i
                      \/ proc'[Refresh].at = "swappedPairing" /\ proc'[Refresh].old = i
    BY DEF PairingIsAccountedFor
  <2>1. i \in live /\ inst'[i] = inst[i]
    BY DEF ShipOnly
  <2>2. \/ table[inst[i].svc] = i
        \/ call.at \in {"enter", "withdraw"} /\ call.a = inst[i].svc /\ call.id = i
        \/ proc[Refresh].at = "swappedPairing" /\ proc[Refresh].old = i
    BY <2>1 DEF AInv, PairingIsAccountedFor
  <2>. QED BY <2>1, <2>2
<1>. QED BY <1>1, <1>2, <1>3, <1>4, <1>5, <1>6, <1>7 DEF AInv

\* A step that does nothing to the pairing services.
Quiet == ShipOnly /\ UNCHANGED <<table, call, active, used>>

\* What is known of the state apart from goroutines, services and the manager.
RestKept ==
    /\ NetTypes' /\ HubTypes' /\ recon' \in ReconType
    /\ spent'.losses = spent.losses
    /\ recon'.todo \subseteq recon.todo
    /\ recon'.at = "no" \/ recon.at # "no"
    /\ down' = "no" => down = "no"

\* After the step, the instance under i is the SHIP service, or there is none.
ShipAfter(i) == i \in Registered' => inst'[i].svc = Ship

\* The same when one goroutine p moves on and becomes r.
LEMMA MoveKeepsLock ==
    ASSUME AInv, NEW p \in Goroutine, NEW r \in ProcType, proc' = [proc EXCEPT ![p] = r],
           ShipOnly, UNCHANGED <<table, call, active, used>>, RestKept,
           mgr' \in MgrType, ShipAfter(mgr'.instance), ShipAfter(r.id),
           IF p = Refresh THEN proc[p].at # "swappedPairing" /\ LockGood(r)
           ELSE ShipAfter(r.old)
    PROVE  AInv'
<1> USE InstanceTypes
<1>1. /\ proc' \in [Goroutine -> ProcType] /\ proc'[p] = r
      /\ \A q \in Goroutine \ {p} : proc'[q] = proc[q]
  BY DEF MdnsTypes
<1>2. MdnsTypes'
  BY <1>1 DEF MdnsTypes
<1>3. TypeOK'
  BY <1>2, TypesNext DEF RestKept, ShipOnly
<1>4. ASSUME NEW i \in ShipIds' PROVE ShipAfter(i)
  <2>1. CASE i \in ShipIds
    BY <2>1, ShipNames DEF ShipAfter
  <2>2. CASE i = mgr'.instance
    BY <2>2
  <2>3. CASE \E q \in Goroutine : i = proc'[q].id
    <3>1. PICK q \in Goroutine : i = proc'[q].id
      BY <2>3
    <3>2. CASE q = p
      BY <1>1, <3>1, <3>2
    <3>3. CASE q # p
      BY <1>1, <3>1, <3>3, <2>1 DEF ShipIds, Goroutine
    <3>. QED BY <3>2, <3>3
  <2>4. CASE \E q \in Caller : i = proc'[q].old
    <3>1. PICK q \in Caller : i = proc'[q].old
      BY <2>4
    <3>2. CASE q = p
      BY <1>1, <3>1, <3>2, NamesAssumption
    <3>3. CASE q # p
      BY <1>1, <3>1, <3>3, <2>1 DEF ShipIds, Goroutine
    <3>. QED BY <3>2, <3>3
  <2>5. i = None => i \in ShipIds
    BY DEF ShipIds
  <2>. QED BY <2>1, <2>2, <2>3, <2>4, <2>5 DEF ShipIds, Goroutine
<1>5. \/ proc'[Refresh] = proc[Refresh]
      \/ proc[Refresh].at # "swappedPairing" /\ LockGood(proc'[Refresh])
  BY <1>1 DEF Goroutine
<1>. QED BY <1>3, <1>4, <1>5, QuietKeeps DEF ShipAfter, RestKept

\* The same when p neither gets the table nor gives it back.
LEMMA MoveKeeps ==
    ASSUME AInv, NEW p \in Goroutine, NEW r \in ProcType, proc' = [proc EXCEPT ![p] = r],
           ShipOnly, UNCHANGED <<table, call, active, used>>, RestKept,
           mgr' \in MgrType, ShipAfter(mgr'.instance), ShipAfter(r.id),
           IF p = Refresh THEN proc[p].at \notin PairingAt /\ r.at \notin PairingAt
           ELSE ShipAfter(r.old)
    PROVE  AInv'
  BY MoveKeepsLock DEF PairingAt, LockGood

\* The manager and the goroutines stay where they are.
LEMMA RestKeeps ==
    ASSUME AInv, ShipOnly, UNCHANGED <<table, call, active, used, proc>>, RestKept,
           mgr' \in MgrType, ShipAfter(mgr'.instance)
    PROVE  AInv'
<1> USE InstanceTypes
<1>2. MdnsTypes'
  BY DEF MdnsTypes
<1>3. TypeOK'
  BY <1>2, TypesNext DEF RestKept, ShipOnly
<1>4. ASSUME NEW i \in ShipIds' PROVE ShipAfter(i)
  <2>1. CASE i \in ShipIds
    BY <2>1, ShipNames DEF ShipAfter
  <2>2. i \in ShipIds \/ i = mgr'.instance
    BY DEF ShipIds
  <2>. QED BY <2>1, <2>2
<1>. QED BY <1>3, <1>4, QuietKeeps DEF ShipAfter, RestKept

\* What stays when the rest of the state does.
LEMMA RestStays ==
    ASSUME AInv, UNCHANGED <<env, usable, daemon, recon, hubVars>>,
           spent' \in [changes : Nat, losses : Nat, failures : Nat],
           spent'.losses = spent.losses
    PROVE  RestKept /\ UNCHANGED <<call, active, used>>
  BY InstanceTypes DEF RestKept, NetTypes, HubTypes, hubVars

\* A step that leaves the network alone spends nothing.
LEMMA SpentStays ==
    ASSUME AInv, UNCHANGED netVars
    PROVE  /\ UNCHANGED <<usable, daemon>>
           /\ spent' \in [changes : Nat, losses : Nat, failures : Nat]
           /\ spent'.losses = spent.losses
  BY InstanceTypes DEF netVars, NetTypes

\* The IDs held for the SHIP service still stand for it if only the SHIP service changes.
LEMMA ShipIdFacts ==
    ASSUME AInv, ShipOnly
    PROVE  /\ ShipAfter(None) /\ ShipAfter(mgr.instance)
           /\ \A p \in Goroutine : ShipAfter(proc[p].id)
           /\ \A p \in Caller : ShipAfter(proc[p].old)
<1>1. \A i \in ShipIds : ShipAfter(i)
  BY ShipNames DEF ShipAfter
<1>. QED BY <1>1 DEF ShipIds, Goroutine

\* The types of one goroutine and of the manager.
LEMMA ProcFields ==
    ASSUME AInv, NEW p \in Goroutine
    PROVE  /\ proc[p] \in ProcType /\ mgr \in MgrType
           /\ Idle \in ProcType
           /\ p # Refresh => p \in Caller
<1>1. Idle \in ProcType
  BY DEF Idle, ProcType
<1>. QED BY <1>1, InstanceTypes DEF MdnsTypes, Goroutine

\* A goroutine that goes elsewhere, or has something to do afterwards, is of its type.
LEMMA ProcAt ==
    ASSUME NEW r \in ProcType, NEW t \in {"idle", "check", "announce", "store", "forget", "swap",
               "monitor", "note", "notePairings", "resolve", "withdraw", "unannounce", "reset",
               "withdrawPairings", "pairings", "swapPairings", "swappedPairing", "panicked"}
    PROVE  /\ [r EXCEPT !.at = t] \in ProcType
           /\ [r EXCEPT !.at = t].at = t
           /\ [r EXCEPT !.at = t].id = r.id
           /\ [r EXCEPT !.at = t].old = r.old
           /\ [r EXCEPT !.at = t].then = r.then
  BY DEF ProcType

\* A goroutine moves on, and nothing happens to the provider.
LEMMA MoveIsQuiet ==
    ASSUME AInv, UNCHANGED env, UNCHANGED <<netVars, table, provVars, recon, hubVars>>,
           NEW p \in Goroutine, NEW r \in ProcType, proc' = [proc EXCEPT ![p] = r],
           mgr' \in MgrType, mgr'.instance \in {mgr.instance, proc[p].id},
           r.id \in {proc[p].id, None},
           IF p = Refresh THEN proc[p].at \notin PairingAt /\ r.at \notin PairingAt
           ELSE r.old \in {proc[p].old, None, mgr.instance}
    PROVE  AInv' /\ Quiet
<1>2. ShipOnly
  BY UnchangedIsShipOnly
<1>3. RestKept /\ UNCHANGED <<call, active, used>>
  BY SpentStays, RestStays
<1>4. /\ ShipAfter(mgr'.instance) /\ ShipAfter(r.id)
      /\ p # Refresh => ShipAfter(r.old)
  BY <1>2, ShipIdFacts, ProcFields
<1>. QED BY <1>2, <1>3, <1>4, MoveKeeps DEF Quiet

\* AnnounceMdnsEntry finds the provider, or not, and the interfaces.
LEMMA CheckKeeps ==
    ASSUME AInv, UNCHANGED env, NEW p \in Goroutine, Check(p)
    PROVE  AInv' /\ Quiet
<1>1. /\ UNCHANGED <<netVars, mgr, table, provVars, recon, hubVars>>
      /\ proc[p].at = "check"
      /\ \E r \in ProcType :
           /\ proc' = [proc EXCEPT ![p] = r]
           /\ r.id \in {proc[p].id, None} /\ r.old \in {proc[p].old, None}
           /\ r.at \notin PairingAt
  <2>1. proc[p] \in ProcType /\ Idle \in ProcType
    BY ProcFields
  <2>2. /\ proc[p].then \in {"idle", "swap", "monitor", "pairings"}
        /\ [proc[p] EXCEPT !.at = proc[p].then] \in ProcType
        /\ [proc[p] EXCEPT !.at = "announce"] \in ProcType
    BY <2>1 DEF ProcType
  <2>3. CASE proc' = [proc EXCEPT ![p] = Idle]
    BY <2>1, <2>3 DEF Idle, PairingAt, Check
  <2>4. CASE Goto(p, proc[p].then)
    <3>1. proc' = [proc EXCEPT ![p] = [proc[p] EXCEPT !.at = proc[p].then]]
      BY <2>4 DEF Goto
    <3>. QED BY ZenonT(60), <2>1, <2>2, <3>1 DEF PairingAt, Check, ProcType
  <2>5. CASE Goto(p, "announce")
    <3>1. proc' = [proc EXCEPT ![p] = [proc[p] EXCEPT !.at = "announce"]]
      BY <2>5 DEF Goto
    <3>. QED BY ZenonT(60), <2>1, <2>2, <3>1 DEF PairingAt, Check, ProcType
  <2>. QED BY <2>3, <2>4, <2>5 DEF Check
<1>. QED BY <1>1, ProcFields, MoveIsQuiet DEF PairingAt

\* AnnounceMdnsEntry stores the ID and sets isAnnounced.
LEMMA StoreKeeps ==
    ASSUME AInv, UNCHANGED env, NEW p \in Goroutine, Store(p)
    PROVE  AInv' /\ Quiet
<1> DEFINE r == [proc[p] EXCEPT !.at = proc[p].then, !.id = None]
           m == [mgr EXCEPT !.instance = proc[p].id, !.announced = TRUE]
<1>1. proc[p] \in ProcType /\ mgr \in MgrType
  BY ProcFields
<1>2. r \in ProcType /\ r.id = None /\ r.old = proc[p].old /\ r.at \notin PairingAt
  BY <1>1 DEF ProcType, PairingAt
<1>3. m \in MgrType /\ m.instance = proc[p].id
  BY <1>1 DEF ProcType, MgrType
<1>4. proc \in [Goroutine -> ProcType]
  BY InstanceTypes DEF MdnsTypes
<1>5. /\ UNCHANGED <<netVars, table, provVars, recon, hubVars>>
      /\ mgr' = m /\ proc[p].at \notin PairingAt
  BY DEF Store, PairingAt
<1>6. proc' = [proc EXCEPT ![p] = r]
  BY <1>4 DEF Store
<1> HIDE DEF r, m
<1>. QED BY <1>2, <1>3, <1>5, <1>6, MoveIsQuiet

\* A caller of AnnounceMdnsEntry other than Start.
LEMMA ReannounceKeeps ==
    ASSUME AInv, UNCHANGED env, NEW p \in Goroutine, Reannounce(p)
    PROVE  AInv' /\ Quiet
<1> DEFINE r == [Idle EXCEPT !.at = "check"]
<1>1. mgr \in MgrType /\ mgr' = mgr /\ Idle \in ProcType
  BY ProcFields DEF Reannounce
<1>2. r \in ProcType /\ r.id = None /\ r.old = None /\ r.at \notin PairingAt
  BY ZenonT(60), <1>1, ProcAt DEF Idle, PairingAt
<1>5. /\ UNCHANGED <<netVars, table, provVars, recon, hubVars>>
      /\ proc' = [proc EXCEPT ![p] = r]
      /\ proc[p].at \notin PairingAt
  BY DEF Reannounce, PairingAt
<1> HIDE DEF r
<1>. QED BY <1>1, <1>2, <1>5, MoveIsQuiet

\* Start launches the loop that looks at the interfaces.
LEMMA MonitorKeeps ==
    ASSUME AInv, UNCHANGED env, NEW p \in Goroutine, Monitor(p)
    PROVE  AInv' /\ Quiet
<1> DEFINE m == [mgr EXCEPT !.ticking = TRUE]
<1>1. mgr \in MgrType /\ Idle \in ProcType
  BY ProcFields
<1>2. Idle.id = None /\ Idle.old = None /\ Idle.at \notin PairingAt
  BY DEF Idle, PairingAt
<1>3. m \in MgrType /\ m.instance = mgr.instance
  BY <1>1 DEF MgrType
<1>5. /\ UNCHANGED <<netVars, table, provVars, recon, hubVars>>
      /\ proc' = [proc EXCEPT ![p] = Idle]
      /\ proc[p].at \notin PairingAt /\ mgr' = m
  BY DEF Monitor, PairingAt
<1> HIDE DEF m
<1>. QED BY <1>1, <1>2, <1>3, <1>5, MoveIsQuiet

\* SetAutoAccept remembers the ID that the new announcement will replace.
LEMMA SetAutoAcceptKeeps ==
    ASSUME AInv, UNCHANGED env, NEW p \in Caller, SetAutoAccept(p)
    PROVE  AInv' /\ Quiet
<1> DEFINE r == [Idle EXCEPT !.at = "forget", !.then = "swap", !.old = mgr.instance]
<1>0. p \in Goroutine /\ p # Refresh
  BY NamesAssumption DEF Goroutine
<1>1. mgr \in MgrType /\ mgr' = mgr /\ Idle \in ProcType
  BY <1>0, ProcFields DEF SetAutoAccept
<1>2. r \in ProcType /\ r.id = None /\ r.old = mgr.instance
  BY <1>1 DEF Idle, ProcType, MgrType
<1>5. /\ UNCHANGED <<netVars, table, provVars, recon, hubVars>>
      /\ proc' = [proc EXCEPT ![p] = r]
  BY DEF SetAutoAccept
<1> HIDE DEF r
<1>. QED BY <1>0, <1>1, <1>2, <1>5, MoveIsQuiet

\* SetAutoAccept and the refresh loop clear isAnnounced before they announce anew.
LEMMA ForgetKeeps ==
    ASSUME AInv, UNCHANGED env, NEW p \in Goroutine, Forget(p)
    PROVE  AInv' /\ Quiet
<1> DEFINE m == [mgr EXCEPT !.announced = FALSE]
           r == [proc[p] EXCEPT !.at = "check"]
<1>1. mgr \in MgrType /\ proc[p] \in ProcType
  BY ProcFields
<1>2. r \in ProcType /\ r.id = proc[p].id /\ r.old = proc[p].old /\ r.at \notin PairingAt
  BY ZenonT(60), <1>1, ProcAt DEF PairingAt
<1>3. m \in MgrType /\ m.instance = mgr.instance
  BY <1>1 DEF MgrType
<1>5. /\ UNCHANGED <<netVars, table, provVars, recon, hubVars>>
      /\ proc' = [proc EXCEPT ![p] = r]
      /\ proc[p].at \notin PairingAt /\ mgr' = m
  BY DEF Forget, Goto, PairingAt
<1> HIDE DEF m, r
<1>. QED BY <1>2, <1>3, <1>5, MoveIsQuiet

\* The refresh loop sees that the interfaces are others than before.
LEMMA TickKeeps ==
    ASSUME AInv, UNCHANGED env, Tick
    PROVE  AInv' /\ Quiet
<1> DEFINE m == [mgr EXCEPT !.known = usable]
           r == [proc[Refresh] EXCEPT !.at = "note"]
<1>0. Refresh \in Goroutine /\ usable \subseteq Iface
  BY InstanceTypes DEF Goroutine, NetTypes
<1>1. mgr \in MgrType /\ proc[Refresh] \in ProcType
  BY <1>0, ProcFields
<1>2. r \in ProcType /\ r.id = proc[Refresh].id /\ r.at \notin PairingAt
  BY ZenonT(60), <1>1, ProcAt DEF PairingAt
<1>3. m \in MgrType /\ m.instance = mgr.instance
  BY <1>0, <1>1 DEF MgrType
<1>5. /\ UNCHANGED <<netVars, table, provVars, recon, hubVars>>
      /\ proc' = [proc EXCEPT ![Refresh] = r]
      /\ proc[Refresh].at \notin PairingAt /\ mgr' = m
  BY DEF Tick, Goto, PairingAt
<1> HIDE DEF m, r
<1>. QED BY <1>0, <1>2, <1>3, <1>5, MoveIsQuiet

\* reannounceWithNewInterfaces notes what has been announced.
LEMMA NotesKeeps ==
    ASSUME AInv, UNCHANGED env, NoteShip \/ NotePairings
    PROVE  AInv' /\ Quiet
<1> DEFINE b == \E a \in Announcement : table[a] # Absent
           r == [proc[Refresh] EXCEPT !.at = "notePairings", !.was = mgr.announced]
           q == [proc[Refresh] EXCEPT !.at = "forget", !.paired = b]
<1>0. Refresh \in Goroutine /\ proc \in [Goroutine -> ProcType] /\ b \in BOOLEAN
  BY InstanceTypes DEF Goroutine, MdnsTypes
<1>1. mgr \in MgrType /\ proc[Refresh] \in ProcType
  BY <1>0, ProcFields
<1>2. proc' = [proc EXCEPT ![Refresh] = r] \/ proc' = [proc EXCEPT ![Refresh] = q]
  BY <1>0 DEF NoteShip, NotePairings
<1> HIDE DEF b
<1>3. /\ r \in ProcType /\ r.id = proc[Refresh].id /\ r.at \notin PairingAt
      /\ q \in ProcType /\ q.id = proc[Refresh].id /\ q.at \notin PairingAt
  BY ZenonT(60), <1>0, <1>1 DEF PairingAt, ProcType, MgrType
<1>4. /\ UNCHANGED <<netVars, mgr, table, provVars, recon, hubVars>>
      /\ proc[Refresh].at \notin PairingAt
  BY DEF NoteShip, NotePairings, PairingAt
<1> HIDE DEF r, q
<1>. QED BY <1>0, <1>1, <1>2, <1>3, <1>4, MoveIsQuiet

\* Two steps of the refresh loop reset isAnnounced.
LEMMA RefreshClears ==
    ASSUME AInv, UNCHANGED env, RefreshForgets \/ RefreshResets
    PROVE  AInv' /\ Quiet
<1> DEFINE m == [mgr EXCEPT !.announced = FALSE]
           r(t) == [proc[Refresh] EXCEPT !.at = t]
<1>0. Refresh \in Goroutine
  BY DEF Goroutine
<1>1. mgr \in MgrType /\ proc[Refresh] \in ProcType
  BY <1>0, ProcFields
<1>2. PICK t \in {"resolve", "withdrawPairings"} : proc' = [proc EXCEPT ![Refresh] = r(t)]
  <2>1. Goto(Refresh, "resolve") \/ Goto(Refresh, "withdrawPairings")
    BY DEF RefreshForgets, RefreshResets
  <2>. QED BY <2>1 DEF Goto
<1>3. r(t) \in ProcType /\ r(t).id = proc[Refresh].id /\ r(t).at \notin PairingAt
  BY <1>1, <1>2 DEF ProcType, PairingAt
<1>4. m \in MgrType /\ m.instance = mgr.instance
  BY <1>1 DEF MgrType
<1>5. /\ UNCHANGED <<netVars, table, provVars, recon, hubVars>>
      /\ proc[Refresh].at \notin PairingAt /\ mgr' = m
  BY DEF RefreshForgets, RefreshResets, PairingAt
<1> HIDE DEF m, r
<1>. QED BY <1>0, <1>2, <1>3, <1>4, <1>5, MoveIsQuiet

\* Start sets the provider, and announces if there are interfaces.
LEMMA StartKeeps ==
    ASSUME AInv, UNCHANGED env, NEW p \in Goroutine, Start(p)
    PROVE  AInv' /\ Quiet
<1> DEFINE m == [mgr EXCEPT !.started = TRUE, !.provider = TRUE, !.known = usable]
           t == IF usable = {} THEN "monitor" ELSE "check"
           r == [Idle EXCEPT !.at = t, !.then = "monitor"]
           k == IF daemon THEN "avahi" ELSE "zeroconf"
           v == [prov EXCEPT !.kind = k, !.link = "up", !.ifaces = usable]
<1>0. usable \subseteq Iface /\ daemon \in BOOLEAN /\ prov \in ProvType
  BY InstanceTypes DEF NetTypes, ProviderTypes
<1>1. mgr \in MgrType /\ Idle \in ProcType
  BY ProcFields
<1>2. r \in ProcType /\ r.id = None /\ r.old = None /\ r.at \notin PairingAt
  <2>1. t \in {"monitor", "check"}
    OBVIOUS
  <2> HIDE DEF t
  <2>. QED BY <1>1, <2>1 DEF Idle, ProcType, PairingAt
<1>3. m \in MgrType /\ m.instance = mgr.instance
  BY <1>0, <1>1 DEF MgrType
<1>4. v \in ProvType
  <2>1. k \in {"avahi", "zeroconf"}
    OBVIOUS
  <2> HIDE DEF k
  <2>. QED BY <1>0, <2>1 DEF ProvType
<1>5. /\ UNCHANGED <<netVars, table, inst, live, recon, hubVars>>
      /\ proc' = [proc EXCEPT ![p] = r]
      /\ prov' = v
      /\ proc[p].at \notin PairingAt /\ mgr' = m
  BY DEF Start, PairingAt
<1> HIDE DEF m, r, v
<1>6. ShipOnly
  <2>1. ProviderTypes' /\ Registered' = Registered
    BY <1>4, <1>5, InstanceTypes DEF ProviderTypes, Registered
  <2>. QED BY <2>1, <1>5, InstanceTypes DEF ShipOnly
<1>7. RestKept /\ UNCHANGED <<call, active, used>>
  BY <1>5, SpentStays, RestStays
<1>. QED BY <1>2, <1>3, <1>5, <1>6, <1>7, ShipIdFacts, MoveKeeps DEF Quiet

\* The provider registers the SHIP service, or fails.
LEMMA AnnounceShipKeeps ==
    ASSUME AInv, UNCHANGED env, NEW p \in Goroutine, AnnounceShip(p)
    PROVE  AInv' /\ Quiet
<1>0. /\ proc[p].at = "announce" /\ UNCHANGED <<usable, daemon, mgr, table, recon, hubVars>>
  BY DEF AnnounceShip
<1>1. proc[p] \in ProcType /\ Idle \in ProcType /\ mgr \in MgrType /\ mgr' = mgr
      /\ spent \in [changes : Nat, losses : Nat, failures : Nat]
      /\ proc \in [Goroutine -> ProcType]
  BY <1>0, ProcFields, InstanceTypes DEF NetTypes, MdnsTypes
<1>2. ASSUME ShipOnly, spent' \in [changes : Nat, losses : Nat, failures : Nat],
             spent'.losses = spent.losses,
             NEW r \in ProcType, proc' = [proc EXCEPT ![p] = r],
             ShipAfter(r.id), r.old \in {proc[p].old, None}, r.at \notin PairingAt
      PROVE  AInv' /\ Quiet
  <2>1. RestKept /\ UNCHANGED <<call, active, used>>
    BY <1>0, <1>2, RestStays
  <2>. QED BY <1>0, <1>1, <1>2, <2>1, ShipIdFacts, ProcFields, MoveKeeps DEF Quiet, PairingAt
<1>3. CASE Goto(p, "panicked") /\ UNCHANGED <<spent, provVars>>
  <2> DEFINE r == [proc[p] EXCEPT !.at = "panicked"]
  <2>1. r \in ProcType /\ r.id = proc[p].id /\ r.old = proc[p].old /\ r.at \notin PairingAt
    BY ZenonT(60), <1>1, ProcAt DEF PairingAt
  <2>2. proc' = [proc EXCEPT ![p] = r]
    BY <1>3 DEF Goto
  <2> HIDE DEF r
  <2>3. ShipOnly
    BY <1>3, UnchangedIsShipOnly
  <2>4. ShipAfter(r.id)
    BY <2>1, <2>3, ShipIdFacts
  <2>5. spent' \in [changes : Nat, losses : Nat, failures : Nat] /\ spent'.losses = spent.losses
    BY <1>1, <1>3
  <2>. QED BY <1>2, <2>1, <2>2, <2>3, <2>4, <2>5
<1>4. CASE Fails /\ proc' = [proc EXCEPT ![p] = Idle]
  <2>1. Idle.id = None /\ Idle.old = None /\ Idle.at \notin PairingAt
    BY DEF Idle, PairingAt
  <2>2. ShipOnly
    BY <1>4, FailsIsShipOnly
  <2>3. ShipAfter(Idle.id)
    BY <2>1, <2>2, ShipIdFacts
  <2>4. spent' \in [changes : Nat, losses : Nat, failures : Nat] /\ spent'.losses = spent.losses
    BY <1>4, FailsEffect, InstanceTypes
  <2>. QED BY <1>1, <1>2, <1>4, <2>1, <2>2, <2>3, <2>4
<1>5. CASE Registers(Ship) /\ proc' = [proc EXCEPT ![p].at = "store", ![p].id = NewId]
  <2> DEFINE r == [proc[p] EXCEPT !.at = "store", !.id = NewId]
  <2>1. proc' = [proc EXCEPT ![p] = r]
    BY <1>1, <1>5
  <2>2. NewId \in Id /\ inst'[NewId].svc = Ship /\ spent' = spent
    BY <1>5, RegistersEffect, InstanceTypes
  <2>3. r \in ProcType /\ r.id = NewId /\ r.old = proc[p].old /\ r.at \notin PairingAt
    BY <1>1, <2>2 DEF ProcType, PairingAt
  <2> HIDE DEF r
  <2>4. ShipOnly
    BY <1>5, RegistersIsShipOnly
  <2>5. ShipAfter(r.id)
    BY <2>2, <2>3 DEF ShipAfter
  <2>6. spent' \in [changes : Nat, losses : Nat, failures : Nat] /\ spent'.losses = spent.losses
    BY <1>1, <2>2
  <2>. QED BY <1>2, <2>1, <2>3, <2>4, <2>5, <2>6
<1>. QED BY <1>3, <1>4, <1>5 DEF AnnounceShip

\* Everything that is announced as the SHIP service may be withdrawn.
LEMMA ShipWithdrawal ==
    ASSUME AInv, NEW ids, Unregisters(ids), ids \subseteq ShipIds
    PROVE  ShipOnly
  BY UnregistersIsShipOnly DEF AInv, NameInv

\* SetAutoAccept withdraws the ID it has remembered, or finds no provider.
LEMMA SwapKeeps ==
    ASSUME AInv, UNCHANGED env, NEW p \in Caller, Swap(p)
    PROVE  AInv' /\ Quiet
<1> DEFINE r == [proc[p] EXCEPT !.at = "panicked"]
<1>0. p \in Goroutine /\ p # Refresh
  BY NamesAssumption DEF Goroutine
<1>1. mgr \in MgrType /\ Idle \in ProcType /\ proc[p] \in ProcType
  BY <1>0, ProcFields
<1>2. UNCHANGED <<netVars, mgr, table, recon, hubVars>>
  BY DEF Swap
<1>3. CASE Unregisters({proc[p].old} \ {mgr.instance}) /\ proc' = [proc EXCEPT ![p] = Idle]
  <2>1. ShipOnly
    BY <1>3, ShipWithdrawal DEF ShipIds
  <2>2. RestKept /\ UNCHANGED <<call, active, used>>
    BY <1>2, SpentStays, RestStays
  <2>3. Idle.id = None /\ Idle.old = None
    BY DEF Idle
  <2>. QED BY <1>0, <1>1, <1>2, <1>3, <2>1, <2>2, <2>3, ShipIdFacts, MoveKeeps DEF Quiet
<1>4. CASE Goto(p, "panicked") /\ UNCHANGED provVars
  <2>1. r \in ProcType /\ r.id = proc[p].id /\ r.old = proc[p].old
    BY <1>1, ProcAt
  <2>2. proc' = [proc EXCEPT ![p] = r]
    BY <1>4 DEF Goto
  <2> HIDE DEF r
  <2>. QED BY <1>0, <1>1, <1>2, <1>4, <2>1, <2>2, MoveIsQuiet
<1>. QED BY <1>3, <1>4 DEF Swap

\* The provider resolves the new interfaces, and fails if there are none.
LEMMA ResolveKeeps ==
    ASSUME AInv, UNCHANGED env, Resolve
    PROVE  AInv' /\ Quiet
<1>0. Refresh \in Goroutine /\ usable \subseteq Iface /\ prov \in ProvType
      /\ proc \in [Goroutine -> ProcType]
  BY InstanceTypes DEF Goroutine, NetTypes, ProviderTypes, MdnsTypes
<1>1. mgr \in MgrType /\ mgr' = mgr /\ proc[Refresh] \in ProcType
  BY <1>0, ProcFields DEF Resolve
<1>2. /\ UNCHANGED <<netVars, mgr, table, inst, live, recon, hubVars>>
      /\ proc[Refresh].at = "resolve"
  BY DEF Resolve
<1>3. \E r \in ProcType, v \in ProvType :
        /\ proc' = [proc EXCEPT ![Refresh] = r] /\ prov' = v
        /\ r.id = proc[Refresh].id /\ r.at \notin PairingAt
  <2>1. CASE usable = {}
    <3> DEFINE r == [proc[Refresh] EXCEPT !.at = "withdraw"]
    <3>1. proc' = [proc EXCEPT ![Refresh] = r] /\ prov' = prov
      BY <2>1 DEF Resolve, Goto
    <3>2. r \in ProcType /\ r.id = proc[Refresh].id /\ r.at \notin PairingAt
      BY ZenonT(60), <1>1, ProcAt DEF PairingAt
    <3> HIDE DEF r
    <3>. QED BY <1>0, <3>1, <3>2
  <2>2. CASE usable # {}
    <3> DEFINE r == [proc[Refresh] EXCEPT !.at = "check", !.then = "pairings"]
               v == [prov EXCEPT !.ifaces = usable]
    <3>1. proc' = [proc EXCEPT ![Refresh] = r] /\ prov' = v
      BY <1>0, <2>2 DEF Resolve
    <3>2. r \in ProcType /\ r.id = proc[Refresh].id /\ r.at \notin PairingAt
      BY <1>1 DEF PairingAt, ProcType
    <3>3. v \in ProvType
      BY <1>0 DEF ProvType
    <3> HIDE DEF r, v
    <3>. QED BY <3>1, <3>2, <3>3
  <2>. QED BY <2>1, <2>2
<1>4. ShipOnly
  <2>1. ProviderTypes' /\ Registered' = Registered
    BY <1>2, <1>3, InstanceTypes DEF ProviderTypes, Registered
  <2>. QED BY <2>1, <1>2, InstanceTypes DEF ShipOnly
<1>5. RestKept /\ UNCHANGED <<call, active, used>>
  BY <1>2, SpentStays, RestStays
<1>6. ShipAfter(mgr'.instance) /\ ShipAfter(proc[Refresh].id)
  BY <1>0, <1>1, <1>4, ShipIdFacts
<1>7. proc[Refresh].at \notin PairingAt
  BY <1>2 DEF PairingAt
<1>. QED BY <1>0, <1>1, <1>2, <1>3, <1>4, <1>5, <1>6, <1>7, MoveKeeps DEF Quiet

\* Without interfaces, the refresh loop looks whether to withdraw the SHIP service.
LEMMA WithdrawShipKeeps ==
    ASSUME AInv, UNCHANGED env, WithdrawShip
    PROVE  AInv' /\ Quiet
<1> DEFINE r(t) == [proc[Refresh] EXCEPT !.at = t]
<1>0. Refresh \in Goroutine
  BY DEF Goroutine
<1>1. mgr \in MgrType /\ proc[Refresh] \in ProcType
  BY <1>0, ProcFields
<1>2. PICK t \in {"unannounce", "withdrawPairings"} : proc' = [proc EXCEPT ![Refresh] = r(t)]
  <2>1. Goto(Refresh, "unannounce") \/ Goto(Refresh, "withdrawPairings")
    BY DEF WithdrawShip
  <2>. QED BY <2>1 DEF Goto
<1>3. r(t) \in ProcType /\ r(t).id = proc[Refresh].id /\ r(t).at \notin PairingAt
  BY <1>1, <1>2 DEF ProcType, PairingAt
<1>4. /\ UNCHANGED <<netVars, mgr, table, provVars, recon, hubVars>>
      /\ proc[Refresh].at \notin PairingAt
  BY DEF WithdrawShip, PairingAt
<1> HIDE DEF r
<1>. QED BY <1>0, <1>1, <1>2, <1>3, <1>4, MoveIsQuiet

\* UnannounceMdnsEntry of the refresh loop withdraws it.
LEMMA RefreshUnannouncesKeeps ==
    ASSUME AInv, UNCHANGED env, RefreshUnannounces
    PROVE  AInv' /\ Quiet
<1> DEFINE r(t) == [proc[Refresh] EXCEPT !.at = t]
<1>0. Refresh \in Goroutine
  BY DEF Goroutine
<1>1. mgr \in MgrType /\ proc[Refresh] \in ProcType
  BY <1>0, ProcFields
<1>2. /\ UNCHANGED <<netVars, mgr, table, recon, hubVars>>
      /\ proc[Refresh].at \notin PairingAt
      /\ Unregisters({mgr.instance})
  BY DEF RefreshUnannounces, PairingAt
<1>3. PICK t \in {"reset", "withdrawPairings"} : proc' = [proc EXCEPT ![Refresh] = r(t)]
  <2>1. Goto(Refresh, "reset") \/ Goto(Refresh, "withdrawPairings")
    BY DEF RefreshUnannounces
  <2>. QED BY <2>1 DEF Goto
<1>4. r(t) \in ProcType /\ r(t).id = proc[Refresh].id /\ r(t).at \notin PairingAt
  BY <1>1, <1>3 DEF ProcType, PairingAt
<1> HIDE DEF r
<1>5. ShipOnly
  BY <1>2, ShipWithdrawal DEF ShipIds
<1>6. RestKept /\ UNCHANGED <<call, active, used>>
  BY <1>2, SpentStays, RestStays
<1>7. ShipAfter(mgr'.instance) /\ ShipAfter(proc[Refresh].id)
  BY <1>0, <1>2, <1>5, ShipIdFacts
<1>. QED BY <1>0, <1>1, <1>2, <1>3, <1>4, <1>5, <1>6, <1>7, MoveKeeps DEF Quiet

\* The steps that move no goroutine of the manager.
LEMMA StillIsQuiet ==
    ASSUME AInv, ShipOnly, UNCHANGED <<table, call, active, used, proc>>, RestKept,
           mgr' \in MgrType, mgr'.instance = mgr.instance
    PROVE  AInv' /\ Quiet
  BY RestKeeps, ShipIdFacts DEF Quiet

\* The link of the provider is nothing to the instances.
LEMMA ProvMoves ==
    ASSUME AInv, UNCHANGED <<inst, live>>, prov' \in ProvType
    PROVE  ShipOnly
<1>1. ProviderTypes' /\ Registered' = Registered
  BY InstanceTypes DEF ProviderTypes, Registered
<1>. QED BY <1>1, InstanceTypes DEF ShipOnly

\* The zeroconf provider stores a server.
LEMMA StoresServerKeeps ==
    ASSUME AInv, UNCHANGED env, NEW i \in Id, StoresServer(i)
    PROVE  AInv' /\ Quiet
<1> DEFINE m == prov.making \ {i}
<1>1. /\ UNCHANGED <<netVars, mgr, table, proc, inst, live, recon, hubVars>>
      /\ prov' = [prov EXCEPT !.making = m]
  BY DEF StoresServer
<1>2. m \in SUBSET Id
  BY InstanceTypes DEF ProviderTypes, ProvType
<1> HIDE DEF m
<1>3. prov' \in ProvType
  BY <1>1, <1>2, InstanceTypes DEF ProviderTypes, ProvType
<1>4. ShipOnly /\ mgr \in MgrType
  BY <1>1, <1>3, ProvMoves, InstanceTypes DEF MdnsTypes
<1>5. RestKept /\ UNCHANGED <<call, active, used>>
  BY <1>1, SpentStays, RestStays
<1>. QED BY <1>1, <1>4, <1>5, StillIsQuiet

\* attemptReconnect sees that it is not to go on, or sleeps.
LEMMA ReconnectChecksKeeps ==
    ASSUME AInv, UNCHANGED env, ReconnectChecks
    PROVE  AInv' /\ Quiet
<1> DEFINE y == [recon EXCEPT !.at = "sleep"]
<1>0. y \in ReconType /\ y.todo = recon.todo /\ Asleep \in ReconType /\ Asleep.todo = {}
  BY InstanceTypes DEF Asleep, ReconType
<1>1. /\ UNCHANGED <<netVars, mgr, table, proc, provVars, hubVars>>
      /\ recon.at = "check"
      /\ recon' \in {Asleep, y}
  BY DEF ReconnectChecks
<1> HIDE DEF y
<1>2. recon' \in ReconType /\ recon'.todo \subseteq recon.todo
  BY <1>0, <1>1
<1>3. RestKept /\ UNCHANGED <<call, active, used>>
  BY <1>1, <1>2, SpentStays, InstanceTypes DEF RestKept, NetTypes, HubTypes, hubVars
<1>4. ShipOnly /\ mgr \in MgrType
  BY <1>1, UnchangedIsShipOnly, InstanceTypes DEF MdnsTypes
<1>. QED BY <1>1, <1>3, <1>4, StillIsQuiet

\* attemptReconnect tries to start the provider.
LEMMA ReconnectStartsKeeps ==
    ASSUME AInv, UNCHANGED env, ReconnectStarts
    PROVE  AInv' /\ Quiet
<1> DEFINE t == IF daemon THEN "snapshot" ELSE "check"
           l == IF daemon THEN "up" ELSE prov.link
<1>1. /\ UNCHANGED <<netVars, mgr, table, proc, inst, live, hubVars>>
      /\ recon.at = "sleep"
      /\ recon' = [recon EXCEPT !.at = t]
      /\ prov' = [prov EXCEPT !.manual = FALSE, !.link = l]
  BY DEF ReconnectStarts
<1>6. t \in {"snapshot", "check"} /\ l \in {"up", prov.link}
  OBVIOUS
<1> HIDE DEF t, l
<1>2. recon' \in ReconType /\ recon'.todo \subseteq recon.todo /\ recon'.at # "no"
  BY <1>1, <1>6, InstanceTypes DEF ReconType
<1>3. prov' \in ProvType
  BY <1>1, <1>6, InstanceTypes DEF ProviderTypes, ProvType
<1>4. RestKept /\ UNCHANGED <<call, active, used>>
  BY <1>1, <1>2, SpentStays, InstanceTypes DEF RestKept, NetTypes, HubTypes, hubVars
<1>5. ShipOnly /\ mgr \in MgrType
  BY <1>1, <1>3, ProvMoves, InstanceTypes DEF MdnsTypes
<1>. QED BY <1>1, <1>4, <1>5, StillIsQuiet

\* attemptReconnect ends.
LEMMA ReconnectEndsKeeps ==
    ASSUME AInv, UNCHANGED env, ReconnectEnds
    PROVE  AInv' /\ Quiet
<1>1. /\ UNCHANGED <<usable, daemon, mgr, table, proc, hubVars>>
      /\ recon' = Asleep
      /\ Registers(Ship) \/ Fails \/ UNCHANGED <<spent, provVars>>
  BY DEF ReconnectEnds
<1>2. recon' \in ReconType /\ recon'.todo \subseteq recon.todo /\ recon'.at = "no"
  BY <1>1 DEF Asleep, ReconType
<1>3. /\ ShipOnly
      /\ spent' \in [changes : Nat, losses : Nat, failures : Nat] /\ spent'.losses = spent.losses
  <2>1. spent \in [changes : Nat, losses : Nat, failures : Nat]
    BY InstanceTypes DEF NetTypes
  <2>2. CASE Registers(Ship)
    BY <2>1, <2>2, RegistersIsShipOnly, RegistersEffect, InstanceTypes
  <2>3. CASE Fails
    BY <2>3, FailsIsShipOnly, FailsEffect, InstanceTypes
  <2>4. CASE UNCHANGED <<spent, provVars>>
    BY <2>1, <2>4, UnchangedIsShipOnly
  <2>. QED BY <1>1, <2>2, <2>3, <2>4
<1>4. RestKept /\ UNCHANGED <<call, active, used>>
  BY <1>1, <1>2, <1>3, InstanceTypes DEF RestKept, NetTypes, HubTypes, hubVars
<1>5. mgr \in MgrType
  BY InstanceTypes DEF MdnsTypes
<1>. QED BY <1>1, <1>3, <1>4, <1>5, StillIsQuiet

\* The steps of Shutdown that withdraw no pairing service.
LEMMA ShutdownQuiet ==
    ASSUME AInv, UNCHANGED env, UNCHANGED <<netVars, table, proc, recon, active, call, used>>,
           ShipOnly, mgr' \in MgrType, mgr'.instance = mgr.instance,
           down' \in {"entry", "unannounce", "reset", "provider", "reconnect", "instances", "done"}
    PROVE  AInv' /\ Quiet
<1>1. RestKept
  BY SpentStays, InstanceTypes DEF RestKept, NetTypes, HubTypes
<1>. QED BY <1>1, StillIsQuiet

\* The manager stops the loop that looks at the interfaces and waits for its end.
LEMMA ShutdownAwaitsRefreshKeeps ==
    ASSUME AInv, UNCHANGED env, ShutdownAwaitsRefresh
    PROVE  AInv' /\ Quiet
<1> DEFINE m == [mgr EXCEPT !.ticking = FALSE]
<1>1. /\ UNCHANGED <<netVars, table, proc, provVars, recon, active, call, used>>
      /\ mgr' = m /\ down' = "entry"
  BY DEF ShutdownAwaitsRefresh
<1>2. m \in MgrType /\ m.instance = mgr.instance
  BY InstanceTypes DEF MgrType, MdnsTypes
<1>3. ShipOnly
  BY <1>1, UnchangedIsShipOnly
<1>. QED BY <1>1, <1>2, <1>3, ShutdownQuiet

\* The manager looks whether to withdraw the SHIP service.
LEMMA ShutdownChecksKeeps ==
    ASSUME AInv, UNCHANGED env, ShutdownChecks
    PROVE  AInv' /\ Quiet
<1>1. /\ UNCHANGED <<netVars, mgr, table, proc, provVars, recon, active, call, used>>
      /\ down' \in {"unannounce", "provider"}
  BY DEF ShutdownChecks
<1>2. ShipOnly /\ mgr \in MgrType
  BY <1>1, UnchangedIsShipOnly, InstanceTypes DEF MdnsTypes
<1>. QED BY <1>1, <1>2, ShutdownQuiet

\* It withdraws it, ...
LEMMA ShutdownUnannouncesKeeps ==
    ASSUME AInv, UNCHANGED env, ShutdownUnannounces
    PROVE  AInv' /\ Quiet
<1>1. /\ UNCHANGED <<netVars, mgr, table, proc, recon, active, call, used>>
      /\ Unregisters({mgr.instance}) /\ down' \in {"reset", "provider"}
  BY DEF ShutdownUnannounces
<1>2. ShipOnly /\ mgr \in MgrType
  BY <1>1, ShipWithdrawal, InstanceTypes DEF MdnsTypes, ShipIds
<1>. QED BY <1>1, <1>2, ShutdownQuiet

\* ... and resets isAnnounced.
LEMMA ShutdownResetsKeeps ==
    ASSUME AInv, UNCHANGED env, ShutdownResets
    PROVE  AInv' /\ Quiet
<1> DEFINE m == [mgr EXCEPT !.announced = FALSE]
<1>1. /\ UNCHANGED <<netVars, table, proc, provVars, recon, active, call, used>>
      /\ mgr' = m /\ down' = "provider"
  BY DEF ShutdownResets
<1>2. m \in MgrType /\ m.instance = mgr.instance
  BY InstanceTypes DEF MgrType, MdnsTypes
<1>3. ShipOnly
  BY <1>1, UnchangedIsShipOnly
<1>. QED BY <1>1, <1>2, <1>3, ShutdownQuiet

\* The provider notes that it is shut down on purpose.
LEMMA ShutdownMarksProviderKeeps ==
    ASSUME AInv, UNCHANGED env, ShutdownMarksProvider
    PROVE  AInv' /\ Quiet
<1> DEFINE v == [prov EXCEPT !.manual = TRUE]
<1>1. /\ UNCHANGED <<netVars, mgr, table, proc, inst, live, recon, active, call, used>>
      /\ prov' = v /\ down' = "reconnect"
  BY DEF ShutdownMarksProvider
<1>2. v \in ProvType /\ mgr \in MgrType
  BY InstanceTypes DEF ProvType, ProviderTypes, MdnsTypes
<1> HIDE DEF v
<1>3. ShipOnly
  BY <1>1, <1>2, ProvMoves
<1>. QED BY <1>1, <1>2, <1>3, ShutdownQuiet

\* The provider lists its instances.
LEMMA ShutdownListsKeeps ==
    ASSUME AInv, UNCHANGED env, ShutdownLists
    PROVE  AInv' /\ Quiet
<1> DEFINE d == Registered \ prov.making
<1>1. /\ UNCHANGED <<netVars, mgr, table, proc, inst, live, recon, active, call, used>>
      /\ prov' = [prov EXCEPT !.doomed = d] /\ down' = "instances"
  BY DEF ShutdownLists
<1>2. d \in SUBSET Id
  BY InstanceTypes
<1> HIDE DEF d
<1>3. prov' \in ProvType /\ mgr \in MgrType
  BY <1>1, <1>2, InstanceTypes DEF ProviderTypes, ProvType, MdnsTypes
<1>4. ShipOnly
  BY <1>1, <1>3, ProvMoves
<1>. QED BY <1>1, <1>3, <1>4, ShutdownQuiet

\* The manager drops the provider.
LEMMA ShutdownForgetsKeeps ==
    ASSUME AInv, UNCHANGED env, ShutdownForgets
    PROVE  AInv' /\ Quiet
<1> DEFINE m == [mgr EXCEPT !.provider = FALSE, !.announced = FALSE]
<1>1. /\ UNCHANGED <<netVars, table, proc, provVars, recon, active, call, used>>
      /\ mgr' = m /\ down' = "done"
  BY DEF ShutdownForgets
<1>2. m \in MgrType /\ m.instance = mgr.instance
  BY InstanceTypes DEF MgrType, MdnsTypes
<1>3. ShipOnly
  BY <1>1, UnchangedIsShipOnly
<1>. QED BY <1>1, <1>2, <1>3, ShutdownQuiet

\* The steps of the network that the provider does not notice, and stuttering.
LEMMA NetworkKeeps ==
    ASSUME AInv, UNCHANGED env, UNCHANGED <<mgr, table, proc, provVars, recon, hubVars>>,
           NetTypes', spent'.losses = spent.losses
    PROVE  AInv' /\ Quiet
<1>1. ShipOnly /\ mgr \in MgrType
  BY UnchangedIsShipOnly, InstanceTypes DEF MdnsTypes
<1>2. RestKept /\ UNCHANGED <<call, active, used>>
  BY InstanceTypes DEF RestKept, HubTypes, hubVars
<1>. QED BY <1>1, <1>2, StillIsQuiet

\* Interfaces come and go; nobody notices yet.
LEMMA InterfacesChangeKeeps ==
    ASSUME AInv, UNCHANGED env, InterfacesChange
    PROVE  AInv' /\ Quiet
<1>1. /\ UNCHANGED <<daemon, mgr, table, proc, provVars, recon, hubVars>>
      /\ usable' \subseteq Iface
      /\ spent' = [spent EXCEPT !.changes = @ + 1]
  BY DEF InterfacesChange
<1>2. NetTypes' /\ spent'.losses = spent.losses
  BY <1>1, InstanceTypes DEF NetTypes
<1>. QED BY <1>1, <1>2, NetworkKeeps

\* The daemon is back; nobody notices yet.
LEMMA DaemonStartsKeeps ==
    ASSUME AInv, UNCHANGED env, DaemonStarts
    PROVE  AInv' /\ Quiet
<1>1. /\ UNCHANGED <<spent, usable, mgr, table, proc, provVars, recon, hubVars>>
      /\ daemon' = TRUE
  BY DEF DaemonStarts
<1>2. NetTypes' /\ spent'.losses = spent.losses
  BY <1>1, InstanceTypes DEF NetTypes
<1>. QED BY <1>1, <1>2, NetworkKeeps

\* Nothing happens.
LEMMA StutterKeeps ==
    ASSUME AInv, UNCHANGED vars
    PROVE  AInv' /\ Quiet
<1>1. UNCHANGED <<env, netVars, mgr, table, proc, provVars, recon, hubVars>>
  BY DEF vars, netVars, provVars, hubVars
<1>2. NetTypes' /\ spent'.losses = spent.losses
  BY <1>1, SpentStays, InstanceTypes DEF NetTypes
<1>. QED BY <1>1, <1>2, NetworkKeeps

-----------------------------------------------------------------------------
(* The refresh loop in the table. *)

\* The refresh loop takes the lock, with the whole table to announce anew.
LEMMA LockTableKeeps ==
    ASSUME AInv, UNCHANGED env, LockTable
    PROVE  AInv' /\ Quiet
<1> DEFINE T == {a \in Announcement : table[a] # Absent}
           r == [proc[Refresh] EXCEPT !.at = "swapPairings", !.todo = T]
<1>0. Refresh \in Goroutine /\ proc \in [Goroutine -> ProcType]
  BY InstanceTypes DEF Goroutine, MdnsTypes
<1>1. /\ UNCHANGED <<netVars, mgr, table, provVars, recon, hubVars>>
      /\ proc[Refresh].at = "pairings"
      /\ proc' = [proc EXCEPT ![Refresh] = r]
  BY <1>0 DEF LockTable
<1>2. T \subseteq Announcement /\ \A a \in T : table[a] # Absent
  OBVIOUS
<1> HIDE DEF T
<1>3. r \in ProcType /\ r.id = proc[Refresh].id /\ r.at = "swapPairings" /\ r.todo = T
  BY ZenonT(60), <1>0, <1>2 DEF ProcType
<1> HIDE DEF r
<1>4. LockGood(r)
  BY <1>2, <1>3 DEF LockGood
<1>5. ShipOnly
  BY <1>1, UnchangedIsShipOnly
<1>6. RestKept /\ UNCHANGED <<call, active, used>>
  BY <1>1, SpentStays, RestStays
<1>7. ShipAfter(mgr.instance) /\ ShipAfter(r.id) /\ mgr \in MgrType /\ mgr' = mgr
  BY <1>0, <1>1, <1>3, <1>5, ShipIdFacts, ProcFields
<1>. QED BY <1>0, <1>1, <1>3, <1>4, <1>5, <1>6, <1>7, MoveKeepsLock DEF Quiet

\* The loop over the table ends, at its end or with a failure.
LEMMA SwapEndKeeps ==
    ASSUME AInv, UNCHANGED env, UNCHANGED <<usable, daemon, mgr, table, recon, hubVars>>,
           proc[Refresh].at = "swapPairings", proc' = [proc EXCEPT ![Refresh] = Idle],
           Fails \/ UNCHANGED <<spent, provVars>>
    PROVE  AInv' /\ Quiet
<1>0. Refresh \in Goroutine /\ spent \in [changes : Nat, losses : Nat, failures : Nat]
  BY InstanceTypes DEF Goroutine, NetTypes
<1>1. Idle \in ProcType /\ mgr \in MgrType
  BY <1>0, ProcFields
<1>2. ShipOnly
  BY FailsIsShipOnly, UnchangedIsShipOnly
<1>3. spent' \in [changes : Nat, losses : Nat, failures : Nat] /\ spent'.losses = spent.losses
  BY <1>0, FailsEffect, InstanceTypes
<1>4. RestKept /\ UNCHANGED <<call, active, used>>
  BY <1>3, RestStays
<1>5. LockGood(Idle) /\ Idle.id = None
  BY DEF LockGood, Idle
<1>. QED BY <1>0, <1>1, <1>2, <1>4, <1>5, ShipIdFacts, MoveKeepsLock DEF Quiet

\* What is under the IDs that are held does not become another service.
HeldKept == \A i \in Held : i \in Registered' => i \in Registered /\ inst'[i] = inst[i]

\* A registration changes nothing that is held.
LEMMA RegistersHeld ==
    ASSUME AInv, NEW s \in Service, Registers(s)
    PROVE  HeldKept
<1>1. /\ NewId \in Id /\ NewId \notin Held
      /\ Registered' = Registered \cup {NewId}
      /\ \A i \in Id \ {NewId} : inst'[i] = inst[i]
  BY RegistersEffect, InstanceTypes
<1>. QED BY <1>1, InstanceTypes DEF HeldKept

\* Nor does a withdrawal.
LEMMA UnregistersHeld ==
    ASSUME AInv, NEW ids, Unregisters(ids)
    PROVE  HeldKept
  BY UnregistersEffect, InstanceTypes DEF HeldKept

\* So every ID that is held still stands for what it is held for.
LEMMA NamesKept ==
    ASSUME AInv, HeldKept
    PROVE  /\ \A i \in ShipIds : ShipAfter(i)
           /\ \A a \in Announcement : table[a] \in Registered' => inst'[table[a]].svc = a
           /\ call.at \in {"enter", "withdraw"} =>
                 (call.id \in Registered' => inst'[call.id].svc = call.a)
           /\ \A r \in recon.todo : r.id \in Registered' => inst'[r.id].svc = r.svc
<1>1. ASSUME NEW i \in ShipIds PROVE ShipAfter(i)
  <2>1. i \in Held \/ i = None
    BY DEF ShipIds, Held
  <2>2. None \notin Registered'
    BY NamesAssumption DEF Registered
  <2>. QED BY <2>1, <2>2 DEF ShipAfter, HeldKept, AInv, NameInv, Names
<1>2. ASSUME NEW a \in Announcement, table[a] \in Registered' PROVE inst'[table[a]].svc = a
  BY <1>2 DEF Held, HeldKept, AInv, NameInv, Names
<1>3. ASSUME call.at \in {"enter", "withdraw"}, call.id \in Registered' PROVE inst'[call.id].svc = call.a
  BY <1>3 DEF Held, HeldKept, AInv, NameInv, Names
<1>4. ASSUME NEW r \in recon.todo, r.id \in Registered' PROVE inst'[r.id].svc = r.svc
  BY <1>4 DEF Held, HeldKept, AInv, NameInv, Names
<1>. QED BY <1>1, <1>2, <1>3, <1>4

\* One service of the table gets its new instance, and the table names it before the old
\* one is withdrawn.
LEMMA SwapPairingKeeps ==
    ASSUME AInv, UNCHANGED env, UNCHANGED <<usable, daemon, mgr, recon, hubVars>>,
           proc[Refresh].at = "swapPairings", NEW a \in proc[Refresh].todo, SwapPairing(a)
    PROVE  AInv'
<1> USE InstanceTypes
<1> DEFINE n == NewId
           o == table[a]
           T == proc[Refresh].todo \ {a}
           r == [proc[Refresh] EXCEPT !.todo = T, !.at = "swappedPairing", !.old = o]
<1>0. Refresh \in Goroutine /\ proc \in [Goroutine -> ProcType]
      /\ table \in [Announcement -> Id \cup {None, Absent}] /\ mgr \in MgrType
  BY DEF Goroutine, MdnsTypes
<1>1. a \in Announcement /\ a \in Service /\ o # Absent /\ o \in Id \cup {None}
  BY <1>0 DEF AInv, LockInv, TableLocked, ProcType, Service
<1>2. Registers(a) /\ table' = [table EXCEPT ![a] = n] /\ proc' = [proc EXCEPT ![Refresh] = r]
  BY <1>0 DEF SwapPairing
<1>3. /\ ProviderTypes'
      /\ n \in Id /\ n \notin Held
      /\ Registered' = Registered \cup {n} /\ inst'[n].svc = a
      /\ \A i \in Id \ {n} : inst'[i] = inst[i]
      /\ live' = live \cup {n}
      /\ spent' = spent
  BY <1>1, <1>2, RegistersEffect
<1>4. HeldKept
  BY <1>1, <1>2, RegistersHeld
<1>5. r \in ProcType /\ r.id = proc[Refresh].id /\ r.at = "swappedPairing" /\ r.old = o /\ r.todo = T
  <2>1. T \subseteq Announcement
    BY <1>0 DEF ProcType
  <2> HIDE DEF T
  <2>. QED BY ZenonT(60), <1>0, <1>1, <2>1 DEF ProcType
<1>6. o \in Held /\ o # n /\ n # Absent
  BY <1>1, <1>3, NamesAssumption DEF Held
<1> HIDE DEF n, r
<1>7. /\ proc' \in [Goroutine -> ProcType] /\ proc'[Refresh] = r
      /\ \A q \in Goroutine \ {Refresh} : proc'[q] = proc[q]
  BY <1>0, <1>2, <1>5
<1>8. /\ table' \in [Announcement -> Id \cup {None, Absent}] /\ table'[a] = n
      /\ \A b \in Announcement \ {a} : table'[b] = table[b]
  BY <1>0, <1>1, <1>2, <1>3
<1> HIDE DEF o
<1>9. TypeOK'
  <2>1. MdnsTypes'
    BY <1>0, <1>7, <1>8 DEF MdnsTypes
  <2>2. NetTypes' /\ HubTypes' /\ recon' \in ReconType
    BY <1>3 DEF NetTypes, HubTypes, hubVars
  <2>. QED BY <1>3, <2>1, <2>2, TypesNext
<1>10. NameInv'
  <2>1. ShipIds' \subseteq ShipIds
    BY <1>5, <1>7, NamesAssumption DEF ShipIds, Goroutine
  <2>2. \A i \in ShipIds' : Names(i, Ship)'
    BY <1>4, <2>1, NamesKept DEF ShipAfter, Names
  <2>3. ASSUME NEW b \in Announcement PROVE Names(table[b], b)'
    BY <1>3, <1>4, <1>8, NamesKept DEF Names
  <2>4. call'.at \in {"enter", "withdraw"} => Names(call.id, call.a)'
    BY <1>4, NamesKept DEF Names, hubVars
  <2>5. \A x \in recon'.todo : Names(x.id, x.svc)'
    BY <1>4, NamesKept DEF Names
  <2>. QED BY <2>2, <2>3, <2>4, <2>5 DEF NameInv
<1>11. LiveInv'
  BY <1>1, <1>3, NamesAssumption DEF AInv, LiveInv
<1>12. call.at # "free" => call.a # a
  BY <1>1 DEF AInv, CallInv, o
<1>13. CallInv'
  <2>1. CallInv /\ call' = call /\ active' = active /\ used' = used
    BY DEF AInv, hubVars
  <2>2. a \in used
    BY <2>1, <1>1 DEF CallInv, o
  <2>. QED BY <1>1, <1>6, <1>8, <1>12, <2>1, <2>2 DEF CallInv, HubTypes
<1>14. BegunInv'
  <2>1. \A s : Begun(s)' <=> Begun(s)
    BY DEF Begun, hubVars
  <2>2. Begun(a)
    BY <1>1, <1>12 DEF Begun, AInv, CallInv, o
  <2>. QED BY <1>3, <2>1, <2>2 DEF AInv, BegunInv
<1>15. LockInv'
  <2>1. \A b \in T : table'[b] # Absent
    BY <1>0, <1>8 DEF AInv, LockInv, TableLocked, ProcType
  <2>2. o \in Registered' => inst'[o].svc = a
    BY <1>1, <1>4, NamesKept DEF o
  <2>3. n \in live' \ {o} /\ inst'[n].svc = a
    BY <1>3, <1>6
  <2>. QED BY <1>1, <1>5, <1>6, <1>7, <1>8, <2>1, <2>2, <2>3 DEF LockInv, Names, TableLocked
<1>16. LossInv'
  BY <1>3 DEF AInv, LossInv
<1>17. PairingIsAccountedFor'
  <2> SUFFICES ASSUME spent'.losses = 0, NEW i \in live', inst'[i].svc \in Announcement
               PROVE  \/ table'[inst'[i].svc] = i
                      \/ call'.at \in {"enter", "withdraw"} /\ call'.a = inst'[i].svc /\ call'.id = i
                      \/ proc'[Refresh].at = "swappedPairing" /\ proc'[Refresh].old = i
    BY DEF PairingIsAccountedFor
  <2>1. CASE i = n
    BY <1>3, <1>8, <2>1
  <2>2. CASE i \in live
    <3>1. inst'[i] = inst[i]
      BY <1>3, <2>2 DEF Held
    <3>2. \/ table[inst[i].svc] = i
          \/ call.at \in {"enter", "withdraw"} /\ call.a = inst[i].svc /\ call.id = i
      BY <1>3, <2>2, <3>1 DEF AInv, PairingIsAccountedFor
    <3>3. call' = call
      BY DEF hubVars
    <3>. QED BY <1>5, <1>7, <1>8, <3>1, <3>2, <3>3 DEF o
  <2>. QED BY <1>3, <2>1, <2>2
<1>. QED BY <1>9, <1>10, <1>11, <1>13, <1>14, <1>15, <1>16, <1>17 DEF AInv

-----------------------------------------------------------------------------
(* Steps that withdraw instances. *)

\* Instances go, and nothing comes.
Shrinks ==
    /\ ProviderTypes' /\ Registered' \subseteq Registered
    /\ \A i \in Registered' : inst'[i] = inst[i]
    /\ live' \subseteq live \cap Registered'

\* A withdrawal is such a step.
LEMMA UnregistersShrinks ==
    ASSUME AInv, NEW ids, Unregisters(ids)
    PROVE  Shrinks /\ live' = live \ ids
  BY UnregistersEffect, InstanceTypes DEF Shrinks

\* Then the invariants that only say what the instances and the IDs stand for stay.
LEMMA ShrinkNames ==
    ASSUME AInv, Shrinks, ShipIds' \subseteq ShipIds,
           \A a \in Announcement : table'[a] \in {table[a], None, Absent},
           call' = call \/ call'.at = "free",
           recon'.todo \subseteq recon.todo
    PROVE  NameInv' /\ LiveInv'
<1>1. HeldKept
  BY DEF HeldKept, Shrinks
<1>2. None \notin Registered' /\ Absent \notin Registered'
  BY NamesAssumption DEF Registered
<1>3. \A i \in ShipIds' : Names(i, Ship)'
  BY <1>1, NamesKept DEF ShipAfter, Names
<1>4. \A a \in Announcement : Names(table[a], a)'
  BY <1>1, <1>2, NamesKept DEF Names
<1>5. call'.at \in {"enter", "withdraw"} => Names(call.id, call.a)'
  BY <1>1, NamesKept DEF Names
<1>6. \A r \in recon'.todo : Names(r.id, r.svc)'
  BY <1>1, NamesKept DEF Names
<1>7. LiveInv'
  BY DEF AInv, LiveInv, Shrinks
<1>. QED BY <1>3, <1>4, <1>5, <1>6, <1>7 DEF NameInv

\* Fewer instances, fewer calls and fewer copies: all have been announced still.
LEMMA ShrinkBegun ==
    ASSUME AInv, Shrinks, used' = used, call' = call \/ call'.at = "free",
           recon'.todo \subseteq recon.todo
    PROVE  BegunInv'
<1>1. \A s : Begun(s) => Begun(s)'
  BY DEF Begun
<1>. QED BY <1>1 DEF AInv, BegunInv, Shrinks

\* ShipIds after a step of the refresh loop.
LEMMA RefreshShipIds ==
    ASSUME AInv, NEW r \in ProcType, proc' = [proc EXCEPT ![Refresh] = r],
           r.id \in {proc[Refresh].id, None}, mgr' = mgr
    PROVE  /\ ShipIds' \subseteq ShipIds
           /\ proc'[Refresh] = r
           /\ proc' \in [Goroutine -> ProcType]
<1>1. proc \in [Goroutine -> ProcType] /\ Refresh \in Goroutine
  BY InstanceTypes DEF MdnsTypes, Goroutine
<1>2. proc'[Refresh] = r /\ (\A q \in Goroutine \ {Refresh} : proc'[q] = proc[q])
      /\ proc' \in [Goroutine -> ProcType]
  BY <1>1
<1>. QED BY <1>2, NamesAssumption DEF ShipIds, Goroutine

\* The instance that has been replaced is withdrawn.
LEMMA SwappedPairingKeeps ==
    ASSUME AInv, UNCHANGED env, SwappedPairing
    PROVE  AInv'
<1> USE InstanceTypes
<1> DEFINE o == proc[Refresh].old
           r == [proc[Refresh] EXCEPT !.at = "swapPairings", !.old = None]
<1>0. Refresh \in Goroutine /\ proc \in [Goroutine -> ProcType]
  BY DEF Goroutine, MdnsTypes
<1>1. /\ UNCHANGED <<netVars, mgr, table, recon, hubVars>>
      /\ proc[Refresh].at = "swappedPairing" /\ Unregisters({o})
      /\ proc' = [proc EXCEPT ![Refresh] = r]
  BY <1>0 DEF SwappedPairing
<1>2. /\ r \in ProcType /\ r.id = proc[Refresh].id /\ r.at = "swapPairings"
      /\ r.todo = proc[Refresh].todo
  BY ZenonT(60), <1>0 DEF ProcType
<1> HIDE DEF r, o
<1>3. Shrinks /\ live' = live \ {o}
  BY <1>1, UnregistersShrinks
<1>4. ShipIds' \subseteq ShipIds /\ proc'[Refresh] = r /\ proc' \in [Goroutine -> ProcType]
  BY <1>1, <1>2, RefreshShipIds
<1>5. /\ table' = table /\ call' = call /\ active' = active /\ used' = used /\ recon' = recon
      /\ spent' = spent
  BY <1>1 DEF hubVars, netVars
<1>6. TypeOK'
  <2>1. MdnsTypes'
    BY <1>1, <1>4 DEF MdnsTypes
  <2>2. NetTypes' /\ HubTypes' /\ recon' \in ReconType
    BY <1>1 DEF NetTypes, HubTypes, hubVars, netVars
  <2>. QED BY <1>3, <2>1, <2>2, TypesNext DEF Shrinks
<1>7. NameInv' /\ LiveInv' /\ BegunInv'
  BY <1>3, <1>4, <1>5, ShrinkNames, ShrinkBegun
<1>8. CallInv' /\ LossInv'
  BY <1>5 DEF AInv, CallInv, LossInv
<1>9. LockInv'
  BY <1>1, <1>2, <1>4, <1>5 DEF AInv, LockInv, TableLocked
<1>10. PairingIsAccountedFor'
  <2>1. \A i \in live' : i \in live /\ i # o /\ inst'[i] = inst[i]
    BY <1>3 DEF Shrinks
  <2>. QED BY <1>1, <1>5, <2>1 DEF AInv, PairingIsAccountedFor, o
<1>. QED BY <1>6, <1>7, <1>8, <1>9, <1>10 DEF AInv

\* Without interfaces, the refresh loop withdraws every pairing service; their entries stay.
LEMMA WithdrawPairingsKeeps ==
    ASSUME AInv, UNCHANGED env, WithdrawPairings
    PROVE  AInv'
<1> USE InstanceTypes
<1> DEFINE ids == {table[a] : a \in Announcement}
           T == [a \in Announcement |-> IF table[a] = Absent THEN Absent ELSE None]
<1>0. Refresh \in Goroutine /\ table \in [Announcement -> Id \cup {None, Absent}]
  BY DEF Goroutine, MdnsTypes
<1>1. /\ UNCHANGED <<netVars, mgr, recon, hubVars>>
      /\ proc[Refresh].at = "withdrawPairings"
      /\ proc' = [proc EXCEPT ![Refresh] = Idle]
  BY DEF WithdrawPairings
<1>2. Idle \in ProcType /\ Idle.id = None /\ Idle.at = "idle"
  BY <1>0, ProcFields DEF Idle
<1>3. CASE ~proc[Refresh].paired
  <2>1. UNCHANGED <<table, provVars>> /\ mgr \in MgrType
    BY <1>3 DEF WithdrawPairings, MdnsTypes
  <2>. QED BY <1>0, <1>1, <1>2, <2>1, MoveIsQuiet DEF PairingAt
<1>4. CASE proc[Refresh].paired
  <2>1. Unregisters(ids) /\ table' = T
    BY <1>4 DEF WithdrawPairings
  <2>2. Shrinks /\ live' = live \ ids
    BY <2>1, UnregistersShrinks
  <2>3. ShipIds' \subseteq ShipIds /\ proc'[Refresh] = Idle /\ proc' \in [Goroutine -> ProcType]
    BY <1>1, <1>2, RefreshShipIds
  <2>4. /\ T \in [Announcement -> Id \cup {None, Absent}]
        /\ \A a \in Announcement : T[a] \in {table[a], None} /\ (T[a] = Absent <=> table[a] = Absent)
    BY <1>0, NamesAssumption
  <2>5. \A a \in Announcement : table[a] \in ids
    OBVIOUS
  <2> HIDE DEF T, ids
  <2>6. /\ call' = call /\ active' = active /\ used' = used /\ recon' = recon /\ spent' = spent
    BY <1>1 DEF hubVars, netVars
  <2>7. TypeOK'
    <3>1. MdnsTypes'
      BY <1>1, <2>1, <2>3, <2>4 DEF MdnsTypes
    <3>2. NetTypes' /\ HubTypes' /\ recon' \in ReconType
      BY <1>1 DEF NetTypes, HubTypes, hubVars, netVars
    <3>. QED BY <2>2, <3>1, <3>2, TypesNext DEF Shrinks
  <2>8. NameInv' /\ LiveInv' /\ BegunInv'
    BY <2>1, <2>2, <2>3, <2>4, <2>6, ShrinkNames, ShrinkBegun
  <2>9. CallInv' /\ LossInv'
    BY <2>1, <2>4, <2>6 DEF AInv, CallInv, LossInv, CallType, HubTypes
  <2>10. LockInv'
    BY <1>2, <2>3 DEF LockInv, TableLocked
  <2>11. PairingIsAccountedFor'
    <3>1. \A i \in live' : i \in live /\ i \notin ids /\ inst'[i] = inst[i]
      BY <2>2 DEF Shrinks
    <3>. QED BY <1>1, <2>5, <2>6, <3>1 DEF AInv, PairingIsAccountedFor
  <2>. QED BY <2>7, <2>8, <2>9, <2>10, <2>11 DEF AInv
<1>. QED BY <1>3, <1>4

-----------------------------------------------------------------------------
(* The calls of the hub. *)

\* A step of the hub that does nothing to the provider, the manager and attemptReconnect.
LEMMA HubSteps ==
    ASSUME AInv, UNCHANGED env, UNCHANGED <<netVars, mgr, proc, provVars, recon, down>>,
           table' \in [Announcement -> Id \cup {None, Absent}],
           active' \subseteq Announcement, used' \subseteq Announcement, call' \in CallType
    PROVE  /\ TypeOK' /\ LiveInv' /\ LossInv'
           /\ ShipIds' = ShipIds /\ Registered' = Registered
           /\ inst' = inst /\ live' = live /\ recon' = recon /\ proc' = proc
           /\ spent' = spent
<1> USE InstanceTypes
<1>1. TypeOK'
  <2>1. MdnsTypes'
    BY DEF MdnsTypes
  <2>2. NetTypes' /\ recon' \in ReconType
    BY DEF NetTypes, netVars
  <2>3. ProviderTypes'
    BY DEF ProviderTypes, provVars
  <2>4. HubTypes'
    BY DEF HubTypes
  <2>. QED BY <2>1, <2>2, <2>3, <2>4, TypesNext
<1>2. LiveInv' /\ LossInv'
  BY DEF AInv, LiveInv, LossInv, netVars, provVars, Registered
<1>. QED BY <1>1, <1>2 DEF ShipIds, Registered, provVars, netVars

\* StartAnnouncementTo, for a service that has not been announced before.
LEMMA StartAnnouncementKeeps ==
    ASSUME AInv, UNCHANGED env, NEW a \in Announcement, StartAnnouncementTo(a)
    PROVE  AInv'
<1> USE InstanceTypes
<1>1. /\ UNCHANGED <<netVars, mgr, table, proc, provVars, recon, active, down>>
      /\ call.at = "free" /\ a \notin used /\ used' = used \cup {a}
      /\ call' = [at |-> "announce", a |-> a, id |-> None]
  BY DEF StartAnnouncementTo
<1>2. /\ table \in [Announcement -> Id \cup {None, Absent}]
      /\ active \subseteq Announcement /\ used \subseteq Announcement
  BY DEF MdnsTypes, HubTypes
<1>3. call' \in CallType /\ call'.at = "announce" /\ call'.a = a
  BY <1>1 DEF CallType
<1>4. /\ TypeOK' /\ LiveInv' /\ LossInv'
      /\ ShipIds' = ShipIds /\ Registered' = Registered
      /\ inst' = inst /\ live' = live /\ recon' = recon /\ proc' = proc /\ spent' = spent
  BY <1>1, <1>2, <1>3, HubSteps
<1>5. NameInv'
  BY <1>1, <1>3, <1>4 DEF AInv, NameInv, Names
<1>6. CallInv'
  BY <1>1, <1>2, <1>3 DEF AInv, CallInv
<1>7. BegunInv'
  <2>1. \A s : Begun(s) => Begun(s)'
    BY <1>1, <1>3 DEF Begun
  <2>. QED BY <1>4, <2>1 DEF AInv, BegunInv
<1>8. LockInv'
  BY <1>1, <1>4 DEF AInv, LockInv, TableLocked, Names
<1>9. PairingIsAccountedFor'
  BY <1>1, <1>4 DEF AInv, PairingIsAccountedFor
<1>. QED BY <1>4, <1>5, <1>6, <1>7, <1>8, <1>9 DEF AInv

\* AnnouncePairingService enters the new ID in the table.
LEMMA EnterPairingKeeps ==
    ASSUME AInv, UNCHANGED env, EnterPairing
    PROVE  AInv'
<1> USE InstanceTypes
<1> DEFINE a == call.a
           i0 == call.id
<1>1. /\ UNCHANGED <<netVars, mgr, proc, provVars, recon, used, down>>
      /\ call.at = "enter" /\ ~TableLocked
      /\ table' = [table EXCEPT ![a] = i0] /\ active' = active \cup {a} /\ call' = Free
  BY DEF EnterPairing
<1>2. /\ table \in [Announcement -> Id \cup {None, Absent}]
      /\ active \subseteq Announcement /\ used \subseteq Announcement /\ call \in CallType
  BY DEF MdnsTypes, HubTypes
<1>3. Free \in CallType /\ Free.at = "free"
  BY DEF CallType, Free
<1>4. a \in used /\ a \in Announcement /\ table[a] = Absent /\ i0 \in Id \cup {None}
      /\ (i0 \in Registered => inst[i0].svc = a)
  BY <1>1, <1>2 DEF AInv, CallInv, CallType, NameInv, Names
<1>5. i0 # Absent
  BY <1>4, NamesAssumption
<1> HIDE DEF a, i0
<1>6. /\ table' \in [Announcement -> Id \cup {None, Absent}] /\ table'[a] = i0
      /\ \A b \in Announcement \ {a} : table'[b] = table[b]
  BY <1>1, <1>2, <1>4
<1>7. /\ TypeOK' /\ LiveInv' /\ LossInv'
      /\ ShipIds' = ShipIds /\ Registered' = Registered
      /\ inst' = inst /\ live' = live /\ recon' = recon /\ proc' = proc /\ spent' = spent
  BY <1>1, <1>2, <1>3, <1>4, <1>6, HubSteps
<1>8. NameInv'
  <2>1. \A b \in Announcement : Names(table[b], b)'
    BY <1>4, <1>6, <1>7 DEF AInv, NameInv, Names
  <2>. QED BY <1>1, <1>3, <1>7, <2>1 DEF AInv, NameInv, Names
<1>9. CallInv'
  BY <1>1, <1>2, <1>3, <1>4, <1>5, <1>6 DEF AInv, CallInv
<1>10. BegunInv'
  <2>1. \A s : Begun(s) => Begun(s)'
    BY <1>1, <1>3 DEF Begun
  <2>. QED BY <1>7, <2>1 DEF AInv, BegunInv
<1>11. LockInv'
  BY <1>1, <1>7 DEF LockInv, TableLocked
<1>12. PairingIsAccountedFor'
  <2> SUFFICES ASSUME spent.losses = 0, NEW i \in live, inst[i].svc \in Announcement
               PROVE  \/ table'[inst[i].svc] = i
                      \/ proc[Refresh].at = "swappedPairing" /\ proc[Refresh].old = i
    BY <1>7 DEF PairingIsAccountedFor
  <2>1. i # Absent
    BY NamesAssumption
  <2>2. \/ table[inst[i].svc] = i
        \/ a = inst[i].svc /\ i0 = i
        \/ proc[Refresh].at = "swappedPairing" /\ proc[Refresh].old = i
    BY DEF AInv, PairingIsAccountedFor, a, i0
  <2>. QED BY <1>4, <1>6, <2>1, <2>2
<1>. QED BY <1>7, <1>8, <1>9, <1>10, <1>11, <1>12 DEF AInv

\* StopAnnouncementTo takes the entry out of the table before the instance is withdrawn.
LEMMA StopAnnouncementKeeps ==
    ASSUME AInv, UNCHANGED env, NEW a \in Announcement, StopAnnouncementTo(a)
    PROVE  AInv'
<1> USE InstanceTypes
<1>1. /\ UNCHANGED <<netVars, mgr, proc, provVars, recon, used, down>>
      /\ call.at = "free" /\ a \in active
  BY DEF StopAnnouncementTo
<1>2. /\ table \in [Announcement -> Id \cup {None, Absent}]
      /\ active \subseteq Announcement /\ used \subseteq Announcement /\ call \in CallType
  BY DEF MdnsTypes, HubTypes
<1>3. table[a] # Absent /\ table[a] \in Id \cup {None} /\ a \in used
  BY <1>1, <1>2 DEF AInv, CallInv
<1>4. CASE ~mgr.provider
  <2>1. active' = active \ {a} /\ table' = table /\ call' = call
    BY <1>4 DEF StopAnnouncementTo
  <2>2. /\ TypeOK' /\ LiveInv' /\ LossInv'
        /\ ShipIds' = ShipIds /\ Registered' = Registered
        /\ inst' = inst /\ live' = live /\ recon' = recon /\ proc' = proc /\ spent' = spent
    BY <1>1, <1>2, <2>1, HubSteps
  <2>3. NameInv' /\ BegunInv'
    BY <1>1, <2>1, <2>2 DEF AInv, NameInv, Names, BegunInv, Begun
  <2>4. CallInv' /\ PairingIsAccountedFor'
    BY <1>1, <2>1, <2>2 DEF AInv, CallInv, PairingIsAccountedFor
  <2>5. LockInv'
    BY <1>1, <2>1, <2>2 DEF AInv, LockInv, TableLocked, Names
  <2>. QED BY <2>2, <2>3, <2>4, <2>5 DEF AInv
<1>5. CASE mgr.provider
  <2> DEFINE k == [at |-> "withdraw", a |-> a, id |-> table[a]]
  <2>1. ~TableLocked /\ table' = [table EXCEPT ![a] = Absent] /\ call' = k /\ active' = active
    BY <1>5 DEF StopAnnouncementTo
  <2>2. k \in CallType /\ k.at = "withdraw" /\ k.a = a /\ k.id = table[a]
    BY <1>3 DEF CallType
  <2> HIDE DEF k
  <2>3. /\ table' \in [Announcement -> Id \cup {None, Absent}] /\ table'[a] = Absent
        /\ \A b \in Announcement \ {a} : table'[b] = table[b]
    BY <1>2, <2>1
  <2>4. /\ TypeOK' /\ LiveInv' /\ LossInv'
        /\ ShipIds' = ShipIds /\ Registered' = Registered
        /\ inst' = inst /\ live' = live /\ recon' = recon /\ proc' = proc /\ spent' = spent
    BY <1>1, <1>2, <2>1, <2>2, <2>3, HubSteps
  <2>5. NameInv'
    <3>1. \A b \in Announcement : Names(table[b], b)'
      <4>1. Absent \notin Registered
        BY NamesAssumption
      <4>. QED BY <2>3, <2>4, <4>1 DEF AInv, NameInv, Names
    <3>. QED BY <2>1, <2>2, <2>4, <3>1 DEF AInv, NameInv, Names
  <2>6. CallInv'
    BY <1>1, <1>2, <1>3, <2>1, <2>2, <2>3 DEF AInv, CallInv
  <2>7. BegunInv'
    <3>1. \A s : Begun(s) => Begun(s)'
      BY <1>1, <2>1, <2>2 DEF Begun
    <3>. QED BY <2>4, <3>1 DEF AInv, BegunInv
  <2>8. LockInv'
    BY <2>1, <2>4 DEF LockInv, TableLocked
  <2>9. PairingIsAccountedFor'
    BY <1>1, <2>1, <2>2, <2>3, <2>4 DEF AInv, PairingIsAccountedFor
  <2>. QED BY <2>4, <2>5, <2>6, <2>7, <2>8, <2>9 DEF AInv
<1>. QED BY <1>4, <1>5

\* UnannouncePairingService withdraws the instance it has taken out of the table.
LEMMA WithdrawPairingKeeps ==
    ASSUME AInv, UNCHANGED env, WithdrawPairing
    PROVE  AInv'
<1> USE InstanceTypes
<1> DEFINE o == call.id
           a == call.a
<1>1. /\ UNCHANGED <<netVars, mgr, table, proc, recon, used, down>>
      /\ call.at = "withdraw" /\ Unregisters({o})
      /\ active' = active \ {a} /\ call' = Free
  BY DEF WithdrawPairing
<1>2. Free \in CallType /\ Free.at = "free"
  BY DEF CallType, Free
<1>3. /\ table \in [Announcement -> Id \cup {None, Absent}] /\ active \subseteq Announcement
      /\ used \subseteq Announcement /\ call \in CallType
  BY DEF MdnsTypes, HubTypes
<1>4. a \in used /\ table[a] = Absent /\ (o \in Registered => inst[o].svc = a)
  BY <1>1 DEF AInv, CallInv, NameInv, Names
<1> HIDE DEF o, a
<1>5. Shrinks /\ live' = live \ {o}
  BY <1>1, UnregistersShrinks
<1>6. TypeOK'
  <2>1. MdnsTypes'
    BY <1>1 DEF MdnsTypes
  <2>2. NetTypes' /\ HubTypes' /\ recon' \in ReconType
    BY <1>1, <1>2, <1>3 DEF NetTypes, HubTypes, netVars
  <2>. QED BY <1>5, <2>1, <2>2, TypesNext DEF Shrinks
<1>7. ShipIds' = ShipIds
  BY <1>1 DEF ShipIds
<1>8. NameInv' /\ LiveInv' /\ BegunInv'
  BY <1>1, <1>2, <1>5, <1>7, ShrinkNames, ShrinkBegun
<1>9. CallInv'
  BY <1>1, <1>2, <1>3 DEF AInv, CallInv, a
<1>10. LossInv'
  BY <1>1 DEF AInv, LossInv, netVars
<1>11. LockInv'
  <2>1. TableLocked' => \A b \in proc'[Refresh].todo : table'[b] # Absent
    BY <1>1 DEF AInv, LockInv, TableLocked
  <2>2. ASSUME proc[Refresh].at = "swappedPairing"
        PROVE  \E b \in Announcement :
                   /\ table'[b] # Absent
                   /\ proc'[Refresh].old \in Registered' => inst'[proc'[Refresh].old].svc = b
                   /\ down' = "no" /\ proc'[Refresh].old \in live' =>
                         \E j \in live' \ {proc'[Refresh].old} : inst'[j].svc = b
    <3> DEFINE x == proc[Refresh].old
    <3>1. PICK b \in Announcement :
              /\ table[b] # Absent /\ (x \in Registered => inst[x].svc = b)
              /\ down = "no" /\ x \in live => \E j \in live \ {x} : inst[j].svc = b
      BY <2>2 DEF AInv, LockInv, Names
    <3>2. proc'[Refresh].old = x /\ table' = table
      BY <1>1
    <3> HIDE DEF x
    <3>3. x \in Registered' => inst'[x].svc = b
      BY <1>5, <3>1 DEF Shrinks
    <3>4. ASSUME down' = "no", x \in live' PROVE \E j \in live' \ {x} : inst'[j].svc = b
      <4>1. PICK j \in live \ {x} : inst[j].svc = b
        BY <1>1, <1>5, <3>1, <3>4
      <4>2. j # o
        BY <1>4, <3>1, <4>1
      <4>. QED BY <1>5, <4>1, <4>2 DEF Shrinks
    <3>. QED BY <3>1, <3>2, <3>3, <3>4
  <2>. QED BY <1>1, <2>1, <2>2 DEF LockInv, Names
<1>12. PairingIsAccountedFor'
  <2>1. \A i \in live' : i \in live /\ i # o /\ inst'[i] = inst[i]
    BY <1>5 DEF Shrinks
  <2>. QED BY <1>1, <2>1 DEF AInv, PairingIsAccountedFor, o, netVars
<1>. QED BY <1>6, <1>8, <1>9, <1>10, <1>11, <1>12 DEF AInv

\* What stays under the lock when instances come, and none goes.
LEMMA GrowLock ==
    ASSUME AInv, HeldKept, UNCHANGED <<proc, table, down>>, live \subseteq live',
           \A i \in live : inst'[i] = inst[i],
           proc[Refresh].old \in live' => proc[Refresh].old \in live
    PROVE  LockInv'
<1> DEFINE x == proc[Refresh].old
<1>1. TableLocked' => \A b \in proc'[Refresh].todo : table'[b] # Absent
  BY DEF AInv, LockInv, TableLocked
<1>2. ASSUME proc[Refresh].at = "swappedPairing"
      PROVE  \E b \in Announcement :
                 /\ table'[b] # Absent
                 /\ x \in Registered' => inst'[x].svc = b
                 /\ down' = "no" /\ x \in live' => \E j \in live' \ {x} : inst'[j].svc = b
  <2>1. PICK b \in Announcement :
            /\ table[b] # Absent /\ (x \in Registered => inst[x].svc = b)
            /\ down = "no" /\ x \in live => \E j \in live \ {x} : inst[j].svc = b
    BY <1>2 DEF AInv, LockInv, Names
  <2>2. x \in Held
    BY DEF Held
  <2> HIDE DEF x
  <2>3. x \in Registered' => inst'[x].svc = b
    BY <2>1, <2>2 DEF HeldKept
  <2>4. ASSUME down' = "no", x \in live' PROVE \E j \in live' \ {x} : inst'[j].svc = b
    BY <2>1, <2>4 DEF x
  <2>. QED BY <2>1, <2>3, <2>4
<1>. QED BY <1>1, <1>2 DEF LockInv, Names

\* The provider registers the pairing service, or AnnouncePairingService fails.
LEMMA AnnouncePairingKeeps ==
    ASSUME AInv, UNCHANGED env, AnnouncePairing
    PROVE  AInv'
<1> USE InstanceTypes
<1> DEFINE a == call.a
           n == NewId
           k == [call EXCEPT !.at = "enter", !.id = n]
<1>1. /\ UNCHANGED <<usable, daemon, mgr, table, proc, recon, active, used, down>>
      /\ call.at = "announce"
      /\ \/ Registers(a) /\ call' = k
         \/ Fails /\ call' = Free
  BY DEF AnnouncePairing
<1>2. Free \in CallType /\ Free.at = "free"
  BY DEF CallType, Free
<1>3. /\ table \in [Announcement -> Id \cup {None, Absent}] /\ active \subseteq Announcement
      /\ used \subseteq Announcement /\ call \in CallType
  BY DEF MdnsTypes, HubTypes
<1>4. a \in used /\ a \in Announcement /\ a \in Service /\ table[a] = Absent /\ a # None
  BY <1>1, <1>3, NamesAssumption DEF AInv, CallInv, Service
<1>5. CASE Fails /\ call' = Free
  <2>1. UNCHANGED provVars /\ spent' \in [changes : Nat, losses : Nat, failures : Nat]
        /\ spent'.losses = spent.losses
    BY <1>5, FailsEffect
  <2>2. inst' = inst /\ live' = live /\ prov' = prov /\ Registered' = Registered
    BY <2>1 DEF provVars, Registered
  <2>3. TypeOK'
    <3>1. MdnsTypes' /\ ProviderTypes'
      BY <1>1, <2>2 DEF MdnsTypes, ProviderTypes
    <3>2. NetTypes' /\ HubTypes' /\ recon' \in ReconType
      BY <1>1, <1>2, <1>3, <1>5, <2>1 DEF NetTypes, HubTypes
    <3>. QED BY <3>1, <3>2, TypesNext
  <2>4. ShipIds' = ShipIds
    BY <1>1 DEF ShipIds
  <2>5. NameInv'
    BY <1>1, <1>2, <1>5, <2>2, <2>4 DEF AInv, NameInv, Names
  <2>6. LiveInv' /\ CallInv' /\ LossInv'
    BY <1>1, <1>2, <1>5, <2>1, <2>2 DEF AInv, LiveInv, CallInv, LossInv
  <2>7. BegunInv'
    <3>1. \A s : Begun(s) => Begun(s)'
      BY <1>1, <1>2, <1>5 DEF Begun
    <3>. QED BY <1>1, <2>2, <3>1 DEF AInv, BegunInv
  <2>8. LockInv'
    BY <1>1, <2>2 DEF AInv, LockInv, TableLocked, Names
  <2>9. PairingIsAccountedFor'
    BY <1>1, <2>1, <2>2 DEF AInv, PairingIsAccountedFor
  <2>. QED BY <2>3, <2>5, <2>6, <2>7, <2>8, <2>9 DEF AInv
<1>6. CASE Registers(a) /\ call' = k
  <2>1. /\ ProviderTypes'
        /\ n \in Id /\ n \notin Held
        /\ Registered' = Registered \cup {n} /\ inst'[n].svc = a
        /\ \A i \in Id \ {n} : inst'[i] = inst[i]
        /\ live' = live \cup {n}
        /\ spent' = spent
    BY <1>4, <1>6, RegistersEffect
  <2>2. k \in CallType /\ k.at = "enter" /\ k.a = a /\ k.id = n
    BY <1>3, <2>1 DEF CallType
  <2>3. HeldKept
    BY <1>4, <1>6, RegistersHeld
  <2> HIDE DEF a, n, k
  <2>4. TypeOK'
    <3>1. MdnsTypes'
      BY <1>1 DEF MdnsTypes
    <3>2. NetTypes' /\ HubTypes' /\ recon' \in ReconType
      BY <1>1, <1>3, <1>6, <2>1, <2>2 DEF NetTypes, HubTypes
    <3>. QED BY <2>1, <3>1, <3>2, TypesNext
  <2>5. ShipIds' = ShipIds
    BY <1>1 DEF ShipIds
  <2>6. NameInv'
    <3>1. \A i \in ShipIds' : Names(i, Ship)'
      BY <2>3, <2>5, NamesKept DEF ShipAfter, Names
    <3>2. \A b \in Announcement : Names(table[b], b)'
      BY <1>1, <2>3, NamesKept DEF Names
    <3>3. Names(call.id, call.a)'
      BY <1>6, <2>1, <2>2 DEF Names
    <3>4. \A r \in recon'.todo : Names(r.id, r.svc)'
      BY <1>1, <2>3, NamesKept DEF Names
    <3>. QED BY <3>1, <3>2, <3>3, <3>4 DEF NameInv
  <2>7. LiveInv'
    BY <1>4, <2>1 DEF AInv, LiveInv
  <2>8. CallInv' /\ LossInv'
    BY <1>1, <1>4, <1>6, <2>1, <2>2 DEF AInv, CallInv, LossInv
  <2>9. BegunInv'
    <3>1. \A s : Begun(s) => Begun(s)'
      BY <1>1, <1>6, <2>2 DEF Begun
    <3>2. \A s : s = a => Begun(s)'
      BY <1>1, <1>4, <1>6, <2>2 DEF Begun
    <3>. QED BY <1>1, <2>1, <3>1, <3>2 DEF AInv, BegunInv
  <2>10. LockInv'
    <3>1. proc[Refresh].old # n /\ \A i \in live : inst'[i] = inst[i]
      BY <2>1 DEF Held
    <3>. QED BY <1>1, <2>1, <2>3, <3>1, GrowLock
  <2>11. PairingIsAccountedFor'
    <3>1. \A i \in live : inst'[i] = inst[i]
      BY <2>1 DEF Held
    <3>. QED BY <1>1, <1>6, <2>1, <2>2, <3>1 DEF AInv, PairingIsAccountedFor
  <2>. QED BY <2>4, <2>6, <2>7, <2>8, <2>9, <2>10, <2>11 DEF AInv
<1>. QED BY <1>1, <1>5, <1>6

-----------------------------------------------------------------------------
(* Reconnection, Shutdown and the loss of the daemon. *)

\* attemptReconnect copies the services to restore, and all instances are gone.
LEMMA ReconnectCopiesKeeps ==
    ASSUME AInv, UNCHANGED env, ReconnectCopies
    PROVE  AInv'
<1> USE InstanceTypes
<1> DEFINE T == {[id |-> i, svc |-> inst[i].svc] : i \in Registered}
           k == [recon EXCEPT !.at = "restore", !.todo = T]
<1>1. /\ UNCHANGED <<netVars, mgr, table, proc, provVars, hubVars>>
      /\ recon.at = "snapshot" /\ recon' = k
  BY DEF ReconnectCopies
<1>2. /\ T \subseteq [id : Id, svc : Service]
      /\ \A r \in T : r.id \in Registered /\ r.svc = inst[r.id].svc
  <2>1. \A i \in Registered : inst[i].svc \in Service
    BY DEF AInv, LiveInv, ProviderTypes, InstType
  <2>. QED BY <2>1
<1> HIDE DEF T
<1>3. k \in ReconType /\ k.todo = T /\ k.at = "restore"
  BY <1>2 DEF ReconType
<1> HIDE DEF k
<1>4. /\ inst' = inst /\ live' = live /\ Registered' = Registered /\ ShipIds' = ShipIds
      /\ call' = call /\ spent' = spent /\ used' = used /\ active' = active
  BY <1>1 DEF Registered, ShipIds, provVars, hubVars, netVars
<1>5. TypeOK'
  <2>1. MdnsTypes' /\ ProviderTypes'
    BY <1>1 DEF MdnsTypes, ProviderTypes, provVars
  <2>2. NetTypes' /\ HubTypes' /\ recon' \in ReconType
    BY <1>1, <1>3 DEF NetTypes, HubTypes, netVars, hubVars
  <2>. QED BY <2>1, <2>2, TypesNext
<1>6. NameInv'
  BY <1>1, <1>2, <1>3, <1>4 DEF AInv, NameInv, Names
<1>7. LiveInv' /\ CallInv'
  BY <1>1, <1>4 DEF AInv, LiveInv, CallInv
<1>8. BegunInv'
  <2>1. \A s : Begun(s) <=> Begun(s)'
    BY <1>4 DEF Begun
  <2>. QED BY <1>1, <1>2, <1>3, <1>4, <2>1 DEF AInv, BegunInv
<1>9. LockInv' /\ LossInv'
  BY <1>1, <1>4 DEF AInv, LockInv, LossInv, TableLocked, Names, hubVars
<1>10. PairingIsAccountedFor'
  BY <1>1, <1>4 DEF AInv, PairingIsAccountedFor
<1>. QED BY <1>5, <1>6, <1>7, <1>8, <1>9, <1>10 DEF AInv

\* A service is restored under an ID of its own.
LEMMA ReconnectRestoresKeeps ==
    ASSUME AInv, UNCHANGED env, NEW r \in recon.todo, recon.at = "restore",
           UNCHANGED <<usable, daemon, mgr, table, proc, hubVars>>,
           Reachable, Id \ Held # {},
           inst' = [inst EXCEPT ![NewId] = [svc |-> RestoredAs(r), ifaces |-> prov.ifaces],
                                ![r.id] = NoInstance],
           live' = (live \ {r.id}) \cup {NewId},
           recon' = [recon EXCEPT !.todo = @ \ {r}, !.legacy = @ /\ RestoredAs(r) # Ship],
           UNCHANGED <<spent, prov>>
    PROVE  AInv'
<1> USE InstanceTypes
<1> DEFINE n == NewId
           o == r.id
           s == RestoredAs(r)
           e == [svc |-> s, ifaces |-> prov.ifaces]
           T == recon.todo \ {r}
           b == recon.legacy /\ s # Ship
<1>1. n \in Id /\ n \notin Held
  BY NewIdIsNew
<1>2. o \in Held /\ o \in Id /\ r.svc \in Service /\ r \in [id : Id, svc : Service]
  BY DEF Held, ReconType
<1>3. s \in Service /\ (s = r.svc \/ s = Mistyped)
  BY <1>2 DEF RestoredAs, Service
<1>4. inst \in InstType /\ prov \in ProvType /\ live \subseteq Id
  BY DEF ProviderTypes
<1>5. o \in Registered => s = r.svc /\ inst[o].svc = r.svc
  BY DEF RestoredAs, AInv, NameInv, Names
<1>6. inst' = [inst EXCEPT ![n] = e, ![o] = NoInstance]
  OBVIOUS
<1>7. live' = (live \ {o}) \cup {n}
  OBVIOUS
<1>8. recon' = [recon EXCEPT !.todo = T, !.legacy = b] /\ b \in BOOLEAN
  OBVIOUS
<1>19. NoInstance \in [svc : Service \cup {None}, ifaces : SUBSET Iface] /\ NoInstance.svc = None
  BY DEF NoInstance
<1> HIDE DEF b
<1>9. recon' \in ReconType /\ recon'.todo = T /\ recon'.at = "restore"
  BY <1>8 DEF ReconType
<1> HIDE DEF s
<1>10. e \in [svc : Service \cup {None}, ifaces : SUBSET Iface] /\ e.svc = s /\ e # NoInstance
  <2>1. e \in [svc : Service \cup {None}, ifaces : SUBSET Iface] /\ e.svc = s
    BY <1>3, <1>4 DEF ProvType
  <2>2. s # None
    BY <1>3, NamesAssumption DEF Service
  <2>. QED BY <2>1, <2>2, <1>19
<1> HIDE DEF e, n, o, T
<1>11. n # o
  BY <1>1, <1>2
<1>12. /\ inst' \in InstType /\ inst'[n] = e /\ inst'[o] = NoInstance
       /\ \A i \in Id \ {n, o} : inst'[i] = inst[i]
  BY <1>1, <1>2, <1>4, <1>6, <1>10, <1>11, <1>19 DEF InstType
<1>13. Registered' = (Registered \ {o}) \cup {n}
  BY <1>1, <1>2, <1>10, <1>11, <1>12 DEF Registered
<1>14. HeldKept
  BY <1>1, <1>12, <1>13 DEF HeldKept
<1>15. ProviderTypes'
  BY <1>1, <1>4, <1>7, <1>12 DEF ProviderTypes
<1>16. /\ UNCHANGED <<usable, daemon, mgr, table, proc, spent, prov, call, active, used, down>>
       /\ ShipIds' = ShipIds
  BY DEF hubVars, ShipIds
<1>17. \A i \in live : i # o => i \in live' /\ inst'[i] = inst[i]
  BY <1>1, <1>7, <1>12 DEF Held
<1>20. TypeOK'
  <2>1. MdnsTypes'
    BY <1>16 DEF MdnsTypes
  <2>2. NetTypes' /\ HubTypes'
    BY <1>16 DEF NetTypes, HubTypes
  <2>. QED BY <1>9, <1>15, <2>1, <2>2, TypesNext
<1>21. NameInv'
  <2>1. \A i \in ShipIds' : Names(i, Ship)'
    BY <1>14, <1>16, NamesKept DEF ShipAfter, Names
  <2>2. \A a \in Announcement : Names(table[a], a)'
    BY <1>14, <1>16, NamesKept DEF Names
  <2>3. call'.at \in {"enter", "withdraw"} => Names(call.id, call.a)'
    BY <1>14, <1>16, NamesKept DEF Names
  <2>4. \A x \in recon'.todo : Names(x.id, x.svc)'
    BY <1>9, <1>14, NamesKept DEF Names, T
  <2>. QED BY <2>1, <2>2, <2>3, <2>4 DEF NameInv
<1>22. LiveInv'
  <2>1. \A i \in Registered' : inst'[i].svc # None
    <3>1. inst'[n].svc # None
      BY <1>3, <1>10, <1>12, NamesAssumption DEF Service
    <3>2. \A i \in Registered' \ {n} : i \in Registered /\ inst'[i] = inst[i]
      BY <1>12, <1>13, <1>11
    <3>. QED BY <3>1, <3>2 DEF AInv, LiveInv
  <2>. QED BY <1>7, <1>13, <1>11, <2>1 DEF LiveInv
<1>23. CallInv'
  BY <1>16 DEF AInv, CallInv
<1>24. BegunInv'
  <2>1. \A x : Begun(x) <=> Begun(x)'
    BY <1>16 DEF Begun
  <2>2. Begun(s)
    BY <1>3, NamesAssumption DEF AInv, BegunInv, Begun
  <2>3. \A i \in Registered' : inst'[i].svc = s \/ (i \in Registered /\ inst'[i] = inst[i])
    BY <1>10, <1>11, <1>12, <1>13
  <2>. QED BY <1>9, <2>1, <2>2, <2>3 DEF AInv, BegunInv, T
<1>25. LockInv'
  <2> DEFINE x == proc[Refresh].old
  <2>1. TableLocked' => \A c \in proc'[Refresh].todo : table'[c] # Absent
    BY <1>16 DEF AInv, LockInv, TableLocked
  <2>2. ASSUME proc[Refresh].at = "swappedPairing"
        PROVE  \E c \in Announcement :
                   /\ table'[c] # Absent
                   /\ x \in Registered' => inst'[x].svc = c
                   /\ down' = "no" /\ x \in live' => \E j \in live' \ {x} : inst'[j].svc = c
    <3>1. PICK c \in Announcement :
              /\ table[c] # Absent /\ (x \in Registered => inst[x].svc = c)
              /\ down = "no" /\ x \in live => \E j \in live \ {x} : inst[j].svc = c
      BY <2>2 DEF AInv, LockInv, Names
    <3>2. x \in Held
      BY DEF Held
    <3> HIDE DEF x
    <3>3. x \in Registered' => inst'[x].svc = c
      BY <1>14, <3>1, <3>2 DEF HeldKept
    <3>4. ASSUME down' = "no", x \in live' PROVE \E j \in live' \ {x} : inst'[j].svc = c
      <4>1. x \in live /\ x # n
        BY <1>1, <1>7, <3>2, <3>4
      <4>2. PICK j \in live \ {x} : inst[j].svc = c
        BY <3>1, <3>4, <4>1 DEF hubVars
      <4>3. CASE j = o
        BY <1>5, <1>7, <1>10, <1>12, <4>1, <4>2, <4>3
      <4>4. CASE j # o
        BY <1>17, <4>2, <4>4
      <4>. QED BY <4>3, <4>4
    <3>. QED BY <1>16, <3>1, <3>3, <3>4
  <2>. QED BY <1>16, <2>1, <2>2 DEF LockInv, Names
<1>26. LossInv' /\ PairingIsAccountedFor'
  BY <1>16 DEF AInv, LossInv, PairingIsAccountedFor
<1>. QED BY <1>20, <1>21, <1>22, <1>23, <1>24, <1>25, <1>26 DEF AInv

\* A service that cannot be announced anew is left out.
LEMMA ReconnectSkipsKeeps ==
    ASSUME AInv, UNCHANGED env, NEW r \in recon.todo, recon.at = "restore",
           UNCHANGED <<usable, daemon, mgr, table, proc, hubVars>>,
           Fails, recon' = [recon EXCEPT !.todo = @ \ {r}]
    PROVE  AInv' /\ Quiet
<1>1. ShipOnly /\ spent' \in [changes : Nat, losses : Nat, failures : Nat]
      /\ spent'.losses = spent.losses
  BY FailsIsShipOnly, FailsEffect, InstanceTypes
<1>2. recon' \in ReconType /\ recon'.todo \subseteq recon.todo /\ recon'.at = "restore"
  BY InstanceTypes DEF ReconType
<1>3. RestKept /\ UNCHANGED <<call, active, used>>
  BY <1>1, <1>2, InstanceTypes DEF RestKept, NetTypes, HubTypes, hubVars
<1>4. mgr \in MgrType
  BY InstanceTypes DEF MdnsTypes
<1>. QED BY <1>1, <1>3, <1>4, StillIsQuiet

\* Shutdown of the hub stops every announcement.
LEMMA ShutdownStopsKeeps ==
    ASSUME AInv, UNCHANGED env, ShutdownStopsAnnouncements
    PROVE  AInv'
<1> USE InstanceTypes
<1> DEFINE ids == {table[a] : a \in active}
           T == [a \in Announcement |-> IF a \in active THEN Absent ELSE table[a]]
<1>1. /\ UNCHANGED <<netVars, mgr, proc, recon, call, used>>
      /\ call.at = "free" /\ ~TableLocked
      /\ Unregisters(ids) /\ table' = T /\ active' = {} /\ down' = "refresh"
  BY DEF ShutdownStopsAnnouncements
<1>2. Shrinks /\ live' = live \ ids
  BY <1>1, UnregistersShrinks
<1>3. /\ T \in [Announcement -> Id \cup {None, Absent}]
      /\ \A a \in Announcement : IF a \in active THEN T[a] = Absent ELSE T[a] = table[a]
  BY DEF MdnsTypes
<1>4. \A a \in active : table[a] \in ids
  OBVIOUS
<1> HIDE DEF T, ids
<1>5. /\ call' = call /\ used' = used /\ recon' = recon /\ spent' = spent /\ proc' = proc
      /\ ShipIds' = ShipIds
  BY <1>1 DEF ShipIds, netVars
<1>6. TypeOK'
  <2>1. MdnsTypes'
    BY <1>1, <1>3 DEF MdnsTypes
  <2>2. NetTypes' /\ HubTypes' /\ recon' \in ReconType
    BY <1>1 DEF NetTypes, HubTypes, netVars
  <2>. QED BY <1>2, <2>1, <2>2, TypesNext DEF Shrinks
<1>7. NameInv' /\ LiveInv' /\ BegunInv'
  BY <1>1, <1>2, <1>3, <1>5, ShrinkNames, ShrinkBegun
<1>8. CallInv' /\ LossInv' /\ LockInv'
  BY <1>1, <1>3, <1>5 DEF AInv, CallInv, LossInv, LockInv, TableLocked
<1>9. PairingIsAccountedFor'
  <2>1. \A i \in live' : i \in live /\ i \notin ids /\ inst'[i] = inst[i]
    BY <1>2 DEF Shrinks
  <2>. QED BY <1>1, <1>3, <1>4, <1>5, <2>1 DEF AInv, PairingIsAccountedFor, TableLocked
<1>. QED BY <1>6, <1>7, <1>8, <1>9 DEF AInv

\* The provider withdraws its instances, one after the other, and closes its connection to
\* the daemon.
LEMMA ShutdownClosesKeeps ==
    ASSUME AInv, UNCHANGED env, ShutdownUnregisters \/ ShutdownClosesProvider
    PROVE  AInv'
<1> USE InstanceTypes
<1>1. /\ UNCHANGED <<netVars, mgr, table, proc, recon, active, call, used>>
      /\ down' \in {"instances", "closed"}
  BY DEF ShutdownUnregisters, ShutdownClosesProvider
<1>2. Shrinks
  <2>1. CASE ShutdownUnregisters
    <3>1. PICK i \in prov.doomed :
              /\ inst' = [inst EXCEPT ![i] = NoInstance] /\ live' = live \ {i}
              /\ prov' = [prov EXCEPT !.doomed = @ \ {i}]
      BY <2>1 DEF ShutdownUnregisters
    <3>2. NoInstance \in [svc : Service \cup {None}, ifaces : SUBSET Iface]
      BY DEF NoInstance
    <3>3. i \in Id /\ prov' \in ProvType
      BY <3>1 DEF ProviderTypes, ProvType
    <3>4. /\ inst' \in InstType /\ inst'[i] = NoInstance
          /\ \A j \in Id \ {i} : inst'[j] = inst[j]
      BY <3>1, <3>2, <3>3 DEF ProviderTypes, InstType
    <3>. QED BY <3>1, <3>3, <3>4 DEF Shrinks, ProviderTypes, Registered
  <2>2. CASE ShutdownClosesProvider
    <3>1. inst' = inst /\ live' \subseteq live /\ prov' = [prov EXCEPT !.link = "closed"]
      BY <2>2 DEF ShutdownClosesProvider
    <3>2. prov' \in ProvType
      BY <3>1 DEF ProvType, ProviderTypes
    <3>. QED BY <3>1, <3>2 DEF Shrinks, ProviderTypes, Registered
  <2>. QED BY <2>1, <2>2
<1>3. TypeOK'
  <2>1. MdnsTypes'
    BY <1>1 DEF MdnsTypes
  <2>2. NetTypes' /\ HubTypes' /\ recon' \in ReconType
    BY <1>1 DEF NetTypes, HubTypes, netVars
  <2>. QED BY <1>2, <2>1, <2>2, TypesNext DEF Shrinks
<1>4. ShipIds' = ShipIds
  BY <1>1 DEF ShipIds
<1>5. NameInv' /\ LiveInv' /\ BegunInv'
  BY <1>1, <1>2, <1>4, ShrinkNames, ShrinkBegun
<1>6. CallInv' /\ LossInv'
  BY <1>1 DEF AInv, CallInv, LossInv, netVars
<1>7. PairingIsAccountedFor'
  <2>1. \A i \in live' : i \in live /\ inst'[i] = inst[i]
    BY <1>2 DEF Shrinks
  <2>. QED BY <1>1, <2>1 DEF AInv, PairingIsAccountedFor, netVars
<1>8. LockInv'
  <2>1. Registered' \subseteq Registered /\ \A i \in Registered' : inst'[i] = inst[i]
    BY <1>2 DEF Shrinks
  <2>. QED BY <1>1, <2>1 DEF AInv, LockInv, TableLocked, Names
<1>. QED BY <1>3, <1>5, <1>6, <1>7, <1>8 DEF AInv

\* The daemon stops: nothing is on the network, and everything is registered still.
LEMMA DaemonStopsKeeps ==
    ASSUME AInv, UNCHANGED env, DaemonStops
    PROVE  AInv'
<1> USE InstanceTypes
<1> DEFINE v == [prov EXCEPT !.link = "lost"]
           k == [at |-> "check", todo |-> {}, legacy |-> prov.legacy]
<1>1. /\ UNCHANGED <<usable, mgr, table, proc, inst, hubVars>>
      /\ daemon' = FALSE /\ spent' = [spent EXCEPT !.losses = @ + 1]
      /\ prov' \in {v, prov} /\ live' \in {{}, live} /\ recon' \in {k, recon}
  BY DEF DaemonStops
<1>2. v \in ProvType /\ k \in ReconType /\ k.todo = {}
  BY DEF ProvType, ProviderTypes, ReconType
<1> HIDE DEF v, k
<1>3. Registered' = Registered /\ inst' = inst /\ ShipIds' = ShipIds
      /\ call' = call /\ used' = used /\ active' = active
  BY <1>1 DEF Registered, ShipIds, hubVars
<1>4. Shrinks
  BY <1>1, <1>2, <1>3 DEF Shrinks, ProviderTypes
<1>5. spent' \in [changes : Nat, losses : Nat, failures : Nat] /\ spent'.losses # 0
  BY <1>1 DEF NetTypes
<1>6. TypeOK'
  <2>1. MdnsTypes'
    BY <1>1 DEF MdnsTypes
  <2>2. NetTypes' /\ HubTypes' /\ recon' \in ReconType
    BY <1>1, <1>2, <1>5 DEF NetTypes, HubTypes, hubVars
  <2>. QED BY <1>4, <2>1, <2>2, TypesNext DEF Shrinks
<1>7. NameInv' /\ LiveInv' /\ BegunInv'
  BY <1>1, <1>2, <1>3, <1>4, ShrinkNames, ShrinkBegun
<1>8. CallInv' /\ LossInv' /\ PairingIsAccountedFor'
  BY <1>1, <1>3, <1>5 DEF AInv, CallInv, LossInv, PairingIsAccountedFor
<1>9. LockInv'
  BY <1>1, <1>3 DEF AInv, LockInv, TableLocked, Names, hubVars
<1>. QED BY <1>6, <1>7, <1>8, <1>9 DEF AInv

-----------------------------------------------------------------------------

\* Nothing has been announced initially.
LEMMA InitAInv == Init => AInv
<1> SUFFICES ASSUME Init PROVE AInv
  OBVIOUS
<1>1. TypeOK
  <2>1. MdnsTypes
    <3>1. Idle \in ProcType
      BY DEF Idle, ProcType
    <3>. QED BY <3>1 DEF Init, MdnsTypes, MgrType, Goroutine
  <2>2. ProviderTypes
    BY DEF Init, ProviderTypes, ProvType, InstType, NoInstance
  <2>3. NetTypes /\ HubTypes /\ recon \in ReconType
    BY DEF Init, NetTypes, HubTypes, CallType, Free, ReconType, Asleep
  <2>. QED BY <2>1, <2>2, <2>3, Types
<1>2. Registered = {} /\ call.at = "free" /\ live = {} /\ recon.todo = {} /\ recon.at = "no"
  BY DEF Init, Registered, Free, Asleep
<1>3. \A a \in Announcement : table[a] = Absent
  BY DEF Init
<1>4. proc[Refresh].at = "idle"
  BY DEF Init, Idle
<1>5. active = {}
  BY DEF Init
<1>6. NameInv /\ LiveInv /\ CallInv /\ BegunInv
  BY <1>2, <1>3, <1>5 DEF NameInv, Names, LiveInv, CallInv, BegunInv
<1>7. LockInv /\ LossInv /\ PairingIsAccountedFor
  BY <1>2, <1>4 DEF LockInv, TableLocked, LossInv, PairingIsAccountedFor
<1>. QED BY <1>1, <1>6, <1>7 DEF AInv

\* The three steps of AnnounceMdnsEntry.
LEMMA MdnsEntryKeeps ==
    ASSUME AInv, UNCHANGED env, NEW p \in Goroutine, AnnounceMdnsEntry(p)
    PROVE  AInv' /\ Quiet
  BY CheckKeeps, AnnounceShipKeeps, StoreKeeps DEF AnnounceMdnsEntry

\* The steps of a caller of the manager.
LEMMA CallerKeeps ==
    ASSUME AInv, UNCHANGED env, NEW p \in Caller,
           Start(p) \/ Reannounce(p) \/ SetAutoAccept(p) \/ CallerStep(p)
    PROVE  AInv' /\ Quiet
<1>1. p \in Goroutine
  BY DEF Goroutine
<1>. QED BY <1>1, StartKeeps, ReannounceKeeps, SetAutoAcceptKeeps, MdnsEntryKeeps, ForgetKeeps,
            SwapKeeps, MonitorKeeps DEF CallerStep

\* The steps of the refresh loop other than in the table.
RefreshOutside ==
    \/ Tick \/ NoteShip \/ NotePairings \/ RefreshForgets \/ Resolve
    \/ WithdrawShip \/ RefreshUnannounces \/ RefreshResets
    \/ LockTable \/ AnnounceMdnsEntry(Refresh)

\* They leave the pairing services alone.
LEMMA RefreshOutsideKeeps ==
    ASSUME AInv, UNCHANGED env, RefreshOutside
    PROVE  AInv' /\ Quiet
<1>1. Refresh \in Goroutine
  BY DEF Goroutine
<1>. QED BY <1>1, TickKeeps, NotesKeeps, RefreshClears, ResolveKeeps, WithdrawShipKeeps,
            RefreshUnannouncesKeeps, LockTableKeeps, MdnsEntryKeeps DEF RefreshOutside

\* The steps of attemptReconnect other than the copies.
LEMMA ReconnectKeeps ==
    ASSUME AInv, UNCHANGED env, ReconnectStep
    PROVE  AInv'
<1>1. CASE ReconnectRestores
  <2>1. PICK r \in recon.todo :
        /\ recon.at = "restore"
        /\ \/ /\ Reachable /\ Id \ Held # {}
              /\ inst' = [inst EXCEPT ![NewId] = [svc |-> RestoredAs(r), ifaces |-> prov.ifaces],
                                      ![r.id] = NoInstance]
              /\ live' = (live \ {r.id}) \cup {NewId}
              /\ recon' = [recon EXCEPT !.todo = @ \ {r}, !.legacy = @ /\ RestoredAs(r) # Ship]
              /\ UNCHANGED <<spent, prov>>
           \/ /\ Fails
              /\ recon' = [recon EXCEPT !.todo = @ \ {r}]
        /\ UNCHANGED <<usable, daemon, mgr, table, proc, hubVars>>
    BY <1>1 DEF ReconnectRestores
  <2>. QED BY <2>1, ReconnectRestoresKeeps, ReconnectSkipsKeeps
<1>. QED BY <1>1, ReconnectChecksKeeps, ReconnectStartsKeeps, ReconnectCopiesKeeps,
            ReconnectEndsKeeps DEF ReconnectStep

\* The loop over the table goes on, or ends.
LEMMA SwapPairingsKeeps ==
    ASSUME AInv, UNCHANGED env, SwapPairings
    PROVE  AInv'
<1>1. UNCHANGED <<usable, daemon, mgr, recon, hubVars>> /\ proc[Refresh].at = "swapPairings"
  BY DEF SwapPairings
<1>2. CASE \E a \in proc[Refresh].todo : SwapPairing(a)
  BY <1>1, <1>2, SwapPairingKeeps
<1>3. CASE /\ Fails \/ UNCHANGED <<spent, provVars>>
           /\ proc' = [proc EXCEPT ![Refresh] = Idle] /\ UNCHANGED table
  BY <1>1, <1>3, SwapEndKeeps
<1>. QED BY <1>2, <1>3 DEF SwapPairings

\* The invariant is inductive: one case for each disjunct of Next.
LEMMA StepAInv == AInv /\ [Next]_vars => AInv'
<1> SUFFICES ASSUME AInv, [Next]_vars PROVE AInv'
  OBVIOUS
<1>1. CASE UNCHANGED vars
  BY <1>1, StutterKeeps
<1>2. CASE Next
  <2> USE <1>2 DEF Next
  <2>1. CASE \E p \in Caller : Start(p) \/ Reannounce(p) \/ SetAutoAccept(p) \/ CallerStep(p)
    BY <2>1, CallerKeeps
  <2>2. CASE Tick \/ RefreshStep
    <3>1. CASE RefreshOutside
      BY <3>1, RefreshOutsideKeeps
    <3>2. CASE WithdrawPairings
      BY <3>2, WithdrawPairingsKeeps
    <3>3. CASE SwapPairings
      BY <3>3, SwapPairingsKeeps
    <3>4. CASE SwappedPairing
      BY <3>4, SwappedPairingKeeps
    <3>. QED BY <2>2, <3>1, <3>2, <3>3, <3>4 DEF RefreshStep, RefreshOutside
  <2>3. CASE \E a \in Announcement : StartAnnouncementTo(a) \/ StopAnnouncementTo(a)
    BY <2>3, StartAnnouncementKeeps, StopAnnouncementKeeps
  <2>4. CASE CallStep
    BY <2>4, AnnouncePairingKeeps, EnterPairingKeeps, WithdrawPairingKeeps DEF CallStep
  <2>5. CASE ReconnectStep
    BY <2>5, ReconnectKeeps
  <2>6. CASE ShutdownStopsAnnouncements
    BY <2>6, ShutdownStopsKeeps
  <2>7. CASE ShutdownStep
    BY <2>7, ShutdownAwaitsRefreshKeeps, ShutdownChecksKeeps, ShutdownUnannouncesKeeps,
       ShutdownResetsKeeps, ShutdownMarksProviderKeeps, ShutdownListsKeeps, ShutdownClosesKeeps,
       ShutdownForgetsKeeps DEF ShutdownStep
  <2>8. CASE InterfacesChange \/ DaemonStops \/ DaemonStarts
    BY <2>8, InterfacesChangeKeeps, DaemonStopsKeeps, DaemonStartsKeeps
  <2>9. CASE \E i \in Id : StoresServer(i)
    BY <2>9, StoresServerKeeps
  <2>. QED BY <2>1, <2>2, <2>3, <2>4, <2>5, <2>6, <2>7, <2>8, <2>9 DEF Step
<1>. QED BY <1>1, <1>2

\* It holds in every state.
LEMMA AInvHolds == Spec => []AInv
  BY InitAInv, StepAInv, PTL DEF Spec

\* Every variable has its type: in particular the ID that the table, the manager, a call
\* and attemptReconnect hold is always one the provider could have handed out.
THEOREM AnnouncingTypeCorrect == Spec => []TypeOK
<1>1. AInv => TypeOK
  BY DEF AInv
<1>. QED BY <1>1, AInvHolds, PTL

\* As long as the daemon has not been lost, every pairing service on the network is in the
\* manager's table under its ID, or a goroutine is about to enter or to withdraw it:
\* AnnouncePairingService, UnannouncePairingService and the loop of
\* reannounceWithNewInterfaces leave none behind that nobody can withdraw.
THEOREM NoPairingIsForgotten == Spec => []PairingIsAccountedFor
<1>1. AInv => PairingIsAccountedFor
  BY DEF AInv
<1>. QED BY <1>1, AInvHolds, PTL

-----------------------------------------------------------------------------
(* The promise to the devices that browse: every step is one of Beacon, or a stutter. *)

\* What Beacon's variables stand for.
Up ==
    /\ Reachable /\ recon.at = "no" /\ down = "no"
    /\ proc[Refresh].at # "withdrawPairings"

\* Announcements that were asked for and are not any more.
Ended == used \ (Asked \cup (IF call.at = "announce" THEN {call.a} ELSE {}))

\* The pairing services on the network.
Shown == {a \in Announcement : Published(a)}

\* A step of Beacon, or a stutter.
BeaconStep == [Beacon!Next]_(Beacon!vars)

\* What implements a stutter, and each of its actions.
LEMMA StutterStep ==
    ASSUME Up' = Up, Asked' = Asked, Ended' = Ended, Shown' = Shown
    PROVE  BeaconStep
  BY DEF BeaconStep, Beacon!vars, Up, Ended, Shown

\* A service is announced and shown.
LEMMA AskStep ==
    ASSUME NEW a \in Announcement, a \notin Asked \cup Ended,
           Asked' = Asked \cup {a}, Shown' = Shown \cup {a}, Up' = Up, Ended' = Ended
    PROVE  BeaconStep
<1>1. Beacon!Ask(a)
  BY DEF Beacon!Ask, Up, Ended, Shown
<1>. QED BY <1>1 DEF BeaconStep, Beacon!Next

\* An announcement fails.
LEMMA RefuseStep ==
    ASSUME NEW a \in Announcement, a \notin Asked \cup Ended,
           Ended' = Ended \cup {a}, Up' = Up, Asked' = Asked, Shown' = Shown
    PROVE  BeaconStep
<1>1. Beacon!Refuse(a)
  BY DEF Beacon!Refuse, Up, Ended, Shown
<1>. QED BY <1>1 DEF BeaconStep, Beacon!Next

\* A service is shown, again or under another instance.
LEMMA ShowStep ==
    ASSUME NEW a \in Announcement, a \in Asked,
           Shown' = Shown \cup {a}, Up' = Up, Asked' = Asked, Ended' = Ended
    PROVE  BeaconStep
<1>1. Beacon!Show(a)
  BY DEF Beacon!Show, Up, Ended, Shown
<1>. QED BY <1>1 DEF BeaconStep, Beacon!Next

\* An announcement ends.
LEMMA EndStep ==
    ASSUME NEW a \in Announcement, a \in Asked,
           Asked' = Asked \ {a}, Ended' = Ended \cup {a}, Up' = Up, Shown' = Shown
    PROVE  BeaconStep
<1>1. Beacon!End(a)
  BY DEF Beacon!End, Up, Ended, Shown
<1>. QED BY <1>1 DEF BeaconStep, Beacon!Next

\* A service whose announcement has ended goes.
LEMMA HideStep ==
    ASSUME NEW a \in Announcement, a \notin Asked,
           Shown' = Shown \ {a}, Up' = Up, Asked' = Asked, Ended' = Ended
    PROVE  BeaconStep
<1>1. Beacon!Hide(a)
  BY DEF Beacon!Hide, Up, Ended, Shown
<1>. QED BY <1>1 DEF BeaconStep, Beacon!Next

\* Only what has been asked for is on the network.
LEMMA ShownBegun ==
    ASSUME AInv'
    PROVE  Shown' \subseteq Asked' \cup Ended'
<1> SUFFICES ASSUME NEW a \in Shown' PROVE a \in Asked' \cup Ended'
  OBVIOUS
<1>1. a \in Announcement /\ \E i \in live' : inst'[i].svc = a
  BY DEF Shown, Published
<1>2. a \in used' /\ ~(call'.at = "announce" /\ call'.a = a)
  BY <1>1 DEF AInv, LiveInv, BegunInv, Begun
<1>. QED BY <1>1, <1>2 DEF Ended

\* While the provider is away, announcements end and services go.
LEMMA AwayStep ==
    ASSUME AInv', ~(Up /\ Up'), NEW A \in SUBSET Asked,
           Asked' = Asked \ A, Ended' = Ended \cup A
    PROVE  BeaconStep
<1>1. Shown' \subseteq Asked \cup Ended
  BY ShownBegun
<1>2. Up' \in BOOLEAN
  BY DEF Up
<1>3. Beacon!Away
  BY <1>1, <1>2 DEF Beacon!Away, Up, Ended, Shown
<1>. QED BY <1>3 DEF BeaconStep, Beacon!Next

\* Nothing happens to the announcements; the provider may come or go.
LEMMA StillStep ==
    ASSUME AInv', Asked' = Asked, Ended' = Ended, Shown' = Shown
    PROVE  BeaconStep
<1>1. Up \in BOOLEAN /\ Up' \in BOOLEAN
  BY DEF Up
<1>2. CASE Up' = Up
  BY <1>2, StutterStep
<1>3. CASE ~(Up /\ Up')
  <2>1. {} \in SUBSET Asked /\ Asked' = Asked \ {} /\ Ended' = Ended \cup {}
    OBVIOUS
  <2>. QED BY <1>3, <2>1, AwayStep
<1>. QED BY <1>1, <1>2, <1>3

\* Steps that leave the pairing services alone are stutters, or the provider comes or goes.
LEMMA QuietStep ==
    ASSUME AInv, AInv', Quiet
    PROVE  BeaconStep
<1>1. Asked' = Asked /\ Ended' = Ended
  BY DEF Quiet, Asked, Ended
<1>2. Shown' = Shown
  <2>1. ASSUME NEW a \in Announcement, Published(a) PROVE Published(a)'
    <3>1. PICK i \in live : inst[i].svc = a
      BY <2>1 DEF Published
    <3>2. i \in live' /\ i \in Registered' /\ i \in Held
      BY <3>1, InstanceTypes DEF Quiet, ShipOnly, Held
    <3>. QED BY <3>1, <3>2 DEF Quiet, ShipOnly, Published
  <2>2. ASSUME NEW a \in Announcement, Published(a)' PROVE Published(a)
    <3>1. PICK i \in live' : inst'[i].svc = a
      BY <2>2 DEF Published
    <3>. QED BY <3>1, InstanceTypes DEF Quiet, ShipOnly, Published
  <2>. QED BY <2>1, <2>2 DEF Shown
<1>. QED BY <1>1, <1>2, StillStep

\* The instances under which the announcements are on the network.
LEMMA SameShown ==
    ASSUME inst' = inst, live' = live
    PROVE  Shown' = Shown
  BY DEF Shown, Published

\* What a registration puts on the network.
LEMMA ShownMore ==
    ASSUME AInv, NEW a \in Announcement, Registers(a)
    PROVE  Shown' = Shown \cup {a} /\ Reachable' = Reachable
<1>1. a \in Service
  BY DEF Service
<1>2. /\ NewId \in Id /\ NewId \notin Held /\ inst'[NewId].svc = a
      /\ \A i \in Id \ {NewId} : inst'[i] = inst[i]
      /\ live' = live \cup {NewId} /\ Reachable' = Reachable
  BY <1>1, RegistersEffect, InstanceTypes
<1>3. \A i \in live : inst'[i] = inst[i]
  BY <1>2, InstanceTypes DEF Held
<1>. QED BY <1>2, <1>3 DEF Shown, Published

\* What a withdrawal takes from the network.
LEMMA ShownFewer ==
    ASSUME AInv, NEW ids, Unregisters(ids)
    PROVE  /\ Reachable' = Reachable /\ Shown' \subseteq Shown
           /\ \A i \in live \ ids : i \in live' /\ inst'[i] = inst[i]
<1>1. /\ Registered' = Registered \ ids
      /\ \A i \in Registered' : inst'[i] = inst[i]
      /\ live' = live \ ids /\ Reachable' = Reachable
  BY UnregistersEffect, InstanceTypes
<1>2. \A i \in live \ ids : i \in live' /\ inst'[i] = inst[i]
  BY <1>1, InstanceTypes
<1>. QED BY <1>1, <1>2 DEF Shown, Published

\* A service that is announced anew is shown, not hidden.
LEMMA SwapPairingStep ==
    ASSUME AInv, AInv', UNCHANGED <<usable, daemon, mgr, recon, hubVars>>,
           proc[Refresh].at = "swapPairings", NEW a \in proc[Refresh].todo, SwapPairing(a)
    PROVE  BeaconStep
<1> DEFINE n == NewId
<1>0. Refresh \in Goroutine /\ proc \in [Goroutine -> ProcType]
      /\ table \in [Announcement -> Id \cup {None, Absent}]
  BY InstanceTypes DEF Goroutine, MdnsTypes
<1>1. a \in Announcement /\ a \in Service /\ table[a] # Absent
  BY <1>0 DEF AInv, LockInv, TableLocked, ProcType, Service
<1>2. Registers(a) /\ table' = [table EXCEPT ![a] = n] /\ proc'[Refresh].at = "swappedPairing"
  BY <1>0 DEF SwapPairing, ProcType
<1>3. n # Absent
  BY <1>1, <1>2, RegistersEffect, InstanceTypes, NamesAssumption
<1> HIDE DEF n
<1>4. \A b \in Announcement : table'[b] # Absent <=> table[b] # Absent
  BY <1>0, <1>1, <1>2, <1>3
<1>5. Asked' = Asked /\ Ended' = Ended /\ a \in Asked
  <2>1. call' = call /\ used' = used
    BY DEF hubVars
  <2>2. Asked' = Asked /\ a \in Asked
    BY <1>1, <1>4, <2>1 DEF Asked
  <2>. QED BY <2>1, <2>2 DEF Ended
<1>6. Shown' = Shown \cup {a} /\ Reachable' = Reachable
  BY <1>1, <1>2, ShownMore
<1>7. Up' = Up
  BY <1>2, <1>6 DEF Up, hubVars
<1>. QED BY <1>1, <1>5, <1>6, <1>7, ShowStep

\* The same for the loop over the table.
LEMMA SwapPairingsStep ==
    ASSUME AInv, AInv', UNCHANGED env, SwapPairings
    PROVE  BeaconStep
<1>1. UNCHANGED <<usable, daemon, mgr, recon, hubVars>> /\ proc[Refresh].at = "swapPairings"
  BY DEF SwapPairings
<1>2. CASE \E a \in proc[Refresh].todo : SwapPairing(a)
  BY <1>1, <1>2, SwapPairingStep
<1>3. CASE /\ Fails \/ UNCHANGED <<spent, provVars>>
           /\ proc' = [proc EXCEPT ![Refresh] = Idle] /\ UNCHANGED table
  BY <1>1, <1>3, SwapEndKeeps, QuietStep
<1>. QED BY <1>2, <1>3 DEF SwapPairings

\* The new instance is there when the old one goes.
LEMMA SwappedPairingStep ==
    ASSUME AInv, AInv', SwappedPairing
    PROVE  BeaconStep
<1> DEFINE o == proc[Refresh].old
<1>1. /\ UNCHANGED <<netVars, mgr, table, recon, hubVars>>
      /\ proc[Refresh].at = "swappedPairing" /\ Unregisters({o})
  BY DEF SwappedPairing
<1>2. PICK a \in Announcement :
          /\ table[a] # Absent /\ (o \in Registered => inst[o].svc = a)
          /\ down = "no" /\ o \in live => \E j \in live \ {o} : inst[j].svc = a
  BY <1>1 DEF AInv, LockInv, Names
<1> HIDE DEF o
<1>3. /\ Shown' \subseteq Shown /\ \A i \in live \ {o} : i \in live' /\ inst'[i] = inst[i]
  BY <1>1, ShownFewer
<1>4. ASSUME down = "no" PROVE Shown \subseteq Shown'
  <2> SUFFICES ASSUME NEW b \in Announcement, NEW i \in live, inst[i].svc = b
               PROVE  \E j \in live' : inst'[j].svc = b
    BY DEF Shown, Published
  <2>1. CASE i = o
    BY <1>2, <1>3, <1>4, <2>1, InstanceTypes
  <2>2. CASE i # o
    BY <1>3, <2>2
  <2>. QED BY <2>1, <2>2
<1>5. Asked' = Asked /\ Ended' = Ended
  BY <1>1 DEF Asked, Ended, hubVars
<1>6. CASE down = "no"
  BY <1>3, <1>4, <1>5, <1>6, StillStep
<1>7. CASE down # "no"
  <2>1. ~Up /\ {} \in SUBSET Asked /\ Asked' = Asked \ {} /\ Ended' = Ended \cup {}
    BY <1>5, <1>7 DEF Up
  <2>. QED BY <2>1, AwayStep
<1>. QED BY <1>6, <1>7

\* Withdrawn for want of interfaces: Beacon allows it while the provider is away.
LEMMA WithdrawPairingsStep ==
    ASSUME AInv, AInv', WithdrawPairings
    PROVE  BeaconStep
<1>1. UNCHANGED hubVars /\ ~Up
  BY DEF WithdrawPairings, Up
<1>2. \A a \in Announcement : table'[a] = Absent <=> table[a] = Absent
  BY NamesAssumption DEF WithdrawPairings
<1>3. Asked' = Asked
  BY <1>1, <1>2 DEF Asked, hubVars
<1>4. Ended' = Ended
  BY <1>1, <1>3 DEF Ended, hubVars
<1>5. {} \in SUBSET Asked /\ Asked' = Asked \ {} /\ Ended' = Ended \cup {}
  BY <1>3, <1>4
<1>. QED BY <1>1, <1>5, AwayStep

\* StartAnnouncementTo only begins: nobody has been told that it is announced.
LEMMA StartAnnouncementStep ==
    ASSUME AInv, AInv', NEW a \in Announcement, StartAnnouncementTo(a)
    PROVE  BeaconStep
<1>1. /\ UNCHANGED <<table, provVars>>
      /\ call.at = "free" /\ a \notin used /\ used' = used \cup {a}
      /\ call'.at = "announce" /\ call'.a = a
  BY DEF StartAnnouncementTo
<1>2. Asked' = Asked
  BY <1>1 DEF Asked
<1>3. Ended' = Ended
  BY <1>1, <1>2 DEF Ended
<1>4. Shown' = Shown
  BY <1>1, SameShown DEF provVars
<1>. QED BY <1>2, <1>3, <1>4, StillStep

\* AnnouncePairingService is told that the provider has registered it, or has failed.
LEMMA AnnouncePairingStep ==
    ASSUME AInv, AInv', AnnouncePairing
    PROVE  BeaconStep
<1> DEFINE a == call.a
           n == NewId
<1>1. /\ UNCHANGED <<usable, daemon, mgr, table, proc, recon, active, used, down>>
      /\ call.at = "announce" /\ call \in CallType
      /\ \/ Registers(a) /\ call' = [call EXCEPT !.at = "enter", !.id = n]
         \/ Fails /\ call' = Free
  BY InstanceTypes DEF AnnouncePairing, HubTypes
<1>2. a \in used /\ a \in Announcement /\ table[a] = Absent
  BY <1>1, InstanceTypes DEF AInv, CallInv, HubTypes
<1>3. a \notin Asked \cup Ended
  BY <1>1, <1>2 DEF Asked, Ended
<1>4. CASE Registers(a) /\ call' = [call EXCEPT !.at = "enter", !.id = n]
  <2>1. Shown' = Shown \cup {a} /\ Reachable' = Reachable
    BY <1>2, <1>4, ShownMore
  <2>2. call'.at = "enter" /\ call'.a = a
    BY <1>1, <1>4 DEF CallType
  <2> HIDE DEF n, a
  <2>3. Asked' = Asked \cup {a}
    BY <1>1, <1>2, <2>2 DEF Asked
  <2>4. Ended' = Ended
    BY <1>1, <2>2, <2>3 DEF Ended, a
  <2>5. Up' = Up
    BY <1>1, <2>1 DEF Up
  <2>. QED BY <1>2, <1>3, <2>1, <2>3, <2>4, <2>5, AskStep
<1>5. CASE Fails /\ call' = Free
  <2>1. inst' = inst /\ live' = live /\ prov' = prov /\ call'.at = "free"
    BY <1>5 DEF Fails, provVars, Free
  <2>2. Shown' = Shown
    BY <2>1, SameShown
  <2>3. Asked' = Asked
    BY <1>1, <2>1 DEF Asked
  <2>4. Ended' = Ended \cup {a}
    BY <1>1, <1>2, <1>3, <2>1, <2>3 DEF Ended
  <2>5. Up' = Up
    BY <1>1, <2>1 DEF Up, Reachable
  <2>. QED BY <1>2, <1>3, <2>2, <2>3, <2>4, <2>5, RefuseStep
<1>. QED BY <1>1, <1>4, <1>5

\* The entry of the table changes nothing to be seen.
LEMMA EnterPairingStep ==
    ASSUME AInv, AInv', EnterPairing
    PROVE  BeaconStep
<1> DEFINE a == call.a
           i0 == call.id
<1>1. /\ UNCHANGED <<provVars, used>> /\ call.at = "enter"
      /\ table' = [table EXCEPT ![a] = i0] /\ call'.at = "free"
  BY DEF EnterPairing, Free
<1>2. a \in Announcement /\ i0 \in Id \cup {None} /\ i0 # Absent
      /\ table \in [Announcement -> Id \cup {None, Absent}]
  BY <1>1, InstanceTypes, NamesAssumption DEF AInv, CallInv, CallType, HubTypes, MdnsTypes
<1> HIDE DEF i0
<1>3. \A b \in Announcement : table'[b] = IF b = a THEN i0 ELSE table[b]
  BY <1>1, <1>2
<1>4. Asked' = Asked
  BY <1>1, <1>2, <1>3 DEF Asked
<1>5. Ended' = Ended
  BY <1>1, <1>4 DEF Ended
<1>6. Shown' = Shown
  BY <1>1, SameShown DEF provVars
<1>. QED BY <1>4, <1>5, <1>6, StillStep

\* StopAnnouncementTo ends the promise before the instance goes.
LEMMA StopAnnouncementStep ==
    ASSUME AInv, AInv', NEW a \in Announcement, StopAnnouncementTo(a)
    PROVE  BeaconStep
<1>1. /\ UNCHANGED <<proc, provVars, recon, used, down>>
      /\ call.at = "free" /\ a \in active
  BY DEF StopAnnouncementTo
<1>2. table[a] # Absent /\ a \in used /\ table \in [Announcement -> Id \cup {None, Absent}]
  BY <1>1, InstanceTypes DEF AInv, CallInv, MdnsTypes
<1>3. Shown' = Shown /\ Up' = Up
  BY <1>1, SameShown DEF provVars, Up, Reachable
<1>4. CASE ~mgr.provider
  <2>1. table' = table /\ call' = call
    BY <1>4 DEF StopAnnouncementTo
  <2>. QED BY <1>1, <1>3, <2>1, StutterStep DEF Asked, Ended
<1>5. CASE mgr.provider
  <2>1. table' = [table EXCEPT ![a] = Absent] /\ call'.at = "withdraw"
    BY <1>5 DEF StopAnnouncementTo
  <2>2. \A b \in Announcement : table'[b] = IF b = a THEN Absent ELSE table[b]
    BY <1>2, <2>1
  <2>3. Asked' = Asked \ {a} /\ a \in Asked
    BY <1>1, <1>2, <2>1, <2>2 DEF Asked
  <2>4. Ended' = Ended \cup {a}
    BY <1>1, <1>2, <2>1, <2>3 DEF Ended
  <2>. QED BY <1>3, <2>3, <2>4, EndStep
<1>. QED BY <1>4, <1>5

\* The instance goes after the announcement has ended.
LEMMA WithdrawPairingStep ==
    ASSUME AInv, AInv', WithdrawPairing
    PROVE  BeaconStep
<1> DEFINE o == call.id
           a == call.a
<1>1. /\ UNCHANGED <<table, proc, recon, used, down>>
      /\ call.at = "withdraw" /\ Unregisters({o}) /\ call'.at = "free"
  BY DEF WithdrawPairing, Free
<1>2. a \in Announcement /\ table[a] = Absent /\ (o \in Registered => inst[o].svc = a)
  BY <1>1, InstanceTypes DEF AInv, CallInv, NameInv, Names, HubTypes
<1> HIDE DEF o, a
<1>3. /\ Reachable' = Reachable /\ Shown' \subseteq Shown
      /\ \A i \in live \ {o} : i \in live' /\ inst'[i] = inst[i]
  BY <1>1, ShownFewer
<1>4. Shown \ {a} \subseteq Shown'
  <2> SUFFICES ASSUME NEW b \in Announcement, b # a, NEW i \in live, inst[i].svc = b
               PROVE  \E j \in live' : inst'[j].svc = b
    BY DEF Shown, Published
  <2>. QED BY <1>2, <1>3, InstanceTypes
<1>5. Asked' = Asked
  BY <1>1 DEF Asked
<1>6. Ended' = Ended /\ Up' = Up /\ a \notin Asked
  BY <1>1, <1>2, <1>3, <1>5 DEF Ended, Up, Asked
<1>7. CASE a \in Shown'
  BY <1>3, <1>4, <1>5, <1>6, <1>7, StutterStep
<1>8. CASE a \notin Shown'
  <2>1. Shown' = Shown \ {a}
    BY <1>3, <1>4, <1>8
  <2>. QED BY <1>2, <1>5, <1>6, <2>1, HideStep
<1>. QED BY <1>7, <1>8

\* attemptReconnect works while the provider is away.
LEMMA ReconnectStepImplements ==
    ASSUME AInv, AInv', UNCHANGED env, ReconnectStep
    PROVE  BeaconStep
<1>1. CASE ReconnectCopies
  <2>1. Asked' = Asked /\ Ended' = Ended /\ Shown' = Shown
    BY <1>1, SameShown DEF ReconnectCopies, Asked, Ended, hubVars, provVars
  <2>. QED BY <2>1, StillStep
<1>2. CASE ReconnectRestores
  <2>1. table' = table /\ UNCHANGED hubVars /\ ~Up
    BY <1>2 DEF ReconnectRestores, Up
  <2>2. Asked' = Asked \ {} /\ Ended' = Ended \cup {} /\ {} \in SUBSET Asked
    BY <2>1 DEF Asked, Ended, hubVars
  <2>. QED BY <2>1, <2>2, AwayStep
<1>. QED BY <1>1, <1>2, ReconnectChecksKeeps, ReconnectStartsKeeps, ReconnectEndsKeeps, QuietStep
         DEF ReconnectStep

\* Shutdown ends every announcement.
LEMMA ShutdownStopsStep ==
    ASSUME AInv, AInv', ShutdownStopsAnnouncements
    PROVE  BeaconStep
<1> DEFINE A == active \cap Asked
<1>1. /\ call.at = "free" /\ call' = call /\ used' = used /\ ~Up'
      /\ \A a \in Announcement : table'[a] = IF a \in active THEN Absent ELSE table[a]
  BY DEF ShutdownStopsAnnouncements, Up
<1>2. Asked' = Asked \ A
  BY <1>1 DEF Asked
<1>3. \A a \in Asked : a \in used
  BY <1>1 DEF Asked, AInv, CallInv
<1>4. Ended' = Ended \cup A
  BY <1>1, <1>2, <1>3 DEF Ended
<1>5. A \in SUBSET Asked
  OBVIOUS
<1> HIDE DEF A
<1>. QED BY <1>1, <1>2, <1>4, <1>5, AwayStep

\* The manager shuts down after that.
LEMMA ShutdownStepImplements ==
    ASSUME AInv, AInv', UNCHANGED env, ShutdownStep
    PROVE  BeaconStep
<1>1. CASE ShutdownUnregisters \/ ShutdownClosesProvider
  <2>1. table' = table /\ UNCHANGED <<active, call, used>> /\ ~Up
    BY <1>1 DEF ShutdownUnregisters, ShutdownClosesProvider, Up
  <2>2. Asked' = Asked \ {} /\ Ended' = Ended \cup {} /\ {} \in SUBSET Asked
    BY <2>1 DEF Asked, Ended
  <2>. QED BY <2>1, <2>2, AwayStep
<1>. QED BY <1>1, ShutdownAwaitsRefreshKeeps, ShutdownChecksKeeps, ShutdownUnannouncesKeeps,
            ShutdownResetsKeeps, ShutdownMarksProviderKeeps, ShutdownListsKeeps,
            ShutdownForgetsKeeps, QuietStep DEF ShutdownStep

\* The network loses what is on it when the daemon stops.
LEMMA DaemonStopsStep ==
    ASSUME AInv, AInv', DaemonStops
    PROVE  BeaconStep
<1>1. table' = table /\ UNCHANGED hubVars /\ inst' = inst
  BY DEF DaemonStops
<1>2. Asked' = Asked /\ Ended' = Ended
  BY <1>1 DEF Asked, Ended, hubVars
<1>3. CASE prov.kind = "avahi" /\ prov.link = "up"
  <2>1. prov' = [prov EXCEPT !.link = "lost"]
    BY <1>3 DEF DaemonStops
  <2>2. ~Up'
    BY <1>3, <2>1, InstanceTypes DEF ProviderTypes, ProvType, Up, Reachable
  <2>3. Asked' = Asked \ {} /\ Ended' = Ended \cup {} /\ {} \in SUBSET Asked
    BY <1>2
  <2>. QED BY <2>2, <2>3, AwayStep
<1>4. CASE ~(prov.kind = "avahi" /\ prov.link = "up")
  <2>1. Shown' = Shown
    BY <1>1, <1>4, SameShown DEF DaemonStops
  <2>. QED BY <1>2, <2>1, StillStep
<1>. QED BY <1>3, <1>4

\* Nothing is announced, and nothing is shown, initially.
LEMMA InitIsBeacon == Init => Beacon!Init
<1> SUFFICES ASSUME Init PROVE Beacon!Init
  OBVIOUS
<1>1. Asked = {} /\ Ended = {} /\ Shown = {}
  BY DEF Init, Asked, Ended, Shown, Published, Free
<1>2. Up \in BOOLEAN
  BY DEF Up
<1>. QED BY <1>1, <1>2 DEF Beacon!Init, Up, Ended, Shown

\* Every step is one of Beacon, or a stutter: one case for each disjunct of Next.
LEMMA StepIsBeacon == AInv /\ AInv' /\ [Next]_vars => BeaconStep
<1> SUFFICES ASSUME AInv, AInv', [Next]_vars PROVE BeaconStep
  OBVIOUS
<1>1. CASE UNCHANGED vars
  BY <1>1, StutterKeeps, QuietStep
<1>2. CASE Next
  <2> USE <1>2 DEF Next
  <2>1. CASE \E p \in Caller : Start(p) \/ Reannounce(p) \/ SetAutoAccept(p) \/ CallerStep(p)
    BY <2>1, CallerKeeps, QuietStep
  <2>2. CASE Tick \/ RefreshStep
    <3>1. CASE RefreshOutside
      BY <3>1, RefreshOutsideKeeps, QuietStep
    <3>2. CASE WithdrawPairings
      BY <3>2, WithdrawPairingsStep
    <3>3. CASE SwapPairings
      BY <3>3, SwapPairingsStep
    <3>4. CASE SwappedPairing
      BY <3>4, SwappedPairingStep
    <3>. QED BY <2>2, <3>1, <3>2, <3>3, <3>4 DEF RefreshStep, RefreshOutside
  <2>3. CASE \E a \in Announcement : StartAnnouncementTo(a) \/ StopAnnouncementTo(a)
    BY <2>3, StartAnnouncementStep, StopAnnouncementStep
  <2>4. CASE CallStep
    BY <2>4, AnnouncePairingStep, EnterPairingStep, WithdrawPairingStep DEF CallStep
  <2>5. CASE ReconnectStep
    BY <2>5, ReconnectStepImplements
  <2>6. CASE ShutdownStopsAnnouncements
    BY <2>6, ShutdownStopsStep
  <2>7. CASE ShutdownStep
    BY <2>7, ShutdownStepImplements
  <2>8. CASE InterfacesChange \/ DaemonStarts
    BY <2>8, InterfacesChangeKeeps, DaemonStartsKeeps, QuietStep
  <2>9. CASE DaemonStops
    BY <2>9, DaemonStopsStep
  <2>10. CASE \E i \in Id : StoresServer(i)
    BY <2>10, StoresServerKeeps, QuietStep
  <2>. QED BY <2>1, <2>2, <2>3, <2>4, <2>5, <2>6, <2>7, <2>8, <2>9, <2>10 DEF Step
<1>. QED BY <1>1, <1>2

\* Announcing implements Beacon: a pairing service that AnnouncePairingService has
\* announced stays on the network until UnannouncePairingService is called for it or the
\* provider is away; reannounceWithNewInterfaces registers the new instance of a service
\* before it withdraws the old one.
THEOREM AnnouncementsStay == Spec => StaysOnTheNetwork
<1>1. AInv /\ AInv' /\ [Next]_vars => [Beacon!Next]_(Beacon!vars)
  BY StepIsBeacon DEF BeaconStep
<1>2. Init => Beacon!Init
  BY InitIsBeacon
<1>. QED BY <1>1, <1>2, AInvHolds, PTL DEF Spec, StaysOnTheNetwork, Beacon!Spec
=============================================================================
