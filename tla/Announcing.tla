------------------------------ MODULE Announcing ------------------------------
(***************************************************************************)
(* What a hub announces on the network: its _ship._tcp service, and one    *)
(* _shippairing._tcp service for each pairing announcement.                *)
(*                                                                         *)
(*   - MdnsManager (mdns/mdns.go) keeps isAnnounced and instanceID for the *)
(*     first and the table announcedPairings for the others; goroutines of *)
(*     the hub and of the application call it, and refreshLoop follows the *)
(*     interfaces that come and go;                                        *)
(*   - AvahiProvider (mdns/avahi.go) or ZeroconfProvider (mdns/zeroconf.go) *)
(*     keep the instances that are registered; attemptReconnect restores   *)
(*     them when the avahi daemon comes back;                              *)
(*   - PairingAnnouncer (pairing/hub_integration.go) and the hub's         *)
(*     StartAnnouncementTo, StopAnnouncementTo and Shutdown ask for pairing *)
(*     announcements, under muxAnnouncements.                              *)
(*                                                                         *)
(* A step is one critical section of the provider, of the table            *)
(* (announcedPairingsMux) or of isAnnounced; fields that are read without  *)
(* a lock are read in the step they lead to.                               *)
(***************************************************************************)
EXTENDS Naturals, FiniteSets

CONSTANTS
    Iface,          \* MdnsManager.ifaces, the configured interfaces
    Announcement,   \* logical IDs of pairing announcements; each is used once
    Target,         \* Target[a]: the device (SHIP ID) that a is for
    Caller,         \* goroutines of the hub and the application
    Refresh,        \* the goroutine of refreshLoop
    Ship,           \* the _ship._tcp service
    Mistyped,       \* the _ship._tcp service, restored as _shippairing._tcp
    Id,             \* instance IDs of the provider
    None,           \* no instance: an empty instance ID
    Absent,         \* no entry in the table
    Environments    \* what the network and the application may do

\* An environment: the pairing announcements the application asks for; how often the
\* interfaces change, the daemon stops and AnnounceService fails; whether the interfaces
\* stay as they are while the refresh loop looks at them; and what else the application
\* does.
Environment ==
    [asks : SUBSET Announcement, changes : Nat, losses : Nat, failures : Nat,
     calm : BOOLEAN, may : SUBSET {"autoAccept", "stop", "shutdown"}]

ASSUME EnvironmentAssumption == Environments \subseteq Environment

ASSUME NamesAssumption ==
    /\ Refresh \notin Caller
    /\ Ship \notin Announcement /\ Mistyped \notin Announcement
    /\ None \notin Announcement \cup Id \cup {Ship, Mistyped}
    /\ Absent \notin Id \cup {None}
    /\ Ship # Mistyped

VARIABLES
    env,            \* the environment
    spent,          \* what it has used of its changes, losses and failures
    usable,         \* the interfaces that are up and have an address
    daemon,         \* the avahi daemon runs
    mgr,            \* fields of MdnsManager
    table,          \* MdnsManager.announcedPairings: the provider ID of each entry
    proc,           \* where the goroutines in MdnsManager stand
    prov,           \* fields of the provider
    inst,           \* serviceInstances, instanceStates and instanceEntryGroups
    live,           \* the instances the daemon, or the zeroconf server, answers for
    recon,          \* AvahiProvider.attemptReconnect
    active,         \* Hub.activeAnnouncements
    call,           \* the goroutine that holds muxAnnouncements
    used,           \* the logical IDs handed out: instanceCounter
    down            \* how far Hub.Shutdown and MdnsManager.Shutdown have come

netVars  == <<spent, usable, daemon>>
provVars == <<prov, inst, live>>
hubVars  == <<active, call, used, down>>
vars == <<env, spent, usable, daemon, mgr, table, proc, prov, inst, live, recon,
          active, call, used, down>>

-----------------------------------------------------------------------------

Service == Announcement \cup {Ship, Mistyped}

NoInstance == [svc |-> None, ifaces |-> {}]

Idle == [at |-> "idle", then |-> "idle", id |-> None, old |-> None,
         was |-> FALSE, paired |-> FALSE, todo |-> {}]

Asleep == [at |-> "no", todo |-> {}, legacy |-> FALSE]

Free == [at |-> "free", a |-> None, id |-> None]

TypeOK ==
    /\ env \in Environments
    /\ spent \in [changes : Nat, losses : Nat, failures : Nat]
    /\ usable \subseteq Iface
    /\ daemon \in BOOLEAN
    /\ mgr \in [started : BOOLEAN, provider : BOOLEAN, announced : BOOLEAN,
                instance : Id \cup {None}, known : SUBSET Iface, ticking : BOOLEAN]
    /\ table \in [Announcement -> Id \cup {None, Absent}]
    /\ proc \in [Caller \cup {Refresh} ->
                    [at : {"idle", "check", "announce", "store", "forget", "swap", "monitor",
                           "note", "notePairings", "resolve", "withdraw", "unannounce", "reset",
                           "withdrawPairings", "pairings", "swapPairings", "swappedPairing",
                           "panicked"},
                     then : {"idle", "swap", "monitor", "pairings"},
                     id : Id \cup {None}, old : Id \cup {None}, was : BOOLEAN, paired : BOOLEAN,
                     todo : SUBSET Announcement]]
    /\ prov \in [kind : {"avahi", "zeroconf"}, link : {"none", "up", "lost", "closed"},
                 manual : BOOLEAN, ifaces : SUBSET Iface, legacy : BOOLEAN,
                 making : SUBSET Id, doomed : SUBSET Id]
    /\ inst \in [Id -> [svc : Service \cup {None}, ifaces : SUBSET Iface]]
    /\ live \subseteq Id
    /\ recon \in [at : {"no", "check", "sleep", "snapshot", "restore"},
                  todo : SUBSET [id : Id, svc : Service], legacy : BOOLEAN]
    /\ active \subseteq Announcement /\ used \subseteq Announcement
    /\ call \in [at : {"free", "announce", "enter", "withdraw"},
                 a : Announcement \cup {None}, id : Id \cup {None}]
    /\ down \in {"no", "refresh", "entry", "unannounce", "reset", "provider", "reconnect",
                "instances", "closed", "done"}

\* Nothing is started yet.
Init ==
    /\ env \in Environments
    /\ spent = [changes |-> 0, losses |-> 0, failures |-> 0]
    /\ usable \in {Iface, {}}
    /\ daemon \in BOOLEAN
    /\ mgr = [started |-> FALSE, provider |-> FALSE, announced |-> FALSE,
              instance |-> None, known |-> {}, ticking |-> FALSE]
    /\ table = [a \in Announcement |-> Absent]
    /\ proc = [p \in Caller \cup {Refresh} |-> Idle]
    /\ prov = [kind |-> "avahi", link |-> "none", manual |-> FALSE, ifaces |-> {},
               legacy |-> FALSE, making |-> {}, doomed |-> {}]
    /\ inst = [i \in Id |-> NoInstance]
    /\ live = {}
    /\ recon = Asleep
    /\ active = {} /\ used = {} /\ call = Free
    /\ down = "no"

-----------------------------------------------------------------------------
(* The provider *)

Registered == {i \in Id : inst[i] # NoInstance}

\* IDs some variable still holds: an ID of the code is never used again, one of the
\* model is, when nothing refers to it any more.
Held ==
    Registered \cup prov.doomed \cup {mgr.instance, call.id} \cup {table[a] : a \in Announcement}
    \cup {proc[p].id : p \in Caller \cup {Refresh}} \cup {proc[p].old : p \in Caller \cup {Refresh}}
    \cup {r.id : r \in recon.todo}

NewId == CHOOSE i \in Id \ Held : TRUE

\* EntryGroupNew needs a connection to the daemon; a zeroconf server needs none, not even
\* a provider that is still in use.
Reachable == prov.kind = "zeroconf" \/ prov.link = "up"

\* AnnounceService succeeds, with NewId: a new entry group or server on the provider's
\* interfaces.  The avahi provider keeps the data of the SHIP service aside.  A zeroconf
\* server answers before the provider has stored it.
Registers(svc) ==
    /\ Reachable /\ Id \ Held # {}
    /\ inst' = [inst EXCEPT ![NewId] = [svc |-> svc, ifaces |-> prov.ifaces]]
    /\ live' = live \cup {NewId}
    /\ prov' = [prov EXCEPT !.legacy = @ \/ svc = Ship,
                            !.making = IF prov.kind = "zeroconf" THEN @ \cup {NewId} ELSE @]
    /\ UNCHANGED spent

\* It returns when the server is stored; nobody has the ID before.
Returned(i) == i \notin prov.making

StoresServer(i) ==
    /\ i \in prov.making /\ prov' = [prov EXCEPT !.making = @ \ {i}]
    /\ UNCHANGED <<netVars, mgr, table, proc, inst, live, recon, hubVars>>

\* AnnounceService fails and leaves nothing behind.
Fails ==
    /\ \/ ~Reachable /\ UNCHANGED spent
       \/ Reachable /\ spent.failures < env.failures
          /\ spent' = [spent EXCEPT !.failures = @ + 1]
    /\ UNCHANGED provVars

\* UnannounceService for each of the IDs; one that is not registered is an error, and
\* nothing happens.
Unregisters(ids) ==
    /\ inst' = [i \in Id |-> IF i \in ids THEN NoInstance ELSE inst[i]]
    /\ live' = live \ ids
    /\ UNCHANGED prov

-----------------------------------------------------------------------------
(* AnnounceMdnsEntry, by a caller or the refresh loop *)

Goto(p, t) == proc' = [proc EXCEPT ![p].at = t]

\* "no need to announce if it is already": a success, like an announcement.
Check(p) ==
    /\ proc[p].at = "check"
    /\ \/ ~mgr.provider /\ proc' = [proc EXCEPT ![p] = Idle]
       \/ mgr.provider /\ mgr.announced /\ Goto(p, proc[p].then)
       \/ mgr.provider /\ ~mgr.announced /\ Goto(p, "announce")
    /\ UNCHANGED <<netVars, mgr, table, provVars, recon, hubVars>>

\* The provider is read again for the call: Shutdown may have set it to nil since.
AnnounceShip(p) ==
    /\ proc[p].at = "announce"
    /\ \/ /\ ~mgr.provider /\ Goto(p, "panicked")
          /\ UNCHANGED <<spent, provVars>>
       \/ /\ mgr.provider /\ Fails
          /\ proc' = [proc EXCEPT ![p] = Idle]
       \/ /\ mgr.provider /\ Registers(Ship)
          /\ proc' = [proc EXCEPT ![p].at = "store", ![p].id = NewId]
    /\ UNCHANGED <<usable, daemon, mgr, table, recon, hubVars>>

\* The instance becomes the announced one, even if another was announced meanwhile.
Store(p) ==
    /\ proc[p].at = "store" /\ Returned(proc[p].id)
    /\ mgr' = [mgr EXCEPT !.instance = proc[p].id, !.announced = TRUE]
    /\ proc' = [proc EXCEPT ![p].at = proc[p].then, ![p].id = None]
    /\ UNCHANGED <<netVars, table, provVars, recon, hubVars>>

AnnounceMdnsEntry(p) == Check(p) \/ AnnounceShip(p) \/ Store(p)

\* checkAutoReannounce, or a second call of Start.
Reannounce(p) ==
    /\ mgr.started /\ proc[p].at = "idle" /\ ~mgr.announced /\ mgr.provider
    /\ proc' = [proc EXCEPT ![p] = [Idle EXCEPT !.at = "check"]]
    /\ UNCHANGED <<netVars, mgr, table, provVars, recon, hubVars>>

-----------------------------------------------------------------------------
(* Start of the manager *)

\* initializeProviderWithFallback: avahi if its daemon answers, zeroconf otherwise; then
\* the first announcement, which is skipped when no interface is usable.
Start(p) ==
    /\ ~mgr.started /\ proc[p].at = "idle"
    /\ mgr' = [mgr EXCEPT !.started = TRUE, !.provider = TRUE, !.known = usable]
    /\ prov' = [prov EXCEPT !.kind = IF daemon THEN "avahi" ELSE "zeroconf",
                            !.link = "up", !.ifaces = usable]
    /\ proc' = [proc EXCEPT ![p] = [Idle EXCEPT !.at = IF usable = {} THEN "monitor" ELSE "check",
                                                !.then = "monitor"]]
    /\ UNCHANGED <<netVars, table, inst, live, recon, hubVars>>

\* startInterfaceRefresh: not reached when the first announcement has failed.
Monitor(p) ==
    /\ proc[p].at = "monitor"
    /\ mgr' = [mgr EXCEPT !.ticking = TRUE]
    /\ proc' = [proc EXCEPT ![p] = Idle]
    /\ UNCHANGED <<netVars, table, provVars, recon, hubVars>>

-----------------------------------------------------------------------------
(* SetAutoAccept of the manager *)

SetAutoAccept(p) ==
    /\ "autoAccept" \in env.may
    /\ proc[p].at = "idle" /\ mgr.announced /\ mgr.provider
    /\ proc' = [proc EXCEPT ![p] = [Idle EXCEPT !.at = "forget", !.then = "swap",
                                                !.old = mgr.instance]]
    /\ UNCHANGED <<netVars, mgr, table, provVars, recon, hubVars>>

\* isAnnounced is reset only to get past the check of AnnounceMdnsEntry.
Forget(p) ==
    /\ proc[p].at = "forget"
    /\ mgr' = [mgr EXCEPT !.announced = FALSE]
    /\ Goto(p, "check")
    /\ UNCHANGED <<netVars, table, provVars, recon, hubVars>>

\* The old instance goes only after the new one has come.  The provider is read again:
\* Shutdown may have set it to nil since.
Swap(p) ==
    /\ proc[p].at = "swap"
    /\ IF mgr.provider \/ proc[p].old \in {None, mgr.instance}
       THEN Unregisters({proc[p].old} \ {mgr.instance}) /\ proc' = [proc EXCEPT ![p] = Idle]
       ELSE Goto(p, "panicked") /\ UNCHANGED provVars
    /\ UNCHANGED <<netVars, mgr, table, recon, hubVars>>

-----------------------------------------------------------------------------
(* The refresh loop *)

\* attemptResolveMapping: compare the usable interfaces with those last seen.
Tick ==
    /\ mgr.ticking /\ proc[Refresh].at = "idle" /\ usable # mgr.known
    /\ mgr' = [mgr EXCEPT !.known = usable]
    /\ Goto(Refresh, "note")
    /\ UNCHANGED <<netVars, table, provVars, recon, hubVars>>

\* reannounceWithNewInterfaces notes whether the SHIP service is announced ...
NoteShip ==
    /\ proc[Refresh].at = "note"
    /\ proc' = [proc EXCEPT ![Refresh].at = "notePairings", ![Refresh].was = mgr.announced]
    /\ UNCHANGED <<netVars, mgr, table, provVars, recon, hubVars>>

\* ... and whether there are pairing services, ...
NotePairings ==
    /\ proc[Refresh].at = "notePairings"
    /\ proc' = [proc EXCEPT ![Refresh].at = "forget",
                            ![Refresh].paired = \E a \in Announcement : table[a] # Absent]
    /\ UNCHANGED <<netVars, mgr, table, provVars, recon, hubVars>>

\* ... and resets isAnnounced.
RefreshForgets ==
    /\ proc[Refresh].at = "forget"
    /\ mgr' = [mgr EXCEPT !.announced = FALSE]
    /\ Goto(Refresh, "resolve")
    /\ UNCHANGED <<netVars, table, provVars, recon, hubVars>>

\* The interfaces are looked up again, and handed to the provider.
Resolve ==
    /\ proc[Refresh].at = "resolve"
    /\ IF usable = {}
       THEN Goto(Refresh, "withdraw") /\ UNCHANGED prov
       ELSE /\ prov' = [prov EXCEPT !.ifaces = usable]
            /\ proc' = [proc EXCEPT ![Refresh].at = "check", ![Refresh].then = "pairings"]
    /\ UNCHANGED <<netVars, mgr, table, inst, live, recon, hubVars>>

\* UnannounceMdnsEntry, of the refresh loop and of Shutdown, does nothing if isAnnounced
\* is not set; ...
MayUnannounce == mgr.announced /\ mgr.provider

\* ... isAnnounced stays set if the instance is not registered.
Unannounced == mgr.instance \in Registered

\* No interface: isAnnounced has just been reset, so the SHIP service is withdrawn only
\* if somebody has announced it again since.
WithdrawShip ==
    /\ proc[Refresh].at = "withdraw"
    /\ Goto(Refresh, IF proc[Refresh].was /\ MayUnannounce THEN "unannounce"
                     ELSE "withdrawPairings")
    /\ UNCHANGED <<netVars, mgr, table, provVars, recon, hubVars>>

RefreshUnannounces ==
    /\ proc[Refresh].at = "unannounce"
    /\ Unregisters({mgr.instance})
    /\ Goto(Refresh, IF Unannounced THEN "reset" ELSE "withdrawPairings")
    /\ UNCHANGED <<netVars, mgr, table, recon, hubVars>>

\* Somebody may have announced the service again meanwhile.
RefreshResets ==
    /\ proc[Refresh].at = "reset"
    /\ mgr' = [mgr EXCEPT !.announced = FALSE]
    /\ Goto(Refresh, "withdrawPairings")
    /\ UNCHANGED <<netVars, table, provVars, recon, hubVars>>

\* The pairing services are withdrawn; their entries stay.
WithdrawPairings ==
    /\ proc[Refresh].at = "withdrawPairings"
    /\ IF proc[Refresh].paired
       THEN /\ Unregisters({table[a] : a \in Announcement})
            /\ table' = [a \in Announcement |-> IF table[a] = Absent THEN Absent ELSE None]
       ELSE UNCHANGED <<table, provVars>>
    /\ proc' = [proc EXCEPT ![Refresh] = Idle]
    /\ UNCHANGED <<netVars, mgr, recon, hubVars>>

\* Mutant of LockTable: the old instances are withdrawn before the new ones come.
LockTableWithdraws ==
    /\ proc[Refresh].at = "pairings"
    /\ proc' = [proc EXCEPT ![Refresh].at = "swapPairings",
                            ![Refresh].todo = {a \in Announcement : table[a] # Absent}]
    /\ Unregisters({table[a] : a \in Announcement})
    /\ UNCHANGED <<netVars, mgr, table, recon, hubVars>>

\* The loop over the table takes announcedPairingsMux.
LockTable ==
    /\ proc[Refresh].at = "pairings"
    /\ proc' = [proc EXCEPT ![Refresh].at = "swapPairings",
                            ![Refresh].todo = {a \in Announcement : table[a] # Absent}]
    /\ UNCHANGED <<netVars, mgr, table, provVars, recon, hubVars>>

TableLocked == proc[Refresh].at \in {"swapPairings", "swappedPairing"}

\* Mutant of SwapPairing: the old instance is not noted, and stays.
SwapPairingKeepsOld(a) ==
    /\ Registers(a)
    /\ table' = [table EXCEPT ![a] = NewId]
    /\ proc' = [proc EXCEPT ![Refresh].todo = @ \ {a}]

\* One entry: a new instance, whose ID the entry takes; nobody looks at it before the
\* loop gives the table back.
SwapPairing(a) ==
    /\ Registers(a)
    /\ table' = [table EXCEPT ![a] = NewId]
    /\ proc' = [proc EXCEPT ![Refresh].todo = @ \ {a}, ![Refresh].at = "swappedPairing",
                            ![Refresh].old = table[a]]

\* The first failure ends the loop.
SwapPairings ==
    /\ proc[Refresh].at = "swapPairings"
    /\ \/ \E a \in proc[Refresh].todo : SwapPairing(a)
       \/ /\ proc[Refresh].todo # {} /\ Fails
          /\ proc' = [proc EXCEPT ![Refresh] = Idle]
          /\ UNCHANGED table
       \/ /\ proc[Refresh].todo = {}
          /\ proc' = [proc EXCEPT ![Refresh] = Idle]
          /\ UNCHANGED <<spent, table, provVars>>
    /\ UNCHANGED <<usable, daemon, mgr, recon, hubVars>>

\* Then the old instance goes.
SwappedPairing ==
    /\ proc[Refresh].at = "swappedPairing"
    /\ \A a \in Announcement : Returned(table[a])
    /\ Unregisters({proc[Refresh].old})
    /\ proc' = [proc EXCEPT ![Refresh].at = "swapPairings", ![Refresh].old = None]
    /\ UNCHANGED <<netVars, mgr, table, recon, hubVars>>

RefreshStep ==
    \/ NoteShip \/ NotePairings \/ RefreshForgets \/ Resolve
    \/ WithdrawShip \/ RefreshUnannounces \/ RefreshResets \/ WithdrawPairings
    \/ LockTable \/ SwapPairings \/ SwappedPairing \/ AnnounceMdnsEntry(Refresh)

CallerStep(p) == AnnounceMdnsEntry(p) \/ Forget(p) \/ Swap(p) \/ Monitor(p)

-----------------------------------------------------------------------------
(* Pairing announcements, under muxAnnouncements *)

\* StartAnnouncementTo for a device that is trusted and not connected, up to the call of
\* the provider; the logical ID is handed out here.
StartAnnouncementTo(a) ==
    /\ call.at = "free" /\ mgr.provider /\ a \in env.asks \ used
    /\ \A b \in active : Target[b] # Target[a]
    /\ call' = [at |-> "announce", a |-> a, id |-> None]
    /\ used' = used \cup {a}
    /\ UNCHANGED <<netVars, mgr, table, proc, provVars, recon, active, down>>

\* AnnouncePairingService calls the provider it has read before, without a lock.
AnnouncePairing ==
    /\ call.at = "announce"
    /\ \/ Registers(call.a) /\ call' = [call EXCEPT !.at = "enter", !.id = NewId]
       \/ Fails /\ call' = Free
    /\ UNCHANGED <<usable, daemon, mgr, table, proc, recon, active, used, down>>

\* Only then the entry is made.
EnterPairing ==
    /\ call.at = "enter" /\ Returned(call.id) /\ ~TableLocked
    /\ table' = [table EXCEPT ![call.a] = call.id]
    /\ active' = active \cup {call.a}
    /\ call' = Free
    /\ UNCHANGED <<netVars, mgr, proc, provVars, recon, used, down>>

\* Mutant of StopAnnouncementTo: announcedPairingsMux is not taken.
StopAnnouncementToUnlocked(a) ==
    /\ "stop" \in env.may
    /\ call.at = "free" /\ a \in active
    /\ IF mgr.provider
       THEN /\ table' = [table EXCEPT ![a] = Absent]
            /\ call' = [at |-> "withdraw", a |-> a, id |-> table[a]]
            /\ UNCHANGED active
       ELSE active' = active \ {a} /\ UNCHANGED <<table, call>>
    /\ UNCHANGED <<netVars, mgr, proc, provVars, recon, used, down>>

\* StopAnnouncementTo, by the application or a lifetime timer.  The announcement is
\* forgotten even if there is no provider, and its entry then stays in the table.
StopAnnouncementTo(a) ==
    /\ "stop" \in env.may
    /\ call.at = "free" /\ a \in active
    /\ IF mgr.provider
       THEN /\ ~TableLocked
            /\ table' = [table EXCEPT ![a] = Absent]
            /\ call' = [at |-> "withdraw", a |-> a, id |-> table[a]]
            /\ UNCHANGED active
       ELSE active' = active \ {a} /\ UNCHANGED <<table, call>>
    /\ UNCHANGED <<netVars, mgr, proc, provVars, recon, used, down>>

\* UnannouncePairingService ends with the provider; its error is only logged.
WithdrawPairing ==
    /\ call.at = "withdraw"
    /\ Unregisters({call.id})
    /\ active' = active \ {call.a}
    /\ call' = Free
    /\ UNCHANGED <<netVars, mgr, table, proc, recon, used, down>>

CallStep == AnnouncePairing \/ EnterPairing \/ WithdrawPairing

-----------------------------------------------------------------------------
(* Reconnection to the avahi daemon *)

\* attemptReconnect gives up if Shutdown was called, and sleeps otherwise.
ReconnectChecks ==
    /\ recon.at = "check"
    /\ recon' = IF prov.manual THEN Asleep ELSE [recon EXCEPT !.at = "sleep"]
    /\ UNCHANGED <<netVars, mgr, table, proc, provVars, hubVars>>

\* It does not look again before it calls Start, which resets manualShutdown whether or
\* not it finds the daemon.
ReconnectStarts ==
    /\ recon.at = "sleep"
    /\ prov' = [prov EXCEPT !.manual = FALSE, !.link = IF daemon THEN "up" ELSE @]
    /\ recon' = [recon EXCEPT !.at = IF daemon THEN "snapshot" ELSE "check"]
    /\ UNCHANGED <<netVars, mgr, table, proc, inst, live, hubVars>>

\* Mutant of ReconnectCopies: only the SHIP service is restored.
ReconnectCopiesShip ==
    /\ recon.at = "snapshot"
    /\ recon' = [recon EXCEPT !.at = "restore",
                              !.todo = {[id |-> i, svc |-> Ship] :
                                            i \in {j \in Registered : inst[j].svc = Ship}}]
    /\ UNCHANGED <<netVars, mgr, table, proc, provVars, hubVars>>

\* The states of all instances are copied.
ReconnectCopies ==
    /\ recon.at = "snapshot"
    /\ recon' = [recon EXCEPT !.at = "restore",
                              !.todo = {[id |-> i, svc |-> inst[i].svc] : i \in Registered}]
    /\ UNCHANGED <<netVars, mgr, table, proc, provVars, hubVars>>

\* A copied service is announced anew, under a new ID, and its old instance goes.  One
\* that has been unannounced since is announced all the same, as a pairing service.
RestoredAs(r) == IF r.id \notin Registered /\ r.svc = Ship THEN Mistyped ELSE r.svc

ReconnectRestores ==
    \E r \in recon.todo :
        /\ recon.at = "restore"
        /\ \/ /\ Reachable /\ Id \ Held # {}
              /\ inst' = [inst EXCEPT ![NewId] = [svc |-> RestoredAs(r), ifaces |-> prov.ifaces],
                                      ![r.id] = NoInstance]
              /\ live' = (live \ {r.id}) \cup {NewId}
              /\ recon' = [recon EXCEPT !.todo = @ \ {r}, !.legacy = @ /\ RestoredAs(r) # Ship]
              /\ UNCHANGED <<spent, prov>>
           \/ /\ Fails
              /\ recon' = [recon EXCEPT !.todo = @ \ {r}]
        /\ UNCHANGED <<usable, daemon, mgr, table, proc, hubVars>>

\* Mutant of ReconnectEnds: reconnectInProgress stays set.
ReconnectEndsBusy ==
    /\ recon.at = "restore" /\ recon.todo = {}
    /\ \/ recon.legacy /\ (Registers(Ship) \/ Fails)
       \/ ~recon.legacy /\ UNCHANGED <<spent, provVars>>
    /\ recon' = [recon EXCEPT !.legacy = FALSE]
    /\ UNCHANGED <<usable, daemon, mgr, table, proc, hubVars>>

\* "Legacy compatibility": the SHIP service that was announced last, even if it has been
\* unannounced since.
ReconnectEnds ==
    /\ recon.at = "restore" /\ recon.todo = {}
    /\ \/ recon.legacy /\ (Registers(Ship) \/ Fails)
       \/ ~recon.legacy /\ UNCHANGED <<spent, provVars>>
    /\ recon' = Asleep
    /\ UNCHANGED <<usable, daemon, mgr, table, proc, hubVars>>

ReconnectStep ==
    ReconnectChecks \/ ReconnectStarts \/ ReconnectCopies \/ ReconnectRestores \/ ReconnectEnds

-----------------------------------------------------------------------------
(* Shutdown of the hub and of the manager; a restart is not modelled *)

\* Every announcement is stopped, under muxAnnouncements.
ShutdownStopsAnnouncements ==
    /\ "shutdown" \in env.may
    /\ down = "no" /\ mgr.started /\ \A p \in Caller : proc[p].then # "monitor"
    /\ call.at = "free" /\ ~TableLocked
    /\ Unregisters({table[a] : a \in active})
    /\ table' = [a \in Announcement |-> IF a \in active THEN Absent ELSE table[a]]
    /\ active' = {}
    /\ down' = "refresh"
    /\ UNCHANGED <<netVars, mgr, proc, recon, call, used>>

\* stopInterfaceRefresh waits for the loop.
ShutdownAwaitsRefresh ==
    /\ down = "refresh" /\ proc[Refresh].at = "idle"
    /\ mgr' = [mgr EXCEPT !.ticking = FALSE]
    /\ down' = "entry"
    /\ UNCHANGED <<netVars, table, proc, provVars, recon, active, call, used>>

\* UnannounceMdnsEntry
ShutdownChecks ==
    /\ down = "entry" /\ down' = IF MayUnannounce THEN "unannounce" ELSE "provider"
    /\ UNCHANGED <<netVars, mgr, table, proc, provVars, recon, active, call, used>>

ShutdownUnannounces ==
    /\ down = "unannounce" /\ down' = IF Unannounced THEN "reset" ELSE "provider"
    /\ Unregisters({mgr.instance})
    /\ UNCHANGED <<netVars, mgr, table, proc, recon, active, call, used>>

ShutdownResets ==
    /\ down = "reset" /\ down' = "provider"
    /\ mgr' = [mgr EXCEPT !.announced = FALSE]
    /\ UNCHANGED <<netVars, table, proc, provVars, recon, active, call, used>>

\* AvahiProvider.Shutdown sets manualShutdown, and then waits for attemptReconnect.
ShutdownMarksProvider ==
    /\ down = "provider"
    /\ prov' = [prov EXCEPT !.manual = TRUE]
    /\ down' = "reconnect"
    /\ UNCHANGED <<netVars, mgr, table, proc, inst, live, recon, active, call, used>>

\* The provider lists the instances that are stored, ...
ShutdownLists ==
    /\ down = "reconnect" /\ recon.at = "no" /\ down' = "instances"
    /\ prov' = [prov EXCEPT !.doomed = Registered \ prov.making]
    /\ UNCHANGED <<netVars, mgr, table, proc, inst, live, recon, active, call, used>>

\* ... unannounces one after the other ...
ShutdownUnregisters ==
    /\ down = "instances"
    /\ \E i \in prov.doomed :
          /\ inst' = [inst EXCEPT ![i] = NoInstance]
          /\ live' = live \ {i}
          /\ prov' = [prov EXCEPT !.doomed = @ \ {i}]
    /\ UNCHANGED <<netVars, mgr, table, proc, recon, active, call, used, down>>

\* ... and the avahi provider closes the connection, with which the daemon forgets the
\* rest.  A zeroconf server that has come meanwhile stays.
ShutdownClosesProvider ==
    /\ down = "instances" /\ prov.doomed = {} /\ down' = "closed"
    /\ live' = IF prov.kind = "avahi" THEN {} ELSE live
    /\ prov' = [prov EXCEPT !.link = "closed"]
    /\ UNCHANGED <<netVars, mgr, table, proc, inst, recon, active, call, used>>

ShutdownForgets ==
    /\ down = "closed"
    /\ mgr' = [mgr EXCEPT !.provider = FALSE, !.announced = FALSE]
    /\ down' = "done"
    /\ UNCHANGED <<netVars, table, proc, provVars, recon, active, call, used>>

ShutdownStep ==
    \/ ShutdownAwaitsRefresh \/ ShutdownChecks \/ ShutdownUnannounces \/ ShutdownResets
    \/ ShutdownMarksProvider \/ ShutdownLists \/ ShutdownUnregisters
    \/ ShutdownClosesProvider \/ ShutdownForgets

-----------------------------------------------------------------------------
(* The network *)

InterfacesChange ==
    /\ spent.changes < env.changes
    /\ env.calm => proc[Refresh].at \notin {"note", "notePairings", "forget", "resolve"}
    /\ usable' \in SUBSET Iface \ {usable}
    /\ spent' = [spent EXCEPT !.changes = @ + 1]
    /\ UNCHANGED <<daemon, mgr, table, proc, provVars, recon, hubVars>>

\* The daemon forgets what this connection has registered, and avahiCallback is told.
\* It is ignored after a shutdown, and while a reconnection is under way.
DaemonStops ==
    /\ daemon /\ spent.losses < env.losses
    /\ daemon' = FALSE
    /\ spent' = [spent EXCEPT !.losses = @ + 1]
    /\ IF prov.kind = "avahi" /\ prov.link = "up"
       THEN /\ prov' = [prov EXCEPT !.link = "lost"]
            /\ live' = {}
            /\ recon' = IF prov.manual \/ recon.at # "no" THEN recon
                        ELSE [at |-> "check", todo |-> {}, legacy |-> prov.legacy]
       ELSE UNCHANGED <<prov, live, recon>>
    /\ UNCHANGED <<usable, mgr, table, proc, inst, hubVars>>

DaemonStarts ==
    /\ ~daemon /\ daemon' = TRUE
    /\ UNCHANGED <<spent, usable, mgr, table, proc, provVars, recon, hubVars>>

-----------------------------------------------------------------------------

Step ==
    \/ \E p \in Caller : Start(p) \/ Reannounce(p) \/ SetAutoAccept(p) \/ CallerStep(p)
    \/ Tick \/ RefreshStep
    \/ \E i \in Id : StoresServer(i)
    \/ \E a \in Announcement : StartAnnouncementTo(a) \/ StopAnnouncementTo(a)
    \/ CallStep
    \/ ReconnectStep
    \/ ShutdownStopsAnnouncements \/ ShutdownStep
    \/ InterfacesChange \/ DaemonStops \/ DaemonStarts

Next == Step /\ UNCHANGED env

Spec == Init /\ [][Next]_vars

\* Every goroutine that has something to do goes on, and the ticker of the refresh loop
\* keeps ticking.  The network and the application need not do anything.
Fairness ==
    /\ \A p \in Caller : WF_vars(CallerStep(p) /\ UNCHANGED env)
    /\ WF_vars(Tick /\ UNCHANGED env) /\ WF_vars(RefreshStep /\ UNCHANGED env)
    /\ WF_vars(CallStep /\ UNCHANGED env)
    /\ \A i \in Id : WF_vars(StoresServer(i) /\ UNCHANGED env)
    /\ WF_vars(ReconnectStep /\ UNCHANGED env)
    /\ WF_vars(ShutdownStep /\ UNCHANGED env)

FairSpec == Spec /\ Fairness

-----------------------------------------------------------------------------

\* Some instance of the service is on the network.
Published(s) == \E i \in live : inst[i].svc = s

\* Every pairing service on the network can be withdrawn: it is in the table under its
\* provider ID, or a goroutine is about to enter or to withdraw it (AnnouncePairingService,
\* UnannouncePairingService, reannounceWithNewInterfaces).  Once the avahi daemon has been
\* away this is lost, because attemptReconnect gives every service a new ID.
PairingIsAccountedFor ==
    spent.losses = 0 =>
        \A i \in live : inst[i].svc \in Announcement =>
            \/ table[inst[i].svc] = i
            \/ call.at \in {"enter", "withdraw"} /\ call.a = inst[i].svc /\ call.id = i
            \/ proc[Refresh].at = "swappedPairing" /\ proc[Refresh].old = i

\* What the manager believes to be announced is announced in the end: if from some point
\* on isAnnounced is set (an entry is in the table), the provider is connected and an
\* interface is usable, the SHIP service (that pairing service) stays on the network.
\* Neither changed interfaces nor a daemon restart, with SetAutoAccept and announcements
\* of the hub in between, loses one.  Not so when an announcement of the refresh loop
\* fails (the README tells why), nor when interfaces change while it looks at them.
AnnouncedIsPublished ==
    LET Settled == /\ env.calm /\ spent.failures = 0
                   /\ usable # {} /\ prov.link = "up" /\ down = "no"
    IN  /\ <>[](Settled /\ mgr.announced) => <>[]Published(Ship)
        /\ \A a \in Announcement :
               <>[](Settled /\ table[a] # Absent) => <>[]Published(a)

\* A pairing announcement, as remote devices see it: Beacon.  An announcement is asked for
\* from its first instance until its entry leaves the table.  While a provider is
\* connected, and neither Shutdown nor the withdrawal of every service is under way, one
\* that is on the network stays there until it is no longer asked for, and does not come
\* back: the new instance is there before the old one goes (mdns.go:484).
Asked ==
    {a \in Announcement : table[a] # Absent \/ (call.at = "enter" /\ call.a = a)}

Beacon == INSTANCE Beacon WITH
    up <- /\ Reachable /\ recon.at = "no" /\ down = "no"
          /\ proc[Refresh].at # "withdrawPairings",
    asked <- Asked,
    ended <- used \ (Asked \cup (IF call.at = "announce" THEN {call.a} ELSE {})),
    shown <- {a \in Announcement : Published(a)}

StaysOnTheNetwork == Beacon!Spec

\* Shutdown returns, if the daemon is there in the end: it waits for the refresh loop and
\* for attemptReconnect, and neither waits for it.
ShutdownReturns == <>[]daemon => (down # "no" ~> down = "done")

=============================================================================
