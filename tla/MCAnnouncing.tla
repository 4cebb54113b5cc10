------------------------------ MODULE MCAnnouncing ------------------------------
(***************************************************************************)
(* Instances of Announcing for TLC.  Id bounds the instances that exist at *)
(* once, an environment how often the network changes.                     *)
(***************************************************************************)
EXTENDS Announcing

CONSTANTS a1, a2, e1, p1

EachItsOwn == [a \in Announcement |-> a]

\* The avahi daemon restarts, with two announcements.
Restarts ==
    [asks |-> {a1, a2}, changes |-> 0, losses |-> 1, failures |-> 0, calm |-> TRUE,
     may |-> {"stop"}]

\* An interface goes and comes back.
Flaps ==
    [asks |-> {a1}, changes |-> 2, losses |-> 0, failures |-> 0, calm |-> TRUE,
     may |-> {}]

\* An announcement fails while an interface comes or goes.
Fragile ==
    [asks |-> {a1}, changes |-> 1, losses |-> 0, failures |-> 1, calm |-> FALSE,
     may |-> {"stop"}]

\* The application switches auto-accept while an interface comes or goes.
Accepts ==
    [asks |-> {}, changes |-> 1, losses |-> 0, failures |-> 0, calm |-> TRUE,
     may |-> {"autoAccept"}]

\* The hub shuts down while the daemon restarts, while an interface comes or goes, and
\* while the application switches auto-accept.
Ends ==
    [asks |-> {a1}, changes |-> 0, losses |-> 1, failures |-> 0, calm |-> TRUE,
     may |-> {"stop", "shutdown"}]

Leaves ==
    [asks |-> {}, changes |-> 1, losses |-> 0, failures |-> 0, calm |-> TRUE,
     may |-> {"shutdown"}]

Refuses ==
    [asks |-> {}, changes |-> 0, losses |-> 0, failures |-> 0, calm |-> TRUE,
     may |-> {"autoAccept", "shutdown"}]

All == {Restarts, Flaps, Fragile, Accepts, Ends, Leaves, Refuses}
=============================================================================
