--------------------------- MODULE MCShipConnection ---------------------------
(* Instances of ShipConnection for TLC: the environments of each run. *)
EXTENDS ShipConnection

\* A regular handshake with what a peer may add to it: every kind of hello, the
\* end of the connection, another SHIP ID, and a message nobody expects.
Regular == {"init", "ready", "announceMax", "select", "pinNone", "accessRequest", "access"}
Hellos == {"readyMid", "readyShort", "readyBare", "pending", "pendingMid", "pendingShort",
           "pendingBare", "prolong", "prolongWaiting", "aborted"}
AllMessages == Regular \cup Hellos \cup {"announceEnd", "confirmEnd", "accessOther", "bad"}

Trusted(roles, messages, spine, may) ==
    [roles |-> roles, trust |-> "paired", autoAccept |-> FALSE, knowsShipID |-> TRUE,
     messages |-> messages, early |-> spine > 0, spine |-> spine, may |-> may]

Undecided(messages, may) ==
    [Trusted({"server"}, messages, 0, may) EXCEPT !.trust = "undecided"]

BothRoles == {"client", "server"}

\* Time-outs, and every message that is told apart: the waiting times are only where
\* the user is waited for.  Or messages to write that pile up.
Timeouts ==
    {Trusted(BothRoles, (AllMessages \ Hellos) \cup {"pending", "prolong", "aborted"}, 0,
             {"timeout"}),
     Trusted(BothRoles, Regular, 0, {"full"})}

\* The user decides while the handshake runs, or the connection is used and broken.
Straight == {"init", "ready", "pending", "announceMax", "select", "pinNone"}

PairingAndData ==
    {Undecided(AllMessages, {"disconnect"}),
     Undecided(Straight, {"cancel"}),
     Undecided({"init"}, {"timeout"}),
     Trusted(BothRoles, Regular, 2, {"disconnect"}),
     Trusted({"server"}, Regular, 2, {"break"}),
     Trusted({"server"}, Regular, 0, {"full"})}

\* The peer announces the end while the application disconnects.
PeerEnds == {Trusted({"server"}, Regular \cup {"announceEnd"}, 0, {"disconnect"})}

\* The peer waits, and the user decides twice.
Silence == {Undecided({"init"}, {"cancel"})}
=============================================================================
