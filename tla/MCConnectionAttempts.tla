-------------------------- MODULE MCConnectionAttempts --------------------------
(***************************************************************************)
(* Instances of ConnectionAttempts for TLC: one device, seen on two paths. *)
(* Reporter and Timer bound the goroutines that exist at once.             *)
(***************************************************************************)
EXTENDS ConnectionAttempts

\* Reports overlap with each other and with attempts.
Overlap ==
    [changes |-> 2, incoming |-> 0, ends |-> 0, calls |-> 0, prompt |-> TRUE, calm |-> FALSE,
     may |-> {}]

\* One thing after the other.
Calm ==
    [changes |-> 2, incoming |-> 1, ends |-> 2, calls |-> 1, prompt |-> TRUE, calm |-> TRUE,
     may |-> {"register"}]

\* Shutdown, a new start, and the device appears again.
Restarts ==
    [changes |-> 2, incoming |-> 0, ends |-> 0, calls |-> 1, prompt |-> TRUE, calm |-> TRUE,
     may |-> {"restart"}]

\* The application withdraws its trust, or shuts the hub down, in the middle of an attempt.
Withdraws ==
    [changes |-> 1, incoming |-> 0, ends |-> 1, calls |-> 1, prompt |-> FALSE, calm |-> FALSE,
     may |-> {"unregister", "cancel", "restart"}]

\* The application withdraws its trust, and registers the device again.
Again ==
    [changes |-> 1, incoming |-> 0, ends |-> 0, calls |-> 2, prompt |-> TRUE, calm |-> TRUE,
     may |-> {"register", "unregister"}]

All == {Overlap, Calm, Restarts, Withdraws}
OnlyAgain == {Again}
=============================================================================
