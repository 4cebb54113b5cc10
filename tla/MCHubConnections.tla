--------------------------- MODULE MCHubConnections ---------------------------
(***************************************************************************)
(* Instances of HubConnections for TLC: which attempt goes to which remote *)
(* node.  An attempt is used once, so Conn bounds the number of attempts.  *)
(***************************************************************************)
EXTENDS HubConnections

CONSTANTS c1, c2, s1

\* Every attempt is to or from the same remote node.
OneNode == [c \in Conn |-> s1]

=============================================================================
