------------------------------- MODULE MCPairing -------------------------------
(***************************************************************************)
(* Instances of Pairing for TLC: two control units, a and b, of which the  *)
(* application knows a.                                                    *)
(***************************************************************************)
EXTENDS Pairing

CONSTANTS a, b, rb, s1

OfB == [r \in Request |-> b]
OwnID == [d \in Device |-> d]

\* The known control unit comes and goes.
ComesAndGoes == [online |-> {a}, asking |-> Request, may |-> {}]

\* Both control units are offline.
Offline(may) == [online |-> {}, asking |-> Request, may |-> may]

\* The known control unit comes and goes, and nobody asks to replace it.
Alone(may) == [online |-> {a}, asking |-> {}, may |-> may]

\* The application does two things of four.
TwoAtATime ==
    {ComesAndGoes} \cup
    {Offline({"register", "remove"}), Offline({"register", "shutdown"}),
     Offline({"remove", "shutdown"})} \cup
    {Alone({"remove", "cancel"}), Alone({"cancel", "shutdown"})}

OnlyComesAndGoes == {ComesAndGoes}
=============================================================================
