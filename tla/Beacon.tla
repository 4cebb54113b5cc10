--------------------------------- MODULE Beacon ---------------------------------
(***************************************************************************)
(* What a pairing announcement promises to the devices that browse for it, *)
(* without instances, interfaces and providers: once it is on the network  *)
(* it stays there until it is no longer asked for, and then it goes for    *)
(* good.  Announcing implements this.                                      *)
(***************************************************************************)
CONSTANT Announcement

VARIABLES
    up,         \* the provider can announce
    asked,      \* the announcements asked for
    ended,      \* the ones that have been asked for before
    shown       \* the ones on the network

vars == <<up, asked, ended, shown>>

TypeOK ==
    /\ up \in BOOLEAN
    /\ asked \subseteq Announcement
    /\ ended \subseteq Announcement
    /\ shown \subseteq Announcement

Init ==
    /\ up \in BOOLEAN
    /\ asked = {} /\ ended = {} /\ shown = {}

-----------------------------------------------------------------------------

\* An announcement is asked for once, and is on the network with that.
Ask(a) ==
    /\ a \notin asked \cup ended
    /\ asked' = asked \cup {a} /\ shown' = shown \cup {a}
    /\ UNCHANGED <<up, ended>>

\* The announcement could not be made.
Refuse(a) ==
    /\ a \notin asked \cup ended
    /\ ended' = ended \cup {a}
    /\ UNCHANGED <<up, asked, shown>>

\* One that has left the network comes back.
Show(a) ==
    /\ a \in asked
    /\ shown' = shown \cup {a}
    /\ UNCHANGED <<up, asked, ended>>

End(a) ==
    /\ a \in asked
    /\ asked' = asked \ {a} /\ ended' = ended \cup {a}
    /\ UNCHANGED <<up, shown>>

Hide(a) ==
    /\ a \notin asked
    /\ shown' = shown \ {a}
    /\ UNCHANGED <<up, asked, ended>>

\* While the provider cannot announce, and as that begins and ends, anything that was
\* asked for may come and go; announcements may be ended together.
Away ==
    /\ ~(up /\ up')
    /\ up' \in BOOLEAN
    /\ \E A \in SUBSET asked : asked' = asked \ A /\ ended' = ended \cup A
    /\ shown' \subseteq asked \cup ended

Next ==
    \/ \E a \in Announcement : Ask(a) \/ Refuse(a) \/ Show(a) \/ End(a) \/ Hide(a)
    \/ Away

Spec == Init /\ [][Next]_vars

=============================================================================
