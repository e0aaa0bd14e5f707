-------------------------------- MODULE Link -------------------------------
(***************************************************************************)
(* What a connection is to the rest of the service, without sockets,       *)
(* timers, frames and Noise: a link that is dialled, authenticated, lost   *)
(* and dialled again, and the availability that is published for it.       *)
(* EspHomeDevice implements it.                                            *)
(***************************************************************************)
VARIABLES
  phase,        \* where the link is
  wanted,       \* the link is to be kept up, and always was
  availability  \* what is published

linkVars == <<phase, wanted, availability>>

LinkInit ==
  /\ phase = "dialing"
  /\ wanted \in BOOLEAN
  /\ availability = "Unknown"

Add ==
  /\ phase = "absent"
  /\ phase' = "dialing"
  /\ wanted' \in BOOLEAN
  /\ availability' = "Unknown"

Remove ==
  /\ phase' = "absent"
  /\ UNCHANGED <<wanted, availability>>

\* Whoever stops wanting the link cannot count on it any more.
GiveUp ==
  /\ phase # "absent"
  /\ wanted' = FALSE
  /\ UNCHANGED <<phase, availability>>

Dial ==
  /\ phase = "waiting"
  /\ phase' = "dialing"
  /\ UNCHANGED <<wanted, availability>>

DialEnds ==
  /\ phase = "dialing"
  /\ phase' \in {"waiting", "handshaking"}
  /\ UNCHANGED <<wanted, availability>>

\* The only way to be Online is to have authenticated on this very link.
Authenticate ==
  /\ phase = "handshaking"
  /\ phase' = "online"
  /\ availability' = "Online"
  /\ UNCHANGED wanted

Close ==
  /\ phase \in {"handshaking", "online"}
  /\ phase' = "closing"
  /\ UNCHANGED <<wanted, availability>>

\* A link that was Online is Offline from the moment it is lost.
Lose ==
  /\ phase \in {"handshaking", "online", "closing"}
  /\ phase' = "waiting"
  /\ availability' = IF availability = "Online" THEN "Offline" ELSE availability
  /\ UNCHANGED wanted

LinkNext ==
  Add \/ Remove \/ GiveUp \/ Dial \/ DialEnds \/ Authenticate \/ Close \/ Lose

LinkSpec == LinkInit /\ [][LinkNext]_linkVars

=============================================================================
