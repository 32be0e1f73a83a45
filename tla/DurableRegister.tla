--------------------------- MODULE DurableRegister ---------------------------
(***************************************************************************)
(* What an A/B snapshot store promises its clients: one value that survives *)
(* power loss.  While a client offers a new value, the stored value may     *)
(* move to the offered one and back to the value the client still sees, and *)
(* to nothing else.  An offer is accepted only once it is stored.  A crash  *)
(* forgets the view and the offer and leaves the stored value alone; a      *)
(* recovery shows exactly the stored value.                                 *)
(***************************************************************************)
CONSTANTS Content, Down, NoOffer

VARIABLES
  stored,   \* what a power-up would recover now
  view,     \* what the running store shows, or Down
  offered   \* the content being saved, or NoOffer

registerVars == <<stored, view, offered>>

RegisterInit ==
  /\ stored \in Content
  /\ view = Down
  /\ offered = NoOffer

(* A client hands over a new value. *)
Offer(v) ==
  /\ view # Down
  /\ offered = NoOffer
  /\ offered' = v
  /\ UNCHANGED <<stored, view>>

(* The write is under way: either value may be what survives. *)
Settle ==
  /\ offered # NoOffer
  /\ stored' \in {stored, view, offered}
  /\ UNCHANGED <<view, offered>>

(* The offer is acknowledged, and is what survives. *)
Accept ==
  /\ offered # NoOffer
  /\ stored' = offered
  /\ stored = offered
  /\ view' = offered
  /\ offered' = NoOffer

(* The offer is refused; it may nevertheless survive. *)
Reject ==
  /\ offered # NoOffer
  /\ stored' \in {stored, view, offered}
  /\ offered' = NoOffer
  /\ UNCHANGED view

PowerLoss ==
  /\ view' = Down
  /\ offered' = NoOffer
  /\ UNCHANGED stored

Recover ==
  /\ view = Down
  /\ view' = stored
  /\ UNCHANGED <<stored, offered>>

RegisterNext ==
  \/ \E v \in Content : Offer(v)
  \/ Settle
  \/ Accept
  \/ Reject
  \/ PowerLoss
  \/ Recover

RegisterSpec == RegisterInit /\ [][RegisterNext]_registerVars
=============================================================================
