------------------------------ MODULE CodLedger ------------------------------
(***************************************************************************)
(* What the COD tables promise about the money of a parcel: it is with one *)
(* party at a time, moves one hand at a time, and only when both hands     *)
(* agree. Nothing brings money back: a rejected handover leaves it with    *)
(* the driver, and a disputed payout stays disputed.                       *)
(***************************************************************************)
CONSTANTS Cods
VARIABLES
    holder,   \* who has the money of each COD
    offered   \* the driver says it was handed over, the company has not answered

Holders == {"receiver", "driver", "company", "cleared", "underway", "customer", "contested"}

ledgerVars == <<holder, offered>>

Init ==
    /\ holder \in [Cods -> {"receiver", "driver", "company", "cleared"}]
    /\ offered = [c \in Cods |-> FALSE]

Move(c, from, to) == holder[c] = from /\ holder' = [holder EXCEPT ![c] = to]

(* The driver takes the cash at the door. *)
Take(c) == Move(c, "receiver", "driver") /\ UNCHANGED offered

Offer(c) ==
    /\ holder[c] = "driver" /\ ~offered[c]
    /\ offered' = [offered EXCEPT ![c] = TRUE]
    /\ UNCHANGED holder

(* The company answers an offer: it has the money, or the driver still has. *)
Answer(c) ==
    /\ offered[c]
    /\ offered' = [offered EXCEPT ![c] = FALSE]
    /\ Move(c, "driver", "company") \/ (holder[c] = "driver" /\ UNCHANGED holder)

Clear(c) == Move(c, "company", "cleared") /\ UNCHANGED offered
Forward(c) == Move(c, "cleared", "underway") /\ UNCHANGED offered
Acknowledge(c) ==
    /\ Move(c, "underway", "customer") \/ Move(c, "underway", "contested")
    /\ UNCHANGED offered

Next == \E c \in Cods :
    \/ Take(c) \/ Offer(c) \/ Answer(c) \/ Clear(c) \/ Forward(c) \/ Acknowledge(c)

Spec == Init /\ [][Next]_ledgerVars
=============================================================================
