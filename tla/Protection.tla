----------------------------- MODULE Protection -----------------------------
(***************************************************************************)
(* What the tunnel state machine promises about the network, without its   *)
(* states, tunnels, retries and errors.                                    *)
(*                                                                         *)
(* The last order is to protect the traffic or to leave it open. The       *)
(* protection is off; or it is being set up, and the traffic is still      *)
(* exposed because nothing has been blocked yet; or it is sealed. Once     *)
(* sealed, the traffic stays sealed, whatever fails, until the order is to *)
(* leave it open or nobody is left to give orders.                         *)
(***************************************************************************)

VARIABLES
    wish,       \* the last order: "Open" or "Protect"
    abandoned,  \* nobody can give orders any more
    phase       \* what the network is

protection == <<wish, abandoned, phase>>

Phases == {"Off", "Exposed", "Sealed", "Ended"}

Init ==
    /\ wish = "Open"
    /\ abandoned = FALSE
    /\ phase = "Off"

\* An order may come with any step; once abandoned always abandoned.
Orders ==
    /\ wish' \in {"Open", "Protect"}
    /\ abandoned' \in {abandoned, TRUE}

\* Protection is only set up for somebody who asked for it.
Engage ==
    /\ phase = "Off"
    /\ phase' \in {"Exposed", "Sealed"}
    /\ wish' = "Protect"

Seal ==
    /\ phase = "Exposed"
    /\ phase' = "Sealed"

\* Protection is never given up by itself.
Release ==
    /\ phase \in {"Exposed", "Sealed"}
    /\ phase' = "Off"
    /\ wish' = "Open" \/ abandoned'

End ==
    /\ phase # "Ended"
    /\ phase' = "Ended"

Next == Orders /\ (UNCHANGED phase \/ Engage \/ Seal \/ Release \/ End)

Spec == Init /\ [][Next]_protection

=============================================================================
