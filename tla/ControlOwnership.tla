--------------------------- MODULE ControlOwnership ---------------------------
(***************************************************************************)
(* What the control lease of a browser session promises, whoever calls it  *)
(* and whenever: the browser has at most one owner, a person becomes the   *)
(* owner only out of a state in which nobody is, and the agent gets the    *)
(* browser back only after a person agreed to give it back.                *)
(***************************************************************************)
VARIABLES
    owner,      \* who may write to the page: "agent", "user" or "none"
    consent     \* a person has returned control and the agent has not resumed

ownership == <<owner, consent>>

Init ==
    /\ owner = "agent"
    /\ consent = FALSE

\* Nobody may write: an offer by the agent, an expiry or the end of the session.
Suspend ==
    /\ owner' = "none"
    /\ consent' = FALSE

\* A person takes what has been offered.
Accept ==
    /\ owner = "none" /\ ~consent
    /\ owner' = "user"
    /\ UNCHANGED consent

\* A person gives control back, or gives up one that expired.
Return ==
    /\ owner \in {"user", "none"}
    /\ owner' = "none"
    /\ consent' = TRUE

Reclaim ==
    /\ consent
    /\ owner' = "agent"
    /\ consent' = FALSE

Next == Suspend \/ Accept \/ Return \/ Reclaim

Spec == Init /\ [][Next]_ownership
===============================================================================
