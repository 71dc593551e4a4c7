--------------------------- MODULE MCArbCoordinator ---------------------------
(***************************************************************************)
(* The values the runs give the constants of ArbCoordinator.               *)
(***************************************************************************)
EXTENDS ArbCoordinator

\* A broker that does what its interface says: it fills a limit order or refuses
\* it, and fills every market order.
HonestLegReplies == {"filled", "rejected", "raised"}
HonestUnwindReplies == {"filled"}

\* The same without limit orders that rest, but with fills of zero contracts.
FillOrRefuse == Replies \ {"resting"}

==============================================================================
