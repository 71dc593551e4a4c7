----------------------------- MODULE MCArbClaims ------------------------------
(***************************************************************************)
(* The calls of the arbitrage coordinator and the claims of its clients    *)
(* share no state and are checked side by side: a behaviour is of one of   *)
(* them, chosen at the start, and the other stays as it begins.            *)
(***************************************************************************)
EXTENDS MCArbCoordinator, MCSpreadClaims

VARIABLE part

ArbClaimsInit == part \in {"arb", "claims"} /\ Init /\ ClaimsInit

ArbClaimsNext ==
  /\ UNCHANGED part
  /\ \/ part = "arb" /\ Next /\ UNCHANGED claimsVars
     \/ part = "claims" /\ ClaimsNext /\ UNCHANGED vars

\* What ClaimsFairSpec says of the claims; what the coordinator promises is safety.
ArbClaimsSpec ==
  /\ ArbClaimsInit /\ [][ArbClaimsNext]_<<part, vars, claimsVars>>
  /\ \A o \in Observations : WF_claimsVars(part = "claims" /\ Lapse(o))
  /\ WF_claimsVars(part = "claims" /\ ExecutorStep)
  /\ \A r \in Requests : WF_claimsVars(part = "claims" /\ RequestStep(r))

===============================================================================
