----------------------------- MODULE MCArbMiners -----------------------------
(***************************************************************************)
(* The calls of the arbitrage coordinator and the loops over the forecasts *)
(* of Bittensor miners share no state and are checked side by side: a      *)
(* behaviour is of one of them, chosen at the start, and the other stays   *)
(* as it begins.                                                           *)
(***************************************************************************)
EXTENDS MCArbCoordinator, MinerWindows

CONSTANT Parts  \* those a run is about

VARIABLE part

ArbMinersInit == part \in Parts /\ Init /\ MinerInit

ArbMinersNext ==
  /\ UNCHANGED part
  /\ \/ part = "arb" /\ Next /\ UNCHANGED minerVars
     \/ part = "miners" /\ MinerNext /\ UNCHANGED vars

\* What FairSpec and MinerFairness say of each.
ArbMinersSpec ==
  /\ ArbMinersInit /\ [][ArbMinersNext]_<<part, vars, minerVars>>
  /\ \A t \in Trades : WF_vars(part = "arb" /\ CallStep(t))
  /\ WF_minerVars(part = "miners" /\ Reconnect)
  /\ WF_minerVars(part = "miners" /\ EvaluatorStep)
  /\ WF_minerVars(part = "miners" /\ \E w \in Slots : Ripen(w))
  /\ SF_minerVars(part = "miners" /\ \E w \in Slots : CollectForecasts(w))
  /\ SF_minerVars(part = "miners" /\ \E w \in Slots : CollectView(w))
  /\ SF_minerVars(part = "miners" /\ \E w \in Slots : Realize(w))

===============================================================================
