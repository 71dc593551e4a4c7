-------------------------------- MODULE MCDesk --------------------------------
(***************************************************************************)
(* Components that share no state, checked by one run: a behaviour is of   *)
(* one of them, chosen at the start, and the others stay as they begin.    *)
(***************************************************************************)
EXTENDS ConsensusRouter, RiskEngine, StrategyHealth, TaoshiBridge, FeedAttribution, TLC

CONSTANTS
  Parts,                                     \* those a run is about
  v1, v2, v3, v4, v5, a1, a2, a3, buy, none  \* votes, agents and trades of ConsensusRouter

\* One agent votes twice, one vote is too late for the first, and one opportunity is no trade.
FoundBy == [o \in Opps |-> CASE o \in {v1, v3} -> a1 [] o = v2 -> a2 [] OTHER -> a3]
Trades == [o \in Opps |-> IF o = v5 THEN none ELSE buy]
OwnLevels == [o \in Opps |-> IF o = v2 THEN "suggest_trade" ELSE "notify"]
Minutes == [o \in Opps |-> CASE o = v1 -> 0 [] o = v2 -> 2 [] o = v3 -> 1 [] OTHER -> 3]

\* Scans and toggles are like one another.
Alike == Permutations(Scans) \cup Permutations(Toggles)

VARIABLE part

deskVars == <<part, vars, riskVars, healthVars, bridgeVars, feedVars>>

\* The row of the drawdown rule: not written yet, or triggered at the peak.
RiskBegins == RiskInit /\ row \in {NoState, [mark |-> 100, trigger |-> "cooling"]}

\* v5 goes first: it reads nothing that others write, and writes nothing they read.
VotesNext == IF pc[v5] = "found" THEN NothingToVoteOn(v5) ELSE Next

\* The other parts at rest.
VotesRest == Init /\ persistent
RiskRest == RiskInit /\ wired /\ row = NoState

DeskInit ==
  /\ part \in Parts
  /\ IF part = "votes" THEN Init ELSE VotesRest
  /\ IF part = "risk" THEN RiskBegins ELSE RiskRest
  /\ HealthInit /\ BridgeInit /\ FeedInit

DeskNext ==
  /\ UNCHANGED part
  /\ \/ part = "votes" /\ VotesNext /\ UNCHANGED <<riskVars, healthVars, bridgeVars, feedVars>>
     \/ part = "risk" /\ RiskNext /\ UNCHANGED <<vars, healthVars, bridgeVars, feedVars>>
     \/ part = "health" /\ HealthNext /\ UNCHANGED <<vars, riskVars, bridgeVars, feedVars>>
     \/ part = "bridge" /\ BridgeNext /\ UNCHANGED <<vars, riskVars, healthVars, feedVars>>
     \/ part = "feed" /\ FeedNext /\ UNCHANGED <<vars, riskVars, healthVars, bridgeVars>>

DeskSpec == DeskInit /\ [][DeskNext]_deskVars

===============================================================================
