---------------------------- MODULE StrategyHealth ----------------------------
(***************************************************************************)
(* The health of one strategy (src/trading/learning/strategy_health.py,    *)
(* src/trading/storage/strategy_health.py): a row that evaluations read,   *)
(* await over and write, after every closed trade and on request, and that *)
(* an operator overrides.  Evaluations overlap: each is a task of its own. *)
(***************************************************************************)
EXTENDS Naturals, FiniteSets

CONSTANTS
  Evaluations,  \* evaluations of the strategy
  Overrides     \* POST /strategy-health/{agent}/override

Statuses == {"normal", "watchlist", "throttled", "shadow_only", "retired"}

VARIABLES
  health,   \* the row: status, whether it cools down, manual_override
  stage,    \* where an evaluation or an override stands
  metrics,  \* what an evaluation has computed from the latest snapshot
  target,   \* the status it is about to write
  stale     \* history: evaluations since whose read another has written the row

healthVars == <<health, stage, metrics, target, stale>>

HealthRows == [status : Statuses, cooling : BOOLEAN, manual : BOOLEAN]

HealthTypeOK ==
  /\ health \in HealthRows
  /\ stage \in [Evaluations \cup Overrides -> {"idle", "reading", "writing", "over"}]
  /\ metrics \in [Evaluations -> SUBSET {"losses", "expectancy", "drawdown"}]
  /\ target \in [Evaluations -> Statuses]
  /\ stale \subseteq Evaluations

HealthInit ==
  /\ health = [status |-> "normal", cooling |-> FALSE, manual |-> FALSE]
  /\ stage = [x \in Evaluations \cup Overrides |-> "idle"]
  /\ metrics = [e \in Evaluations |-> {}]
  /\ target = [e \in Evaluations |-> "normal"]
  /\ stale = {}

Turn(x, from, to) == stage[x] = from /\ stage' = [stage EXCEPT ![x] = to]

\* The latest snapshot: what is bad of it, if it has trades enough.
Measure(e) ==
  /\ \/ Turn(e, "idle", "reading")
        /\ \E bad \in SUBSET {"losses", "expectancy", "drawdown"} :
             metrics' = [metrics EXCEPT ![e] = bad]
     \/ Turn(e, "idle", "over") /\ UNCHANGED metrics
  /\ UNCHANGED <<health, target, stale>>

\* _compute_target_status.
Computed(status, bad) ==
  LET poor == bad \cap {"expectancy", "drawdown"} IN
  CASE status = "normal" -> IF "expectancy" \in bad THEN "watchlist" ELSE "normal"
    [] status = "watchlist" -> IF poor = {} THEN "normal" ELSE "throttled"
    [] status = "throttled" ->
         IF poor = {} THEN "normal"
         ELSE IF Cardinality(poor) = 2 THEN "shadow_only" ELSE "throttled"
    [] status = "shadow_only" -> IF Cardinality(poor) = 2 THEN "retired" ELSE "shadow_only"
    [] status = "retired" -> "retired"

Decides(e, status) ==
  /\ Turn(e, "reading", "writing")
  /\ target' = [target EXCEPT ![e] = status]

Keeps(e) == Turn(e, "reading", "over") /\ UNCHANGED target

\* Mutant: the override is not looked at.
ReadHealthMutant(e) ==
  /\ LET next == Computed(health.status, metrics[e]) IN
     IF "losses" \in metrics[e] THEN Decides(e, "throttled")
     ELSE IF health.cooling \/ next = health.status THEN Keeps(e)
     ELSE Decides(e, next)
  /\ stale' = stale \ {e}
  /\ UNCHANGED <<health, metrics>>

\* The row is read and judged.  Losses in a row come before the override and the cooldown.
ReadHealth(e) ==
  /\ LET next == Computed(health.status, metrics[e]) IN
     IF "losses" \in metrics[e] THEN Decides(e, "throttled")
     ELSE IF health.manual \/ health.cooling \/ next = health.status THEN Keeps(e)
     ELSE Decides(e, next)
  /\ stale' = stale \ {e}
  /\ UNCHANGED <<health, metrics>>

\* _transition: upsert_status writes the whole row, the override with it.
Transition(e) ==
  /\ Turn(e, "writing", "over")
  /\ health' = [status |-> target[e], cooling |-> TRUE, manual |-> FALSE]
  /\ stale' = stale \cup {d \in Evaluations \ {e} : stage[d] = "writing"}
  /\ UNCHANGED <<metrics, target>>

\* evaluate fails open: the caller is told normal, and the row stays.
EvaluationFails(e) ==
  /\ Turn(e, "reading", "over") \/ Turn(e, "writing", "over")
  /\ UNCHANGED <<health, metrics, target, stale>>

Override(o) ==
  /\ Turn(o, "idle", "over")
  /\ \E status \in Statuses :
       health' = [status |-> status, cooling |-> FALSE, manual |-> TRUE]
  /\ stale' = stale \cup {e \in Evaluations : stage[e] = "writing"}
  /\ UNCHANGED <<metrics, target>>

\* 24 hours: no evaluation is that long.
Cooled ==
  /\ health.cooling /\ \A e \in Evaluations : stage[e] # "writing"
  /\ health' = [health EXCEPT !.cooling = FALSE]
  /\ UNCHANGED <<stage, metrics, target, stale>>

HealthNext ==
  \/ \E e \in Evaluations : Measure(e) \/ ReadHealth(e) \/ Transition(e) \/ EvaluationFails(e)
  \/ \E o \in Overrides : Override(o)
  \/ Cooled

HealthSpec == HealthInit /\ [][HealthNext]_healthVars

-------------------------------------------------------------------------------
(* Properties.                                                             *)

\* An evaluation that measured losses in a row writes, or one since whose read another
\* has written.
Overrules(e) ==
  /\ stage[e] = "writing" /\ stage'[e] = "over"
  /\ "losses" \in metrics[e] \/ e \in stale

\* What an operator has set, what has just been changed, and a retirement stand until the
\* operator says otherwise or the cooldown is over, but for losses in a row, and for an
\* evaluation that had read the row before.
Standing == health.manual \/ health.cooling \/ health.status = "retired"
OperatorRules ==
  [][Standing /\ <<health'.status, health'.manual>> # <<health.status, health.manual>> =>
       \/ \E o \in Overrides : stage'[o] # stage[o]
       \/ \E e \in Evaluations : Overrules(e)]_healthVars

===============================================================================
