------------------------------ MODULE DeskProofs ------------------------------
(***************************************************************************)
(* Theorems about five components of the desk: RiskEngine, StrategyHealth, *)
(* TaoshiBridge, FeedAttribution and MinerWindows.  They share no          *)
(* variable.                                                               *)
(***************************************************************************)
EXTENDS RiskEngine, StrategyHealth, TaoshiBridge, FeedAttribution, MinerWindows,
        WellFoundedInduction, TLAPS

-------------------------------------------------------------------------------
(* The kill switch and the drawdown rule: types.                           *)

LEMMA MarkType == \A m \in Values \cup {0} : m \in Nat
  BY RiskAssumption

LEMMA PeakType ==
  ASSUME NEW m \in Values \cup {0}, NEW v \in Values
  PROVE  Peak(m, v) \in Values \cup {0} /\ Peak(m, v) >= m
  BY RiskAssumption DEF Peak

\* Types of the switch, the row and the actors, whatever they do at what time.
THEOREM RiskTypeCorrect == RiskSpec => []RiskTypeOK
<1>1. ASSUME RiskInit PROVE RiskTypeOK
  <2>1. wired \in BOOLEAN /\ memory \in BOOLEAN /\ redis \in BOOLEAN
        /\ halt \in BOOLEAN /\ restarted \in BOOLEAN
    BY <1>1, Zenon DEF RiskInit
  <2> QED
    BY <1>1, <2>1 DEF RiskInit, RiskTypeOK, States, NoState, Triggers, Stands
<1>2. RiskTypeOK /\ [RiskNext]_riskVars => RiskTypeOK'
  <2> SUFFICES ASSUME RiskTypeOK, [RiskNext]_riskVars PROVE RiskTypeOK'
    OBVIOUS
  <2> USE DEF RiskTypeOK, Moves, switch, history
  <2>1. ASSUME NEW t \in Toggles, ToggleMemory(t) PROVE RiskTypeOK'
    <3>1. PICK on \in BOOLEAN : /\ wants' = [wants EXCEPT ![t] = on] /\ memory' = on
                                /\ halt' = halt \/ halt' = FALSE
      BY <2>1, Zenon DEF ToggleMemory, Resumes
    <3>2. memory' \in BOOLEAN /\ halt' \in BOOLEAN /\ UNCHANGED <<wired, redis, restarted>>
      BY <2>1, <3>1, Zenon DEF ToggleMemory
    <3>3. contested' \subseteq Toggles /\ under' \subseteq Actors
      BY <2>1 DEF ToggleMemory, Resumes, Setting
    <3>4. stands' \in [Actors -> Stands] /\ wants' \in [Toggles -> BOOLEAN]
      BY <2>1, <3>1 DEF ToggleMemory, Stands, Actors
    <3> QED
      BY <2>1, <3>2, <3>3, <3>4 DEF ToggleMemory
  <2>2. ASSUME NEW t \in Toggles, RedisSets(t) \/ RedisFails(t) PROVE RiskTypeOK'
    <3>1. redis' = redis \/ redis' = wants[t]
      BY <2>2 DEF RedisSets, RedisFails
    <3>2. redis' \in BOOLEAN
      BY <3>1
    <3>3. UNCHANGED <<wired, memory, halt, restarted>>
      BY <2>2 DEF RedisSets, RedisFails
    <3> QED
      BY <2>2, <3>2, <3>3 DEF RedisSets, RedisFails, Stands
  <2>3. ASSUME NEW t \in Toggles, ToggleReturns(t) PROVE RiskTypeOK'
    <3>1. halt' \in BOOLEAN /\ restarted' \in BOOLEAN /\ UNCHANGED <<wired, memory, redis>>
      BY <2>3, Zenon DEF ToggleReturns
    <3> QED
      BY <2>3, <3>1 DEF ToggleReturns, Stands
  <2>4. ASSUME NEW r \in Requests, RequestStep(r) PROVE RiskTypeOK'
    BY <2>4 DEF RequestStep, Ask, RequestPlaces, Begins, Stands, Actors
  <2>12. ASSUME NEW a \in Arbitrages, ArbitrageStep(a) PROVE RiskTypeOK'
    BY <2>12 DEF ArbitrageStep, ClaimSpread, ExecuteArbitrage, Begins, Stands, Actors
  <2>5. ASSUME NEW s \in Scans, Scan(s) \/ Evaluate(s) \/ ScanPlaces(s) PROVE RiskTypeOK'
    BY <2>5 DEF Scan, Evaluate, ScanPlaces, Begins, Stands, Actors
  <2>6. ASSUME NEW s \in Scans, Judge(s) PROVE RiskTypeOK'
    <3>1. \A v \in Values : Peak(row.mark, v) \in Values \cup {0}
      BY PeakType DEF States
    <3>2. mark' \in [Scans -> Values \cup {0}]
      BY <2>6, <3>1 DEF Judge
    <3>3. stands' \in [Actors -> Stands]
      BY <2>6 DEF Judge, Stands, Actors
    <3> QED
      BY <2>6, <3>2, <3>3 DEF Judge
  <2>7. ASSUME NEW s \in Scans, Save(s) \/ StateFails(s) PROVE RiskTypeOK'
    <3>1. Saved(s) \in States
      BY DEF Saved, States, Triggers
    <3>2. row' \in States /\ behind' \subseteq Scans
      BY <2>7, <3>1 DEF Save, StateFails, Writes
    <3>3. stands' \in [Actors -> Stands]
      BY <2>7 DEF Save, StateFails, Stands
    <3>4. mark' \in [Scans -> Values \cup {0}]
      BY <2>7 DEF Save, StateFails
    <3> QED
      BY <2>7, <3>2, <3>3, <3>4 DEF Save, StateFails
  <2>8. ASSUME NEW s \in Scans, RuleRefuses(s) PROVE RiskTypeOK'
    <3>1. memory' \in BOOLEAN /\ UNCHANGED <<wired, redis, halt, restarted>>
      BY <2>8, Zenon DEF RuleRefuses
    <3> QED
      BY <2>8, <3>1 DEF RuleRefuses, Stands
  <2>9. CASE Cools
    <3>1. row' \in States
      BY <2>9 DEF Cools, States, Triggers
    <3> QED
      BY <2>9, <3>1 DEF Cools
  <2>10. CASE ProcessDies
    <3>1. stands' \in [Actors -> Stands]
      BY <2>10 DEF ProcessDies, Stands
    <3>2. memory' \in BOOLEAN /\ restarted' \in BOOLEAN /\ UNCHANGED <<wired, redis, halt>>
      BY <2>10, Zenon DEF ProcessDies
    <3> QED
      BY <2>10, <3>1, <3>2 DEF ProcessDies
  <2>11. CASE AllEnded \/ UNCHANGED riskVars
    BY <2>11 DEF AllEnded, riskVars
  <2> QED
    BY <2>1, <2>2, <2>3, <2>4, <2>5, <2>6, <2>7, <2>8, <2>9, <2>10, <2>11, <2>12
    DEF RiskNext, ToggleStep, ScanStep
<1> QED
  BY <1>1, <1>2, PTL DEF RiskSpec

-------------------------------------------------------------------------------
(* The row of the drawdown rule.                                           *)

Holding(s) == stands[s] \in {"tripping", "saving"}

\* Whoever is about to write and has read what is there still holds a mark no lower, and
\* has read no trigger that cools.
FreshMarks ==
  \A s \in Scans : Holding(s) /\ s \notin behind =>
    mark[s] >= row.mark /\ row.trigger # "cooling"

LEMMA FreshMarksStep ==
  ASSUME RiskTypeOK, FreshMarks, [RiskNext]_riskVars PROVE FreshMarks'
<1> USE DEF RiskTypeOK, FreshMarks, Holding, Moves, switch, history
<1>0. \A s \in Scans : s \in Actors /\ s \notin Toggles \cup Requests \cup Arbitrages
  BY ActorAssumption DEF Actors
<1>1. ASSUME NEW t \in Toggles, ToggleStep(t) PROVE FreshMarks'
  BY <1>0, <1>1 DEF ToggleStep, ToggleMemory, RedisSets, ToggleReturns, RedisFails
<1>2. ASSUME NEW r \in Requests, RequestStep(r) PROVE FreshMarks'
  BY <1>0, <1>2 DEF RequestStep, Ask, RequestPlaces
<1>9. ASSUME NEW a \in Arbitrages, ArbitrageStep(a) PROVE FreshMarks'
  BY <1>0, <1>9 DEF ArbitrageStep, ClaimSpread, ExecuteArbitrage
<1>3. ASSUME NEW s \in Scans, Scan(s) \/ Evaluate(s) \/ RuleRefuses(s) \/ ScanPlaces(s)
      PROVE  FreshMarks'
  BY <1>0, <1>3 DEF Scan, Evaluate, RuleRefuses, ScanPlaces
<1>4. ASSUME NEW s \in Scans, Judge(s) PROVE FreshMarks'
  <2>1. \A v \in Values : Peak(row.mark, v) >= row.mark
    BY PeakType DEF States
  <2>2. Holding(s)' => mark'[s] >= row.mark /\ row.trigger # "cooling"
    BY <1>0, <1>4, <2>1 DEF Judge
  <2>3. /\ \A u \in Scans \ {s} : stands'[u] = stands[u] /\ mark'[u] = mark[u]
        /\ behind' = behind \ {s} /\ row' = row
    BY <1>0, <1>4 DEF Judge
  <2> QED
    BY <2>2, <2>3
<1>5. ASSUME NEW s \in Scans, Save(s) \/ StateFails(s) PROVE FreshMarks'
  <2>1. /\ ~Holding(s)'
        /\ \A u \in Scans \ {s} : stands'[u] = stands[u] /\ mark'[u] = mark[u]
    BY <1>0, <1>5 DEF Save, StateFails
  <2>2. CASE Writes(s)
    BY <2>1, <2>2 DEF Writes
  <2>3. CASE ~Writes(s)
    BY <1>5, <2>1, <2>3 DEF Save, StateFails
  <2> QED
    BY <2>2, <2>3
<1>6. CASE Cools
  BY <1>6 DEF Cools
<1>7. CASE ProcessDies
  BY <1>0, <1>7 DEF ProcessDies
<1>8. CASE AllEnded \/ UNCHANGED riskVars
  BY <1>8 DEF AllEnded, riskVars
<1> QED
  BY <1>1, <1>2, <1>3, <1>4, <1>5, <1>6, <1>7, <1>8, <1>9 DEF RiskNext, ScanStep

\* The mark falls, and a trigger is taken back early, only by an evaluation that another
\* has overtaken since it read the row (PortfolioDrawdownKillSwitch.evaluate).
THEOREM DrawdownRowHolds == RiskSpec => RowHolds
<1> DEFINE Lost == \/ row'.mark < row.mark
                   \/ row.trigger = "cooling" /\ row'.trigger = "no"
           Late == \E s \in behind : stands[s] \in {"tripping", "saving"} /\ stands'[s] # stands[s]
<1>1. RiskInit => FreshMarks
  BY DEF RiskInit, FreshMarks, Holding, Actors
<1>2. RiskTypeOK /\ FreshMarks /\ [RiskNext]_riskVars => (Lost => Late)
  <2> SUFFICES ASSUME RiskTypeOK, FreshMarks, [RiskNext]_riskVars, Lost PROVE Late
    OBVIOUS
  <2> USE DEF RiskTypeOK, States
  <2>1. row' # row /\ ~Cools
    BY RiskAssumption DEF Cools
  <2>2. PICK s \in Scans : Save(s) \/ StateFails(s)
    BY <2>1 DEF RiskNext, ToggleStep, RequestStep, ArbitrageStep, ScanStep, riskVars, switch,
                history, ToggleMemory, RedisSets, ToggleReturns, RedisFails, Ask, RequestPlaces,
                ClaimSpread, ExecuteArbitrage,
                Scan, Evaluate, Judge, RuleRefuses, ScanPlaces, ProcessDies, AllEnded
  <2>3. Writes(s)
    BY <2>1, <2>2 DEF Save, StateFails
  <2>4. stands[s] \in {"tripping", "saving"} /\ stands'[s] # stands[s]
    BY <2>1, <2>2 DEF Save, StateFails, Moves, Actors
  <2>5. s \in behind
    <3>1. row'.mark = mark[s] /\ (row'.trigger = "cooling" \/ row'.trigger = "no")
      BY <2>3 DEF Writes, Saved
    <3>2. mark[s] \in Nat /\ row.mark \in Nat
      <4>1. mark[s] \in Values \cup {0} /\ row.mark \in Values \cup {0}
        OBVIOUS
      <4> QED
        BY <4>1, MarkType
    <3>3. ~(mark[s] >= row.mark /\ row.trigger # "cooling")
      BY <3>1, <3>2
    <3> QED
      BY <2>4, <3>3 DEF FreshMarks, Holding
  <2> QED
    BY <2>4, <2>5
<1>3. RiskTypeOK /\ FreshMarks /\ [RiskNext]_riskVars => FreshMarks'
  BY FreshMarksStep
<1>4. RiskTypeOK /\ FreshMarks /\ [RiskNext]_riskVars => [Lost => Late]_riskVars
  BY <1>2
<1> QED
  BY <1>1, <1>3, <1>4, RiskTypeCorrect, PTL DEF RiskSpec, RowHolds

\* One evaluation at a time is between its read and its write.
OneEvaluation == \A s, u \in Scans : Holding(s) /\ Holding(u) => s = u

RowLost == \/ row'.mark < row.mark
           \/ row.trigger = "cooling" /\ row'.trigger = "no"

\* While evaluations do not overlap, the high-water mark never falls and no trigger is taken
\* back before it has cooled down, whatever fails and restarts.
THEOREM LoneEvaluationsKeepTheRow ==
  RiskSpec /\ []OneEvaluation => [][~RowLost]_riskVars
<1> DEFINE NoneBehind == \A s \in behind : ~Holding(s)
<1>1. RiskInit => NoneBehind
  BY DEF RiskInit
<1>2. RiskTypeOK /\ OneEvaluation /\ NoneBehind /\ [RiskNext]_riskVars => NoneBehind'
  <2> SUFFICES ASSUME RiskTypeOK, OneEvaluation, NoneBehind, [RiskNext]_riskVars
               PROVE  NoneBehind'
    OBVIOUS
  <2> USE DEF RiskTypeOK, Holding, Moves, switch, history
  <2>0. \A s \in Scans : s \in Actors /\ s \notin Toggles \cup Requests \cup Arbitrages
    BY ActorAssumption DEF Actors
  <2>1. ASSUME NEW t \in Toggles, ToggleStep(t) PROVE NoneBehind'
    BY <2>0, <2>1 DEF ToggleStep, ToggleMemory, Resumes, RedisSets, ToggleReturns, RedisFails
  <2>2. ASSUME NEW r \in Requests, RequestStep(r) PROVE NoneBehind'
    BY <2>0, <2>2 DEF RequestStep, Ask, RequestPlaces
  <2>8. ASSUME NEW a \in Arbitrages, ArbitrageStep(a) PROVE NoneBehind'
    BY <2>0, <2>8 DEF ArbitrageStep, ClaimSpread, ExecuteArbitrage
  <2>3. ASSUME NEW s \in Scans, Scan(s) \/ Evaluate(s) \/ RuleRefuses(s) \/ ScanPlaces(s)
        PROVE  NoneBehind'
    BY <2>0, <2>3 DEF Scan, Evaluate, RuleRefuses, ScanPlaces
  <2>4. ASSUME NEW s \in Scans, Judge(s) PROVE NoneBehind'
    <3>1. behind' = behind \ {s} /\ \A u \in Scans \ {s} : stands'[u] = stands[u]
      BY <2>0, <2>4 DEF Judge
    <3> QED
      BY <3>1
  <2>5. ASSUME NEW s \in Scans, Save(s) \/ StateFails(s) PROVE NoneBehind'
    <3>1. ~Holding(s)' /\ \A u \in Scans \ {s} : stands'[u] = stands[u]
      BY <2>0, <2>5 DEF Save, StateFails
    <3>2. CASE Writes(s) /\ Holding(s)
      <4>1. behind' = behind \ {s}
        BY <3>2 DEF Writes, OneEvaluation
      <4> QED
        BY <3>1, <4>1
    <3>3. CASE UNCHANGED behind
      BY <3>1, <3>3
    <3> QED
      BY <2>5, <3>2, <3>3 DEF Save, StateFails
  <2>6. CASE ProcessDies
    BY <2>6 DEF ProcessDies
  <2>7. CASE Cools \/ AllEnded \/ UNCHANGED riskVars
    BY <2>7 DEF Cools, AllEnded, riskVars
  <2> QED
    BY <2>1, <2>2, <2>3, <2>4, <2>5, <2>6, <2>7, <2>8 DEF RiskNext, ScanStep
<1>3. NoneBehind
      /\ [\/ row'.mark < row.mark
          \/ row.trigger = "cooling" /\ row'.trigger = "no"
          => \E s \in behind : stands[s] \in {"tripping", "saving"} /\ stands'[s] # stands[s]]_riskVars
      => [~RowLost]_riskVars
  BY DEF RowLost, Holding
<1> QED
  BY <1>1, <1>2, <1>3, RiskTypeCorrect, DrawdownRowHolds, PTL DEF RiskSpec, RowHolds

-------------------------------------------------------------------------------
(* The halt.                                                               *)

\* A halt that stands is in Redis, and in memory unless the process died since; nobody
\* is about to take it back.
HaltIsSet ==
  halt => redis /\ (memory \/ restarted) /\ \A u \in Setting : wants[u]

\* A toggle that will be answered as a halt has set what it has come to.
HaltIsComing ==
  \A t \in Setting : wants[t] /\ t \notin contested =>
    /\ memory /\ \A u \in Setting : wants[u]
    /\ stands[t] = "sent" => redis

\* Who began under the halt has been refused, or is an agent's scan that is still to be
\* evaluated, or that a restart lets through, or an arbitrage.
UnderIsHeld ==
  /\ under # {} => halt
  /\ under \subseteq Scans \cup Requests \cup Arbitrages
  /\ \A r \in under \cap Requests : stands[r] = "ended"
  /\ \A s \in under \cap Scans :
       stands[s] = "ended" \/ (~wired /\ (stands[s] = "scanned" \/ restarted))

HaltInv == HaltIsSet /\ HaltIsComing /\ UnderIsHeld

LEMMA HaltInvStep ==
  ASSUME RiskTypeOK, HaltInv, [RiskNext]_riskVars PROVE HaltInv'
<1> USE DEF RiskTypeOK, HaltInv, HaltIsSet, HaltIsComing, UnderIsHeld, Setting, Moves,
            switch, history
<1>0. /\ Toggles \subseteq Actors /\ Scans \subseteq Actors /\ Requests \subseteq Actors
      /\ Scans \cap Toggles = {} /\ Scans \cap Requests = {} /\ Requests \cap Toggles = {}
      /\ Arbitrages \subseteq Actors /\ Arbitrages \cap (Scans \cup Requests \cup Toggles) = {}
  BY ActorAssumption DEF Actors
<1>1. ASSUME NEW t \in Toggles, ToggleMemory(t) PROVE HaltInv'
  BY <1>0, <1>1 DEF ToggleMemory, Resumes
<1>2. ASSUME NEW t \in Toggles, RedisSets(t) \/ RedisFails(t) PROVE HaltInv'
  BY <1>0, <1>2 DEF RedisSets, RedisFails
<1>3. ASSUME NEW t \in Toggles, ToggleReturns(t) PROVE HaltInv'
  BY <1>0, <1>3 DEF ToggleReturns
<1>4. ASSUME NEW r \in Requests, RequestStep(r) PROVE HaltInv'
  BY <1>0, <1>4 DEF RequestStep, Ask, RequestPlaces, Begins
<1>11. ASSUME NEW a \in Arbitrages, ArbitrageStep(a) PROVE HaltInv'
  BY <1>0, <1>11 DEF ArbitrageStep, ClaimSpread, ExecuteArbitrage, Begins
<1>5. ASSUME NEW s \in Scans, Scan(s) PROVE HaltInv'
  BY <1>0, <1>5 DEF Scan, Begins
<1>6. ASSUME NEW s \in Scans, Evaluate(s) PROVE HaltInv'
  BY <1>0, <1>6 DEF Evaluate
<1>7. ASSUME NEW s \in Scans, Judge(s) \/ Save(s) \/ StateFails(s) \/ ScanPlaces(s)
      PROVE  HaltInv'
  BY <1>0, <1>7 DEF Judge, Save, StateFails, ScanPlaces
<1>8. ASSUME NEW s \in Scans, RuleRefuses(s) PROVE HaltInv'
  BY <1>0, <1>8 DEF RuleRefuses
<1>9. CASE ProcessDies
  BY <1>0, <1>9 DEF ProcessDies
<1>10. CASE Cools \/ AllEnded \/ UNCHANGED riskVars
  BY <1>10 DEF Cools, AllEnded, riskVars
<1> QED
  BY <1>1, <1>2, <1>3, <1>4, <1>5, <1>6, <1>7, <1>8, <1>9, <1>10, <1>11
  DEF RiskNext, ToggleStep, ScanStep

\* No agent and no POST /orders begun under an answered halt orders, but agents after a
\* restart when the runner has no Redis client (check_kill_switch,
\* RiskEngine.evaluate_order), however many arbitrages are executed beside them; those
\* read no copy of the switch, and nothing is claimed of them.
THEOREM TheHaltHolds == RiskSpec => []HaltHolds
<1>1. RiskInit => HaltInv
  BY DEF RiskInit, HaltInv, HaltIsSet, HaltIsComing, UnderIsHeld, Setting, Actors
<1>2. RiskTypeOK /\ HaltInv /\ [RiskNext]_riskVars => HaltInv'
  BY HaltInvStep
<1>3. HaltInv => HaltHolds
  BY DEF HaltInv, UnderIsHeld, HaltHolds
<1> QED
  BY <1>1, <1>2, <1>3, RiskTypeCorrect, PTL DEF RiskSpec

-------------------------------------------------------------------------------
(* The health of a strategy.                                               *)

\* The next status is a status.
LEMMA ComputedType ==
  ASSUME NEW status \in Statuses, NEW bad
  PROVE  /\ Computed(status, bad) \in Statuses
         /\ status = "retired" => Computed(status, bad) = "retired"
  BY DEF Computed, Statuses

\* Types of the row and of the evaluations, whatever they read and write.
THEOREM HealthTypeCorrect == HealthSpec => []HealthTypeOK
<1>1. HealthInit => HealthTypeOK
  BY DEF HealthInit, HealthTypeOK, HealthRows, Statuses
<1>2. HealthTypeOK /\ [HealthNext]_healthVars => HealthTypeOK'
  <2> SUFFICES ASSUME HealthTypeOK, [HealthNext]_healthVars PROVE HealthTypeOK'
    OBVIOUS
  <2> USE DEF HealthTypeOK, HealthRows, Turn
  <2>1. ASSUME NEW e \in Evaluations, Measure(e) PROVE HealthTypeOK'
    <3>1. metrics' \in [Evaluations -> SUBSET {"losses", "expectancy", "drawdown"}]
      BY <2>1 DEF Measure
    <3>2. stage' \in [Evaluations \cup Overrides -> {"idle", "reading", "writing", "over"}]
      BY <2>1 DEF Measure
    <3> QED
      BY <2>1, <3>1, <3>2 DEF Measure
  <2>2. ASSUME NEW e \in Evaluations, ReadHealth(e) PROVE HealthTypeOK'
    <3>1. Computed(health.status, metrics[e]) \in Statuses
      BY ComputedType
    <3>2. "throttled" \in Statuses
      BY DEF Statuses
    <3> QED
      BY <2>2, <3>1, <3>2 DEF ReadHealth, Decides, Keeps
  <2>3. ASSUME NEW e \in Evaluations, Transition(e) PROVE HealthTypeOK'
    BY <2>3 DEF Transition
  <2>4. ASSUME NEW e \in Evaluations, EvaluationFails(e) PROVE HealthTypeOK'
    BY <2>4 DEF EvaluationFails
  <2>5. ASSUME NEW o \in Overrides, Override(o) PROVE HealthTypeOK'
    BY <2>5 DEF Override
  <2>6. CASE Cooled
    BY <2>6 DEF Cooled
  <2>7. CASE UNCHANGED healthVars
    BY <2>7 DEF healthVars
  <2> QED
    BY <2>1, <2>2, <2>3, <2>4, <2>5, <2>6, <2>7 DEF HealthNext
<1> QED
  BY <1>1, <1>2, PTL DEF HealthSpec

\* Whoever is about to write without a streak of losses, and has read what is there still,
\* has read a row that nothing protects.
FreshWriters ==
  \A e \in Evaluations :
    stage[e] = "writing" /\ "losses" \notin metrics[e] /\ e \notin stale =>
      ~health.manual /\ ~health.cooling /\ health.status # "retired"

\* What an operator has set, a cooldown and a retirement stand, but for losses in a row
\* and for evaluations that had read before (_evaluate_internal and set_override).
THEOREM OperatorStands == HealthSpec => OperatorRules
<1>1. HealthInit => FreshWriters
  BY DEF HealthInit, FreshWriters
<1>2. HealthTypeOK /\ FreshWriters /\ [HealthNext]_healthVars => FreshWriters'
  <2> SUFFICES ASSUME HealthTypeOK, FreshWriters, [HealthNext]_healthVars
               PROVE  FreshWriters'
    OBVIOUS
  <2> USE DEF HealthTypeOK, HealthRows, FreshWriters, Turn
  <2>1. ASSUME NEW e \in Evaluations, Measure(e) PROVE FreshWriters'
    BY <2>1 DEF Measure
  <2>2. ASSUME NEW e \in Evaluations, ReadHealth(e) PROVE FreshWriters'
    <3>1. health.status = "retired" => Computed(health.status, metrics[e]) = health.status
      BY ComputedType
    <3> QED
      BY <2>2, <3>1 DEF ReadHealth, Decides, Keeps
  <2>3. ASSUME NEW e \in Evaluations, Transition(e) PROVE FreshWriters'
    BY <2>3 DEF Transition
  <2>4. ASSUME NEW e \in Evaluations, EvaluationFails(e) PROVE FreshWriters'
    BY <2>4 DEF EvaluationFails
  <2>5. ASSUME NEW o \in Overrides, Override(o) PROVE FreshWriters'
    BY <2>5 DEF Override
  <2>6. CASE Cooled
    BY <2>6 DEF Cooled
  <2>7. CASE UNCHANGED healthVars
    BY <2>7 DEF healthVars
  <2> QED
    BY <2>1, <2>2, <2>3, <2>4, <2>5, <2>6, <2>7 DEF HealthNext
<1> DEFINE Ruled ==
      Standing /\ <<health'.status, health'.manual>> # <<health.status, health.manual>> =>
        \/ \E o \in Overrides : stage'[o] # stage[o]
        \/ \E e \in Evaluations : Overrules(e)
<1>3. HealthTypeOK /\ FreshWriters /\ [HealthNext]_healthVars => Ruled
  <2> SUFFICES ASSUME HealthTypeOK, FreshWriters, [HealthNext]_healthVars PROVE Ruled
    OBVIOUS
  <2> USE DEF HealthTypeOK, HealthRows, Turn
  <2>1. ASSUME NEW e \in Evaluations, Transition(e) PROVE Ruled
    BY <2>1 DEF Transition, FreshWriters, Standing, Overrules
  <2>2. ASSUME NEW o \in Overrides, Override(o) PROVE Ruled
    BY <2>2 DEF Override
  <2>3. CASE Cooled
    BY <2>3 DEF Cooled
  <2>4. CASE UNCHANGED health
    BY <2>4
  <2> QED
    BY <2>1, <2>2, <2>3, <2>4
    DEF HealthNext, Measure, ReadHealth, EvaluationFails, healthVars
<1>4. HealthTypeOK /\ FreshWriters /\ [HealthNext]_healthVars => [Ruled]_healthVars
  BY <1>3
<1> QED
  BY <1>1, <1>2, <1>4, HealthTypeCorrect, PTL DEF HealthSpec, OperatorRules

\* One evaluation at a time is between its read and its write, and no override comes
\* between the two.
OneWriter == \A d, e \in Evaluations : stage[d] = "writing" /\ stage[e] = "writing" => d = e
Between ==
  (\E o \in Overrides : stage'[o] # stage[o]) /\ (\E e \in Evaluations : stage[e] = "writing")

\* What an override, a cooldown or a retirement left standing is changed, by no override and
\* with no evaluation under way that counts losses in a row.
Overruled ==
  /\ Standing /\ <<health'.status, health'.manual>> # <<health.status, health.manual>>
  /\ \A o \in Overrides : stage'[o] = stage[o]
  /\ \A e \in Evaluations : stage[e] = "writing" => "losses" \notin metrics[e]

\* Without losses in a row the operator is overruled by nobody, when nothing comes between
\* the read of an evaluation and its write.
THEOREM LoneWritersObey ==
  HealthSpec /\ []OneWriter /\ [][~Between]_healthVars => [][~Overruled]_healthVars
<1> DEFINE NoneStale == \A e \in stale : stage[e] # "writing"
<1>1. HealthInit => NoneStale
  BY DEF HealthInit
<1>2. HealthTypeOK /\ OneWriter /\ NoneStale /\ [HealthNext]_healthVars /\ [~Between]_healthVars
      => NoneStale'
  <2> SUFFICES ASSUME HealthTypeOK, OneWriter, NoneStale, [HealthNext]_healthVars,
                      [~Between]_healthVars
               PROVE  NoneStale'
    OBVIOUS
  <2> USE DEF HealthTypeOK, Turn
  <2>1. ASSUME NEW e \in Evaluations, Measure(e) \/ EvaluationFails(e) PROVE NoneStale'
    BY <2>1 DEF Measure, EvaluationFails
  <2>2. ASSUME NEW e \in Evaluations, ReadHealth(e) PROVE NoneStale'
    <3>1. stale' = stale \ {e} /\ \A d \in Evaluations \ {e} : stage'[d] = stage[d]
      BY <2>2 DEF ReadHealth, Decides, Keeps
    <3> QED
      BY <3>1
  <2>3. ASSUME NEW e \in Evaluations, Transition(e) PROVE NoneStale'
    <3>1. stale' = stale
      BY <2>3 DEF Transition, OneWriter
    <3> QED
      BY <2>3, <3>1 DEF Transition
  <2>4. ASSUME NEW o \in Overrides, Override(o) PROVE NoneStale'
    <3>1. stage'[o] # stage[o]
      BY <2>4 DEF Override
    <3>2. \A e \in Evaluations : stage[e] # "writing"
      BY <3>1 DEF Between, healthVars
    <3> QED
      BY <2>4, <3>2 DEF Override
  <2>5. CASE Cooled \/ UNCHANGED healthVars
    BY <2>5 DEF Cooled, healthVars
  <2> QED
    BY <2>1, <2>2, <2>3, <2>4, <2>5 DEF HealthNext
<1>3. NoneStale
      /\ [Standing /\ <<health'.status, health'.manual>> # <<health.status, health.manual>> =>
            \/ \E o \in Overrides : stage'[o] # stage[o]
            \/ \E e \in Evaluations : Overrules(e)]_healthVars
      => [~Overruled]_healthVars
  BY DEF Overruled, Overrules
<1> QED
  BY <1>1, <1>2, <1>3, HealthTypeCorrect, OperatorStands, PTL DEF HealthSpec, OperatorRules

-------------------------------------------------------------------------------
(* The bridge.                                                             *)

\* Of each position, what was told is older than what is about to be told, and no newer
\* than what is taken for seen, which in turn is no newer than the file; nothing was told
\* of what is not known, as long as its file is there.
SeenInOrder ==
  \A p \in Positions :
    /\ phase = "publishing" /\ p \in subject =>
         hashes[p] \in Contents /\ \A k \in told[p] : k < hashes[p]
    /\ file[p] # Closed /\ hashes[p] \in Contents => hashes[p] <= file[p]
    /\ file[p] # Closed /\ hashes[p] \notin Contents => told[p] = {}
    /\ hashes[p] \in Contents => \A k \in told[p] : k <= hashes[p]

\* What the poll is done with was present, or is gone.
LookedAt == phase # "resting" => \A p \in Positions \ todo : p \in present \/ file[p] = Closed

BridgeInv == BridgeTypeOK /\ SeenInOrder /\ LookedAt

LEMMA BridgeInvHolds == BridgeSpec => []BridgeInv
<1> USE BridgeAssumption DEF Contents, Closed, Unknown, NoHash
<1>1. BridgeInit => BridgeInv
  BY DEF BridgeInit, BridgeInv, BridgeTypeOK, SeenInOrder, LookedAt
<1>2. BridgeInv /\ [BridgeNext]_bridgeVars => BridgeInv'
  <2> SUFFICES ASSUME BridgeTypeOK, SeenInOrder, LookedAt, [BridgeNext]_bridgeVars
               PROVE  BridgeTypeOK' /\ SeenInOrder' /\ LookedAt'
    BY DEF BridgeInv
  <2> USE DEF BridgeTypeOK
  <2>1. CASE PollBegins \/ UNCHANGED bridgeVars
    BY <2>1 DEF PollBegins, bridgeVars, SeenInOrder, LookedAt
  <2>2. CASE Prune
    <3>1. BridgeTypeOK'
      BY <2>2 DEF Prune
    <3>2. \A p \in Positions : hashes'[p] = hashes[p] \/ (hashes'[p] = Unknown /\ file[p] = Closed)
      BY <2>2 DEF Prune, LookedAt
    <3>3. SeenInOrder'
      BY <2>2, <3>2 DEF Prune, SeenInOrder
    <3> QED
      BY <2>2, <3>1, <3>3 DEF Prune, LookedAt
  <2>3. CASE BridgeRestarts
    <3>1. BridgeTypeOK'
      BY <2>3 DEF BridgeRestarts
    <3> QED
      BY <2>3, <3>1 DEF BridgeRestarts, SeenInOrder, LookedAt
  <2>4. ASSUME NEW p \in Positions, Absent(p) \/ Unreadable(p)
        PROVE  BridgeTypeOK' /\ SeenInOrder' /\ LookedAt'
    BY <2>4 DEF Absent, Unreadable, Turns, SeenInOrder, LookedAt
  <2>5. ASSUME NEW p \in Positions, Look(p) PROVE BridgeTypeOK' /\ SeenInOrder' /\ LookedAt'
    <3>1. file[p] \in Contents /\ phase = "looking"
      BY <2>5 DEF Look, Turns
    <3>2. hashes' = [hashes EXCEPT ![p] = file[p]]
      BY <2>5 DEF Look
    <3>3. BridgeTypeOK'
      BY <2>5, <3>1, <3>2 DEF Look, Turns
    <3>4. ASSUME News(p) PROVE \A k \in told[p] : k < file[p]
      BY <3>1, <3>4 DEF News, SeenInOrder
    <3>5. phase' = "publishing" => News(p) /\ subject' = {p}
      BY <2>5, <3>1 DEF Look
    <3>6. \A k \in told[p] : k <= file[p]
      BY <3>1 DEF SeenInOrder
    <3>7. UNCHANGED <<file, told>>
      BY <2>5 DEF Look
    <3>8. SeenInOrder'
      BY <3>1, <3>2, <3>4, <3>5, <3>6, <3>7 DEF SeenInOrder
    <3> QED
      BY <2>5, <3>3, <3>8 DEF Look, Turns, LookedAt
  <2>6. ASSUME NEW p \in Positions, Publish(p) PROVE BridgeTypeOK' /\ SeenInOrder' /\ LookedAt'
    <3>1. hashes[p] \in Contents
      BY <2>6 DEF Publish, SeenInOrder
    <3>2. told' = [told EXCEPT ![p] = told[p] \cup {hashes[p]}]
      BY <2>6 DEF Publish
    <3>3. BridgeTypeOK'
      BY <2>6, <3>1, <3>2 DEF Publish
    <3>4. UNCHANGED <<file, hashes>> /\ phase' = "storing"
      BY <2>6 DEF Publish
    <3>5. SeenInOrder'
      BY <3>1, <3>2, <3>4 DEF SeenInOrder
    <3> QED
      BY <2>6, <3>3, <3>5 DEF Publish, LookedAt
  <2>7. ASSUME NEW p \in Positions, PublishFails(p) \/ Store(p)
        PROVE  BridgeTypeOK' /\ SeenInOrder' /\ LookedAt'
    BY <2>7 DEF PublishFails, Store, SeenInOrder, LookedAt
  <2>8. ASSUME NEW p \in Positions, PositionMoves(p)
        PROVE  BridgeTypeOK' /\ SeenInOrder' /\ LookedAt'
    <3>1. file' \in [Positions -> Contents \cup {Closed}]
      BY <2>8 DEF PositionMoves
    <3>2. file'[p] = Closed \/ file'[p] = file[p] + 1
      BY <2>8 DEF PositionMoves
    <3>3. \A q \in Positions \ {p} : file'[q] = file[q]
      BY <2>8 DEF PositionMoves
    <3>4. UNCHANGED <<hashes, told, phase, subject, todo, present>> /\ file[p] # Closed
      BY <2>8 DEF PositionMoves
    <3>5. SeenInOrder'
      BY <3>2, <3>3, <3>4 DEF SeenInOrder
    <3>6. LookedAt'
      BY <3>2, <3>3, <3>4 DEF LookedAt
    <3> QED
      BY <2>8, <3>1, <3>5, <3>6 DEF PositionMoves
  <2> QED
    BY <2>1, <2>2, <2>3, <2>4, <2>5, <2>6, <2>7, <2>8 DEF BridgeNext
<1> QED
  BY <1>1, <1>2, PTL DEF BridgeSpec

\* Types, whatever files, polls and restarts do.
THEOREM BridgeTypeCorrect == BridgeSpec => []BridgeTypeOK
<1>1. BridgeInv => BridgeTypeOK
  BY DEF BridgeInv
<1> QED
  BY <1>1, BridgeInvHolds, PTL

\* From one start to the next the bus is told of no content twice (_process_position and
\* the pruning at the end of a poll).
THEOREM ContentsAreToldOnce == BridgeSpec => []ToldOnce
<1>1. BridgeInv => ToldOnce
  BY BridgeAssumption DEF BridgeInv, BridgeTypeOK, SeenInOrder, ToldOnce, Contents
<1> QED
  BY <1>1, BridgeInvHolds, PTL

\* Names without a hash are of positions the store knew at the start.
LoadedWereKept == loaded \subseteq kept

\* What the bridge takes for seen the bus was told of, but for what it refused and for the
\* first change of what the store knew (_process_position).
THEOREM SeenWasTold == BridgeSpec => []SeenIsTold
<1> USE BridgeAssumption DEF Contents, Closed, Unknown, NoHash
<1>1. BridgeInit => SeenIsTold /\ LoadedWereKept
  BY DEF BridgeInit, SeenIsTold, LoadedWereKept
<1>2. BridgeTypeOK /\ SeenIsTold /\ LoadedWereKept /\ [BridgeNext]_bridgeVars =>
        (SeenIsTold /\ LoadedWereKept)'
  <2> SUFFICES ASSUME BridgeTypeOK, SeenIsTold, LoadedWereKept, [BridgeNext]_bridgeVars
               PROVE  SeenIsTold' /\ LoadedWereKept'
    OBVIOUS
  <2> USE DEF BridgeTypeOK, SeenIsTold, LoadedWereKept
  <2>1. CASE PollBegins \/ UNCHANGED bridgeVars
    BY <2>1 DEF PollBegins, bridgeVars
  <2>2. CASE Prune
    BY <2>2 DEF Prune
  <2>3. CASE BridgeRestarts
    BY <2>3 DEF BridgeRestarts
  <2>4. ASSUME NEW p \in Positions, Absent(p) \/ Unreadable(p)
        PROVE  SeenIsTold' /\ LoadedWereKept'
    BY <2>4 DEF Absent, Unreadable
  <2>5. ASSUME NEW p \in Positions, Look(p) PROVE SeenIsTold' /\ LoadedWereKept'
    <3>1. hashes' = [hashes EXCEPT ![p] = file[p]] /\ UNCHANGED <<told, missed, kept>>
      BY <2>5 DEF Look
    <3>2. CASE News(p)
      BY <2>5, <3>1, <3>2 DEF Look, Turns
    <3>3. CASE ~News(p)
      <4>1. hashes[p] \in Contents /\ (p \in kept \/ hashes[p] = file[p])
        BY <3>3 DEF News
      <4>2. phase = "looking" /\ UNCHANGED <<phase, subject>>
        BY <2>5, <3>3 DEF Look, Turns
      <4> QED
        BY <2>5, <3>1, <4>1, <4>2 DEF Look
    <3> QED
      BY <3>2, <3>3
  <2>6. ASSUME NEW p \in Positions, Publish(p) PROVE SeenIsTold' /\ LoadedWereKept'
    BY <2>6 DEF Publish
  <2>7. ASSUME NEW p \in Positions, PublishFails(p) PROVE SeenIsTold' /\ LoadedWereKept'
    BY <2>7 DEF PublishFails
  <2>8. ASSUME NEW p \in Positions, Store(p) \/ PositionMoves(p)
        PROVE  SeenIsTold' /\ LoadedWereKept'
    BY <2>8 DEF Store, PositionMoves
  <2> QED
    BY <2>1, <2>2, <2>3, <2>4, <2>5, <2>6, <2>7, <2>8 DEF BridgeNext
<1> QED
  BY <1>1, <1>2, BridgeTypeCorrect, PTL DEF BridgeSpec

-------------------------------------------------------------------------------
(* What the signal feed says it has earned.                                *)

LEMMA LessThan == OpToRel(<, Nat) = {ss \in Nat \X Nat : ss[1] < ss[2]}
  BY DEF OpToRel

\* A bounded set of integers has a maximum.
LEMMA MaxExists ==
  ASSUME NEW m \in Int, NEW n \in Int, NEW S, S \subseteq m..n, S # {}
  PROVE  Max(S) \in S /\ \A x \in S : x <= Max(S)
<1> DEFINE R == {ss \in Nat \X Nat : ss[1] < ss[2]}
           T == {n - x : x \in S}
<1>1. IsWellFoundedOn(R, Nat)
  BY NatLessThanWellFounded, LessThan
<1>2. T \subseteq Nat /\ T # {}
  <2>1. ASSUME NEW x \in S PROVE n - x \in Nat
    <3>1. x \in m..n
      OBVIOUS
    <3>2. QED
      BY <3>1
  <2>2. QED
    BY <2>1
<1>3. PICK t \in T : \A y \in T : ~(<<y, t>> \in R)
  BY <1>1, <1>2, WFMin
<1>4. \A y \in T : t <= y
  <2> SUFFICES ASSUME NEW y \in T, y < t PROVE FALSE
    BY <1>2
  <2>1. y \in Nat /\ t \in Nat
    BY <1>2
  <2>2. <<y, t>> \in R
    BY <2>1
  <2>3. QED
    BY <1>3, <2>2
<1>5. PICK x \in S : \A y \in S : x >= y
  BY <1>4
<1>6. QED
  BY <1>5 DEF Max

LEMMA LegParts ==
  /\ \A e \in Legs : e \in Writers /\ e[1] \in Signals /\ e[2] \in Sides /\ e = <<e[1], e[2]>>
  /\ \A w \in Writers : w[1] \in Signals
  /\ \A s \in Signals : <<s, "state">> \in Writers /\ <<s, "state">> \notin Legs
  /\ \A s \in Signals, side \in Sides : <<s, side>> \in Legs
  BY DEF Legs, Writers, Sides

\* The new cursor lies behind every fill that was found.
LEMMA AdvanceBounds ==
  ASSUME FeedTypeOK
  PROVE  /\ Advance \in NoCursor..MaxClock /\ cursor <= Advance
         /\ \A e \in Found : updated[e[1]] <= Advance
<1> DEFINE S == {cursor} \cup {updated[e[1]] : e \in Found}
<1>1. NoCursor \in Int /\ MaxClock \in Int
  BY FeedAssumption DEF NoCursor
<1>2. S \subseteq NoCursor..MaxClock /\ S # {}
  BY FeedAssumption, LegParts DEF FeedTypeOK, Found, NoCursor
<1>3. Max(S) \in S /\ \A x \in S : x <= Max(S)
  BY <1>1, <1>2, MaxExists
<1>4. Advance = Max(S)
  BY DEF Advance
<1>5. QED
  BY <1>2, <1>3, <1>4

\* A tick that is not at work has collected nothing.
Resting == tick \in {"sleeping", "collecting"} => got = {}

LEMMA TradeTypes ==
  ASSUME FeedTypeOK,
         \/ \E s \in Signals : StateChanges(s)
         \/ \E e \in Legs : LegAnswered(e) \/ LegStored(e) \/ LegTimesOut(e)
         \/ \E w \in Writers : Stamped(w)
  PROVE  /\ clock' \in 0..MaxClock
         /\ leg' \in [Legs -> {"pending", "filled", "lost"}]
         /\ trade' \in [Signals -> {"legs", "unwinding", "over"}]
         /\ taken' \in [Writers -> 0..MaxClock] /\ updated' \in [Signals -> 0..MaxClock]
         /\ UNCHANGED <<outcome, expired, cursor, tickVars, counted, first, unknown, slips>>
<1> USE FeedAssumption, LegParts DEF FeedTypeOK
<1>1. ASSUME NEW w \in Writers, Takes(w)
      PROVE  clock' \in 0..MaxClock /\ taken' \in [Writers -> 0..MaxClock]
  BY <1>1 DEF Takes
<1>2. ASSUME NEW s \in Signals, StateChanges(s)
      PROVE  clock' \in 0..MaxClock /\ taken' \in [Writers -> 0..MaxClock]
             /\ trade' \in [Signals -> {"legs", "unwinding", "over"}]
             /\ UNCHANGED <<outcome, expired, leg, updated, cursor, tickVars, counted, first,
                            unknown, slips>>
  BY <1>1, <1>2 DEF StateChanges
<1>3. ASSUME NEW e \in Legs, LegAnswered(e)
      PROVE  clock' \in 0..MaxClock /\ taken' \in [Writers -> 0..MaxClock]
             /\ UNCHANGED <<outcome, expired, leg, trade, updated, cursor, tickVars, counted,
                            first, unknown, slips>>
  BY <1>1, <1>3 DEF LegAnswered
<1>4. ASSUME NEW e \in Legs, LegStored(e) \/ LegTimesOut(e)
      PROVE  leg' \in [Legs -> {"pending", "filled", "lost"}]
             /\ taken' \in [Writers -> 0..MaxClock]
             /\ UNCHANGED <<outcome, expired, clock, trade, updated, cursor, tickVars, counted,
                            first, unknown, slips>>
  BY <1>4 DEF LegStored, LegTimesOut
<1>5. ASSUME NEW w \in Writers, Stamped(w)
      PROVE  taken' \in [Writers -> 0..MaxClock] /\ updated' \in [Signals -> 0..MaxClock]
             /\ UNCHANGED <<outcome, expired, clock, leg, trade, cursor, tickVars, counted,
                            first, unknown, slips>>
  BY <1>5 DEF Stamped
<1>6. QED
  BY <1>2, <1>3, <1>4, <1>5

LEMMA TickTypes ==
  ASSUME FeedTypeOK, Resting, TickStep
  PROVE  FeedTypeOK' /\ Resting'
<1>0. slips' \in 0..MaxSlips
  BY FeedAssumption
  DEF FeedTypeOK, TickStep, TickBegins, Collect, Price, MarkFilled, WriteRollup, Slip
<1>1. CASE TickBegins
  <2>1. outcome' \in [Signals -> {"absent", "open", "missed", "filled"}]
    BY <1>1 DEF TickBegins, FeedTypeOK
  <2>2. tick = "sleeping" /\ tick' = "collecting"
        /\ UNCHANGED <<expired, tradeVars, cursor, got, priced, worth, counted, first, unknown>>
    BY <1>1 DEF TickBegins
  <2>3. QED
    BY <1>0, <2>1, <2>2 DEF FeedTypeOK, Resting, tradeVars
<1>2. CASE Collect
  <2>1. got = {} /\ priced = {} /\ worth = {}
    BY <1>2 DEF Collect, Resting, FeedTypeOK
  <2>2. /\ tick' \in {"sleeping", "pricing"} /\ (tick' = "sleeping" => got' = {})
        /\ UNCHANGED <<outcome, expired, tradeVars, priced, worth, counted, unknown>>
    BY <1>2 DEF Collect
  <2>3. got' \subseteq Legs
    BY <1>2, <2>1 DEF Collect, Found
  <2>4. cursor' \in NoCursor..MaxClock
    BY <1>2, AdvanceBounds DEF Collect, FeedTypeOK
  <2>5. first' \in [Legs -> NoCursor..MaxClock]
    <3>1. \A e \in Legs : updated[e[1]] \in NoCursor..MaxClock
      BY FeedAssumption, LegParts DEF FeedTypeOK, NoCursor
    <3>2. CASE first' = first
      BY <3>2 DEF FeedTypeOK
    <3>3. CASE first' = [e \in Legs |-> IF e \in Found /\ first[e] = NoCursor
                                        THEN updated[e[1]] ELSE first[e]]
      BY <3>1, <3>3 DEF FeedTypeOK
    <3>4. QED
      BY <1>2, <3>2, <3>3 DEF Collect
  <2>6. QED
    BY <1>0, <2>1, <2>2, <2>3, <2>4, <2>5 DEF FeedTypeOK, Resting, tradeVars
<1>3. ASSUME NEW e \in Legs, Price(e) PROVE FeedTypeOK' /\ Resting'
  <2>1. /\ e \in got /\ priced' = priced \cup {e} /\ worth' \subseteq worth \cup {e}
        /\ unknown' \subseteq unknown \cup {e} /\ tick = "pricing"
        /\ UNCHANGED <<outcome, expired, tradeVars, cursor, tick, got, counted, first>>
    BY <1>3 DEF Price
  <2>2. QED
    BY <1>0, <2>1 DEF FeedTypeOK, Resting, tradeVars
<1>4. CASE MarkFilled
  <2>1. outcome' \in [Signals -> {"absent", "open", "missed", "filled"}]
    BY <1>4 DEF MarkFilled, FeedTypeOK
  <2>2. tick' = "rolling"
        /\ UNCHANGED <<expired, tradeVars, cursor, got, priced, worth, counted, first, unknown>>
    BY <1>4 DEF MarkFilled
  <2>3. QED
    BY <1>0, <2>1, <2>2 DEF FeedTypeOK, Resting, tradeVars
<1>5. CASE WriteRollup
  <2>1. Rolled \in [Legs -> 0..2]
    BY DEF Rolled, FeedTypeOK
  <2>2. counted' \in [Legs -> 0..2]
    BY <1>5, <2>1 DEF WriteRollup, FeedTypeOK
  <2>3. TickEnds /\ UNCHANGED <<outcome, expired, tradeVars, cursor, first, unknown>>
    BY <1>5 DEF WriteRollup
  <2>4. QED
    BY <1>0, <2>2, <2>3 DEF FeedTypeOK, Resting, tradeVars, TickEnds
<1>6. QED
  BY <1>1, <1>2, <1>3, <1>4, <1>5 DEF TickStep

LEMMA NextFeedTypes == FeedTypeOK /\ Resting /\ [FeedNext]_feedVars => FeedTypeOK' /\ Resting'
<1> SUFFICES ASSUME FeedTypeOK, Resting, [FeedNext]_feedVars PROVE FeedTypeOK' /\ Resting'
  OBVIOUS
<1>1. ASSUME NEW s \in Signals, Insert(s) \/ SignalExpires(s) PROVE FeedTypeOK' /\ Resting'
  BY <1>1 DEF Insert, SignalExpires, FeedTypeOK, Resting, tradeVars, tickVars
<1>2. ASSUME \/ \E s \in Signals : StateChanges(s)
             \/ \E e \in Legs : LegAnswered(e) \/ LegStored(e) \/ LegTimesOut(e)
             \/ \E w \in Writers : Stamped(w)
      PROVE  FeedTypeOK' /\ Resting'
  BY <1>2, TradeTypes DEF FeedTypeOK, Resting, tickVars
<1>3. CASE FeedRestarts
  <2>1. slips' \in 0..MaxSlips
    BY <1>3, FeedAssumption DEF FeedRestarts, Slip, FeedTypeOK
  <2>2. cursor' \in NoCursor..MaxClock /\ taken' \in [Writers -> 0..MaxClock]
    BY <1>3, FeedAssumption DEF FeedRestarts, NoCursor
  <2>3. /\ trade' \in [Signals -> {"legs", "unwinding", "over"}]
        /\ leg' \in [Legs -> {"pending", "filled", "lost"}]
    BY <1>3 DEF FeedRestarts, FeedTypeOK
  <2>4. QED
    BY <1>3, <2>1, <2>2, <2>3 DEF FeedRestarts, TickEnds, FeedTypeOK, Resting
<1>4. CASE UNCHANGED feedVars
  BY <1>4 DEF feedVars, FeedTypeOK, Resting, tradeVars, tickVars
<1>5. QED
  BY <1>1, <1>2, <1>3, <1>4, TickTypes DEF FeedNext

LEMMA InitFeedTypes == FeedInit => FeedTypeOK /\ Resting
  BY FeedAssumption, LegParts DEF FeedInit, FeedTypeOK, Resting, NoCursor

\* Types, with the cursor a time that somebody took.
THEOREM FeedTypeCorrect == FeedSpec => []FeedTypeOK
  BY InitFeedTypes, NextFeedTypes, PTL DEF FeedSpec

\* The rows of a trade are stamped one after the other once the first of its legs is over.
TradeInv(s) ==
  /\ updated[s] <= clock
  /\ \A w \in Writers : w[1] = s => taken[w] <= clock
  /\ taken[<<s, "state">>] > 0 => \A side \in Sides : LegOver(<<s, side>>)
  /\ updated[s] > 0 => \E side \in Sides : LegOver(<<s, side>>)

\* A trade that was updated after its fill was first collected is not stamped with an
\* earlier time again.
FirstInv(e) ==
  /\ first[e] <= clock
  /\ first[e] > 0 => updated[e[1]] > 0
  /\ first[e] # NoCursor /\ updated[e[1]] > first[e] =>
       \A w \in Writers : w[1] = e[1] => taken[w] = 0 \/ taken[w] > first[e]

StampInv == (\A s \in Signals : TradeInv(s)) /\ (\A e \in Legs : FirstInv(e))

\* A fill is in the rollups of the ticks that collected it, and was collected again only
\* behind the cursor.
RollupInv ==
  slips = 0 => \A e \in Legs :
    /\ first[e] <= cursor
    /\ e \in got => first[e] # NoCursor
    /\ e \in got /\ counted[e] > 0 => updated[e[1]] > first[e]
    /\ counted[e] > 1 => updated[e[1]] > first[e]
    /\ counted[e] > 0 => first[e] # NoCursor
    /\ first[e] # NoCursor => counted[e] > 0 \/ e \in unknown \/ e \in got
    /\ e \in priced => e \in worth \cup unknown
    /\ tick = "rolling" /\ e \in got => e \in priced

FeedInv == FeedTypeOK /\ Resting /\ StampInv /\ RollupInv

LEMMA InitFeedInv == FeedInit => StampInv /\ RollupInv
<1> SUFFICES ASSUME FeedInit PROVE StampInv /\ RollupInv
  OBVIOUS
<1>1. StampInv
  BY LegParts, FeedAssumption
  DEF FeedInit, StampInv, TradeInv, FirstInv, NoCursor
<1>2. RollupInv
  BY DEF FeedInit, RollupInv, NoCursor
<1>3. QED
  BY <1>1, <1>2

\* A leg that is over stays so.
LEMMA LegsStayOver ==
  ASSUME FeedTypeOK, [FeedNext]_feedVars, NEW e \in Legs, LegOver(e)
  PROVE  LegOver(e)'
<1> USE LegParts DEF LegOver, FeedTypeOK
<1>1. ASSUME NEW s \in Signals, StateChanges(s) PROVE LegOver(e)'
  BY <1>1 DEF StateChanges, Takes
<1>2. ASSUME NEW u \in Legs, LegAnswered(u) \/ LegStored(u) \/ LegTimesOut(u) PROVE LegOver(e)'
  BY <1>2 DEF LegAnswered, LegStored, LegTimesOut, Takes
<1>3. ASSUME NEW w \in Writers, Stamped(w) PROVE LegOver(e)'
  BY <1>3 DEF Stamped
<1>4. CASE FeedRestarts
  BY <1>4 DEF FeedRestarts
<1>5. CASE UNCHANGED tradeVars
  BY <1>5 DEF tradeVars
<1>6. ASSUME NEW s \in Signals, Insert(s) \/ SignalExpires(s) PROVE UNCHANGED tradeVars
  BY <1>6 DEF Insert, SignalExpires
<1>7. ASSUME TickStep PROVE UNCHANGED tradeVars
  BY <1>7 DEF TickStep, TickBegins, Collect, Price, MarkFilled, WriteRollup
<1>8. CASE UNCHANGED feedVars
  BY <1>5, <1>8 DEF feedVars
<1>9. QED
  BY <1>1, <1>2, <1>3, <1>4, <1>5, <1>6, <1>7, <1>8 DEF FeedNext

\* A writer takes its time: it is later than all before.
LEMMA TakesStamp ==
  ASSUME FeedTypeOK, StampInv, NEW w \in Writers, Takes(w), UNCHANGED <<updated, first>>,
         \A e \in Legs : LegOver(e) => LegOver(e)',
         \/ w \in Legs
         \/ \A side \in Sides : LegOver(<<w[1], side>>)
  PROVE  StampInv'
<1>0. /\ clock' = clock + 1 /\ clock \in Nat
      /\ \A v \in Writers : taken'[v] = IF v = w THEN clock + 1 ELSE taken[v]
      /\ \A v \in Writers : taken[v] \in Nat
      /\ \A s \in Signals : updated[s] \in Nat
      /\ \A e \in Legs : first[e] \in Int
  BY FeedAssumption DEF Takes, FeedTypeOK, NoCursor
<1>1. ASSUME NEW s \in Signals PROVE TradeInv(s)'
  <2>1. TradeInv(s)
    BY DEF StampInv
  <2>2. taken'[<<s, "state">>] > 0 => \A side \in Sides : LegOver(<<s, side>>)'
    <3>1. CASE w = <<s, "state">>
      BY <3>1, LegParts
    <3>2. CASE w # <<s, "state">>
      BY <1>0, <2>1, <3>2, LegParts DEF TradeInv
    <3>3. QED
      BY <3>1, <3>2
  <2>3. updated'[s] > 0 => \E side \in Sides : LegOver(<<s, side>>)'
    BY <2>1, LegParts DEF TradeInv
  <2>4. updated'[s] <= clock' /\ \A v \in Writers : v[1] = s => taken'[v] <= clock'
    BY <1>0, <2>1 DEF TradeInv
  <2>5. QED
    BY <2>2, <2>3, <2>4 DEF TradeInv
<1>2. ASSUME NEW e \in Legs PROVE FirstInv(e)'
  <2>1. FirstInv(e)
    BY DEF StampInv
  <2>2. QED
    BY <1>0, <2>1 DEF FirstInv
<1>3. QED
  BY <1>1, <1>2 DEF StampInv

\* An update that is dropped, or a row that is written without one.
LEMMA DropsStamp ==
  ASSUME FeedTypeOK, StampInv, UNCHANGED <<clock, updated, first>>,
         \A w \in Writers : taken'[w] \in {0, taken[w]},
         \A e \in Legs : LegOver(e) => LegOver(e)'
  PROVE  StampInv'
<1>0. /\ clock \in Nat /\ \A v \in Writers : taken[v] \in Nat
  BY FeedAssumption DEF FeedTypeOK
<1>1. ASSUME NEW s \in Signals PROVE TradeInv(s)'
  <2>1. TradeInv(s)
    BY DEF StampInv
  <2>2. taken'[<<s, "state">>] > 0 => \A side \in Sides : LegOver(<<s, side>>)'
    BY <1>0, <2>1, LegParts DEF TradeInv
  <2>3. updated'[s] > 0 => \E side \in Sides : LegOver(<<s, side>>)'
    BY <2>1, LegParts DEF TradeInv
  <2>4. updated'[s] <= clock' /\ \A v \in Writers : v[1] = s => taken'[v] <= clock'
    BY <1>0, <2>1 DEF TradeInv
  <2>5. QED
    BY <2>2, <2>3, <2>4 DEF TradeInv
<1>2. ASSUME NEW e \in Legs PROVE FirstInv(e)'
  <2>1. FirstInv(e)
    BY DEF StampInv
  <2>2. QED
    BY <1>0, <2>1 DEF FirstInv
<1>3. QED
  BY <1>1, <1>2 DEF StampInv

\* A stamp: once one leg is over, it is the only update of its trade under way.
LEMMA StampedStamp ==
  ASSUME FeedTypeOK, StampInv, NEW w \in Writers, Stamped(w),
         \A e \in Legs : LegOver(e) => LegOver(e)'
  PROVE  StampInv'
<1> DEFINE q == w[1]
<1>0. /\ w[1] \in Signals /\ clock' = clock /\ first' = first /\ leg' = leg
      /\ taken[w] > 0 /\ (w \in Legs => leg[w] # "pending")
      /\ \A s \in Signals : updated'[s] = IF s = q THEN taken[w] ELSE updated[s]
      /\ \A v \in Writers : taken'[v] = IF v = w THEN 0 ELSE taken[v]
      /\ clock \in Nat
      /\ \A v \in Writers : taken[v] \in Nat
      /\ \A s \in Signals : updated[s] \in Nat
      /\ \A e \in Legs : first[e] \in Int /\ first[e] >= NoCursor
  BY LegParts, FeedAssumption DEF Stamped, FeedTypeOK, NoCursor
<1>1. TradeInv(w[1])
  BY <1>0 DEF StampInv
<1>2. \E side \in Sides : LegOver(<<q, side>>)'
  <2>1. CASE w \in Legs
    BY <1>0, <2>1, LegParts DEF LegOver
  <2>2. CASE w \notin Legs
    <3>1. w = <<q, "state">>
      BY <2>2 DEF Writers, Legs
    <3>2. QED
      BY <1>0, <1>1, <3>1, LegParts DEF TradeInv, Sides
  <2>3. QED
    BY <2>1, <2>2
<1>3. updated[q] > 0 => \A v \in Writers : v[1] = q /\ v # w => taken[v] = 0
  <2> SUFFICES ASSUME updated[q] > 0, NEW v \in Writers, v[1] = q, v # w, taken[v] > 0
               PROVE  FALSE
    BY <1>0
  <2>1. PICK side \in Sides : LegOver(<<q, side>>)
    BY <1>1 DEF TradeInv
  <2>2. v # <<q, side>> /\ w # <<q, side>>
    BY <1>0, <2>1 DEF LegOver
  <2>3. v # <<q, "state">> /\ w # <<q, "state">>
    <3>1. \A u \in Writers : u[1] = q /\ u # <<q, "state">> => u \in Legs /\ u[2] \in Sides
                             /\ u = <<q, u[2]>>
      BY DEF Writers, Legs
    <3>2. ASSUME taken[<<q, "state">>] > 0, NEW u \in Legs, u[1] = q, taken[u] > 0 PROVE FALSE
      <4>1. LegOver(u)
        BY <1>1, <3>2, LegParts DEF TradeInv
      <4>2. QED
        BY <3>2, <4>1 DEF LegOver
    <3>3. QED
      BY <1>0, <3>1, <3>2
  <2>4. v = w
    BY <2>2, <2>3 DEF Writers, Sides
  <2>5. QED
    BY <2>4
<1>4. ASSUME NEW s \in Signals PROVE TradeInv(s)'
  <2>1. TradeInv(s)
    BY DEF StampInv
  <2>2. taken'[<<s, "state">>] > 0 => \A side \in Sides : LegOver(<<s, side>>)'
    BY <1>0, <2>1, LegParts DEF TradeInv
  <2>3. updated'[s] > 0 => \E side \in Sides : LegOver(<<s, side>>)'
    <3>1. CASE s = q
      BY <1>2, <3>1
    <3>2. CASE s # q
      BY <1>0, <2>1, <3>2, LegParts DEF TradeInv
    <3>3. QED
      BY <3>1, <3>2
  <2>4. updated'[s] <= clock' /\ \A v \in Writers : v[1] = s => taken'[v] <= clock'
    BY <1>0, <1>1, <2>1 DEF TradeInv
  <2>5. QED
    BY <2>2, <2>3, <2>4 DEF TradeInv
<1>5. ASSUME NEW e \in Legs PROVE FirstInv(e)'
  <2>1. FirstInv(e) /\ e[1] \in Signals
    BY LegParts DEF StampInv
  <2>2. CASE e[1] # q
    BY <1>0, <2>1, <2>2 DEF FirstInv
  <2>3. CASE e[1] = q
    <3>1. first'[e] <= clock' /\ (first'[e] > 0 => updated'[e[1]] > 0)
      BY <1>0, <2>1, <2>3 DEF FirstInv
    <3>2. ASSUME first[e] # NoCursor, NEW v \in Writers, v[1] = q
          PROVE  taken'[v] = 0 \/ taken'[v] > first[e]
      <4>1. CASE updated[q] > 0
        BY <1>0, <1>3, <3>2, <4>1
      <4>2. CASE updated[q] = 0
        <5>1. first[e] = 0
          BY <1>0, <2>1, <2>3, <3>2, <4>2 DEF FirstInv, NoCursor
        <5>2. QED
          BY <1>0, <5>1
      <4>3. QED
        BY <1>0, <4>1, <4>2
    <3>3. QED
      BY <1>0, <2>3, <3>1, <3>2 DEF FirstInv
  <2>4. QED
    BY <2>2, <2>3
<1>6. QED
  BY <1>4, <1>5 DEF StampInv

\* A fill is first collected with the time its trade has.
LEMMA CollectStamp ==
  ASSUME FeedTypeOK, StampInv, Collect
  PROVE  StampInv'
<1>0. /\ UNCHANGED <<clock, leg, trade, taken, updated>>
      /\ \A e \in Legs : first'[e] = first[e] \/ first'[e] = updated[e[1]]
  BY DEF Collect, FeedTypeOK, tradeVars
<1>1. \A s \in Signals : TradeInv(s)'
  BY <1>0 DEF StampInv, TradeInv, LegOver
<1>2. ASSUME NEW e \in Legs PROVE FirstInv(e)'
  <2>1. FirstInv(e) /\ TradeInv(e[1]) /\ updated[e[1]] \in Nat
    BY LegParts, FeedAssumption DEF StampInv, FeedTypeOK
  <2>2. QED
    BY <1>0, <2>1 DEF FirstInv, TradeInv
<1>3. QED
  BY <1>1, <1>2 DEF StampInv

LEMMA NextStamp ==
  ASSUME FeedTypeOK, StampInv, [FeedNext]_feedVars
  PROVE  StampInv'
<1>0. \A e \in Legs : LegOver(e) => LegOver(e)'
  BY LegsStayOver
<1>1. ASSUME NEW s \in Signals, StateChanges(s) PROVE StampInv'
  <2>1. /\ <<s, "state">> \in Writers /\ Takes(<<s, "state">>) /\ UNCHANGED <<updated, first>>
        /\ \A side \in Sides : LegOver(<<s, side>>)
    BY <1>1, LegParts DEF StateChanges
  <2>2. QED
    BY <1>0, <2>1, TakesStamp
<1>2. ASSUME NEW e \in Legs, LegAnswered(e) PROVE StampInv'
  BY <1>0, <1>2, TakesStamp, LegParts DEF LegAnswered
<1>3. ASSUME NEW e \in Legs, LegStored(e) \/ LegTimesOut(e) PROVE StampInv'
  <2>1. \A w \in Writers : taken'[w] \in {0, taken[w]}
    BY <1>3, LegParts DEF LegStored, LegTimesOut, FeedTypeOK
  <2>2. QED
    BY <1>0, <1>3, <2>1, DropsStamp DEF LegStored, LegTimesOut
<1>4. ASSUME NEW w \in Writers, Stamped(w) PROVE StampInv'
  BY <1>0, <1>4, StampedStamp
<1>5. CASE FeedRestarts
  BY <1>0, <1>5, DropsStamp DEF FeedRestarts
<1>6. ASSUME UNCHANGED <<tradeVars, first>> PROVE StampInv'
  BY <1>6 DEF tradeVars, StampInv, TradeInv, FirstInv, LegOver
<1>7. ASSUME NEW s \in Signals, Insert(s) \/ SignalExpires(s) PROVE UNCHANGED <<tradeVars, first>>
  BY <1>7 DEF Insert, SignalExpires
<1>8. ASSUME TickStep, ~Collect PROVE UNCHANGED <<tradeVars, first>>
  BY <1>8 DEF TickStep, TickBegins, Price, MarkFilled, WriteRollup
<1>9. CASE UNCHANGED feedVars
  BY <1>6, <1>9 DEF feedVars
<1>10. QED
  BY <1>1, <1>2, <1>3, <1>4, <1>5, <1>6, <1>7, <1>8, <1>9, CollectStamp DEF FeedNext

LEMMA SlipsGrow ==
  ASSUME FeedTypeOK, [FeedNext]_feedVars, slips' = 0
  PROVE  slips = 0 /\ ~FeedRestarts
<1>1. ~Slip /\ slips \in Nat
  BY FeedAssumption DEF Slip, FeedTypeOK
<1>2. QED
  BY <1>1 DEF FeedNext, Insert, SignalExpires, StateChanges, LegAnswered, LegStored, LegTimesOut,
     Stamped, TickStep, TickBegins, Collect, Price, MarkFilled, WriteRollup, FeedRestarts, feedVars

LEMMA NextRollup ==
  ASSUME FeedInv, [FeedNext]_feedVars
  PROVE  RollupInv'
<1> SUFFICES ASSUME slips' = 0 PROVE RollupInv'
  BY DEF RollupInv
<1>0. slips = 0 /\ ~FeedRestarts /\ ~Slip
  BY SlipsGrow, FeedAssumption DEF FeedInv, FeedTypeOK, Slip
<1> USE DEF FeedInv
<1>1. ASSUME UNCHANGED <<cursor, tickVars, counted, first, unknown>>,
             \A e \in Legs : first[e] # NoCursor /\ updated[e[1]] > first[e] =>
                               updated'[e[1]] > first[e]
      PROVE  RollupInv'
  <2>1. \A e \in Legs : counted[e] \in 0..2
    BY DEF FeedTypeOK
  <2>2. QED
    BY <1>0, <1>1, <2>1 DEF RollupInv, tickVars
<1>2. ASSUME NEW s \in Signals, Insert(s) \/ SignalExpires(s) \/ StateChanges(s) PROVE RollupInv'
  BY <1>1, <1>2 DEF Insert, SignalExpires, StateChanges, tradeVars
<1>3. ASSUME NEW e \in Legs, LegAnswered(e) \/ LegStored(e) \/ LegTimesOut(e) PROVE RollupInv'
  BY <1>1, <1>3 DEF LegAnswered, LegStored, LegTimesOut
<1>4. ASSUME NEW w \in Writers, Stamped(w) PROVE RollupInv'
  <2>1. ASSUME NEW e \in Legs, first[e] # NoCursor, updated[e[1]] > first[e]
        PROVE  updated'[e[1]] > first[e]
    <3>1. FirstInv(e) /\ taken[w] > 0 /\ updated' = [updated EXCEPT ![w[1]] = taken[w]]
      BY <1>4 DEF StampInv, Stamped
    <3>2. w[1] \in Signals /\ e[1] \in Signals
      BY LegParts
    <3>3. QED
      BY <2>1, <3>1, <3>2 DEF FirstInv, FeedTypeOK
  <2>2. QED
    BY <1>1, <1>4, <2>1 DEF Stamped
<1>5. CASE TickBegins
  <2>1. /\ tick' = "collecting"
        /\ UNCHANGED <<tradeVars, cursor, got, priced, worth, counted, first, unknown>>
    BY <1>5 DEF TickBegins
  <2>2. QED
    BY <1>0, <2>1 DEF RollupInv, tradeVars
<1>6. CASE Collect
  <2>1. got = {} /\ priced = {} /\ worth = {}
    BY <1>6 DEF Collect, Resting, FeedTypeOK
  <2>2. /\ got' = Found /\ cursor' = Advance /\ tick' # "rolling"
        /\ first' = [e \in Legs |-> IF e \in Found /\ first[e] = NoCursor THEN updated[e[1]]
                                    ELSE first[e]]
        /\ UNCHANGED <<tradeVars, priced, worth, counted, unknown>>
    BY <1>0, <1>6 DEF Collect
  <2>3. cursor <= Advance /\ (\A e \in Found : updated[e[1]] <= Advance) /\ Advance \in Int
    BY AdvanceBounds DEF NoCursor
  <2>4. SUFFICES ASSUME NEW e \in Legs
        PROVE  /\ first'[e] <= cursor'
               /\ e \in got' => first'[e] # NoCursor
               /\ e \in got' /\ counted[e] > 0 => updated[e[1]] > first'[e]
               /\ counted[e] > 1 => updated[e[1]] > first'[e]
               /\ counted[e] > 0 => first'[e] # NoCursor
               /\ first'[e] # NoCursor => counted[e] > 0 \/ e \in unknown \/ e \in got'
    BY <1>0, <2>1, <2>2 DEF RollupInv, tradeVars
  <2>5. /\ updated[e[1]] \in Nat /\ first[e] \in Int /\ cursor \in Int /\ counted[e] \in Nat
        /\ NoCursor = -1
    BY LegParts, FeedAssumption DEF FeedTypeOK, NoCursor
  <2>6. /\ first[e] <= cursor
        /\ counted[e] > 1 => updated[e[1]] > first[e]
        /\ counted[e] > 0 => first[e] # NoCursor
        /\ first[e] # NoCursor => counted[e] > 0 \/ e \in unknown
    BY <1>0, <2>1 DEF RollupInv
  <2>7. CASE e \in Found
    <3>1. updated[e[1]] > cursor
      BY <2>7 DEF Found
    <3>2. QED
      BY <2>2, <2>3, <2>5, <2>6, <2>7, <3>1
  <2>8. CASE e \notin Found
    BY <2>2, <2>3, <2>5, <2>6, <2>8
  <2>9. QED
    BY <2>7, <2>8
<1>7. ASSUME NEW e \in Legs, Price(e) PROVE RollupInv'
  <2>1. /\ tick = "pricing" /\ priced' = priced \cup {e}
        /\ worth \subseteq worth' /\ unknown \subseteq unknown' /\ e \in worth' \cup unknown'
        /\ UNCHANGED <<tradeVars, cursor, tick, got, counted, first>>
    BY <1>0, <1>7 DEF Price
  <2>2. QED
    BY <1>0, <2>1 DEF RollupInv, tradeVars
<1>8. CASE MarkFilled
  <2>1. /\ priced = got
        /\ UNCHANGED <<tradeVars, cursor, got, priced, worth, counted, first, unknown>>
    BY <1>8 DEF MarkFilled
  <2>2. QED
    BY <1>0, <2>1 DEF RollupInv, tradeVars
<1>9. CASE WriteRollup
  <2>1. /\ tick = "rolling" /\ got' = {} /\ priced' = {} /\ worth' = {} /\ counted' = Rolled
        /\ tick' = "sleeping" /\ UNCHANGED <<tradeVars, cursor, first, unknown>>
    BY <1>0, <1>9 DEF WriteRollup, TickEnds
  <2>2. SUFFICES ASSUME NEW e \in Legs
        PROVE  /\ counted'[e] > 1 => updated[e[1]] > first[e]
               /\ counted'[e] > 0 => first[e] # NoCursor
               /\ first[e] # NoCursor => counted'[e] > 0 \/ e \in unknown
    BY <1>0, <2>1 DEF RollupInv, tradeVars
  <2>3. /\ counted'[e] = IF e \in worth /\ counted[e] < 2 THEN counted[e] + 1 ELSE counted[e]
        /\ counted[e] \in 0..2 /\ (e \in worth => e \in got)
    BY <2>1 DEF Rolled, FeedTypeOK
  <2>4. QED
    BY <1>0, <2>1, <2>3 DEF RollupInv
<1>10. CASE UNCHANGED feedVars
  BY <1>1, <1>10 DEF feedVars, tradeVars
<1>11. QED
  BY <1>0, <1>2, <1>3, <1>4, <1>5, <1>6, <1>7, <1>8, <1>9, <1>10 DEF FeedNext, TickStep

LEMMA AlwaysFeedInv == FeedSpec => []FeedInv
<1>1. FeedInit => FeedInv
  BY InitFeedTypes, InitFeedInv DEF FeedInv
<1>2. FeedInv /\ [FeedNext]_feedVars => FeedInv'
  <2> SUFFICES ASSUME FeedInv, [FeedNext]_feedVars PROVE FeedInv'
    OBVIOUS
  <2>1. FeedTypeOK' /\ Resting'
    BY NextFeedTypes DEF FeedInv
  <2>2. StampInv'
    BY NextStamp DEF FeedInv
  <2>3. RollupInv'
    BY NextRollup
  <2>4. QED
    BY <2>1, <2>2, <2>3 DEF FeedInv
<1>3. QED
  BY <1>1, <1>2, PTL DEF FeedSpec

\* While the database answers and the process lives, a fill is counted twice only because
\* its trade was updated after it was collected, and is left out only because its signal
\* was inserted too late.
THEOREM RollupsAreExplained == FeedSpec => []RollupExplained
<1>1. FeedInv => RollupExplained
  BY DEF FeedInv, Resting, RollupInv, RollupExplained
<1>2. QED
  BY <1>1, AlwaysFeedInv, PTL

-------------------------------------------------------------------------------
(* Forecasts of miners, their windows and the rankings.                    *)

LEMMA BoundsAreNumbers == Collections \in Nat /\ MaxMishaps \in Nat
  BY MinerAssumption

LEMMA SlotsAreNumbers == Slots \subseteq Nat /\ 0 \notin Slots
  BY MinerAssumption DEF Slots

\* What a judgement cut short may leave in the records.
LEMMA SomeScoredIsPart ==
  ASSUME MinerTypeOK, SomeScored
  PROVE  \E w \in Slots, who \in SUBSET Miners :
           /\ Earliest(w) /\ who \subseteq forecasts[w]
           /\ records' = [records EXCEPT ![w] = records[w] \cup who]
           /\ records' \in [Slots -> SUBSET Miners]
  BY DEF SomeScored, MinerTypeOK

\* Types of the windows, the evaluator's progress, the rankings and the weights.
THEOREM MinerTypeCorrect == MinerSpec => []MinerTypeOK
<1>1. MinerInit => MinerTypeOK
  <2> SUFFICES ASSUME MinerInit PROVE MinerTypeOK
    OBVIOUS
  <2>1. NoWeights \in Weights /\ [m \in Miners |-> NoRow] \in [Miners -> Rows]
    BY DEF Weights, NoWeights, Rows
  <2>2. tally \in BOOLEAN /\ torn \in BOOLEAN /\ realized \in [Slots -> BOOLEAN]
    BY Zenon DEF MinerInit
  <2>3. collecting \in 0..Collections /\ misses \in 0..3 /\ mishaps \in 0..MaxMishaps
    BY BoundsAreNumbers DEF MinerInit
  <2>4. held \in Weights /\ chain \in Weights /\ ranking \in [Miners -> Rows]
    BY <2>1 DEF MinerInit
  <2>5. /\ forecasts \in [Slots -> SUBSET Miners] /\ records \in [Slots -> SUBSET Miners]
        /\ view \in [Slots -> {"none", "young", "due", "evaluated"}]
        /\ doing \in {"rest", "judging", "scoring", "marking", "ranking", "writing"}
        /\ ahead \in SUBSET Slots /\ left \in SUBSET Miners
        /\ inputs \in [Miners -> SUBSET Slots]
    BY DEF MinerInit
  <2> QED
    BY <2>2, <2>3, <2>4, <2>5 DEF MinerTypeOK
<1>2. MinerTypeOK /\ [MinerNext]_minerVars => MinerTypeOK'
  <2> SUFFICES ASSUME MinerTypeOK, [MinerNext]_minerVars PROVE MinerTypeOK'
    OBVIOUS
  <2> USE DEF MinerTypeOK, schedulerVars, passVars, refreshVars, setterVars
  <2>1. ASSUME NEW w \in Slots, CollectForecasts(w) PROVE MinerTypeOK'
    BY <2>1, BoundsAreNumbers DEF CollectForecasts, Slots
  <2>2. ASSUME NEW w \in Slots, CollectView(w) PROVE MinerTypeOK'
    BY <2>2, BoundsAreNumbers DEF CollectView
  <2>3. CASE CollectFails \/ Reconnect
    BY <2>3, BoundsAreNumbers DEF CollectFails, Reconnect
  <2>4. ASSUME NEW w \in Slots, Ripen(w) PROVE MinerTypeOK'
    BY <2>4 DEF Ripen
  <2>5. CASE PassBegins \/ PassEnds
    BY <2>5 DEF PassBegins, PassEnds, Pending
  <2>6. CASE ReadRollup
    <3>1. Rollup \in [Miners -> SUBSET Slots] /\ Scored \subseteq Miners
      BY DEF Rollup, Scored
    <3> QED
      BY <2>6, <3>1 DEF ReadRollup
  <2>7. CASE RefreshEnds \/ RefreshFails
    <3>1. mishaps' \in 0..MaxMishaps
      BY <2>7, BoundsAreNumbers DEF RefreshEnds, RefreshFails, Mishap
    <3> QED
      BY <2>7, <3>1 DEF RefreshEnds, RefreshFails
  <2>8. ASSUME NEW w \in Slots, TooFewBars(w) \/ Realize(w) \/ Score(w) \/ MarkEvaluated(w)
        PROVE  MinerTypeOK'
    <3>1. CASE Score(w)
      BY <3>1 DEF Score
    <3>2. CASE TooFewBars(w) \/ Realize(w) \/ MarkEvaluated(w)
      BY <3>2 DEF TooFewBars, Realize, MarkEvaluated
    <3> QED
      BY <2>8, <3>1, <3>2
  <2>9. ASSUME NEW w \in Slots, WindowFails(w) PROVE MinerTypeOK'
    <3>1. records' \in [Slots -> SUBSET Miners]
      BY <2>9, SomeScoredIsPart DEF WindowFails
    <3>2. torn' \in BOOLEAN
      BY <2>9, Zenon DEF WindowFails
    <3>3. view' \in [Slots -> {"none", "young", "due", "evaluated"}]
      BY <2>9 DEF WindowFails
    <3>4. mishaps' \in 0..MaxMishaps
      BY <2>9, BoundsAreNumbers DEF WindowFails, Mishap
    <3> QED
      BY <2>9, <3>1, <3>2, <3>3, <3>4 DEF WindowFails
  <2>10. ASSUME NEW m \in Miners, WriteRow(m) PROVE MinerTypeOK'
    BY <2>10 DEF WriteRow, Row, Rows
  <2>11. CASE ReadRankings \/ SetWeights
    <3>1. CASE ReadRankings
      <4>1. (doing = "writing" \/ torn) \in BOOLEAN
        OBVIOUS
      <4>2. held' \in Weights
        BY <3>1, <4>1 DEF ReadRankings, Weights
      <4> QED
        BY <3>1, <4>2 DEF ReadRankings
    <3>2. CASE SetWeights
      <4>1. NoWeights \in Weights
        BY DEF Weights, NoWeights, Rows
      <4> QED
        BY <3>2, <4>1 DEF SetWeights
    <3> QED
      BY <2>11, <3>1, <3>2
  <2>12. CASE MinersRestart
    <3>1. records' \in [Slots -> SUBSET Miners]
      BY <2>12, SomeScoredIsPart DEF MinersRestart
    <3>2. torn' \in BOOLEAN
      BY <2>12, Zenon DEF MinersRestart
    <3>3. held' \in Weights
      BY <2>12 DEF MinersRestart, Weights, NoWeights, Rows, NoRow
    <3>4. mishaps' \in 0..MaxMishaps /\ collecting' = 0 /\ misses' = 0
      BY <2>12, BoundsAreNumbers DEF MinersRestart, Mishap
    <3>5. doing' = "rest" /\ ahead' = {} /\ left' = {}
      BY <2>12 DEF MinersRestart
    <3>7. tally' \in BOOLEAN
      BY <2>12, Zenon DEF MinersRestart
    <3>6. UNCHANGED <<forecasts, view, realized, inputs, ranking, chain>>
      BY <2>12 DEF MinersRestart
    <3> QED
      BY <3>1, <3>2, <3>3, <3>4, <3>5, <3>6, <3>7, BoundsAreNumbers
  <2>13. CASE UNCHANGED minerVars
    BY <2>13 DEF minerVars
  <2> QED
    BY <2>1, <2>2, <2>3, <2>4, <2>5, <2>6, <2>7, <2>8, <2>9, <2>10, <2>11, <2>12, <2>13
    DEF MinerNext, Collects, EvaluatorStep
<1> QED
  BY <1>1, <1>2, PTL DEF MinerSpec

\* A window has records of those who answered it only, of all when it is marked, and none
\* before its view is there; the windows of a pass wait for their mark.
JudgeInv ==
  /\ collecting # 0 => view[collecting] = "none"
  /\ \A w \in Slots :
       /\ records[w] \subseteq forecasts[w]
       /\ view[w] = "none" => records[w] = {}
       /\ view[w] = "evaluated" => records[w] = forecasts[w]
       /\ w \in ahead => view[w] = "due"
       /\ doing = "marking" /\ Earliest(w) => records[w] = forecasts[w]

LEMMA JudgeHolds == MinerSpec => []JudgeInv
<1>1. MinerInit => JudgeInv
  BY DEF MinerInit, JudgeInv
<1>2. MinerTypeOK /\ JudgeInv /\ [MinerNext]_minerVars => JudgeInv'
  <2> SUFFICES ASSUME MinerTypeOK, JudgeInv, [MinerNext]_minerVars PROVE JudgeInv'
    OBVIOUS
  <2> USE SlotsAreNumbers DEF schedulerVars, passVars, refreshVars, setterVars
  <2>1. ASSUME NEW w \in Slots, CollectForecasts(w) PROVE JudgeInv'
    <3>1. records[w] = {} /\ view[w] = "none" /\ w \notin ahead
      BY <2>1 DEF CollectForecasts, Upcoming, JudgeInv
    <3> QED
      BY <2>1, <3>1 DEF CollectForecasts, JudgeInv, MinerTypeOK, Earliest
  <2>2. ASSUME NEW w \in Slots, CollectView(w) PROVE JudgeInv'
    <3>1. view[w] = "none" /\ w \notin ahead
      BY <2>2 DEF CollectView, JudgeInv
    <3> QED
      BY <2>2, <3>1 DEF CollectView, JudgeInv, MinerTypeOK, Earliest
  <2>3. CASE CollectFails \/ Reconnect
    BY <2>3 DEF CollectFails, Reconnect, JudgeInv, Earliest
  <2>4. ASSUME NEW w \in Slots, Ripen(w) PROVE JudgeInv'
    <3>1. w # collecting
      BY <2>4 DEF Ripen, JudgeInv
    <3> QED
      BY <2>4, <3>1 DEF Ripen, JudgeInv, MinerTypeOK, Earliest
  <2>5. CASE PassBegins \/ PassEnds \/ ReadRollup \/ RefreshEnds \/ RefreshFails
    BY <2>5 DEF PassBegins, PassEnds, ReadRollup, RefreshEnds, RefreshFails, Pending,
                JudgeInv, Earliest
  <2>6. ASSUME NEW w \in Slots, TooFewBars(w) \/ Realize(w) PROVE JudgeInv'
    BY <2>6 DEF TooFewBars, Realize, JudgeInv
  <2>7. ASSUME NEW w \in Slots, Score(w) PROVE JudgeInv'
    <3>1. view[w] = "due" /\ forecasts[w] \in SUBSET Miners
      BY <2>7 DEF Score, JudgeInv, Earliest, MinerTypeOK
    <3>2. records'[w] = forecasts[w] /\ \A v \in Slots \ {w} : records'[v] = records[v]
      BY <2>7 DEF Score, MinerTypeOK, JudgeInv
    <3>3. \A v \in Slots : Earliest(v)' => v = w
      <4> SUFFICES ASSUME NEW v \in Slots, Earliest(v)' PROVE v = w
        OBVIOUS
      <4>1. ahead' = ahead /\ Earliest(w)
        BY <2>7 DEF Score
      <4>2. v <= w /\ w <= v
        BY <4>1 DEF Earliest
      <4> QED
        BY <4>2
    <3> QED
      BY <2>7, <3>1, <3>2, <3>3 DEF Score, JudgeInv
  <2>8. ASSUME NEW w \in Slots, MarkEvaluated(w) PROVE JudgeInv'
    <3>1. view[w] = "due" /\ records[w] = forecasts[w]
      BY <2>8 DEF MarkEvaluated, JudgeInv, Earliest
    <3> QED
      BY <2>8, <3>1 DEF MarkEvaluated, JudgeInv, MinerTypeOK
  <2>9. ASSUME NEW w \in Slots, WindowFails(w) PROVE JudgeInv'
    <3>1. view[w] = "due" /\ (doing = "marking" => records[w] = forecasts[w])
      BY <2>9 DEF WindowFails, JudgeInv, Earliest
    <3>2. \A v \in Slots :
            /\ view'[v] = view[v] \/ (v = w /\ doing = "marking" /\ view'[v] = "evaluated")
            /\ records'[v] = records[v]
                 \/ (v = w /\ doing = "scoring" /\ records'[v] \subseteq forecasts[v])
      <4>1. \A v \in Slots :
              view'[v] = view[v] \/ (v = w /\ doing = "marking" /\ view'[v] = "evaluated")
        <5>1. view' = view \/ (doing = "marking" /\ view' = [view EXCEPT ![w] = "evaluated"])
          BY <2>9, Zenon DEF WindowFails
        <5> QED
          BY <5>1 DEF MinerTypeOK
      <4>2. CASE doing = "scoring"
        <5>1. PICK u \in Slots, who \in SUBSET Miners :
                /\ Earliest(u) /\ who \subseteq forecasts[u]
                /\ records' = [records EXCEPT ![u] = records[u] \cup who]
          BY <2>9, <4>2, SomeScoredIsPart DEF WindowFails
        <5>2. u = w
          BY <2>9, <5>1 DEF WindowFails, Earliest
        <5>3. records[w] \subseteq forecasts[w]
          BY DEF JudgeInv
        <5> QED
          BY <4>1, <4>2, <5>1, <5>2, <5>3 DEF MinerTypeOK
      <4>3. CASE doing # "scoring"
        <5>1. records' = records
          BY <2>9, <4>3, Zenon DEF WindowFails
        <5> QED
          BY <4>1, <5>1
      <4> QED
        BY <4>2, <4>3
    <3>3. collecting # w \/ collecting = 0
      BY <3>1 DEF JudgeInv
    <3>4. collecting' = collecting /\ forecasts' = forecasts /\ ahead' = ahead \ {w}
          /\ doing' = "judging"
      BY <2>9 DEF WindowFails
    <3>5. collecting \in Slots \cup {0}
      BY BoundsAreNumbers DEF MinerTypeOK, Slots
    <3> QED
      BY <3>1, <3>2, <3>3, <3>4, <3>5 DEF JudgeInv
  <2>10. ASSUME NEW m \in Miners, WriteRow(m) PROVE JudgeInv'
    BY <2>10 DEF WriteRow, JudgeInv, Earliest
  <2>11. CASE ReadRankings \/ SetWeights
    BY <2>11 DEF ReadRankings, SetWeights, JudgeInv, Earliest
  <2>12. CASE MinersRestart
    <3>1. \A v \in Slots :
            \/ records'[v] = records[v]
            \/ view[v] = "due" /\ records'[v] \subseteq forecasts[v]
      <4>1. CASE doing = "scoring"
        <5>1. PICK u \in Slots, who \in SUBSET Miners :
                /\ Earliest(u) /\ who \subseteq forecasts[u]
                /\ records' = [records EXCEPT ![u] = records[u] \cup who]
          BY <2>12, <4>1, SomeScoredIsPart DEF MinersRestart
        <5>2. records[u] \subseteq forecasts[u] /\ view[u] = "due"
          BY <5>1 DEF JudgeInv, Earliest
        <5>3. records'[u] = records[u] \cup who
          BY <5>1 DEF MinerTypeOK
        <5>4. \A v \in Slots \ {u} : records'[v] = records[v]
          BY <5>1 DEF MinerTypeOK
        <5> QED
          BY <5>1, <5>2, <5>3, <5>4
      <4>2. CASE doing # "scoring"
        <5>1. records' = records
          BY <2>12, <4>2, Zenon DEF MinersRestart
        <5> QED
          BY <5>1
      <4> QED
        BY <4>1, <4>2
    <3>2. collecting' = 0 /\ doing' = "rest" /\ ahead' = {} /\ UNCHANGED <<forecasts, view>>
      BY <2>12 DEF MinersRestart
    <3> QED
      BY <3>1, <3>2 DEF JudgeInv
  <2>13. CASE UNCHANGED minerVars
    BY <2>13 DEF minerVars, JudgeInv, Earliest
  <2> QED
    BY <2>1, <2>2, <2>3, <2>4, <2>5, <2>6, <2>7, <2>8, <2>9, <2>10, <2>11, <2>12, <2>13
    DEF MinerNext, Collects, EvaluatorStep
<1> QED
  BY <1>1, <1>2, MinerTypeCorrect, PTL DEF MinerSpec

\* The rankings count every record there is.
Current == \A m \in Miners : ranking[m] = IF m \in Scored THEN Rollup ELSE NoRow

\* Between refreshes the rankings are current as long as nothing is scored and nothing fails;
\* in one, those it has written are.
RankInv ==
  /\ \A m \in Miners : m \notin Scored => ranking[m] = NoRow
  /\ ~torn /\ (doing = "rest" \/ (doing \in {"judging", "scoring"} /\ ~tally)) => Current
  /\ doing = "writing" =>
       /\ inputs = Rollup /\ left \subseteq Scored
       /\ \A m \in Scored \ left : ranking[m] = Rollup

\* Without new records there is no new roll-up.
LEMMA SameRecords == records' = records => Rollup' = Rollup /\ Scored' = Scored
  BY DEF Rollup, Scored

LEMMA SameRanking ==
  ASSUME records' = records, ranking' = ranking
  PROVE  Current' <=> Current
  BY SameRecords DEF Current

\* Records are never taken away, nor does a miner lose its roll-up.
LEMMA RecordsGrow ==
  ASSUME MinerTypeOK, NEW w \in Slots, NEW who \in SUBSET Miners,
         records' = [records EXCEPT ![w] = records[w] \cup who]
  PROVE  Scored \subseteq Scored'
<1> SUFFICES ASSUME NEW m \in Scored PROVE m \in Scored'
  OBVIOUS
<1>1. PICK v \in Slots : m \in Miners /\ m \in records[v]
  BY DEF Scored, Rollup
<1>2. m \in records'[v]
  BY <1>1 DEF MinerTypeOK
<1> QED
  BY <1>1, <1>2 DEF Scored, Rollup

LEMMA RankHolds == MinerSpec => []RankInv
<1>1. MinerInit => RankInv
  <2> SUFFICES ASSUME MinerInit PROVE RankInv
    OBVIOUS
  <2>1. Scored = {}
    BY DEF MinerInit, Scored, Rollup
  <2> QED
    BY <2>1 DEF MinerInit, RankInv, Current
<1>2. MinerTypeOK /\ RankInv /\ [MinerNext]_minerVars => RankInv'
  <2> SUFFICES ASSUME MinerTypeOK, RankInv, [MinerNext]_minerVars PROVE RankInv'
    OBVIOUS
  <2> USE DEF schedulerVars, passVars, refreshVars, setterVars
  <2>1. ASSUME records' = records, ranking' = ranking,
               UNCHANGED <<doing, tally, inputs, left, torn>>
        PROVE  RankInv'
    BY <2>1, SameRecords, SameRanking DEF RankInv
  <2>2. ASSUME NEW w \in Slots, CollectForecasts(w) \/ CollectView(w) \/ Ripen(w)
        PROVE  RankInv'
    BY <2>1, <2>2 DEF CollectForecasts, CollectView, Ripen
  <2>3. CASE CollectFails \/ Reconnect \/ ReadRankings \/ SetWeights
    BY <2>1, <2>3 DEF CollectFails, Reconnect, ReadRankings, SetWeights
  <2>4. CASE PassBegins \/ PassEnds
    BY <2>4, SameRecords, SameRanking DEF PassBegins, PassEnds, RankInv
  <2>5. CASE ReadRollup
    BY <2>5, SameRecords, SameRanking DEF ReadRollup, RankInv
  <2>6. CASE RefreshEnds
    <3>1. Current
      BY <2>6 DEF RefreshEnds, RankInv, Current
    <3> QED
      BY <2>6, <3>1, SameRecords, SameRanking DEF RefreshEnds, RankInv
  <2>7. CASE RefreshFails
    BY <2>7, SameRecords, SameRanking DEF RefreshFails, RankInv
  <2>8. ASSUME NEW w \in Slots, TooFewBars(w) \/ Realize(w) \/ MarkEvaluated(w)
        PROVE  RankInv'
    BY <2>8, SameRecords, SameRanking DEF TooFewBars, Realize, MarkEvaluated, RankInv
  <2>9. ASSUME NEW w \in Slots, Score(w) PROVE RankInv'
    <3>1. Scored \subseteq Scored'
      BY <2>9, RecordsGrow DEF Score, MinerTypeOK
    <3> QED
      BY <2>9, <3>1 DEF Score, RankInv
  <2>10. ASSUME Scored \subseteq Scored', ranking' = ranking, torn', doing' # "writing"
         PROVE  RankInv'
    BY <2>10 DEF RankInv
  <2>11. SomeScored => Scored \subseteq Scored'
    BY SomeScoredIsPart, RecordsGrow
  <2>12. ASSUME NEW w \in Slots, WindowFails(w) PROVE RankInv'
    <3>1. /\ doing' = "judging" /\ ranking' = ranking /\ tally' = tally
          /\ doing \in {"judging", "scoring", "marking"}
      BY <2>12 DEF WindowFails
    <3>2. torn' = (torn \/ doing = "marking" \/ records' # records)
      BY <2>12 DEF WindowFails
    <3>3. CASE torn'
      <4>1. SomeScored \/ records' = records
        BY <2>12, Zenon DEF WindowFails
      <4> QED
        BY <3>1, <3>3, <4>1, <2>10, <2>11, SameRecords
    <3>4. CASE ~torn'
      BY <3>1, <3>2, <3>4, SameRecords, SameRanking DEF RankInv
    <3> QED
      BY <3>3, <3>4
  <2>13. ASSUME NEW m \in Miners, WriteRow(m) PROVE RankInv'
    <3>1. ranking' = [ranking EXCEPT ![m] = inputs] /\ left' = left \ {m} /\ m \in left
      BY <2>13 DEF WriteRow, Row
    <3>2. doing = "writing" /\ doing' = "writing" /\ records' = records /\ inputs' = inputs
      BY <2>13 DEF WriteRow
    <3>3. Rollup' = Rollup /\ Scored' = Scored /\ m \in Scored
      BY <3>1, <3>2, SameRecords DEF RankInv
    <3>4. ranking'[m] = Rollup /\ \A n \in Miners \ {m} : ranking'[n] = ranking[n]
      BY <3>1, <3>2 DEF RankInv, MinerTypeOK
    <3>5. Scored \subseteq Miners
      BY DEF Scored
    <3> QED
      BY <3>1, <3>2, <3>3, <3>4, <3>5 DEF RankInv
  <2>14. CASE MinersRestart
    <3>1. doing' = "rest" /\ ranking' = ranking
      BY <2>14 DEF MinersRestart
    <3>2. torn' = (torn \/ tally \/ doing \in {"marking", "ranking", "writing"}
                        \/ records' # records)
      BY <2>14 DEF MinersRestart
    <3>3. CASE torn'
      <4>1. SomeScored \/ records' = records
        BY <2>14, Zenon DEF MinersRestart
      <4> QED
        BY <3>1, <3>3, <4>1, <2>10, <2>11, SameRecords
    <3>4. CASE ~torn'
      BY <3>1, <3>2, <3>4, SameRecords, SameRanking DEF RankInv, MinerTypeOK
    <3> QED
      BY <3>3, <3>4
  <2>15. CASE UNCHANGED minerVars
    BY <2>1, <2>15 DEF minerVars
  <2> QED
    BY <2>2, <2>3, <2>4, <2>5, <2>6, <2>7, <2>8, <2>9, <2>12, <2>13, <2>14, <2>15
    DEF MinerNext, Collects, EvaluatorStep
<1> QED
  BY <1>1, <1>2, MinerTypeCorrect, PTL DEF MinerSpec

\* Judged windows have all their records, and at rest the rankings count them all unless a
\* failure came in between.
THEOREM JudgedAreRanked == MinerSpec => []JudgedIsRanked
<1>1. JudgeInv /\ RankInv => JudgedIsRanked
  BY DEF JudgeInv, RankInv, Current, JudgedIsRanked
<1> QED
  BY <1>1, JudgeHolds, RankHolds, PTL

\* What a refresh leaves is of one refresh, and so is what is read while none is at work.
OneInv ==
  /\ ~torn /\ doing # "writing" => OfOneRefresh(ranking)
  /\ held.amid \/ OfOneRefresh(held.rows)
  /\ chain.amid \/ OfOneRefresh(chain.rows)

\* Weights on the chain are of one refresh unless they were read in the midst of one.
THEOREM WeightsAreOfOne == MinerSpec => []WeightsOfOneRefresh
<1>1. MinerInit => OneInv
  BY DEF MinerInit, OneInv, OfOneRefresh, NoWeights
<1>2. MinerTypeOK /\ RankInv /\ OneInv /\ [MinerNext]_minerVars => OneInv'
  <2> SUFFICES ASSUME MinerTypeOK, RankInv, OneInv, [MinerNext]_minerVars PROVE OneInv'
    OBVIOUS
  <2> USE DEF schedulerVars, passVars, refreshVars, setterVars
  <2>1. ASSUME ranking' = ranking, held' = held, chain' = chain,
               ~torn' /\ doing' # "writing" => ~torn /\ doing # "writing"
        PROVE  OneInv'
    BY <2>1 DEF OneInv, OfOneRefresh
  <2>2. ASSUME NEW w \in Slots,
               \/ CollectForecasts(w) \/ CollectView(w) \/ Ripen(w)
               \/ TooFewBars(w) \/ Realize(w) \/ Score(w) \/ MarkEvaluated(w)
        PROVE  OneInv'
    BY <2>1, <2>2 DEF CollectForecasts, CollectView, Ripen, TooFewBars, Realize, Score,
                      MarkEvaluated
  <2>3. CASE CollectFails \/ Reconnect \/ PassBegins \/ PassEnds \/ ReadRollup \/ RefreshFails
    BY <2>1, <2>3 DEF CollectFails, Reconnect, PassBegins, PassEnds, ReadRollup, RefreshFails
  <2>4. CASE RefreshEnds
    <3>1. \A m \in Miners : ranking[m] = IF m \in Scored THEN Rollup ELSE NoRow
      BY <2>4 DEF RefreshEnds, RankInv
    <3>2. \A n \in Miners : Rollup[n] # {} => n \in Scored
      BY DEF Scored
    <3>3. OfOneRefresh(ranking)
      BY <3>1, <3>2 DEF OfOneRefresh
    <3> QED
      BY <2>4, <3>3 DEF RefreshEnds, OneInv, OfOneRefresh
  <2>5. ASSUME NEW w \in Slots, WindowFails(w) PROVE OneInv'
    <3>1. torn' = (torn \/ doing = "marking" \/ records' # records)
      BY <2>5 DEF WindowFails
    <3>2. /\ doing \in {"judging", "scoring", "marking"}
          /\ ranking' = ranking /\ held' = held /\ chain' = chain
      BY <2>5 DEF WindowFails
    <3> QED
      BY <2>1, <3>1, <3>2
  <2>6. ASSUME NEW m \in Miners, WriteRow(m) PROVE OneInv'
    BY <2>6 DEF WriteRow, OneInv, OfOneRefresh
  <2>7. CASE ReadRankings
    <3>1. held' = [rows |-> ranking, amid |-> doing = "writing" \/ torn]
      BY <2>7 DEF ReadRankings
    <3>2. held'.rows = ranking /\ (held'.amid <=> doing = "writing" \/ torn)
      BY <3>1
    <3>3. ranking' = ranking /\ chain' = chain /\ torn' = torn /\ doing' = doing
      BY <2>7 DEF ReadRankings
    <3> QED
      BY <3>2, <3>3 DEF OneInv, OfOneRefresh
  <2>8. CASE SetWeights
    <3>1. NoWeights.rows = [m \in Miners |-> NoRow]
      BY DEF NoWeights
    <3>2. OfOneRefresh(NoWeights.rows)
      BY <3>1 DEF OfOneRefresh
    <3>3. ranking' = ranking /\ held' = NoWeights /\ chain' \in {held, chain}
          /\ torn' = torn /\ doing' = doing
      BY <2>8 DEF SetWeights
    <3> QED
      BY <3>2, <3>3 DEF OneInv, OfOneRefresh
  <2>9. CASE MinersRestart
    <3>1. torn' = (torn \/ tally \/ doing \in {"marking", "ranking", "writing"}
                        \/ records' # records)
      BY <2>9 DEF MinersRestart
    <3>2. NoWeights.rows = [m \in Miners |-> NoRow]
      BY DEF NoWeights
    <3>3. OfOneRefresh(NoWeights.rows)
      BY <3>2 DEF OfOneRefresh
    <3>4. ranking' = ranking /\ held' = NoWeights /\ chain' = chain
      BY <2>9 DEF MinersRestart
    <3> QED
      BY <3>1, <3>3, <3>4 DEF OneInv, OfOneRefresh
  <2>10. CASE UNCHANGED minerVars
    BY <2>1, <2>10 DEF minerVars
  <2> QED
    BY <2>2, <2>3, <2>4, <2>5, <2>6, <2>7, <2>8, <2>9, <2>10
    DEF MinerNext, Collects, EvaluatorStep
<1>3. OneInv => WeightsOfOneRefresh
  BY DEF OneInv, WeightsOfOneRefresh
<1> QED
  BY <1>1, <1>2, <1>3, MinerTypeCorrect, RankHolds, PTL DEF MinerSpec

===============================================================================
