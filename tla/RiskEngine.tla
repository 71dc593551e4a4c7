------------------------------ MODULE RiskEngine ------------------------------
(***************************************************************************)
(* What stands between a trade and its order: the kill switch and the risk *)
(* rules.  RiskEngine.evaluate_order (src/trading/risk/engine.py) reads    *)
(* the switch in memory, then awaits its rules, of which                   *)
(* PortfolioDrawdownKillSwitch (src/trading/risk/rules.py) keeps a         *)
(* high-water mark and a trigger in the database                           *)
(* (src/trading/storage/portfolio_state.py).  POST /orders reads a copy of *)
(* the switch in Redis instead.  The copies are written one after the      *)
(* other by POST /risk/kill-switch (src/trading/api/routes/risk.py), and   *)
(* the one in memory by a rule.  Arbitrages read neither: POST             *)
(* /arb/execute (src/trading/api/routes/arbitrage.py) and ArbExecutor      *)
(* (src/trading/execution/arb_executor.py) place both legs of a spread     *)
(* whatever the switch says.  Orders over WhatsApp would read neither, but *)
(* no confirmation of one is ever carried out there.                       *)
(***************************************************************************)
EXTENDS Naturals

CONSTANTS
  Scans,     \* scans of agents that lead to an order
  Requests,  \* calls of POST /orders
  Arbitrages,  \* executions of a spread, by POST /arb/execute or by ArbExecutor
  Toggles,   \* calls of POST /risk/kill-switch
  Values,    \* net liquidation values of the portfolio
  MaxDrawdown,  \* max_drawdown_pct
  RiskFaults  \* what may go wrong

ASSUME RiskAssumption ==
  /\ Values \subseteq Nat \ {0}
  /\ MaxDrawdown \in 1..100
  /\ RiskFaults \subseteq {"redis", "store", "crash"}

Actors == Scans \cup Requests \cup Arbitrages \cup Toggles
ASSUME ActorAssumption ==
  /\ Scans \cap (Requests \cup Arbitrages \cup Toggles) = {}
  /\ Requests \cap (Arbitrages \cup Toggles) = {}
  /\ Arbitrages \cap Toggles = {}

VARIABLES
  wired,     \* the runner has a Redis client (the application gives it none)
  memory,    \* KillSwitch._enabled
  redis,     \* kill_switch:active
  stands,    \* where an actor stands
  wants,     \* what a toggle sets
  mark,      \* hwm, the local variable of a scan's evaluation
  row,       \* the row of portfolio_state
  halt,      \* history: the operator has halted trading, and not resumed since
  restarted, \* history: the process died since it was halted
  contested, \* history: toggles beside which trading was resumed
  under,     \* history: who began under a halt that has stood since
  behind     \* history: scans since whose read the row was written by another

switch == <<memory, redis>>
history == <<halt, restarted, contested, under, behind>>
riskVars == <<wired, switch, stands, wants, mark, row, history>>

Stands == {"idle", "scanned", "reading", "tripping", "saving", "passed",
       "cleared", "sending", "sent", "placed", "ended"}

\* triggered with a cooldown that runs, or is over, or not triggered.
Triggers == {"no", "cooling", "cooled"}
States == [mark : Values \cup {0}, trigger : Triggers]
NoState == [mark |-> 0, trigger |-> "no"]

RiskTypeOK ==
  /\ wired \in BOOLEAN /\ memory \in BOOLEAN /\ redis \in BOOLEAN
  /\ stands \in [Actors -> Stands]
  /\ wants \in [Toggles -> BOOLEAN]
  /\ mark \in [Scans -> Values \cup {0}]
  /\ row \in States
  /\ halt \in BOOLEAN /\ restarted \in BOOLEAN
  /\ contested \subseteq Toggles
  /\ under \subseteq Actors
  /\ behind \subseteq Scans

RiskInit ==
  /\ wired \in BOOLEAN /\ memory = FALSE /\ redis = FALSE
  /\ stands = [x \in Actors |-> "idle"]
  /\ wants = [t \in Toggles |-> FALSE]
  /\ mark = [s \in Scans |-> 0]
  /\ row \in {NoState} \cup [mark : Values, trigger : Triggers]
  /\ halt = FALSE /\ restarted = FALSE
  /\ contested = {} /\ under = {} /\ behind = {}

Moves(x, from, to) == stands[x] = from /\ stands' = [stands EXCEPT ![x] = to]
Begins(x) == under' = IF halt THEN under \cup {x} ELSE under \ {x}
Setting == {t \in Toggles : stands[t] \in {"sending", "sent"}}

-------------------------------------------------------------------------------
(* The switch and those who set it.                                        *)

\* Trading is resumed, by intent: whoever was under the halt no longer is.
Resumes ==
  /\ halt' = FALSE /\ under' = {}
  /\ contested' = contested \cup Setting

\* Mutant: the endpoint leaves the switch in memory to others.
ToggleMemoryMutant(t) ==
  /\ Moves(t, "idle", "sending")
  /\ \E on \in BOOLEAN :
       /\ wants' = [wants EXCEPT ![t] = on]
       /\ IF on THEN /\ UNCHANGED <<halt, under>>
                     /\ contested' = IF \E u \in Setting : ~wants[u]
                                     THEN contested \cup {t} ELSE contested
          ELSE Resumes
  /\ UNCHANGED <<wired, memory, redis, mark, row, restarted, behind>>

\* POST /risk/kill-switch: memory first.
ToggleMemory(t) ==
  /\ Moves(t, "idle", "sending")
  /\ \E on \in BOOLEAN :
       /\ wants' = [wants EXCEPT ![t] = on]
       /\ memory' = on
       /\ IF on THEN /\ UNCHANGED <<halt, under>>
                     /\ contested' = IF \E u \in Setting : ~wants[u]
                                     THEN contested \cup {t} ELSE contested
          ELSE Resumes
  /\ UNCHANGED <<wired, redis, mark, row, restarted, behind>>

\* Redis has its own order of arrival.
RedisSets(t) ==
  /\ Moves(t, "sending", "sent")
  /\ redis' = wants[t]
  /\ UNCHANGED <<wired, memory, wants, mark, row, history>>

\* The operator has an answer.
ToggleReturns(t) ==
  /\ Moves(t, "sent", "ended")
  /\ LET halts == wants[t] /\ t \notin contested
     IN /\ halt' = (halt \/ halts)
        /\ restarted' = (restarted /\ (halt \/ ~halts))
  /\ UNCHANGED <<wired, switch, wants, mark, row, contested, under, behind>>

\* The request fails, and the command may have arrived.
RedisFails(t) ==
  /\ "redis" \in RiskFaults
  /\ Moves(t, "sending", "ended")
  /\ redis' \in {redis, wants[t]}
  /\ UNCHANGED <<wired, memory, wants, mark, row, history>>

-------------------------------------------------------------------------------
(* Orders by request.                                                      *)

\* check_kill_switch.
Ask(r) ==
  /\ stands[r] = "idle"
  /\ stands' = [stands EXCEPT ![r] = IF redis THEN "ended" ELSE "cleared"]
  /\ Begins(r)
  /\ UNCHANGED <<wired, switch, wants, mark, row, halt, restarted, contested, behind>>

RequestPlaces(r) ==
  /\ Moves(r, "cleared", "placed")
  /\ UNCHANGED <<wired, switch, wants, mark, row, history>>

-------------------------------------------------------------------------------
(* Orders of an arbitrage.                                                 *)

\* The spread is claimed (SpreadClaims has how, and who else wants it); nothing is asked
\* of the switch.
ClaimSpread(a) ==
  /\ Moves(a, "idle", "cleared")
  /\ Begins(a)
  /\ UNCHANGED <<wired, switch, wants, mark, row, halt, restarted, contested, behind>>

\* execute_arbitrage sends the legs, and asks nothing either.
ExecuteArbitrage(a) ==
  /\ Moves(a, "cleared", "placed")
  /\ UNCHANGED <<wired, switch, wants, mark, row, history>>

-------------------------------------------------------------------------------
(* Orders of agents.                                                       *)

\* A runner with a Redis client skips the scan while trading is halted.
Scan(s) ==
  /\ stands[s] = "idle"
  /\ stands' = [stands EXCEPT ![s] = IF wired /\ redis THEN "ended" ELSE "scanned"]
  /\ Begins(s)
  /\ UNCHANGED <<wired, switch, wants, mark, row, halt, restarted, contested, behind>>

\* The switch in memory, then the rules.
Evaluate(s) ==
  /\ stands[s] = "scanned"
  /\ stands' = [stands EXCEPT ![s] = IF memory THEN "ended" ELSE "reading"]
  /\ UNCHANGED <<wired, switch, wants, mark, row, history>>

Peak(m, v) == IF v > m THEN v ELSE m
Drawn(m, v) == (m - v) * 100 >= MaxDrawdown * m

\* Mutant: the cooldown is not waited for.
JudgeMutant(s) ==
  /\ stands[s] = "reading"
  /\ \E v \in Values :
       LET peak == Peak(row.mark, v)
       IN /\ mark' = [mark EXCEPT ![s] = peak]
          /\ stands' = [stands EXCEPT ![s] = IF Drawn(peak, v) THEN "tripping" ELSE "saving"]
  /\ behind' = behind \ {s}
  /\ UNCHANGED <<wired, switch, wants, row, halt, restarted, contested, under>>

\* The row is read and the value judged by it.  While the cooldown runs nothing passes
\* and nothing is written.
Judge(s) ==
  /\ stands[s] = "reading"
  /\ \E v \in Values :
       LET peak == Peak(row.mark, v)
       IN IF row.trigger = "cooling" THEN Moves(s, "reading", "ended") /\ UNCHANGED mark
          ELSE /\ mark' = [mark EXCEPT ![s] = peak]
               /\ stands' = [stands EXCEPT ![s] = IF Drawn(peak, v) THEN "tripping" ELSE "saving"]
  /\ behind' = behind \ {s}
  /\ UNCHANGED <<wired, switch, wants, row, halt, restarted, contested, under>>

\* save_state writes the whole row.
Saved(s) == [mark |-> mark[s], trigger |-> IF stands[s] = "tripping" THEN "cooling" ELSE "no"]

Writes(s) ==
  /\ row' = Saved(s)
  /\ behind' = (behind \ {s}) \cup {u \in Scans \ {s} : stands[u] \in {"tripping", "saving"}}

Save(s) ==
  /\ \/ Moves(s, "tripping", "ended")
     \/ Moves(s, "saving", "passed")
  /\ Writes(s)
  /\ mark' = [mark EXCEPT ![s] = 0]
  /\ UNCHANGED <<wired, switch, wants, halt, restarted, contested, under>>

\* The exception leaves evaluate_order, and the scan with it.
StateFails(s) ==
  /\ "store" \in RiskFaults
  /\ \/ Moves(s, "reading", "ended") /\ UNCHANGED <<row, behind>>
     \/ /\ Moves(s, "tripping", "ended") \/ Moves(s, "saving", "ended")
        /\ Writes(s) \/ UNCHANGED <<row, behind>>
  /\ mark' = [mark EXCEPT ![s] = 0]
  /\ UNCHANGED <<wired, switch, wants, halt, restarted, contested, under>>

\* Another rule refuses; one whose action is kill_switch enables the switch.
RuleRefuses(s) ==
  /\ Moves(s, "passed", "ended")
  /\ memory' \in {memory, TRUE}
  /\ UNCHANGED <<wired, redis, wants, mark, row, history>>

\* Nobody looks at the switch again.
ScanPlaces(s) ==
  /\ Moves(s, "passed", "placed")
  /\ UNCHANGED <<wired, switch, wants, mark, row, history>>

-------------------------------------------------------------------------------
(* Time, and the process.                                                  *)

\* A day passes: no evaluation is that long.
Cools ==
  /\ row.trigger = "cooling"
  /\ \A s \in Scans : stands[s] \notin {"tripping", "saving"}
  /\ row' = [row EXCEPT !.trigger = "cooled"]
  /\ UNCHANGED <<wired, switch, stands, wants, mark, history>>

\* The switch in memory is what risk.yaml says: off.
ProcessDies ==
  /\ "crash" \in RiskFaults
  /\ \E x \in Actors : stands[x] # "idle"
  /\ memory' = FALSE
  /\ stands' = [x \in Actors |-> IF stands[x] \in {"idle", "placed"} THEN stands[x] ELSE "ended"]
  /\ mark' = [s \in Scans |-> 0]
  /\ restarted' = TRUE
  /\ behind' = {}
  /\ UNCHANGED <<wired, redis, wants, row, halt, contested, under>>

-------------------------------------------------------------------------------

ToggleStep(t) == ToggleMemory(t) \/ RedisSets(t) \/ ToggleReturns(t) \/ RedisFails(t)
RequestStep(r) == Ask(r) \/ RequestPlaces(r)
ArbitrageStep(a) == ClaimSpread(a) \/ ExecuteArbitrage(a)
ScanStep(s) ==
  \/ Scan(s) \/ Evaluate(s) \/ Judge(s) \/ Save(s) \/ StateFails(s)
  \/ RuleRefuses(s) \/ ScanPlaces(s)

AllEnded == (\A x \in Actors : stands[x] \in {"placed", "ended"}) /\ UNCHANGED riskVars

RiskNext ==
  \/ \E t \in Toggles : ToggleStep(t)
  \/ \E r \in Requests : RequestStep(r)
  \/ \E a \in Arbitrages : ArbitrageStep(a)
  \/ \E s \in Scans : ScanStep(s)
  \/ Cools \/ ProcessDies \/ AllEnded

RiskSpec == RiskInit /\ [][RiskNext]_riskVars

-------------------------------------------------------------------------------
(* Properties.                                                             *)

\* Once the operator's halt is answered, and no one resumed beside it, no agent and no
\* POST /orders that began under it orders, but agents after a restart when the runner has
\* no Redis client to see the halt with: then the switch in memory is off.  An arbitrage
\* begun under it does order: it reads no copy of the switch.
HaltHolds ==
  \A x \in under \ Arbitrages :
    stands[x] = "placed" => x \in Scans /\ restarted /\ ~wired

\* The kill switch "immediately halts all write operations (trades, orders, ...)"
\* (TERMS_FOR_AGENTS.md): nothing begun under an answered halt orders while the process
\* lives.
HaltStopsOrders == \A x \in under : stands[x] = "placed" => restarted

\* The high-water mark falls, and a trigger is taken back before it has cooled down, only
\* by the write of an evaluation that read the row before another wrote it.
RowHolds ==
  [][\/ row'.mark < row.mark
     \/ row.trigger = "cooling" /\ row'.trigger = "no"
     => \E s \in behind : stands[s] \in {"tripping", "saving"} /\ stands'[s] # stands[s]]_riskVars

===============================================================================
