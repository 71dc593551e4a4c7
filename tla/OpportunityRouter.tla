-------------------------- MODULE OpportunityRouter --------------------------
(***************************************************************************)
(* What becomes of an opportunity: OpportunityRouter.route and             *)
(* _try_execute (src/trading/agents/router.py), the gates an opportunity   *)
(* passes before its order is placed and the books kept after the reply,   *)
(* with the scans that produce opportunities (agents/runner.py and, for    *)
(* exits, strategies/exit_monitor.py).                                     *)
(*                                                                         *)
(* One action is what happens between two awaits that can be told apart.   *)
(* Several routes run at once, one per scan under way.                     *)
(***************************************************************************)
EXTENDS Naturals, FiniteSets

CONSTANTS
  Opps,     \* opportunities
  Agents,
  AgentOf,  \* who found an opportunity
  Level,    \* action_level of that agent
  Closes,   \* for an exit, the entry whose position it closes
  Replies,  \* what place_order can come to
  Journal,  \* is a JournalManager configured?
  Moves,    \* what others may change while routes run
  Unsteady, \* the agents whose health or shadow mode they change
  Faults    \* what may go wrong

Exits == DOMAIN Closes
Entries == Opps \ Exits

MoveKinds == {"health", "shadow", "kill"}
RouteFaults == {"store", "read", "slow", "cancel", "crash"}
Answers == {"filled", "working", "rejected"}  \* place_order returns a result
Raises == {"refused", "lost"}                 \* it raises: no order, or an order all the same

ASSUME OppAssumption ==
  /\ AgentOf \in [Opps -> Agents]
  /\ Level \in [Opps -> {"notify", "suggest_trade", "auto_execute"}]
  /\ Exits \subseteq Opps /\ \A e \in Exits : Closes[e] \in Entries
ASSUME VenueAssumption == Replies \subseteq Answers \cup Raises
ASSUME SettingAssumption ==
  /\ Journal \in BOOLEAN /\ Moves \subseteq MoveKinds /\ Unsteady \subseteq Agents
  /\ Faults \subseteq RouteFaults

VARIABLES
  pc,          \* where the route of an opportunity stands
  shadow,      \* the local shadow_mode of _try_execute
  refused,     \* history: the first gate that refused the opportunity
  row,         \* its status in the table opportunities
  shadowRow,   \* its row in the table of shadow executions
  trade,       \* opportunities with a row in the table of trades
  order,       \* its order at the venue
  pos,         \* the tracked position of an entry
  rules,       \* ExitManager._rules: entries whose exit rules are in memory
  saved,       \* entries whose exit rules are in the store
  cooling,     \* ExitMonitorAgent._exit_cooldown
  health,      \* strategy health of an agent
  shadowMode,  \* config.shadow_mode of an agent, FALSE once it is unregistered
  killed       \* KillSwitch._enabled

books == <<row, shadowRow, trade>>
exits == <<pos, rules, saved, cooling>>
world == <<health, shadowMode, killed>>
vars == <<pc, shadow, refused, books, order, exits, world>>

Gates == {"policy", "health", "ready", "adjust", "risk", "rules"}
Running == {"scanned", "placing", "recording", "trading", "tracking", "guarding",
            "finishing", "failing"} \cup Gates
Ended == {"done", "raised", "cut"}
Orders == {"none", "sent"} \cup Answers \cup Raises
Live == {"filled", "working", "lost"}

TypeOK ==
  /\ pc \in [Opps -> {"idle"} \cup Running \cup Ended]
  /\ shadow \in [Opps -> BOOLEAN]
  /\ refused \in [Opps -> {"no"} \cup Gates]
  /\ row \in [Opps -> {"none", "pending", "rejected", "executed"}]
  /\ shadowRow \in [Opps -> {"none", "allowed", "blocked"}]
  /\ trade \subseteq Opps
  /\ order \in [Opps -> Orders]
  /\ pos \in [Entries -> {"none", "open", "closed"}]
  /\ rules \subseteq Entries /\ saved \subseteq Entries /\ cooling \subseteq Entries
  /\ health \in [Agents -> {"normal", "throttled", "shadow_only", "retired"}]
  /\ shadowMode \in [Agents -> BOOLEAN]
  /\ killed \in BOOLEAN

Init ==
  /\ pc = [o \in Opps |-> "idle"]
  /\ shadow = [o \in Opps |-> FALSE]
  /\ refused = [o \in Opps |-> "no"]
  /\ row = [o \in Opps |-> "none"]
  /\ shadowRow = [o \in Opps |-> "none"]
  /\ trade = {}
  /\ order = [o \in Opps |-> "none"]
  /\ pos = [p \in Entries |-> "none"]
  /\ rules = {} /\ saved = {} /\ cooling = {}
  /\ health = [a \in Agents |-> "normal"]
  /\ shadowMode \in [Agents -> BOOLEAN]
  /\ killed = FALSE

Goto(o, from, to) == pc[o] = from /\ pc' = [pc EXCEPT ![o] = to]

-------------------------------------------------------------------------------
(* Scans.                                                                  *)

\* Mutant: the exit monitor forgets its cooldown.
TriggeredMutant(p) == pos[p] = "open" /\ p \in rules

\* An exit rule of the position fires, and none has in the last five minutes.
Triggered(p) == pos[p] = "open" /\ p \in rules \ cooling

\* A scan finds the opportunity.  The runner does not scan for a retired agent,
\* unless it cannot read its health.
Scan(o) ==
  /\ Goto(o, "idle", "scanned")
  /\ health[AgentOf[o]] \in {"normal", "throttled"} \/ "read" \in Faults
  /\ \/ o \in Entries /\ UNCHANGED cooling
     \/ o \in Exits /\ Triggered(Closes[o]) /\ cooling' = cooling \cup {Closes[o]}
  /\ UNCHANGED <<shadow, refused, books, order, pos, rules, saved, world>>

\* exit_cooldown_seconds pass.  They outlast the routes of the position's exits,
\* unless the venue is slow: nothing bounds place_order.
CooldownPasses(p) ==
  /\ p \in cooling
  /\ (\A e \in Exits : Closes[e] = p => pc[e] \notin Running) \/ "slow" \in Faults
  /\ cooling' = cooling \ {p}
  /\ UNCHANGED <<pc, shadow, refused, books, order, pos, rules, saved, world>>

\* The row is saved as pending; an experiment may keep the agent from going on.
Save(o) ==
  /\ Goto(o, "scanned", "policy") \/ Goto(o, "scanned", "done")
  /\ row' = [row EXCEPT ![o] = "pending"]
  /\ UNCHANGED <<shadow, refused, shadowRow, trade, order, exits, world>>

\* An exception leaves route: the runner ends the scan.
SaveFails(o) ==
  /\ "store" \in Faults
  /\ Goto(o, "scanned", "raised")
  /\ UNCHANGED <<shadow, refused, books, order, exits, world>>

-------------------------------------------------------------------------------
(* The gates.                                                              *)

Notes(o, gate) == refused' = [refused EXCEPT ![o] = IF @ = "no" THEN gate ELSE @]

\* The gate refuses the opportunity and the refusal is written, to the shadow
\* table or to the row (_finalize_pre_order_decision).
Refuses(o, gate, toShadow) ==
  /\ Goto(o, gate, "done")
  /\ Notes(o, gate)
  /\ IF toShadow
     THEN shadowRow' = [shadowRow EXCEPT ![o] = "blocked"] /\ UNCHANGED row
     ELSE row' = [row EXCEPT ![o] = "rejected"] /\ UNCHANGED shadowRow
  /\ UNCHANGED <<shadow, trade, order, exits>>

\* Writing it raises; the gate lets the exception go up or swallows it.
RefusalFails(o, gate, to) ==
  /\ "store" \in Faults
  /\ Goto(o, gate, to)
  /\ Notes(o, gate)
  /\ UNCHANGED <<shadow, books, order, exits>>

Passes(o, gate, to) ==
  /\ Goto(o, gate, to)
  /\ UNCHANGED <<shadow, refused, books, order, exits>>

\* The regime policy, whose refusal of an agent in shadow mode is a shadow row,
\* and the higher time frame, whose refusal never is.
PolicyRefuses(o) ==
  /\ \/ Refuses(o, "policy", FALSE)
     \/ Level[o] = "auto_execute" /\ shadowMode[AgentOf[o]] /\ Refuses(o, "policy", TRUE)
     \/ RefusalFails(o, "policy", "raised")
  /\ UNCHANGED world

\* The notifier is told; only auto_execute goes on.
PolicyPasses(o) ==
  /\ \/ Level[o] # "auto_execute" /\ Goto(o, "policy", "done") /\ UNCHANGED shadow
     \/ /\ Level[o] = "auto_execute" /\ Goto(o, "policy", "health")
        /\ shadow' = [shadow EXCEPT ![o] = shadowMode[AgentOf[o]]]
  /\ UNCHANGED <<refused, books, order, exits, world>>

\* Mutant: the return after the refusal of a retired agent is lost.
HealthGateMutant(o) ==
  /\ Goto(o, "health", "ready")
  /\ IF health[AgentOf[o]] = "retired"
     THEN Notes(o, "health") /\ row' = [row EXCEPT ![o] = "rejected"]
     ELSE UNCHANGED <<refused, row>>
  /\ UNCHANGED <<shadow, shadowRow, trade, order, exits, world>>

\* A retired agent is stopped, one in shadow_only is recorded as if in shadow
\* mode; whatever raises in here is logged, and the route proceeds.
HealthGate(o) ==
  /\ LET status == health[AgentOf[o]]
     IN \/ status = "retired" /\ Refuses(o, "health", shadow[o])
        \/ status = "shadow_only" /\ Refuses(o, "health", TRUE)
        \/ status \in {"retired", "shadow_only"} /\ RefusalFails(o, "health", "ready")
        \/ /\ status \in {"normal", "throttled"} \/ "read" \in Faults
           /\ Passes(o, "health", "ready")
  /\ UNCHANGED world

\* Mutant: a refusal that cannot be written is logged, and the route proceeds.
ReadyGateMutant(o) ==
  /\ \/ Passes(o, "ready", "adjust")
     \/ Refuses(o, "ready", shadow[o])
     \/ RefusalFails(o, "ready", "adjust")
  /\ UNCHANGED world

\* Broker, risk engine, suggested trade, account, quantity, quote, balance,
\* confidence calibration and position size; the reads of positions and balances
\* may raise.
ReadyGate(o) ==
  /\ \/ Passes(o, "ready", "adjust")
     \/ Refuses(o, "ready", shadow[o])
     \/ RefusalFails(o, "ready", "raised")
     \/ "read" \in Faults /\ Passes(o, "ready", "raised")
  /\ UNCHANGED world

\* Calibration and throttling scale an entry down, to nothing perhaps; whatever
\* raises in here is logged, and the route proceeds.
AdjustGate(o) ==
  /\ \/ Passes(o, "adjust", "risk")
     \/ o \in Entries /\ Refuses(o, "adjust", shadow[o])
     \/ o \in Entries /\ RefusalFails(o, "adjust", "risk")
  /\ UNCHANGED world

\* evaluate_order reads the kill switch, then awaits its rules one by one.
RiskGate(o) ==
  /\ \/ ~killed /\ Passes(o, "risk", "rules")
     \/ killed /\ Refuses(o, "risk", shadow[o])
     \/ killed /\ RefusalFails(o, "risk", "raised")
  /\ UNCHANGED world

\* A rule refuses, and one whose action is kill_switch enables the switch.
RulesRefuse(o) ==
  /\ \/ Refuses(o, "rules", shadow[o])
     \/ RefusalFails(o, "rules", "raised")
  /\ killed' \in {killed, killed \/ "kill" \in Moves}
  /\ UNCHANGED <<health, shadowMode>>

RulesRaise(o) ==
  /\ "read" \in Faults
  /\ Passes(o, "rules", "raised")
  /\ UNCHANGED world

\* The rules pass an opportunity in shadow mode: nothing is ordered.
RecordAllowed(o) ==
  /\ shadow[o]
  /\ \/ /\ Goto(o, "rules", "done")
        /\ shadowRow' = [shadowRow EXCEPT ![o] = "allowed"]
     \/ /\ "store" \in Faults /\ Goto(o, "rules", "raised")
        /\ UNCHANGED shadowRow
  /\ UNCHANGED <<shadow, refused, row, trade, order, exits, world>>

-------------------------------------------------------------------------------
(* The order.                                                              *)

\* Mutant: the final test of shadow_mode is lost.
PlaceOrderMutant(o) ==
  /\ Goto(o, "rules", "placing")
  /\ order' = [order EXCEPT ![o] = "sent"]
  /\ UNCHANGED <<shadow, refused, books, exits, world>>

\* Nothing is awaited from the last rule to place_order.
PlaceOrder(o) ==
  /\ ~shadow[o]
  /\ Goto(o, "rules", "placing")
  /\ order' = [order EXCEPT ![o] = "sent"]
  /\ UNCHANGED <<shadow, refused, books, exits, world>>

VenueActs(o) ==
  /\ \/ order[o] = "sent" /\ \E r \in Replies : order' = [order EXCEPT ![o] = r]
     \/ order[o] = "working" /\ order' = [order EXCEPT ![o] = "filled"]
  /\ UNCHANGED <<pc, shadow, refused, books, exits, world>>

\* Mutant: an exception of place_order is taken for a result.
ReplyMutant(o) ==
  /\ order[o] \in Answers \cup Raises /\ Goto(o, "placing", "recording")
  /\ UNCHANGED <<shadow, refused, books, order, exits, world>>

\* Mutant: an exception of place_order reaches nobody.
LostReplyMutant(o) ==
  /\ order[o] \in Answers /\ Goto(o, "placing", "recording")
  /\ UNCHANGED <<shadow, refused, books, order, exits, world>>

\* place_order returns, whatever the status of the order, or raises.
Reply(o) ==
  /\ \/ order[o] \in Answers /\ Goto(o, "placing", "recording")
     \/ order[o] \in Raises /\ Goto(o, "placing", "failing")
  /\ UNCHANGED <<shadow, refused, books, order, exits, world>>

\* Mutant: the trade is not saved.
SkipTradeMutant(o) ==
  /\ Goto(o, "recording", "tracking")
  /\ row' = [row EXCEPT ![o] = "executed"]
  /\ UNCHANGED <<shadow, refused, shadowRow, trade, order, exits, world>>

MarkExecuted(o) ==
  /\ Goto(o, "recording", "trading")
  /\ row' = [row EXCEPT ![o] = "executed"]
  /\ UNCHANGED <<shadow, refused, shadowRow, trade, order, exits, world>>

SaveTrade(o) ==
  /\ Goto(o, "trading", "tracking")
  /\ trade' = trade \cup {o}
  /\ UNCHANGED <<shadow, refused, row, shadowRow, order, exits, world>>

\* A failure of either write goes to the handler around place_order.
BookFails(o) ==
  /\ "store" \in Faults
  /\ Goto(o, "recording", "failing") \/ Goto(o, "trading", "failing")
  /\ UNCHANGED <<shadow, refused, books, order, exits, world>>

-------------------------------------------------------------------------------
(* Positions and exit rules.  A failure is logged, and the route proceeds. *)

\* record_entry and record_exit, whatever was filled.
Track(o) ==
  /\ Goto(o, "tracking", "guarding")
  /\ \/ o \in Entries /\ pos' = [pos EXCEPT ![o] = "open"]
     \/ o \in Exits /\ pos' = [pos EXCEPT ![Closes[o]] = "closed"]
  /\ UNCHANGED <<shadow, refused, books, order, rules, saved, cooling, world>>

\* An entry that is not tracked has no rules to attach.
TrackFails(o) ==
  /\ "store" \in Faults
  /\ \/ o \in Entries /\ Goto(o, "tracking", "finishing")
     \/ o \in Exits /\ Goto(o, "tracking", "guarding")
  /\ UNCHANGED <<shadow, refused, books, order, exits, world>>

\* Mutant: attach keeps the rules in memory only.
AttachMutant(o) ==
  /\ o \in Entries /\ Goto(o, "guarding", "finishing")
  /\ rules' = rules \cup {o}
  /\ UNCHANGED <<shadow, refused, books, order, pos, saved, cooling, world>>

\* ExitManager.attach: memory first, then the store.
Attach(o) ==
  /\ o \in Entries /\ Goto(o, "guarding", "finishing")
  /\ rules' = rules \cup {o}
  /\ \/ saved' = saved \cup {o}
     \/ "store" \in Faults /\ UNCHANGED saved
  /\ UNCHANGED <<shadow, refused, books, order, pos, cooling, world>>

\* ExitManager.detach.
Detach(o) ==
  /\ o \in Exits /\ Goto(o, "guarding", "finishing")
  /\ rules' = rules \ {Closes[o]}
  /\ \/ saved' = saved \ {Closes[o]}
     \/ "store" \in Faults /\ UNCHANGED saved
  /\ UNCHANGED <<shadow, refused, books, order, pos, cooling, world>>

\* Health is recomputed after an exit.  Without a journal the name asyncio is
\* unbound there, and the handler takes the exit.
Finish(o) ==
  /\ \/ (o \in Entries \/ Journal) /\ Goto(o, "finishing", "done")
     \/ o \in Exits /\ ~Journal /\ Goto(o, "finishing", "failing")
  /\ UNCHANGED <<shadow, refused, books, order, exits, world>>

\* The handler around place_order and all that follows it.
Fail(o) ==
  /\ \/ Goto(o, "failing", "done") /\ row' = [row EXCEPT ![o] = "rejected"]
     \/ "store" \in Faults /\ Goto(o, "failing", "raised") /\ UNCHANGED row
  /\ UNCHANGED <<shadow, refused, shadowRow, trade, order, exits, world>>

-------------------------------------------------------------------------------
(* Everyone else.                                                          *)

\* Health evaluations, the operator's override, tournament and trust.
HealthChanges(a) ==
  /\ "health" \in Moves
  /\ \E s \in {"normal", "throttled", "shadow_only", "retired"} \ {health[a]} :
       health' = [health EXCEPT ![a] = s]
  /\ UNCHANGED <<pc, shadow, refused, books, order, exits, shadowMode, killed>>

ShadowChanges(a) ==
  /\ "shadow" \in Moves
  /\ shadowMode' = [shadowMode EXCEPT ![a] = ~@]
  /\ UNCHANGED <<pc, shadow, refused, books, order, exits, health, killed>>

KillToggles ==
  /\ "kill" \in Moves
  /\ killed' = ~killed
  /\ UNCHANGED <<pc, shadow, refused, books, order, exits, health, shadowMode>>

\* stop_agent cancels the scan: CancelledError passes every handler.
Cancel(o) ==
  /\ "cancel" \in Faults
  /\ pc[o] \in Running /\ pc' = [pc EXCEPT ![o] = "cut"]
  /\ UNCHANGED <<shadow, refused, books, order, exits, world>>

\* The process dies and comes back: memory is lost, exit rules are loaded again.
Crash ==
  /\ "crash" \in Faults
  /\ \E o \in Opps : pc[o] \in Running
  /\ pc' = [o \in Opps |-> IF pc[o] \in Running THEN "cut" ELSE pc[o]]
  /\ rules' = saved
  /\ cooling' = {}
  /\ killed' = FALSE
  /\ UNCHANGED <<shadow, refused, books, order, pos, saved, health, shadowMode>>

-------------------------------------------------------------------------------

GateStep(o) ==
  \/ PolicyRefuses(o) \/ PolicyPasses(o) \/ HealthGate(o) \/ ReadyGate(o)
  \/ AdjustGate(o) \/ RiskGate(o) \/ RulesRefuse(o) \/ RulesRaise(o)
  \/ RecordAllowed(o) \/ PlaceOrder(o)

BookStep(o) ==
  \/ Reply(o) \/ MarkExecuted(o) \/ SaveTrade(o) \/ BookFails(o) \/ Track(o)
  \/ TrackFails(o) \/ Attach(o) \/ Detach(o) \/ Finish(o) \/ Fail(o)

RouteStep(o) == Save(o) \/ SaveFails(o) \/ GateStep(o) \/ BookStep(o)

OthersStep ==
  \/ \E a \in Unsteady : HealthChanges(a) \/ ShadowChanges(a)
  \/ \E o \in Opps : Cancel(o)
  \/ KillToggles \/ Crash

\* Nothing is under way: a scan that finds nothing.
Quiet == (\A o \in Opps : pc[o] \notin Running) /\ UNCHANGED vars

Next ==
  \/ \E o \in Opps : Scan(o) \/ RouteStep(o) \/ VenueActs(o)
  \/ \E p \in Entries : CooldownPasses(p)
  \/ OthersStep
  \/ Quiet

\* asyncio runs every task that is ready, and the venue answers in the end: a route
\* that waits for nothing else moves.
Fairness == \A o \in Opps : WF_vars(RouteStep(o) \/ VenueActs(o))

Spec == Init /\ [][Next]_vars
FairSpec == Spec /\ Fairness

-------------------------------------------------------------------------------
(* Properties.                                                             *)

\* An opportunity that _try_execute takes in shadow mode is never ordered,
\* whichever gate fails to write its refusal and swallows the failure.
ShadowPlacesNothing == \A o \in Opps : shadow[o] => order[o] = "none"

\* While every write succeeds, an opportunity one of the gates has refused is not
\* ordered by a later gate, and one table alone shows the refusal.
RefusalsHold ==
  \A o \in Opps : refused[o] # "no" =>
    /\ order[o] = "none" /\ pc[o] = "done" /\ o \notin trade
    /\ row[o] = "rejected" <=> shadowRow[o] # "blocked"

\* Even when writes and reads fail, what the policies, the preconditions, the kill
\* switch or a risk rule refuse is not ordered.
FirmRefusals ==
  \A o \in Opps : refused[o] \in {"policy", "ready", "risk", "rules"} => order[o] = "none"

\* While every write succeeds, the status of a finished opportunity tells whether there
\* is an order: executed with a trade and a position behind it, and rejected only when
\* the venue has nothing or its reply was lost.
OutcomeRecorded ==
  \A o \in Opps : pc[o] = "done" =>
    /\ order[o] \in Answers <=> row[o] = "executed"
    /\ row[o] = "executed" =>
         /\ o \in trade
         /\ o \in Entries => pos[o] # "none"
         /\ o \in Exits => pos[Closes[o]] = "closed"
    /\ row[o] = "rejected" => order[o] \in {"none", "refused", "lost"}

\* An open position has exit rules that survive a restart, however often the
\* process dies, once its entry's route has got to its end.
RulesSurvive ==
  \A p \in Entries : pc[p] = "done" /\ pos[p] = "open" => p \in rules \cap saved

\* A position is opened by an entry the venue has answered, and closed by an exit
\* it has answered.
PositionsHaveOrders ==
  \A p \in Entries :
    /\ pos[p] # "none" => order[p] \in Answers
    /\ pos[p] = "closed" => \E e \in Exits : Closes[e] = p /\ order[e] \in Answers

Selling(p) == {e \in Exits : Closes[e] = p /\ order[e] \in {"sent"} \cup Live}

\* The cooldown, the close and the detachment leave no gap between them for a second
\* exit: a position is sold twice only after an exit whose reply was lost, or whose
\* route a crash or a cancelled scan cut off.
SoldTwiceExplained ==
  \A p \in Entries : Cardinality(Selling(p)) > 1 =>
    \E e \in Selling(p) : pc[e] = "cut" \/ order[e] = "lost"

\* Every scan that finds an opportunity comes to the end of its route, whatever is
\* refused and whichever writes fail.
RoutesEnd == \A o \in Opps : pc[o] \in Running ~> pc[o] \in Ended

==============================================================================
