# Formal models of the trading engine

TLA+ modules, TLC runs and TLAPS proofs for the trading engine of this repository
(`src/trading`). Paths below are relative to `src/trading/` unless they begin with
`src/`.

## 1. The system

The engine runs in one Python process: a FastAPI application whose asyncio event loop
also runs the trading agents and the background services (`api/app.py`). Concurrency is
therefore cooperative: a coroutine runs undisturbed from one `await` to the next, and
anything may happen at an `await`. State lives in four places: objects in memory, lost
when the process ends; a SQL database (SQLite or Postgres; `storage/`), where each
statement commits by itself on Postgres (`storage/postgres.py` has a no-op `commit`);
Redis, for a few flags and streams; and the venues (brokers), which keep orders and
positions and answer late, or not at all.

### Inventory

| Component | State it keeps | Operations | What is hard |
|---|---|---|---|
| Agent runner (`agents/runner.py`) | agents, tasks, status, fingerprints of the registry | start, stop, run once, scan, reconcile with the registry every minute | stop while a scan is routing, a loop that dies of its schedule, two scans of one agent, an opportunity that raises loses the rest of its scan |
| Opportunity router (`agents/router.py`) | none; rows of `opportunities`, trades, tracked positions, exit rules | route, the chain of gates, place the order, record what came of it | a dozen awaits between the first gate and the order; handlers that swallow an exception and go on; records written after the order |
| Consensus router (`agents/router.py`, `agents/consensus.py`) | votes, in memory or in `consensus_votes` | vote, count, clear, raise to AUTO_EXECUTE | votes added and cleared between another's write and read |
| Risk engine, kill switch, rules (`risk/`) | kill flags in memory, a copy in Redis, high-water mark in the database | evaluate an order, trigger, toggle | flag checked before an await and used after; copies of one flag; arbitrages ask none of them |
| Arbitrage: scan, bus, claims (`strategies/cross_platform_arb.py`, `data/events.py`, `storage/spreads.py`, `execution/arb_executor.py`, `api/routes/arbitrage.py`) | `arb_spread_observations` with `is_claimed`, queues, set of active pairs | record, publish, claim, release, execute | two kinds of client race for one spread; crash while claimed; a full queue |
| Arbitrage coordinator (`execution/arbitrage.py`, `storage/arbitrage.py`) | trade and legs in memory, rows in `arb_trades` and `arb_legs`, orders at two venues | execute, unwind, journal | one leg fills alone; a timed-out order fills later; a failed write loses a decision |
| Strategy health (`learning/strategy_health.py`) | `strategy_health` rows: status, override, cooldown | evaluate, transition, override | read, await, write, against an operator's override |
| Exits (`exits/`, `strategies/exit_monitor.py`) | exit rules in memory and in the database, cooldowns | attach, check, detach, resolve | rules detached although the exit failed; trailing marks lost in a restart |
| Provider circuit breaker (`risk/circuit_breaker.py`) | state, counters, time of the last failure | enter, record success or failure, reset | calls let in before the circuit opened end after it |
| Paper venues (`broker/paper.py`, `adapters/*/paper.py`, `storage/paper.py`, `exits/resolution_tracker.py`) | positions, cash, orders | fill, resolve, settle | read-modify-write across awaits; one transaction shared by all tasks |
| Language models (`llm/client.py`, `llm/cost_ledger.py`) | cost of the day and grace deadline in Redis, a sum in memory, failures of a provider | resolve the chain, ask, record the cost | two keys with two lives; a call that checked before another recorded |
| Shadow executions (`execution/shadow.py`, `storage/shadow.py`, `data/bus.py`) | rows that wait for their outcome, a cache of bars | record, resolve when due | late or missing bars decide a row for good; one bad row stops a sweep |
| Signal feed (`feeds/publisher.py`, `feeds/pnl_attribution.py`) | signals with outcomes, a cursor, rollups | publish, attribute fills, roll up | a signal, its fills and the cursor are written by three tasks |
| Bittensor bridge (`integrations/bittensor/taoshi_bridge.py`) | positions seen, in memory and in the database | poll, compare, emit | what is emitted after a restart |
| Bittensor windows (`scheduler.py`, `evaluator.py`, `weight_setter.py` of `integrations/bittensor/`) | forecasts, views, realized windows, records, rankings, weights on the chain | collect, judge, rank, submit | a judgement cut short between two tables; weights read while rankings are written |
| Signal bus, event bus, streams (`data/signal_bus.py`, `data/events.py`, `events/`) | subscribers, bounded queues, Redis streams | publish, consume, acknowledge | slow subscriber, redelivery |
| Trust, slippage, tournament, competition (`execution/feedback.py`, `tournament/`, `competition/`) | levels, stages, ratings | promote, demote, settle | two writers of one level |
| WhatsApp (`whatsapp/`) | pending confirmations | create, confirm, cancel, act | a confirmation that expires or is replaced |

The remaining parts (section 6, and with its reason each in `PROJECT.json`) keep no
state that interacts with the above, or are input and output.

### What makes each of them correct

| Component | It is correct when |
|---|---|
| Opportunity router | what a gate refuses is not ordered; shadow mode orders nothing; status, trade, position and exit rules agree with what the venue has; a position is sold once; every route ends |
| Consensus router | an opportunity is raised to AUTO_EXECUTE on the votes of enough distinct agents, and a vote counts for one elevation |
| Kill switch | no agent and no `POST /orders` that begins under an answered halt orders, unless trading was resumed beside it (arbitrages do: they read no copy of the switch) |
| Arbitrage claims | one client trades an observation at a time; a claim is never stuck |
| Arbitrage coordinator | both legs or none, and the recorded state says which; orders are journaled first; every call ends |
| Strategy health | the operator's override stands until it is lifted; a cooldown is waited for |
| Portfolio drawdown | the high-water mark never falls; a trigger holds for its cooldown |
| Agent runner | every loop that runs is the runner's own; the agent runs by its row of the registry, unless its loop has died |
| Circuit breaker | an open circuit tries again after its timeout, and closes once the provider is back |
| Paper venues | positions and cash are the sum of the fills that were answered; a resolved position is settled |
| Language models | paid providers are blocked once the ceiling is reached and the grace is over, and not before; no block is for ever |
| Shadow executions | each row is resolved at the first bar that is due, or given up, in the end |
| Signal feed | each fill of a signal is in one rollup |
| Bittensor bridge | each change is emitted once, across restarts |
| Bittensor windows | each window collected is judged and counted in the ranking; the weights are of one ranking |
| Streams | each message is handled or parked |
| WhatsApp | an action is done at most once, and only the one the operator was shown |
| Trust, tournament, competition | a level is what the latest judgement says; a match is rated once |

### How the arbitrage path works

    scan --record--> arb_spread_observations
      |                    ^  claim_spread / release_spread
      +--publish--> EventBus queue --> ArbExecutor --+
                                                     +--> ArbCoordinator --> two brokers
             POST /arb/execute ----------------------+         |
                                                     arb_trades, arb_legs

The scan records each gap between a Kalshi and a Polymarket market and publishes those
above a threshold. `ArbExecutor` takes the events one by one; any number of HTTP
requests run beside it. Both claim the observation first and then call
`execute_arbitrage`, which sends both legs at once and, when just one succeeds, closes
it with an opposite market order.

### How an opportunity becomes a position

    runner / exit monitor --scan--> ConsensusRouter --> OpportunityRouter.route
      save the row, policies, [auto_execute only:] health, preconditions,
      calibration and throttling, kill switch, risk rules
        |-- shadow mode: a row of shadow_executions
        `-- place_order --> status, trade, tracked position, exit rules
                                             |
      exit monitor <-- triggered rule -------+   (the exit takes the same way)

### How the other parts meet these paths

The runner's scans start every route; what the registry says of an agent reaches it
through the runner's reconciliation. Strategy health, the kill switch and shadow mode
are read by a route at its gates and changed by others at any time, which is how
`OpportunityRouter` models them (`HealthChanges`, `KillToggles`, `ShadowChanges`); the
modules of those components say when they change. A closed trade starts an evaluation of
health; a refused or shadowed order leaves a row for the resolver of shadow executions;
a filled arbitrage leg is what the signal feed attributes. No small module writes what
another one reads, and the feed, which reads the tables of the arbitrage, models their
writers itself: so each is checked alone.

## 2. The modules

| Module | What it is |
|---|---|
| `DualLeg` | abstract: what a dual-leg trade promises |
| `ArbCoordinator` | `execute_arbitrage` await by await, the store it writes, the two venues |
| `SpreadClaims` | claims on observations, the executor and the requests that take them |
| `OpportunityRouter` | `route` and `_try_execute` from the scan to the end of the books, for entries and exits |
| `VoteQuorum` | abstract: what a consensus promises |
| `ConsensusRouter` | the votes, in memory or in the table, and who is raised on them |
| `RiskEngine` | the kill switch with its copies, its writers and readers, and the drawdown rule with its row |
| `StrategyHealth` | evaluations and overrides of one strategy's row |
| `TaoshiBridge` | the poll of positions, what it remembers and tells |
| `FeedAttribution` | signals, the fills of their trades, the tick that attributes them |
| `PaperLedger` | fills and settlements on one position and one account |
| `CircuitBreaker` | one breaker and the calls through it |
| `LlmBudget` | the ceiling on what language models cost, and the calls that go by it |
| `ShadowBook` | how shadow executions end |
| `MinerWindows` | forecasts of miners, from their collection to the weights on the chain |
| `AgentRunner` | one agent: its loops, the requests, the reconciliation with the registry |
| `MCArbCoordinator`, `MCSpreadClaims`, `MCOpportunityRouter` | values for TLC |
| `MCDesk` | `ConsensusRouter`, `RiskEngine`, `StrategyHealth`, `TaoshiBridge` and `FeedAttribution` side by side, with values |
| `MCBooks` | `PaperLedger`, `CircuitBreaker`, `LlmBudget` and `ShadowBook` side by side, with values |
| `MCArbMiners` | `ArbCoordinator` and `MinerWindows` side by side |
| `MCArbClaims` | `ArbCoordinator` and `SpreadClaims` side by side |
| `ArbCoordinatorProofs`, `ArbPromiseProofs` | the coordinator whatever fails; it implements `DualLeg` in an honest world |
| `SpreadClaimsProofs` | mutual exclusion of claims, and what breaks it |
| `OpportunityRouterProofs` | shadow mode, refusals, positions, records and exit rules |
| `ConsensusProofs` | quorums, spent votes, and when the votes implement `VoteQuorum` |
| `AgentRunnerProofs` | the loops and the fingerprint |
| `DeskProofs` | `RiskEngine`, `StrategyHealth`, `TaoshiBridge`, `FeedAttribution`, `MinerWindows` |
| `BooksProofs` | `PaperLedger`, `CircuitBreaker`, `LlmBudget`, `ShadowBook` |

`MCDesk`, `MCBooks`, `MCArbMiners` and `MCArbClaims` are sums of components that share
no state: the variable `part` says at the start which of them a behaviour is of, and the
others stay as they begin. One run then checks several, at the sum of their sizes and
not at the product.

Operators named `...Mutant` are no part of a specification: each is a mistake one could
make in the definition after it, and shows that a property would notice.

### ArbCoordinator

One call per trade in `Trades`. `pc` is the await at which the call stands and `legpc`
the same for each `_execute_leg` inside `gather`. `state` and `known` are `trade.state`
and `leg.fill_quantity > 0` in memory; `row` and `legrow` are the columns in
`arb_trades` and `arb_legs`; `order` and `closing` are the orders as the venues have
them, which the code sees only through the reply. An order whose caller timed out stays
at the venue and may fill.

A write that fails may have been applied: `save_trade` is three statements and
`update_leg_atomic` two, each committed by itself, so every prefix may be in.
`LegReplies` and `UnwindReplies` say what the venues may answer, `Faults` which of
timeouts, failed writes, a crash and a missing broker may happen.

Three things the code does that a reader of the model may not expect: a SUBMITTED order
that rests at the venue counts as filled in full; after an unwind the row moves on and
`trade.state` stays UNWINDING in memory; and a leg reported filled with nothing is not
unwound, its row stays `unwinding`. The live brokers the application wires raise on the
MarketOrder of an unwind, and the paper brokers reject it. `api/app.py` builds two
coordinators (lines 1128 and 1738); they share only the tables, and no trade is in both.

### SpreadClaims

A client (a request, or the executor) goes through the claim, the read of the row, the
trade and the release. The trade itself is one stage here: the claim covers it whole,
and `ArbCoordinator` is what goes on in it. `claimed` is `is_claimed`; `stale` says
whether `claimed_at` is over two minutes old, the one thing about time the UPDATE looks
at (`.sisyphus/plans/bring-agents-to-life.md:265` speaks of 30 seconds). `holder`,
`exposed` and `done` are history variables. `Lapse` may happen under an execution only
with the fault `"slow"`: the legs have timeouts (30 s), but the toxicity check before
them has none. Events of the spread tracker carry no `observation_id` and are skipped
(`Skip`). `active` is the executor's `_active_trades`, empty whenever it is looked at:
the executor handles one event at a time, so it does not stop it from trading a pair on
which a request has a trade under way.

### OpportunityRouter

One route per opportunity in `Opps`; an exit is an opportunity in the domain of
`Closes`. `pc` names the stage of `_try_execute`, and one action is what happens between
two awaits that can be told apart. A stage of the chain stands for the checks that treat
a refusal and an exception alike:

| Stage | Checks | When the refusal cannot be written |
|---|---|---|
| `policy` | regime policy, higher time frame | the exception leaves `route` |
| `health` | strategy health | swallowed, the route goes on |
| `ready` | broker, engine, trade, account, quantity, quote, balances, size | leaves `route` |
| `adjust` | confidence calibration, throttling (entries only) | swallowed, the route goes on |
| `risk` | the kill switch, read once by `evaluate_order` | leaves `route` |
| `rules` | the risk rules, awaited one by one | leaves `route` |

A refusal goes to the row, or, for an agent in shadow mode, to `shadow_executions`
(`_finalize_pre_order_decision`). `shadow` is the local variable read once from
`shadowMode`, which others keep changing; it reads FALSE for an agent that was
unregistered while its route was under way. After the reply come `MarkExecuted`,
`SaveTrade`, `Track` (`record_entry` or `record_exit` of `learning/pnl.py`), `Attach` or
`Detach` and `Finish`, with one handler (`Fail`) around them all. `rules` is
`ExitManager._rules` and `saved` its store, which is all that is left of it after
`Crash`. `Cancel` is `stop_agent`, whose CancelledError passes every handler.

Left out: quantities (a partial exit or a scaled entry passes or is refused), the
consensus router in front, the trailing marks, the trade journal but for whether there
is one (`Journal`), and the operator's approve and reject, which overwrite the status of
any row and which nothing acts on. `trigger_kill_switch` has no caller. Routes of one
scan run one after the other and the runner drops the rest when one raises; here they
are independent, which allows more.

### ConsensusRouter

`pc` is where the route of an opportunity stands in front of `OpportunityRouter`. With
`persistent` the four statements of `ConsensusStore` are the actions `Expire`, `Vote`,
`Count` and `Clear`, and routes of several agents run between them; without it one
action, `VoteInMemory`, does all, since nothing is awaited. `handed` is the action level
the opportunity goes on with. History: `basis` holds the votes an opportunity was raised
on, `beside` who had counted too when a route cleared, `spoiled` the trades a route of
which ended midway. `VoteQuorum` is what one would expect of either: votes are cast, and
a quorum of them raises one opportunity and is gone. Only the memory keeps that promise.

### RiskEngine

`stands` is where a scan, a `POST /orders` or a toggle of the kill switch stands.
`memory` and `redis` are the two copies of the switch that are read: the first by
`evaluate_order`, the second by order requests and by a runner that has a Redis client
(`wired`; the application's has none, because it looks for one on the event bus, so that
its check of the halt is never made). There are three sources of orders: scans of
agents, `POST /orders`, and arbitrages (`POST /arb/execute` and `ArbExecutor`), which
read neither copy: `ClaimSpread` and `ExecuteArbitrage` have no condition on the switch.
`HaltHolds` is therefore about the first two, and `risk_halt` shows what the third does
to the claim of `TERMS_FOR_AGENTS.md`. `Judge` and `Save` are the read and the write of
the row of `portfolio_state`, with the network in between. A halt (`halt`) begins when
its toggle is answered, and `under` holds what began under it, arbitrages too;
`contested` names toggles beside which trading was resumed, `restarted` says that the
process died since, `behind` which evaluations another has overtaken.

### StrategyHealth

One row: status, whether the cooldown runs, the operator's override. An evaluation
computes its metrics, reads the row (`ReadHealth`) and writes it (`Transition`), each
after an await; an override writes in one statement. `stale` remembers the evaluations
whose read is no longer the row.

### TaoshiBridge

`file` is what lies in the directory, `hashes` what `_seen_positions` knows of it,
`stored` the table it is loaded from after a start. The poll looks at the positions one
by one and awaits the bus and the store for each. The table keeps names without contents
(`NoHash`), so the first look at a position after a restart takes whatever it finds for
seen. `told`, `kept` and `missed` are history.

### FeedAttribution

A signal and its trade are one value. `leg`, `trade` and `updated` are the rows of the
arbitrage tables, written with a time taken before the statement (`taken`); `outcome` is
the signal's row, inserted by the publisher beside them. The tick goes through its
stages: mark the missed, collect the fills since `cursor`, look up each one's signal,
mark the filled, write the rollup. `counted` is in how many rollups a fill is.

### PaperLedger

A fill reads the position, writes it as computed, reads the account, writes it, saves
the order, each a statement. The model keeps what a position has cost in all (`cost`)
where the code keeps the average of it, so that nothing is rounded but the share of a
partial close (`Share`), which leaves the rest of the cost with the rest of the
position. `kind` says whether it is the account PAPER, which has a row and whose fills
stand between BEGIN and commit, or a venue's, which has neither. `shared` is SQLite: all
tasks use one connection and its one transaction, so `book` (what the connection shows)
and `disk` (what is committed) differ, and a commit or rollback by one task takes the
others' writes with it. `OthersWrite`, `OthersCommit` and `OthersRollBack` are the other
users of that connection; fills of other accounts and symbols are among them, so that a
failed fill of PAPER may roll back those of a venue.

What the books are compared with is kept beside them: `net` and `flow` are the contracts
and the cash of all fills and settlements *answered* (`Answers`), a fill of PAPER after
its commit, a venue's after `save_order`, which no commit follows. No rollback and no
restart takes them back. `loose` says that a venue's fill was answered and nobody has
committed since, `split` which tasks under way have had some of their writes committed
by another. `off` becomes true when one of the ways occurs in which the books go wrong:
a stale read written back, a rollback by another task, an operation cut short when part
of it is committed, a rollback or restart that takes an answered fill with it (`loose`),
the reset of the cash. `BooksAddUp` says there are no others. Once the books are off,
`net` and `flow` are dropped.

### CircuitBreaker

`calling` is the state a call was let in by; it ends, outside the lock, in whichever
state the circuit is by then. `lastFail` is the time of the last failure as far as the
timeout tells it apart. Nothing but its tests uses the breaker yet.

### LlmBudget

`spent` with `expiry` and `grace` with `marked` are the two keys of Redis and the ticks
they have left; `local` is the sum the process keeps for when Redis fails, `fails` the
count that disables the paid provider. `step` goes through a call: resolve the chain,
ask, count the cost, expire the key, then `_maybe_set_grace_deadline` statement by
statement, for the record and again for the alert. `overFor` and `carried` are history:
how long the ceiling has been reached, and whether the deadline is left from the window
before.

### ShadowBook

`queue` is a sweep's list, any of those the query may return (`Listings`: nothing orders
rows that are due together), `row` the rows' status and the bar they were priced at.
`cache` and `fresh` are what `DataBus` keeps of a symbol's bars, the empty answer of a
source included, for as long as any other. Time is in minutes.

### MinerWindows

`collecting`, `view`, `realized` and `records` are a window's way through the tables of
`BittensorStore`; `doing`, `ahead` and `tally` are the evaluator's pass, `inputs` and
`left` its refresh of the rankings, `held` what the weight setter has read. A ranking is
known by the windows it counts for each miner, which is all that decides whether two of
them are comparable. There are fewer windows than the 50 a roll-up looks back. `torn`
says that a failure came between the records and their ranking.

### AgentRunner

`registry` is the agent's row, `agent` the object in `_agents`, `task` the loop in
`_tasks`; `loop` and `object` are all loops there are, those the runner has lost too. A
call (a request or the poller) starts, stops, scans or reconciles; a stop waits for a
scan under way, and gives up after a timeout. `clash` becomes true when starts and stops
overlap, or an agent whose scan failed is started again while its loop goes on: the two
ways in which the runner loses a loop.

A reconciliation validates no schedule (`runner.py:654`-`:690`), so a loop may die of it
(`Dies`): `croniter` raises at once (`:511`), and an interval that is no number after
the first scan (`:501`). `schedule` says which versions of the row have such a fault; at
boot the interval is validated (`agents/config.py:152`) and the cron expression is not,
so `BadCron` holds the first version and `BadInterval` a later one. `stop_agent` awaits
the dead task, which raises its exception again, past the handler for timeouts (`:243`,
`:244`), and the task is never popped (`DrainRaises`): each later stop, hot stop and
warm restart fails the same way, and the status says that the agent runs. `Died` is this
state, and the exception in `ChangesAreTaken`.

## 3. The runs

| Run | Question | Size |
|---|---|---|
| `arb_claims` | do two trades with honest brokers keep the promise of `DualLeg` (`PromiseSpec`)? The claims with everything failing: is every overlap one whose claim was lost (`OverlapExplained`), does a traded spread stay taken (`DoneStaysTaken`), can each claim be had again (`ClaimsEnd`)? | two trades, no fault; two requests, the executor, two observations, all faults, fairness; 216 000 states |
| `arb_miners` | the coordinator with all replies and all faults: what do rows and orders still agree on (`OrdersAreJournaled`, `CompletedIsHedged`, `ClosesTheLoneLeg`, `NakedIsExplained`, `ReturnedRowIsFinal`), and does every call end (`CallsEnd`)? The miners' windows: is what is judged ranked (`JudgedIsRanked`), are the weights of one refresh (`WeightsOfOneRefresh`), is every window judged in the end (`WindowsAreJudged`)? | one trade; two windows of two miners, fairness; 213 000 states |
| `claims_double_release` | a request releases twice and frees another's claim | violation of `AtMostOneExecutor` |
| `claims_side` | the executor sells on the cheaper venue | violation of `SellsTheDearer` |
| `route_faults` | with failing reads and writes, lost replies, a slow venue and cancelled scans: what are shadow mode, refusals and positions worth? (`ShadowPlacesNothing`, `FirmRefusals`, `PositionsHaveOrders`) | an entry, an exit, a notification; shadow mode and kill switch moving; 367 000 |
| `route_crash` | with crashes, cancelled scans, failing reads and lost replies, every write succeeding: do refusals hold, do the tables tell the truth, do exit rules survive, what does it take to sell twice, does every route end? (`RefusalsHold`, `OutcomeRecorded`, `RulesSurvive`, `SoldTwiceExplained`, `RoutesEnd`) | an entry, two exits, health moving, fairness; 60 000 |
| `desk` | who is raised on which votes (`RaisedOnQuorum`, `SpentTwiceExplained`, `NoIdleQuorum`, `KeepsQuorum`); does a halt hold, and the drawdown row (`HaltHolds`, `RowHolds`); does an override stand (`OperatorRules`); is what the bridge takes for seen told (`SeenIsTold`); is a fill rolled up once (`RollupExplained`)? | five opportunities; two scans, a request, an arbitrage, two toggles; two evaluations, two overrides; two positions; one signal; 1 740 000 |
| `books` | do the paper books add up (`BooksAddUp`, `ResolvedIsSettled`), does the circuit close (`Recovers`), when are paid models blocked, and not for ever (`EarlyBlockExplained`, `BlockEnds`), how do shadow rows end (`VerdictsExplained`, `RecordsEnd`)? | two fills and the tracker; three callers of a breaker, two of a model; four rows; fairness; 397 000 |
| `llm_grace` | a deadline of the window before takes the grace period away | violation of `BlockedAfterGrace` |
| `feed_recount` | a fill is in two rollups | violation of `CountedOnce` |
| `risk_halt` | an arbitrage begun under an answered halt orders | violation of `HaltStopsOrders` |
| `runner` | without overlaps, is every loop held (`LoopsAreHeld`); is the fingerprint that of the agent (`FingerprintTells`), and is a change of the registry taken in the end, unless the loop has died (`ChangesAreTaken`)? | two calls, the poller, two versions, bad schedules, fairness; 974 000 |

Bounds. Trades touch disjoint state, so one trade shows what can happen to a trade, and
two are taken only to see that the refinement holds side by side; the proofs are for any
number. Three clients are the least that show the double release: one releases twice,
one claims in between, one claims after. Two observations have two pairs, one dearer on
either venue. A queue of one shows the drop of the oldest event. An entry with two exits
is the least in which a position can be sold twice; opportunities interact only through
the position, the rules and the cooldown, so a second entry would add nothing. Standing
(health, shadow mode) moves for the agents in `Unsteady`; it is the same gates that read
it for others.

A quorum of two with five opportunities of three agents has a quorum with a vote to
spare, a second one after it, an agent that votes twice, a vote that is too late for
another, and an opportunity without a trade, which goes first (`VotesNext`) because it
reads and writes nothing the others do. Two toggles and two scans are the least that
interleave, one order request reads the other copy of the switch, one arbitrage reads
none, and the values of the portfolio are a peak and a drawdown beyond the limit, of
which a row may be empty or triggered at the start (`RiskBegins`); the rows between are
reached from these. A row is overwritten by the second of two evaluations, and again
after an override by the second of two. `desk` takes the two scans for one another, and
the two toggles (SYMMETRY `Alike`): nothing in the specification tells them apart, and
the run checks no liveness. The bridge's positions change twice each (`LastContent`) and
meet one restart. One signal suffices for the feed: fills of different trades meet only
in the cursor, and the two legs of one trade meet there already; its clock (`MaxClock`)
allows each writer of a trade its time, and one more.

One purchase and one larger sale take the paper position through opening, adding,
closing and turning round; two faults, of its own tasks, of others on the connection or
of the process, may fall on both or on one. Two failures open the breaker and a third
caller ends late. Two calls that cost half the ceiling each reach it, `MaxCents` lets
the next window reach it again, and a window of three ticks leaves room for a grace of
one. Four shadow rows with a limit of three need two sweeps, and one of their symbols
has no source. Two windows are the least with a ranking to refresh, and one of them has
no bars; two mishaps may cut a judgement and its repetition. The runner may build six
objects and loops (`MaxObjects`, `MaxLoops`), which is more than two calls and the
poller make of two versions: with seven there are no more states. All other bounds are
named constants: `MaxFaults`, `MaxFails`, `MaxTroubles`, `Horizon`, `MaxHitches`,
`MaxRestarts`, `MaxSlips`.

Each fault is a member of a set of faults or counted against a bound, so a run says
which it assumes away. `PromiseSpec` states what the code promises when all goes well;
the other properties state what is left of it.

Deadlock is checked for `arb_miners` and the routes, whose ends are steps (`AllEnded`,
`Quiet`) or which never stop (a window without bars is tried for ever). In the other
runs there are components that really stop: claims have lapsed and clients ended,
positions and markets have reached their last content, calls are used up.

### What the violations say

- `claims_double_release`: `POST /arb/execute` raises its 404 inside the try whose
  handler releases, after it has released.
- `claims_side`: the scan publishes the absolute gap, so the branch that sells on
  Polymarket is never taken.
- `llm_grace`: the deadline's key lives 24 hours from the ceiling, the sum's 24 hours
  from its first cost. When the next day's sum reaches the ceiling before the old key is
  gone, `should_block_paid` finds a deadline that has long passed and blocks at once.
- `risk_halt`: `POST /arb/execute` asks for a key and a scope
  (`api/routes/arbitrage.py:37`-`:41`), claims the spread and executes it, as
  `ArbExecutor` does without being asked (`execution/arb_executor.py:332`); the
  coordinator sends legs and closing orders (`execution/arbitrage.py:361`, `:435`). None
  of them reads the kill switch, in memory or in Redis, while
  `TERMS_FOR_AGENTS.md:41`-`:43` says that it halts all write operations and blocks
  every POST to an authenticated endpoint.
- `feed_recount`: the collector takes fills by `updated_at` of their trade, which is
  written again when the trade changes its state after its leg.

### Other disagreements

Met while reading and modelling; most need no model to be seen.

*Orders.* The paper brokers reject market orders (`adapters/kalshi/paper.py:167`) and
`_unwind_leg` does not look at the reply (`execution/arbitrage.py:438`), so in paper
trading UNWOUND is recorded with the leg held (`NakedIsExplained` lists it). A leg that
timed out counts as failed and its late fill stays. A refusal of the health gate whose
write raises is swallowed and the route goes on (`agents/router.py:636`, `:656`).
`asyncio` is a local name of `_try_execute`, bound only where a journal is (`:1116`), so
without one every filled exit ends in an exception and is recorded as rejected
(`:1441`). The journal entry that is to precede the order (comment at `:1096`) is a task
that races it. `evaluate_order` reads the kill switch before it awaits its rules
(`TERMS_FOR_AGENTS.md:41` says it halts at once,
`conductor/tracks/defensive_perimeter/spec.md:37` lets tasks in flight finish).
`record_entry`, `record_exit` and `attach` do not look at the status of the order. One
opportunity that raises ends the loop over its scan (`agents/runner.py:465`).

*Unreachable.* The confirmations of WhatsApp are looked up before they are asked for
(`whatsapp/assistant.py:136`). The two-step kill switch uses `json` without importing
it. The stream consumer decodes ids that are text already, outside its try
(`events/consumer_streams.py:97`).

*Runner.* The docstring of `_reconcile_registry` (`agents/runner.py:554`) promises a
stop and a new start for an agent whose configuration changed; an agent whose loop has
died is never stopped, so a corrected schedule is not taken either, and its status stays
as it was.

*Paper.* The venues' paper brokers answer FILLED without a commit
(`adapters/kalshi/paper.py:180`-`:206`): with SQLite the fill is in the transaction of
whoever commits or rolls back next, and a restart before that loses it. A closing of the
tracker that is rolled back before the position is marked leaves it marked and open
(`ResolvedIsSettled` lists it). Accounts of the venues have no row, so their cash is
never written. A restart resets the cash of PAPER while its positions stay. On Postgres
there is nothing to roll back.

*Bridge.* A comment (`integrations/bittensor/taoshi_bridge.py:188`) promises not to emit
a duplicate after a restart; the update that comes then is swallowed with it. The test
(`tests/unit/test_taoshi_bridge.py:174`) starts from `""` where `run` sets None.

*Language models.* `is_over_budget` and `re_enable_all` have no callers; three of the
client's methods record no cost; alerts once fired stay fired for the life of the
process; the cost table looks like dollars per million tokens and is summed as cents;
hosted providers without an entry in it are dropped with the paid ones; a carried
deadline that expires unblocks paid providers in the midst of a window over its ceiling.

*Shadow.* A row swept in the minute it falls due may be given up for good for a bar that
is a minute late, and a symbol that raises stops every row due later.

*Signal feed.* Only the paper collector moves the cursor; a restart counts everything
again; the cursor moves before the rollup is written. A comment in `_realized_from_fill`
takes the signal to be inserted before it is published, but the publisher is one
subscriber beside the executor. A signal marked missed whose fill comes later never
becomes filled. The legs of an unwound trade count as realized.

*Windows.* `direct_query_enabled` is off by default, so the scheduler returns at once. A
window judged more than a day late is scored on later bars. Forecasts that were not
verified are scored like the others, though
`docs/superpowers/specs/2026-04-06-bittensor-hardening-phase2-design.md` has them
skipped. A refresh that failed is not repeated until another window counts. The weight
setter keeps the connection it was given at the start.

*Tournament and competition.* A promotion reads the stage, awaits a language model and
writes it, over a demotion in between; the gate lets pass when the model fails.
`record_elo_change` does not commit; the matcher passes a string where the store takes
`.value` of an enum (`competition/matcher.py:164`), and `claim_mission_reward` passes
amount and source in the wrong order (`competition/store.py:843`).

## 4. Fairness

`ArbCoordinator!FairSpec` asks for weak fairness of each call only: the event loop
resumes a coroutine whose await is over, and `asyncio.timeout` is what ends an await of
a venue. Venues get none: `CallsEnd` holds because of the timeouts.
`SpreadClaims!ClaimsFairSpec` adds that time passes (`Lapse`), that the executor's loop
goes on and that an accepted request is served to its end, which is
`ArbCoordinator!CallsEnd`. `OpportunityRouter!Fairness` is weak fairness of each route
together with the venue's answer to its order: here there is no timeout around
`place_order`, so without an answer in the end the route, and the scan that waits for
it, would stay for ever.

`AgentRunner!FairSpec`: a call and a loop go on once begun, and the polling loop
reconciles again and again, which is what it is for. `PaperLedger!LedgerFairness`: the
tracker polls for ever, and a fill that has begun goes on.
`CircuitBreaker!BreakerFairness`: the timeout passes, calls end, and some caller tries
again; a breaker nobody calls stays open. `LlmBudget!LlmFairness`: time passes, and a
call that has counted its cost goes on to the expiry, or fails.
`ShadowBook!ShadowFairness`: the sweeping loop and the clock.

`MinerWindows!MinerFairness` asks for strong fairness three times: a connection is lost
and had again without end, so a collection is enabled again and again rather than for
good, and one of them is to succeed; and a source that has the bars of a window is to
give them at some pass. Without either a window may wait for ever, and the code can do
nothing about it. The evaluator's own steps, the reconnect after a backoff and the
passing of time get weak fairness.

Nothing is asked of those who interfere: no toggle, evaluation of health, request,
cancellation, failure or crash ever has to happen.

## 5. What is proved

The theorems hold for any number of trades, observations, requests, opportunities,
agents, votes, callers, windows and so on, and for every value of the other constants
their module's assumptions allow. Where a row says "whatever fails" nothing is assumed.

| Theorem | Says | Assumes |
|---|---|---|
| `TypeCorrect`, `ClaimsTypeCorrect`, `RouterTypeCorrect`, `ConsensusTypeCorrect`, `RiskTypeCorrect`, `HealthTypeCorrect`, `BreakerTypeCorrect`, `BridgeTypeCorrect`, `RunnerTypeCorrect`, `LlmTypeCorrect`, `LedgerTypeCorrect`, `ShadowTypeCorrect`, `FeedTypeCorrect`, `MinerTypeCorrect` | types, and the bounds they hold | nothing |
| `OrdersJournaled` | no order leaves before its row says so | nothing |
| `CompletedHedged` | COMPLETED: both brokers took their order, neither leg is undone | nothing |
| `LoneLegClosed` | only the lone good leg is ever closed | nothing |
| `ReturnedIsFinal` | a call that returns leaves a final row, none, or that of an unwind skipped for a leg filled with nothing | nothing |
| `NakedHasACause` | a position left behind has one of four causes | nothing |
| `KeepsPromise` | `ArbCoordinator` implements `DualLeg` | `HonestWorld` |
| `FailedIsFlat`, `UnwoundIsClosed` | FAILED and UNWOUND leave nothing behind | `HonestWorld` |
| `OnlyExposedOverlap` | clients overlap only where a claim was lost under its holder | nothing |
| `DoneIsTaken` | what a request traded stays taken until its claim lapses or another releases it | nothing |
| `ClaimsExclude` | claims exclude each other | `Sound` |
| `ShadowIsSafe` | what is taken in shadow mode is never ordered | nothing |
| `FirmRefusalsHold` | no order follows a refusal of the policies, the preconditions, the kill switch or the rules | nothing |
| `PositionsAreOrdered` | positions are opened and closed by answered orders | nothing |
| `RefusalsStand` | no order follows a refusal of any gate, and one table shows it | `WritesHold` |
| `OutcomeIsRecorded` | the status of a finished opportunity tells whether there is an order, a trade, a position | `WritesHold`, `Journal` |
| `RulesOutlast` | an open position has exit rules, in memory and saved, once its entry is done | `WritesHold` |
| `SellsOnce` | a position is sold twice only after an exit whose reply was lost or whose route was cut off | `WritesHold`, `Prompt` |
| `RaisedByQuorum` | what is raised has the votes of enough different agents within the window | nothing |
| `SpentOnceOrBeside` | a vote raises two only where two routes counted before either cleared | nothing |
| `QuorumIsNotIdle` | enough votes do not lie unnoticed | nothing |
| `VotesKeepPromise` | in memory the votes implement `VoteQuorum` | nothing |
| `TheHaltHolds` | no agent and no `POST /orders` begun under an answered halt orders, but agents after a restart without Redis; nothing is said of arbitrages | nothing |
| `DrawdownRowHolds` | the mark falls and a trigger is taken back only by an evaluation that was overtaken | nothing |
| `OperatorStands` | overrides, cooldowns and retirements stand, but for losses in a row and stale evaluations | nothing |
| `OpenCircuitIsTimed` | an open circuit has a time to count from, but for a late success | nothing |
| `SeenWasTold`, `ContentsAreToldOnce` | what the bridge takes for seen was told, with two exceptions, and once from one start to the next | nothing |
| `EarlyBlocks`, `BlocksLast` | what blocks paid providers early, and what ends a block early | nothing |
| `BooksAlwaysAddUp` | position and cash of the paper books are the sum of what was answered, unless one of the named ways occurred in which they come off | nothing |
| `VerdictsAreExplained`, `VerdictsAreFinal` | a shadow row is priced at its first bar, given up only for a late answer or sweep, and never touched again | nothing |
| `RollupsAreExplained` | what puts a fill in two rollups or in none | nothing |
| `JudgedAreRanked`, `WeightsAreOfOne` | evaluated windows have their records and rankings; weights are of one refresh | nothing |
| `LoopsStayHeld`, `TheStatusTells`, `TheFingerprintTells` | the runner holds the loops that run, its status says so but for a loop that died, and the fingerprint is the agent's | nothing |
| `CallsAdvance`, `RoutesAdvance` | a call of the coordinator and a route never go back and have twelve and fifteen steps at most | nothing |
| `LoneRoutesKeepPromise` | the votes in the table implement `VoteQuorum` as well | routes do not overlap |
| `LoneEvaluationsKeepTheRow` | the mark never falls, no trigger is taken back early | evaluations do not overlap |
| `LoneWritersObey` | only losses in a row overrule the operator | nothing comes between read and write |
| `LoneCallsAreTimed` | an open circuit has a time to count from | calls do not overlap |
| `LoneTasksAddUp` | whenever nobody is half done the books are exactly the sum of the answers | tasks do not overlap, no fault |
| `LoneCallsHoldLoops` | every loop that runs is the runner's, and the status tells | starts and stops do not overlap, no scan fails |

`HonestWorld` is: no fault, brokers that fill or refuse a limit order and fill every
market order. `Sound` is: reads succeed and no execution outlives its claim; failing
writes and crashes are allowed, and `claims_double_release` shows that reads must not
fail. `WritesHold` is: no write of a route fails; a health refusal that cannot be
written is one that does not hold. `Prompt` is: the venue answers within the cooldown of
an exit. `Journal` is: there is a trade journal. The properties of the smaller modules
need no assumption because they name, in their history variables, each cause there is.

The arguments.

*Coordinator.* `CompletedIsHedged` is not inductive: nothing in it says that a leg
counted as `ok` was accepted by its broker. `IInv` adds what each stage of the call says
of the row (`StageInv`), what the progress of a leg says of its order and its row
(`LegInv`), and that a closing order belongs to the one good leg with a known quantity
and the other leg has none (`ClosingInv`). Each is about one trade, and the two lemmas
on locality and frame reduce the step to the trade that moves. `CallInv` and `EndInv`
carry on from there: what the call is about to write, and what it has given up by the
time it ends, is one of the causes `NakedIsExplained` lists. `HonestInv` adds what only
holds when nothing is given up: a leg is `failed` only if its broker refused it, so a
call that decides to unwind has exactly one position to close. With it each action is
shown to be a step of `DualLeg` or a stutter: a fill is `Open`, the fill of the closing
order `Close`, the final write `Commit` or `Abort`.

*Claims.* `ClaimInv` says that a client relying on a claim nobody has upset holds it in
its own name, unlapsed. It is the history variable `exposed` that makes this inductive
under every fault: the two ways to upset a claim, a lapse and a release by someone else,
put the observation there. `DoneInv` says the same of what was traded. Under `Sound` the
invariant `SoundInv` shows that `exposed` stays empty, because a client releases only
what it holds.

*Router.* `IInv` ties `pc` to the order (`RouteInv`): an order exists only from
`placing` on, the books are kept only after an answer, a local shadow mode never gets as
far as `placing`, and the gates whose refusal is firm end the route even if it cannot be
written. `PositionInv` needs `FoundInv`: an exit is found only where there is a
position, whose entry was therefore answered. While writes hold, `StoreInv` says of each
stage what the tables hold, `GuardInv` that rules and position go together but for the
entry or exit under way, and `PairInv` that of two exits of one position at most one is
between its scan and its end, unless one was lost or cut off.

*Votes.* The votes of one key are of different agents (`Cast` replaces), so a count of
votes is a count of agents. `QuorumIsNoticed` is about the latest vote of a key: its
route has counted what is there. The refinement maps the votes to `box` and the
opportunities with a basis to `raised`.

*Halt.* While a halt stands, the switch in memory is on unless the process died since
(`HaltIsSet`), a toggle that will be answered has set it already (`HaltIsComing`), and
whoever began under it has not passed the read of it, or is an arbitrage
(`UnderIsHeld`). *Drawdown*: an evaluation that is not behind has a mark no lower than
the row's (`FreshMarks`).

*Runner.* `RunnerInv` is: a clash, or one caller at a time deals with the agent
(`OneAtATime`) and every loop alive is the one in `_tasks`, of the agent's object
(`LoopsAreOwn`). A dead loop stays in `_tasks` and is not alive, so it endangers
neither; it is liveness that it costs.

*Paper books.* The tables are compared with a history they do not contain, so the
invariant has to say at every step what they hold beyond it. `BookAdds`: until the books
are off, the connection shows the answers and all that is half done (`HalfDone`):
contracts, and cost with what was realized, as sums over sets of fills (`AddsUp`, with
`Lots` and `Debt`), less what the tracker is about to pay (`Taken`, `Given`).
`DiskAdds`: what is committed is the answers and what others have committed of tasks
under way (`split`), unless an answered fill is `loose`; that is what a rollback or
restart returns to, and why one of them takes the books off exactly when something
answered or half committed is lost. The account lags: it has paid for the fills past
their second write only (`PaidFor`; `BookIsPaid`, `DiskIsPaid`). `Tidy` and `CopyInv`
say who may be half done, and that no contracts are free. An answer moves a fill from
the half done to the answered, which leaves the sum as it was. The sum over a set of
fills is the value at that set of a function with the two equations of a sum (`IsSum`);
that there is one for every finite set of fills (`SumExists`) is shown by a least
counterexample, since induction over an operator is out of reach.

*Shadow rows.* A sweep under way lists open rows, each once (`ListInv`), so that no row
is judged twice. `CacheIsRecent` bounds the age of an answer by what is left of its life
and the lateness of its source, `BarsAreRecent` carries that to the bars a sweep holds:
a bar not among them is younger than `CacheTTL + Lag` or older than a session.

*The rest.* Each strengthens its property with what the stages say: for the budget how
the two keys relate to the time since the ceiling (`SumInv`, `DeadlineInv`), for the
feed what an update's time says of a fill collected before it (`StampInv`, `RollupInv`),
for the windows what the pass has written (`JudgeInv`), which roll-up the rows of a
refresh are of (`RankInv`), and what that means for the weights read (`OneInv`).

*One at a time.* A property with named exceptions says little if they are always there.
The theorems `Lone...` show that they are not: while the actors follow one another the
history variables that hold the exceptions stay without effect, and the plain property
is left. Their hypotheses are about schedules (`OneRoute`, `OneEvaluation`, `OneWriter`,
`OneCall`, `Joins`, `OneBusy`), the ones a test that awaits each call runs. For the
votes the table holds, between a count and its clear, what was counted (`HoldsTheKey`),
and `raised` is mapped to those whose clear is done.

*Progress.* `CallsAdvance` and `RoutesAdvance` number the stages of a call and of a
route. They are the part of `CallsEnd` and `RoutesEnd` that needs no fairness: nothing
is done twice, so what is left to TLC is that some step can be taken.

What is only model-checked:

- liveness (`CallsEnd`, `ClaimsEnd`, `RoutesEnd`, `ChangesAreTaken`,
  `ResolvedIsSettled`, `Recovers`, `BlockEnds`, `RecordsEnd`, `WindowsAreJudged`): with
  ENABLED it is beyond the prover, as are induction over data and RECURSIVE operators,
  of which there is none here.

Proved and not stated in a run, because another property there covers the same code:
`BlockLasts`, `ToldOnce`, `StatusTells`, `OpenIsTimed`, `VerdictsStand`, the theorems on
one actor at a time and on progress, and the two about FAILED and UNWOUND.

## 6. What is not modelled

Of the modelled components, what is left out is named in section 2 and in
`PROJECT.json`. In short: quantities in the route, trailing marks, the texts and numbers
of scores, indicators and answers, prices, and endpoints that only read.

| Part | Why |
|---|---|
| Governor cache and watchdog | one loop writes a snapshot, read without an await; its answer is a refusal like another |
| Enhanced consensus votes (`agents/consensus.py`) | a second store of votes nothing creates outside its tests |
| Arbitrage scan and matching | its record and publish are actions of `SpreadClaims`; the rest is text |
| Event bus, signal bus, streams | `EventBus.publish` is in `SpreadClaims`; the stream consumer handles no entry as it is wired |
| WhatsApp confirmations | the branch that would act on one is not reached |
| Trust and slippage feedback | one of several writers of a level: `OpportunityRouter` takes any level at any time |
| Tournament | a stage read before and written after a language model's answer; what it writes is `Patch` of `AgentRunner` |
| Competition and achievements | ratings of recorded results, which nothing in the trading path waits for; several of its paths raise (section 3) |
| Position sizing, regime and risk analytics; strategies | arithmetic on market data without shared state |
| Brokers and data sources | external: modelled by what they may answer |
| Storage backends | a statement is atomic in the models; dialects and migrations are not state of the engine |
| Backtesting, gym, simulation | sequential replay |
| HTTP API and authentication; notifications, brief, billing, leaderboard, warroom | wiring, input and output |
| Knowledge graph, memory, journal | records no decision waits for |

Most of the repository's lines are of these kinds: the models cover the parts that
decide about orders and keep state between two awaits. The repository also holds the
sources of a Bittensor validator, a companion application, shared libraries and
deployment files, which the engine does not call in the paths above.

## 7. Plan

Done, in the order planned: the coordinator and its refinement, the claims, the route,
the consensus with its refinement, risk, health, bridge, paper books, breaker, runner,
and beyond the plan the budget, shadow executions, signal feed and miners' windows. What
is left, the nearer to an order first:

| Module | Models | Questions |
|---|---|---|
| `OpportunityRouter` | quantities: partial exits, scaled entries; trailing marks and their store | is more sold than is held? what does a restart forget of a trail? |
| `ArbSystem` | `SpreadClaims` and `ArbCoordinator` composed: the stage `executing` becomes the call | which claims does a slow unwind outlive? |
| `Stages` | tournament, trust and the operator as writers of one level | does a demotion stand beside a judgement that is under way? |
| `Matches` | settlement of matches and ratings, once its store is called as it is written | is a match rated once? |
| `StreamsConsumer` | pending entries and acknowledgements, once the consumer is wired | is a message left pending, or handled twice? |
