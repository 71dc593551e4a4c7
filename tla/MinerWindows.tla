---------------------------- MODULE MinerWindows ----------------------------
(***************************************************************************)
(* Forecasts of Bittensor miners, from their collection to the weights on  *)
(* the chain: TaoshiScheduler collects a window (src/trading/integrations/ *)
(* bittensor/scheduler.py), MinerEvaluator judges the windows that are old *)
(* enough and ranks the miners (evaluator.py), WeightSetter submits the    *)
(* rankings (weight_setter.py); all keep their rows in BittensorStore      *)
(* (src/trading/storage/bittensor.py).  Each of the three is one loop.     *)
(*                                                                         *)
(* A miner has answered a window when a row of it is there, whichever      *)
(* phase it is of and verified or not: the evaluator does not ask.  Scores *)
(* are left out: a ranking is known by the windows it counts for each      *)
(* miner, all of which enter the score of each (compute_rankings), and     *)
(* there are fewer windows than the 50 a roll-up looks back.               *)
(***************************************************************************)
EXTENDS Integers, FiniteSets

CONSTANTS
  Collections, \* bound: the number of windows that are collected
  Miners,
  Dark,        \* windows of a symbol whose bars nobody has
  MaxMishaps   \* bound: failures of the evaluator, and crashes

Slots == 1..Collections

ASSUME MinerAssumption ==
  Collections \in Nat /\ Dark \subseteq Slots /\ IsFiniteSet(Miners) /\ MaxMishaps \in Nat

VARIABLES
  collecting,  \* the window whose forecasts are stored and whose view is not, or 0
  misses,      \* consecutive_failures, as far as run() tells them apart
  forecasts,   \* bittensor_raw_forecasts: who has answered a window
  view,        \* evaluation_status of its derived view, and whether it is old enough
  realized,    \* bittensor_realized_windows
  records,     \* bittensor_accuracy_records: who is scored for a window
  doing,       \* where the evaluator is
  ahead,       \* windows left in the pass
  tally,       \* evaluated_count > 0
  inputs,      \* the roll-up a refresh has read
  left,        \* miners whose row it has not written yet
  ranking,     \* bittensor_miner_rankings, of the symbol "aggregate"
  held,        \* the rankings the weight setter submits
  chain,       \* the weights on the chain
  torn,        \* history: a failure came between records and their ranking
  mishaps      \* how many have happened

minerVars == <<collecting, misses, forecasts, view, realized, records, doing, ahead,
               tally, inputs, left, ranking, held, chain, torn, mishaps>>
schedulerVars == <<collecting, misses, forecasts>>
passVars == <<doing, ahead, tally>>
refreshVars == <<inputs, left, ranking>>
setterVars == <<held, chain>>

NoRow == [m \in Miners |-> {0}]
Rows == [Miners -> SUBSET Slots] \cup {NoRow}
NoWeights == [rows |-> [m \in Miners |-> NoRow], amid |-> FALSE]
Weights == [rows : [Miners -> Rows], amid : BOOLEAN]

MinerTypeOK ==
  /\ collecting \in 0..Collections /\ misses \in 0..3
  /\ forecasts \in [Slots -> SUBSET Miners]
  /\ view \in [Slots -> {"none", "young", "due", "evaluated"}]
  /\ realized \in [Slots -> BOOLEAN] /\ records \in [Slots -> SUBSET Miners]
  /\ doing \in {"rest", "judging", "scoring", "marking", "ranking", "writing"}
  /\ ahead \in SUBSET Slots /\ tally \in BOOLEAN
  /\ inputs \in [Miners -> SUBSET Slots] /\ left \in SUBSET Miners
  /\ ranking \in [Miners -> Rows]
  /\ held \in Weights /\ chain \in Weights
  /\ torn \in BOOLEAN /\ mishaps \in 0..MaxMishaps

MinerInit ==
  /\ collecting = 0 /\ misses = 0
  /\ forecasts = [w \in Slots |-> {}] /\ view = [w \in Slots |-> "none"]
  /\ realized = [w \in Slots |-> FALSE] /\ records = [w \in Slots |-> {}]
  /\ doing = "rest" /\ ahead = {} /\ tally = FALSE
  /\ inputs = [m \in Miners |-> {}] /\ left = {}
  /\ ranking = [m \in Miners |-> NoRow]
  /\ held = NoWeights /\ chain = NoWeights
  /\ torn = FALSE /\ mishaps = 0

Mishap == mishaps < MaxMishaps /\ mishaps' = mishaps + 1

-------------------------------------------------------------------------------
(* TaoshiScheduler.run.  A collection that failed is not repeated: the     *)
(* next one is of the next window, which takes its number here.            *)

Upcoming(w) == view[w] = "none" /\ \A v \in Slots : v < w => view[v] # "none"

\* _collect_window as far as save_raw_forecasts: any miners have answered.
CollectForecasts(w) ==
  /\ collecting = 0 /\ misses < 3 /\ Upcoming(w)
  /\ collecting' = w
  /\ \E who \in SUBSET Miners : forecasts' = [forecasts EXCEPT ![w] = who]
  /\ UNCHANGED <<misses, view, realized, records, torn, mishaps>>
  /\ UNCHANGED <<passVars, refreshVars, setterVars>>

\* save_derived_view, and the end of a collection.
CollectView(w) ==
  /\ collecting = w
  /\ collecting' = 0 /\ misses' = 0 /\ view' = [view EXCEPT ![w] = "young"]
  /\ UNCHANGED <<forecasts, realized, records, torn, mishaps>>
  /\ UNCHANGED <<passVars, refreshVars, setterVars>>

\* An exception anywhere in it.
CollectFails ==
  /\ misses < 3
  /\ collecting' = 0 /\ misses' = misses + 1
  /\ UNCHANGED <<forecasts, view, realized, records, torn, mishaps>>
  /\ UNCHANGED <<passVars, refreshVars, setterVars>>

\* _try_reconnect that succeeds; one that fails leaves everything as it is.
Reconnect ==
  /\ collecting = 0 /\ misses = 3 /\ misses' = 0
  /\ UNCHANGED <<collecting, forecasts, view, realized, records, torn, mishaps>>
  /\ UNCHANGED <<passVars, refreshVars, setterVars>>

\* The horizon of the forecasts is over, and a tenth of it more.
Ripen(w) ==
  /\ view[w] = "young" /\ view' = [view EXCEPT ![w] = "due"]
  /\ UNCHANGED <<schedulerVars, realized, records, torn, mishaps>>
  /\ UNCHANGED <<passVars, refreshVars, setterVars>>

-------------------------------------------------------------------------------
(* MinerEvaluator.evaluate_pending_windows.                                *)

\* Mutant: what the docstring says of the query, views without a realized window.
PendingMutant == {w \in Slots : view[w] = "due" /\ ~realized[w]}

\* get_unevaluated_windows.
Pending == {w \in Slots : view[w] = "due"}

PassBegins ==
  /\ doing = "rest" /\ Pending # {}
  /\ doing' = "judging" /\ ahead' = Pending /\ tally' = FALSE
  /\ UNCHANGED <<schedulerVars, view, realized, records, torn, mishaps>>
  /\ UNCHANGED <<refreshVars, setterVars>>

Earliest(w) == w \in ahead /\ \A v \in ahead : w <= v

\* No bars, or too few of them yet: _evaluate_window returns, which counts.
TooFewBars(w) ==
  /\ doing = "judging" /\ Earliest(w)
  /\ ahead' = ahead \ {w} /\ tally' = TRUE
  /\ UNCHANGED <<schedulerVars, view, realized, records, doing, torn, mishaps>>
  /\ UNCHANGED <<refreshVars, setterVars>>

\* save_realized_window, after bars enough.
Realize(w) ==
  /\ doing = "judging" /\ Earliest(w) /\ w \notin Dark
  /\ realized' = [realized EXCEPT ![w] = TRUE] /\ doing' = "scoring"
  /\ UNCHANGED <<schedulerVars, view, records, ahead, tally, torn, mishaps>>
  /\ UNCHANGED <<refreshVars, setterVars>>

\* save_accuracy_records, which replaces a record of the same window and miner.
Score(w) ==
  /\ doing = "scoring" /\ Earliest(w)
  /\ records' = [records EXCEPT ![w] = @ \cup forecasts[w]] /\ doing' = "marking"
  /\ UNCHANGED <<schedulerVars, view, realized, ahead, tally, torn, mishaps>>
  /\ UNCHANGED <<refreshVars, setterVars>>

\* mark_window_evaluated.
MarkEvaluated(w) ==
  /\ doing = "marking" /\ Earliest(w)
  /\ view' = [view EXCEPT ![w] = "evaluated"]
  /\ ahead' = ahead \ {w} /\ tally' = TRUE /\ doing' = "judging"
  /\ UNCHANGED <<schedulerVars, realized, records, torn, mishaps>>
  /\ UNCHANGED <<refreshVars, setterVars>>

\* The records that are in when saving them is cut short: the statements before the failing
\* one are committed with whatever is committed next.
SomeScored ==
  \E w \in Slots, who \in SUBSET Miners :
    /\ Earliest(w) /\ who \subseteq forecasts[w]
    /\ records' = [records EXCEPT ![w] = @ \cup who]

\* A window raises and is left for the next pass, unless its mark was written all the same.
WindowFails(w) ==
  /\ doing \in {"judging", "scoring", "marking"} /\ Earliest(w)
  /\ IF doing = "judging" /\ w \in Dark THEN UNCHANGED mishaps ELSE Mishap
  /\ IF doing = "scoring" THEN SomeScored ELSE UNCHANGED records
  /\ \/ UNCHANGED view
     \/ doing = "marking" /\ view' = [view EXCEPT ![w] = "evaluated"]
  /\ torn' = (torn \/ doing = "marking" \/ records' # records)
  /\ ahead' = ahead \ {w} /\ doing' = "judging"
  /\ UNCHANGED <<schedulerVars, realized, tally>>
  /\ UNCHANGED <<refreshVars, setterVars>>

\* Mutant: only a pass without failures is followed by a refresh.
PassEndsMutant ==
  /\ doing = "judging" /\ ahead = {}
  /\ doing' = IF tally /\ Pending = {} THEN "ranking" ELSE "rest"
  /\ UNCHANGED <<schedulerVars, view, realized, records, ahead, tally, torn, mishaps>>
  /\ UNCHANGED <<refreshVars, setterVars>>

PassEnds ==
  /\ doing = "judging" /\ ahead = {}
  /\ doing' = IF tally THEN "ranking" ELSE "rest"
  /\ UNCHANGED <<schedulerVars, view, realized, records, ahead, tally, torn, mishaps>>
  /\ UNCHANGED <<refreshVars, setterVars>>

-------------------------------------------------------------------------------
(* refresh_rankings, for the aggregate of all symbols.                     *)

\* get_accuracy_rollup.
Rollup == [m \in Miners |-> {w \in Slots : m \in records[w]}]
Scored == {m \in Miners : Rollup[m] # {}}

ReadRollup ==
  /\ doing = "ranking"
  /\ inputs' = Rollup /\ left' = Scored
  /\ doing' = "writing"
  /\ UNCHANGED <<schedulerVars, view, realized, records, ahead, tally, ranking, torn, mishaps>>
  /\ UNCHANGED setterVars

\* Mutant: rows of miners without a new record are left as they are.
RowMutant(m) == IF ranking[m] # NoRow /\ ranking[m][m] = inputs[m] THEN ranking[m] ELSE inputs

\* The row of a miner, whose score depends on the inputs of all.
Row(m) == inputs

\* update_miner_ranking, one statement for each.
WriteRow(m) ==
  /\ doing = "writing" /\ m \in left
  /\ ranking' = [ranking EXCEPT ![m] = Row(m)] /\ left' = left \ {m}
  /\ UNCHANGED <<schedulerVars, view, realized, records, inputs, torn, mishaps>>
  /\ UNCHANGED <<passVars, setterVars>>

RefreshEnds ==
  /\ doing = "writing" /\ left = {}
  /\ doing' = "rest" /\ torn' = FALSE
  /\ UNCHANGED <<schedulerVars, view, realized, records, ahead, tally, mishaps>>
  /\ UNCHANGED <<refreshVars, setterVars>>

\* What it raises ends the pass, and no other begins on its account.
RefreshFails ==
  /\ doing \in {"ranking", "writing"} /\ Mishap
  /\ doing' = "rest" /\ left' = {} /\ torn' = TRUE
  /\ UNCHANGED <<schedulerVars, view, realized, records, ahead, tally, inputs, ranking>>
  /\ UNCHANGED setterVars

-------------------------------------------------------------------------------
(* WeightSetter._set_weights_once.                                         *)

ReadRankings ==
  /\ held = NoWeights /\ \E m \in Miners : ranking[m] # NoRow
  /\ held' = [rows |-> ranking, amid |-> doing = "writing" \/ torn]
  /\ UNCHANGED <<schedulerVars, view, realized, records, torn, mishaps, chain>>
  /\ UNCHANGED <<passVars, refreshVars>>

\* The chain takes them, or does not; a later turn submits what is there then.
SetWeights ==
  /\ held # NoWeights /\ held' = NoWeights
  /\ chain' \in {held, chain}
  /\ UNCHANGED <<schedulerVars, view, realized, records, torn, mishaps>>
  /\ UNCHANGED <<passVars, refreshVars>>

\* The tables and the chain stay, the three loops begin anew.
MinersRestart ==
  /\ Mishap
  /\ collecting' = 0 /\ misses' = 0
  /\ doing' = "rest" /\ ahead' = {} /\ tally' = FALSE /\ left' = {}
  /\ held' = NoWeights
  /\ IF doing = "scoring" THEN SomeScored ELSE UNCHANGED records
  /\ torn' = (torn \/ tally \/ doing \in {"marking", "ranking", "writing"}
                   \/ records' # records)
  /\ UNCHANGED <<forecasts, view, realized, inputs, ranking, chain>>

Collects == \E w \in Slots : CollectForecasts(w) \/ CollectView(w)

EvaluatorStep ==
  \/ PassBegins \/ PassEnds \/ ReadRollup \/ RefreshEnds \/ RefreshFails
  \/ \E w \in Slots :
       TooFewBars(w) \/ Realize(w) \/ Score(w) \/ MarkEvaluated(w) \/ WindowFails(w)
  \/ \E m \in Miners : WriteRow(m)

MinerNext ==
  \/ Collects \/ CollectFails \/ Reconnect
  \/ \E w \in Slots : Ripen(w)
  \/ EvaluatorStep
  \/ ReadRankings \/ SetWeights
  \/ MinersRestart

\* The loops run and time passes.  A connection can be had again, a window is collected
\* whole once in a while, and the bars of one are complete at some pass.
MinerFairness ==
  /\ WF_minerVars(Reconnect) /\ WF_minerVars(EvaluatorStep)
  /\ WF_minerVars(\E w \in Slots : Ripen(w))
  /\ SF_minerVars(\E w \in Slots : CollectForecasts(w))
  /\ SF_minerVars(\E w \in Slots : CollectView(w))
  /\ SF_minerVars(\E w \in Slots : Realize(w))

MinerSpec == MinerInit /\ [][MinerNext]_minerVars /\ MinerFairness

-------------------------------------------------------------------------------
(* Properties.                                                             *)

\* An evaluated window has a record of everyone who answered it, however often its judgement
\* was begun; and when the evaluator is at rest its rankings count every record there is,
\* unless a failure came between the records and the ranking: no later pass makes up for it
\* until another window is judged.
JudgedIsRanked ==
  /\ \A w \in Slots : view[w] = "evaluated" => records[w] = forecasts[w]
  /\ doing = "rest" /\ ~torn =>
       \A m \in Miners : ranking[m] = IF m \in Scored THEN Rollup ELSE NoRow

\* Scores of different refreshes are not comparable, and the weights are shares of their sum:
\* weights on the chain are all of one refresh, unless they were read while one was writing
\* its rows or after one was cut short.
OfOneRefresh(rows) ==
  \A m, n \in Miners : rows[m] # NoRow /\ rows[m][n] # {} => rows[n] = rows[m]

WeightsOfOneRefresh == chain.amid \/ OfOneRefresh(chain.rows)

\* Once its collection is begun, a window is judged in the end, however often collections
\* fail, the connection is lost, judgements are cut short and the process restarts: but those
\* whose bars nobody has, which must not hold up the others.
WindowsAreJudged == \A w \in Slots \ Dark : collecting = w ~> view[w] = "evaluated"

===============================================================================
