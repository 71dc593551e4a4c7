------------------------------ MODULE ShadowBook ------------------------------
(***************************************************************************)
(* How shadow executions end: ShadowOutcomeResolver                        *)
(* (src/trading/execution/shadow.py) looks once a minute for rows that are *)
(* due (src/trading/storage/shadow.py) and resolves each at the first bar  *)
(* of its symbol that is not before its time.  The bars come from DataBus  *)
(* (src/trading/data/bus.py), which keeps what a source has answered, the  *)
(* empty answer too, for CacheTTL (src/trading/data/cache.py).             *)
(*                                                                         *)
(* Time is in minutes, and stands still at the Horizon, where everything   *)
(* else goes on.  Rows without an entry price are not OPEN and stay out.   *)
(***************************************************************************)
EXTENDS Integers, FiniteSets, FiniteSetsExt, Sequences

CONSTANTS
  Records,    \* rows of shadow_executions that are OPEN
  TickerOf,   \* the symbol of each
  DueAt,      \* resolve_after of each
  Limit,      \* of list_due_for_resolution
  BarsAt,     \* the minutes the bars of a symbol begin
  Dead,       \* symbols no source answers for
  Lag,        \* minutes a source may be late
  CacheTTL,   \* HISTORICAL_TTL
  Session,    \* minutes of bars in an answer, the period "1d"
  Horizon,    \* bound: the last minute
  MaxHitches  \* bound: failures of sources and of the database, and crashes

Tickers == {TickerOf[r] : r \in Records}

ASSUME ShadowAssumption ==
  /\ IsFiniteSet(Records) /\ DueAt \in [Records -> Nat]
  /\ Limit \in Nat \ {0} /\ Dead \subseteq Tickers
  /\ BarsAt \in [Tickers -> SUBSET (0..Horizon)]
  /\ Lag \in Nat /\ CacheTTL \in Nat /\ Session \in Nat \ {0}
  /\ Horizon \in Nat /\ MaxHitches \in Nat

Never == -1

VARIABLES
  minute,   \* now
  rested,   \* the loop has slept its sixty seconds
  queue,    \* records of the sweep under way
  doing,    \* what it does with the first of them
  bars,     \* the bars it has got
  cache,    \* _cache of DataBus: per symbol the bars of an answer
  fresh,    \* the minutes they are kept for yet
  row,      \* resolution_status, with the bar a resolved row is priced at
  readAt,   \* history: the minute the bars a row is judged by were read
  hitches   \* how many have happened

shadowVars == <<minute, rested, queue, doing, bars, cache, fresh, row, readAt,
                hitches>>

Open == [status |-> "open", bar |-> Never]

ShadowTypeOK ==
  /\ minute \in 0..Horizon /\ rested \in BOOLEAN
  /\ queue \in Seq(Records) /\ doing \in {"nothing", "reading", "fetching", "marking"}
  /\ bars \subseteq 0..Horizon
  /\ cache \in [Tickers -> SUBSET (0..Horizon)] /\ fresh \in [Tickers -> 0..CacheTTL]
  /\ row \in [Records -> [status : {"open", "resolved", "insufficient"}, bar : Int]]
  /\ readAt \in [Records -> Int]
  /\ hitches \in 0..MaxHitches

ShadowInit ==
  /\ minute = 0 /\ rested = TRUE /\ queue = <<>> /\ doing = "nothing" /\ bars = {}
  /\ cache = [t \in Tickers |-> {}] /\ fresh = [t \in Tickers |-> 0]
  /\ row = [r \in Records |-> Open]
  /\ readAt = [r \in Records |-> Never]
  /\ hitches = 0

Ticker == TickerOf[Head(queue)]
Hitch == hitches < MaxHitches /\ hitches' = hitches + 1

-------------------------------------------------------------------------------
(* resolve_due, from the loop that calls it.                               *)

Due == {r \in Records : row[r].status = "open" /\ DueAt[r] <= minute}

\* The lists of some of the due rows, each row once and as many as the Limit allows.
Lists ==
  LET n == Cardinality(Due)
      s == [1..(IF n < Limit THEN n ELSE Limit) -> Due]
  IN {l \in s : \A i, j \in DOMAIN l : l[i] = l[j] => i = j}

\* Mutant: the latest first.
ListingsMutant ==
  {l \in Lists :
     \A j \in DOMAIN l, r \in Due :
       DueAt[r] > DueAt[l[j]] => \E i \in DOMAIN l : i < j /\ l[i] = r}

\* list_due_for_resolution, the earliest first: nothing orders rows that are due together.
Listings ==
  {l \in Lists :
     \A j \in DOMAIN l, r \in Due :
       DueAt[r] < DueAt[l[j]] => \E i \in DOMAIN l : i < j /\ l[i] = r}

Sweep ==
  /\ rested /\ doing = "nothing" /\ Due # {}
  /\ rested' = FALSE /\ queue' \in Listings /\ doing' = "reading"
  /\ UNCHANGED <<minute, bars, cache, fresh, row, readAt, hitches>>

\* get_historical finds the bars in its cache; no bars are bars as well.
CacheHit ==
  /\ doing = "reading" /\ fresh[Ticker] > 0
  /\ doing' = "marking" /\ bars' = cache[Ticker]
  /\ readAt' = [readAt EXCEPT ![Head(queue)] = minute]
  /\ UNCHANGED <<minute, rested, queue, cache, fresh, row, hitches>>

CacheMiss ==
  /\ doing = "reading" /\ fresh[Ticker] = 0 /\ doing' = "fetching"
  /\ UNCHANGED <<minute, rested, queue, bars, cache, fresh, row, readAt, hitches>>

\* What a source answers: the bars of the last Session, as far as it has them.
Answer(t, last) == {b \in BarsAt[t] : b > minute - Session /\ b <= last}

Keep(t) == fresh' = [fresh EXCEPT ![t] = CacheTTL]

Fetch ==
  /\ doing = "fetching" /\ doing' = "marking" /\ Ticker \notin Dead
  /\ \E last \in (minute - Lag)..minute : bars' = Answer(Ticker, last)
  /\ readAt' = [readAt EXCEPT ![Head(queue)] = minute]
  /\ cache' = [cache EXCEPT ![Ticker] = bars'] /\ Keep(Ticker)
  /\ UNCHANGED <<minute, rested, queue, row, hitches>>

\* _resolution_bar.
FirstFrom(due, bs) == {b \in bs : b >= due /\ \A d \in bs : d >= due => b <= d}

\* Mutant: the last bar, not the first.
VerdictMutant(r) ==
  LET found == {b \in bars : b >= DueAt[r]}
  IN IF found = {} THEN [status |-> "insufficient", bar |-> Never]
     ELSE [status |-> "resolved", bar |-> Max(found)]

Verdict(r) ==
  LET found == FirstFrom(DueAt[r], bars)
  IN IF found = {} THEN [status |-> "insufficient", bar |-> Never]
     ELSE [status |-> "resolved", bar |-> CHOOSE b \in found : TRUE]

\* mark_resolved, and on to the next.
MarkResolved ==
  /\ doing = "marking"
  /\ row' = [row EXCEPT ![Head(queue)] = Verdict(Head(queue))]
  /\ queue' = Tail(queue) /\ doing' = IF Len(queue) > 1 THEN "reading" ELSE "nothing"
  /\ bars' = {}
  /\ UNCHANGED <<minute, rested, cache, fresh, readAt, hitches>>

\* Whatever a record raises ends the sweep, and the loop sleeps.
SweepFails ==
  /\ \/ doing = "fetching" /\ Ticker \in Dead /\ UNCHANGED hitches
     \/ doing \in {"fetching", "marking"} /\ Hitch
  /\ queue' = <<>> /\ doing' = "nothing" /\ bars' = {}
  /\ UNCHANGED <<minute, rested, cache, fresh, row, readAt>>

-------------------------------------------------------------------------------

Minute ==
  /\ minute' = IF minute < Horizon THEN minute + 1 ELSE minute
  /\ rested' = TRUE
  /\ fresh' = [t \in Tickers |-> IF fresh[t] > 0 THEN fresh[t] - 1 ELSE 0]
  /\ UNCHANGED <<queue, doing, bars, cache, row, readAt, hitches>>

\* The rows are in the database; the loop and the cache begin anew.
ShadowRestarts ==
  /\ Hitch
  /\ rested' = TRUE /\ queue' = <<>> /\ doing' = "nothing" /\ bars' = {}
  /\ fresh' = [t \in Tickers |-> 0]
  /\ UNCHANGED <<minute, cache, row, readAt>>

Resolves == Sweep \/ CacheHit \/ CacheMiss \/ Fetch \/ MarkResolved \/ SweepFails
ShadowNext == Resolves \/ Minute \/ ShadowRestarts

\* The loop runs and time passes.
ShadowFairness == WF_shadowVars(Resolves) /\ WF_shadowVars(Minute)

ShadowSpec == ShadowInit /\ [][ShadowNext]_shadowVars /\ ShadowFairness

-------------------------------------------------------------------------------
(* Properties.                                                             *)

\* A row is given up for want of bars, for good, only when the first bar for it had come
\* within the life of an answer in the cache and the lateness of a source, or when the row
\* was looked at a whole session late; and a resolved row is priced at the first bar that is
\* not before its time, from whatever answer it was read.
VerdictsExplained ==
  \A r \in Records :
    /\ row[r].status = "resolved" => row[r].bar >= DueAt[r]
    /\ \A b \in BarsAt[TickerOf[r]] :
         DueAt[r] <= b /\ readAt[r] < b + Session =>
           /\ row[r].status = "insufficient" => readAt[r] < b + CacheTTL + Lag
           /\ row[r].status = "resolved" => row[r].bar <= b

\* Every row that is due ends, whatever fails for a while: unless its symbol, or that of a
\* row due no later, is one no source answers for, at which each sweep ends.
BehindDead(r) ==
  \E q \in Records :
    TickerOf[q] \in Dead /\ DueAt[q] <= DueAt[r] /\ row[q].status = "open"

RecordsEnd ==
  <>[](\A r \in Records : DueAt[r] <= minute => row[r].status # "open" \/ BehindDead(r))

===============================================================================
