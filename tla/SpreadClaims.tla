----------------------------- MODULE SpreadClaims -----------------------------
(***************************************************************************)
(* Who may trade an observed spread: the claims of SpreadStore             *)
(* (src/trading/storage/spreads.py), and the two kinds of client that take *)
(* them, ArbExecutor (src/trading/execution/arb_executor.py), which reads  *)
(* arb.spread events one by one, and the requests POST /arb/execute        *)
(* (src/trading/api/routes/arbitrage.py), which run beside it and beside   *)
(* one another.  What a client does with its claim, ArbCoordinator's       *)
(* execute_arbitrage, is the single stage "executing" here.                *)
(*                                                                         *)
(* A claim is one UPDATE; it is good for two minutes.  Time is abstract:   *)
(* Lapse is the moment a claim gets too old.                               *)
(***************************************************************************)
EXTENDS Naturals, Sequences

CONSTANTS
  Observations,  \* ids of rows of arb_spread_observations
  Pairs,         \* (Kalshi ticker, Polymarket ticker)
  PairOf,        \* the pair an observation is of
  Kalshi, Poly,  \* its two prices, in cents
  Requests,      \* calls of POST /arb/execute
  Executor,      \* the one ArbExecutor
  QueueLimit,    \* MAX_QUEUE_SIZE of the executor's event queue
  ClaimFaults    \* what may go wrong

ClaimFaultKinds == {"slow", "read", "store", "crash"}

ASSUME ClientAssumption == Executor \notin Requests
ASSUME MarketAssumption ==
  /\ PairOf \in [Observations -> Pairs]
  /\ Kalshi \in [Observations -> 1..99] /\ Poly \in [Observations -> 1..99]
ASSUME QueueAssumption == QueueLimit \in Nat \ {0}
ASSUME ClaimFaultAssumption == ClaimFaults \subseteq ClaimFaultKinds

Clients == Requests \cup {Executor}

VARIABLES
  scan,     \* what the scan has done with an observation
  queue,    \* the executor's queue on the event bus
  claimed,  \* is_claimed
  stale,    \* claimed_at is more than two minutes ago
  stage,       \* where a client stands
  obs,      \* the observation it deals with
  sells,    \* the venue on which its trade sells
  active,   \* ArbExecutor._active_trades
  holder,   \* history: who set is_claimed last
  exposed,  \* history: observations whose claim a client lost while it relied on it, or
            \* after it had traded them
  done      \* history: traded by a request whose claim has not lapsed since

table == <<claimed, stale, holder>>
client == <<stage, obs, sells>>
claimsVars == <<scan, queue, table, client, active, exposed, done>>

ClientPlaces == {"idle", "claiming", "fetching", "clearing", "again",
       "executing", "releasing", "ended"}

ClaimsTypeOK ==
  /\ scan \in [Observations -> {"new", "recorded", "published"}]
  /\ queue \in Seq(Observations) /\ Len(queue) <= QueueLimit
  /\ claimed \in [Observations -> BOOLEAN]
  /\ stale \in [Observations -> BOOLEAN]
  /\ holder \in [Observations -> Clients \cup {"nobody"}]
  /\ stage \in [Clients -> ClientPlaces]
  /\ obs \in [Clients -> Observations \cup {"none"}]
  /\ \A c \in Clients : stage[c] \notin {"idle", "ended"} => obs[c] \in Observations
  /\ sells \in [Clients -> {"none", "kalshi", "polymarket"}]
  /\ active \subseteq Pairs
  /\ exposed \subseteq Observations
  /\ done \subseteq Observations

ClaimsInit ==
  /\ scan = [o \in Observations |-> "new"]
  /\ queue = <<>>
  /\ claimed = [o \in Observations |-> FALSE]
  /\ stale = [o \in Observations |-> FALSE]
  /\ holder = [o \in Observations |-> "nobody"]
  /\ stage = [c \in Clients |-> "idle"]
  /\ obs = [c \in Clients |-> "none"]
  /\ sells = [c \in Clients |-> "none"]
  /\ active = {}
  /\ exposed = {}
  /\ done = {}

\* The client relies on having its observation to itself.
Holds(c) == stage[c] \in {"fetching", "clearing", "executing", "releasing"}
Rest(c) == IF c = Executor THEN "idle" ELSE "ended"
ClientGoes(c, from, to) == stage[c] = from /\ stage' = [stage EXCEPT ![c] = to]

-------------------------------------------------------------------------------
(* The scan and the event bus.                                             *)

RecordSpread(o) ==
  /\ scan[o] = "new"
  /\ scan' = [scan EXCEPT ![o] = "recorded"]
  /\ UNCHANGED <<queue, table, client, active, exposed, done>>

Enqueue(q, o) == Append(IF Len(q) >= QueueLimit THEN Tail(q) ELSE q, o)

\* Only a gap over the threshold is published; the others stay "recorded".
Publish(o) ==
  /\ scan[o] = "recorded"
  /\ scan' = [scan EXCEPT ![o] = "published"]
  /\ queue' = Enqueue(queue, o)
  /\ UNCHANGED <<table, client, active, exposed, done>>

-------------------------------------------------------------------------------
(* SpreadStore.                                                            *)

\* Mutant: the UPDATE does not look at is_claimed.
ClaimableMutant(o) == scan[o] # "new"
\* Mutant: the UPDATE does not look at claimed_at.
NeverStaleMutant(o) == scan[o] # "new" /\ ~claimed[o]

Claimable(o) == scan[o] # "new" /\ (~claimed[o] \/ stale[o])

SetClaim(c, o) ==
  /\ claimed' = [claimed EXCEPT ![o] = TRUE]
  /\ stale' = [stale EXCEPT ![o] = FALSE]
  /\ holder' = [holder EXCEPT ![o] = c]

\* release_spread does not ask whose claim it is.
ClearClaim(c, o) ==
  /\ claimed' = [claimed EXCEPT ![o] = FALSE]
  /\ exposed' = IF o \in done \/ \E d \in Clients \ {c} : Holds(d) /\ obs[d] = o
                THEN exposed \cup {o} ELSE exposed
  /\ UNCHANGED <<stale, holder>>

\* Two minutes pass.  Unless executions may be slow, no client is that long.
Lapse(o) ==
  /\ claimed[o] /\ ~stale[o]
  /\ LET relied == \E c \in Clients : Holds(c) /\ obs[c] = o IN
       /\ "slow" \in ClaimFaults \/ ~relied
       /\ exposed' = IF relied THEN exposed \cup {o} ELSE exposed
  /\ stale' = [stale EXCEPT ![o] = TRUE]
  /\ done' = done \ {o}
  /\ UNCHANGED <<scan, queue, claimed, holder, client, active>>

-------------------------------------------------------------------------------
(* The clients up to their claim.                                          *)

\* Shadow mode, an event without an observation id worth trading, or a pair
\* being traded: the event is dropped.
Skip ==
  /\ stage[Executor] = "idle" /\ queue # <<>>
  /\ queue' = Tail(queue)
  /\ UNCHANGED <<scan, table, client, active, exposed, done>>

Consider ==
  /\ queue # <<>>
  /\ PairOf[Head(queue)] \notin active
  /\ ClientGoes(Executor, "idle", "claiming")
  /\ obs' = [obs EXCEPT ![Executor] = Head(queue)]
  /\ queue' = Tail(queue)
  /\ UNCHANGED <<scan, table, sells, active, exposed, done>>

\* The id is the caller's: it may be of an observation that is not recorded yet.
Ask(r, o) ==
  /\ ClientGoes(r, "idle", "claiming")
  /\ obs' = [obs EXCEPT ![r] = o]
  /\ UNCHANGED <<scan, queue, table, sells, active, exposed, done>>

\* The gap the scan publishes is an absolute value.
Gap(o) == IF Kalshi[o] > Poly[o] THEN Kalshi[o] - Poly[o] ELSE Poly[o] - Kalshi[o]

\* ArbExecutor goes by the sign of the gap, the route by the prices.
SellingVenue(c, o) ==
  IF c = Executor THEN IF Gap(o) > 0 THEN "kalshi" ELSE "polymarket"
  ELSE IF Kalshi[o] <= Poly[o] THEN "polymarket" ELSE "kalshi"

\* The executor goes on with the event's data, a request reads the row first.
ExecutorClaims ==
  LET o == obs[Executor] IN
  /\ ClientGoes(Executor, "claiming", "executing")
  /\ Claimable(o)
  /\ SetClaim(Executor, o)
  /\ active' = active \cup {PairOf[o]}
  /\ sells' = [sells EXCEPT ![Executor] = SellingVenue(Executor, o)]
  /\ UNCHANGED <<scan, queue, obs, exposed, done>>

RequestClaims(r) ==
  /\ ClientGoes(r, "claiming", "fetching")
  /\ Claimable(obs[r])
  /\ SetClaim(r, obs[r])
  /\ UNCHANGED <<scan, queue, obs, sells, active, exposed, done>>

\* The executor goes on with its next event, a request answers 409.
ClaimRefused(c) ==
  /\ ClientGoes(c, "claiming", Rest(c))
  /\ ~Claimable(obs[c])
  /\ UNCHANGED <<scan, queue, table, obs, sells, active, exposed, done>>

\* The UPDATE raises, and may have been applied: the claim is nobody's.
ClaimRaises(c) ==
  /\ "store" \in ClaimFaults
  /\ ClientGoes(c, "claiming", Rest(c))
  /\ \/ UNCHANGED table
     \/ Claimable(obs[c]) /\ SetClaim(c, obs[c])
  /\ UNCHANGED <<scan, queue, obs, sells, active, exposed, done>>

-------------------------------------------------------------------------------
(* The clients after their claim.                                          *)

Fetch(r) ==
  /\ ClientGoes(r, "fetching", "executing")
  /\ sells' = [sells EXCEPT ![r] = SellingVenue(r, obs[r])]
  /\ UNCHANGED <<scan, queue, table, obs, active, exposed, done>>

\* get_observation swallows an exception and returns None, as for no row.
FetchFails(r) ==
  /\ "read" \in ClaimFaults
  /\ ClientGoes(r, "fetching", "clearing")
  /\ UNCHANGED <<scan, queue, table, obs, sells, active, exposed, done>>

\* The route releases before it raises 404; its own handler catches that
\* HTTPException, as it would one of the release, and releases again.
Clear(r) ==
  /\ ClientGoes(r, "clearing", "again")
  /\ \/ ClearClaim(r, obs[r])
     \/ "store" \in ClaimFaults /\ UNCHANGED <<table, exposed>>
  /\ UNCHANGED <<scan, queue, obs, sells, active, done>>

\* SequencingStrategy(req.sequencing) raises.
BadSequencing(r) ==
  /\ ClientGoes(r, "fetching", "releasing")
  /\ UNCHANGED <<scan, queue, table, obs, sells, active, exposed, done>>

\* execute_arbitrage returns or raises: the executor releases either way.
ExecutorFinishes ==
  /\ ClientGoes(Executor, "executing", "releasing")
  /\ active' = active \ {PairOf[obs[Executor]]}
  /\ sells' = [sells EXCEPT ![Executor] = "none"]
  /\ UNCHANGED <<scan, queue, table, obs, exposed, done>>

\* Mutant: the route releases in a finally, as the executor does.
RequestFinishesMutant(r) ==
  /\ ClientGoes(r, "executing", "releasing")
  /\ sells' = [sells EXCEPT ![r] = "none"]
  /\ done' = done \cup {obs[r]}
  /\ UNCHANGED <<scan, queue, table, obs, active, exposed>>

\* Whether the trade completed or failed, the request keeps its claim.
RequestFinishes(r) ==
  /\ ClientGoes(r, "executing", "ended")
  /\ sells' = [sells EXCEPT ![r] = "none"]
  /\ done' = done \cup {obs[r]}
  /\ UNCHANGED <<scan, queue, table, obs, active, exposed>>

\* execute_arbitrage raises when it cannot write the failure of a trade.
RequestRaises(r) ==
  /\ "store" \in ClaimFaults
  /\ ClientGoes(r, "executing", "releasing")
  /\ sells' = [sells EXCEPT ![r] = "none"]
  /\ UNCHANGED <<scan, queue, table, obs, active, exposed, done>>

Release(c) ==
  /\ \E from \in {"releasing", "again"} : ClientGoes(c, from, Rest(c))
  /\ \/ ClearClaim(c, obs[c])
     \/ "store" \in ClaimFaults /\ UNCHANGED <<table, exposed>>
  /\ UNCHANGED <<scan, queue, obs, sells, active, done>>

\* The process dies: the table is all that is left.
ProcessDies ==
  /\ "crash" \in ClaimFaults
  /\ stage[Executor] # "idle" \/ \E r \in Requests : stage[r] \notin {"idle", "ended"}
  /\ stage' = [c \in Clients |-> IF stage[c] = "idle" THEN "idle" ELSE Rest(c)]
  /\ sells' = [c \in Clients |-> "none"]
  /\ queue' = <<>>
  /\ active' = {}
  /\ UNCHANGED <<scan, table, obs, exposed, done>>

-------------------------------------------------------------------------------

ExecutorStep ==
  Skip \/ Consider \/ ExecutorClaims \/ ClaimRefused(Executor) \/ ClaimRaises(Executor)
       \/ ExecutorFinishes \/ Release(Executor)

RequestStep(r) ==
  \/ RequestClaims(r) \/ ClaimRefused(r) \/ ClaimRaises(r)
  \/ Fetch(r) \/ FetchFails(r) \/ Clear(r) \/ BadSequencing(r)
  \/ RequestFinishes(r) \/ RequestRaises(r) \/ Release(r)

ClaimsNext ==
  \/ \E o \in Observations : RecordSpread(o) \/ Publish(o) \/ Lapse(o)
  \/ ExecutorStep
  \/ \E r \in Requests : RequestStep(r) \/ \E o \in Observations : Ask(r, o)
  \/ ProcessDies

ClaimsSpec == ClaimsInit /\ [][ClaimsNext]_claimsVars

\* Time passes, the loop of the executor runs, and a request that was accepted is
\* served to its end (each call of ArbCoordinator ends: ArbCoordinator!CallsEnd).
ClaimsFairSpec ==
  /\ ClaimsSpec
  /\ \A o \in Observations : WF_claimsVars(Lapse(o))
  /\ WF_claimsVars(ExecutorStep)
  /\ \A r \in Requests : WF_claimsVars(RequestStep(r))

-------------------------------------------------------------------------------
(* Properties.                                                             *)

Trading(c, o) == stage[c] = "executing" /\ obs[c] = o

\* "Prevent double-execution": no observation is traded by two clients at once,
\* which is what the claim is for.
AtMostOneExecutor ==
  \A o \in Observations, c, d \in Clients : Trading(c, o) /\ Trading(d, o) => c = d

\* Whatever goes wrong, two clients trade one observation at once only if a claim
\* lapsed, or was released by another client, while its holder relied on it.
OverlapExplained ==
  \A o \in Observations, c, d \in Clients :
    Trading(c, o) /\ Trading(d, o) /\ o \notin exposed => c = d

\* An observation traded by a request stays taken until its claim lapses: the
\* executor, or a repeated request, does not trade it a second time before, unless another
\* client has released that claim.
DoneStaysTaken ==
  \A o \in done \ exposed, c \in Clients : ~(Holds(c) /\ obs[c] = o)

\* No claim is forever: whoever died or gave up holding it, it can be taken again.
ClaimsEnd == \A o \in Observations : claimed[o] ~> Claimable(o)

\* A trade sells on the venue with the higher price.
SellsTheDearer ==
  \A c \in Clients, o \in Observations : Trading(c, o) =>
    /\ sells[c] = "kalshi" => Kalshi[o] >= Poly[o]
    /\ sells[c] = "polymarket" => Poly[o] >= Kalshi[o]

==============================================================================
