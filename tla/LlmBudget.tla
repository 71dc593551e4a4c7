------------------------------ MODULE LlmBudget ------------------------------
(***************************************************************************)
(* The ceiling on what language models cost: CostLedger                    *)
(* (src/trading/llm/cost_ledger.py), two keys of Redis that expire, and    *)
(* the calls of LLMClient (src/trading/llm/client.py) that go by them.     *)
(*                                                                         *)
(* A call resolves its chain, asks the paid provider or, when that fails   *)
(* or is blocked, a free one, and if it is metered adds what it cost.  The *)
(* first to find the ceiling reached stores a deadline, after which the    *)
(* paid provider is blocked.  Every statement of Redis is a step; any may  *)
(* fail.  The costs of each agent, which limit nothing, are left out.      *)
(***************************************************************************)
EXTENDS Integers

CONSTANTS
  Calls,       \* tasks that call a language model, one call after the other
  Metered,     \* those whose calls are recorded: complete and chat
  Cost,        \* cents a paid answer costs
  Budget,      \* daily_budget_cents
  Window,      \* ticks of a day, _TTL_24H
  Grace,       \* ticks of grace_period_minutes
  MaxFails,    \* failures that disable a provider
  MaxTroubles, \* bound: failures of Redis and crashes
  MaxCents     \* bound: calls begin while what was recorded leaves room for them

ASSUME BudgetAssumption ==
  /\ Metered \subseteq Calls
  /\ Cost \in Nat \ {0} /\ Budget \in Nat \ {0}
  /\ Grace \in Nat \ {0} /\ Window \in Nat /\ Grace < Window
  /\ MaxFails \in Nat \ {0} /\ MaxTroubles \in Nat /\ MaxCents \in Nat

Forever == -1  \* TTL of a key without expiry

VARIABLES
  spent,     \* llm:cost:global, 0 when there is no such key
  expiry,    \* the ticks that key has left, Forever, or 0 when there is none
  marked,    \* the same for llm:cost:grace_deadline
  grace,     \* ticks to the deadline it holds
  local,     \* _local["global"]
  fails,     \* _fail_counts of the paid provider, disabled at MaxFails
  step,      \* where a call stands
  overFor,   \* history: ticks since the ceiling was reached in this window, up to Grace
  carried,   \* history: this window began with a deadline of the one before
  troubles   \* how often Redis has failed or the process died

llmVars == <<spent, expiry, marked, grace, local, fails, step, overFor, carried, troubles>>

Steps == {"idle", "resolving", "asked", "free", "count", "expire", "weigh", "check", "set",
          "alert", "recheck", "reset"}

LlmTypeOK ==
  /\ spent \in Nat /\ local \in Nat
  /\ expiry \in 0..Window \cup {Forever} /\ marked \in 0..Window \cup {Forever}
  /\ grace \in 0..Grace /\ fails \in 0..MaxFails
  /\ step \in [Calls -> Steps]
  /\ overFor \in 0..Grace /\ carried \in BOOLEAN /\ troubles \in 0..MaxTroubles

LlmInit ==
  /\ spent = 0 /\ expiry = 0 /\ marked = 0 /\ grace = 0 /\ local = 0 /\ fails = 0
  /\ step = [c \in Calls |-> "idle"]
  /\ overFor = 0 /\ carried = FALSE /\ troubles = 0

Goes(c, from, to) == step[c] = from /\ step' = [step EXCEPT ![c] = to]
Trouble == troubles < MaxTroubles /\ troubles' = troubles + 1

\* get_global_spend: what a failing Redis cannot tell, the process's own sum does.
Spend(v) ==
  \/ v = spent /\ UNCHANGED troubles
  \/ v = local /\ Trouble

-------------------------------------------------------------------------------
(* complete and chat, score_headline, estimate_probability,                *)
(* structured_complete.                                                    *)

\* The first provider of the chain that is not disabled.
FirstLive == IF fails < MaxFails THEN "asked" ELSE "free"

\* _resolve_chain begins: below the ceiling nothing is blocked.
Resolve(c) ==
  /\ spent + local + Cost <= MaxCents
  /\ \E v \in {spent, local} :
       Spend(v) /\ Goes(c, "idle", IF v < Budget THEN FirstLive ELSE "resolving")
  /\ UNCHANGED <<spent, expiry, marked, grace, local, fails, overFor, carried>>

\* should_block_paid: only a deadline that is there and has passed blocks.
Deadline(c) ==
  /\ \/ /\ Goes(c, "resolving", IF marked # 0 /\ grace = 0 THEN "free" ELSE FirstLive)
        /\ UNCHANGED troubles
     \/ Goes(c, "resolving", FirstLive) /\ Trouble
  /\ UNCHANGED <<spent, expiry, marked, grace, local, fails, overFor, carried>>

PaidAnswers(c) ==
  /\ Goes(c, "asked", IF c \in Metered THEN "count" ELSE "idle")
  /\ fails' = 0
  /\ UNCHANGED <<spent, expiry, marked, grace, local, overFor, carried, troubles>>

PaidFails(c) ==
  /\ Goes(c, "asked", "free")
  /\ fails' = IF fails < MaxFails THEN fails + 1 ELSE fails
  /\ UNCHANGED <<spent, expiry, marked, grace, local, overFor, carried, troubles>>

\* A free answer that counts its tokens costs nothing and is followed by the same alert; a
\* call that nobody answers falls back to rules.
FreeAnswers(c) ==
  /\ \/ Goes(c, "free", "idle")
     \/ c \in Metered /\ Goes(c, "free", "alert")
  /\ UNCHANGED <<spent, expiry, marked, grace, local, fails, overFor, carried, troubles>>

-------------------------------------------------------------------------------
(* record, and check_thresholds after it.                                  *)

\* INCRBYFLOAT makes a key without expiry where there is none.
Adds ==
  /\ spent' = spent + Cost
  /\ expiry' = IF expiry = 0 THEN Forever ELSE expiry

Count(c) ==
  /\ Goes(c, "count", "expire") /\ Adds
  /\ UNCHANGED <<marked, grace, local, fails, overFor, carried, troubles>>

Expires == IF expiry = Forever THEN Window ELSE expiry

Expire(c) ==
  /\ Goes(c, "expire", "weigh") /\ expiry' = Expires
  /\ UNCHANGED <<spent, marked, grace, local, fails, overFor, carried, troubles>>

\* What fails before or after it was done goes into the process's own sum as well.
RecordFails(c) ==
  /\ Trouble /\ local' = local + Cost
  /\ \/ /\ Goes(c, "count", "alert")
        /\ Adds \/ UNCHANGED <<spent, expiry>>
     \/ /\ Goes(c, "expire", "alert")
        /\ expiry' \in {expiry, Expires} /\ UNCHANGED spent
  /\ UNCHANGED <<marked, grace, fails, overFor, carried>>

\* _maybe_set_grace_deadline comes twice, in record and in check_thresholds.
Rounds == {<<"weigh", "check", "set", "alert">>, <<"alert", "recheck", "reset", "idle">>}

\* Mutant: the deadline is set with the warning, before the ceiling is reached.
WeighMutant(c) ==
  /\ \E r \in Rounds, v \in {spent, local} :
       Spend(v) /\ Goes(c, r[1], IF v + Cost >= Budget THEN r[2] ELSE r[4])
  /\ UNCHANGED <<spent, expiry, marked, grace, local, fails, overFor, carried>>

Weigh(c) ==
  /\ \E r \in Rounds, v \in {spent, local} :
       Spend(v) /\ Goes(c, r[1], IF v >= Budget THEN r[2] ELSE r[4])
  /\ UNCHANGED <<spent, expiry, marked, grace, local, fails, overFor, carried>>

Check(c) ==
  /\ \E r \in Rounds :
       \/ Goes(c, r[2], IF marked # 0 THEN r[4] ELSE r[3]) /\ UNCHANGED troubles
       \/ Goes(c, r[2], r[4]) /\ Trouble
  /\ UNCHANGED <<spent, expiry, marked, grace, local, fails, overFor, carried>>

\* Mutant: SET, without expiry.
SetForeverMutant == marked' = Forever /\ grace' = Grace

\* SETEX.
SetDeadline == marked' = Window /\ grace' = Grace

StoreDeadline(c) ==
  /\ \E r \in Rounds :
       \/ Goes(c, r[3], r[4]) /\ SetDeadline /\ UNCHANGED troubles
       \/ /\ Goes(c, r[3], r[4]) /\ Trouble
          /\ SetDeadline \/ UNCHANGED <<marked, grace>>
  /\ UNCHANGED <<spent, expiry, local, fails, overFor, carried>>

-------------------------------------------------------------------------------
(* Time and crashes.                                                       *)

Less(n) == IF n > 0 THEN n - 1 ELSE n
Marking(c) == step[c] \in {"check", "set", "recheck", "reset"}

\* A tick is some minutes: the two statements that count a cost and make it expire fall
\* into one, unless the second fails.
Tick ==
  /\ \A c \in Calls : step[c] # "expire"
  /\ expiry' = Less(expiry) /\ marked' = Less(marked) /\ grace' = Less(grace)
  /\ spent' = IF expiry = 1 THEN 0 ELSE spent
  /\ overFor' = IF spent' < Budget THEN 0 ELSE IF overFor < Grace THEN overFor + 1 ELSE Grace
  /\ carried' = IF expiry = 1 THEN marked' # 0 \/ \E c \in Calls : Marking(c) ELSE carried
  /\ UNCHANGED <<local, fails, step, troubles>>

LlmRestarts ==
  /\ Trouble
  /\ local' = 0 /\ fails' = 0 /\ step' = [c \in Calls |-> "idle"]
  /\ UNCHANGED <<spent, expiry, marked, grace, overFor, carried>>

LlmNext ==
  \/ \E c \in Calls :
       \/ Resolve(c) \/ Deadline(c) \/ PaidAnswers(c) \/ PaidFails(c) \/ FreeAnswers(c)
       \/ Count(c) \/ Expire(c) \/ RecordFails(c) \/ Weigh(c) \/ Check(c) \/ StoreDeadline(c)
  \/ Tick \/ LlmRestarts

\* Time passes, and what was sent to Redis is answered.
LlmFairness == WF_llmVars(Tick) /\ \A c \in Calls : WF_llmVars(Expire(c))

LlmSpec == LlmInit /\ [][LlmNext]_llmVars /\ LlmFairness

-------------------------------------------------------------------------------
(* Properties.                                                             *)

\* should_block_paid answers yes.
Blocked == spent >= Budget /\ marked # 0 /\ grace = 0

\* While Redis answers, paid providers are blocked early only by the deadline of a window
\* before: the key outlives the sum it was set for.
EarlyBlockExplained == Blocked => overFor >= Grace \/ carried \/ troubles > 0

\* The grace period of the design: paid providers are blocked only after the ceiling has
\* been reached for that long.  It does not hold, see EarlyBlockExplained.
BlockedAfterGrace == Blocked => overFor >= Grace

\* While Redis answers, a block lasts as long as the sum it is for, unless its deadline is
\* of a window before and expires first, or is replaced by a call that had found none.
BlockLasts ==
  [][Blocked /\ ~Blocked' =>
       spent' = 0 \/ carried \/ troubles > 0 \/ \E c \in Calls : step[c] \in {"set", "reset"}]_llmVars

\* No block is for ever, even when the sum has no expiry and nothing paid is recorded that
\* would give it one: the deadline's key expires.
BlockEnds == Blocked ~> ~Blocked

===============================================================================
