------------------------------- MODULE MCBooks -------------------------------
(***************************************************************************)
(* Components with fairness that share no state, checked by one run: a     *)
(* behaviour is of one of them, chosen at the start, and the others stay   *)
(* as they begin.                                                          *)
(***************************************************************************)
EXTENDS PaperLedger, CircuitBreaker, LlmBudget, ShadowBook

CONSTANTS
  Parts,                 \* those a run is about
  f1, f2,                \* the fills of PaperLedger
  r1, r2, r3, r4, x, y   \* the rows of ShadowBook and their symbols

\* One contract is bought, and four are sold, which turns a position of three round.
Contracts == [f \in Fills |-> IF f = f1 THEN 1 ELSE -4]
Cents == [f \in Fills |-> IF f = f1 THEN 30 ELSE 60]

\* Of four rows, due one after the other, the third is of a symbol that is dead.
Symbols == [r \in Records |-> IF r = r3 THEN y ELSE x]
Minutes == [r \in Records |-> CASE r = r1 -> 1 [] r = r2 -> 2 [] r = r3 -> 3 [] r = r4 -> 4]
BarTimes == [t \in Tickers |-> IF t = x THEN {0, 1, 3, 6} ELSE {0, 5}]

VARIABLE part

booksVars == <<part, ledgerVars, breakerVars, llmVars, shadowVars>>

\* The ledger at rest: nothing that is fair has to happen in it.
LedgerRest == LedgerInit /\ kind = "paper" /\ shared /\ book = Nothing

BooksInit ==
  /\ part \in Parts
  /\ IF part = "ledger" THEN LedgerInit ELSE LedgerRest
  /\ BreakerInit /\ LlmInit /\ ShadowInit

BooksNext ==
  /\ UNCHANGED part
  /\ \/ part = "ledger" /\ LedgerNext /\ UNCHANGED <<breakerVars, llmVars, shadowVars>>
     \/ part = "breaker" /\ BreakerNext /\ UNCHANGED <<ledgerVars, llmVars, shadowVars>>
     \/ part = "llm" /\ LlmNext /\ UNCHANGED <<ledgerVars, breakerVars, shadowVars>>
     \/ part = "shadow" /\ ShadowNext /\ UNCHANGED <<ledgerVars, breakerVars, llmVars>>

\* What LedgerFairness, BreakerFairness, LlmFairness and ShadowFairness say of each.
BooksSpec ==
  /\ BooksInit /\ [][BooksNext]_booksVars
  /\ WF_ledgerVars(part = "ledger" /\ PollStep)
  /\ \A f \in Fills : WF_ledgerVars(part = "ledger" /\ at[f] # "idle" /\ FillStep(f))
  /\ WF_breakerVars(part = "breaker" /\ TimeoutPasses)
  /\ WF_breakerVars(part = "breaker" /\ \E c \in Clients : Enter(c))
  /\ \A c \in Clients : WF_breakerVars(part = "breaker" /\ Ends(c))
  /\ WF_llmVars(part = "llm" /\ Tick)
  /\ \A c \in Calls : WF_llmVars(part = "llm" /\ Expire(c))
  /\ WF_shadowVars(part = "shadow" /\ Resolves)
  /\ WF_shadowVars(part = "shadow" /\ Minute)

===============================================================================
