---------------------------- MODULE CircuitBreaker ----------------------------
(***************************************************************************)
(* RiskProviderCircuitBreaker (src/trading/risk/circuit_breaker.py): calls *)
(* enter under its lock, run outside it side by side, and record how they  *)
(* ended under it again.  Nothing but its tests calls it yet.              *)
(***************************************************************************)
EXTENDS Naturals

CONSTANTS
  Clients,            \* tasks that call the provider, one call after the other
  FailureThreshold,   \* failures that open the circuit
  SuccessThreshold    \* successes that close it again

ASSUME BreakerAssumption ==
  FailureThreshold \in Nat \ {0} /\ SuccessThreshold \in Nat \ {0}

VARIABLES
  circuit,    \* state
  failures,   \* failure_count, as far as the threshold
  successes,  \* success_count
  lastFail,   \* last_failure_time: none, within the timeout, or before it
  calling,    \* the state a call under way was let in by, or "no"
  down,       \* the provider is down: until it recovers for good, calls may fail
  late        \* history: a call let in earlier has succeeded in the open circuit

breakerVars == <<circuit, failures, successes, lastFail, calling, down, late>>

BreakerTypeOK ==
  /\ circuit \in {"closed", "open", "half_open"}
  /\ failures \in 0..FailureThreshold /\ successes \in 0..SuccessThreshold
  /\ lastFail \in {"none", "recent", "past"}
  /\ calling \in [Clients -> {"no", "closed", "half_open"}]
  /\ down \in BOOLEAN /\ late \in BOOLEAN

BreakerInit ==
  /\ circuit = "closed" /\ failures = 0 /\ successes = 0 /\ lastFail = "none"
  /\ calling = [c \in Clients |-> "no"] /\ down = TRUE /\ late = FALSE

\* Rejected calls leave no trace.
Enter(c) ==
  /\ calling[c] = "no"
  /\ circuit = "open" => lastFail = "past"
  /\ circuit' = IF circuit = "open" THEN "half_open" ELSE circuit
  /\ successes' = IF circuit = "open" THEN 0 ELSE successes
  /\ calling' = [calling EXCEPT ![c] = circuit']
  /\ UNCHANGED <<failures, lastFail, down, late>>

\* _record_success, whenever the call was let in.
Succeeds(c) ==
  /\ calling[c] # "no" /\ calling' = [calling EXCEPT ![c] = "no"]
  /\ failures' = 0 /\ lastFail' = "none"
  /\ IF circuit = "half_open"
     THEN /\ successes' = successes + 1
          /\ circuit' = IF successes' >= SuccessThreshold THEN "closed" ELSE circuit
     ELSE UNCHANGED <<circuit, successes>>
  /\ late' = (late \/ circuit = "open")
  /\ UNCHANGED down

\* Mutant: an open circuit is not timed.
RecordFailureMutant(c) ==
  /\ down
  /\ calling[c] # "no" /\ calling' = [calling EXCEPT ![c] = "no"]
  /\ failures' = IF failures = FailureThreshold THEN failures ELSE failures + 1
  /\ lastFail' = IF circuit = "half_open" THEN lastFail ELSE "recent"
  /\ circuit' = IF circuit = "half_open" \/ failures' = FailureThreshold THEN "open" ELSE circuit
  /\ UNCHANGED <<successes, down, late>>

\* _record_failure.
RecordFailure(c) ==
  /\ down
  /\ calling[c] # "no" /\ calling' = [calling EXCEPT ![c] = "no"]
  /\ failures' = IF failures = FailureThreshold THEN failures ELSE failures + 1
  /\ lastFail' = "recent"
  /\ circuit' = IF circuit = "half_open" \/ failures' = FailureThreshold THEN "open" ELSE circuit
  /\ UNCHANGED <<successes, down, late>>

\* reset, by hand.
Reset ==
  /\ circuit' = "closed" /\ failures' = 0 /\ successes' = 0 /\ lastFail' = "none"
  /\ late' = FALSE
  /\ UNCHANGED <<calling, down>>

ProviderRecovers ==
  /\ down /\ down' = FALSE
  /\ UNCHANGED <<circuit, failures, successes, lastFail, calling, late>>

TimeoutPasses ==
  /\ lastFail = "recent" /\ lastFail' = "past"
  /\ UNCHANGED <<circuit, failures, successes, calling, down, late>>

Ends(c) == Succeeds(c) \/ RecordFailure(c)

BreakerNext ==
  \/ \E c \in Clients : Enter(c) \/ Ends(c)
  \/ Reset \/ ProviderRecovers \/ TimeoutPasses

\* Time passes, calls end, and there are always more of them.
BreakerFairness ==
  /\ WF_breakerVars(TimeoutPasses)
  /\ WF_breakerVars(\E c \in Clients : Enter(c))
  /\ \A c \in Clients : WF_breakerVars(Ends(c))

BreakerSpec == BreakerInit /\ [][BreakerNext]_breakerVars /\ BreakerFairness

-------------------------------------------------------------------------------
(* Properties.                                                             *)

\* The open circuit has a failure to count its timeout from, unless a call let in before
\* it opened has succeeded since.
OpenIsTimed == circuit = "open" /\ lastFail = "none" => late

\* Once the provider has recovered the circuit closes in the end: it does not stay open
\* for want of a time to count from, unless a call let in before it opened has succeeded
\* in the open circuit and stopped the clock.
Recovers == ~down ~> circuit = "closed" \/ late

===============================================================================
