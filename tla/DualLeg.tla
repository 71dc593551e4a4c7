------------------------------- MODULE DualLeg -------------------------------
(***************************************************************************)
(* What a dual-leg arbitrage promises, with nothing said of how it is      *)
(* executed: a trade opens positions on its legs, and its verdict is       *)
(* "completed" only with both of them held and "unwound" or "failed" only  *)
(* with none.  ArbCoordinator implements this as long as no call times     *)
(* out, no write to the database fails and the brokers fill the market     *)
(* orders that close a leg.                                                *)
(***************************************************************************)
CONSTANTS Trades, Legs

VARIABLES
  held,     \* held[t]: the legs of t on which a position is open
  verdict   \* verdict[t]: what is recorded of t once it has ended

vars == <<held, verdict>>

Verdicts == {"open", "completed", "unwound", "failed"}

TypeOK ==
  /\ held \in [Trades -> SUBSET Legs]
  /\ verdict \in [Trades -> Verdicts]

Init ==
  /\ held = [t \in Trades |-> {}]
  /\ verdict = [t \in Trades |-> "open"]

Open(t, l) ==
  /\ verdict[t] = "open"
  /\ l \notin held[t]
  /\ held' = [held EXCEPT ![t] = @ \cup {l}]
  /\ UNCHANGED verdict

\* A leg is given back only while it is the only one: a hedged trade is kept.
Close(t, l) ==
  /\ verdict[t] = "open"
  /\ held[t] = {l}
  /\ held' = [held EXCEPT ![t] = {}]
  /\ UNCHANGED verdict

Commit(t) ==
  /\ verdict[t] = "open"
  /\ held[t] = Legs
  /\ verdict' = [verdict EXCEPT ![t] = "completed"]
  /\ UNCHANGED held

Abort(t) ==
  /\ verdict[t] = "open"
  /\ held[t] = {}
  /\ verdict' \in {[verdict EXCEPT ![t] = v] : v \in {"unwound", "failed"}}
  /\ UNCHANGED held

Next ==
  \E t \in Trades :
    \/ \E l \in Legs : Open(t, l) \/ Close(t, l)
    \/ Commit(t)
    \/ Abort(t)

Spec == Init /\ [][Next]_vars

==============================================================================
