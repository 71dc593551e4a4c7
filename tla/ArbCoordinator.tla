---------------------------- MODULE ArbCoordinator ----------------------------
(***************************************************************************)
(* ArbCoordinator (src/trading/execution/arbitrage.py) and the ArbStore it *)
(* writes to (src/trading/storage/arbitrage.py): the two legs of a trade   *)
(* are sent to two brokers at once, each under a timeout, and a leg that   *)
(* succeeds alone is closed with an opposite market order.                 *)
(*                                                                         *)
(* An action ends where execute_arbitrage awaits a broker or the store.    *)
(* The brokers are external; what they may answer is a constant, because   *)
(* the adapters differ: the paper brokers fill a LimitOrder and reject     *)
(* every MarketOrder, the live ones raise on a MarketOrder.  The event bus *)
(* never waits and the journal never raises: neither has a state here.     *)
(* The store's database is PostgresDB: each statement commits by itself.   *)
(*                                                                         *)
(* An operator named ...Mutant is no part of the specification: it is a    *)
(* mistake one could make in the definition after it, and the properties   *)
(* notice it.                                                              *)
(***************************************************************************)
CONSTANTS
  Trades,         \* the trades handed to execute_arbitrage
  LegReplies,     \* what a broker makes of a leg's order
  UnwindReplies,  \* what a broker makes of the opposite MarketOrder
  Faults          \* what may go wrong around the calls

Legs == {"leg_a", "leg_b"}
Other(l) == IF l = "leg_a" THEN "leg_b" ELSE "leg_a"

\* OrderStatus as execute_leg tells the values apart.  "filled" and "empty" are
\* FILLED with a positive and with a zero filled_quantity, "resting" is
\* SUBMITTED, "rejected" any other status, "raised" an exception.
Replies == {"filled", "empty", "resting", "rejected", "raised"}
Accepted == {"filled", "empty", "resting"}
Refused == {"rejected", "raised"}

FaultKinds == {"timeout", "store", "crash", "wiring"}

ASSUME ReplyAssumption == LegReplies \subseteq Replies /\ UnwindReplies \subseteq Replies
ASSUME FaultAssumption == Faults \subseteq FaultKinds

VARIABLES
  pc,       \* where the call execute_arbitrage(t) stands
  state,    \* trade.state, in memory
  row,      \* arb_trades.state, "none" before the row exists
  legpc,    \* where _execute_leg(t, l) stands
  legrow,   \* arb_legs.status of the leg, "none" before the row exists
  known,    \* leg.fill_quantity > 0, in memory
  order,    \* the leg's order as its broker has it
  closing   \* the order that unwinds the leg, as its broker has it

vars == <<pc, state, row, legpc, legrow, known, order, closing>>
memory == <<state, legpc, known>>
venue == <<order, closing>>

PC == {"idle", "preflight", "saved", "legs", "unwind", "unwinding",
       "returned", "raised", "crashed"}
Ended == {"returned", "raised", "crashed"}
\* The values of ArbState that execute_arbitrage assigns; the others are unused.
ArbStates == {"init", "toxicity_check", "concurrent_pending", "completed",
              "unwinding", "unwound", "failed"}
Final == {"completed", "unwound", "failed"}
LegStatus == {"none", "pending", "accepted", "refused"}
OrderStates == {"none", "sent"} \cup Replies

TypeOK ==
  /\ pc \in [Trades -> PC]
  /\ state \in [Trades -> ArbStates]
  /\ row \in [Trades -> ArbStates \cup {"none"}]
  /\ legpc \in [Trades -> [Legs -> {"idle", "placing", "storing", "ok", "failed"}]]
  /\ legrow \in [Trades -> [Legs -> LegStatus]]
  /\ known \in [Trades -> [Legs -> BOOLEAN]]
  /\ order \in [Trades -> [Legs -> OrderStates]]
  /\ closing \in [Trades -> [Legs -> OrderStates]]

EachLeg(v) == [t \in Trades |-> [l \in Legs |-> v]]

Init ==
  /\ pc = [t \in Trades |-> "idle"]
  /\ state = [t \in Trades |-> "init"]
  /\ row = [t \in Trades |-> "none"]
  /\ legpc = EachLeg("idle")
  /\ legrow = EachLeg("none")
  /\ known = EachLeg(FALSE)
  /\ order = EachLeg("none")
  /\ closing = EachLeg("none")

Goto(t, from, to) == pc[t] = from /\ pc' = [pc EXCEPT ![t] = to]

-------------------------------------------------------------------------------
(* Before the legs.                                                        *)

\* execute_arbitrage up to the meta agent's answer, if there is a meta agent.
Begin(t) ==
  /\ Goto(t, "idle", "preflight")
  /\ state' \in {[state EXCEPT ![t] = s] : s \in {"init", "toxicity_check"}}
  /\ UNCHANGED <<row, legpc, legrow, known, venue>>

\* Toxicity, slippage, or an exception of either: nothing has been saved, and
\* update_trade_state finds no row to update.
PreflightAbort(t) ==
  /\ Goto(t, "preflight", "returned")
  /\ state' = [state EXCEPT ![t] = "failed"]
  /\ UNCHANGED <<row, legpc, legrow, known, venue>>

SaveTrade(t) ==
  /\ Goto(t, "preflight", "saved")
  /\ row' = [row EXCEPT ![t] = state[t]]
  /\ legrow' = [legrow EXCEPT ![t] = [l \in Legs |-> "pending"]]
  /\ UNCHANGED <<memory, venue>>

\* The handler around execute_arbitrage: FAILED in memory and, unless that
\* write fails too and the exception reaches the caller, in the row.
Fatal(t) ==
  /\ state' = [state EXCEPT ![t] = "failed"]
  /\ \/ /\ pc' = [pc EXCEPT ![t] = "returned"]
        /\ row' = [row EXCEPT ![t] = IF @ = "none" THEN @ ELSE "failed"]
     \/ /\ pc' = [pc EXCEPT ![t] = "raised"]
        /\ UNCHANGED row
  /\ UNCHANGED <<legpc, legrow, known, venue>>

\* save_trade is three INSERTs, each committed by itself: a failure keeps the
\* ones before it.  An exception of the meta agent ends here too.
SaveTradeFails(t) ==
  /\ "store" \in Faults
  /\ pc[t] = "preflight"
  /\ state' = [state EXCEPT ![t] = "failed"]
  /\ \/ /\ pc' = [pc EXCEPT ![t] = "returned"]
        /\ row' \in {row, [row EXCEPT ![t] = "failed"]}
     \/ /\ pc' = [pc EXCEPT ![t] = "raised"]
        /\ row' \in {row, [row EXCEPT ![t] = state[t]]}
  /\ \/ UNCHANGED legrow
     \/ row' # row /\ legrow' = [legrow EXCEPT ![t]["leg_a"] = "pending"]
  /\ UNCHANGED <<legpc, known, venue>>

\* Mutant: update_trade_state is forgotten before the legs.
MarkPendingMutant(t) ==
  /\ Goto(t, "saved", "legs")
  /\ state' = [state EXCEPT ![t] = "concurrent_pending"]
  /\ UNCHANGED <<row, legpc, legrow, known, venue>>

MarkPending(t) ==
  /\ Goto(t, "saved", "legs")
  /\ state' = [state EXCEPT ![t] = "concurrent_pending"]
  /\ row' = [row EXCEPT ![t] = "concurrent_pending"]
  /\ UNCHANGED <<legpc, legrow, known, venue>>

MarkPendingFails(t) ==
  /\ "store" \in Faults
  /\ pc[t] = "saved"
  /\ Fatal(t)

-------------------------------------------------------------------------------
(* One leg: _execute_leg.                                                  *)

LegGoto(t, l, from, to) ==
  /\ pc[t] = "legs"
  /\ legpc[t][l] = from
  /\ legpc' = [legpc EXCEPT ![t][l] = to]

PlaceLeg(t, l) ==
  /\ LegGoto(t, l, "idle", "placing")
  /\ order' = [order EXCEPT ![t][l] = "sent"]
  /\ UNCHANGED <<pc, state, row, legrow, known, closing>>

LegWithoutBroker(t, l) ==
  /\ "wiring" \in Faults
  /\ LegGoto(t, l, "idle", "failed")
  /\ UNCHANGED <<pc, state, row, legrow, known, venue>>

\* Mutant: fill_quantity is not copied from the result.
LegReplyMutant(t, l) ==
  /\ order[t][l] \in Accepted \cup {"rejected"}
  /\ LegGoto(t, l, "placing", "storing")
  /\ UNCHANGED <<pc, state, row, legrow, known, venue>>

\* The reply is written to the leg before the store is called.
LegReply(t, l) ==
  /\ order[t][l] \in Accepted \cup {"rejected"}
  /\ LegGoto(t, l, "placing", "storing")
  /\ known' = [known EXCEPT ![t][l] = order[t][l] \in {"filled", "resting"}]
  /\ UNCHANGED <<pc, state, row, legrow, venue>>

LegRaises(t, l) ==
  /\ order[t][l] = "raised"
  /\ LegGoto(t, l, "placing", "failed")
  /\ UNCHANGED <<pc, state, row, legrow, known, venue>>

LegWritten(t, l) ==
  legrow' = [legrow EXCEPT ![t][l] =
               IF order[t][l] \in Accepted THEN "accepted" ELSE "refused"]

StoreLeg(t, l) ==
  /\ LegGoto(t, l, "storing", IF order[t][l] \in Accepted THEN "ok" ELSE "failed")
  /\ LegWritten(t, l)
  /\ UNCHANGED <<pc, state, row, known, venue>>

\* update_leg_atomic is two UPDATEs, each committed by itself: the leg's may be
\* in when the second one fails or is cut short.
StoreLegFails(t, l) ==
  /\ "store" \in Faults
  /\ LegGoto(t, l, "storing", "failed")
  /\ LegWritten(t, l) \/ UNCHANGED legrow
  /\ UNCHANGED <<pc, state, row, known, venue>>

\* Mutant: asyncio.timeout is put around the store only.
LegTimeoutMutant(t, l) ==
  /\ "timeout" \in Faults
  /\ LegGoto(t, l, "storing", "failed")
  /\ LegWritten(t, l) \/ UNCHANGED legrow
  /\ UNCHANGED <<pc, state, row, known, venue>>

\* asyncio.timeout covers the broker and the store; the order is not cancelled.
LegTimeout(t, l) ==
  /\ "timeout" \in Faults
  /\ \/ LegGoto(t, l, "placing", "failed") /\ UNCHANGED legrow
     \/ LegGoto(t, l, "storing", "failed") /\ (LegWritten(t, l) \/ UNCHANGED legrow)
  /\ UNCHANGED <<pc, state, row, known, venue>>

-------------------------------------------------------------------------------
(* After gather: both legs have returned.                                  *)

\* Mutant: "or" for "and" in the test for success.
BothOkMutant(t) ==
  pc[t] = "legs" /\ legpc[t] \in [Legs -> {"ok", "failed"}] /\ \E l \in Legs : legpc[t][l] = "ok"

BothOk(t) == pc[t] = "legs" /\ \A l \in Legs : legpc[t][l] = "ok"
OneOk(t, l) == pc[t] = "legs" /\ legpc[t][l] = "ok" /\ legpc[t][Other(l)] = "failed"
NoneOk(t) == pc[t] = "legs" /\ \A l \in Legs : legpc[t][l] = "failed"

Record(t, s, to) ==
  /\ state' = [state EXCEPT ![t] = s]
  /\ row' = [row EXCEPT ![t] = s]
  /\ pc' = [pc EXCEPT ![t] = to]
  /\ UNCHANGED <<legpc, legrow, known, venue>>

Complete(t) == BothOk(t) /\ Record(t, "completed", "returned")

BothLegsFailed(t) == NoneOk(t) /\ Record(t, "failed", "returned")

DecideUnwind(t) == (\E l \in Legs : OneOk(t, l)) /\ Record(t, "unwinding", "unwind")

\* The write of the decision fails: FAILED, whatever the legs hold.
DecisionFails(t) ==
  /\ "store" \in Faults
  /\ BothOk(t) \/ NoneOk(t) \/ \E l \in Legs : OneOk(t, l)
  /\ Fatal(t)

-------------------------------------------------------------------------------
(* _unwind_leg: trade.state stays UNWINDING in memory, only the row moves. *)

GoodLeg(t, l) == legpc[t][l] = "ok" /\ legpc[t][Other(l)] = "failed"

\* Mutant: the legs are swapped, and the one that failed is closed.
PlaceUnwindMutant(t) ==
  \E l \in Legs :
    /\ GoodLeg(t, l) /\ known[t][l]
    /\ Goto(t, "unwind", "unwinding")
    /\ closing' = [closing EXCEPT ![t][Other(l)] = "sent"]
    /\ UNCHANGED <<memory, row, legrow, order>>

PlaceUnwind(t) ==
  \E l \in Legs :
    /\ GoodLeg(t, l) /\ known[t][l]
    /\ Goto(t, "unwind", "unwinding")
    /\ closing' = [closing EXCEPT ![t][l] = "sent"]
    /\ UNCHANGED <<memory, row, legrow, order>>

\* fill_quantity <= 0: the helper returns and the row is left UNWINDING.
SkipUnwind(t) ==
  /\ \E l \in Legs : GoodLeg(t, l) /\ ~known[t][l]
  /\ Goto(t, "unwind", "returned")
  /\ UNCHANGED <<memory, row, legrow, venue>>

\* Mutant: the outcome of the unwind is not written.
EndUnwindMutant(t, s) ==
  /\ Goto(t, "unwinding", "returned")
  /\ s \in Final
  /\ UNCHANGED <<memory, row, legrow, venue>>

EndUnwind(t, s) ==
  /\ Goto(t, "unwinding", "returned")
  /\ row' = [row EXCEPT ![t] = s]
  /\ UNCHANGED <<memory, legrow, venue>>

\* Any result counts as success: its status is not looked at.
UnwindReply(t) ==
  /\ \E l \in Legs : closing[t][l] \in Accepted \cup {"rejected"}
  /\ EndUnwind(t, "unwound")

\* An exception of the broker, or of the store after the broker's reply.
UnwindRaises(t) ==
  /\ \E l \in Legs :
       \/ closing[t][l] = "raised"
       \/ "store" \in Faults /\ closing[t][l] \in Replies
  /\ EndUnwind(t, "failed")

UnwindTimeout(t) ==
  /\ "timeout" \in Faults
  /\ EndUnwind(t, "failed")

\* The write of a handler of _unwind_leg fails as well: the exception goes on to
\* the handler of execute_arbitrage.
UnwindFatal(t) ==
  /\ "store" \in Faults
  /\ pc[t] = "unwinding"
  /\ (\E l \in Legs : closing[t][l] \in Replies) \/ "timeout" \in Faults
  /\ Fatal(t)

-------------------------------------------------------------------------------
(* The brokers.  An order whose caller has given up may still be acted on. *)

OrderActedOn(t, l) ==
  /\ order[t][l] = "sent"
  /\ order' \in {[order EXCEPT ![t][l] = r] : r \in LegReplies}
  /\ UNCHANGED <<pc, memory, row, legrow, closing>>

RestingFills(t, l) ==
  /\ order[t][l] = "resting"
  /\ order' = [order EXCEPT ![t][l] = "filled"]
  /\ UNCHANGED <<pc, memory, row, legrow, closing>>

ClosingActedOn(t, l) ==
  /\ closing[t][l] = "sent"
  /\ closing' \in {[closing EXCEPT ![t][l] = r] : r \in UnwindReplies}
  /\ UNCHANGED <<pc, memory, row, legrow, order>>

\* The process dies.  Nothing reads arb_trades back when it starts again.
Crash ==
  /\ "crash" \in Faults
  /\ \E t \in Trades : pc[t] \notin Ended \cup {"idle"}
  /\ pc' = [t \in Trades |-> IF pc[t] \in Ended \cup {"idle"} THEN pc[t] ELSE "crashed"]
  /\ UNCHANGED <<memory, row, legrow, venue>>

-------------------------------------------------------------------------------

LegStep(t, l) ==
  \/ PlaceLeg(t, l) \/ LegWithoutBroker(t, l)
  \/ LegReply(t, l) \/ LegRaises(t, l) \/ LegTimeout(t, l)
  \/ StoreLeg(t, l) \/ StoreLegFails(t, l)

Decision(t) == Complete(t) \/ BothLegsFailed(t) \/ DecideUnwind(t) \/ DecisionFails(t)

UnwindStep(t) ==
  \/ PlaceUnwind(t) \/ SkipUnwind(t)
  \/ UnwindReply(t) \/ UnwindRaises(t) \/ UnwindTimeout(t) \/ UnwindFatal(t)

CallStep(t) ==
  \/ PreflightAbort(t) \/ SaveTrade(t) \/ SaveTradeFails(t)
  \/ MarkPending(t) \/ MarkPendingFails(t)
  \/ \E l \in Legs : LegStep(t, l)
  \/ Decision(t) \/ UnwindStep(t)

BrokerStep(t, l) == OrderActedOn(t, l) \/ RestingFills(t, l) \/ ClosingActedOn(t, l)

\* Every call has ended: nothing is left to do, which is no deadlock.
AllEnded == (\A t \in Trades : pc[t] \in Ended) /\ UNCHANGED vars

Next ==
  \/ \E t \in Trades : Begin(t) \/ CallStep(t)
  \/ \E t \in Trades, l \in Legs : BrokerStep(t, l)
  \/ Crash
  \/ AllEnded

Spec == Init /\ [][Next]_vars

\* The event loop resumes a coroutine whose await is over, and asyncio.timeout
\* ends the await of a broker that never answers: a call under way keeps moving.
\* Nothing is asked of the brokers.
FairSpec == Spec /\ \A t \in Trades : WF_vars(CallStep(t))

-------------------------------------------------------------------------------
(* Properties.                                                             *)

\* The trade has a position on leg l: its order filled and the one that closes
\* it did not, or the closing order filled against nothing.
Exposed(t, l) == (order[t][l] = "filled") # (closing[t][l] = "filled")

\* The call ended without looking at the leg's answer: it timed out, or the
\* answer came and writing it to arb_legs failed.
GaveUp(t, l) == legpc[t][l] = "failed" /\ order[t][l] \notin Refused \cup {"none"}

\* No order leaves before arb_trades says concurrent_pending, so a process that
\* dies with a position open leaves a row an operator can find it by
\* (save_trade and update_trade_state come before gather).
OrdersAreJournaled ==
  \A t \in Trades, l \in Legs :
    order[t][l] # "none" => row[t] \notin {"none", "init", "toxicity_check"}

\* COMPLETED is recorded only when both brokers took their order, both replies
\* are in arb_legs and nothing was sent to undo either leg.
CompletedIsHedged ==
  \A t \in Trades : row[t] = "completed" =>
    \A l \in Legs : /\ order[t][l] \in Accepted
                    /\ legrow[t][l] = "accepted"
                    /\ closing[t][l] = "none"

\* The opposite order is sent for a leg known to be held with a positive
\* quantity, and only when the other leg was not reported as held: an arbitrage
\* with two good legs is never taken apart.
ClosesTheLoneLeg ==
  \A t \in Trades, l \in Legs : closing[t][l] # "none" =>
    /\ order[t][l] \in {"filled", "resting"} /\ legrow[t][l] = "accepted"
    /\ legrow[t][Other(l)] = "accepted" => legpc[t][Other(l)] = "failed"
    /\ closing[t][Other(l)] = "none"

\* A call that returns without completing and leaves a position on a leg does so
\* for one of four reasons: it gave up on that leg, the order that closes the leg
\* did not fill, the broker let the leg's order rest, or the decision to unwind
\* could not be written and was dropped.
NakedIsExplained ==
  \A t \in Trades, l \in Legs :
    pc[t] = "returned" /\ row[t] # "completed" /\ Exposed(t, l) =>
      \/ GaveUp(t, l)
      \/ closing[t][l] \notin {"none", "filled"}
      \/ order[t][l] = "resting"
      \/ "store" \in Faults /\ state[t] = "failed" /\ closing[t][l] = "none"

\* Once a call has returned, its row tells how: it is final, or there is none, or
\* the unwind was skipped for a leg with nothing filled.
ReturnedRowIsFinal ==
  \A t \in Trades : pc[t] = "returned" =>
    \/ row[t] \in Final \cup {"none"}
    \/ row[t] = "unwinding" /\ \E l \in Legs : GoodLeg(t, l) /\ ~known[t][l]

\* UNWOUND: the leg that was held has been closed ("Unwind successful").
UnwoundMeansClosed ==
  \A t \in Trades, l \in Legs :
    row[t] = "unwound" /\ Exposed(t, l) => GaveUp(t, l)

\* FAILED is a trade that leaves no position behind.
FailedMeansFlat ==
  \A t \in Trades, l \in Legs : row[t] = "failed" => ~Exposed(t, l)

\* A call that has begun ends, whatever its brokers do.
CallsEnd == \A t \in Trades : pc[t] # "idle" ~> pc[t] \in Ended

\* All or nothing: with brokers that answer and a database that works, the
\* protocol implements DualLeg.
Verdict(t) ==
  IF row[t] \in Final THEN row[t] ELSE IF pc[t] = "returned" THEN "failed" ELSE "open"

Promise == INSTANCE DualLeg WITH
  held <- [t \in Trades |-> {l \in Legs : Exposed(t, l)}],
  verdict <- [t \in Trades |-> Verdict(t)]

PromiseSpec == Promise!Spec

==============================================================================
