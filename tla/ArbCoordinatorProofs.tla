------------------------- MODULE ArbCoordinatorProofs -------------------------
(***************************************************************************)
(* What holds of ArbCoordinator for every set of trades, every choice of   *)
(* broker replies and every choice of faults: its types, the safety        *)
(* invariants on what is recorded and what is sent, and that each call     *)
(* makes its way to an end.                                                *)
(***************************************************************************)
EXTENDS ArbCoordinator, Naturals, TLAPS

\* The stages of a call, and what the row and the legs are in each.
StageInv(t) ==
  /\ pc[t] \in {"idle", "preflight"} =>
       row[t] = "none" /\ state[t] \in {"init", "toxicity_check"}
  /\ pc[t] \in {"idle", "preflight", "saved"} => \A l \in Legs : legpc[t][l] = "idle"
  /\ pc[t] = "legs" => row[t] = "concurrent_pending"
  /\ pc[t] \in {"unwind", "unwinding"} => row[t] = "unwinding"
  /\ row[t] = "completed" => pc[t] = "returned" /\ \A l \in Legs : legpc[t][l] = "ok"
  /\ pc[t] = "returned" => row[t] \notin {"init", "toxicity_check", "concurrent_pending"}

\* How far a leg has got determines what its order and its row can be.
LegInv(t, l) ==
  /\ legpc[t][l] = "idle" => order[t][l] = "none"
  /\ legpc[t][l] = "ok" => order[t][l] \in Accepted /\ legrow[t][l] = "accepted"
  /\ known[t][l] => order[t][l] \in {"filled", "resting"}
  /\ order[t][l] # "none" => row[t] \notin {"none", "init", "toxicity_check"}

\* A closing order is that of the one good leg, sent in the last stage.
ClosingInv(t, l) ==
  closing[t][l] # "none" =>
    /\ pc[t] \in {"unwinding"} \cup Ended
    /\ GoodLeg(t, l) /\ known[t][l]
    /\ closing[t][Other(l)] = "none"

TradeInv(t) == StageInv(t) /\ \A l \in Legs : LegInv(t, l) /\ ClosingInv(t, l)

IInv == TypeOK /\ \A t \in Trades : TradeInv(t)

-------------------------------------------------------------------------------
(* Types.                                                                  *)

LEMMA InitTypeOK == Init => TypeOK
  BY DEF Init, TypeOK, EachLeg, PC, ArbStates, LegStatus, OrderStates

LEMMA FatalTypeOK == ASSUME TypeOK, NEW t \in Trades, Fatal(t) PROVE TypeOK'
  BY DEF TypeOK, Fatal, PC, ArbStates, venue

LEMMA RecordTypeOK ==
  ASSUME TypeOK, NEW t \in Trades, NEW s \in ArbStates, NEW to \in PC, Record(t, s, to)
  PROVE  TypeOK'
  BY DEF TypeOK, Record, venue

LEMMA WrittenTypeOK ==
  ASSUME TypeOK, NEW t \in Trades, NEW l \in Legs, LegWritten(t, l)
  PROVE  legrow' \in [Trades -> [Legs -> LegStatus]]
<1>1. PICK s \in {"accepted", "refused"} : legrow' = [legrow EXCEPT ![t][l] = s]
  BY DEF LegWritten
<1>2. s \in LegStatus
  BY DEF LegStatus
<1>3. QED
  BY <1>1, <1>2 DEF TypeOK

\* No step of the system takes a variable out of its type.
LEMMA NextTypeOK == TypeOK /\ [Next]_vars => TypeOK'
<1> SUFFICES ASSUME TypeOK, [Next]_vars PROVE TypeOK'
  OBVIOUS
<1> USE DEF PC, ArbStates, LegStatus, OrderStates, memory, venue
<1>1. ASSUME NEW t \in Trades, Begin(t) PROVE TypeOK'
  BY <1>1 DEF TypeOK, Begin, Goto
<1>2. ASSUME NEW t \in Trades, PreflightAbort(t) \/ SaveTrade(t) \/ MarkPending(t)
      PROVE  TypeOK'
  <2>1. CASE PreflightAbort(t)
    BY <2>1 DEF TypeOK, PreflightAbort, Goto
  <2>2. CASE SaveTrade(t)
    <3>1. /\ pc' = [pc EXCEPT ![t] = "saved"]
          /\ row' = [row EXCEPT ![t] = state[t]]
          /\ legrow' = [legrow EXCEPT ![t] = [l \in Legs |-> "pending"]]
          /\ UNCHANGED <<state, legpc, known, order, closing>>
      BY <2>2 DEF SaveTrade, Goto
    <3>2. legrow' \in [Trades -> [Legs -> LegStatus]]
      BY <3>1 DEF TypeOK
    <3>3. row' \in [Trades -> ArbStates \cup {"none"}]
      BY <3>1 DEF TypeOK
    <3>4. QED
      BY <3>1, <3>2, <3>3 DEF TypeOK
  <2>3. CASE MarkPending(t)
    BY <2>3 DEF TypeOK, MarkPending, Goto
  <2>4. QED
    BY <1>2, <2>1, <2>2, <2>3
<1>3. ASSUME NEW t \in Trades, SaveTradeFails(t) PROVE TypeOK'
  <2>1. state' = [state EXCEPT ![t] = "failed"] /\ UNCHANGED <<legpc, known, order, closing>>
    BY <1>3 DEF SaveTradeFails
  <2>2. pc' \in [Trades -> PC]
    <3>1. pc' = [pc EXCEPT ![t] = "returned"] \/ pc' = [pc EXCEPT ![t] = "raised"]
      BY <1>3 DEF SaveTradeFails
    <3>2. pc \in [Trades -> PC]
      BY DEF TypeOK
    <3>3. QED
      BY <3>1, <3>2
  <2>3. row' \in [Trades -> ArbStates \cup {"none"}]
    <3>1. \/ row' = row
          \/ row' = [row EXCEPT ![t] = "failed"]
          \/ row' = [row EXCEPT ![t] = state[t]]
      BY <1>3 DEF SaveTradeFails
    <3>2. state \in [Trades -> ArbStates] /\ row \in [Trades -> ArbStates \cup {"none"}]
      BY DEF TypeOK
    <3>3. QED
      BY <3>1, <3>2
  <2>4. legrow' \in [Trades -> [Legs -> LegStatus]]
    <3>1. \/ legrow' = legrow
          \/ legrow' = [legrow EXCEPT ![t]["leg_a"] = "pending"]
      BY <1>3 DEF SaveTradeFails
    <3>2. ASSUME NEW l \in Legs, legrow' = [legrow EXCEPT ![t][l] = "pending"]
          PROVE  legrow' \in [Trades -> [Legs -> LegStatus]]
      BY <3>2 DEF TypeOK
    <3>3. "leg_a" \in Legs
      BY DEF Legs
    <3>4. QED
      BY <3>1, <3>2, <3>3 DEF TypeOK
  <2>5. QED
    BY <2>1, <2>2, <2>3, <2>4 DEF TypeOK
<1>4. ASSUME NEW t \in Trades, MarkPendingFails(t) \/ DecisionFails(t) \/ UnwindFatal(t)
      PROVE  TypeOK'
  BY <1>4, FatalTypeOK DEF MarkPendingFails, DecisionFails, UnwindFatal
<1>5. ASSUME NEW t \in Trades, NEW l \in Legs, LegStep(t, l) PROVE TypeOK'
  <2>1. CASE PlaceLeg(t, l)
    BY <2>1 DEF TypeOK, PlaceLeg, LegGoto
  <2>2. CASE LegReply(t, l)
    BY <2>2 DEF TypeOK, LegReply, LegGoto
  <2>3. CASE StoreLeg(t, l)
    <3>1. legpc' = [legpc EXCEPT ![t][l] = IF order[t][l] \in Accepted THEN "ok" ELSE "failed"]
      BY <2>3 DEF StoreLeg, LegGoto
    <3>2. legrow' \in [Trades -> [Legs -> LegStatus]]
      BY <2>3, WrittenTypeOK DEF StoreLeg
    <3>3. UNCHANGED <<pc, state, row, known, order, closing>>
      BY <2>3 DEF StoreLeg
    <3>4. QED
      BY <3>1, <3>2, <3>3 DEF TypeOK
  <2>4. CASE LegWithoutBroker(t, l) \/ LegRaises(t, l) \/ StoreLegFails(t, l) \/ LegTimeout(t, l)
    <3>1. /\ legpc' = [legpc EXCEPT ![t][l] = "failed"]
          /\ UNCHANGED <<pc, state, row, known, order, closing>>
          /\ LegWritten(t, l) \/ UNCHANGED legrow
      BY <2>4 DEF LegWithoutBroker, LegRaises, StoreLegFails, LegTimeout, LegGoto
    <3>2. legrow' \in [Trades -> [Legs -> LegStatus]]
      BY <3>1, WrittenTypeOK DEF TypeOK
    <3>3. QED
      BY <3>1, <3>2 DEF TypeOK
  <2>5. QED
    BY <1>5, <2>1, <2>2, <2>3, <2>4 DEF LegStep
<1>6. ASSUME NEW t \in Trades, Complete(t) \/ BothLegsFailed(t) \/ DecideUnwind(t)
      PROVE  TypeOK'
  BY <1>6, RecordTypeOK DEF Complete, BothLegsFailed, DecideUnwind
<1>7. ASSUME NEW t \in Trades, PlaceUnwind(t) PROVE TypeOK'
  BY <1>7 DEF TypeOK, PlaceUnwind, Goto
<1>8. ASSUME NEW t \in Trades, SkipUnwind(t) \/ UnwindReply(t) \/ UnwindRaises(t) \/ UnwindTimeout(t)
      PROVE  TypeOK'
  BY <1>8 DEF TypeOK, SkipUnwind, UnwindReply, UnwindRaises, UnwindTimeout, EndUnwind, Goto
<1>9. ASSUME NEW t \in Trades, NEW l \in Legs, BrokerStep(t, l) PROVE TypeOK'
  <2>1. CASE OrderActedOn(t, l)
    <3>1. PICK r \in LegReplies : order' = [order EXCEPT ![t][l] = r]
      BY <2>1 DEF OrderActedOn
    <3>2. r \in OrderStates
      BY ReplyAssumption
    <3>3. QED
      BY <2>1, <3>1, <3>2 DEF TypeOK, OrderActedOn
  <2>2. CASE RestingFills(t, l)
    BY <2>2 DEF TypeOK, RestingFills, Replies
  <2>3. CASE ClosingActedOn(t, l)
    <3>1. PICK r \in UnwindReplies : closing' = [closing EXCEPT ![t][l] = r]
      BY <2>3 DEF ClosingActedOn
    <3>2. r \in OrderStates
      BY ReplyAssumption
    <3>3. QED
      BY <2>3, <3>1, <3>2 DEF TypeOK, ClosingActedOn
  <2>4. QED
    BY <1>9, <2>1, <2>2, <2>3 DEF BrokerStep
<1>10. CASE Crash
  BY <1>10 DEF TypeOK, Crash
<1>11. CASE UNCHANGED vars
  BY <1>11 DEF TypeOK, vars
<1>12. QED
  BY <1>1, <1>2, <1>3, <1>4, <1>5, <1>6, <1>7, <1>8, <1>9, <1>10, <1>11
  DEF Next, CallStep, Decision, UnwindStep, AllEnded

\* Every variable of the coordinator keeps its type, whatever the brokers answer
\* and whichever faults occur.
THEOREM TypeCorrect == Spec => []TypeOK
<1>1. Init => TypeOK
  BY InitTypeOK
<1>2. TypeOK /\ [Next]_vars => TypeOK'
  BY NextTypeOK
<1>3. QED
  BY <1>1, <1>2, PTL DEF Spec

-------------------------------------------------------------------------------
(* The inductive invariant.                                                *)

LEMMA InitIInv == Init => IInv
<1> SUFFICES ASSUME Init PROVE IInv
  OBVIOUS
<1>1. TypeOK
  BY InitTypeOK
<1>2. ASSUME NEW t \in Trades PROVE TradeInv(t)
  BY DEF Init, EachLeg, TradeInv, StageInv, LegInv, ClosingInv
<1>3. QED
  BY <1>1, <1>2 DEF IInv

\* A step of one trade keeps the invariant of the others, whose variables it
\* leaves alone.
LEMMA Locality ==
  ASSUME IInv, NEW t \in Trades, NEW u \in Trades,
         pc'[u] = pc[u], state'[u] = state[u], row'[u] = row[u], legpc'[u] = legpc[u],
         legrow'[u] = legrow[u], known'[u] = known[u], order'[u] = order[u],
         closing'[u] = closing[u]
  PROVE  TradeInv(u)'
  BY DEF IInv, TradeInv, StageInv, LegInv, ClosingInv, GoodLeg

\* The end of a call by the outer handler.
LEMMA FatalTradeInv ==
  ASSUME IInv, NEW t \in Trades, pc[t] \in {"saved", "legs", "unwinding"}, Fatal(t)
  PROVE  TradeInv(t)'
<1> USE DEF TypeOK, venue, Ended
<1>1. /\ UNCHANGED <<legpc, legrow, known, order, closing>>
      /\ \/ pc'[t] = "returned" /\ row'[t] = IF row[t] = "none" THEN row[t] ELSE "failed"
         \/ pc'[t] = "raised" /\ row'[t] = row[t]
  BY DEF Fatal, IInv
<1>2. StageInv(t)'
  BY <1>1 DEF IInv, TradeInv, StageInv
<1>3. ASSUME NEW l \in Legs PROVE LegInv(t, l)'
  BY <1>1 DEF IInv, TradeInv, StageInv, LegInv
<1>4. ASSUME NEW l \in Legs PROVE ClosingInv(t, l)'
  BY <1>1 DEF IInv, TradeInv, ClosingInv, GoodLeg
<1>5. QED
  BY <1>2, <1>3, <1>4 DEF TradeInv

\* A step of the call of t keeps the invariant of t.
LEMMA CallTradeInv ==
  ASSUME IInv, NEW t \in Trades, Begin(t) \/ CallStep(t)
  PROVE  TradeInv(t)'
<1> USE DEF IInv, TypeOK, TradeInv, Goto, LegGoto, memory, venue, Ended, GoodLeg
<1>1. CASE Begin(t) \/ PreflightAbort(t) \/ SaveTrade(t) \/ SaveTradeFails(t) \/ MarkPending(t)
  <2>0. pc[t] = "preflight" => row[t] = "none" /\ state[t] \in {"init", "toxicity_check"}
    BY DEF StageInv
  <2>1. /\ UNCHANGED <<legpc, known, order, closing>>
        /\ pc[t] \in {"idle", "preflight", "saved"}
        /\ \/ pc'[t] = "preflight" /\ row'[t] = row[t] /\ pc[t] = "idle"
           \/ pc'[t] = "returned" /\ row'[t] \in {"none", "failed"}
           \/ pc'[t] = "raised" /\ row'[t] \in {"none", "init", "toxicity_check"}
           \/ pc'[t] = "saved" /\ row'[t] = state[t] /\ pc[t] = "preflight"
           \/ pc'[t] = "legs" /\ row'[t] = "concurrent_pending"
    <3>1. CASE SaveTradeFails(t)
      <4>1. pc[t] = "preflight" /\ UNCHANGED <<legpc, known, order, closing>>
        BY <3>1 DEF SaveTradeFails
      <4>2. \/ pc'[t] = "returned" /\ (row' = row \/ row' = [row EXCEPT ![t] = "failed"])
            \/ pc'[t] = "raised" /\ (row' = row \/ row' = [row EXCEPT ![t] = state[t]])
        BY <3>1 DEF SaveTradeFails
      <4>3. QED
        BY <2>0, <4>1, <4>2
    <3>2. CASE Begin(t) \/ PreflightAbort(t) \/ SaveTrade(t) \/ MarkPending(t)
      BY <2>0, <3>2 DEF Begin, PreflightAbort, SaveTrade, MarkPending
    <3>3. QED
      BY <1>1, <3>1, <3>2
  <2>2. \A l \in Legs : legpc[t][l] = "idle" /\ order[t][l] = "none" /\ ~known[t][l]
    BY <2>1 DEF StageInv, LegInv
  <2>3. \A l \in Legs : closing[t][l] = "none"
    BY <2>1 DEF ClosingInv
  <2>4. row'[t] # "completed"
    <3>1. pc'[t] = "saved" => state[t] # "completed"
      BY <1>1, <2>1 DEF Begin, PreflightAbort, SaveTrade, SaveTradeFails, MarkPending, StageInv
    <3>2. QED
      BY <2>1, <3>1 DEF StageInv
  <2>5. StageInv(t)'
    <3>1. pc'[t] = "preflight" => row'[t] = "none" /\ state'[t] \in {"init", "toxicity_check"}
      BY <1>1, <2>1 DEF Begin, PreflightAbort, SaveTrade, SaveTradeFails, MarkPending, StageInv
    <3>2. QED
      BY <2>1, <2>2, <2>4, <3>1 DEF StageInv
  <2>6. \A l \in Legs : LegInv(t, l)' /\ ClosingInv(t, l)'
    BY <2>1, <2>2, <2>3 DEF LegInv, ClosingInv
  <2>7. QED
    BY <2>5, <2>6
<1>2. CASE MarkPendingFails(t) \/ DecisionFails(t) \/ UnwindFatal(t)
  BY <1>2, FatalTradeInv
  DEF MarkPendingFails, DecisionFails, UnwindFatal, BothOk, OneOk, NoneOk
<1>3. ASSUME NEW l \in Legs, LegStep(t, l) PROVE TradeInv(t)'
  <2>1. /\ pc[t] = "legs" /\ UNCHANGED <<pc, row, closing>>
        /\ \A k \in Legs : closing[t][k] = "none"
    BY <1>3 DEF LegStep, PlaceLeg, LegWithoutBroker, LegReply, LegRaises, LegTimeout,
         StoreLeg, StoreLegFails, ClosingInv
  <2>2. StageInv(t)' /\ \A k \in Legs : ClosingInv(t, k)'
    BY <2>1 DEF StageInv, ClosingInv
  <2>3. LegInv(t, l)'
    <3>1. CASE PlaceLeg(t, l)
      <4>1. legpc[t][l] = "idle" /\ ~known[t][l] /\ row[t] = "concurrent_pending"
        BY <2>1, <3>1 DEF PlaceLeg, LegInv, StageInv
      <4>2. /\ legpc'[t][l] = "placing" /\ order'[t][l] = "sent"
            /\ UNCHANGED <<row, known>>
        BY <3>1 DEF PlaceLeg
      <4>3. QED
        BY <4>1, <4>2 DEF LegInv
    <3>2. CASE LegReply(t, l)
      BY <2>1, <3>2 DEF LegReply, LegInv, StageInv
    <3>3. CASE StoreLeg(t, l)
      <4>1. /\ UNCHANGED <<row, known, order>>
            /\ legpc'[t][l] = IF order[t][l] \in Accepted THEN "ok" ELSE "failed"
            /\ order[t][l] \in Accepted => legrow'[t][l] = "accepted"
        BY <3>3 DEF StoreLeg, LegWritten
      <4>2. LegInv(t, l)
        OBVIOUS
      <4>3. QED
        BY <4>1, <4>2 DEF LegInv
    <3>4. CASE LegWithoutBroker(t, l) \/ LegRaises(t, l) \/ StoreLegFails(t, l) \/ LegTimeout(t, l)
      <4>1. legpc'[t][l] = "failed" /\ UNCHANGED <<row, known, order>>
        BY <3>4 DEF LegWithoutBroker, LegRaises, StoreLegFails, LegTimeout
      <4>2. QED
        BY <4>1 DEF LegInv
    <3>5. QED
      BY <1>3, <3>1, <3>2, <3>3, <3>4 DEF LegStep
  <2>4. ASSUME NEW k \in Legs, k # l PROVE LegInv(t, k)'
    <3>1. /\ legpc'[t][k] = legpc[t][k] /\ legrow'[t][k] = legrow[t][k]
          /\ known'[t][k] = known[t][k] /\ order'[t][k] = order[t][k]
      BY <1>3, <2>4 DEF LegStep, PlaceLeg, LegWithoutBroker, LegReply, LegRaises, LegTimeout,
         StoreLeg, StoreLegFails, LegWritten
    <3>2. QED
      BY <2>1, <3>1 DEF LegInv
  <2>5. QED
    BY <2>2, <2>3, <2>4
<1>4. CASE Complete(t) \/ BothLegsFailed(t) \/ DecideUnwind(t)
  <2>1. /\ pc[t] = "legs" /\ UNCHANGED <<legpc, legrow, known, order, closing>>
        /\ \/ pc'[t] = "returned" /\ row'[t] = "completed" /\ \A l \in Legs : legpc[t][l] = "ok"
           \/ pc'[t] = "returned" /\ row'[t] = "failed"
           \/ pc'[t] = "unwind" /\ row'[t] = "unwinding"
    BY <1>4 DEF Complete, BothLegsFailed, DecideUnwind, Record, BothOk, NoneOk, OneOk
  <2>2. StageInv(t)'
    BY <2>1 DEF StageInv
  <2>3. \A l \in Legs : LegInv(t, l)' /\ ClosingInv(t, l)'
    BY <2>1 DEF LegInv, ClosingInv, StageInv
  <2>4. QED
    BY <2>2, <2>3
<1>5. CASE PlaceUnwind(t)
  <2>1. PICK l \in Legs : /\ GoodLeg(t, l) /\ known[t][l]
                          /\ closing' = [closing EXCEPT ![t][l] = "sent"]
    BY <1>5 DEF PlaceUnwind
  <2>2. /\ pc[t] = "unwind" /\ pc'[t] = "unwinding"
        /\ UNCHANGED <<row, legpc, legrow, known, order>>
    BY <1>5 DEF PlaceUnwind
  <2>3. \A k \in Legs : closing[t][k] = "none"
    BY <2>2 DEF ClosingInv
  <2>4. StageInv(t)' /\ \A k \in Legs : LegInv(t, k)'
    BY <2>2 DEF StageInv, LegInv
  <2>5. Other(l) \in Legs /\ Other(l) # l
    BY DEF Legs, Other
  <2>6. \A k \in Legs : ClosingInv(t, k)'
    BY <2>1, <2>2, <2>3, <2>5 DEF ClosingInv
  <2>7. QED
    BY <2>4, <2>6
<1>6. CASE SkipUnwind(t) \/ UnwindReply(t) \/ UnwindRaises(t) \/ UnwindTimeout(t)
  <2>1. /\ pc[t] \in {"unwind", "unwinding"} /\ pc'[t] = "returned"
        /\ row'[t] \in {"unwinding", "unwound", "failed"}
        /\ UNCHANGED <<legpc, legrow, known, order, closing>>
    BY <1>6 DEF SkipUnwind, UnwindReply, UnwindRaises, UnwindTimeout, EndUnwind, StageInv
  <2>2. QED
    BY <2>1 DEF StageInv, LegInv, ClosingInv
<1>7. QED
  BY <1>1, <1>2, <1>3, <1>4, <1>5, <1>6 DEF CallStep, Decision, UnwindStep

\* A step of the call of t leaves the other trades alone.
LEMMA CallFrame ==
  ASSUME TypeOK, NEW t \in Trades, Begin(t) \/ CallStep(t), NEW u \in Trades, u # t
  PROVE  /\ pc'[u] = pc[u] /\ state'[u] = state[u] /\ row'[u] = row[u]
         /\ legpc'[u] = legpc[u] /\ legrow'[u] = legrow[u] /\ known'[u] = known[u]
         /\ order'[u] = order[u] /\ closing'[u] = closing[u]
<1> USE DEF TypeOK, Goto, LegGoto, memory, venue, Fatal, Record, EndUnwind
<1>1. CASE \/ Begin(t) \/ PreflightAbort(t) \/ SaveTrade(t) \/ MarkPending(t) \/ MarkPendingFails(t)
  BY <1>1 DEF Begin, PreflightAbort, SaveTrade, MarkPending, MarkPendingFails
<1>2. CASE SaveTradeFails(t)
  BY <1>2 DEF SaveTradeFails
<1>3. ASSUME NEW l \in Legs, LegStep(t, l)
      PROVE  /\ UNCHANGED <<pc, state, row, closing>>
             /\ legpc'[u] = legpc[u] /\ legrow'[u] = legrow[u] /\ known'[u] = known[u]
             /\ order'[u] = order[u]
  <2>1. CASE PlaceLeg(t, l) \/ LegWithoutBroker(t, l) \/ LegReply(t, l) \/ LegRaises(t, l)
    BY <2>1 DEF PlaceLeg, LegWithoutBroker, LegReply, LegRaises
  <2>2. CASE LegTimeout(t, l) \/ StoreLeg(t, l) \/ StoreLegFails(t, l)
    BY <2>2 DEF LegTimeout, StoreLeg, StoreLegFails, LegWritten
  <2>3. QED
    BY <1>3, <2>1, <2>2 DEF LegStep
<1>4. CASE Decision(t)
  BY <1>4 DEF Decision, Complete, BothLegsFailed, DecideUnwind, DecisionFails
<1>5. CASE UnwindStep(t)
  BY <1>5 DEF UnwindStep, PlaceUnwind, SkipUnwind, UnwindReply, UnwindRaises,
       UnwindTimeout, UnwindFatal
<1>6. QED
  BY <1>1, <1>2, <1>3, <1>4, <1>5 DEF CallStep

\* A broker acts on orders only, and an order it has been sent stays sent.
LEMMA BrokerTradeInv ==
  ASSUME IInv, NEW t \in Trades, NEW l \in Legs, BrokerStep(t, l), NEW u \in Trades
  PROVE  TradeInv(u)'
<1> USE DEF IInv, TypeOK, memory, venue
<1>1. UNCHANGED <<pc, state, row, legpc, legrow, known>>
  BY DEF BrokerStep, OrderActedOn, RestingFills, ClosingActedOn
<1>2. StageInv(u)'
  BY <1>1 DEF TradeInv, StageInv
<1>3. ASSUME NEW k \in Legs PROVE LegInv(u, k)' /\ ClosingInv(u, k)'
  <2>1. CASE OrderActedOn(t, l)
    <3>1. PICK r \in LegReplies : order' = [order EXCEPT ![t][l] = r]
      BY <2>1 DEF OrderActedOn
    <3>2. order[t][l] = "sent" /\ r # "none" /\ UNCHANGED closing
      BY <2>1, ReplyAssumption DEF OrderActedOn, Replies
    <3>3. \/ order'[u][k] = order[u][k]
          \/ (order[u][k] = "sent" /\ order'[u][k] = r)
      BY <3>1, <3>2
    <3>4. LegInv(u, k)'
      BY <1>1, <3>2, <3>3 DEF TradeInv, LegInv, Accepted
    <3>5. ClosingInv(u, k)'
      BY <1>1, <3>2 DEF TradeInv, ClosingInv, GoodLeg
    <3>6. QED
      BY <3>4, <3>5
  <2>2. CASE RestingFills(t, l)
    <3>1. \/ order'[u][k] = order[u][k]
          \/ (order[u][k] = "resting" /\ order'[u][k] = "filled")
      BY <2>2 DEF RestingFills
    <3>2. UNCHANGED closing
      BY <2>2 DEF RestingFills
    <3>3. LegInv(u, k)'
      BY <1>1, <3>1 DEF TradeInv, LegInv, Accepted
    <3>4. ClosingInv(u, k)'
      BY <1>1, <3>2 DEF TradeInv, ClosingInv, GoodLeg
    <3>5. QED
      BY <3>3, <3>4
  <2>3. CASE ClosingActedOn(t, l)
    <3>1. PICK r \in UnwindReplies : closing' = [closing EXCEPT ![t][l] = r]
      BY <2>3 DEF ClosingActedOn
    <3>2. closing[t][l] = "sent" /\ r # "none" /\ UNCHANGED order
      BY <2>3, ReplyAssumption DEF ClosingActedOn, Replies
    <3>3. \A j \in Legs : closing'[u][j] = "none" <=> closing[u][j] = "none"
      BY <3>1, <3>2
    <3>4. LegInv(u, k)'
      BY <1>1, <3>2 DEF TradeInv, LegInv
    <3>5. ClosingInv(u, k)'
      BY <1>1, <3>3 DEF TradeInv, ClosingInv, GoodLeg, Other, Legs
    <3>6. QED
      BY <3>4, <3>5
  <2>4. QED
    BY <2>1, <2>2, <2>3 DEF BrokerStep
<1>4. QED
  BY <1>2, <1>3 DEF TradeInv

LEMMA NextIInv == IInv /\ [Next]_vars => IInv'
<1> SUFFICES ASSUME IInv, [Next]_vars PROVE \A u \in Trades : TradeInv(u)'
  BY NextTypeOK DEF IInv
<1> TAKE u \in Trades
<1>1. ASSUME NEW t \in Trades, Begin(t) \/ CallStep(t) PROVE TradeInv(u)'
  <2>1. CASE u = t
    BY <1>1, <2>1, CallTradeInv
  <2>2. CASE u # t
    <3>1. TypeOK
      BY DEF IInv
    <3>2. QED
      BY <1>1, <2>2, <3>1, CallFrame, Locality
  <2>3. QED
    BY <2>1, <2>2
<1>2. ASSUME NEW t \in Trades, NEW l \in Legs, BrokerStep(t, l) PROVE TradeInv(u)'
  BY <1>2, BrokerTradeInv
<1>3. CASE Crash
  <2>1. /\ UNCHANGED <<state, row, legpc, legrow, known, order, closing>>
        /\ \/ pc'[u] = pc[u]
           \/ pc[u] \notin Ended \cup {"idle"} /\ pc'[u] = "crashed"
    <3>1. pc' = [t \in Trades |-> IF pc[t] \in Ended \cup {"idle"} THEN pc[t] ELSE "crashed"]
      BY <1>3 DEF Crash
    <3>2. pc'[u] = IF pc[u] \in Ended \cup {"idle"} THEN pc[u] ELSE "crashed"
      BY <3>1
    <3>3. UNCHANGED <<state, row, legpc, legrow, known, order, closing>>
      BY <1>3 DEF Crash, memory, venue
    <3>4. QED
      BY <3>2, <3>3
  <2>2. TradeInv(u)
    BY DEF IInv
  <2>3. StageInv(u)'
    BY <2>1, <2>2 DEF TradeInv, StageInv, Ended
  <2>4. \A k \in Legs : LegInv(u, k)' /\ ClosingInv(u, k)'
    BY <2>1, <2>2 DEF TradeInv, LegInv, ClosingInv, GoodLeg, Ended
  <2>5. QED
    BY <2>3, <2>4 DEF TradeInv
<1>4. CASE UNCHANGED vars
  BY <1>4, Locality DEF vars
<1>5. QED
  BY <1>1, <1>2, <1>3, <1>4 DEF Next, AllEnded

LEMMA Invariance == Spec => []IInv
<1>1. Init => IInv
  BY InitIInv
<1>2. IInv /\ [Next]_vars => IInv'
  BY NextIInv
<1>3. QED
  BY <1>1, <1>2, PTL DEF Spec

-------------------------------------------------------------------------------
(* The safety invariants.                                                  *)

\* No order leaves before the row says so: a crash never hides a position.
THEOREM OrdersJournaled == Spec => []OrdersAreJournaled
<1>1. IInv => OrdersAreJournaled
  BY DEF IInv, TradeInv, LegInv, OrdersAreJournaled
<1>2. QED
  BY <1>1, Invariance, PTL

\* COMPLETED is never recorded of a trade one of whose brokers did not take its
\* order, or one of whose legs is being undone.
THEOREM CompletedHedged == Spec => []CompletedIsHedged
<1>1. IInv => CompletedIsHedged
  <2> SUFFICES ASSUME IInv, NEW t \in Trades, row[t] = "completed", NEW l \in Legs
               PROVE  /\ order[t][l] \in Accepted
                      /\ legrow[t][l] = "accepted"
                      /\ closing[t][l] = "none"
    BY DEF CompletedIsHedged
  <2>1. legpc[t][l] = "ok" /\ legpc[t][Other(l)] = "ok"
    BY DEF IInv, TradeInv, StageInv, Other, Legs
  <2>2. QED
    BY <2>1 DEF IInv, TradeInv, LegInv, ClosingInv, GoodLeg
<1>2. QED
  BY <1>1, Invariance, PTL

\* An arbitrage with two good legs is never taken apart, and at most one closing
\* order is sent per trade.
THEOREM LoneLegClosed == Spec => []ClosesTheLoneLeg
<1>1. IInv => ClosesTheLoneLeg
  BY DEF IInv, TradeInv, LegInv, ClosingInv, GoodLeg, ClosesTheLoneLeg
<1>2. QED
  BY <1>1, Invariance, PTL

-------------------------------------------------------------------------------
(* How a call ends.                                                        *)

\* What each stage of the unwind and the end of a call say of the legs.
EndInv(t) ==
  /\ \A l \in Legs : legpc[t][l] \in {"storing", "ok"} =>
       /\ order[t][l] \in Accepted \cup {"rejected"}
       /\ order[t][l] \in {"filled", "resting"} => known[t][l]
  /\ pc[t] = "unwind" => \E l \in Legs : GoodLeg(t, l)
  /\ pc[t] = "unwinding" => \E l \in Legs : GoodLeg(t, l) /\ closing[t][l] # "none"
  /\ pc[t] = "returned" =>
       /\ \/ \A l \in Legs : legpc[t][l] = "idle"
          \/ \A l \in Legs : legpc[t][l] \in {"ok", "failed"}
       /\ row[t] = "unwinding" => \E l \in Legs : GoodLeg(t, l) /\ ~known[t][l]
       /\ \/ row[t] = "completed"
          \/ \A l \in Legs : legpc[t][l] # "ok"
          \/ \E l \in Legs : GoodLeg(t, l) /\ (~known[t][l] \/ closing[t][l] # "none")
          \/ "store" \in Faults /\ state[t] = "failed" /\ \A l \in Legs : closing[t][l] = "none"

CallInv == IInv /\ \A t \in Trades : EndInv(t)

LEMMA EndLocality ==
  ASSUME NEW t \in Trades, EndInv(t),
         pc'[t] = pc[t], state'[t] = state[t], row'[t] = row[t], legpc'[t] = legpc[t],
         known'[t] = known[t], order'[t] = order[t], closing'[t] = closing[t]
  PROVE  EndInv(t)'
  BY DEF EndInv, GoodLeg

\* The outer handler: a closing order is out, or the decision was not written.
LEMMA FatalEndInv ==
  ASSUME IInv, NEW t \in Trades, EndInv(t),
         MarkPendingFails(t) \/ DecisionFails(t) \/ UnwindFatal(t)
  PROVE  EndInv(t)'
<1>1. /\ UNCHANGED <<legpc, known, order, closing>> /\ state'[t] = "failed"
      /\ \/ pc'[t] = "returned" /\ row'[t] = IF row[t] = "none" THEN row[t] ELSE "failed"
         \/ pc'[t] = "raised" /\ row'[t] = row[t]
  BY DEF MarkPendingFails, DecisionFails, UnwindFatal, Fatal, IInv, TypeOK, venue
<1>2. row'[t] = "unwinding" => pc'[t] = "raised"
  BY <1>1 DEF IInv, TypeOK
<1>3. CASE MarkPendingFails(t)
  <2>1. \A l \in Legs : legpc[t][l] = "idle"
    BY <1>3 DEF MarkPendingFails, IInv, TradeInv, StageInv
  <2>2. QED
    BY <1>1, <1>2, <2>1 DEF EndInv, GoodLeg
<1>4. CASE DecisionFails(t)
  <2>1. "store" \in Faults /\ pc[t] = "legs" /\ \A l \in Legs : legpc[t][l] \in {"ok", "failed"}
    BY <1>4 DEF DecisionFails, BothOk, NoneOk, OneOk, Legs, Other
  <2>2. \A l \in Legs : closing[t][l] = "none"
    BY <2>1 DEF IInv, TradeInv, ClosingInv, Ended
  <2>3. QED
    BY <1>1, <1>2, <2>1, <2>2 DEF EndInv
<1>5. CASE UnwindFatal(t)
  <2>1. PICK l \in Legs : GoodLeg(t, l) /\ closing[t][l] # "none"
    BY <1>5 DEF UnwindFatal, EndInv
  <2>2. \A k \in Legs : legpc[t][k] \in {"ok", "failed"}
    BY <2>1 DEF GoodLeg, Legs, Other
  <2>3. QED
    BY <1>1, <1>2, <2>1, <2>2 DEF EndInv, GoodLeg
<1>6. QED
  BY <1>3, <1>4, <1>5

LEMMA LegEndInv ==
  ASSUME IInv, NEW t \in Trades, EndInv(t), NEW l \in Legs, LegStep(t, l)
  PROVE  EndInv(t)'
<1> USE DEF IInv, TypeOK, LegGoto, venue
<1>1. pc[t] = "legs" /\ UNCHANGED pc
  BY DEF LegStep, PlaceLeg, LegWithoutBroker, LegReply, LegRaises, LegTimeout, StoreLeg,
         StoreLegFails
<1>2. ASSUME NEW k \in Legs, legpc'[t][k] \in {"storing", "ok"}
      PROVE  /\ order'[t][k] \in Accepted \cup {"rejected"}
             /\ order'[t][k] \in {"filled", "resting"} => known'[t][k]
  <2>1. CASE PlaceLeg(t, l)
    <3>1. k # l
      BY <1>2, <2>1 DEF PlaceLeg
    <3>2. legpc'[t][k] = legpc[t][k] /\ order'[t][k] = order[t][k] /\ known'[t][k] = known[t][k]
      BY <2>1, <3>1 DEF PlaceLeg
    <3>3. QED
      BY <1>2, <3>2 DEF EndInv
  <2>2. CASE LegReply(t, l)
    BY <1>2, <2>2 DEF LegReply, EndInv
  <2>3. CASE LegWithoutBroker(t, l) \/ LegRaises(t, l) \/ StoreLegFails(t, l) \/ LegTimeout(t, l)
    <3>1. legpc' = [legpc EXCEPT ![t][l] = "failed"] /\ UNCHANGED <<order, known>>
      BY <2>3 DEF LegWithoutBroker, LegRaises, StoreLegFails, LegTimeout
    <3>2. legpc[t][k] \in {"storing", "ok"}
      BY <1>2, <3>1
    <3>3. QED
      BY <3>1, <3>2 DEF EndInv
  <2>4. CASE StoreLeg(t, l)
    <3>1. UNCHANGED <<order, known>> /\ legpc[t][l] = "storing"
      BY <2>4 DEF StoreLeg
    <3>2. legpc'[t][k] = legpc[t][k] \/ k = l
      BY <2>4 DEF StoreLeg
    <3>3. QED
      BY <1>2, <3>1, <3>2 DEF EndInv
  <2>5. QED
    BY <2>1, <2>2, <2>3, <2>4 DEF LegStep
<1>3. QED
  BY <1>1, <1>2 DEF EndInv

LEMMA CallEndInv ==
  ASSUME IInv, NEW t \in Trades, EndInv(t), Begin(t) \/ CallStep(t)
  PROVE  EndInv(t)'
<1> USE DEF IInv, TypeOK, Goto, memory, venue
<1>1. CASE Begin(t) \/ PreflightAbort(t) \/ SaveTrade(t) \/ SaveTradeFails(t) \/ MarkPending(t)
  <2>1. pc[t] \in {"idle", "preflight", "saved"}
    BY <1>1 DEF Begin, PreflightAbort, SaveTrade, SaveTradeFails, MarkPending
  <2>2. \A k \in Legs : legpc[t][k] = "idle"
    BY <2>1 DEF TradeInv, StageInv
  <2>3. UNCHANGED <<legpc, known, order, closing>>
    BY <1>1 DEF Begin, PreflightAbort, SaveTrade, SaveTradeFails, MarkPending
  <2>4. pc'[t] \notin {"unwind", "unwinding"}
    BY <1>1 DEF Begin, PreflightAbort, SaveTrade, SaveTradeFails, MarkPending
  <2>5. pc'[t] = "returned" => row'[t] \in {"none", "failed"}
    <3>1. pc[t] = "preflight" => row[t] = "none"
      BY DEF TradeInv, StageInv
    <3>2. CASE SaveTradeFails(t)
      <4>1. pc'[t] = "returned" => row' = row \/ row' = [row EXCEPT ![t] = "failed"]
        BY <3>2 DEF SaveTradeFails
      <4>2. pc[t] = "preflight"
        BY <3>2 DEF SaveTradeFails
      <4>3. QED
        BY <3>1, <4>1, <4>2
    <3>3. CASE Begin(t) \/ PreflightAbort(t) \/ SaveTrade(t) \/ MarkPending(t)
      BY <3>1, <3>3 DEF Begin, PreflightAbort, SaveTrade, MarkPending
    <3>4. QED
      BY <1>1, <3>2, <3>3
  <2>6. QED
    BY <2>2, <2>3, <2>4, <2>5 DEF EndInv
<1>2. CASE MarkPendingFails(t) \/ DecisionFails(t) \/ UnwindFatal(t)
  BY <1>2, FatalEndInv
<1>3. ASSUME NEW l \in Legs, LegStep(t, l) PROVE EndInv(t)'
  BY <1>3, LegEndInv
<1>4. CASE Complete(t) \/ BothLegsFailed(t) \/ DecideUnwind(t)
  <2>1. UNCHANGED <<legpc, known, order, closing>>
    BY <1>4 DEF Complete, BothLegsFailed, DecideUnwind, Record
  <2>2. \/ pc'[t] = "returned" /\ row'[t] = "completed" /\ \A l \in Legs : legpc[t][l] = "ok"
        \/ pc'[t] = "returned" /\ row'[t] = "failed" /\ \A l \in Legs : legpc[t][l] = "failed"
        \/ pc'[t] = "unwind" /\ \E l \in Legs : GoodLeg(t, l)
    BY <1>4 DEF Complete, BothLegsFailed, DecideUnwind, Record, BothOk, NoneOk, OneOk, GoodLeg
  <2>3. QED
    BY <2>1, <2>2 DEF EndInv, GoodLeg
<1>5. CASE PlaceUnwind(t)
  <2>1. PICK l \in Legs : /\ GoodLeg(t, l) /\ known[t][l]
                          /\ closing' = [closing EXCEPT ![t][l] = "sent"]
    BY <1>5 DEF PlaceUnwind
  <2>2. pc'[t] = "unwinding" /\ UNCHANGED <<row, legpc, known, order>>
    BY <1>5 DEF PlaceUnwind
  <2>3. QED
    BY <2>1, <2>2 DEF EndInv, GoodLeg
<1>6. CASE SkipUnwind(t)
  <2>1. PICK l \in Legs : GoodLeg(t, l) /\ ~known[t][l]
    BY <1>6 DEF SkipUnwind
  <2>2. pc'[t] = "returned" /\ UNCHANGED <<row, legpc, known, order, closing>>
    BY <1>6 DEF SkipUnwind
  <2>3. \A k \in Legs : legpc[t][k] \in {"ok", "failed"}
    BY <2>1 DEF GoodLeg, Legs, Other
  <2>4. QED
    BY <2>1, <2>2, <2>3 DEF EndInv, GoodLeg
<1>7. CASE UnwindReply(t) \/ UnwindRaises(t) \/ UnwindTimeout(t)
  <2>1. /\ pc[t] = "unwinding" /\ pc'[t] = "returned" /\ row'[t] \in {"unwound", "failed"}
        /\ UNCHANGED <<legpc, known, order, closing>>
    BY <1>7 DEF UnwindReply, UnwindRaises, UnwindTimeout, EndUnwind
  <2>2. PICK l \in Legs : GoodLeg(t, l) /\ closing[t][l] # "none"
    BY <2>1 DEF EndInv
  <2>3. \A k \in Legs : legpc[t][k] \in {"ok", "failed"}
    BY <2>2 DEF GoodLeg, Legs, Other
  <2>4. QED
    BY <2>1, <2>2, <2>3 DEF EndInv, GoodLeg
<1>8. QED
  BY <1>1, <1>2, <1>3, <1>4, <1>5, <1>6, <1>7 DEF CallStep, Decision, UnwindStep

LEMMA BrokerEndInv ==
  ASSUME IInv, NEW t \in Trades, NEW l \in Legs, BrokerStep(t, l), NEW u \in Trades, EndInv(u)
  PROVE  EndInv(u)'
<1> USE DEF IInv, TypeOK, memory
<1>1. UNCHANGED <<pc, state, row, legpc, known>>
  BY DEF BrokerStep, OrderActedOn, RestingFills, ClosingActedOn
<1>2. \A k \in Legs : closing'[u][k] = "none" <=> closing[u][k] = "none"
  <2>1. CASE ClosingActedOn(t, l)
    <3>1. PICK r \in UnwindReplies : closing' = [closing EXCEPT ![t][l] = r]
      BY <2>1 DEF ClosingActedOn
    <3>2. closing[t][l] = "sent" /\ r # "none"
      BY <2>1, ReplyAssumption DEF ClosingActedOn, Replies
    <3>3. QED
      BY <3>1, <3>2
  <2>2. CASE OrderActedOn(t, l) \/ RestingFills(t, l)
    BY <2>2 DEF OrderActedOn, RestingFills
  <2>3. QED
    BY <2>1, <2>2 DEF BrokerStep
<1>3. ASSUME NEW k \in Legs, legpc[u][k] \in {"storing", "ok"}
      PROVE  /\ order'[u][k] \in Accepted \cup {"rejected"}
             /\ order'[u][k] \in {"filled", "resting"} => known[u][k]
  <2>1. /\ order[u][k] \in Accepted \cup {"rejected"}
        /\ order[u][k] \in {"filled", "resting"} => known[u][k]
    BY <1>3 DEF EndInv
  <2>2. CASE OrderActedOn(t, l)
    <3>1. PICK r \in LegReplies : order' = [order EXCEPT ![t][l] = r]
      BY <2>2 DEF OrderActedOn
    <3>2. ~(u = t /\ k = l)
      BY <2>1, <2>2 DEF OrderActedOn, Accepted
    <3>3. order'[u][k] = order[u][k]
      BY <3>1, <3>2
    <3>4. QED
      BY <2>1, <3>3
  <2>3. CASE RestingFills(t, l)
    <3>1. \/ order'[u][k] = order[u][k]
          \/ order[u][k] = "resting" /\ order'[u][k] = "filled"
      BY <2>3 DEF RestingFills
    <3>2. QED
      BY <2>1, <3>1 DEF Accepted
  <2>4. CASE ClosingActedOn(t, l)
    BY <2>1, <2>4 DEF ClosingActedOn
  <2>5. QED
    BY <2>2, <2>3, <2>4 DEF BrokerStep
<1>4. QED
  BY <1>1, <1>2, <1>3 DEF EndInv, GoodLeg

LEMMA NextCallInv == CallInv /\ [Next]_vars => CallInv'
<1> SUFFICES ASSUME CallInv, [Next]_vars PROVE \A u \in Trades : EndInv(u)'
  BY NextIInv DEF CallInv
<1> TAKE u \in Trades
<1>0. IInv /\ TypeOK /\ EndInv(u)
  BY DEF CallInv, IInv
<1>1. ASSUME NEW t \in Trades, Begin(t) \/ CallStep(t) PROVE EndInv(u)'
  <2>1. CASE u = t
    BY <1>0, <1>1, <2>1, CallEndInv
  <2>2. CASE u # t
    BY <1>0, <1>1, <2>2, CallFrame, EndLocality
  <2>3. QED
    BY <2>1, <2>2
<1>2. ASSUME NEW t \in Trades, NEW l \in Legs, BrokerStep(t, l) PROVE EndInv(u)'
  BY <1>0, <1>2, BrokerEndInv
<1>3. CASE Crash
  <2>1. /\ UNCHANGED <<state, row, legpc, known, order, closing>>
        /\ pc'[u] = IF pc[u] \in Ended \cup {"idle"} THEN pc[u] ELSE "crashed"
    BY <1>3 DEF Crash, memory, venue
  <2>2. QED
    BY <1>0, <2>1 DEF EndInv, GoodLeg, Ended
<1>4. CASE UNCHANGED vars
  BY <1>0, <1>4, EndLocality DEF vars
<1>5. QED
  BY <1>1, <1>2, <1>3, <1>4 DEF Next, AllEnded

LEMMA CallInvariance == Spec => []CallInv
<1>1. Init => CallInv
  <2>1. ASSUME Init, NEW t \in Trades PROVE EndInv(t)
    BY <2>1 DEF Init, EachLeg, EndInv
  <2>2. QED
    BY <2>1, InitIInv DEF CallInv
<1>2. CallInv /\ [Next]_vars => CallInv'
  BY NextCallInv
<1>3. QED
  BY <1>1, <1>2, PTL DEF Spec

\* A call that has returned leaves a final row, none, or that of a skipped unwind.
THEOREM ReturnedIsFinal == Spec => []ReturnedRowIsFinal
<1>1. CallInv => ReturnedRowIsFinal
  <2> SUFFICES ASSUME CallInv, NEW t \in Trades, pc[t] = "returned"
               PROVE  \/ row[t] \in Final \cup {"none"}
                      \/ row[t] = "unwinding" /\ \E l \in Legs : GoodLeg(t, l) /\ ~known[t][l]
    BY DEF ReturnedRowIsFinal
  <2>1. row[t] \in ArbStates \cup {"none"} /\ StageInv(t) /\ EndInv(t)
    BY DEF CallInv, IInv, TypeOK, TradeInv
  <2>2. QED
    BY <2>1 DEF StageInv, EndInv, ArbStates, Final
<1>2. QED
  BY <1>1, CallInvariance, PTL

\* A position left by a call that returned has one of the four causes: a leg given up, a
\* closing order that did not fill, an order left to rest, a decision that was not written.
THEOREM NakedHasACause == Spec => []NakedIsExplained
<1>1. CallInv => NakedIsExplained
  <2> SUFFICES ASSUME CallInv, NEW t \in Trades, NEW l \in Legs,
                      pc[t] = "returned", row[t] # "completed", Exposed(t, l),
                      ~GaveUp(t, l), order[t][l] # "resting",
                      closing[t][l] \in {"none", "filled"}
               PROVE  "store" \in Faults /\ state[t] = "failed" /\ closing[t][l] = "none"
    BY DEF NakedIsExplained
  <2>1. EndInv(t) /\ LegInv(t, l) /\ ClosingInv(t, l)
    BY DEF CallInv, IInv, TradeInv
  <2>2. order[t][l] = "filled" /\ closing[t][l] = "none"
    <3>1. closing[t][l] = "filled" => order[t][l] = "filled"
      BY <2>1 DEF ClosingInv, LegInv
    <3>2. QED
      BY <3>1 DEF Exposed
  <2>3. legpc[t][l] = "ok"
    BY <2>1, <2>2 DEF EndInv, LegInv, GaveUp, Refused
  <2>4. known[t][l]
    BY <2>1, <2>2, <2>3 DEF EndInv
  <2>5. ASSUME NEW k \in Legs, GoodLeg(t, k) PROVE k = l
    BY <2>3, <2>5 DEF GoodLeg, Legs, Other
  <2>6. QED
    BY <2>1, <2>2, <2>3, <2>4, <2>5 DEF EndInv
<1>2. QED
  BY <1>1, CallInvariance, PTL

-------------------------------------------------------------------------------
(* How far a call has got.                                                 *)

Stage(p) == CASE p = "idle" -> 0 [] p = "preflight" -> 1 [] p = "saved" -> 2
              [] p = "legs" -> 3 [] p = "unwind" -> 4 [] p = "unwinding" -> 5
              [] OTHER -> 6

LegStage(p) == CASE p = "idle" -> 0 [] p = "placing" -> 1 [] p = "storing" -> 2
                 [] OTHER -> 3

Progress(t) == Stage(pc[t]) + LegStage(legpc[t]["leg_a"]) + LegStage(legpc[t]["leg_b"])

LEMMA StagesAreBounded ==
  ASSUME NEW p PROVE Stage(p) \in 0..6 /\ LegStage(p) \in 0..3
  BY DEF Stage, LegStage

\* A step of the outer call leaves the legs alone and moves the call on.
LEMMA OuterStepAdvances ==
  ASSUME TypeOK, NEW t \in Trades,
         Begin(t) \/ PreflightAbort(t) \/ SaveTrade(t) \/ SaveTradeFails(t) \/ MarkPending(t)
           \/ MarkPendingFails(t) \/ Decision(t) \/ UnwindStep(t)
  PROVE  legpc' = legpc /\ Stage(pc'[t]) > Stage(pc[t])
<1>1. CASE Begin(t) \/ PreflightAbort(t) \/ SaveTrade(t) \/ SaveTradeFails(t) \/ MarkPending(t)
  BY <1>1 DEF Begin, PreflightAbort, SaveTrade, SaveTradeFails, MarkPending, Goto, Stage,
              TypeOK, memory
<1>2. CASE MarkPendingFails(t) \/ DecisionFails(t) \/ UnwindFatal(t)
  BY <1>2 DEF MarkPendingFails, DecisionFails, UnwindFatal, BothOk, NoneOk, OneOk, Fatal,
              Stage, TypeOK
<1>3. CASE Complete(t) \/ BothLegsFailed(t) \/ DecideUnwind(t)
  BY <1>3 DEF Complete, BothLegsFailed, DecideUnwind, BothOk, NoneOk, OneOk, Record,
              Stage, TypeOK
<1>4. CASE PlaceUnwind(t) \/ SkipUnwind(t) \/ UnwindReply(t) \/ UnwindRaises(t) \/ UnwindTimeout(t)
  BY <1>4 DEF PlaceUnwind, SkipUnwind, UnwindReply, UnwindRaises, UnwindTimeout, EndUnwind,
              Goto, Stage, TypeOK, memory
<1>5. QED
  BY <1>1, <1>2, <1>3, <1>4 DEF Decision, UnwindStep

\* A step of a leg moves that leg on and leaves the other and the call alone.
LEMMA LegStepAdvances ==
  ASSUME TypeOK, NEW t \in Trades, NEW l \in Legs, LegStep(t, l)
  PROVE  /\ pc' = pc
         /\ LegStage(legpc'[t][l]) > LegStage(legpc[t][l])
         /\ legpc'[t][Other(l)] = legpc[t][Other(l)]
<1>1. PICK to : /\ pc' = pc
                /\ legpc' = [legpc EXCEPT ![t][l] = to]
                /\ \/ legpc[t][l] = "idle" /\ to \in {"placing", "failed"}
                   \/ legpc[t][l] = "placing" /\ to \in {"storing", "failed"}
                   \/ legpc[t][l] = "storing" /\ to \in {"ok", "failed"}
  BY DEF LegStep, PlaceLeg, LegWithoutBroker, LegReply, LegRaises, LegTimeout, StoreLeg,
         StoreLegFails, LegGoto
<1>2. legpc'[t][l] = to /\ legpc'[t][Other(l)] = legpc[t][Other(l)]
  BY <1>1 DEF TypeOK, Legs, Other
<1>3. QED
  BY <1>1, <1>2 DEF LegStage

LEMMA CallAdvances ==
  ASSUME TypeOK, NEW t \in Trades, Begin(t) \/ CallStep(t)
  PROVE  Progress(t)' > Progress(t)
<1> DEFINE s(p) == Stage(p)
           g(p) == LegStage(p)
<1>0. /\ \A p : s(p) \in 0..6 /\ g(p) \in 0..3
      /\ Progress(t) = s(pc[t]) + g(legpc[t]["leg_a"]) + g(legpc[t]["leg_b"])
      /\ Progress(t)' = s(pc'[t]) + g(legpc'[t]["leg_a"]) + g(legpc'[t]["leg_b"])
  BY StagesAreBounded DEF Progress
<1>1. ASSUME NEW l \in Legs, LegStep(t, l) PROVE Progress(t)' > Progress(t)
  <2>1. /\ pc' = pc /\ g(legpc'[t][l]) > g(legpc[t][l])
        /\ legpc'[t][Other(l)] = legpc[t][Other(l)]
    BY <1>1, LegStepAdvances
  <2> HIDE DEF s, g
  <2>2. QED
    BY <1>0, <2>1 DEF Legs, Other
<1>2. ASSUME ~\E l \in Legs : LegStep(t, l) PROVE Progress(t)' > Progress(t)
  <2>1. legpc' = legpc /\ s(pc'[t]) > s(pc[t])
    BY <1>2, OuterStepAdvances DEF CallStep
  <2> HIDE DEF s, g
  <2>2. QED
    BY <1>0, <2>1
<1>3. QED
  BY <1>1, <1>2

\* A call never goes back and each of its steps takes it on, towards an end at most
\* twelve steps away: no retry, handler or late answer makes execute_arbitrage or
\* _execute_leg do a thing again, whatever fails and whoever else is under way.
THEOREM CallsAdvance ==
  Spec => /\ [][\A t \in Trades : /\ Progress(t)' >= Progress(t)
                                  /\ Begin(t) \/ CallStep(t) => Progress(t)' > Progress(t)]_vars
          /\ [](\A t \in Trades : Progress(t) \in 0..12)
<1>1. TypeOK /\ [Next]_vars =>
        [\A t \in Trades : /\ Progress(t)' >= Progress(t)
                           /\ Begin(t) \/ CallStep(t) => Progress(t)' > Progress(t)]_vars
  <2> SUFFICES ASSUME TypeOK, Next, NEW u \in Trades
               PROVE  /\ Progress(u)' >= Progress(u)
                      /\ Begin(u) \/ CallStep(u) => Progress(u)' > Progress(u)
    BY DEF vars
  <2>0. Progress(u) \in 0..12 /\ Progress(u)' \in 0..12
    BY StagesAreBounded DEF Progress
  <2>1. Begin(u) \/ CallStep(u) => Progress(u)' > Progress(u)
    BY CallAdvances
  <2>2. ASSUME pc'[u] = pc[u], legpc'[u] = legpc[u] PROVE Progress(u)' >= Progress(u)
    <3>1. Progress(u)' = Progress(u)
      BY <2>2 DEF Progress
    <3>2. QED
      BY <2>0, <3>1
  <2>3. ASSUME NEW t \in Trades, Begin(t) \/ CallStep(t) PROVE Progress(u)' >= Progress(u)
    <3>1. CASE u = t
      BY <2>0, <2>1, <2>3, <3>1
    <3>2. CASE u # t
      BY <2>2, <2>3, <3>2, CallFrame
    <3>3. QED
      BY <3>1, <3>2
  <2>4. ASSUME NEW t \in Trades, NEW l \in Legs, BrokerStep(t, l)
        PROVE  Progress(u)' >= Progress(u)
    BY <2>2, <2>4 DEF BrokerStep, OrderActedOn, RestingFills, ClosingActedOn, memory
  <2>5. ASSUME Crash PROVE Progress(u)' >= Progress(u)
    <3>1. /\ legpc' = legpc
          /\ pc'[u] = IF pc[u] \in Ended \cup {"idle"} THEN pc[u] ELSE "crashed"
      BY <2>5 DEF Crash, memory
    <3>2. CASE pc'[u] = pc[u]
      BY <2>2, <3>1, <3>2
    <3>3. CASE pc'[u] = "crashed"
      <4>1. Stage(pc'[u]) = 6 /\ Stage(pc[u]) \in 0..6
        BY <3>3, StagesAreBounded DEF Stage
      <4>2. /\ LegStage(legpc[u]["leg_a"]) \in 0..3 /\ LegStage(legpc[u]["leg_b"]) \in 0..3
            /\ legpc'[u] = legpc[u]
        BY <3>1, StagesAreBounded
      <4>3. QED
        BY <4>1, <4>2 DEF Progress
    <3>4. QED
      BY <3>1, <3>2, <3>3
  <2>6. ASSUME AllEnded PROVE Progress(u)' >= Progress(u)
    <3>1. pc'[u] = pc[u] /\ legpc'[u] = legpc[u]
      BY <2>6 DEF AllEnded, vars
    <3>2. QED
      BY <2>2, <3>1
  <2>7. QED
    BY <2>1, <2>3, <2>4, <2>5, <2>6 DEF Next
<1>2. \A t \in Trades : Progress(t) \in 0..12
  BY StagesAreBounded DEF Progress
<1>3. QED
  BY <1>1, <1>2, TypeCorrect, PTL DEF Spec

==============================================================================
