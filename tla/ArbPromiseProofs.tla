--------------------------- MODULE ArbPromiseProofs ---------------------------
(***************************************************************************)
(* ArbCoordinator implements DualLeg in an honest world: brokers that      *)
(* answer and fill what they accept, no timeout and no failed write.       *)
(* Every step of it is then a step of DualLeg or changes nothing there.    *)
(***************************************************************************)
EXTENDS ArbCoordinatorProofs

HonestWorld ==
  /\ Faults = {}
  /\ LegReplies \subseteq {"filled", "rejected", "raised"}
  /\ UnwindReplies \subseteq {"filled"}

\* What a leg's progress says of its order when nothing is given up.
HonestLeg(t, l) ==
  /\ order[t][l] \in {"none", "sent", "filled"} \cup Refused
  /\ legpc[t][l] \in {"placing", "storing"} => pc[t] = "legs"
  /\ order[t][l] = "none" <=> legpc[t][l] = "idle"
  /\ order[t][l] = "sent" => legpc[t][l] = "placing"
  /\ legpc[t][l] = "failed" => order[t][l] \in Refused
  /\ legpc[t][l] \in {"storing", "ok"} => (order[t][l] = "filled" <=> known[t][l])
  /\ legpc[t][l] = "idle" => pc[t] \in {"idle", "preflight", "saved", "legs", "returned"}
  /\ closing[t][l] \in {"none", "sent", "filled"}

\* What the stage of the call says of the verdict and of the closing order.
HonestStage(t) ==
  /\ pc[t] \in PC \ {"raised", "crashed"}
  /\ pc[t] = "returned" => row[t] \in Final \cup {"none"}
  /\ row[t] \in Final => pc[t] = "returned"
  /\ pc[t] = "returned" /\ row[t] \in {"none", "failed"} =>
       \A l \in Legs : order[t][l] \in Refused \cup {"none"}
  /\ pc[t] = "unwind" => \E l \in Legs : GoodLeg(t, l)
  /\ pc[t] = "unwinding" =>
       \E l \in Legs : GoodLeg(t, l) /\ closing[t][l] \in {"sent", "filled"}
  /\ row[t] = "unwound" => \E l \in Legs : GoodLeg(t, l) /\ closing[t][l] = "filled"

HonestTrade(t) == HonestStage(t) /\ \A l \in Legs : HonestLeg(t, l)

HonestInv == IInv /\ \A t \in Trades : HonestTrade(t)

LEMMA HonestLocality ==
  ASSUME HonestInv, NEW u \in Trades,
         pc'[u] = pc[u], state'[u] = state[u], row'[u] = row[u], legpc'[u] = legpc[u],
         legrow'[u] = legrow[u], known'[u] = known[u], order'[u] = order[u],
         closing'[u] = closing[u]
  PROVE  HonestTrade(u)'
  BY DEF HonestInv, HonestTrade, HonestStage, HonestLeg, GoodLeg

\* Without faults the handlers of a failed write are never entered.
LEMMA HonestCallTrade ==
  ASSUME HonestWorld, HonestInv, NEW t \in Trades, Begin(t) \/ CallStep(t)
  PROVE  HonestTrade(t)'
<1> USE DEF HonestInv, HonestTrade, IInv, TypeOK, TradeInv, Goto, LegGoto, memory, venue
<1>1. CASE Begin(t) \/ PreflightAbort(t) \/ SaveTrade(t) \/ MarkPending(t)
  <2>1. /\ UNCHANGED <<legpc, known, order, closing>>
        /\ pc[t] \in {"idle", "preflight", "saved"}
        /\ \/ pc'[t] \in {"preflight", "returned"} /\ row'[t] = "none"
           \/ pc'[t] = "saved" /\ row'[t] \in {"init", "toxicity_check"}
           \/ pc'[t] = "legs" /\ row'[t] = "concurrent_pending"
    BY <1>1 DEF Begin, PreflightAbort, SaveTrade, MarkPending, StageInv
  <2>2. \A l \in Legs : legpc[t][l] = "idle" /\ order[t][l] = "none"
    BY <2>1 DEF StageInv, LegInv
  <2>3. HonestStage(t)'
    BY <2>1, <2>2 DEF HonestStage, PC, Final
  <2>4. \A l \in Legs : HonestLeg(t, l)'
    BY <2>1, <2>2 DEF HonestLeg
  <2>5. QED
    BY <2>3, <2>4
<1>2. ASSUME NEW l \in Legs, LegStep(t, l) PROVE HonestTrade(t)'
  <2>1. /\ pc[t] = "legs" /\ row[t] = "concurrent_pending" /\ UNCHANGED <<pc, row, closing>>
        /\ \A k \in Legs : k # l => /\ legpc'[t][k] = legpc[t][k]
                                    /\ known'[t][k] = known[t][k]
                                    /\ order'[t][k] = order[t][k]
    BY <1>2 DEF LegStep, PlaceLeg, LegWithoutBroker, LegReply, LegRaises, LegTimeout,
         StoreLeg, StoreLegFails, StageInv
  <2>2. HonestStage(t)'
    BY <2>1 DEF HonestStage, Final
  <2>3. \A k \in Legs : k # l => HonestLeg(t, k)'
    BY <2>1 DEF HonestLeg
  <2>4. HonestLeg(t, l)
    OBVIOUS
  <2>5. HonestLeg(t, l)'
    <3>1. CASE PlaceLeg(t, l)
      <4>1. legpc'[t][l] = "placing" /\ order'[t][l] = "sent"
        BY <3>1 DEF PlaceLeg
      <4>2. QED
        BY <2>1, <2>4, <4>1 DEF HonestLeg
    <3>2. CASE LegReply(t, l)
      <4>1. /\ order[t][l] \in Accepted \cup {"rejected"}
            /\ legpc[t][l] = "placing" /\ legpc'[t][l] = "storing"
            /\ known'[t][l] <=> order[t][l] \in {"filled", "resting"}
            /\ UNCHANGED order
        BY <3>2 DEF LegReply
      <4>2. order[t][l] \in {"filled", "rejected"}
        BY <2>4, <4>1 DEF HonestLeg, Refused, Accepted
      <4>3. QED
        BY <2>1, <2>4, <4>1, <4>2 DEF HonestLeg, Refused
    <3>3. CASE LegRaises(t, l)
      <4>1. /\ order[t][l] = "raised" /\ legpc'[t][l] = "failed"
            /\ UNCHANGED <<order, known>>
        BY <3>3 DEF LegRaises
      <4>2. QED
        BY <2>1, <2>4, <4>1 DEF HonestLeg, Refused
    <3>4. CASE StoreLeg(t, l)
      <4>1. /\ legpc[t][l] = "storing"
            /\ legpc'[t][l] = IF order[t][l] \in Accepted THEN "ok" ELSE "failed"
            /\ UNCHANGED <<order, known>>
        BY <3>4 DEF StoreLeg
      <4>2. order[t][l] \notin Accepted => order[t][l] \in Refused
        BY <2>4, <4>1 DEF HonestLeg, Accepted
      <4>3. QED
        BY <2>1, <2>4, <4>1, <4>2 DEF HonestLeg
    <3>5. CASE LegWithoutBroker(t, l) \/ LegTimeout(t, l) \/ StoreLegFails(t, l)
      BY <3>5 DEF HonestWorld, LegWithoutBroker, LegTimeout, StoreLegFails
    <3>6. QED
      BY <1>2, <3>1, <3>2, <3>3, <3>4, <3>5 DEF LegStep
  <2>6. QED
    BY <2>2, <2>3, <2>5
<1>3. CASE Complete(t) \/ BothLegsFailed(t) \/ DecideUnwind(t)
  <2>0. UNCHANGED <<legpc, legrow, known, order, closing>>
    BY <1>3 DEF Complete, BothLegsFailed, DecideUnwind, Record
  <2>1. /\ pc[t] = "legs"
        /\ \/ pc'[t] = "returned" /\ row'[t] = "completed" /\ BothOk(t)
           \/ pc'[t] = "returned" /\ row'[t] = "failed" /\ NoneOk(t)
           \/ /\ pc'[t] = "unwind" /\ row'[t] = "unwinding"
              /\ \E l \in Legs : OneOk(t, l)
    <3>1. CASE Complete(t)
      BY <3>1 DEF Complete, Record, BothOk
    <3>2. CASE BothLegsFailed(t)
      BY <3>2 DEF BothLegsFailed, Record, NoneOk
    <3>3. CASE DecideUnwind(t)
      BY <3>3 DEF DecideUnwind, Record, OneOk
    <3>4. QED
      BY <1>3, <3>1, <3>2, <3>3
  <2>2. \A l \in Legs : legpc[t][l] \in {"ok", "failed"}
    BY <2>1 DEF BothOk, NoneOk, OneOk, Legs, Other
  <2>3. HonestStage(t)'
    BY <2>0, <2>1 DEF HonestStage, HonestLeg, PC, Final, GoodLeg, NoneOk, OneOk
  <2>4. \A l \in Legs : HonestLeg(t, l)'
    BY <2>0, <2>1, <2>2 DEF HonestLeg
  <2>5. QED
    BY <2>3, <2>4
<1>4. CASE PlaceUnwind(t)
  <2>1. PICK l \in Legs : /\ GoodLeg(t, l)
                          /\ closing' = [closing EXCEPT ![t][l] = "sent"]
    BY <1>4 DEF PlaceUnwind
  <2>2. /\ pc[t] = "unwind" /\ pc'[t] = "unwinding" /\ row[t] = "unwinding"
        /\ UNCHANGED <<row, legpc, legrow, known, order>>
    BY <1>4 DEF PlaceUnwind, StageInv
  <2>3. GoodLeg(t, l)' /\ closing'[t][l] = "sent"
    BY <2>1, <2>2 DEF GoodLeg
  <2>4. HonestStage(t)'
    BY <2>2, <2>3 DEF HonestStage, PC, Final
  <2>5. \A k \in Legs : HonestLeg(t, k)'
    BY <2>1, <2>2 DEF HonestLeg, GoodLeg, Legs, Other
  <2>6. QED
    BY <2>4, <2>5
<1>5. CASE SkipUnwind(t)
  <2>1. PICK l \in Legs : GoodLeg(t, l) /\ ~known[t][l]
    BY <1>5 DEF SkipUnwind
  <2>2. order[t][l] \in {"filled"} /\ order[t][l] # "filled"
    BY <2>1 DEF GoodLeg, HonestLeg, LegInv, Accepted, Refused
  <2>3. QED
    BY <2>2
<1>6. CASE UnwindReply(t)
  <2>1. /\ pc[t] = "unwinding" /\ pc'[t] = "returned" /\ row'[t] = "unwound"
        /\ UNCHANGED <<legpc, legrow, known, order, closing>>
    BY <1>6 DEF UnwindReply, EndUnwind
  <2>2. PICK l \in Legs : closing[t][l] \in Accepted \cup {"rejected"}
    BY <1>6 DEF UnwindReply
  <2>3. closing[t][l] = "filled" /\ GoodLeg(t, l)
    BY <2>2 DEF HonestLeg, ClosingInv, Accepted
  <2>4. HonestStage(t)'
    BY <2>1, <2>3 DEF HonestStage, PC, Final, GoodLeg
  <2>5. \A k \in Legs : HonestLeg(t, k)'
    BY <2>1, <2>3 DEF HonestLeg, GoodLeg, Legs, Other
  <2>6. QED
    BY <2>4, <2>5
<1>7. CASE \/ SaveTradeFails(t) \/ MarkPendingFails(t) \/ DecisionFails(t)
           \/ UnwindTimeout(t) \/ UnwindFatal(t) \/ UnwindRaises(t)
  <2>1. \A l \in Legs : closing[t][l] # "raised"
    BY DEF HonestLeg
  <2>2. QED
    BY <1>7, <2>1 DEF HonestWorld, SaveTradeFails, MarkPendingFails, DecisionFails,
         UnwindTimeout, UnwindFatal, UnwindRaises
<1>8. QED
  BY <1>1, <1>2, <1>3, <1>4, <1>5, <1>6, <1>7 DEF CallStep, Decision, UnwindStep


\* Without faults the brokers are the only others to move.
LEMMA HonestBrokerTrade ==
  ASSUME HonestWorld, HonestInv, NEW t \in Trades, NEW l \in Legs, BrokerStep(t, l),
         NEW u \in Trades
  PROVE  HonestTrade(u)'
<1> USE DEF HonestInv, HonestTrade, IInv, TypeOK, TradeInv, memory, venue
<1>1. CASE OrderActedOn(t, l)
  <2>1. PICK r \in LegReplies : order' = [order EXCEPT ![t][l] = r]
    BY <1>1 DEF OrderActedOn
  <2>2. /\ order[t][l] = "sent" /\ r \in {"filled", "rejected", "raised"}
        /\ UNCHANGED <<pc, row, legpc, legrow, known, closing>>
    BY <1>1 DEF OrderActedOn, HonestWorld
  <2>3. legpc[t][l] = "placing" /\ pc[t] = "legs"
    BY <2>2 DEF HonestLeg
  <2>4. \A k \in Legs : \/ order'[u][k] = order[u][k]
                        \/ u = t /\ k = l /\ order'[u][k] = r
    BY <2>1
  <2>5. \A k \in Legs : HonestLeg(u, k)'
    BY <2>2, <2>3, <2>4 DEF HonestLeg, Refused
  <2>6. HonestStage(u)'
    <3>1. CASE u = t
      <4>1. pc'[u] = "legs" /\ row'[u] = "concurrent_pending"
        BY <2>2, <2>3, <3>1 DEF StageInv
      <4>2. QED
        BY <4>1 DEF HonestStage, PC, Final
    <3>2. CASE u # t
      <4>1. \A k \in Legs : order'[u][k] = order[u][k]
        BY <2>4, <3>2
      <4>2. QED
        BY <2>2, <4>1 DEF HonestStage, GoodLeg
    <3>3. QED
      BY <3>1, <3>2
  <2>7. QED
    BY <2>5, <2>6
<1>2. CASE RestingFills(t, l)
  <2>1. HonestLeg(t, l) /\ order[t][l] = "resting"
    BY <1>2 DEF RestingFills
  <2>2. QED
    BY <2>1 DEF HonestLeg, Refused
<1>3. CASE ClosingActedOn(t, l)
  <2>1. PICK r \in UnwindReplies : closing' = [closing EXCEPT ![t][l] = r]
    BY <1>3 DEF ClosingActedOn
  <2>2. /\ closing[t][l] = "sent" /\ r = "filled"
        /\ UNCHANGED <<pc, row, legpc, legrow, known, order>>
    BY <1>3, <2>1 DEF ClosingActedOn, HonestWorld
  <2>3. \A k \in Legs : \/ closing'[u][k] = closing[u][k]
                        \/ u = t /\ k = l /\ closing'[u][k] = "filled"
    BY <2>1, <2>2
  <2>4. \A k \in Legs : HonestLeg(u, k)'
    BY <2>2, <2>3 DEF HonestLeg
  <2>5. HonestStage(u)'
    <3>1. \A k \in Legs : closing[u][k] \in {"sent", "filled"} => closing'[u][k] \in {"sent", "filled"}
      BY <2>3
    <3>2. \A k \in Legs : closing[u][k] = "filled" => closing'[u][k] = "filled"
      BY <2>3
    <3>3. QED
      BY <2>2, <3>1, <3>2 DEF HonestStage, GoodLeg
  <2>6. QED
    BY <2>4, <2>5
<1>4. QED
  BY <1>1, <1>2, <1>3 DEF BrokerStep

LEMMA NextHonestInv == HonestWorld /\ HonestInv /\ [Next]_vars => HonestInv'
<1> SUFFICES ASSUME HonestWorld, HonestInv, [Next]_vars
             PROVE  \A u \in Trades : HonestTrade(u)'
  BY NextIInv DEF HonestInv
<1> TAKE u \in Trades
<1>1. ASSUME NEW t \in Trades, Begin(t) \/ CallStep(t) PROVE HonestTrade(u)'
  <2>1. CASE u = t
    BY <1>1, <2>1, HonestCallTrade
  <2>2. CASE u # t
    <3>1. TypeOK
      BY DEF HonestInv, IInv
    <3>2. QED
      BY <1>1, <2>2, <3>1, CallFrame, HonestLocality
  <2>3. QED
    BY <2>1, <2>2
<1>2. ASSUME NEW t \in Trades, NEW l \in Legs, BrokerStep(t, l) PROVE HonestTrade(u)'
  BY <1>2, HonestBrokerTrade
<1>3. CASE Crash
  BY <1>3 DEF Crash, HonestWorld
<1>4. CASE UNCHANGED vars
  BY <1>4, HonestLocality DEF vars
<1>5. QED
  BY <1>1, <1>2, <1>3, <1>4 DEF Next, AllEnded

LEMMA InitHonestInv == Init => HonestInv
<1> SUFFICES ASSUME Init PROVE \A t \in Trades : HonestTrade(t)
  BY InitIInv DEF HonestInv
<1> QED
  BY DEF Init, EachLeg, HonestTrade, HonestStage, HonestLeg, PC, Final

-------------------------------------------------------------------------------
(* The simulation, trade by trade.                                         *)

Held(t) == {l \in Legs : Exposed(t, l)}

\* A step of the call leaves the positions alone; it commits only with both legs
\* held, and aborts only with none.
LEMMA CallSimulates ==
  ASSUME HonestWorld, HonestInv, NEW t \in Trades, Begin(t) \/ CallStep(t)
  PROVE  /\ \A l \in Legs : Exposed(t, l)' = Exposed(t, l)
         /\ \/ Verdict(t)' = Verdict(t)
            \/ Verdict(t) = "open" /\ Verdict(t)' = "completed" /\ \A l \in Legs : Exposed(t, l)
            \/ /\ Verdict(t) = "open" /\ Verdict(t)' \in {"unwound", "failed"}
               /\ \A l \in Legs : ~Exposed(t, l)
<1> USE DEF HonestInv, HonestTrade, IInv, TypeOK, TradeInv, Goto, LegGoto, memory, venue
<1>1. CASE Begin(t) \/ SaveTrade(t) \/ MarkPending(t)
  <2>1. /\ UNCHANGED <<order, closing>>
        /\ pc[t] # "returned" /\ pc'[t] # "returned" /\ row[t] \notin Final
    BY <1>1 DEF Begin, SaveTrade, MarkPending, HonestStage
  <2>2. row'[t] \notin Final
    <3>1. CASE Begin(t)
      BY <2>1, <3>1 DEF Begin
    <3>2. CASE SaveTrade(t)
      <4>1. row'[t] = state[t] /\ state[t] \in {"init", "toxicity_check"}
        BY <3>2 DEF SaveTrade, StageInv
      <4>2. QED
        BY <4>1 DEF Final
    <3>3. CASE MarkPending(t)
      BY <3>3 DEF MarkPending, Final
    <3>4. QED
      BY <1>1, <3>1, <3>2, <3>3
  <2>3. QED
    BY <2>1, <2>2 DEF Verdict, Exposed
<1>2. CASE PreflightAbort(t)
  <2>1. /\ UNCHANGED <<row, order, closing>> /\ row[t] = "none"
        /\ pc[t] = "preflight" /\ pc'[t] = "returned"
    BY <1>2 DEF PreflightAbort, StageInv
  <2>2. \A l \in Legs : order[t][l] = "none" /\ closing[t][l] = "none"
    BY <2>1 DEF StageInv, LegInv, ClosingInv, Ended
  <2>3. QED
    BY <2>1, <2>2 DEF Verdict, Exposed, Final
<1>3. ASSUME NEW l \in Legs, LegStep(t, l)
      PROVE  (\A k \in Legs : Exposed(t, k)' = Exposed(t, k)) /\ Verdict(t)' = Verdict(t)
  <2>1. /\ UNCHANGED <<pc, row, closing>>
        /\ \/ UNCHANGED order
           \/ legpc[t][l] = "idle" /\ order' = [order EXCEPT ![t][l] = "sent"]
    BY <1>3 DEF LegStep, PlaceLeg, LegWithoutBroker, LegReply, LegRaises, LegTimeout,
         StoreLeg, StoreLegFails
  <2>2. \A k \in Legs : (order'[t][k] = "filled") <=> (order[t][k] = "filled")
    BY <2>1 DEF LegInv
  <2>3. QED
    BY <2>1, <2>2 DEF Verdict, Exposed
<1>4. CASE Complete(t) \/ BothLegsFailed(t) \/ DecideUnwind(t)
  <2>1. UNCHANGED <<order, closing>> /\ pc[t] = "legs" /\ row[t] = "concurrent_pending"
    BY <1>4 DEF Complete, BothLegsFailed, DecideUnwind, Record, BothOk, NoneOk, OneOk, StageInv
  <2>2. Verdict(t) = "open" /\ \A l \in Legs : closing[t][l] = "none"
    BY <2>1 DEF Verdict, Final, ClosingInv, Ended
  <2>3. CASE Complete(t)
    <3>1. Verdict(t)' = "completed" /\ \A l \in Legs : legpc[t][l] = "ok"
      BY <2>3 DEF Complete, Record, BothOk, Verdict, Final
    <3>2. \A l \in Legs : order[t][l] = "filled"
      BY <3>1 DEF LegInv, HonestLeg, Accepted, Refused
    <3>3. QED
      BY <2>1, <2>2, <3>1, <3>2 DEF Exposed
  <2>4. CASE BothLegsFailed(t)
    <3>1. Verdict(t)' = "failed" /\ \A l \in Legs : legpc[t][l] = "failed"
      BY <2>4 DEF BothLegsFailed, Record, NoneOk, Verdict, Final
    <3>2. \A l \in Legs : order[t][l] # "filled"
      BY <3>1 DEF HonestLeg, Refused
    <3>3. QED
      BY <2>1, <2>2, <3>1, <3>2 DEF Exposed
  <2>5. CASE DecideUnwind(t)
    <3>1. pc'[t] = "unwind" /\ row'[t] = "unwinding"
      BY <2>5 DEF DecideUnwind, Record
    <3>2. QED
      BY <2>1, <2>2, <3>1 DEF Exposed, Verdict, Final
  <2>6. QED
    BY <1>4, <2>3, <2>4, <2>5
<1>5. CASE PlaceUnwind(t)
  <2>1. PICK l \in Legs : GoodLeg(t, l) /\ closing' = [closing EXCEPT ![t][l] = "sent"]
    BY <1>5 DEF PlaceUnwind
  <2>2. /\ pc[t] = "unwind" /\ pc'[t] = "unwinding" /\ row[t] = "unwinding"
        /\ UNCHANGED <<row, order>>
    BY <1>5 DEF PlaceUnwind, StageInv
  <2>3. \A k \in Legs : closing[t][k] = "none" /\ closing'[t][k] # "filled"
    <3>1. \A k \in Legs : closing[t][k] = "none"
      BY <2>2 DEF ClosingInv, Ended
    <3>2. \A k \in Legs : closing'[t][k] \in {"none", "sent"}
      BY <2>1, <3>1
    <3>3. QED
      BY <3>1, <3>2
  <2>4. QED
    BY <2>2, <2>3 DEF Exposed, Verdict, Final
<1>6. CASE SkipUnwind(t)
  <2>1. PICK l \in Legs : GoodLeg(t, l) /\ ~known[t][l]
    BY <1>6 DEF SkipUnwind
  <2>2. order[t][l] \in {"filled"} /\ order[t][l] # "filled"
    BY <2>1 DEF GoodLeg, HonestLeg, LegInv, Accepted, Refused
  <2>3. QED
    BY <2>2
<1>7. CASE UnwindReply(t)
  <2>1. /\ pc[t] = "unwinding" /\ pc'[t] = "returned" /\ row[t] = "unwinding"
        /\ row'[t] = "unwound" /\ UNCHANGED <<order, closing>>
    BY <1>7 DEF UnwindReply, EndUnwind, StageInv
  <2>2. PICK l \in Legs : closing[t][l] \in Accepted \cup {"rejected"}
    BY <1>7 DEF UnwindReply
  <2>3. closing[t][l] = "filled" /\ GoodLeg(t, l) /\ closing[t][Other(l)] = "none"
    BY <2>2 DEF HonestLeg, ClosingInv, Accepted
  <2>4. order[t][l] = "filled" /\ order[t][Other(l)] # "filled"
    <3>1. l \in Legs /\ Other(l) \in Legs
      BY DEF Other, Legs
    <3>2. legpc[t][l] = "ok" /\ legpc[t][Other(l)] = "failed"
      BY <2>3 DEF GoodLeg
    <3>3. order[t][l] \in Accepted
      BY <3>1, <3>2 DEF LegInv
    <3>4. order[t][l] \in {"none", "sent", "filled"} \cup Refused
      BY <3>1 DEF HonestLeg
    <3>5. order[t][Other(l)] \in Refused
      BY <3>1, <3>2 DEF HonestLeg
    <3>6. QED
      BY <3>3, <3>4, <3>5 DEF Accepted, Refused
  <2>5. \A k \in Legs : ~Exposed(t, k)
    BY <2>3, <2>4 DEF Exposed, Other, Legs
  <2>6. QED
    BY <2>1, <2>5 DEF Exposed, Verdict, Final
<1>8. CASE \/ SaveTradeFails(t) \/ MarkPendingFails(t) \/ DecisionFails(t)
           \/ UnwindTimeout(t) \/ UnwindFatal(t) \/ UnwindRaises(t)
  <2>1. \A l \in Legs : closing[t][l] # "raised"
    BY DEF HonestLeg
  <2>2. QED
    BY <1>8, <2>1 DEF HonestWorld, SaveTradeFails, MarkPendingFails, DecisionFails,
         UnwindTimeout, UnwindFatal, UnwindRaises
<1>9. QED
  BY <1>1, <1>2, <1>3, <1>4, <1>5, <1>6, <1>7, <1>8 DEF CallStep, Decision, UnwindStep

\* A step of a broker opens the leg it fills, or closes the only leg held.
LEMMA BrokerSimulates ==
  ASSUME HonestWorld, HonestInv, NEW t \in Trades, NEW l \in Legs, BrokerStep(t, l)
  PROVE  /\ UNCHANGED <<pc, row>>
         /\ \A u \in Trades, k \in Legs :
              u # t \/ k # l => Exposed(u, k)' = Exposed(u, k)
         /\ \/ Exposed(t, l)' = Exposed(t, l)
            \/ Verdict(t) = "open" /\ ~Exposed(t, l) /\ Exposed(t, l)'
            \/ /\ Verdict(t) = "open" /\ Exposed(t, l) /\ ~Exposed(t, l)'
               /\ \A k \in Legs : k # l => ~Exposed(t, k)
<1> USE DEF HonestInv, HonestTrade, IInv, TypeOK, TradeInv, memory, venue
<1>1. CASE OrderActedOn(t, l)
  <2>1. PICK r \in LegReplies : order' = [order EXCEPT ![t][l] = r]
    BY <1>1 DEF OrderActedOn
  <2>2. order[t][l] = "sent" /\ UNCHANGED <<pc, row, closing>>
    BY <1>1 DEF OrderActedOn
  <2>3. legpc[t][l] = "placing" /\ pc[t] = "legs" /\ row[t] = "concurrent_pending"
    BY <2>2 DEF HonestLeg, StageInv
  <2>4. closing[t][l] = "none" /\ Verdict(t) = "open"
    BY <2>3 DEF ClosingInv, Ended, Verdict, Final
  <2>5. \A u \in Trades, k \in Legs : u # t \/ k # l => order'[u][k] = order[u][k]
    BY <2>1
  <2>6. QED
    BY <2>2, <2>4, <2>5 DEF Exposed
<1>2. CASE RestingFills(t, l)
  <2>1. HonestLeg(t, l) /\ order[t][l] = "resting"
    BY <1>2 DEF RestingFills
  <2>2. QED
    BY <2>1 DEF HonestLeg, Refused
<1>3. CASE ClosingActedOn(t, l)
  <2>1. PICK r \in UnwindReplies : closing' = [closing EXCEPT ![t][l] = r]
    BY <1>3 DEF ClosingActedOn
  <2>2. /\ closing[t][l] = "sent" /\ closing'[t][l] = "filled"
        /\ UNCHANGED <<pc, row, order>>
    BY <1>3, <2>1 DEF ClosingActedOn, HonestWorld
  <2>3. GoodLeg(t, l) /\ closing[t][Other(l)] = "none"
    BY <2>2 DEF ClosingInv
  <2>4. order[t][l] = "filled" /\ order[t][Other(l)] \in Refused
    <3>1. Other(l) \in Legs
      BY DEF Other, Legs
    <3>2. HonestLeg(t, l) /\ HonestLeg(t, Other(l)) /\ LegInv(t, l)
      BY <3>1
    <3>3. order[t][Other(l)] \in Refused
      BY <2>3, <3>2 DEF GoodLeg, HonestLeg
    <3>4. order[t][l] = "filled"
      BY <2>3, <3>2 DEF GoodLeg, HonestLeg, LegInv, Accepted, Refused
    <3>5. QED
      BY <3>3, <3>4
  <2>5. pc[t] = "unwinding"
    <3>1. pc[t] \in {"unwinding", "returned"}
      BY <2>2 DEF ClosingInv, Ended, HonestStage
    <3>2. row[t] # "completed"
      BY <2>3 DEF StageInv, GoodLeg, Other, Legs
    <3>3. row[t] = "unwound" => FALSE
      <4>1. \A k \in Legs : k # l => closing[t][k] = "none"
        BY <2>3 DEF Other, Legs
      <4>2. QED
        BY <2>2, <4>1 DEF HonestStage
    <3>4. pc[t] = "returned" => row[t] \notin {"none", "failed"}
      BY <2>4 DEF HonestStage, Refused
    <3>5. QED
      BY <3>1, <3>2, <3>3, <3>4 DEF HonestStage, Final
  <2>6. Verdict(t) = "open"
    BY <2>5 DEF StageInv, Verdict, Final
  <2>7. \A k \in Legs : k # l => ~Exposed(t, k)
    BY <2>3, <2>4 DEF Exposed, Other, Legs, Refused
  <2>8. \A u \in Trades, k \in Legs : u # t \/ k # l => closing'[u][k] = closing[u][k]
    BY <2>1
  <2>9. QED
    BY <2>2, <2>4, <2>6, <2>7, <2>8 DEF Exposed
<1>4. QED
  BY <1>1, <1>2, <1>3 DEF BrokerStep

-------------------------------------------------------------------------------
(* From trades to the variables of DualLeg.                                *)

LEMMA InitSimulates == Init => Promise!Init
<1> SUFFICES ASSUME Init PROVE Promise!Init
  OBVIOUS
<1>1. \A t \in Trades : Held(t) = {} /\ Verdict(t) = "open"
  BY DEF Init, EachLeg, Held, Exposed, Verdict, Final
<1>2. QED
  BY <1>1 DEF Promise!Init, Held

LEMMA StepSimulates ==
  ASSUME HonestWorld, HonestInv, [Next]_vars
  PROVE  [Promise!Next]_(Promise!vars)
<1> USE DEF Promise!vars, Held
<1>1. ASSUME NEW t \in Trades, Begin(t) \/ CallStep(t)
      PROVE  Promise!Next \/ UNCHANGED Promise!vars
  <2>1. \A u \in Trades, l \in Legs : Exposed(u, l)' = Exposed(u, l)
    BY <1>1, CallSimulates, CallFrame DEF HonestInv, IInv, Exposed
  <2>2. \A u \in Trades : u # t => Verdict(u)' = Verdict(u)
    BY <1>1, CallFrame DEF HonestInv, IInv, Verdict
  <2>3. \A u \in Trades : Held(u)' = Held(u)
    BY <2>1
  <2>4. CASE Verdict(t)' = Verdict(t)
    <3>1. \A u \in Trades : Verdict(u)' = Verdict(u)
      BY <2>2, <2>4
    <3>2. QED
      BY <2>3, <3>1
  <2>5. CASE Verdict(t) = "open" /\ Verdict(t)' = "completed" /\ \A l \in Legs : Exposed(t, l)
    <3>1. Promise!Commit(t)
      BY <2>2, <2>3, <2>5 DEF Promise!Commit
    <3>2. QED
      BY <3>1 DEF Promise!Next
  <2>6. CASE /\ Verdict(t) = "open" /\ Verdict(t)' \in {"unwound", "failed"}
             /\ \A l \in Legs : ~Exposed(t, l)
    <3>1. Promise!Abort(t)
      BY <2>2, <2>3, <2>6 DEF Promise!Abort
    <3>2. QED
      BY <3>1 DEF Promise!Next
  <2>7. QED
    BY <1>1, <2>4, <2>5, <2>6, CallSimulates
<1>2. ASSUME NEW t \in Trades, NEW l \in Legs, BrokerStep(t, l)
      PROVE  Promise!Next \/ UNCHANGED Promise!vars
  <2>1. \A u \in Trades : Verdict(u)' = Verdict(u)
    BY <1>2, BrokerSimulates DEF Verdict
  <2>2. \A u \in Trades, k \in Legs : u # t \/ k # l => Exposed(u, k)' = Exposed(u, k)
    BY <1>2, BrokerSimulates
  <2>3. \A u \in Trades : u # t => Held(u)' = Held(u)
    BY <2>2
  <2>4. CASE Exposed(t, l)' = Exposed(t, l)
    <3>1. Held(t)' = Held(t)
      BY <2>2, <2>4
    <3>2. QED
      BY <2>1, <2>3, <3>1
  <2>5. CASE Verdict(t) = "open" /\ ~Exposed(t, l) /\ Exposed(t, l)'
    <3>1. l \notin Held(t) /\ Held(t)' = Held(t) \cup {l}
      BY <2>2, <2>5
    <3>2. Promise!Open(t, l)
      BY <2>1, <2>3, <2>5, <3>1 DEF Promise!Open
    <3>3. QED
      BY <3>2 DEF Promise!Next
  <2>6. CASE /\ Verdict(t) = "open" /\ Exposed(t, l) /\ ~Exposed(t, l)'
             /\ \A k \in Legs : k # l => ~Exposed(t, k)
    <3>1. Held(t) = {l} /\ Held(t)' = {}
      BY <2>2, <2>6
    <3>2. Promise!Close(t, l)
      BY <2>1, <2>3, <2>6, <3>1 DEF Promise!Close
    <3>3. QED
      BY <3>2 DEF Promise!Next
  <2>7. QED
    BY <1>2, <2>4, <2>5, <2>6, BrokerSimulates
<1>3. CASE Crash
  BY <1>3 DEF Crash, HonestWorld
<1>4. CASE UNCHANGED vars
  BY <1>4 DEF vars, Exposed, Verdict
<1>5. QED
  BY <1>1, <1>2, <1>3, <1>4 DEF Next, AllEnded

\* All or nothing: in an honest world every behaviour of the protocol, for any
\* number of trades, is one of DualLeg.
THEOREM KeepsPromise == HonestWorld => (Spec => PromiseSpec)
<1> SUFFICES ASSUME HonestWorld PROVE Spec => PromiseSpec
  OBVIOUS
<1>1. Init => HonestInv
  BY InitHonestInv
<1>2. HonestInv /\ [Next]_vars => HonestInv'
  BY NextHonestInv
<1>3. Init => Promise!Init
  BY InitSimulates
<1>4. HonestInv /\ [Next]_vars => [Promise!Next]_(Promise!vars)
  BY StepSimulates
<1>5. QED
  BY <1>1, <1>2, <1>3, <1>4, PTL DEF Spec, PromiseSpec, Promise!Spec

LEMMA HonestInvariance == HonestWorld => (Spec => []HonestInv)
<1> SUFFICES ASSUME HonestWorld PROVE Spec => []HonestInv
  OBVIOUS
<1>1. Init => HonestInv
  BY InitHonestInv
<1>2. HonestInv /\ [Next]_vars => HonestInv'
  BY NextHonestInv
<1>3. QED
  BY <1>1, <1>2, PTL DEF Spec

\* In an honest world a trade recorded FAILED holds nothing.
THEOREM FailedIsFlat == HonestWorld => (Spec => []FailedMeansFlat)
<1> SUFFICES ASSUME HonestWorld PROVE Spec => []FailedMeansFlat
  OBVIOUS
<1>1. HonestInv => FailedMeansFlat
  <2> SUFFICES ASSUME HonestInv, NEW t \in Trades, NEW l \in Legs, row[t] = "failed"
               PROVE  ~Exposed(t, l)
    BY DEF FailedMeansFlat
  <2> USE DEF HonestInv, HonestTrade, IInv, TradeInv
  <2>1. pc[t] = "returned"
    BY DEF HonestStage, Final
  <2>2. order[t][l] \in Refused \cup {"none"}
    BY <2>1 DEF HonestStage
  <2>3. closing[t][l] = "none"
    BY <2>2 DEF ClosingInv, GoodLeg, LegInv, Accepted, Refused
  <2>4. QED
    BY <2>2, <2>3 DEF Exposed, Refused
<1>2. QED
  BY <1>1, HonestInvariance, PTL

\* In an honest world a trade recorded UNWOUND holds nothing: the good leg has been
\* closed, and the other one was refused.
THEOREM UnwoundIsClosed == HonestWorld => (Spec => []UnwoundMeansClosed)
<1> SUFFICES ASSUME HonestWorld PROVE Spec => []UnwoundMeansClosed
  OBVIOUS
<1>1. HonestInv => UnwoundMeansClosed
  <2> SUFFICES ASSUME HonestInv, NEW t \in Trades, NEW l \in Legs, row[t] = "unwound"
               PROVE  ~Exposed(t, l)
    BY DEF UnwoundMeansClosed
  <2> USE DEF HonestInv, HonestTrade, IInv, TradeInv
  <2>1. PICK g \in Legs : GoodLeg(t, g) /\ closing[t][g] = "filled"
    BY DEF HonestStage
  <2>2. known[t][g] /\ closing[t][Other(g)] = "none"
    BY <2>1 DEF ClosingInv
  <2>3. order[t][g] = "filled"
    BY <2>1, <2>2 DEF HonestLeg, GoodLeg
  <2>4. order[t][Other(g)] \in Refused
    BY <2>1 DEF HonestLeg, GoodLeg, Legs, Other
  <2>5. l = g \/ l = Other(g)
    BY DEF Legs, Other
  <2>6. QED
    BY <2>1, <2>2, <2>3, <2>4, <2>5 DEF Exposed, Refused
<1>2. QED
  BY <1>1, HonestInvariance, PTL

==============================================================================
