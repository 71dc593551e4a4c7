----------------------- MODULE OpportunityRouterProofs -----------------------
(***************************************************************************)
(* What holds of OpportunityRouter for all opportunities, agents, settings *)
(* and faults: its types, the three invariants that survive every fault,   *)
(* the four that hold while every write succeeds, and that each route      *)
(* makes its way to an end.                                                *)
(***************************************************************************)
EXTENDS OpportunityRouter, FiniteSetTheorems, TLAPS

Firm == {"policy", "ready", "risk", "rules"}
Ordered == {"placing", "recording", "trading", "tracking", "guarding", "finishing", "failing"}
Answered == Ordered \ {"placing", "failing"}

\* How far the route has got determines what can be ordered and refused.
RouteInv(o) ==
  /\ order[o] # "none" => pc[o] \in Ordered \cup Ended
  /\ pc[o] \in Answered => order[o] \in Answers
  /\ shadow[o] => order[o] = "none" /\ pc[o] \notin Ordered
  /\ refused[o] \in Firm => order[o] = "none" /\ pc[o] \in Ended

\* The positions of an entry, with the reasons for them.
PositionInv(p) ==
  /\ pos[p] # "none" => order[p] \in Answers
  /\ pos[p] = "closed" => \E e \in Exits : Closes[e] = p /\ order[e] \in Answers

\* An exit is found only where there is a position.
FoundInv == \A e \in Exits : pc[e] # "idle" => pos[Closes[e]] # "none"

IInv ==
  /\ TypeOK
  /\ \A o \in Opps : RouteInv(o)
  /\ \A p \in Entries : PositionInv(p)
  /\ FoundInv

-------------------------------------------------------------------------------
(* Types, one group of actions at a time.                                  *)

\* What the steps of a route do to pc and refused.
LEMMA GotoType ==
  ASSUME TypeOK, NEW o \in Opps, NEW from, NEW to \in Running \cup Ended, Goto(o, from, to)
  PROVE  pc' \in [Opps -> {"idle"} \cup Running \cup Ended]
  BY DEF TypeOK, Goto

LEMMA NotesType ==
  ASSUME TypeOK, NEW o \in Opps, NEW gate \in Gates, Notes(o, gate)
  PROVE  refused' \in [Opps -> {"no"} \cup Gates]
  BY DEF TypeOK, Notes

LEMMA RefusesType ==
  ASSUME TypeOK, NEW o \in Opps, NEW gate \in Gates, NEW toShadow \in BOOLEAN,
         Refuses(o, gate, toShadow), UNCHANGED <<health, shadowMode>>, killed' \in BOOLEAN
  PROVE  TypeOK'
<1>1. pc' \in [Opps -> {"idle"} \cup Running \cup Ended]
  BY GotoType DEF Refuses, Ended
<1>2. refused' \in [Opps -> {"no"} \cup Gates]
  BY NotesType DEF Refuses
<1>3. row' \in [Opps -> {"none", "pending", "rejected", "executed"}]
  BY DEF Refuses, TypeOK
<1>4. shadowRow' \in [Opps -> {"none", "allowed", "blocked"}]
  BY DEF Refuses, TypeOK
<1>5. QED
  BY <1>1, <1>2, <1>3, <1>4 DEF Refuses, TypeOK, exits

LEMMA RefusalFailsType ==
  ASSUME TypeOK, NEW o \in Opps, NEW gate \in Gates, NEW to \in Running \cup Ended,
         RefusalFails(o, gate, to), UNCHANGED <<health, shadowMode>>, killed' \in BOOLEAN
  PROVE  TypeOK'
<1>1. pc' \in [Opps -> {"idle"} \cup Running \cup Ended]
  BY GotoType DEF RefusalFails
<1>2. refused' \in [Opps -> {"no"} \cup Gates]
  BY NotesType DEF RefusalFails
<1>3. QED
  BY <1>1, <1>2 DEF RefusalFails, TypeOK, exits, books

LEMMA PassesType ==
  ASSUME TypeOK, NEW o \in Opps, NEW gate, NEW to \in Running \cup Ended,
         Passes(o, gate, to), UNCHANGED world
  PROVE  TypeOK'
<1>1. pc' \in [Opps -> {"idle"} \cup Running \cup Ended]
  BY GotoType DEF Passes
<1>2. QED
  BY <1>1 DEF Passes, TypeOK, exits, books, world

\* The gates.
LEMMA GateType == ASSUME TypeOK, NEW o \in Opps, GateStep(o) PROVE TypeOK'
<1>0. /\ {"done", "raised"} \subseteq Ended
      /\ {"policy", "health", "ready", "adjust", "risk", "rules"} = Gates
      /\ Gates \cup {"placing"} \subseteq Running
      /\ shadow[o] \in BOOLEAN /\ killed \in BOOLEAN
  BY DEF Ended, Gates, Running, TypeOK
<1>1. CASE PolicyRefuses(o)
  BY <1>0, <1>1, RefusesType, RefusalFailsType DEF PolicyRefuses, world
<1>2. CASE PolicyPasses(o)
  <2>1. pc' \in [Opps -> {"idle"} \cup Running \cup Ended]
    BY <1>0, <1>2, GotoType DEF PolicyPasses
  <2>2. shadow' \in [Opps -> BOOLEAN]
    <3>1. shadow' = shadow \/ shadow' = [shadow EXCEPT ![o] = shadowMode[AgentOf[o]]]
      BY <1>2 DEF PolicyPasses
    <3>2. shadowMode[AgentOf[o]] \in BOOLEAN
      BY OppAssumption DEF TypeOK
    <3>3. QED
      BY <3>1, <3>2 DEF TypeOK
  <2>3. QED
    BY <1>2, <2>1, <2>2 DEF PolicyPasses, TypeOK, exits, books, world
<1>3. CASE HealthGate(o)
  BY <1>0, <1>3, RefusesType, RefusalFailsType, PassesType DEF HealthGate, world
<1>4. CASE ReadyGate(o)
  BY <1>0, <1>4, RefusesType, RefusalFailsType, PassesType DEF ReadyGate, world
<1>5. CASE AdjustGate(o)
  BY <1>0, <1>5, RefusesType, RefusalFailsType, PassesType DEF AdjustGate, world
<1>6. CASE RiskGate(o)
  BY <1>0, <1>6, RefusesType, RefusalFailsType, PassesType DEF RiskGate, world
<1>7. CASE RulesRefuse(o)
  <2>1. killed' \in BOOLEAN
    BY <1>0, <1>7 DEF RulesRefuse
  <2>2. QED
    BY <1>0, <1>7, <2>1, RefusesType, RefusalFailsType DEF RulesRefuse
<1>8. CASE RulesRaise(o)
  BY <1>0, <1>8, PassesType DEF RulesRaise
<1>9. CASE RecordAllowed(o)
  <2>1. pc' \in [Opps -> {"idle"} \cup Running \cup Ended]
    BY <1>0, <1>9, GotoType DEF RecordAllowed
  <2>2. shadowRow' \in [Opps -> {"none", "allowed", "blocked"}]
    BY <1>9 DEF RecordAllowed, TypeOK
  <2>3. QED
    BY <1>9, <2>1, <2>2 DEF RecordAllowed, TypeOK, exits, world
<1>10. CASE PlaceOrder(o)
  <2>1. pc' \in [Opps -> {"idle"} \cup Running \cup Ended]
    BY <1>0, <1>10, GotoType DEF PlaceOrder
  <2>2. order' \in [Opps -> Orders]
    BY <1>10 DEF PlaceOrder, TypeOK, Orders
  <2>3. QED
    BY <1>10, <2>1, <2>2 DEF PlaceOrder, TypeOK, exits, books, world
<1>11. QED
  BY <1>1, <1>2, <1>3, <1>4, <1>5, <1>6, <1>7, <1>8, <1>9, <1>10 DEF GateStep

\* The books.
LEMMA BookType == ASSUME TypeOK, NEW o \in Opps, BookStep(o) PROVE TypeOK'
<1> USE DEF exits, books, world
<1>1. pc' \in [Opps -> {"idle"} \cup Running \cup Ended]
  <2>1. PICK from \in Ordered, to \in Running \cup Ended : Goto(o, from, to)
    BY DEF BookStep, Reply, MarkExecuted, SaveTrade, BookFails, Track, TrackFails, Attach,
           Detach, Finish, Fail, Running, Ended, Ordered
  <2>2. QED
    BY <2>1, GotoType
<1>2. row' \in [Opps -> {"none", "pending", "rejected", "executed"}]
  <2>1. \/ row' = row
        \/ row' = [row EXCEPT ![o] = "executed"]
        \/ row' = [row EXCEPT ![o] = "rejected"]
    BY DEF BookStep, Reply, MarkExecuted, SaveTrade, BookFails, Track, TrackFails, Attach,
           Detach, Finish, Fail
  <2>2. QED
    BY <2>1 DEF TypeOK
<1>3. trade' \subseteq Opps
  <2>1. trade' \in {trade, trade \cup {o}}
    BY DEF BookStep, Reply, MarkExecuted, SaveTrade, BookFails, Track, TrackFails, Attach,
           Detach, Finish, Fail
  <2>2. QED
    BY <2>1 DEF TypeOK
<1>4. pos' \in [Entries -> {"none", "open", "closed"}]
  <2>1. CASE Track(o)
    BY <2>1 DEF Track, TypeOK
  <2>2. CASE ~Track(o)
    <3>1. pos' = pos
      BY <2>2 DEF BookStep, Reply, MarkExecuted, SaveTrade, BookFails, TrackFails, Attach,
           Detach, Finish, Fail
    <3>2. QED
      BY <3>1 DEF TypeOK
  <2>3. QED
    BY <2>1, <2>2
<1>5. rules' \subseteq Entries /\ saved' \subseteq Entries
  <2>1. CASE Attach(o)
    BY <2>1 DEF Attach, TypeOK
  <2>2. CASE Detach(o)
    BY <2>2 DEF Detach, TypeOK
  <2>3. CASE ~Attach(o) /\ ~Detach(o)
    <3>1. rules' = rules /\ saved' = saved
      BY <2>3 DEF BookStep, Reply, MarkExecuted, SaveTrade, BookFails, Track, TrackFails,
           Finish, Fail
    <3>2. QED
      BY <3>1 DEF TypeOK
  <2>4. QED
    BY <2>1, <2>2, <2>3
<1>6. UNCHANGED <<shadow, refused, shadowRow, order, cooling, health, shadowMode, killed>>
  BY DEF BookStep, Reply, MarkExecuted, SaveTrade, BookFails, Track, TrackFails, Attach,
         Detach, Finish, Fail
<1>7. QED
  BY <1>1, <1>2, <1>3, <1>4, <1>5, <1>6 DEF TypeOK

\* Scans, the venue, and everyone else.
LEMMA ScanType ==
  ASSUME TypeOK, NEW o \in Opps, Scan(o) \/ Save(o) \/ SaveFails(o) PROVE TypeOK'
<1> USE DEF exits, books, world
<1>1. pc' \in [Opps -> {"idle"} \cup Running \cup Ended]
  <2>1. PICK from \in {"idle", "scanned"}, to \in Running \cup Ended : Goto(o, from, to)
    BY DEF Scan, Save, SaveFails, Running, Ended, Gates
  <2>2. QED
    BY <2>1, GotoType
<1>2. CASE Scan(o)
  <2>1. cooling' \subseteq Entries
    BY <1>2, OppAssumption DEF Scan, TypeOK
  <2>2. QED
    BY <1>1, <1>2, <2>1 DEF Scan, TypeOK
<1>3. CASE Save(o)
  <2>1. row' \in [Opps -> {"none", "pending", "rejected", "executed"}]
    BY <1>3 DEF Save, TypeOK
  <2>2. QED
    BY <1>1, <1>3, <2>1 DEF Save, TypeOK
<1>4. CASE SaveFails(o)
  BY <1>1, <1>4 DEF SaveFails, TypeOK
<1>5. QED
  BY <1>2, <1>3, <1>4

LEMMA VenueType ==
  ASSUME TypeOK, NEW o \in Opps, VenueActs(o) PROVE TypeOK'
<1> USE DEF exits, books, world
<1>1. PICK r \in Orders : order' = [order EXCEPT ![o] = r]
  BY VenueAssumption DEF VenueActs, Orders, Answers
<1>2. QED
  BY <1>1 DEF VenueActs, TypeOK

LEMMA OthersType == ASSUME TypeOK, OthersStep PROVE TypeOK'
<1> USE DEF exits, books, world
<1>1. ASSUME NEW a \in Unsteady, HealthChanges(a) PROVE TypeOK'
  BY <1>1, SettingAssumption DEF HealthChanges, TypeOK
<1>2. ASSUME NEW a \in Unsteady, ShadowChanges(a) PROVE TypeOK'
  BY <1>2, SettingAssumption DEF ShadowChanges, TypeOK
<1>3. ASSUME NEW o \in Opps, Cancel(o) PROVE TypeOK'
  BY <1>3 DEF Cancel, TypeOK, Ended
<1>4. CASE KillToggles
  BY <1>4 DEF KillToggles, TypeOK
<1>5. CASE Crash
  <2>1. pc' \in [Opps -> {"idle"} \cup Running \cup Ended]
    BY <1>5 DEF Crash, TypeOK, Ended
  <2>2. QED
    BY <1>5, <2>1 DEF Crash, TypeOK
<1>6. QED
  BY <1>1, <1>2, <1>3, <1>4, <1>5 DEF OthersStep

LEMMA NextType == TypeOK /\ [Next]_vars => TypeOK'
<1> SUFFICES ASSUME TypeOK, [Next]_vars PROVE TypeOK'
  OBVIOUS
<1>1. ASSUME NEW p \in Entries, CooldownPasses(p) PROVE TypeOK'
  BY <1>1 DEF CooldownPasses, TypeOK, exits, books, world
<1>2. CASE UNCHANGED vars
  BY <1>2 DEF vars, TypeOK, exits, books, world
<1>3. QED
  BY <1>1, <1>2, ScanType, GateType, BookType, VenueType, OthersType
  DEF Next, RouteStep, Quiet

LEMMA InitType == Init => TypeOK
<1> SUFFICES ASSUME Init PROVE TypeOK
  OBVIOUS
<1>1. /\ pc \in [Opps -> {"idle"} \cup Running \cup Ended]
      /\ shadow \in [Opps -> BOOLEAN]
      /\ refused \in [Opps -> {"no"} \cup Gates]
      /\ row \in [Opps -> {"none", "pending", "rejected", "executed"}]
      /\ shadowRow \in [Opps -> {"none", "allowed", "blocked"}]
      /\ trade \subseteq Opps
  BY DEF Init
<1>2. /\ order \in [Opps -> Orders]
      /\ pos \in [Entries -> {"none", "open", "closed"}]
      /\ rules \subseteq Entries /\ saved \subseteq Entries /\ cooling \subseteq Entries
  BY DEF Init, Orders
<1>3. /\ health \in [Agents -> {"normal", "throttled", "shadow_only", "retired"}]
      /\ shadowMode \in [Agents -> BOOLEAN]
      /\ killed \in BOOLEAN
  BY DEF Init
<1>4. QED
  BY <1>1, <1>2, <1>3 DEF TypeOK

\* Every variable of the router keeps its type, whatever fails.
THEOREM RouterTypeCorrect == Spec => []TypeOK
  BY InitType, NextType, PTL DEF Spec

-------------------------------------------------------------------------------
(* The inductive invariant.                                                *)

LEMMA InitIInv == Init => IInv
<1> SUFFICES ASSUME Init PROVE IInv
  OBVIOUS
<1>1. TypeOK
  BY InitType
<1>2. \A o \in Opps : RouteInv(o)
  BY DEF Init, RouteInv, Answered, Ordered, Firm
<1>3. \A p \in Entries : PositionInv(p)
  BY DEF Init, PositionInv
<1>4. FoundInv
  BY OppAssumption DEF Init, FoundInv
<1>5. QED
  BY <1>1, <1>2, <1>3, <1>4 DEF IInv

\* A step that leaves alone what RouteInv of another opportunity is about keeps it.
LEMMA RouteLocal ==
  ASSUME NEW u \in Opps, RouteInv(u), pc'[u] = pc[u], shadow'[u] = shadow[u],
         refused'[u] = refused[u], order'[u] = order[u]
  PROVE  RouteInv(u)'
  BY DEF RouteInv

\* Orders answered stay answered, and then so do the reasons for the positions.
LEMMA PositionLocal ==
  ASSUME NEW p \in Entries, PositionInv(p), pos'[p] = pos[p],
         \A u \in Opps : order[u] \in Answers => order'[u] \in Answers
  PROVE  PositionInv(p)'
  BY OppAssumption DEF PositionInv, Entries

\* A step of one route changes the local state of no other.
LEMMA RouteFrame ==
  ASSUME TypeOK, NEW o \in Opps, Scan(o) \/ RouteStep(o) \/ VenueActs(o)
  PROVE  \A u \in Opps \ {o} :
           /\ pc'[u] = pc[u] /\ shadow'[u] = shadow[u]
           /\ refused'[u] = refused[u] /\ order'[u] = order[u]
<1> SUFFICES ASSUME NEW u \in Opps \ {o}
             PROVE  /\ pc'[u] = pc[u] /\ shadow'[u] = shadow[u]
                    /\ refused'[u] = refused[u] /\ order'[u] = order[u]
  OBVIOUS
<1> USE DEF TypeOK, books, exits, Goto, Notes
<1>1. CASE Scan(o) \/ Save(o) \/ SaveFails(o)
  BY <1>1 DEF Scan, Save, SaveFails
<1>2. CASE GateStep(o)
  <2>1. CASE PolicyPasses(o) \/ RecordAllowed(o) \/ PlaceOrder(o)
    BY <2>1 DEF PolicyPasses, RecordAllowed, PlaceOrder
  <2>2. CASE \E gate, to : Passes(o, gate, to)
    BY <2>2 DEF Passes
  <2>3. CASE \E gate, to : RefusalFails(o, gate, to)
    BY <2>3 DEF RefusalFails
  <2>4. CASE \E gate, b : Refuses(o, gate, b)
    BY <2>4 DEF Refuses
  <2>5. QED
    BY <1>2, <2>1, <2>2, <2>3, <2>4
    DEF GateStep, PolicyRefuses, HealthGate, ReadyGate, AdjustGate, RiskGate, RulesRefuse,
        RulesRaise
<1>3. CASE BookStep(o)
  BY <1>3 DEF BookStep, Reply, MarkExecuted, SaveTrade, BookFails, Track, TrackFails, Attach,
              Detach, Finish, Fail
<1>4. CASE VenueActs(o)
  BY <1>4 DEF VenueActs
<1>5. QED
  BY <1>1, <1>2, <1>3, <1>4 DEF RouteStep

-------------------------------------------------------------------------------
(* The invariant, one step of one route at a time.                         *)

\* A scan and the gates before the order.
LEMMA GateKeeps ==
  ASSUME IInv, NEW o \in Opps, Scan(o) \/ Save(o) \/ SaveFails(o) \/ GateStep(o)
  PROVE  RouteInv(o)' /\ (\A u \in Opps : order[u] \in Answers => order'[u] \in Answers)
<1> USE DEF IInv, RouteInv, Answered, Ordered, Firm, Ended
<1>1. RouteInv(o) /\ TypeOK
  OBVIOUS
<1>2. CASE Scan(o) \/ Save(o) \/ SaveFails(o)
  BY <1>2 DEF Scan, Save, SaveFails, Goto, TypeOK
<1>3. CASE PolicyPasses(o)
  BY <1>3 DEF PolicyPasses, Goto, TypeOK
<1>4. CASE RecordAllowed(o)
  BY <1>4 DEF RecordAllowed, Goto, TypeOK
<1>5. CASE PlaceOrder(o)
  <2>1. pc[o] = "rules" /\ pc'[o] = "placing" /\ ~shadow[o] /\ UNCHANGED <<shadow, refused>>
    BY <1>5 DEF PlaceOrder, Goto, TypeOK
  <2>2. order[o] = "none" /\ order' = [order EXCEPT ![o] = "sent"]
    BY <1>5, <2>1 DEF PlaceOrder
  <2>3. order'[o] = "sent" /\ (\A u \in Opps : u # o => order'[u] = order[u])
    BY <2>2 DEF TypeOK
  <2>4. order[o] \notin Answers
    BY <2>2 DEF Answers
  <2>5. QED
    BY <2>1, <2>3, <2>4
<1>6. ASSUME NEW gate \in Gates, NEW to \in Gates \cup {"raised"}, Passes(o, gate, to)
      PROVE  /\ RouteInv(o)'
             /\ (\A u \in Opps : order[u] \in Answers => order'[u] \in Answers)
  BY <1>6 DEF Passes, Goto, TypeOK, Gates
<1>7. ASSUME NEW gate \in Gates, NEW b, Refuses(o, gate, b)
      PROVE  /\ RouteInv(o)'
             /\ (\A u \in Opps : order[u] \in Answers => order'[u] \in Answers)
  <2>1. pc[o] = gate /\ pc'[o] = "done" /\ UNCHANGED <<shadow, order>>
    BY <1>7 DEF Refuses, Goto, TypeOK
  <2>2. order[o] = "none"
    BY <2>1 DEF Gates
  <2>3. QED
    BY <2>1, <2>2
<1>8. ASSUME NEW gate \in Gates, NEW to \in Gates \cup {"raised"},
             RefusalFails(o, gate, to), gate \in Firm => to = "raised"
      PROVE  /\ RouteInv(o)'
             /\ (\A u \in Opps : order[u] \in Answers => order'[u] \in Answers)
  <2>1. pc[o] = gate /\ pc'[o] = to /\ UNCHANGED <<shadow, order>>
    BY <1>8 DEF RefusalFails, Goto, TypeOK
  <2>2. order[o] = "none" /\ refused[o] \notin Firm
    BY <2>1 DEF Gates
  <2>3. refused'[o] \in {refused[o], gate}
    BY <1>8 DEF RefusalFails, Notes, TypeOK
  <2>4. to \notin Ordered
    BY DEF Gates
  <2>5. QED
    BY <1>8, <2>1, <2>2, <2>3, <2>4
<1>9. /\ {"policy", "health", "ready", "adjust", "risk", "rules"} = Gates
      /\ "health" \notin Firm /\ "adjust" \notin Firm
  BY DEF Gates
<1>10. CASE PolicyRefuses(o)
  BY <1>7, <1>8, <1>9, <1>10 DEF PolicyRefuses
<1>11. CASE HealthGate(o)
  BY <1>6, <1>7, <1>8, <1>9, <1>11 DEF HealthGate
<1>12. CASE ReadyGate(o)
  BY <1>6, <1>7, <1>8, <1>9, <1>12 DEF ReadyGate
<1>13. CASE AdjustGate(o)
  BY <1>6, <1>7, <1>8, <1>9, <1>13 DEF AdjustGate
<1>14. CASE RiskGate(o)
  BY <1>6, <1>7, <1>8, <1>9, <1>14 DEF RiskGate
<1>15. CASE RulesRefuse(o)
  BY <1>7, <1>8, <1>9, <1>15 DEF RulesRefuse
<1>16. CASE RulesRaise(o)
  BY <1>6, <1>9, <1>16 DEF RulesRaise
<1>17. QED
  BY <1>2, <1>3, <1>4, <1>5, <1>10, <1>11, <1>12, <1>13, <1>14, <1>15, <1>16 DEF GateStep

\* The venue and the books: an answer is not taken back.
LEMMA BookKeeps ==
  ASSUME IInv, NEW o \in Opps, BookStep(o) \/ VenueActs(o)
  PROVE  RouteInv(o)' /\ (\A u \in Opps : order[u] \in Answers => order'[u] \in Answers)
<1> USE DEF IInv, RouteInv, Answered, Ordered, Firm, Ended
<1>1. CASE BookStep(o)
  <2>1. UNCHANGED <<order, shadow, refused>>
    BY <1>1 DEF BookStep, Reply, MarkExecuted, SaveTrade, BookFails, Track, TrackFails, Attach,
                Detach, Finish, Fail
  <2>2. pc[o] \in Ordered /\ pc'[o] \in Ordered \cup {"done", "raised"}
    BY <1>1 DEF BookStep, Reply, MarkExecuted, SaveTrade, BookFails, Track, TrackFails, Attach,
                Detach, Finish, Fail, Goto, TypeOK
  <2>3. pc'[o] \in Answered => pc[o] \in Answered \/ order[o] \in Answers
    BY <1>1 DEF BookStep, Reply, MarkExecuted, SaveTrade, BookFails, Track, TrackFails, Attach,
                Detach, Finish, Fail, Goto, TypeOK
  <2>4. QED
    BY <2>1, <2>2, <2>3
<1>2. CASE VenueActs(o)
  <2>1. UNCHANGED <<pc, shadow, refused>>
    BY <1>2 DEF VenueActs
  <2>2. PICK r \in Orders : order' = [order EXCEPT ![o] = r]
                           /\ (order[o] = "working" => r = "filled")
                           /\ order[o] \in {"sent", "working"}
    BY <1>2, VenueAssumption DEF VenueActs, Orders, Answers
  <2>3. order[o] \in Answers => order'[o] \in Answers
    BY <2>2 DEF Answers, TypeOK
  <2>4. QED
    BY <2>1, <2>2, <2>3 DEF TypeOK
<1>3. QED
  BY <1>1, <1>2

\* Positions are touched by Track alone, whose order was answered.
LEMMA PositionsKept ==
  ASSUME IInv, NEW o \in Opps, Scan(o) \/ RouteStep(o) \/ VenueActs(o),
         \A u \in Opps : order[u] \in Answers => order'[u] \in Answers
  PROVE  \A p \in Entries : PositionInv(p)'
<1> SUFFICES ASSUME NEW p \in Entries PROVE PositionInv(p)'
  OBVIOUS
<1>1. CASE Track(o)
  <2>1. order[o] \in Answers /\ UNCHANGED order
    BY <1>1 DEF Track, Goto, IInv, RouteInv, Answered, Ordered
  <2>2. CASE o \in Entries
    BY <1>1, <2>1, <2>2 DEF Track, PositionInv, IInv, TypeOK, Entries
  <2>3. CASE o \in Exits
    <3>1. pos' = [pos EXCEPT ![Closes[o]] = "closed"]
      BY <1>1, <2>3 DEF Track, Entries
    <3>2. CASE p # Closes[o]
      BY <2>1, <3>1, <3>2 DEF PositionInv, IInv, TypeOK
    <3>3. CASE p = Closes[o]
      <4>0. order'[p] \in Answers
        BY <1>1, <2>1, <2>3, <3>3, OppAssumption
        DEF Track, Goto, FoundInv, PositionInv, IInv, Entries
      <4>1. \E e \in Exits : Closes[e] = p /\ order'[e] \in Answers
        BY <2>1, <2>3, <3>3
      <4>2. QED
        BY <3>1, <3>3, <4>0, <4>1 DEF PositionInv, IInv, TypeOK
    <3>4. QED
      BY <3>2, <3>3
  <2>4. QED
    BY <2>2, <2>3 DEF Entries
<1>2. CASE ~Track(o)
  <2>1. UNCHANGED pos
    <3>1. CASE Scan(o) \/ Save(o) \/ SaveFails(o) \/ VenueActs(o)
      BY <3>1 DEF Scan, Save, SaveFails, VenueActs, exits
    <3>2. CASE GateStep(o)
      BY <3>2 DEF GateStep, PolicyRefuses, PolicyPasses, HealthGate, ReadyGate, AdjustGate,
           RiskGate, RulesRefuse, RulesRaise, RecordAllowed, PlaceOrder, Refuses, RefusalFails,
           Passes, exits
    <3>3. CASE BookStep(o)
      BY <1>2, <3>3 DEF BookStep, Reply, MarkExecuted, SaveTrade, BookFails, TrackFails, Attach,
           Detach, Finish, Fail, exits
    <3>4. QED
      BY <3>1, <3>2, <3>3 DEF RouteStep
  <2>2. QED
    BY <2>1, PositionLocal DEF IInv
<1>3. QED
  BY <1>1, <1>2

LEMMA RouteKeeps ==
  ASSUME IInv, NEW o \in Opps, Scan(o) \/ RouteStep(o) \/ VenueActs(o)
  PROVE  (\A u \in Opps : RouteInv(u)') /\ (\A p \in Entries : PositionInv(p)')
<1>1. RouteInv(o)' /\ (\A u \in Opps : order[u] \in Answers => order'[u] \in Answers)
  BY GateKeeps, BookKeeps DEF RouteStep
<1>2. ASSUME NEW u \in Opps \ {o} PROVE RouteInv(u)'
  BY RouteFrame, RouteLocal DEF IInv
<1>3. QED
  BY <1>1, <1>2, PositionsKept

\* A scan that is cut short leaves its orders and positions as they are.
LEMMA OthersKeep ==
  ASSUME IInv, OthersStep
  PROVE  (\A u \in Opps : RouteInv(u)') /\ (\A p \in Entries : PositionInv(p)')
<1> USE DEF IInv
<1>1. UNCHANGED <<shadow, refused, order, pos>>
  BY DEF OthersStep, HealthChanges, ShadowChanges, Cancel, KillToggles, Crash, exits
<1>2. \A u \in Opps : pc'[u] \in {pc[u], "cut"}
  BY DEF OthersStep, HealthChanges, ShadowChanges, Cancel, KillToggles, Crash, TypeOK
<1>3. ASSUME NEW u \in Opps PROVE RouteInv(u)'
  <2>1. RouteInv(u) /\ pc'[u] \in {pc[u], "cut"}
    BY <1>2
  <2>2. QED
    BY <1>1, <2>1 DEF RouteInv, Answered, Ordered, Ended
<1>4. ASSUME NEW p \in Entries PROVE PositionInv(p)'
  BY <1>1, PositionLocal
<1>5. QED
  BY <1>3, <1>4

\* Positions do not vanish, and an exit starts where one is open.
LEMMA FoundKept == ASSUME IInv, [Next]_vars PROVE FoundInv'
<1> SUFFICES ASSUME NEW e \in Exits, pc'[e] # "idle" PROVE pos'[Closes[e]] # "none"
  BY DEF FoundInv
<1> DEFINE p == Closes[e]
<1>1. p \in Entries /\ e \in Opps /\ TypeOK
  BY OppAssumption DEF IInv
<1>2. pos[p] # "none" => pos'[p] # "none"
  <2>1. ASSUME NEW o \in Opps, Track(o) PROVE pos[p] # "none" => pos'[p] # "none"
    BY <1>1, <2>1 DEF Track, TypeOK
  <2>2. ASSUME NEW o \in Opps, RouteStep(o), ~Track(o) PROVE pos' = pos
    <3>1. CASE GateStep(o)
      BY <3>1 DEF GateStep, PolicyRefuses, PolicyPasses, HealthGate, ReadyGate, AdjustGate,
           RiskGate, RulesRefuse, RulesRaise, RecordAllowed, PlaceOrder, Refuses, RefusalFails,
           Passes, exits
    <3>2. CASE BookStep(o)
      BY <2>2, <3>2 DEF BookStep, Reply, MarkExecuted, SaveTrade, BookFails, TrackFails, Attach,
           Detach, Finish, Fail, exits
    <3>3. QED
      BY <2>2, <3>1, <3>2 DEF RouteStep, Save, SaveFails, exits
  <2>3. ASSUME NEW o \in Opps, Scan(o) \/ VenueActs(o) PROVE pos' = pos
    BY <2>3 DEF Scan, VenueActs, exits
  <2>4. ASSUME OthersStep PROVE pos' = pos
    BY <2>4 DEF OthersStep, HealthChanges, ShadowChanges, Cancel, KillToggles, Crash, exits
  <2>5. ASSUME NEW q \in Entries, CooldownPasses(q) PROVE pos' = pos
    BY <2>5 DEF CooldownPasses
  <2>6. CASE UNCHANGED vars
    BY <2>6 DEF vars, exits
  <2>7. QED
    BY <2>1, <2>2, <2>3, <2>4, <2>5, <2>6 DEF Next, Quiet
<1>3. pc[e] = "idle" => pos[p] # "none"
  <2>1. ASSUME pc[e] = "idle" PROVE Scan(e)
    <3>1. ASSUME NEW o \in Opps, RouteStep(o) PROVE pc[o] # "idle" /\ (o # e => pc'[e] = pc[e])
      <4>1. pc[o] # "idle"
        <5>1. CASE GateStep(o)
          BY <5>1 DEF GateStep, PolicyRefuses, PolicyPasses, HealthGate, ReadyGate, AdjustGate,
               RiskGate, RulesRefuse, RulesRaise, RecordAllowed, PlaceOrder, Refuses, RefusalFails,
               Passes, Goto
        <5>2. CASE BookStep(o)
          BY <5>2 DEF BookStep, Reply, MarkExecuted, SaveTrade, BookFails, Track, TrackFails,
               Attach, Detach, Finish, Fail, Goto
        <5>3. QED
          BY <3>1, <5>1, <5>2 DEF RouteStep, Save, SaveFails, Goto
      <4>2. QED
        BY <1>1, <3>1, <4>1, RouteFrame
    <3>2. ASSUME NEW o \in Opps, Scan(o), o # e PROVE pc'[e] = pc[e]
      BY <1>1, <3>2, RouteFrame
    <3>3. ASSUME NEW o \in Opps, VenueActs(o) PROVE pc' = pc
      BY <3>3 DEF VenueActs
    <3>4. ASSUME OthersStep PROVE pc'[e] \in {pc[e]} \/ pc[e] \in Running
      BY <1>1, <3>4 DEF OthersStep, HealthChanges, ShadowChanges, Cancel, KillToggles,
           Crash, TypeOK
    <3>5. ASSUME NEW q \in Entries, CooldownPasses(q) PROVE pc' = pc
      BY <3>5 DEF CooldownPasses
    <3>6. "idle" \notin Running
      BY DEF Running, Gates
    <3>7. CASE UNCHANGED vars
      BY <2>1, <3>7 DEF vars
    <3>8. QED
      BY <1>1, <2>1, <3>1, <3>2, <3>3, <3>4, <3>5, <3>6, <3>7 DEF Next, Quiet
  <2>2. QED
    BY <2>1 DEF Scan, Triggered, Entries
<1>4. QED
  BY <1>2, <1>3 DEF IInv, FoundInv

LEMMA NextIInv == IInv /\ [Next]_vars => IInv'
<1> SUFFICES ASSUME IInv, [Next]_vars PROVE IInv'
  OBVIOUS
<1>1. TypeOK'
  BY NextType DEF IInv
<1>2. (\A u \in Opps : RouteInv(u)') /\ (\A p \in Entries : PositionInv(p)')
  <2>1. ASSUME UNCHANGED <<pc, shadow, refused, order, pos>>
        PROVE  (\A u \in Opps : RouteInv(u)') /\ (\A p \in Entries : PositionInv(p)')
    BY <2>1, RouteLocal, PositionLocal DEF IInv
  <2>2. ASSUME NEW p \in Entries, CooldownPasses(p)
        PROVE  UNCHANGED <<pc, shadow, refused, order, pos>>
    BY <2>2 DEF CooldownPasses
  <2>3. CASE UNCHANGED vars
    BY <2>1, <2>3 DEF vars, exits
  <2>4. QED
    BY <2>1, <2>2, <2>3, RouteKeeps, OthersKeep DEF Next, Quiet
<1>3. FoundInv'
  BY FoundKept
<1>4. QED
  BY <1>1, <1>2, <1>3 DEF IInv

LEMMA AlwaysIInv == Spec => []IInv
  BY InitIInv, NextIInv, PTL DEF Spec

-------------------------------------------------------------------------------
(* What holds besides while every write succeeds.                          *)

WritesHold == "store" \notin Faults

\* The books of the opportunity's position are kept.
Held(o) ==
  /\ o \in Entries => pos[o] # "none"
  /\ o \in Exits => pos[Closes[o]] = "closed"

Outcome(o) ==
  /\ order[o] \in Answers <=> row[o] = "executed"
  /\ row[o] = "executed" => o \in trade /\ Held(o)
  /\ row[o] = "rejected" => order[o] \in {"none", "refused", "lost"}

Refusal(o) ==
  /\ order[o] = "none" /\ pc[o] = "done" /\ o \notin trade
  /\ row[o] = "rejected" <=> shadowRow[o] # "blocked"

\* What a finished order leaves: no reply is outstanding, and one that was answered
\* has its position in the books.
Closing(o) == order[o] # "sent" /\ (order[o] \in Answers => Held(o))

\* How far the route has got determines what the tables say.
StoreInv(o) ==
  /\ pc[o] \in {"idle", "scanned"} => row[o] = "none"
  /\ pc[o] \in {"idle", "scanned"} \cup Gates => shadowRow[o] = "none" /\ o \notin trade
  /\ pc[o] \in Gates \cup {"placing", "recording"} => row[o] = "pending"
  /\ pc[o] \in {"trading", "tracking", "guarding", "finishing"} => row[o] = "executed"
  /\ pc[o] \in {"tracking", "guarding", "finishing"} => o \in trade
  /\ pc[o] \in {"guarding", "finishing"} => Held(o)
  /\ pc[o] = "failing" =>
       \/ order[o] \in Raises /\ row[o] = "pending"
       \/ o \in Exits /\ ~Journal /\ Closing(o)
  /\ refused[o] # "no" => Refusal(o)
  /\ pc[o] = "done" => Closing(o) /\ (o \in Entries \/ Journal => Outcome(o))
  /\ pc[o] = "raised" => order[o] = "none"

\* A position is opened once, and guarded from then on until it is closed.
GuardInv(p) ==
  /\ pos[p] # "none" => pc[p] \in {"guarding", "finishing", "done", "cut"}
  /\ pos[p] = "open" /\ pc[p] \in {"finishing", "done"} => p \in rules \cap saved

WInv == (\A o \in Opps : StoreInv(o)) /\ (\A p \in Entries : GuardInv(p))

LEMMA InitWInv == Init => WInv
  BY OppAssumption
  DEF Init, WInv, StoreInv, GuardInv, Gates, Entries

\* A step that leaves the route alone keeps what the tables say of it, as long as no
\* position is forgotten or opened again.
LEMMA StoreLocal ==
  ASSUME NEW u \in Opps, StoreInv(u), pc'[u] = pc[u], order'[u] = order[u],
         refused'[u] = refused[u], row'[u] = row[u], shadowRow'[u] = shadowRow[u],
         u \in trade' <=> u \in trade,
         \A p \in Entries : /\ pos[p] # "none" => pos'[p] # "none"
                            /\ pos[p] = "closed" => pos'[p] = "closed"
  PROVE  StoreInv(u)'
<1>1. Held(u) => Held(u)'
  BY OppAssumption DEF Held
<1>2. /\ Outcome(u) => Outcome(u)'
      /\ Closing(u) => Closing(u)'
      /\ Refusal(u) => Refusal(u)'
  BY <1>1 DEF Outcome, Closing, Refusal
<1>3. QED
  BY <1>1, <1>2 DEF StoreInv

LEMMA StoreFrame ==
  ASSUME TypeOK, NEW o \in Opps, Scan(o) \/ RouteStep(o) \/ VenueActs(o)
  PROVE  \A u \in Opps \ {o} :
           row'[u] = row[u] /\ shadowRow'[u] = shadowRow[u] /\ (u \in trade' <=> u \in trade)
<1> SUFFICES ASSUME NEW u \in Opps \ {o}
             PROVE  /\ row'[u] = row[u] /\ shadowRow'[u] = shadowRow[u]
                    /\ u \in trade' <=> u \in trade
  OBVIOUS
<1> USE DEF TypeOK, books, exits
<1>1. CASE Scan(o) \/ Save(o) \/ SaveFails(o) \/ VenueActs(o)
  BY <1>1 DEF Scan, Save, SaveFails, VenueActs
<1>2. CASE GateStep(o)
  <2>1. CASE PolicyPasses(o) \/ RecordAllowed(o) \/ PlaceOrder(o)
    BY <2>1 DEF PolicyPasses, RecordAllowed, PlaceOrder
  <2>2. CASE \E gate, to : Passes(o, gate, to)
    BY <2>2 DEF Passes
  <2>3. CASE \E gate, to : RefusalFails(o, gate, to)
    BY <2>3 DEF RefusalFails
  <2>4. CASE \E gate, b : Refuses(o, gate, b)
    BY <2>4 DEF Refuses
  <2>5. QED
    BY <1>2, <2>1, <2>2, <2>3, <2>4
    DEF GateStep, PolicyRefuses, HealthGate, ReadyGate, AdjustGate, RiskGate, RulesRefuse,
        RulesRaise
<1>3. CASE BookStep(o)
  BY <1>3 DEF BookStep, Reply, MarkExecuted, SaveTrade, BookFails, Track, TrackFails, Attach,
              Detach, Finish, Fail
<1>4. QED
  BY <1>1, <1>2, <1>3 DEF RouteStep

\* Only Track touches a position.
LEMMA PosUntouched ==
  ASSUME NEW o \in Opps, Scan(o) \/ RouteStep(o) \/ VenueActs(o), ~Track(o)
  PROVE  pos' = pos
<1>1. CASE Scan(o) \/ Save(o) \/ SaveFails(o) \/ VenueActs(o)
  BY <1>1 DEF Scan, Save, SaveFails, VenueActs, exits
<1>2. CASE GateStep(o)
  BY <1>2 DEF GateStep, PolicyRefuses, PolicyPasses, HealthGate, ReadyGate, AdjustGate,
       RiskGate, RulesRefuse, RulesRaise, RecordAllowed, PlaceOrder, Refuses, RefusalFails,
       Passes, exits
<1>3. CASE BookStep(o)
  BY <1>3 DEF BookStep, Reply, MarkExecuted, SaveTrade, BookFails, TrackFails, Attach,
       Detach, Finish, Fail, exits
<1>4. QED
  BY <1>1, <1>2, <1>3 DEF RouteStep

\* No position is forgotten, and none is opened twice.
LEMMA PosMoves ==
  ASSUME IInv, WInv, NEW o \in Opps, Scan(o) \/ RouteStep(o) \/ VenueActs(o)
  PROVE  \A p \in Entries : /\ pos[p] # "none" => pos'[p] # "none"
                            /\ pos[p] = "closed" => pos'[p] = "closed"
<1>1. CASE Track(o)
  <2>1. CASE o \in Entries
    <3>1. pos[o] = "none" /\ pos' = [pos EXCEPT ![o] = "open"]
      BY <1>1, <2>1 DEF Track, Goto, WInv, GuardInv, Entries
    <3>2. QED
      BY <3>1 DEF IInv, TypeOK
  <2>2. CASE o \in Exits
    BY <1>1, <2>2 DEF Track, IInv, TypeOK, Entries
  <2>3. QED
    BY <2>1, <2>2 DEF Entries
<1>2. QED
  BY <1>1, PosUntouched

\* The gates.  While writes succeed the only way past one is to be let through.
LEMMA GateStores ==
  ASSUME IInv, WInv, WritesHold, NEW o \in Opps,
         Scan(o) \/ Save(o) \/ SaveFails(o) \/ GateStep(o)
  PROVE  StoreInv(o)'
<1>0. StoreInv(o) /\ RouteInv(o) /\ TypeOK /\ pos' = pos
  <2>1. ~Track(o)
    BY DEF Scan, Save, SaveFails, GateStep, PolicyRefuses, PolicyPasses, HealthGate, ReadyGate,
       AdjustGate, RiskGate, RulesRefuse, RulesRaise, RecordAllowed, PlaceOrder, Refuses,
       RefusalFails, Passes, Goto, Track, Gates
  <2>2. QED
    BY <2>1, PosUntouched DEF IInv, WInv, RouteStep
<1> USE DEF StoreInv, WritesHold
<1>1. CASE Scan(o)
  <2>1. /\ pc[o] = "idle" /\ pc'[o] = "scanned"
        /\ UNCHANGED <<refused, row, shadowRow, trade, order>>
    BY <1>0, <1>1 DEF Scan, Goto, TypeOK, books
  <2>2. refused[o] = "no"
    BY <1>0, <2>1 DEF Refusal
  <2>3. QED
    BY <1>0, <2>1, <2>2 DEF Gates
<1>2. CASE Save(o)
  <2>1. /\ pc[o] = "scanned" /\ pc'[o] \in {"policy", "done"} /\ row'[o] = "pending"
        /\ UNCHANGED <<refused, shadowRow, trade, order>>
    BY <1>0, <1>2 DEF Save, Goto, TypeOK
  <2>2. order[o] = "none" /\ refused[o] = "no"
    BY <1>0, <2>1 DEF RouteInv, Refusal, Ordered, Ended
  <2>3. QED
    BY <1>0, <2>1, <2>2 DEF Outcome, Closing, Answers, Gates
<1>3. CASE SaveFails(o)
  BY <1>3 DEF SaveFails
<1>4. ASSUME NEW gate \in Gates, pc[o] = gate
      PROVE  /\ order[o] = "none" /\ refused[o] = "no" /\ row[o] = "pending"
             /\ shadowRow[o] = "none" /\ o \notin trade
  BY <1>0, <1>4 DEF RouteInv, Refusal, Ordered, Ended, Gates
<1>5. ASSUME NEW gate \in Gates, NEW b \in BOOLEAN, Refuses(o, gate, b)
      PROVE  StoreInv(o)'
  <2>1. /\ pc[o] = gate /\ pc'[o] = "done" /\ trade' = trade /\ order' = order
        /\ refused' = [refused EXCEPT ![o] = IF @ = "no" THEN gate ELSE @]
    BY <1>0, <1>5 DEF Refuses, Goto, Notes, TypeOK
  <2>2. \/ row'[o] = "pending" /\ shadowRow'[o] = "blocked"
        \/ row'[o] = "rejected" /\ shadowRow'[o] = "none"
    BY <1>0, <1>4, <1>5, <2>1 DEF Refuses, TypeOK
  <2>3. Refusal(o)' /\ Closing(o)' /\ Outcome(o)'
    BY <1>4, <2>1, <2>2 DEF Refusal, Closing, Outcome, Answers
  <2>4. QED
    BY <2>1, <2>3 DEF Gates
<1>6. ASSUME NEW gate \in Gates, NEW to \in Gates \cup {"raised"}, Passes(o, gate, to)
      PROVE  StoreInv(o)'
  <2>1. pc[o] = gate /\ pc'[o] = to /\ UNCHANGED <<refused, row, shadowRow, trade, order>>
    BY <1>0, <1>6 DEF Passes, Goto, TypeOK, books
  <2>2. QED
    BY <1>4, <2>1 DEF Gates
<1>7. CASE PolicyPasses(o)
  <2>1. /\ pc[o] = "policy" /\ pc'[o] \in {"done", "health"}
        /\ UNCHANGED <<refused, row, shadowRow, trade, order>>
    BY <1>0, <1>7 DEF PolicyPasses, Goto, TypeOK, books
  <2>2. "policy" \in Gates
    BY DEF Gates
  <2>3. QED
    BY <1>4, <2>1, <2>2 DEF Closing, Outcome, Answers, Gates
<1>8. CASE RecordAllowed(o)
  <2>1. /\ pc[o] = "rules" /\ pc'[o] = "done"
        /\ UNCHANGED <<refused, row, trade, order>>
    BY <1>0, <1>8 DEF RecordAllowed, Goto, TypeOK
  <2>2. "rules" \in Gates
    BY DEF Gates
  <2>3. QED
    BY <1>4, <2>1, <2>2 DEF Closing, Outcome, Answers, Gates
<1>9. CASE PlaceOrder(o)
  <2>1. /\ pc[o] = "rules" /\ pc'[o] = "placing"
        /\ UNCHANGED <<refused, row, shadowRow, trade>>
    BY <1>0, <1>9 DEF PlaceOrder, Goto, TypeOK, books
  <2>2. "rules" \in Gates
    BY DEF Gates
  <2>3. QED
    BY <1>4, <2>1, <2>2 DEF Gates
<1>10. \A gate, to : ~RefusalFails(o, gate, to)
  BY DEF RefusalFails
<1>11. /\ {"policy", "health", "ready", "adjust", "risk", "rules"} = Gates
       /\ shadow[o] \in BOOLEAN
  BY <1>0 DEF Gates, TypeOK
<1>12. CASE PolicyRefuses(o)
  BY <1>5, <1>10, <1>11, <1>12 DEF PolicyRefuses
<1>13. CASE HealthGate(o)
  BY <1>5, <1>6, <1>10, <1>11, <1>13 DEF HealthGate
<1>14. CASE ReadyGate(o)
  BY <1>5, <1>6, <1>10, <1>11, <1>14 DEF ReadyGate
<1>15. CASE AdjustGate(o)
  BY <1>5, <1>6, <1>10, <1>11, <1>15 DEF AdjustGate
<1>16. CASE RiskGate(o)
  BY <1>5, <1>6, <1>10, <1>11, <1>16 DEF RiskGate
<1>17. CASE RulesRefuse(o)
  BY <1>5, <1>10, <1>11, <1>17 DEF RulesRefuse
<1>18. CASE RulesRaise(o)
  BY <1>6, <1>11, <1>18 DEF RulesRaise
<1>19. QED
  BY <1>1, <1>2, <1>3, <1>7, <1>8, <1>9, <1>12, <1>13, <1>14, <1>15, <1>16, <1>17, <1>18
  DEF GateStep

\* The venue and the books.
LEMMA BookStores ==
  ASSUME IInv, WInv, WritesHold, NEW o \in Opps, BookStep(o) \/ VenueActs(o)
  PROVE  StoreInv(o)'
<1>0. StoreInv(o) /\ RouteInv(o) /\ TypeOK
  BY DEF IInv, WInv
<1> USE DEF StoreInv, WritesHold
<1>1. CASE VenueActs(o)
  <2>1. UNCHANGED <<pc, refused, row, shadowRow, trade, pos>>
    BY <1>1 DEF VenueActs, books, exits
  <2>2. /\ order[o] \in {"sent", "working"} /\ order'[o] # "sent"
        /\ order[o] = "working" => order'[o] = "filled"
    BY <1>0, <1>1, VenueAssumption DEF VenueActs, TypeOK, Answers, Raises
  <2>3. pc[o] \in {"done", "failing"} => order[o] = "working" /\ order'[o] = "filled"
    BY <1>0, <2>2 DEF Closing, Raises
  <2>4. /\ Closing(o) /\ order[o] = "working" /\ order'[o] = "filled" => Closing(o)'
        /\ Outcome(o) /\ order[o] = "working" /\ order'[o] = "filled" => Outcome(o)'
        /\ ~Refusal(o)
    BY <2>1, <2>2 DEF Closing, Outcome, Refusal, Held, Answers
  <2>5. Held(o)' <=> Held(o)
    BY <2>1 DEF Held
  <2>6. QED
    BY <1>0, <2>1, <2>2, <2>3, <2>4, <2>5 DEF Raises
<1>2. ASSUME BookStep(o)
      PROVE  UNCHANGED <<refused, shadowRow, order>> /\ refused[o] = "no"
  <2>1. UNCHANGED <<refused, shadowRow, order>> /\ pc[o] # "done"
    BY <1>2 DEF BookStep, Reply, MarkExecuted, SaveTrade, BookFails, Track, TrackFails, Attach,
       Detach, Finish, Fail, Goto, books
  <2>2. QED
    BY <1>0, <2>1 DEF Refusal
<1>3. CASE Reply(o)
  <2>1. /\ pc[o] = "placing" /\ UNCHANGED <<row, trade, pos>>
        /\ \/ pc'[o] = "recording"
           \/ pc'[o] = "failing" /\ order[o] \in Raises
    BY <1>0, <1>3 DEF Reply, Goto, TypeOK, books, exits
  <2>2. QED
    BY <1>0, <1>2, <1>3, <2>1 DEF BookStep, Gates
<1>4. CASE MarkExecuted(o)
  <2>1. pc[o] = "recording" /\ pc'[o] = "trading" /\ row'[o] = "executed"
    BY <1>0, <1>4 DEF MarkExecuted, Goto, TypeOK
  <2>2. QED
    BY <1>2, <1>4, <2>1 DEF BookStep, Gates
<1>5. CASE SaveTrade(o)
  <2>1. pc[o] = "trading" /\ pc'[o] = "tracking" /\ row' = row /\ o \in trade'
    BY <1>0, <1>5 DEF SaveTrade, Goto, TypeOK
  <2>2. QED
    BY <1>0, <1>2, <1>5, <2>1 DEF BookStep, Gates
<1>6. CASE BookFails(o) \/ TrackFails(o)
  BY <1>6 DEF BookFails, TrackFails
<1>7. CASE Track(o)
  <2>1. pc[o] = "tracking" /\ pc'[o] = "guarding" /\ UNCHANGED <<row, trade>>
    BY <1>0, <1>7 DEF Track, Goto, TypeOK, books
  <2>2. Held(o)'
    BY <1>0, <1>7, OppAssumption DEF Track, TypeOK, Held, Entries
  <2>3. QED
    BY <1>0, <1>2, <1>7, <2>1, <2>2 DEF BookStep, Gates
<1>8. CASE Attach(o) \/ Detach(o)
  <2>1. pc[o] = "guarding" /\ pc'[o] = "finishing" /\ UNCHANGED <<row, trade, pos>>
    BY <1>0, <1>8 DEF Attach, Detach, Goto, TypeOK, books
  <2>2. Held(o)'
    BY <1>0, <2>1 DEF Held
  <2>3. QED
    BY <1>0, <1>2, <1>8, <2>1, <2>2 DEF BookStep, Gates
<1>9. CASE Finish(o)
  <2>1. /\ pc[o] = "finishing" /\ UNCHANGED <<row, trade, pos>>
        /\ \/ pc'[o] = "done"
           \/ pc'[o] = "failing" /\ o \in Exits /\ ~Journal
    BY <1>0, <1>9 DEF Finish, Goto, TypeOK, books, exits
  <2>2. Held(o) /\ order[o] \in Answers /\ row[o] = "executed" /\ o \in trade
    BY <1>0, <2>1 DEF RouteInv, Answered, Ordered
  <2>3. Closing(o)' /\ Outcome(o)'
    BY <1>2, <1>9, <2>1, <2>2 DEF BookStep, Closing, Outcome, Held, Answers
  <2>4. QED
    BY <1>2, <1>9, <2>1, <2>3 DEF BookStep, Gates
<1>10. CASE Fail(o)
  <2>1. /\ pc[o] = "failing" /\ pc'[o] = "done" /\ row'[o] = "rejected"
        /\ UNCHANGED <<trade, pos>>
    BY <1>0, <1>10 DEF Fail, Goto, TypeOK, exits
  <2>2. Closing(o)'
    BY <1>0, <1>2, <1>10, <2>1 DEF BookStep, Closing, Held, Raises, Answers
  <2>3. o \in Entries \/ Journal => Outcome(o)'
    BY <1>0, <1>2, <1>10, <2>1 DEF BookStep, Outcome, Raises, Answers, Entries
  <2>4. QED
    BY <1>2, <1>10, <2>1, <2>2, <2>3 DEF BookStep, Gates
<1>11. QED
  BY <1>1, <1>3, <1>4, <1>5, <1>6, <1>7, <1>8, <1>9, <1>10 DEF BookStep

LEMMA RulesUntouched ==
  ASSUME NEW o \in Opps, Scan(o) \/ RouteStep(o) \/ VenueActs(o), ~Attach(o), ~Detach(o)
  PROVE  rules' = rules /\ saved' = saved
<1>1. CASE Scan(o) \/ Save(o) \/ SaveFails(o) \/ VenueActs(o)
  BY <1>1 DEF Scan, Save, SaveFails, VenueActs, exits
<1>2. CASE GateStep(o)
  BY <1>2 DEF GateStep, PolicyRefuses, PolicyPasses, HealthGate, ReadyGate, AdjustGate,
       RiskGate, RulesRefuse, RulesRaise, RecordAllowed, PlaceOrder, Refuses, RefusalFails,
       Passes, exits
<1>3. CASE BookStep(o)
  BY <1>3 DEF BookStep, Reply, MarkExecuted, SaveTrade, BookFails, Track, TrackFails, Finish,
       Fail, exits
<1>4. QED
  BY <1>1, <1>2, <1>3 DEF RouteStep

\* What a route does before its order leaves its own position alone.
LEMMA EarlyStage ==
  ASSUME NEW o \in Opps, Scan(o) \/ Save(o) \/ SaveFails(o) \/ GateStep(o)
  PROVE  pc[o] \in {"idle", "scanned"} \cup Gates /\ ~Track(o) /\ ~Attach(o) /\ ~Detach(o)
<1>1. pc[o] \in {"idle", "scanned"} \cup Gates
  BY DEF Scan, Save, SaveFails, GateStep, PolicyRefuses, PolicyPasses, HealthGate, ReadyGate,
     AdjustGate, RiskGate, RulesRefuse, RulesRaise, RecordAllowed, PlaceOrder, Refuses,
     RefusalFails, Passes, Goto, Gates
<1>2. QED
  BY <1>1 DEF Track, Attach, Detach, Goto, Gates

\* A step of a route keeps its own position guarded.
LEMMA OwnGuardKept ==
  ASSUME IInv, WInv, WritesHold, NEW p \in Entries, RouteStep(p) \/ Scan(p) \/ VenueActs(p)
  PROVE  GuardInv(p)'
<1>0. GuardInv(p) /\ TypeOK /\ p \in Opps /\ p \notin Exits
  BY DEF IInv, WInv, Entries
<1> USE DEF GuardInv
<1>1. CASE Scan(p) \/ Save(p) \/ SaveFails(p) \/ GateStep(p)
  <2>1. pos' = pos /\ pos[p] = "none"
    BY <1>0, <1>1, EarlyStage, PosUntouched DEF RouteStep, Gates
  <2>2. QED
    BY <2>1
<1>2. CASE VenueActs(p)
  BY <1>0, <1>2 DEF VenueActs, exits
<1>3. CASE Track(p)
  <2>1. pc'[p] = "guarding"
    BY <1>0, <1>3 DEF Track, Goto, TypeOK
  <2>2. QED
    BY <2>1
<1>4. CASE Attach(p)
  BY <1>0, <1>4 DEF Attach, Goto, TypeOK, WritesHold
<1>5. CASE Finish(p)
  BY <1>0, <1>5 DEF Finish, Goto, TypeOK, exits
<1>6. CASE Reply(p) \/ MarkExecuted(p) \/ SaveTrade(p) \/ Fail(p)
  <2>1. pos' = pos /\ pos[p] = "none"
    BY <1>0, <1>6 DEF Reply, MarkExecuted, SaveTrade, Fail, Goto, exits
  <2>2. QED
    BY <2>1
<1>7. CASE Detach(p) \/ BookFails(p) \/ TrackFails(p)
  BY <1>0, <1>7 DEF Detach, BookFails, TrackFails, WritesHold
<1>8. QED
  BY <1>1, <1>2, <1>3, <1>4, <1>5, <1>6, <1>7 DEF RouteStep, BookStep

\* An exit closes the position before it detaches the rules.
LEMMA OtherGuardKept ==
  ASSUME IInv, WInv, WritesHold, NEW o \in Opps, Scan(o) \/ RouteStep(o) \/ VenueActs(o),
         NEW p \in Entries, p # o
  PROVE  GuardInv(p)'
<1>0. GuardInv(p) /\ TypeOK /\ p \in Opps /\ pc'[p] = pc[p] /\ StoreInv(o)
  BY RouteFrame DEF IInv, WInv, Entries
<1> USE DEF GuardInv
<1>1. CASE Track(o)
  <2>1. rules' = rules /\ saved' = saved
    BY <1>1 DEF Track
  <2>2. o \in Exits /\ Closes[o] = p => pos[p] # "none"
    BY <1>1 DEF Track, Goto, IInv, FoundInv
  <2>3. pos'[p] = pos[p] \/ (pos'[p] = "closed" /\ pos[p] # "none")
    BY <1>0, <1>1, <2>2, OppAssumption DEF Track, TypeOK
  <2>4. QED
    BY <1>0, <2>1, <2>3
<1>2. CASE Attach(o)
  BY <1>0, <1>2 DEF Attach, WritesHold
<1>3. CASE Detach(o)
  <2>1. pos[Closes[o]] = "closed"
    BY <1>0, <1>3 DEF Detach, Goto, StoreInv, Held
  <2>2. QED
    BY <1>0, <1>3, <2>1 DEF Detach, WritesHold
<1>4. QED
  BY <1>0, <1>1, <1>2, <1>3, PosUntouched, RulesUntouched

\* Everyone else cuts routes off and, in a crash, reloads the rules from the store.
LEMMA OthersStore ==
  ASSUME IInv, WInv, OthersStep
  PROVE  WInv'
<1>1. UNCHANGED <<refused, row, shadowRow, trade, order, pos, saved>>
  BY DEF OthersStep, HealthChanges, ShadowChanges, Cancel, KillToggles, Crash, books, exits
<1>2. \A u \in Opps : pc'[u] = pc[u] \/ (pc'[u] = "cut" /\ pc[u] \in Running)
  BY DEF OthersStep, HealthChanges, ShadowChanges, Cancel, KillToggles, Crash, IInv, TypeOK
<1>3. rules' \in {rules, saved}
  BY DEF OthersStep, HealthChanges, ShadowChanges, Cancel, KillToggles, Crash, exits
<1>4. ASSUME NEW u \in Opps PROVE StoreInv(u)'
  <2>1. CASE pc'[u] = pc[u]
    BY <1>1, <2>1, StoreLocal DEF WInv
  <2>2. CASE pc'[u] = "cut" /\ pc[u] \in Running
    <3>1. refused[u] = "no"
      BY <1>4, <2>2 DEF WInv, StoreInv, Refusal, Running, Gates
    <3>2. QED
      BY <1>1, <2>2, <3>1 DEF StoreInv, Gates
  <2>3. QED
    BY <1>2, <2>1, <2>2
<1>5. ASSUME NEW p \in Entries PROVE GuardInv(p)'
  BY <1>1, <1>2, <1>3 DEF WInv, GuardInv, Entries
<1>6. QED
  BY <1>4, <1>5 DEF WInv

LEMMA NextWInv == ASSUME IInv, WInv, WritesHold, [Next]_vars PROVE WInv'
<1>1. ASSUME NEW o \in Opps, Scan(o) \/ RouteStep(o) \/ VenueActs(o) PROVE WInv'
  <2>1. StoreInv(o)'
    BY <1>1, GateStores, BookStores DEF RouteStep
  <2>2. ASSUME NEW u \in Opps \ {o} PROVE StoreInv(u)'
    BY <1>1, RouteFrame, StoreFrame, PosMoves, StoreLocal DEF IInv, WInv
  <2>3. ASSUME NEW p \in Entries PROVE GuardInv(p)'
    BY <1>1, OwnGuardKept, OtherGuardKept
  <2>4. QED
    BY <2>1, <2>2, <2>3 DEF WInv
<1>2. ASSUME UNCHANGED <<pc, shadow, refused, books, order, pos, rules, saved>> PROVE WInv'
  <2>1. \A u \in Opps : StoreInv(u)'
    BY <1>2, StoreLocal DEF WInv, books
  <2>2. \A p \in Entries : GuardInv(p)'
    BY <1>2 DEF WInv, GuardInv
  <2>3. QED
    BY <2>1, <2>2 DEF WInv
<1>3. ASSUME NEW p \in Entries, CooldownPasses(p) PROVE WInv'
  BY <1>2, <1>3 DEF CooldownPasses
<1>4. CASE UNCHANGED vars
  BY <1>2, <1>4 DEF vars, exits
<1>5. QED
  BY <1>1, <1>3, <1>4, OthersStore DEF Next, Quiet

-------------------------------------------------------------------------------
(* One exit at a time, while no order is slower than the cooldown.         *)

Prompt == "slow" \notin Faults

Sells(e) == order[e] \in {"sent"} \cup Live
Explained(e) == pc[e] = "cut" \/ order[e] = "lost"

PairInv(e, f) ==
  /\ ~(pc[e] \in Running /\ pc[f] \in Running)
  /\ Sells(e) /\ pc[f] \in Running => Explained(e)
  /\ Sells(e) /\ Sells(f) => Explained(e) \/ Explained(f)

Rivals(e, f) == e \in Exits /\ f \in Exits /\ e # f /\ Closes[e] = Closes[f]

XInv ==
  /\ \A e \in Exits : pc[e] \in Running => Closes[e] \in cooling
  /\ \A e, f \in Exits : Rivals(e, f) => PairInv(e, f)

LEMMA InitXInv == Init => XInv
  BY OppAssumption DEF Init, XInv, PairInv, Sells, Live, Running, Gates

\* How a step of a route, or of the venue, may change what XInv is about.
LEMMA StepOfOne ==
  ASSUME IInv, NEW o \in Opps, Scan(o) \/ RouteStep(o) \/ VenueActs(o)
  PROVE  /\ pc'[o] \in Running => pc[o] \in Running \/ Scan(o)
         /\ Sells(o)' => Sells(o) \/ pc[o] \in Running
         /\ Explained(o) => Explained(o)'
         /\ cooling \subseteq cooling'
<1>0. TypeOK /\ RouteInv(o)
  BY DEF IInv
<1>1. CASE Scan(o)
  <2>1. pc[o] = "idle" /\ order' = order /\ cooling \subseteq cooling'
    BY <1>1 DEF Scan, Goto
  <2>2. QED
    BY <1>1, <2>1 DEF Sells, Explained
<1>2. CASE VenueActs(o)
  <2>1. pc' = pc /\ cooling' = cooling /\ order[o] \in {"sent", "working"}
    BY <1>2 DEF VenueActs, exits
  <2>2. QED
    BY <2>1 DEF Sells, Explained, Live
<1>3. CASE RouteStep(o)
  <2>1. pc[o] \in Running
    <3>1. CASE Save(o) \/ SaveFails(o) \/ GateStep(o)
      BY <3>1 DEF Save, SaveFails, GateStep, PolicyRefuses, PolicyPasses, HealthGate, ReadyGate,
         AdjustGate, RiskGate, RulesRefuse, RulesRaise, RecordAllowed, PlaceOrder, Refuses,
         RefusalFails, Passes, Goto, Gates, Running
    <3>2. CASE BookStep(o)
      BY <3>2 DEF BookStep, Reply, MarkExecuted, SaveTrade, BookFails, Track, TrackFails, Attach,
         Detach, Finish, Fail, Goto, Running
    <3>3. QED
      BY <1>3, <3>1, <3>2 DEF RouteStep
  <2>2. cooling' = cooling
    <3>1. CASE Save(o) \/ SaveFails(o) \/ GateStep(o)
      BY <3>1 DEF Save, SaveFails, GateStep, PolicyRefuses, PolicyPasses, HealthGate, ReadyGate,
         AdjustGate, RiskGate, RulesRefuse, RulesRaise, RecordAllowed, PlaceOrder, Refuses,
         RefusalFails, Passes, exits
    <3>2. CASE BookStep(o)
      BY <3>2 DEF BookStep, Reply, MarkExecuted, SaveTrade, BookFails, Track, TrackFails, Attach,
         Detach, Finish, Fail, exits
    <3>3. QED
      BY <1>3, <3>1, <3>2 DEF RouteStep
  <2>3. order[o] = "lost" => order'[o] = "lost"
    <3>1. CASE Save(o) \/ SaveFails(o)
      BY <3>1 DEF Save, SaveFails
    <3>2. CASE GateStep(o)
      <4>1. order[o] = "none"
        BY <1>0, <3>2, EarlyStage DEF RouteInv, Ordered, Ended, Gates
      <4>2. QED
        BY <4>1
    <3>3. CASE BookStep(o)
      BY <3>3 DEF BookStep, Reply, MarkExecuted, SaveTrade, BookFails, Track, TrackFails, Attach,
         Detach, Finish, Fail
    <3>4. QED
      BY <1>3, <3>1, <3>2, <3>3 DEF RouteStep
  <2>4. QED
    BY <2>1, <2>2, <2>3 DEF Explained, Running, Gates
<1>4. QED
  BY <1>1, <1>2, <1>3

\* An exit is found only when no other of the position is under way, and each that
\* came before it either sold nothing or has its excuse.
LEMMA ScanOfRival ==
  ASSUME IInv, WInv, XInv, NEW e \in Exits, NEW f \in Exits, Rivals(e, f), Scan(f)
  PROVE  pc[e] \notin Running /\ (Sells(e) => Explained(e))
<1>1. Closes[f] \notin cooling /\ pos[Closes[e]] = "open"
  BY DEF Scan, Triggered, Rivals, Entries
<1>2. pc[e] \notin Running
  BY <1>1 DEF XInv, Rivals
<1>3. SUFFICES ASSUME Sells(e) PROVE Explained(e)
  BY <1>2
<1>4. e \in Opps /\ StoreInv(e) /\ RouteInv(e)
  BY OppAssumption DEF WInv, IInv
<1>5. order[e] \in {"sent", "filled", "working", "lost"}
  BY <1>3 DEF Sells, Live
<1>6. pc[e] \in Ended
  BY <1>2, <1>4, <1>5 DEF RouteInv, Ordered, Running
<1>7. CASE pc[e] = "done"
  <2>1. Closing(e)
    BY <1>4, <1>7 DEF StoreInv
  <2>2. order[e] \notin Answers
    BY <1>1, <2>1 DEF Closing, Held
  <2>3. QED
    BY <1>5, <2>1, <2>2 DEF Closing, Explained, Answers
<1>8. QED
  BY <1>4, <1>5, <1>6, <1>7 DEF Ended, StoreInv, Explained

LEMMA RouteXInv ==
  ASSUME IInv, WInv, XInv, NEW o \in Opps, Scan(o) \/ RouteStep(o) \/ VenueActs(o)
  PROVE  XInv'
<1>0. TypeOK /\ Exits \subseteq Opps
  BY OppAssumption DEF IInv
<1>1. /\ pc'[o] \in Running => pc[o] \in Running \/ Scan(o)
      /\ Sells(o)' => Sells(o) \/ pc[o] \in Running
      /\ Explained(o) => Explained(o)'
      /\ cooling \subseteq cooling'
  BY StepOfOne
<1>2. \A u \in Opps \ {o} : pc'[u] = pc[u] /\ order'[u] = order[u]
  BY <1>0, RouteFrame
<1>3. ASSUME NEW e \in Exits, pc'[e] \in Running PROVE Closes[e] \in cooling'
  <2>1. CASE Scan(e) /\ e = o
    BY <2>1 DEF Scan, Entries
  <2>2. CASE pc[e] \in Running
    BY <1>1, <2>2 DEF XInv
  <2>3. QED
    BY <1>0, <1>1, <1>2, <1>3, <2>1, <2>2
<1>4. ASSUME NEW e \in Exits, NEW f \in Exits, Rivals(e, f) PROVE PairInv(e, f)'
  <2>1. PairInv(e, f) /\ PairInv(f, e) /\ Rivals(f, e) /\ e # f
    BY <1>4 DEF XInv, Rivals
  <2>2. CASE o = e
    <3>1. (Sells(f)' <=> Sells(f)) /\ (Explained(f)' <=> Explained(f)) /\ pc'[f] = pc[f]
      BY <1>0, <1>2, <2>1, <2>2 DEF Sells, Explained
    <3>2. Scan(e) => pc[f] \notin Running /\ (Sells(f) => Explained(f))
      BY <2>1, ScanOfRival
    <3>3. QED
      BY <1>1, <2>1, <2>2, <3>1, <3>2 DEF PairInv
  <2>3. CASE o = f
    <3>1. (Sells(e)' <=> Sells(e)) /\ (Explained(e)' <=> Explained(e)) /\ pc'[e] = pc[e]
      BY <1>0, <1>2, <2>1, <2>3 DEF Sells, Explained
    <3>2. Scan(f) => pc[e] \notin Running /\ (Sells(e) => Explained(e))
      BY <1>4, ScanOfRival
    <3>3. QED
      BY <1>1, <2>1, <2>3, <3>1, <3>2 DEF PairInv
  <2>4. CASE o # e /\ o # f
    BY <1>0, <1>2, <2>1, <2>4 DEF PairInv, Sells, Explained
  <2>5. QED
    BY <2>2, <2>3, <2>4
<1>5. QED
  BY <1>3, <1>4 DEF XInv, Rivals

LEMMA NextXInv == ASSUME IInv, WInv, XInv, Prompt, [Next]_vars PROVE XInv'
<1>0. TypeOK /\ Exits \subseteq Opps
  BY OppAssumption DEF IInv
<1>1. ASSUME UNCHANGED <<order, cooling>>,
             \A u \in Opps : pc'[u] = pc[u] \/ (pc'[u] = "cut" /\ pc[u] \in Running)
      PROVE  XInv'
  BY <1>0, <1>1 DEF XInv, PairInv, Sells, Explained, Rivals, Running, Gates
<1>2. ASSUME NEW p \in Entries, CooldownPasses(p) PROVE XInv'
  <2>1. UNCHANGED <<pc, order>> /\ cooling' = cooling \ {p}
        /\ (\A e \in Exits : Closes[e] = p => pc[e] \notin Running)
    BY <1>2 DEF CooldownPasses, Prompt
  <2>2. QED
    BY <2>1 DEF XInv, PairInv, Sells, Explained, Rivals
<1>3. CASE Crash
  <2>1. order' = order
        /\ \A u \in Opps : pc'[u] = IF pc[u] \in Running THEN "cut" ELSE pc[u]
    BY <1>3 DEF Crash
  <2>2. \A u \in Opps : pc'[u] \notin Running
    BY <2>1 DEF Running, Gates
  <2>3. \A u \in Opps : (Explained(u) => Explained(u)') /\ (Sells(u)' <=> Sells(u))
    BY <2>1 DEF Explained, Sells, Running, Gates
  <2>4. QED
    BY <1>0, <2>2, <2>3 DEF XInv, PairInv, Rivals
<1>4. ASSUME OthersStep, ~Crash PROVE XInv'
  <2>1. UNCHANGED <<order, cooling>>
    BY <1>4 DEF OthersStep, HealthChanges, ShadowChanges, Cancel, KillToggles, exits
  <2>2. \A u \in Opps : pc'[u] = pc[u] \/ (pc'[u] = "cut" /\ pc[u] \in Running)
    BY <1>0, <1>4 DEF OthersStep, HealthChanges, ShadowChanges, Cancel, KillToggles, TypeOK
  <2>3. QED
    BY <1>1, <2>1, <2>2
<1>5. CASE UNCHANGED vars
  BY <1>1, <1>5 DEF vars, exits
<1>6. QED
  BY <1>2, <1>3, <1>4, <1>5, RouteXInv DEF Next, Quiet

LEMMA AlwaysWInv == WritesHold => (Spec => [](IInv /\ WInv))
<1> SUFFICES ASSUME WritesHold PROVE Spec => [](IInv /\ WInv)
  OBVIOUS
<1>1. IInv /\ WInv /\ [Next]_vars => (IInv /\ WInv)'
  BY NextIInv, NextWInv
<1>2. QED
  BY <1>1, InitIInv, InitWInv, PTL DEF Spec

-------------------------------------------------------------------------------
(* The theorems.                                                           *)

\* An opportunity taken in shadow mode is never ordered, whatever fails.
THEOREM ShadowIsSafe == Spec => []ShadowPlacesNothing
<1>1. IInv => ShadowPlacesNothing
  BY DEF IInv, RouteInv, ShadowPlacesNothing
<1>2. QED
  BY <1>1, AlwaysIInv, PTL

\* What the policies, the preconditions, the kill switch or a rule refuse is not
\* ordered, even when the refusal cannot be written.
THEOREM FirmRefusalsHold == Spec => []FirmRefusals
<1>1. IInv => FirmRefusals
  BY DEF IInv, RouteInv, FirmRefusals, Firm
<1>2. QED
  BY <1>1, AlwaysIInv, PTL

\* Positions are opened and closed by orders the venue has answered.
THEOREM PositionsAreOrdered == Spec => []PositionsHaveOrders
<1>1. IInv => PositionsHaveOrders
  BY DEF IInv, PositionInv, PositionsHaveOrders
<1>2. QED
  BY <1>1, AlwaysIInv, PTL

\* While every write succeeds a refused opportunity is not ordered by a later gate,
\* and one table alone shows the refusal, through crashes, cancelled scans, failing
\* reads and lost replies.
THEOREM RefusalsStand == WritesHold => (Spec => []RefusalsHold)
<1> SUFFICES ASSUME WritesHold PROVE Spec => []RefusalsHold
  OBVIOUS
<1>1. IInv /\ WInv => RefusalsHold
  BY DEF WInv, StoreInv, Refusal, RefusalsHold
<1>2. QED
  BY <1>1, AlwaysWInv, PTL

\* While every write succeeds and there is a journal, the status of a finished
\* opportunity tells what became of its order.
THEOREM OutcomeIsRecorded == WritesHold /\ Journal => (Spec => []OutcomeRecorded)
<1> SUFFICES ASSUME WritesHold, Journal PROVE Spec => []OutcomeRecorded
  OBVIOUS
<1>1. IInv /\ WInv => OutcomeRecorded
  BY DEF WInv, StoreInv, Outcome, Held, OutcomeRecorded
<1>2. QED
  BY <1>1, AlwaysWInv, PTL

\* While every write succeeds the exit rules of a finished entry outlast every crash.
THEOREM RulesOutlast == WritesHold => (Spec => []RulesSurvive)
<1> SUFFICES ASSUME WritesHold PROVE Spec => []RulesSurvive
  OBVIOUS
<1>1. IInv /\ WInv => RulesSurvive
  BY DEF WInv, GuardInv, RulesSurvive
<1>2. QED
  BY <1>1, AlwaysWInv, PTL

\* While every write succeeds and no order outlasts the cooldown, a position is sold
\* twice only after a lost reply or a route that was cut off.
THEOREM SellsOnce == WritesHold /\ Prompt => (Spec => []SoldTwiceExplained)
<1> SUFFICES ASSUME WritesHold, Prompt PROVE Spec => []SoldTwiceExplained
  OBVIOUS
<1>1. XInv => SoldTwiceExplained
  <2> SUFFICES ASSUME XInv, NEW p \in Entries, Cardinality(Selling(p)) > 1
               PROVE  \E e \in Selling(p) : pc[e] = "cut" \/ order[e] = "lost"
    BY DEF SoldTwiceExplained
  <2>1. Selling(p) # {}
    <3>1. CASE Selling(p) = {}
      <4>1. Cardinality(Selling(p)) = 0
        BY <3>1, FS_EmptySet
      <4>2. QED
        BY <4>1
    <3>2. QED
      BY <3>1
  <2>2. PICK e \in Selling(p) : TRUE
    BY <2>1
  <2>3. Selling(p) # {e}
    <3>1. CASE Selling(p) = {e}
      <4>1. Cardinality(Selling(p)) = 1
        BY <3>1, FS_Singleton
      <4>2. QED
        BY <4>1
    <3>2. QED
      BY <3>1
  <2>4. PICK f \in Selling(p) : f # e
    BY <2>2, <2>3
  <2>5. Rivals(e, f) /\ Sells(e) /\ Sells(f)
    BY <2>4 DEF Rivals, Selling, Sells
  <2>6. Explained(e) \/ Explained(f)
    BY <2>5 DEF XInv, PairInv, Rivals
  <2>7. QED
    BY <2>6 DEF Explained
<1>2. IInv /\ WInv /\ XInv /\ [Next]_vars => (IInv /\ WInv /\ XInv)'
  BY NextIInv, NextWInv, NextXInv
<1>3. QED
  BY <1>1, <1>2, InitIInv, InitWInv, InitXInv, PTL DEF Spec

-------------------------------------------------------------------------------
(* How far a route has got.                                                *)

Stage(p) == CASE p = "idle" -> 0 [] p = "scanned" -> 1 [] p = "policy" -> 2
              [] p = "health" -> 3 [] p = "ready" -> 4 [] p = "adjust" -> 5
              [] p = "risk" -> 6 [] p = "rules" -> 7 [] p = "placing" -> 8
              [] p = "recording" -> 9 [] p = "trading" -> 10 [] p = "tracking" -> 11
              [] p = "guarding" -> 12 [] p = "finishing" -> 13 [] p = "failing" -> 14
              [] OTHER -> 15

LEMMA StagesAreBounded == ASSUME NEW p PROVE Stage(p) \in 0..15
  BY DEF Stage

LEMMA GotoAdvances ==
  ASSUME TypeOK, NEW o \in Opps, NEW from, NEW to, Goto(o, from, to), Stage(to) > Stage(from)
  PROVE  /\ Stage(pc'[o]) > Stage(pc[o])
         /\ \A u \in Opps : u # o => pc'[u] = pc[u]
  BY DEF Goto, TypeOK

\* Every gate and every book sends its route forward.
LEMMA RouteAdvances ==
  ASSUME TypeOK, NEW o \in Opps, Scan(o) \/ RouteStep(o)
  PROVE  /\ Stage(pc'[o]) > Stage(pc[o])
         /\ \A u \in Opps : u # o => pc'[u] = pc[u]
<1> DEFINE Forward == \E from, to : Goto(o, from, to) /\ Stage(to) > Stage(from)
<1>1. SUFFICES Forward
  BY GotoAdvances
<1>2. CASE Scan(o) \/ Save(o) \/ SaveFails(o)
  BY <1>2 DEF Scan, Save, SaveFails, Stage
<1>3. CASE PolicyRefuses(o) \/ PolicyPasses(o)
  BY <1>3 DEF PolicyRefuses, PolicyPasses, Refuses, RefusalFails, Stage
<1>4. CASE HealthGate(o)
  <2>1. \/ Goto(o, "health", "done") \/ Goto(o, "health", "ready")
    BY <1>4 DEF HealthGate, Refuses, RefusalFails, Passes
  <2>2. QED
    BY <2>1 DEF Stage
<1>5. CASE ReadyGate(o)
  <2>1. Goto(o, "ready", "adjust") \/ Goto(o, "ready", "done") \/ Goto(o, "ready", "raised")
    BY <1>5 DEF ReadyGate, Refuses, RefusalFails, Passes
  <2>2. QED
    BY <2>1 DEF Stage
<1>6. CASE AdjustGate(o)
  <2>1. Goto(o, "adjust", "risk") \/ Goto(o, "adjust", "done")
    BY <1>6 DEF AdjustGate, Refuses, RefusalFails, Passes
  <2>2. QED
    BY <2>1 DEF Stage
<1>7. CASE RiskGate(o)
  <2>1. Goto(o, "risk", "rules") \/ Goto(o, "risk", "done") \/ Goto(o, "risk", "raised")
    BY <1>7 DEF RiskGate, Refuses, RefusalFails, Passes
  <2>2. QED
    BY <2>1 DEF Stage
<1>8. CASE RulesRefuse(o) \/ RulesRaise(o) \/ RecordAllowed(o) \/ PlaceOrder(o)
  <2>1. Goto(o, "rules", "done") \/ Goto(o, "rules", "raised") \/ Goto(o, "rules", "placing")
    BY <1>8 DEF RulesRefuse, RulesRaise, RecordAllowed, PlaceOrder, Refuses, RefusalFails, Passes
  <2>2. QED
    BY <2>1 DEF Stage
<1>9. CASE Reply(o) \/ MarkExecuted(o) \/ SaveTrade(o) \/ BookFails(o)
  <2>1. \/ Goto(o, "placing", "recording") \/ Goto(o, "placing", "failing")
        \/ Goto(o, "recording", "trading") \/ Goto(o, "trading", "tracking")
        \/ Goto(o, "recording", "failing") \/ Goto(o, "trading", "failing")
    BY <1>9 DEF Reply, MarkExecuted, SaveTrade, BookFails
  <2>2. QED
    BY <2>1 DEF Stage
<1>10. CASE Track(o) \/ TrackFails(o) \/ Attach(o) \/ Detach(o) \/ Finish(o) \/ Fail(o)
  <2>1. \/ Goto(o, "tracking", "guarding") \/ Goto(o, "tracking", "finishing")
        \/ Goto(o, "guarding", "finishing") \/ Goto(o, "finishing", "done")
        \/ Goto(o, "finishing", "failing")
        \/ Goto(o, "failing", "done") \/ Goto(o, "failing", "raised")
    BY <1>10 DEF Track, TrackFails, Attach, Detach, Finish, Fail
  <2>2. QED
    BY <2>1 DEF Stage
<1>11. QED
  BY <1>2, <1>3, <1>4, <1>5, <1>6, <1>7, <1>8, <1>9, <1>10 DEF RouteStep, GateStep, BookStep

\* A route never goes back, and each of its steps takes it on towards an end at most
\* fifteen steps away: no gate that swallows a failure and no handler sends an
\* opportunity through a gate again or orders it a second time.
THEOREM RoutesAdvance ==
  Spec => [][\A o \in Opps :
               /\ Stage(pc'[o]) \in Stage(pc[o])..15
               /\ Scan(o) \/ RouteStep(o) => Stage(pc'[o]) > Stage(pc[o])]_vars
<1>1. TypeOK /\ [Next]_vars =>
        [\A o \in Opps :
           /\ Stage(pc'[o]) \in Stage(pc[o])..15
           /\ Scan(o) \/ RouteStep(o) => Stage(pc'[o]) > Stage(pc[o])]_vars
  <2> SUFFICES ASSUME TypeOK, Next, NEW u \in Opps
               PROVE  /\ Stage(pc'[u]) \in Stage(pc[u])..15
                      /\ Scan(u) \/ RouteStep(u) => Stage(pc'[u]) > Stage(pc[u])
    BY DEF vars
  <2>0. Stage(pc[u]) \in 0..15 /\ Stage(pc'[u]) \in 0..15
    BY StagesAreBounded
  <2>1. Scan(u) \/ RouteStep(u) => Stage(pc'[u]) > Stage(pc[u])
    BY RouteAdvances
  <2>2. \/ Scan(u) \/ RouteStep(u)
        \/ pc'[u] = pc[u]
        \/ pc'[u] = "cut"
    <3>1. ASSUME NEW o \in Opps, Scan(o) \/ RouteStep(o), o # u PROVE pc'[u] = pc[u]
      BY <3>1, RouteAdvances
    <3>2. ASSUME NEW o \in Opps, VenueActs(o) PROVE pc' = pc
      BY <3>2 DEF VenueActs
    <3>3. ASSUME NEW p \in Entries, CooldownPasses(p) PROVE pc' = pc
      BY <3>3 DEF CooldownPasses
    <3>4. ASSUME OthersStep PROVE pc'[u] = pc[u] \/ pc'[u] = "cut"
      <4>1. ASSUME NEW a, HealthChanges(a) \/ ShadowChanges(a) PROVE pc' = pc
        BY <4>1 DEF HealthChanges, ShadowChanges
      <4>2. ASSUME NEW o \in Opps, Cancel(o) PROVE pc'[u] = pc[u] \/ pc'[u] = "cut"
        BY <4>2 DEF Cancel, TypeOK
      <4>3. KillToggles => pc' = pc
        BY DEF KillToggles
      <4>4. Crash => pc'[u] = pc[u] \/ pc'[u] = "cut"
        BY DEF Crash
      <4>5. QED
        BY <3>4, <4>1, <4>2, <4>3, <4>4 DEF OthersStep
    <3>5. Quiet => pc' = pc
      BY DEF Quiet, vars
    <3>6. QED
      BY <3>1, <3>2, <3>3, <3>4, <3>5 DEF Next
  <2>3. Stage("cut") = 15
    BY DEF Stage
  <2>4. QED
    BY <2>0, <2>1, <2>2, <2>3
<1>2. QED
  BY <1>1, RouterTypeCorrect, PTL DEF Spec

==============================================================================
