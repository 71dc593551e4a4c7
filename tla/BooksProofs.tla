------------------------------ MODULE BooksProofs -----------------------------
(***************************************************************************)
(* Theorems about four components of the books: CircuitBreaker, LlmBudget, *)
(* PaperLedger and ShadowBook.  They share no variable.                    *)
(***************************************************************************)
EXTENDS CircuitBreaker, LlmBudget, PaperLedger, ShadowBook, FiniteSetTheorems,
        WellFoundedInduction, TLAPS

-------------------------------------------------------------------------------
(* The circuit breaker.                                                    *)

\* The successes of a half-open circuit are too few to close it.
BreakerInv == BreakerTypeOK /\ (circuit = "half_open" => successes < SuccessThreshold)

\* Types, the counters within their thresholds, whichever calls end when.
THEOREM BreakerTypeCorrect == BreakerSpec => []BreakerTypeOK
<1> USE BreakerAssumption
<1>1. ASSUME BreakerInit PROVE BreakerInv
  <2>1. down \in BOOLEAN /\ late \in BOOLEAN
    BY <1>1, Zenon DEF BreakerInit
  <2> QED
    BY <1>1, <2>1 DEF BreakerInit, BreakerInv, BreakerTypeOK
<1>2. BreakerInv /\ [BreakerNext]_breakerVars => BreakerInv'
  <2> SUFFICES ASSUME BreakerInv, [BreakerNext]_breakerVars PROVE BreakerInv'
    OBVIOUS
  <2> USE DEF BreakerInv, BreakerTypeOK
  <2>1. ASSUME NEW c \in Clients, Enter(c) PROVE BreakerInv'
    <3>1. circuit' \in {"closed", "half_open"}
      BY <2>1 DEF Enter
    <3>2. calling' \in [Clients -> {"no", "closed", "half_open"}]
      BY <2>1, <3>1 DEF Enter
    <3> QED
      BY <2>1, <3>1, <3>2 DEF Enter
  <2>2. ASSUME NEW c \in Clients, Succeeds(c) PROVE BreakerInv'
    <3>1. calling' \in [Clients -> {"no", "closed", "half_open"}]
      BY <2>2 DEF Succeeds
    <3>2. late' \in BOOLEAN /\ UNCHANGED down
      BY <2>2, Zenon DEF Succeeds
    <3>3. CASE circuit = "half_open"
      <4>1. successes' = successes + 1 /\ successes' <= SuccessThreshold
        BY <2>2, <3>3 DEF Succeeds
      <4> QED
        BY <2>2, <3>1, <3>2, <3>3, <4>1 DEF Succeeds
    <3>4. CASE circuit # "half_open"
      BY <2>2, <3>1, <3>2, <3>4 DEF Succeeds
    <3> QED
      BY <3>3, <3>4
  <2>3. ASSUME NEW c \in Clients, RecordFailure(c) PROVE BreakerInv'
    <3>1. calling' \in [Clients -> {"no", "closed", "half_open"}]
      BY <2>3 DEF RecordFailure
    <3> QED
      BY <2>3, <3>1 DEF RecordFailure
  <2>4. CASE Reset
    <3>1. UNCHANGED <<calling, down>> /\ late' \in BOOLEAN
      BY <2>4, Zenon DEF Reset
    <3>2. circuit' = "closed" /\ failures' = 0 /\ successes' = 0 /\ lastFail' = "none"
      BY <2>4 DEF Reset
    <3> QED
      BY <3>1, <3>2
  <2>5. CASE ProviderRecovers \/ TimeoutPasses \/ UNCHANGED breakerVars
    BY <2>5 DEF ProviderRecovers, TimeoutPasses, breakerVars
  <2> QED
    BY <2>1, <2>2, <2>3, <2>4, <2>5 DEF BreakerNext, Ends
<1> QED
  BY <1>1, <1>2, PTL DEF BreakerSpec, BreakerInv

\* The open circuit has a time to count from, but for a call that was let in before it
\* opened and succeeded since (_record_success clears last_failure_time in any state).
THEOREM OpenCircuitIsTimed == BreakerSpec => []OpenIsTimed
<1>1. BreakerInit => OpenIsTimed
  BY DEF BreakerInit, OpenIsTimed
<1>2. OpenIsTimed /\ [BreakerNext]_breakerVars => OpenIsTimed'
  BY DEF OpenIsTimed, BreakerNext, breakerVars, Enter, Ends, Succeeds, RecordFailure,
         Reset, ProviderRecovers, TimeoutPasses
<1> QED
  BY <1>1, <1>2, PTL DEF BreakerSpec

\* One call at a time is under way.
OneCall == \A c, d \in Clients : calling[c] # "no" /\ calling[d] # "no" => c = d

\* While calls do not overlap, no call is under way that is older than the open circuit:
\* it always has a time to count from, and nothing keeps it open.
THEOREM LoneCallsAreTimed ==
  BreakerSpec /\ []OneCall => [](circuit = "open" => lastFail # "none")
<1> DEFINE NoneOlder == ~late /\ (circuit = "open" => \A c \in Clients : calling[c] = "no")
<1>1. BreakerInit => NoneOlder
  BY Zenon DEF BreakerInit
<1>2. BreakerTypeOK /\ OneCall /\ NoneOlder /\ [BreakerNext]_breakerVars => NoneOlder'
  <2> SUFFICES ASSUME BreakerTypeOK, OneCall, NoneOlder, [BreakerNext]_breakerVars
               PROVE  NoneOlder'
    OBVIOUS
  <2> USE DEF BreakerTypeOK
  <2>1. ASSUME NEW c \in Clients, Enter(c) PROVE NoneOlder'
    <3>1. circuit' # "open"
      BY <2>1 DEF Enter
    <3> QED
      BY <2>1, <3>1 DEF Enter
  <2>2. ASSUME NEW c \in Clients, Succeeds(c) PROVE NoneOlder'
    <3>1. circuit # "open"
      BY <2>2 DEF Succeeds
    <3>2. circuit' # "open" /\ late' = late
      BY <2>2, <3>1 DEF Succeeds
    <3> QED
      BY <3>1, <3>2
  <2>3. ASSUME NEW c \in Clients, RecordFailure(c) PROVE NoneOlder'
    <3>1. \A d \in Clients : calling'[d] = "no"
      BY <2>3 DEF RecordFailure, OneCall
    <3> QED
      BY <2>3, <3>1 DEF RecordFailure
  <2>4. CASE Reset
    BY <2>4 DEF Reset
  <2>5. CASE ProviderRecovers \/ TimeoutPasses \/ UNCHANGED breakerVars
    BY <2>5 DEF ProviderRecovers, TimeoutPasses, breakerVars
  <2> QED
    BY <2>1, <2>2, <2>3, <2>4, <2>5 DEF BreakerNext, Ends
<1>3. OpenIsTimed /\ NoneOlder => (circuit = "open" => lastFail # "none")
  BY DEF OpenIsTimed
<1> QED
  BY <1>1, <1>2, <1>3, BreakerTypeCorrect, OpenCircuitIsTimed, PTL DEF BreakerSpec

-------------------------------------------------------------------------------
(* The ceiling on what language models cost.                               *)

LEMMA GoesType ==
  ASSUME LlmTypeOK, NEW c \in Calls, NEW from, NEW to \in Steps, Goes(c, from, to)
  PROVE  step' \in [Calls -> Steps]
  BY DEF LlmTypeOK, Goes

\* Types, and the bounds of the keys' lives.
THEOREM LlmTypeCorrect == LlmSpec => []LlmTypeOK
<1>1. LlmInit => LlmTypeOK
  <2> SUFFICES ASSUME LlmInit PROVE LlmTypeOK
    OBVIOUS
  <2>1. step \in [Calls -> Steps]
    BY DEF LlmInit, Steps
  <2>2. /\ expiry \in 0..Window /\ marked \in 0..Window /\ grace \in 0..Grace
        /\ fails \in 0..MaxFails /\ overFor \in 0..Grace /\ troubles \in 0..MaxTroubles
        /\ spent \in Nat /\ local \in Nat
    BY BudgetAssumption DEF LlmInit
  <2>3. carried \in BOOLEAN
    BY DEF LlmInit
  <2>4. QED
    BY <2>1, <2>2, <2>3 DEF LlmTypeOK
<1>2. LlmTypeOK /\ [LlmNext]_llmVars => LlmTypeOK'
  <2> SUFFICES ASSUME LlmTypeOK, [LlmNext]_llmVars PROVE LlmTypeOK'
    OBVIOUS
  <2>0. Cost \in Nat \ {0} /\ Grace \in Nat /\ Window \in Nat /\ MaxTroubles \in Nat
    BY BudgetAssumption
  <2>1. FirstLive \in Steps
    BY DEF FirstLive, Steps
  <2>2. Trouble => troubles' \in 0..MaxTroubles
    BY <2>0 DEF Trouble, LlmTypeOK
  <2>3. ASSUME NEW c \in Calls, Resolve(c) \/ Deadline(c) PROVE LlmTypeOK'
    <3>1. step' \in [Calls -> Steps]
      BY <2>1, <2>3, GoesType DEF Resolve, Deadline, Steps
    <3>2. troubles' \in 0..MaxTroubles
      BY <2>2, <2>3 DEF Resolve, Deadline, Spend, LlmTypeOK
    <3>3. QED
      BY <2>3, <3>1, <3>2 DEF Resolve, Deadline, LlmTypeOK
  <2>4. ASSUME NEW c \in Calls, PaidAnswers(c) \/ PaidFails(c) \/ FreeAnswers(c)
        PROVE  LlmTypeOK'
    <3>1. step' \in [Calls -> Steps]
      BY <2>4, GoesType DEF PaidAnswers, PaidFails, FreeAnswers, Steps
    <3>2. fails' \in 0..MaxFails
      BY <2>4, BudgetAssumption DEF PaidAnswers, PaidFails, FreeAnswers, LlmTypeOK
    <3>3. QED
      BY <2>4, <3>1, <3>2 DEF PaidAnswers, PaidFails, FreeAnswers, LlmTypeOK
  <2>5. ASSUME NEW c \in Calls, Count(c) \/ Expire(c) \/ RecordFails(c) PROVE LlmTypeOK'
    <3>1. step' \in [Calls -> Steps]
      BY <2>5, GoesType DEF Count, Expire, RecordFails, Steps
    <3>2. troubles' \in 0..MaxTroubles
      BY <2>2, <2>5 DEF Count, Expire, RecordFails, LlmTypeOK
    <3>3. spent' \in Nat /\ local' \in Nat /\ expiry' \in 0..Window \cup {Forever}
      BY <2>0, <2>5 DEF Count, Expire, RecordFails, LlmTypeOK, Adds, Expires, Forever
    <3>4. QED
      BY <2>5, <3>1, <3>2, <3>3 DEF Count, Expire, RecordFails, LlmTypeOK
  <2>6. ASSUME NEW c \in Calls, Weigh(c) \/ Check(c) \/ StoreDeadline(c) PROVE LlmTypeOK'
    <3>1. step' \in [Calls -> Steps]
      BY <2>6, GoesType DEF Weigh, Check, StoreDeadline, Rounds, Steps
    <3>2. troubles' \in 0..MaxTroubles
      BY <2>2, <2>6 DEF Weigh, Check, StoreDeadline, Spend, LlmTypeOK
    <3>3. marked' \in 0..Window \cup {Forever} /\ grace' \in 0..Grace
      BY <2>0, <2>6 DEF Weigh, Check, StoreDeadline, SetDeadline, LlmTypeOK
    <3>4. QED
      BY <2>6, <3>1, <3>2, <3>3 DEF Weigh, Check, StoreDeadline, LlmTypeOK
  <2>7. CASE Tick
    <3>1. /\ expiry' \in 0..Window \cup {Forever} /\ marked' \in 0..Window \cup {Forever}
          /\ grace' \in 0..Grace /\ spent' \in Nat
      BY <2>0, <2>7 DEF Tick, Less, LlmTypeOK, Forever
    <3>2. overFor' \in 0..Grace
      BY <2>0, <2>7 DEF Tick, LlmTypeOK
    <3>3. carried' \in BOOLEAN
      <4>1. carried' = (marked' # 0 \/ \E c \in Calls : Marking(c)) \/ carried' = carried
        BY <2>7 DEF Tick
      <4>2. QED
        BY <4>1 DEF LlmTypeOK
    <3>4. QED
      BY <2>7, <3>1, <3>2, <3>3 DEF Tick, LlmTypeOK
  <2>8. CASE LlmRestarts
    <3>1. troubles' \in 0..MaxTroubles
      BY <2>2, <2>8 DEF LlmRestarts
    <3>2. QED
      BY <2>8, <3>1, BudgetAssumption DEF LlmRestarts, LlmTypeOK, Steps
  <2>9. CASE UNCHANGED llmVars
    BY <2>9 DEF llmVars, LlmTypeOK
  <2>10. QED
    BY <2>3, <2>4, <2>5, <2>6, <2>7, <2>8, <2>9 DEF LlmNext
<1>3. QED
  BY <1>1, <1>2, PTL DEF LlmSpec

Untroubled == troubles = 0 /\ ~carried

\* A sum has a life; one without end is about to be given its end.
SumInv ==
  /\ expiry = 0 <=> spent = 0
  /\ troubles = 0 /\ expiry = Forever => \E c \in Calls : step[c] = "expire"

\* A deadline of this window was set after its ceiling was reached, and expires no sooner
\* than the sum.
DeadlineInv ==
  Untroubled =>
    /\ \A c \in Calls : Marking(c) => spent >= Budget
    /\ marked # 0 =>
         /\ spent >= Budget
         /\ grace + overFor >= Grace
         /\ \/ expiry = Forever /\ marked = Window
            \/ expiry \in 1..Window /\ marked \in expiry..Window

LEMMA InitDeadline == LlmInit => SumInv /\ DeadlineInv
  BY DEF LlmInit, SumInv, DeadlineInv, Marking, Forever

\* The steps that neither count a cost nor set a deadline.
LEMMA CallDeadline ==
  ASSUME LlmTypeOK, SumInv, DeadlineInv, NEW c \in Calls,
         \/ Resolve(c) \/ Deadline(c) \/ PaidAnswers(c) \/ PaidFails(c) \/ FreeAnswers(c)
         \/ Weigh(c) \/ Check(c)
  PROVE  SumInv' /\ DeadlineInv'
<1>1. UNCHANGED <<spent, expiry, marked, grace, overFor, carried>>
  BY DEF Resolve, Deadline, PaidAnswers, PaidFails, FreeAnswers, Weigh, Check
<1>2. /\ step[c] # "expire"
      /\ \A d \in Calls : d # c => step'[d] = step[d]
  BY DEF Resolve, Deadline, PaidAnswers, PaidFails, FreeAnswers, Weigh, Check, Goes, Rounds,
     LlmTypeOK
<1>3. troubles' = 0 => troubles = 0
  BY BudgetAssumption
  DEF Resolve, Deadline, PaidAnswers, PaidFails, FreeAnswers, Weigh, Check, Spend, Trouble,
      LlmTypeOK
<1>4. SumInv'
  BY <1>1, <1>2, <1>3 DEF SumInv
<1>5. troubles' = 0 /\ Marking(c)' => Marking(c) \/ spent >= Budget
  <2>1. CASE Weigh(c)
    <3>1. PICK r \in Rounds, v \in {spent, local} :
            Spend(v) /\ Goes(c, r[1], IF v >= Budget THEN r[2] ELSE r[4])
      BY <2>1 DEF Weigh
    <3>2. troubles' = 0 => v = spent
      BY <3>1 DEF Spend, Trouble, LlmTypeOK
    <3>3. step'[c] \in {"check", "recheck"} => v >= Budget
      BY <3>1 DEF Goes, Rounds, LlmTypeOK
    <3>4. step'[c] \notin {"set", "reset"}
      BY <3>1 DEF Goes, Rounds, LlmTypeOK
    <3>5. QED
      BY <3>2, <3>3, <3>4 DEF Marking
  <2>2. CASE Check(c)
    BY <2>2 DEF Check, Goes, Rounds, Marking, LlmTypeOK
  <2>3. CASE ~Weigh(c) /\ ~Check(c)
    BY <2>3 DEF Resolve, Deadline, PaidAnswers, PaidFails, FreeAnswers, Goes, Marking, LlmTypeOK,
       FirstLive
  <2>4. QED
    BY <2>1, <2>2, <2>3
<1>6. DeadlineInv'
  BY <1>1, <1>2, <1>3, <1>5 DEF DeadlineInv, Untroubled, Marking
<1>7. QED
  BY <1>4, <1>6

\* What is counted only adds to a sum that has reached the ceiling.
LEMMA CountDeadline ==
  ASSUME LlmTypeOK, SumInv, DeadlineInv, NEW c \in Calls, Count(c) \/ Expire(c) \/ RecordFails(c)
  PROVE  SumInv' /\ DeadlineInv'
<1>0. Cost \in Nat \ {0} /\ Budget \in Nat \ {0} /\ Window \in Nat \ {0}
  BY BudgetAssumption
<1>1. \A d \in Calls : d # c => step'[d] = step[d]
  BY DEF Count, Expire, RecordFails, Goes, LlmTypeOK
<1>2. CASE Count(c)
  <2>1. /\ step'[c] = "expire" /\ spent' = spent + Cost
        /\ expiry' = IF expiry = 0 THEN Forever ELSE expiry
        /\ UNCHANGED <<marked, grace, overFor, carried, troubles>>
    BY <1>2 DEF Count, Goes, Adds, LlmTypeOK
  <2>2. SumInv'
    BY <1>0, <2>1 DEF SumInv, LlmTypeOK, Forever
  <2>3. DeadlineInv'
    BY <1>0, <1>1, <2>1 DEF DeadlineInv, Untroubled, Marking, SumInv, LlmTypeOK, Forever
  <2>4. QED
    BY <2>2, <2>3
<1>3. CASE Expire(c)
  <2>1. /\ step'[c] = "weigh"
        /\ expiry' = IF expiry = Forever THEN Window ELSE expiry
        /\ UNCHANGED <<spent, marked, grace, overFor, carried, troubles>>
    BY <1>3 DEF Expire, Expires, Goes, LlmTypeOK
  <2>2. SumInv'
    BY <1>0, <2>1 DEF SumInv, LlmTypeOK, Forever
  <2>3. DeadlineInv'
    BY <1>0, <1>1, <2>1 DEF DeadlineInv, Untroubled, Marking, SumInv, LlmTypeOK, Forever
  <2>4. QED
    BY <2>2, <2>3
<1>4. CASE RecordFails(c)
  <2>1. troubles' # 0
    BY <1>4 DEF RecordFails, Trouble, LlmTypeOK
  <2>2. /\ spent' = spent \/ spent' = spent + Cost
        /\ expiry' = 0 <=> spent' = 0
    BY <1>0, <1>4 DEF RecordFails, Adds, Expires, SumInv, LlmTypeOK, Forever
  <2>3. QED
    BY <2>1, <2>2 DEF SumInv, DeadlineInv, Untroubled
<1>5. QED
  BY <1>2, <1>3, <1>4

\* The deadline is set for a day, when the sum has no more than that left.
LEMMA StoreKeepsDeadline ==
  ASSUME LlmTypeOK, SumInv, DeadlineInv, NEW c \in Calls, StoreDeadline(c)
  PROVE  SumInv' /\ DeadlineInv'
<1>0. Budget \in Nat \ {0} /\ Window \in Nat \ {0} /\ Grace \in Nat
  BY BudgetAssumption
<1>1. /\ UNCHANGED <<spent, expiry, overFor, carried>>
      /\ Marking(c) /\ step[c] # "expire" /\ step'[c] \in {"alert", "idle"}
      /\ \A d \in Calls : d # c => step'[d] = step[d]
  BY DEF StoreDeadline, Goes, Rounds, Marking, LlmTypeOK
<1>2. troubles' = 0 => troubles = 0 /\ marked' = Window /\ grace' = Grace
  BY DEF StoreDeadline, SetDeadline, Trouble, LlmTypeOK
<1>3. SumInv'
  BY <1>1, <1>2 DEF SumInv
<1>4. Untroubled' => Untroubled /\ spent >= Budget
  BY <1>1, <1>2 DEF Untroubled, DeadlineInv
<1>5. Untroubled' => expiry = Forever \/ expiry \in 1..Window
  BY <1>0, <1>4 DEF SumInv, LlmTypeOK
<1>6. DeadlineInv'
  BY <1>0, <1>1, <1>2, <1>4, <1>5 DEF DeadlineInv, Untroubled, Marking, LlmTypeOK
<1>7. QED
  BY <1>3, <1>6

\* Sum and deadline grow old together; the sum goes first, or with the deadline.
LEMMA TickDeadline ==
  ASSUME LlmTypeOK, SumInv, DeadlineInv, Tick
  PROVE  SumInv' /\ DeadlineInv'
<1>0. Budget \in Nat \ {0} /\ Window \in Nat \ {0} /\ Grace \in Nat
  BY BudgetAssumption
<1>1. /\ expiry' = Less(expiry) /\ marked' = Less(marked) /\ grace' = Less(grace)
      /\ spent' = IF expiry = 1 THEN 0 ELSE spent
      /\ UNCHANGED <<step, troubles>>
  BY DEF Tick
<1>2. SumInv'
  BY <1>0, <1>1 DEF SumInv, Less, LlmTypeOK, Forever, Tick
<1>3. CASE expiry = 1
  <2>1. Untroubled' => marked' = 0 /\ \A c \in Calls : ~Marking(c)
    BY <1>3 DEF Tick, Untroubled
  <2>2. QED
    BY <1>1, <1>2, <2>1 DEF DeadlineInv, Marking
<1>4. CASE expiry # 1
  <2>1. carried' = carried /\ spent' = spent
    BY <1>4 DEF Tick
  <2>2. ASSUME Untroubled', marked' # 0
        PROVE  /\ spent' >= Budget /\ grace' + overFor' >= Grace
               /\ \/ expiry' = Forever /\ marked' = Window
                  \/ expiry' \in 1..Window /\ marked' \in expiry'..Window
    <3>1. Untroubled /\ marked # 0 /\ spent >= Budget /\ grace + overFor >= Grace
      BY <1>1, <2>1, <2>2 DEF Untroubled, DeadlineInv, Less, LlmTypeOK
    <3>2. expiry # Forever
      BY <3>1 DEF Tick, SumInv, Untroubled
    <3>3. expiry \in 1..Window /\ marked \in expiry..Window
      BY <3>1, <3>2 DEF DeadlineInv
    <3>4. overFor' = IF overFor < Grace THEN overFor + 1 ELSE Grace
      BY <1>0, <2>1, <3>1 DEF Tick, LlmTypeOK
    <3>5. grace' + overFor' >= Grace
      BY <1>0, <1>1, <3>1, <3>4 DEF Less, LlmTypeOK
    <3>6. QED
      BY <1>0, <1>1, <1>4, <2>1, <3>1, <3>3, <3>5 DEF Less
  <2>3. QED
    BY <1>1, <1>2, <2>1, <2>2 DEF DeadlineInv, Untroubled, Marking
<1>5. QED
  BY <1>3, <1>4

LEMMA NextDeadline ==
  LlmTypeOK /\ SumInv /\ DeadlineInv /\ [LlmNext]_llmVars => SumInv' /\ DeadlineInv'
<1> SUFFICES ASSUME LlmTypeOK, SumInv, DeadlineInv, [LlmNext]_llmVars
             PROVE  SumInv' /\ DeadlineInv'
  OBVIOUS
<1>1. CASE LlmRestarts
  <2>1. troubles' # 0 /\ spent' = spent /\ expiry' = expiry
    BY <1>1 DEF LlmRestarts, Trouble, LlmTypeOK
  <2>2. QED
    BY <2>1 DEF SumInv, DeadlineInv, Untroubled
<1>2. CASE UNCHANGED llmVars
  BY <1>2 DEF llmVars, SumInv, DeadlineInv, Untroubled, Marking
<1>3. QED
  BY <1>1, <1>2, CallDeadline, CountDeadline, StoreKeepsDeadline, TickDeadline DEF LlmNext

LEMMA AlwaysDeadline == LlmSpec => [](LlmTypeOK /\ SumInv /\ DeadlineInv)
  BY InitDeadline, NextDeadline, LlmTypeCorrect, PTL DEF LlmSpec

\* Paid providers are blocked before the grace period is over only by the deadline of a
\* window before, or by what a failing Redis could not tell.
THEOREM EarlyBlocks == LlmSpec => []EarlyBlockExplained
<1>1. LlmTypeOK /\ SumInv /\ DeadlineInv => EarlyBlockExplained
  BY BudgetAssumption
  DEF LlmTypeOK, DeadlineInv, Untroubled, EarlyBlockExplained, Blocked
<1>2. QED
  BY <1>1, AlwaysDeadline, PTL

\* A block of this window lasts as long as the sum it is for.
THEOREM BlocksLast == LlmSpec => BlockLasts
<1> DEFINE Unblocks == Blocked /\ ~Blocked' =>
             spent' = 0 \/ carried \/ troubles > 0 \/ \E c \in Calls : step[c] \in {"set", "reset"}
<1>1. LlmTypeOK /\ SumInv /\ DeadlineInv /\ [LlmNext]_llmVars => [Unblocks]_llmVars
  <2> SUFFICES ASSUME LlmTypeOK, SumInv, DeadlineInv, LlmNext, Blocked, ~Blocked',
                      spent' # 0, ~carried, troubles = 0,
                      \A c \in Calls : step[c] \notin {"set", "reset"}
               PROVE  FALSE
    BY DEF LlmTypeOK
  <2>0. Cost \in Nat /\ Budget \in Nat \ {0}
    BY BudgetAssumption
  <2>1. CASE Tick
    <3>1. expiry # Forever /\ expiry # 1
      BY <2>1 DEF Tick, SumInv
    <3>2. expiry \in 2..Window /\ marked \in expiry..Window
      BY <3>1, BudgetAssumption DEF DeadlineInv, Untroubled, Blocked
    <3>3. spent' = spent /\ marked' # 0 /\ grace' = 0
      BY <2>1, <3>1, <3>2, BudgetAssumption DEF Tick, Less, Blocked
    <3>4. QED
      BY <3>3 DEF Blocked
  <2>2. CASE ~Tick
    <3>1. \A c \in Calls : ~StoreDeadline(c)
      BY DEF StoreDeadline, Goes, Rounds
    <3>2. marked' = marked /\ grace' = grace
      BY <2>2, <3>1 DEF LlmNext, Resolve, Deadline, PaidAnswers, PaidFails, FreeAnswers, Count,
         Expire, RecordFails, Weigh, Check, LlmRestarts
    <3>3. spent' = spent \/ spent' = spent + Cost
      BY <2>2, <3>1 DEF LlmNext, Resolve, Deadline, PaidAnswers, PaidFails, FreeAnswers, Count,
         Expire, RecordFails, Weigh, Check, LlmRestarts, Adds
    <3>4. QED
      BY <2>0, <3>2, <3>3 DEF Blocked, LlmTypeOK
  <2>3. QED
    BY <2>1, <2>2
<1>2. QED
  BY <1>1, AlwaysDeadline, PTL DEF LlmSpec, BlockLasts

-------------------------------------------------------------------------------
(* Sums over finite sets.                                                  *)

LEMMA LessThan == OpToRel(<, Nat) = {ss \in Nat \X Nat : ss[1] < ss[2]}
  BY DEF OpToRel

\* A set of natural numbers has a least.
LEMMA LeastExists ==
  ASSUME NEW S, S \subseteq Nat, S # {}
  PROVE  \E n \in S : \A k \in S : n <= k
<1> DEFINE R == {ss \in Nat \X Nat : ss[1] < ss[2]}
<1>1. IsWellFoundedOn(R, Nat)
  BY NatLessThanWellFounded, LessThan
<1>2. PICK n \in S : \A k \in S : ~(<<k, n>> \in R)
  BY <1>1, WFMin
<1>3. ASSUME NEW k \in S, k < n PROVE FALSE
  <2>1. <<k, n>> \in R
    BY <1>3
  <2> QED
    BY <1>2, <2>1
<1> QED
  BY <1>3

\* S gives for every subset of F the sum of what v gives for its members.
IsSum(S, F, v) ==
  /\ S \in [SUBSET F -> Int]
  /\ S[{}] = 0
  /\ \A A \in SUBSET F : \A f \in F : f \notin A => S[A \cup {f}] = S[A] + v[f]

\* Of one member more there is a sum, too.
LEMMA SumGrows ==
  ASSUME NEW F, NEW v, \A f \in F : v[f] \in Int, NEW x \in F, NEW S, IsSum(S, F \ {x}, v)
  PROVE  \E T : IsSum(T, F, v)
<1> DEFINE T == [A \in SUBSET F |-> IF x \in A THEN S[A \ {x}] + v[x] ELSE S[A]]
<1>1. \A A \in SUBSET F : /\ A \ {x} \in SUBSET (F \ {x})
                          /\ x \notin A => A \in SUBSET (F \ {x})
  OBVIOUS
<1>2. T \in [SUBSET F -> Int]
  BY <1>1 DEF IsSum
<1>3. T[{}] = 0
  BY DEF IsSum
<1>4. ASSUME NEW A \in SUBSET F, NEW f \in F, f \notin A
      PROVE  T[A \cup {f}] = T[A] + v[f]
  <2>1. A \cup {f} \in SUBSET F
    OBVIOUS
  <2>2. CASE f = x
    <3>1. (A \cup {f}) \ {x} = A
      BY <1>4, <2>2
    <3> QED
      BY <1>4, <2>1, <2>2, <3>1
  <2>3. CASE f # x /\ x \in A
    <3>1. (A \cup {f}) \ {x} = (A \ {x}) \cup {f}
      BY <2>3
    <3>2. f \in F \ {x} /\ f \notin A \ {x} /\ A \ {x} \in SUBSET (F \ {x})
      BY <1>4, <2>3
    <3>3. S[(A \ {x}) \cup {f}] = S[A \ {x}] + v[f]
      BY <3>2 DEF IsSum
    <3>4. S[A \ {x}] \in Int /\ S[(A \ {x}) \cup {f}] \in Int
      BY <3>2 DEF IsSum
    <3>5. T[A \cup {f}] = S[A \ {x}] + v[f] + v[x]
      BY <2>1, <2>3, <3>1, <3>3
    <3>6. T[A] = S[A \ {x}] + v[x]
      BY <2>3
    <3>7. v[f] \in Int
      OBVIOUS
    <3> QED
      BY <3>4, <3>5, <3>6, <3>7
  <2>4. CASE f # x /\ x \notin A
    <3>1. f \in F \ {x} /\ A \in SUBSET (F \ {x}) /\ x \notin A \cup {f}
      BY <1>4, <2>4
    <3>2. S[A \cup {f}] = S[A] + v[f]
      BY <1>4, <3>1 DEF IsSum
    <3> QED
      BY <2>1, <2>4, <3>1, <3>2
  <2> QED
    BY <2>2, <2>3, <2>4
<1>5. IsSum(T, F, v)
  BY <1>2, <1>3, <1>4 DEF IsSum
<1> QED
  BY <1>5

LEMMA SumExists ==
  ASSUME NEW F, IsFiniteSet(F), NEW v \in [F -> Int]
  PROVE  \E S : IsSum(S, F, v)
<1> DEFINE Bad == {n \in Nat : \E G \in SUBSET F : Cardinality(G) = n /\ ~ \E S : IsSum(S, G, v)}
<1>1. SUFFICES ASSUME Bad # {} PROVE FALSE
  BY FS_CardinalityType
<1>2. PICK n \in Bad : \A k \in Bad : n <= k
  BY <1>1, LeastExists
<1>3. PICK G \in SUBSET F : Cardinality(G) = n /\ ~ \E S : IsSum(S, G, v)
  BY <1>2
<1>4. IsFiniteSet(G)
  BY FS_Subset
<1>5. G # {}
  <2> SUFFICES ASSUME G = {} PROVE FALSE
    OBVIOUS
  <2>1. IsSum([A \in SUBSET {} |-> 0], {}, v)
    BY DEF IsSum
  <2> QED
    BY <1>3, <2>1
<1>6. PICK x \in G : TRUE
  BY <1>5
<1>7. Cardinality(G \ {x}) = n - 1 /\ n - 1 \in Nat
  <2>1. IsFiniteSet(G \ {x}) /\ Cardinality(G \ {x}) = Cardinality(G) - 1
    BY <1>4, <1>6, FS_RemoveElement
  <2>2. Cardinality(G \ {x}) \in Nat
    BY <2>1, FS_CardinalityType
  <2> QED
    BY <1>3, <2>1, <2>2
<1>8. PICK S : IsSum(S, G \ {x}, v)
  <2>1. n - 1 \notin Bad
    BY <1>2, <1>7
  <2> QED
    BY <1>7, <2>1
<1>9. \E T : IsSum(T, G, v)
  BY <1>6, <1>8, SumGrows
<1> QED
  BY <1>3, <1>9

-------------------------------------------------------------------------------
(* The paper ledger: what a fill does to a position.                       *)

LEMMA ShareType ==
  ASSUME NEW b, b.quantity \in Int, b.cost \in Int, NEW n \in Int, ~AddsTo(b, n)
  PROVE  Share(b, n) \in Int
<1>1. Abs(b.quantity) \in Int /\ Abs(b.quantity) > 0
  BY DEF Abs, AddsTo
<1>2. Abs(n) * b.cost \in Int
  BY DEF Abs
<1> QED
  BY <1>1, <1>2 DEF Share

\* What a fill of n contracts at a price makes of the position b.
LEMMA FillTypes ==
  ASSUME NEW b, b.quantity \in Int, b.cost \in Int,
         NEW n \in Int, NEW price \in Nat
  PROVE  FilledCost(b, n, price) \in Int /\ Realized(b, n, price) \in Int
<1>1. /\ Abs(n) * price \in Int /\ Abs(b.quantity + n) * price \in Int
      /\ Abs(b.quantity) * price \in Int
  BY DEF Abs
<1>2. CASE AddsTo(b, n)
  BY <1>1, <1>2 DEF FilledCost, Realized
<1>3. CASE ~AddsTo(b, n)
  BY <1>1, <1>3, ShareType DEF FilledCost, Realized
<1> QED
  BY <1>2, <1>3

\* Contracts that are not there have no cost.
NoneIsFree(b) == b.quantity = 0 => b.cost = 0

\* What is realized and what the position costs after a fill move by what is paid for it.
LEMMA FillAddsUp ==
  ASSUME NEW b, b.quantity \in Int, b.cost \in Int, NoneIsFree(b),
         NEW n \in Int \ {0}, NEW price \in Nat,
         NEW c, c = FilledCost(b, n, price)
  PROVE  /\ b.quantity + n = 0 => c = 0
         /\ Realized(b, n, price) - (IF b.quantity + n < 0 THEN -c ELSE c)
              = -Signed(b) - n * price
<1> DEFINE q == b.quantity
           s == Share(b, n)
<1>0. c \in Int /\ Realized(b, n, price) \in Int
  BY FillTypes
<1>1. CASE AddsTo(b, n)
  <2>1. c = b.cost + Abs(n) * price /\ Realized(b, n, price) = 0
    BY <1>1 DEF FilledCost, Realized
  <2>2. CASE n > 0
    <3>1. q >= 0 /\ Abs(n) = n
      BY <1>1, <2>2 DEF AddsTo, Abs
    <3> QED
      BY <2>1, <2>2, <3>1 DEF Signed
  <2>3. CASE n < 0
    <3>1. q <= 0 /\ Abs(n) = -n
      BY <1>1, <2>3 DEF AddsTo, Abs
    <3>2. (-n) * price = -(n * price)
      OBVIOUS
    <3> QED
      BY <2>1, <2>3, <3>1, <3>2 DEF Signed, NoneIsFree
  <2> QED
    BY <2>2, <2>3
<1>2. CASE ClosesAll(b, n)
  <2>1. ~AddsTo(b, n)
    BY <1>2 DEF ClosesAll
  <2>2. /\ c = Abs(q + n) * price
        /\ Realized(b, n, price)
             = IF q > 0 THEN Abs(q) * price - b.cost ELSE b.cost - Abs(q) * price
    BY <1>2, <2>1 DEF FilledCost, Realized, Share
  <2>3. CASE q > 0
    <3>1. n < 0 /\ q + n <= 0 /\ Abs(q) = q /\ Abs(q + n) = -(q + n)
      BY <1>2, <2>1, <2>3 DEF ClosesAll, AddsTo, Abs
    <3>2. (-(q + n)) * price = -(q * price) - n * price
      OBVIOUS
    <3> QED
      BY <2>2, <2>3, <3>1, <3>2 DEF Signed
  <2>4. CASE q < 0
    <3>1. n > 0 /\ q + n >= 0 /\ Abs(q) = -q /\ Abs(q + n) = q + n
      BY <1>2, <2>1, <2>4 DEF ClosesAll, AddsTo, Abs
    <3>2. (q + n) * price = q * price + n * price /\ (-q) * price = -(q * price)
      OBVIOUS
    <3> QED
      BY <2>2, <2>4, <3>1, <3>2 DEF Signed
  <2> QED
    BY <2>1, <2>3, <2>4 DEF AddsTo
<1>3. CASE ~AddsTo(b, n) /\ ~ClosesAll(b, n)
  <2>1. s \in Int
    BY <1>3, ShareType
  <2>2. /\ c = b.cost - s
        /\ Realized(b, n, price) = IF q > 0 THEN Abs(n) * price - s ELSE s - Abs(n) * price
    BY <1>3 DEF FilledCost, Realized
  <2>3. CASE q > 0
    <3>1. n < 0 /\ q + n > 0 /\ Abs(n) = -n
      BY <1>3, <2>3 DEF ClosesAll, AddsTo, Abs
    <3>2. (-n) * price = -(n * price)
      OBVIOUS
    <3> QED
      BY <2>1, <2>2, <2>3, <3>1, <3>2 DEF Signed
  <2>4. CASE q < 0
    <3>1. n > 0 /\ q + n < 0 /\ Abs(n) = n
      BY <1>3, <2>4 DEF ClosesAll, AddsTo, Abs
    <3> QED
      BY <2>1, <2>2, <2>4, <3>1 DEF Signed
  <2> QED
    BY <1>3, <2>3, <2>4 DEF AddsTo
<1> QED
  BY <1>1, <1>2, <1>3

-------------------------------------------------------------------------------
(* The paper ledger: types.                                                *)

LEMMA LedgerConstants ==
  /\ Fills \subseteq Tasks /\ Tracker \in Tasks /\ Tracker \notin Fills
  /\ \A f \in Fills : Amount[f] \in Int /\ Amount[f] # 0 /\ Price[f] \in Nat
                      /\ Amount[f] * Price[f] \in Int
  BY LedgerAssumption DEF Tasks

LEMMA NewBookType ==
  ASSUME NEW n \in Int
  PROVE  NewBook(n) \in Books
<1>1. Abs(n) * HeldAt \in Int /\ n * HeldAt \in Int
  BY LedgerAssumption DEF Abs
<1> QED
  BY <1>1, LedgerAssumption DEF NewBook, Books

LEMMA PaidTypes ==
  ASSUME LedgerTypeOK, NEW b \in Books
  PROVE  Signed(b) \in Int /\ Paid(b) \in Int
<1>1. b.quantity \in Int /\ b.cost \in Int
  BY DEF Books
<1>2. market # Void => market - 1 \in Int
  BY LedgerAssumption DEF LedgerTypeOK
<1> QED
  BY <1>1, <1>2 DEF Signed, Paid

LEMMA LookType ==
  ASSUME LedgerTypeOK, NEW t \in Tasks, Looks(t) \/ Forgets(t)
  PROVE  seen' \in [Tasks -> Books]
<1>1. Nothing \in Books
  BY NewBookType DEF Nothing
<1>2. [Nothing EXCEPT !.quantity = book.quantity, !.cost = book.cost,
                      !.realized = book.realized, !.cash = book.cash] \in Books
  BY <1>1 DEF LedgerTypeOK, Books
<1> QED
  BY <1>1, <1>2 DEF LedgerTypeOK, Looks, Forgets

LEMMA WriteType ==
  ASSUME LedgerTypeOK, NEW new \in Books, Write(new)
  PROVE  book' \in Books /\ disk' \in Books /\ open' \in BOOLEAN
  BY DEF LedgerTypeOK, Write

LEMMA StepType ==
  ASSUME LedgerTypeOK, NEW t, NEW from, NEW to \in Places, Step(t, from, to)
  PROVE  at' \in [Tasks -> Places]
  BY DEF LedgerTypeOK, Step

LEMMA CommitsType ==
  ASSUME LedgerTypeOK, NEW t, Commits(t)
  PROVE  disk' \in Books /\ open' \in BOOLEAN /\ split' \subseteq Tasks /\ loose' \in BOOLEAN
  BY DEF LedgerTypeOK, Commits, HalfBut

LEMMA AnswersType ==
  ASSUME LedgerTypeOK, NEW n \in Int, NEW m \in Int, Answers(n, m)
  PROVE  net' \in Int /\ flow' \in Int
  BY DEF LedgerTypeOK, Answers, told

LEMMA OffType ==
  ASSUME LedgerTypeOK, NEW why, ComesOff(why)
  PROVE  off' \in BOOLEAN /\ net' \in Int /\ flow' \in Int
<1>1. off' \in BOOLEAN
  BY Zenon DEF ComesOff
<1>2. (net' = 0 /\ flow' = 0) \/ (net' = net /\ flow' = flow)
  BY Zenon DEF ComesOff, told
<1> QED
  BY <1>1, <1>2 DEF LedgerTypeOK

\* Types of the books and of what is read from them, whatever is filled, settled and lost.
THEOREM LedgerTypeCorrect == LedgerSpec => []LedgerTypeOK
<1> USE LedgerConstants
<1>1. LedgerInit => LedgerTypeOK
  <2> SUFFICES ASSUME LedgerInit PROVE LedgerTypeOK
    OBVIOUS
  <2>1. book \in Books /\ Nothing \in Books
    BY NewBookType, LedgerAssumption DEF LedgerInit, Nothing
  <2>2. faults \in 0..MaxFaults
    BY LedgerAssumption DEF LedgerInit
  <2>3. net \in Int /\ flow \in Int
    BY <2>1, LedgerAssumption DEF LedgerInit, Books
  <2> QED
    BY <2>1, <2>2, <2>3 DEF LedgerInit, LedgerTypeOK, Places
<1>2. LedgerTypeOK /\ [LedgerNext]_ledgerVars => LedgerTypeOK'
  <2> SUFFICES ASSUME LedgerTypeOK, [LedgerNext]_ledgerVars PROVE LedgerTypeOK'
    OBVIOUS
  <2> USE DEF LedgerTypeOK, told
  <2>0. Fault => faults' \in 0..MaxFaults
    BY LedgerAssumption DEF Fault
  <2>1. CASE UNCHANGED ledgerVars
    BY <2>1 DEF ledgerVars
  <2>2. ASSUME NEW f \in Fills, Place(f) PROVE LedgerTypeOK'
    <3>1. CASE kind = "paper" /\ shared /\ open
      <4>1. ComesOff(\E t \in Tasks : Half(t))
        BY <2>2, <3>1 DEF Place
      <4> QED
        BY <2>2, <3>1, <4>1, OffType DEF Place, Places
    <3>2. CASE ~(kind = "paper" /\ shared /\ open)
      BY <2>2, <3>2 DEF Place, Places
    <3> QED
      BY <3>1, <3>2
  <2>3. ASSUME NEW f \in Fills, ReadPosition(f) PROVE LedgerTypeOK'
    <3>1. "writing" \in Places
      BY DEF Places
    <3> QED
      BY <2>3, <3>1, StepType, LookType DEF ReadPosition
  <2>4. ASSUME NEW f \in Fills, WritePosition(f) PROVE LedgerTypeOK'
    <3> DEFINE q == seen[f].quantity + Amount[f]
               c == FilledCost(seen[f], Amount[f], Price[f])
               r == seen[f].realized + Realized(seen[f], Amount[f], Price[f])
               p == IF book.past = "open" THEN book.past ELSE "reopened"
               new == [book EXCEPT !.quantity = q, !.cost = c, !.realized = r, !.past = p]
    <3>1. q \in Int /\ c \in Int /\ r \in Int /\ p \in {"open", "settled", "reopened"}
      BY FillTypes DEF Books
    <3>2. new \in Books
      <4> HIDE DEF q, c, r, p
      <4> QED
        BY <3>1 DEF Books
    <3>3. Write(new) /\ Step(f, "writing", "asking") /\ "asking" \in Places
      BY <2>4 DEF WritePosition, Places
    <3>4. off' \in BOOLEAN /\ net' \in Int /\ flow' \in Int
      BY <2>4, OffType DEF WritePosition
    <3> HIDE DEF new
    <3> QED
      BY <2>4, <3>2, <3>3, <3>4, WriteType, StepType DEF WritePosition
  <2>5. ASSUME NEW f \in Fills, ReadCash(f) PROVE LedgerTypeOK'
    <3>1. "paying" \in Places /\ "saving" \in Places
      BY DEF Places
    <3> QED
      BY <2>5, <3>1, StepType, LookType DEF ReadCash
  <2>6. ASSUME NEW f \in Fills, WriteCash(f) PROVE LedgerTypeOK'
    <3>1. [book EXCEPT !.cash = seen[f].cash - Amount[f] * Price[f]] \in Books
      BY DEF Books
    <3>2. "saving" \in Places
      BY DEF Places
    <3>3. off' \in BOOLEAN /\ net' \in Int /\ flow' \in Int
      BY <2>6, OffType DEF WriteCash
    <3> QED
      BY <2>6, <3>1, <3>2, <3>3, WriteType, StepType, LookType DEF WriteCash
  <2>7. ASSUME NEW f \in Fills, SaveOrder(f) PROVE LedgerTypeOK'
    <3>1. "committing" \in Places /\ "ended" \in Places
      BY DEF Places
    <3>2. CASE kind = "paper"
      BY <2>7, <3>1, <3>2, WriteType, StepType DEF SaveOrder
    <3>3. CASE kind # "paper"
      <4>1. Answers(Amount[f], -(Amount[f] * Price[f])) /\ -(Amount[f] * Price[f]) \in Int
        BY <2>7, <3>3 DEF SaveOrder
      <4>2. net' \in Int /\ flow' \in Int
        BY <4>1, AnswersType
      <4>3. loose' \in BOOLEAN
        BY <2>7, <3>3, Zenon DEF SaveOrder
      <4> QED
        BY <2>7, <3>1, <3>3, <4>2, <4>3, WriteType, StepType DEF SaveOrder
    <3> QED
      BY <3>2, <3>3
  <2>8. ASSUME NEW f \in Fills, Commit(f) PROVE LedgerTypeOK'
    <3>1. "ended" \in Places /\ -(Amount[f] * Price[f]) \in Int
      BY DEF Places
    <3>2. net' \in Int /\ flow' \in Int
      BY <2>8, <3>1, AnswersType DEF Commit
    <3> QED
      BY <2>8, <3>1, <3>2, StepType, CommitsType DEF Commit
  <2>9. ASSUME NEW f \in Fills, FillFails(f) PROVE LedgerTypeOK'
    <3>1. seen' \in [Tasks -> Books]
      BY <2>9, LookType DEF FillFails
    <3>2. off' \in BOOLEAN /\ net' \in Int /\ flow' \in Int
      BY <2>9, OffType DEF FillFails
    <3>3. split' \subseteq Tasks
      BY <2>9 DEF FillFails
    <3> QED
      BY <2>0, <2>9, <3>1, <3>2, <3>3 DEF FillFails, Places
  <2>10. CASE List
    <3>1. "listed" \in Places
      BY DEF Places
    <3> QED
      BY <2>10, <3>1, StepType, LookType DEF List
  <2>11. CASE AskMarket \/ CheckResolved
    <3>1. "idle" \in Places /\ "checking" \in Places /\ "zeroing" \in Places
      BY DEF Places
    <3>2. at' \in [Tasks -> Places]
      BY <2>11, <3>1, StepType DEF AskMarket, CheckResolved
    <3>3. seen' \in [Tasks -> Books]
      BY <2>11, LookType DEF AskMarket, CheckResolved
    <3> QED
      BY <2>11, <3>2, <3>3 DEF AskMarket, CheckResolved
  <2>13. CASE Zero
    <3> DEFINE held == seen[Tracker]
               r == book.realized + Paid(held) - Signed(held)
               new == [book EXCEPT !.quantity = 0, !.cost = 0, !.realized = r,
                                   !.past = "settled"]
    <3>1. Signed(held) \in Int /\ Paid(held) \in Int
      BY PaidTypes
    <3>2. r \in Int
      <4> HIDE DEF held
      <4> QED
        BY <3>1 DEF Books
    <3>3. new \in Books
      <4> HIDE DEF r
      <4> QED
        BY <3>2, 0 \in Int, book \in Books DEF Books
    <3>4. Write(new) /\ Step(Tracker, "zeroing", "crediting") /\ "crediting" \in Places
      BY <2>13 DEF Zero, new, held, Places
    <3>5. off' \in BOOLEAN /\ net' \in Int /\ flow' \in Int
      BY <2>13, OffType DEF Zero
    <3> QED
      BY <2>13, <3>3, <3>4, <3>5, WriteType, StepType DEF Zero
  <2>14. CASE Credit
    <3>1. "marking" \in Places
      BY DEF Places
    <3> QED
      BY <2>14, <3>1, WriteType, StepType DEF Credit
  <2>15. CASE Mark
    <3>1. "committing" \in Places /\ [book EXCEPT !.resolved = TRUE] \in Books
      BY DEF Places, Books
    <3> QED
      BY <2>15, <3>1, WriteType, StepType DEF Mark
  <2>16. CASE CommitSettled
    <3>1. "idle" \in Places
      BY DEF Places
    <3>2. -seen[Tracker].quantity \in Int /\ Paid(seen[Tracker]) \in Int
      BY PaidTypes DEF Books
    <3>3. net' \in Int /\ flow' \in Int
      BY <2>16, <3>2, AnswersType DEF CommitSettled
    <3> QED
      BY <2>16, <3>1, <3>3, StepType, CommitsType, LookType DEF CommitSettled
  <2>17. CASE PollFails
    <3>1. seen' \in [Tasks -> Books]
      BY <2>17, LookType DEF PollFails
    <3>2. off' \in BOOLEAN /\ net' \in Int /\ flow' \in Int
      BY <2>17, OffType DEF PollFails
    <3> QED
      BY <2>0, <2>17, <3>1, <3>2 DEF PollFails, Places
  <2>18. CASE MarketResolves
    BY <2>18 DEF MarketResolves
  <2>19. CASE OthersWrite
    BY <2>0, <2>19 DEF OthersWrite
  <2>20. CASE OthersCommit
    BY <2>0, <2>20 DEF OthersCommit
  <2>21. CASE OthersRollBack
    <3>1. off' \in BOOLEAN /\ net' \in Int /\ flow' \in Int
      BY <2>21, OffType DEF OthersRollBack
    <3> QED
      BY <2>0, <2>21, <3>1 DEF OthersRollBack
  <2>22. CASE Restart
    <3>1. [disk EXCEPT !.cash = Start] \in Books /\ Nothing \in Books
      BY LedgerAssumption, NewBookType DEF Books, Nothing
    <3>2. off' \in BOOLEAN /\ net' \in Int /\ flow' \in Int
      BY <2>22, OffType DEF Restart
    <3> QED
      BY <2>0, <2>22, <3>1, <3>2 DEF Restart, Places
  <2> QED
    BY <2>1, <2>2, <2>3, <2>4, <2>5, <2>6, <2>7, <2>8, <2>9, <2>10, <2>11, <2>13,
       <2>14, <2>15, <2>16, <2>17, <2>18, <2>19, <2>20, <2>21, <2>22
    DEF LedgerNext, FillStep, PollStep
<1> QED
  BY <1>1, <1>2, PTL DEF LedgerSpec

-------------------------------------------------------------------------------
(* The paper ledger: who is half done.                                     *)

HalfDone == {t \in Tasks : Half(t)}
HalfPlaces == {"asking", "paying", "saving", "committing", "crediting", "marking"}

\* Of a task whose writes were committed by another, on the shared connection, something is
\* still to come; a fill that was answered and may be lost is a venue's, on it too; only
\* venues settle, and only what is resolved.
Tidy ==
  /\ split \subseteq HalfDone /\ (~shared => split = {})
  /\ loose => shared /\ kind = "venue"
  /\ kind = "paper" => at[Tracker] = "idle"
  /\ at[Tracker] \notin {"idle", "listed"} => market # 0

\* One task moves.
LEMMA HalfMoves ==
  ASSUME LedgerTypeOK, NEW t \in Tasks, \A u \in Tasks \ {t} : at'[u] = at[u]
  PROVE  /\ at'[t] \in HalfPlaces => HalfDone' = HalfDone \cup {t}
         /\ at'[t] \notin HalfPlaces => HalfDone' = HalfDone \ {t}
  BY DEF HalfDone, Half, HalfPlaces

LEMMA HalfStays == at' = at => HalfDone' = HalfDone
  BY DEF HalfDone, Half

LEMMA StepMoves ==
  ASSUME LedgerTypeOK, NEW t \in Tasks, NEW from, NEW to, Step(t, from, to)
  PROVE  at[t] = from /\ at'[t] = to /\ \A u \in Tasks \ {t} : at'[u] = at[u]
  BY DEF Step, LedgerTypeOK

\* What the steps of a fill do to its place.
LEMMA FillMoves ==
  ASSUME LedgerTypeOK, NEW f \in Fills, FillStep(f) \/ FillFails(f)
  PROVE  /\ \A u \in Tasks \ {f} : at'[u] = at[u]
         /\ Place(f) => at[f] = "idle" /\ at'[f] \in {"reading", "ended"}
         /\ ReadPosition(f) => at[f] = "reading" /\ at'[f] = "writing"
         /\ WritePosition(f) => at[f] = "writing" /\ at'[f] = "asking"
         /\ ReadCash(f) => /\ at[f] = "asking"
                           /\ at'[f] = IF kind = "paper" THEN "paying" ELSE "saving"
         /\ WriteCash(f) => at[f] = "paying" /\ at'[f] = "saving"
         /\ SaveOrder(f) => /\ at[f] = "saving"
                            /\ at'[f] = IF kind = "paper" THEN "committing" ELSE "ended"
         /\ Commit(f) => at[f] = "committing" /\ at'[f] = "ended"
         /\ FillFails(f) => at[f] \notin {"idle", "ended"} /\ at'[f] = "ended"
<1>1. f \in Tasks
  BY LedgerConstants
<1> QED
  BY <1>1 DEF FillStep, FillFails, Place, ReadPosition, WritePosition, ReadCash, WriteCash,
              SaveOrder, Commit, Step, LedgerTypeOK

\* What the steps of the tracker do to its place.
LEMMA PollMoves ==
  ASSUME LedgerTypeOK, PollStep \/ PollFails
  PROVE  /\ \A u \in Tasks \ {Tracker} : at'[u] = at[u]
         /\ List => kind = "venue" /\ at[Tracker] = "idle" /\ at'[Tracker] = "listed"
         /\ AskMarket => /\ at[Tracker] = "listed"
                         /\ at'[Tracker] = IF market = 0 THEN "idle" ELSE "checking"
         /\ CheckResolved => /\ at[Tracker] = "checking"
                             /\ at'[Tracker] = IF book.resolved THEN "idle" ELSE "zeroing"
         /\ Zero => at[Tracker] = "zeroing" /\ at'[Tracker] = "crediting"
         /\ Credit => at[Tracker] = "crediting" /\ at'[Tracker] = "marking"
         /\ Mark => at[Tracker] = "marking" /\ at'[Tracker] = "committing"
         /\ CommitSettled => at[Tracker] = "committing" /\ at'[Tracker] = "idle"
         /\ PollFails => at[Tracker] # "idle" /\ at'[Tracker] = "idle"
  BY LedgerConstants
  DEF PollStep, PollFails, List, AskMarket, CheckResolved, Zero, Credit, Mark, CommitSettled,
      Step, LedgerTypeOK

LEMMA TidyFill ==
  ASSUME LedgerTypeOK, Tidy, NEW f \in Fills, FillStep(f) \/ FillFails(f)
  PROVE  Tidy'
<1>0. f \in Tasks /\ f # Tracker /\ Tracker \in Tasks
  BY LedgerConstants
<1>1. /\ at'[Tracker] = at[Tracker] /\ kind' = kind /\ shared' = shared /\ market' = market
  BY <1>0, FillMoves
  DEF FillStep, FillFails, Place, ReadPosition, WritePosition, ReadCash, WriteCash, SaveOrder,
      Commit
<1>2. loose' => shared /\ kind = "venue"
  <2>1. CASE SaveOrder(f)
    BY <2>1 DEF SaveOrder, Tidy
  <2>2. CASE ~SaveOrder(f)
    <3>1. loose' => loose
      BY <2>2 DEF FillStep, FillFails, Place, ReadPosition, WritePosition, ReadCash, WriteCash,
                  Commit, Commits
    <3> QED
      BY <3>1 DEF Tidy
  <2> QED
    BY <2>1, <2>2
<1>3. split' \subseteq HalfDone'
  <2>1. CASE Place(f)
    <3>1. f \notin HalfDone /\ at'[f] \notin HalfPlaces /\ (split' = split \/ split' = {})
      BY <1>0, <2>1, FillMoves DEF HalfDone, Half, HalfPlaces, Place
    <3> QED
      BY <1>0, <2>1, <3>1, FillMoves, HalfMoves DEF Tidy
  <2>2. CASE ReadPosition(f)
    <3>1. f \notin HalfDone /\ at'[f] \notin HalfPlaces /\ split' = split
      BY <1>0, <2>2, FillMoves DEF HalfDone, Half, HalfPlaces, ReadPosition
    <3> QED
      BY <1>0, <2>2, <3>1, FillMoves, HalfMoves DEF Tidy
  <2>3. CASE WritePosition(f) \/ ReadCash(f) \/ WriteCash(f)
    <3>1. at'[f] \in HalfPlaces /\ split' = split
      BY <1>0, <2>3, FillMoves DEF HalfPlaces, WritePosition, ReadCash, WriteCash
    <3> QED
      BY <1>0, <2>3, <3>1, FillMoves, HalfMoves DEF Tidy
  <2>4. CASE SaveOrder(f)
    <3>1. split' = {t \in split : at'[t] # "ended"}
      BY <2>4 DEF SaveOrder
    <3>2. at'[f] \notin HalfPlaces => at'[f] = "ended"
      BY <2>4, FillMoves DEF HalfPlaces
    <3> QED
      BY <1>0, <2>4, <3>1, <3>2, FillMoves, HalfMoves DEF Tidy
  <2>5. CASE Commit(f)
    <3>1. HalfDone' = HalfDone \ {f} /\ HalfBut(f) = HalfDone \ {f}
      BY <1>0, <2>5, FillMoves, HalfMoves DEF HalfPlaces, HalfBut, HalfDone
    <3>2. split' = {} \/ split' = (split \ {f}) \cup HalfBut(f)
      BY <2>5 DEF Commit, Commits, Tidy
    <3> QED
      BY <3>1, <3>2 DEF Tidy
  <2>6. CASE FillFails(f)
    <3>1. at'[f] \notin HalfPlaces /\ (split' = {} \/ split' = split \ {f})
      BY <2>6, FillMoves DEF HalfPlaces, FillFails
    <3> QED
      BY <1>0, <2>6, <3>1, FillMoves, HalfMoves DEF Tidy
  <2> QED
    BY <2>1, <2>2, <2>3, <2>4, <2>5, <2>6 DEF FillStep
<1>4. ~shared => split' = {}
  BY DEF FillStep, FillFails, Place, ReadPosition, WritePosition, ReadCash, WriteCash, SaveOrder,
         Commit, Commits, Tidy
<1> QED
  BY <1>1, <1>2, <1>3, <1>4 DEF Tidy

LEMMA TidyPoll ==
  ASSUME LedgerTypeOK, Tidy, PollStep \/ PollFails
  PROVE  Tidy'
<1>0. Tracker \in Tasks
  BY LedgerConstants
<1>1. /\ kind' = kind /\ shared' = shared /\ market' = market /\ kind # "paper"
  BY PollMoves DEF Tidy, PollStep, PollFails, List, AskMarket, CheckResolved, Zero, Credit, Mark,
                   CommitSettled
<1>2. at'[Tracker] \notin {"idle", "listed"} => market # 0
  BY PollMoves DEF Tidy, PollStep
<1>3. loose' => loose
  BY DEF PollStep, PollFails, List, AskMarket, CheckResolved, Zero, Credit, Mark, CommitSettled,
         Commits
<1>4. split' \subseteq HalfDone'
  <2>1. CASE List \/ AskMarket \/ CheckResolved
    <3>1. Tracker \notin HalfDone /\ at'[Tracker] \notin HalfPlaces /\ split' = split
      BY <2>1, PollMoves DEF HalfDone, Half, HalfPlaces, List, AskMarket, CheckResolved, PollStep
    <3> QED
      BY <1>0, <3>1, PollMoves, HalfMoves DEF Tidy
  <2>2. CASE Zero \/ Credit \/ Mark
    <3>1. at'[Tracker] \in HalfPlaces /\ split' = split
      BY <2>2, PollMoves DEF HalfPlaces, Zero, Credit, Mark, PollStep
    <3> QED
      BY <1>0, <3>1, PollMoves, HalfMoves DEF Tidy
  <2>3. CASE CommitSettled
    <3>1. HalfDone' = HalfDone \ {Tracker} /\ HalfBut(Tracker) = HalfDone \ {Tracker}
      BY <1>0, <2>3, PollMoves, HalfMoves DEF HalfPlaces, PollStep, HalfBut, HalfDone
    <3>2. split' = {} \/ split' = (split \ {Tracker}) \cup HalfBut(Tracker)
      BY <2>3 DEF CommitSettled, Commits, Tidy
    <3> QED
      BY <3>1, <3>2 DEF Tidy
  <2>4. CASE PollFails
    <3>1. at'[Tracker] \notin HalfPlaces /\ split' = split \ {Tracker}
      BY <2>4, PollMoves DEF HalfPlaces, PollFails
    <3> QED
      BY <1>0, <3>1, PollMoves, HalfMoves DEF Tidy
  <2> QED
    BY <2>1, <2>2, <2>3, <2>4 DEF PollStep
<1>5. ~shared => split' = {}
  BY DEF PollStep, PollFails, List, AskMarket, CheckResolved, Zero, Credit, Mark, CommitSettled,
         Commits, Tidy
<1> QED
  BY <1>1, <1>2, <1>3, <1>4, <1>5 DEF Tidy

\* The others' steps leave the halves as they are; after a restart there are none.
LEMMA OthersTidy ==
  ASSUME LedgerTypeOK, Tidy,
         MarketResolves \/ OthersWrite \/ OthersCommit \/ OthersRollBack \/ Restart
  PROVE  Tidy'
<1>1. CASE MarketResolves
  BY <1>1, HalfStays, LedgerAssumption DEF MarketResolves, Tidy, Void
<1>2. CASE OthersWrite
  BY <1>2, HalfStays DEF OthersWrite, Tidy
<1>3. CASE OthersCommit
  BY <1>3, HalfStays DEF OthersCommit, Tidy, HalfDone
<1>4. CASE OthersRollBack
  BY <1>4, HalfStays DEF OthersRollBack, Tidy
<1>5. CASE Restart
  <2>1. at'[Tracker] = "idle"
    BY <1>5, LedgerConstants DEF Restart
  <2> QED
    BY <1>5, <2>1 DEF Restart, Tidy
<1> QED
  BY <1>1, <1>2, <1>3, <1>4, <1>5

LEMMA TidyStep == LedgerTypeOK /\ Tidy /\ [LedgerNext]_ledgerVars => Tidy'
<1> SUFFICES ASSUME LedgerTypeOK, Tidy, [LedgerNext]_ledgerVars PROVE Tidy'
  OBVIOUS
<1>1. CASE UNCHANGED ledgerVars
  BY <1>1, HalfStays DEF ledgerVars, Tidy
<1> QED
  BY <1>1, TidyFill, TidyPoll, OthersTidy DEF LedgerNext
-------------------------------------------------------------------------------
(* The paper ledger: what the statements write.                            *)

LEMMA FillWritten ==
  ASSUME LedgerTypeOK, NEW f \in Fills, WritePosition(f)
  PROVE  /\ book'.quantity = seen[f].quantity + Amount[f]
         /\ book'.cost = FilledCost(seen[f], Amount[f], Price[f])
         /\ book'.realized = seen[f].realized + Realized(seen[f], Amount[f], Price[f])
         /\ book'.cash = book.cash
         /\ IF shared THEN disk' = disk ELSE disk' = book'
<1>1. book \in Books
  BY DEF LedgerTypeOK
<1> QED
  BY <1>1 DEF WritePosition, Write, Books

LEMMA CashWritten ==
  ASSUME LedgerTypeOK, NEW f \in Fills, WriteCash(f)
  PROVE  /\ book'.cash = seen[f].cash - Amount[f] * Price[f]
         /\ book'.quantity = book.quantity /\ book'.cost = book.cost
         /\ book'.realized = book.realized
         /\ IF shared THEN disk' = disk ELSE disk' = book'
<1>1. book \in Books
  BY DEF LedgerTypeOK
<1> QED
  BY <1>1 DEF WriteCash, Write, Books

LEMMA SettlementWritten ==
  ASSUME LedgerTypeOK, Zero
  PROVE  /\ book'.quantity = 0 /\ book'.cost = 0
         /\ book'.realized = book.realized + Paid(seen[Tracker]) - Signed(seen[Tracker])
         /\ IF shared THEN disk' = disk ELSE disk' = book'
<1>1. book \in Books
  BY DEF LedgerTypeOK
<1> QED
  BY <1>1 DEF Zero, Write, Books

LEMMA MarkWritten ==
  ASSUME LedgerTypeOK, Mark
  PROVE  /\ book'.quantity = book.quantity /\ book'.cost = book.cost
         /\ book'.realized = book.realized
         /\ IF shared THEN disk' = disk ELSE disk' = book'
<1>1. book \in Books
  BY DEF LedgerTypeOK
<1> QED
  BY <1>1 DEF Mark, Write, Books

LEMMA LooksAt ==
  ASSUME LedgerTypeOK, NEW t \in Tasks, Looks(t)
  PROVE  /\ \A u \in Tasks \ {t} : seen'[u] = seen[u]
         /\ seen'[t].quantity = book.quantity /\ seen'[t].cost = book.cost
         /\ seen'[t].realized = book.realized /\ seen'[t].cash = book.cash
<1>1. Nothing \in Books
  BY NewBookType DEF Nothing
<1> QED
  BY <1>1 DEF LedgerTypeOK, Looks, Books

\* No contract of the books, or of what was read from them, is without a cost; where every
\* statement is committed by itself, there is one copy of the books.
CopyInv ==
  /\ NoneIsFree(book) /\ NoneIsFree(disk) /\ \A t \in Tasks : NoneIsFree(seen[t])
  /\ ~shared => disk = book

LEMMA NothingIsFree == NoneIsFree(Nothing)
  BY LedgerAssumption DEF NoneIsFree, Nothing, NewBook, Abs

LEMMA CopyInit == LedgerInit => CopyInv
<1> SUFFICES ASSUME LedgerInit PROVE CopyInv
  OBVIOUS
<1>1. \A n \in {0, Held} : NoneIsFree(NewBook(n))
  BY LedgerAssumption DEF NoneIsFree, NewBook, Abs
<1> QED
  BY <1>1, NothingIsFree DEF LedgerInit, CopyInv

\* A statement keeps the copies together.
LEMMA WriteKeeps ==
  ASSUME CopyInv, NoneIsFree(book'), IF shared THEN disk' = disk ELSE disk' = book',
         shared' = shared, \A t \in Tasks : NoneIsFree(seen'[t])
  PROVE  CopyInv'
  BY DEF CopyInv

\* What is read has the cost the books have.
LEMMA LookKeeps ==
  ASSUME LedgerTypeOK, CopyInv, NEW t \in Tasks, Looks(t) \/ Forgets(t)
  PROVE  \A u \in Tasks : NoneIsFree(seen'[u])
<1>1. CASE Looks(t)
  BY <1>1, LooksAt DEF CopyInv, NoneIsFree
<1>2. CASE Forgets(t)
  BY <1>2, NothingIsFree DEF Forgets, LedgerTypeOK, CopyInv
<1> QED
  BY <1>1, <1>2

\* The books are those committed, or the committed ones those of the connection.
LEMMA CopyKeeps ==
  ASSUME CopyInv, shared' = shared, \A t \in Tasks : NoneIsFree(seen'[t]),
         \/ book' = book /\ disk' = disk
         \/ shared /\ book' = disk /\ disk' = disk
         \/ shared /\ book' = book /\ disk' = book
  PROVE  CopyInv'
  BY DEF CopyInv

LEMMA CopyFill ==
  ASSUME LedgerTypeOK, CopyInv, NEW f \in Fills, FillStep(f) \/ FillFails(f)
  PROVE  CopyInv'
<1>0. f \in Tasks /\ \A t \in Tasks : NoneIsFree(seen[t])
  BY LedgerConstants DEF CopyInv
<1>1. CASE Place(f)
  BY <1>0, <1>1, CopyKeeps DEF Place
<1>2. CASE ReadPosition(f) \/ ReadCash(f)
  BY <1>0, <1>2, LookKeeps, CopyKeeps DEF ReadPosition, ReadCash
<1>3. CASE WritePosition(f)
  <2> DEFINE b == seen[f]
             c == FilledCost(b, Amount[f], Price[f])
  <2>1. /\ b.quantity \in Int /\ b.cost \in Int /\ NoneIsFree(b)
        /\ Amount[f] \in Int \ {0} /\ Price[f] \in Nat
    BY <1>0, LedgerConstants DEF LedgerTypeOK, Books
  <2>2. b.quantity + Amount[f] = 0 => c = 0
    BY <2>1, FillAddsUp
  <2>3. NoneIsFree(book')
    BY <1>3, <2>2, FillWritten DEF NoneIsFree
  <2> QED
    BY <1>0, <1>3, <2>3, WriteKeeps, FillWritten DEF WritePosition
<1>4. CASE WriteCash(f)
  <2>1. NoneIsFree(book')
    BY <1>4, CashWritten DEF CopyInv, NoneIsFree
  <2> QED
    BY <1>0, <1>4, <2>1, WriteKeeps, LookKeeps, CashWritten DEF WriteCash
<1>5. CASE SaveOrder(f)
  BY <1>0, <1>5 DEF SaveOrder, Write, CopyInv
<1>6. CASE Commit(f)
  BY <1>0, <1>6, CopyKeeps DEF Commit, Commits
<1>7. CASE FillFails(f)
  BY <1>0, <1>7, LookKeeps, CopyKeeps DEF FillFails
<1> QED
  BY <1>1, <1>2, <1>3, <1>4, <1>5, <1>6, <1>7 DEF FillStep

LEMMA CopyPoll ==
  ASSUME LedgerTypeOK, CopyInv, PollStep \/ PollFails
  PROVE  CopyInv'
<1>0. Tracker \in Tasks /\ \A t \in Tasks : NoneIsFree(seen[t])
  BY LedgerConstants DEF CopyInv
<1>1. CASE List
  BY <1>0, <1>1, LookKeeps, CopyKeeps DEF List
<1>2. CASE AskMarket \/ CheckResolved
  <2>1. \A t \in Tasks : NoneIsFree(seen'[t])
    BY <1>0, <1>2, LookKeeps DEF AskMarket, CheckResolved
  <2> QED
    BY <1>2, <2>1, CopyKeeps DEF AskMarket, CheckResolved
<1>3. CASE Zero
  <2>1. NoneIsFree(book')
    BY <1>3, SettlementWritten DEF NoneIsFree
  <2> QED
    BY <1>0, <1>3, <2>1, WriteKeeps, SettlementWritten DEF Zero
<1>4. CASE Credit
  BY <1>0, <1>4 DEF Credit, Write, CopyInv
<1>5. CASE Mark
  <2>1. NoneIsFree(book')
    BY <1>5, MarkWritten DEF CopyInv, NoneIsFree
  <2> QED
    BY <1>0, <1>5, <2>1, WriteKeeps, MarkWritten DEF Mark
<1>6. CASE CommitSettled
  BY <1>0, <1>6, LookKeeps, CopyKeeps DEF CommitSettled, Commits
<1>7. CASE PollFails
  BY <1>0, <1>7, LookKeeps, CopyKeeps DEF PollFails
<1> QED
  BY <1>1, <1>2, <1>3, <1>4, <1>5, <1>6, <1>7 DEF PollStep

LEMMA CopyStep == LedgerTypeOK /\ CopyInv /\ [LedgerNext]_ledgerVars => CopyInv'
<1> SUFFICES ASSUME LedgerTypeOK, CopyInv, [LedgerNext]_ledgerVars PROVE CopyInv'
  OBVIOUS
<1>0. \A t \in Tasks : NoneIsFree(seen[t])
  BY DEF CopyInv
<1>1. CASE UNCHANGED ledgerVars
  BY <1>0, <1>1, CopyKeeps DEF ledgerVars
<1>2. CASE MarketResolves \/ OthersWrite \/ OthersCommit \/ OthersRollBack
  BY <1>0, <1>2, CopyKeeps DEF MarketResolves, OthersWrite, OthersCommit, OthersRollBack
<1>3. CASE Restart
  <2>1. [disk EXCEPT !.cash = Start].quantity = disk.quantity
        /\ [disk EXCEPT !.cash = Start].cost = disk.cost
    BY DEF LedgerTypeOK, Books
  <2>2. NoneIsFree(book') /\ disk' = book'
    BY <1>3, <2>1 DEF Restart, NoneIsFree, CopyInv
  <2> QED
    BY <1>3, <2>2, NothingIsFree DEF Restart, CopyInv
<1> QED
  BY <1>1, <1>2, <1>3, CopyFill, CopyPoll DEF LedgerNext
-------------------------------------------------------------------------------
(* The paper ledger: the position.                                         *)

\* Contracts and cost of sets of fills.
Lots == CHOOSE S : IsSum(S, Fills, Amount)
Debt == CHOOSE S : IsSum(S, Fills, [f \in Fills |-> Amount[f] * Price[f]])

LEMMA LotsFacts ==
  /\ Lots \in [SUBSET Fills -> Int] /\ Lots[{}] = 0
  /\ \A A \in SUBSET Fills : \A f \in Fills : f \notin A => Lots[A \cup {f}] = Lots[A] + Amount[f]
<1>1. Amount \in [Fills -> Int] /\ IsFiniteSet(Fills)
  BY LedgerAssumption
<1>2. \E S : IsSum(S, Fills, Amount)
  BY <1>1, SumExists
<1>3. IsSum(Lots, Fills, Amount)
  BY <1>2, Zenon DEF Lots
<1> QED
  BY <1>3 DEF IsSum

LEMMA DebtFacts ==
  /\ Debt \in [SUBSET Fills -> Int] /\ Debt[{}] = 0
  /\ \A A \in SUBSET Fills : \A f \in Fills : f \notin A =>
       Debt[A \cup {f}] = Debt[A] + Amount[f] * Price[f]
<1> DEFINE v == [f \in Fills |-> Amount[f] * Price[f]]
<1>1. v \in [Fills -> Int] /\ IsFiniteSet(Fills)
  BY LedgerConstants, LedgerAssumption
<1>2. \E S : IsSum(S, Fills, v)
  BY <1>1, SumExists
<1>3. IsSum(Debt, Fills, v)
  BY <1>2, Zenon DEF Debt
<1> QED
  BY <1>3 DEF IsSum

\* The position of b holds n contracts, and has realized and cost m cents, but for the tasks
\* T: their fills are in it, and if the tracker is one of them q contracts are paid with p.
AddsUp(b, T, n, m, q, p) ==
  /\ b.quantity = n + Lots[T \cap Fills] - (IF Tracker \in T THEN q ELSE 0)
  /\ b.realized - Signed(b) = m - Debt[T \cap Fills] + (IF Tracker \in T THEN p ELSE 0)

\* What the tracker has listed, and what it pays for that.
Taken == seen[Tracker].quantity
Given == Paid(seen[Tracker])

\* The books of the connection hold the answers and all that is half done; those committed
\* hold, unless a fill was answered and may be lost, the answers and what was split.
BookAdds == ~off => AddsUp(book, HalfDone, net, flow, Taken, Given)
DiskAdds == ~off /\ shared /\ ~loose => AddsUp(disk, split, net, flow, Taken, Given)

LEMMA MoneyTypes ==
  ASSUME LedgerTypeOK, NEW b \in Books
  PROVE  /\ b.quantity \in Int /\ b.cost \in Int /\ b.realized \in Int /\ b.cash \in Int
         /\ Signed(b) \in Int /\ Paid(b) \in Int
  BY PaidTypes DEF Books

\* A fill more is half done.
LEMMA AddsFill ==
  ASSUME NEW b, NEW c, NEW T \in SUBSET Tasks, NEW f \in Fills \ T,
         NEW n \in Int, NEW m \in Int, NEW q \in Int, NEW p \in Int, AddsUp(b, T, n, m, q, p),
         c.quantity = b.quantity + Amount[f],
         c.realized - Signed(c) = b.realized - Signed(b) - Amount[f] * Price[f]
  PROVE  AddsUp(c, T \cup {f}, n, m, q, p)
<1>1. (T \cup {f}) \cap Fills = (T \cap Fills) \cup {f} /\ T \cap Fills \in SUBSET Fills
      /\ f \notin T \cap Fills /\ (Tracker \in T \cup {f} <=> Tracker \in T)
  BY LedgerConstants
<1>2. /\ Lots[(T \cap Fills) \cup {f}] = Lots[T \cap Fills] + Amount[f]
      /\ Debt[(T \cap Fills) \cup {f}] = Debt[T \cap Fills] + Amount[f] * Price[f]
      /\ Lots[T \cap Fills] \in Int /\ Debt[T \cap Fills] \in Int
  BY <1>1, LotsFacts, DebtFacts
<1>3. Amount[f] \in Int /\ Amount[f] * Price[f] \in Int
  BY LedgerConstants
<1> DEFINE x == Amount[f] * Price[f]
           s == c.realized - Signed(c)
           r == b.realized - Signed(b)
           g == IF Tracker \in T THEN p ELSE 0
<1>4. s = r - x /\ r = m - Debt[T \cap Fills] + g /\ g \in Int /\ x \in Int
  BY <1>3 DEF AddsUp
<1>5. s = m - Debt[(T \cap Fills) \cup {f}] + g
  <2>1. Debt[(T \cap Fills) \cup {f}] = Debt[T \cap Fills] + x
    BY <1>2
  <2> HIDE DEF x, s, r, g
  <2> QED
    BY <1>2, <1>4, <2>1
<1>6. c.quantity = n + Lots[(T \cap Fills) \cup {f}] - (IF Tracker \in T THEN q ELSE 0)
  BY <1>2, <1>3 DEF AddsUp
<1> QED
  BY <1>1, <1>5, <1>6 DEF AddsUp

\* A fill that was half done is answered.
LEMMA AddsAnswer ==
  ASSUME NEW b, NEW T \in SUBSET Tasks, NEW f \in Fills, f \in T,
         NEW n \in Int, NEW m \in Int, NEW q \in Int, NEW p \in Int, AddsUp(b, T, n, m, q, p)
  PROVE  AddsUp(b, T \ {f}, n + Amount[f], m - Amount[f] * Price[f], q, p)
<1> DEFINE R == (T \ {f}) \cap Fills
<1>1. T \cap Fills = R \cup {f} /\ R \in SUBSET Fills /\ f \notin R
      /\ (Tracker \in T \ {f} <=> Tracker \in T)
  BY LedgerConstants
<1>2. /\ Lots[T \cap Fills] = Lots[R] + Amount[f]
      /\ Debt[T \cap Fills] = Debt[R] + Amount[f] * Price[f]
      /\ Lots[R] \in Int /\ Debt[R] \in Int
  BY <1>1, LotsFacts, DebtFacts
<1>3. Amount[f] \in Int /\ Amount[f] * Price[f] \in Int
  BY LedgerConstants
<1> DEFINE x == Amount[f] * Price[f]
           s == b.realized - Signed(b)
           g == IF Tracker \in T THEN p ELSE 0
<1>4. s = m - Debt[T \cap Fills] + g /\ g \in Int /\ x \in Int
  BY <1>3 DEF AddsUp
<1>5. s = (m - x) - Debt[R] + g
  <2>1. Debt[T \cap Fills] = Debt[R] + x
    BY <1>2
  <2> HIDE DEF x, s, g, R
  <2> QED
    BY <1>2, <1>4, <2>1
<1>6. b.quantity = (n + Amount[f]) + Lots[R] - (IF Tracker \in T THEN q ELSE 0)
  BY <1>2, <1>3 DEF AddsUp
<1> QED
  BY <1>1, <1>5, <1>6 DEF AddsUp

\* The tracker closes what it has listed and pays for it.
LEMMA AddsZero ==
  ASSUME NEW b, NEW c, NEW T \in SUBSET Tasks, Tracker \notin T,
         NEW n \in Int, NEW m \in Int, NEW q \in Int, NEW p \in Int, AddsUp(b, T, n, m, q, p),
         c.quantity = b.quantity - q,
         c.realized - Signed(c) = b.realized - Signed(b) + p
  PROVE  AddsUp(c, T \cup {Tracker}, n, m, q, p)
<1>1. (T \cup {Tracker}) \cap Fills = T \cap Fills
  BY LedgerConstants
<1>2. Lots[T \cap Fills] \in Int /\ Debt[T \cap Fills] \in Int
  BY LotsFacts, DebtFacts
<1> DEFINE s == c.realized - Signed(c)
           r == b.realized - Signed(b)
<1>3. s = r + p /\ r = m - Debt[T \cap Fills] + 0
  BY DEF AddsUp
<1>4. s = m - Debt[T \cap Fills] + p
  <2> HIDE DEF s, r
  <2> QED
    BY <1>2, <1>3
<1>5. c.quantity = n + Lots[T \cap Fills] - q
  BY <1>2 DEF AddsUp
<1> QED
  BY <1>1, <1>4, <1>5 DEF AddsUp

\* The settlement is answered for.
LEMMA AddsSettled ==
  ASSUME NEW b, NEW T \in SUBSET Tasks, Tracker \in T, NEW q, NEW p,
         NEW n \in Int, NEW m \in Int, NEW k \in Int, NEW o \in Int, AddsUp(b, T, n, m, k, o)
  PROVE  AddsUp(b, T \ {Tracker}, n - k, m + o, q, p)
<1>1. (T \ {Tracker}) \cap Fills = T \cap Fills
  BY LedgerConstants
<1>2. Lots[T \cap Fills] \in Int /\ Debt[T \cap Fills] \in Int
  BY LotsFacts, DebtFacts
<1> DEFINE s == b.realized - Signed(b)
<1>3. s = m - Debt[T \cap Fills] + o
  BY DEF AddsUp
<1>4. s = (m + o) - Debt[T \cap Fills] + 0
  <2> HIDE DEF s
  <2> QED
    BY <1>2, <1>3
<1>5. b.quantity = (n - k) + Lots[T \cap Fills] - 0
  BY <1>2 DEF AddsUp
<1> QED
  BY <1>1, <1>4, <1>5 DEF AddsUp

\* Nothing that counts has changed.
LEMMA AddsStay ==
  ASSUME NEW b, NEW c, NEW T, NEW n, NEW m, NEW q, NEW p, NEW k, NEW o,
         AddsUp(b, T, n, m, q, p), Tracker \in T => k = q /\ o = p,
         c.quantity = b.quantity, c.cost = b.cost, c.realized = b.realized
  PROVE  AddsUp(c, T, n, m, k, o)
<1>1. Signed(c) = Signed(b)
  BY DEF Signed
<1> QED
  BY <1>1 DEF AddsUp

\* Of nobody's half the sum is the answers alone.
LEMMA AddsNone ==
  ASSUME NEW b, NEW n \in Int, NEW m \in Int, NEW q, NEW p
  PROVE  AddsUp(b, {}, n, m, q, p) <=> b.quantity = n /\ b.realized - Signed(b) = m
<1>1. {} \cap Fills = {} /\ n + 0 - 0 = n /\ m - 0 + 0 = m
  OBVIOUS
<1> QED
  BY <1>1, LotsFacts, DebtFacts DEF AddsUp
SumsInv == BookAdds /\ DiskAdds

\* Steps by which neither the position nor what is answered for changes.
LEMMA SumsStay ==
  ASSUME Tidy, SumsInv,
         ~off' => /\ ~off /\ net' = net /\ flow' = flow
                  /\ HalfDone' = HalfDone
                  /\ Tracker \in HalfDone => Taken' = Taken /\ Given' = Given
                  /\ book'.quantity = book.quantity /\ book'.cost = book.cost
                  /\ book'.realized = book.realized
                  /\ shared' = shared /\ (loose => loose')
                  /\ shared /\ ~loose' => disk' = disk /\ split' = split
  PROVE  SumsInv'
<1>1. BookAdds'
  BY AddsStay DEF SumsInv, BookAdds
<1>2. DiskAdds'
  <2> SUFFICES ASSUME ~off', shared', ~loose'
               PROVE  AddsUp(disk', split', net', flow', Taken', Given')
    BY DEF DiskAdds
  <2>1. AddsUp(disk, split, net, flow, Taken, Given)
    BY DEF SumsInv, DiskAdds
  <2>2. Tracker \in split => Taken' = Taken /\ Given' = Given
    BY DEF Tidy
  <2>3. disk' = disk /\ split' = split /\ net' = net /\ flow' = flow
    OBVIOUS
  <2>4. AddsUp(disk, split, net, flow, Taken', Given')
    BY <2>1, <2>2, AddsStay
  <2> QED
    BY <2>3, <2>4
<1> QED
  BY <1>1, <1>2 DEF SumsInv

\* A commit of all that is written.
LEMMA SumsJoin ==
  ASSUME BookAdds', disk' = book', split' = HalfDone'
  PROVE  SumsInv'
  BY DEF SumsInv, BookAdds, DiskAdds

\* Where every statement is committed by itself, only the books of the connection count.
LEMMA SumsAlone ==
  ASSUME BookAdds', ~shared'
  PROVE  SumsInv'
  BY DEF SumsInv, DiskAdds

\* A rollback takes back no answer, when nothing is half done and none is loose.
LEMMA SumsBack ==
  ASSUME SumsInv, shared, split' = {},
         book'.quantity = disk.quantity, book'.cost = disk.cost,
         book'.realized = disk.realized, disk'.quantity = disk.quantity,
         disk'.cost = disk.cost, disk'.realized = disk.realized,
         ~off' => /\ ~off /\ ~loose /\ split = {} /\ HalfDone' = {}
                  /\ net' = net /\ flow' = flow
  PROVE  SumsInv'
<1>1. ASSUME ~off' PROVE AddsUp(disk, {}, net', flow', Taken', Given')
  <2>1. AddsUp(disk, {}, net, flow, Taken, Given)
    BY <1>1 DEF SumsInv, DiskAdds
  <2>2. AddsUp(disk, {}, net, flow, Taken', Given')
    BY <2>1, AddsStay
  <2> QED
    BY <1>1, <2>2
<1>2. ASSUME ~off' PROVE AddsUp(book', {}, net', flow', Taken', Given')
  BY <1>1, <1>2, AddsStay
<1>3. ASSUME ~off' PROVE AddsUp(disk', {}, net', flow', Taken', Given')
  BY <1>1, <1>3, AddsStay
<1>4. BookAdds'
  BY <1>2 DEF BookAdds
<1>5. DiskAdds'
  BY <1>3 DEF DiskAdds
<1> QED
  BY <1>4, <1>5 DEF SumsInv

LEMMA TakenTypes ==
  ASSUME LedgerTypeOK
  PROVE  /\ Taken \in Int /\ Given \in Int /\ net \in Int /\ flow \in Int
         /\ HalfDone \in SUBSET Tasks /\ split \in SUBSET Tasks
<1>1. seen[Tracker] \in Books
  BY LedgerConstants DEF LedgerTypeOK
<1> QED
  BY <1>1, MoneyTypes DEF LedgerTypeOK, Taken, Given, HalfDone

\* What the tracker has read and the market stay through the steps of fills.
LEMMA TakenStays ==
  ASSUME seen'[Tracker] = seen[Tracker], market' = market
  PROVE  Taken' = Taken /\ Given' = Given
  BY DEF Taken, Given, Paid

\* What is not off yet was not off before, and its answers were kept.
LEMMA StaysOn ==
  ASSUME NEW why, ComesOff(why), ~off'
  PROVE  ~off /\ ~why /\ net' = net /\ flow' = flow
  BY Zenon DEF ComesOff, told

\* Steps that neither commit nor roll back, and write nothing of the position.
LEMMA SumsFillQuiet ==
  ASSUME LedgerTypeOK, Tidy, SumsInv, NEW f \in Fills,
         ReadPosition(f) \/ ReadCash(f) \/ WriteCash(f)
  PROVE  SumsInv'
<1>0. f \in Tasks /\ f # Tracker
  BY LedgerConstants
<1>1. HalfDone' = HalfDone
  <2>1. CASE ReadPosition(f)
    <3>1. f \notin HalfDone /\ at'[f] \notin HalfPlaces
      BY <2>1, FillMoves DEF HalfDone, Half, HalfPlaces, FillStep
    <3> QED
      BY <1>0, <3>1, FillMoves, HalfMoves DEF FillStep
  <2>2. CASE ReadCash(f) \/ WriteCash(f)
    <3>1. f \in HalfDone /\ at'[f] \in HalfPlaces
      BY <1>0, <2>2, FillMoves DEF HalfDone, Half, HalfPlaces, FillStep
    <3> QED
      BY <1>0, <3>1, FillMoves, HalfMoves DEF FillStep
  <2> QED
    BY <2>1, <2>2
<1>2. Taken' = Taken /\ Given' = Given
  <2>1. seen'[Tracker] = seen[Tracker] /\ market' = market
    BY <1>0, LedgerConstants
    DEF ReadPosition, ReadCash, WriteCash, Looks, Forgets, LedgerTypeOK
  <2> QED
    BY <2>1, TakenStays
<1>3. ~off' => ~off /\ net' = net /\ flow' = flow
  BY StaysOn DEF ReadPosition, ReadCash, WriteCash, told
<1>4. /\ book'.quantity = book.quantity /\ book'.cost = book.cost
      /\ book'.realized = book.realized /\ (shared => disk' = disk)
  BY CashWritten DEF ReadPosition, ReadCash
<1>5. shared' = shared /\ loose' = loose /\ split' = split
  BY DEF ReadPosition, ReadCash, WriteCash
<1> QED
  BY <1>1, <1>2, <1>3, <1>4, <1>5, SumsStay

\* A position, written from what was read, has the sum of the old one and of the fill.
LEMMA SumsFill ==
  ASSUME LedgerTypeOK, CopyInv, Tidy, SumsInv, NEW f \in Fills, WritePosition(f)
  PROVE  SumsInv'
<1> DEFINE b == seen[f]
           c == FilledCost(b, Amount[f], Price[f])
           r == Realized(b, Amount[f], Price[f])
           z == Amount[f] * Price[f]
<1>0. f \in Tasks /\ f # Tracker
  BY LedgerConstants
<1>1. /\ b \in Books /\ b.quantity \in Int /\ b.cost \in Int /\ b.realized \in Int
      /\ NoneIsFree(b) /\ Signed(b) \in Int
      /\ Amount[f] \in Int \ {0} /\ Price[f] \in Nat /\ z \in Int
      /\ book.quantity \in Int /\ book.realized \in Int
  BY <1>0, LedgerConstants, MoneyTypes DEF LedgerTypeOK, CopyInv
<1>2. c \in Int /\ r \in Int
  BY <1>1, FillTypes
<1>3. /\ b.quantity + Amount[f] = 0 => c = 0
      /\ r - (IF b.quantity + Amount[f] < 0 THEN -c ELSE c) = -Signed(b) - Amount[f] * Price[f]
  BY <1>1, FillAddsUp
<1>4. HalfDone' = HalfDone \cup {f} /\ f \notin HalfDone
  <2>1. f \notin HalfDone /\ at'[f] \in HalfPlaces
    BY FillMoves DEF HalfDone, Half, HalfPlaces, FillStep
  <2> QED
    BY <1>0, <2>1, FillMoves, HalfMoves DEF FillStep
<1>5. Taken' = Taken /\ Given' = Given
  BY TakenStays DEF WritePosition
<1>6. ASSUME ~off' PROVE /\ ~off /\ net' = net /\ flow' = flow
                         /\ b.quantity = book.quantity /\ b.cost = book.cost
                         /\ b.realized = book.realized
  BY <1>6, StaysOn DEF WritePosition
<1>7. ASSUME ~off' PROVE AddsUp(book', HalfDone', net', flow', Taken', Given')
  <2>1. book'.quantity = book.quantity + Amount[f]
    BY <1>6, <1>7, FillWritten
  <2>2. book'.realized - Signed(book') = book.realized - Signed(book) - z
    <3>1. book'.quantity = b.quantity + Amount[f] /\ book'.cost = c /\ book'.realized = b.realized + r
      BY FillWritten
    <3>2. Signed(book') = IF b.quantity + Amount[f] < 0 THEN -c ELSE c
      BY <3>1 DEF Signed
    <3>3. Signed(book') \in Int /\ Signed(book) = Signed(b)
      BY <1>2, <1>6, <1>7, <3>2 DEF Signed
    <3> DEFINE x == Signed(book')
               y == Signed(b)
    <3>4. r - x = -y - z /\ book'.realized = book.realized + r /\ x \in Int /\ y \in Int
      BY <1>1, <1>3, <1>6, <1>7, <3>1, <3>2, <3>3
    <3> HIDE DEF r, x, y, z
    <3>5. book'.realized - x = book.realized - y - z
      BY <1>1, <1>2, <3>4
    <3> QED
      BY <3>3, <3>5 DEF x, y
  <2>3. AddsUp(book, HalfDone, net, flow, Taken, Given)
    BY <1>6, <1>7 DEF SumsInv, BookAdds
  <2>4. AddsUp(book', HalfDone \cup {f}, net, flow, Taken, Given)
    BY <1>4, <2>1, <2>2, <2>3, TakenTypes, AddsFill
  <2> QED
    BY <1>4, <1>5, <1>6, <1>7, <2>4
<1>8. BookAdds'
  BY <1>7 DEF BookAdds
<1>9. DiskAdds'
  <2> SUFFICES ASSUME ~off', shared', ~loose'
               PROVE  AddsUp(disk', split', net', flow', Taken', Given')
    BY DEF DiskAdds
  <2>1. disk' = disk /\ split' = split /\ shared /\ ~loose
    BY FillWritten DEF WritePosition
  <2> QED
    BY <1>5, <1>6, <2>1 DEF SumsInv, DiskAdds
<1> QED
  BY <1>8, <1>9 DEF SumsInv

\* A fill begins, or rolls back what is in the transaction.
LEMMA SumsPlace ==
  ASSUME LedgerTypeOK, Tidy, SumsInv, NEW f \in Fills, Place(f)
  PROVE  SumsInv'
<1>0. HalfDone' = HalfDone
  <2>1. f \in Tasks /\ f \notin HalfDone /\ at'[f] \notin HalfPlaces
    BY LedgerConstants, FillMoves DEF HalfDone, Half, HalfPlaces, FillStep
  <2> QED
    BY <2>1, FillMoves, HalfMoves DEF FillStep
<1>1. CASE kind = "paper" /\ shared /\ open
  <2>1. book' = disk /\ disk' = disk /\ split' = {} /\ ComesOff(\E t \in Tasks : Half(t))
    BY <1>1 DEF Place
  <2>2. ~off' => ~off /\ HalfDone = {} /\ net' = net /\ flow' = flow
    BY <2>1, StaysOn DEF HalfDone
  <2>3. HalfDone = {} => split = {}
    BY DEF Tidy
  <2>4. ~loose
    BY <1>1 DEF Tidy
  <2> QED
    BY <1>0, <1>1, <2>1, <2>2, <2>3, <2>4, SumsBack
<1>2. CASE ~(kind = "paper" /\ shared /\ open)
  <2>1. Taken' = Taken /\ Given' = Given
    BY <1>2, TakenStays DEF Place
  <2>2. /\ book' = book /\ disk' = disk /\ off' = off /\ net' = net /\ flow' = flow
        /\ shared' = shared /\ loose' = loose /\ split' = split
    BY <1>2 DEF Place, told
  <2> QED
    BY <1>0, <2>1, <2>2, SumsStay
<1> QED
  BY <1>1, <1>2

\* The venue's fill is answered; it may be lost, unless another task has committed it.
LEMMA SumsSave ==
  ASSUME LedgerTypeOK, Tidy, SumsInv, NEW f \in Fills, SaveOrder(f)
  PROVE  SumsInv'
<1> DEFINE x == Amount[f] * Price[f]
<1>0. /\ f \in Tasks /\ f # Tracker /\ Amount[f] \in Int /\ x \in Int
      /\ f \in HalfDone /\ \A u \in Tasks \ {f} : at'[u] = at[u]
  BY LedgerConstants, FillMoves DEF HalfDone, Half, FillStep
<1>1. Taken' = Taken /\ Given' = Given
  BY TakenStays DEF SaveOrder
<1>2. /\ book' = book /\ off' = off /\ shared' = shared /\ (shared => disk' = disk)
      /\ split' = {t \in split : at'[t] # "ended"}
  BY DEF SaveOrder, Write
<1>3. \A t \in split : t \in Tasks /\ at[t] # "ended"
  BY DEF Tidy, HalfDone, Half
<1>4. CASE kind = "paper"
  <2>1. at'[f] = "committing" /\ net' = net /\ flow' = flow /\ loose' = loose
    BY <1>4, FillMoves DEF SaveOrder, FillStep, told
  <2>2. HalfDone' = HalfDone
    BY <1>0, <2>1, HalfMoves DEF HalfPlaces
  <2>3. split' = split
    BY <1>0, <1>2, <1>3, <2>1
  <2> QED
    BY <1>1, <1>2, <2>1, <2>2, <2>3, SumsStay
<1>5. CASE kind # "paper"
  <2>1. /\ at'[f] = "ended" /\ Answers(Amount[f], -x)
        /\ loose' = (loose \/ (shared /\ f \notin split))
    BY <1>5, FillMoves DEF SaveOrder, FillStep
  <2>2. HalfDone' = HalfDone \ {f}
    BY <1>0, <2>1, HalfMoves DEF HalfPlaces
  <2>3. split' = split \ {f}
    BY <1>0, <1>2, <1>3, <2>1
  <2>4. ~off => net' = net + Amount[f] /\ flow' = flow - x
    <3> HIDE DEF x
    <3> QED
      BY <1>0, <2>1, TakenTypes DEF Answers
  <2>5. BookAdds'
    <3>1. ASSUME ~off
          PROVE  AddsUp(book, HalfDone \ {f}, net + Amount[f], flow - x, Taken, Given)
      BY <1>0, <3>1, TakenTypes, AddsAnswer DEF SumsInv, BookAdds
    <3> HIDE DEF x
    <3> QED
      BY <1>1, <1>2, <2>2, <2>4, <3>1 DEF BookAdds
  <2>6. DiskAdds'
    <3>1. ASSUME ~off, shared, ~loose'
          PROVE  AddsUp(disk, split \ {f}, net + Amount[f], flow - x, Taken, Given)
      <4>1. ~loose /\ f \in split
        BY <2>1, <3>1
      <4> QED
        BY <3>1, <4>1, TakenTypes, AddsAnswer DEF SumsInv, DiskAdds
    <3> HIDE DEF x
    <3> QED
      BY <1>1, <1>2, <2>3, <2>4, <3>1 DEF DiskAdds
  <2> QED
    BY <2>5, <2>6 DEF SumsInv
<1> QED
  BY <1>4, <1>5

\* The fill of PAPER is committed and answered.
LEMMA SumsCommit ==
  ASSUME LedgerTypeOK, Tidy, SumsInv, NEW f \in Fills, Commit(f)
  PROVE  SumsInv'
<1> DEFINE x == Amount[f] * Price[f]
<1>0. /\ f \in Tasks /\ f # Tracker /\ Amount[f] \in Int /\ x \in Int
      /\ f \in HalfDone /\ at'[f] = "ended" /\ \A u \in Tasks \ {f} : at'[u] = at[u]
  BY LedgerConstants, FillMoves DEF HalfDone, Half, FillStep
<1>1. Taken' = Taken /\ Given' = Given
  BY TakenStays DEF Commit
<1>2. book' = book /\ off' = off /\ shared' = shared /\ Answers(Amount[f], -x)
  BY DEF Commit
<1>3. HalfDone' = HalfDone \ {f} /\ HalfBut(f) = HalfDone \ {f}
  BY <1>0, HalfMoves DEF HalfPlaces, HalfBut, HalfDone
<1>4. BookAdds'
  <2>1. ~off => net' = net + Amount[f] /\ flow' = flow - x
    <3> HIDE DEF x
    <3> QED
      BY <1>0, <1>2, TakenTypes DEF Answers
  <2>2. ASSUME ~off
        PROVE  AddsUp(book, HalfDone \ {f}, net + Amount[f], flow - x, Taken, Given)
    BY <1>0, <2>2, TakenTypes, AddsAnswer DEF SumsInv, BookAdds
  <2> HIDE DEF x
  <2> QED
    BY <1>1, <1>2, <1>3, <2>1, <2>2 DEF BookAdds
<1>5. CASE shared
  <2>1. disk' = book' /\ split' = HalfDone'
    BY <1>2, <1>3, <1>5 DEF Commit, Commits, Tidy
  <2> QED
    BY <1>4, <2>1, SumsJoin
<1>6. CASE ~shared
  BY <1>2, <1>4, <1>6, SumsAlone
<1> QED
  BY <1>5, <1>6

\* A fill that fails takes nothing with it, or the books come off.
LEMMA SumsFails ==
  ASSUME LedgerTypeOK, Tidy, SumsInv, NEW f \in Fills, FillFails(f)
  PROVE  SumsInv'
<1>0. /\ f \in Tasks /\ f # Tracker /\ at'[f] = "ended"
      /\ \A u \in Tasks \ {f} : at'[u] = at[u]
  BY LedgerConstants, FillMoves
<1>1. HalfDone' = HalfDone \ {f}
  BY <1>0, HalfMoves DEF HalfPlaces
<1>2. CASE kind = "paper" /\ shared
  <2>1. book' = disk /\ disk' = disk /\ split' = {} /\ ComesOff(f \in split \/ HalfBut(f) # {})
    BY <1>2 DEF FillFails
  <2>2. ~off' => /\ ~off /\ f \notin split /\ HalfBut(f) = {} /\ net' = net /\ flow' = flow
    BY <2>1, StaysOn
  <2>3. ~off' => HalfDone' = {} /\ split = {}
    BY <1>1, <2>2 DEF HalfBut, HalfDone, Tidy
  <2>4. ~loose
    BY <1>2 DEF Tidy
  <2> QED
    BY <1>2, <2>1, <2>2, <2>3, <2>4, SumsBack
<1>3. CASE ~(kind = "paper" /\ shared)
  <2>1. /\ book' = book /\ disk' = disk /\ shared' = shared /\ loose' = loose
        /\ split' = split \ {f} /\ ComesOff(Half(f))
    BY <1>3 DEF FillFails
  <2>2. ~off' => /\ ~off /\ f \notin HalfDone /\ net' = net /\ flow' = flow
    BY <2>1, StaysOn DEF HalfDone
  <2>3. ~off' => HalfDone' = HalfDone /\ split' = split
    BY <1>1, <2>1, <2>2 DEF Tidy
  <2>4. Taken' = Taken /\ Given' = Given
    <3>1. seen'[Tracker] = seen[Tracker] /\ market' = market
      BY <1>0, LedgerConstants DEF FillFails, Forgets, LedgerTypeOK
    <3> QED
      BY <3>1, TakenStays
  <2> QED
    BY <2>1, <2>2, <2>3, <2>4, SumsStay
<1> QED
  BY <1>2, <1>3

\* Steps of the tracker that do not touch the position.
LEMMA SumsPollQuiet ==
  ASSUME LedgerTypeOK, Tidy, SumsInv,
         List \/ AskMarket \/ CheckResolved \/ Credit \/ Mark \/ PollFails
  PROVE  SumsInv'
<1>0. Tracker \in Tasks /\ \A u \in Tasks \ {Tracker} : at'[u] = at[u]
  BY LedgerConstants, PollMoves DEF PollStep
<1>1. CASE List \/ AskMarket \/ CheckResolved
  <2>1. Tracker \notin HalfDone /\ at'[Tracker] \notin HalfPlaces
    BY <1>1, PollMoves DEF HalfDone, Half, HalfPlaces, PollStep
  <2>2. HalfDone' = HalfDone
    BY <1>0, <2>1, HalfMoves
  <2>3. /\ book' = book /\ disk' = disk /\ off' = off /\ net' = net /\ flow' = flow
        /\ shared' = shared /\ loose' = loose /\ split' = split
    BY <1>1 DEF List, AskMarket, CheckResolved, told
  <2> QED
    BY <2>1, <2>2, <2>3, SumsStay
<1>2. CASE Credit \/ Mark
  <2>1. Tracker \in HalfDone /\ at'[Tracker] \in HalfPlaces
    BY <1>0, <1>2, PollMoves DEF HalfDone, Half, HalfPlaces, PollStep
  <2>2. HalfDone' = HalfDone
    BY <1>0, <2>1, HalfMoves
  <2>3. /\ off' = off /\ net' = net /\ flow' = flow
        /\ shared' = shared /\ loose' = loose /\ split' = split
    BY <1>2 DEF Credit, Mark, told
  <2>4. /\ book'.quantity = book.quantity /\ book'.cost = book.cost
        /\ book'.realized = book.realized /\ (shared => disk' = disk)
    BY <1>2, MarkWritten DEF Credit, Write
  <2>5. Taken' = Taken /\ Given' = Given
    BY <1>2, TakenStays DEF Credit, Mark
  <2> QED
    BY <2>2, <2>3, <2>4, <2>5, SumsStay
<1>3. CASE PollFails
  <2>1. HalfDone' = HalfDone \ {Tracker}
    BY <1>0, <1>3, PollMoves, HalfMoves DEF HalfPlaces
  <2>2. /\ book' = book /\ disk' = disk /\ shared' = shared /\ loose' = loose
        /\ split' = split \ {Tracker} /\ ComesOff(Half(Tracker))
    BY <1>3 DEF PollFails
  <2>3. ~off' => /\ ~off /\ Tracker \notin HalfDone /\ net' = net /\ flow' = flow
    BY <2>2, StaysOn DEF HalfDone
  <2>4. ~off' => HalfDone' = HalfDone /\ split' = split
    BY <2>1, <2>2, <2>3 DEF Tidy
  <2> QED
    BY <2>2, <2>3, <2>4, SumsStay
<1> QED
  BY <1>1, <1>2, <1>3

\* A settlement leaves nothing, and pays what it realizes.
LEMMA SumsZero ==
  ASSUME LedgerTypeOK, Tidy, SumsInv, Zero
  PROVE  SumsInv'
<1> DEFINE held == seen[Tracker]
<1>0. Tracker \in Tasks /\ held \in Books /\ book \in Books
  BY LedgerConstants DEF LedgerTypeOK
<1>1. HalfDone' = HalfDone \cup {Tracker} /\ Tracker \notin HalfDone
  <2>1. /\ Tracker \notin HalfDone /\ at'[Tracker] \in HalfPlaces
        /\ \A u \in Tasks \ {Tracker} : at'[u] = at[u]
    BY PollMoves DEF HalfDone, Half, HalfPlaces, PollStep
  <2> QED
    BY <1>0, <2>1, HalfMoves
<1>2. Taken' = Taken /\ Given' = Given
  BY TakenStays DEF Zero
<1>3. ASSUME ~off' PROVE /\ ~off /\ net' = net /\ flow' = flow
                         /\ held.quantity = book.quantity /\ held.cost = book.cost
  BY <1>3, StaysOn DEF Zero
<1>4. ASSUME ~off' PROVE AddsUp(book', HalfDone', net', flow', Taken', Given')
  <2>1. book'.quantity = book.quantity - Taken
    BY <1>0, <1>3, <1>4, SettlementWritten, MoneyTypes DEF Taken
  <2>2. book'.realized - Signed(book') = book.realized - Signed(book) + Given
    <3>1. Signed(book') = 0
      BY SettlementWritten DEF Signed
    <3>2. Signed(held) = Signed(book)
      BY <1>3, <1>4 DEF Signed
    <3>3. book'.realized = book.realized + Given - Signed(book)
      BY <3>2, SettlementWritten DEF Given
    <3>4. book.realized \in Int /\ Signed(book) \in Int /\ Given \in Int
      BY <1>0, MoneyTypes, TakenTypes
    <3> QED
      BY <3>1, <3>3, <3>4
  <2>3. AddsUp(book, HalfDone, net, flow, Taken, Given)
    BY <1>3, <1>4 DEF SumsInv, BookAdds
  <2>4. AddsUp(book', HalfDone \cup {Tracker}, net, flow, Taken, Given)
    BY <1>1, <2>1, <2>2, <2>3, TakenTypes, AddsZero
  <2> QED
    BY <1>1, <1>2, <1>3, <1>4, <2>4
<1>5. BookAdds'
  BY <1>4 DEF BookAdds
<1>6. DiskAdds'
  <2> SUFFICES ASSUME ~off', shared', ~loose'
               PROVE  AddsUp(disk', split', net', flow', Taken', Given')
    BY DEF DiskAdds
  <2>1. disk' = disk /\ split' = split /\ shared /\ ~loose
    BY SettlementWritten DEF Zero
  <2> QED
    BY <1>2, <1>3, <2>1 DEF SumsInv, DiskAdds
<1> QED
  BY <1>5, <1>6 DEF SumsInv

\* The settlement is committed.
LEMMA SumsSettled ==
  ASSUME LedgerTypeOK, Tidy, SumsInv, CommitSettled
  PROVE  SumsInv'
<1>0. /\ Tracker \in Tasks /\ Tracker \in HalfDone /\ at'[Tracker] = "idle"
      /\ \A u \in Tasks \ {Tracker} : at'[u] = at[u]
  BY LedgerConstants, PollMoves DEF HalfDone, Half, PollStep
<1>1. book' = book /\ off' = off /\ shared' = shared /\ Answers(-Taken, Given)
  BY DEF CommitSettled, Taken, Given
<1>2. HalfDone' = HalfDone \ {Tracker} /\ HalfBut(Tracker) = HalfDone \ {Tracker}
  BY <1>0, HalfMoves DEF HalfPlaces, HalfBut, HalfDone
<1>3. BookAdds'
  <2>1. ~off => net' = net - Taken /\ flow' = flow + Given
    BY <1>1, TakenTypes DEF Answers
  <2>2. ASSUME ~off
        PROVE  AddsUp(book, HalfDone \ {Tracker}, net - Taken, flow + Given, Taken', Given')
    BY <1>0, <2>2, TakenTypes, AddsSettled DEF SumsInv, BookAdds
  <2> QED
    BY <1>1, <1>2, <2>1, <2>2 DEF BookAdds
<1>4. CASE shared
  <2>1. disk' = book' /\ split' = HalfDone'
    BY <1>1, <1>2, <1>4 DEF CommitSettled, Commits, Tidy
  <2> QED
    BY <1>3, <2>1, SumsJoin
<1>5. CASE ~shared
  BY <1>1, <1>3, <1>5, SumsAlone
<1> QED
  BY <1>4, <1>5

\* The market, other parts of the program and a restart.
LEMMA SumsOthers ==
  ASSUME LedgerTypeOK, Tidy, SumsInv,
         MarketResolves \/ OthersWrite \/ OthersCommit \/ OthersRollBack
  PROVE  SumsInv'
<1>0. HalfDone' = HalfDone
  BY HalfStays DEF MarketResolves, OthersWrite, OthersCommit, OthersRollBack
<1>1. CASE MarketResolves
  <2>1. Tracker \notin HalfDone
    BY <1>1 DEF MarketResolves, Tidy, HalfDone, Half
  <2> QED
    BY <1>0, <1>1, <2>1, SumsStay DEF MarketResolves, told
<1>2. CASE OthersWrite
  <2>1. Taken' = Taken /\ Given' = Given
    BY <1>2, TakenStays DEF OthersWrite
  <2> QED
    BY <1>0, <1>2, <2>1, SumsStay DEF OthersWrite, told
<1>3. CASE OthersCommit
  <2>1. Taken' = Taken /\ Given' = Given
    BY <1>3, TakenStays DEF OthersCommit
  <2>2. BookAdds'
    BY <1>0, <1>3, <2>1 DEF OthersCommit, SumsInv, BookAdds, told
  <2>3. disk' = book' /\ split' = HalfDone'
    BY <1>0, <1>3 DEF OthersCommit, Tidy, HalfDone
  <2> QED
    BY <2>2, <2>3, SumsJoin
<1>4. CASE OthersRollBack
  <2>1. /\ shared /\ book' = disk /\ disk' = disk /\ split' = {}
        /\ ComesOff(loose \/ \E t \in Tasks : Half(t))
    BY <1>4 DEF OthersRollBack
  <2>2. ~off' => ~off /\ ~loose /\ HalfDone = {} /\ net' = net /\ flow' = flow
    BY <2>1, StaysOn DEF HalfDone
  <2>3. HalfDone = {} => split = {}
    BY DEF Tidy
  <2> QED
    BY <1>0, <2>1, <2>2, <2>3, SumsBack
<1> QED
  BY <1>1, <1>2, <1>3, <1>4

LEMMA SumsRestart ==
  ASSUME LedgerTypeOK, CopyInv, Tidy, SumsInv, Restart
  PROVE  SumsInv'
<1>1. /\ book'.quantity = disk.quantity /\ book'.cost = disk.cost
      /\ book'.realized = disk.realized /\ disk' = book'
  BY DEF LedgerTypeOK, Books, Restart
<1>2. HalfDone' = {}
  BY DEF Restart, HalfDone, Half, LedgerTypeOK
<1>3. ~off' => /\ ~off /\ ~loose /\ net' = net /\ flow' = flow
               /\ \A t \in Tasks : ~(Half(t) /\ (~shared \/ t \in split))
  BY StaysOn DEF Restart
<1>4. CASE shared
  <2>1. ~off' => split = {}
    BY <1>3, <1>4 DEF Tidy, HalfDone
  <2>2. split' = {}
    BY DEF Restart
  <2> QED
    BY <1>1, <1>2, <1>3, <1>4, <2>1, <2>2, SumsBack
<1>5. CASE ~shared
  <2>1. ASSUME ~off' PROVE AddsUp(book, {}, net, flow, Taken, Given)
    <3>1. HalfDone = {}
      BY <1>3, <1>5, <2>1 DEF HalfDone
    <3> QED
      BY <1>3, <2>1, <3>1 DEF SumsInv, BookAdds
  <2>2. ASSUME ~off' PROVE AddsUp(book', {}, net, flow, Taken', Given')
    BY <1>1, <1>5, <2>1, <2>2, AddsStay DEF CopyInv
  <2>3. BookAdds'
    BY <1>2, <1>3, <2>2 DEF BookAdds
  <2>4. ~shared'
    BY <1>5 DEF Restart
  <2> QED
    BY <2>3, <2>4, SumsAlone
<1> QED
  BY <1>4, <1>5

LEMMA SumsStep ==
  LedgerTypeOK /\ CopyInv /\ Tidy /\ SumsInv /\ [LedgerNext]_ledgerVars => SumsInv'
<1> SUFFICES ASSUME LedgerTypeOK, CopyInv, Tidy, SumsInv, [LedgerNext]_ledgerVars
             PROVE  SumsInv'
  OBVIOUS
<1>1. CASE UNCHANGED ledgerVars
  <2>1. Taken' = Taken /\ Given' = Given /\ HalfDone' = HalfDone
    BY <1>1, TakenStays, HalfStays DEF ledgerVars
  <2>2. /\ book' = book /\ disk' = disk /\ off' = off /\ net' = net /\ flow' = flow
        /\ shared' = shared /\ loose' = loose /\ split' = split
    BY <1>1 DEF ledgerVars, told
  <2> QED
    BY <2>1, <2>2, SumsStay
<1>2. ASSUME NEW f \in Fills, FillStep(f) \/ FillFails(f) PROVE SumsInv'
  BY <1>2, SumsPlace, SumsFillQuiet, SumsFill, SumsSave, SumsCommit, SumsFails DEF FillStep
<1>3. CASE PollStep \/ PollFails
  BY <1>3, SumsPollQuiet, SumsZero, SumsSettled DEF PollStep
<1> QED
  BY <1>1, <1>2, <1>3, SumsOthers, SumsRestart DEF LedgerNext

LEMMA SumsInit == LedgerInit => Tidy /\ SumsInv
<1> SUFFICES ASSUME LedgerInit PROVE Tidy /\ SumsInv
  OBVIOUS
<1>0. HalfDone = {} /\ split = {} /\ at[Tracker] = "idle" /\ ~loose
  BY LedgerConstants DEF LedgerInit, HalfDone, Half
<1>1. PICK k \in {0, Held} : book = NewBook(k)
  BY DEF LedgerInit
<1>2. k \in Int /\ HeldAt \in Int /\ k * HeldAt \in Int /\ Start \in Int
  BY LedgerAssumption
<1>3. k < 0 => (-k) * HeldAt = -(k * HeldAt)
  BY <1>2
<1>4. /\ book.quantity = net /\ book.realized - Signed(book) = flow /\ net \in Int /\ flow \in Int
  BY <1>1, <1>2, <1>3 DEF LedgerInit, NewBook, Signed, Abs
<1>5. AddsUp(book, {}, net, flow, Taken, Given) /\ disk = book
  BY <1>4, AddsNone DEF LedgerInit
<1> QED
  BY <1>0, <1>5 DEF Tidy, SumsInv, BookAdds, DiskAdds
-------------------------------------------------------------------------------
(* The paper ledger: the cash.                                             *)

\* Fills under way that the account has paid for.
PaidFor == {f \in Fills : at[f] \in {"saving", "committing"}}

\* The account has moved by m cents, and has paid for the fills D.
Pays(b, D, m) == b.cash = Start + m - Debt[D]

BookIsPaid == ~off /\ kind = "paper" => Pays(book, PaidFor, flow)
DiskIsPaid ==
  ~off /\ kind = "paper" /\ shared => \E D \in SUBSET (split \cap Fills) : Pays(disk, D, flow)
CashInv == BookIsPaid /\ DiskIsPaid

\* A fill is paid for; a fill that was paid for is answered.
LEMMA PaysFill ==
  ASSUME NEW b, NEW c, NEW D \in SUBSET Fills, NEW f \in Fills \ D, NEW m \in Int,
         c.cash = b.cash - Amount[f] * Price[f]
  PROVE  /\ Pays(b, D, m) => Pays(c, D \cup {f}, m)
         /\ Pays(b, D \cup {f}, m) => Pays(b, D, m - Amount[f] * Price[f])
<1> DEFINE x == Amount[f] * Price[f]
           d == Debt[D]
           e == Debt[D \cup {f}]
<1>1. d \in Int /\ x \in Int /\ e = d + x /\ Start \in Int /\ c.cash = b.cash - x
  BY DebtFacts, LedgerConstants, LedgerAssumption
<1>2. /\ b.cash = Start + m - d => c.cash = Start + m - e
      /\ b.cash = Start + m - e => b.cash = Start + (m - x) - d
  <2> HIDE DEF x, d, e
  <2> QED
    BY <1>1
<1> QED
  BY <1>2 DEF Pays

LEMMA PaysNone ==
  ASSUME NEW b, NEW m \in Int
  PROVE  Pays(b, {}, m) <=> b.cash = Start + m
<1>1. Start \in Int /\ Debt[{}] = 0
  BY DebtFacts, LedgerAssumption
<1> QED
  BY <1>1 DEF Pays

\* Steps that leave the cash, the answers and what is split.
LEMMA CashStay ==
  ASSUME CashInv,
         ~off' /\ kind' = "paper" =>
           /\ ~off /\ kind = "paper" /\ flow' = flow /\ PaidFor' = PaidFor
           /\ book'.cash = book.cash /\ shared' = shared
           /\ shared => disk' = disk /\ split' = split
  PROVE  CashInv'
<1>1. BookIsPaid'
  BY DEF CashInv, BookIsPaid, Pays
<1>2. DiskIsPaid'
  BY DEF CashInv, DiskIsPaid, Pays
<1> QED
  BY <1>1, <1>2 DEF CashInv

\* A commit of all that is written.
LEMMA CashJoin ==
  ASSUME BookIsPaid', disk' = book', split' = HalfDone'
  PROVE  CashInv'
<1>1. PaidFor' \in SUBSET (split' \cap Fills)
  BY LedgerConstants DEF PaidFor, HalfDone, Half
<1>2. DiskIsPaid'
  BY <1>1 DEF BookIsPaid, DiskIsPaid
<1> QED
  BY <1>2 DEF CashInv

\* A rollback, when nothing is half done.
LEMMA CashBack ==
  ASSUME CashInv, shared, book' = disk, disk' = disk,
         ~off' /\ kind' = "paper" =>
           /\ ~off /\ kind = "paper" /\ split = {} /\ PaidFor' = {} /\ flow' = flow
  PROVE  CashInv'
<1>1. ASSUME ~off', kind' = "paper" PROVE Pays(disk, {}, flow)
  BY <1>1 DEF CashInv, DiskIsPaid
<1>2. BookIsPaid'
  BY <1>1 DEF BookIsPaid
<1>3. DiskIsPaid'
  <2>1. {} \in SUBSET (split' \cap Fills)
    OBVIOUS
  <2> QED
    BY <1>1, <2>1 DEF DiskIsPaid
<1> QED
  BY <1>2, <1>3 DEF CashInv

LEMMA CashAlone ==
  ASSUME BookIsPaid', ~shared'
  PROVE  CashInv'
  BY DEF CashInv, DiskIsPaid

LEMMA PaidMoves ==
  ASSUME LedgerTypeOK, NEW f \in Fills, \A u \in Tasks \ {f} : at'[u] = at[u]
  PROVE  /\ at'[f] \in {"saving", "committing"} => PaidFor' = PaidFor \cup {f}
         /\ at'[f] \notin {"saving", "committing"} => PaidFor' = PaidFor \ {f}
         /\ at'[f] \notin {"saving", "committing"} /\ f \notin PaidFor => PaidFor' = PaidFor
  BY LedgerConstants DEF PaidFor

LEMMA PaidHalf == HalfDone = {} => PaidFor = {}
  BY LedgerConstants DEF PaidFor, HalfDone, Half

LEMMA CashFill ==
  ASSUME LedgerTypeOK, Tidy, CashInv, NEW f \in Fills, FillStep(f) \/ FillFails(f)
  PROVE  CashInv'
<1> DEFINE x == Amount[f] * Price[f]
<1>0. /\ f \in Tasks /\ x \in Int /\ \A u \in Tasks \ {f} : at'[u] = at[u]
      /\ flow \in Int /\ PaidFor \in SUBSET Fills
  BY LedgerConstants, FillMoves DEF PaidFor, LedgerTypeOK
<1>1. kind' = kind /\ shared' = shared
  BY DEF FillStep, FillFails, Place, ReadPosition, WritePosition, ReadCash, WriteCash,
         SaveOrder, Commit
<1>2. CASE Place(f)
  <2>1. PaidFor' = PaidFor /\ HalfDone' = HalfDone
    <3>1. at[f] = "idle" /\ at'[f] \in {"reading", "ended"}
      BY <1>2, FillMoves
    <3>2. /\ f \notin PaidFor /\ f \notin HalfDone /\ at'[f] \notin HalfPlaces
          /\ at'[f] \notin {"saving", "committing"}
      BY <3>1 DEF PaidFor, HalfDone, Half, HalfPlaces
    <3>3. PaidFor' = PaidFor
      BY <1>0, <3>2, PaidMoves
    <3>4. HalfDone' = HalfDone
      BY <1>0, <3>2, HalfMoves
    <3> QED
      BY <3>3, <3>4
  <2>2. CASE kind = "paper" /\ shared /\ open
    <3>1. book' = disk /\ disk' = disk /\ ComesOff(\E t \in Tasks : Half(t))
      BY <1>2, <2>2 DEF Place
    <3>2. ~off' => ~off /\ HalfDone = {} /\ flow' = flow
      BY <3>1, StaysOn DEF HalfDone
    <3>3. HalfDone = {} => split = {} /\ PaidFor = {}
      BY PaidHalf DEF Tidy
    <3> QED
      BY <1>1, <2>1, <2>2, <3>1, <3>2, <3>3, CashBack
  <2>3. CASE ~(kind = "paper" /\ shared /\ open)
    BY <1>1, <1>2, <2>1, <2>3, CashStay DEF Place, told
  <2> QED
    BY <2>2, <2>3
<1>3. CASE ReadPosition(f) \/ WritePosition(f)
  <2>1. PaidFor' = PaidFor
    <3>1. f \notin PaidFor /\ at'[f] \notin {"saving", "committing"}
      BY <1>3, FillMoves DEF PaidFor
    <3> QED
      BY <1>0, <3>1, PaidMoves
  <2>2. book'.cash = book.cash /\ split' = split /\ (shared => disk' = disk)
    BY <1>3, FillWritten DEF ReadPosition, WritePosition
  <2>3. ~off' => ~off /\ flow' = flow
    BY <1>3, StaysOn DEF ReadPosition, WritePosition, told
  <2> QED
    BY <1>1, <2>1, <2>2, <2>3, CashStay
<1>4. CASE ReadCash(f)
  <2>1. kind = "paper" => PaidFor' = PaidFor
    <3> SUFFICES ASSUME kind = "paper" PROVE PaidFor' = PaidFor
      OBVIOUS
    <3>1. f \notin PaidFor /\ at'[f] \notin {"saving", "committing"}
      BY <1>4, FillMoves DEF PaidFor
    <3> QED
      BY <1>0, <3>1, PaidMoves
  <2> QED
    BY <1>1, <1>4, <2>1, CashStay DEF ReadCash, told
<1>5. CASE WriteCash(f)
  <2>1. PaidFor' = PaidFor \cup {f} /\ f \notin PaidFor
    <3>1. f \notin PaidFor /\ at'[f] \in {"saving", "committing"}
      BY <1>5, FillMoves DEF PaidFor
    <3> QED
      BY <1>0, <3>1, PaidMoves
  <2>2. ~off' => ~off /\ flow' = flow /\ seen[f].cash = book.cash
    BY <1>5, StaysOn DEF WriteCash
  <2>3. ASSUME ~off', kind = "paper" PROVE Pays(book', PaidFor', flow')
    <3>1. Pays(book, PaidFor, flow)
      BY <2>2, <2>3 DEF CashInv, BookIsPaid
    <3>2. book'.cash = book.cash - Amount[f] * Price[f]
      BY <1>5, <2>2, <2>3, CashWritten
    <3>3. Pays(book', PaidFor \cup {f}, flow)
      BY <1>0, <2>1, <3>1, <3>2, PaysFill
    <3> QED
      BY <2>1, <2>2, <2>3, <3>3
  <2>4. BookIsPaid'
    BY <1>1, <2>3 DEF BookIsPaid
  <2>5. DiskIsPaid'
    <3>1. split' = split /\ (shared => disk' = disk)
      BY <1>5, CashWritten DEF WriteCash
    <3> QED
      BY <1>1, <2>2, <3>1 DEF CashInv, DiskIsPaid
  <2> QED
    BY <2>4, <2>5 DEF CashInv
<1>6. CASE SaveOrder(f)
  <2>1. ASSUME kind = "paper" PROVE PaidFor' = PaidFor /\ split' = split
    <3>1. at[f] = "saving" /\ at'[f] = "committing"
      BY <1>6, <2>1, FillMoves
    <3>2. f \in PaidFor
      BY <3>1 DEF PaidFor
    <3>3. PaidFor' = PaidFor
      BY <1>0, <3>1, <3>2, PaidMoves
    <3>4. split' = {t \in split : at'[t] # "ended"}
      BY <1>6 DEF SaveOrder
    <3>5. \A t \in split : t \in Tasks /\ at[t] # "ended"
      BY DEF Tidy, HalfDone, Half
    <3>6. split' = split
      BY <1>0, <3>1, <3>4, <3>5
    <3> QED
      BY <3>3, <3>6
  <2> QED
    BY <1>1, <1>6, <2>1, CashStay DEF SaveOrder, Write, told
<1>7. CASE Commit(f)
  <2>1. f \in PaidFor /\ at'[f] = "ended"
    BY <1>7, FillMoves DEF PaidFor
  <2>2. PaidFor' = PaidFor \ {f}
    BY <1>0, <2>1, PaidMoves
  <2>3. book' = book /\ off' = off /\ (~off => flow' = flow - x)
    <3>1. book' = book /\ off' = off /\ Answers(Amount[f], -x)
      BY <1>7 DEF Commit
    <3>2. ~off => flow' = flow - x
      <4> HIDE DEF x
      <4> QED
        BY <1>0, <3>1 DEF Answers
    <3> QED
      BY <3>1, <3>2
  <2>4. ASSUME ~off, kind = "paper" PROVE Pays(book, PaidFor \ {f}, flow - x)
    <3> DEFINE D == PaidFor \ {f}
               c == [cash |-> book.cash - x]
    <3>1. D \in SUBSET Fills /\ f \in Fills \ D /\ PaidFor = D \cup {f} /\ c.cash = book.cash - x
      BY <1>0, <2>1
    <3>2. Pays(book, D \cup {f}, flow)
      BY <2>4, <3>1 DEF CashInv, BookIsPaid
    <3> HIDE DEF D, c
    <3>3. Pays(book, D, flow - x)
      BY <1>0, <3>1, <3>2, PaysFill
    <3> QED
      BY <3>3 DEF D
  <2>5. BookIsPaid'
    <3> HIDE DEF x
    <3> QED
      BY <1>1, <2>2, <2>3, <2>4 DEF BookIsPaid
  <2>6. CASE shared
    <3>1. HalfDone' = HalfDone \ {f} /\ HalfBut(f) = HalfDone \ {f}
      BY <1>0, <2>1, HalfMoves DEF HalfPlaces, HalfBut, HalfDone
    <3>2. disk' = book' /\ split' = HalfDone'
      BY <1>7, <2>6, <3>1 DEF Commit, Commits, Tidy
    <3> QED
      BY <2>5, <3>2, CashJoin
  <2>7. CASE ~shared
    BY <1>1, <2>5, <2>7, CashAlone
  <2> QED
    BY <2>6, <2>7
<1>8. CASE FillFails(f)
  <2>1. at'[f] = "ended"
    BY <1>8, FillMoves
  <2>2. HalfDone' = HalfDone \ {f} /\ PaidFor' = PaidFor \ {f}
    BY <1>0, <2>1, HalfMoves, PaidMoves DEF HalfPlaces
  <2>3. CASE kind = "paper" /\ shared
    <3>1. book' = disk /\ disk' = disk /\ ComesOff(f \in split \/ HalfBut(f) # {})
      BY <1>8, <2>3 DEF FillFails
    <3>2. ~off' => ~off /\ f \notin split /\ HalfBut(f) = {} /\ flow' = flow
      BY <3>1, StaysOn
    <3>3. HalfBut(f) = {} => HalfDone \ {f} = {} /\ PaidFor \ {f} = {}
      BY LedgerConstants DEF HalfBut, HalfDone, PaidFor, Half
    <3>4. ~off' => split = {}
      BY <3>2, <3>3 DEF Tidy
    <3> QED
      BY <1>1, <2>2, <2>3, <3>1, <3>2, <3>3, <3>4, CashBack
  <2>4. CASE ~(kind = "paper" /\ shared)
    <3>1. book' = book /\ disk' = disk /\ split' = split \ {f} /\ ComesOff(Half(f))
      BY <1>8, <2>4 DEF FillFails
    <3>2. ~off' => ~off /\ ~Half(f) /\ flow' = flow
      BY <3>1, StaysOn
    <3>3. ~Half(f) => f \notin PaidFor /\ f \notin split
      BY DEF PaidFor, Half, Tidy, HalfDone
    <3> QED
      BY <1>1, <2>2, <2>4, <3>1, <3>2, <3>3, CashStay
  <2> QED
    BY <2>3, <2>4
<1> QED
  BY <1>2, <1>3, <1>4, <1>5, <1>6, <1>7, <1>8 DEF FillStep

\* Where the tracker polls, there is no account.
LEMMA CashPoll ==
  ASSUME LedgerTypeOK, Tidy, CashInv, PollStep \/ PollFails \/ MarketResolves
  PROVE  CashInv'
<1>1. kind' = kind
  BY DEF PollStep, PollFails, MarketResolves, List, AskMarket, CheckResolved, Zero, Credit, Mark,
         CommitSettled
<1>2. kind # "paper"
  BY PollMoves DEF Tidy, PollStep, MarketResolves
<1> QED
  BY <1>1, <1>2 DEF CashInv, BookIsPaid, DiskIsPaid

LEMMA CashRestart ==
  ASSUME LedgerTypeOK, CopyInv, Tidy, CashInv, Restart
  PROVE  CashInv'
<1>1. kind' = kind /\ shared' = shared /\ disk' = book'
      /\ (kind = "paper" => book'.cash = Start)
  BY DEF LedgerTypeOK, Books, Restart
<1>2. PaidFor' = {}
  <2>1. HalfDone' = {}
    BY DEF Restart, HalfDone, Half, LedgerTypeOK
  <2> QED
    BY <2>1, LedgerConstants DEF PaidFor, HalfDone, Half
<1>3. ASSUME ~off', kind = "paper" PROVE ~off /\ flow' = flow /\ Pays(book', {}, flow)
  <2>1. /\ ~off /\ flow' = flow /\ disk.cash = Start
        /\ \A t \in Tasks : ~(Half(t) /\ (~shared \/ t \in split))
    BY <1>3, StaysOn DEF Restart
  <2>2. flow \in Int
    BY DEF LedgerTypeOK
  <2>3. Pays(disk, {}, flow)
    <3>1. CASE shared
      <4>1. split = {}
        BY <2>1, <3>1 DEF Tidy, HalfDone
      <4> QED
        BY <1>3, <2>1, <3>1, <4>1 DEF CashInv, DiskIsPaid
    <3>2. CASE ~shared
      <4>1. HalfDone = {}
        BY <2>1, <3>2 DEF HalfDone
      <4>2. PaidFor = {}
        BY <4>1, PaidHalf
      <4> QED
        BY <1>3, <2>1, <3>2, <4>2 DEF CashInv, BookIsPaid, CopyInv
    <3> QED
      BY <3>1, <3>2
  <2> QED
    BY <1>1, <1>3, <2>1, <2>2, <2>3, PaysNone
<1>4. BookIsPaid'
  BY <1>1, <1>2, <1>3 DEF BookIsPaid
<1>5. DiskIsPaid'
  <2>1. {} \in SUBSET (split' \cap Fills)
    OBVIOUS
  <2> QED
    BY <1>1, <1>3, <2>1 DEF DiskIsPaid
<1> QED
  BY <1>4, <1>5 DEF CashInv

LEMMA CashStep ==
  LedgerTypeOK /\ CopyInv /\ Tidy /\ CashInv /\ [LedgerNext]_ledgerVars => CashInv'
<1> SUFFICES ASSUME LedgerTypeOK, CopyInv, Tidy, CashInv, [LedgerNext]_ledgerVars
             PROVE  CashInv'
  OBVIOUS
<1>1. CASE UNCHANGED ledgerVars
  <2>1. PaidFor' = PaidFor
    BY <1>1 DEF ledgerVars, PaidFor
  <2> QED
    BY <1>1, <2>1, CashStay DEF ledgerVars, told
<1>2. CASE OthersWrite
  <2>1. PaidFor' = PaidFor
    BY <1>2 DEF OthersWrite, PaidFor
  <2> QED
    BY <1>2, <2>1, CashStay DEF OthersWrite, told
<1>3. CASE OthersCommit
  <2>1. PaidFor' = PaidFor /\ HalfDone' = HalfDone
    BY <1>3, HalfStays DEF OthersCommit, PaidFor
  <2>2. BookIsPaid'
    BY <1>3, <2>1 DEF OthersCommit, CashInv, BookIsPaid, told
  <2>3. disk' = book' /\ split' = HalfDone'
    BY <1>3, <2>1 DEF OthersCommit, Tidy, HalfDone
  <2> QED
    BY <2>2, <2>3, CashJoin
<1>4. CASE OthersRollBack
  <2>1. /\ shared /\ book' = disk /\ disk' = disk /\ kind' = kind
        /\ ComesOff(loose \/ \E t \in Tasks : Half(t))
    BY <1>4 DEF OthersRollBack
  <2>2. ~off' => ~off /\ HalfDone = {} /\ flow' = flow
    BY <2>1, StaysOn DEF HalfDone
  <2>3. HalfDone = {} => split = {} /\ PaidFor' = {}
    BY <1>4, PaidHalf DEF Tidy, OthersRollBack, PaidFor
  <2> QED
    BY <2>1, <2>2, <2>3, CashBack
<1> QED
  BY <1>1, <1>2, <1>3, <1>4, CashFill, CashPoll, CashRestart DEF LedgerNext

LEMMA CashInit == LedgerInit => CashInv
<1> SUFFICES ASSUME LedgerInit PROVE CashInv
  OBVIOUS
<1>1. PICK k \in {0, Held} : book = NewBook(k)
  BY DEF LedgerInit
<1>2. k * HeldAt \in Int /\ Start \in Int
  BY LedgerAssumption
<1>3. book.cash = Start + flow /\ flow \in Int
  BY <1>1, <1>2 DEF LedgerInit, NewBook
<1>4. PaidFor = {} /\ disk = book
  BY LedgerConstants DEF LedgerInit, PaidFor
<1>5. Pays(book, {}, flow)
  BY <1>3, PaysNone
<1>6. {} \in SUBSET (split \cap Fills)
  OBVIOUS
<1> QED
  BY <1>4, <1>5, <1>6, Zenon DEF CashInv, BookIsPaid, DiskIsPaid

\* The books add up unless they have come off: a fill or a settlement of any size at any
\* price, of any position, whichever task commits or rolls back what at which point, and
\* whatever was answered is never taken out of the sum again.
THEOREM BooksAlwaysAddUp == LedgerSpec => []BooksAddUp
<1>1. LedgerInit => CopyInv /\ Tidy /\ SumsInv /\ CashInv
  BY CopyInit, SumsInit, CashInit
<1>2. LedgerTypeOK /\ CopyInv /\ Tidy /\ SumsInv /\ CashInv /\ [LedgerNext]_ledgerVars
        => (CopyInv /\ Tidy /\ SumsInv /\ CashInv)'
  BY CopyStep, TidyStep, SumsStep, CashStep
<1>3. LedgerTypeOK /\ SumsInv /\ CashInv => BooksAddUp
  <2> SUFFICES ASSUME LedgerTypeOK, SumsInv, CashInv, ~off, ~ \E t \in Tasks : Half(t)
               PROVE  /\ book.quantity = net /\ book.realized - Signed(book) = flow
                      /\ kind = "paper" => book.cash = Start + flow
    BY DEF BooksAddUp
  <2>1. HalfDone = {} /\ PaidFor = {}
    BY PaidHalf DEF HalfDone
  <2>2. net \in Int /\ flow \in Int
    BY DEF LedgerTypeOK
  <2>3. AddsUp(book, {}, net, flow, Taken, Given)
    BY <2>1 DEF SumsInv, BookAdds
  <2>4. kind = "paper" => Pays(book, {}, flow)
    BY <2>1 DEF CashInv, BookIsPaid
  <2> QED
    BY <2>2, <2>3, <2>4, AddsNone, PaysNone
<1> QED
  BY <1>1, <1>2, <1>3, LedgerTypeCorrect, PTL DEF LedgerSpec

-------------------------------------------------------------------------------
(* The paper ledger, one task after the other.                             *)

Under(t) == at[t] \notin {"idle", "ended"}

\* A task begins while another is under way.
Joins == \E t \in Tasks : /\ at[t] = "idle" /\ at'[t] # "idle"
                          /\ \E u \in Tasks \ {t} : Under(u)

\* What a task is about to write back is what the books show.
Reads(t) ==
  /\ at[t] = "writing" =>
       <<seen[t].quantity, seen[t].cost, seen[t].realized>>
         = <<book.quantity, book.cost, book.realized>>
  /\ at[t] = "paying" => seen[t].cash = book.cash
  /\ at[t] \in {"listed", "checking", "zeroing"} =>
       <<seen[t].quantity, seen[t].cost>> = <<book.quantity, book.cost>>

LoneInv ==
  /\ \A t, u \in Tasks : Under(t) /\ Under(u) => t = u
  /\ faults = 0 => ~off /\ \A t \in Tasks : Reads(t)

\* A step of the task that is under way, or of the one that begins when none is.
LEMMA LoneTask ==
  ASSUME LedgerTypeOK, LoneInv, NEW t \in Tasks, Under(t) \/ \A u \in Tasks : ~Under(u),
         \A u \in Tasks \ {t} : at'[u] = at[u] /\ seen'[u] = seen[u],
         faults' = 0 => faults = 0 /\ ~off' /\ Reads(t)'
  PROVE  LoneInv'
<1>1. \A u \in Tasks \ {t} : ~Under(u) /\ ~Under(u)'
  BY DEF LoneInv, Under
<1>2. \A u \in Tasks \ {t} : Reads(u)'
  BY <1>1 DEF Reads, Under
<1> QED
  BY <1>1, <1>2 DEF LoneInv

\* Looking at the books is reading them.
LEMMA LoneLook ==
  ASSUME LedgerTypeOK, NEW t \in Tasks, Looks(t), UNCHANGED book,
         at'[t] \in {"writing", "paying", "listed"}
  PROVE  Reads(t)'
  BY LooksAt DEF Reads

LEMMA LoneFill ==
  ASSUME LedgerTypeOK, LoneInv, NEW f \in Fills, FillStep(f), [~Joins]_ledgerVars
  PROVE  LoneInv'
<1> USE DEF LedgerTypeOK, Step
<1>0. f \in Tasks /\ \A u \in Tasks \ {f} : at'[u] = at[u]
  BY DEF Tasks, FillStep, Place, ReadPosition, WritePosition, ReadCash, WriteCash, SaveOrder, Commit
<1>1. faults' = faults /\ \A u \in Tasks \ {f} : seen'[u] = seen[u]
  BY DEF FillStep, Place, ReadPosition, WritePosition, ReadCash, WriteCash, SaveOrder, Commit,
         Looks, Forgets
<1>2. CASE Place(f)
  <2>1. at[f] = "idle" /\ at'[f] \in {"reading", "ended"}
    BY <1>0, <1>2 DEF Place
  <2>2. \A u \in Tasks : ~Under(u)
    BY <1>0, <2>1 DEF Joins, Under, ledgerVars
  <2>3. off' = off
    <3>1. \A u \in Tasks : ~Half(u)
      BY <2>2 DEF Half, Under
    <3>2. off' = off \/ off' = (off \/ \E u \in Tasks : Half(u))
      BY <1>2 DEF Place, ComesOff
    <3> QED
      BY <3>1, <3>2 DEF LedgerTypeOK
  <2> QED
    BY <1>0, <1>1, <2>1, <2>2, <2>3, LoneTask DEF LoneInv, Reads
<1>3. ASSUME ~Place(f) PROVE LoneInv'
  <2>1. Under(f)
    BY <1>3 DEF FillStep, ReadPosition, WritePosition, ReadCash, WriteCash, SaveOrder, Commit, Under
  <2>2. faults = 0 => ~off'
    <3> SUFFICES ASSUME faults = 0 PROVE ~off'
      OBVIOUS
    <3>1. ~off /\ Reads(f)
      BY <1>0 DEF LoneInv
    <3>2. CASE WritePosition(f)
      BY <3>1, <3>2, Zenon DEF WritePosition, ComesOff, Reads
    <3>3. CASE WriteCash(f)
      BY <3>1, <3>3, Zenon DEF WriteCash, ComesOff, Reads
    <3> QED
      BY <1>3, <3>1, <3>2, <3>3 DEF FillStep, ReadPosition, ReadCash, SaveOrder, Commit
  <2>3. Reads(f)'
    <3>1. CASE at'[f] \in {"writing", "paying"}
      <4>1. Looks(f) /\ UNCHANGED book
        BY <1>0, <1>3, <3>1 DEF FillStep, ReadPosition, WritePosition, ReadCash, WriteCash,
                                SaveOrder, Commit
      <4> QED
        BY <1>0, <3>1, <4>1, LoneLook
    <3>2. CASE at'[f] \notin {"writing", "paying"}
      <4>1. at'[f] \notin {"listed", "checking", "zeroing"}
        BY <1>0, <1>3 DEF FillStep, ReadPosition, WritePosition, ReadCash, WriteCash, SaveOrder,
                          Commit
      <4> QED
        BY <3>2, <4>1 DEF Reads
    <3> QED
      BY <3>1, <3>2
  <2> QED
    BY <1>0, <1>1, <2>1, <2>2, <2>3, LoneTask
<1> QED
  BY <1>2, <1>3

LEMMA LonePoll ==
  ASSUME LedgerTypeOK, LoneInv, PollStep, [~Joins]_ledgerVars
  PROVE  LoneInv'
<1> USE DEF LedgerTypeOK, Step
<1>0. Tracker \in Tasks /\ \A u \in Tasks \ {Tracker} : at'[u] = at[u]
  BY DEF Tasks, PollStep, List, AskMarket, CheckResolved, Zero, Credit, Mark, CommitSettled
<1>1. faults' = faults /\ \A u \in Tasks \ {Tracker} : seen'[u] = seen[u]
  BY DEF PollStep, List, AskMarket, CheckResolved, Zero, Credit, Mark, CommitSettled, Looks, Forgets
<1>2. CASE List
  <2>1. at[Tracker] = "idle" /\ at'[Tracker] = "listed" /\ UNCHANGED <<book, off>>
    BY <1>0, <1>2 DEF List
  <2>2. \A u \in Tasks : ~Under(u)
    BY <1>0, <2>1 DEF Joins, Under, ledgerVars
  <2>3. Reads(Tracker)'
    BY <1>0, <1>2, <2>1, LoneLook DEF List
  <2> QED
    BY <1>0, <1>1, <2>1, <2>2, <2>3, LoneTask DEF LoneInv
<1>3. ASSUME ~List PROVE LoneInv'
  <2>1. Under(Tracker)
    BY <1>3 DEF PollStep, AskMarket, CheckResolved, Zero, Credit, Mark, CommitSettled, Under
  <2>2. faults = 0 => ~off'
    <3> SUFFICES ASSUME faults = 0 PROVE ~off'
      OBVIOUS
    <3>1. ~off /\ Reads(Tracker)
      BY <1>0 DEF LoneInv
    <3>2. CASE Zero
      BY <3>1, <3>2, Zenon DEF Zero, ComesOff, Reads
    <3> QED
      BY <1>3, <3>1, <3>2 DEF PollStep, AskMarket, CheckResolved, Credit, Mark, CommitSettled
  <2>3. faults = 0 => Reads(Tracker)'
    <3>1. CASE AskMarket \/ CheckResolved
      <4>1. /\ UNCHANGED book /\ at'[Tracker] \in {"idle", "checking", "zeroing"}
            /\ at'[Tracker] # "idle" => UNCHANGED seen
        BY <1>0, <3>1 DEF AskMarket, CheckResolved
      <4>2. at[Tracker] \in {"listed", "checking"}
        BY <3>1 DEF AskMarket, CheckResolved
      <4> QED
        BY <1>0, <4>1, <4>2 DEF LoneInv, Reads
    <3>2. CASE Zero \/ Credit \/ Mark \/ CommitSettled
      <4>1. at'[Tracker] \in {"crediting", "marking", "committing", "idle"}
        BY <1>0, <3>2 DEF Zero, Credit, Mark, CommitSettled
      <4> QED
        BY <4>1 DEF Reads
    <3> QED
      BY <1>3, <3>1, <3>2 DEF PollStep
  <2> QED
    BY <1>0, <1>1, <2>1, <2>2, <2>3, LoneTask
<1> QED
  BY <1>2, <1>3

\* While no task begins before the one under way has ended, and nothing fails or meddles,
\* the books are exactly the sum of the answers, whenever nobody is half done: for them to
\* come off takes a second task or a fault.
THEOREM LoneTasksAddUp ==
  LedgerSpec /\ [][~Joins]_ledgerVars =>
    [](faults = 0 /\ (\A t \in Tasks : ~Half(t)) =>
         /\ book.quantity = net
         /\ book.realized - Signed(book) = flow
         /\ kind = "paper" => book.cash = Start + flow)
<1>1. LedgerInit => LoneInv
  BY DEF LedgerInit, LoneInv, Under, Reads
<1>2. LedgerTypeOK /\ LoneInv /\ [LedgerNext]_ledgerVars /\ [~Joins]_ledgerVars => LoneInv'
  <2> SUFFICES ASSUME LedgerTypeOK, LoneInv, [LedgerNext]_ledgerVars, [~Joins]_ledgerVars
               PROVE  LoneInv'
    OBVIOUS
  <2> USE DEF LedgerTypeOK
  <2>1. ASSUME Fault PROVE faults' # 0
    BY <2>1 DEF Fault
  <2>2. ASSUME NEW f \in Fills, FillFails(f) PROVE LoneInv'
    <3>1. f \in Tasks /\ Under(f) /\ Fault /\ \A u \in Tasks \ {f} : at'[u] = at[u]
      BY <2>2 DEF FillFails, Under, Tasks
    <3>2. \A u \in Tasks \ {f} : seen'[u] = seen[u]
      BY <2>2 DEF FillFails, Forgets
    <3> QED
      BY <2>1, <3>1, <3>2, LoneTask
  <2>3. CASE PollFails
    <3>1. /\ Tracker \in Tasks /\ Fault /\ at'[Tracker] = "idle"
          /\ \A u \in Tasks \ {Tracker} : at'[u] = at[u]
      BY <2>3 DEF PollFails, Tasks
    <3> QED
      BY <2>1, <3>1 DEF LoneInv, Under
  <2>4. CASE Restart
    <3>1. Fault /\ \A t \in Tasks : ~Under(t)'
      BY <2>4 DEF Restart, Under
    <3> QED
      BY <2>1, <3>1 DEF LoneInv
  <2>5. CASE OthersWrite \/ OthersCommit \/ OthersRollBack
    BY <2>1, <2>5 DEF OthersWrite, OthersCommit, OthersRollBack, LoneInv, Under
  <2>6. CASE MarketResolves \/ UNCHANGED ledgerVars
    BY <2>6 DEF MarketResolves, ledgerVars, LoneInv, Under, Reads
  <2> QED
    BY <2>2, <2>3, <2>4, <2>5, <2>6, LoneFill, LonePoll DEF LedgerNext
<1>3. LoneInv /\ BooksAddUp =>
        (faults = 0 /\ (\A t \in Tasks : ~Half(t)) =>
           /\ book.quantity = net
           /\ book.realized - Signed(book) = flow
           /\ kind = "paper" => book.cash = Start + flow)
  BY DEF LoneInv, BooksAddUp
<1> QED
  BY <1>1, <1>2, <1>3, LedgerTypeCorrect, BooksAlwaysAddUp, PTL DEF LedgerSpec

-------------------------------------------------------------------------------
(* Shadow executions.                                                      *)

LEMMA TickerTypes == \A r \in Records : TickerOf[r] \in Tickers
  BY DEF Tickers

\* A sweep under way has a first row, and lists every row once, all of them open.
SweepHasRows == doing # "nothing" => queue # <<>>
RowsAreOpen ==
  \A i \in DOMAIN queue :
    /\ row[queue[i]].status = "open"
    /\ \A j \in DOMAIN queue : queue[i] = queue[j] => i = j

ListInv == ShadowTypeOK /\ SweepHasRows /\ RowsAreOpen

\* A list of due rows is not empty.
LEMMA ListingTypes ==
  ASSUME ShadowTypeOK, Due # {}, NEW l \in Listings
  PROVE  /\ l \in Seq(Records) /\ l # <<>>
         /\ \A i \in DOMAIN l : row[l[i]].status = "open"
         /\ \A i, j \in DOMAIN l : l[i] = l[j] => i = j
<1>1. IsFiniteSet(Due) /\ Due \subseteq Records
  BY FS_Subset, ShadowAssumption DEF Due
<1>2. Cardinality(Due) \in Nat /\ Cardinality(Due) # 0
  BY <1>1, FS_CardinalityType, FS_EmptySet
<1> DEFINE n == IF Cardinality(Due) < Limit THEN Cardinality(Due) ELSE Limit
<1>3. n \in Nat /\ n # 0
  BY <1>2, ShadowAssumption
<1>4. l \in [1..n -> Due] /\ \A i, j \in DOMAIN l : l[i] = l[j] => i = j
  BY DEF Listings, Lists
<1> HIDE DEF n
<1>5. l \in Seq(Records) /\ Len(l) = n
  BY <1>1, <1>3, <1>4
<1>6. \A i \in DOMAIN l : row[l[i]].status = "open"
  BY <1>4 DEF Due
<1> QED
  BY <1>3, <1>4, <1>5, <1>6

LEMMA HeadType ==
  ASSUME ListInv, doing # "nothing"
  PROVE  /\ Head(queue) \in Records /\ Ticker \in Tickers
         /\ row[Head(queue)].status = "open" /\ Len(queue) \in Nat /\ Len(queue) > 0
         /\ 1 \in DOMAIN queue /\ Head(queue) = queue[1]
<1>1. queue \in Seq(Records) /\ queue # <<>>
  BY DEF ListInv, ShadowTypeOK, SweepHasRows
<1>2. Head(queue) \in Records /\ Len(queue) \in Nat /\ Len(queue) > 0
      /\ 1 \in DOMAIN queue /\ Head(queue) = queue[1]
  BY <1>1
<1> QED
  BY <1>2, TickerTypes DEF ListInv, RowsAreOpen, Ticker

\* The verdict on a row is of a bar, if it is of one.
LEMMA VerdictType ==
  ASSUME ShadowTypeOK, NEW r \in Records
  PROVE  Verdict(r) \in [status : {"open", "resolved", "insufficient"}, bar : Int]
<1> DEFINE found == FirstFrom(DueAt[r], bars)
<1>1. found \subseteq Int
  <2>1. bars \subseteq Int
    BY ShadowAssumption DEF ShadowTypeOK
  <2> QED
    BY <2>1 DEF FirstFrom
<1>2. found # {} => (CHOOSE b \in found : TRUE) \in Int
  BY <1>1
<1> HIDE DEF found
<1>3. [status |-> "insufficient", bar |-> Never] \in [status : {"open", "resolved", "insufficient"}, bar : Int]
  BY DEF Never
<1> QED
  BY <1>2, <1>3 DEF Verdict, found

LEMMA ListInit == ShadowInit => ListInv
  BY ShadowAssumption DEF ShadowInit, ListInv, ShadowTypeOK, SweepHasRows, RowsAreOpen, Open, Never

\* What is left of the list when its first row is done.
LEMMA TailKeeps ==
  ASSUME ListInv, doing = "marking", NEW v, row' = [row EXCEPT ![Head(queue)] = v],
         queue' = Tail(queue)
  PROVE  queue' \in Seq(Records) /\ RowsAreOpen' /\ (Len(queue) > 1 => queue' # <<>>)
<1>1. queue \in Seq(Records) /\ queue # <<>> /\ Head(queue) \in Records
      /\ 1 \in DOMAIN queue /\ Head(queue) = queue[1]
  BY HeadType DEF ListInv, ShadowTypeOK
<1>2. queue' \in Seq(Records) /\ (Len(queue) > 1 => queue' # <<>>)
  <2>1. Tail(queue) \in Seq(Records) /\ Len(Tail(queue)) = Len(queue) - 1 /\ Len(queue) \in Nat
    BY <1>1
  <2>2. Len(queue) > 1 => Len(Tail(queue)) # Len(<<>>)
    BY <2>1
  <2>3. queue' \in Seq(Records)
    BY <2>1
  <2>4. Len(queue) > 1 => queue' # <<>>
    BY <2>2, Zenon
  <2> QED
    BY <2>3, <2>4
<1>3. \A i \in DOMAIN queue' :
        i \in Nat /\ i + 1 \in DOMAIN queue /\ i + 1 # 1 /\ queue'[i] = queue[i + 1]
  <2>1. Len(queue') = Len(queue) - 1 /\ Len(queue) \in Nat
    BY <1>1
  <2>2. DOMAIN queue' = 1..(Len(queue) - 1) /\ DOMAIN queue = 1..Len(queue)
    BY <1>1, <1>2, <2>1
  <2>3. \A i \in 1..(Len(queue) - 1) : queue'[i] = queue[i + 1]
    BY <1>1
  <2> QED
    BY <2>1, <2>2, <2>3
<1>4. \A i \in DOMAIN queue' : queue'[i] \in Records /\ queue'[i] # Head(queue)
  BY <1>1, <1>3 DEF ListInv, RowsAreOpen
<1>5. \A i \in DOMAIN queue' : row'[queue'[i]].status = "open"
  BY <1>3, <1>4 DEF ListInv, RowsAreOpen, ShadowTypeOK
<1>6. \A i, j \in DOMAIN queue' : queue'[i] = queue'[j] => i = j
  BY <1>3 DEF ListInv, RowsAreOpen
<1> QED
  BY <1>2, <1>5, <1>6 DEF RowsAreOpen

LEMMA ListStep == ListInv /\ [ShadowNext]_shadowVars => ListInv'
<1> SUFFICES ASSUME ListInv, [ShadowNext]_shadowVars PROVE ListInv'
  OBVIOUS
<1>0. ShadowTypeOK /\ SweepHasRows /\ RowsAreOpen
  BY DEF ListInv
<1>1. CASE UNCHANGED shadowVars
  BY <1>0, <1>1 DEF shadowVars, ListInv, ShadowTypeOK, SweepHasRows, RowsAreOpen
<1>2. CASE Sweep
  <2>1. queue' \in Listings /\ Due # {} /\ row' = row /\ doing' = "reading"
    BY <1>2 DEF Sweep
  <2>2. /\ queue' \in Seq(Records) /\ queue' # <<>>
        /\ \A i \in DOMAIN queue' : row[queue'[i]].status = "open"
        /\ \A i, j \in DOMAIN queue' : queue'[i] = queue'[j] => i = j
    BY <1>0, <2>1, ListingTypes
  <2>3. RowsAreOpen' /\ SweepHasRows'
    BY <2>1, <2>2 DEF RowsAreOpen, SweepHasRows
  <2>4. ShadowTypeOK'
    BY <1>0, <1>2, <2>2 DEF Sweep, ShadowTypeOK
  <2> QED
    BY <2>3, <2>4 DEF ListInv
<1>3. CASE CacheHit
  <2>1. Head(queue) \in Records /\ Ticker \in Tickers
    BY <1>3, HeadType DEF CacheHit
  <2> QED
    BY <1>0, <1>3, <2>1 DEF CacheHit, ListInv, ShadowTypeOK, SweepHasRows, RowsAreOpen
<1>4. CASE CacheMiss
  BY <1>0, <1>4 DEF CacheMiss, ListInv, ShadowTypeOK, SweepHasRows, RowsAreOpen
<1>5. CASE Fetch
  <2>1. Head(queue) \in Records /\ Ticker \in Tickers
    BY <1>5, HeadType DEF Fetch
  <2>2. bars' \subseteq 0..Horizon
    <3>1. PICK last \in (minute - Lag)..minute : bars' = Answer(Ticker, last)
      BY <1>5 DEF Fetch
    <3> QED
      BY <2>1, <3>1, ShadowAssumption DEF Answer
  <2>3. CacheTTL \in 0..CacheTTL
    BY ShadowAssumption
  <2>4. ShadowTypeOK'
    BY <1>0, <1>5, <2>1, <2>2, <2>3 DEF Fetch, Keep, ShadowTypeOK
  <2>5. SweepHasRows' /\ RowsAreOpen'
    BY <1>0, <1>5 DEF Fetch, SweepHasRows, RowsAreOpen
  <2> QED
    BY <2>4, <2>5 DEF ListInv
<1>6. CASE MarkResolved
  <2>1. /\ row' = [row EXCEPT ![Head(queue)] = Verdict(Head(queue))]
        /\ queue' = Tail(queue) /\ doing = "marking" /\ Head(queue) \in Records
    BY <1>6, HeadType DEF MarkResolved
  <2>2. Verdict(Head(queue)) \in [status : {"open", "resolved", "insufficient"}, bar : Int]
    BY <1>0, <2>1, VerdictType
  <2>3. queue' \in Seq(Records) /\ RowsAreOpen' /\ (Len(queue) > 1 => queue' # <<>>)
    BY <2>1, TailKeeps
  <2>4. ShadowTypeOK'
    BY <1>0, <1>6, <2>1, <2>2, <2>3 DEF MarkResolved, ShadowTypeOK
  <2>5. SweepHasRows'
    BY <1>6, <2>3 DEF MarkResolved, SweepHasRows
  <2> QED
    BY <2>3, <2>4, <2>5 DEF ListInv
<1>7. CASE SweepFails
  <2>1. hitches' \in 0..MaxHitches
    BY <1>0, <1>7, ShadowAssumption DEF SweepFails, Hitch, ShadowTypeOK
  <2> QED
    BY <1>0, <1>7, <2>1 DEF SweepFails, ListInv, ShadowTypeOK, SweepHasRows, RowsAreOpen
<1>8. CASE Minute
  <2>1. minute' \in 0..Horizon /\ fresh' \in [Tickers -> 0..CacheTTL]
    BY <1>0, <1>8, ShadowAssumption DEF Minute, ShadowTypeOK
  <2> QED
    BY <1>0, <1>8, <2>1 DEF Minute, ListInv, ShadowTypeOK, SweepHasRows, RowsAreOpen
<1>9. CASE ShadowRestarts
  <2>1. hitches' \in 0..MaxHitches /\ fresh' \in [Tickers -> 0..CacheTTL]
    BY <1>0, <1>9, ShadowAssumption DEF ShadowRestarts, Hitch, ShadowTypeOK
  <2> QED
    BY <1>0, <1>9, <2>1 DEF ShadowRestarts, ListInv, ShadowTypeOK, SweepHasRows, RowsAreOpen
<1> QED
  BY <1>1, <1>2, <1>3, <1>4, <1>5, <1>6, <1>7, <1>8, <1>9 DEF ShadowNext, Resolves

\* Types, for any list of due rows a sweep may be given.
THEOREM ShadowTypeCorrect == ShadowSpec => []ShadowTypeOK
<1>1. ListInv => ShadowTypeOK
  BY DEF ListInv
<1> QED
  BY <1>1, ListInit, ListStep, PTL DEF ShadowSpec

\* bs is what a source answered at minute c, as late as it may be.
AnswerOf(t, bs, c) ==
  /\ c \in Nat
  /\ \E last \in (c - Lag)..c : bs = {b \in BarsAt[t] : b > c - Session /\ b <= last}

\* What the cache keeps was answered no longer ago than its life so far.
CacheIsRecent ==
  \A t \in Tickers : fresh[t] > 0 =>
    \E c \in Nat : /\ c <= minute /\ minute - c <= CacheTTL - fresh[t]
                   /\ AnswerOf(t, cache[t], c)

\* The bars a row is about to be judged by were answered at most the life of an answer
\* before they were read.
BarsAreRecent ==
  doing = "marking" =>
    \E c \in Nat : /\ c <= readAt[Head(queue)] /\ readAt[Head(queue)] - c <= CacheTTL
                   /\ AnswerOf(Ticker, bars, c)

VerdictInv == CacheIsRecent /\ BarsAreRecent /\ VerdictsExplained

\* The first bar not before a time is there when there is any.
LEMMA FirstExists ==
  ASSUME NEW due \in Nat, NEW bs, bs \subseteq Nat
  PROVE  /\ FirstFrom(due, bs) = {} => \A b \in bs : b < due
         /\ \A b \in FirstFrom(due, bs) :
              b \in bs /\ b >= due /\ \A d \in bs : d >= due => b <= d
<1> DEFINE after == {b \in bs : b >= due}
<1>1. ASSUME after # {} PROVE FirstFrom(due, bs) # {}
  <2>1. after \subseteq Nat
    OBVIOUS
  <2>2. PICK b \in after : \A d \in after : b <= d
    <3> HIDE DEF after
    <3> QED
      BY <1>1, <2>1, LeastExists
  <2>3. b \in FirstFrom(due, bs)
    BY <2>2 DEF FirstFrom
  <2> QED
    BY <2>3
<1>2. \A b \in bs : b \in after \/ b < due
  OBVIOUS
<1> QED
  BY <1>1, <1>2 DEF FirstFrom

\* The verdict on a row, from a recent answer, is explained.
LEMMA VerdictIsExplained ==
  ASSUME ShadowTypeOK, NEW r \in Records, NEW c \in Nat, NEW at0 \in Int,
         c <= at0, at0 - c <= CacheTTL, AnswerOf(TickerOf[r], bars, c),
         NEW v, v = Verdict(r)
  PROVE  /\ v.status \in {"insufficient", "resolved"}
         /\ v.status = "resolved" => v.bar >= DueAt[r]
         /\ \A b \in BarsAt[TickerOf[r]] :
              DueAt[r] <= b /\ at0 < b + Session =>
                /\ v.status = "insufficient" => at0 < b + CacheTTL + Lag
                /\ v.status = "resolved" => v.bar <= b
<1> DEFINE t == TickerOf[r]
           found == FirstFrom(DueAt[r], bars)
<1>1. /\ DueAt[r] \in Nat /\ BarsAt[t] \subseteq Nat /\ Lag \in Nat /\ CacheTTL \in Nat
      /\ Session \in Nat /\ Session > 0
  BY ShadowAssumption, TickerTypes
<1>2. PICK last \in (c - Lag)..c : bars = {b \in BarsAt[t] : b > c - Session /\ b <= last}
  BY DEF AnswerOf
<1>3. last \in Int /\ c - Lag <= last /\ last <= c
  BY <1>1, <1>2
<1>4. bars \subseteq Nat /\ bars \subseteq BarsAt[t] /\ \A b \in bars : b <= last
  BY <1>1, <1>2
<1>5. /\ found = {} => \A b \in bars : b < DueAt[r]
      /\ \A b \in found : b \in bars /\ b >= DueAt[r] /\ \A d \in bars : d >= DueAt[r] => b <= d
  BY <1>1, <1>4, FirstExists
<1>6. ASSUME NEW b \in BarsAt[t], at0 < b + Session, b \notin bars
      PROVE  b > last
  <2>1. b \in Nat /\ b > c - Session
    BY <1>1, <1>6
  <2> QED
    BY <1>2, <1>3, <1>6, <2>1
<1>7. CASE found = {}
  <2>1. v.status = "insufficient"
    BY <1>7 DEF Verdict
  <2>2. ASSUME NEW b \in BarsAt[t], DueAt[r] <= b, at0 < b + Session
        PROVE  at0 < b + CacheTTL + Lag
    <3>1. b \in Nat
      BY <1>1
    <3>2. b \notin bars
      BY <1>1, <1>5, <1>7, <2>2, <3>1
    <3>3. b > last
      BY <1>6, <2>2, <3>2
    <3> QED
      BY <1>1, <1>3, <3>1, <3>3
  <2> QED
    BY <2>1, <2>2
<1>8. CASE found # {}
  <2> DEFINE w == CHOOSE b \in found : TRUE
  <2>1. w \in found
    BY <1>8
  <2>2. v.status = "resolved" /\ v.bar = w
    BY <1>8 DEF Verdict
  <2> HIDE DEF w
  <2>3. w \in Nat /\ w \in bars /\ w >= DueAt[r] /\ w <= last
    BY <1>4, <1>5, <2>1
  <2>4. ASSUME NEW b \in BarsAt[t], DueAt[r] <= b, at0 < b + Session
        PROVE  w <= b
    <3>1. b \in Nat
      BY <1>1
    <3>2. CASE b \in bars
      BY <1>5, <2>1, <2>4, <3>1, <3>2
    <3>3. CASE b \notin bars
      <4>1. b > last
        BY <1>6, <2>4, <3>3
      <4> QED
        BY <1>3, <2>3, <3>1, <4>1
    <3> QED
      BY <3>2, <3>3
  <2> QED
    BY <2>2, <2>3, <2>4
<1> QED
  BY <1>7, <1>8

LEMMA VerdictInit == ShadowInit => VerdictInv
  BY DEF ShadowInit, VerdictInv, CacheIsRecent, BarsAreRecent, VerdictsExplained, Open

\* A row that is judged stays as it is, with the minute its bars were read.
RowStands(r) == row[r].status # "open" => row'[r] = row[r] /\ readAt'[r] = readAt[r]

LEMMA RowsStand ==
  ASSUME ListInv, [ShadowNext]_shadowVars
  PROVE  \A r \in Records : RowStands(r)
<1>1. CASE row' = row /\ readAt' = readAt
  BY <1>1 DEF RowStands
<1>2. CASE CacheHit \/ Fetch \/ MarkResolved
  <2>1. Head(queue) \in Records /\ row[Head(queue)].status = "open"
    BY <1>2, HeadType DEF CacheHit, Fetch, MarkResolved
  <2>2. \A r \in Records : r # Head(queue) => row'[r] = row[r] /\ readAt'[r] = readAt[r]
    BY <1>2, <2>1 DEF CacheHit, Fetch, MarkResolved, ListInv, ShadowTypeOK
  <2> QED
    BY <2>1, <2>2 DEF RowStands
<1> QED
  BY <1>1, <1>2
  DEF ShadowNext, Resolves, shadowVars, Sweep, CacheMiss, SweepFails, Minute, ShadowRestarts

\* As long as no row is judged, the verdicts stay explained.
LEMMA OthersStayExplained ==
  ASSUME VerdictsExplained, row' = row, \A r \in Records : RowStands(r)
  PROVE  VerdictsExplained'
<1>1. ASSUME NEW r \in Records, row[r].status \in {"resolved", "insufficient"}
      PROVE  row'[r] = row[r] /\ readAt'[r] = readAt[r]
  BY <1>1 DEF RowStands
<1> QED
  BY <1>1, Zenon DEF VerdictsExplained

LEMMA VerdictStep == ListInv /\ VerdictInv /\ [ShadowNext]_shadowVars => VerdictInv'
<1> SUFFICES ASSUME ListInv, VerdictInv, [ShadowNext]_shadowVars PROVE VerdictInv'
  OBVIOUS
<1>0. /\ ShadowTypeOK /\ CacheIsRecent /\ BarsAreRecent /\ VerdictsExplained
      /\ \A r \in Records : RowStands(r)
      /\ minute \in Nat /\ CacheTTL \in Nat /\ Lag \in Nat
  BY RowsStand, ShadowAssumption DEF ListInv, VerdictInv, ShadowTypeOK
<1>1. CASE UNCHANGED shadowVars
  <2>1. VerdictsExplained'
    BY <1>0, <1>1, OthersStayExplained DEF shadowVars
  <2>2. CacheIsRecent' /\ BarsAreRecent'
    BY <1>0, <1>1 DEF shadowVars, CacheIsRecent, BarsAreRecent, AnswerOf, Ticker
  <2> QED
    BY <2>1, <2>2 DEF VerdictInv
<1>2. CASE Sweep \/ CacheMiss \/ SweepFails \/ ShadowRestarts
  <2>1. /\ minute' = minute /\ row' = row /\ cache' = cache /\ doing' # "marking"
        /\ fresh' = fresh \/ fresh' = [t \in Tickers |-> 0]
    BY <1>2 DEF Sweep, CacheMiss, SweepFails, ShadowRestarts
  <2>2. VerdictsExplained'
    BY <1>0, <2>1, OthersStayExplained
  <2>3. CacheIsRecent'
    BY <1>0, <2>1 DEF CacheIsRecent, AnswerOf
  <2> QED
    BY <2>1, <2>2, <2>3 DEF VerdictInv, BarsAreRecent
<1>3. CASE CacheHit
  <2>1. Head(queue) \in Records /\ Ticker \in Tickers
    BY <1>3, HeadType DEF CacheHit
  <2>2. /\ fresh[Ticker] > 0 /\ bars' = cache[Ticker] /\ queue' = queue /\ minute' = minute
        /\ readAt'[Head(queue)] = minute /\ cache' = cache /\ fresh' = fresh /\ row' = row
        /\ fresh[Ticker] \in Nat
    BY <1>0, <1>3, <2>1 DEF CacheHit, ShadowTypeOK
  <2>3. PICK c \in Nat : /\ c <= minute /\ minute - c <= CacheTTL - fresh[Ticker]
                         /\ AnswerOf(Ticker, cache[Ticker], c)
    BY <1>0, <2>1, <2>2 DEF CacheIsRecent
  <2>4. /\ c <= readAt'[Head(queue')] /\ readAt'[Head(queue')] - c <= CacheTTL
        /\ AnswerOf(Ticker', bars', c)
    BY <1>0, <2>2, <2>3 DEF AnswerOf, Ticker
  <2>5. BarsAreRecent'
    BY <2>3, <2>4 DEF BarsAreRecent, AnswerOf
  <2>6. CacheIsRecent'
    BY <1>0, <2>2 DEF CacheIsRecent, AnswerOf
  <2>7. VerdictsExplained'
    BY <1>0, <2>2, OthersStayExplained
  <2> QED
    BY <2>5, <2>6, <2>7 DEF VerdictInv
<1>4. CASE Fetch
  <2>1. Head(queue) \in Records /\ Ticker \in Tickers
    BY <1>4, HeadType DEF Fetch
  <2>2. /\ queue' = queue /\ minute' = minute /\ row' = row
        /\ readAt'[Head(queue)] = minute
        /\ cache' = [cache EXCEPT ![Ticker] = bars'] /\ fresh' = [fresh EXCEPT ![Ticker] = CacheTTL]
    BY <1>0, <1>4, <2>1 DEF Fetch, Keep, ShadowTypeOK
  <2>3. AnswerOf(Ticker, bars', minute)
    BY <1>0, <1>4 DEF Fetch, AnswerOf, Answer
  <2>4. BarsAreRecent'
    <3>1. /\ minute <= readAt'[Head(queue')] /\ readAt'[Head(queue')] - minute <= CacheTTL
          /\ AnswerOf(Ticker', bars', minute)
      BY <1>0, <2>2, <2>3 DEF AnswerOf, Ticker
    <3> QED
      BY <1>0, <3>1 DEF BarsAreRecent, AnswerOf
  <2>5. CacheIsRecent'
    <3> SUFFICES ASSUME NEW t \in Tickers, fresh'[t] > 0
                 PROVE  \E c \in Nat : /\ c <= minute /\ minute - c <= CacheTTL - fresh'[t]
                                       /\ AnswerOf(t, cache'[t], c)
      BY <2>2 DEF CacheIsRecent, AnswerOf
    <3>1. CASE t = Ticker
      <4>1. fresh'[t] = CacheTTL /\ cache'[t] = bars'
        BY <1>0, <2>1, <2>2, <3>1 DEF ShadowTypeOK
      <4> QED
        BY <1>0, <2>3, <3>1, <4>1
    <3>2. CASE t # Ticker
      <4>1. fresh'[t] = fresh[t] /\ cache'[t] = cache[t]
        BY <1>0, <2>1, <2>2, <3>2 DEF ShadowTypeOK
      <4> QED
        BY <1>0, <4>1 DEF CacheIsRecent
    <3> QED
      BY <3>1, <3>2
  <2>6. VerdictsExplained'
    BY <1>0, <2>2, OthersStayExplained
  <2> QED
    BY <2>4, <2>5, <2>6 DEF VerdictInv
<1>5. CASE MarkResolved
  <2> DEFINE q == Head(queue)
  <2>1. q \in Records /\ doing = "marking"
    BY <1>5, HeadType DEF MarkResolved
  <2>2. /\ minute' = minute /\ cache' = cache /\ fresh' = fresh /\ readAt' = readAt
        /\ doing' # "marking" /\ row' = [row EXCEPT ![q] = Verdict(q)]
    BY <1>5 DEF MarkResolved
  <2>3. PICK c \in Nat : c <= readAt[q] /\ readAt[q] - c <= CacheTTL /\ AnswerOf(TickerOf[q], bars, c)
    BY <1>0, <2>1 DEF BarsAreRecent, Ticker
  <2>4. readAt[q] \in Int /\ row'[q] = Verdict(q)
    BY <1>0, <2>1, <2>2 DEF ShadowTypeOK
  <2> HIDE DEF q
  <2>5. /\ row'[q].status = "resolved" => row'[q].bar >= DueAt[q]
        /\ \A b \in BarsAt[TickerOf[q]] :
             DueAt[q] <= b /\ readAt[q] < b + Session =>
               /\ row'[q].status = "insufficient" => readAt[q] < b + CacheTTL + Lag
               /\ row'[q].status = "resolved" => row'[q].bar <= b
    BY <1>0, <2>1, <2>3, <2>4, VerdictIsExplained
  <2>6. \A r \in Records \ {q} : row'[r] = row[r]
    BY <1>0, <2>1, <2>2 DEF ShadowTypeOK
  <2>7. VerdictsExplained'
    <3> SUFFICES ASSUME NEW r \in Records
                 PROVE  /\ row'[r].status = "resolved" => row'[r].bar >= DueAt[r]
                        /\ \A b \in BarsAt[TickerOf[r]] :
                             DueAt[r] <= b /\ readAt[r] < b + Session =>
                               /\ row'[r].status = "insufficient" => readAt[r] < b + CacheTTL + Lag
                               /\ row'[r].status = "resolved" => row'[r].bar <= b
      BY <2>2 DEF VerdictsExplained
    <3>1. CASE r = q
      BY <2>5, <3>1
    <3>2. CASE r # q
      BY <1>0, <2>6, <3>2 DEF VerdictsExplained
    <3> QED
      BY <3>1, <3>2
  <2>8. CacheIsRecent' /\ BarsAreRecent'
    BY <1>0, <2>2 DEF CacheIsRecent, BarsAreRecent, AnswerOf
  <2> QED
    BY <2>7, <2>8 DEF VerdictInv
<1>6. CASE Minute
  <2>1. /\ queue' = queue /\ doing' = doing /\ bars' = bars /\ cache' = cache
        /\ row' = row /\ readAt' = readAt /\ minute' \in {minute, minute + 1}
        /\ fresh' = [t \in Tickers |-> IF fresh[t] > 0 THEN fresh[t] - 1 ELSE 0]
    BY <1>6 DEF Minute
  <2>2. VerdictsExplained'
    BY <1>0, <2>1, OthersStayExplained
  <2>3. BarsAreRecent'
    BY <1>0, <2>1 DEF BarsAreRecent, AnswerOf, Ticker
  <2>4. CacheIsRecent'
    <3> SUFFICES ASSUME NEW t \in Tickers, fresh'[t] > 0
                 PROVE  \E c \in Nat : /\ c <= minute' /\ minute' - c <= CacheTTL - fresh'[t]
                                       /\ AnswerOf(t, cache[t], c)
      BY <2>1 DEF CacheIsRecent, AnswerOf
    <3>1. fresh[t] > 0 /\ fresh'[t] = fresh[t] - 1 /\ fresh[t] \in Nat
      BY <1>0, <2>1 DEF ShadowTypeOK
    <3>2. PICK c \in Nat : /\ c <= minute /\ minute - c <= CacheTTL - fresh[t]
                           /\ AnswerOf(t, cache[t], c)
      BY <1>0, <3>1 DEF CacheIsRecent
    <3>3. c <= minute' /\ minute' - c <= CacheTTL - fresh'[t]
      BY <1>0, <2>1, <3>1, <3>2
    <3> QED
      BY <3>2, <3>3
  <2> QED
    BY <2>2, <2>3, <2>4 DEF VerdictInv
<1> QED
  BY <1>1, <1>2, <1>3, <1>4, <1>5, <1>6 DEF ShadowNext, Resolves

\* Verdicts are explained, whatever the sources answer how late, however long answers are
\* kept and whatever fails, for any rows that are due at any time.
THEOREM VerdictsAreExplained == ShadowSpec => []VerdictsExplained
<1>1. VerdictInv => VerdictsExplained
  BY DEF VerdictInv
<1> QED
  BY <1>1, ListInit, ListStep, VerdictInit, VerdictStep, PTL DEF ShadowSpec

\* A row that has ended, in whatever way, is never looked at again.
VerdictsStand == [][\A r \in Records : RowStands(r)]_shadowVars

THEOREM VerdictsAreFinal == ShadowSpec => VerdictsStand
<1>1. ListInv /\ [ShadowNext]_shadowVars => [\A r \in Records : RowStands(r)]_shadowVars
  BY RowsStand
<1> QED
  BY <1>1, ListInit, ListStep, PTL DEF ShadowSpec, VerdictsStand

===============================================================================
