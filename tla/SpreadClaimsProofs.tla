-------------------------- MODULE SpreadClaimsProofs --------------------------
(***************************************************************************)
(* What a claim is worth, for any number of observations and requests: two *)
(* clients trade one observation only after a claim was lost under its     *)
(* holder, and with reads that work and executions that are not slow, no   *)
(* claim ever is.                                                          *)
(***************************************************************************)
EXTENDS SpreadClaims, SequenceTheorems, TLAPS

\* A client that relies on a claim nobody has upset has it, in its own name, and
\* it has not lapsed.
ClaimInv ==
  \A c \in Clients : Holds(c) /\ obs[c] \notin exposed =>
    claimed[obs[c]] /\ ~stale[obs[c]] /\ holder[obs[c]] = c

IInv == ClaimsTypeOK /\ ClaimInv

-------------------------------------------------------------------------------
(* Types.                                                                  *)

LEMMA InitTypeOK == ClaimsInit => ClaimsTypeOK
  BY QueueAssumption DEF ClaimsInit, ClaimsTypeOK, ClientPlaces, Clients

LEMMA EnqueueTypeOK ==
  ASSUME NEW q \in Seq(Observations), Len(q) <= QueueLimit, NEW o \in Observations
  PROVE  Enqueue(q, o) \in Seq(Observations) /\ Len(Enqueue(q, o)) <= QueueLimit
<1>1. CASE Len(q) >= QueueLimit
  <2>1. q # <<>>
    BY <1>1, QueueAssumption
  <2>2. Tail(q) \in Seq(Observations) /\ Len(Tail(q)) = Len(q) - 1
    BY <2>1, HeadTailProperties
  <2>3. QED
    BY <1>1, <2>2, QueueAssumption, AppendProperties DEF Enqueue
<1>2. CASE ~(Len(q) >= QueueLimit)
  BY <1>2, QueueAssumption, AppendProperties DEF Enqueue
<1>3. QED
  BY <1>1, <1>2

LEMMA DequeueTypeOK ==
  ASSUME NEW q \in Seq(Observations), Len(q) <= QueueLimit, q # <<>>
  PROVE  Tail(q) \in Seq(Observations) /\ Len(Tail(q)) <= QueueLimit /\ Head(q) \in Observations
<1>1. Tail(q) \in Seq(Observations) /\ Len(Tail(q)) = Len(q) - 1 /\ Head(q) \in Observations
  BY HeadTailProperties
<1>2. Len(q) \in Nat
  BY LenProperties
<1>3. QED
  BY <1>1, <1>2, QueueAssumption

\* A client that moves to a stage in which it deals with an observation has one.
LEMMA GotoTypeOK ==
  ASSUME ClaimsTypeOK, NEW c \in Clients, NEW from \in ClientPlaces, NEW to \in ClientPlaces, ClientGoes(c, from, to),
         UNCHANGED obs, to \in {"idle", "ended"} \/ from \notin {"idle", "ended"}
  PROVE  /\ stage' \in [Clients -> ClientPlaces]
         /\ obs' \in [Clients -> Observations \cup {"none"}]
         /\ \A d \in Clients : stage'[d] \notin {"idle", "ended"} => obs'[d] \in Observations
<1>1. stage[c] = from /\ stage' = [stage EXCEPT ![c] = to]
  BY DEF ClientGoes
<1>2. QED
  BY <1>1 DEF ClaimsTypeOK

LEMMA SetClaimTypeOK ==
  ASSUME ClaimsTypeOK, NEW c \in Clients, NEW o \in Observations, SetClaim(c, o)
  PROVE  /\ claimed' \in [Observations -> BOOLEAN]
         /\ stale' \in [Observations -> BOOLEAN]
         /\ holder' \in [Observations -> Clients \cup {"nobody"}]
  BY DEF ClaimsTypeOK, SetClaim

LEMMA ClearClaimTypeOK ==
  ASSUME ClaimsTypeOK, NEW c \in Clients, NEW o \in Observations, ClearClaim(c, o)
  PROVE  /\ claimed' \in [Observations -> BOOLEAN]
         /\ stale' \in [Observations -> BOOLEAN]
         /\ holder' \in [Observations -> Clients \cup {"nobody"}]
         /\ exposed' \subseteq Observations
  BY DEF ClaimsTypeOK, ClearClaim

LEMMA VenueType ==
  ASSUME NEW c \in Clients, NEW o \in Observations
  PROVE  SellingVenue(c, o) \in {"none", "kalshi", "polymarket"}
  BY DEF SellingVenue

LEMMA NextTypeOK == ClaimsTypeOK /\ [ClaimsNext]_claimsVars => ClaimsTypeOK'
<1> SUFFICES ASSUME ClaimsTypeOK, [ClaimsNext]_claimsVars PROVE ClaimsTypeOK'
  OBVIOUS
<1> USE DEF table, client
<1>1. ASSUME NEW o \in Observations, RecordSpread(o) PROVE ClaimsTypeOK'
  BY <1>1 DEF ClaimsTypeOK, RecordSpread
<1>2. ASSUME NEW o \in Observations, Publish(o) PROVE ClaimsTypeOK'
  BY <1>2, EnqueueTypeOK DEF ClaimsTypeOK, Publish
<1>3. ASSUME NEW o \in Observations, Lapse(o) PROVE ClaimsTypeOK'
  BY <1>3 DEF ClaimsTypeOK, Lapse
<1>4. CASE Skip
  BY <1>4, DequeueTypeOK DEF ClaimsTypeOK, Skip
<1>5. CASE Consider
  <2>1. /\ stage' = [stage EXCEPT ![Executor] = "claiming"]
        /\ obs' = [obs EXCEPT ![Executor] = Head(queue)]
        /\ queue # <<>> /\ queue' = Tail(queue)
        /\ UNCHANGED <<scan, claimed, stale, holder, sells, active, exposed, done>>
    BY <1>5 DEF Consider, ClientGoes
  <2>2. Head(queue) \in Observations /\ queue' \in Seq(Observations) /\ Len(queue') <= QueueLimit
    BY <2>1, DequeueTypeOK DEF ClaimsTypeOK
  <2>3. QED
    BY <2>1, <2>2 DEF ClaimsTypeOK, ClientPlaces
<1>6. ASSUME NEW r \in Requests, NEW o \in Observations, Ask(r, o) PROVE ClaimsTypeOK'
  BY <1>6 DEF ClaimsTypeOK, Ask, ClientGoes, ClientPlaces, Clients
<1>7. CASE ExecutorClaims
  <2>1. Executor \in Clients /\ obs[Executor] \in Observations
    BY <1>7 DEF ExecutorClaims, ClientGoes, ClaimsTypeOK, Clients
  <2>2. sells' \in [Clients -> {"none", "kalshi", "polymarket"}]
    BY <1>7, <2>1, VenueType DEF ExecutorClaims, ClaimsTypeOK
  <2>3. active' \subseteq Pairs
    BY <1>7, <2>1, MarketAssumption DEF ExecutorClaims, ClaimsTypeOK
  <2>4. QED
    BY <1>7, <2>1, <2>2, <2>3, GotoTypeOK, SetClaimTypeOK DEF ExecutorClaims, ClaimsTypeOK, ClientPlaces
<1>8. ASSUME NEW r \in Requests, RequestClaims(r) PROVE ClaimsTypeOK'
  <2>1. r \in Clients /\ obs[r] \in Observations
    BY <1>8 DEF RequestClaims, ClientGoes, ClaimsTypeOK, Clients
  <2>2. QED
    BY <1>8, <2>1, GotoTypeOK, SetClaimTypeOK DEF RequestClaims, ClaimsTypeOK, ClientPlaces
<1>9. ASSUME NEW c \in Clients, ClaimRefused(c) \/ ClaimRaises(c) PROVE ClaimsTypeOK'
  <2>1. /\ obs[c] \in Observations /\ ClientGoes(c, "claiming", Rest(c))
        /\ UNCHANGED <<scan, queue, obs, sells, active, exposed, done>>
    BY <1>9 DEF ClaimRefused, ClaimRaises, ClientGoes, ClaimsTypeOK
  <2>2. UNCHANGED table \/ SetClaim(c, obs[c])
    BY <1>9 DEF ClaimRefused, ClaimRaises
  <2>3. QED
    BY <2>1, <2>2, GotoTypeOK, SetClaimTypeOK DEF ClaimsTypeOK, ClientPlaces, Rest
<1>10. ASSUME NEW r \in Requests,
              \/ Fetch(r) \/ FetchFails(r) \/ BadSequencing(r)
              \/ RequestFinishes(r) \/ RequestRaises(r)
       PROVE  ClaimsTypeOK'
  <2>1. /\ r \in Clients /\ obs[r] \in Observations
        /\ UNCHANGED <<scan, queue, claimed, stale, holder, obs, active, exposed>>
        /\ \/ ClientGoes(r, "fetching", "executing") \/ ClientGoes(r, "fetching", "clearing")
           \/ ClientGoes(r, "fetching", "releasing") \/ ClientGoes(r, "executing", "ended")
           \/ ClientGoes(r, "executing", "releasing")
    BY <1>10 DEF Fetch, FetchFails, BadSequencing, RequestFinishes, RequestRaises, ClientGoes,
         ClaimsTypeOK, Clients
  <2>2. sells' \in [Clients -> {"none", "kalshi", "polymarket"}]
    BY <1>10, <2>1, VenueType
    DEF Fetch, FetchFails, BadSequencing, RequestFinishes, RequestRaises, ClaimsTypeOK
  <2>3. done' \subseteq Observations
    BY <1>10, <2>1
    DEF Fetch, FetchFails, BadSequencing, RequestFinishes, RequestRaises, ClaimsTypeOK
  <2>4. QED
    BY <2>1, <2>2, <2>3, GotoTypeOK DEF ClaimsTypeOK, ClientPlaces
<1>11. ASSUME NEW c \in Clients, Clear(c) \/ Release(c) PROVE ClaimsTypeOK'
  <2>1. /\ obs[c] \in Observations /\ UNCHANGED <<scan, queue, obs, sells, active, done>>
        /\ ClearClaim(c, obs[c]) \/ UNCHANGED <<table, exposed>>
        /\ \E from \in {"clearing", "releasing", "again"} :
             ClientGoes(c, from, "again") \/ ClientGoes(c, from, Rest(c))
    BY <1>11 DEF Clear, Release, ClientGoes, ClaimsTypeOK
  <2>2. QED
    BY <2>1, GotoTypeOK, ClearClaimTypeOK DEF ClaimsTypeOK, ClientPlaces, Rest
<1>12. CASE ExecutorFinishes
  <2>1. Executor \in Clients
    BY DEF Clients
  <2>2. QED
    BY <1>12, <2>1, GotoTypeOK DEF ExecutorFinishes, ClaimsTypeOK, ClientPlaces
<1>13. CASE ProcessDies
  BY <1>13, EmptySeq, QueueAssumption DEF ProcessDies, ClaimsTypeOK, ClientPlaces, Rest
<1>14. CASE UNCHANGED claimsVars
  BY <1>14 DEF claimsVars, ClaimsTypeOK
<1>15. Executor \in Clients /\ Requests \subseteq Clients
  BY DEF Clients
<1>16. QED
  BY <1>1, <1>2, <1>3, <1>4, <1>5, <1>6, <1>7, <1>8, <1>9, <1>10, <1>11, <1>12, <1>13, <1>14, <1>15
  DEF ClaimsNext, ExecutorStep, RequestStep

\* Every variable keeps its type; the executor's queue never exceeds its limit.
THEOREM ClaimsTypeCorrect == ClaimsSpec => []ClaimsTypeOK
<1>1. ClaimsInit => ClaimsTypeOK
  BY InitTypeOK
<1>2. ClaimsTypeOK /\ [ClaimsNext]_claimsVars => ClaimsTypeOK'
  BY NextTypeOK
<1>3. QED
  BY <1>1, <1>2, PTL DEF ClaimsSpec

-------------------------------------------------------------------------------
(* The claims.                                                             *)

\* A step that leaves the table alone, and after which no more clients rely on
\* their claim than before.
LEMMA QuietStep ==
  ASSUME IInv, UNCHANGED <<table, exposed>>,
         \A c \in Clients : Holds(c)' => Holds(c) /\ obs'[c] = obs[c]
  PROVE  ClaimInv'
  BY DEF IInv, ClaimInv, table

\* Setting a claim takes nothing from a client that relies on its own.
LEMMA SetClaimInv ==
  ASSUME IInv, NEW c \in Clients, NEW o \in Observations, obs[c] = o, ~Holds(c),
         Claimable(o), SetClaim(c, o), UNCHANGED <<obs, exposed>>,
         \A d \in Clients \ {c} : Holds(d)' = Holds(d)
  PROVE  ClaimInv'
<1> SUFFICES ASSUME NEW d \in Clients, Holds(d)', obs[d] \notin exposed
             PROVE  (claimed[obs[d]] /\ ~stale[obs[d]] /\ holder[obs[d]] = d)'
  BY DEF ClaimInv
<1> USE DEF SetClaim
<1>1. CASE d = c
  BY <1>1 DEF IInv, ClaimsTypeOK
<1>2. CASE d # c
  <2>1. claimed[obs[d]] /\ ~stale[obs[d]] /\ holder[obs[d]] = d
    BY <1>2 DEF IInv, ClaimInv
  <2>2. obs[d] # o
    BY <2>1 DEF Claimable
  <2>3. QED
    BY <2>1, <2>2 DEF IInv, ClaimsTypeOK
<1>3. QED
  BY <1>1, <1>2

\* Clearing it takes it from the clients it then exposes, and from no other.
LEMMA ClearClaimInv ==
  ASSUME IInv, NEW c \in Clients, NEW o \in Observations, obs[c] = o, ClearClaim(c, o),
         UNCHANGED obs, ~Holds(c)', \A d \in Clients \ {c} : Holds(d)' = Holds(d)
  PROVE  ClaimInv'
<1> SUFFICES ASSUME NEW d \in Clients, Holds(d)', obs[d] \notin exposed'
             PROVE  (claimed[obs[d]] /\ ~stale[obs[d]] /\ holder[obs[d]] = d)'
  BY DEF ClaimInv
<1>1. d # c /\ Holds(d)
  OBVIOUS
<1>2. obs[d] # o /\ obs[d] \notin exposed
  BY <1>1 DEF ClearClaim
<1>3. claimed[obs[d]] /\ ~stale[obs[d]] /\ holder[obs[d]] = d
  BY <1>1, <1>2 DEF IInv, ClaimInv
<1>4. QED
  BY <1>2, <1>3 DEF ClearClaim, IInv, ClaimsTypeOK

LEMMA NextClaimInv == IInv /\ [ClaimsNext]_claimsVars => ClaimInv'
<1> SUFFICES ASSUME IInv, [ClaimsNext]_claimsVars PROVE ClaimInv'
  OBVIOUS
<1> USE DEF client, ClientGoes, Rest
<1>0. ClaimsTypeOK /\ Executor \in Clients /\ Requests \subseteq Clients
  BY DEF IInv, Clients
<1>1. ASSUME NEW o \in Observations, RecordSpread(o) \/ Publish(o) PROVE ClaimInv'
  BY <1>1, QuietStep DEF RecordSpread, Publish, Holds
<1>2. ASSUME NEW o \in Observations, Lapse(o) PROVE ClaimInv'
  <2> SUFFICES ASSUME NEW d \in Clients, Holds(d)', obs'[d] \notin exposed'
               PROVE  (claimed[obs[d]] /\ ~stale[obs[d]] /\ holder[obs[d]] = d)'
    BY DEF ClaimInv
  <2>1. /\ UNCHANGED <<claimed, holder, stage, obs>> /\ stale' = [stale EXCEPT ![o] = TRUE]
        /\ exposed' = IF \E c \in Clients : Holds(c) /\ obs[c] = o
                      THEN exposed \cup {o} ELSE exposed
    BY <1>2 DEF Lapse
  <2>2. Holds(d) /\ obs[d] # o /\ obs[d] \notin exposed
    BY <2>1 DEF Holds
  <2>3. QED
    BY <2>1, <2>2 DEF IInv, ClaimInv, ClaimsTypeOK
<1>3. CASE Skip \/ Consider
  <2>1. UNCHANGED <<table, exposed>>
    BY <1>3 DEF Skip, Consider
  <2>2. \A c \in Clients : Holds(c)' => Holds(c) /\ obs'[c] = obs[c]
    BY <1>0, <1>3 DEF Skip, Consider, Holds, ClaimsTypeOK
  <2>3. QED
    BY <2>1, <2>2, QuietStep
<1>4. ASSUME NEW r \in Requests, NEW o \in Observations, Ask(r, o) PROVE ClaimInv'
  <2>1. UNCHANGED <<table, exposed>>
    BY <1>4 DEF Ask
  <2>2. \A c \in Clients : Holds(c)' => Holds(c) /\ obs'[c] = obs[c]
    BY <1>0, <1>4 DEF Ask, Holds, ClaimsTypeOK
  <2>3. QED
    BY <2>1, <2>2, QuietStep
<1>5. ASSUME NEW c \in Clients, \/ c = Executor /\ ExecutorClaims
                                \/ c \in Requests /\ RequestClaims(c)
      PROVE  ClaimInv'
  <2>1. /\ stage[c] = "claiming" /\ Claimable(obs[c]) /\ SetClaim(c, obs[c])
        /\ UNCHANGED <<obs, exposed>>
    BY <1>5 DEF ExecutorClaims, RequestClaims
  <2>2. obs[c] \in Observations /\ ~Holds(c)
    BY <1>0, <2>1 DEF ClaimsTypeOK, Holds
  <2>3. \A d \in Clients \ {c} : Holds(d)' = Holds(d)
    BY <1>0, <1>5 DEF ExecutorClaims, RequestClaims, Holds, ClaimsTypeOK
  <2>4. QED
    BY <2>1, <2>2, <2>3, SetClaimInv
<1>6. ASSUME NEW c \in Clients, ClaimRefused(c) \/ ClaimRaises(c) PROVE ClaimInv'
  <2>1. stage[c] = "claiming" /\ UNCHANGED <<obs, exposed>>
    BY <1>6 DEF ClaimRefused, ClaimRaises
  <2>2. obs[c] \in Observations /\ ~Holds(c)
    BY <1>0, <2>1 DEF ClaimsTypeOK, Holds
  <2>3. stage' = [stage EXCEPT ![c] = IF c = Executor THEN "idle" ELSE "ended"]
    BY <1>6 DEF ClaimRefused, ClaimRaises
  <2>4. (\A d \in Clients \ {c} : Holds(d)' = Holds(d)) /\ ~Holds(c)'
    BY <1>0, <2>3 DEF Holds, ClaimsTypeOK
  <2>5. UNCHANGED table \/ (Claimable(obs[c]) /\ SetClaim(c, obs[c]))
    BY <1>6 DEF ClaimRefused, ClaimRaises
  <2>6. CASE UNCHANGED table
    BY <2>1, <2>4, <2>6, QuietStep
  <2>7. CASE Claimable(obs[c]) /\ SetClaim(c, obs[c])
    BY <2>1, <2>2, <2>4, <2>7, SetClaimInv
  <2>8. QED
    BY <2>5, <2>6, <2>7
<1>7. ASSUME NEW c \in Clients,
             \/ c = Executor /\ ExecutorFinishes
             \/ /\ c \in Requests
                /\ \/ Fetch(c) \/ FetchFails(c) \/ BadSequencing(c)
                   \/ RequestFinishes(c) \/ RequestRaises(c)
      PROVE  ClaimInv'
  <2>1. /\ UNCHANGED <<table, exposed, obs>> /\ stage[c] \in {"fetching", "executing"}
        /\ \E to \in {"executing", "clearing", "releasing", "ended"} : stage' = [stage EXCEPT ![c] = to]
    BY <1>7 DEF ExecutorFinishes, Fetch, FetchFails, BadSequencing, RequestFinishes,
         RequestRaises
  <2>2. \A d \in Clients : Holds(d)' => Holds(d)
    BY <1>0, <2>1 DEF Holds, ClaimsTypeOK
  <2>3. QED
    BY <2>1, <2>2, QuietStep
<1>8. ASSUME NEW c \in Clients, Clear(c) \/ Release(c) PROVE ClaimInv'
  <2>1. /\ stage[c] \in {"clearing", "releasing", "again"} /\ UNCHANGED obs
        /\ \E to \in {"again", "idle", "ended"} : stage' = [stage EXCEPT ![c] = to]
        /\ ClearClaim(c, obs[c]) \/ UNCHANGED <<table, exposed>>
    BY <1>8 DEF Clear, Release
  <2>2. (\A d \in Clients \ {c} : Holds(d)' = Holds(d)) /\ ~Holds(c)'
    BY <1>0, <2>1 DEF Holds, ClaimsTypeOK
  <2>3. obs[c] \in Observations
    BY <1>0, <2>1 DEF ClaimsTypeOK
  <2>4. CASE ClearClaim(c, obs[c])
    BY <2>1, <2>2, <2>3, <2>4, ClearClaimInv
  <2>5. CASE UNCHANGED <<table, exposed>>
    BY <2>1, <2>2, <2>5, QuietStep
  <2>6. QED
    BY <2>1, <2>4, <2>5
<1>9. CASE ProcessDies
  <2>1. UNCHANGED <<table, exposed>> /\ \A c \in Clients : ~Holds(c)'
    BY <1>9 DEF ProcessDies, Holds
  <2>2. QED
    BY <2>1, QuietStep
<1>10. CASE UNCHANGED claimsVars
  BY <1>10, QuietStep DEF claimsVars, Holds
<1>11. QED
  BY <1>0, <1>1, <1>2, <1>3, <1>4, <1>5, <1>6, <1>7, <1>8, <1>9, <1>10
  DEF ClaimsNext, ExecutorStep, RequestStep

LEMMA ClaimInvariance == ClaimsSpec => []IInv
<1>1. ClaimsInit => IInv
  BY InitTypeOK DEF ClaimsInit, IInv, ClaimInv, Holds
<1>2. IInv /\ [ClaimsNext]_claimsVars => IInv'
  BY NextTypeOK, NextClaimInv DEF IInv
<1>3. QED
  BY <1>1, <1>2, PTL DEF ClaimsSpec

\* Whatever fails, two clients trade one observation only after its claim was
\* lost under its holder.
THEOREM OnlyExposedOverlap == ClaimsSpec => []OverlapExplained
<1>1. IInv => OverlapExplained
  BY DEF IInv, ClaimInv, OverlapExplained, Trading, Holds
<1>2. QED
  BY <1>1, ClaimInvariance, PTL

-------------------------------------------------------------------------------
(* What is done.                                                           *)

\* What is done, and was not released since, is claimed, by nobody at work.
DoneInv ==
  \A o \in done \ exposed : claimed[o] /\ ~stale[o] /\ \A c \in Clients : Holds(c) => obs[c] # o

\* The holders of a step's next state, for a step that moves one client.
LEMMA OneClientMoves ==
  ASSUME ClaimsTypeOK, NEW c \in Clients, NEW to \in ClientPlaces, stage' = [stage EXCEPT ![c] = to], UNCHANGED obs
  PROVE  /\ \A d \in Clients \ {c} : Holds(d)' = Holds(d) /\ stage'[d] = stage[d]
         /\ stage'[c] = to
  BY DEF ClaimsTypeOK, Holds

LEMMA NextDoneInv == IInv /\ DoneInv /\ [ClaimsNext]_claimsVars => DoneInv'
<1> SUFFICES ASSUME IInv, DoneInv, [ClaimsNext]_claimsVars
             PROVE  \A o \in done' \ exposed' : /\ claimed'[o] /\ ~stale'[o]
                                                /\ \A c \in Clients : Holds(c)' => obs'[c] # o
  BY DEF DoneInv
<1> DEFINE Goal == \A o \in done' \ exposed' : /\ claimed'[o] /\ ~stale'[o]
                                               /\ \A c \in Clients : Holds(c)' => obs'[c] # o
<1> USE DEF DoneInv, ClientGoes, Rest, table, client
<1>0. /\ ClaimsTypeOK /\ Executor \in Clients /\ Requests \subseteq Clients
      /\ done \subseteq Observations
  BY DEF IInv, Clients, ClaimsTypeOK
<1>1. ASSUME NEW o \in Observations, RecordSpread(o) \/ Publish(o) PROVE Goal
  BY <1>1 DEF RecordSpread, Publish, Holds
<1>2. ASSUME NEW o \in Observations, Lapse(o) PROVE Goal
  <2>1. UNCHANGED <<claimed, stage, obs>> /\ done' = done \ {o} /\ exposed \subseteq exposed'
    BY <1>2 DEF Lapse
  <2>2. \A p \in done' : stale'[p] = stale[p]
    BY <1>0, <1>2, <2>1 DEF Lapse, ClaimsTypeOK
  <2>3. QED
    BY <2>1, <2>2 DEF Holds
<1>3. CASE Skip
  BY <1>3 DEF Skip, Holds
<1>4. ASSUME NEW c \in Clients, NEW o \in Observations,
             \/ c = Executor /\ Consider /\ o = Head(queue)
             \/ c \in Requests /\ Ask(c, o)
      PROVE  Goal
  <2>1. /\ stage' = [stage EXCEPT ![c] = "claiming"] /\ obs' = [obs EXCEPT ![c] = o]
        /\ UNCHANGED <<claimed, stale, exposed, done>>
    BY <1>4 DEF Consider, Ask
  <2>2. \A d \in Clients : Holds(d)' => Holds(d) /\ obs'[d] = obs[d]
    BY <1>0, <2>1 DEF ClaimsTypeOK, Holds
  <2>3. QED
    BY <2>1, <2>2
<1>5. ASSUME NEW c \in Clients, stage[c] = "claiming", UNCHANGED <<obs, exposed, done>>,
             NEW to \in {"fetching", "executing", "idle", "ended"},
             stage' = [stage EXCEPT ![c] = to],
             \/ Claimable(obs[c]) /\ SetClaim(c, obs[c])
             \/ UNCHANGED table /\ to \in {"idle", "ended"}
      PROVE  Goal
  <2>1. /\ \A d \in Clients \ {c} : Holds(d)' = Holds(d)
        /\ stage'[c] = to
    BY <1>0, <1>5, OneClientMoves DEF ClientPlaces
  <2>2. ASSUME NEW o \in done \ exposed
        PROVE  claimed'[o] /\ ~stale'[o] /\ \A d \in Clients : Holds(d)' => obs[d] # o
    <3>1. claimed[o] /\ ~stale[o] /\ \A d \in Clients : Holds(d) => obs[d] # o
      OBVIOUS
    <3>2. CASE Claimable(obs[c]) /\ SetClaim(c, obs[c])
      <4>1. obs[c] # o
        BY <3>1, <3>2 DEF Claimable
      <4>2. claimed'[o] = claimed[o] /\ stale'[o] = stale[o]
        BY <1>0, <3>2, <4>1 DEF SetClaim, ClaimsTypeOK
      <4>3. QED
        BY <2>1, <3>1, <4>1, <4>2
    <3>3. CASE UNCHANGED table /\ to \in {"idle", "ended"}
      <4>1. ~Holds(c)'
        BY <2>1, <3>3 DEF Holds
      <4>2. QED
        BY <2>1, <3>1, <3>3, <4>1
    <3>4. QED
      BY <1>5, <3>2, <3>3
  <2>3. QED
    BY <1>5, <2>2
<1>6. ASSUME NEW c \in Clients, Holds(c), UNCHANGED <<table, exposed, obs, done>>,
             NEW to \in {"executing", "releasing", "clearing"}, stage' = [stage EXCEPT ![c] = to]
      PROVE  Goal
  <2>1. \A d \in Clients \ {c} : Holds(d)' = Holds(d)
    BY <1>0, <1>6, OneClientMoves DEF ClientPlaces
  <2>2. QED
    BY <1>6, <2>1
<1>7. ASSUME NEW r \in Requests, RequestFinishes(r) PROVE Goal
  <2>1. /\ stage[r] = "executing" /\ stage' = [stage EXCEPT ![r] = "ended"] /\ r \in Clients
        /\ UNCHANGED <<table, exposed, obs>> /\ done' = done \cup {obs[r]}
    BY <1>0, <1>7 DEF RequestFinishes
  <2>2. (\A d \in Clients \ {r} : Holds(d)' = Holds(d)) /\ ~Holds(r)'
    BY <1>0, <2>1, OneClientMoves DEF ClientPlaces, Holds
  <2>3. ASSUME obs[r] \notin exposed
        PROVE  /\ claimed[obs[r]] /\ ~stale[obs[r]]
               /\ \A d \in Clients \ {r} : Holds(d) => obs[d] # obs[r]
    BY <2>1, <2>3 DEF IInv, ClaimInv, Holds
  <2>4. QED
    BY <2>1, <2>2, <2>3
<1>8. ASSUME NEW c \in Clients, Clear(c) \/ Release(c) PROVE Goal
  <2>1. UNCHANGED <<obs, done>> /\ (ClearClaim(c, obs[c]) \/ UNCHANGED <<table, exposed>>)
    BY <1>8 DEF Clear, Release
  <2>2. PICK to \in {"again", "idle", "ended"} : stage' = [stage EXCEPT ![c] = to]
    BY <1>8 DEF Clear, Release
  <2>3. \A d \in Clients : Holds(d)' => Holds(d)
    BY <1>0, <1>8, <2>2, OneClientMoves DEF Clear, Release, ClientPlaces, Holds
  <2>4. exposed \subseteq exposed'
    BY <2>1 DEF ClearClaim
  <2>5. ASSUME NEW o \in done \ exposed' PROVE claimed'[o] = claimed[o] /\ stale'[o] = stale[o]
    BY <1>0, <2>1, <2>5 DEF ClearClaim, ClaimsTypeOK
  <2>6. QED
    BY <1>8, <2>3, <2>4, <2>5 DEF Clear, Release
<1>9. CASE ProcessDies
  <2>1. /\ UNCHANGED <<table, exposed, done>>
        /\ \A c \in Clients : stage'[c] \in {"idle", "ended"}
    BY <1>9 DEF ProcessDies
  <2>2. QED
    BY <2>1 DEF Holds
<1>10. CASE UNCHANGED claimsVars
  BY <1>10 DEF claimsVars, Holds
<1>11. ASSUME ExecutorStep PROVE Goal
  <2>1. CASE Consider
    <3>1. Head(queue) \in Observations
      BY <1>0, <2>1, DequeueTypeOK DEF Consider, ClaimsTypeOK
    <3>2. QED
      BY <1>0, <1>4, <2>1, <3>1
  <2>2. CASE ExecutorClaims
    BY <1>0, <1>5, <2>2 DEF ExecutorClaims
  <2>3. CASE ClaimRefused(Executor) \/ ClaimRaises(Executor)
    BY <1>0, <1>5, <2>3 DEF ClaimRefused, ClaimRaises
  <2>4. CASE ExecutorFinishes
    BY <1>0, <1>6, <2>4 DEF ExecutorFinishes, Holds
  <2>5. QED
    BY <1>0, <1>3, <1>8, <1>11, <2>1, <2>2, <2>3, <2>4 DEF ExecutorStep
<1>12. ASSUME NEW r \in Requests, RequestStep(r) PROVE Goal
  <2>1. CASE RequestClaims(r)
    BY <1>0, <1>5, <2>1 DEF RequestClaims
  <2>2. CASE ClaimRefused(r) \/ ClaimRaises(r)
    BY <1>0, <1>5, <2>2 DEF ClaimRefused, ClaimRaises
  <2>3. CASE Fetch(r) \/ FetchFails(r) \/ BadSequencing(r) \/ RequestRaises(r)
    BY <1>0, <1>6, <2>3 DEF Fetch, FetchFails, BadSequencing, RequestRaises, Holds
  <2>4. QED
    BY <1>0, <1>7, <1>8, <1>12, <2>1, <2>2, <2>3 DEF RequestStep
<1>13. QED
  BY <1>0, <1>1, <1>2, <1>4, <1>9, <1>10, <1>11, <1>12 DEF ClaimsNext

\* Whatever fails and however long it takes: what a request has traded is not traded again
\* before its claim lapses or another client releases it.
THEOREM DoneIsTaken == ClaimsSpec => []DoneStaysTaken
<1>1. ClaimsInit => IInv /\ DoneInv
  BY InitTypeOK DEF ClaimsInit, IInv, ClaimInv, DoneInv, Holds
<1>2. IInv /\ DoneInv /\ [ClaimsNext]_claimsVars => (IInv /\ DoneInv)'
  BY NextTypeOK, NextClaimInv, NextDoneInv DEF IInv
<1>3. IInv /\ DoneInv => DoneStaysTaken
  BY DEF IInv, DoneInv, DoneStaysTaken
<1>4. QED
  BY <1>1, <1>2, <1>3, PTL DEF ClaimsSpec

-------------------------------------------------------------------------------
(* With reads that work and executions that are not slow.                  *)

Sound == "slow" \notin ClaimFaults /\ "read" \notin ClaimFaults

\* No client is exposed.
SoundInv ==
  /\ IInv /\ DoneInv
  /\ exposed = {}
  /\ \A c \in Clients : stage[c] \notin {"clearing", "again"}

LEMMA NextSoundInv == Sound /\ SoundInv /\ [ClaimsNext]_claimsVars => SoundInv'
<1> SUFFICES ASSUME Sound, SoundInv, [ClaimsNext]_claimsVars
             PROVE  exposed' = {} /\ \A c \in Clients : stage'[c] \notin {"clearing", "again"}
  BY NextTypeOK, NextClaimInv, NextDoneInv DEF SoundInv, IInv
<1> DEFINE Goal == exposed' = {} /\ \A c \in Clients : stage'[c] \notin {"clearing", "again"}
<1> USE DEF SoundInv, ClientGoes, Rest, table, client
<1>0. ClaimsTypeOK /\ Executor \in Clients /\ Requests \subseteq Clients
  BY DEF IInv, Clients
<1>1. ASSUME NEW c \in Clients, NEW to, to \notin {"clearing", "again"},
             stage' = [stage EXCEPT ![c] = to], UNCHANGED exposed
      PROVE  Goal
  BY <1>0, <1>1 DEF ClaimsTypeOK
<1>2. ASSUME NEW o \in Observations, RecordSpread(o) \/ Publish(o) \/ Lapse(o) PROVE Goal
  BY <1>2 DEF RecordSpread, Publish, Lapse, Sound
<1>3. ASSUME NEW c \in Clients, Release(c) PROVE Goal
  <2>1. stage[c] = "releasing" /\ Holds(c) /\ UNCHANGED <<obs, done>>
    BY <1>3 DEF Release, Holds
  <2>2. PICK to \in {"idle", "ended"} : stage' = [stage EXCEPT ![c] = to]
    BY <1>3 DEF Release
  <2>3. \A d \in Clients \ {c} : Holds(d) => obs[d] # obs[c]
    BY <2>1 DEF IInv, ClaimInv
  <2>4. obs[c] \notin done
    BY <2>1 DEF DoneInv
  <2>5. UNCHANGED exposed
    BY <1>3, <2>3, <2>4 DEF Release, ClearClaim
  <2>6. QED
    BY <1>1, <2>2, <2>5
<1>4. CASE ProcessDies
  BY <1>4 DEF ProcessDies
<1>5. CASE UNCHANGED claimsVars
  BY <1>5 DEF claimsVars
<1>6. CASE ExecutorStep
  <2>1. CASE Skip
    BY <2>1 DEF Skip
  <2>2. CASE Consider \/ ExecutorClaims \/ ExecutorFinishes
    BY <1>0, <1>1, <2>2 DEF Consider, ExecutorClaims, ExecutorFinishes
  <2>3. CASE ClaimRefused(Executor) \/ ClaimRaises(Executor)
    BY <1>0, <1>1, <2>3 DEF ClaimRefused, ClaimRaises
  <2>4. QED
    BY <1>0, <1>3, <1>6, <2>1, <2>2, <2>3 DEF ExecutorStep
<1>7. ASSUME NEW r \in Requests, RequestStep(r) \/ \E o \in Observations : Ask(r, o) PROVE Goal
  <2>1. CASE \E o \in Observations : Ask(r, o)
    BY <1>0, <1>1, <2>1 DEF Ask
  <2>2. CASE RequestClaims(r) \/ ClaimRefused(r) \/ ClaimRaises(r)
    BY <1>0, <1>1, <2>2 DEF RequestClaims, ClaimRefused, ClaimRaises
  <2>3. CASE Fetch(r) \/ BadSequencing(r) \/ RequestFinishes(r) \/ RequestRaises(r)
    BY <1>0, <1>1, <2>3 DEF Fetch, BadSequencing, RequestFinishes, RequestRaises
  <2>4. CASE FetchFails(r) \/ Clear(r)
    BY <1>0, <2>4 DEF FetchFails, Clear, Sound
  <2>5. QED
    BY <1>0, <1>3, <1>7, <2>1, <2>2, <2>3, <2>4 DEF RequestStep
<1>8. QED
  BY <1>2, <1>4, <1>5, <1>6, <1>7 DEF ClaimsNext

\* A claim excludes every other client, as long as reads of the table do not fail
\* and no execution outlives its claim; writes may fail and the process may die.
THEOREM ClaimsExclude == Sound => (ClaimsSpec => []AtMostOneExecutor)
<1> SUFFICES ASSUME Sound PROVE ClaimsSpec => []AtMostOneExecutor
  OBVIOUS
<1>1. ClaimsInit => SoundInv
  BY InitTypeOK DEF ClaimsInit, SoundInv, IInv, ClaimInv, DoneInv, Holds
<1>2. SoundInv /\ [ClaimsNext]_claimsVars => SoundInv'
  BY NextSoundInv
<1>3. SoundInv => AtMostOneExecutor
  BY DEF SoundInv, IInv, ClaimInv, AtMostOneExecutor, Trading, Holds
<1>4. QED
  BY <1>1, <1>2, <1>3, PTL DEF ClaimsSpec

==============================================================================
