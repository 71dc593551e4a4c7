---------------------------- MODULE ConsensusProofs ----------------------------
(***************************************************************************)
(* Theorems about ConsensusRouter: what an opportunity is raised on, which *)
(* vote may raise two, that votes enough for a quorum do not lie idle, and *)
(* that the votes implement VoteQuorum: in memory always, in the table     *)
(* while routes follow one another.                                        *)
(***************************************************************************)
EXTENDS ConsensusRouter, FiniteSetTheorems, TLAPS

-------------------------------------------------------------------------------
(* Votes.                                                                  *)

\* Sets of votes are finite, and not empty if there are enough of them.
LEMMA VotesAreFinite ==
  ASSUME NEW S \in SUBSET Opps
  PROVE  IsFiniteSet(S) /\ Cardinality(S) \in Nat /\ (Enough(S) => S # {})
<1>1. IsFiniteSet(S)
  BY ConsensusAssumption, FS_Subset
<1>2. Cardinality({}) = 0
  BY FS_EmptySet
<1>3. Cardinality(S) \in Nat
  BY <1>1, FS_CardinalityType
<1>4. Enough(S) => S # {}
  BY <1>2, ConsensusAssumption DEF Enough
<1> QED
  BY <1>1, <1>3, <1>4

\* More votes are enough too.
LEMMA EnoughGrows ==
  ASSUME NEW S \in SUBSET Opps, NEW T \in SUBSET S, Enough(T)
  PROVE  Enough(S)
<1>1. Cardinality(T) <= Cardinality(S)
  BY VotesAreFinite, FS_Subset
<1> QED
  BY <1>1, VotesAreFinite, ConsensusAssumption DEF Enough

\* One vote per agent: as many agents as votes.
LEMMA AgentsPerVote ==
  ASSUME NEW S \in SUBSET Opps, \A v, w \in S : AgentOf[v] = AgentOf[w] => v = w
  PROVE  Cardinality({AgentOf[v] : v \in S}) = Cardinality(S)
<1> DEFINE T == {AgentOf[v] : v \in S}
           f == [v \in S |-> AgentOf[v]]
<1>1. f \in Bijection(S, T)
  BY DEF Bijection, Injection, Surjection, IsInjective
<1>2. ExistsBijection(S, T)
  BY <1>1 DEF ExistsBijection
<1> QED
  BY <1>2, VotesAreFinite, FS_Bijection

\* Types of the votes and the routes.
THEOREM ConsensusTypeCorrect == Spec => []ConsensusTypeOK
<1>1. ASSUME Init PROVE ConsensusTypeOK
  <2>1. persistent \in BOOLEAN
    BY <1>1 DEF Init
  <2> QED
    BY <1>1, <2>1 DEF Init, ConsensusTypeOK, PC, UnderWay
<1>2. ConsensusTypeOK /\ [Next]_vars => ConsensusTypeOK'
  <2> SUFFICES ASSUME ConsensusTypeOK, [Next]_vars PROVE ConsensusTypeOK'
    OBVIOUS
  <2> USE LevelAssumption
      DEF ConsensusTypeOK, PC, UnderWay, Goto, Cast, Counted, Cleared
  <2>1. ASSUME NEW o \in Opps, Expire(o) \/ Vote(o) \/ Raise(o) PROVE ConsensusTypeOK'
    BY <2>1 DEF Expire, Vote, Raise, Levels
  <2>2. ASSUME NEW o \in Opps, Count(o) PROVE ConsensusTypeOK'
    BY <2>2 DEF Count, HandedOn
  <2>3. ASSUME NEW o \in Opps, Clear(o) PROVE ConsensusTypeOK'
    BY <2>3 DEF Clear
  <2>4. ASSUME NEW o \in Opps, StoreFails(o) PROVE ConsensusTypeOK'
    BY <2>4 DEF StoreFails
  <2>5. ASSUME NEW o \in Opps, VoteInMemory(o) PROVE ConsensusTypeOK'
    BY <2>5 DEF VoteInMemory, HandedOn
  <2>6. ASSUME NEW o \in Opps, NothingToVoteOn(o) PROVE ConsensusTypeOK'
    BY <2>6 DEF NothingToVoteOn, HandedOn
  <2>7. CASE Crash
    BY <2>7 DEF Crash, Running
  <2>8. CASE AllHandedOn \/ UNCHANGED vars
    BY <2>8 DEF AllHandedOn, vars
  <2> QED
    BY <2>1, <2>2, <2>3, <2>4, <2>5, <2>6, <2>7, <2>8 DEF Next, ConsensusStep
<1> QED
  BY <1>1, <1>2, PTL DEF Spec

-------------------------------------------------------------------------------
(* What an opportunity is raised on.                                       *)

OnePerAgent(box) ==
  \A v, w \in box : KeyOf[v] = KeyOf[w] /\ AgentOf[v] = AgentOf[w] => v = w

QuorumOf(o) ==
  /\ Cardinality({AgentOf[v] : v \in basis[o]}) >= Threshold
  /\ \A v \in basis[o] : KeyOf[v] = KeyOf[o] /\ At[v] >= Cutoff(o)

RaisedInv ==
  /\ OnePerAgent(votes)
  /\ \A o \in Opps :
       /\ pc[o] \in {"clearing", "raising"} => QuorumOf(o)
       /\ pc[o] # "done" => handed[o] = "none"
  /\ RaisedOnQuorum

LEMMA CastKeepsOne ==
  ASSUME NEW box, OnePerAgent(box), NEW o PROVE OnePerAgent(Cast(box, o))
  BY DEF OnePerAgent, Cast

\* Votes that are counted as enough are of enough agents.
LEMMA CountedIsQuorum ==
  ASSUME NEW box \in SUBSET Opps, OnePerAgent(box), NEW o \in Opps, Enough(Counted(box, o))
  PROVE  /\ Cardinality({AgentOf[v] : v \in Counted(box, o)}) >= Threshold
         /\ \A v \in Counted(box, o) : KeyOf[v] = KeyOf[o] /\ At[v] >= Cutoff(o)
<1> DEFINE S == Counted(box, o)
<1>1. S \in SUBSET Opps /\ \A v, w \in S : AgentOf[v] = AgentOf[w] => v = w
  BY DEF Counted, OnePerAgent
<1>2. Cardinality({AgentOf[v] : v \in S}) = Cardinality(S)
  BY <1>1, AgentsPerVote
<1> QED
  BY <1>2 DEF Enough, Counted

\* Nothing is claimed of what is handed on at its agent's own level.
LEMMA HandedOnStep ==
  ASSUME ConsensusTypeOK, RaisedInv, NEW o \in Opps, NEW from, HandedOn(o, from),
         OnePerAgent(votes'), UNCHANGED basis
  PROVE  RaisedInv'
<1> USE DEF ConsensusTypeOK, RaisedInv
<1>1. /\ handed' = [handed EXCEPT ![o] = Level[o]] /\ pc' = [pc EXCEPT ![o] = "done"]
      /\ handed'[o] = Level[o] /\ pc'[o] = "done"
  BY DEF HandedOn, Goto
<1>2. \A p \in Opps \ {o} : handed'[p] = handed[p] /\ pc'[p] = pc[p]
  BY <1>1
<1>3. \A p \in Opps : QuorumOf(p) => QuorumOf(p)'
  BY DEF QuorumOf
<1>4. \A p \in Opps :
        /\ pc'[p] \in {"clearing", "raising"} => QuorumOf(p)'
        /\ pc'[p] # "done" => handed'[p] = "none"
  BY <1>1, <1>2, <1>3
<1>5. RaisedOnQuorum'
  BY <1>1, <1>2 DEF RaisedOnQuorum
<1> QED
  BY <1>4, <1>5

LEMMA RaisedInvHolds == Spec => []RaisedInv
<1>1. Init => RaisedInv
  BY DEF Init, RaisedInv, OnePerAgent, RaisedOnQuorum
<1>2. ConsensusTypeOK /\ RaisedInv /\ [Next]_vars => RaisedInv'
  <2> SUFFICES ASSUME ConsensusTypeOK, RaisedInv, [Next]_vars PROVE RaisedInv'
    OBVIOUS
  <2> USE DEF ConsensusTypeOK, RaisedInv, RaisedOnQuorum, QuorumOf, Goto
  <2>1. ASSUME NEW o \in Opps, Expire(o) PROVE RaisedInv'
    BY <2>1 DEF Expire, OnePerAgent
  <2>2. ASSUME NEW o \in Opps, Vote(o) PROVE RaisedInv'
    BY <2>2, CastKeepsOne DEF Vote
  <2>3. ASSUME NEW o \in Opps, Count(o) PROVE RaisedInv'
    <3>1. CASE Enough(Counted(votes, o))
      <4>1. /\ basis' = [basis EXCEPT ![o] = Counted(votes, o)]
            /\ pc' = [pc EXCEPT ![o] = "clearing"] /\ UNCHANGED <<handed, votes>>
            /\ pc[o] = "counting"
        BY <2>3, <3>1 DEF Count
      <4>2. QuorumOf(o)'
        BY <3>1, <4>1, CountedIsQuorum
      <4> QED
        BY <4>1, <4>2
    <3>2. CASE ~Enough(Counted(votes, o))
      BY <2>3, <3>2, HandedOnStep DEF Count
    <3> QED
      BY <3>1, <3>2
  <2>4. ASSUME NEW o \in Opps, Clear(o) PROVE RaisedInv'
    BY <2>4 DEF Clear, Cleared, OnePerAgent
  <2>5. ASSUME NEW o \in Opps, StoreFails(o) PROVE RaisedInv'
    <3>1. OnePerAgent(votes') /\ pc[o] \in {"voting", "counting", "clearing"}
      BY <2>5, CastKeepsOne DEF StoreFails, Cleared, OnePerAgent
    <3>2. handed[o] = "none" /\ UNCHANGED handed /\ pc' = [pc EXCEPT ![o] = "raised"]
      BY <2>5, <3>1 DEF StoreFails
    <3>3. \A p \in Opps \ {o} : basis'[p] = basis[p]
      BY <2>5 DEF StoreFails
    <3> QED
      BY <3>1, <3>2, <3>3
  <2>6. ASSUME NEW o \in Opps, VoteInMemory(o) PROVE RaisedInv'
    <3> DEFINE cast == Cast(votes, o)
    <3>1. OnePerAgent(cast) /\ cast \in SUBSET Opps
      BY CastKeepsOne DEF Cast
    <3>2. OnePerAgent(votes')
      BY <2>6, <3>1 DEF VoteInMemory, Cleared, Counted, OnePerAgent
    <3>3. CASE Enough(Counted(cast, o))
      <4>1. /\ basis' = [basis EXCEPT ![o] = Counted(cast, o)]
            /\ pc' = [pc EXCEPT ![o] = "raising"] /\ UNCHANGED handed /\ pc[o] = "found"
        BY <2>6, <3>3 DEF VoteInMemory
      <4>2. QuorumOf(o)'
        BY <3>1, <3>3, <4>1, CountedIsQuorum
      <4> QED
        BY <3>2, <4>1, <4>2
    <3>4. CASE ~Enough(Counted(cast, o))
      BY <2>6, <3>2, <3>4, HandedOnStep DEF VoteInMemory
    <3> QED
      BY <3>3, <3>4
  <2>7. ASSUME NEW o \in Opps, NothingToVoteOn(o) \/ Raise(o) PROVE RaisedInv'
    <3>1. CASE NothingToVoteOn(o)
      BY <3>1, HandedOnStep DEF NothingToVoteOn
    <3>2. CASE Raise(o)
      <4>1. /\ pc[o] = "raising" /\ pc' = [pc EXCEPT ![o] = "done"]
            /\ handed' = [handed EXCEPT ![o] = "auto_execute"] /\ UNCHANGED <<votes, basis>>
        BY <3>2 DEF Raise
      <4>2. QuorumOf(o)
        BY <4>1
      <4> QED
        BY <4>1, <4>2
    <3> QED
      BY <2>7, <3>1, <3>2
  <2>8. CASE Crash
    BY <2>8 DEF Crash, Running, UnderWay, OnePerAgent
  <2>9. CASE AllHandedOn \/ UNCHANGED vars
    BY <2>9 DEF AllHandedOn, vars
  <2> QED
    BY <2>1, <2>2, <2>3, <2>4, <2>5, <2>6, <2>7, <2>8, <2>9 DEF Next, ConsensusStep
<1> QED
  BY <1>1, <1>2, ConsensusTypeCorrect, PTL DEF Spec

\* An opportunity is executed for its agent's own level or on the votes of enough agents
\* within the window (ConsensusRouter.route).
THEOREM RaisedByQuorum == Spec => []RaisedOnQuorum
<1>1. RaisedInv => RaisedOnQuorum
  BY DEF RaisedInv
<1> QED
  BY <1>1, RaisedInvHolds, PTL

-------------------------------------------------------------------------------
(* A vote that raises two opportunities.                                   *)

\* The vote has been cast.
Voted(v) == pc[v] \notin {"found", "voting"}

\* Where the votes are that an opportunity is raised on, and who counted beside it.
SpentInv ==
  /\ votes \subseteq {v \in Opps : Voted(v)}
  /\ \A o \in Opps :
       /\ pc[o] \in {"voting", "counting", "clearing"} => persistent
       /\ pc[o] \in {"found", "voting", "counting", "clearing"} => beside[o] = {}
       /\ pc[o] \in {"found", "voting", "counting"} => basis[o] = {}
       /\ \A v \in basis[o] : Voted(v)
       /\ basis[o] \cap votes # {} => pc[o] = "clearing"
       /\ \A v \in basis[o] : KeyOf[v] = KeyOf[o]
  /\ \A o, p \in Opps : o # p /\ basis[o] \cap basis[p] # {} =>
       /\ persistent
       /\ \/ pc[o] = "clearing" /\ pc[p] = "clearing"
          \/ p \in beside[o] \/ o \in beside[p]

LEMMA SpentInvStep ==
  ASSUME ConsensusTypeOK, SpentInv, [Next]_vars PROVE SpentInv'
<1> USE DEF ConsensusTypeOK, SpentInv, Voted, Goto
<1>1. ASSUME NEW o \in Opps, Expire(o) PROVE SpentInv'
  <2>1. /\ persistent /\ pc[o] = "found" /\ pc' = [pc EXCEPT ![o] = "voting"]
        /\ votes' \subseteq votes /\ UNCHANGED <<persistent, basis, beside>>
    BY <1>1 DEF Expire
  <2>2. o \notin votes /\ basis[o] = {} /\ \A p \in Opps : o \notin basis[p]
    BY <2>1
  <2> QED
    BY <2>1, <2>2
<1>2. ASSUME NEW o \in Opps, Vote(o) PROVE SpentInv'
  BY <1>2 DEF Vote, Cast
<1>3. ASSUME NEW o \in Opps, Count(o) PROVE SpentInv'
  <2>1. CASE Enough(Counted(votes, o))
    <3>1. /\ basis' = [basis EXCEPT ![o] = Counted(votes, o)]
          /\ pc' = [pc EXCEPT ![o] = "clearing"] /\ pc[o] = "counting"
          /\ UNCHANGED <<persistent, votes, beside>>
      BY <1>3, <2>1 DEF Count
    <3>2. Counted(votes, o) \subseteq votes /\ \A v \in Counted(votes, o) : KeyOf[v] = KeyOf[o]
      BY DEF Counted
    <3>3. \A p \in Opps \ {o} : basis'[p] \cap basis'[o] # {} => pc[p] = "clearing"
      BY <3>1, <3>2
    <3> QED
      BY <3>1, <3>2, <3>3
  <2>2. CASE ~Enough(Counted(votes, o))
    BY <1>3, <2>2 DEF Count, HandedOn
  <2> QED
    BY <2>1, <2>2
<1>4. ASSUME NEW o \in Opps, Clear(o) PROVE SpentInv'
  <2>1. /\ pc[o] = "clearing" /\ pc' = [pc EXCEPT ![o] = "raising"]
        /\ votes' = {v \in votes : KeyOf[v] # KeyOf[o]}
        /\ beside' = [beside EXCEPT ![o] = {p \in Opps \ {o} : pc[p] = "clearing"}]
        /\ beside[o] = {} /\ UNCHANGED <<persistent, basis>>
    BY <1>4 DEF Clear, Cleared
  <2>2. basis[o] \cap votes' = {}
    BY <2>1
  <2>3. \A p \in Opps \ {o} : basis[o] \cap basis[p] # {} =>
          persistent /\ (p \in beside'[o] \/ o \in beside'[p])
    BY <2>1
  <2>4. \A p, q \in Opps \ {o} : p # q /\ basis[p] \cap basis[q] # {} =>
          /\ persistent
          /\ \/ pc'[p] = "clearing" /\ pc'[q] = "clearing"
             \/ p \in beside'[q] \/ q \in beside'[p]
    BY <2>1
  <2>5. \A p, q \in Opps : p # q /\ basis'[p] \cap basis'[q] # {} =>
          /\ persistent'
          /\ \/ pc'[p] = "clearing" /\ pc'[q] = "clearing"
             \/ p \in beside'[q] \/ q \in beside'[p]
    BY <2>1, <2>3, <2>4
  <2> QED
    BY <2>1, <2>2, <2>5
<1>5. ASSUME NEW o \in Opps, StoreFails(o) PROVE SpentInv'
  <2>1. pc[o] \in {"voting", "counting", "clearing"} /\ pc' = [pc EXCEPT ![o] = "raised"]
    BY <1>5 DEF StoreFails
  <2>2. votes' \subseteq votes \cup {o}
    BY <1>5 DEF StoreFails, Cast, Cleared
  <2>3. basis'[o] = {} /\ \A p \in Opps \ {o} : basis'[p] = basis[p]
    BY <1>5 DEF StoreFails
  <2>4. UNCHANGED <<persistent, beside>>
    BY <1>5 DEF StoreFails
  <2>5. o \in votes' => o \in votes \/ pc[o] = "voting"
    BY <1>5 DEF StoreFails, Cast, Cleared
  <2>6. \A p \in Opps : basis'[p] \cap votes' # {} => basis[p] \cap votes # {}
    BY <2>2, <2>3, <2>5
  <2> QED
    BY <2>1, <2>2, <2>3, <2>4, <2>6
<1>6. ASSUME NEW o \in Opps, VoteInMemory(o) PROVE SpentInv'
  <2>1. /\ pc[o] = "found" /\ ~persistent /\ basis[o] = {}
        /\ \A p \in Opps : basis[p] \cap votes = {} /\ o \notin basis[p]
        /\ o \notin votes
    BY <1>6 DEF VoteInMemory, HandedOn
  <2>2. UNCHANGED <<persistent, beside>> /\ votes' \subseteq votes \cup {o}
    BY <1>6 DEF VoteInMemory, HandedOn, Cleared, Counted, Cast
  <2>3. CASE Enough(Counted(Cast(votes, o), o))
    <3>1. /\ basis' = [basis EXCEPT ![o] = Counted(Cast(votes, o), o)]
          /\ pc' = [pc EXCEPT ![o] = "raising"]
          /\ \A v \in votes' : KeyOf[v] # KeyOf[o]
      BY <1>6, <2>3 DEF VoteInMemory, Cleared
    <3>2. /\ Counted(Cast(votes, o), o) \subseteq votes \cup {o}
          /\ \A v \in Counted(Cast(votes, o), o) : KeyOf[v] = KeyOf[o]
      BY DEF Counted, Cast
    <3> QED
      BY <2>1, <2>2, <3>1, <3>2
  <2>4. CASE ~Enough(Counted(Cast(votes, o), o))
    BY <1>6, <2>1, <2>2, <2>4 DEF VoteInMemory, HandedOn
  <2> QED
    BY <2>3, <2>4
<1>7. ASSUME NEW o \in Opps, NothingToVoteOn(o) \/ Raise(o) PROVE SpentInv'
  BY <1>7 DEF NothingToVoteOn, HandedOn, Raise
<1>8. CASE Crash
  <2>1. /\ \A o \in Opps : pc'[o] = pc[o] \/ (pc[o] # "found" /\ pc'[o] = "cut")
        /\ votes' \subseteq votes /\ UNCHANGED <<persistent, beside>>
    BY <1>8 DEF Crash, Running, UnderWay
  <2>2. /\ \A o \in Opps : pc[o] = "clearing" => basis'[o] = {}
        /\ \A o \in Opps : pc[o] # "clearing" => basis'[o] = basis[o]
    BY <1>8 DEF Crash
  <2>3. \A o \in Opps : basis'[o] \subseteq basis[o]
    BY <2>2
  <2>4. \A o \in Opps : pc'[o] \notin {"voting", "counting", "clearing"}
    BY <1>8 DEF Crash, Running, UnderWay
  <2>5. \A o \in Opps : pc'[o] = "found" => pc[o] = "found"
    BY <2>1
  <2>6. \A o \in Opps : basis'[o] \cap votes' = {}
    BY <2>1, <2>2
  <2>7. \A p, q \in Opps : p # q /\ basis'[p] \cap basis'[q] # {} =>
          persistent' /\ (p \in beside'[q] \/ q \in beside'[p])
    BY <2>1, <2>2
  <2> QED
    BY <2>1, <2>3, <2>4, <2>5, <2>6, <2>7
<1>9. CASE AllHandedOn \/ UNCHANGED vars
  BY <1>9 DEF AllHandedOn, vars
<1> QED
  BY <1>1, <1>2, <1>3, <1>4, <1>5, <1>6, <1>7, <1>8, <1>9 DEF Next, ConsensusStep

LEMMA SpentInvHolds == Spec => []SpentInv
<1>1. Init => SpentInv
  BY DEF Init, SpentInv
<1>2. ConsensusTypeOK /\ SpentInv /\ [Next]_vars => SpentInv'
  BY SpentInvStep
<1> QED
  BY <1>1, <1>2, ConsensusTypeCorrect, PTL DEF Spec

\* A vote raises two opportunities only with the table, and only if each of the two routes
\* counted before the other had cleared (ConsensusRouter.route).
THEOREM SpentOnceOrBeside == Spec => []SpentTwiceExplained
<1>1. SpentInv => SpentTwiceExplained
  BY DEF SpentInv, SpentTwiceExplained
<1> QED
  BY <1>1, SpentInvHolds, PTL

-------------------------------------------------------------------------------
(* Votes that lie idle.                                                    *)

\* Votes enough for a quorum, of one trade and within one window.
Agree(S) ==
  /\ Enough(S)
  /\ \A v, w \in S : KeyOf[v] = KeyOf[w] /\ At[v] >= Cutoff(w)

\* Someone is about to notice them, or has.
Noticed(S) ==
  \A v \in S :
    \/ KeyOf[v] \in spoiled
    \/ \E c \in Opps : pc[c] = "clearing" /\ KeyOf[c] = KeyOf[v]
    \/ \E c \in S : pc[c] = "counting"

QuorumIsNoticed == \A S \in SUBSET votes : Agree(S) => Noticed(S)

LEMMA NoticedStep ==
  ASSUME ConsensusTypeOK, QuorumIsNoticed, [Next]_vars PROVE QuorumIsNoticed'
<1> USE DEF ConsensusTypeOK, Goto
<1> SUFFICES ASSUME NEW S \in SUBSET votes', Agree(S) PROVE Noticed(S)'
  BY DEF QuorumIsNoticed, Agree, Enough, Cutoff
<1>0. S \in SUBSET Opps /\ (S \subseteq votes => Noticed(S))
  <2>1. votes' \subseteq Opps
    BY DEF Next, ConsensusStep, vars, Expire, Vote, Count, Clear, StoreFails, VoteInMemory,
           NothingToVoteOn, Raise, Crash, AllHandedOn, Cast, Cleared, Counted
  <2> QED
    BY <2>1 DEF QuorumIsNoticed
<1>1. ASSUME NEW o \in Opps, Expire(o) PROVE Noticed(S)'
  BY <1>0, <1>1 DEF Expire, Noticed
<1>2. ASSUME NEW o \in Opps, Vote(o) PROVE Noticed(S)'
  <2>1. pc[o] = "voting" /\ pc' = [pc EXCEPT ![o] = "counting"] /\ UNCHANGED spoiled
    BY <1>2 DEF Vote
  <2>2. S \subseteq votes \cup {o}
    BY <1>2 DEF Vote, Cast
  <2>3. CASE o \in S
    BY <2>1, <2>3 DEF Noticed
  <2>4. CASE o \notin S
    BY <1>0, <2>1, <2>2, <2>4 DEF Noticed
  <2> QED
    BY <2>3, <2>4
<1>3. ASSUME NEW o \in Opps, Count(o) PROVE Noticed(S)'
  <2>1. pc[o] = "counting" /\ Noticed(S) /\ UNCHANGED <<votes, spoiled>>
    BY <1>0, <1>3 DEF Count, HandedOn
  <2>2. \A p \in Opps \ {o} : pc'[p] = pc[p]
    BY <1>3 DEF Count, HandedOn
  <2>3. CASE o \in S
    <3>1. S \subseteq Counted(votes, o) /\ Counted(votes, o) \in SUBSET Opps
      BY <2>1, <2>3 DEF Agree, Counted
    <3>2. Enough(Counted(votes, o))
      BY <3>1, EnoughGrows DEF Agree
    <3>3. pc'[o] = "clearing"
      BY <1>3, <3>2 DEF Count
    <3>4. \A v \in S : KeyOf[v] = KeyOf[o]
      BY <2>3 DEF Agree
    <3> QED
      BY <3>3, <3>4 DEF Noticed
  <2>4. CASE o \notin S
    BY <1>0, <2>1, <2>2, <2>4 DEF Noticed
  <2> QED
    BY <2>3, <2>4
<1>4. ASSUME NEW o \in Opps, Clear(o) PROVE Noticed(S)'
  <2>1. /\ pc[o] = "clearing" /\ \A p \in Opps \ {o} : pc'[p] = pc[p]
        /\ UNCHANGED spoiled /\ S \subseteq votes /\ \A v \in S : KeyOf[v] # KeyOf[o]
    BY <1>4 DEF Clear, Cleared
  <2> QED
    BY <1>0, <2>1 DEF Noticed
<1>5. ASSUME NEW o \in Opps, StoreFails(o) PROVE Noticed(S)'
  <2>1. /\ spoiled' = spoiled \cup {KeyOf[o]} /\ S \subseteq votes \cup {o}
        /\ \A p \in Opps \ {o} : pc'[p] = pc[p]
    BY <1>5 DEF StoreFails, Cast, Cleared
  <2>2. CASE \E v \in S : KeyOf[v] = KeyOf[o]
    <3>1. \A v \in S : KeyOf[v] = KeyOf[o]
      BY <2>2, Zenon DEF Agree
    <3> QED
      BY <2>1, <3>1 DEF Noticed
  <2>3. CASE \A v \in S : KeyOf[v] # KeyOf[o]
    BY <1>0, <2>1, <2>3 DEF Noticed
  <2> QED
    BY <2>2, <2>3
<1>6. ASSUME NEW o \in Opps, VoteInMemory(o) PROVE Noticed(S)'
  <2> DEFINE counted == Counted(Cast(votes, o), o)
  <2>1. /\ pc[o] = "found" /\ UNCHANGED spoiled
        /\ \A p \in Opps \ {o} : pc'[p] = pc[p]
    BY <1>6 DEF VoteInMemory, HandedOn
  <2>2. counted \in SUBSET Opps
    BY DEF Counted, Cast
  <2>3. CASE \A v \in S : KeyOf[v] # KeyOf[o]
    <3>1. S \subseteq votes
      BY <1>6, <2>3 DEF VoteInMemory, Cleared, Counted, Cast
    <3> QED
      BY <1>0, <2>1, <3>1 DEF Noticed
  <2>4. CASE \E v \in S : KeyOf[v] = KeyOf[o]
    <3>1. \A v \in S : KeyOf[v] = KeyOf[o]
      BY <2>4 DEF Agree
    <3>2. S # {}
      BY <2>4
    <3>3. ~Enough(counted) /\ S \subseteq counted
      BY <1>6, <3>1, <3>2 DEF VoteInMemory, Cleared
    <3> QED
      BY <2>2, <3>3, EnoughGrows DEF Agree
  <2> QED
    BY <2>3, <2>4
<1>7. ASSUME NEW o \in Opps, NothingToVoteOn(o) \/ Raise(o) PROVE Noticed(S)'
  BY <1>0, <1>7 DEF NothingToVoteOn, HandedOn, Raise, Noticed
<1>8. CASE Crash
  <2>1. S \subseteq votes /\ spoiled' = spoiled \cup {KeyOf[p] : p \in Running}
    BY <1>8 DEF Crash
  <2>2. \A p \in Opps : pc[p] \in {"counting", "clearing"} => KeyOf[p] \in spoiled'
    BY <2>1 DEF Running, UnderWay
  <2>3. \A p, v \in S : KeyOf[p] = KeyOf[v]
    BY DEF Agree
  <2> QED
    BY <1>0, <2>1, <2>2, <2>3 DEF Noticed
<1>9. CASE AllHandedOn \/ UNCHANGED vars
  BY <1>0, <1>9 DEF AllHandedOn, vars, Noticed
<1> QED
  BY <1>1, <1>2, <1>3, <1>4, <1>5, <1>6, <1>7, <1>8, <1>9 DEF Next, ConsensusStep

\* When no route of a trade is under way and none was cut short, the votes for it are too
\* few: whoever counts after the last vote sees them all (ConsensusRouter.route).
THEOREM QuorumIsNotIdle == Spec => []NoIdleQuorum
<1>1. Init => QuorumIsNoticed
  <2>1. ~Enough({})
    BY VotesAreFinite
  <2> QED
    BY <2>1 DEF Init, QuorumIsNoticed, Agree
<1>2. ConsensusTypeOK /\ QuorumIsNoticed /\ [Next]_vars => QuorumIsNoticed'
  BY NoticedStep
<1>3. ConsensusTypeOK /\ QuorumIsNoticed => NoIdleQuorum
  <2> SUFFICES ASSUME ConsensusTypeOK, QuorumIsNoticed, NEW o \in votes,
                      KeyOf[o] \notin spoiled,
                      \A p \in Running : KeyOf[p] # KeyOf[o],
                      \A v \in votes : KeyOf[v] = KeyOf[o] => At[v] <= At[o],
                      Enough(Counted(votes, o))
               PROVE  FALSE
    BY DEF NoIdleQuorum
  <2> DEFINE S == Counted(votes, o)
  <2>1. S \in SUBSET votes /\ \A v \in S : KeyOf[v] = KeyOf[o]
    BY DEF Counted
  <2>2. \A v, w \in S : At[v] >= Cutoff(w)
    <3>1. \A v \in votes : At[v] \in Int
      BY ConsensusAssumption DEF ConsensusTypeOK
    <3>2. \A v, w \in S : At[v] >= At[o] - Window /\ At[w] <= At[o] /\ v \in votes /\ w \in votes
      BY DEF Counted, Cutoff
    <3>3. Window \in Nat
      BY ConsensusAssumption
    <3> QED
      BY <3>1, <3>2, <3>3 DEF Cutoff
  <2>3. Agree(S)
    BY <2>1, <2>2 DEF Agree
  <2>4. Noticed(S)
    BY <2>1, <2>3 DEF QuorumIsNoticed
  <2>5. S # {} /\ S \in SUBSET Opps
    BY <2>1, VotesAreFinite DEF ConsensusTypeOK
  <2>6. \A p \in Opps : pc[p] \in {"counting", "clearing"} => KeyOf[p] # KeyOf[o]
    BY DEF Running, UnderWay
  <2> QED
    BY <2>1, <2>4, <2>5, <2>6 DEF Noticed
<1> QED
  BY <1>1, <1>2, <1>3, ConsensusTypeCorrect, PTL DEF Spec

-------------------------------------------------------------------------------
(* The votes in memory and VoteQuorum.                                     *)

\* A step that raises nothing leaves what was raised as it was.
LEMMA RaisesOne ==
  ASSUME ConsensusTypeOK, NEW o \in Opps, basis[o] = {}, NEW Q, Q # {},
         basis' = [basis EXCEPT ![o] = Q]
  PROVE  /\ o \notin {p \in Opps : basis[p] # {}}
         /\ {p \in Opps : basis'[p] # {}} = {p \in Opps : basis[p] # {}} \cup {o}
  BY DEF ConsensusTypeOK

LEMMA InMemoryStep ==
  ASSUME ConsensusTypeOK, RaisedInv, SpentInv, [Next]_vars, ~persistent PROVE [Promise!Next]_<<votes, basis>>
<1> USE DEF ConsensusTypeOK, Goto
<1>1. \A o \in Opps : pc[o] \notin {"voting", "counting", "clearing"}
  BY DEF SpentInv
<1>2. ASSUME NEW o \in Opps, VoteInMemory(o) PROVE Promise!Next
  <2> DEFINE cast == Cast(votes, o)
             counted == Counted(cast, o)
  <2>1. basis[o] = {} /\ o \in cast /\ cast \subseteq votes \cup {o} /\ counted \subseteq cast
    BY <1>2 DEF VoteInMemory, HandedOn, SpentInv, Cast, Counted
  <2>2. CASE Enough(counted)
    <3>1. basis' = [basis EXCEPT ![o] = counted] /\ votes' = Cleared(cast, o)
      BY <1>2, <2>2 DEF VoteInMemory
    <3>2. OnePerAgent(cast) /\ cast \in SUBSET Opps
      BY <2>1, CastKeepsOne DEF RaisedInv
    <3>3. counted # {} /\ Promise!Quorum(counted, o)
      <4>1. counted # {}
        BY <2>1, <2>2, <3>2, VotesAreFinite
      <4>2. /\ Cardinality({AgentOf[v] : v \in counted}) >= Threshold
            /\ \A v \in counted : KeyOf[v] = KeyOf[o]
        BY <2>2, <3>2, CountedIsQuorum
      <4>3. \A T : Promise!Cardinality(T) = Cardinality(T)
        BY Zenon DEF Promise!Cardinality, Cardinality
      <4> QED
        BY <4>1, <4>2, <4>3 DEF Promise!Quorum
    <3>4. votes' \subseteq votes \ counted
      BY <2>1, <3>1 DEF Cleared, Counted, Cast
    <3>5. Promise!Raise(o)
      BY <2>1, <3>1, <3>3, <3>4, RaisesOne DEF Promise!Raise
    <3> QED
      BY <3>5 DEF Promise!Next
  <2>3. CASE ~Enough(counted)
    <3>1. votes' \subseteq votes \cup {o} /\ UNCHANGED basis
      BY <1>2, <2>1, <2>3 DEF VoteInMemory, Cleared
    <3>2. Promise!Cast(o)
      BY <3>1 DEF Promise!Cast
    <3> QED
      BY <3>2 DEF Promise!Next
  <2> QED
    BY <2>2, <2>3
<1>3. CASE Crash
  <2>1. UNCHANGED basis /\ votes' = {}
    BY <1>1, <1>3 DEF Crash
  <2> QED
    BY <2>1 DEF Promise!Next, Promise!Lose
<1>4. CASE UNCHANGED <<votes, basis>>
  BY <1>4
<1> QED
  BY <1>1, <1>2, <1>3, <1>4
  DEF Next, ConsensusStep, vars, Expire, Vote, Count, Clear, StoreFails, NothingToVoteOn,
      HandedOn, Raise, AllHandedOn

\* In memory a vote raises one opportunity, and a quorum of agents raises it: the votes
\* implement VoteQuorum (ConsensusRouter.route without a store).
THEOREM VotesKeepPromise == Spec => KeepsQuorum
<1>1. ConsensusTypeOK /\ RaisedInv /\ SpentInv /\ [Next]_vars =>
        [persistent \/ Promise!Next]_<<votes, basis>>
  BY InMemoryStep
<1> QED
  BY <1>1, ConsensusTypeCorrect, RaisedInvHolds, SpentInvHolds, PTL DEF Spec, KeepsQuorum

-------------------------------------------------------------------------------
(* Routes one after the other, and VoteQuorum.                             *)

\* One route at a time is under way; between its count and its clear the table holds the
\* votes it has counted.
OneRoute == \A o, p \in Running : o = p
HoldsTheKey == \A o \in Opps : pc[o] = "clearing" => basis[o] = Counted(votes, o)

\* The opportunities that are raised, once the votes they were raised on are gone.
Spent == {o \in Opps : basis[o] # {} /\ pc[o] # "clearing"}
Serially == INSTANCE VoteQuorum WITH box <- votes, raised <- Spent

LEMMA HoldsTheKeyStep ==
  ASSUME ConsensusTypeOK, SpentInv, OneRoute, OneRoute', HoldsTheKey, [Next]_vars
  PROVE  HoldsTheKey'
<1> USE DEF ConsensusTypeOK, Goto
<1>1. ASSUME NEW o \in Opps, pc'[o] = "clearing" PROVE basis'[o] = Counted(votes', o)
  <2>1. \A p \in Opps \ {o} : pc'[p] \notin UnderWay
    BY <1>1 DEF OneRoute, Running, UnderWay
  <2>2. CASE pc[o] = "clearing"
    <3>1. persistent
      BY <2>2 DEF SpentInv
    <3>2. \A p \in Opps \ {o} : pc[p] \notin UnderWay
      BY <2>2 DEF OneRoute, Running, UnderWay
    <3>3. ~Crash
      BY <1>1, <2>2 DEF Crash, Running, UnderWay
    <3>4. ASSUME NEW p \in Opps, ConsensusStep(p) PROVE p # o /\ NothingToVoteOn(p)
      <4>1. p # o
        BY <1>1, <2>2, <3>4
        DEF ConsensusStep, Expire, Vote, Count, HandedOn, Clear, StoreFails, VoteInMemory,
            NothingToVoteOn, Raise
      <4> QED
        BY <2>1, <3>1, <3>2, <3>4, <4>1
        DEF ConsensusStep, Expire, Vote, Count, HandedOn, Clear, StoreFails, VoteInMemory,
            Raise, UnderWay
    <3>5. UNCHANGED <<votes, basis>>
      BY <3>3, <3>4 DEF Next, NothingToVoteOn, AllHandedOn, vars
    <3> QED
      BY <2>2, <3>5 DEF Counted, HoldsTheKey
  <2>3. CASE pc[o] # "clearing"
    <3>1. Count(o)
      BY <1>1, <2>3
      DEF Next, ConsensusStep, Expire, Vote, Count, HandedOn, Clear, StoreFails, VoteInMemory,
          NothingToVoteOn, Raise, Crash, AllHandedOn, vars
    <3> QED
      BY <1>1, <3>1 DEF Count, HandedOn, Counted
  <2> QED
    BY <2>2, <2>3
<1> QED
  BY <1>1 DEF HoldsTheKey

\* A route that gets to its end without a consensus raises nothing.
LEMMA NoneSpent ==
  ASSUME ConsensusTypeOK, NEW o \in Opps, UNCHANGED basis,
         \A p \in Opps \ {o} : pc'[p] = pc[p],
         basis[o] = {} \/ (pc[o] # "clearing" /\ pc'[o] # "clearing")
  PROVE  UNCHANGED Spent
  BY DEF Spent

LEMMA SerialStep ==
  ASSUME ConsensusTypeOK, RaisedInv, SpentInv, HoldsTheKey, NEW o \in Opps, ConsensusStep(o)
  PROVE  [Serially!Next]_<<votes, Spent>>
<1> USE DEF ConsensusTypeOK, Goto
<1>0. \A T : Serially!Cardinality(T) = Cardinality(T)
  BY Zenon DEF Serially!Cardinality, Cardinality
<1>1. pc[o] \in {"found", "voting", "counting"} => basis[o] = {}
  BY DEF SpentInv
<1>2. CASE Expire(o)
  <2>1. votes' \subseteq votes /\ UNCHANGED Spent
    BY <1>1, <1>2, NoneSpent DEF Expire
  <2> QED
    BY <2>1 DEF Serially!Next, Serially!Lose
<1>3. CASE Vote(o)
  <2>1. votes' \subseteq votes \cup {o} /\ UNCHANGED Spent
    BY <1>1, <1>3, NoneSpent DEF Vote, Cast
  <2> QED
    BY <2>1 DEF Serially!Next, Serially!Cast
<1>4. CASE Count(o)
  <2>1. UNCHANGED votes
    BY <1>4 DEF Count
  <2>2. CASE UNCHANGED basis
    BY <1>1, <1>4, <2>1, <2>2, NoneSpent DEF Count, HandedOn
  <2>3. CASE basis' # basis
    <3>1. basis' = [basis EXCEPT ![o] = Counted(votes, o)] /\ pc' = [pc EXCEPT ![o] = "clearing"]
      BY <1>4, <2>3 DEF Count
    <3>2. UNCHANGED Spent
      BY <1>1, <1>4, <3>1 DEF Spent, Count, HandedOn
    <3> QED
      BY <2>1, <3>2
  <2> QED
    BY <2>2, <2>3
<1>5. CASE Clear(o)
  <2>1. /\ pc[o] = "clearing" /\ pc' = [pc EXCEPT ![o] = "raising"]
        /\ votes' = Cleared(votes, o) /\ UNCHANGED basis
    BY <1>5 DEF Clear
  <2>2. basis[o] \subseteq votes /\ votes' \subseteq votes \ basis[o]
    BY <2>1 DEF HoldsTheKey, Counted, Cleared
  <2>3. Serially!Quorum(basis[o], o) /\ basis[o] # {}
    <3>1. QuorumOf(o)
      BY <2>1 DEF RaisedInv
    <3>2. Serially!Quorum(basis[o], o)
      BY <1>0, <3>1 DEF QuorumOf, Serially!Quorum
    <3>3. ASSUME basis[o] = {} PROVE FALSE
      <4>1. {AgentOf[v] : v \in basis[o]} = {}
        BY <3>3
      <4>2. Cardinality({AgentOf[v] : v \in basis[o]}) = 0
        BY <4>1, FS_EmptySet
      <4> QED
        BY <3>1, <4>2, ConsensusAssumption DEF QuorumOf
    <3> QED
      BY <3>2, <3>3
  <2>4. o \notin Spent /\ Spent' = Spent \cup {o}
    BY <2>1, <2>3 DEF Spent
  <2>5. Serially!Raise(o)
    BY <2>2, <2>3, <2>4 DEF Serially!Raise
  <2> QED
    BY <2>5 DEF Serially!Next
<1>6. CASE StoreFails(o)
  <2>1. CASE pc[o] = "voting"
    <3>1. votes' \subseteq votes \cup {o} /\ UNCHANGED Spent
      BY <1>1, <1>6, <2>1, NoneSpent DEF StoreFails, Cast
    <3> QED
      BY <3>1 DEF Serially!Next, Serially!Cast
  <2>2. CASE pc[o] = "counting"
    <3>1. UNCHANGED votes /\ UNCHANGED Spent
      BY <1>1, <1>6, <2>2, NoneSpent DEF StoreFails
    <3> QED
      BY <3>1
  <2>3. CASE pc[o] = "clearing"
    <3>1. votes' \subseteq votes /\ basis' = [basis EXCEPT ![o] = {}] /\ pc' = [pc EXCEPT ![o] = "raised"]
      BY <1>6, <2>3 DEF StoreFails, Cleared
    <3>2. UNCHANGED Spent
      BY <2>3, <3>1 DEF Spent
    <3> QED
      BY <3>1, <3>2 DEF Serially!Next, Serially!Lose
  <2> QED
    BY <1>6, <2>1, <2>2, <2>3 DEF StoreFails
<1>7. CASE VoteInMemory(o)
  <2> DEFINE cast == Cast(votes, o)
             counted == Counted(cast, o)
  <2>1. pc[o] = "found" /\ o \in cast /\ cast \subseteq votes \cup {o} /\ counted \subseteq cast
    BY <1>7 DEF VoteInMemory, HandedOn, Cast, Counted
  <2>2. CASE Enough(counted)
    <3>1. /\ basis' = [basis EXCEPT ![o] = counted] /\ votes' = Cleared(cast, o)
          /\ pc' = [pc EXCEPT ![o] = "raising"]
      BY <1>7, <2>2 DEF VoteInMemory
    <3>2. OnePerAgent(cast) /\ cast \in SUBSET Opps
      BY <2>1, CastKeepsOne DEF RaisedInv
    <3>3. counted # {} /\ Serially!Quorum(counted, o)
      <4>1. counted # {}
        BY <2>1, <2>2, <3>2, VotesAreFinite
      <4>2. /\ Cardinality({AgentOf[v] : v \in counted}) >= Threshold
            /\ \A v \in counted : KeyOf[v] = KeyOf[o]
        BY <2>2, <3>2, CountedIsQuorum
      <4> QED
        BY <1>0, <4>1, <4>2 DEF Serially!Quorum
    <3>4. votes' \subseteq votes \ counted
      BY <2>1, <3>1 DEF Cleared, Counted, Cast
    <3>5. o \notin Spent /\ Spent' = Spent \cup {o}
      <4> HIDE DEF counted, cast
      <4> QED
        BY <1>1, <2>1, <3>1, <3>3 DEF Spent
    <3>6. Serially!Raise(o)
      <4> HIDE DEF counted
      <4> QED
        BY <2>1, <3>3, <3>4, <3>5 DEF Serially!Raise
    <3> QED
      BY <3>6 DEF Serially!Next
  <2>3. CASE ~Enough(counted)
    <3>1. votes' \subseteq votes \cup {o} /\ UNCHANGED basis /\ pc' = [pc EXCEPT ![o] = "done"]
      BY <1>7, <2>1, <2>3 DEF VoteInMemory, HandedOn, Cleared
    <3>2. UNCHANGED Spent
      BY <1>1, <2>1, <3>1, NoneSpent
    <3> QED
      BY <3>1, <3>2 DEF Serially!Next, Serially!Cast
  <2> QED
    BY <2>2, <2>3
<1>8. CASE NothingToVoteOn(o) \/ Raise(o)
  <2>1. UNCHANGED votes /\ UNCHANGED Spent
    BY <1>1, <1>8, NoneSpent DEF NothingToVoteOn, HandedOn, Raise
  <2> QED
    BY <2>1
<1> QED
  BY <1>2, <1>3, <1>4, <1>5, <1>6, <1>7, <1>8 DEF ConsensusStep

\* What the table lacks is isolation alone: while one route at a time is under way, the votes
\* in the table keep the promise as those in memory do, whatever fails or crashes.
THEOREM LoneRoutesKeepPromise == Spec /\ []OneRoute => Serially!Spec
<1>1. Init => HoldsTheKey /\ Serially!Init
  BY DEF Init, HoldsTheKey, Serially!Init, Spent
<1>2. ConsensusTypeOK /\ SpentInv /\ OneRoute /\ OneRoute' /\ HoldsTheKey /\ [Next]_vars
      => HoldsTheKey'
  BY HoldsTheKeyStep
<1>3. ConsensusTypeOK /\ RaisedInv /\ SpentInv /\ HoldsTheKey /\ [Next]_vars =>
        [Serially!Next]_<<votes, Spent>>
  <2> SUFFICES ASSUME ConsensusTypeOK, RaisedInv, SpentInv, HoldsTheKey, [Next]_vars
               PROVE  [Serially!Next]_<<votes, Spent>>
    OBVIOUS
  <2>1. CASE Crash
    <3>1. votes' \subseteq votes
      BY <2>1 DEF Crash
    <3>2. \A o \in Opps : pc[o] = "clearing" <=> pc[o] = "clearing" /\ o \in Running
      BY DEF Running, UnderWay
    <3>3. UNCHANGED Spent
      BY <2>1, <3>2 DEF Crash, Spent, ConsensusTypeOK
    <3> QED
      BY <3>1, <3>3 DEF Serially!Next, Serially!Lose
  <2>2. CASE AllHandedOn \/ UNCHANGED vars
    BY <2>2 DEF AllHandedOn, vars, Spent
  <2> QED
    BY <2>1, <2>2, SerialStep DEF Next
<1> QED
  BY <1>1, <1>2, <1>3, ConsensusTypeCorrect, RaisedInvHolds, SpentInvHolds, PTL DEF Spec, Serially!Spec

===============================================================================
