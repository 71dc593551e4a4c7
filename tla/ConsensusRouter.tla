--------------------------- MODULE ConsensusRouter ---------------------------
(***************************************************************************)
(* The router in front of OpportunityRouter, which raises an opportunity   *)
(* to automatic execution when enough agents found the same trade:         *)
(* ConsensusRouter (src/trading/agents/router.py) with its votes in the    *)
(* table consensus_votes (src/trading/storage/consensus.py), as the        *)
(* application wires it, or in memory, as it does without a store.         *)
(*                                                                         *)
(* With the table a route awaits four statements, with others in between;  *)
(* in memory it votes, counts and clears without an await.  A vote is      *)
(* named by the opportunity it was cast with.                              *)
(***************************************************************************)
EXTENDS Integers, FiniteSets

CONSTANTS
  Opps,       \* opportunities handed in, each once
  AgentOf,    \* who found it
  KeyOf,      \* its ticker and side, or NoTrade
  NoTrade,    \* no suggested_trade
  Level,      \* the action level of its agent
  At,         \* its timestamp, in minutes
  Window,     \* window_minutes
  Threshold,  \* votes needed
  Faults      \* what may go wrong

ASSUME ConsensusAssumption ==
  /\ IsFiniteSet(Opps)
  /\ At \in [Opps -> Int] /\ Window \in Nat /\ Threshold \in Nat \ {0}
  /\ Faults \subseteq {"store", "crash"}

Levels == {"notify", "suggest_trade", "auto_execute"}
ASSUME LevelAssumption == Level \in [Opps -> Levels]

VARIABLES
  persistent,  \* there is a consensus_store
  votes,       \* the votes kept
  pc,          \* where a route stands
  handed,      \* the level the opportunity is handed on with
  basis,       \* history: the votes an opportunity was raised on
  beside,      \* history: who else had counted when a route cleared
  spoiled      \* history: keys of which a route did not get to its end

vars == <<persistent, votes, pc, handed, basis, beside, spoiled>>

UnderWay == {"voting", "counting", "clearing", "raising"}
PC == {"found", "done", "raised", "cut"} \cup UnderWay

ConsensusTypeOK ==
  /\ persistent \in BOOLEAN
  /\ votes \subseteq Opps
  /\ pc \in [Opps -> PC]
  /\ handed \in [Opps -> Levels \cup {"none"}]
  /\ basis \in [Opps -> SUBSET Opps]
  /\ beside \in [Opps -> SUBSET Opps]
  /\ spoiled \subseteq {KeyOf[o] : o \in Opps}

Init ==
  /\ persistent \in BOOLEAN
  /\ votes = {}
  /\ pc = [o \in Opps |-> "found"]
  /\ handed = [o \in Opps |-> "none"]
  /\ basis = [o \in Opps |-> {}]
  /\ beside = [o \in Opps |-> {}]
  /\ spoiled = {}

Goto(o, from, to) == pc[o] = from /\ pc' = [pc EXCEPT ![o] = to]
Running == {o \in Opps : pc[o] \in UnderWay}
Proposes(o) == KeyOf[o] # NoTrade
Cutoff(o) == At[o] - Window
Enough(counted) == Cardinality(counted) >= Threshold


-------------------------------------------------------------------------------
(* The votes of one key.                                                   *)

\* Mutant: a plain INSERT, as in the store of agents/consensus.py.
CastMutant(box, o) == box \cup {o}

\* INSERT OR REPLACE: the key is ticker, side and agent.
Cast(box, o) ==
  {v \in box : KeyOf[v] # KeyOf[o] \/ AgentOf[v] # AgentOf[o]} \cup {o}

Counted(box, o) == {v \in box : KeyOf[v] = KeyOf[o] /\ At[v] >= Cutoff(o)}

\* Mutant: the votes that were counted stay.
ClearedMutant(box, o) == box

Cleared(box, o) == {v \in box : KeyOf[v] # KeyOf[o]}

\* The router behind takes over at the agent's own level.
HandedOn(o, from) ==
  /\ Goto(o, from, "done")
  /\ handed' = [handed EXCEPT ![o] = Level[o]]

-------------------------------------------------------------------------------
(* With the table.                                                         *)

\* cleanup_expired looks at all keys.
Expire(o) ==
  /\ persistent /\ Proposes(o)
  /\ Goto(o, "found", "voting")
  /\ votes' = {v \in votes : At[v] >= Cutoff(o)}
  /\ UNCHANGED <<persistent, handed, basis, beside, spoiled>>

Vote(o) ==
  /\ Goto(o, "voting", "counting")
  /\ votes' = Cast(votes, o)
  /\ UNCHANGED <<persistent, handed, basis, beside, spoiled>>

\* Mutant: one vote more is asked for.
CountMutant(o) ==
  /\ LET counted == Counted(votes, o)
     IN IF Cardinality(counted) > Threshold
        THEN /\ Goto(o, "counting", "clearing")
             /\ basis' = [basis EXCEPT ![o] = counted] /\ UNCHANGED handed
        ELSE HandedOn(o, "counting") /\ UNCHANGED basis
  /\ UNCHANGED <<persistent, votes, beside, spoiled>>

Count(o) ==
  /\ LET counted == Counted(votes, o)
     IN IF Enough(counted)
        THEN /\ Goto(o, "counting", "clearing")
             /\ basis' = [basis EXCEPT ![o] = counted] /\ UNCHANGED handed
        ELSE HandedOn(o, "counting") /\ UNCHANGED basis
  /\ UNCHANGED <<persistent, votes, beside, spoiled>>

\* Whatever the key holds by now is deleted, counted or not.
Clear(o) ==
  /\ Goto(o, "clearing", "raising")
  /\ votes' = Cleared(votes, o)
  /\ beside' = [beside EXCEPT ![o] = {p \in Opps \ {o} : pc[p] = "clearing"}]
  /\ UNCHANGED <<persistent, handed, basis, spoiled>>

\* A statement raises, applied or not: the scan that handed the opportunity in ends.
StoreFails(o) ==
  /\ "store" \in Faults
  /\ \/ pc[o] = "voting" /\ votes' \in {votes, Cast(votes, o)} /\ UNCHANGED basis
     \/ pc[o] = "counting" /\ UNCHANGED <<votes, basis>>
     \/ /\ pc[o] = "clearing" /\ votes' \in {votes, Cleared(votes, o)}
        /\ basis' = [basis EXCEPT ![o] = {}]
  /\ pc' = [pc EXCEPT ![o] = "raised"]
  /\ spoiled' = spoiled \cup {KeyOf[o]}
  /\ UNCHANGED <<persistent, handed, beside>>

-------------------------------------------------------------------------------
(* In memory: nothing is awaited before the opportunity is handed on.      *)

VoteInMemory(o) ==
  /\ ~persistent /\ Proposes(o)
  /\ LET cast == Cast(votes, o)
         counted == Counted(cast, o)
     IN IF Enough(counted)
        THEN /\ Goto(o, "found", "raising")
             /\ votes' = Cleared(cast, o)
             /\ basis' = [basis EXCEPT ![o] = counted] /\ UNCHANGED handed
        ELSE /\ HandedOn(o, "found")
             /\ votes' = Cleared(cast, o) \cup counted
             /\ UNCHANGED basis
  /\ UNCHANGED <<persistent, beside, spoiled>>

-------------------------------------------------------------------------------
(* Handing on to OpportunityRouter.                                        *)

NothingToVoteOn(o) ==
  /\ ~Proposes(o)
  /\ HandedOn(o, "found")
  /\ UNCHANGED <<persistent, votes, basis, beside, spoiled>>

\* The consensus is published, and the opportunity goes on as one to execute.
Raise(o) ==
  /\ Goto(o, "raising", "done")
  /\ handed' = [handed EXCEPT ![o] = "auto_execute"]
  /\ UNCHANGED <<persistent, votes, basis, beside, spoiled>>

\* The process dies: votes in the table stay, of routes that never came to an end.
Crash ==
  /\ "crash" \in Faults /\ Running # {}
  /\ pc' = [o \in Opps |-> IF o \in Running THEN "cut" ELSE pc[o]]
  /\ votes' = IF persistent THEN votes ELSE {}
  /\ basis' = [o \in Opps |-> IF pc[o] = "clearing" THEN {} ELSE basis[o]]
  /\ spoiled' = spoiled \cup {KeyOf[o] : o \in Running}
  /\ UNCHANGED <<persistent, handed, beside>>

-------------------------------------------------------------------------------

ConsensusStep(o) ==
  \/ Expire(o) \/ Vote(o) \/ Count(o) \/ Clear(o) \/ StoreFails(o)
  \/ VoteInMemory(o) \/ NothingToVoteOn(o) \/ Raise(o)

AllHandedOn ==
  /\ \A o \in Opps : pc[o] \in {"done", "raised", "cut"}
  /\ UNCHANGED vars

Next == (\E o \in Opps : ConsensusStep(o)) \/ Crash \/ AllHandedOn

Spec == Init /\ [][Next]_vars

-------------------------------------------------------------------------------
(* Properties.                                                             *)

\* An opportunity goes on as one to execute only if its agent may execute on its own,
\* or enough different agents voted for the same trade within the window: a vote cast
\* twice by one agent counts once, whichever routes run side by side.
RaisedOnQuorum ==
  \A o \in Opps : handed[o] = "auto_execute" =>
    \/ Level[o] = "auto_execute"
    \/ /\ Cardinality({AgentOf[v] : v \in basis[o]}) >= Threshold
       /\ \A v \in basis[o] : KeyOf[v] = KeyOf[o] /\ At[v] >= Cutoff(o)

\* In memory the votes keep the promise of VoteQuorum: a vote raises one opportunity.
Promise == INSTANCE VoteQuorum WITH box <- votes, raised <- {o \in Opps : basis[o] # {}}
KeepsQuorum == [][persistent \/ Promise!Next]_<<votes, basis>>

\* With the table one vote may raise two opportunities, but only if each of the two
\* routes counted before the other had cleared.
SpentTwiceExplained ==
  \A o, p \in {q \in Opps : pc[q] # "clearing"} :
    o # p /\ basis[o] \cap basis[p] # {} => persistent /\ (p \in beside[o] \/ o \in beside[p])

\* Enough votes never lie there unnoticed: when no route of a key is under way and none
\* was cut short, the votes in the window of the latest one are too few.
NoIdleQuorum ==
  \A o \in votes :
    /\ KeyOf[o] \notin spoiled
    /\ \A p \in Running : KeyOf[p] # KeyOf[o]
    /\ \A v \in votes : KeyOf[v] = KeyOf[o] => At[v] <= At[o]
    => ~Enough(Counted(votes, o))

===============================================================================
