------------------------------ MODULE VoteQuorum ------------------------------
(***************************************************************************)
(* What a consensus among agents promises (ConsensusRouter of              *)
(* src/trading/agents/router.py): an opportunity is raised to automatic    *)
(* execution on the votes of enough agents, and a vote is spent by the     *)
(* elevation it served.  A vote is named by the opportunity it was cast    *)
(* with.  Nothing is said of how votes are kept: they may lapse, be        *)
(* replaced or be lost at any time.                                        *)
(***************************************************************************)
EXTENDS Naturals, FiniteSets

CONSTANTS
  Opps,      \* opportunities, and the votes cast with them
  AgentOf,   \* who found one
  KeyOf,     \* the symbol and the side it proposes to trade
  Threshold  \* how many agents have to agree

VARIABLES
  box,    \* votes that still count
  raised  \* opportunities raised

Quorum(Q, o) ==
  /\ \A v \in Q : KeyOf[v] = KeyOf[o]
  /\ Cardinality({AgentOf[v] : v \in Q}) >= Threshold

Init == box = {} /\ raised = {}

Cast(o) == box' \in SUBSET (box \cup {o}) /\ raised' = raised

Raise(o) ==
  /\ o \notin raised /\ raised' = raised \cup {o}
  /\ \E Q \in SUBSET (box \cup {o}) :
       /\ Quorum(Q, o)
       /\ box' \in SUBSET (box \ Q)

Lose == box' \in SUBSET box /\ raised' = raised

Next == Lose \/ \E o \in Opps : Cast(o) \/ Raise(o)

Spec == Init /\ [][Next]_<<box, raised>>

===============================================================================
