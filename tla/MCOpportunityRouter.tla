------------------------- MODULE MCOpportunityRouter -------------------------
(***************************************************************************)
(* The values the runs give the constants of OpportunityRouter: an entry   *)
(* o1 of the agent a1, the exits of its position, found by the exit        *)
(* monitor, and an opportunity of an agent that only notifies.             *)
(***************************************************************************)
EXTENDS OpportunityRouter, TLC

CONSTANTS o1, o2, o3, a1, monitor, notifier

TwoExits == o2 :> o1 @@ o3 :> o1
OneExit == o2 :> o1
FoundBy == [o \in Opps |-> IF o \in Exits THEN monitor ELSE IF o = o1 THEN a1 ELSE notifier]
Levels == [o \in Opps |-> IF FoundBy[o] = notifier THEN "notify" ELSE "auto_execute"]

==============================================================================
