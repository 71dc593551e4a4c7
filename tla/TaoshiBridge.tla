----------------------------- MODULE TaoshiBridge -----------------------------
(***************************************************************************)
(* TaoshiBridge (src/trading/integrations/bittensor/taoshi_bridge.py): it  *)
(* polls the files of open positions, tells the signal bus of each that is *)
(* new or has changed, and keeps the names of those it told of in the      *)
(* database (src/trading/storage/bittensor.py) for the next start.         *)
(*                                                                         *)
(* A content is what _hash_position tells apart of a position; it grows    *)
(* with the position's orders and does not come back.  Positions without   *)
(* orders, of which nothing is told, are left out.                         *)
(***************************************************************************)
EXTENDS Naturals

CONSTANTS
  Positions,    \* position_uuids
  LastContent,  \* bound: a position changes at most to this content
  MaxRestarts   \* bound: how often the process starts again

ASSUME BridgeAssumption == LastContent \in Nat \ {0} /\ MaxRestarts \in Nat

Contents == 1..LastContent
Closed == 0       \* the file is gone
Unknown == 0      \* no entry in _seen_positions
NoHash == LastContent + 1  \* an entry without a hash, loaded from the store

VARIABLES
  file,     \* the content of a position's file, or Closed
  hashes,   \* _seen_positions
  loaded,   \* _initialized_from_store
  stored,   \* bittensor_processed_positions
  phase,    \* where the poll stands
  todo,     \* positions it has still to look at
  present,  \* current_uuids
  subject,  \* the position a signal is emitted of
  told,     \* history: the contents the bus was told of since the start
  kept,     \* history: positions known from the store at the start
  missed,   \* history: positions of which the bus refused a signal
  restarts  \* how often the process started again

bridgeVars == <<file, hashes, loaded, stored, phase, todo, present, subject, told, kept,
                missed, restarts>>

BridgeTypeOK ==
  /\ file \in [Positions -> Contents \cup {Closed}]
  /\ hashes \in [Positions -> Contents \cup {Unknown, NoHash}]
  /\ loaded \subseteq Positions /\ stored \subseteq Positions
  /\ phase \in {"resting", "looking", "publishing", "storing"}
  /\ todo \subseteq Positions /\ present \subseteq Positions
  /\ subject \in SUBSET Positions
  /\ told \in [Positions -> SUBSET Contents]
  /\ kept \subseteq Positions /\ missed \subseteq Positions
  /\ restarts \in 0..MaxRestarts

BridgeInit ==
  /\ file = [p \in Positions |-> 1] /\ hashes = [p \in Positions |-> Unknown]
  /\ loaded = {} /\ stored = {}
  /\ phase = "resting" /\ todo = {} /\ present = {} /\ subject = {}
  /\ told = [p \in Positions |-> {}]
  /\ kept = {} /\ missed = {} /\ restarts = 0

PollBegins ==
  /\ phase = "resting" /\ phase' = "looking"
  /\ todo' = Positions /\ present' = {}
  /\ UNCHANGED <<file, hashes, loaded, stored, subject, told, kept, missed, restarts>>

Turns(p) == phase = "looking" /\ p \in todo /\ todo' = todo \ {p}

\* The file is gone.
Absent(p) ==
  /\ Turns(p) /\ file[p] = Closed
  /\ UNCHANGED <<file, hashes, loaded, stored, phase, present, subject, told, kept, missed,
                 restarts>>

\* It is there, and cannot be read or parsed, as while it is written.
Unreadable(p) ==
  /\ Turns(p) /\ file[p] # Closed
  /\ present' = present \cup {p}
  /\ UNCHANGED <<file, hashes, loaded, stored, phase, subject, told, kept, missed, restarts>>

\* Mutant: whatever was seen before counts as told.
NewsMutant(p) == hashes[p] \in {Unknown, NoHash}

\* A position that is new to this process is told of, whether the store knew it or not;
\* the look after that takes whatever it finds for seen.
News(p) ==
  \/ hashes[p] \in {Unknown, NoHash}
  \/ p \notin loaded /\ hashes[p] # file[p]

Look(p) ==
  /\ Turns(p) /\ file[p] # Closed
  /\ present' = present \cup {p}
  /\ hashes' = [hashes EXCEPT ![p] = file[p]]
  /\ loaded' = IF hashes[p] \in Contents THEN loaded \ {p} ELSE loaded
  /\ IF News(p) THEN phase' = "publishing" /\ subject' = {p} ELSE UNCHANGED <<phase, subject>>
  /\ UNCHANGED <<file, stored, told, kept, missed, restarts>>

Publish(p) ==
  /\ phase = "publishing" /\ phase' = "storing" /\ p \in subject
  /\ told' = [told EXCEPT ![p] = @ \cup {hashes[p]}]
  /\ UNCHANGED <<file, hashes, loaded, stored, todo, present, subject, kept, missed, restarts>>

\* The bus refuses the signal, and the poll ends with it: nothing is pruned, and the
\* hash says that the position was told of.
PublishFails(p) ==
  /\ phase = "publishing" /\ phase' = "resting" /\ p \in subject
  /\ subject' = {} /\ todo' = {}
  /\ missed' = missed \cup {p}
  /\ UNCHANGED <<file, hashes, loaded, stored, present, told, kept, restarts>>

\* A failure to store the name is only logged.
Store(p) ==
  /\ phase = "storing" /\ phase' = "looking" /\ p \in subject
  /\ subject' = {}
  /\ stored' \in {stored, stored \cup {p}}
  /\ UNCHANGED <<file, hashes, loaded, todo, present, told, kept, missed, restarts>>

\* What was not present is forgotten.
Prune ==
  /\ phase = "looking" /\ todo = {} /\ phase' = "resting"
  /\ hashes' = [p \in Positions |-> IF p \in present THEN hashes[p] ELSE Unknown]
  /\ loaded' = loaded \cap present
  /\ UNCHANGED <<file, stored, todo, present, subject, told, kept, missed, restarts>>

\* Orders are added to a position, or it is closed.
PositionMoves(p) ==
  /\ file[p] # Closed
  /\ file' = [file EXCEPT ![p] = IF file[p] < LastContent THEN file[p] + 1 ELSE Closed]
  /\ UNCHANGED <<hashes, loaded, stored, phase, todo, present, subject, told, kept, missed,
                 restarts>>

\* run begins with the names in the store.
BridgeRestarts ==
  /\ restarts < MaxRestarts /\ restarts' = restarts + 1
  /\ hashes' = [p \in Positions |-> IF p \in stored THEN NoHash ELSE Unknown]
  /\ loaded' = stored /\ kept' = stored
  /\ phase' = "resting" /\ todo' = {} /\ present' = {} /\ subject' = {}
  /\ told' = [p \in Positions |-> {}] /\ missed' = {}
  /\ UNCHANGED <<file, stored>>

BridgeNext ==
  \/ PollBegins \/ Prune \/ BridgeRestarts
  \/ \E p \in Positions :
       \/ Absent(p) \/ Unreadable(p) \/ Look(p)
       \/ Publish(p) \/ PublishFails(p) \/ Store(p) \/ PositionMoves(p)

BridgeSpec == BridgeInit /\ [][BridgeNext]_bridgeVars

-------------------------------------------------------------------------------
(* Properties.                                                             *)

\* What the bridge takes for seen, the bus was told of: unless the bus refused it, or the
\* position was in the store at the start, whose first change after the first look at it
\* is taken for seen and told to nobody.
SeenIsTold ==
  \A p \in Positions :
    hashes[p] \in Contents =>
      \/ hashes[p] \in told[p]
      \/ phase = "publishing" /\ subject = {p}
      \/ p \in missed \/ p \in kept

\* From one start to the next the bus is told of no content twice, though polls fail,
\* files cannot be read for a while, and positions close.
ToldOnce ==
  \A p \in Positions : phase = "publishing" /\ p \in subject => hashes[p] \notin told[p]

===============================================================================
