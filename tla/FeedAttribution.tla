---------------------------- MODULE FeedAttribution ----------------------------
(***************************************************************************)
(* What the signal feed says it has earned: FeedArbPnLAttribution          *)
(* (src/trading/feeds/pnl_attribution.py) once a minute adds the fills     *)
(* since its last look to a rollup, and gives each signal its outcome.     *)
(* The signals are inserted by FeedPublisher (feeds/publisher.py), beside  *)
(* the executor that trades them; the fills are legs in the tables of      *)
(* ArbStore (src/trading/storage/arbitrage.py), on Postgres, where each    *)
(* statement commits by itself, and are told apart from older ones by the  *)
(* updated_at of their trade.                                              *)
(*                                                                         *)
(* A signal and the trade it leads to are one value.  The collectors of    *)
(* live fills are left out: no live broker of Kalshi is registered, so no  *)
(* trade of both venues leaves its preflight.  Amounts are left out too.   *)
(***************************************************************************)
EXTENDS Integers, FiniteSets, FiniteSetsExt

CONSTANTS
  Signals,   \* signals with the trade of each
  MaxClock,  \* bound: the times writers take
  MaxSlips   \* bound: failures of the database and restarts

ASSUME FeedAssumption == MaxClock \in Nat /\ MaxSlips \in Nat

Sides == {"leg_a", "leg_b"}
Legs == Signals \X Sides
Writers == Signals \X (Sides \cup {"state"})

NoCursor == -1

VARIABLES
  outcome,   \* per signal "absent", "open" for NULL, "missed" or "filled"
  expired,   \* signals whose expires_at is past
  clock,     \* the last time somebody took
  leg,       \* status of a row of arb_legs
  trade,     \* what execute_arbitrage has yet to write
  taken,     \* the time an update has taken and not written yet, 0 for none
  updated,   \* updated_at of a row of arb_trades
  cursor,    \* _last_fill_cursor
  tick,      \* where the tick stands
  got,       \* fills it has collected
  priced,    \* those it has looked up the signal of
  worth,     \* those of which it found one
  counted,   \* rollups a fill is in: 0, 1 or 2 for more
  first,     \* history: updated_at of the trade when a fill was first collected
  unknown,   \* history: fills collected before their signal was inserted
  slips      \* how many have happened

tradeVars == <<clock, leg, trade, taken, updated>>
tickVars == <<tick, got, priced, worth>>
feedVars == <<outcome, expired, tradeVars, cursor, tickVars, counted, first, unknown, slips>>

FeedTypeOK ==
  /\ outcome \in [Signals -> {"absent", "open", "missed", "filled"}] /\ expired \subseteq Signals
  /\ clock \in 0..MaxClock
  /\ leg \in [Legs -> {"pending", "filled", "lost"}]
  /\ trade \in [Signals -> {"legs", "unwinding", "over"}]
  /\ taken \in [Writers -> 0..MaxClock] /\ updated \in [Signals -> 0..MaxClock]
  /\ cursor \in NoCursor..MaxClock
  /\ tick \in {"sleeping", "collecting", "pricing", "rolling"}
  /\ got \subseteq Legs /\ priced \subseteq got /\ worth \subseteq priced
  /\ counted \in [Legs -> 0..2] /\ first \in [Legs -> NoCursor..MaxClock]
  /\ unknown \subseteq Legs /\ slips \in 0..MaxSlips

FeedInit ==
  /\ outcome = [s \in Signals |-> "absent"] /\ expired = {}
  /\ clock = 0 /\ leg = [e \in Legs |-> "pending"] /\ trade = [s \in Signals |-> "legs"]
  /\ taken = [w \in Writers |-> 0] /\ updated = [s \in Signals |-> 0]
  /\ cursor = NoCursor /\ tick = "sleeping" /\ got = {} /\ priced = {} /\ worth = {}
  /\ counted = [e \in Legs |-> 0] /\ first = [e \in Legs |-> NoCursor]
  /\ unknown = {} /\ slips = 0

Slip == slips < MaxSlips /\ slips' = slips + 1

-------------------------------------------------------------------------------
(* The publisher, and the trades.                                          *)

\* The row may come before or after the fills; an INSERT that fails is not repeated.
Insert(s) ==
  /\ outcome[s] = "absent" /\ outcome' = [outcome EXCEPT ![s] = "open"]
  /\ UNCHANGED <<expired, tradeVars, cursor, tickVars, counted, first, unknown, slips>>

SignalExpires(s) ==
  /\ s \notin expired /\ expired' = expired \cup {s}
  /\ UNCHANGED <<outcome, tradeVars, cursor, tickVars, counted, first, unknown, slips>>

\* An update takes its time first.
Takes(w) ==
  /\ clock < MaxClock /\ clock' = clock + 1
  /\ taken[w] = 0 /\ taken' = [taken EXCEPT ![w] = clock + 1]

\* update_leg_atomic.
LegAnswered(e) ==
  /\ leg[e] = "pending" /\ Takes(e)
  /\ UNCHANGED <<outcome, expired, leg, trade, updated, cursor, tickVars, counted, first,
                 unknown, slips>>

LegStored(e) ==
  /\ leg[e] = "pending" /\ taken[e] > 0
  /\ \E status \in {"filled", "lost"} : leg' = [leg EXCEPT ![e] = status]
  /\ UNCHANGED <<outcome, expired, clock, trade, taken, updated, cursor, tickVars, counted,
                 first, unknown, slips>>

\* The timeout cuts the answer or the update short.
LegTimesOut(e) ==
  /\ leg[e] = "pending" \/ taken[e] > 0
  /\ leg' = [leg EXCEPT ![e] = IF @ = "pending" THEN "lost" ELSE @]
  /\ taken' = [taken EXCEPT ![e] = 0]
  /\ UNCHANGED <<outcome, expired, clock, trade, updated, cursor, tickVars, counted, first,
                 unknown, slips>>

LegOver(e) == leg[e] # "pending" /\ taken[e] = 0

\* update_trade_state, once or, around an unwind, twice.
StateChanges(s) ==
  /\ trade[s] # "over" /\ \A side \in Sides : LegOver(<<s, side>>)
  /\ \/ trade' = [trade EXCEPT ![s] = "over"]
     \/ trade[s] = "legs" /\ trade' = [trade EXCEPT ![s] = "unwinding"]
  /\ Takes(<<s, "state">>)
  /\ UNCHANGED <<outcome, expired, leg, updated, cursor, tickVars, counted, first, unknown,
                 slips>>

Stamped(w) ==
  /\ taken[w] > 0 /\ (w \in Legs => leg[w] # "pending")
  /\ updated' = [updated EXCEPT ![w[1]] = taken[w]] /\ taken' = [taken EXCEPT ![w] = 0]
  /\ UNCHANGED <<outcome, expired, clock, leg, trade, cursor, tickVars, counted, first,
                 unknown, slips>>

-------------------------------------------------------------------------------
(* One tick.                                                               *)

\* _mark_expired_as_missed.
Missed == {s \in expired : outcome[s] = "open"}

TickBegins ==
  /\ tick = "sleeping" /\ tick' = "collecting"
  /\ \/ outcome' = [s \in Signals |-> IF s \in Missed THEN "missed" ELSE outcome[s]]
        /\ UNCHANGED slips
     \/ Slip /\ UNCHANGED outcome
  /\ UNCHANGED <<expired, tradeVars, cursor, got, priced, worth, counted, first, unknown>>

\* The filled legs of trades updated after the cursor.
Found == {e \in Legs : leg[e] = "filled" /\ updated[e[1]] > cursor}

\* Mutant: the cursor stays where it is, as it does for live fills.
AdvanceMutant == cursor

Advance == Max({cursor} \cup {updated[e[1]] : e \in Found})

\* _collect_paper_fills; without fills there is no rollup.
Collect ==
  /\ tick = "collecting"
  /\ \/ /\ got' = Found /\ cursor' = Advance
        /\ first' = [e \in Legs |-> IF e \in Found /\ first[e] = NoCursor THEN updated[e[1]]
                                    ELSE first[e]]
        /\ UNCHANGED slips
     \/ Slip /\ UNCHANGED <<got, cursor, first>>
  /\ tick' = IF got' = {} THEN "sleeping" ELSE "pricing"
  /\ UNCHANGED <<outcome, expired, tradeVars, priced, worth, counted, unknown>>

\* _realized_from_fill: without the row of its signal a fill is worth nothing.
Price(e) ==
  /\ tick = "pricing" /\ e \in got \ priced /\ priced' = priced \cup {e}
  /\ \/ /\ worth' = IF outcome[e[1]] = "absent" THEN worth ELSE worth \cup {e}
        /\ unknown' = IF outcome[e[1]] = "absent" THEN unknown \cup {e} ELSE unknown
        /\ UNCHANGED slips
     \/ Slip /\ UNCHANGED <<worth, unknown>>
  /\ UNCHANGED <<outcome, expired, tradeVars, cursor, tick, got, counted, first>>

\* _mark_as_filled; each UPDATE may fail.
MarkFilled ==
  /\ tick = "pricing" /\ priced = got /\ tick' = "rolling"
  /\ LET traded == {s \in {e[1] : e \in got} : outcome[s] = "open"}
     IN \/ outcome' = [s \in Signals |-> IF s \in traded THEN "filled" ELSE outcome[s]]
           /\ UNCHANGED slips
        \/ \E s \in traded :
             outcome' = [q \in Signals |-> IF q \in traded \ {s} THEN "filled" ELSE outcome[q]]
             /\ Slip
  /\ UNCHANGED <<expired, tradeVars, cursor, got, priced, worth, counted, first, unknown>>

TickEnds == tick' = "sleeping" /\ got' = {} /\ priced' = {} /\ worth' = {}

Rolled == [e \in Legs |-> IF e \in worth /\ counted[e] < 2 THEN counted[e] + 1 ELSE counted[e]]

\* _write_rollup; what it raises ends the tick.
WriteRollup ==
  /\ tick = "rolling" /\ TickEnds
  /\ \/ counted' = Rolled /\ UNCHANGED slips
     \/ Slip /\ counted' \in {counted, Rolled}
  /\ UNCHANGED <<outcome, expired, tradeVars, cursor, first, unknown>>

\* The cursor is lost with the process, and so are the trades under way.
FeedRestarts ==
  /\ Slip /\ TickEnds /\ cursor' = NoCursor
  /\ taken' = [w \in Writers |-> 0] /\ trade' = [s \in Signals |-> "over"]
  /\ leg' = [e \in Legs |-> IF leg[e] = "pending" THEN "lost" ELSE leg[e]]
  /\ UNCHANGED <<outcome, expired, clock, updated, counted, first, unknown>>

TickStep == TickBegins \/ Collect \/ (\E e \in Legs : Price(e)) \/ MarkFilled \/ WriteRollup

FeedNext ==
  \/ \E s \in Signals : Insert(s) \/ SignalExpires(s) \/ StateChanges(s)
  \/ \E e \in Legs : LegAnswered(e) \/ LegStored(e) \/ LegTimesOut(e)
  \/ \E w \in Writers : Stamped(w)
  \/ TickStep \/ FeedRestarts

FeedSpec == FeedInit /\ [][FeedNext]_feedVars

-------------------------------------------------------------------------------
(* Properties.                                                             *)

\* While the database answers and the process lives, a fill is in two rollups only when its
\* trade was updated after it was collected, and none that was collected is in no rollup,
\* unless its signal was inserted later than that.
RollupExplained ==
  slips = 0 =>
    \A e \in Legs :
      /\ counted[e] > 1 => updated[e[1]] > first[e]
      /\ tick = "sleeping" /\ first[e] # NoCursor => counted[e] > 0 \/ e \in unknown

\* The cursor keeps a fill out of the rollups it is already in.  It does not hold, see
\* RollupExplained.
CountedOnce == slips = 0 => \A e \in Legs : counted[e] < 2

===============================================================================
