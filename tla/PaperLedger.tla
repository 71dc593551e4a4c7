----------------------------- MODULE PaperLedger -----------------------------
(***************************************************************************)
(* The books of paper trading (src/trading/storage/paper.py): one position *)
(* and the account it is paid from, written by fills                       *)
(* (src/trading/broker/paper.py, src/trading/adapters/kalshi/paper.py) and *)
(* by the settlement of resolved markets                                   *)
(* (src/trading/exits/resolution_tracker.py).                              *)
(*                                                                         *)
(* A fill reads the position, writes it as computed, reads the account and *)
(* writes it as computed, each a statement of its own.  The account PAPER  *)
(* has a row, and its fills stand between BEGIN and commit; the accounts   *)
(* of the venues have no row, their fills no transaction, and only their   *)
(* positions are settled.  With SQLite all tasks share one connection and  *)
(* its transaction; with Postgres every statement is committed by itself.  *)
(* Commissions and slippage are left out: they are part of the price.      *)
(* What has been answered is history kept beside the tables: no rollback   *)
(* and no restart takes it back.                                           *)
(***************************************************************************)
EXTENDS Integers, FiniteSets

CONSTANTS
  Fills,     \* orders that are filled
  Tracker,   \* the resolution tracker
  Amount,    \* contracts, negative for a sale
  Price,     \* cents paid for each
  Payouts,   \* cents a contract may pay when its market is resolved
  Held,      \* contracts that may be held at the start
  HeldAt,    \* cents each of them cost
  Start,     \* cash of the account PAPER before any fill
  MaxFaults  \* bound: failures, crashes and meddling by other parts

ASSUME LedgerAssumption ==
  /\ IsFiniteSet(Fills) /\ Tracker \notin Fills
  /\ Amount \in [Fills -> Int \ {0}] /\ Price \in [Fills -> Nat]
  /\ Payouts \subseteq Nat /\ Start \in Int
  /\ Held \in Int /\ HeldAt \in Nat /\ MaxFaults \in Nat

Void == -1

Tasks == Fills \cup {Tracker}

VARIABLES
  kind,    \* "paper" or "venue"
  shared,  \* SQLite: one connection with one transaction
  book,    \* position and account, as the connection shows them
  disk,    \* the same, as committed
  open,    \* the connection is in a transaction
  at,      \* where a task stands
  seen,    \* what it has read
  market,  \* what get_market answers: 0 for unresolved, Void, or 1 + the payout
  split,   \* history: tasks not done, of whose writes another task committed some
  net,     \* history, while the books are not off: contracts of all fills answered and
           \* settlements carried out
  flow,    \* history: cash of the same
  loose,   \* history: a fill was answered, and nobody has committed since
  off,     \* history: the books have come off, for one of the reasons below
  faults   \* how many have happened

told == <<net, flow>>
ledgerVars == <<kind, shared, book, disk, open, at, seen, market, split, told, loose, off, faults>>

\* quantity, realized_pnl and resolved_at of the position, its cost, which is avg_cost for
\* each contract of quantity, and cash of the account; past tells what the row has been
\* through, settled, or settled and traded again, and is rolled back with the row.
Books == [quantity : Int, cost : Int, realized : Int, resolved : BOOLEAN,
          cash : Int, past : {"open", "settled", "reopened"}]
Places == {"idle", "reading", "writing", "asking", "paying", "saving", "committing",
           "listed", "checking", "zeroing", "crediting", "marking", "ended"}

LedgerTypeOK ==
  /\ kind \in {"paper", "venue"} /\ shared \in BOOLEAN
  /\ book \in Books /\ disk \in Books /\ open \in BOOLEAN
  /\ at \in [Tasks -> Places] /\ seen \in [Tasks -> Books]
  /\ market \in {0, Void} \cup {1 + p : p \in Payouts}
  /\ split \subseteq Tasks /\ off \in BOOLEAN /\ faults \in 0..MaxFaults
  /\ net \in Int /\ flow \in Int /\ loose \in BOOLEAN

Abs(n) == IF n < 0 THEN -n ELSE n

NewBook(n) ==
  [quantity |-> n, cost |-> Abs(n) * HeldAt, realized |-> 0, resolved |-> FALSE,
   cash |-> Start - n * HeldAt, past |-> "open"]
Nothing == NewBook(0)

LedgerInit ==
  /\ kind \in {"paper", "venue"} /\ shared \in BOOLEAN
  /\ book \in {NewBook(n) : n \in {0, Held}} /\ disk = book /\ open = FALSE
  /\ net = book.quantity /\ flow = book.cash - Start /\ loose = FALSE
  /\ at = [t \in Tasks |-> "idle"] /\ seen = [t \in Tasks |-> Nothing]
  /\ market = 0 /\ split = {} /\ off = FALSE /\ faults = 0

Step(t, from, to) == at[t] = from /\ at' = [at EXCEPT ![t] = to]
Looks(t) ==
  seen' = [seen EXCEPT ![t] = [Nothing EXCEPT !.quantity = book.quantity, !.cost = book.cost,
                                              !.realized = book.realized, !.cash = book.cash]]
Forgets(t) == seen' = [seen EXCEPT ![t] = Nothing]
Fault == faults < MaxFaults /\ faults' = faults + 1

\* A statement writes: it is committed with the transaction, or at once.
Write(new) ==
  /\ book' = new
  /\ IF shared THEN open' = TRUE /\ UNCHANGED disk ELSE disk' = new /\ UNCHANGED open

\* A task has written, and is not done.
Half(t) == at[t] \in {"asking", "paying", "saving", "committing", "crediting", "marking"}
HalfBut(t) == {u \in Tasks \ {t} : Half(u)}

\* What all tasks have written is committed.
Commits(t) ==
  /\ loose' = FALSE
  /\ IF shared THEN disk' = book /\ open' = FALSE /\ split' = (split \ {t}) \cup HalfBut(t)
     ELSE UNCHANGED <<disk, open, split>>

\* Contracts and cash are answered for, for good.
Answers(contracts, cents) ==
  IF off THEN UNCHANGED told ELSE net' = net + contracts /\ flow' = flow + cents

\* The books come off: from then on nothing is told of what was answered.
ComesOff(why) ==
  /\ off' = (off \/ why)
  /\ IF off' THEN net' = 0 /\ flow' = 0 ELSE UNCHANGED told

-------------------------------------------------------------------------------
(* Fills.                                                                  *)

\* n contracts are added to the position, or close some of it, or all and turn it round.
AddsTo(b, n) == b.quantity = 0 \/ (b.quantity > 0) = (n > 0)
ClosesAll(b, n) == ~AddsTo(b, n) /\ Abs(n) >= Abs(b.quantity)

\* What the contracts that are closed have cost, each of them the average.
Share(b, n) ==
  IF ClosesAll(b, n) THEN b.cost ELSE (Abs(n) * b.cost) \div Abs(b.quantity)

\* Mutant: a position that is turned round keeps its average.
FilledCostMutant(b, n, price) ==
  IF AddsTo(b, n) THEN b.cost + Abs(n) * price
  ELSE IF ClosesAll(b, n) THEN Abs(b.quantity + n) * (b.cost \div Abs(b.quantity))
  ELSE b.cost - Share(b, n)

\* avg_cost after n contracts at price, for all contracts then held.
FilledCost(b, n, price) ==
  IF AddsTo(b, n) THEN b.cost + Abs(n) * price
  ELSE IF ClosesAll(b, n) THEN Abs(b.quantity + n) * price
  ELSE b.cost - Share(b, n)

\* What closing realizes: what is paid for the contracts against what they have cost.
Realized(b, n, price) ==
  LET closed == IF ClosesAll(b, n) THEN Abs(b.quantity) ELSE Abs(n) IN
  IF AddsTo(b, n) THEN 0
  ELSE IF b.quantity > 0 THEN closed * price - Share(b, n)
  ELSE Share(b, n) - closed * price

\* record_fill, or BEGIN before it: within a transaction that is an error, and the handler
\* rolls back whatever is in it.
Place(f) ==
  /\ at[f] = "idle"
  /\ IF kind = "paper" /\ shared /\ open
     THEN /\ at' = [at EXCEPT ![f] = "ended"]
          /\ book' = disk /\ open' = FALSE
          /\ ComesOff(\E t \in Tasks : Half(t))
          /\ split' = {}
     ELSE /\ at' = [at EXCEPT ![f] = "reading"]
          /\ open' = (open \/ (kind = "paper" /\ shared))
          /\ UNCHANGED <<book, split, told, off>>
  /\ UNCHANGED <<kind, shared, disk, seen, market, loose, faults>>

ReadPosition(f) ==
  /\ Step(f, "reading", "writing") /\ Looks(f)
  /\ UNCHANGED <<kind, shared, book, disk, open, market, split, told, loose, off, faults>>

WritePosition(f) ==
  /\ Step(f, "writing", "asking")
  /\ LET b == seen[f] IN
     /\ Write([book EXCEPT !.quantity = b.quantity + Amount[f],
                           !.cost = FilledCost(b, Amount[f], Price[f]),
                           !.realized = b.realized + Realized(b, Amount[f], Price[f]),
                           !.past = IF @ = "open" THEN @ ELSE "reopened"])
     /\ ComesOff(<<b.quantity, b.cost, b.realized>>
                   # <<book.quantity, book.cost, book.realized>>)
  /\ UNCHANGED <<kind, shared, seen, market, split, loose, faults>>

ReadCash(f) ==
  /\ \/ kind = "paper" /\ Step(f, "asking", "paying") /\ Looks(f)
     \/ kind = "venue" /\ Step(f, "asking", "saving") /\ Forgets(f)
  /\ UNCHANGED <<kind, shared, book, disk, open, market, split, told, loose, off, faults>>

WriteCash(f) ==
  /\ Step(f, "paying", "saving") /\ Forgets(f)
  /\ Write([book EXCEPT !.cash = seen[f].cash - Amount[f] * Price[f]])
  /\ ComesOff(seen[f].cash # book.cash)
  /\ UNCHANGED <<kind, shared, market, split, loose, faults>>

\* save_order: the venue's broker does not commit after it, and answers FILLED.
SaveOrder(f) ==
  /\ Write(book)
  /\ \/ kind = "paper" /\ Step(f, "saving", "committing") /\ UNCHANGED <<told, loose>>
     \/ /\ kind = "venue" /\ Step(f, "saving", "ended")
        /\ Answers(Amount[f], -(Amount[f] * Price[f]))
        /\ loose' = (loose \/ (shared /\ f \notin split))
  /\ split' = {t \in split : at'[t] # "ended"}
  /\ UNCHANGED <<kind, shared, seen, market, off, faults>>

\* The broker of PAPER answers when the fill is committed.
Commit(f) ==
  /\ Step(f, "committing", "ended")
  /\ Commits(f)
  /\ Answers(Amount[f], -(Amount[f] * Price[f]))
  /\ UNCHANGED <<kind, shared, book, seen, market, off, faults>>

\* A statement raises.  The handler of PAPER rolls back, which with Postgres it cannot;
\* a venue's broker has no handler.
FillFails(f) ==
  /\ Fault
  /\ at[f] \notin {"idle", "ended"}
  /\ at' = [at EXCEPT ![f] = "ended"]
  /\ IF kind = "paper" /\ shared
     THEN /\ book' = disk /\ open' = FALSE
          /\ ComesOff(f \in split \/ HalfBut(f) # {})
          /\ split' = {}
     ELSE /\ ComesOff(Half(f)) /\ split' = split \ {f}
          /\ UNCHANGED <<book, open>>
  /\ Forgets(f)
  /\ UNCHANGED <<kind, shared, disk, market, loose>>

-------------------------------------------------------------------------------
(* Settlement.                                                             *)

List ==
  /\ kind = "venue" /\ book.quantity # 0
  /\ Step(Tracker, "idle", "listed") /\ Looks(Tracker)
  /\ UNCHANGED <<kind, shared, book, disk, open, market, split, told, loose, off, faults>>

\* get_market: a failed call counts as an unresolved market.
AskMarket ==
  /\ \/ market = 0 /\ Step(Tracker, "listed", "idle") /\ Forgets(Tracker)
     \/ market # 0 /\ Step(Tracker, "listed", "checking") /\ UNCHANGED seen
  /\ UNCHANGED <<kind, shared, book, disk, open, market, split, told, loose, off, faults>>

\* resolved_at stays for ever: what is bought after it is never settled.
CheckResolved ==
  /\ \/ book.resolved /\ Step(Tracker, "checking", "idle") /\ Forgets(Tracker)
     \/ ~book.resolved /\ Step(Tracker, "checking", "zeroing") /\ UNCHANGED seen
  /\ UNCHANGED <<kind, shared, book, disk, open, market, split, told, loose, off, faults>>

\* What a position has cost, a cost below zero when it was sold; a void market pays back
\* what the position was listed with.
Signed(b) == IF b.quantity < 0 THEN -b.cost ELSE b.cost
Paid(held) == IF market = Void THEN Signed(held) ELSE (market - 1) * held.quantity

\* Mutant: the position is not closed.
ZeroMutant ==
  /\ Step(Tracker, "zeroing", "crediting")
  /\ LET held == seen[Tracker] IN
     /\ Write([book EXCEPT !.realized = @ + Paid(held) - Signed(held), !.past = "settled"])
     /\ ComesOff(<<held.quantity, held.cost>> # <<book.quantity, book.cost>>)
  /\ UNCHANGED <<kind, shared, seen, market, split, loose, faults>>

\* The position is closed whatever it holds, and paid as it was listed.
Zero ==
  /\ Step(Tracker, "zeroing", "crediting")
  /\ LET held == seen[Tracker] IN
     /\ Write([book EXCEPT !.quantity = 0, !.cost = 0,
                           !.realized = @ + Paid(held) - Signed(held), !.past = "settled"])
     /\ ComesOff(<<held.quantity, held.cost>> # <<book.quantity, book.cost>>)
  /\ UNCHANGED <<kind, shared, seen, market, split, loose, faults>>

\* The account of a venue has no row to be credited.
Credit ==
  /\ Step(Tracker, "crediting", "marking")
  /\ Write(book)
  /\ UNCHANGED <<kind, shared, seen, market, split, told, loose, off, faults>>

Mark ==
  /\ Step(Tracker, "marking", "committing")
  /\ Write([book EXCEPT !.resolved = TRUE])
  /\ UNCHANGED <<kind, shared, seen, market, split, told, loose, off, faults>>

CommitSettled ==
  /\ Step(Tracker, "committing", "idle")
  /\ Commits(Tracker)
  /\ Answers(-seen[Tracker].quantity, Paid(seen[Tracker]))
  /\ Forgets(Tracker)
  /\ UNCHANGED <<kind, shared, book, market, off, faults>>

\* The poll ends, and the next one begins anew.
PollFails ==
  /\ Fault
  /\ at[Tracker] # "idle" /\ at' = [at EXCEPT ![Tracker] = "idle"]
  /\ ComesOff(Half(Tracker)) /\ split' = split \ {Tracker}
  /\ Forgets(Tracker)
  /\ UNCHANGED <<kind, shared, book, disk, open, market, loose>>

-------------------------------------------------------------------------------
(* The rest of the world.                                                  *)

MarketResolves ==
  /\ kind = "venue" /\ market = 0
  /\ market' \in {Void} \cup {1 + p : p \in Payouts}
  /\ UNCHANGED <<kind, shared, book, disk, open, at, seen, split, told, loose, off, faults>>

\* Another part of the program writes or commits on the same connection.
OthersWrite ==
  /\ shared /\ Fault
  /\ open' = TRUE
  /\ UNCHANGED <<kind, shared, book, disk, at, seen, market, split, told, loose, off>>

OthersCommit ==
  /\ shared /\ Fault
  /\ disk' = book /\ open' = FALSE
  /\ split' = split \cup {t \in Tasks : Half(t)}
  /\ loose' = FALSE
  /\ UNCHANGED <<kind, shared, book, at, seen, market, told, off>>

\* A fill of another account or symbol rolls back: all that is not committed is gone, the
\* writes of fills that were answered with it.
OthersRollBack ==
  /\ shared /\ open /\ Fault
  /\ book' = disk /\ open' = FALSE
  /\ loose' = FALSE
  /\ ComesOff(loose \/ \E t \in Tasks : Half(t)) /\ split' = {}
  /\ UNCHANGED <<kind, shared, disk, at, seen, market>>

\* The process starts again: what is not committed is gone, and the account PAPER begins
\* with its initial balance.
Restart ==
  /\ Fault
  /\ LET kept == IF kind = "paper" THEN [disk EXCEPT !.cash = Start] ELSE disk
     IN book' = kept /\ disk' = kept
  /\ open' = FALSE
  /\ at' = [t \in Tasks |-> IF t = Tracker \/ at[t] = "idle" THEN "idle" ELSE "ended"]
  /\ loose' = FALSE
  /\ ComesOff(\/ loose
              \/ kind = "paper" /\ disk.cash # Start
              \/ \E t \in Tasks : Half(t) /\ (~shared \/ t \in split))
  /\ split' = {}
  /\ seen' = [t \in Tasks |-> Nothing]
  /\ UNCHANGED <<kind, shared, market>>

-------------------------------------------------------------------------------

FillStep(f) ==
  \/ Place(f) \/ ReadPosition(f) \/ WritePosition(f) \/ ReadCash(f) \/ WriteCash(f)
  \/ SaveOrder(f) \/ Commit(f)
PollStep ==
  \/ List \/ AskMarket \/ CheckResolved \/ Zero \/ Credit \/ Mark \/ CommitSettled

LedgerNext ==
  \/ \E f \in Fills : FillStep(f) \/ FillFails(f)
  \/ PollStep \/ PollFails
  \/ MarketResolves \/ OthersWrite \/ OthersCommit \/ OthersRollBack \/ Restart

\* Statements return, and the tracker goes on polling.
LedgerFairness == WF_ledgerVars(PollStep) /\ \A f \in Fills : WF_ledgerVars(at[f] # "idle" /\ FillStep(f))

LedgerSpec == LedgerInit /\ [][LedgerNext]_ledgerVars /\ LedgerFairness

-------------------------------------------------------------------------------
(* Properties.                                                             *)

\* The books come off only by a read that is stale when it is written back, a rollback
\* by another task, an operation that is cut short when part of it is committed, the loss
\* of a venue's fill that was answered and not committed, by a rollback or a restart, or
\* the restart that resets the cash.  Otherwise, and while no task has written half of
\* what it writes, the position holds every contract answered for and not settled, what it
\* has realized and cost is the cash of the answers, and the account PAPER has moved by
\* that cash, once for every fill.
BooksAddUp ==
  off \/ (\E t \in Tasks : Half(t))
      \/ (/\ book.quantity = net
          /\ book.realized - Signed(book) = flow
          /\ kind = "paper" => book.cash = Start + flow)

\* A position in a resolved market is closed in the end, but for what is traded after its
\* settlement, and for a closing that another fill's rollback took back before the
\* position was marked: resolved_at keeps both from ever being settled.
ResolvedIsSettled ==
  market # 0 ~> \/ book.quantity = 0 \/ book.past = "reopened"
                \/ book.resolved /\ book.past = "open"

===============================================================================
