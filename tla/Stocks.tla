------------------------------- MODULE Stocks -------------------------------
(***************************************************************************)
(* stock_loop and _poll_once of bot/scheduler/stock.py with the tables     *)
(* stock_prices and stock_holdings: a poll asks /stock and /portfolio with *)
(* the page's lock held, checks the prices against the last snapshot,      *)
(* writes prices and holdings, judges every symbol and leaves a snapshot.  *)
(*                                                                         *)
(* The answers are sets of what the parsers return. Time passes in chunks  *)
(* of the loop's sleep. The stock section is enabled, with volatility      *)
(* alerts on; pauses and quitting are in Commands and Lifecycle.           *)
(***************************************************************************)
EXTENDS StockAnalysis, LoopHealth

CONSTANTS
  Symbols,
  Tracked,            \* StockConfig.tracked_symbols
  Threshold,          \* signal_score_threshold
  CooldownChunks,     \* volatility_cooldown_min, in chunks
  Interval, Recovery, \* poll_interval_min and _PAUSE_RECOVERY_SEC, in chunks
  ListAnswers,        \* what /stock gives: prices of some symbols, or of none
  Portfolios,         \* what /portfolio gives when it answers: held symbol -> [shares, cost, price]
  ShortAnswers,       \* the prices on the page of short positions
  Details,            \* the prices that a query of one tracked symbol gives
  Earlier,            \* tables of prices that earlier runs of the program may have left
  Opening             \* the time at the start

\* What the parsers give as prices: they drop what is not above zero (parser.py:263, 338, 369).
ArePrices(p) == DOMAIN p \subseteq Symbols /\ p \in [DOMAIN p -> Nat \ {0}]

\* Rows of stock_prices; free (a history variable) where a price had nothing to be checked against.
Rows == [t : Nat, symbol : Symbols, price : Nat \ {0}, free : BOOLEAN]

\* Row j is the next one of its symbol after row i.
Follows(table, i, j) ==
  /\ i < j /\ table[i].symbol = table[j].symbol
  /\ \A k \in i + 1 .. j - 1 : table[k].symbol # table[j].symbol

Believable(table) ==
  \A i, j \in DOMAIN table :
    Follows(table, i, j) => table[j].free \/ ~Farther(table[i].price, table[j].price)

ASSUME StocksAssumption ==
  /\ IsFiniteSet(Symbols) /\ Tracked \subseteq Symbols
  /\ Interval \in Nat \ {0} /\ Recovery \in Nat \ {0} /\ Opening \in Nat
  /\ \A p \in ListAnswers \cup ShortAnswers : ArePrices(p)
  /\ \A h \in Portfolios : DOMAIN h \subseteq Symbols /\ \A s \in DOMAIN h : h[s].price \in Nat
  /\ \A d \in Details : d \in Nat \ {0}
  /\ \A table \in Earlier : table \in Seq(Rows) /\ Believable(table)

VARIABLES
  stockPc,
  left,        \* chunks left of a sleep
  now,         \* the time, in chunks
  stockForce,  \* state.stock_force_poll
  poll,        \* the locals of _poll_once
  stockPrices, \* table stock_prices
  holdings,    \* table stock_holdings
  snapshot,    \* state.stock_last_snapshot; set is FALSE for {}
  notified,    \* state.stock_notified_signals
  alarmed,     \* state.stock_volatility_notified
  pollsLeft,   \* polls the model still plays (bound)
  faults,      \* exceptions and restarts it still plays (bound)
  loose,       \* symbols whose next price has nothing to be checked against (history variable)
  read,        \* the portfolio read last (history variable)
  torn         \* the write of a portfolio broke off (history variable)

tables    == <<stockPrices, holdings>>
signals   == <<notified, alarmed>>
pollPast  == <<loose, read, torn>>
stockVars == <<stockPc, left, now, stockForce, poll, snapshot, pollsLeft, faults,
               tables, signals, pollPast>>

Nothing  == [s \in {} |-> 0]
NoPoll   == [prices |-> Nothing, holdings |-> Nothing, parsed |-> FALSE, raised |-> FALSE,
             due |-> {}, whole |-> FALSE]
NoSnapshot == [set |-> FALSE, prices |-> Nothing, holdings |-> Nothing, whole |-> FALSE]

StocksInit ==
  /\ stockPc = "top" /\ left = 0 /\ now = Opening /\ stockForce = FALSE
  /\ poll = NoPoll /\ snapshot = NoSnapshot
  /\ stockPrices \in Earlier /\ holdings = Nothing
  /\ notified = Nothing /\ alarmed = Nothing
  /\ loose = Symbols /\ read = Nothing /\ torn = FALSE

\* The entries of f, and those of g that f has not: all_prices[sym] = ..., and setdefault the other way.
Over(f, g) == [s \in DOMAIN f \cup DOMAIN g |-> IF s \in DOMAIN f THEN f[s] ELSE g[s]]

Step(from, to) == stockPc = from /\ stockPc' = to

-----------------------------------------------------------------------------
(* stock_loop *)

\* The menu, the stock view or the dashboard asks for a poll at once.
ForcePoll ==
  /\ stockForce' = TRUE
  /\ UNCHANGED <<stockPc, left, now, poll, snapshot, pollsLeft, faults, tables, signals, pollPast>>

StartPoll == stockPc' = "list" /\ poll' = NoPoll /\ MarkRunning("stock")

\* Variant: the pause after failures comes first, and the wish is gone.
TopPausing ==
  /\ stockPc = "top" /\ pollsLeft > 0
  /\ stockForce' = FALSE
  /\ IF IsAutoPaused("stock")
     THEN stockPc' = "cooling" /\ left' = Recovery /\ UNCHANGED <<poll, pollsLeft, health>>
     ELSE StartPoll /\ pollsLeft' = pollsLeft - 1 /\ UNCHANGED left
  /\ UNCHANGED <<lock, now, snapshot, faults, tables, signals, pollPast>>

\* The head of the loop: a wish is taken, and overrides the pause after failures.
Top ==
  /\ stockPc = "top" /\ pollsLeft > 0
  /\ stockForce' = FALSE
  /\ IF IsAutoPaused("stock") /\ ~stockForce
     THEN stockPc' = "cooling" /\ left' = Recovery /\ UNCHANGED <<poll, pollsLeft, health>>
     ELSE StartPoll /\ pollsLeft' = pollsLeft - 1 /\ UNCHANGED left
  /\ UNCHANGED <<lock, now, snapshot, faults, tables, signals, pollPast>>

CoolDown ==
  /\ stockPc = "cooling"
  /\ now' = now + 1 /\ left' = left - 1
  /\ stockForce' = FALSE
  /\ IF stockForce \/ left = 1 THEN StartPoll /\ pollsLeft' = pollsLeft - 1
                               ELSE UNCHANGED <<stockPc, poll, health, pollsLeft>>
  /\ UNCHANGED <<lock, snapshot, faults, tables, signals, pollPast>>

\* A chunk of the sleep between two polls; a wish ends it and stays for the head of the loop.
Nap ==
  /\ stockPc = "nap" /\ pollsLeft > 0
  /\ now' = now + 1 /\ left' = left - 1
  /\ stockPc' = IF stockForce \/ left = 1 THEN "top" ELSE "nap"
  /\ UNCHANGED <<lock, health, stockForce, poll, snapshot, pollsLeft, faults, tables, signals, pollPast>>

-----------------------------------------------------------------------------
(* _poll_once *)

InPoll == UNCHANGED <<left, now, stockForce, snapshot, pollsLeft, faults, health>>

AskList ==
  /\ Step("list", "portfolio") /\ Acquire("stock")
  /\ \E prices \in ListAnswers : poll' = [poll EXCEPT !.prices = prices]
  /\ InPoll /\ UNCHANGED <<tables, signals, pollPast>>

\* The prices of the holdings, where they are read, replace those of /stock.
AskPortfolio ==
  /\ stockPc = "portfolio"
  /\ \/ stockPc' = "tracked" /\ UNCHANGED <<poll, read>>
     \/ \E held \in Portfolios :
          LET priced == {s \in DOMAIN held : held[s].price > 0}
              kept   == [s \in DOMAIN held |-> [shares |-> held[s].shares, cost |-> held[s].cost]]
          IN /\ stockPc' = "clear"
             /\ poll' = [poll EXCEPT !.prices = Over([s \in priced |-> held[s].price], poll.prices),
                                     !.holdings = kept, !.parsed = TRUE, !.due = DOMAIN held]
             /\ read' = kept
  /\ InPoll /\ UNCHANGED <<lock, tables, signals, loose, torn>>

\* Variant: an empty portfolio clears nothing.
ClearIfHeld ==
  /\ Step("clear", "write")
  /\ holdings' = (IF poll.holdings = Nothing THEN holdings ELSE Nothing) /\ torn' = FALSE
  /\ InPoll /\ UNCHANGED <<lock, poll, stockPrices, signals, loose, read>>

\* clear_stock_holdings, and then one transaction for each holding.
ClearHoldings ==
  /\ Step("clear", "write")
  /\ holdings' = Nothing /\ torn' = FALSE
  /\ InPoll /\ UNCHANGED <<lock, poll, stockPrices, signals, loose, read>>

UpsertHolding ==
  /\ stockPc = "write"
  /\ \E s \in poll.due :
       /\ holdings' = Over([x \in {s} |-> poll.holdings[s]], holdings)
       /\ poll' = [poll EXCEPT !.due = @ \ {s}]
  /\ InPoll /\ UNCHANGED <<stockPc, lock, stockPrices, signals, pollPast>>

\* The page of short positions gives prices only where there are none.
ReadShorts ==
  /\ Step("write", "tracked") /\ poll.due = {}
  /\ \E shorts \in ShortAnswers :
       poll' = [poll EXCEPT !.prices = Over(poll.prices, shorts), !.whole = TRUE]
  /\ InPoll /\ UNCHANGED <<lock, tables, signals, pollPast>>

\* Fewer than two prices: the tracked symbols are asked for one by one, and what is read is the
\* first detail on the page (parser.py:265, 275), which may be of any symbol.
Fallback ==
  IF Cardinality(DOMAIN poll.prices) < 2
  THEN LET asked == Tracked \ DOMAIN poll.prices
       IN UNION {[found -> Details] : found \in {f \in SUBSET Symbols : Cardinality(f) <= Cardinality(asked)}}
  ELSE {Nothing}

\* Variant: only a rise is checked.
CheckedUp(prices) ==
  [s \in DOMAIN prices |->
    IF s \in DOMAIN snapshot.prices /\ prices[s] > 10 * snapshot.prices[s]
    THEN snapshot.prices[s] ELSE prices[s]]

\* A price more than ten times off the last one is replaced by that one.
Checked(prices) ==
  [s \in DOMAIN prices |->
    IF s \in DOMAIN snapshot.prices /\ Farther(prices[s], snapshot.prices[s])
    THEN snapshot.prices[s] ELSE prices[s]]

AskTracked ==
  /\ Step("tracked", "append")
  /\ \E more \in Fallback :
       poll' = [poll EXCEPT !.prices = Checked(Over(more, poll.prices))]
  /\ InPoll /\ UNCHANGED <<lock, tables, signals, pollPast>>

\* The row of a symbol says whether its price was checked.
RowOf(s) == [t |-> now, symbol |-> s, price |-> poll.prices[s], free |-> s \in loose]
NewRows(written) == {RowOf(s) : s \in written}

\* append_stock_prices: a row for each price; RaisePoll has the case that it fails half-way.
AppendPrices ==
  /\ stockPc = "append"
  /\ stockPrices' = stockPrices \o SetToSeq(NewRows(DOMAIN poll.prices))
  /\ loose' = loose \ DOMAIN poll.prices
  /\ stockPc' = IF poll.prices = Nothing THEN "leave" ELSE "analyse"
  /\ InPoll /\ UNCHANGED <<lock, poll, holdings, signals, read, torn>>

\* load_stock_history and group_by_symbol
Series(symbol) == SelectSeq(stockPrices, LAMBDA r : r.symbol = symbol)

Held(symbol) == IF symbol \in DOMAIN poll.holdings THEN {poll.holdings[symbol]} ELSE {}

\* The buy and sell signals at or above the threshold, with their scores.
StrongOf(k) ==
  {e \in AnalyzeSymbol(Series(k[1]), Held(k[1])) : e.signal = k[2] /\ e.score >= Threshold}

Strong ==
  [k \in {k \in (DOMAIN poll.prices) \X {"buy", "sell"} : StrongOf(k) # {}} |->
    (CHOOSE e \in StrongOf(k) : TRUE).score]

\* A signal is mailed when it is new or more than 5 higher than when it was mailed.
Remembered(strong) ==
  [k \in DOMAIN strong |->
    IF k \in DOMAIN notified /\ strong[k] <= notified[k] + 5 THEN notified[k] ELSE strong[k]]

\* _check_volatility over every symbol of the history.
Alarms ==
  {<<s, DetectVolatility(Series(s))>> : s \in {r.symbol : r \in Range(stockPrices)}}
    \ (Symbols \X {"none"})

Rung == {k \in Alarms : k \notin DOMAIN alarmed \/ now - alarmed[k] >= CooldownChunks}

Analyse ==
  /\ Step("analyse", "leave")
  /\ notified' = Remembered(Strong)
  /\ alarmed' = Over([k \in Rung |-> now], alarmed)
  /\ InPoll /\ UNCHANGED <<lock, poll, tables, pollPast>>

\* An exception anywhere in the poll, a failed write among them: each row commits by itself
\* (isolation_level=None), so some of the prices may be there.
RaisePoll ==
  /\ stockPc \in {"portfolio", "clear", "write", "tracked", "append", "analyse"} /\ faults > 0
  /\ stockPc' = "leave" /\ faults' = faults - 1
  /\ poll' = [poll EXCEPT !.raised = TRUE]
  /\ torn' = (torn \/ stockPc = "clear" \/ (stockPc = "write" /\ poll.due # {}))
  /\ loose' = IF stockPc = "analyse" \/ (~poll.parsed /\ poll.prices = Nothing) THEN loose ELSE Symbols
  /\ IF stockPc = "append" /\ poll.prices # Nothing
     THEN \E written \in SUBSET DOMAIN poll.prices : stockPrices' = stockPrices \o SetToSeq(NewRows(written))
     ELSE UNCHANGED stockPrices
  /\ UNCHANGED <<left, now, stockForce, snapshot, pollsLeft, lock, health, holdings, signals, read>>

\* channel_context gives the page back before the snapshot is written.
LeaveChannel ==
  /\ Step("leave", "store") /\ Release("stock")
  /\ InPoll /\ UNCHANGED <<poll, tables, signals, pollPast>>

StoreSnapshot ==
  /\ Step("store", "nap") /\ left' = Interval
  /\ LET some == poll.parsed \/ poll.prices # Nothing
     IN /\ snapshot' = IF ~some THEN snapshot
                       ELSE [set |-> TRUE, prices |-> poll.prices, holdings |-> poll.holdings,
                             whole |-> poll.whole]
        /\ loose' = IF some THEN loose \cup (Symbols \ DOMAIN poll.prices) ELSE loose
        /\ IF some /\ ~poll.raised THEN MarkOk("stock") ELSE MarkFailed("stock")
  /\ poll' = NoPoll
  /\ UNCHANGED <<lock, now, stockForce, pollsLeft, faults, tables, signals, read, torn>>

\* The program ends, or is killed, and starts again: the tables stay.
RestartStocks ==
  /\ faults > 0 /\ faults' = faults - 1
  /\ stockPc' = "top" /\ left' = 0 /\ stockForce' = FALSE
  /\ poll' = NoPoll /\ snapshot' = NoSnapshot
  /\ notified' = Nothing /\ alarmed' = Nothing
  /\ loose' = Symbols
  /\ torn' = (torn \/ stockPc = "clear" \/ (stockPc = "write" /\ poll.due # {}))
  /\ UNCHANGED <<now, pollsLeft, tables, read>>

PollStep == \/ Top \/ CoolDown \/ Nap \/ AskList \/ AskPortfolio \/ ClearHoldings \/ UpsertHolding
            \/ ReadShorts \/ AskTracked \/ AppendPrices \/ Analyse \/ RaisePoll \/ LeaveChannel
            \/ StoreSnapshot

StocksNext == PollStep \/ (ForcePoll /\ UNCHANGED <<lock, health>>)
=============================================================================
