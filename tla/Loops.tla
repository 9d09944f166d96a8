-------------------------------- MODULE Loops --------------------------------
(***************************************************************************)
(* The loops that watch rather than play: stocks, their news, the cat and  *)
(* the debug channel. The stock and the news loop meet at the page's lock  *)
(* and at the stock snapshot and are composed; the others only compete for *)
(* the lock, which Commands is about, and are run alone. Each behaviour is *)
(* of one of the Setups, so that TLC adds the loops up instead of          *)
(* multiplying them.                                                       *)
(***************************************************************************)
EXTENDS Stocks, StockPage, News, Neko, DebugChannel

CONSTANTS
  MaxPolls,     \* bounds: polls of the stock loop alone, and beside the news loop
  PollsBeside,
  MaxFaults, MaxCycles, MaxMishaps, MaxNekoEvents, MaxLogs, MaxTrades, MaxQueries

ASSUME LoopsAssumption ==
  /\ \A i \in Items : i.symbol \in Symbols
  /\ {MaxPolls, PollsBeside, MaxFaults, MaxCycles, MaxMishaps, MaxNekoEvents, MaxLogs,
      MaxTrades, MaxQueries} \subseteq Nat

VARIABLE setup      \* the loops of this behaviour

vars == <<setup, lock, health, stockVars, pageVars, newsVars, nekoVars, debugVars>>

Setups == {"stock", "stock and news", "stock page", "neko", "debug"}

Init ==
  /\ setup \in Setups
  /\ LoopHealthInit /\ StocksInit /\ PageInit /\ NewsInit
  /\ pollsLeft = CASE setup = "stock" -> MaxPolls
                   [] setup = "stock and news" -> PollsBeside
                   [] OTHER -> 0
  /\ faults = IF setup \in {"stock", "stock and news"} THEN MaxFaults ELSE 0
  /\ IF setup = "stock and news" THEN cycles = MaxCycles /\ mishaps = MaxMishaps
                                 ELSE cycles = 0 /\ mishaps = 0
  /\ IF setup = "stock page" THEN trades = MaxTrades /\ queries = MaxQueries
                             ELSE trades = 0 /\ queries = 0
  /\ IF setup = "neko" THEN NekoInit /\ nekoEvents = MaxNekoEvents
     ELSE /\ cat = "idle" /\ page = <<>> /\ asked = FALSE /\ nekoPc = "top" /\ autoClaim = FALSE
          /\ last = "none" /\ nekoStatus = "unknown" /\ real = FALSE /\ claimed = FALSE
          /\ owed = FALSE /\ tells = 0 /\ reasons = 0 /\ nekoEvents = 0
  /\ IF setup = "debug" THEN DebugInit /\ logs = MaxLogs
     ELSE debugPc = "start" /\ pending = <<>> /\ debugOn = FALSE /\ logs = 0

Stock ==
  /\ setup \in {"stock", "stock and news"} /\ StocksNext
  /\ UNCHANGED <<setup, pageVars, newsVars, nekoVars, debugVars>>

\* The symbols are those of the snapshot as it stands before the lock is waited for.
WatchNews ==
  /\ setup = "stock and news" /\ NewsNext(DOMAIN snapshot.prices)
  /\ UNCHANGED <<setup, stockVars, pageVars, nekoVars, debugVars>>

\* What the two loops read off the page, in detail.
ReadPage ==
  /\ setup = "stock page" /\ PageNext
  /\ UNCHANGED <<setup, lock, health, stockVars, newsVars, nekoVars, debugVars>>

Restart ==
  /\ setup \in {"stock", "stock and news"}
  /\ RestartStocks /\ RestartNews
  /\ lock' = "free" /\ health' = [l \in LoopNames |-> Healthy]
  /\ UNCHANGED <<setup, pageVars, nekoVars, debugVars>>

WatchCat ==
  /\ setup = "neko" /\ NekoNext
  /\ UNCHANGED <<setup, lock, stockVars, pageVars, newsVars, debugVars>>

Debug(step) ==
  /\ setup = "debug" /\ step
  /\ UNCHANGED <<setup, lock, stockVars, pageVars, newsVars, nekoVars>>

Next == Stock \/ WatchNews \/ ReadPage \/ Restart \/ WatchCat \/ Debug(DebugNext)

Safety == Init /\ [][Next]_vars

\* Each loop is a task of the event loop, which runs it whenever it is ready.
Spec == Safety /\ WF_vars(Debug(DebugStep))

-----------------------------------------------------------------------------
(* Properties *)

\* All loops: the locals, tables and states have the types of the code.
TypeOK ==
  /\ lock \in {"free", "stock", "news"}
  /\ health \in [LoopNames -> [status : Statuses, streak : 0 .. PauseAt]]
  /\ stockPc \in {"top", "cooling", "nap", "list", "portfolio", "clear", "write", "tracked",
                  "append", "analyse", "leave", "store"}
  /\ stockForce \in BOOLEAN /\ left \in Nat /\ loose \subseteq Symbols
  /\ DOMAIN holdings \subseteq Symbols /\ DOMAIN snapshot.prices \subseteq Symbols
  /\ poll.due \subseteq DOMAIN poll.holdings
  /\ DOMAIN notified \subseteq Symbols \X {"buy", "sell"}
  /\ DOMAIN alarmed \subseteq Symbols \X {"rise", "fall"}
  /\ \A i \in DOMAIN stockPrices : stockPrices[i].symbol \in Symbols /\ stockPrices[i].price > 0
  /\ newsPc \in {"top", "enter", "fetch", "tell", "nap"} /\ newsForce \in BOOLEAN
  /\ todo \subseteq Symbols /\ batch \cup stockNews \cup missed \subseteq Items
  /\ queryPc \in {"idle", "list", "main", "button", "shorts", "detail", "news"}
  /\ Len(screen) <= PageView /\ reading.held \cup reading.short \subseteq PageSymbols
  /\ Len(page) <= View /\ Len(pending) <= PendingMax
  /\ last \in {"none", "dispatching", "not_dispatching", "unknown"}
  /\ nekoStatus \in {"dispatching", "not_dispatching", "unknown"}

\* Two prices of a symbol that follow each other in the table are within a factor of ten
\* (stock.py:292), unless the second had nothing to be compared with: after a start, an
\* exception in a poll, or a poll that did not see the symbol.
PricesBelievable == Believable(stockPrices)

\* Between two polls the table of holdings is the portfolio that was read last, whatever was
\* sold or bought since (stock.py:235), and so is the snapshot of a poll that read it, unless
\* the writes broke off between the clear and the last row.
HoldingsAgree ==
  stockPc \in {"nap", "top", "cooling"} =>
    /\ ~torn => holdings = read
    /\ snapshot.whole => snapshot.holdings = read

\* What is taken as the portfolio names no symbol that was sold before the command
\* (client.py:746), unless the cut was given up for the whole page, and what is taken as the
\* short positions none that was closed before it (client.py:822), however many old answers
\* are on the page; news are stored under the symbol they are of (parser.py:466).
ReadingsCurrent ==
  /\ ~reading.whole => reading.held \subseteq since.held
  /\ reading.short \subseteq since.short
  /\ newsRead \subseteq newsAsked

\* A wish for a poll at once is never taken without a poll: not at the head of the loop, not
\* in the pause after failures (stock.py:103, 119), whoever sets it in whatever moment.
ForceStartsPoll ==
  [][stockForce /\ ~stockForce' /\ stockPc' # "top" => stockPc' = "list"]_vars

\* A piece of news is told once for each time it was stored, and nothing stored stays untold,
\* but for what a failure or a restart broke off (news.py:183, 221): whenever the table is
\* cleared, and although the symbols are read before the lock is held.
NewsOnce ==
  \A i \in Items :
    /\ told[i] <= 1 + removed[i]
    /\ newsPc \in {"top", "nap"} /\ i \in stockNews => told[i] > 0 \/ i \in missed

\* No notification of a completed dispatch without a reason: a return of the cat, an unknown
\* answer after a dispatch (nekomusume.py:173), or a claim that went through at a start.
NoFalseTells == tells <= reasons

\* A return from a dispatch the loop knew of is told by the time it shows the cat at home,
\* also after a claim that sent it out again (nekomusume.py:189).
ToldAfterLook == nekoPc = "top" /\ nekoStatus = "not_dispatching" => ~owed

\* The cat's notifications are right: neither one too many nor one too few.
CatTold == NoFalseTells /\ ToldAfterLook

\* Once the other tasks are quiet the queue of the debug channel is empty for good, even if no
\* message ever goes out: the loop's own complaints do not feed it (main.py:125).
QueueDrains == <>[](pending = <<>>)
=============================================================================
