-------------------------------- MODULE News --------------------------------
(***************************************************************************)
(* news_loop of bot/scheduler/news.py with the table stock_news: a cycle   *)
(* asks for the news of every symbol of the last stock snapshot with the   *)
(* page's lock held, stores them, and afterwards tells those that were     *)
(* new. The menu clears the table at any time, and a start of the program  *)
(* removes the rows without a date (main.py:315, bot/core/db.py:549).      *)
(***************************************************************************)
EXTENDS LoopHealth, FiniteSets

CONSTANTS
  Items      \* what can be read: [symbol, title, dated]

VARIABLES
  newsPc,
  newsForce,   \* state.news_force_poll
  todo,        \* symbols of the cycle that were not asked for yet
  batch,       \* all_new_items
  stockNews,   \* table stock_news
  cycles,      \* cycles the model still plays (bound)
  mishaps,     \* clears, failures and restarts it still plays (bound)
  told,        \* how often each item was handed to notify_stock_news (history variable)
  removed,     \* how often its row was removed (history variable)
  missed       \* items stored by a write or a cycle that broke off (history variable)

newsPast == <<told, removed, missed>>
newsVars == <<newsPc, newsForce, todo, batch, stockNews, cycles, mishaps, newsPast>>

NewsInit ==
  /\ newsPc = "top" /\ newsForce = FALSE /\ todo = {} /\ batch = {} /\ stockNews = {}
  /\ told = [i \in Items |-> 0] /\ removed = [i \in Items |-> 0] /\ missed = {}

RemoveRows(items) ==
  /\ stockNews' = stockNews \ items
  /\ removed' = [i \in Items |-> IF i \in stockNews \cap items THEN removed[i] + 1 ELSE removed[i]]

-----------------------------------------------------------------------------
(* Symbols with a price in the stock snapshot are the parameter of NewsTop: *)
(* none of them, and the loop looks again later.                            *)

NewsTop(symbols) ==
  /\ newsPc = "top" /\ cycles > 0 /\ symbols # {}
  /\ newsPc' = "enter" /\ cycles' = cycles - 1
  /\ todo' = symbols /\ batch' = {}
  /\ MarkRunning("news")
  /\ UNCHANGED <<lock, newsForce, stockNews, mishaps, newsPast>>

EnterNews ==
  /\ newsPc = "enter" /\ newsPc' = "fetch" /\ Acquire("news")
  /\ UNCHANGED <<health, newsForce, todo, batch, stockNews, cycles, mishaps, newsPast>>

\* Variant: every item that was read counts as new.
NewItemsAll(items) == items

\* upsert_news_items: UNIQUE(symbol, news_date, title) keeps what is stored already.
NewItems(items) == items \ stockNews

\* What one symbol gives: no page, a page of another symbol, or items.
FetchNews ==
  /\ newsPc = "fetch"
  /\ \E s \in todo :
       /\ todo' = todo \ {s}
       /\ \E items \in SUBSET {i \in Items : i.symbol = s} :
            /\ stockNews' = stockNews \cup items
            /\ batch' = batch \cup NewItems(items)
  /\ UNCHANGED <<lock, health, newsPc, newsForce, cycles, mishaps, newsPast>>

\* An exception between two inserts: those before it are stored, and told to nobody.
FetchFails ==
  /\ newsPc = "fetch" /\ mishaps > 0 /\ mishaps' = mishaps - 1
  /\ \E s \in todo :
       /\ todo' = todo \ {s}
       /\ \E items \in SUBSET {i \in Items : i.symbol = s} :
            /\ stockNews' = stockNews \cup items
            /\ missed' = missed \cup (items \ stockNews)
  /\ UNCHANGED <<lock, health, newsPc, newsForce, batch, cycles, told, removed>>

LeaveNews ==
  /\ newsPc = "fetch" /\ todo = {} /\ newsPc' = "tell" /\ Release("news")
  /\ UNCHANGED <<health, newsForce, todo, batch, stockNews, cycles, mishaps, newsPast>>

\* The batch is handed to notify_stock_news, whose failure is only logged, and the cycle
\* ends. What the owner sees is less: no mail where that is off (digest.py:283), and ten
\* lines of a batch in the log (news.py:223).
TellNews ==
  /\ newsPc = "tell" /\ newsPc' = "nap"
  /\ told' = [i \in Items |-> IF i \in batch THEN told[i] + 1 ELSE told[i]]
  /\ batch' = {}
  /\ MarkOk("news")
  /\ missed' = missed \ batch
  /\ UNCHANGED <<lock, newsForce, todo, stockNews, cycles, mishaps, removed>>

\* A chunk of the sleep: a wish ends it and is taken here; so does the end of the interval.
NapNews ==
  /\ newsPc = "nap" /\ newsPc' = "top"
  /\ newsForce' = FALSE
  /\ UNCHANGED <<lock, health, todo, batch, stockNews, cycles, mishaps, newsPast>>

\* Maintenance [5] and [9]: the table is emptied and a cycle asked for.
ClearNews ==
  /\ mishaps > 0 /\ mishaps' = mishaps - 1
  /\ RemoveRows(stockNews) /\ newsForce' = TRUE
  /\ UNCHANGED <<newsPc, todo, batch, cycles, told, missed>>

\* The program ends and starts again; the migration deletes what has no date each time.
RestartNews ==
  /\ newsPc' = "top" /\ newsForce' = FALSE /\ todo' = {} /\ batch' = {}
  /\ missed' = missed \cup batch
  /\ RemoveRows({i \in Items : ~i.dated})
  /\ UNCHANGED <<cycles, mishaps, told>>

NewsNext(symbols) ==
  \/ NewsTop(symbols) \/ EnterNews \/ FetchNews \/ FetchFails \/ LeaveNews \/ TellNews \/ NapNews
  \/ (ClearNews /\ UNCHANGED <<lock, health>>)
=============================================================================
