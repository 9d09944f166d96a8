---------------------------- MODULE Loops_proofs ----------------------------
(***************************************************************************)
(* Proofs about Loops, for all symbols, items, answers and bounds. The     *)
(* inductive invariant is one part for each loop: those of Stocks_proofs,  *)
(* and here those of the news, the cat, the debug channel and what the     *)
(* loops share.                                                            *)
(***************************************************************************)
EXTENDS Loops, Stocks_proofs

\* The lock and the health of the loops.
SharedInv ==
  /\ lock \in {"free", "stock", "news"}
  /\ health \in [LoopNames -> [status : Statuses, streak : 0 .. PauseAt]]

-----------------------------------------------------------------------------
(* News: what is stored was told, is in the batch that will be told, or    *)
(* was missed; and nothing was told or batched more often than stored.     *)

One(b) == IF b THEN 1 ELSE 0

NewsTyped ==
  /\ newsPc \in {"top", "enter", "fetch", "tell", "nap"} /\ newsForce \in BOOLEAN
  /\ todo \subseteq Symbols
  /\ batch \subseteq Items /\ stockNews \subseteq Items /\ missed \subseteq Items
  /\ told \in [Items -> Nat] /\ removed \in [Items -> Nat]

NewsInv ==
  /\ NewsTyped
  /\ newsPc \in {"top", "enter", "nap"} => batch = {}
  /\ \A i \in stockNews : told[i] > 0 \/ i \in missed \/ i \in batch
  /\ \A i \in Items : told[i] + One(i \in batch) <= removed[i] + One(i \in stockNews)

-----------------------------------------------------------------------------
(* The cat: every notification that is due, and every one that an old      *)
(* answer may still bring about, has a reason of its own.                  *)

Posts       == {"out", "in", "button", "other"}
NekoClaims  == {"claim", "click", "tell"}
NekoLooks   == {"recheck", "reread"}
NekoAnswers == {"dispatching", "not_dispatching", "unknown"}

NekoTyped ==
  /\ cat \in {"idle", "out", "home"} /\ page \in Seq(Posts) /\ Len(page) <= View
  /\ nekoPc \in {"top", "read", "settle"} \cup NekoClaims \cup NekoLooks
  /\ last \in NekoAnswers \cup {"none"} /\ nekoStatus \in NekoAnswers
  /\ real \in BOOLEAN /\ claimed \in BOOLEAN /\ owed \in BOOLEAN /\ autoClaim \in BOOLEAN
  /\ tells \in Nat /\ reasons \in Nat

\* A notification is under way.
Due == nekoPc \in NekoClaims /\ (real \/ claimed)

\* A dispatch was seen, or still stands on the page, so that its end may be told.
ShowsOut(p) == \E i \in DOMAIN p : p[i] = "out"
Seen ==
  \/ ShowsOut(page)
  \/ nekoPc \in {"top", "read"} /\ last = "dispatching"
  \/ nekoPc = "settle" /\ nekoStatus = "dispatching"

\* It has ended: the cat is not out, or was not after the last answer that says so.
ShowsHome(p) == \E i \in DOMAIN p : p[i] = "in" /\ \A j \in DOMAIN p : j > i => p[j] # "out"
Ended == cat # "out" \/ ShowsHome(page)

ReasonsInv == tells + One(Due) + One(Seen /\ Ended) <= reasons

\* A return that is owed will be told: the loop still takes the dispatch for running, or tells it now.
OwedInv ==
  /\ nekoPc \in {"top", "read"} => last = nekoStatus \/ (last = "none" /\ nekoStatus = "unknown")
  /\ nekoPc \in NekoClaims \cup NekoLooks => nekoStatus # "dispatching"
  /\ nekoPc = "claim" => ~claimed
  /\ nekoPc = "click" => ~claimed
  /\ owed => /\ nekoPc \in {"top", "read"} => last = "dispatching"
             /\ nekoPc \in NekoClaims => real
             /\ nekoPc \notin NekoLooks
             /\ nekoPc = "settle" => nekoStatus = "dispatching"

NekoInv == NekoTyped /\ ReasonsInv /\ OwedInv

-----------------------------------------------------------------------------
(* The debug channel *)

DebugInv ==
  /\ debugPc \in {"start", "top", "cooling", "drain", "send"} /\ debugOn \in BOOLEAN
  /\ pending \in Seq(Levels) /\ Len(pending) <= PendingMax

-----------------------------------------------------------------------------
(* The invariant *)

IInv == /\ StockTyped /\ HoldingsInv /\ PricesInv /\ PageInv
        /\ SharedInv /\ NewsInv /\ NekoInv /\ DebugInv

-----------------------------------------------------------------------------
(* The lock and the health *)

HealthOf == [status : Statuses, streak : 0 .. PauseAt]

\* Whatever a loop reports, the streak counts no further than where it pauses.
LEMMA HealthKept ==
  ASSUME health \in [LoopNames -> HealthOf], NEW l \in LoopNames,
         \/ MarkRunning(l) \/ MarkOk(l) \/ MarkFailed(l) \/ UNCHANGED health
         \/ health' = [health EXCEPT ![l] = Healthy]
  PROVE  health' \in [LoopNames -> HealthOf]
<1>1. PauseAt \in Nat /\ 0 \in 0 .. PauseAt /\ PauseAt \in 0 .. PauseAt
  BY LoopHealthAssumption
<1>2. health[l] \in HealthOf /\ health[l].streak \in 0 .. PauseAt
  BY DEF HealthOf
<1>3. CASE MarkRunning(l)
  <2>1. health' = [health EXCEPT ![l] = [health[l] EXCEPT !.status = "running"]]
    BY <1>3 DEF MarkRunning
  <2>2. [health[l] EXCEPT !.status = "running"] \in HealthOf
    BY <1>2 DEF HealthOf, Statuses
  <2>. QED
    BY <2>1, <2>2
<1>4. CASE MarkOk(l)
  BY <1>1, <1>4 DEF MarkOk, HealthOf, Statuses
<1>5. CASE MarkFailed(l)
  <2> DEFINE streak == IF health[l].streak < PauseAt THEN health[l].streak + 1 ELSE PauseAt
  <2>1. streak \in 0 .. PauseAt
    BY <1>1, <1>2
  <2>2. health' = [health EXCEPT ![l] =
                    [status |-> IF streak >= PauseAt THEN "auto_paused" ELSE "failed", streak |-> streak]]
    BY <1>5 DEF MarkFailed
  <2>. HIDE DEF streak
  <2>. QED
    BY <2>1, <2>2 DEF HealthOf, Statuses
<1>6. CASE health' = [health EXCEPT ![l] = Healthy]
  BY <1>1, <1>6 DEF Healthy, HealthOf, Statuses
<1>. QED
  BY <1>3, <1>4, <1>5, <1>6

\* All loops are healthy at the start.
LEMMA SharedInit == LoopHealthInit => SharedInv
BY LoopHealthAssumption DEF LoopHealthInit, Healthy, SharedInv, Statuses

\* Every step of a loop keeps the lock and the health in their types.
LEMMA SharedStep ==
  ASSUME SharedInv,
         \/ StocksNext \/ NewsNext(DOMAIN snapshot.prices)
         \/ (UNCHANGED lock /\ (NekoNext \/ DebugNext \/ UNCHANGED health))
         \/ (lock' = "free" /\ health' = [l \in LoopNames |-> Healthy])
  PROVE  SharedInv'
<1>1. health \in [LoopNames -> HealthOf] /\ lock \in {"free", "stock", "news"}
  BY DEF SharedInv, HealthOf
<1>2. {"stock", "news", "neko", "debug"} \subseteq LoopNames
  BY DEF LoopNames
<1>3. CASE StocksNext
  <2>1. \/ MarkRunning("stock") \/ MarkOk("stock") \/ MarkFailed("stock") \/ UNCHANGED health
    BY <1>3 DEF StocksNext, PollStep, Top, CoolDown, Nap, AskList, AskPortfolio, ClearHoldings,
       UpsertHolding, ReadShorts, AskTracked, AppendPrices, Analyse, RaisePoll, LeaveChannel,
       StoreSnapshot, InPoll, StartPoll
  <2>2. lock' \in {lock, "stock", "free"}
    BY <1>3 DEF StocksNext, PollStep, Top, CoolDown, Nap, AskList, AskPortfolio, ClearHoldings,
       UpsertHolding, ReadShorts, AskTracked, AppendPrices, Analyse, RaisePoll, LeaveChannel,
       StoreSnapshot, InPoll, Acquire, Release, tables
  <2>3. health' \in [LoopNames -> HealthOf]
    BY <1>1, <1>2, <2>1, HealthKept
  <2>. QED
    BY <1>1, <2>2, <2>3 DEF SharedInv, HealthOf
<1>4. CASE NewsNext(DOMAIN snapshot.prices)
  <2>1. \/ MarkRunning("news") \/ MarkOk("news") \/ UNCHANGED health
    BY <1>4 DEF NewsNext, NewsTop, EnterNews, FetchNews, FetchFails, LeaveNews, TellNews, NapNews
  <2>2. lock' \in {lock, "news", "free"}
    BY <1>4 DEF NewsNext, NewsTop, EnterNews, FetchNews, FetchFails, LeaveNews, TellNews, NapNews,
       Acquire, Release
  <2>3. health' \in [LoopNames -> HealthOf]
    BY <1>1, <1>2, <2>1, HealthKept
  <2>. QED
    BY <1>1, <2>2, <2>3 DEF SharedInv, HealthOf
<1>5. CASE UNCHANGED lock /\ (NekoNext \/ DebugNext \/ UNCHANGED health)
  <2>1. \/ MarkRunning("neko") \/ MarkOk("neko") \/ MarkFailed("neko") \/ UNCHANGED health
        \/ MarkRunning("debug") \/ MarkOk("debug") \/ MarkFailed("debug")
        \/ health' = [health EXCEPT !["neko"] = Healthy]
        \/ health' = [health EXCEPT !["debug"] = Healthy]
    <3>1. CASE NekoNext
      BY <3>1 DEF NekoNext, NekoStep, NekoCheck, Recheck, AskCheck, ReadCheck, ReadAgain, QueryStatus,
         AskToClaim, ClickClaim, SkipClaim, TellCompletion, Settle, RestartNeko
    <3>2. CASE DebugNext
      BY <3>2 DEF DebugNext, DebugStep, DebugStarts, Disabled, StartCoolDown, EndCoolDown,
         DrainPending, SendDebug
    <3>. QED
      BY <1>5, <3>1, <3>2
  <2>2. health' \in [LoopNames -> HealthOf]
    BY <1>1, <1>2, <2>1, HealthKept
  <2>. QED
    BY <1>1, <1>5, <2>2 DEF SharedInv, HealthOf
<1>6. CASE lock' = "free" /\ health' = [l \in LoopNames |-> Healthy]
  BY <1>6, LoopHealthAssumption DEF SharedInv, Healthy, Statuses
<1>. QED
  BY <1>3, <1>4, <1>5, <1>6

-----------------------------------------------------------------------------
(* News *)

\* Nothing was read, told or removed at the start.
LEMMA NewsInvInit == NewsInit => NewsInv
<1>. SUFFICES ASSUME NewsInit PROVE NewsInv
  OBVIOUS
<1>1. NewsTyped
  BY DEF NewsInit, NewsTyped
<1>2. \A i \in Items : told[i] = 0 /\ removed[i] = 0 /\ One(i \in batch) = 0 /\ One(i \in stockNews) = 0
  BY DEF NewsInit, One
<1>3. \A i \in Items : told[i] + One(i \in batch) <= removed[i] + One(i \in stockNews)
  BY <1>2
<1>. QED
  BY <1>1, <1>3 DEF NewsInit, NewsInv

\* Every row that goes is counted, as often as it goes.
LEMMA RowsRemoved ==
  ASSUME NewsTyped, NEW items, RemoveRows(items)
  PROVE  /\ stockNews' \subseteq stockNews /\ removed' \in [Items -> Nat]
         /\ \A i \in Items : removed[i] + One(i \in stockNews) = removed'[i] + One(i \in stockNews')
<1>1. removed' = [i \in Items |-> IF i \in stockNews \cap items THEN removed[i] + 1 ELSE removed[i]]
  BY DEF RemoveRows
<1>2. stockNews' = stockNews \ items
  BY DEF RemoveRows
<1>3. removed \in [Items -> Nat] /\ stockNews \subseteq Items
  BY DEF NewsTyped
<1>4. ASSUME NEW i \in Items
      PROVE  /\ removed'[i] \in Nat
             /\ removed[i] + One(i \in stockNews) = removed'[i] + One(i \in stockNews')
  <2>1. removed[i] \in Nat /\ removed'[i] = IF i \in stockNews \cap items THEN removed[i] + 1 ELSE removed[i]
    BY <1>1, <1>3
  <2>2. CASE i \in stockNews /\ i \in items
    <3>1. One(i \in stockNews) = 1 /\ One(i \in stockNews') = 0 /\ removed'[i] = removed[i] + 1
      BY <1>2, <2>1, <2>2 DEF One
    <3>. QED
      BY <2>1, <3>1
  <2>3. CASE ~(i \in stockNews /\ i \in items)
    <3>1. removed'[i] = removed[i] /\ (i \in stockNews' <=> i \in stockNews)
      BY <1>2, <2>1, <2>3
    <3>. QED
      BY <2>1, <3>1 DEF One
  <2>. QED
    BY <2>2, <2>3
<1>. QED
  BY <1>1, <1>2, <1>3, <1>4

\* Every step of the news loop, whatever symbols it asks for, and a restart keep the invariant.
LEMMA NewsInvStep ==
  ASSUME NewsInv, NEW symbols \in SUBSET Symbols,
         NewsNext(symbols) \/ RestartNews \/ UNCHANGED newsVars
  PROVE  NewsInv'
<1>. USE DEF newsPast
<1>1. NewsTyped
  BY DEF NewsInv
<1>2. \A i \in Items : told[i] \in Nat /\ removed[i] \in Nat
  BY DEF NewsInv, NewsTyped
<1>3. \A i \in Items : told[i] + One(i \in batch) <= removed[i] + One(i \in stockNews)
  BY DEF NewsInv
<1>4. CASE NewsTop(symbols)
  <2>1. batch = {} /\ batch' = {} /\ UNCHANGED <<newsForce, stockNews, told, removed, missed>>
    BY <1>4 DEF NewsTop, NewsInv
  <2>2. NewsTyped'
    BY <1>1, <1>4, <2>1 DEF NewsTop, NewsTyped
  <2>. QED
    BY <2>1, <2>2 DEF NewsInv
<1>5. CASE EnterNews \/ LeaveNews \/ NapNews \/ UNCHANGED newsVars
  <2>1. UNCHANGED <<batch, stockNews, told, removed, missed>>
    BY <1>5 DEF EnterNews, LeaveNews, NapNews, newsVars
  <2>2. NewsTyped'
    BY <1>1, <1>5 DEF EnterNews, LeaveNews, NapNews, newsVars, NewsTyped
  <2>3. newsPc' \in {"top", "enter", "nap"} => batch' = {}
    BY <1>5, <2>1 DEF EnterNews, LeaveNews, NapNews, newsVars, NewsInv
  <2>. QED
    BY <2>1, <2>2, <2>3 DEF NewsInv
<1>6. CASE FetchNews
  <2>1. PICK items \in SUBSET Items :
          stockNews' = stockNews \cup items /\ batch' = batch \cup NewItems(items)
    BY <1>6 DEF FetchNews
  <2>2. newsPc = "fetch" /\ todo' \subseteq todo /\ UNCHANGED <<newsPc, newsForce, told, removed, missed>>
    BY <1>6 DEF FetchNews
  <2>3. NewsTyped'
    BY <1>1, <2>1, <2>2 DEF NewsTyped, NewItems
  <2>4. \A i \in stockNews' : told'[i] > 0 \/ i \in missed' \/ i \in batch'
    BY <2>1, <2>2 DEF NewsInv, NewItems
  <2>5. ASSUME NEW i \in Items PROVE told'[i] + One(i \in batch') <= removed'[i] + One(i \in stockNews')
    <3>1. told[i] \in Nat /\ removed[i] \in Nat /\ told'[i] = told[i] /\ removed'[i] = removed[i]
      BY <1>2, <2>2
    <3>2. told[i] + One(i \in batch) <= removed[i] + One(i \in stockNews)
      BY <1>3
    <3>3. CASE i \in items /\ i \notin stockNews
      <4>1. One(i \in batch') = 1 /\ One(i \in stockNews') = 1 /\ One(i \in stockNews) = 0
            /\ One(i \in batch) \in 0 .. 1
        BY <2>1, <3>3 DEF One, NewItems
      <4>. QED
        BY <3>1, <3>2, <4>1
    <3>4. CASE ~(i \in items /\ i \notin stockNews)
      <4>1. (i \in batch' <=> i \in batch) /\ (i \in stockNews' <=> i \in stockNews)
        BY <2>1, <3>4 DEF NewItems
      <4>. QED
        BY <3>1, <3>2, <4>1 DEF One
    <3>. QED
      BY <3>3, <3>4
  <2>. QED
    BY <2>2, <2>3, <2>4, <2>5 DEF NewsInv
<1>7. CASE FetchFails
  <2>1. PICK items \in SUBSET Items :
          stockNews' = stockNews \cup items /\ missed' = missed \cup (items \ stockNews)
    BY <1>7 DEF FetchFails
  <2>2. newsPc = "fetch" /\ todo' \subseteq todo /\ UNCHANGED <<newsPc, newsForce, told, removed, batch>>
    BY <1>7 DEF FetchFails
  <2>3. NewsTyped'
    BY <1>1, <2>1, <2>2 DEF NewsTyped
  <2>4. \A i \in stockNews' : told'[i] > 0 \/ i \in missed' \/ i \in batch'
    BY <2>1, <2>2 DEF NewsInv
  <2>5. ASSUME NEW i \in Items PROVE told'[i] + One(i \in batch') <= removed'[i] + One(i \in stockNews')
    <3>1. /\ told[i] \in Nat /\ removed[i] \in Nat /\ told'[i] = told[i] /\ removed'[i] = removed[i]
          /\ One(i \in batch') = One(i \in batch) /\ One(i \in batch) \in 0 .. 1
      BY <1>2, <2>2 DEF One
    <3>2. told[i] + One(i \in batch) <= removed[i] + One(i \in stockNews)
      BY <1>3
    <3>3. /\ One(i \in stockNews) \in 0 .. 1 /\ One(i \in stockNews') \in 0 .. 1
          /\ One(i \in stockNews) <= One(i \in stockNews')
      BY <2>1 DEF One
    <3>. QED
      BY <3>1, <3>2, <3>3
  <2>. QED
    BY <2>2, <2>3, <2>4, <2>5 DEF NewsInv
<1>8. CASE TellNews
  <2>1. /\ newsPc' = "nap" /\ batch' = {} /\ missed' = missed \ batch
        /\ told' = [i \in Items |-> IF i \in batch THEN told[i] + 1 ELSE told[i]]
        /\ UNCHANGED <<newsForce, todo, stockNews, removed>>
    BY <1>8 DEF TellNews
  <2>2. ASSUME NEW i \in Items
        PROVE  /\ told'[i] \in Nat /\ told'[i] + One(i \in batch') = told[i] + One(i \in batch)
               /\ told'[i] > 0 \/ (i \notin batch /\ told'[i] = told[i])
    <3>1. told[i] \in Nat /\ told'[i] = (IF i \in batch THEN told[i] + 1 ELSE told[i])
      BY <1>2, <2>1
    <3>2. One(i \in batch') = 0
      BY <2>1 DEF One
    <3>3. CASE i \in batch
      BY <3>1, <3>2, <3>3 DEF One
    <3>4. CASE i \notin batch
      BY <3>1, <3>2, <3>4 DEF One
    <3>. QED
      BY <3>3, <3>4
  <2>3. NewsTyped'
    <3>1. told' \in [Items -> Nat]
      BY <2>1, <2>2
    <3>. QED
      BY <1>1, <2>1, <3>1 DEF NewsTyped
  <2>4. \A i \in stockNews' : told'[i] > 0 \/ i \in missed' \/ i \in batch'
    <3>1. ASSUME NEW i \in stockNews PROVE told'[i] > 0 \/ i \in missed'
      <4>1. i \in Items /\ (told[i] > 0 \/ i \in missed \/ i \in batch)
        BY <1>1 DEF NewsInv, NewsTyped
      <4>. QED
        BY <2>1, <2>2, <4>1
    <3>. QED
      BY <2>1, <3>1
  <2>5. ASSUME NEW i \in Items PROVE told'[i] + One(i \in batch') <= removed'[i] + One(i \in stockNews')
    BY <1>3, <2>1, <2>2
  <2>. QED
    BY <2>1, <2>3, <2>4, <2>5 DEF NewsInv
<1>9. CASE ClearNews
  <2>1. RemoveRows(stockNews) /\ newsForce' = TRUE /\ UNCHANGED <<newsPc, todo, batch, told, missed>>
    BY <1>9 DEF ClearNews
  <2>2. /\ stockNews' \subseteq stockNews /\ removed' \in [Items -> Nat]
        /\ \A i \in Items : removed[i] + One(i \in stockNews) = removed'[i] + One(i \in stockNews')
    BY <1>1, <2>1, RowsRemoved
  <2>3. NewsTyped'
    BY <1>1, <2>1, <2>2 DEF NewsTyped
  <2>4. \A i \in Items : told'[i] + One(i \in batch') <= removed'[i] + One(i \in stockNews')
    BY <1>3, <2>1, <2>2
  <2>. QED
    BY <2>1, <2>2, <2>3, <2>4 DEF NewsInv
<1>10. CASE RestartNews
  <2>1. /\ RemoveRows({i \in Items : ~i.dated})
        /\ newsPc' = "top" /\ newsForce' = FALSE /\ todo' = {} /\ batch' = {}
        /\ missed' = missed \cup batch /\ UNCHANGED told
    BY <1>10 DEF RestartNews
  <2>2. /\ stockNews' \subseteq stockNews /\ removed' \in [Items -> Nat]
        /\ \A i \in Items : removed[i] + One(i \in stockNews) = removed'[i] + One(i \in stockNews')
    BY <1>1, <2>1, RowsRemoved
  <2>3. NewsTyped'
    BY <1>1, <2>1, <2>2 DEF NewsTyped
  <2>4. ASSUME NEW i \in Items PROVE told'[i] + One(i \in batch') <= removed'[i] + One(i \in stockNews')
    <3>1. told[i] \in Nat /\ One(i \in batch) \in 0 .. 1 /\ One(i \in batch') = 0 /\ told'[i] = told[i]
      BY <1>2, <2>1 DEF One
    <3>2. told[i] + One(i \in batch) <= removed'[i] + One(i \in stockNews')
      BY <1>3, <2>2
    <3>3. removed'[i] + One(i \in stockNews') \in Nat
      BY <2>2 DEF One
    <3>. QED
      BY <3>1, <3>2, <3>3
  <2>5. \A i \in stockNews' : told'[i] > 0 \/ i \in missed' \/ i \in batch'
    BY <2>1, <2>2 DEF NewsInv
  <2>. QED
    BY <2>1, <2>3, <2>4, <2>5 DEF NewsInv
<1>. QED
  BY <1>4, <1>5, <1>6, <1>7, <1>8, <1>9, <1>10 DEF NewsNext

-----------------------------------------------------------------------------
(* The page of the cat *)

\* A message more on the page: what it then shows was there before, or is the message.
LEMMA PageGrown ==
  ASSUME NekoTyped, NEW m \in Posts, page' = Push(m)
  PROVE  /\ page' \in Seq(Posts) /\ Len(page') <= View
         /\ ShowsOut(page') => ShowsOut(page) \/ m = "out"
         /\ ShowsHome(page') => (ShowsHome(page) /\ m # "out") \/ m = "in"
<1>1. page \in Seq(Posts) /\ Len(page) \in Nat /\ DOMAIN page = 1 .. Len(page) /\ Len(page) <= View
  BY LenProperties DEF NekoTyped
<1>2. View \in Nat /\ View > 0
  BY NekoAssumption
<1> DEFINE all == Append(page, m)
<1>3. /\ all \in Seq(Posts) /\ Len(all) = Len(page) + 1 /\ Len(all) \in Nat
      /\ \A i \in 1 .. Len(page) : all[i] = page[i]
      /\ all[Len(page) + 1] = m
  BY <1>1, AppendProperties, LenProperties
<1>4. PICK d \in 0 .. 1 : page' = SubSeq(all, d + 1, Len(all)) /\ Len(all) - d <= View /\ Len(all) - d >= 1
  <2>1. CASE Len(all) > View
    <3>1. page' = SubSeq(all, 1 + 1, Len(all))
      BY <2>1 DEF Push
    <3>2. Len(all) - 1 <= View /\ Len(all) - 1 >= 1
      BY <1>1, <1>2, <1>3, <2>1
    <3>. QED
      BY <3>1, <3>2
  <2>2. CASE ~(Len(all) > View)
    <3>1. page' = SubSeq(all, 0 + 1, Len(all))
      BY <2>2 DEF Push
    <3>2. Len(all) - 0 <= View /\ Len(all) - 0 >= 1
      BY <1>1, <1>2, <1>3, <2>2
    <3>. QED
      BY <3>1, <3>2
  <2>. QED
    BY <2>1, <2>2
<1>. HIDE DEF all
<1>5. /\ d + 1 \in 1 .. Len(all) + 1 /\ Len(all) \in Nat
      /\ \A i \in d + 1 .. Len(all) : all[i] \in Posts
  BY <1>1, <1>3, ElementOfSeq
<1>6. /\ page' \in Seq(Posts) /\ Len(page') = Len(all) - d
      /\ \A i \in 1 .. Len(all) - d : page'[i] = all[d + 1 + i - 1]
  <2>1. /\ SubSeq(all, d + 1, Len(all)) \in Seq(Posts)
        /\ Len(SubSeq(all, d + 1, Len(all))) =
             IF d + 1 <= Len(all) THEN Len(all) - (d + 1) + 1 ELSE 0
        /\ \A i \in 1 .. Len(all) - (d + 1) + 1 : SubSeq(all, d + 1, Len(all))[i] = all[d + 1 + i - 1]
    BY <1>3, <1>5, SubSeqProperties
  <2>. QED
    BY <1>1, <1>3, <1>4, <2>1
<1>7. Len(page') = Len(page) + 1 - d /\ DOMAIN page' = 1 .. Len(page')
  BY <1>1, <1>3, <1>6, LenProperties
<1>8. ASSUME NEW i \in DOMAIN page'
      PROVE  /\ i \in Nat
             /\ \/ i + d \in DOMAIN page /\ page'[i] = page[i + d]
                \/ i = Len(page') /\ page'[i] = m
  <2>1. i \in 1 .. Len(all) - d /\ d + 1 + i - 1 = i + d /\ i \in Nat /\ i + d \in 1 .. Len(page) + 1
    BY <1>1, <1>3, <1>6, <1>7
  <2>2. page'[i] = all[i + d]
    BY <1>6, <2>1
  <2>3. CASE i + d \in 1 .. Len(page)
    BY <1>1, <1>3, <2>1, <2>2, <2>3
  <2>4. CASE i + d = Len(page) + 1
    <3>1. i = Len(page')
      BY <1>1, <1>7, <2>1, <2>4
    <3>. QED
      BY <1>3, <2>1, <2>2, <2>4, <3>1
  <2>. QED
    BY <1>1, <2>1, <2>3, <2>4
<1>9. ASSUME NEW j \in DOMAIN page, j > d
      PROVE  j - d \in DOMAIN page' /\ page'[j - d] = page[j]
  <2>1. j - d \in 1 .. Len(page') /\ j - d \in 1 .. Len(all) - d /\ d + 1 + (j - d) - 1 = j
        /\ j \in 1 .. Len(page)
    BY <1>1, <1>3, <1>7, <1>9
  <2>. QED
    BY <1>3, <1>6, <1>7, <2>1
<1>10. Len(page') \in DOMAIN page' /\ page'[Len(page')] = m
  <2>1. Len(page') \in 1 .. Len(all) - d /\ d + 1 + Len(page') - 1 = Len(page) + 1 /\ Len(page') >= 1
    BY <1>1, <1>3, <1>4, <1>6, <1>7
  <2>. QED
    BY <1>3, <1>6, <1>7, <2>1
<1>11. ShowsOut(page') => ShowsOut(page) \/ m = "out"
  BY <1>8 DEF ShowsOut
<1>12. ShowsHome(page') => (ShowsHome(page) /\ m # "out") \/ m = "in"
  <2>. SUFFICES ASSUME ShowsHome(page'), m # "in" PROVE ShowsHome(page) /\ m # "out"
    OBVIOUS
  <2>1. PICK i \in DOMAIN page' : page'[i] = "in" /\ \A j \in DOMAIN page' : j > i => page'[j] # "out"
    BY DEF ShowsHome
  <2>2. i \in Nat /\ i + d \in DOMAIN page /\ page[i + d] = "in"
    BY <1>8, <2>1
  <2>3. ASSUME NEW j \in DOMAIN page, j > i + d PROVE page[j] # "out"
    <3>1. j \in Nat /\ j > d /\ j - d > i
      BY <1>1, <2>2, <2>3
    <3>. QED
      BY <1>9, <2>1, <3>1
  <2>4. m # "out"
    <3>1. Len(page') > i
      BY <1>1, <1>7, <2>2
    <3>. QED
      BY <1>10, <2>1, <3>1
  <2>. QED
    BY <2>2, <2>3, <2>4 DEF ShowsHome
<1>. QED
  BY <1>1, <1>3, <1>4, <1>6, <1>11, <1>12

\* What the page is read as: a dispatch where it shows one, and otherwise that the cat is home.
LEMMA PageRead ==
  ASSUME NekoTyped
  PROVE  /\ ParseDispatchStatus \in NekoAnswers
         /\ ParseDispatchStatus = "dispatching" <=> ShowsOut(page)
         /\ ParseDispatchStatus = "not_dispatching" => ShowsHome(page)
<1>1. page \in Seq(Posts) /\ Len(page) \in Nat /\ DOMAIN page = 1 .. Len(page)
  BY LenProperties DEF NekoTyped
<1>2. Contains(page, "out") <=> ShowsOut(page)
  BY <1>1 DEF Contains, ShowsOut
<1>3. Contains(page, "in") /\ ~ShowsOut(page) => ShowsHome(page)
  BY <1>1 DEF Contains, ShowsOut, ShowsHome
<1>. QED
  BY <1>2, <1>3 DEF ParseDispatchStatus, NekoAnswers

-----------------------------------------------------------------------------
(* The loop of the cat *)

\* A step that begins no notification and shows no new dispatch or return needs no new reason.
LEMMA NoNewReason ==
  ASSUME NekoTyped, ReasonsInv, tells' = tells, reasons' \in Nat, reasons' >= reasons,
         Due' => Due, Seen' => Seen, Ended' => Ended
  PROVE  ReasonsInv'
<1>1. /\ One(Due) \in 0 .. 1 /\ One(Due') \in 0 .. 1 /\ One(Due') <= One(Due)
      /\ One(Seen /\ Ended) \in 0 .. 1 /\ One((Seen /\ Ended)') \in 0 .. 1
      /\ One((Seen /\ Ended)') <= One(Seen /\ Ended)
  BY DEF One
<1>2. tells + One(Due) + One(Seen /\ Ended) <= reasons /\ tells \in Nat /\ reasons \in Nat
  BY DEF ReasonsInv, NekoTyped
<1>. QED
  BY <1>1, <1>2 DEF ReasonsInv

\* Nothing is due, and the loop knows nothing, at the start.
LEMMA NekoInvInit ==
  ASSUME cat \in {"idle", "out", "home"}, page = <<>>, nekoPc = "top", autoClaim \in BOOLEAN,
         last = "none", nekoStatus = "unknown", real = FALSE, claimed = FALSE,
         owed = FALSE, tells = 0, reasons = 0
  PROVE  NekoInv
<1>1. page \in Seq(Posts) /\ Len(page) = 0 /\ DOMAIN page = {}
  BY EmptySeq
<1>2. NekoTyped
  <2>1. Len(page) <= View /\ tells \in Nat /\ reasons \in Nat
    BY <1>1, NekoAssumption
  <2>2. real \in BOOLEAN /\ claimed \in BOOLEAN /\ owed \in BOOLEAN
    OBVIOUS
  <2>. QED
    BY <1>1, <2>1, <2>2 DEF NekoTyped, NekoClaims, NekoLooks, NekoAnswers
<1>3. ReasonsInv
  BY <1>1 DEF ReasonsInv, One, Due, Seen, ShowsOut, NekoClaims
<1>4. OwedInv
  BY DEF OwedInv, NekoClaims, NekoLooks
<1>. QED
  BY <1>2, <1>3, <1>4 DEF NekoInv

\* The game and the channel: a return is a reason of its own.
LEMMA GameKeeps ==
  ASSUME NekoInv, CatMoves \/ Chatter \/ AnswerCheck
  PROVE  NekoInv'
<1>. USE DEF past
<1>1. NekoTyped /\ ReasonsInv /\ OwedInv
  BY DEF NekoInv
<1>2. UNCHANGED <<nekoPc, autoClaim, last, nekoStatus, real, claimed, tells>>
  BY DEF CatMoves, Chatter, AnswerCheck
<1>3. Due' <=> Due
  BY <1>2 DEF Due
<1>4. CASE CatMoves
  <2>1. /\ UNCHANGED page /\ cat' \in {"idle", "out", "home"}
        /\ owed' = (owed \/ (cat = "out" /\ nekoStatus = "dispatching"))
        /\ reasons' = IF cat = "out" THEN reasons + 1 ELSE reasons
    BY <1>4 DEF CatMoves
  <2>2. NekoTyped'
    BY <1>1, <1>2, <2>1 DEF NekoTyped
  <2>3. Seen' <=> Seen
    BY <1>2, <2>1 DEF Seen
  <2>4. ReasonsInv'
    <3>1. CASE cat = "out"
      <4>1. reasons' = reasons + 1
        BY <2>1, <3>1
      <4>2. One(Due') = One(Due) /\ One(Due) \in 0 .. 1 /\ One((Seen /\ Ended)') \in 0 .. 1
            /\ One(Seen /\ Ended) \in 0 .. 1
        BY <1>3 DEF One
      <4>3. tells + One(Due) + One(Seen /\ Ended) <= reasons /\ tells \in Nat /\ reasons \in Nat
        BY <1>1 DEF ReasonsInv, NekoTyped
      <4>. QED
        BY <1>2, <4>1, <4>2, <4>3 DEF ReasonsInv
    <3>2. CASE cat # "out"
      <4>1. Ended
        BY <3>2 DEF Ended
      <4>2. reasons' = reasons
        BY <2>1, <3>2
      <4>. QED
        BY <1>1, <1>2, <1>3, <2>3, <4>1, <4>2, NoNewReason DEF NekoTyped
    <3>. QED
      BY <3>1, <3>2
  <2>5. OwedInv'
    BY <1>1, <1>2, <2>1 DEF OwedInv, NekoTyped, NekoClaims, NekoLooks, NekoAnswers
  <2>. QED
    BY <2>2, <2>4, <2>5 DEF NekoInv
<1>5. CASE Chatter \/ AnswerCheck
  <2>1. /\ UNCHANGED <<cat, owed, reasons>>
        /\ page' \in {page, Push("other"), Push(IF cat = "out" THEN "out" ELSE "in")}
    BY <1>5 DEF Chatter, AnswerCheck
  <2>2. PICK m \in Posts : /\ page' = page \/ page' = Push(m)
                           /\ m = "out" => cat = "out"
                           /\ m = "in" => cat # "out"
    BY <2>1 DEF Posts
  <2>3. /\ page' \in Seq(Posts) /\ Len(page') <= View
        /\ ShowsOut(page') => ShowsOut(page) \/ (m = "out" /\ page' = Push(m))
        /\ ShowsHome(page') => (ShowsHome(page) /\ (m # "out" \/ page' = page)) \/ m = "in"
    <3>1. CASE page' = page
      BY <1>1, <3>1 DEF NekoTyped
    <3>2. CASE page' = Push(m)
      BY <1>1, <3>2, PageGrown
    <3>. QED
      BY <2>2, <3>1, <3>2
  <2>4. NekoTyped'
    BY <1>1, <1>2, <2>1, <2>3 DEF NekoTyped
  <2>5. OwedInv'
    BY <1>1, <1>2, <2>1 DEF OwedInv
  <2>6. ReasonsInv'
    <3>1. Ended' => Ended
      BY <2>1, <2>2, <2>3 DEF Ended
    <3>2. Seen' /\ Ended' => Seen
      BY <1>2, <2>1, <2>2, <2>3 DEF Seen, Ended
    <3>3. One(Due') = One(Due) /\ One(Due) \in 0 .. 1 /\ One((Seen /\ Ended)') \in 0 .. 1
          /\ One(Seen /\ Ended) \in 0 .. 1 /\ One((Seen /\ Ended)') <= One(Seen /\ Ended)
      BY <1>3, <3>1, <3>2 DEF One
    <3>4. tells + One(Due) + One(Seen /\ Ended) <= reasons /\ tells \in Nat /\ reasons \in Nat
      BY <1>1 DEF ReasonsInv, NekoTyped
    <3>. QED
      BY <1>2, <2>1, <3>3, <3>4 DEF ReasonsInv
  <2>. QED
    BY <2>4, <2>5, <2>6 DEF NekoInv
<1>. QED
  BY <1>4, <1>5

\* A look at the page that ends a dispatch the loop saw has the return, or the unknown answer, for a reason.
LEMMA LookKeeps ==
  ASSUME NekoInv, ReadCheck
  PROVE  NekoInv'
<1>1. NekoTyped /\ ReasonsInv /\ OwedInv
  BY DEF NekoInv
<1>2. PICK new \in NekoAnswers :
        LET ended   == new # "dispatching" /\ last = "dispatching"
            started == new # "dispatching" /\ last = "none" /\ autoClaim
        IN /\ QueryStatus(new)
           /\ nekoStatus' = new
           /\ IF ended \/ started
              THEN nekoPc' = "claim" /\ real' = ended /\ UNCHANGED last
              ELSE nekoPc' = "top" /\ last' = new /\ UNCHANGED real
           /\ reasons' = IF ended /\ new = "unknown" THEN reasons + 1 ELSE reasons
  BY DEF ReadCheck, NekoAnswers
<1>3. /\ nekoPc = "read" /\ claimed' = FALSE
      /\ UNCHANGED <<cat, page, asked, autoClaim, owed, tells>>
  BY DEF ReadCheck, game
<1>4. new = "unknown" \/ (new = ParseDispatchStatus /\ ParseDispatchStatus \in NekoAnswers)
  BY <1>1, <1>2, PageRead DEF QueryStatus
<1>5. (new = "dispatching" => ShowsOut(page)) /\ (new = "not_dispatching" => ~ShowsOut(page) /\ ShowsHome(page))
  BY <1>1, <1>4, PageRead
<1>6. /\ tells \in Nat /\ reasons \in Nat /\ tells' = tells /\ tells + One(Due) + One(Seen /\ Ended) <= reasons
      /\ ~Due
  BY <1>1, <1>3 DEF ReasonsInv, NekoTyped, Due, NekoClaims
<1>7. NekoTyped'
  <2>1. reasons' \in Nat
    BY <1>2, <1>6
  <2>2. last' \in NekoAnswers \cup {"none"} /\ nekoPc' \in {"claim", "top"}
    BY <1>1, <1>2 DEF NekoTyped
  <2>3. real' \in BOOLEAN
    <3>1. real \in BOOLEAN /\ (new # "dispatching" /\ last = "dispatching") \in BOOLEAN
      BY <1>1 DEF NekoTyped
    <3>. QED
      BY <1>2, <3>1
  <2>. QED
    BY <1>1, <1>2, <1>3, <2>1, <2>2, <2>3 DEF NekoTyped, NekoClaims
<1>8. Ended' <=> Ended
  BY <1>3 DEF Ended
<1>9. ReasonsInv'
  <2>1. CASE new # "dispatching" /\ last = "dispatching"
    <3>1. Seen /\ nekoPc' = "claim" /\ real'
      BY <1>2, <1>3, <2>1 DEF Seen
    <3>2. One(Due') \in 0 .. 1 /\ One((Seen /\ Ended)') \in 0 .. 1
      BY DEF One
    <3>3. CASE new = "unknown"
      <4>1. reasons' = reasons + 1
        BY <1>2, <2>1, <3>3
      <4>2. One((Seen /\ Ended)') <= One(Seen /\ Ended) /\ One(Seen /\ Ended) \in 0 .. 1 /\ One(Due) = 0
        BY <1>6, <1>8, <3>1 DEF One
      <4>. QED
        BY <1>6, <3>2, <4>1, <4>2 DEF ReasonsInv
    <3>4. CASE new = "not_dispatching"
      <4>1. reasons' = reasons
        BY <1>2, <3>4
      <4>2. ~Seen'
        BY <1>3, <1>5, <3>1, <3>4 DEF Seen
      <4>3. Ended
        BY <1>5, <3>4 DEF Ended
      <4>4. One((Seen /\ Ended)') = 0 /\ One(Seen /\ Ended) = 1 /\ One(Due) = 0
        BY <1>6, <3>1, <4>2, <4>3 DEF One
      <4>. QED
        BY <1>6, <3>2, <4>1, <4>4 DEF ReasonsInv
    <3>. QED
      BY <2>1, <3>3, <3>4 DEF NekoAnswers
  <2>2. CASE ~(new # "dispatching" /\ last = "dispatching")
    <3>1. reasons' = reasons
      BY <1>2, <2>2
    <3>2. ~Due'
      <4>1. nekoPc' = "claim" => real' = FALSE
        BY <1>2, <2>2
      <4>. QED
        BY <1>2, <1>3, <4>1 DEF Due, NekoClaims
    <3>3. Seen' => Seen
      BY <1>2, <1>3, <1>5 DEF Seen
    <3>. QED
      BY <1>1, <1>6, <1>8, <3>1, <3>2, <3>3, NoNewReason
  <2>. QED
    BY <2>1, <2>2
<1>10. OwedInv'
  <2>1. nekoPc' \in {"claim", "top"} /\ owed' = owed /\ (owed => last = "dispatching")
    BY <1>1, <1>2, <1>3 DEF OwedInv
  <2>2. CASE nekoPc' = "claim"
    <3>1. new # "dispatching" /\ (owed => real') /\ nekoStatus' = new
      BY <1>2, <2>1, <2>2
    <3>. QED
      BY <1>3, <2>1, <2>2, <3>1 DEF OwedInv, NekoClaims, NekoLooks
  <2>3. CASE nekoPc' = "top"
    <3>1. last' = new /\ nekoStatus' = new /\ (owed => new = "dispatching")
      BY <1>2, <2>1, <2>3
    <3>. QED
      BY <2>1, <2>3, <3>1 DEF OwedInv, NekoClaims, NekoLooks
  <2>. QED
    BY <2>1, <2>2, <2>3
<1>. QED
  BY <1>7, <1>9, <1>10 DEF NekoInv

\* A click that sends the cat out again at a start is a reason of its own.
LEMMA ClickKeeps ==
  ASSUME NekoInv, ClickClaim
  PROVE  NekoInv'
<1>1. NekoTyped /\ ReasonsInv /\ OwedInv
  BY DEF NekoInv
<1>2. /\ nekoPc = "click" /\ nekoPc' = "tell" /\ claimed' = Contains(page, "button")
      /\ cat' = (IF claimed' /\ cat = "home" THEN "out" ELSE cat)
      /\ reasons' = (IF claimed' /\ ~real THEN reasons + 1 ELSE reasons)
      /\ UNCHANGED <<page, autoClaim, last, nekoStatus, real, owed, tells>>
  BY DEF ClickClaim
<1>3. claimed' \in BOOLEAN
  BY <1>2 DEF Contains
<1>4. ~claimed /\ tells \in Nat /\ reasons \in Nat /\ real \in BOOLEAN
  BY <1>1, <1>2 DEF OwedInv, NekoTyped
<1>5. NekoTyped'
  <2>1. reasons' \in Nat /\ cat' \in {"idle", "out", "home"}
    BY <1>1, <1>2, <1>4 DEF NekoTyped
  <2>. QED
    BY <1>1, <1>2, <1>3, <2>1 DEF NekoTyped, NekoClaims
<1>6. (Seen' <=> Seen) /\ (Ended' => Ended)
  BY <1>2 DEF Seen, Ended
<1>7. ReasonsInv'
  <2>1. CASE claimed' /\ ~real
    <3>1. reasons' = reasons + 1 /\ tells' = tells
      BY <1>2, <2>1
    <3>2. /\ One(Due') \in 0 .. 1 /\ One((Seen /\ Ended)') <= One(Seen /\ Ended) /\ One(Due) \in 0 .. 1
          /\ One(Seen /\ Ended) \in 0 .. 1 /\ One((Seen /\ Ended)') \in 0 .. 1
      BY <1>6 DEF One
    <3>3. tells + One(Due) + One(Seen /\ Ended) <= reasons
      BY <1>1 DEF ReasonsInv
    <3>. QED
      BY <1>4, <3>1, <3>2, <3>3 DEF ReasonsInv
  <2>2. CASE ~(claimed' /\ ~real)
    <3>1. Due' => Due
      BY <1>2, <2>2 DEF Due, NekoClaims
    <3>. QED
      BY <1>1, <1>2, <1>4, <1>6, <2>2, <3>1, NoNewReason
  <2>. QED
    BY <2>1, <2>2
<1>8. OwedInv'
  BY <1>1, <1>2 DEF OwedInv, NekoClaims, NekoLooks
<1>. QED
  BY <1>5, <1>7, <1>8 DEF NekoInv

\* The notification uses up its reason, and pays what is owed.
LEMMA TellKeeps ==
  ASSUME NekoInv, TellCompletion
  PROVE  NekoInv'
<1>1. NekoTyped /\ ReasonsInv /\ OwedInv
  BY DEF NekoInv
<1>2. /\ nekoPc = "tell" /\ nekoPc' = (IF claimed THEN "recheck" ELSE "settle")
      /\ real \/ claimed => tells' = tells + 1 /\ owed' = FALSE
      /\ ~(real \/ claimed) => UNCHANGED <<tells, owed>>
      /\ UNCHANGED <<cat, page, autoClaim, last, nekoStatus, real, claimed, reasons>>
  BY DEF TellCompletion, ShouldNotify, game
<1>3. tells \in Nat /\ reasons \in Nat /\ nekoStatus # "dispatching" /\ (owed => real)
  BY <1>1, <1>2 DEF OwedInv, NekoTyped, NekoClaims
<1>4. nekoPc' \in {"recheck", "settle"} /\ ~owed' /\ owed' \in BOOLEAN
  <2>1. owed \in BOOLEAN
    BY <1>1 DEF NekoTyped
  <2>2. CASE real \/ claimed
    <3>1. owed' = FALSE
      BY <1>2, <2>2
    <3>. QED
      BY <1>2, <3>1
  <2>3. CASE ~(real \/ claimed)
    <3>1. owed' = owed /\ ~owed
      BY <1>2, <1>3, <2>3
    <3>. QED
      BY <1>2, <2>1, <3>1
  <2>. QED
    BY <2>2, <2>3
<1>5. NekoTyped'
  <2>1. tells' \in Nat
    BY <1>2, <1>3
  <2>. QED
    BY <1>1, <1>2, <1>4, <2>1 DEF NekoTyped, NekoLooks
<1>6. ~Due' /\ (Seen' => Seen) /\ (Ended' <=> Ended)
  BY <1>2, <1>3, <1>4 DEF Due, NekoClaims, Seen, Ended
<1>7. ReasonsInv'
  <2>1. CASE real \/ claimed
    <3>1. Due /\ tells' = tells + 1 /\ reasons' = reasons
      BY <1>2, <2>1 DEF Due, NekoClaims
    <3>2. /\ One(Due) = 1 /\ One(Due') = 0 /\ One((Seen /\ Ended)') <= One(Seen /\ Ended)
          /\ One(Seen /\ Ended) \in 0 .. 1 /\ One((Seen /\ Ended)') \in 0 .. 1
      BY <1>6, <3>1 DEF One
    <3>3. tells + One(Due) + One(Seen /\ Ended) <= reasons
      BY <1>1 DEF ReasonsInv
    <3>4. tells \in Nat /\ reasons \in Nat
      BY <1>3
    <3>5. tells' = tells + 1 /\ reasons' = reasons
      BY <3>1
    <3>6. tells' + One(Due') + One((Seen /\ Ended)') <= reasons'
      BY ONLY <3>2, <3>3, <3>4, <3>5
    <3>. QED
      BY <3>6 DEF ReasonsInv
  <2>2. CASE ~(real \/ claimed)
    <3>1. tells' = tells /\ reasons' = reasons
      BY <1>2, <2>2
    <3>. QED
      BY <1>1, <1>3, <1>6, <3>1, NoNewReason
  <2>. QED
    BY <2>1, <2>2
<1>8. OwedInv'
  BY <1>2, <1>3, <1>4 DEF OwedInv, NekoClaims, NekoLooks
<1>. QED
  BY <1>5, <1>7, <1>8 DEF NekoInv

\* The other steps of the loop neither notify nor bring a reason.
LEMMA QuietKeeps ==
  ASSUME NekoInv,
         NekoCheck \/ AskToClaim \/ SkipClaim \/ Recheck \/ ReadAgain \/ Settle \/ UNCHANGED nekoVars
  PROVE  NekoInv'
<1>. USE DEF past
<1>1. NekoTyped /\ ReasonsInv /\ OwedInv /\ tells \in Nat /\ reasons \in Nat
  BY DEF NekoInv, NekoTyped
<1>2. UNCHANGED <<cat, autoClaim, real, claimed, owed, tells, reasons>>
  BY DEF NekoCheck, AskToClaim, SkipClaim, Recheck, AskCheck, ReadAgain, Settle, nekoVars, game
<1>3. /\ page' \in Seq(Posts) /\ Len(page') <= View
      /\ ShowsOut(page') => ShowsOut(page)
      /\ ShowsHome(page') => ShowsHome(page)
  <2>1. CASE AskToClaim
    <3>1. PICK m \in {"button", "other"} : page' = page \/ page' = Push(m)
      BY <2>1 DEF AskToClaim
    <3>2. CASE page' = page
      BY <1>1, <3>2 DEF NekoTyped
    <3>3. CASE page' = Push(m)
      <4>1. m \in Posts /\ m # "out" /\ m # "in"
        BY <3>1 DEF Posts
      <4>. QED
        BY <1>1, <3>3, <4>1, PageGrown
    <3>. QED
      BY <3>1, <3>2, <3>3
  <2>2. CASE ~AskToClaim
    <3>1. page' = page
      BY <2>2 DEF NekoCheck, SkipClaim, Recheck, AskCheck, ReadAgain, Settle, nekoVars, game
    <3>. QED
      BY <1>1, <3>1 DEF NekoTyped
  <2>. QED
    BY <2>1, <2>2
<1>4. Ended' => Ended
  BY <1>2, <1>3 DEF Ended
<1>5. CASE NekoCheck \/ UNCHANGED nekoVars
  <2>1. /\ UNCHANGED <<last, nekoStatus>>
        /\ nekoPc' = nekoPc \/ (nekoPc = "top" /\ nekoPc' = "read")
    BY <1>5 DEF NekoCheck, AskCheck, nekoVars
  <2>2. (Due' => Due) /\ (Seen' => Seen)
    BY <1>2, <1>3, <2>1 DEF Due, NekoClaims, Seen
  <2>3. ReasonsInv'
    BY <1>1, <1>2, <1>4, <2>2, NoNewReason
  <2>4. NekoTyped'
    BY <1>1, <1>2, <1>3, <2>1 DEF NekoTyped
  <2>5. OwedInv'
    BY <1>1, <1>2, <2>1 DEF OwedInv, NekoClaims, NekoLooks
  <2>. QED
    BY <2>3, <2>4, <2>5 DEF NekoInv
<1>6. CASE AskToClaim \/ SkipClaim
  <2>1. /\ UNCHANGED <<last, nekoStatus>> /\ nekoPc = "claim" /\ nekoPc' \in {"click", "tell"}
    BY <1>6 DEF AskToClaim, SkipClaim
  <2>2. (Due' => Due) /\ (Seen' => Seen)
    BY <1>2, <1>3, <2>1 DEF Due, NekoClaims, Seen
  <2>3. ReasonsInv'
    BY <1>1, <1>2, <1>4, <2>2, NoNewReason
  <2>4. NekoTyped'
    BY <1>1, <1>2, <1>3, <2>1 DEF NekoTyped, NekoClaims
  <2>5. OwedInv'
    BY <1>1, <1>2, <2>1 DEF OwedInv, NekoClaims, NekoLooks
  <2>. QED
    BY <2>3, <2>4, <2>5 DEF NekoInv
<1>7. CASE Recheck
  <2>1. /\ UNCHANGED <<last, nekoStatus>> /\ nekoPc = "recheck" /\ nekoPc' = "reread"
    BY <1>7 DEF Recheck, AskCheck
  <2>2. (Due' => Due) /\ (Seen' => Seen)
    BY <1>2, <1>3, <2>1 DEF Due, NekoClaims, Seen
  <2>3. ReasonsInv'
    BY <1>1, <1>2, <1>4, <2>2, NoNewReason
  <2>4. NekoTyped'
    BY <1>1, <1>2, <1>3, <2>1 DEF NekoTyped, NekoLooks
  <2>5. OwedInv'
    BY <1>1, <1>2, <2>1 DEF OwedInv, NekoClaims, NekoLooks
  <2>. QED
    BY <2>3, <2>4, <2>5 DEF NekoInv
<1>8. CASE ReadAgain
  <2>1. PICK new \in NekoAnswers : QueryStatus(new) /\ nekoStatus' = new
    BY <1>8 DEF ReadAgain, NekoAnswers
  <2>2. UNCHANGED <<last, page>> /\ nekoPc = "reread" /\ nekoPc' = "settle"
    BY <1>8 DEF ReadAgain, game
  <2>3. new = "dispatching" => ShowsOut(page)
    BY <1>1, <2>1, PageRead DEF QueryStatus
  <2>4. (Due' => Due) /\ (Seen' => Seen)
    BY <1>2, <2>1, <2>2, <2>3 DEF Due, NekoClaims, Seen
  <2>5. ReasonsInv'
    BY <1>1, <1>2, <1>4, <2>4, NoNewReason
  <2>6. NekoTyped'
    BY <1>1, <1>2, <1>3, <2>1, <2>2 DEF NekoTyped
  <2>7. OwedInv'
    BY <1>1, <1>2, <2>2 DEF OwedInv, NekoClaims, NekoLooks
  <2>. QED
    BY <2>5, <2>6, <2>7 DEF NekoInv
<1>9. CASE Settle
  <2>1. /\ nekoPc = "settle" /\ nekoPc' = "top" /\ last' = nekoStatus /\ nekoStatus' = nekoStatus
    BY <1>9 DEF Settle
  <2>2. (Due' => Due) /\ (Seen' => Seen)
    BY <1>2, <1>3, <2>1 DEF Due, NekoClaims, Seen
  <2>3. ReasonsInv'
    BY <1>1, <1>2, <1>4, <2>2, NoNewReason
  <2>4. NekoTyped'
    BY <1>1, <1>2, <1>3, <2>1 DEF NekoTyped
  <2>5. OwedInv'
    BY <1>1, <1>2, <2>1 DEF OwedInv, NekoClaims, NekoLooks
  <2>. QED
    BY <2>3, <2>4, <2>5 DEF NekoInv
<1>. QED
  BY <1>5, <1>6, <1>7, <1>8, <1>9

\* After a restart nothing is due and nothing is owed; the page may still show an old dispatch.
LEMMA RestartNekoKeeps ==
  ASSUME NekoInv, RestartNeko
  PROVE  NekoInv'
<1>1. NekoTyped /\ ReasonsInv /\ tells \in Nat /\ reasons \in Nat
  BY DEF NekoInv, NekoTyped
<1>2. /\ nekoPc' = "top" /\ last' = "none" /\ nekoStatus' = "unknown" /\ real' = FALSE /\ claimed' = FALSE
      /\ owed' = FALSE /\ page' \in {page, <<>>} /\ UNCHANGED <<cat, autoClaim, tells, reasons>>
  BY DEF RestartNeko
<1>3. <<>> \in Seq(Posts) /\ Len(<<>>) <= View /\ ~ShowsOut(<<>>) /\ ~ShowsHome(<<>>)
  <2>1. Len(<<>>) = 0 /\ DOMAIN <<>> = {} /\ View \in Nat
    BY EmptySeq, NekoAssumption
  <2>. QED
    BY <2>1, EmptySeq DEF ShowsOut, ShowsHome
<1>4. /\ page' \in Seq(Posts) /\ Len(page') <= View
      /\ ShowsOut(page') => ShowsOut(page)
      /\ ShowsHome(page') => ShowsHome(page)
  BY <1>1, <1>2, <1>3 DEF NekoTyped
<1>5. ~Due' /\ (Seen' => Seen) /\ (Ended' => Ended)
  BY <1>2, <1>4 DEF Due, NekoClaims, Seen, Ended
<1>6. ReasonsInv'
  BY <1>1, <1>2, <1>5, NoNewReason
<1>7. NekoTyped'
  <2>1. real' \in BOOLEAN /\ claimed' \in BOOLEAN /\ owed' \in BOOLEAN
    BY <1>2
  <2>. QED
    BY <1>1, <1>2, <1>4, <2>1 DEF NekoTyped, NekoAnswers
<1>8. OwedInv'
  BY <1>2 DEF OwedInv, NekoClaims, NekoLooks
<1>. QED
  BY <1>6, <1>7, <1>8 DEF NekoInv

\* Every step of the cat, its owner, the channel and the loop keeps the invariant.
LEMMA NekoInvStep ==
  ASSUME NekoInv, NekoNext \/ UNCHANGED nekoVars
  PROVE  NekoInv'
BY GameKeeps, LookKeeps, ClickKeeps, TellKeeps, QuietKeeps, RestartNekoKeeps DEF NekoNext, NekoStep

-----------------------------------------------------------------------------
(* The queue of the debug channel *)

\* A record more, whoever logs it, leaves the queue within its limit.
LEMMA EmitKeeps ==
  ASSUME DebugInv, NEW level \in Levels, NEW task
  PROVE  Emit(pending, level, task) \in Seq(Levels) /\ Len(Emit(pending, level, task)) <= PendingMax
<1> DEFINE longer == Append(pending, level)
<1>1. pending \in Seq(Levels) /\ Len(pending) \in Nat /\ Len(pending) <= PendingMax
      /\ PendingMax \in Nat /\ PendingMax > 0
  BY LenProperties, DebugAssumption DEF DebugInv
<1>2. longer \in Seq(Levels) /\ Len(longer) = Len(pending) + 1
  BY <1>1, AppendProperties
<1>3. longer # <<>>
  <2>1. Len(longer) # 0
    BY <1>1, <1>2
  <2>. QED
    BY <2>1, EmptySeq
<1>4. Tail(longer) \in Seq(Levels) /\ Len(Tail(longer)) = Len(pending)
  <2>1. Tail(longer) \in Seq(Levels) /\ Len(Tail(longer)) = Len(longer) - 1
    BY <1>2, <1>3, HeadTailProperties
  <2>. QED
    BY <1>1, <1>2, <2>1
<1>. HIDE DEF longer
<1>5. Emit(pending, level, task) =
        IF task = "debug" THEN pending
        ELSE IF Len(longer) > PendingMax THEN Tail(longer) ELSE longer
  BY DEF Emit, longer
<1>6. CASE task = "debug"
  BY <1>1, <1>5, <1>6
<1>7. CASE task # "debug" /\ Len(longer) > PendingMax
  BY <1>1, <1>4, <1>5, <1>7
<1>8. CASE task # "debug" /\ ~(Len(longer) > PendingMax)
  BY <1>1, <1>2, <1>5, <1>8
<1>. QED
  BY <1>6, <1>7, <1>8

\* The entries among the first n that are to be sent.
HighUpTo(n) == {i \in 1 .. n : pending[i] >= MinLevel}

\* A flush has an end: the whole queue, or the entry that fills the message.
LEMMA FlushEnds ==
  ASSUME DebugInv
  PROVE  \E n \in 0 .. Len(pending) : Drains(n)
<1>1. Len(pending) \in Nat /\ MaxPerFlush \in Nat /\ MaxPerFlush > 0
  BY LenProperties, DebugAssumption DEF DebugInv
<1>2. ASSUME NEW n \in Nat PROVE IsFiniteSet(HighUpTo(n)) /\ Cardinality(HighUpTo(n)) \in Nat
  <2>1. IsFiniteSet(1 .. n)
    BY FS_Interval
  <2>2. HighUpTo(n) \in SUBSET (1 .. n)
    BY DEF HighUpTo
  <2>. QED
    BY <2>1, <2>2, FS_Subset, FS_CardinalityType
<1>3. CASE Cardinality(HighUpTo(Len(pending))) < MaxPerFlush
  <2>1. Len(pending) \in 0 .. Len(pending)
    BY <1>1
  <2>2. Drains(Len(pending))
    BY <1>3 DEF Drains, HighUpTo
  <2>. QED
    BY <2>1, <2>2
<1>4. CASE ~(Cardinality(HighUpTo(Len(pending))) < MaxPerFlush)
  <2> DEFINE Full == {n \in Nat : Cardinality(HighUpTo(n)) >= MaxPerFlush}
  <2>1. Len(pending) \in Full
    BY <1>1, <1>2, <1>4
  <2>2. PICK n \in Full : \A k \in Full : ~(<<k, n>> \in OpToRel(<, Nat))
    <3>1. Full \subseteq Nat /\ Full # {}
      BY <2>1
    <3>. HIDE DEF Full
    <3>. QED
      BY <3>1, NatLessThanWellFounded, WFMin
  <2>3. n \in Nat /\ Cardinality(HighUpTo(n)) >= MaxPerFlush /\ \A k \in Nat : k < n => k \notin Full
    <3>1. \A k \in Full : ~(k < n)
      BY <2>2 DEF OpToRel
    <3>. QED
      BY <3>1
  <2>4. n <= Len(pending)
    BY <1>1, <2>1, <2>3
  <2>5. n # 0
    <3>1. HighUpTo(0) = {}
      BY DEF HighUpTo
    <3>2. Cardinality(HighUpTo(0)) = 0
      BY <3>1, FS_EmptySet
    <3>. QED
      BY <1>1, <2>3, <3>2
  <2>6. PICK k \in Nat : k + 1 = n
    BY <2>3, <2>5
  <2>7. Cardinality(HighUpTo(k)) < MaxPerFlush /\ Cardinality(HighUpTo(k)) \in Nat
    <3>1. k < n
      BY <2>3, <2>6
    <3>2. k \notin Full
      BY <2>3, <3>1
    <3>. QED
      BY <1>1, <1>2, <3>2
  <2>8. HighUpTo(n) = IF pending[n] >= MinLevel THEN HighUpTo(k) \cup {n} ELSE HighUpTo(k)
    <3>1. \A i \in Nat : i \in 1 .. n <=> (i \in 1 .. k \/ i = n)
      BY <2>6
    <3>2. 1 .. n \subseteq Nat /\ 1 .. k \subseteq Nat /\ n \in Nat
      BY <2>3
    <3>3. n \notin 1 .. k
      BY <2>6
    <3>. QED
      BY <3>1, <3>2, <3>3 DEF HighUpTo
  <2>9. pending[n] >= MinLevel
    <3>. SUFFICES ASSUME ~(pending[n] >= MinLevel) PROVE FALSE
      OBVIOUS
    <3>1. HighUpTo(n) = HighUpTo(k)
      BY <2>8
    <3>. QED
      BY <1>1, <2>3, <2>7, <3>1
  <2>10. n \in HighUpTo(n) /\ Cardinality(HighUpTo(n)) = MaxPerFlush
    <3>1. HighUpTo(n) = HighUpTo(k) \cup {n} /\ n \notin HighUpTo(k) /\ IsFiniteSet(HighUpTo(k))
      <4>1. n \notin 1 .. k
        BY <2>6
      <4>. QED
        BY <1>2, <2>8, <2>9, <4>1 DEF HighUpTo
    <3>2. Cardinality(HighUpTo(n)) = Cardinality(HighUpTo(k)) + 1
      BY <3>1, FS_AddElement
    <3>. QED
      BY <1>1, <2>3, <2>7, <3>1, <3>2
  <2>11. Drains(n)
    BY <2>10 DEF Drains, HighUpTo
  <2>12. n \in 0 .. Len(pending)
    BY <1>1, <2>3, <2>4
  <2>. QED
    BY <2>11, <2>12
<1>. QED
  BY <1>3, <1>4

\* The queue starts empty.
LEMMA DebugInvInit ==
  ASSUME debugPc = "start", pending = <<>>, debugOn \in BOOLEAN
  PROVE  DebugInv
BY EmptySeq, DebugAssumption DEF DebugInv

\* Whoever logs, and whatever the loop drops or sends, the queue stays within its limit.
LEMMA DebugInvStep ==
  ASSUME DebugInv, DebugNext \/ UNCHANGED debugVars
  PROVE  DebugInv'
<1>1. pending \in Seq(Levels) /\ Len(pending) <= PendingMax /\ Len(pending) \in Nat
      /\ debugOn \in BOOLEAN
      /\ debugPc \in {"start", "top", "cooling", "drain", "send"}
  BY LenProperties DEF DebugInv
<1>2. <<>> \in Seq(Levels) /\ Len(<<>>) <= PendingMax
  BY EmptySeq, DebugAssumption
<1>3. \A task, level \in {30, 40} \cup {"debug", "menu", "other"} :
        level \in Levels =>
          Emit(pending, level, task) \in Seq(Levels) /\ Len(Emit(pending, level, task)) <= PendingMax
  BY EmitKeeps
<1>4. 30 \in Levels /\ 40 \in Levels
  BY DEF Levels
<1>5. debugOn' \in BOOLEAN /\ debugPc' \in {"start", "top", "cooling", "drain", "send"}
  BY <1>1 DEF DebugNext, DebugStep, OtherTaskLogs, MenuSwitch, MenuDebug, DebugStarts, Disabled,
     StartCoolDown, EndCoolDown, DrainPending, SendDebug, debugVars
<1>6. pending' \in Seq(Levels) /\ Len(pending') <= PendingMax
  <2>1. CASE OtherTaskLogs
    <3>1. PICK level \in Levels : pending' = Emit(pending, level, "other")
      BY <2>1 DEF OtherTaskLogs
    <3>. QED
      BY <3>1, EmitKeeps
  <2>2. CASE MenuDebug
    <3>1. pending' = Emit(pending, 30, "menu") \/ pending' = <<>>
      BY <2>2 DEF MenuDebug
    <3>. QED
      BY <1>2, <1>4, <3>1, EmitKeeps
  <2>3. CASE DrainPending
    <3> DEFINE n == CHOOSE k \in 0 .. Len(pending) : Drains(k)
    <3>1. n \in 0 .. Len(pending)
      BY FlushEnds
    <3>2. pending' = SubSeq(pending, n + 1, Len(pending))
      BY <2>3 DEF DrainPending
    <3>. HIDE DEF n
    <3>3. n + 1 \in 1 .. Len(pending) + 1 /\ \A i \in n + 1 .. Len(pending) : pending[i] \in Levels
      BY <1>1, <3>1, ElementOfSeq
    <3>4. /\ pending' \in Seq(Levels)
          /\ Len(pending') = IF n + 1 <= Len(pending) THEN Len(pending) - (n + 1) + 1 ELSE 0
      BY <1>1, <3>2, <3>3, SubSeqProperties
    <3>5. PendingMax \in Nat
      BY DebugAssumption
    <3>6. Len(pending') <= PendingMax
      <4>1. CASE n + 1 <= Len(pending)
        BY <1>1, <3>1, <3>4, <3>5, <4>1
      <4>2. CASE ~(n + 1 <= Len(pending))
        BY <3>4, <3>5, <4>2
      <4>. QED
        BY <4>1, <4>2
    <3>. QED
      BY <3>4, <3>6
  <2>4. CASE SendDebug
    <3>1. pending' = pending \/ pending' = Emit(pending, 40, "debug")
      BY <2>4 DEF SendDebug
    <3>. QED
      BY <1>1, <1>4, <3>1, EmitKeeps
  <2>5. CASE StartCoolDown
    <3>1. pending' = Emit(pending, 30, "debug")
      BY <2>5 DEF StartCoolDown
    <3>. QED
      BY <1>4, <3>1, EmitKeeps
  <2>6. CASE MenuSwitch \/ DebugStarts \/ Disabled \/ EndCoolDown \/ UNCHANGED debugVars
    <3>1. pending' \in {pending, <<>>}
      BY <2>6 DEF MenuSwitch, DebugStarts, Disabled, EndCoolDown, debugVars
    <3>. QED
      BY <1>1, <1>2, <3>1
  <2>. QED
    BY <2>1, <2>2, <2>3, <2>4, <2>5, <2>6 DEF DebugNext, DebugStep
<1>. QED
  BY <1>5, <1>6 DEF DebugInv

-----------------------------------------------------------------------------
(* All loops *)

\* What holds of the loops at the start, whichever of them run.
LEMMA IInvInit == Init => IInv
<1>. SUFFICES ASSUME Init PROVE IInv
  OBVIOUS
<1>1. LoopHealthInit /\ StocksInit /\ PageInit /\ NewsInit
  BY DEF Init
<1>2. NekoInv
  <2>1. /\ cat \in {"idle", "out", "home"} /\ page = <<>> /\ nekoPc = "top" /\ autoClaim \in BOOLEAN
        /\ last = "none" /\ nekoStatus = "unknown" /\ real = FALSE /\ claimed = FALSE
        /\ owed = FALSE /\ tells = 0 /\ reasons = 0
    BY DEF Init, NekoInit
  <2>. QED
    BY <2>1, NekoInvInit
<1>3. DebugInv
  <2>1. debugPc = "start" /\ pending = <<>> /\ debugOn \in BOOLEAN
    BY DEF Init, DebugInit
  <2>. QED
    BY <2>1, DebugInvInit
<1>. QED
  BY <1>1, <1>2, <1>3, StockTypedInit, HoldingsInit, PricesInit, PageInvInit, SharedInit, NewsInvInit DEF IInv

\* A step of one loop is a step of its own part and leaves the parts of the others alone.
LEMMA IInvStep == IInv /\ [Next]_vars => IInv'
<1>. SUFFICES ASSUME IInv, [Next]_vars PROVE IInv'
  OBVIOUS
<1>1. StockTyped /\ HoldingsInv /\ PricesInv /\ PageInv /\ SharedInv /\ NewsInv /\ NekoInv /\ DebugInv
  BY DEF IInv
<1>2. StockMove
  BY DEF Next, Stock, WatchNews, ReadPage, Restart, WatchCat, Debug, vars, StockMove
<1>3. PageNext \/ UNCHANGED pageVars
  BY DEF Next, Stock, WatchNews, ReadPage, Restart, WatchCat, Debug, vars
<1>4. DOMAIN snapshot.prices \in SUBSET Symbols
  BY <1>1 DEF StockTyped, ArePrices
<1>5. NewsNext(DOMAIN snapshot.prices) \/ RestartNews \/ UNCHANGED newsVars
  BY DEF Next, Stock, WatchNews, ReadPage, Restart, WatchCat, Debug, vars
<1>6. NekoNext \/ UNCHANGED nekoVars
  BY DEF Next, Stock, WatchNews, ReadPage, Restart, WatchCat, Debug, vars
<1>7. DebugNext \/ UNCHANGED debugVars
  BY DEF Next, Stock, WatchNews, ReadPage, Restart, WatchCat, Debug, vars
<1>8. \/ StocksNext \/ NewsNext(DOMAIN snapshot.prices)
      \/ (UNCHANGED lock /\ (NekoNext \/ DebugNext \/ UNCHANGED health))
      \/ (lock' = "free" /\ health' = [l \in LoopNames |-> Healthy])
  BY DEF Next, Stock, WatchNews, ReadPage, Restart, WatchCat, Debug, vars
<1>9. StockTyped' /\ HoldingsInv' /\ PricesInv'
  BY <1>1, <1>2, StockTypedStep, HoldingsStep, PricesStep
<1>10. PageInv'
  BY <1>1, <1>3, PageInvStep
<1>11. NewsInv'
  BY <1>1, <1>4, <1>5, NewsInvStep
<1>12. NekoInv' /\ DebugInv' /\ SharedInv'
  BY <1>1, <1>6, <1>7, <1>8, NekoInvStep, DebugInvStep, SharedStep
<1>. QED
  BY <1>9, <1>10, <1>11, <1>12 DEF IInv

\* The parts of the invariant hold in every state of every behaviour of the loops.
THEOREM InductiveInvariant == Safety => []IInv
BY IInvInit, IInvStep, PTL DEF Safety

\* The locals, tables and states of the loops have the types of the code, and the queue of the
\* debug channel, the page of the cat and that of the stocks never exceed their limits.
THEOREM TypeCorrect == Safety => []TypeOK
<1>1. IInv => TypeOK
  <2>. SUFFICES ASSUME IInv PROVE TypeOK
    OBVIOUS
  <2>1. StockTyped /\ PageInv /\ SharedInv /\ NewsInv /\ NekoInv /\ DebugInv
    BY DEF IInv
  <2>2. /\ stockPc \in {"top", "cooling", "nap", "list", "portfolio", "clear", "write", "tracked",
                        "append", "analyse", "leave", "store"}
        /\ stockForce \in BOOLEAN /\ left \in Nat /\ loose \subseteq Symbols
        /\ DOMAIN holdings \subseteq Symbols /\ DOMAIN snapshot.prices \subseteq Symbols
        /\ poll.due \subseteq DOMAIN poll.holdings
        /\ DOMAIN notified \subseteq Symbols \X {"buy", "sell"}
        /\ DOMAIN alarmed \subseteq Symbols \X {"rise", "fall"}
    BY <2>1 DEF StockTyped, StockPcs, Resting, ArePrices
  <2>3. \A i \in DOMAIN stockPrices : stockPrices[i].symbol \in Symbols /\ stockPrices[i].price > 0
    <3>1. \A i \in DOMAIN stockPrices : stockPrices[i] \in Rows
      BY <2>1, ElementOfSeq, LenProperties DEF StockTyped
    <3>. QED
      BY <3>1 DEF Rows
  <2>4. /\ newsPc \in {"top", "enter", "fetch", "tell", "nap"} /\ newsForce \in BOOLEAN
        /\ todo \subseteq Symbols /\ batch \cup stockNews \cup missed \subseteq Items
    BY <2>1 DEF NewsInv, NewsTyped
  <2>5. /\ queryPc \in {"idle", "list", "main", "button", "shorts", "detail", "news"}
        /\ Len(screen) <= PageView /\ reading.held \cup reading.short \subseteq PageSymbols
    BY <2>1 DEF PageInv, PageTyped
  <2>6. /\ Len(page) <= View /\ Len(pending) <= PendingMax
        /\ last \in {"none", "dispatching", "not_dispatching", "unknown"}
        /\ nekoStatus \in {"dispatching", "not_dispatching", "unknown"}
    BY <2>1 DEF NekoInv, NekoTyped, NekoAnswers, DebugInv
  <2>7. lock \in {"free", "stock", "news"}
        /\ health \in [LoopNames -> [status : Statuses, streak : 0 .. PauseAt]]
    BY <2>1 DEF SharedInv
  <2>. QED
    BY <2>2, <2>3, <2>4, <2>5, <2>6, <2>7 DEF TypeOK
<1>. QED
  BY <1>1, InductiveInvariant, PTL

\* Two prices of a symbol that follow each other in the table are within a factor of ten, unless
\* the second had nothing to be compared with, for any number of polls, failures and restarts.
THEOREM PricesStayBelievable == Safety => []PricesBelievable
<1>1. IInv => PricesBelievable
  BY DEF IInv, PricesInv, PricesBelievable
<1>. QED
  BY <1>1, InductiveInvariant, PTL

\* Between two polls the table of holdings is the portfolio read last, unless a write broke off,
\* and so are the holdings of the snapshot of a poll that read it.
THEOREM HoldingsStay == Safety => []HoldingsAgree
<1>1. IInv => HoldingsAgree
  <2>. SUFFICES ASSUME IInv, stockPc \in {"nap", "top", "cooling"}
                PROVE  (~torn => holdings = read) /\ (snapshot.whole => snapshot.holdings = read)
    BY DEF HoldingsAgree
  <2>1. poll = NoPoll
    BY DEF IInv, StockTyped, Resting
  <2>. QED
    BY <2>1 DEF IInv, HoldingsInv, NoPoll
<1>. QED
  BY <1>1, InductiveInvariant, PTL

\* What is taken as the portfolio, the short positions or the news of a symbol is of the time
\* since the command and of that symbol, whatever else is on the page and scrolls out of it.
THEOREM ReadingsStayCurrent == Safety => []ReadingsCurrent
<1>1. IInv => ReadingsCurrent
  BY DEF IInv, PageInv, ReadingInv, ReadingsCurrent
<1>. QED
  BY <1>1, InductiveInvariant, PTL

\* Every piece of news is told once for each time it was stored, and none stays untold but for
\* what broke off, for any number of cycles, clears and restarts.
THEOREM NewsToldOnce == Safety => []NewsOnce
<1>1. IInv => NewsOnce
  <2>. SUFFICES ASSUME IInv, NEW i \in Items
                PROVE  /\ told[i] <= 1 + removed[i]
                       /\ newsPc \in {"top", "nap"} /\ i \in stockNews => told[i] > 0 \/ i \in missed
    BY DEF NewsOnce
  <2>1. NewsInv
    BY DEF IInv
  <2>2. told[i] <= 1 + removed[i]
    <3>1. told[i] \in Nat /\ removed[i] \in Nat
      BY <2>1 DEF NewsInv, NewsTyped
    <3>2. told[i] + One(i \in batch) <= removed[i] + One(i \in stockNews)
      BY <2>1 DEF NewsInv
    <3>3. One(i \in batch) \in 0 .. 1 /\ One(i \in stockNews) \in 0 .. 1
      BY DEF One
    <3>. QED
      BY <3>1, <3>2, <3>3
  <2>. QED
    BY <2>1, <2>2 DEF NewsInv
<1>. QED
  BY <1>1, InductiveInvariant, PTL

\* The cat's notifications are right, neither one too many nor one too few, however the checks,
\* the claims, the owner and the restarts follow each other.
THEOREM CatAlwaysTold == Safety => []CatTold
<1>1. IInv => CatTold
  <2>. SUFFICES ASSUME IInv PROVE CatTold
    OBVIOUS
  <2>1. NekoTyped /\ ReasonsInv /\ OwedInv
    BY DEF IInv, NekoInv
  <2>2. NoFalseTells
    <3>1. tells \in Nat /\ reasons \in Nat /\ tells + One(Due) + One(Seen /\ Ended) <= reasons
      BY <2>1 DEF NekoTyped, ReasonsInv
    <3>2. One(Due) \in 0 .. 1 /\ One(Seen /\ Ended) \in 0 .. 1
      BY DEF One
    <3>. QED
      BY <3>1, <3>2 DEF NoFalseTells
  <2>3. ToldAfterLook
    BY <2>1 DEF OwedInv, ToldAfterLook
  <2>. QED
    BY <2>2, <2>3 DEF CatTold
<1>. QED
  BY <1>1, InductiveInvariant, PTL

\* A wish for a poll at once is taken only by the start of a poll, or lost with the program.
THEOREM ForcedPolls == Safety => ForceStartsPoll
<1>1. IInv /\ [Next]_vars => [stockForce /\ ~stockForce' /\ stockPc' # "top" => stockPc' = "list"]_vars
  <2>. SUFFICES ASSUME [Next]_vars, stockForce, ~stockForce', stockPc' # "top" PROVE stockPc' = "list"
    OBVIOUS
  <2>1. StockMove
    BY DEF Next, Stock, WatchNews, ReadPage, Restart, WatchCat, Debug, vars, StockMove
  <2>2. ~(UNCHANGED stockForce)
    OBVIOUS
  <2>3. Top \/ CoolDown
    BY <2>1, <2>2 DEF StockMove, StocksNext, PollStep, ForcePoll, Nap, AskList, AskPortfolio, ClearHoldings,
       UpsertHolding, ReadShorts, AskTracked, AppendPrices, Analyse, RaisePoll, LeaveChannel, StoreSnapshot,
       RestartStocks, InPoll, stockVars
  <2>. QED
    BY <2>3 DEF Top, CoolDown, StartPoll
<1>. QED
  BY <1>1, InductiveInvariant, PTL DEF Safety, ForceStartsPoll
=============================================================================
