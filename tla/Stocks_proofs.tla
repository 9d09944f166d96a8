---------------------------- MODULE Stocks_proofs ----------------------------
(***************************************************************************)
(* Proofs about Stocks and StockPage. First what a poll keeps true of the  *)
(* tables, the snapshot and its locals, for all symbols, answers and       *)
(* bounds: the three parts are inductive one after the other, the types,   *)
(* the table of holdings, and the prices beside the snapshot they are      *)
(* checked against. Then the page its answers are read from.               *)
(*                                                                         *)
(* The steps are those of StocksNext and RestartStocks, as Loops uses them *)
(* beside the other loops.                                                 *)
(***************************************************************************)
EXTENDS Stocks, StockPage, SequenceTheorems, FiniteSetTheorems, WellFoundedInduction, TLAPS

StockMove == StocksNext \/ RestartStocks \/ UNCHANGED stockVars

Resting  == {"top", "cooling", "nap", "list"}
StockPcs == Resting \cup {"portfolio", "clear", "write", "tracked", "append", "analyse", "leave", "store"}

PollFields     == {"prices", "holdings", "parsed", "raised", "due", "whole"}
SnapshotFields == {"set", "prices", "holdings", "whole"}

StockTyped ==
  /\ stockPc \in StockPcs
  /\ stockForce \in BOOLEAN /\ now \in Nat
  /\ left \in Nat /\ (stockPc \in {"cooling", "nap"} => left > 0)
  /\ DOMAIN poll = PollFields /\ DOMAIN snapshot = SnapshotFields
  /\ ArePrices(poll.prices) /\ ArePrices(snapshot.prices)
  /\ poll.due \subseteq DOMAIN poll.holdings /\ DOMAIN poll.holdings \subseteq Symbols
  /\ DOMAIN holdings \subseteq Symbols
  /\ stockPrices \in Seq(Rows) /\ loose \subseteq Symbols
  /\ DOMAIN notified \subseteq Symbols \X {"buy", "sell"}
  /\ DOMAIN alarmed \subseteq Symbols \X {"rise", "fall"}
  /\ stockPc \in Resting => poll = NoPoll

\* What is written of a portfolio, while it is being written and afterwards.
Cut(f, d)   == [s \in DOMAIN f \ d |-> f[s]]

HoldingsInv ==
  /\ read = Cut(read, {})
  /\ stockPc = "clear" => poll.holdings = read /\ poll.due = DOMAIN read /\ poll.parsed
  /\ stockPc = "write" => /\ poll.holdings = read /\ poll.due \subseteq DOMAIN read /\ poll.parsed
                          /\ holdings = Cut(read, poll.due)
  /\ stockPc \notin {"clear", "write"} /\ ~torn => holdings = read
  /\ poll.whole => poll.holdings = read
  /\ ~poll.parsed /\ snapshot.whole => snapshot.holdings = read

\* The row of a symbol that later prices are measured by.
IsLast(table, i) == \A k \in DOMAIN table : k > i => table[k].symbol # table[i].symbol
LastPrice(s, p)  ==
  \E i \in DOMAIN stockPrices :
    stockPrices[i].symbol = s /\ stockPrices[i].price = p /\ IsLast(stockPrices, i)

Written == stockPc \in {"analyse", "leave", "store"}

\* What the next price of a symbol has to be near to.
Measured(s) ==
  IF Written /\ s \in DOMAIN poll.prices THEN LastPrice(s, poll.prices[s])
  ELSE s \in DOMAIN snapshot.prices /\ LastPrice(s, snapshot.prices[s])

\* The locals of a poll were checked against the snapshot before they are appended.
PollChecked ==
  \A s \in DOMAIN poll.prices \cap DOMAIN snapshot.prices :
    ~Farther(poll.prices[s], snapshot.prices[s])

PricesInv ==
  /\ Believable(stockPrices)
  /\ \A s \in Symbols \ loose : Measured(s)
  /\ stockPc = "append" => PollChecked

-----------------------------------------------------------------------------
(* The answers of a poll *)

\* No prices are prices too.
LEMMA NothingIsPrices == ArePrices(Nothing) /\ DOMAIN Nothing = {}
BY DEF ArePrices, Nothing

\* Prices of which some are replaced by others are prices.
LEMMA PricesJoined ==
  ASSUME NEW p, NEW q, ArePrices(p), ArePrices(q)
  PROVE  ArePrices(Over(p, q))
<1>1. \A s \in DOMAIN p \cup DOMAIN q : Over(p, q)[s] \in Nat \ {0}
  BY DEF ArePrices, Over
<1>. QED
  BY <1>1 DEF ArePrices, Over

\* The check of a price leaves a price: the one read, or that of the snapshot.
LEMMA PricesChecked ==
  ASSUME NEW p, ArePrices(p), ArePrices(snapshot.prices)
  PROVE  ArePrices(Checked(p)) /\ DOMAIN Checked(p) = DOMAIN p
<1>1. DOMAIN Checked(p) = DOMAIN p
  BY DEF Checked
<1>2. ASSUME NEW s \in DOMAIN p PROVE Checked(p)[s] \in Nat \ {0}
  BY <1>2 DEF Checked, ArePrices
<1>. QED
  BY <1>1, <1>2 DEF ArePrices, Checked

\* Whatever symbols the queries one by one find, they give prices.
LEMMA FallbackPrices == ASSUME NEW more \in Fallback PROVE ArePrices(more)
<1>1. CASE more = Nothing
  BY <1>1, NothingIsPrices
<1>2. CASE more # Nothing
  <2>1. PICK found \in SUBSET Symbols : more \in [found -> Details]
    BY <1>2 DEF Fallback
  <2>. QED
    BY <2>1, StocksAssumption DEF ArePrices
<1>. QED
  BY <1>1, <1>2

-----------------------------------------------------------------------------
(* The rows of a poll *)

\* The rows an append writes: one for each price, or for some.
LEMMA RowsAreRows ==
  ASSUME StockTyped, NEW written \in SUBSET DOMAIN poll.prices
  PROVE  /\ NewRows(written) \subseteq Rows /\ IsFiniteSet(NewRows(written))
         /\ \A r \in NewRows(written) : /\ r.symbol \in written /\ r.price = poll.prices[r.symbol]
                               /\ (r.free <=> r.symbol \in loose)
         /\ \A q, r \in NewRows(written) : q.symbol = r.symbol => q = r
<1> DEFINE row == [s \in written |-> RowOf(s)]
<1>1. DOMAIN poll.prices \subseteq Symbols /\ \A s \in DOMAIN poll.prices : poll.prices[s] \in Nat \ {0}
  BY DEF StockTyped, ArePrices
<1>2. \A s \in DOMAIN poll.prices : /\ RowOf(s) \in Rows /\ RowOf(s).symbol = s
                                    /\ RowOf(s).price = poll.prices[s] /\ RowOf(s).free = (s \in loose)
  BY <1>1 DEF RowOf, Rows, StockTyped
<1>3. IsFiniteSet(NewRows(written))
  <2>1. IsFiniteSet(written)
    BY <1>1, StocksAssumption, FS_Subset
  <2>2. row \in Surjection(written, NewRows(written))
    BY DEF Surjection, NewRows
  <2>. QED
    BY <2>1, <2>2, FS_Surjection
<1>4. ASSUME NEW r \in NewRows(written)
      PROVE  /\ r \in Rows /\ r.symbol \in written /\ r.price = poll.prices[r.symbol]
             /\ r = RowOf(r.symbol)
  BY <1>2 DEF NewRows
<1>5. ASSUME NEW r \in NewRows(written) PROVE r.free <=> r.symbol \in loose
  BY <1>2, <1>4
<1>. QED
  BY <1>3, <1>4, <1>5

\* They are appended in some order, each once.
LEMMA RowsInOrder ==
  ASSUME StockTyped, NEW written \in SUBSET DOMAIN poll.prices
  PROVE  LET q == SetToSeq(NewRows(written))
         IN /\ q \in Seq(NewRows(written)) /\ \A i, j \in DOMAIN q : q[i].symbol = q[j].symbol => i = j
            /\ \A r \in NewRows(written) : \E j \in DOMAIN q : q[j] = r
<1> DEFINE q == SetToSeq(NewRows(written))
           n == Cardinality(NewRows(written))
<1>1. IsFiniteSet(NewRows(written)) /\ n \in Nat /\ ExistsBijection(1 .. n, NewRows(written))
  BY RowsAreRows, FS_CardinalityType
<1>2. \E f \in [1 .. n -> NewRows(written)] : IsInjective(f)
  BY <1>1 DEF ExistsBijection, Bijection, Injection, IsInjective
<1>3. q \in [1 .. n -> NewRows(written)] /\ IsInjective(q)
  BY <1>2 DEF SetToSeq
<1>. HIDE DEF n, q
<1>4. q \in Seq(NewRows(written))
  BY <1>1, <1>3, SeqDef
<1>5. \A i, j \in DOMAIN q : q[i] \in NewRows(written) /\ q[j] \in NewRows(written) /\ (q[i] = q[j] => i = j)
  BY <1>3 DEF IsInjective
<1>6. \A i, j \in DOMAIN q : q[i].symbol = q[j].symbol => i = j
  BY <1>5, RowsAreRows
<1>7. \A r \in NewRows(written) : \E j \in DOMAIN q : q[j] = r
  <2>1. q \in Injection(1 .. n, NewRows(written))
    BY <1>3 DEF Injection, IsInjective
  <2>2. Cardinality(1 .. n) = n
    BY <1>1, FS_Interval
  <2>3. q \in Surjection(1 .. n, NewRows(written))
    BY <1>1, <2>1, <2>2, FS_Injection DEF n
  <2>. QED
    BY <1>3, <2>3 DEF Surjection
<1>. QED
  BY <1>4, <1>6, <1>7 DEF q

-----------------------------------------------------------------------------
(* Types *)

\* Alarms are for symbols of the table, and only rises and falls.
LEMMA RungKeys == ASSUME stockPrices \in Seq(Rows) PROVE Rung \subseteq Symbols \X {"rise", "fall"}
<1>1. \A r \in Range(stockPrices) : r.symbol \in Symbols
  <2>1. \A i \in DOMAIN stockPrices : stockPrices[i] \in Rows
    BY ElementOfSeq, LenProperties
  <2>. QED
    BY <2>1 DEF Range, Rows
<1>2. \A s : DetectVolatility(Series(s)) \in {"none", "rise", "fall"}
  BY DEF DetectVolatility
<1>. QED
  BY <1>1, <1>2 DEF Rung, Alarms

\* The loop starts with empty locals and the table that earlier runs left.
LEMMA StockTypedInit == StocksInit => StockTyped
<1>. SUFFICES ASSUME StocksInit PROVE StockTyped
  OBVIOUS
<1>1. stockPrices \in Seq(Rows) /\ now \in Nat
  BY StocksAssumption DEF StocksInit
<1>2. /\ DOMAIN poll = PollFields /\ DOMAIN snapshot = SnapshotFields
      /\ poll.prices = Nothing /\ snapshot.prices = Nothing /\ poll.holdings = Nothing /\ poll.due = {}
  BY DEF StocksInit, NoPoll, NoSnapshot, PollFields, SnapshotFields
<1>. QED
  BY <1>1, <1>2, NothingIsPrices DEF StockTyped, StocksInit, StockPcs, Resting

\* An empty poll, as the loop starts and leaves it.
LEMMA EmptyPoll ==
  ASSUME poll' = NoPoll
  PROVE  /\ DOMAIN poll' = PollFields /\ ArePrices(poll'.prices)
         /\ poll'.due \subseteq DOMAIN poll'.holdings /\ DOMAIN poll'.holdings \subseteq Symbols
<1>1. DOMAIN poll' = PollFields /\ poll'.prices = Nothing /\ poll'.due = {} /\ poll'.holdings = Nothing
  BY DEF NoPoll, PollFields
<1>. QED
  BY <1>1, NothingIsPrices

\* The rows of an append are rows.
LEMMA AppendedRows ==
  ASSUME StockTyped, NEW written \in SUBSET DOMAIN poll.prices,
         stockPrices' = stockPrices \o SetToSeq(NewRows(written))
  PROVE  stockPrices' \in Seq(Rows)
<1>1. SetToSeq(NewRows(written)) \in Seq(NewRows(written)) /\ NewRows(written) \subseteq Rows
  BY RowsInOrder, RowsAreRows
<1>2. SetToSeq(NewRows(written)) \in Seq(Rows)
  BY <1>1, SeqDef
<1>. QED
  BY <1>2, ConcatProperties DEF StockTyped

\* A chunk of a sleep.
LEMMA ChunkPasses ==
  ASSUME StockTyped, stockPc \in {"cooling", "nap"}, left' = left - 1, now' = now + 1
  PROVE  left' \in Nat /\ now' \in Nat
<1>1. left \in Nat /\ left > 0 /\ now \in Nat
  BY DEF StockTyped
<1>. QED
  BY <1>1

\* Every step of the loop keeps the types of its locals and tables.
LEMMA StockTypedStep == StockTyped /\ StockMove => StockTyped'
<1>. SUFFICES ASSUME StockTyped, StockMove PROVE StockTyped'
  OBVIOUS
<1>. USE DEF StockTyped, StockPcs, Resting, tables, signals, pollPast
<1>1. Interval \in Nat /\ Interval > 0 /\ Recovery \in Nat /\ Recovery > 0
  BY StocksAssumption
<1>2. CASE ForcePoll
  BY <1>2 DEF ForcePoll
<1>3. CASE Top
  <2>1. /\ stockForce' = FALSE
        /\ UNCHANGED <<now, snapshot, holdings, stockPrices, loose, notified, alarmed>>
    BY <1>3 DEF Top
  <2>2. \/ stockPc' = "cooling" /\ left' = Recovery /\ UNCHANGED poll
        \/ stockPc' = "list" /\ poll' = NoPoll /\ UNCHANGED left
    BY <1>3 DEF Top, StartPoll
  <2>3. stockPc = "top"
    BY <1>3 DEF Top
  <2>4. CASE stockPc' = "cooling" /\ left' = Recovery /\ UNCHANGED poll
    BY <1>1, <2>1, <2>3, <2>4
  <2>5. CASE stockPc' = "list" /\ poll' = NoPoll /\ UNCHANGED left
    BY <2>1, <2>5, EmptyPoll
  <2>. QED
    BY <2>2, <2>4, <2>5
<1>4. CASE CoolDown
  <2>1. left' \in Nat /\ now' \in Nat /\ left' = left - 1 /\ stockForce' \in BOOLEAN
    BY <1>4, ChunkPasses DEF CoolDown
  <2>2. CASE stockPc' = "list"
    <3>1. poll' = NoPoll
      BY <1>4, <2>2 DEF CoolDown, StartPoll
    <3>. QED
      BY <1>4, <2>1, <2>2, <3>1, EmptyPoll DEF CoolDown
  <2>3. CASE stockPc' # "list"
    <3>1. UNCHANGED <<stockPc, poll>> /\ left # 1
      BY <1>4, <2>3 DEF CoolDown, StartPoll
    <3>. QED
      BY <1>4, <2>1, <3>1 DEF CoolDown
  <2>. QED
    BY <2>2, <2>3
<1>5. CASE Nap
  BY <1>5 DEF Nap
<1>6. CASE AskList
  <2>1. PICK prices \in ListAnswers : poll' = [poll EXCEPT !.prices = prices]
    BY <1>6 DEF AskList
  <2>2. /\ DOMAIN poll' = PollFields /\ poll'.prices = prices
        /\ poll'.due = poll.due /\ poll'.holdings = poll.holdings
    BY <2>1 DEF PollFields
  <2>3. ArePrices(poll'.prices)
    BY <2>2, StocksAssumption
  <2>. QED
    BY <1>6, <2>2, <2>3 DEF AskList, Step, InPoll
<1>7. CASE AskPortfolio
  <2>1. CASE stockPc' = "tracked" /\ UNCHANGED <<poll, read>>
    BY <1>7, <2>1 DEF AskPortfolio, InPoll
  <2>2. CASE stockPc' # "tracked"
    <3>1. PICK held \in Portfolios :
            LET priced == {s \in DOMAIN held : held[s].price > 0}
                kept   == [s \in DOMAIN held |-> [shares |-> held[s].shares, cost |-> held[s].cost]]
            IN /\ stockPc' = "clear"
               /\ poll' = [poll EXCEPT !.prices = Over([s \in priced |-> held[s].price], poll.prices),
                                       !.holdings = kept, !.parsed = TRUE, !.due = DOMAIN held]
      BY <1>7, <2>2 DEF AskPortfolio
    <3> DEFINE priced == {s \in DOMAIN held : held[s].price > 0}
               quotes == [s \in priced |-> held[s].price]
    <3>2. /\ DOMAIN poll' = PollFields /\ poll'.prices = Over(quotes, poll.prices)
          /\ DOMAIN poll'.holdings = DOMAIN held /\ poll'.due = DOMAIN held
      BY <3>1 DEF PollFields
    <3>3. DOMAIN held \subseteq Symbols /\ \A s \in DOMAIN held : held[s].price \in Nat
      BY StocksAssumption
    <3>4. ArePrices(quotes)
      BY <3>3 DEF ArePrices
    <3>5. ArePrices(poll'.prices)
      BY <3>2, <3>4, PricesJoined
    <3>. QED
      BY <1>7, <3>1, <3>2, <3>3, <3>5 DEF AskPortfolio, InPoll
  <2>. QED
    BY <2>1, <2>2, <1>7 DEF AskPortfolio
<1>8. CASE ClearHoldings
  <2>1. DOMAIN holdings' = {}
    BY <1>8, NothingIsPrices DEF ClearHoldings
  <2>. QED
    BY <1>8, <2>1 DEF ClearHoldings, Step, InPoll
<1>9. CASE UpsertHolding
  <2>1. PICK s \in poll.due : /\ holdings' = Over([x \in {s} |-> poll.holdings[s]], holdings)
                              /\ poll' = [poll EXCEPT !.due = @ \ {s}]
    BY <1>9 DEF UpsertHolding
  <2>2. DOMAIN holdings' \subseteq Symbols
    BY <2>1 DEF Over
  <2>3. /\ DOMAIN poll' = PollFields /\ poll'.prices = poll.prices /\ poll'.due = poll.due \ {s}
        /\ poll'.holdings = poll.holdings
    BY <2>1 DEF PollFields
  <2>. QED
    BY <1>9, <2>2, <2>3 DEF UpsertHolding, InPoll
<1>10. CASE ReadShorts
  <2>1. PICK shorts \in ShortAnswers :
          poll' = [poll EXCEPT !.prices = Over(poll.prices, shorts), !.whole = TRUE]
    BY <1>10 DEF ReadShorts
  <2>2. /\ DOMAIN poll' = PollFields /\ poll'.prices = Over(poll.prices, shorts)
        /\ poll'.due = poll.due /\ poll'.holdings = poll.holdings
    BY <2>1 DEF PollFields
  <2>3. ArePrices(poll'.prices)
    BY <2>2, StocksAssumption, PricesJoined
  <2>. QED
    BY <1>10, <2>2, <2>3 DEF ReadShorts, Step, InPoll
<1>11. CASE AskTracked
  <2>1. PICK more \in Fallback : poll' = [poll EXCEPT !.prices = Checked(Over(more, poll.prices))]
    BY <1>11 DEF AskTracked
  <2>2. /\ DOMAIN poll' = PollFields /\ poll'.prices = Checked(Over(more, poll.prices))
        /\ poll'.due = poll.due /\ poll'.holdings = poll.holdings
    BY <2>1 DEF PollFields
  <2>3. ArePrices(poll'.prices)
    BY <2>2, FallbackPrices, PricesJoined, PricesChecked
  <2>. QED
    BY <1>11, <2>2, <2>3 DEF AskTracked, Step, InPoll
<1>12. CASE AppendPrices
  <2>1. stockPrices' \in Seq(Rows)
    BY <1>12, AppendedRows DEF AppendPrices
  <2>. QED
    BY <1>12, <2>1 DEF AppendPrices, InPoll
<1>13. CASE Analyse
  <2>1. DOMAIN notified' \subseteq Symbols \X {"buy", "sell"}
    <3>1. DOMAIN notified' \subseteq (DOMAIN poll.prices) \X {"buy", "sell"}
      BY <1>13 DEF Analyse, Remembered, Strong
    <3>. QED
      BY <3>1 DEF ArePrices
  <2>2. DOMAIN alarmed' \subseteq Symbols \X {"rise", "fall"}
    BY <1>13, RungKeys DEF Analyse, Over
  <2>. QED
    BY <1>13, <2>1, <2>2 DEF Analyse, Step, InPoll
<1>14. CASE RaisePoll
  <2>1. /\ DOMAIN poll' = PollFields /\ poll'.prices = poll.prices
        /\ poll'.due = poll.due /\ poll'.holdings = poll.holdings
    BY <1>14 DEF RaisePoll, PollFields
  <2>2. stockPrices' \in Seq(Rows)
    <3>1. CASE stockPrices' = stockPrices
      BY <3>1
    <3>2. CASE stockPrices' # stockPrices
      <4>1. PICK written \in SUBSET DOMAIN poll.prices : stockPrices' = stockPrices \o SetToSeq(NewRows(written))
        BY <1>14, <3>2 DEF RaisePoll
      <4>. QED BY <4>1, AppendedRows
    <3>. QED BY <3>1, <3>2
  <2>. QED
    BY <1>14, <2>1, <2>2 DEF RaisePoll
<1>15. CASE LeaveChannel
  BY <1>15 DEF LeaveChannel, Step, InPoll
<1>16. CASE StoreSnapshot
  <2>1. snapshot' = snapshot \/ (DOMAIN snapshot' = SnapshotFields /\ snapshot'.prices = poll.prices)
    BY <1>16 DEF StoreSnapshot, SnapshotFields
  <2>2. DOMAIN snapshot' = SnapshotFields /\ ArePrices(snapshot'.prices)
    BY <2>1
  <2>3. loose' \subseteq Symbols
    BY <1>16 DEF StoreSnapshot
  <2>. QED
    BY <1>1, <1>16, <2>2, <2>3, EmptyPoll DEF StoreSnapshot, Step
<1>17. CASE RestartStocks
  <2>1. DOMAIN snapshot' = SnapshotFields /\ snapshot'.prices = Nothing
    BY <1>17 DEF RestartStocks, NoSnapshot, SnapshotFields
  <2>. QED
    BY <1>17, <2>1, EmptyPoll, NothingIsPrices DEF RestartStocks
<1>18. CASE UNCHANGED stockVars
  BY <1>18 DEF stockVars
<1>. QED
  BY <1>2, <1>3, <1>4, <1>5, <1>6, <1>7, <1>8, <1>9, <1>10, <1>11, <1>12, <1>13, <1>14, <1>15, <1>16,
     <1>17, <1>18 DEF StockMove, StocksNext, PollStep

-----------------------------------------------------------------------------
(* The table of holdings *)

\* At the start the table of holdings is empty and nothing was read.
LEMMA HoldingsInit == StocksInit => HoldingsInv
<1>. SUFFICES ASSUME StocksInit PROVE HoldingsInv
  OBVIOUS
<1>1. ~poll.whole /\ ~snapshot.whole
  BY DEF StocksInit, NoPoll, NoSnapshot
<1>2. Nothing = Cut(Nothing, {})
  BY DEF Nothing, Cut
<1>. QED
  BY <1>1, <1>2 DEF HoldingsInv, StocksInit

\* One holding, as it is written.
Entry(f, s) == [x \in {s} |-> f[s]]

\* The rest of a portfolio is written one holding at a time.
LEMMA HoldingWritten ==
  ASSUME NEW f, NEW d, NEW s \in d, d \subseteq DOMAIN f
  PROVE  Over(Entry(f, s), Cut(f, d)) = Cut(f, d \ {s})
<1>1. {s} \cup (DOMAIN f \ d) = DOMAIN f \ (d \ {s})
  OBVIOUS
<1>. QED
  BY <1>1 DEF Over, Cut, Entry

\* A step that leaves the holdings, what was read and the locals of the poll alone.
LEMMA HoldingsKept ==
  ASSUME HoldingsInv, UNCHANGED <<holdings, read, torn, snapshot>>,
         poll'.holdings = poll.holdings, poll'.parsed = poll.parsed, poll'.whole = poll.whole,
         stockPc \notin {"clear", "write"}, stockPc' \notin {"clear", "write"}
  PROVE  HoldingsInv'
BY DEF HoldingsInv, Cut

\* Every step keeps the table in pace with the portfolio read last.
LEMMA HoldingsStep == StockTyped /\ HoldingsInv /\ StockMove => HoldingsInv'
<1>. SUFFICES ASSUME StockTyped, HoldingsInv, StockMove PROVE HoldingsInv'
  OBVIOUS
<1>1. DOMAIN poll = PollFields
  BY DEF StockTyped
<1>2. ASSUME poll' = NoPoll, stockPc \in Resting
      PROVE  poll'.holdings = poll.holdings /\ poll'.parsed = poll.parsed /\ poll'.whole = poll.whole
  BY <1>2 DEF StockTyped
<1>3. CASE Top \/ CoolDown \/ Nap
  <2>1. /\ stockPc \in Resting /\ stockPc' \notin {"clear", "write"} /\ stockPc \notin {"clear", "write"}
        /\ UNCHANGED <<holdings, read, torn, snapshot>>
    BY <1>3 DEF Top, CoolDown, Nap, StartPoll, Resting, tables, pollPast
  <2>2. poll' = poll \/ poll' = NoPoll
    BY <1>3 DEF Top, CoolDown, Nap, StartPoll
  <2>. QED
    BY <1>2, <2>1, <2>2, HoldingsKept
<1>4. CASE AskList \/ AskTracked
  <2>1. \E p : poll' = [poll EXCEPT !.prices = p]
    BY <1>4 DEF AskList, AskTracked
  <2>2. poll'.holdings = poll.holdings /\ poll'.parsed = poll.parsed /\ poll'.whole = poll.whole
    BY <1>1, <2>1 DEF PollFields
  <2>. QED
    BY <1>4, <2>2, HoldingsKept DEF AskList, AskTracked, Step, InPoll, tables, pollPast
<1>5. CASE AppendPrices \/ Analyse \/ LeaveChannel \/ ForcePoll
  <2>1. UNCHANGED <<holdings, read, torn, snapshot, poll>>
    BY <1>5 DEF AppendPrices, Analyse, LeaveChannel, ForcePoll, InPoll, tables, pollPast
  <2>2. CASE ForcePoll
    <3>1. stockPc' = stockPc
      BY <2>2 DEF ForcePoll
    <3>. QED
      BY <2>1, <3>1 DEF HoldingsInv, Cut
  <2>3. CASE AppendPrices \/ Analyse \/ LeaveChannel
    <3>1. stockPc \notin {"clear", "write"} /\ stockPc' \notin {"clear", "write"}
      BY <2>3 DEF AppendPrices, Analyse, LeaveChannel, Step
    <3>. QED
      BY <2>1, <3>1, HoldingsKept
  <2>. QED
    BY <1>5, <2>2, <2>3
<1>6. CASE AskPortfolio
  <2>1. CASE stockPc' = "tracked" /\ UNCHANGED <<poll, read>>
    BY <1>6, <2>1, HoldingsKept DEF AskPortfolio, InPoll, tables
  <2>2. CASE ~(stockPc' = "tracked" /\ UNCHANGED <<poll, read>>)
    <3>1. PICK held \in Portfolios :
            LET priced == {s \in DOMAIN held : held[s].price > 0}
                kept   == [s \in DOMAIN held |-> [shares |-> held[s].shares, cost |-> held[s].cost]]
            IN /\ stockPc' = "clear" /\ read' = kept
               /\ poll' = [poll EXCEPT !.prices = Over([s \in priced |-> held[s].price], poll.prices),
                                       !.holdings = kept, !.parsed = TRUE, !.due = DOMAIN held]
      BY <1>6, <2>2 DEF AskPortfolio
    <3> DEFINE kept == [s \in DOMAIN held |-> [shares |-> held[s].shares, cost |-> held[s].cost]]
    <3>2. /\ read' = kept /\ stockPc' = "clear" /\ DOMAIN kept = DOMAIN held
          /\ poll'.holdings = kept /\ poll'.parsed /\ poll'.due = DOMAIN held
      BY <1>1, <3>1 DEF PollFields
    <3>3. kept = Cut(kept, {})
      BY DEF Cut
    <3>. HIDE DEF kept
    <3>. QED
      BY <3>2, <3>3 DEF HoldingsInv, Cut
  <2>. QED
    BY <2>1, <2>2
<1>7. CASE ClearHoldings
  <2>1. holdings' = Cut(read, DOMAIN read)
    BY <1>7 DEF ClearHoldings, Nothing, Cut
  <2>2. stockPc = "clear" /\ stockPc' = "write" /\ UNCHANGED <<poll, read, snapshot>>
    BY <1>7 DEF ClearHoldings, Step, InPoll
  <2>. QED
    BY <2>1, <2>2 DEF HoldingsInv, Cut
<1>8. CASE UpsertHolding
  <2>1. PICK s \in poll.due : /\ holdings' = Over([x \in {s} |-> poll.holdings[s]], holdings)
                              /\ poll' = [poll EXCEPT !.due = @ \ {s}]
    BY <1>8 DEF UpsertHolding
  <2>2. /\ poll'.holdings = poll.holdings /\ poll'.parsed = poll.parsed /\ poll'.whole = poll.whole
        /\ poll'.due = poll.due \ {s}
    BY <1>1, <2>1 DEF PollFields
  <2>3. stockPc = "write" /\ stockPc' = "write" /\ UNCHANGED <<read, snapshot>>
    BY <1>8 DEF UpsertHolding, InPoll, pollPast
  <2>4. poll.holdings = read /\ poll.due \subseteq DOMAIN read /\ holdings = Cut(read, poll.due)
    BY <2>3 DEF HoldingsInv
  <2>5. holdings' = Cut(read, poll.due \ {s})
    <3>1. Over(Entry(read, s), Cut(read, poll.due)) = Cut(read, poll.due \ {s})
      BY <2>4, HoldingWritten
    <3>. QED
      BY <2>1, <2>4, <3>1 DEF Entry
  <2>. QED
    BY <2>2, <2>3, <2>4, <2>5 DEF HoldingsInv, Cut
<1>9. CASE ReadShorts
  <2>1. \E p : poll' = [poll EXCEPT !.prices = p, !.whole = TRUE]
    BY <1>9 DEF ReadShorts
  <2>2. poll'.holdings = poll.holdings /\ poll'.parsed = poll.parsed
    BY <1>1, <2>1 DEF PollFields
  <2>3. /\ stockPc = "write" /\ stockPc' = "tracked" /\ poll.due = {}
        /\ UNCHANGED <<holdings, read, torn, snapshot>>
    BY <1>9 DEF ReadShorts, Step, InPoll, tables, pollPast
  <2>4. holdings = Cut(read, {}) /\ read = Cut(read, {}) /\ poll.holdings = read /\ poll.parsed
    BY <2>3 DEF HoldingsInv
  <2>. HIDE DEF Cut
  <2>. QED
    BY <2>2, <2>3, <2>4 DEF HoldingsInv
<1>10. CASE RaisePoll
  <2>1. /\ poll'.holdings = poll.holdings /\ poll'.parsed = poll.parsed /\ poll'.whole = poll.whole
    BY <1>1, <1>10 DEF RaisePoll, PollFields
  <2>2. /\ stockPc' = "leave" /\ UNCHANGED <<holdings, read, snapshot>>
        /\ torn' = (torn \/ stockPc = "clear" \/ (stockPc = "write" /\ poll.due # {}))
    BY <1>10 DEF RaisePoll
  <2>3. ~torn' => holdings = read
    BY <2>2 DEF HoldingsInv
  <2>4. read = Cut(read, {}) /\ (poll.whole => poll.holdings = read)
        /\ (~poll.parsed /\ snapshot.whole => snapshot.holdings = read)
    BY DEF HoldingsInv
  <2>. QED
    BY <2>1, <2>2, <2>3, <2>4 DEF HoldingsInv, Cut
<1>11. CASE StoreSnapshot
  <2>1. /\ stockPc = "store" /\ stockPc' = "nap" /\ UNCHANGED <<holdings, read, torn>>
        /\ poll' = NoPoll /\ ~poll'.whole
    BY <1>11 DEF StoreSnapshot, Step, tables, NoPoll
  <2>2. snapshot'.whole => snapshot'.holdings = read
    <3>1. CASE poll.parsed \/ poll.prices # Nothing
      <4>1. snapshot'.whole = poll.whole /\ snapshot'.holdings = poll.holdings
        BY <1>11, <3>1 DEF StoreSnapshot
      <4>. QED
        BY <4>1 DEF HoldingsInv
    <3>2. CASE ~(poll.parsed \/ poll.prices # Nothing)
      <4>1. snapshot' = snapshot
        BY <1>11, <3>2 DEF StoreSnapshot
      <4>. QED
        BY <3>2, <4>1 DEF HoldingsInv
    <3>. QED
      BY <3>1, <3>2
  <2>. QED
    BY <2>1, <2>2 DEF HoldingsInv, Cut
<1>12. CASE RestartStocks
  <2>1. /\ stockPc' = "top" /\ UNCHANGED <<holdings, read>> /\ ~poll'.whole /\ ~snapshot'.whole
        /\ torn' = (torn \/ stockPc = "clear" \/ (stockPc = "write" /\ poll.due # {}))
    BY <1>12 DEF RestartStocks, tables, NoPoll, NoSnapshot
  <2>2. ~torn' => holdings = read
    BY <2>1 DEF HoldingsInv
  <2>3. read = Cut(read, {})
    BY DEF HoldingsInv
  <2>. QED
    BY <2>1, <2>2, <2>3 DEF HoldingsInv, Cut
<1>13. CASE UNCHANGED stockVars
  BY <1>13 DEF stockVars, tables, pollPast, HoldingsInv, Cut
<1>. QED
  BY <1>3, <1>4, <1>5, <1>6, <1>7, <1>8, <1>9, <1>10, <1>11, <1>12, <1>13
     DEF StockMove, StocksNext, PollStep

-----------------------------------------------------------------------------
(* The prices *)

\* Being far apart is mutual, and no price is far from itself.
LEMMA FartherBothWays ==
  ASSUME NEW a \in Nat, NEW b \in Nat
  PROVE  (Farther(a, b) <=> Farther(b, a)) /\ ~Farther(a, a)
<1>1. a < b \/ b < a \/ a = b
  OBVIOUS
<1>. QED
  BY <1>1 DEF Farther, Greater, Lesser

\* The table u is t with the rows q behind it, and as believable.
Grown(t, q, u) ==
  /\ Believable(u)
  /\ \A j \in DOMAIN q : \E i \in DOMAIN u : u[i] = q[j] /\ IsLast(u, i)
  /\ \A i \in DOMAIN t :
       IsLast(t, i) /\ (\A j \in DOMAIN q : q[j].symbol # t[i].symbol)
         => i \in DOMAIN u /\ u[i] = t[i] /\ IsLast(u, i)

(***************************************************************************)
(* Rows of different symbols are appended to a believable table, each      *)
(* free or near the last row of its symbol: the table stays believable,    *)
(* the new rows are the last ones of their symbols, and the last ones of   *)
(* other symbols remain so.                                                *)
(***************************************************************************)
LEMMA TableGrown ==
  ASSUME NEW t \in Seq(Rows), NEW q \in Seq(Rows), Believable(t),
         \A i, j \in DOMAIN q : q[i].symbol = q[j].symbol => i = j,
         \A j \in DOMAIN q : ~q[j].free =>
           \E i \in DOMAIN t : /\ t[i].symbol = q[j].symbol /\ IsLast(t, i)
                               /\ ~Farther(t[i].price, q[j].price)
  PROVE  Grown(t, q, t \o q)
<1> DEFINE u == t \o q
           n == Len(t)
           m == Len(q)
<1>1. /\ n \in Nat /\ m \in Nat /\ DOMAIN t = 1 .. n /\ DOMAIN q = 1 .. m
      /\ u \in Seq(Rows) /\ Len(u) = n + m /\ DOMAIN u = 1 .. n + m
      /\ \A i \in 1 .. n + m : u[i] = IF i <= n THEN t[i] ELSE q[i - n]
  BY ConcatProperties, LenProperties
<1>. HIDE DEF u, n, m
<1>2. /\ \A i \in 1 .. n : i \in DOMAIN u /\ u[i] = t[i]
      /\ \A j \in 1 .. m : n + j \in DOMAIN u /\ u[n + j] = q[j]
      /\ \A i \in DOMAIN u : i \in 1 .. n \/ (i - n \in 1 .. m /\ u[i] = q[i - n] /\ i > n)
  BY <1>1
<1>3. Believable(u)
  <2>. SUFFICES ASSUME NEW i \in DOMAIN u, NEW j \in DOMAIN u, Follows(u, i, j), ~u[j].free
                PROVE  ~Farther(u[i].price, u[j].price)
    BY DEF Believable
  <2>1. i \in Nat /\ j \in Nat /\ i < j
    BY <1>1 DEF Follows
  <2>2. CASE j \in 1 .. n
    <3>1. i \in 1 .. n /\ \A k \in i + 1 .. j - 1 : k \in 1 .. n
      BY <1>1, <2>1, <2>2
    <3>2. Follows(t, i, j)
      BY <1>2, <2>2, <3>1 DEF Follows
    <3>. QED
      BY <1>1, <1>2, <2>2, <3>1, <3>2 DEF Believable
  <2>3. CASE j \notin 1 .. n
    <3>1. j - n \in 1 .. m /\ u[j] = q[j - n] /\ j > n
      BY <1>2, <2>3
    <3>2. i \in 1 .. n
      <4>. SUFFICES ASSUME i \notin 1 .. n PROVE FALSE
        OBVIOUS
      <4>1. i - n \in 1 .. m /\ u[i] = q[i - n]
        BY <1>2
      <4>2. q[i - n].symbol = q[j - n].symbol
        BY <3>1, <4>1 DEF Follows
      <4>3. i - n = j - n
        BY <1>1, <3>1, <4>1, <4>2
      <4>. QED
        BY <1>1, <2>1, <4>3
    <3>3. PICK l \in DOMAIN t : /\ t[l].symbol = q[j - n].symbol /\ IsLast(t, l)
                                /\ ~Farther(t[l].price, q[j - n].price)
      BY <1>1, <3>1
    <3>4. l \in 1 .. n /\ u[l] = t[l] /\ u[i] = t[i]
      BY <1>1, <1>2, <3>2
    <3>5. t[i].symbol = q[j - n].symbol
      BY <3>1, <3>4 DEF Follows
    <3>6. ~(l > i)
      <4>1. l > i => l \in i + 1 .. j - 1
        BY <1>1, <2>1, <3>1, <3>4
      <4>. QED
        BY <3>1, <3>3, <3>4, <4>1 DEF Follows
    <3>7. ~(i > l)
      BY <1>1, <3>2, <3>3, <3>5 DEF IsLast
    <3>8. i = l
      BY <1>1, <2>1, <3>4, <3>6, <3>7
    <3>. QED
      BY <3>1, <3>3, <3>4, <3>8
  <2>. QED
    BY <2>2, <2>3
<1>4. ASSUME NEW j \in DOMAIN q PROVE \E i \in DOMAIN u : u[i] = q[j] /\ IsLast(u, i)
  <2>1. j \in 1 .. m /\ n + j \in DOMAIN u /\ u[n + j] = q[j]
    BY <1>1, <1>2
  <2>2. ASSUME NEW k \in DOMAIN u, k > n + j PROVE u[k].symbol # u[n + j].symbol
    <3>1. k - n \in 1 .. m /\ u[k] = q[k - n] /\ k - n # j
      BY <1>1, <1>2, <2>1, <2>2
    <3>. QED
      BY <1>1, <2>1, <3>1
  <2>. QED
    BY <2>1, <2>2 DEF IsLast
<1>5. ASSUME NEW i \in DOMAIN t, IsLast(t, i), \A j \in DOMAIN q : q[j].symbol # t[i].symbol
      PROVE  i \in DOMAIN u /\ u[i] = t[i] /\ IsLast(u, i)
  <2>1. i \in DOMAIN u /\ u[i] = t[i]
    BY <1>1, <1>2
  <2>2. ASSUME NEW k \in DOMAIN u, k > i PROVE u[k].symbol # u[i].symbol
    <3>1. CASE k \in 1 .. n
      BY <1>1, <1>2, <1>5, <2>1, <2>2, <3>1 DEF IsLast
    <3>2. CASE k \notin 1 .. n
      BY <1>1, <1>2, <1>5, <2>1, <3>2
    <3>. QED
      BY <3>1, <3>2
  <2>. QED
    BY <2>1, <2>2 DEF IsLast
<1>. QED
  BY <1>1, <1>3, <1>4, <1>5 DEF u, Grown

\* At the start no symbol has anything to be measured by.
LEMMA PricesInit == StocksInit => PricesInv
BY StocksAssumption DEF StocksInit, PricesInv

\* A step that leaves the table and what its last rows are compared with.
LEMMA PricesKept ==
  ASSUME PricesInv, UNCHANGED <<stockPrices, loose, snapshot>>, stockPc' # "append",
         \/ ~Written /\ ~Written'
         \/ (Written <=> Written') /\ poll'.prices = poll.prices
         \/ DOMAIN poll.prices = {} /\ DOMAIN poll'.prices = {}
  PROVE  PricesInv'
<1>1. \A s, p : LastPrice(s, p)' <=> LastPrice(s, p)
  BY DEF LastPrice, IsLast
<1>2. Believable(stockPrices)'
  BY DEF PricesInv, Believable, Follows
<1>. QED
  BY <1>1, <1>2 DEF PricesInv, Measured

\* What passes the check is not far from the snapshot.
LEMMA CheckPasses ==
  ASSUME NEW p, ArePrices(p), ArePrices(snapshot.prices),
         NEW s \in DOMAIN p \cap DOMAIN snapshot.prices
  PROVE  ~Farther(Checked(p)[s], snapshot.prices[s])
<1>1. snapshot.prices[s] \in Nat /\ p[s] \in Nat
  BY DEF ArePrices
<1>2. Checked(p)[s] = IF Farther(p[s], snapshot.prices[s]) THEN snapshot.prices[s] ELSE p[s]
  BY DEF Checked
<1>. QED
  BY <1>1, <1>2, FartherBothWays

\* What is written of an append keeps the table believable, and its rows are the last ones of their symbols.
LEMMA PricesAppended ==
  ASSUME StockTyped, PricesInv, stockPc = "append", NEW written \in SUBSET DOMAIN poll.prices,
         stockPrices' = stockPrices \o SetToSeq(NewRows(written))
  PROVE  /\ Believable(stockPrices')
         /\ \A s \in written : \E i \in DOMAIN stockPrices' :
              /\ stockPrices'[i].symbol = s /\ stockPrices'[i].price = poll.prices[s]
              /\ IsLast(stockPrices', i)
         /\ \A s \in Symbols \ written, i \in DOMAIN stockPrices :
              stockPrices[i].symbol = s /\ IsLast(stockPrices, i)
                => i \in DOMAIN stockPrices' /\ stockPrices'[i] = stockPrices[i] /\ IsLast(stockPrices', i)
<1> DEFINE q == SetToSeq(NewRows(written))
<1>1. stockPrices' = stockPrices \o q /\ stockPc = "append"
  OBVIOUS
<1>2. /\ q \in Seq(NewRows(written)) /\ NewRows(written) \subseteq Rows
      /\ \A i, j \in DOMAIN q : q[i].symbol = q[j].symbol => i = j
  BY RowsInOrder, RowsAreRows
<1>3. q \in Seq(Rows) /\ stockPrices \in Seq(Rows) /\ \A j \in DOMAIN q : q[j] \in NewRows(written)
  BY <1>2, SeqDef, ElementOfSeq, LenProperties DEF StockTyped
<1>4. \A s \in written : \E j \in DOMAIN q : q[j].symbol = s /\ q[j].price = poll.prices[s]
  <2>1. \A r \in NewRows(written) : \E j \in DOMAIN q : q[j] = r
    BY RowsInOrder
  <2>2. ASSUME NEW s \in written
        PROVE  RowOf(s) \in NewRows(written) /\ RowOf(s).symbol = s /\ RowOf(s).price = poll.prices[s]
    BY DEF NewRows, RowOf
  <2>. QED
    BY <2>1, <2>2
<1>5. \A j \in DOMAIN q : /\ q[j].symbol \in written /\ q[j].price = poll.prices[q[j].symbol]
                          /\ (q[j].free <=> q[j].symbol \in loose)
  BY <1>3, RowsAreRows
<1>. HIDE DEF q
<1>6. ASSUME NEW j \in DOMAIN q, ~q[j].free
      PROVE  \E i \in DOMAIN stockPrices :
               /\ stockPrices[i].symbol = q[j].symbol /\ IsLast(stockPrices, i)
               /\ ~Farther(stockPrices[i].price, q[j].price)
  <2> DEFINE s == q[j].symbol
  <2>1. s \in DOMAIN poll.prices /\ s \in Symbols \ loose /\ q[j].price = poll.prices[s]
    BY <1>5, <1>6 DEF StockTyped, ArePrices
  <2>2. s \in DOMAIN snapshot.prices /\ LastPrice(s, snapshot.prices[s])
    BY <1>1, <2>1 DEF PricesInv, Measured, Written
  <2>3. ~Farther(poll.prices[s], snapshot.prices[s])
    BY <1>1, <2>1, <2>2 DEF PricesInv, PollChecked
  <2>4. poll.prices[s] \in Nat /\ snapshot.prices[s] \in Nat
    BY <2>1, <2>2 DEF StockTyped, ArePrices
  <2>5. ~Farther(snapshot.prices[s], poll.prices[s])
    BY <2>3, <2>4, FartherBothWays
  <2>. QED
    BY <2>1, <2>2, <2>5 DEF LastPrice
<1>7. /\ Believable(stockPrices')
      /\ \A j \in DOMAIN q : \E i \in DOMAIN stockPrices' : stockPrices'[i] = q[j] /\ IsLast(stockPrices', i)
      /\ \A i \in DOMAIN stockPrices :
           IsLast(stockPrices, i) /\ (\A j \in DOMAIN q : q[j].symbol # stockPrices[i].symbol)
             => i \in DOMAIN stockPrices' /\ stockPrices'[i] = stockPrices[i] /\ IsLast(stockPrices', i)
  <2>1. Believable(stockPrices)
    BY DEF PricesInv
  <2>2. Grown(stockPrices, q, stockPrices \o q)
    BY <1>2, <1>3, <1>6, <2>1, TableGrown
  <2>. QED
    BY <1>1, <2>2 DEF Grown
<1>8. ASSUME NEW s \in written
      PROVE  \E i \in DOMAIN stockPrices' :
               /\ stockPrices'[i].symbol = s /\ stockPrices'[i].price = poll.prices[s]
               /\ IsLast(stockPrices', i)
  BY <1>4, <1>7
<1>9. ASSUME NEW s \in Symbols \ written, NEW i \in DOMAIN stockPrices,
             stockPrices[i].symbol = s, IsLast(stockPrices, i)
      PROVE  i \in DOMAIN stockPrices' /\ stockPrices'[i] = stockPrices[i] /\ IsLast(stockPrices', i)
  BY <1>5, <1>7, <1>9
<1>. QED
  BY <1>7, <1>8, <1>9

\* Every step keeps the table believable, and what prices are measured by in it.
LEMMA PricesStep == StockTyped /\ PricesInv /\ StockMove => PricesInv'
<1>. SUFFICES ASSUME StockTyped, PricesInv, StockMove PROVE PricesInv'
  OBVIOUS
<1>1. DOMAIN poll = PollFields /\ ArePrices(poll.prices) /\ ArePrices(snapshot.prices)
  BY DEF StockTyped
<1>2. CASE Top \/ CoolDown \/ Nap \/ AskList \/ AskPortfolio \/ ClearHoldings \/ UpsertHolding \/ ReadShorts
  <2>1. UNCHANGED <<stockPrices, loose, snapshot>>
    BY <1>2 DEF Top, CoolDown, Nap, AskList, AskPortfolio, ClearHoldings, UpsertHolding, ReadShorts,
                InPoll, tables, pollPast
  <2>2. ~Written /\ ~Written' /\ stockPc' # "append"
    BY <1>2 DEF Top, CoolDown, Nap, AskList, AskPortfolio, ClearHoldings, UpsertHolding, ReadShorts,
                StartPoll, Step, Written
  <2>. QED
    BY <2>1, <2>2, PricesKept
<1>3. CASE Analyse \/ LeaveChannel
  BY <1>3, PricesKept DEF Analyse, LeaveChannel, Step, InPoll, tables, pollPast, Written
<1>4. CASE ForcePoll \/ UNCHANGED stockVars
  <2>1. UNCHANGED <<stockPrices, loose, snapshot, stockPc, poll>>
    BY <1>4 DEF ForcePoll, stockVars, tables, pollPast
  <2>. QED
    BY <2>1 DEF PricesInv, Measured, Written, LastPrice, IsLast, PollChecked, Believable, Follows
<1>5. CASE AskTracked
  <2>1. PICK more \in Fallback : poll' = [poll EXCEPT !.prices = Checked(Over(more, poll.prices))]
    BY <1>5 DEF AskTracked
  <2> DEFINE found == Over(more, poll.prices)
  <2>2. poll'.prices = Checked(found)
    BY <1>1, <2>1 DEF PollFields
  <2>3. ArePrices(found)
    BY <1>1, FallbackPrices, PricesJoined
  <2>4. DOMAIN Checked(found) = DOMAIN found
    BY DEF Checked
  <2>5. UNCHANGED <<stockPrices, loose, snapshot>> /\ ~Written /\ ~Written' /\ stockPc' = "append"
    BY <1>5 DEF AskTracked, Step, InPoll, tables, pollPast, Written
  <2>. HIDE DEF found
  <2>6. PollChecked'
    BY <1>1, <2>2, <2>3, <2>4, <2>5, CheckPasses DEF PollChecked
  <2>7. Believable(stockPrices)' /\ \A s \in Symbols \ loose' : Measured(s)'
    BY <2>5 DEF PricesInv, Measured, LastPrice, IsLast, Believable, Follows
  <2>. QED
    BY <2>6, <2>7 DEF PricesInv
<1>6. CASE AppendPrices
  <2>1. /\ stockPc = "append" /\ UNCHANGED <<poll, snapshot>> /\ loose' = loose \ DOMAIN poll.prices
        /\ stockPc' \in {"leave", "analyse"}
        /\ stockPrices' = stockPrices \o SetToSeq(NewRows(DOMAIN poll.prices))
    BY <1>6 DEF AppendPrices, InPoll
  <2>2. ASSUME NEW s \in Symbols \ loose' PROVE Measured(s)'
    <3>1. CASE s \in DOMAIN poll.prices
      <4>1. LastPrice(s, poll.prices[s])'
        BY <2>1, <3>1, PricesAppended DEF LastPrice
      <4>. QED
        BY <2>1, <3>1, <4>1 DEF Measured, Written, LastPrice
    <3>2. CASE s \notin DOMAIN poll.prices
      <4>1. s \in DOMAIN snapshot.prices /\ LastPrice(s, snapshot.prices[s])
        BY <2>1, <2>2, <3>2 DEF PricesInv, Measured
      <4>2. LastPrice(s, snapshot.prices[s])'
        BY <2>1, <3>2, <4>1, PricesAppended DEF LastPrice
      <4>. QED
        BY <2>1, <3>2, <4>1, <4>2 DEF Measured, Written
    <3>. QED
      BY <3>1, <3>2
  <2>3. Believable(stockPrices)'
    BY <2>1, PricesAppended
  <2>. QED
    BY <2>1, <2>2, <2>3 DEF PricesInv
<1>7. CASE RaisePoll
  <2>1. /\ poll'.prices = poll.prices /\ UNCHANGED snapshot /\ stockPc' = "leave"
        /\ loose' = IF stockPc = "analyse" \/ (~poll.parsed /\ poll.prices = Nothing) THEN loose ELSE Symbols
    BY <1>1, <1>7 DEF RaisePoll, PollFields
  <2>2. CASE stockPc = "analyse" \/ (~poll.parsed /\ poll.prices = Nothing)
    <3>1. UNCHANGED stockPrices
      BY <1>7, <2>2 DEF RaisePoll
    <3>. QED BY <2>1, <2>2, <3>1, PricesKept, NothingIsPrices DEF Written
  <2>3. CASE ~(stockPc = "analyse" \/ (~poll.parsed /\ poll.prices = Nothing))
    <3>1. Believable(stockPrices)'
      <4>1. CASE stockPrices' = stockPrices
        BY <4>1 DEF PricesInv, Believable, Follows
      <4>2. CASE stockPrices' # stockPrices
        <5>1. PICK written \in SUBSET DOMAIN poll.prices :
                stockPrices' = stockPrices \o SetToSeq(NewRows(written))
          BY <1>7, <4>2 DEF RaisePoll
        <5>2. stockPc = "append"
          BY <1>7, <4>2 DEF RaisePoll
        <5>. QED BY <5>1, <5>2, PricesAppended
      <4>. QED BY <4>1, <4>2
    <3>. QED BY <2>1, <2>3, <3>1 DEF PricesInv
  <2>. QED
    BY <2>2, <2>3
<1>8. CASE StoreSnapshot
  <2>1. stockPc = "store" /\ stockPc' = "nap" /\ UNCHANGED stockPrices /\ poll' = NoPoll
    BY <1>8 DEF StoreSnapshot, Step, tables
  <2>2. CASE poll.parsed \/ poll.prices # Nothing
    <3>1. snapshot'.prices = poll.prices /\ loose' = loose \cup (Symbols \ DOMAIN poll.prices)
      BY <1>8, <2>2 DEF StoreSnapshot
    <3>2. ASSUME NEW s \in Symbols \ loose' PROVE Measured(s)'
      <4>1. s \in DOMAIN poll.prices /\ LastPrice(s, poll.prices[s])
        BY <2>1, <3>1 DEF PricesInv, Measured, Written
      <4>. QED
        BY <2>1, <3>1, <4>1 DEF Measured, Written, LastPrice, IsLast
    <3>. QED
      BY <2>1, <3>2 DEF PricesInv, Believable, Follows
  <2>3. CASE ~(poll.parsed \/ poll.prices # Nothing)
    <3>1. UNCHANGED <<snapshot, loose>> /\ DOMAIN poll.prices = {} /\ DOMAIN poll'.prices = {}
      BY <1>8, <2>1, <2>3, NothingIsPrices DEF StoreSnapshot, NoPoll
    <3>. QED
      BY <2>1, <3>1, PricesKept
  <2>. QED
    BY <2>2, <2>3
<1>9. CASE RestartStocks
  BY <1>9 DEF RestartStocks, PricesInv, Believable, Follows, tables
<1>. QED
  BY <1>2, <1>3, <1>4, <1>5, <1>6, <1>7, <1>8, <1>9 DEF StockMove, StocksNext, PollStep

-----------------------------------------------------------------------------
(***************************************************************************)
(* The page, for every length of it: while a command runs, the end of what *)
(* was read before it is a mark on the page, and everything behind that    *)
(* mark was written since. Whatever scrolls out, and however often a       *)
(* message that looks like the mark comes again, the cut leaves only what  *)
(* is behind it.                                                           *)
(***************************************************************************)

Kinds    == {"chat", "portfolio", "shorts", "list", "detail", "news"}
Messages == [kind : Kinds, of : SUBSET PageSymbols]
OfOne(m) == m.kind \in {"detail", "news"} => \E s \in PageSymbols : m.of = {s}

Sides == {"held", "short"}

PageTyped ==
  /\ queryPc \in {"idle", "list", "main", "button", "shorts", "detail", "news"}
  /\ screen \in Seq(Messages) /\ Len(screen) <= PageView /\ before \in Seq(Messages)
  /\ owing \subseteq Messages
  /\ positions \in [Sides -> SUBSET PageSymbols] /\ since \in [Sides -> SUBSET PageSymbols]
  /\ reading \in [held : SUBSET PageSymbols, short : SUBSET PageSymbols, whole : BOOLEAN]

\* Details and news are of one symbol, and so are the commands that ask for them.
Single ==
  /\ \A i \in DOMAIN screen : OfOne(screen[i])
  /\ \A m \in owing : OfOne(m)
  /\ queryPc \in {"detail", "news"} => \E s \in PageSymbols : newsAsked = {s}

\* The messages behind the mark k were written since the command.
WrittenSince(k) ==
  \A i \in DOMAIN screen : i > k =>
    /\ screen[i].kind = "portfolio" => screen[i].of \subseteq since.held
    /\ screen[i].kind = "shorts" => screen[i].of \subseteq since.short

Mark(k) ==
  /\ WrittenSince(k)
  /\ before = <<>> => k = 0
  /\ before # <<>> /\ k > 0 => screen[k] = Last(before)

ScreenInv ==
  /\ \A side \in Sides : positions[side] \subseteq since[side]
  /\ queryPc # "idle" => \E k \in 0 .. Len(screen) : Mark(k)

ReadingInv ==
  /\ ~reading.whole => reading.held \subseteq since.held
  /\ reading.short \subseteq since.short
  /\ newsRead \subseteq newsAsked

PageInv == PageTyped /\ Single /\ ScreenInv /\ ReadingInv

-----------------------------------------------------------------------------
(* The largest of some positions *)

LEMMA LargestOf ==
  ASSUME NEW n \in Nat, NEW S, S \subseteq 1 .. n, S # {}
  PROVE  Max(S) \in S /\ \A i \in S : i <= Max(S)
<1> DEFINE T == {j \in Nat : \A i \in S : i <= j}
<1>1. n \in T
  OBVIOUS
<1>2. PICK m \in T : \A j \in T : ~(<<j, m>> \in OpToRel(<, Nat))
  <2>1. T \subseteq Nat /\ T # {}
    BY <1>1
  <2>. HIDE DEF T
  <2>. QED
    BY <2>1, NatLessThanWellFounded, WFMin
<1>3. \A j \in T : ~(j < m)
  BY <1>2 DEF OpToRel
<1>4. m \in Nat /\ \A i \in S : i <= m
  BY DEF T
<1>5. m \in S
  <2>. SUFFICES ASSUME m \notin S PROVE FALSE
    OBVIOUS
  <2>1. \A i \in S : i \in Nat /\ i > 0 /\ i < m
    BY <1>4
  <2>2. m > 0
    <3>1. PICK i \in S : TRUE
      OBVIOUS
    <3>. QED
      BY <1>4, <2>1, <3>1
  <2>3. m - 1 \in Nat /\ \A i \in S : i <= m - 1
    BY <1>4, <2>1, <2>2
  <2>. QED
    BY <1>3, <1>4, <2>3 DEF T
<1>6. \E x \in S : \A y \in S : x >= y
  BY <1>4, <1>5
<1>7. Max(S) \in S /\ \A y \in S : Max(S) >= y
  BY <1>6 DEF Max
<1>. QED
  BY <1>7

-----------------------------------------------------------------------------
(* A message comes in *)

\* How many messages scroll out when one comes in.
Gone(q) == IF Len(q) + 1 > PageView THEN 1 ELSE 0

\* The places of the page p, into which q has moved with the message m behind it.
Moved(q, m, p) ==
  \A i \in 1 .. Len(p) : p[i] = IF i + Gone(q) <= Len(q) THEN q[i + Gone(q)] ELSE m

\* A page with one message more has moved by what has scrolled out.
LEMMA PageMoved ==
  ASSUME NEW q \in Seq(Messages), NEW m \in Messages, Len(q) <= PageView,
         NEW p, p = LastOf(Append(q, m), PageView)
  PROVE  /\ p \in Seq(Messages) /\ Len(p) <= PageView
         /\ Gone(q) \in 0 .. 1 /\ Len(p) = Len(q) + 1 - Gone(q)
         /\ Moved(q, m, p)
<1> DEFINE all == Append(q, m)
           d   == Gone(q)
<1>1. /\ all \in Seq(Messages) /\ Len(all) = Len(q) + 1 /\ Len(q) \in Nat
      /\ \A i \in 1 .. Len(q) + 1 : all[i] = IF i <= Len(q) THEN q[i] ELSE m
  BY AppendProperties, LenProperties
<1>2. PageView \in Nat /\ PageView > 0
  BY PageAssumption
<1>. HIDE DEF all
<1>3. d \in 0 .. 1 /\ p = SubSeq(all, d + 1, Len(all))
  <2>1. Len(all) > PageView => Len(all) - PageView + 1 = 1 + 1
    BY <1>1, <1>2
  <2>2. p = LastOf(all, PageView)
    BY DEF all
  <2>3. CASE Len(all) > PageView
    <3>1. p = SubSeq(all, Len(all) - PageView + 1, Len(all)) /\ d = 1
      BY <1>1, <2>2, <2>3 DEF LastOf, Gone
    <3>. QED
      BY <2>1, <2>3, <3>1
  <2>4. CASE ~(Len(all) > PageView)
    <3>1. p = SubSeq(all, 1, Len(all)) /\ d = 0
      BY <1>1, <2>2, <2>4 DEF LastOf, Gone
    <3>. QED
      BY <3>1
  <2>. QED
    BY <2>3, <2>4
<1>4. Len(all) - d <= PageView
  BY <1>1, <1>2 DEF Gone
<1>. HIDE DEF d
<1>5. /\ d + 1 \in 1 .. Len(all) + 1 /\ Len(all) \in Nat
      /\ \A i \in d + 1 .. Len(all) : all[i] \in Messages
  BY <1>1, <1>3, ElementOfSeq
<1>6. /\ p \in Seq(Messages) /\ Len(p) = Len(all) - d
      /\ \A i \in 1 .. Len(all) - d : p[i] = all[d + 1 + i - 1]
  <2>1. /\ SubSeq(all, d + 1, Len(all)) \in Seq(Messages)
        /\ Len(SubSeq(all, d + 1, Len(all))) =
             IF d + 1 <= Len(all) THEN Len(all) - (d + 1) + 1 ELSE 0
        /\ \A i \in 1 .. Len(all) - (d + 1) + 1 : SubSeq(all, d + 1, Len(all))[i] = all[d + 1 + i - 1]
    BY <1>1, <1>5, SubSeqProperties
  <2>. QED
    BY <1>1, <1>3, <2>1
<1>7. \A i \in 1 .. Len(p) : p[i] = IF i + d <= Len(q) THEN q[i + d] ELSE m
  BY <1>1, <1>3, <1>6
<1>8. Moved(q, m, p)
  BY <1>7 DEF Moved, d
<1>. QED
  BY <1>1, <1>3, <1>4, <1>6, <1>8 DEF d

\* A message that fits in with the mark may be posted: the mark moves with the page, or is gone.
LEMMA PostKeeps ==
  ASSUME PageInv, UNCHANGED <<queryPc, before, since, positions>>,
         NEW kind \in Kinds, NEW of \in SUBSET PageSymbols, Post(kind, of),
         kind = "portfolio" => of \subseteq since.held,
         kind = "shorts" => of \subseteq since.short,
         OfOne([kind |-> kind, of |-> of])
  PROVE  /\ screen' \in Seq(Messages) /\ Len(screen') <= PageView
         /\ \A i \in DOMAIN screen' : OfOne(screen'[i])
         /\ ScreenInv'
<1> DEFINE posted == [kind |-> kind, of |-> of]
<1>1. posted \in Messages /\ screen \in Seq(Messages) /\ Len(screen) <= PageView
  BY DEF PageInv, PageTyped, Messages
<1>2. screen' = LastOf(Append(screen, posted), PageView)
  BY DEF Post
<1>3. posted.kind = kind /\ posted.of = of /\ OfOne(posted)
  OBVIOUS
<1>. HIDE DEF posted
<1>4. screen' \in Seq(Messages) /\ Len(screen') <= PageView
  BY <1>1, <1>2, PageMoved
<1>5. PICK d \in 0 .. 1 : d = Gone(screen)
  BY <1>1, <1>2, PageMoved
<1>10. Len(screen') = Len(screen) + 1 - d
  BY <1>1, <1>2, <1>5, PageMoved
<1>11. \A i \in 1 .. Len(screen') : screen'[i] = IF i + d <= Len(screen) THEN screen[i + d] ELSE posted
  <2>1. Moved(screen, posted, screen')
    BY <1>1, <1>2, PageMoved
  <2>. QED
    BY <1>5, <2>1 DEF Moved
<1>6. /\ Len(screen) \in Nat /\ DOMAIN screen = 1 .. Len(screen)
      /\ Len(screen') \in Nat /\ DOMAIN screen' = 1 .. Len(screen')
  BY <1>1, <1>4, LenProperties
<1>7. ASSUME NEW i \in DOMAIN screen'
      PROVE  screen'[i] = posted \/ (i + d \in DOMAIN screen /\ screen'[i] = screen[i + d])
  <2>1. i \in 1 .. Len(screen') /\ d \in Nat /\ (i + d <= Len(screen) => i + d \in DOMAIN screen)
    BY <1>5, <1>6
  <2>. QED
    BY <1>11, <2>1
<1>8. \A i \in DOMAIN screen' : OfOne(screen'[i])
  BY <1>3, <1>7 DEF PageInv, Single
<1>9. ASSUME queryPc' # "idle" PROVE \E k \in 0 .. Len(screen') : Mark(k)'
  <2>1. PICK k \in 0 .. Len(screen) : Mark(k)
    BY <1>9 DEF PageInv, ScreenInv
  <2>7. PICK l \in Nat : l = IF k > d THEN k - d ELSE 0
    BY <1>5, <1>6
  <2>2. l \in 0 .. Len(screen') /\ l \in Nat /\ (k = 0 => l = 0) /\ (l > 0 => l + d = k)
        /\ \A i \in Nat : i > l => i + d > k
    BY <1>5, <1>6, <1>10, <2>7
  <2>8. before' = before /\ since' = since
    OBVIOUS
  <2>3. WrittenSince(l)'
    <3>1. ASSUME NEW i \in DOMAIN screen', i > l
          PROVE  /\ screen'[i].kind = "portfolio" => screen'[i].of \subseteq since.held
                 /\ screen'[i].kind = "shorts" => screen'[i].of \subseteq since.short
      <4>1. CASE screen'[i] = posted
        BY <1>3, <4>1
      <4>2. CASE i + d \in DOMAIN screen /\ screen'[i] = screen[i + d]
        <5>1. i + d > k
          BY <1>6, <2>2, <3>1
        <5>. QED
          BY <2>1, <4>2, <5>1 DEF Mark, WrittenSince
      <4>. QED
        BY <1>7, <4>1, <4>2
    <3>. QED
      BY <2>8, <3>1 DEF WrittenSince
  <2>4. before # <<>> /\ l > 0 => screen'[l] = Last(before)
    <3>. SUFFICES ASSUME before # <<>>, l > 0 PROVE screen'[l] = Last(before)
      OBVIOUS
    <3>1. l + d = k /\ k > 0 /\ l \in 1 .. Len(screen')
      BY <1>5, <1>6, <2>2
    <3>2. screen'[l] = screen[k]
      BY <1>6, <1>11, <2>1, <3>1
    <3>. QED
      BY <2>1, <3>1, <3>2 DEF Mark
  <2>5. before' = <<>> => l = 0
    BY <2>1, <2>2 DEF Mark
  <2>6. Mark(l)'
    BY <2>3, <2>4, <2>5, <2>8 DEF Mark
  <2>. QED
    BY <2>2, <2>6
<1>12. \A side \in Sides : positions'[side] \subseteq since'[side]
  BY DEF PageInv, ScreenInv
<1>. QED
  BY <1>4, <1>8, <1>9, <1>12 DEF ScreenInv

-----------------------------------------------------------------------------
(* The cut *)

\* What the cut leaves is behind the mark.
LEMMA CutIsBehind ==
  ASSUME PageInv, NEW k \in 0 .. Len(screen), Mark(k)
  PROVE  LET new == SliceAfterAnchor(screen, before) IN
         \A j \in DOMAIN new : \E i \in DOMAIN screen : i > k /\ new[j] = screen[i]
<1> DEFINE places == {i \in DOMAIN screen : screen[i] = Last(before)}
           new    == SliceAfterAnchor(screen, before)
<1>1. screen \in Seq(Messages) /\ Len(screen) \in Nat /\ DOMAIN screen = 1 .. Len(screen)
  BY LenProperties DEF PageInv, PageTyped
<1>2. CASE before = <<>>
  <2>1. new = screen /\ k = 0
    BY <1>2 DEF SliceAfterAnchor, Mark
  <2>. QED
    BY <1>1, <2>1
<1>3. CASE before # <<>> /\ places = {}
  <2>1. new = <<>>
    BY <1>3 DEF SliceAfterAnchor
  <2>. QED
    BY <2>1
<1>4. CASE before # <<>> /\ places # {}
  <2> DEFINE m == Max(places)
  <2>1. new = SubSeq(screen, m + 1, Len(screen))
    BY <1>4 DEF SliceAfterAnchor
  <2>2. m \in places /\ \A i \in places : i <= m
    BY <1>1, <1>4, LargestOf
  <2>. HIDE DEF m, new
  <2>3. m \in 1 .. Len(screen) /\ (k > 0 => k <= m)
    BY <1>1, <1>4, <2>2 DEF Mark
  <2>4. m + 1 \in 1 .. Len(screen) + 1 /\ \A i \in m + 1 .. Len(screen) : screen[i] \in Messages
    BY <1>1, <2>3, ElementOfSeq
  <2>5. /\ new \in Seq(Messages)
        /\ Len(new) = IF m + 1 <= Len(screen) THEN Len(screen) - (m + 1) + 1 ELSE 0
        /\ \A i \in 1 .. Len(screen) - (m + 1) + 1 : new[i] = screen[m + 1 + i - 1]
    BY <1>1, <2>1, <2>4, SubSeqProperties
  <2>6. DOMAIN new = 1 .. Len(new) /\ Len(new) \in Nat
    BY <2>5, LenProperties
  <2>7. ASSUME NEW j \in DOMAIN new
        PROVE  m + j \in DOMAIN screen /\ m + j > k /\ new[j] = screen[m + j]
    <3>1. j \in 1 .. Len(new) /\ Len(new) = Len(screen) - m
      <4>1. m \in Nat /\ m <= Len(screen) /\ Len(screen) \in Nat
        BY <1>1, <2>3
      <4>2. Len(screen) - (m + 1) + 1 = Len(screen) - m /\ (m + 1 <= Len(screen) \/ Len(screen) - m = 0)
        BY <4>1
      <4>. QED
        BY <2>5, <2>6, <4>2
    <3>4. j \in 1 .. Len(screen) - (m + 1) + 1 /\ m + 1 + j - 1 = m + j
      BY <1>1, <2>3, <3>1
    <3>2. m + j \in DOMAIN screen /\ m + j > k
      BY <1>1, <2>3, <3>1
    <3>. QED
      BY <2>5, <3>2, <3>4
  <2>. QED
    BY <2>7 DEF new
<1>. QED
  BY <1>2, <1>3, <1>4

\* So what is read out of it is what was held, or sold short, since the command.
LEMMA ReadIsCurrent ==
  ASSUME PageInv, queryPc # "idle"
  PROVE  LET new == SliceAfterAnchor(screen, before) IN
         /\ Named(new, "portfolio") \subseteq since.held /\ Named(new, "shorts") \subseteq since.short
         /\ Named(screen, "portfolio") \subseteq PageSymbols
<1> DEFINE new == SliceAfterAnchor(screen, before)
<1>1. PICK k \in 0 .. Len(screen) : Mark(k)
  BY DEF PageInv, ScreenInv
<1>2. \A j \in DOMAIN new : \E i \in DOMAIN screen : i > k /\ new[j] = screen[i]
  BY <1>1, CutIsBehind
<1>. HIDE DEF new
<1>3. Named(new, "portfolio") \subseteq since.held /\ Named(new, "shorts") \subseteq since.short
  BY <1>1, <1>2 DEF Mark, WrittenSince, Named
<1>4. Named(screen, "portfolio") \subseteq PageSymbols
  <2>1. \A i \in DOMAIN screen : screen[i] \in Messages
    BY ElementOfSeq, LenProperties DEF PageInv, PageTyped
  <2>. QED
    BY <2>1 DEF Named, Messages
<1>. QED
  BY <1>3, <1>4 DEF new

\* So are the news that are read: there are some under the name of the symbol, and of it alone.
LEMMA NewsAreOfTheirSymbol ==
  ASSUME PageInv, queryPc = "news", newsAsked \subseteq Named(screen, "news")
  PROVE  NewsUnder(screen) = newsAsked
<1> DEFINE places == {i \in DOMAIN screen : screen[i].kind = "news" /\ screen[i].of = newsAsked}
<1>1. screen \in Seq(Messages) /\ Len(screen) \in Nat /\ DOMAIN screen = 1 .. Len(screen)
  BY LenProperties DEF PageInv, PageTyped
<1>2. PICK s \in PageSymbols : newsAsked = {s}
  BY DEF PageInv, Single
<1>3. PICK i \in DOMAIN screen : screen[i].kind = "news" /\ s \in screen[i].of
  BY <1>2 DEF Named
<1>4. screen[i].of = newsAsked
  BY <1>2, <1>3 DEF PageInv, Single, OfOne
<1>5. places # {} /\ places \subseteq 1 .. Len(screen)
  BY <1>1, <1>3, <1>4
<1>6. Max(places) \in places
  BY <1>1, <1>5, LargestOf
<1>. QED
  BY <1>6 DEF NewsUnder

-----------------------------------------------------------------------------
(* The invariant *)

\* The page starts empty, and nothing was asked.
LEMMA PageInvInit == PageInit => PageInv
<1>. SUFFICES ASSUME PageInit PROVE PageInv
  OBVIOUS
<1>1. screen = <<>> /\ before = <<>> /\ Len(screen) = 0 /\ DOMAIN screen = {} /\ <<>> \in Seq(Messages)
  BY EmptySeq DEF PageInit
<1>2. PageTyped
  BY <1>1, PageAssumption DEF PageInit, PageTyped, Sides, NoReading
<1>3. Single /\ ScreenInv /\ ReadingInv
  BY <1>1 DEF PageInit, Single, ScreenInv, ReadingInv, Sides, NoReading
<1>. QED
  BY <1>2, <1>3 DEF PageInv

\* A command takes its mark at the end of the page, where nothing is behind it.
LEMMA SendKeeps ==
  ASSUME PageInv, NEW kind \in Kinds, NEW of \in SUBSET PageSymbols,
         NEW label \in {"list", "main", "detail"}, SendQuery(kind, of, label),
         OfOne([kind |-> kind, of |-> of]),
         label = "detail" => \E s \in PageSymbols : newsAsked' = {s}
  PROVE  PageInv'
<1> DEFINE posted == [kind |-> kind, of |-> of]
<1>1. posted \in Messages /\ OfOne(posted)
  BY DEF Messages
<1>2. owing' = owing \cup {posted}
  BY DEF SendQuery
<1>. HIDE DEF posted
<1>3. screen \in Seq(Messages) /\ Len(screen) \in Nat /\ DOMAIN screen = 1 .. Len(screen)
  BY LenProperties DEF PageInv, PageTyped
<1>4. /\ queryPc' = label /\ screen' = screen /\ before' = screen
      /\ since' = positions /\ positions' = positions
      /\ reading' = NoReading /\ newsRead' = {}
  BY DEF SendQuery
<1>5. PageTyped'
  <2>1. owing' \subseteq Messages
    BY <1>1, <1>2 DEF PageInv, PageTyped
  <2>. QED
    BY <1>4, <2>1 DEF PageInv, PageTyped, NoReading
<1>6. Single'
  BY <1>1, <1>2, <1>4 DEF PageInv, Single
<1>7. ScreenInv'
  <2>7. Len(screen) \in 0 .. Len(screen)
    BY <1>3
  <2>1. PICK k \in 0 .. Len(screen) : k = Len(screen)
    BY ONLY <2>7, Zenon
  <2>2. WrittenSince(k)'
    BY <1>3, <1>4, <2>1 DEF WrittenSince
  <2>3. (before' = <<>> => k = 0) /\ (before' # <<>> /\ k > 0 => screen'[k] = Last(before'))
    BY <1>4, <2>1 DEF Last
  <2>4. Mark(k)'
    BY <2>2, <2>3 DEF Mark
  <2>5. \A side \in Sides : positions'[side] \subseteq since'[side]
    BY <1>4
  <2>. QED
    BY <1>4, <2>1, <2>4, <2>5 DEF ScreenInv
<1>8. ReadingInv'
  BY <1>4 DEF ReadingInv, NoReading
<1>. QED
  BY <1>5, <1>6, <1>7, <1>8 DEF PageInv

\* What comes in on the page keeps the mark.
LEMMA PageMovesKeep ==
  ASSUME PageInv, PageMoves
  PROVE  PageInv'
<1>1. CASE Chat
  <2>1. /\ screen' \in Seq(Messages) /\ Len(screen') <= PageView
        /\ \A i \in DOMAIN screen' : OfOne(screen'[i])
        /\ ScreenInv'
    <3>1. "chat" \in Kinds /\ {} \in SUBSET PageSymbols /\ OfOne([kind |-> "chat", of |-> {}])
      BY DEF Kinds, OfOne
    <3>2. Post("chat", {}) /\ UNCHANGED <<queryPc, before, since, positions>>
      BY <1>1 DEF Chat
    <3>. QED
      BY <3>1, <3>2, PostKeeps
  <2>2. UNCHANGED <<queryPc, owing, positions, since, before, reading, newsAsked, newsRead>>
    BY <1>1 DEF Chat
  <2>3. PageTyped'
    BY <2>1, <2>2 DEF PageInv, PageTyped
  <2>4. Single'
    BY <2>1, <2>2 DEF PageInv, Single
  <2>5. ReadingInv'
    BY <2>2 DEF PageInv, ReadingInv
  <2>. QED
    BY <2>1, <2>3, <2>4, <2>5 DEF PageInv
<1>2. CASE AnswerStock
  <2>1. PICK a \in owing :
          /\ owing' = owing \ {a}
          /\ Post(a.kind, CASE a.kind = "portfolio" -> positions.held
                            [] a.kind = "shorts"    -> positions.short
                            [] OTHER                -> a.of)
    BY <1>2 DEF AnswerStock
  <2>2. PICK of \in SUBSET PageSymbols :
          of = CASE a.kind = "portfolio" -> positions.held
                 [] a.kind = "shorts"    -> positions.short
                 [] OTHER                -> a.of
    <3>1. a \in Messages /\ positions["held"] \in SUBSET PageSymbols
                         /\ positions["short"] \in SUBSET PageSymbols
      BY DEF PageInv, PageTyped, Sides
    <3>. QED
      BY <3>1 DEF Messages
  <2>3. /\ a.kind \in Kinds /\ Post(a.kind, of)
        /\ a.kind = "portfolio" => of \subseteq since.held
        /\ a.kind = "shorts" => of \subseteq since.short
        /\ OfOne([kind |-> a.kind, of |-> of])
    <3>1. a \in Messages /\ OfOne(a)
      BY DEF PageInv, PageTyped, Single
    <3>2. positions.held \subseteq since.held /\ positions.short \subseteq since.short
      BY DEF PageInv, ScreenInv, Sides
    <3>3. a.kind \in Kinds
      BY <3>1 DEF Messages
    <3>4. Post(a.kind, of)
      BY <2>1, <2>2
    <3>5. a.kind \in {"detail", "news"} => of = a.of
      BY <2>2
    <3>6. OfOne([kind |-> a.kind, of |-> of])
      BY <3>1, <3>5 DEF OfOne
    <3>. QED
      BY <2>2, <3>2, <3>3, <3>4, <3>6
  <2>4. /\ screen' \in Seq(Messages) /\ Len(screen') <= PageView
        /\ \A i \in DOMAIN screen' : OfOne(screen'[i])
        /\ ScreenInv'
    <3>1. UNCHANGED <<queryPc, before, since, positions>>
      BY <1>2 DEF AnswerStock
    <3>. QED
      BY <2>3, <3>1, PostKeeps
  <2>5. UNCHANGED <<queryPc, positions, since, before, reading, newsAsked, newsRead>> /\ owing' \subseteq owing
    BY <1>2, <2>1 DEF AnswerStock
  <2>6. PageTyped'
    BY <2>4, <2>5 DEF PageInv, PageTyped
  <2>7. Single'
    BY <2>4, <2>5 DEF PageInv, Single
  <2>8. ReadingInv'
    BY <2>5 DEF PageInv, ReadingInv
  <2>. QED
    BY <2>4, <2>6, <2>7, <2>8 DEF PageInv
<1>3. CASE Trade
  <2>1. PICK s \in PageSymbols, one \in Sides :
          positions' = [positions EXCEPT ![one] = IF s \in @ THEN @ \ {s} ELSE @ \cup {s}]
    BY <1>3 DEF Trade, Sides
  <2>2. since' = [side \in Sides |-> since[side] \cup positions'[side]]
    BY <1>3 DEF Trade, Sides
  <2>3. UNCHANGED <<queryPc, screen, owing, before, reading, newsAsked, newsRead>>
    BY <1>3 DEF Trade
  <2>4. positions' \in [Sides -> SUBSET PageSymbols]
    BY <2>1 DEF PageInv, PageTyped
  <2>5. since' \in [Sides -> SUBSET PageSymbols]
    BY <2>2, <2>4 DEF PageInv, PageTyped
  <2>6. \A side \in Sides : since[side] \subseteq since'[side] /\ positions'[side] \subseteq since'[side]
    BY <2>2
  <2>7. since.held \subseteq since.held' /\ since.short \subseteq since.short'
    BY <2>6 DEF Sides
  <2>8. PageTyped'
    BY <2>3, <2>4, <2>5 DEF PageInv, PageTyped
  <2>9. Single'
    BY <2>3 DEF PageInv, Single
  <2>10. ReadingInv'
    BY <2>3, <2>7 DEF PageInv, ReadingInv
  <2>11. ASSUME NEW k \in 0 .. Len(screen), Mark(k) PROVE Mark(k)'
    <3>1. WrittenSince(k)'
      BY <2>3, <2>7, <2>11 DEF Mark, WrittenSince
    <3>. QED
      BY <2>3, <2>11, <3>1 DEF Mark
  <2>12. ScreenInv'
    BY <2>3, <2>6, <2>11 DEF PageInv, ScreenInv
  <2>. QED
    BY <2>8, <2>9, <2>10, <2>12 DEF PageInv
<1>. QED
  BY <1>1, <1>2, <1>3 DEF PageMoves

\* A button presses out of the game the answer that belongs to its message.
LEMMA PressKeeps ==
  ASSUME PageInv, NEW on \in Kinds, NEW gives \in {"shorts", "news"},
         NEW label \in {"shorts", "news"}, queryPc # "idle", Press(on, gives, label),
         gives = "news" => on = "detail", label = "news" => queryPc = "detail"
  PROVE  PageInv'
<1>1. PICK i \in DOMAIN screen :
        /\ screen[i].kind = on
        /\ owing' = owing \cup {[kind |-> gives, of |-> IF gives = "news" THEN screen[i].of ELSE {}]}
  BY DEF Press
<1>2. UNCHANGED <<screen, before, reading, newsRead, positions, since, newsAsked>> /\ queryPc' = label
  BY DEF Press, InQuery
<1> DEFINE asks == [kind |-> gives, of |-> IF gives = "news" THEN screen[i].of ELSE {}]
<1>3. asks \in Messages /\ OfOne(asks)
  <2>1. screen[i] \in Messages /\ OfOne(screen[i])
    BY <1>1, ElementOfSeq, LenProperties DEF PageInv, PageTyped, Single
  <2>2. asks.kind = gives /\ (gives = "news" => asks.of = screen[i].of)
    OBVIOUS
  <2>3. asks \in Messages
    BY <2>1 DEF Messages, Kinds
  <2>. QED
    BY <1>1, <2>1, <2>2, <2>3 DEF OfOne
<1>4. owing' = owing \cup {asks}
  BY <1>1
<1>. HIDE DEF asks
<1>5. PageTyped'
  BY <1>2, <1>3, <1>4 DEF PageInv, PageTyped
<1>6. Single'
  BY <1>2, <1>3, <1>4 DEF PageInv, Single
<1>7. ScreenInv'
  <2>1. ASSUME NEW k \in 0 .. Len(screen), Mark(k) PROVE Mark(k)'
    BY <1>2, <2>1 DEF Mark, WrittenSince
  <2>. QED
    BY <1>2, <2>1 DEF PageInv, ScreenInv
<1>8. ReadingInv'
  BY <1>2 DEF PageInv, ReadingInv
<1>. QED
  BY <1>5, <1>6, <1>7, <1>8 DEF PageInv

\* The end of a command needs no mark any more.
LEMMA EndKeeps ==
  ASSUME PageInv, Done, InQuery, UNCHANGED <<screen, owing>>, ReadingInv',
         reading' \in [held : SUBSET PageSymbols, short : SUBSET PageSymbols, whole : BOOLEAN]
  PROVE  PageInv'
<1>1. queryPc' = "idle" /\ before' = <<>> /\ <<>> \in Seq(Messages)
  BY EmptySeq DEF Done
<1>2. UNCHANGED <<screen, owing, positions, since, newsAsked>>
  BY DEF InQuery
<1>3. PageTyped'
  BY <1>1, <1>2 DEF PageInv, PageTyped
<1>4. Single' /\ ScreenInv'
  BY <1>1, <1>2 DEF PageInv, Single, ScreenInv
<1>. QED
  BY <1>3, <1>4 DEF PageInv

\* Where an answer has come, what is read out of it is current, and the mark moves to the end.
LEMMA ReadMainKeeps ==
  ASSUME PageInv, ReadMain
  PROVE  PageInv'
<1> DEFINE new == SliceAfterAnchor(screen, before)
<1>1. /\ queryPc = "main" /\ queryPc' = "button" /\ before' = screen
      /\ reading' = [held |-> Named(IF new = <<>> THEN screen ELSE new, "portfolio"),
                     short |-> {}, whole |-> new = <<>>]
  BY DEF ReadMain
<1>2. UNCHANGED <<screen, owing, newsRead, positions, since, newsAsked>>
  BY DEF ReadMain, InQuery
<1>3. /\ Named(new, "portfolio") \subseteq since.held
      /\ Named(screen, "portfolio") \subseteq PageSymbols
  BY <1>1, ReadIsCurrent
<1>4. since.held \subseteq PageSymbols
  BY DEF PageInv, PageTyped, Sides
<1>. HIDE DEF new
<1>5. /\ ~reading.whole' => reading.held' \subseteq since.held'
      /\ reading.held' \subseteq PageSymbols /\ reading.short' = {} /\ reading.whole' \in BOOLEAN
      /\ reading' = [held |-> reading.held', short |-> {}, whole |-> reading.whole']
  BY <1>1, <1>2, <1>3, <1>4
<1>6. PageTyped'
  BY <1>1, <1>2, <1>5 DEF PageInv, PageTyped
<1>7. Single'
  BY <1>1, <1>2 DEF PageInv, Single
<1>8. ReadingInv'
  BY <1>2, <1>5 DEF PageInv, ReadingInv
<1>9. ScreenInv'
  <2>1. screen \in Seq(Messages) /\ Len(screen) \in Nat /\ DOMAIN screen = 1 .. Len(screen)
    BY LenProperties DEF PageInv, PageTyped
  <2>7. Len(screen) \in 0 .. Len(screen)
    BY <2>1
  <2>2. PICK k \in 0 .. Len(screen) : k = Len(screen)
    BY ONLY <2>7, Zenon
  <2>3. WrittenSince(k)'
    BY <1>2, <2>1, <2>2 DEF WrittenSince
  <2>4. (before' = <<>> => k = 0) /\ (before' # <<>> /\ k > 0 => screen'[k] = Last(before'))
    BY <1>1, <1>2, <2>2 DEF Last
  <2>5. Mark(k)'
    BY <2>3, <2>4 DEF Mark
  <2>6. \A side \in Sides : positions'[side] \subseteq since'[side]
    BY <1>2 DEF PageInv, ScreenInv
  <2>. QED
    BY <1>2, <2>2, <2>5, <2>6 DEF ScreenInv
<1>. QED
  BY <1>6, <1>7, <1>8, <1>9 DEF PageInv

\* Every step of the page and of the commands keeps the invariant.
LEMMA PageInvStep ==
  ASSUME PageInv, PageNext \/ UNCHANGED pageVars
  PROVE  PageInv'
<1>1. CASE PageMoves
  BY <1>1, PageMovesKeep
<1>2. CASE SendList
  BY <1>2, SendKeeps DEF SendList, Kinds, OfOne
<1>3. CASE SendPortfolio
  BY <1>3, SendKeeps DEF SendPortfolio, Kinds, OfOne
<1>4. ASSUME NEW s \in PageSymbols, SendDetail(s) PROVE PageInv'
  <2>1. /\ "detail" \in Kinds /\ {s} \in SUBSET PageSymbols
        /\ SendQuery("detail", {s}, "detail") /\ newsAsked' = {s}
    BY <1>4 DEF SendDetail, Kinds
  <2>2. OfOne([kind |-> "detail", of |-> {s}])
    BY DEF OfOne
  <2>. QED
    BY <2>1, <2>2, SendKeeps
<1>5. CASE GiveUp \/ ReadList
  <2>1. Done /\ InQuery /\ UNCHANGED <<screen, owing, reading, newsRead>>
    BY <1>5 DEF GiveUp, ReadList
  <2>2. ReadingInv'
    BY <2>1 DEF PageInv, ReadingInv, InQuery
  <2>. QED
    BY <2>1, <2>2, EndKeeps DEF PageInv, PageTyped
<1>6. CASE ReadMain
  BY <1>6, ReadMainKeeps
<1>7. CASE PressShorts
  BY <1>7, PressKeeps DEF PressShorts, Kinds
<1>8. CASE ReadShortsPage
  <2> DEFINE new == SliceAfterAnchor(screen, before)
  <2>1. /\ queryPc = "shorts" /\ Done /\ InQuery /\ UNCHANGED <<screen, owing, newsRead>>
        /\ reading' = [reading EXCEPT !.short = Named(new, "shorts")]
    BY <1>8 DEF ReadShortsPage
  <2>2. Named(new, "shorts") \subseteq since.short
    BY <2>1, ReadIsCurrent
  <2>3. since.short \subseteq PageSymbols
    BY DEF PageInv, PageTyped, Sides
  <2>. HIDE DEF new
  <2>4. /\ reading' \in [held : SUBSET PageSymbols, short : SUBSET PageSymbols, whole : BOOLEAN]
        /\ reading.held' = reading.held /\ reading.whole' = reading.whole
        /\ reading.short' = Named(new, "shorts")
    BY <2>1, <2>2, <2>3 DEF PageInv, PageTyped
  <2>5. ReadingInv'
    BY <2>1, <2>2, <2>4 DEF PageInv, ReadingInv, InQuery
  <2>. QED
    BY <2>1, <2>4, <2>5, EndKeeps
<1>9. CASE PressNews
  BY <1>9, PressKeeps DEF PressNews, Kinds
<1>10. CASE ReadNews
  <2>1. /\ queryPc = "news" /\ newsAsked \subseteq Named(screen, "news") /\ Done
        /\ newsRead' = NewsUnder(screen) /\ InQuery /\ UNCHANGED <<screen, owing, reading>>
    BY <1>10 DEF ReadNews
  <2>2. newsRead' = newsAsked
    BY <2>1, NewsAreOfTheirSymbol
  <2>3. ReadingInv'
    BY <2>1, <2>2 DEF PageInv, ReadingInv, InQuery
  <2>. QED
    BY <2>1, <2>3, EndKeeps DEF PageInv, PageTyped
<1>11. CASE UNCHANGED pageVars
  <2>1. ASSUME NEW k \in 0 .. Len(screen), Mark(k) PROVE Mark(k)'
    BY <1>11, <2>1 DEF pageVars, Mark, WrittenSince
  <2>2. ScreenInv'
    BY <1>11, <2>1 DEF pageVars, PageInv, ScreenInv
  <2>3. PageTyped' /\ Single' /\ ReadingInv'
    BY <1>11 DEF pageVars, PageInv, PageTyped, Single, ReadingInv
  <2>. QED
    BY <2>2, <2>3 DEF PageInv
<1>. QED
  BY <1>1, <1>2, <1>3, <1>4, <1>5, <1>6, <1>7, <1>8, <1>9, <1>10, <1>11 DEF PageNext
=============================================================================
