---------------------------- MODULE StockAnalysis ----------------------------
(***************************************************************************)
(* The heuristics of bot/stock/analysis.py over the prices of one symbol,  *)
(* oldest first: rows [t, price] with positive prices. Averages and        *)
(* percentages are compared multiplied out, without division; a standard   *)
(* deviation is compared by its square.                                    *)
(***************************************************************************)
EXTENDS Integers, SequencesExt

CONSTANTS
  MaShort, MaLong,        \* StockConfig.ma_short, ma_long
  Momentum,               \* momentum_window of buy_signal (3)
  TakeProfit, StopLoss,   \* per cent
  Window, Percent,        \* volatility_window_min in units of time, volatility_threshold_pct
  MinSpan                 \* analysis.py:99: five minutes in units of time

ASSUME StockAnalysisAssumption ==
  MaShort \in Nat \ {0} /\ MaLong \in Nat \ {0} /\ Momentum \in Nat \ {0} /\ Window \in Nat \ {0}

Lesser(a, b) == IF a < b THEN a ELSE b
Greater(a, b) == IF a > b THEN a ELSE b

PricesOf(series) == [i \in DOMAIN series |-> series[i].price]
Final(p, n) == SubSeq(p, Greater(1, Len(p) - n + 1), Len(p))
Total(p) == FoldLeft(+, 0, p)

\* max / min > 10, between positive prices.
Farther(a, b) == Greater(a, b) > 10 * Lesser(a, b)

\* _pct_change(cur, prev) > pct, and the same the other way round.
RoseMore(cur, prev, pct) == (cur - prev) * 100 > pct * prev
FellMore(cur, prev, pct) == (prev - cur) * 100 > pct * prev

Signal(signal, score) == [signal |-> signal, score |-> score]

-----------------------------------------------------------------------------
(* detect_volatility: "none", or the direction of the alarm *)

\* The newest earlier row that is Window old, else the oldest one if it is MinSpan old.
Baselines(series) ==
  LET now == Last(series).t
      old == {i \in 1 .. Len(series) - 1 : series[i].t <= now - Window}
  IN IF old # {} THEN {series[i] : i \in {i \in old : \A j \in old : j <= i}}
     ELSE IF now - Head(series).t >= MinSpan THEN {Head(series)} ELSE {}

DetectVolatility(series) ==
  LET cur == Last(series).price
      Moved(base) == /\ (cur - base) * 100 >= Percent * base \/ (base - cur) * 100 >= Percent * base
                     /\ ~Farther(cur, base)
  IN IF Len(series) < 2 THEN "none"
     ELSE IF \E b \in Baselines(series) : Moved(b.price)
          THEN IF \E b \in Baselines(series) : cur > b.price THEN "rise" ELSE "fall"
          ELSE "none"

-----------------------------------------------------------------------------
(* buy_signal *)

\* short average / long average > 1.002, < 0.998.
Trend(p) ==
  LET short == Total(Final(p, MaShort)) * MaLong
      long  == Total(Final(p, MaLong)) * MaShort
  IN IF Len(p) < MaShort THEN 0
     ELSE IF short * 1000 > long * 1002 THEN 15
     ELSE IF short * 1000 < long * 998 THEN -15
     ELSE 0

Pace(p) ==
  LET short == Total(Final(p, MaShort))
      cur   == Last(p) * MaShort
  IN IF Len(p) < MaShort THEN 0
     ELSE IF cur * 1000 > short * 1005 THEN 5
     ELSE IF cur * 1000 < short * 995 THEN -5
     ELSE 0

Dip(p) ==
  IF /\ Last(p) * MaLong * 100 < Total(Final(p, MaLong)) * 95
     /\ RoseMore(Last(p), Final(p, Momentum + 1)[1], 1)
  THEN 15 ELSE 0

Speed(p) ==
  LET first == Final(p, Momentum + 1)[1]
  IN IF RoseMore(Last(p), first, 2) THEN 10
     ELSE IF FellMore(Last(p), first, 3) THEN -15
     ELSE 0

\* _stddev(prices[-ma_long:]) > cur * 0.10
Wild(p) ==
  LET q  == Final(p, MaLong)
      n  == Len(q)
      sq == Total([i \in DOMAIN q |-> q[i] * q[i]])
  IN IF 100 * (n * sq - Total(q) * Total(q)) > Last(p) * Last(p) * n * (n - 1) THEN -10 ELSE 0

BuySignal(series) ==
  LET p     == PricesOf(series)
      score == Lesser(100, Greater(0, 50 + Trend(p) + Pace(p) + Dip(p) + Speed(p) + Wild(p)))
  IN IF Len(p) < Greater(MaLong, Momentum + 1) THEN Signal("hold", 0)
     ELSE Signal(IF score >= 70 THEN "buy" ELSE IF score <= 30 THEN "avoid" ELSE "hold", score)

-----------------------------------------------------------------------------
(* sell_signal, for a symbol that is held *)

Sinking(p) ==
  /\ Len(p) >= MaLong /\ Len(p) >= MaShort
  /\ Last(p) * MaShort < Total(Final(p, MaShort))
  /\ Total(Final(p, MaShort)) * MaLong < Total(Final(p, MaLong)) * MaShort

ThreeDrops(p) == Len(p) >= 4 /\ \A i \in Len(p) - 2 .. Len(p) : p[i] < p[i - 1]

SellSignal(series, cost) ==
  LET p     == PricesOf(series)
      score == 50 + (IF Sinking(p) THEN 15 ELSE 0) + (IF ThreeDrops(p) THEN 10 ELSE 0)
  IN IF p = <<>> THEN Signal("hold", 0)
     ELSE IF cost > 0 /\ (Last(p) - cost) * 100 >= TakeProfit * cost THEN Signal("sell", 95)
     ELSE IF cost > 0 /\ (cost - Last(p)) * 100 >= StopLoss * cost THEN Signal("sell", 90)
     ELSE Signal(IF score >= 65 THEN "sell" ELSE IF score <= 35 THEN "buy_more" ELSE "hold", score)

\* analyze_symbol: what is said of a symbol; held is a set with the holding, if any.
AnalyzeSymbol(series, held) ==
  {BuySignal(series)} \cup {SellSignal(series, h.cost) : h \in {h \in held : h.shares > 0}}
=============================================================================
