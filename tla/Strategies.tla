----------------------------- MODULE Strategies -----------------------------
(***************************************************************************)
(* bot/slot/strategies.py and the tables of bot/slot/analysis.py that look *)
(* at the history: pure functions of a sequence of rounds.                 *)
(*                                                                         *)
(* A round is a record [bet, change, hour]; a time stamp that cannot be    *)
(* parsed has hour NoHour. Rates and multipliers are per cent, and a       *)
(* comparison of a quotient is made without dividing.                      *)
(***************************************************************************)
EXTENDS Integers, SequencesExt

Hours  == 0 .. 23
NoHour == 24
NoEv   == [won |-> 0, wagered |-> 0]   \* None of rolling_ev
Larger(a, b) == IF a < b THEN b ELSE a

\* num / den < pct / 100, where an empty denominator counts as 0.
Below(num, den, pct) == IF den > 0 THEN num * 100 < pct * den ELSE 0 < pct

\* The sum of f[i] over the rounds i that satisfy a condition.
SumOf(indices, f) == FoldSet(LAMBDA i, acc : acc + f[i], 0, indices)

-----------------------------------------------------------------------------
(* Hourly filter *)

HourlyStats(history) ==
  [h \in Hours |->
    LET at == {i \in DOMAIN history : history[i].hour = h} IN
    [bets    |-> Cardinality(at),
     wins    |-> Cardinality({i \in at : history[i].change > 0}),
     wagered |-> SumOf(at, [i \in at |-> history[i].bet]),
     won     |-> SumOf(at, [i \in at |-> history[i].bet + history[i].change])]]

\* Too few bets: no opinion. s is the strategy part of GamblingConfig.
HourlyShouldSkip(stats, hour, s) ==
  LET row == stats[hour] IN
  /\ row.bets >= s.minBets
  /\ \/ Below(row.wins, row.bets, s.minWinrate)
     \/ Below(row.won, row.wagered, s.minEv)

\* slot/analysis.py builds the same table for the screen in a pass of its own.
HourlyBreakdown(history) ==
  LET add(table, r) ==
        IF r.hour = NoHour THEN table
        ELSE [table EXCEPT ![r.hour] =
               [bets    |-> @.bets + 1,
                wins    |-> IF r.change > 0 THEN @.wins + 1 ELSE @.wins,
                wagered |-> @.wagered + r.bet,
                won     |-> @.won + Larger(0, r.change + r.bet)]]
  IN FoldLeft(add, [h \in Hours |-> [bets |-> 0, wins |-> 0, wagered |-> 0, won |-> 0]], history)

-----------------------------------------------------------------------------
(* Rolling window *)

LastOf(history, n) ==
  IF Len(history) <= n THEN history ELSE SubSeq(history, Len(history) - n + 1, Len(history))

RollingEv(history, window) ==
  IF window <= 0 \/ Len(history) < window THEN NoEv
  ELSE LET recent == LastOf(history, window) IN
       [won     |-> SumOf(DOMAIN recent, [i \in DOMAIN recent |-> recent[i].bet + recent[i].change]),
        wagered |-> SumOf(DOMAIN recent, [i \in DOMAIN recent |-> recent[i].bet])]

\* Nothing wagered: None, which leaves the bet as it is.
RollingMultiplier(ev, s) ==
  CASE ev.wagered = 0                           -> 100
    [] ev.wagered > 0 /\ Below(ev.won, ev.wagered, s.lowEv)  -> s.lowMult
    [] ev.wagered > 0 /\ ev.won * 100 > s.highEv * ev.wagered -> s.highMult
    [] OTHER                                    -> 100

-----------------------------------------------------------------------------
(* Trailing stop *)

\* The running profit and its peak, which starts at 0.
DrawdownPct(history) ==
  FoldLeft(LAMBDA d, r : [current |-> d.current + r.change, peak |-> Larger(d.peak, d.current + r.change)],
           [current |-> 0, peak |-> 0], history)

\* The fall from the peak in per cent of the peak; no profit, no fall.
FellBy(d, pct) == IF d.peak > 0 THEN (d.peak - d.current) * 100 >= pct * d.peak ELSE 0 >= pct

\* What history[baseline_idx:] is in Python; baseline is a number of rounds to leave out.
From(history, baseline) == SubSeq(history, baseline + 1, Len(history))

ShouldPauseTrailing(history, s, baseline) ==
  s.trailing /\ FellBy(DrawdownPct(From(history, baseline)), s.stopPct)

-----------------------------------------------------------------------------
(* Backtest *)

\* int(round(x * m / 100)): to the nearest, a half to the even neighbour.
Scaled(x, m) ==
  LET q == (x * m) \div 100   r == (x * m) % 100 IN
  IF r > 50 \/ (r = 50 /\ q % 2 = 1) THEN q + 1 ELSE q

ReplayStart ==
  [net |-> 0, peak |-> 0, maxDrawdown |-> 0, bets |-> 0, wins |-> 0, skippedHourly |-> 0,
   skippedTrailing |-> 0, triggers |-> 0, cooldown |-> 0, window |-> <<>>]

\* In a cool-down a round is passed over; with its last one the peak becomes the present profit.
PassOver(a) ==
  [a EXCEPT !.cooldown = @ - 1,
            !.skippedTrailing = @ + 1,
            !.peak = IF a.cooldown = 1 THEN a.net ELSE @]

WindowMultiplier(a, s) ==
  LET won     == SumOf(DOMAIN a.window, [i \in DOMAIN a.window |-> a.window[i].won])
      wagered == SumOf(DOMAIN a.window, [i \in DOMAIN a.window |-> a.window[i].bet])
  IN IF Len(a.window) >= s.window /\ wagered > 0
     THEN RollingMultiplier([won |-> won, wagered |-> wagered], s) ELSE 100

\* Variant: the drawdown is taken against the peak before this round.
PlayLate(a, r, s, mult, useRolling, useTrailing) ==
  LET scaled == Scaled(r.change, mult)
      net    == a.net + scaled
  IN [a EXCEPT !.net = net, !.bets = @ + 1,
               !.wins = IF scaled > 0 THEN @ + 1 ELSE @,
               !.maxDrawdown = Larger(@, a.peak - a.net),
               !.peak = Larger(@, net)]

Play(a, r, s, mult, useRolling, useTrailing) ==
  LET scaled == Scaled(r.change, mult)
      bet    == IF r.bet > 0 THEN Scaled(r.bet, mult) ELSE 0
      net    == a.net + scaled
      peak   == Larger(a.peak, net)
      stop   == useTrailing /\ peak > 0 /\ FellBy([current |-> net, peak |-> peak], s.stopPct)
  IN [a EXCEPT !.net = net, !.peak = peak, !.bets = @ + 1,
               !.wins = IF scaled > 0 THEN @ + 1 ELSE @,
               !.maxDrawdown = Larger(@, peak - net),
               !.cooldown = IF stop THEN s.cooldownBets ELSE @,
               !.triggers = IF stop THEN @ + 1 ELSE @,
               !.window = IF useRolling /\ bet > 0
                          THEN LastOf(Append(@, [bet |-> bet, won |-> bet + scaled]), s.window) ELSE @]

\* Every round is passed over, skipped or played.
ReplayRound(a, r, s, stats, useHourly, useRolling, useTrailing) ==
  CASE useTrailing /\ a.cooldown > 0 -> PassOver(a)
    [] /\ ~(useTrailing /\ a.cooldown > 0)
       /\ useHourly /\ r.hour # NoHour /\ HourlyShouldSkip(stats, r.hour, s)
         -> [a EXCEPT !.skippedHourly = @ + 1]
    [] OTHER -> Play(a, r, s, IF useRolling THEN WindowMultiplier(a, s) ELSE 100, useRolling, useTrailing)

\* _replay
Replay(history, s, useHourly, useRolling, useTrailing) ==
  LET stats == HourlyStats(history)
  IN FoldLeft(LAMBDA a, r : ReplayRound(a, r, s, stats, useHourly, useRolling, useTrailing),
              ReplayStart, history)

-----------------------------------------------------------------------------
(* The drawdown of slot/analysis.py, which the screen and the exports show *)

ComputeDrawdown(history) ==
  LET add(d, r) ==
        LET net  == d.net + r.change
            peak == Larger(d.peak, net)
        IN [net |-> net, peak |-> peak, max |-> Larger(d.max, peak - net)]
  IN FoldLeft(add, [net |-> 0, peak |-> 0, max |-> 0], history)

\* What a drawdown is: the profit after n rounds, and the largest loss between two moments.
Net(history, n)   == SumOf(1 .. n, [i \in 1 .. n |-> history[i].change])
LargestFall(history) ==
  LET moments == {m \in (0 .. Len(history)) \X (0 .. Len(history)) : m[1] <= m[2]}
  IN Max({Net(history, m[1]) - Net(history, m[2]) : m \in moments})
==============================================================================
