------------------------------- MODULE Rounds -------------------------------
(***************************************************************************)
(* The rounds of gambling_loop as data: the history in memory and in the   *)
(* database (bot/core/db.py), the statistics and their snapshots, the      *)
(* strategies that look at them (bot/slot/strategies.py) and the trailing  *)
(* stop's baseline, beside the menu that clears them (ui/maintenance.py),  *)
(* the dashboard's reset, restarts and crashes.                            *)
(*                                                                         *)
(* Balances, limits and failures are in Gambling; here a round is decided  *)
(* by the strategies and has a result. The bet is taken under the strategy *)
(* "kelly" from an excess that is never short.                             *)
(***************************************************************************)
EXTENDS Strategies, SlotStatistics

CONSTANTS
  MaxLen,      \* HISTORY_MAX_LEN
  Slack,       \* db.py:345: rows above MaxLen that are left before a trim (50)
  SaveEvery,   \* gambling.py:430: spins between two snapshots of the statistics
  S,           \* the strategies' part of GamblingConfig
  MinBet, MaxBet,  \* gcfg.min_bet, gcfg.max_bet (0: none)
  KellyBet,    \* what half Kelly gives
  Results,     \* the outcomes of a spin: [kind, amount, lines, grid]
  LastHour,    \* bound: the last hour of the day the model reaches
  MaxRounds,   \* bound: rounds played
  MaxEvents    \* bound: clears, restarts, failed writes or trims, and new hours

ASSUME RoundsAssumption ==
  /\ MaxLen \in Nat \ {0} /\ SaveEvery \in Nat \ {0}
  /\ MinBet \in Nat \ {0} /\ MaxBet \in Nat /\ KellyBet \in Nat \ {0}
  /\ Slack \in Nat /\ MaxRounds \in Nat /\ MaxEvents \in Nat
  /\ LastHour \in Hours
  /\ S.lowMult \in Nat /\ S.highMult \in Nat    \* config.py:143
  /\ S.cooldownBets \in Nat                     \* config.py:149
  /\ \A result \in Results :                      \* parsers.py:176, gambling.py:347
       \/ result.kind \in {"win", "loss"} /\ result.amount \in Nat
       \/ result.kind = "none" /\ result.amount \in Int

VARIABLES
  pc,        \* gambling_loop: decides, plays, appends its round, saves the statistics
  menu,      \* what the menu or the dashboard is in the middle of
  hour,
  bet,       \* the bet under way
  round,     \* history_record of the round under way
  due,       \* total_spins was a multiple of SaveEvery when the round was counted
  history,   \* state.history
  rows,      \* table history
  sa,        \* state.slot_analysis
  snap,      \* table slot_analysis: at most one
  baseline,  \* state.trailing_baseline_idx
  cooling,   \* state.trailing_cooldown_until_ts is set
  played,    \* rounds played (bound)
  events,    \* clears, restarts, failed writes or trims, and new hours (bound)
  since,     \* rounds since the baseline was set (history variable)
  shifted,   \* rounds before the baseline left the list (history variable)
  torn,      \* a row was not written, or a clear met a round (history variable)
  counted,   \* the spins in sa (history variable)
  inSnap,    \* the spins in snap (history variable)
  unsaved    \* the last snapshot failed, or met a reset (history variable)

inRound  == <<pc, bet, round, due, played>>
trailing == <<baseline, cooling, since, shifted>>
mirror   == <<history, rows, torn>>
stats    == <<sa, counted>>
saved    == <<snap, inSnap, unsaved>>
vars     == <<inRound, events, menu, hour, trailing, mirror, stats, saved>>

NoRound == [bet |-> 0, change |-> 0, hour |-> NoHour]

Init ==
  /\ pc = "decide" /\ menu = "out"
  /\ hour = 0 /\ bet = 0 /\ round = NoRound /\ due = FALSE
  /\ history = <<>> /\ rows = <<>> /\ torn = FALSE
  /\ sa = MakeSlotAnalysis /\ counted = <<>>
  /\ snap = {} /\ inSnap = <<>> /\ unsaved = FALSE
  /\ baseline = 0 /\ cooling = FALSE /\ since = <<>> /\ shifted = FALSE
  /\ played = 0 /\ events = 0

Event == events < MaxEvents /\ events' = events + 1

-----------------------------------------------------------------------------
(* One round *)

Capped(b) == IF MaxBet > 0 /\ MaxBet < b THEN MaxBet ELSE b

\* calculate_bet under "kelly"; what is below the least bet after multiplier and cap is the least.
CalculateBet(mult) ==
  LET base == IF Sufficient(sa) /\ KellyPositive(sa) THEN Larger(MinBet, KellyBet) ELSE MinBet
  IN Larger(MinBet, Capped((base * mult) \div 100))

\* Variant: the baseline is kept.
ResumeKeepingBaseline ==
  /\ cooling
  /\ cooling' = FALSE
  /\ since' = <<>>
  /\ shifted' = FALSE
  /\ UNCHANGED baseline

\* The cool-down of the trailing stop is over: its view starts at the end of the list.
Resume ==
  /\ cooling
  /\ cooling' = FALSE
  /\ baseline' = Len(history)
  /\ since' = <<>>
  /\ shifted' = FALSE

StayCalm == ~cooling /\ UNCHANGED trailing

SkipHour == S.hourly /\ history # <<>> /\ HourlyShouldSkip(HourlyStats(history), hour, S)

\* The trailing stop lets go, the hourly filter has nothing against the hour: the bet is set.
Decide ==
  /\ pc = "decide"
  /\ Resume \/ StayCalm
  /\ ~ShouldPauseTrailing(history, S, baseline')
  /\ ~SkipHour
  /\ bet' = CalculateBet(IF S.rolling THEN RollingMultiplier(RollingEv(history, S.window), S) ELSE 100)
  /\ pc' = "play"
  /\ UNCHANGED <<round, due, played, events, menu, hour, mirror, stats, saved>>

\* The trailing stop triggers.
CoolDown ==
  /\ pc = "decide"
  /\ ~cooling
  /\ ShouldPauseTrailing(history, S, baseline)
  /\ cooling' = TRUE
  /\ UNCHANGED <<inRound, events, menu, hour, baseline, since, shifted, mirror, stats, saved>>

\* The hourly filter after a cool-down: the baseline is set and no bet is made.
ResumeOnly ==
  /\ pc = "decide"
  /\ Resume
  /\ SkipHour
  /\ UNCHANGED <<inRound, events, menu, hour, mirror, stats, saved>>

\* The list in memory keeps the last MaxLen rounds.
Remember(r) == history' = LastOf(Append(history, r), MaxLen)

\* What the embed says was paid or lost, or else the difference of two balances, which may be anything:
\* a loss may exceed the bet.
Change(b, result) ==
  CASE result.kind = "win"  -> result.amount - b
    [] result.kind = "loss" -> - result.amount
    [] result.kind = "none" -> result.amount

\* _process_slot_result up to its first await: the list and the statistics, under state.lock.
Process ==
  /\ pc = "play"
  /\ played < MaxRounds
  /\ \E result \in Results :
       LET change == Change(bet, result)
           spin   == [bet |-> bet, change |-> change, lines |-> result.lines, grid |-> result.grid]
       IN /\ round' = [bet |-> bet, change |-> change, hour |-> hour]
          /\ Remember(round')
          /\ since' = Append(since, round')
          /\ sa' = UpdateSlotAnalysis(sa, spin)
          /\ counted' = Append(counted, spin)
  /\ due' = (sa'.spins % SaveEvery = 0)
  /\ shifted' = (shifted \/ (baseline > 0 /\ Len(history) >= MaxLen))
  /\ torn' = (torn \/ menu \in {"rowsGone", "allRows", "allSnap"})
  /\ played' = played + 1
  /\ pc' = "append"
  /\ UNCHANGED <<bet, events, menu, hour, baseline, cooling, rows, saved>>

\* The row alone: the count or the trim behind it failed.
InsertLoose(r) == rows' = Append(rows, r)

\* Variant: the table is trimmed to one row less.
InsertTight(r) ==
  LET all == Append(rows, r) IN
  rows' = IF Len(all) > MaxLen + Slack THEN LastOf(all, MaxLen - 1) ELSE all

\* append_history: the row, and a trim of the oldest once there are Slack rows too many.
Insert(r) ==
  LET all == Append(rows, r) IN
  rows' = IF Len(all) > MaxLen + Slack THEN LastOf(all, MaxLen) ELSE all

(***************************************************************************)
(* Row and trim are written, or the database fails, which is logged: each  *)
(* statement commits by itself (isolation_level=None), so the row may be   *)
(* there without the trim. Every SaveEvery spins a snapshot follows.       *)
(***************************************************************************)
AppendHistory ==
  /\ pc = "append"
  /\ \/ Insert(round) /\ UNCHANGED <<torn, events>>
     \/ InsertLoose(round) /\ UNCHANGED torn /\ Event
     \/ UNCHANGED rows /\ torn' = TRUE /\ Event
  /\ pc' = IF due THEN "save" ELSE "decide"
  /\ UNCHANGED <<bet, round, due, played, menu, hour, history, trailing, stats, saved>>

\* save_slot_analysis writes the object as it is now.
Store == snap' = {sa} /\ inSnap' = counted

\* Variant: the snapshot is left to the end of the program.
SaveAtEnd ==
  /\ pc = "save"
  /\ pc' = "decide"
  /\ UNCHANGED <<bet, round, due, played, events, menu, hour, trailing, mirror, stats, saved>>

Save ==
  /\ pc = "save"
  /\ pc' = "decide"
  /\ \/ Store /\ unsaved' = (menu \in {"resetRow", "allSnap"}) /\ UNCHANGED events
     \/ UNCHANGED <<snap, inSnap>> /\ unsaved' = TRUE /\ Event
  /\ UNCHANGED <<bet, round, due, played, menu, hour, trailing, mirror, stats>>

-----------------------------------------------------------------------------
(* The menu, and the dashboard's thread *)

ForgetHistory ==
  /\ history' = <<>>
  /\ since' = <<>>
  /\ shifted' = (shifted \/ baseline > 0)
  /\ torn' = (pc = "append" \/ torn)
  /\ UNCHANGED <<rows, baseline, cooling>>

ForgetStatistics == sa' = MakeSlotAnalysis /\ counted' = <<>>

DropRows ==
  /\ rows' = <<>>
  /\ torn' = (pc = "append" \/ torn)
  /\ UNCHANGED history

DropSnapshot == snap' = {} /\ inSnap' = <<>>

\* [3] clear_history: the table first, in a thread; the list when the menu goes on.
ClearRows ==
  /\ menu = "out"
  /\ Event
  /\ menu' = "rowsGone"
  /\ DropRows
  /\ UNCHANGED <<inRound, hour, trailing, stats, saved>>

ClearList ==
  /\ menu = "rowsGone"
  /\ menu' = "out"
  /\ ForgetHistory
  /\ UNCHANGED <<inRound, events, hour, stats, saved>>

\* [4], and reset_analysis of the dashboard: memory first, then the row.
ResetStatistics ==
  /\ menu = "out"
  /\ Event
  /\ menu' = "resetRow"
  /\ ForgetStatistics
  /\ UNCHANGED <<inRound, hour, trailing, mirror, saved>>

ResetRow ==
  /\ menu = "resetRow"
  /\ menu' = "out"
  /\ DropSnapshot
  /\ UNCHANGED <<inRound, events, hour, trailing, mirror, stats, unsaved>>

\* [5] everything: both tables, then both objects.
ClearAllRows ==
  /\ menu = "out"
  /\ Event
  /\ menu' = "allRows"
  /\ DropRows
  /\ UNCHANGED <<inRound, hour, trailing, stats, saved>>

\* The statistics are without their snapshot until memory follows.
ClearAllSnapshot ==
  /\ menu = "allRows"
  /\ menu' = "allSnap"
  /\ DropSnapshot
  /\ unsaved' = TRUE
  /\ UNCHANGED <<inRound, events, hour, trailing, mirror, stats>>

ClearAllMemory ==
  /\ menu = "allSnap"
  /\ menu' = "out"
  /\ ForgetHistory
  /\ ForgetStatistics
  /\ UNCHANGED <<inRound, events, hour, saved>>

-----------------------------------------------------------------------------
(* Time, the end of the program and its next start *)

HourPasses ==
  /\ hour < LastHour
  /\ Event
  /\ hour' = hour + 1
  /\ UNCHANGED <<inRound, menu, trailing, mirror, stats, saved>>

\* main loads the statistics and every row that is left; the baseline is not kept.
Load ==
  /\ pc' = "decide" /\ menu' = "out"
  /\ bet' = 0 /\ round' = NoRound /\ due' = FALSE
  /\ history' = rows /\ torn' = FALSE
  /\ sa' = (IF snap' = {} THEN MakeSlotAnalysis ELSE CHOOSE x \in snap' : TRUE)
  /\ counted' = inSnap' /\ unsaved' = FALSE
  /\ baseline' = 0 /\ cooling' = FALSE /\ since' = rows /\ shifted' = FALSE
  /\ UNCHANGED <<hour, rows, played>>

\* An orderly end: gambling_loop is cancelled at any await, the last save follows.
Exit  == Event /\ Store /\ Load
Crash == UNCHANGED events /\ UNCHANGED <<snap, inSnap>> /\ Load

Next ==
  \/ Decide \/ CoolDown \/ ResumeOnly \/ Process \/ AppendHistory \/ Save
  \/ ClearRows \/ ClearList \/ ResetStatistics \/ ResetRow
  \/ ClearAllRows \/ ClearAllSnapshot \/ ClearAllMemory
  \/ HourPasses \/ Exit \/ Crash

Spec == Init /\ [][Next]_vars

-----------------------------------------------------------------------------
(* Properties *)

\* Types and sizes: the table is over its limit by no more than the trims that failed, and the list by
\* no more than what a start loads from it.
TypeOK ==
  /\ pc \in {"decide", "play", "append", "save"}
  /\ menu \in {"out", "rowsGone", "resetRow", "allRows", "allSnap"}
  /\ hour \in 0 .. LastHour /\ bet \in Nat /\ played \in 0 .. MaxRounds /\ events \in 0 .. MaxEvents
  /\ Len(history) <= MaxLen + Slack + events /\ Len(rows) <= MaxLen + Slack + events
  /\ \A i \in DOMAIN history : history[i].hour \in Hours /\ history[i].bet >= MinBet
  /\ Cardinality(snap) <= 1 /\ sa.spins = sa.wins + sa.losses
  /\ {due, cooling, shifted, torn, unsaved} \subseteq BOOLEAN

(***************************************************************************)
(* state.history ("the mirror of the last N in memory", gambling.py) is    *)
(* the end of the table, and all of it that the limit allows: the two cuts *)
(* at different lengths never lose a round one of them still needs.        *)
(***************************************************************************)
MirrorAgrees ==
  ~torn /\ pc # "append" /\ menu \in {"out", "resetRow"} =>
    /\ history = LastOf(rows, Len(history))
    /\ Len(history) >= MaxLen \/ history = rows

(***************************************************************************)
(* The trailing stop judges the rounds since its last cool-down, or since  *)
(* the start, and no others, as long as none before them has left the list.*)
(***************************************************************************)
TrailingExact ==
  ~shifted => From(history, baseline) \in {since, LastOf(since, MaxLen)}

(***************************************************************************)
(* gambling.py:212: after the cool-down the drawdown is counted afresh     *)
(* from 0, so the rounds played since then are what the stop looks at.     *)
(***************************************************************************)
TrailingSees == since # <<>> => From(history, baseline) # <<>>

(***************************************************************************)
(* The accumulated statistics are those of the spins counted: the split    *)
(* into wins and losses, what was bet and what was paid (nothing where     *)
(* more than the bet was lost), the moments, the distribution of the       *)
(* ratios and the list of high ones, however spins, resets and restarts    *)
(* alternate.                                                              *)
(***************************************************************************)
Summarise(a, spins) ==
  LET all   == DOMAIN spins
      rated == {i \in all : spins[i].bet > 0}
  IN /\ a.wins = Cardinality({i \in all : spins[i].change > 0})
     /\ a.spins = Len(spins)
     /\ a.wagered = SumOf(all, [i \in all |-> spins[i].bet])
     /\ a.gross = SumOf(all, [i \in all |-> Larger(0, spins[i].bet + spins[i].change)])
     /\ a.valid = Cardinality(rated)
     /\ a.ratio = SumOf(rated, [i \in rated |-> Ratio(spins[i])])
     /\ \A b \in Buckets : a.payout[b] = Cardinality({i \in rated : Bucket(Ratio(spins[i])) = b})
     /\ a.high = LastOf(SelectRatios(spins), HighKeep)
     /\ Samples(a) * a.ratioSq >= a.ratio * a.ratio

StatsAgree == Summarise(sa, counted)

(***************************************************************************)
(* The menu has reported that everything is cleared, or that the           *)
(* statistics are reset (maintenance.py:211, 226): no spin from before     *)
(* waits in the database for the next start.                               *)
(***************************************************************************)
ResetStays == menu = "out" => IsPrefix(inSnap, counted)

(***************************************************************************)
(* gambling.py:429: a snapshot every SaveEvery spins, so that a crash does *)
(* not lose much. Between rounds the snapshot is a beginning of what is    *)
(* counted, less than SaveEvery spins behind, unless the last save failed  *)
(* or met a reset.                                                         *)
(***************************************************************************)
LittleLost ==
  ~unsaved /\ pc \notin {"append", "save"} /\ menu \notin {"resetRow", "allSnap"} =>
    /\ inSnap = SubSeq(counted, 1, Len(inSnap))
    /\ Len(counted) - Len(inSnap) < SaveEvery

(***************************************************************************)
(* The backtest on the same history. Without a strategy its profit and its *)
(* largest drawdown are those of the screen (slot/analysis.py), and the    *)
(* drawdown is the largest fall between two moments; the tables by hour of *)
(* the screen and of the hourly filter differ in nothing but what was lost *)
(* beyond the bet (analysis.py:367 counts nothing, strategies.py:60 less   *)
(* than nothing); and with any strategies every round is played or skipped.*)
(***************************************************************************)
HoursAgree(past) ==
  LET breakdown == HourlyBreakdown(past)
  IN \A h \in Hours :
       LET shown  == breakdown[h]
           judged == HourlyStats(past)[h]
           beyond == {i \in DOMAIN past : past[i].hour = h /\ past[i].bet + past[i].change < 0}
       IN /\ shown.bets = judged.bets /\ shown.wins = judged.wins /\ shown.wagered = judged.wagered
          /\ judged.won - shown.won = SumOf(beyond, [i \in beyond |-> past[i].bet + past[i].change])

ReplaysAgree ==
  LET plain == Replay(history, S, FALSE, FALSE, FALSE)
      shown == ComputeDrawdown(history)
  IN /\ plain.net = shown.net /\ plain.maxDrawdown = shown.max
     /\ shown.max = LargestFall(history)
     /\ plain.peak = DrawdownPct(history).peak
     /\ HoursAgree(history)
     /\ \A h, r, t \in BOOLEAN :
          LET a == Replay(history, S, h, r, t) IN
          /\ a.bets + a.skippedHourly + a.skippedTrailing = Len(history)
          /\ a.triggers * S.cooldownBets = a.skippedTrailing + a.cooldown
==============================================================================
