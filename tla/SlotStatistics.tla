--------------------------- MODULE SlotStatistics ---------------------------
(***************************************************************************)
(* bot/slot/analysis.py: the accumulators of the slot machine, one spin at *)
(* a time, and what is computed from them for the Kelly strategy.          *)
(*                                                                         *)
(* A spin is a record [bet, change, lines, grid]: the symbols of the lines *)
(* that paid, and whether the grid was read with enough confidence. A      *)
(* return ratio is in whole per cent. What is paid for a line and the      *)
(* frequency of single symbols are left out: they are summed like the rest.*)
(***************************************************************************)
EXTENDS Integers, SequencesExt

CONSTANTS
  Symbols,     \* what a slot line can show
  HighKeep,    \* HIGH_MULT_KEEP
  MinSamples   \* MIN_KELLY_SAMPLES

ASSUME StatisticsAssumption == HighKeep \in Nat \ {0} /\ MinSamples \in Nat

Buckets == 1 .. 7     \* PAYOUT_BUCKETS, from "0" to HIGH_MULT_THRESHOLD and above
Limits  == <<1, 200, 500, 800, 1000, 2000>>   \* the first ratio that no longer belongs to each

MakeSlotAnalysis ==
  [spins |-> 0, wins |-> 0, losses |-> 0, wagered |-> 0, gross |-> 0,
   valid |-> 0, ratio |-> 0, ratioSq |-> 0,
   payout |-> [b \in Buckets |-> 0], high |-> <<>>,
   symbols |-> [y \in Symbols |-> 0], cells |-> 0]

Gross(spin) == IF spin.change + spin.bet > 0 THEN spin.change + spin.bet ELSE 0

\* bet > 0
Ratio(spin) == (Gross(spin) * 100) \div spin.bet

Bucket(rr) == CHOOSE b \in Buckets : /\ \A c \in 1 .. b - 1 : rr >= Limits[c]
                                     /\ b = 7 \/ rr < Limits[b]

\* high_mults[-n:]
LastOfRatios(hm, n) == IF Len(hm) <= n THEN hm ELSE SubSeq(hm, Len(hm) - n + 1, Len(hm))

\* Variant: the list of high ratios is cut one early.
AddRatioShort(sa, rr) ==
  [sa EXCEPT !.valid = @ + 1,
             !.ratio = @ + rr,
             !.ratioSq = @ + rr * rr,
             !.payout[Bucket(rr)] = @ + 1,
             !.high = IF Bucket(rr) < 7 THEN @ ELSE LastOfRatios(Append(@, rr), HighKeep - 1)]

\* The ratio of a spin with a bet enters the moments, the distribution and the list of high ones.
AddRatio(sa, rr) ==
  [sa EXCEPT !.valid = @ + 1,
             !.ratio = @ + rr,
             !.ratioSq = @ + rr * rr,
             !.payout[Bucket(rr)] = @ + 1,
             !.high = IF Bucket(rr) < 7 THEN @
                      ELSE LastOfRatios(Append(@, rr), HighKeep)]

\* The symbols of the lines that won; their payouts and the lines themselves are left out.
CountSymbols(counts, lines) ==
  FoldLeft(LAMBDA c, y : [c EXCEPT ![y] = @ + 1], counts, lines)

AddLines(sa, lines) == [sa EXCEPT !.symbols = CountSymbols(@, lines)]

\* update_slot_analysis, one spin.
UpdateSlotAnalysis(sa, spin) ==
  LET counted == [sa EXCEPT !.spins = @ + 1,
                            !.wins = IF spin.change > 0 THEN @ + 1 ELSE @,
                            !.losses = IF spin.change > 0 THEN @ ELSE @ + 1,
                            !.wagered = @ + spin.bet,
                            !.gross = @ + Gross(spin),
                            !.cells = IF spin.grid THEN @ + 9 ELSE @]
      rated   == IF spin.bet > 0 THEN AddRatio(counted, Ratio(spin)) ELSE counted
  IN AddLines(rated, spin.lines)

\* The high ratios of a sequence of spins, in their order.
SelectRatios(spins) ==
  FoldLeft(LAMBDA hm, spin : IF spin.bet > 0 /\ Bucket(Ratio(spin)) = 7 THEN Append(hm, Ratio(spin)) ELSE hm,
           <<>>, spins)

-----------------------------------------------------------------------------
(* compute_slot_stats: the Kelly fraction is used only if it is positive *)

Samples(sa)    == IF sa.valid > 0 THEN sa.valid ELSE sa.spins
Sufficient(sa) == sa.spins > 0 /\ Samples(sa) >= MinSamples

\* n (n - 1) times the sample variance.
Spread(sa) == LET d == Samples(sa) * sa.ratioSq - sa.ratio * sa.ratio IN IF d > 0 THEN d ELSE 0

(***************************************************************************)
(* The lower bound of the 95% interval of the mean ratio, ev - 1.96 SE, is *)
(* above 1. Both sides are squared, so that no root is left, and 1.96 is   *)
(* taken as 2, so that the numbers stay small.                             *)
(***************************************************************************)
KellyPositive(sa) ==
  LET n == Samples(sa)   edge == sa.ratio - 100 * n IN
  /\ n > 1
  /\ Spread(sa) > 0
  /\ edge > 0
  /\ edge * edge * (n - 1) > 4 * Spread(sa)
==============================================================================
