------------------------------ MODULE MCRounds ------------------------------
(* An instance of Rounds for TLC. *)
EXTENDS Rounds

MCSymbols == {"cherry", "seven"}

\* A line that pays, and an embed without a result while another command took from the balance, so
\* that more than the bet seems lost.
MCResults ==
  {[kind |-> "win",  amount |-> 250,  lines |-> <<"seven", "cherry">>, grid |-> TRUE],
   [kind |-> "none", amount |-> -100, lines |-> <<>>,                  grid |-> FALSE]}

MCStrategies ==
  [trailing |-> TRUE, hourly |-> TRUE, rolling |-> TRUE,
   minBets |-> 2, minWinrate |-> 40, minEv |-> 80,
   window |-> 2, lowEv |-> 90, highEv |-> 110, lowMult |-> 50, highMult |-> 200,
   stopPct |-> 40, cooldownBets |-> 1]
==============================================================================
