----------------------------- MODULE MCGambling -----------------------------
(***************************************************************************)
(* Small money: a balance of at most four units, bets of one or two, one    *)
(* loop beside gambling that claims (hourly) and handles goals as well,    *)
(* transfers, and a menu that enables gambling again or sets another goal. *)
(***************************************************************************)
EXTENDS Gambling

CONSTANTS gambling, hourly

MCClaimers == {hourly}
MCLowering == {[goal |-> "pause", loss |-> "lower_threshold"]}
MCPlans    == {[goal |-> "raise", loss |-> "pause"],
               [goal |-> "pause", loss |-> "lower_threshold"]}
============================================================================
