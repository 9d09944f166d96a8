-------------------------------- MODULE Neko --------------------------------
(***************************************************************************)
(* nekomusume_loop of bot/scheduler/nekomusume.py with the queries of      *)
(* bot/discord/client.py:840: /check is read from the whole page, where    *)
(* old replies stay until newer messages push them out.                    *)
(*                                                                         *)
(* The cat, its owner and the other messages of the channel act on their   *)
(* own. The countdown to the next check is left out: a check may come at   *)
(* any time. The neko section is enabled.                                  *)
(***************************************************************************)
EXTENDS LoopHealth, Sequences, SequencesExt

CONSTANT View       \* messages the page shows

ASSUME NekoAssumption == View \in Nat \ {0}

VARIABLES
  cat,         \* "idle", "out" on a dispatch, or "home" with its loot
  page,        \* the messages on the page: "out" and "in" answer /check
  asked,       \* a /check is not answered yet
  nekoPc,
  autoClaim,   \* nekomusume.auto_claim
  last,        \* last_status
  nekoStatus,  \* state.neko_status
  real,        \* is_real_transition of the notification under way
  claimed,     \* its auto_claimed
  nekoEvents,  \* returns, losses, chatter and restarts the model still plays (bound)
  owed,        \* the cat came back from a dispatch the loop knew of (history variable)
  tells,       \* notifications sent (history variable)
  reasons      \* returns, unknown answers after a dispatch, claims at a start (history variable)

nekoVars == <<cat, page, asked, nekoPc, autoClaim, last, nekoStatus, real, claimed,
              nekoEvents, owed, tells, reasons>>
game == <<cat, page, asked>>
past == <<owed, tells, reasons>>

NekoInit ==
  /\ cat \in {"idle", "out", "home"} /\ page = <<>> /\ asked = FALSE
  /\ nekoPc = "top" /\ autoClaim \in BOOLEAN
  /\ last = "none" /\ nekoStatus = "unknown" /\ real = FALSE /\ claimed = FALSE
  /\ owed = FALSE /\ tells = 0 /\ reasons = 0

Push(message) ==
  LET all == Append(page, message) IN SubSeq(all, (IF Len(all) > View THEN 2 ELSE 1), Len(all))

NekoEvent == nekoEvents > 0 /\ nekoEvents' = nekoEvents - 1

-----------------------------------------------------------------------------
(* The game, the owner and the channel *)

\* The cat comes home, or the owner claims, claims and sends out again, or sends out.
CatMoves ==
  /\ NekoEvent
  /\ \/ cat = "out" /\ cat' = "home"
     \/ cat = "home" /\ cat' \in {"idle", "out"}
     \/ cat = "idle" /\ cat' = "out"
  /\ owed' = (owed \/ (cat = "out" /\ nekoStatus = "dispatching"))
  /\ reasons' = IF cat = "out" THEN reasons + 1 ELSE reasons
  /\ UNCHANGED <<page, asked, nekoPc, autoClaim, last, nekoStatus, real, claimed, tells>>

Chatter ==
  /\ NekoEvent /\ page' = Push("other")
  /\ UNCHANGED <<cat, asked, nekoPc, autoClaim, last, nekoStatus, real, claimed, past>>

\* The answer to /check, at once, late or never.
AnswerCheck ==
  /\ asked /\ asked' = FALSE
  /\ \/ page' = Push(IF cat = "out" THEN "out" ELSE "in") /\ UNCHANGED nekoEvents
     \/ NekoEvent /\ UNCHANGED page
  /\ UNCHANGED <<cat, nekoPc, autoClaim, last, nekoStatus, real, claimed, past>>

-----------------------------------------------------------------------------
(* read_check_response and parse_dispatch_status *)

\* The first message that says "dispatching" wins, however old it is.
ParseDispatchStatus ==
  IF Contains(page, "out") THEN "dispatching"
  ELSE IF Contains(page, "in") THEN "not_dispatching"
  ELSE "unknown"

AskCheck(from, to) ==
  /\ nekoPc = from /\ nekoPc' = to /\ asked' = TRUE
  /\ MarkRunning("neko")
  /\ UNCHANGED <<cat, page, autoClaim, last, nekoStatus, real, claimed, nekoEvents, past>>

\* The text of the page, or an exception or an unread page, which count as "unknown".
QueryStatus(new) ==
  \/ new = ParseDispatchStatus /\ MarkOk("neko") /\ UNCHANGED nekoEvents
  \/ new = "unknown" /\ MarkFailed("neko") /\ NekoEvent

-----------------------------------------------------------------------------
(* nekomusume_loop *)

NekoCheck == AskCheck("top", "read")

ReadCheck ==
  /\ nekoPc = "read"
  /\ \E new \in {"dispatching", "not_dispatching", "unknown"} :
       LET ended   == new # "dispatching" /\ last = "dispatching"
           started == new # "dispatching" /\ last = "none" /\ autoClaim
       IN /\ QueryStatus(new)
          /\ nekoStatus' = new
          /\ IF ended \/ started
             THEN nekoPc' = "claim" /\ real' = ended /\ UNCHANGED last
             ELSE nekoPc' = "top" /\ last' = new /\ UNCHANGED real
          /\ reasons' = IF ended /\ new = "unknown" THEN reasons + 1 ELSE reasons
  /\ claimed' = FALSE
  /\ UNCHANGED <<game, autoClaim, owed, tells>>

\* auto_claim_and_redispatch_neko: /nekomusume status shows a button to a cat with loot.
AskToClaim ==
  /\ nekoPc = "claim" /\ autoClaim /\ nekoPc' = "click"
  /\ \/ page' = Push(IF cat = "home" THEN "button" ELSE "other") /\ UNCHANGED nekoEvents
     \/ NekoEvent /\ UNCHANGED page
  /\ UNCHANGED <<cat, asked, autoClaim, last, nekoStatus, real, claimed, past, health>>

\* Any button with that text on the page is clicked; an old one moves nothing.
ClickClaim ==
  /\ nekoPc = "click" /\ nekoPc' = "tell"
  /\ claimed' = Contains(page, "button")
  /\ cat' = IF claimed' /\ cat = "home" THEN "out" ELSE cat
  /\ reasons' = IF claimed' /\ ~real THEN reasons + 1 ELSE reasons
  /\ UNCHANGED <<page, asked, autoClaim, last, nekoStatus, real, nekoEvents, owed, tells, health>>

SkipClaim ==
  /\ nekoPc = "claim" /\ ~autoClaim /\ nekoPc' = "tell"
  /\ UNCHANGED <<game, autoClaim, last, nekoStatus, real, claimed, nekoEvents, past, health>>

\* Variant: a completion is told at a start whether or not anything was claimed.
ShouldNotifyAlways == TRUE

\* A completion that was seen is told; at a start only a claim that went through is.
ShouldNotify == real \/ claimed

TellCompletion ==
  /\ nekoPc = "tell"
  /\ IF ShouldNotify THEN tells' = tells + 1 /\ owed' = FALSE ELSE UNCHANGED <<tells, owed>>
  /\ nekoPc' = IF claimed THEN "recheck" ELSE "settle"
  /\ UNCHANGED <<game, autoClaim, last, nekoStatus, real, claimed, nekoEvents, reasons, health>>

\* After a claim the state is asked for again.
Recheck == AskCheck("recheck", "reread")

ReadAgain ==
  /\ nekoPc = "reread" /\ nekoPc' = "settle"
  /\ \E new \in {"dispatching", "not_dispatching", "unknown"} :
       QueryStatus(new) /\ nekoStatus' = new
  /\ UNCHANGED <<game, autoClaim, last, real, claimed, past>>

\* Variant: last_status is what the first look gave, not what stands after the claim.
SettleFirst ==
  /\ nekoPc = "settle" /\ nekoPc' = "top"
  /\ last' = IF claimed THEN "not_dispatching" ELSE nekoStatus
  /\ UNCHANGED <<game, autoClaim, nekoStatus, real, claimed, nekoEvents, past, health>>

\* nekomusume.py:191: last_status is the status as it stands now.
Settle ==
  /\ nekoPc = "settle" /\ nekoPc' = "top"
  /\ last' = nekoStatus
  /\ UNCHANGED <<game, autoClaim, nekoStatus, real, claimed, nekoEvents, past, health>>

\* The program starts again; its page shows the last messages of the channel, or none.
RestartNeko ==
  /\ NekoEvent
  /\ nekoPc' = "top" /\ last' = "none" /\ nekoStatus' = "unknown"
  /\ real' = FALSE /\ claimed' = FALSE /\ asked' = FALSE
  /\ page' \in {page, <<>>} /\ owed' = FALSE
  /\ health' = [health EXCEPT !["neko"] = Healthy]
  /\ UNCHANGED <<cat, autoClaim, tells, reasons>>

NekoStep == \/ NekoCheck \/ ReadCheck \/ AskToClaim \/ ClickClaim \/ SkipClaim \/ TellCompletion
            \/ Recheck \/ ReadAgain \/ Settle \/ RestartNeko

NekoNext == NekoStep \/ ((CatMoves \/ Chatter \/ AnswerCheck) /\ UNCHANGED health)
=============================================================================
