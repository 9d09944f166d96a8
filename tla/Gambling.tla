------------------------------ MODULE Gambling ------------------------------
(***************************************************************************)
(* bot/scheduler/gambling.py with its goal and stop-loss handling          *)
(* (bot/notifications/digest.py), beside the loops that touch the same     *)
(* balance, flags and limits: the claims of hourly.py and daily.py, which  *)
(* run the goal handling too, transfer.py, and the menu of ui/menu.py,     *)
(* which edits the live configuration.                                     *)
(*                                                                         *)
(* `real` is the balance Discord's game bot keeps, `balance` what the bot  *)
(* believes (state.balance). A command is two steps, sent and replied, with*)
(* command_lock (`busy`) held in between; its reply may be missed, and a   *)
(* /slot may be read before its prize is paid. Commands.tla has the lock's *)
(* queue and the page, Strategies the filters that may skip a cycle (here  *)
(* a skipped cycle is a stuttering step, and the multiplier a choice).     *)
(* Sleeps and e-mails last any time. Money is counted in small units.      *)
(***************************************************************************)
EXTENDS Naturals, FiniteSets

CONSTANTS
  Gambler,     \* gambling_loop
  Claimers,    \* hourly_loop, daily_loop
  None,
  MaxBalance,  \* bound: the game's balance
  Bonus,       \* what /hourly and /daily pay
  MinBet, MaxBet,
  Halves,      \* the rolling multipliers, in halves: {2} when rolling is off
  Thresholds, Goals, Floors,  \* what the configuration may start with
  Plans,       \* goal_action and loss_action it may have
  GoalStep, LossStep,
  Buffer,      \* GOAL_RAISE_THRESHOLD_BUFFER
  PauseAfter,  \* loss_streak_pause
  DeadAfter,   \* email.dead_threshold
  RecoverAfter \* RECOVER_THRESHOLD

Actors == Claimers \cup {Gambler}

\* What gambling_loop asks /balance, or a reload, for.
Reasons == {"unknown", "low", "realign", "reloaded", "slot"}

ASSUME GamblingAssumption ==
  /\ Gambler \notin Claimers
  /\ None \notin Actors /\ None \notin Nat /\ None \notin Reasons
  /\ MaxBalance \in Nat /\ Bonus \in Nat
  /\ MinBet \in Nat \ {0} /\ MaxBet \in Nat \ {0} /\ MinBet <= MaxBet
  /\ Halves \subseteq Nat
  /\ Thresholds \subseteq Nat /\ Goals \subseteq Nat /\ Floors \subseteq Nat
  /\ Plans \subseteq [goal : {"pause", "raise"}, loss : {"pause", "lower_threshold"}]
  /\ GoalStep \in Nat \ {0} /\ LossStep \in Nat \ {0}
  /\ Buffer \in Nat
  /\ PauseAfter \in Nat \ {0}
  /\ DeadAfter \in Nat \ {0}
  /\ RecoverAfter \in Nat /\ RecoverAfter > 2

VARIABLES
  real,        \* the balance the game keeps
  balance,     \* state.balance, or None
  enabled, threshold, goal, floor, \* gcfg
  plan,        \* gcfg.goal_action and loss_action
  reached,     \* state.goal_reached
  triggered,   \* state.loss_triggered
  told,        \* state.dead_notified
  losses,      \* the losing side of state.current_streak
  cooling,     \* state.cooldown_until_ts is set
  fails,       \* fail_count
  busy,        \* who holds command_lock
  pc,
  why,         \* what gambling_loop asks for, or None
  wager,       \* the bet it has decided on, and what it rests on
  prize,       \* what the running /slot pays
  target,      \* the goal a goal handling started with
  loss,        \* the balance and the floor a stop-loss handling started with
  misses,      \* failed reads in a row, whatever asked for them (history variable)
  tries,       \* those of them the loop did not wait for below the threshold (history variable)
  lateBets,    \* slots sent since gambling was disabled (history variable)
  again        \* the goal was left again while being handled (history variable)

vars == <<real, balance, enabled, threshold, goal, floor, plan, reached, triggered,
          told, losses, cooling, fails, busy, pc, why, wager, prize, target, loss,
          misses, tries, lateBets, again>>

limitVars == <<enabled, threshold, goal, floor, plan>>
goalVars  == <<reached, target, again>>
lossVars  == <<triggered, loss>>
failVars  == <<told, fails, misses, tries>>
playVars  == <<losses, cooling, why, wager, prize, lateBets>>

GoTo(a, label) == pc' = [pc EXCEPT ![a] = label]

-----------------------------------------------------------------------------
(* The bet *)

Least(m, n) == IF m <= n THEN m ELSE n
Most(m, n)  == IF m >= n THEN m ELSE n

\* Variant: no max(0, ...).
LessUnclamped(m, n) == m - n

Less(m, n)  == IF m >= n THEN m - n ELSE 0

\* fixed, auto and Kelly: the least bet, or a part of what exceeds the threshold.
BaseBets(excess) == {MinBet} \cup {Most(MinBet, excess \div d) : d \in {2, 4}}

\* Variant: the last check against the threshold is missing.
CalculateBetUnchecked(bal, thr, base, half) ==
  IF Less(bal, thr) < MinBet THEN 0
  ELSE Most(Least((base * half) \div 2, MaxBet), MinBet)

\* 0: no bet. The multiplier comes before the cap and the least bet after it.
CalculateBet(bal, thr, base, half) ==
  LET excess == Less(bal, thr)
      bet    == Most(Least((base * half) \div 2, MaxBet), MinBet)
  IN  IF excess < MinBet \/ bet > excess THEN 0 ELSE bet

-----------------------------------------------------------------------------
(* maybe_notify_goal and maybe_handle_stop_loss *)

Handling == {a \in Actors : target[a] # None}

\* Variant: the handling is not marked in goal_reached.
GoalCheckUnmarked(a, bal) ==
  IF goal > 0 /\ bal >= goal /\ ~reached
  THEN /\ target' = [target EXCEPT ![a] = goal]
       /\ GoTo(a, "mention")
       /\ UNCHANGED <<reached, again>>
  ELSE /\ GoTo(a, "top")
       /\ UNCHANGED goalVars

\* a has just stored bal: it handles the goal, unless somebody does or has.
GoalCheck(a, bal) ==
  IF goal > 0 /\ bal >= goal /\ ~reached
  THEN /\ reached' = TRUE
       /\ target' = [target EXCEPT ![a] = goal]
       /\ GoTo(a, "mention")
       /\ UNCHANGED again
  ELSE /\ reached' = (reached /\ (goal = 0 \/ bal >= goal))
       /\ again' = (again \/ (reached /\ ~reached' /\ Handling # {}))
       /\ GoTo(a, "top")
       /\ UNCHANGED target

\* Variant: the lock is taken and not given back.
MentionKeepingLock(a) ==
  /\ pc[a] = "mention"
  /\ busy = None
  /\ busy' = a
  /\ GoTo(a, "mail")
  /\ UNCHANGED <<real, balance, limitVars, goalVars, lossVars, failVars, playVars>>

\* The mention, under command_lock; its exceptions are caught.
Mention(a) ==
  /\ pc[a] = "mention"
  /\ busy = None
  /\ GoTo(a, "mail")
  /\ UNCHANGED <<real, balance, limitVars, goalVars, lossVars, failVars, playVars, busy>>

\* The e-mail is out: pause, or raise the threshold and the goal, from the goal
\* this handling started with.
GoalAct(a) ==
  /\ pc[a] = "mail"
  /\ IF plan.goal = "raise"
     THEN /\ threshold' = Less(target[a], Buffer)
          /\ goal' = target[a] + GoalStep
          /\ UNCHANGED enabled
     ELSE enabled' = FALSE /\ UNCHANGED <<threshold, goal>>
  /\ GoTo(a, "save")
  /\ UNCHANGED <<real, balance, floor, plan, goalVars, lossVars, failVars, playVars, busy>>

\* save_config is over.
GoalSaved(a) ==
  /\ pc[a] = "save"
  /\ reached' = (reached /\ plan.goal # "raise")
  /\ target' = [target EXCEPT ![a] = None]
  /\ again' = (again /\ Handling # {a})
  /\ GoTo(a, "top")
  /\ UNCHANGED <<real, balance, limitVars, lossVars, failVars, playVars, busy>>

\* The e-mail is out: pause, or lower the threshold and the floor, from the
\* balance and the floor at the time of the fall.
LossAct ==
  /\ pc[Gambler] = "lossMail"
  /\ IF plan.loss = "lower_threshold"
     THEN /\ threshold' = Less(loss.bal, LossStep)
          /\ floor' = Less(loss.floor, LossStep)
          /\ UNCHANGED enabled
     ELSE enabled' = FALSE /\ UNCHANGED <<threshold, floor>>
  /\ GoTo(Gambler, "lossSave")
  /\ UNCHANGED <<real, balance, goal, plan, goalVars, lossVars, failVars, playVars, busy>>

LossSaved ==
  /\ pc[Gambler] = "lossSave"
  /\ triggered' = (triggered /\ plan.loss # "lower_threshold")
  /\ loss' = None
  /\ GoTo(Gambler, "top")
  /\ UNCHANGED <<real, balance, limitVars, goalVars, failVars, playVars, busy>>

-----------------------------------------------------------------------------
(* gambling_loop, from its top to the next await *)

\* The balance is unknown: /balance.
AskUnknown ==
  /\ enabled /\ balance = None
  /\ why' = "unknown"
  /\ GoTo(Gambler, "query")
  /\ UNCHANGED <<losses, cooling, wager, lossVars>>

\* The floor is reached: the e-mail, then LossAct.
StopLoss ==
  /\ floor > 0 /\ balance <= floor /\ ~triggered
  /\ triggered' = TRUE
  /\ loss' = [bal |-> balance, floor |-> floor]
  /\ GoTo(Gambler, "lossMail")
  /\ UNCHANGED <<why, wager>>

\* At or below the threshold: wait, then /balance.
AskLow ==
  /\ floor = 0 \/ balance > floor
  /\ balance <= threshold
  /\ triggered' = (triggered /\ floor = 0)
  /\ why' = "low"
  /\ GoTo(Gambler, "query")
  /\ UNCHANGED <<wager, loss>>

PlaceBet ==
  /\ floor = 0 \/ balance > floor
  /\ balance > threshold
  /\ triggered' = (triggered /\ floor = 0)
  /\ \E base \in BaseBets(balance - threshold), half \in Halves :
       LET bet == CalculateBet(balance, threshold, base, half)
       IN  /\ bet > 0
           /\ wager' = [bet |-> bet, over |-> threshold, sound |-> real = balance]
  /\ GoTo(Gambler, "slot")
  /\ UNCHANGED <<why, loss>>

\* Variant: the loop does not look at `enabled`.
DecideAlways ==
  /\ pc[Gambler] = "top"
  /\ balance # None
  /\ losses' = (IF cooling THEN 0 ELSE losses)
  /\ cooling' = FALSE
  /\ StopLoss \/ AskLow \/ PlaceBet
  /\ UNCHANGED <<real, balance, limitVars, goalVars, failVars, prize, lateBets, busy>>

\* Variant: nobody waits for the end of the cool-down.
DecideHot ==
  /\ pc[Gambler] = "top"
  /\ enabled /\ balance # None
  /\ StopLoss \/ AskLow \/ PlaceBet
  /\ UNCHANGED <<real, balance, limitVars, goalVars, failVars, prize, lateBets, busy,
                 losses, cooling>>

\* One pass of the loop. A cool-down it finds set is over here; until then,
\* while disabled, and when a filter or the bet says no, the loop stays at its top.
Decide ==
  /\ pc[Gambler] = "top"
  /\ \/ AskUnknown
     \/ /\ enabled /\ balance # None
        /\ losses' = (IF cooling THEN 0 ELSE losses)
        /\ cooling' = FALSE
        /\ StopLoss \/ AskLow \/ PlaceBet
  /\ UNCHANGED <<real, balance, limitVars, goalVars, failVars, prize, lateBets, busy>>

-----------------------------------------------------------------------------
(* Commands and their replies *)

\* _reset_fail_state
Recovered ==
  /\ fails' = 0
  /\ told' = FALSE
  /\ misses' = 0
  /\ tries' = 0

\* A read failed, seen or not by fail_count.
Missed(asked) ==
  /\ misses' = Least(misses + 1, DeadAfter)
  /\ tries' = IF asked = "low" THEN tries ELSE Least(tries + 1, DeadAfter + 1)

\* Variant: one failure too late.
FailedLate(label1, label2, label3) ==
  /\ fails' = fails + 1
  /\ told' = (told \/ fails + 1 > DeadAfter)
  /\ Missed("counted")
  /\ GoTo(Gambler, IF fails + 1 >= RecoverAfter THEN label3
                   ELSE IF fails + 1 = 2 THEN label2 ELSE label1)

\* One more failure: _check_dead and notify_dead, then the loop goes on at one
\* of the three labels: the first failure, the second, the third.
Failed(label1, label2, label3) ==
  /\ fails' = fails + 1
  /\ told' = (told \/ fails + 1 >= DeadAfter)
  /\ Missed("counted")
  /\ GoTo(Gambler, IF fails + 1 >= RecoverAfter THEN label3
                   ELSE IF fails + 1 = 2 THEN label2 ELSE label1)

\* /slot is sent and played (external): refused, lost or won.
SlotSend ==
  /\ pc[Gambler] = "slot"
  /\ busy = None
  /\ busy' = Gambler
  /\ GoTo(Gambler, "slotting")
  /\ \/ real < wager.bet /\ UNCHANGED real /\ prize' = 0
     \/ /\ real >= wager.bet
        /\ prize' \in {p \in {0, 2 * wager.bet} : real - wager.bet + p <= MaxBalance}
        /\ real' = real - wager.bet + prize'
  /\ lateBets' = IF enabled THEN 0 ELSE lateBets + 1
  /\ UNCHANGED <<balance, limitVars, goalVars, lossVars, failVars, losses, cooling,
                 why, wager>>

\* What the loop takes the change of balance for: the embed's, or the difference
\* to the last balance it knew (none when that was 0).
Won(seen, parsed) ==
  IF parsed THEN prize > wager.bet
  ELSE balance \notin {None, 0} /\ seen > balance

\* play_slot returns: the balance, read after or before the prize, or nothing.
\* _process_slot_result and _reset_fail_state follow, or the failure's branches.
SlotReply ==
  /\ pc[Gambler] = "slotting"
  /\ busy' = None
  /\ prize' = 0
  /\ wager' = None
  /\ \/ \E seen \in {real, real - prize}, parsed \in BOOLEAN :
          /\ balance' = seen
          /\ losses' = IF Won(seen, parsed) THEN 0 ELSE losses + 1
          /\ cooling' = (cooling \/ losses' >= PauseAfter)
          /\ Recovered
          /\ GoTo(Gambler, "stored")
          /\ UNCHANGED why
     \/ /\ Failed("top", "query", "reload")
        /\ why' = IF fails + 1 >= RecoverAfter THEN "slot"
                  ELSE IF fails + 1 = 2 THEN "realign" ELSE why
        /\ UNCHANGED <<balance, losses, cooling>>
  /\ UNCHANGED <<real, limitVars, goalVars, lossVars, lateBets>>

\* The result is in the database and mailed: a claim may have stored a newer
\* balance in the meantime.
SlotStored ==
  /\ pc[Gambler] = "stored"
  /\ GoalCheck(Gambler, balance)
  /\ UNCHANGED <<real, balance, limitVars, lossVars, failVars, playVars, busy>>

\* /balance, sent and answered or not, for each of its reasons. Only the failure
\* to find out an unknown balance counts; the others are passed over, and the one
\* after a reload sets fail_count back.
Query ==
  /\ pc[Gambler] = "query"
  /\ busy = None
  /\ \/ /\ balance' = real
        /\ Recovered
        /\ why' = None
        /\ IF why \in {"unknown", "low"}
           THEN GoalCheck(Gambler, real)
           ELSE GoTo(Gambler, "top") /\ UNCHANGED goalVars
     \/ /\ why = "unknown"
        /\ Failed("top", "top", "reload")
        /\ why' = IF fails + 1 >= RecoverAfter THEN "unknown" ELSE None
        /\ UNCHANGED <<balance, goalVars>>
     \/ /\ why # "unknown"
        /\ fails' = IF why = "reloaded" THEN 0 ELSE fails
        /\ Missed(why)
        /\ why' = None
        /\ GoTo(Gambler, "top")
        /\ UNCHANGED <<balance, goalVars, told>>
  /\ UNCHANGED <<real, limitVars, lossVars, losses, cooling, wager, prize, lateBets, busy>>

\* recover_page; a failure is the end of it, except when the balance is unknown.
Reload ==
  /\ pc[Gambler] = "reload"
  /\ busy = None
  /\ \/ /\ why' = "reloaded"
        /\ GoTo(Gambler, "query")
        /\ UNCHANGED fails
     \/ /\ why = "slot"
        /\ fails' = 0
        /\ GoTo(Gambler, "top")
        /\ why' = None
  /\ UNCHANGED <<real, balance, limitVars, goalVars, lossVars, told, misses, tries,
                 losses, cooling, wager, prize, lateBets, busy>>

\* /hourly, /daily: paid or not (external).
ClaimSend(c) ==
  /\ pc[c] = "top"
  /\ busy = None
  /\ busy' = c
  /\ GoTo(c, "claiming")
  /\ \/ real + Bonus <= MaxBalance /\ real' = real + Bonus
     \/ UNCHANGED real
  /\ UNCHANGED <<balance, limitVars, goalVars, lossVars, failVars, playVars>>

ClaimReply(c) ==
  /\ pc[c] = "claiming"
  /\ busy' = None
  /\ \/ balance' = real /\ GoalCheck(c, real)
     \/ GoTo(c, "top") /\ UNCHANGED <<balance, goalVars>>
  /\ UNCHANGED <<real, limitVars, lossVars, failVars, playVars>>

\* transfer.py: the game's balance falls, state.balance is not told.
Transfer ==
  /\ busy = None
  /\ real > 0
  /\ real' = real - 1
  /\ wager' = IF pc[Gambler] = "slot" THEN [wager EXCEPT !.sound = FALSE] ELSE wager
  /\ UNCHANGED <<balance, limitVars, goalVars, lossVars, failVars, losses, cooling,
                 why, prize, lateBets, busy, pc>>

-----------------------------------------------------------------------------
(* The menu *)

Toggle ==
  /\ enabled' = ~enabled
  /\ lateBets' = 0
  /\ UNCHANGED <<real, balance, threshold, goal, floor, plan, goalVars, lossVars, failVars,
                 losses, cooling, why, wager, prize, busy, pc>>

\* What the bot's validation says of the floor and the threshold. The menu only
\* warns, at its end, and stores limits that contradict each other all the same.
Valid(f, thr) == f = 0 \/ thr = 0 \/ f < thr

SetThreshold ==
  /\ threshold' \in Thresholds \ {threshold}
  /\ UNCHANGED <<real, balance, enabled, goal, floor, plan, goalVars, lossVars, failVars,
                 playVars, busy, pc>>

SetGoal ==
  /\ goal' \in Goals \ {goal}
  /\ reached' = FALSE
  /\ again' = (Handling # {})
  /\ UNCHANGED <<real, balance, enabled, threshold, floor, plan, target, lossVars, failVars,
                 playVars, busy, pc>>

SetFloor ==
  /\ floor' \in Floors \ {floor}
  /\ triggered' = FALSE
  /\ UNCHANGED <<real, balance, enabled, threshold, goal, plan, goalVars, loss, failVars,
                 playVars, busy, pc>>

-----------------------------------------------------------------------------
Init ==
  /\ real \in 0 .. MaxBalance
  /\ balance \in {None, real}
  /\ enabled = TRUE
  /\ threshold \in Thresholds
  /\ goal \in Goals
  /\ floor \in Floors
  /\ Valid(floor, threshold)
  /\ plan \in Plans
  /\ reached = FALSE /\ triggered = FALSE /\ told = FALSE
  /\ losses = 0
  /\ cooling = FALSE
  /\ fails = 0
  /\ busy = None
  /\ pc = [a \in Actors |-> "top"]
  /\ why = None
  /\ wager = None
  /\ prize = 0
  /\ target = [a \in Actors |-> None]
  /\ loss = None
  /\ misses = 0 /\ tries = 0 /\ lateBets = 0 /\ again = FALSE

GoalSteps(a) == Mention(a) \/ GoalAct(a) \/ GoalSaved(a)

Next ==
  \/ Decide \/ SlotSend \/ SlotReply \/ SlotStored \/ Query \/ Reload \/ LossAct \/ LossSaved
  \/ \E a \in Actors : GoalSteps(a)
  \/ \E c \in Claimers : ClaimSend(c) \/ ClaimReply(c)
  \/ Transfer \/ Toggle \/ SetThreshold \/ SetGoal \/ SetFloor

\* The steps the bot takes by itself. command_lock is first come, first served:
\* a waiter is served though others keep asking.
Fairness ==
  /\ WF_vars(SlotReply) /\ WF_vars(SlotStored) /\ WF_vars(LossAct) /\ WF_vars(LossSaved)
  /\ \A a \in Actors : SF_vars(Mention(a)) /\ WF_vars(GoalAct(a)) /\ WF_vars(GoalSaved(a))
  /\ \A c \in Claimers : WF_vars(ClaimReply(c))

Safety == Init /\ [][Next]_vars
Spec == Safety /\ Fairness

-----------------------------------------------------------------------------
(* Properties *)

GoalLabels == {"mention", "mail", "save"}
Labels == GoalLabels \cup {"top", "slot", "slotting", "stored", "query", "reload",
                          "claiming", "lossMail", "lossSave"}

\* The shape of the state.
TypeOK ==
  /\ real \in Nat
  /\ balance \in Nat \cup {None}
  /\ threshold \in Nat /\ goal \in Nat /\ floor \in Nat
  /\ plan \in Plans
  /\ enabled \in BOOLEAN /\ reached \in BOOLEAN /\ triggered \in BOOLEAN
  /\ told \in BOOLEAN /\ cooling \in BOOLEAN /\ again \in BOOLEAN
  /\ losses \in Nat /\ fails \in Nat /\ lateBets \in Nat
  /\ misses \in 0 .. DeadAfter /\ tries \in 0 .. DeadAfter + 1
  /\ busy \in Actors \cup {None}
  /\ pc \in [Actors -> Labels]
  /\ why \in Reasons \cup {None}
  /\ wager \in [bet : Nat, over : Nat, sound : BOOLEAN] \cup {None}
  /\ prize \in Nat
  /\ target \in [Actors -> Nat \cup {None}]
  /\ loss \in [bal : Nat, floor : Nat] \cup {None}

\* gambling.py:95-99: a bet decided on a balance that was right, and that no
\* transfer has touched since, leaves the game's balance at the threshold of
\* that time even when it is lost, however long the command waits for the lock
\* and whatever the claims and the goal handling do meanwhile.
FloorKept ==
  pc[Gambler] = "slot" /\ wager.sound => real >= wager.bet + wager.over

\* digest.py:169-170, 234-235: once gambling is disabled by a goal, a stop loss
\* or the menu, at most the bet that was already waiting for the lock is played.
PauseBinds == lateBets <= 1

\* digest.py:124-126 tests and sets goal_reached without an await in between:
\* four callers in three loops, and still a second handling starts beside a
\* running one only after the goal was left, or set, again.
GoalOnce == Cardinality(Handling) <= 1 \/ again

\* digest.py:391-405: no warning before DeadAfter reads have failed in a row; and
\* once one more than DeadAfter have, those the loop waits for below its threshold
\* aside, the warning is out. The one more is the /balance by which the loop tries
\* to realign itself after two failed slots (gambling.py:299-306).
AlarmTimely ==
  /\ told => misses >= DeadAfter
  /\ tries > DeadAfter => told

\* gambling.py:172-183, 380-385: no bet is placed after PauseAfter losses in a row
\* until the cool-down is over.
CoolsDown == losses <= PauseAfter

\* A goal handling ends, though it waits for the lock and for the mail server.
GoalEnds == \A a \in Actors : pc[a] = "mention" ~> pc[a] = "top"

\* What validate() (config.py:122) asks of every configuration holds of the one
\* the bot writes itself.
LimitsValid == Valid(floor, threshold)

============================================================================
