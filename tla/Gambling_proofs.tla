-------------------------- MODULE Gambling_proofs ---------------------------
(***************************************************************************)
(* Proofs about Gambling for every configuration, number of claiming       *)
(* loops, size of the bets and length of the streaks.                      *)
(***************************************************************************)
EXTENDS Gambling, FiniteSetTheorems, TLAPS

(***************************************************************************)
(* The inductive invariant: what each label of a loop says of the lock and *)
(* of what the loop carries from one await to the next (Places); that no   *)
(* late bet was sent before the one that waits (Late); that a handling     *)
(* under way is marked in goal_reached (Once); that a streak at its limit  *)
(* has its cool-down (Cool).                                               *)
(***************************************************************************)
Places ==
  /\ pc[Gambler] \in {"slot", "slotting"} => wager \in [bet : Nat, over : Nat, sound : BOOLEAN]
  /\ pc[Gambler] = "slotting" => busy = Gambler /\ prize <= real
  /\ pc[Gambler] = "lossMail" => loss \in [bal : Nat, floor : Nat]
  /\ \A c \in Claimers : pc[c] = "claiming" => busy = c
  /\ \A a \in Actors : pc[a] \in GoalLabels => target[a] \in Nat

Late ==
  /\ lateBets <= 1
  /\ enabled \/ pc[Gambler] = "slot" => lateBets = 0

Once ==
  /\ \A a, b \in Actors : target[a] # None /\ target[b] # None => a = b \/ again
  /\ \A a \in Actors : target[a] # None => reached \/ again

Cool ==
  /\ losses <= PauseAfter
  /\ losses = PauseAfter => cooling
  /\ pc[Gambler] \in {"slot", "slotting"} => losses < PauseAfter

\* fail_count beside the failed reads, when the warning comes no later than the
\* reload that clears it: until the warning is out nothing has been reloaded, and
\* at most one read, the realigning one, went past the count.
Uncounted == IF fails >= 2 /\ why # "realign" THEN 1 ELSE 0

Alarm ==
  /\ misses < DeadAfter => fails <= misses
  /\ told => misses >= DeadAfter
  /\ ~told => /\ fails < DeadAfter
              /\ tries <= fails + Uncounted
              /\ pc[Gambler] # "reload"
              /\ pc[Gambler] = "query" => why # "reloaded"
  /\ why = "realign" => pc[Gambler] = "query" /\ fails >= 2
  /\ pc[Gambler] = "query" => why \in {"unknown", "low", "realign", "reloaded"}

Base == TypeOK /\ Places
IInv == Base /\ FloorKept /\ Late /\ Once /\ Cool

-----------------------------------------------------------------------------
(* The bet *)

LEMMA LessNat == \A m, n \in Nat : Less(m, n) \in Nat /\ (m >= n => Less(m, n) = m - n)
BY DEF Less

LEMMA HalvesOf ==
  ASSUME NEW base \in Nat, NEW half \in Nat
  PROVE  (base * half) \div 2 \in Nat
<1> DEFINE product == base * half
<1>1. product \in Nat
  OBVIOUS
<1>. HIDE DEF product
<1>2. product \div 2 \in Nat
  BY <1>1
<1>. QED
  BY <1>2 DEF product

LEMMA BaseBetsNat == \A excess \in Nat : BaseBets(excess) \subseteq Nat
<1> SUFFICES ASSUME NEW excess \in Nat, NEW d \in {2, 4}
             PROVE  MinBet \in Nat /\ Most(MinBet, excess \div d) \in Nat
  BY GamblingAssumption DEF BaseBets
<1>1. excess \div 2 \in Nat /\ excess \div 4 \in Nat
  OBVIOUS
<1>. QED
  BY <1>1, GamblingAssumption DEF Most

\* A bet never exceeds what the balance has above the threshold, whatever the
\* strategy asks for and the multiplier makes of it.
LEMMA BetBounded ==
  ASSUME NEW bal \in Nat, NEW thr \in Nat, NEW base \in Nat, NEW half \in Nat
  PROVE  /\ CalculateBet(bal, thr, base, half) \in Nat
         /\ CalculateBet(bal, thr, base, half) <= Less(bal, thr)
<1> DEFINE asked == (base * half) \div 2
<1>1. asked \in Nat
  BY HalvesOf
<1>. HIDE DEF asked
<1>2. Most(Least(asked, MaxBet), MinBet) \in Nat
  BY <1>1, GamblingAssumption DEF Most, Least
<1>3. Less(bal, thr) \in Nat
  BY LessNat
<1>. QED
  BY <1>2, <1>3 DEF CalculateBet, asked

LEMMA BetPlaced ==
  ASSUME TypeOK, balance # None, PlaceBet
  PROVE  /\ wager' \in [bet : Nat, over : Nat, sound : BOOLEAN]
         /\ wager'.sound => real >= wager'.bet + wager'.over
<1>1. balance \in Nat /\ threshold \in Nat /\ real \in Nat /\ balance > threshold
  BY DEF TypeOK, PlaceBet
<1>2. PICK base \in BaseBets(balance - threshold), half \in Halves :
        wager' = [bet |-> CalculateBet(balance, threshold, base, half), over |-> threshold,
                  sound |-> real = balance]
  BY DEF PlaceBet
<1>3. base \in Nat /\ half \in Nat
  <2>1. balance - threshold \in Nat
    BY <1>1
  <2>. QED
    BY <2>1, BaseBetsNat, GamblingAssumption
<1> DEFINE bet == CalculateBet(balance, threshold, base, half)
<1>4. bet \in Nat /\ bet <= balance - threshold
  BY <1>1, <1>3, BetBounded, LessNat
<1>. HIDE DEF bet
<1> DEFINE sound == real = balance
<1>5. wager' = [bet |-> bet, over |-> threshold, sound |-> sound]
  BY <1>2 DEF bet
<1>6. sound \in BOOLEAN /\ (sound => real = balance)
  OBVIOUS
<1>. HIDE DEF sound
<1>7. wager'.bet = bet /\ wager'.over = threshold /\ wager'.sound = sound
  BY <1>5
<1>8. wager' \in [bet : Nat, over : Nat, sound : BOOLEAN]
  BY <1>1, <1>4, <1>5, <1>6
<1>9. sound => real >= bet + threshold
  BY <1>1, <1>4, <1>6
<1>. QED
  BY <1>7, <1>8, <1>9

-----------------------------------------------------------------------------
(* Types *)

Limits == /\ threshold \in Nat /\ goal \in Nat /\ floor \in Nat
          /\ plan \in Plans /\ enabled \in BOOLEAN

Money == real \in Nat /\ balance \in Nat \cup {None} /\ prize \in Nat

GoalTyped == reached \in BOOLEAN /\ again \in BOOLEAN /\ target \in [Actors -> Nat \cup {None}]

LossTyped == triggered \in BOOLEAN /\ loss \in [bal : Nat, floor : Nat] \cup {None}

FailTyped == /\ told \in BOOLEAN /\ fails \in Nat
             /\ misses \in 0 .. DeadAfter /\ tries \in 0 .. DeadAfter + 1

StreakTyped == cooling \in BOOLEAN /\ losses \in Nat /\ lateBets \in Nat

CallTyped == /\ busy \in Actors \cup {None}
             /\ pc \in [Actors -> Labels]
             /\ why \in Reasons \cup {None}
             /\ wager \in [bet : Nat, over : Nat, sound : BOOLEAN] \cup {None}

Typed == Limits /\ Money /\ GoalTyped /\ LossTyped /\ FailTyped /\ StreakTyped /\ CallTyped

LEMMA TypeParts == (TypeOK <=> Typed) /\ (TypeOK' <=> Typed')
BY DEF TypeOK, Typed, Limits, Money, GoalTyped, LossTyped, FailTyped, StreakTyped, CallTyped

\* What a goal check does to its actor and to the handlings.
LEMMA GoalChecked ==
  ASSUME GoalTyped, Limits, pc \in [Actors -> Labels], NEW a \in Actors, NEW bal,
         GoalCheck(a, bal)
  PROVE  /\ GoalTyped'
         /\ \E label \in {"mention", "top"} : pc' = [pc EXCEPT ![a] = label]
         /\ pc' \in [Actors -> Labels]
         /\ pc'[a] = "mention" => target'[a] \in Nat
         /\ \A b \in Actors \ {a} : target'[b] = target[b]
<1>1. CASE goal > 0 /\ bal >= goal /\ ~reached
  <2>1. /\ reached' = TRUE /\ again' = again
        /\ target' = [target EXCEPT ![a] = goal]
        /\ pc' = [pc EXCEPT ![a] = "mention"]
    BY <1>1 DEF GoalCheck, GoTo
  <2>. QED
    BY <2>1 DEF GoalTyped, Limits, Labels, GoalLabels
<1>2. CASE ~(goal > 0 /\ bal >= goal /\ ~reached)
  <2>1. /\ reached' \in BOOLEAN /\ again' \in BOOLEAN
        /\ target' = target
        /\ pc' = [pc EXCEPT ![a] = "top"]
    BY <1>2 DEF GoalCheck, GoTo, GoalTyped
  <2>. QED
    BY <2>1 DEF GoalTyped, Labels
<1>. QED
  BY <1>1, <1>2

LEMMA MissedTyped ==
  ASSUME misses \in 0 .. DeadAfter, tries \in 0 .. DeadAfter + 1, NEW asked, Missed(asked)
  PROVE  misses' \in 0 .. DeadAfter /\ tries' \in 0 .. DeadAfter + 1
<1>1. DeadAfter \in Nat
  BY GamblingAssumption
<1>. QED
  BY <1>1 DEF Missed, Least

LEMMA FailedTyped ==
  ASSUME FailTyped, pc \in [Actors -> Labels], NEW l1 \in Labels, NEW l2 \in Labels,
         NEW l3 \in Labels, Failed(l1, l2, l3)
  PROVE  FailTyped' /\ pc' \in [Actors -> Labels]
<1>1. DeadAfter \in Nat /\ Gambler \in Actors
  BY GamblingAssumption DEF Actors
<1>2. misses' \in 0 .. DeadAfter /\ tries' \in 0 .. DeadAfter + 1 /\ fails' \in Nat
  BY MissedTyped DEF Failed, FailTyped
<1>3. told' \in BOOLEAN
  BY DEF Failed, FailTyped
<1>4. pc' \in [Actors -> Labels]
  BY <1>1 DEF Failed, GoTo
<1>. QED
  BY <1>2, <1>3, <1>4 DEF FailTyped

LEMMA RecoveredTyped == ASSUME Recovered PROVE FailTyped'
<1>1. 0 \in Nat /\ 0 \in 0 .. DeadAfter /\ 0 \in 0 .. DeadAfter + 1
  BY GamblingAssumption
<1>2. fails' = 0 /\ misses' = 0 /\ tries' = 0 /\ told' = FALSE
  BY DEF Recovered
<1>. QED
  BY <1>1, <1>2 DEF FailTyped

LEMMA ActorsOf == Gambler \in Actors /\ (\A c \in Claimers : c \in Actors /\ c # Gambler)
BY GamblingAssumption DEF Actors

LEMMA LabelsOf ==
  {"top", "mention", "mail", "save", "slot", "slotting", "stored", "query", "reload",
   "claiming", "lossMail", "lossSave"} \subseteq Labels
BY DEF Labels, GoalLabels

\* Going to a label keeps pc a function to the labels.
LEMMA GoToTyped ==
  ASSUME pc \in [Actors -> Labels], NEW a, NEW label \in Labels, GoTo(a, label)
  PROVE  pc' \in [Actors -> Labels]
BY DEF GoTo

\* What all passes of gambling_loop that know the balance decide.
LEMMA DecisionTyped ==
  ASSUME TypeOK, balance # None, StopLoss \/ AskLow \/ PlaceBet
  PROVE  LossTyped' /\ why' \in Reasons \cup {None}
         /\ wager' \in [bet : Nat, over : Nat, sound : BOOLEAN] \cup {None}
         /\ pc' \in [Actors -> Labels]
<1>. USE LabelsOf DEF Reasons
<1>0. balance \in Nat /\ floor \in Nat /\ pc \in [Actors -> Labels]
      /\ why \in Reasons \cup {None} /\ LossTyped
      /\ wager \in [bet : Nat, over : Nat, sound : BOOLEAN] \cup {None}
  BY DEF TypeOK, LossTyped
<1>1. CASE StopLoss
  <2>1. loss' = [bal |-> balance, floor |-> floor] /\ triggered' = TRUE
        /\ why' = why /\ wager' = wager /\ GoTo(Gambler, "lossMail")
    BY <1>1 DEF StopLoss
  <2>. QED
    BY <1>0, <2>1, GoToTyped DEF LossTyped
<1>2. CASE AskLow
  <2>1. loss' = loss /\ why' = "low" /\ wager' = wager /\ GoTo(Gambler, "query")
    BY <1>2 DEF AskLow
  <2>2. triggered' \in BOOLEAN
    BY <1>0, <1>2 DEF AskLow, LossTyped
  <2>. QED
    BY <1>0, <2>1, <2>2, GoToTyped DEF LossTyped
<1>3. CASE PlaceBet
  <2>1. loss' = loss /\ why' = why /\ GoTo(Gambler, "slot")
    BY <1>3 DEF PlaceBet
  <2>2. triggered' \in BOOLEAN
    BY <1>0, <1>3 DEF PlaceBet, LossTyped
  <2>3. wager' \in [bet : Nat, over : Nat, sound : BOOLEAN]
    BY <1>3, BetPlaced
  <2>. QED
    BY <1>0, <2>1, <2>2, <2>3, GoToTyped DEF LossTyped
<1>. QED
  BY <1>1, <1>2, <1>3

LEMMA DecideTyped == ASSUME TypeOK, Decide PROVE TypeOK'
<1>. USE LabelsOf, TypeParts DEF Typed
<1>1. Limits' /\ Money' /\ GoalTyped' /\ FailTyped' /\ busy' \in Actors \cup {None}
  <2>1. UNCHANGED <<real, balance, limitVars, goalVars, failVars, prize, lateBets, busy>>
    BY DEF Decide
  <2>. QED
    BY <2>1 DEF TypeOK, Limits, Money, GoalTyped, FailTyped, limitVars, goalVars, failVars
<1>2. CASE AskUnknown
  <2>1. LossTyped' /\ StreakTyped'
    BY <1>2 DEF AskUnknown, Decide, TypeOK, LossTyped, StreakTyped, lossVars
  <2>2. CallTyped'
    BY <1>1, <1>2, GoToTyped DEF AskUnknown, TypeOK, CallTyped, Reasons
  <2>. QED
    BY <1>1, <2>1, <2>2
<1>3. CASE /\ enabled /\ balance # None
           /\ losses' = (IF cooling THEN 0 ELSE losses)
           /\ cooling' = FALSE
           /\ StopLoss \/ AskLow \/ PlaceBet
  <2>1. losses' \in Nat /\ lateBets' \in Nat
    BY <1>3 DEF Decide, TypeOK
  <2>2. StreakTyped'
    BY <1>3, <2>1 DEF StreakTyped
  <2>. QED
    BY <1>1, <1>3, <2>2, DecisionTyped DEF CallTyped, Reasons
<1>. QED
  BY <1>2, <1>3 DEF Decide

\* The steps of a goal handling.
LEMMA GoalStepsTyped ==
  ASSUME TypeOK, Places, NEW a \in Actors, GoalSteps(a)
  PROVE  TypeOK'
<1>. USE LabelsOf, TypeParts DEF Typed
<1>1. CASE Mention(a)
  <2>1. CallTyped'
    BY <1>1, GoToTyped DEF Mention, TypeOK, CallTyped, playVars
  <2>. QED
    BY <1>1, <2>1 DEF Mention, Limits, Money, GoalTyped, LossTyped, FailTyped, StreakTyped,
                      limitVars, goalVars, lossVars, failVars, playVars
<1>2. CASE GoalAct(a)
  <2>1. CallTyped'
    BY <1>2, GoToTyped DEF GoalAct, TypeOK, CallTyped, playVars
  <2>2. target[a] \in Nat
    BY <1>2 DEF GoalAct, Places, GoalLabels
  <2>3. Less(target[a], Buffer) \in Nat /\ target[a] + GoalStep \in Nat
    <3>1. Buffer \in Nat /\ GoalStep \in Nat
      BY GamblingAssumption
    <3>2. Less(target[a], Buffer) \in Nat
      BY <2>2, <3>1, LessNat
    <3>3. target[a] + GoalStep \in Nat
      BY <2>2, <3>1
    <3>. QED
      BY <3>2, <3>3
  <2>4. Limits'
    <3>1. CASE plan.goal = "raise"
      BY <1>2, <2>3, <3>1 DEF GoalAct, Limits
    <3>2. CASE plan.goal # "raise"
      BY <1>2, <3>2 DEF GoalAct, Limits
    <3>. QED
      BY <3>1, <3>2
  <2>. QED
    BY <1>2, <2>1, <2>4 DEF GoalAct, Money, GoalTyped, LossTyped, FailTyped, StreakTyped,
                            goalVars, lossVars, failVars, playVars
<1>3. CASE GoalSaved(a)
  <2>1. CallTyped'
    BY <1>3, GoToTyped DEF GoalSaved, TypeOK, CallTyped, playVars
  <2>2. target' \in [Actors -> Nat \cup {None}]
    BY <1>3 DEF GoalSaved, GoalTyped
  <2>3. reached' \in BOOLEAN /\ again' \in BOOLEAN
    BY <1>3 DEF GoalSaved, GoalTyped
  <2>. QED
    BY <1>3, <2>1, <2>2, <2>3 DEF GoalSaved, Limits, Money, GoalTyped, LossTyped, FailTyped,
                                  StreakTyped, limitVars, lossVars, failVars, playVars
<1>. QED
  BY <1>1, <1>2, <1>3 DEF GoalSteps

LEMMA LossStepsTyped == ASSUME TypeOK, Places, LossAct \/ LossSaved PROVE TypeOK'
<1>. USE LabelsOf, TypeParts DEF Typed
<1>1. CASE LossAct
  <2>1. CallTyped'
    BY <1>1, GoToTyped DEF LossAct, TypeOK, CallTyped, playVars
  <2>2. loss \in [bal : Nat, floor : Nat]
    BY <1>1 DEF LossAct, Places
  <2>3. Less(loss.bal, LossStep) \in Nat /\ Less(loss.floor, LossStep) \in Nat
    BY <2>2, LessNat, GamblingAssumption
  <2>4. Limits'
    <3>1. CASE plan.loss = "lower_threshold"
      BY <1>1, <2>3, <3>1 DEF LossAct, Limits
    <3>2. CASE plan.loss # "lower_threshold"
      BY <1>1, <3>2 DEF LossAct, Limits
    <3>. QED
      BY <3>1, <3>2
  <2>. QED
    BY <1>1, <2>1, <2>4 DEF LossAct, Money, GoalTyped, LossTyped, FailTyped, StreakTyped,
                            goalVars, lossVars, failVars, playVars
<1>2. CASE LossSaved
  <2>1. CallTyped'
    BY <1>2, GoToTyped DEF LossSaved, TypeOK, CallTyped, playVars
  <2>2. LossTyped'
    BY <1>2 DEF LossSaved, LossTyped
  <2>. QED
    BY <1>2, <2>1, <2>2 DEF LossSaved, Limits, Money, GoalTyped, FailTyped, StreakTyped,
                            limitVars, goalVars, failVars, playVars
<1>. QED
  BY <1>1, <1>2

\* A /slot, sent and answered, and what is stored of it.
LEMMA SlotSendTyped ==
  ASSUME TypeOK, Places, SlotSend
  PROVE  TypeOK' /\ prize' <= real'
<1>. USE LabelsOf, TypeParts DEF Typed
<1>1. CallTyped'
  BY GoToTyped, ActorsOf DEF SlotSend, TypeOK, CallTyped
<1>2. wager \in [bet : Nat, over : Nat, sound : BOOLEAN] /\ real \in Nat
  BY DEF SlotSend, Places, TypeOK
<1>3. real' \in Nat /\ prize' \in Nat /\ prize' <= real'
  <2>1. CASE real < wager.bet /\ UNCHANGED real /\ prize' = 0
    BY <1>2, <2>1
  <2>2. CASE /\ real >= wager.bet
             /\ prize' \in {p \in {0, 2 * wager.bet} : real - wager.bet + p <= MaxBalance}
             /\ real' = real - wager.bet + prize'
    <3>1. wager.bet \in Nat
      BY <1>2
    <3>2. prize' = 0 \/ prize' = 2 * wager.bet
      BY <2>2
    <3>. QED
      BY <1>2, <2>2, <3>1, <3>2
  <2>. QED
    BY <2>1, <2>2 DEF SlotSend
<1>4. Money'
  BY <1>3 DEF Money, SlotSend
<1>5. lateBets' \in Nat
  BY DEF SlotSend, StreakTyped
<1>. QED
  BY <1>1, <1>3, <1>4, <1>5 DEF SlotSend, Limits, GoalTyped, LossTyped, FailTyped, StreakTyped,
                                limitVars, goalVars, lossVars, failVars

LEMMA SlotReplyTyped == ASSUME TypeOK, Places, SlotReply PROVE TypeOK'
<1>. USE LabelsOf, TypeParts DEF Typed
<1>0. real \in Nat /\ prize \in Nat /\ prize <= real /\ losses \in Nat
      /\ pc \in [Actors -> Labels]
  BY DEF SlotReply, Places, TypeOK
<1>1. Limits' /\ GoalTyped' /\ LossTyped'
  BY DEF SlotReply, Limits, GoalTyped, LossTyped, limitVars, goalVars, lossVars
<1>2. real' = real /\ lateBets' = lateBets /\ prize' = 0 /\ busy' = None /\ wager' = None
  BY DEF SlotReply
<1>3. ASSUME NEW seen \in {real, real - prize}, NEW parsed \in BOOLEAN,
             /\ balance' = seen
             /\ losses' = IF Won(seen, parsed) THEN 0 ELSE losses + 1
             /\ cooling' = (cooling \/ losses' >= PauseAfter)
             /\ Recovered
             /\ GoTo(Gambler, "stored")
             /\ UNCHANGED why
      PROVE  TypeOK'
  <2>1. seen \in Nat
    BY <1>0
  <2>2. losses' \in Nat
    BY <1>0, <1>3
  <2>3. cooling' \in BOOLEAN
    BY <1>3 DEF StreakTyped
  <2>4. CallTyped'
    BY <1>0, <1>2, <1>3, GoToTyped DEF CallTyped
  <2>. QED
    BY <1>0, <1>1, <1>2, <1>3, <2>1, <2>2, <2>3, <2>4, RecoveredTyped DEF Money, StreakTyped
<1>4. CASE /\ Failed("top", "query", "reload")
           /\ why' = IF fails + 1 >= RecoverAfter THEN "slot"
                     ELSE IF fails + 1 = 2 THEN "realign" ELSE why
           /\ UNCHANGED <<balance, losses, cooling>>
  <2>1. FailTyped' /\ pc' \in [Actors -> Labels]
    BY <1>0, <1>4, FailedTyped
  <2>2. CallTyped'
    BY <1>2, <1>4, <2>1 DEF CallTyped, Reasons
  <2>. QED
    BY <1>1, <1>2, <1>4, <2>1, <2>2 DEF Money, StreakTyped
<1>. QED
  BY <1>3, <1>4 DEF SlotReply

\* /balance and the reload of the page.
LEMMA AskTyped == ASSUME TypeOK, Query \/ Reload PROVE TypeOK'
<1>. USE LabelsOf, ActorsOf, TypeParts DEF Typed
<1>0. pc \in [Actors -> Labels] /\ real \in Nat
  BY DEF TypeOK
<1>1. CASE Query
  <2>1. Limits' /\ LossTyped' /\ StreakTyped' /\ busy' = busy /\ wager' = wager
        /\ real' = real /\ prize' = prize
    BY <1>1 DEF Query, Limits, LossTyped, StreakTyped, limitVars, lossVars
  <2>2. CASE /\ balance' = real
             /\ Recovered
             /\ why' = None
             /\ IF why \in {"unknown", "low"}
                THEN GoalCheck(Gambler, real)
                ELSE GoTo(Gambler, "top") /\ UNCHANGED goalVars
    <3>1. GoalTyped' /\ pc' \in [Actors -> Labels]
      <4>1. CASE why \in {"unknown", "low"}
        BY <1>0, <2>2, <4>1, GoalChecked
      <4>2. CASE why \notin {"unknown", "low"}
        BY <1>0, <2>2, <4>2, GoToTyped DEF GoalTyped, goalVars
      <4>. QED
        BY <4>1, <4>2
    <3>2. Money'
      BY <2>1, <2>2 DEF Money
    <3>3. CallTyped'
      BY <2>1, <2>2, <3>1 DEF CallTyped
    <3>. QED
      BY <2>1, <2>2, <3>1, <3>2, <3>3, RecoveredTyped
  <2>3. CASE /\ why = "unknown"
             /\ Failed("top", "top", "reload")
             /\ why' = IF fails + 1 >= RecoverAfter THEN "unknown" ELSE None
             /\ UNCHANGED <<balance, goalVars>>
    <3>1. FailTyped' /\ pc' \in [Actors -> Labels]
      BY <1>0, <2>3, FailedTyped
    <3>2. CallTyped'
      BY <2>1, <2>3, <3>1 DEF CallTyped
    <3>. QED
      BY <2>1, <2>3, <3>1, <3>2 DEF Money, GoalTyped, goalVars
  <2>4. CASE /\ why # "unknown"
             /\ fails' = IF why = "reloaded" THEN 0 ELSE fails
             /\ Missed(why)
             /\ why' = None
             /\ GoTo(Gambler, "top")
             /\ UNCHANGED <<balance, goalVars, told>>
    <3>1. fails' \in Nat
      BY <2>4 DEF FailTyped
    <3>2. FailTyped'
      BY <2>4, <3>1, MissedTyped DEF FailTyped
    <3>3. CallTyped'
      BY <1>0, <2>1, <2>4, GoToTyped DEF CallTyped
    <3>. QED
      BY <2>1, <2>4, <3>2, <3>3 DEF Money, GoalTyped, goalVars
  <2>. QED
    BY <1>1, <2>2, <2>3, <2>4 DEF Query
<1>2. CASE Reload
  <2>1. fails' \in Nat
    BY <1>2 DEF Reload, FailTyped
  <2>2. pc' \in [Actors -> Labels] /\ why' \in {"reloaded", None}
    BY <1>0, <1>2, GoToTyped DEF Reload, Reasons
  <2>3. CallTyped'
    BY <1>2, <2>2 DEF Reload, CallTyped, Reasons
  <2>. QED
    BY <1>2, <2>1, <2>3 DEF Reload, Limits, Money, GoalTyped, LossTyped, FailTyped,
                            StreakTyped, limitVars, goalVars, lossVars
<1>. QED
  BY <1>1, <1>2

LEMMA ClaimTyped ==
  ASSUME TypeOK, NEW c \in Claimers, ClaimSend(c) \/ ClaimReply(c)
  PROVE  TypeOK'
<1>. USE LabelsOf, ActorsOf, TypeParts DEF Typed
<1>0. pc \in [Actors -> Labels] /\ real \in Nat
  BY DEF TypeOK
<1>1. CASE ClaimSend(c)
  <2>1. real' \in Nat
    BY <1>0, <1>1, GamblingAssumption DEF ClaimSend
  <2>2. CallTyped'
    BY <1>0, <1>1, GoToTyped DEF ClaimSend, CallTyped, playVars
  <2>. QED
    BY <1>1, <2>1, <2>2 DEF ClaimSend, Limits, Money, GoalTyped, LossTyped, FailTyped,
                            StreakTyped, limitVars, goalVars, lossVars, failVars, playVars
<1>2. CASE ClaimReply(c)
  <2>1. GoalTyped' /\ pc' \in [Actors -> Labels] /\ balance' \in {real, balance}
    <3>1. CASE balance' = real /\ GoalCheck(c, real)
      BY <1>0, <3>1, GoalChecked
    <3>2. CASE GoTo(c, "top") /\ UNCHANGED <<balance, goalVars>>
      BY <1>0, <3>2, GoToTyped DEF GoalTyped, goalVars
    <3>. QED
      BY <1>2, <3>1, <3>2 DEF ClaimReply
  <2>2. CallTyped'
    BY <1>2, <2>1 DEF ClaimReply, CallTyped, playVars
  <2>. QED
    BY <1>2, <2>1, <2>2 DEF ClaimReply, Limits, Money, LossTyped, FailTyped, StreakTyped,
                            limitVars, lossVars, failVars, playVars
<1>. QED
  BY <1>1, <1>2

LEMMA StoredTyped == ASSUME TypeOK, SlotStored PROVE TypeOK'
<1>. USE ActorsOf, TypeParts DEF Typed
<1>1. GoalTyped' /\ pc' \in [Actors -> Labels]
  BY GoalChecked DEF SlotStored, TypeOK
<1>. QED
  BY <1>1 DEF SlotStored, CallTyped, Limits, Money, LossTyped, FailTyped, StreakTyped,
              limitVars, lossVars, failVars, playVars

LEMMA TransferTyped == ASSUME TypeOK, Places, Transfer PROVE TypeOK'
<1>. USE TypeParts DEF Typed
<1>1. real' \in Nat
  BY DEF Transfer, TypeOK
<1>2. wager' \in [bet : Nat, over : Nat, sound : BOOLEAN] \cup {None}
  <2>1. CASE pc[Gambler] = "slot"
    <3>1. wager \in [bet : Nat, over : Nat, sound : BOOLEAN]
      BY <2>1 DEF Places
    <3>2. wager' = [wager EXCEPT !.sound = FALSE]
      BY <2>1 DEF Transfer
    <3>. QED
      BY <3>1, <3>2
  <2>2. CASE pc[Gambler] # "slot"
    BY <2>2 DEF Transfer, TypeOK
  <2>. QED
    BY <2>1, <2>2
<1>. QED
  BY <1>1, <1>2 DEF Transfer, CallTyped, Limits, Money, GoalTyped, LossTyped, FailTyped,
                    StreakTyped, limitVars, goalVars, lossVars, failVars

Menu == Toggle \/ SetThreshold \/ SetGoal \/ SetFloor

LEMMA MenuTyped == ASSUME TypeOK, Menu PROVE TypeOK'
<1>. USE TypeParts, GamblingAssumption DEF Typed
<1>1. CASE Toggle
  BY <1>1 DEF Toggle, CallTyped, Limits, Money, GoalTyped, LossTyped, FailTyped, StreakTyped,
              goalVars, lossVars, failVars
<1>2. CASE SetThreshold
  BY <1>2 DEF SetThreshold, CallTyped, Limits, Money, GoalTyped, LossTyped, FailTyped,
              StreakTyped, goalVars, lossVars, failVars, playVars
<1>3. CASE SetGoal
  <2>1. Limits'
    BY <1>3 DEF SetGoal, Limits
  <2>2. GoalTyped'
    BY <1>3 DEF SetGoal, GoalTyped
  <2>3. Money' /\ LossTyped' /\ FailTyped'
    BY <1>3 DEF SetGoal, Money, LossTyped, FailTyped, lossVars, failVars, playVars
  <2>4. StreakTyped' /\ CallTyped'
    BY <1>3 DEF SetGoal, StreakTyped, CallTyped, playVars
  <2>. QED
    BY <2>1, <2>2, <2>3, <2>4
<1>4. CASE SetFloor
  <2>1. Limits'
    BY <1>4 DEF SetFloor, Limits
  <2>2. LossTyped'
    BY <1>4 DEF SetFloor, LossTyped
  <2>3. Money' /\ GoalTyped' /\ FailTyped'
    BY <1>4 DEF SetFloor, Money, GoalTyped, FailTyped, goalVars, failVars, playVars
  <2>4. StreakTyped' /\ CallTyped'
    BY <1>4 DEF SetFloor, StreakTyped, CallTyped, playVars
  <2>. QED
    BY <2>1, <2>2, <2>3, <2>4
<1>. QED
  BY <1>1, <1>2, <1>3, <1>4 DEF Menu

LEMMA NextTyped == ASSUME TypeOK, Places, Next PROVE TypeOK'
BY DecideTyped, SlotSendTyped, SlotReplyTyped, StoredTyped, AskTyped, LossStepsTyped,
   GoalStepsTyped, ClaimTyped, TransferTyped, MenuTyped DEF Next, Menu

-----------------------------------------------------------------------------
(* What each label says of the lock and of what its loop carries *)

\* A step of gambling_loop that reaches none of the labels Places speaks of
\* (but perhaps the first of a goal handling), and leaves the lock to its owner.
LEMMA GamblerMoves ==
  ASSUME Base, TypeOK',
         \A c \in Claimers : pc'[c] = pc[c] /\ target'[c] = target[c],
         pc'[Gambler] \notin {"slot", "slotting", "lossMail"},
         pc'[Gambler] \in GoalLabels => target'[Gambler] \in Nat,
         busy' = busy \/ busy = Gambler
  PROVE  Places'
<1>1. \A c \in Claimers : pc'[c] = "claiming" => busy' = c
  BY ActorsOf DEF Base, Places
<1>2. \A a \in Actors : pc'[a] \in GoalLabels => target'[a] \in Nat
  BY DEF Actors, Base, Places
<1>. QED
  BY <1>1, <1>2 DEF Places

\* A step of a claiming loop, or of nobody: gambling_loop stays where it is.
LEMMA OthersMove ==
  ASSUME Base, TypeOK',
         pc'[Gambler] = pc[Gambler], target'[Gambler] = target[Gambler],
         wager' = wager \/ wager' \in [bet : Nat, over : Nat, sound : BOOLEAN],
         loss' = loss, prize' = prize,
         pc[Gambler] = "slotting" => busy' = busy /\ real' >= real,
         \A c \in Claimers : pc'[c] = "claiming" => busy' = c,
         \A c \in Claimers : pc'[c] \in GoalLabels => target'[c] \in Nat
  PROVE  Places'
<1>1. pc'[Gambler] = "slotting" => busy' = Gambler /\ prize' <= real'
  BY DEF Base, Places, TypeOK
<1>2. \A a \in Actors : pc'[a] \in GoalLabels => target'[a] \in Nat
  BY DEF Actors, Base, Places
<1>. QED
  BY <1>1, <1>2 DEF Base, Places

\* GoTo moves one loop.
LEMMA Moved ==
  ASSUME TypeOK, NEW a \in Actors, NEW label, GoTo(a, label)
  PROVE  pc'[a] = label /\ \A b \in Actors \ {a} : pc'[b] = pc[b]
BY DEF TypeOK, GoTo

LEMMA DecidePlaces == ASSUME Base, TypeOK', Decide PROVE Places'
<1>. USE ActorsOf
<1>0. TypeOK /\ target' = target /\ busy' = busy
  BY DEF Base, Decide, goalVars
<1>1. CASE AskUnknown \/ AskLow
  <2>1. GoTo(Gambler, "query")
    BY <1>1 DEF AskUnknown, AskLow
  <2>2. pc'[Gambler] = "query" /\ \A c \in Claimers : pc'[c] = pc[c]
    BY <1>0, <2>1, Moved
  <2>. QED
    BY <1>0, <2>2, GamblerMoves DEF GoalLabels
<1>2. CASE StopLoss /\ balance # None
  <2>1. GoTo(Gambler, "lossMail") /\ loss' = [bal |-> balance, floor |-> floor]
    BY <1>2 DEF StopLoss
  <2>2. pc'[Gambler] = "lossMail" /\ \A c \in Claimers : pc'[c] = pc[c]
    BY <1>0, <2>1, Moved
  <2>3. loss' \in [bal : Nat, floor : Nat]
    BY <1>0, <1>2, <2>1 DEF TypeOK
  <2>. QED
    BY <1>0, <2>2, <2>3 DEF Base, Places, Actors, GoalLabels
<1>3. CASE PlaceBet /\ balance # None
  <2>1. GoTo(Gambler, "slot")
    BY <1>3 DEF PlaceBet
  <2>2. pc'[Gambler] = "slot" /\ \A c \in Claimers : pc'[c] = pc[c]
    BY <1>0, <2>1, Moved
  <2>3. wager' \in [bet : Nat, over : Nat, sound : BOOLEAN]
    BY <1>0, <1>3, BetPlaced
  <2>. QED
    BY <1>0, <2>2, <2>3 DEF Base, Places, Actors, GoalLabels
<1>. QED
  BY <1>1, <1>2, <1>3 DEF Decide

LEMMA SlotPlaces == ASSUME Base, TypeOK', SlotSend \/ SlotReply \/ SlotStored PROVE Places'
<1>. USE ActorsOf
<1>0. TypeOK
  BY DEF Base
<1>1. CASE SlotSend
  <2>1. GoTo(Gambler, "slotting") /\ busy = None /\ busy' = Gambler /\ wager' = wager
        /\ target' = target
    BY <1>1 DEF SlotSend, goalVars
  <2>2. pc'[Gambler] = "slotting" /\ \A c \in Claimers : pc'[c] = pc[c]
    BY <1>0, <2>1, Moved
  <2>3. prize' <= real'
    BY <1>1, SlotSendTyped DEF Base
  <2>4. wager' \in [bet : Nat, over : Nat, sound : BOOLEAN]
    BY <1>1, <2>1 DEF SlotSend, Base, Places
  <2>5. \A c \in Claimers : pc'[c] # "claiming"
    BY <2>1, <2>2, GamblingAssumption DEF Base, Places
  <2>. QED
    BY <2>1, <2>2, <2>3, <2>4, <2>5 DEF Base, Places, Actors, GoalLabels
<1>2. CASE SlotReply
  <2>1. target' = target /\ busy = Gambler
    BY <1>2 DEF SlotReply, goalVars, Base, Places
  <2>2. pc'[Gambler] \in {"stored", "top", "query", "reload"}
        /\ \A c \in Claimers : pc'[c] = pc[c]
    BY <1>0, <1>2, Moved DEF SlotReply, Failed
  <2>. QED
    BY <2>1, <2>2, GamblerMoves DEF GoalLabels
<1>3. CASE SlotStored
  <2>1. busy' = busy
    BY <1>3 DEF SlotStored
  <2>2. /\ pc'[Gambler] \in {"mention", "top"} /\ \A c \in Claimers : pc'[c] = pc[c]
        /\ pc'[Gambler] = "mention" => target'[Gambler] \in Nat
        /\ \A c \in Claimers : target'[c] = target[c]
    BY <1>0, <1>3, GoalChecked, TypeParts DEF SlotStored, Typed, CallTyped
  <2>. QED
    BY <2>1, <2>2, GamblerMoves DEF GoalLabels
<1>. QED
  BY <1>1, <1>2, <1>3

LEMMA AskPlaces == ASSUME Base, TypeOK', Query \/ Reload PROVE Places'
<1>. USE ActorsOf
<1>0. TypeOK
  BY DEF Base
<1>1. CASE Query
  <2>1. busy' = busy
    BY <1>1 DEF Query
  <2>2. CASE GoalCheck(Gambler, real)
    <3>1. /\ pc'[Gambler] \in {"mention", "top"} /\ \A c \in Claimers : pc'[c] = pc[c]
          /\ pc'[Gambler] = "mention" => target'[Gambler] \in Nat
          /\ \A c \in Claimers : target'[c] = target[c]
      BY <1>0, <2>2, GoalChecked, TypeParts DEF Typed, CallTyped
    <3>. QED
      BY <2>1, <3>1, GamblerMoves DEF GoalLabels
  <2>3. CASE target' = target /\ \E label \in {"top", "reload"} : GoTo(Gambler, label)
    <3>1. pc'[Gambler] \in {"top", "reload"} /\ \A c \in Claimers : pc'[c] = pc[c]
      BY <1>0, <2>3, Moved
    <3>. QED
      BY <2>1, <2>3, <3>1, GamblerMoves DEF GoalLabels
  <2>. QED
    BY <1>1, <2>2, <2>3 DEF Query, Failed, goalVars
<1>2. CASE Reload
  <2>1. busy' = busy /\ target' = target
        /\ \E label \in {"query", "top"} : GoTo(Gambler, label)
    BY <1>2 DEF Reload, goalVars
  <2>2. pc'[Gambler] \in {"query", "top"} /\ \A c \in Claimers : pc'[c] = pc[c]
    BY <1>0, <2>1, Moved
  <2>. QED
    BY <2>1, <2>2, GamblerMoves DEF GoalLabels
<1>. QED
  BY <1>1, <1>2

\* A goal handling, of whichever loop, and a stop loss keep the lock and the bet.
LEMMA HandlingPlaces ==
  ASSUME Base, TypeOK', LossAct \/ LossSaved \/ \E a \in Actors : GoalSteps(a)
  PROVE  Places'
<1>. USE ActorsOf
<1>0. TypeOK
  BY DEF Base
<1>1. CASE LossAct \/ LossSaved
  <2>1. busy' = busy /\ target' = target
        /\ \E label \in {"lossSave", "top"} : GoTo(Gambler, label)
    BY <1>1 DEF LossAct, LossSaved, goalVars
  <2>2. pc'[Gambler] \in {"lossSave", "top"} /\ \A c \in Claimers : pc'[c] = pc[c]
    BY <1>0, <2>1, Moved
  <2>. QED
    BY <2>1, <2>2, GamblerMoves DEF GoalLabels
<1>2. ASSUME NEW a \in Actors, GoalSteps(a)
      PROVE  Places'
  <2>1. /\ busy' = busy /\ real' = real /\ wager' = wager /\ prize' = prize /\ loss' = loss
        /\ \E label \in {"mail", "save", "top"} : GoTo(a, label)
        /\ pc[a] \in GoalLabels
    BY <1>2 DEF GoalSteps, Mention, GoalAct, GoalSaved, playVars, lossVars, GoalLabels
  <2>2. /\ pc'[a] \in {"mail", "save", "top"}
        /\ \A b \in Actors \ {a} : pc'[b] = pc[b]
    BY <1>0, <2>1, Moved
  <2>3. \A b \in Actors : pc'[b] \in GoalLabels => target'[b] \in Nat
    <3>1. CASE Mention(a) \/ GoalAct(a)
      BY <2>1, <2>2, <3>1 DEF Mention, GoalAct, goalVars, Base, Places
    <3>2. CASE GoalSaved(a)
      <4>1. pc'[a] = "top" /\ \A b \in Actors \ {a} : target'[b] = target[b]
        BY <1>0, <3>2, Moved DEF GoalSaved, TypeOK
      <4>. QED
        BY <2>2, <4>1 DEF GoalLabels, Base, Places
    <3>. QED
      BY <1>2, <3>1, <3>2 DEF GoalSteps
  <2>4. \A c \in Claimers : pc'[c] = "claiming" => busy' = c
    BY <2>1, <2>2 DEF Base, Places
  <2>5. pc'[Gambler] = pc[Gambler] \/ pc'[Gambler] \in {"mail", "save", "top"}
    BY <2>2
  <2>. QED
    BY <2>1, <2>3, <2>4, <2>5 DEF Base, Places
<1>. QED
  BY <1>1, <1>2

LEMMA ClaimPlaces ==
  ASSUME Base, TypeOK', NEW c \in Claimers, ClaimSend(c) \/ ClaimReply(c)
  PROVE  Places'
<1>. USE ActorsOf
<1>0. TypeOK
  BY DEF Base
<1>1. CASE ClaimSend(c)
  <2>1. /\ busy = None /\ busy' = c /\ GoTo(c, "claiming") /\ target' = target
        /\ wager' = wager /\ prize' = prize /\ loss' = loss
    BY <1>1 DEF ClaimSend, goalVars, lossVars, playVars
  <2>2. pc'[c] = "claiming" /\ \A b \in Actors \ {c} : pc'[b] = pc[b]
    BY <1>0, <2>1, Moved
  <2>3. pc[Gambler] # "slotting" /\ \A d \in Claimers : pc[d] # "claiming"
    BY <2>1, GamblingAssumption DEF Base, Places
  <2>. QED
    BY <2>1, <2>2, <2>3 DEF Base, Places, GoalLabels
<1>2. CASE ClaimReply(c)
  <2>1. /\ busy = c /\ busy' = None /\ real' = real
        /\ wager' = wager /\ prize' = prize /\ loss' = loss
    BY <1>2 DEF ClaimReply, lossVars, playVars, Base, Places
  <2>2. /\ pc'[c] \in {"mention", "top"} /\ \A b \in Actors \ {c} : pc'[b] = pc[b]
        /\ pc'[c] = "mention" => target'[c] \in Nat
        /\ \A b \in Actors \ {c} : target'[b] = target[b]
    <3>1. CASE GoalCheck(c, real)
      BY <1>0, <3>1, GoalChecked, TypeParts DEF Typed, CallTyped
    <3>2. CASE GoTo(c, "top") /\ UNCHANGED <<balance, goalVars>>
      BY <1>0, <3>2, Moved DEF goalVars
    <3>. QED
      BY <1>2, <3>1, <3>2 DEF ClaimReply
  <2>3. pc[Gambler] # "slotting" /\ \A d \in Claimers \ {c} : pc[d] # "claiming"
    BY <2>1 DEF Base, Places
  <2>. QED
    BY <2>1, <2>2, <2>3 DEF Base, Places, GoalLabels
<1>. QED
  BY <1>1, <1>2

LEMMA OtherPlaces == ASSUME Base, TypeOK', Transfer \/ Menu PROVE Places'
<1>1. CASE Transfer
  <2>1. /\ busy = None /\ busy' = None /\ pc' = pc /\ target' = target /\ loss' = loss
        /\ prize' = prize
    BY <1>1 DEF Transfer, goalVars, lossVars
  <2>2. pc[Gambler] # "slotting"
    BY <2>1, ActorsOf, GamblingAssumption DEF Base, Places
  <2>3. pc[Gambler] = "slot" => wager' \in [bet : Nat, over : Nat, sound : BOOLEAN]
    <3>1. SUFFICES ASSUME pc[Gambler] = "slot"
                   PROVE  wager' \in [bet : Nat, over : Nat, sound : BOOLEAN]
      OBVIOUS
    <3>2. wager \in [bet : Nat, over : Nat, sound : BOOLEAN]
      BY <3>1 DEF Base, Places
    <3>3. wager' = [wager EXCEPT !.sound = FALSE]
      BY <1>1, <3>1 DEF Transfer
    <3>. QED
      BY <3>2, <3>3
  <2>. QED
    BY <2>1, <2>2, <2>3 DEF Base, Places
<1>2. CASE Menu
  BY <1>2 DEF Menu, Toggle, SetThreshold, SetGoal, SetFloor, goalVars, lossVars, playVars,
              Base, Places
<1>. QED
  BY <1>1, <1>2

LEMMA NextBase == ASSUME Base, Next PROVE Base'
<1>1. TypeOK'
  BY NextTyped DEF Base
<1>2. Places'
  BY <1>1, DecidePlaces, SlotPlaces, AskPlaces, HandlingPlaces, ClaimPlaces, OtherPlaces
  DEF Next, Menu
<1>. QED
  BY <1>1, <1>2 DEF Base

-----------------------------------------------------------------------------
(* The bet, the switch, the streak and the goal *)

ClaimStep == \E c \in Claimers : ClaimSend(c) \/ ClaimReply(c)

\* Where gambling_loop may go while another loop, the menu or nobody moves.
LEMMA GamblerStays ==
  ASSUME Base, ClaimStep \/ Transfer \/ Menu
  PROVE  pc'[Gambler] = pc[Gambler]
<1>. USE ActorsOf
<1>1. CASE Transfer \/ Menu
  BY <1>1 DEF Transfer, Menu, Toggle, SetThreshold, SetGoal, SetFloor
<1>2. ASSUME NEW c \in Claimers, ClaimSend(c) \/ ClaimReply(c)
      PROVE  pc'[Gambler] = pc[Gambler]
  <2>1. \E label : GoTo(c, label)
    BY <1>2 DEF ClaimSend, ClaimReply, GoalCheck
  <2>. QED
    BY <2>1, Moved DEF Base
<1>. QED
  BY <1>1, <1>2 DEF ClaimStep

\* Only Decide brings gambling_loop to "slot", and only SlotSend to "slotting".
LEMMA OnlyDecide ==
  ASSUME Base, Next, pc'[Gambler] = "slot" \/ pc'[Gambler] = "slotting"
  PROVE  \/ Decide /\ balance # None /\ PlaceBet /\ pc'[Gambler] = "slot"
         \/ SlotSend /\ pc'[Gambler] = "slotting"
         \/ ClaimStep \/ Transfer \/ Menu
         \/ \E a \in Claimers : GoalSteps(a)
<1>. USE ActorsOf
<1>0. TypeOK
  BY DEF Base
<1>1. CASE Decide
  <2>1. CASE AskUnknown \/ StopLoss \/ AskLow
    <3>1. GoTo(Gambler, "query") \/ GoTo(Gambler, "lossMail")
      BY <2>1 DEF AskUnknown, StopLoss, AskLow
    <3>. QED
      BY <1>0, <3>1, Moved
  <2>2. CASE PlaceBet /\ balance # None
    <3>1. GoTo(Gambler, "slot")
      BY <2>2 DEF PlaceBet
    <3>. QED
      BY <1>0, <1>1, <2>2, <3>1, Moved
  <2>. QED
    BY <1>1, <2>1, <2>2 DEF Decide
<1>2. CASE SlotSend
  BY <1>0, <1>2, Moved DEF SlotSend
<1>3. CASE SlotReply \/ SlotStored \/ Query \/ Reload \/ LossAct \/ LossSaved \/ GoalSteps(Gambler)
  <2>1. \E label \in {"stored", "top", "query", "reload", "mention", "mail", "save", "lossSave"} :
          GoTo(Gambler, label)
    BY <1>3 DEF SlotReply, Failed, SlotStored, GoalCheck, Query, Reload, LossAct, LossSaved,
                GoalSteps, Mention, GoalAct, GoalSaved
  <2>. QED
    BY <1>0, <2>1, Moved
<1>. QED
  BY <1>1, <1>2, <1>3 DEF Next, ClaimStep, Menu, Actors

\* A bet that waits for the lock was waiting already, or has just been decided.
LEMMA BetWaits ==
  ASSUME Base, Next, pc'[Gambler] = "slot"
  PROVE  \/ Decide /\ balance # None /\ PlaceBet
         \/ /\ pc[Gambler] = "slot"
            /\ ClaimStep \/ Transfer \/ Menu \/ \E a \in Claimers : GoalSteps(a)
<1>1. CASE ClaimStep \/ Transfer \/ Menu
  BY <1>1, GamblerStays
<1>2. ASSUME NEW a \in Claimers, GoalSteps(a)
      PROVE  pc[Gambler] = "slot"
  <2>1. \E label : GoTo(a, label)
    BY <1>2 DEF GoalSteps, Mention, GoalAct, GoalSaved
  <2>. QED
    BY <2>1, ActorsOf, Moved DEF Base
<1>3. CASE SlotSend /\ pc'[Gambler] = "slotting"
  BY <1>3
<1>. QED
  BY <1>1, <1>2, <1>3, OnlyDecide

LEMMA FloorStep == ASSUME Base, FloorKept, Next PROVE FloorKept'
<1>. USE ActorsOf
<1>0. SUFFICES ASSUME pc'[Gambler] = "slot", wager'.sound
               PROVE  real' >= wager'.bet + wager'.over
  BY DEF FloorKept
<1>1. CASE Decide /\ balance # None /\ PlaceBet
  <2>1. real' = real
    BY <1>1 DEF Decide
  <2>. QED
    BY <1>0, <1>1, <2>1, BetPlaced DEF Base
<1>2. CASE pc[Gambler] = "slot" /\ ClaimStep
  <2>1. wager' = wager /\ real' \in {real, real + Bonus} /\ pc[Gambler] = "slot"
    BY <1>2 DEF ClaimStep, ClaimSend, ClaimReply, playVars
  <2>2. wager \in [bet : Nat, over : Nat, sound : BOOLEAN] /\ real \in Nat
    BY <2>1 DEF Base, Places, TypeOK
  <2>3. real >= wager.bet + wager.over
    BY <1>0, <2>1 DEF FloorKept
  <2>4. wager.bet \in Nat /\ wager.over \in Nat /\ Bonus \in Nat
    BY <2>2, GamblingAssumption
  <2>. QED
    BY <2>1, <2>2, <2>3, <2>4
<1>3. CASE pc[Gambler] = "slot" /\ Transfer
  <2>1. pc[Gambler] = "slot"
    BY <1>3
  <2>2. wager \in [bet : Nat, over : Nat, sound : BOOLEAN]
    BY <2>1 DEF Base, Places
  <2>3. wager'.sound = FALSE
    BY <1>3, <2>1, <2>2 DEF Transfer
  <2>. QED
    BY <1>0, <2>3
<1>4. CASE pc[Gambler] = "slot" /\ (Menu \/ \E a \in Claimers : GoalSteps(a))
  <2>1. wager' = wager /\ real' = real
    BY <1>4 DEF Menu, Toggle, SetThreshold, SetGoal, SetFloor, GoalSteps, Mention, GoalAct,
                GoalSaved, playVars
  <2>. QED
    BY <1>0, <1>4, <2>1 DEF FloorKept
<1>. QED
  BY <1>0, <1>1, <1>2, <1>3, <1>4, BetWaits

LEMMA LateStep == ASSUME Base, Late, Next PROVE Late'
<1>. USE ActorsOf
<1>1. lateBets \in Nat
  BY DEF Base, TypeOK
<1>2. CASE SlotSend
  <2>1. lateBets = 0 /\ enabled' = enabled /\ pc'[Gambler] = "slotting"
    BY <1>2, Moved DEF SlotSend, limitVars, Late, Base
  <2>. QED
    BY <1>1, <1>2, <2>1 DEF SlotSend, Late
<1>3. CASE Toggle
  BY <1>3 DEF Toggle, Late
<1>4. CASE Decide
  BY <1>4 DEF Decide, AskUnknown, limitVars, Late
<1>5. CASE ~SlotSend /\ ~Toggle /\ ~Decide
  <2>1. lateBets' = lateBets /\ (enabled' => enabled)
    BY <1>5 DEF Next, SlotReply, SlotStored, Query, Reload, LossAct, LossSaved, GoalSteps, Mention,
                GoalAct, GoalSaved, ClaimSend, ClaimReply, Transfer, SetThreshold, SetGoal,
                SetFloor, limitVars, playVars
  <2>2. pc'[Gambler] = "slot" => pc[Gambler] = "slot"
    BY <1>5, BetWaits
  <2>. QED
    BY <2>1, <2>2 DEF Late
<1>. QED
  BY <1>2, <1>3, <1>4, <1>5

LEMMA CoolStep == ASSUME Base, Cool, Next PROVE Cool'
<1>. USE ActorsOf
<1>0. losses \in Nat /\ PauseAfter \in Nat \ {0} /\ TypeOK
  BY GamblingAssumption DEF Base, TypeOK
<1>1. CASE SlotReply
  <2>1. pc'[Gambler] \notin {"slot", "slotting"}
    <3>1. \E label \in {"stored", "top", "query", "reload"} : GoTo(Gambler, label)
      BY <1>1 DEF SlotReply, Failed
    <3>. QED
      BY <1>0, <3>1, Moved
  <2>2. losses < PauseAfter
    BY <1>1 DEF SlotReply, Cool
  <2>3. CASE losses' \in {0, losses + 1} /\ cooling' = (cooling \/ losses' >= PauseAfter)
    <3>1. losses' <= PauseAfter
      BY <1>0, <2>2, <2>3
    <3>2. losses' = PauseAfter => losses' >= PauseAfter
      BY <1>0
    <3>. QED
      BY <2>1, <2>3, <3>1, <3>2 DEF Cool
  <2>4. CASE losses' = losses /\ cooling' = cooling
    BY <2>1, <2>4 DEF Cool
  <2>. QED
    BY <1>1, <2>3, <2>4 DEF SlotReply
<1>2. CASE Decide
  <2>1. CASE AskUnknown
    <3>1. losses' = losses /\ cooling' = cooling /\ GoTo(Gambler, "query")
      BY <2>1 DEF AskUnknown
    <3>. QED
      BY <1>0, <3>1, Moved DEF Cool
  <2>2. CASE losses' = IF cooling THEN 0 ELSE losses
    <3>1. losses' < PauseAfter
      BY <1>0, <2>2 DEF Cool
    <3>. QED
      BY <1>0, <2>2, <3>1 DEF Cool
  <2>. QED
    BY <1>2, <2>1, <2>2 DEF Decide
<1>3. CASE SlotSend
  <2>1. losses' = losses /\ cooling' = cooling /\ pc[Gambler] = "slot"
    BY <1>3 DEF SlotSend
  <2>. QED
    BY <2>1 DEF Cool
<1>4. CASE ~SlotReply /\ ~Decide /\ ~SlotSend
  <2>1. losses' = losses /\ cooling' = cooling
    BY <1>4 DEF Next, SlotStored, Query, Reload, LossAct, LossSaved, GoalSteps, Mention,
                GoalAct, GoalSaved, ClaimSend, ClaimReply, Transfer, Toggle, SetThreshold, SetGoal,
                SetFloor, playVars
  <2>2. pc'[Gambler] \in {"slot", "slotting"} => pc[Gambler] = pc'[Gambler]
    <3>1. ASSUME NEW a \in Claimers, GoalSteps(a)
          PROVE  pc[Gambler] = pc'[Gambler]
      <4>1. \E label : GoTo(a, label)
        BY <3>1 DEF GoalSteps, Mention, GoalAct, GoalSaved
      <4>. QED
        BY <1>0, <4>1, Moved
    <3>. QED
      BY <1>4, <3>1, OnlyDecide, GamblerStays
  <2>. QED
    BY <2>1, <2>2 DEF Cool
<1>. QED
  BY <1>1, <1>2, <1>3, <1>4

\* A goal check marks the handling it starts, or notices that the goal was left.
LEMMA CheckedOnce ==
  ASSUME Base, Once, NEW a \in Actors, NEW bal, GoalCheck(a, bal)
  PROVE  Once'
<1>1. CASE goal > 0 /\ bal >= goal /\ ~reached
  <2>1. reached' = TRUE /\ again' = again /\ \A b \in Actors \ {a} : target'[b] = target[b]
    BY <1>1 DEF GoalCheck, Base, TypeOK
  <2>2. \A b \in Actors : target[b] # None => again
    BY <1>1 DEF Once
  <2>. QED
    BY <2>1, <2>2 DEF Once
<1>2. CASE ~(goal > 0 /\ bal >= goal /\ ~reached)
  <2>1. /\ target' = target
        /\ reached' = (reached /\ (goal = 0 \/ bal >= goal))
        /\ again' = (again \/ (reached /\ ~reached' /\ Handling # {}))
    BY <1>2 DEF GoalCheck
  <2>2. again => again'
    BY <2>1
  <2>3. \A b \in Actors : target[b] # None => reached' \/ again'
    <3>1. SUFFICES ASSUME NEW b \in Actors, target[b] # None, ~reached', ~again'
                   PROVE  FALSE
      OBVIOUS
    <3>2. Handling # {}
      BY <3>1 DEF Handling
    <3>3. reached
      BY <2>2, <3>1 DEF Once
    <3>. QED
      BY <2>1, <3>1, <3>2, <3>3
  <2>. QED
    BY <2>1, <2>2, <2>3 DEF Once
<1>. QED
  BY <1>1, <1>2

LEMMA OnceStep == ASSUME Base, Once, Next PROVE Once'
<1>. USE ActorsOf
<1>1. CASE UNCHANGED goalVars
  BY <1>1 DEF goalVars, Once
<1>2. CASE SlotStored \/ Query \/ \E c \in Claimers : ClaimReply(c)
  <2>1. \/ UNCHANGED goalVars
        \/ \E a \in Actors, bal \in {real, balance} : GoalCheck(a, bal)
    BY <1>2 DEF SlotStored, Query, ClaimReply
  <2>. QED
    BY <1>1, <2>1, CheckedOnce
<1>3. ASSUME NEW a \in Actors, GoalSaved(a)
      PROVE  Once'
  <2>1. target[a] # None
    BY <1>3, GamblingAssumption DEF GoalSaved, Base, Places, GoalLabels
  <2>2. /\ target'[a] = None /\ \A b \in Actors \ {a} : target'[b] = target[b]
        /\ again' = (again /\ Handling # {a})
    BY <1>3 DEF GoalSaved, Base, TypeOK
  <2>3. ASSUME NEW b \in Actors, target'[b] # None
        PROVE  again'
    <3>1. b # a /\ target[b] # None
      BY <2>2, <2>3
    <3>2. again /\ b \in Handling
      BY <2>1, <3>1 DEF Once, Handling
    <3>. QED
      BY <2>2, <3>1, <3>2
  <2>. QED
    BY <2>3 DEF Once
<1>4. CASE SetGoal
  <2>1. target' = target /\ again' = (Handling # {})
    BY <1>4 DEF SetGoal
  <2>2. \A a \in Actors : target[a] # None => Handling # {}
    BY DEF Handling
  <2>. QED
    BY <2>1, <2>2 DEF Once
<1>. QED
  BY <1>1, <1>2, <1>3, <1>4 DEF Next, Decide, SlotSend, SlotReply, Reload, LossAct, LossSaved,
     GoalSteps, Mention, GoalAct, ClaimSend, Transfer, Toggle, SetThreshold, SetFloor

-----------------------------------------------------------------------------
(* The warning *)

LEMMA AlarmFailed ==
  ASSUME Base, Alarm, why # "realign", NEW l1, NEW l2, NEW l3, Failed(l1, l2, l3)
  PROVE  /\ misses' < DeadAfter => fails' <= misses'
         /\ told' => misses' >= DeadAfter
         /\ ~told' => /\ fails' < DeadAfter
                      /\ tries' <= fails' + (IF fails' >= 3 THEN 1 ELSE 0)
<1>0. /\ fails \in Nat /\ misses \in 0 .. DeadAfter /\ tries \in 0 .. DeadAfter + 1
      /\ DeadAfter \in Nat \ {0}
  BY GamblingAssumption DEF Base, TypeOK
<1>1. /\ misses' = Least(misses + 1, DeadAfter)
      /\ tries' = Least(tries + 1, DeadAfter + 1)
      /\ fails' = fails + 1
      /\ told' = (told \/ fails + 1 >= DeadAfter)
  BY DEF Failed, Missed
<1>2. misses' < DeadAfter => fails' <= misses'
  BY <1>0, <1>1 DEF Alarm, Least
<1>3. ASSUME told' PROVE misses' >= DeadAfter
  <2>1. CASE told
    BY <1>0, <1>1, <2>1 DEF Alarm, Least
  <2>2. CASE fails + 1 >= DeadAfter
    BY <1>0, <1>1, <2>2 DEF Alarm, Least
  <2>. QED
    BY <1>1, <1>3, <2>1, <2>2
<1>4. ASSUME ~told'
      PROVE  fails' < DeadAfter /\ tries' <= fails' + (IF fails' >= 3 THEN 1 ELSE 0)
  <2>1. ~told /\ ~(fails + 1 >= DeadAfter)
    BY <1>1, <1>4
  <2>2. tries <= fails + (IF fails >= 2 THEN 1 ELSE 0)
    BY <2>1 DEF Alarm, Uncounted
  <2>3. tries' <= tries + 1
    BY <1>0, <1>1 DEF Least
  <2>4. tries' \in Nat
    BY <1>0, <1>1 DEF Least
  <2>. QED
    BY <1>0, <1>1, <2>1, <2>2, <2>3, <2>4
<1>. QED
  BY <1>2, <1>3, <1>4

\* A failed read that nothing counts: the wait below the threshold, the realigning
\* read, the one after a reload.
LEMMA AlarmMissed ==
  ASSUME Base, Alarm, pc[Gambler] = "query", why # "unknown",
         fails' = (IF why = "reloaded" THEN 0 ELSE fails), Missed(why), UNCHANGED told, why' = None
  PROVE  /\ misses' < DeadAfter => fails' <= misses'
         /\ told' => misses' >= DeadAfter
         /\ ~told' => fails' < DeadAfter /\ tries' <= fails' + (IF fails' >= 2 THEN 1 ELSE 0)
<1>0. /\ fails \in Nat /\ misses \in 0 .. DeadAfter /\ tries \in 0 .. DeadAfter + 1
      /\ DeadAfter \in Nat \ {0}
  BY GamblingAssumption DEF Base, TypeOK
<1>1. misses' = Least(misses + 1, DeadAfter)
  BY DEF Missed
<1>2. misses' < DeadAfter => fails' <= misses'
  BY <1>0, <1>1 DEF Alarm, Least
<1>3. told' => misses' >= DeadAfter
  BY <1>0, <1>1 DEF Alarm, Least
<1>4. ASSUME ~told'
      PROVE  fails' < DeadAfter /\ tries' <= fails' + (IF fails' >= 2 THEN 1 ELSE 0)
  <2>1. /\ ~told /\ why \in {"low", "realign"}
        /\ fails' = fails /\ fails < DeadAfter
    BY <1>4 DEF Alarm
  <2>2. CASE why = "low"
    <3>1. tries' = tries /\ tries <= fails + (IF fails >= 2 THEN 1 ELSE 0)
      BY <2>1, <2>2 DEF Alarm, Uncounted, Missed
    <3>. QED
      BY <2>1, <3>1
  <2>3. CASE why = "realign"
    <3>1. tries <= fails + 0 /\ fails >= 2 /\ tries' = Least(tries + 1, DeadAfter + 1)
      BY <2>1, <2>3 DEF Alarm, Uncounted, Missed
    <3>. QED
      BY <1>0, <2>1, <3>1 DEF Least
  <2>. QED
    BY <2>1, <2>2, <2>3
<1>. QED
  BY <1>2, <1>3, <1>4

\* An answer.
LEMMA AlarmRecovered ==
  ASSUME Recovered
  PROVE  /\ fails' <= misses'
         /\ ~told' /\ fails' < DeadAfter
         /\ fails' = 0 /\ tries' = 0
<1>1. 0 < DeadAfter
  BY GamblingAssumption
<1>. QED
  BY <1>1 DEF Recovered

LEMMA AlarmStep == ASSUME Base, Alarm, DeadAfter <= RecoverAfter, Next PROVE Alarm'
<1>. USE ActorsOf DEF Reasons
<1>0. /\ TypeOK /\ RecoverAfter \in Nat /\ RecoverAfter > 2
      /\ fails \in Nat /\ DeadAfter \in Nat \ {0}
      /\ None \notin Reasons
  BY GamblingAssumption DEF Base, TypeOK
<1>1. CASE SlotReply
  <2>0. pc[Gambler] = "slotting" /\ why # "realign"
    BY <1>1 DEF SlotReply, Alarm
  <2>1. CASE Recovered /\ GoTo(Gambler, "stored") /\ UNCHANGED why
    <3>1. pc'[Gambler] = "stored"
      BY <1>0, <2>1, Moved
    <3>. QED
      BY <2>0, <2>1, <3>1, AlarmRecovered DEF Alarm, Uncounted
  <2>2. CASE /\ Failed("top", "query", "reload")
             /\ why' = IF fails + 1 >= RecoverAfter THEN "slot"
                       ELSE IF fails + 1 = 2 THEN "realign" ELSE why
    <3>1. pc'[Gambler] = IF fails + 1 >= RecoverAfter THEN "reload"
                         ELSE IF fails + 1 = 2 THEN "query" ELSE "top"
      BY <1>0, <2>2, Moved DEF Failed
    <3>2. fails' = fails + 1
      BY <2>2 DEF Failed
    <3>3. /\ misses' < DeadAfter => fails' <= misses'
          /\ told' => misses' >= DeadAfter
          /\ ~told' => /\ fails' < DeadAfter
                       /\ tries' <= fails' + (IF fails' >= 3 THEN 1 ELSE 0)
      BY <2>0, <2>2, AlarmFailed
    <3>4. ASSUME ~told'
          PROVE  /\ fails' < DeadAfter
                 /\ tries' <= fails' + Uncounted'
                 /\ pc'[Gambler] # "reload"
                 /\ pc'[Gambler] = "query" => why' # "reloaded"
      <4>1. ~(fails + 1 >= RecoverAfter)
        BY <1>0, <3>2, <3>3, <3>4
      <4>2. fails' >= 3 => why' # "realign"
        BY <1>0, <2>0, <2>2, <3>2, <4>1
      <4>. QED
        BY <1>0, <2>2, <3>1, <3>2, <3>3, <3>4, <4>1, <4>2 DEF Uncounted
    <3>5. why' = "realign" => pc'[Gambler] = "query" /\ fails' >= 2
      BY <1>0, <2>0, <2>2, <3>1, <3>2
    <3>6. pc'[Gambler] = "query" => why' = "realign"
      BY <2>2, <3>1
    <3>7. pc'[Gambler] = "query" => why' \in {"unknown", "low", "realign", "reloaded"}
      BY <3>6
    <3>. QED
      BY <3>3, <3>4, <3>5, <3>7 DEF Alarm
  <2>. QED
    BY <1>1, <2>1, <2>2 DEF SlotReply
<1>2. CASE Query
  <2>0. pc[Gambler] = "query"
    BY <1>2 DEF Query
  <2>1. CASE /\ Recovered
             /\ why' = None
             /\ IF why \in {"unknown", "low"}
                THEN GoalCheck(Gambler, real)
                ELSE GoTo(Gambler, "top") /\ UNCHANGED goalVars
    <3>1. \E label \in {"mention", "top"} : GoTo(Gambler, label)
      BY <2>1 DEF GoalCheck
    <3>2. pc'[Gambler] \in {"mention", "top"}
      BY <1>0, <3>1, Moved
    <3>. QED
      BY <1>0, <2>1, <3>2, AlarmRecovered DEF Alarm, Uncounted
  <2>2. CASE /\ why = "unknown"
             /\ Failed("top", "top", "reload")
             /\ why' = IF fails + 1 >= RecoverAfter THEN "unknown" ELSE None
    <3>1. pc'[Gambler] = IF fails + 1 >= RecoverAfter THEN "reload" ELSE "top"
      BY <1>0, <2>2, Moved DEF Failed
    <3>2. fails' = fails + 1 /\ why' # "realign"
      BY <1>0, <2>2 DEF Failed
    <3>3. /\ misses' < DeadAfter => fails' <= misses'
          /\ told' => misses' >= DeadAfter
          /\ ~told' => /\ fails' < DeadAfter
                       /\ tries' <= fails' + (IF fails' >= 3 THEN 1 ELSE 0)
      BY <2>2, AlarmFailed
    <3>4. ASSUME ~told' PROVE tries' <= fails' + Uncounted' /\ pc'[Gambler] = "top"
      <4>1. ~(fails + 1 >= RecoverAfter)
        BY <1>0, <3>2, <3>3, <3>4
      <4>2. tries' \in Nat
        BY NextBase, <1>0 DEF Base, TypeOK
      <4>. QED
        BY <1>0, <3>1, <3>2, <3>3, <3>4, <4>1, <4>2 DEF Uncounted
    <3>. QED
      BY <3>1, <3>2, <3>3, <3>4 DEF Alarm
  <2>3. CASE /\ why # "unknown"
             /\ fails' = IF why = "reloaded" THEN 0 ELSE fails
             /\ Missed(why)
             /\ why' = None
             /\ GoTo(Gambler, "top")
             /\ UNCHANGED <<balance, goalVars, told>>
    <3>1. pc'[Gambler] = "top"
      BY <1>0, <2>3, Moved
    <3>. QED
      BY <1>0, <2>0, <2>3, <3>1, AlarmMissed DEF Alarm, Uncounted
  <2>. QED
    BY <1>2, <2>1, <2>2, <2>3 DEF Query
<1>3. CASE Reload
  <2>1. /\ UNCHANGED <<misses, told, tries>>
        /\ \/ pc'[Gambler] = "query" /\ why' = "reloaded" /\ UNCHANGED fails
           \/ pc'[Gambler] = "top" /\ why' = None /\ fails' = 0
    BY <1>0, <1>3, Moved DEF Reload
  <2>2. told /\ misses \in 0 .. DeadAfter
    BY <1>0, <1>3 DEF Reload, Alarm, TypeOK
  <2>. QED
    BY <1>0, <2>1, <2>2 DEF Alarm
<1>4. CASE Decide
  <2>1. UNCHANGED failVars /\ pc[Gambler] = "top"
    BY <1>4 DEF Decide
  <2>2. \/ pc'[Gambler] \in {"lossMail", "slot"} /\ why' = why
        \/ pc'[Gambler] = "query" /\ why' \in {"unknown", "low"}
    BY <1>0, <1>4, Moved DEF Decide, AskUnknown, StopLoss, AskLow, PlaceBet
  <2>. QED
    BY <2>1, <2>2 DEF failVars, Alarm, Uncounted
<1>5. CASE ~SlotReply /\ ~Query /\ ~Reload /\ ~Decide
  <2>1. UNCHANGED <<failVars, why>>
    BY <1>5 DEF Next, SlotSend, SlotStored, LossAct, LossSaved, GoalSteps, Mention, GoalAct,
                GoalSaved, ClaimSend, ClaimReply, Transfer, Toggle, SetThreshold, SetGoal, SetFloor,
                playVars
  <2>2. \/ pc'[Gambler] = pc[Gambler]
        \/ /\ pc'[Gambler] \in {"slotting", "mention", "mail", "save", "top", "lossSave"}
           /\ pc[Gambler] # "query"
    <3>1. CASE SlotSend \/ SlotStored \/ LossAct \/ LossSaved \/ GoalSteps(Gambler)
      <4>1. /\ \E label \in {"slotting", "mention", "mail", "save", "top", "lossSave"} :
                 GoTo(Gambler, label)
            /\ pc[Gambler] # "query"
        BY <3>1 DEF SlotSend, SlotStored, GoalCheck, LossAct, LossSaved, GoalSteps, Mention,
                    GoalAct, GoalSaved
      <4>. QED
        BY <1>0, <4>1, Moved
    <3>2. ASSUME NEW a \in Claimers, GoalSteps(a)
          PROVE  pc'[Gambler] = pc[Gambler]
      <4>1. \E label : GoTo(a, label)
        BY <3>2 DEF GoalSteps, Mention, GoalAct, GoalSaved
      <4>. QED
        BY <1>0, <4>1, Moved
    <3>. QED
      BY <1>5, <3>1, <3>2, GamblerStays DEF Next, ClaimStep, Menu, Actors
  <2>. QED
    BY <2>1, <2>2 DEF failVars, Alarm, Uncounted
<1>. QED
  BY <1>1, <1>2, <1>3, <1>4, <1>5

-----------------------------------------------------------------------------
(* The theorems *)

LEMMA InitInvariant == ASSUME Init PROVE IInv /\ Alarm
<1>. USE ActorsOf, GamblingAssumption
<1>1. pc = [a \in Actors |-> "top"] /\ target = [a \in Actors |-> None]
  BY DEF Init
<1>2. TypeOK
  <2>1. Limits /\ Money
    BY DEF Init, Limits, Money
  <2>2. GoalTyped /\ LossTyped /\ StreakTyped
    BY DEF Init, GoalTyped, LossTyped, StreakTyped
  <2>3. FailTyped
    <3>1. 0 \in Nat /\ 0 \in 0 .. DeadAfter /\ 0 \in 0 .. DeadAfter + 1
      OBVIOUS
    <3>. QED
      BY <3>1 DEF Init, FailTyped
  <2>4. CallTyped
    BY <1>1, LabelsOf DEF Init, CallTyped
  <2>. QED
    BY <2>1, <2>2, <2>3, <2>4, TypeParts DEF Typed
<1>3. Places
  BY <1>1 DEF Places, GoalLabels
<1>4. FloorKept /\ Late /\ Once
  BY <1>1 DEF Init, FloorKept, Late, Once
<1>5. Cool
  BY <1>1 DEF Init, Cool
<1>6. Alarm
  <2>1. 0 < DeadAfter
    OBVIOUS
  <2>. QED
    BY <1>1, <2>1 DEF Init, Alarm, Uncounted, Reasons
<1>. QED
  BY <1>2, <1>3, <1>4, <1>5, <1>6 DEF IInv, Base

LEMMA StutterInvariant ==
  ASSUME UNCHANGED vars
  PROVE  (IInv => IInv') /\ (Alarm => Alarm')
BY DEF vars, IInv, Base, TypeOK, Places, FloorKept, Late, Once, Cool, Alarm, Uncounted

LEMMA NextInvariant == ASSUME IInv, [Next]_vars PROVE IInv'
<1>1. CASE Next
  BY <1>1, NextBase, FloorStep, LateStep, OnceStep, CoolStep DEF IInv
<1>2. CASE UNCHANGED vars
  BY <1>2, StutterInvariant
<1>. QED
  BY <1>1, <1>2

LEMMA AtMostOneHandles == ASSUME Once PROVE GoalOnce
<1>1. SUFFICES ASSUME ~again PROVE Cardinality(Handling) <= 1
  BY DEF GoalOnce
<1>2. CASE Handling = {}
  BY <1>2, FS_EmptySet
<1>3. CASE Handling # {}
  <2>1. PICK a \in Handling : TRUE
    BY <1>3
  <2>2. Handling = {a}
    BY <1>1, <2>1 DEF Handling, Once
  <2>. QED
    BY <2>2, FS_Singleton
<1>. QED
  BY <1>2, <1>3

\* The inductive invariant holds of every behaviour of the loops and the menu.
THEOREM InductiveInvariant == Safety => []IInv
<1>1. Init => IInv
  BY InitInvariant
<1>2. IInv /\ [Next]_vars => IInv'
  BY NextInvariant
<1>. QED
  BY <1>1, <1>2, PTL DEF Safety

\* The variables keep their shape through every interleaving.
THEOREM TypeCorrect == Safety => []TypeOK
<1>1. IInv => TypeOK
  BY DEF IInv, Base
<1>. QED
  BY <1>1, InductiveInvariant, PTL

\* gambling.py:95-99: a bet placed on the right balance cannot take the game's
\* balance below the threshold it was decided under, for every strategy's base
\* bet, every multiplier and every number of claiming loops.
THEOREM FloorHolds == Safety => []FloorKept
<1>1. IInv => FloorKept
  BY DEF IInv
<1>. QED
  BY <1>1, InductiveInvariant, PTL

\* digest.py:169-170, 234-235: at most one bet is sent after gambling was disabled.
THEOREM PauseHolds == Safety => []PauseBinds
<1>1. IInv => PauseBinds
  BY DEF IInv, Late, PauseBinds
<1>. QED
  BY <1>1, InductiveInvariant, PTL

\* digest.py:124-126: however many loops store balances, a goal is handled once
\* at a time unless it was left, or set, while being handled.
THEOREM GoalHandledOnce == Safety => []GoalOnce
<1>1. IInv => GoalOnce
  BY AtMostOneHandles DEF IInv
<1>. QED
  BY <1>1, InductiveInvariant, PTL

\* gambling.py:172-183, 380-385: a losing streak never passes its limit.
THEOREM CoolDownHolds == Safety => []CoolsDown
<1>1. IInv => CoolsDown
  BY DEF IInv, Cool, CoolsDown
<1>. QED
  BY <1>1, InductiveInvariant, PTL

\* digest.py:391-405, gambling.py:289-320: for every warning threshold up to the
\* number of failures that has the page reloaded, no warning comes before that many
\* reads have failed in a row, whatever asked for them, and it is out at the latest
\* one read later, the reads below the threshold aside, which the loop never counts.
THEOREM AlarmHolds == ASSUME DeadAfter <= RecoverAfter PROVE Safety => []AlarmTimely
<1>1. Init => IInv /\ Alarm
  BY InitInvariant
<1>2. (IInv /\ Alarm) /\ [Next]_vars => (IInv /\ Alarm)'
  <2>1. ASSUME IInv, Alarm, [Next]_vars PROVE Alarm'
    <3>1. CASE Next
      BY <2>1, <3>1, AlarmStep DEF IInv
    <3>2. CASE UNCHANGED vars
      BY <2>1, <3>2, StutterInvariant
    <3>. QED
      BY <2>1, <3>1, <3>2
  <2>. QED
    BY <2>1, NextInvariant
<1>3. IInv /\ Alarm => AlarmTimely
  <2>1. ASSUME TypeOK, Alarm, tries > DeadAfter, ~told PROVE FALSE
    <3>1. fails < DeadAfter /\ tries <= fails + 1
      BY <2>1 DEF Alarm, Uncounted, TypeOK
    <3>2. fails \in Nat /\ DeadAfter \in Nat /\ tries \in 0 .. DeadAfter + 1
      BY <2>1, GamblingAssumption DEF TypeOK
    <3>. QED
      BY <2>1, <3>1, <3>2
  <2>. QED
    BY <2>1 DEF Alarm, AlarmTimely, IInv, Base
<1>. QED
  BY <1>1, <1>2, <1>3, PTL DEF Safety

=============================================================================
