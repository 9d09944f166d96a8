-------------------------- MODULE Commands_proofs ---------------------------
(***************************************************************************)
(* Proofs about Commands for every number of loops, channels, commands per *)
(* lock, late replies and recovery attempts.                               *)
(***************************************************************************)
EXTENDS Commands, SequenceTheorems, TLAPS

(***************************************************************************)
(* The inductive invariant. TypeOK and OneInside are not inductive without *)
(* what the input box and the counter of commands hold at each step of the *)
(* owner (Boxes, Counts); the replies need that a command somebody may     *)
(* still claim is the one its sender polls for (Fresh); the way home needs *)
(* who is responsible for a page that is away (Away).                      *)
(***************************************************************************)
Boxes ==
  \A t \in Tasks : /\ pc[t] = "check" => box = <<t>>
                   /\ pc[t] = "enter" => box \in {<<>>} \cup WholeTexts(t)
                   /\ pc[t] \in {"check", "enter"} => page # Elsewhere

Counts ==
  \A t \in Tasks : pc[t] \in {"goto", "ready", "clear", "check", "enter", "poll"} => left[t] >= 1

Fresh ==
  /\ \A c \in pending : c.stale \/ pc[c.by] = "poll" \/ cancelled # {}
  /\ cancelled # {} =>
       \A t \in Tasks : pc[t] \in Ended \/ (pc[t] = "back" /\ t \in cancelled)

Away ==
  ~strayed => \/ page = Main
              \/ \E t \in Tasks : owner = t /\ moved[t] /\ pc[t] \in Body \cup {"back"}

IInv == TypeOK /\ OneInside /\ Boxes /\ Counts /\ Fresh /\ Away
           /\ TextsAreWhole /\ RepliesNotCrossed

-----------------------------------------------------------------------------
\* A loop that goes back to its top, or ends there.
Rests(t) == EndCycle(t) \/ Stop(t)

(* What CheckMessage leaves in the box *)

LEMMA EmptyConcat ==
  \A t \in Tasks : <<>> \o <<t>> = <<t>> /\ <<t>> \o <<>> = <<t>> /\ <<>> \o <<>> = <<>>
<1> TAKE t \in Tasks
<1>1. <<t>> \in Seq(Tasks) /\ <<>> \in Seq(Tasks)
  OBVIOUS
<1>. QED
  BY <1>1, ConcatEmptySeq

LEMMA CheckedBox ==
  ASSUME NEW t \in Tasks, Boxes, CheckMessage(t)
  PROVE  box' \in {<<>>, <<t>>, <<t>> \o <<t>>}
<1>1. box = <<t>>
  BY DEF CheckMessage, Boxes
<1>2. PICK cleared \in BOOLEAN, readable \in BOOLEAN, ascii \in BOOLEAN :
        box' = (IF cleared THEN <<>> ELSE box)
               \o (IF ascii /\ (cleared \/ ~readable) THEN <<t>> ELSE <<>>)
  BY DEF CheckMessage
<1>. QED
  BY <1>1, <1>2, EmptyConcat

(* Types *)

CallTyped ==
  /\ owner \in Tasks \cup {None}
  /\ pc \in [Tasks -> Inside \cup Outside]
  /\ job \in [Tasks -> JobKinds \cup {None}]
  /\ left \in [Tasks -> 0 .. MaxCmds]
  /\ sent \in [by : Tasks, text : Text] \cup {None}

HeardTyped == heard \in [Tasks -> Reply \cup {None}]

PageTyped == page \in Channels \cup {Elsewhere} /\ box \in Text

\* A navigation, whatever becomes of it, leaves a page and an input box.
LEMMA NavigationTyped ==
  ASSUME PageTyped, NEW ch \in Channels, Reaches(ch) \/ Reaches(Elsewhere) \/ Misses(ch)
  PROVE  PageTyped'
BY DEF PageTyped, Reaches, Misses, Text

\* Leaving the lock, or the body for the navigation back.
LEMMA LeaveTyped ==
  ASSUME CallTyped, NEW t \in Tasks, NEW label \in Outside,
         Leave(t, label) \/ Release(t, label)
  PROVE  CallTyped'
<1>1. 0 \in 0 .. MaxCmds
  BY CommandsAssumption
<1>2. Outside \subseteq Inside \cup Outside /\ "back" \in Inside
  BY DEF Inside
<1>. QED
  BY <1>1, <1>2 DEF CallTyped, Leave, Release, GoTo, callVars

LEMMA AfterLockOutside == \A t \in Tasks : AfterLock(t) \in Outside
BY DEF AfterLock, Outside

LEMMA AfterCommandTyped ==
  ASSUME CallTyped, HeardTyped, NEW t \in Tasks, left[t] >= 1, AfterCommand(t)
  PROVE  CallTyped' /\ HeardTyped'
<1>1. HeardTyped'
  BY DEF AfterCommand, HeardTyped
<1>2. CASE LeaveBody(t)
  BY <1>1, <1>2, LeaveTyped, AfterLockOutside DEF LeaveBody
<1>3. CASE /\ left' = [left EXCEPT ![t] = left[t] - 1]
           /\ GoTo(t, "nap") \/ GoTo(t, "ready")
           /\ UNCHANGED <<owner, job, sent>>
  <2>1. left[t] - 1 \in 0 .. MaxCmds
    <3>1. MaxCmds \in Nat
      BY CommandsAssumption
    <3>2. left[t] \in 0 .. MaxCmds
      BY DEF CallTyped
    <3>. QED
      BY <3>1, <3>2
  <2>2. left' \in [Tasks -> 0 .. MaxCmds]
    BY <1>3, <2>1 DEF CallTyped
  <2>3. pc' \in [Tasks -> Inside \cup Outside]
    BY <1>3 DEF CallTyped, GoTo, Inside, Body
  <2>. QED
    BY <1>1, <1>3, <2>2, <2>3 DEF CallTyped
<1>. QED
  BY <1>2, <1>3 DEF AfterCommand

LEMMA AbandonTyped ==
  ASSUME TypeOK, NEW t \in Tasks, Abandon(t)
  PROVE  pending' \subseteq [by : Tasks, ch : Channels, stale : BOOLEAN]
<1> DEFINE Commandz == [by : Tasks, ch : Channels, stale : BOOLEAN]
           live == {c \in pending : c.by = t /\ ~c.stale}
           late == {[by |-> c.by, ch |-> c.ch, stale |-> TRUE] : c \in live}
<1>1. pending \subseteq Commandz
  BY DEF TypeOK
<1>2. late \subseteq Commandz
  <2>1. ASSUME NEW c \in live
        PROVE  [by |-> c.by, ch |-> c.ch, stale |-> TRUE] \in Commandz
    <3>1. c \in Commandz
      BY <1>1
    <3>. QED
      BY <3>1
  <2>. QED
    BY <2>1
<1>3. pending' = pending \ live \/ pending' = (pending \ live) \cup late
  BY DEF Abandon
<1>. QED
  BY <1>1, <1>2, <1>3

LEMMA TypeParts == TypeOK => CallTyped /\ HeardTyped /\ PageTyped
BY DEF TypeOK, CallTyped, HeardTyped, PageTyped

LEMMA TypeStep == TypeOK /\ OneInside /\ Boxes /\ Counts /\ [Next]_vars => TypeOK'
<1> SUFFICES ASSUME TypeOK, OneInside, Boxes, Counts, [Next]_vars PROVE TypeOK'
  OBVIOUS
<1>a. Main \in Channels /\ \A t \in Tasks : Target[t] \in Channels
  BY CommandsAssumption
<1>b. MaxCmds \in Nat /\ RecoverFails \in Nat
  BY CommandsAssumption
<1>c. \A t \in Tasks : Jobs[t] \subseteq JobKinds
  BY CommandsAssumption
<1>d. CallTyped /\ HeardTyped /\ PageTyped
  BY TypeParts
<1>e. "idle" \in Outside /\ "dead" \in Outside
  BY DEF Outside
<1> USE DEF lockVars, callVars, localVars, pageVars, replyVars, flagVars
<1>1. ASSUME NEW t \in Tasks, StartCycle(t) PROVE TypeOK'
  BY <1>1 DEF StartCycle, MayAsk, TypeOK, GoTo, Outside
<1>2. ASSUME NEW t \in Tasks, Enter(t) PROVE TypeOK'
  <2>1. queue # <<>>
    BY <1>2 DEF Enter, OneInside
  <2>2. queue' \in Seq(Tasks)
    BY <1>2, <2>1 DEF Enter, TypeOK
  <2>. QED
    BY <1>2, <2>2, <1>b, <1>c DEF Enter, Switches, TypeOK, GoTo, Inside, Body
<1>3. ASSUME NEW t \in Tasks, NavigateOut(t) PROVE TypeOK'
  <2>1. PageTyped'
    BY <1>3, <1>a, <1>d, NavigationTyped DEF NavigateOut
  <2>. QED
    BY <1>3, <2>1 DEF NavigateOut, TypeOK, PageTyped, GoTo, Inside, Body
<1>4. ASSUME NEW t \in Tasks, NavigateBack(t) PROVE TypeOK'
  <2>1. PageTyped'
    BY <1>4, <1>a, <1>d, NavigationTyped DEF NavigateBack
  <2>2. CallTyped'
    BY <1>4, <1>d, LeaveTyped, AfterLockOutside DEF NavigateBack
  <2>. QED
    BY <1>4, <2>1, <2>2 DEF NavigateBack, TypeOK, PageTyped, CallTyped
<1>5. ASSUME NEW t \in Tasks, RecoverPage(t) PROVE TypeOK'
  <2>1. PageTyped'
    BY <1>5, <1>a, <1>d, NavigationTyped DEF RecoverPage
  <2>2. CallTyped'
    BY <1>5, <1>d, LeaveTyped, AfterLockOutside DEF RecoverPage
  <2>3. streak' \in 0 .. RecoverFails
    <3>1. \/ streak' = 0
          \/ streak' = streak
          \/ streak' = IF streak < RecoverFails THEN streak + 1 ELSE streak
      BY <1>5, Zenon DEF RecoverPage
    <3>2. streak \in 0 .. RecoverFails
      BY DEF TypeOK
    <3>. QED
      BY <3>1, <3>2, <1>b
  <2>4. (strayed \in BOOLEAN /\ session \in BOOLEAN /\ quit \in BOOLEAN /\ reboot \in BOOLEAN)'
    BY <1>5 DEF RecoverPage, TypeOK
  <2>. QED
    BY <1>5, <2>1, <2>2, <2>3, <2>4 DEF RecoverPage, TypeOK, PageTyped, CallTyped
<1>6. ASSUME NEW t \in Tasks, Snapshot(t) PROVE TypeOK'
  <2>1. CallTyped' /\ HeardTyped'
    <3>1. CASE AfterCommand(t)
      BY <1>6, <3>1, <1>d, AfterCommandTyped DEF Snapshot, Counts
    <3>2. CASE GoTo(t, "clear") /\ UNCHANGED <<owner, callVars, heard>>
      BY <3>2, <1>d DEF CallTyped, HeardTyped, GoTo, Inside, Body, Typing
    <3>. QED
      BY <1>6, <3>1, <3>2 DEF Snapshot
  <2>. QED
    BY <1>6, <2>1 DEF Snapshot, TypeOK, CallTyped, HeardTyped
<1>7. ASSUME NEW t \in Tasks, TypeText(t) PROVE TypeOK'
  BY <1>7 DEF TypeText, TypeOK, Text, GoTo, Inside, Body, Typing
<1>8. ASSUME NEW t \in Tasks, CheckMessage(t) PROVE TypeOK'
  <2>1. box' \in Text
    BY <1>8, CheckedBox DEF Text
  <2>. QED
    BY <1>8, <2>1 DEF CheckMessage, TypeOK, GoTo, Inside, Body, Typing
<1>9. ASSUME NEW t \in Tasks, Submit(t) PROVE TypeOK'
  <2>1. sent' \in [by : Tasks, text : Text] \cup {None}
    BY <1>9 DEF Submit, TypeOK
  <2>2. pending' \subseteq [by : Tasks, ch : Channels, stale : BOOLEAN]
    <3>1. page \in Channels
      BY <1>9 DEF Submit, Boxes, TypeOK
    <3>2. [by |-> t, ch |-> page, stale |-> FALSE] \in [by : Tasks, ch : Channels, stale : BOOLEAN]
      BY <3>1
    <3>. QED
      BY <1>9, <3>2 DEF Submit, TypeOK
  <2>3. box' \in Text
    BY <1>9 DEF Submit, Text
  <2>. QED
    BY <1>9, <2>1, <2>2, <2>3 DEF Submit, TypeOK, GoTo, Inside, Body
<1>10. ASSUME NEW t \in Tasks, Told(t) PROVE TypeOK'
  <2>1. CallTyped'
    BY <1>10, <1>d, LeaveTyped, AfterLockOutside DEF Told, LeaveBody
  <2>. QED
    BY <1>10, <2>1 DEF Told, TypeOK, CallTyped
<1>11. ASSUME NEW t \in Tasks, Abort(t) PROVE TypeOK'
  <2>1. CallTyped' /\ HeardTyped'
    <3>1. CASE AfterCommand(t)
      BY <1>11, <3>1, <1>d, AfterCommandTyped DEF Abort, Counts, Typing
    <3>2. CASE LeaveByException(t) /\ heard' = [heard EXCEPT ![t] = None]
      <4>1. CallTyped'
        BY <3>2, <1>d, <1>e, LeaveTyped, AfterLockOutside DEF LeaveByException
      <4>. QED
        BY <4>1, <3>2, <1>d DEF HeardTyped
    <3>. QED
      BY <1>11, <3>1, <3>2 DEF Abort
  <2>. QED
    BY <1>11, <2>1 DEF Abort, TypeOK, CallTyped, HeardTyped
<1>12. ASSUME NEW t \in Tasks, Accept(t) \/ Timeout(t) PROVE TypeOK'
  <2>1. CallTyped' /\ HeardTyped'
    BY <1>12, <1>d, AfterCommandTyped DEF Accept, Timeout, Counts
  <2>2. pending' \subseteq [by : Tasks, ch : Channels, stale : BOOLEAN]
    BY <1>12, AbandonTyped DEF Accept, Timeout
  <2>. QED
    BY <1>12, <2>1, <2>2 DEF Accept, Timeout, TypeOK, CallTyped, HeardTyped
<1>14. ASSUME NEW t \in Tasks, Nap(t) PROVE TypeOK'
  <2>1. CallTyped'
    <3>1. CASE LeaveBody(t)
      BY <3>1, <1>d, LeaveTyped, AfterLockOutside DEF LeaveBody
    <3>2. CASE GoTo(t, "ready") /\ UNCHANGED <<owner, callVars>>
      BY <3>2, <1>d DEF CallTyped, GoTo, Inside, Body
    <3>. QED
      BY <1>14, <3>1, <3>2 DEF Nap
  <2>. QED
    BY <1>14, <2>1 DEF Nap, TypeOK, CallTyped
<1>15. ASSUME NEW t \in Tasks, Rests(t) PROVE TypeOK'
  BY <1>15 DEF Rests, EndCycle, Stop, TypeOK, GoTo, Outside
<1>16. ASSUME NEW c \in pending, Answer(c) PROVE TypeOK'
  <2>1. heard' \in [Tasks -> Reply \cup {None}]
    BY <1>16 DEF Answer, TypeOK, Reply
  <2>. QED
    BY <1>16, <2>1 DEF Answer, TypeOK
<1>17. CASE TogglePause
  BY <1>17 DEF TogglePause, TypeOK
<1>18. CASE RequestQuit
  BY <1>18 DEF RequestQuit, TypeOK
<1>19. CASE CancelAll
  <2>1. PageTyped' /\ strayed' \in BOOLEAN
    <3>1. ASSUME NEW t \in Tasks,
                 Misses(IF pc[t] = "goto" THEN Target[t] ELSE Main), strayed' = TRUE
          PROVE  PageTyped' /\ strayed' \in BOOLEAN
      BY <3>1, <1>a, <1>d, NavigationTyped
    <3>. QED
      BY <1>19, <3>1, <1>d DEF CancelAll, PageTyped, TypeOK
  <2>2. pc' \in [Tasks -> Inside \cup Outside]
    BY <1>19 DEF CancelAll, TypeOK, Inside, Outside
  <2>3. queue' \in Seq(Tasks)
    BY <1>19 DEF CancelAll
  <2>. QED
    BY <1>19, <2>1, <2>2, <2>3 DEF CancelAll, TypeOK, PageTyped
<1>20. CASE UNCHANGED vars
  BY <1>20 DEF vars, TypeOK
<1>. QED
  BY <1>1, <1>2, <1>3, <1>4, <1>5, <1>6, <1>7, <1>8, <1>9, <1>10, <1>11, <1>12,
     <1>14, <1>15, <1>16, <1>17, <1>18, <1>19, <1>20 DEF Next, Work, Rests, Terminated

-----------------------------------------------------------------------------
(* The lock. Seen from the lock, a loop that has the page goes on or leaves. *)

Continues(t) ==
  /\ pc[t] \in Inside
  /\ UNCHANGED lockVars
  /\ \E label \in Inside : GoTo(t, label)

Leaves(t) ==
  /\ pc[t] \in Inside
  /\ owner' = None /\ sent' = None
  /\ UNCHANGED queue
  /\ \E label \in {"between", "stopped", "dead"} : GoTo(t, label)

LEMMA LeaveShape ==
  ASSUME NEW t \in Tasks, NEW label \in {"between", "stopped", "dead"}, pc[t] \in Inside,
         Leave(t, label) \/ Release(t, label), UNCHANGED queue
  PROVE  (Continues(t) /\ UNCHANGED sent) \/ Leaves(t)
BY DEF Leave, Release, Continues, Leaves, lockVars, callVars, Inside

LEMMA AfterCommandShape ==
  ASSUME NEW t \in Tasks, pc[t] \in Inside, AfterCommand(t), UNCHANGED queue
  PROVE  (Continues(t) /\ UNCHANGED sent) \/ Leaves(t)
<1>1. CASE LeaveBody(t)
  BY <1>1, LeaveShape DEF LeaveBody, AfterLock
<1>2. CASE /\ UNCHANGED <<owner, job, sent>>
           /\ GoTo(t, "nap") \/ GoTo(t, "ready")
  BY <1>2 DEF Continues, lockVars, Inside, Body
<1>. QED
  BY <1>1, <1>2 DEF AfterCommand

Inner(t) ==
  \/ NavigateOut(t) \/ NavigateBack(t) \/ RecoverPage(t) \/ Snapshot(t) \/ TypeText(t)
  \/ CheckMessage(t) \/ Told(t) \/ Abort(t) \/ Accept(t) \/ Timeout(t) \/ Nap(t)

LEMMA InnerShape ==
  ASSUME NEW t \in Tasks, Inner(t)
  PROVE  (Continues(t) /\ UNCHANGED sent) \/ Leaves(t)
<1> USE DEF lockVars, localVars, callVars
<1>1. CASE NavigateOut(t)
  BY <1>1 DEF NavigateOut, Continues, Inside, Body
<1>2. CASE NavigateBack(t)
  BY <1>2, LeaveShape DEF NavigateBack, AfterLock, Inside
<1>3. CASE RecoverPage(t)
  BY <1>3, LeaveShape DEF RecoverPage, AfterLock, Inside
<1>4. CASE Snapshot(t)
  <2>1. CASE AfterCommand(t)
    BY <1>4, <2>1, AfterCommandShape DEF Snapshot, Inside, Body
  <2>2. CASE GoTo(t, "clear") /\ UNCHANGED <<owner, callVars, heard>>
    BY <1>4, <2>2 DEF Snapshot, Continues, Inside, Body, Typing
  <2>. QED
    BY <1>4, <2>1, <2>2 DEF Snapshot
<1>5. CASE TypeText(t)
  BY <1>5 DEF TypeText, Continues, Inside, Body, Typing
<1>6. CASE CheckMessage(t)
  BY <1>6 DEF CheckMessage, Continues, Inside, Body, Typing
<1>7. CASE Told(t)
  BY <1>7, LeaveShape DEF Told, LeaveBody, AfterLock, Inside, Body
<1>8. CASE Abort(t)
  <2>1. pc[t] \in Inside /\ UNCHANGED queue
    BY <1>8 DEF Abort, Inside, Body
  <2>2. CASE AfterCommand(t)
    BY <2>1, <2>2, AfterCommandShape
  <2>3. CASE LeaveByException(t)
    BY <2>1, <2>3, LeaveShape DEF LeaveByException, AfterLock
  <2>. QED
    BY <1>8, <2>2, <2>3 DEF Abort
<1>9. CASE Accept(t) \/ Timeout(t)
  BY <1>9, AfterCommandShape DEF Accept, Timeout, Inside, Body
<1>10. CASE Nap(t)
  <2>1. CASE LeaveBody(t)
    BY <1>10, <2>1, LeaveShape DEF Nap, LeaveBody, AfterLock, Inside, Body
  <2>2. CASE GoTo(t, "ready") /\ UNCHANGED <<owner, callVars>>
    BY <1>10, <2>2 DEF Nap, Continues, Inside, Body
  <2>. QED
    BY <1>10, <2>1, <2>2 DEF Nap
<1>. QED
  BY <1>1, <1>2, <1>3, <1>4, <1>5, <1>6, <1>7, <1>8, <1>9, <1>10 DEF Inner

LEMMA SubmitShape == \A t \in Tasks : Submit(t) => Continues(t)
BY DEF Submit, Continues, Inside, Body, Typing

\* A step that leaves the lock and every loop's place alone.
Aside == UNCHANGED <<lockVars, pc>>

LEMMA NextShape ==
  ASSUME [Next]_vars
  PROVE  \/ \E t \in Tasks : StartCycle(t) \/ Enter(t) \/ Rests(t) \/ Continues(t) \/ Leaves(t)
         \/ CancelAll
         \/ Aside
<1>1. CASE \E t \in Tasks : Work(t)
  BY <1>1, InnerShape, SubmitShape DEF Work, Rests, Inner
<1>2. CASE \E c \in pending : Answer(c)
  BY <1>2 DEF Answer, Aside
<1>3. CASE TogglePause \/ RequestQuit \/ Terminated \/ UNCHANGED vars
  BY <1>3 DEF TogglePause, RequestQuit, Terminated, vars, Aside, lockVars
<1>. QED
  BY <1>1, <1>2, <1>3 DEF Next

LEMMA LockStep == TypeOK /\ OneInside /\ [Next]_vars => OneInside'
<1> SUFFICES ASSUME TypeOK, OneInside, [Next]_vars PROVE OneInside'
  OBVIOUS
<1>a. None \notin Tasks
  BY CommandsAssumption
<1>b. queue \in Seq(Tasks) /\ pc \in [Tasks -> Inside \cup Outside]
  BY DEF TypeOK
<1>c. \A label \in {"idle", "between", "wait", "stopped", "dead"} : label \notin Inside
  BY DEF Inside, Body, Typing
<1> USE DEF lockVars, GoTo
<1>1. ASSUME NEW t \in Tasks, StartCycle(t) PROVE OneInside'
  <2>1. /\ Len(queue') = Len(queue) + 1
        /\ \A i \in 1 .. Len(queue) : queue'[i] = queue[i]
        /\ queue'[Len(queue) + 1] = t
    BY <1>1, <1>b, AppendProperties DEF StartCycle, MayAsk
  <2>2. \A i \in 1 .. Len(queue) : queue[i] # t
    BY <1>1, <1>b DEF StartCycle, MayAsk, OneInside
  <2>3. \A u \in Tasks : pc'[u] = (IF u = t THEN "wait" ELSE pc[u])
    BY <1>1, <1>b DEF StartCycle, MayAsk
  <2>4. Len(queue) \in Nat
    BY <1>b, LenProperties
  <2>5. \A u \in Tasks : (pc[u] \in Inside <=> owner = u)'
    BY <1>1, <2>3, <1>c DEF StartCycle, MayAsk, OneInside
  <2>6. \A u \in Tasks : (pc[u] = "wait" <=> \E i \in 1 .. Len(queue) : queue[i] = u)'
    <3> TAKE u \in Tasks
    <3>1. CASE u = t
      BY <3>1, <2>1, <2>3, <2>4
    <3>2. CASE u # t
      <4>1. pc[u] = "wait" <=> \E i \in 1 .. Len(queue) : queue[i] = u
        BY DEF OneInside
      <4>. QED
        BY <3>2, <4>1, <2>1, <2>3, <2>4
    <3>. QED
      BY <3>1, <3>2
  <2>7. \A i, j \in 1 .. Len(queue') : queue'[i] = queue'[j] => i = j
    BY <2>1, <2>2, <2>4 DEF OneInside
  <2>. QED
    BY <2>5, <2>6, <2>7 DEF OneInside
<1>2. ASSUME NEW t \in Tasks, Enter(t) PROVE OneInside'
  <2>0. queue # <<>>
    BY <1>2 DEF Enter, OneInside
  <2>1. /\ Len(queue') = Len(queue) - 1
        /\ \A i \in 1 .. Len(queue) - 1 : queue'[i] = queue[i + 1]
        /\ queue[1] = t
        /\ Len(queue) \in Nat \ {0}
    BY <1>2, <1>b, <2>0, HeadTailProperties, LenProperties DEF Enter
  <2>2. \E label \in {"reload", "goto", "ready"} : pc' = [pc EXCEPT ![t] = label]
    BY <1>2 DEF Enter
  <2>3. pc'[t] \in Inside /\ pc'[t] # "wait" /\ \A u \in Tasks \ {t} : pc'[u] = pc[u]
    BY <2>2, <1>b DEF Inside, Body
  <2>4. owner = None /\ owner' = t
    BY <1>2 DEF Enter
  <2>5. \A u \in Tasks : (pc[u] \in Inside <=> owner = u)'
    BY <2>3, <2>4, <1>a DEF OneInside
  <2>6. \A i \in 2 .. Len(queue) : queue[i] # t
    BY <2>1 DEF OneInside
  <2>7. \A u \in Tasks : (pc[u] = "wait" <=> \E i \in 1 .. Len(queue) : queue[i] = u)'
    <3> TAKE u \in Tasks
    <3>1. CASE u = t
      BY <3>1, <2>1, <2>3, <2>6
    <3>2. CASE u # t
      <4>1. pc[u] = "wait" <=> \E i \in 1 .. Len(queue) : queue[i] = u
        BY DEF OneInside
      <4>2. (\E i \in 1 .. Len(queue) : queue[i] = u) <=> \E i \in 2 .. Len(queue) : queue[i] = u
        BY <3>2, <2>1
      <4>3. (\E i \in 2 .. Len(queue) : queue[i] = u) => \E i \in 1 .. Len(queue') : queue'[i] = u
        <5>1. ASSUME NEW i \in 2 .. Len(queue), queue[i] = u
              PROVE  \E k \in 1 .. Len(queue') : queue'[k] = u
          <6>1. i - 1 \in 1 .. Len(queue') /\ queue'[i - 1] = u
            BY <5>1, <2>1
          <6>. QED
            BY <6>1
        <5>. QED
          BY <5>1
      <4>4. (\E i \in 1 .. Len(queue') : queue'[i] = u) => \E i \in 2 .. Len(queue) : queue[i] = u
        BY <2>1
      <4>. QED
        BY <3>2, <4>1, <4>2, <4>3, <4>4, <2>3
    <3>. QED
      BY <3>1, <3>2
  <2>8. \A i, j \in 1 .. Len(queue') : queue'[i] = queue'[j] => i = j
    BY <2>1 DEF OneInside
  <2>. QED
    BY <2>5, <2>7, <2>8 DEF OneInside
<1>3. ASSUME NEW t \in Tasks, Rests(t) PROVE OneInside'
  BY <1>3, <1>b, <1>c DEF Rests, EndCycle, Stop, OneInside
<1>4. ASSUME NEW t \in Tasks, Continues(t) PROVE OneInside'
  BY <1>4, <1>b, <1>c DEF Continues, OneInside
<1>5. ASSUME NEW t \in Tasks, Leaves(t) PROVE OneInside'
  BY <1>5, <1>a, <1>b, <1>c DEF Leaves, OneInside
<1>6. CASE CancelAll
  <2>1. queue' = <<>>
    BY <1>6 DEF CancelAll
  <2>2. \A t \in Tasks : pc'[t] # "wait"
    BY <1>6 DEF CancelAll, Ended
  <2>3. \A t \in Tasks : (pc[t] \in Inside <=> owner = t)'
    BY <1>6, <1>a, <1>c DEF CancelAll, Ended, OneInside, Inside
  <2>. QED
    BY <2>1, <2>2, <2>3 DEF OneInside
<1>7. CASE Aside
  BY <1>7 DEF Aside, OneInside
<1>. QED
  BY <1>1, <1>2, <1>3, <1>4, <1>5, <1>6, <1>7, NextShape

-----------------------------------------------------------------------------
(* The input box and the counter *)

Labels == Inside \cup Outside

LEMMA OnlyOwner ==
  ASSUME OneInside, NEW t \in Tasks, NEW u \in Tasks, pc[t] \in Inside, pc[u] \in Inside
  PROVE  t = u
BY DEF OneInside

LEMMA AfterCommandLabel ==
  ASSUME NEW t \in Tasks, AfterCommand(t)
  PROVE  \E label \in Labels \ {"check", "enter"} : GoTo(t, label)
BY DEF AfterCommand, LeaveBody, Leave, Release, AfterLock, Labels, Inside, Outside, Body

\* The actions after which no loop is about to send more than before.
Quiet(t) ==
  \/ StartCycle(t) \/ Enter(t) \/ NavigateOut(t) \/ NavigateBack(t) \/ RecoverPage(t)
  \/ Snapshot(t) \/ Submit(t) \/ Told(t) \/ Abort(t) \/ Accept(t) \/ Timeout(t)
  \/ Nap(t) \/ Rests(t)

LEMMA QuietShape ==
  ASSUME NEW t \in Tasks, Quiet(t)
  PROVE  /\ \E label \in Labels \ {"check", "enter"} : GoTo(t, label)
         /\ pc[t] \in Inside \/ UNCHANGED <<box, page>>
<1> USE DEF Labels, Inside, Outside, Body, pageVars
<1>1. CASE StartCycle(t) \/ Enter(t) \/ Rests(t)
  BY <1>1 DEF StartCycle, MayAsk, Enter, Rests, EndCycle, Stop
<1>2. CASE NavigateOut(t) \/ Submit(t)
  BY <1>2 DEF NavigateOut, Submit, Typing
<1>3. CASE NavigateBack(t) \/ RecoverPage(t)
  BY <1>3 DEF NavigateBack, RecoverPage, Release, AfterLock
<1>4. CASE Snapshot(t) \/ Accept(t) \/ Timeout(t)
  BY <1>4, AfterCommandLabel DEF Snapshot, Accept, Timeout, Typing
<1>5. CASE Abort(t)
  <2>1. CASE LeaveByException(t)
    BY <1>5, <2>1 DEF Abort, LeaveByException, Leave, Release, AfterLock
  <2>2. CASE AfterCommand(t)
    BY <1>5, <2>2, AfterCommandLabel DEF Abort
  <2>. QED
    BY <1>5, <2>1, <2>2 DEF Abort
<1>6. CASE Told(t) \/ Nap(t)
  BY <1>6 DEF Told, Nap, LeaveBody, Leave, Release, AfterLock
<1>. QED
  BY <1>1, <1>2, <1>3, <1>4, <1>5, <1>6 DEF Quiet

LEMMA BoxesStep == TypeOK /\ OneInside /\ Boxes /\ [Next]_vars => Boxes'
<1> SUFFICES ASSUME TypeOK, OneInside, Boxes, [Next]_vars PROVE Boxes'
  OBVIOUS
<1>a. pc \in [Tasks -> Inside \cup Outside]
  BY DEF TypeOK
<1>1. ASSUME NEW t \in Tasks, Quiet(t) PROVE Boxes'
  <2> SUFFICES ASSUME NEW u \in Tasks, pc'[u] \in {"check", "enter"}
               PROVE  (/\ pc[u] = "check" => box = <<u>>
                       /\ pc[u] = "enter" => box \in {<<>>} \cup WholeTexts(u)
                       /\ page # Elsewhere)'
    BY DEF Boxes
  <2>1. u # t /\ pc[u] = pc'[u]
    BY <1>1, <1>a, QuietShape DEF GoTo
  <2>2. pc[u] \in Inside
    BY <2>1 DEF Inside, Body, Typing
  <2>3. UNCHANGED <<box, page>>
    BY <1>1, <2>1, <2>2, QuietShape, OnlyOwner
  <2>. QED
    BY <2>1, <2>3 DEF Boxes
<1>2. ASSUME NEW t \in Tasks, TypeText(t) \/ CheckMessage(t) PROVE Boxes'
  <2>1. \A u \in Tasks \ {t} : pc'[u] \notin {"check", "enter"}
    <3>1. pc[t] \in Inside
      BY <1>2 DEF TypeText, CheckMessage, Inside, Body, Typing
    <3>2. \A u \in Tasks \ {t} : pc[u] \notin {"check", "enter"}
      BY <3>1, OnlyOwner DEF Inside, Body, Typing
    <3>. QED
      BY <1>2, <3>2, <1>a DEF TypeText, CheckMessage, GoTo
  <2>2. CASE TypeText(t)
    BY <2>1, <2>2, <1>a DEF TypeText, GoTo, Boxes, pageVars, WholeTexts
  <2>3. CASE CheckMessage(t)
    <3>1. box' \in {<<>>} \cup WholeTexts(t)
      BY <2>3, CheckedBox DEF WholeTexts
    <3>2. pc'[t] = "enter" /\ page' # Elsewhere
      BY <2>3, <1>a DEF CheckMessage, GoTo, Boxes, pageVars
    <3>. QED
      BY <2>1, <3>1, <3>2 DEF Boxes
  <2>. QED
    BY <1>2, <2>2, <2>3
<1>3. ASSUME NEW c \in pending, Answer(c) PROVE Boxes'
  BY <1>3 DEF Answer, Boxes, pageVars
<1>4. CASE CancelAll
  BY <1>4 DEF CancelAll, Boxes, Ended
<1>5. CASE TogglePause \/ RequestQuit \/ UNCHANGED vars
  BY <1>5 DEF TogglePause, RequestQuit, vars, Boxes, pageVars
<1>. QED
  BY <1>1, <1>2, <1>3, <1>4, <1>5 DEF Next, Work, Rests, Terminated, Quiet

Counted == {"goto", "ready", "clear", "check", "enter", "poll"}

\* t's own place and counter after a step of t.
Counting(t) ==
  \E label \in Labels, k \in Int :
    /\ GoTo(t, label)
    /\ left' = [left EXCEPT ![t] = k]
    /\ label \in Counted => k >= 1

LEMMA LeaveCounts ==
  ASSUME TypeOK, NEW t \in Tasks, NEW label \in Outside, Leave(t, label) \/ Release(t, label)
  PROVE  Counting(t)
<1>1. left[t] \in Int /\ left = [left EXCEPT ![t] = left[t]]
  BY CommandsAssumption DEF TypeOK
<1>2. CASE GoTo(t, "back") /\ UNCHANGED left
  BY <1>1, <1>2 DEF Counting, Labels, Inside, Counted
<1>3. CASE Release(t, label)
  <2>1. label \in Labels /\ label \notin Counted
    BY DEF Labels, Outside, Counted
  <2>2. GoTo(t, label) /\ left' = [left EXCEPT ![t] = 0]
    BY <1>3 DEF Release
  <2>3. 0 \in Int
    OBVIOUS
  <2>. QED
    BY <2>1, <2>2, <2>3, Zenon DEF Counting
<1>. QED
  BY <1>2, <1>3 DEF Leave, callVars

LEMMA AfterCommandCounts ==
  ASSUME TypeOK, NEW t \in Tasks, AfterCommand(t)
  PROVE  Counting(t)
<1>1. left[t] \in Int
  BY CommandsAssumption DEF TypeOK
<1>2. CASE LeaveBody(t)
  BY <1>2, LeaveCounts, AfterLockOutside DEF LeaveBody
<1>3. CASE /\ left' = [left EXCEPT ![t] = left[t] - 1]
           /\ GoTo(t, "nap") \/ (left[t] > 1 /\ GoTo(t, "ready"))
  <2>1. left[t] - 1 \in Int /\ (left[t] > 1 => left[t] - 1 >= 1)
    BY <1>1
  <2>2. "nap" \in Labels \ Counted /\ "ready" \in Labels
    BY DEF Labels, Inside, Body, Counted
  <2>3. CASE GoTo(t, "nap")
    BY <1>3, <2>1, <2>2, <2>3 DEF Counting
  <2>4. CASE left[t] > 1 /\ GoTo(t, "ready")
    BY <1>3, <2>1, <2>2, <2>4 DEF Counting
  <2>. QED
    BY <1>3, <2>3, <2>4
<1>. QED
  BY <1>2, <1>3 DEF AfterCommand

LEMMA WorkCounts ==
  ASSUME TypeOK, OneInside, Counts, NEW t \in Tasks, StartCycle(t) \/ Work(t)
  PROVE  Counting(t)
<1>1. left[t] \in Int /\ left = [left EXCEPT ![t] = left[t]]
  BY CommandsAssumption DEF TypeOK
<1>a. MaxCmds \in Nat
  BY CommandsAssumption
<1> USE DEF localVars, callVars
<1>2. CASE StartCycle(t) \/ Rests(t) \/ NavigateOut(t) \/ TypeText(t) \/ CheckMessage(t) \/ Submit(t)
  <2>1. UNCHANGED left
    BY <1>2 DEF StartCycle, MayAsk, Rests, EndCycle, Stop, NavigateOut, TypeText, CheckMessage, Submit
  <2>2. CASE StartCycle(t) \/ Rests(t)
    BY <2>1, <2>2, <1>1 DEF StartCycle, MayAsk, Rests, EndCycle, Stop, Counting, Labels, Outside, Counted
  <2>3. CASE TypeText(t) \/ CheckMessage(t) \/ Submit(t)
    <3>1. left[t] >= 1
      BY <2>3 DEF TypeText, CheckMessage, Submit, Counts
    <3>2. \E label \in Labels : GoTo(t, label)
      BY <2>3 DEF TypeText, CheckMessage, Submit, Labels, Inside, Body, Typing
    <3>. QED
      BY <3>1, <3>2, <2>1, <1>1 DEF Counting
  <2>4. CASE NavigateOut(t)
    <3>1. left[t] >= 1
      BY <2>4 DEF NavigateOut, Counts
    <3>. QED
      BY <3>1, <2>4, <2>1, <1>1 DEF NavigateOut, Counting, Labels, Inside, Body
  <2>. QED
    BY <1>2, <2>2, <2>3, <2>4
<1>3. CASE Enter(t)
  <2>1. PICK n \in 1 .. MaxCmds : left' = [left EXCEPT ![t] = n]
    BY <1>3 DEF Enter
  <2>2. \E label \in Labels : GoTo(t, label)
    BY <1>3 DEF Enter, Labels, Inside, Body
  <2>3. n \in Int /\ n >= 1
    BY <2>1, <1>a
  <2>. QED
    BY <2>1, <2>2, <2>3 DEF Counting
<1>4. CASE NavigateBack(t) \/ RecoverPage(t) \/ Told(t)
  BY <1>4, LeaveCounts, AfterLockOutside DEF NavigateBack, RecoverPage, Told, LeaveBody
<1>5. CASE Snapshot(t)
  <2>1. CASE GoTo(t, "clear") /\ UNCHANGED left
    BY <1>5, <2>1, <1>1 DEF Snapshot, Counts, Counting, Labels, Inside, Body, Typing
  <2>. QED
    BY <1>5, <2>1, AfterCommandCounts DEF Snapshot
<1>6. CASE Accept(t) \/ Timeout(t)
  BY <1>6, AfterCommandCounts DEF Accept, Timeout
<1>7. CASE Abort(t)
  <2>1. "dead" \in Outside
    BY DEF Outside
  <2>. QED
    BY <1>7, <2>1, AfterCommandCounts, LeaveCounts, AfterLockOutside DEF Abort, LeaveByException
<1>8. CASE Nap(t)
  <2>1. CASE left[t] > 0 /\ GoTo(t, "ready") /\ UNCHANGED left
    BY <2>1, <1>1 DEF Counting, Labels, Inside, Body
  <2>. QED
    BY <1>8, <2>1, LeaveCounts, AfterLockOutside DEF Nap, LeaveBody
<1>. QED
  BY <1>2, <1>3, <1>4, <1>5, <1>6, <1>7, <1>8 DEF Work, Rests

LEMMA CountsStep == TypeOK /\ OneInside /\ Counts /\ [Next]_vars => Counts'
<1> SUFFICES ASSUME TypeOK, OneInside, Counts, [Next]_vars PROVE Counts'
  OBVIOUS
<1>a. pc \in [Tasks -> Inside \cup Outside] /\ left \in [Tasks -> 0 .. MaxCmds]
  BY DEF TypeOK
<1>1. ASSUME NEW t \in Tasks, StartCycle(t) \/ Work(t) PROVE Counts'
  <2>1. PICK label \in Labels, k \in Int :
          /\ GoTo(t, label)
          /\ left' = [left EXCEPT ![t] = k]
          /\ label \in Counted => k >= 1
    BY <1>1, WorkCounts DEF Counting
  <2>. QED
    BY <2>1, <1>a DEF GoTo, Counts, Counted
<1>2. CASE CancelAll
  BY <1>2 DEF CancelAll, Counts, Ended
<1>3. CASE Aside /\ UNCHANGED left
  BY <1>3 DEF Aside, Counts
<1>4. CASE (\E c \in pending : Answer(c)) \/ TogglePause \/ RequestQuit \/ UNCHANGED vars
  BY <1>3, <1>4 DEF Answer, TogglePause, RequestQuit, vars, Aside, localVars, lockVars
<1>. QED
  BY <1>1, <1>2, <1>4 DEF Next, Terminated

-----------------------------------------------------------------------------
(* Texts and replies *)

LEMMA TextsStep == TypeOK /\ Boxes /\ TextsAreWhole /\ [Next]_vars => TextsAreWhole'
<1> SUFFICES ASSUME TypeOK, Boxes, TextsAreWhole, [Next]_vars PROVE TextsAreWhole'
  OBVIOUS
<1>1. CASE UNCHANGED sent \/ sent' = None
  BY <1>1 DEF TextsAreWhole
<1>2. ASSUME NEW t \in Tasks, Submit(t) PROVE TextsAreWhole'
  BY <1>2 DEF Submit, Boxes, TextsAreWhole
<1>3. ASSUME NEW t \in Tasks, StartCycle(t) \/ Enter(t) \/ Rests(t) PROVE UNCHANGED sent
  BY <1>3 DEF StartCycle, MayAsk, Enter, Rests, EndCycle, Stop
<1>4. ASSUME NEW t \in Tasks, Inner(t) PROVE UNCHANGED sent \/ sent' = None
  BY <1>4, InnerShape DEF Leaves
<1>5. CASE CancelAll \/ TogglePause \/ RequestQuit \/ UNCHANGED vars \/ \E c \in pending : Answer(c)
  BY <1>1, <1>5 DEF CancelAll, TogglePause, RequestQuit, Answer, vars
<1>. QED
  BY <1>1, <1>2, <1>3, <1>4, <1>5 DEF Next, Work, Rests, Inner, Terminated

\* Nothing a loop does but polling to its end touches the commands in flight.
LEMMA FreshStep == TypeOK /\ OneInside /\ Fresh /\ [Next]_vars => Fresh'
<1> SUFFICES ASSUME TypeOK, OneInside, Fresh, [Next]_vars PROVE Fresh'
  OBVIOUS
<1>a. /\ pc \in [Tasks -> Inside \cup Outside]
      /\ pending \subseteq [by : Tasks, ch : Channels, stale : BOOLEAN]
  BY DEF TypeOK
<1> USE DEF GoTo, replyVars
<1>1. CASE CancelAll
  <2>1. cancelled' # {}
    BY <1>1 DEF CancelAll
  <2>2. \A t \in Tasks : pc'[t] \in Ended \/ (pc'[t] = "back" /\ t \in cancelled')
    BY <1>1 DEF CancelAll, Ended
  <2>. QED
    BY <2>1, <2>2 DEF Fresh
<1>2. CASE cancelled # {} /\ ~CancelAll
  <2>1. \A t \in Tasks : pc[t] \in {"stopped", "dead", "back"}
    BY <1>2 DEF Fresh, Ended
  <2>2. ASSUME NEW t \in Tasks, StartCycle(t) \/ Work(t) PROVE NavigateBack(t)
    BY <2>1, <2>2 DEF Work, Rests, StartCycle, MayAsk, Enter, NavigateOut, RecoverPage, Snapshot, TypeText,
       CheckMessage, Submit, Told, Abort, Typing, Accept, Timeout, Nap, Rests, EndCycle, Stop
  <2>3. ASSUME NEW t \in Tasks, NavigateBack(t) PROVE Fresh'
    BY <1>2, <2>3, <1>a DEF NavigateBack, Release, AfterLock, Fresh, Ended
  <2>4. ASSUME NEW c \in pending, Answer(c) PROVE Fresh'
    BY <1>2, <2>4 DEF Answer, Fresh
  <2>5. CASE TogglePause \/ RequestQuit \/ UNCHANGED vars
    BY <1>2, <2>5 DEF TogglePause, RequestQuit, vars, Fresh
  <2>. QED
    BY <1>2, <2>2, <2>3, <2>4, <2>5 DEF Next, Terminated
<1>3. CASE cancelled = {} /\ ~CancelAll
  <2>1. \A c \in pending : c.stale \/ pc[c.by] = "poll"
    BY <1>3 DEF Fresh
  <2>2. cancelled' = {}
    BY <1>3 DEF Next, Work, Rests, StartCycle, MayAsk, Enter, NavigateOut, NavigateBack, RecoverPage,
       Snapshot, TypeText, CheckMessage, Submit, Told, Abort, Accept, Timeout, Nap, EndCycle, Stop, Answer,
       TogglePause, RequestQuit, Terminated, vars
  <2>3. SUFFICES \A c \in pending' : c.stale \/ pc'[c.by] = "poll"
    BY <2>2 DEF Fresh
  <2>4. ASSUME NEW t \in Tasks, Submit(t) PROVE \A c \in pending' : c.stale \/ pc'[c.by] = "poll"
    BY <2>1, <2>4, <1>a DEF Submit
  <2>5. ASSUME NEW t \in Tasks, Accept(t) \/ Timeout(t)
        PROVE  \A c \in pending' : c.stale \/ pc'[c.by] = "poll"
    <3>1. \A c \in pending' : c.stale \/ (c \in pending /\ c.by # t)
      BY <2>5, <1>a DEF Accept, Timeout, Abandon
    <3>2. \A u \in Tasks \ {t} : pc'[u] = pc[u]
      BY <2>5, <1>a, AfterCommandLabel DEF Accept, Timeout
    <3>. QED
      BY <3>1, <3>2, <2>1, <1>a
  <2>6. ASSUME NEW t \in Tasks, Quiet(t) \/ TypeText(t) \/ CheckMessage(t),
               ~Submit(t), ~Accept(t), ~Timeout(t)
        PROVE  \A c \in pending' : c.stale \/ pc'[c.by] = "poll"
    <3>1. UNCHANGED pending /\ pc[t] # "poll"
      BY <2>6 DEF Quiet, StartCycle, MayAsk, Enter, NavigateOut, NavigateBack, RecoverPage, Snapshot,
         TypeText, CheckMessage, Told, Abort, Typing, Nap, Rests, EndCycle, Stop
    <3>2. \A u \in Tasks \ {t} : pc'[u] = pc[u]
      BY <2>6, <1>a, QuietShape DEF TypeText, CheckMessage
    <3>. QED
      BY <3>1, <3>2, <2>1, <1>a
  <2>7. ASSUME NEW d \in pending, Answer(d) PROVE \A c \in pending' : c.stale \/ pc'[c.by] = "poll"
    BY <2>7, <2>1 DEF Answer
  <2>8. CASE TogglePause \/ RequestQuit \/ UNCHANGED vars
    BY <2>8, <2>1 DEF TogglePause, RequestQuit, vars
  <2>. QED
    BY <1>3, <2>4, <2>5, <2>6, <2>7, <2>8 DEF Next, Work, Rests, Quiet, Terminated
<1>. QED
  BY <1>1, <1>2, <1>3

LEMMA RepliesStep ==
  TypeOK /\ OneInside /\ Fresh /\ RepliesNotCrossed /\ [Next]_vars => RepliesNotCrossed'
<1> SUFFICES ASSUME TypeOK, OneInside, Fresh, RepliesNotCrossed, [Next]_vars
             PROVE  RepliesNotCrossed'
  OBVIOUS
<1>a. /\ heard \in [Tasks -> Reply \cup {None}]
      /\ pending \subseteq [by : Tasks, ch : Channels, stale : BOOLEAN]
  BY DEF TypeOK
<1>1. CASE UNCHANGED heard \/ \E t \in Tasks : heard' = [heard EXCEPT ![t] = None]
  BY <1>1, <1>a DEF RepliesNotCrossed
<1>2. ASSUME NEW c \in pending, Answer(c) PROVE RepliesNotCrossed'
  <2> SUFFICES ASSUME NEW t \in Tasks, heard'[t] # None
               PROVE  heard'[t].by = t \/ heard'[t].stale
    BY DEF RepliesNotCrossed
  <2>1. CASE heard'[t] = heard[t]
    BY <2>1 DEF RepliesNotCrossed
  <2>2. CASE pc[t] \in Listening /\ heard'[t] = [by |-> c.by, stale |-> c.stale]
    <3>1. pc[t] \in Inside
      BY <2>2 DEF Listening, Inside, Body, Typing
    <3>2. cancelled = {}
      BY <2>2 DEF Fresh, Ended, Listening
    <3>3. c.stale \/ (pc[c.by] \in Inside /\ c.by \in Tasks)
      BY <3>2, <1>a DEF Fresh, Inside, Body
    <3>. QED
      BY <2>2, <3>1, <3>3, OnlyOwner
  <2>. QED
    BY <1>2, <2>1, <2>2 DEF Answer
<1>3. ASSUME NEW t \in Tasks, StartCycle(t) \/ Work(t)
      PROVE  UNCHANGED heard \/ heard' = [heard EXCEPT ![t] = None]
  BY <1>3 DEF Work, Rests, StartCycle, MayAsk, Enter, NavigateOut, NavigateBack, RecoverPage, Snapshot,
     TypeText, CheckMessage, Submit, Told, Abort, Accept, Timeout, Nap, Rests, EndCycle, Stop, AfterCommand,
     replyVars
<1>4. CASE CancelAll \/ TogglePause \/ RequestQuit \/ UNCHANGED vars
  BY <1>1, <1>4 DEF CancelAll, TogglePause, RequestQuit, vars, replyVars
<1>. QED
  BY <1>1, <1>2, <1>3, <1>4 DEF Next, Terminated

-----------------------------------------------------------------------------
(* The way home *)

LEMMA AwayStep ==
  TypeOK /\ OneInside /\ Away /\ [Next]_vars => Away'
<1> SUFFICES ASSUME TypeOK, OneInside, Away, [Next]_vars PROVE Away'
  OBVIOUS
<1>a. /\ pc \in [Tasks -> Inside \cup Outside] /\ moved \in [Tasks -> BOOLEAN]
      /\ None \notin Tasks
  BY CommandsAssumption DEF TypeOK
<1>b. ASSUME NEW t \in Tasks, pc[t] \in Inside
      PROVE  /\ owner = t
             /\ ~strayed => page = Main \/ (moved[t] /\ pc[t] \in Body \cup {"back"})
  BY <1>b, <1>a DEF OneInside, Away
<1> USE DEF GoTo, pageVars, localVars, callVars, lockVars
\* A loop that keeps the lock in the body, or leaves it without having switched.
<1>1. ASSUME NEW t \in Tasks, pc[t] \in Body, UNCHANGED <<page, strayed, moved>>,
             \/ UNCHANGED owner /\ \E label \in Body \cup {"back"} : GoTo(t, label)
             \/ ~moved[t]
      PROVE  Away'
  BY <1>1, <1>a, <1>b DEF Away, Inside
<1>2. ASSUME NEW t \in Tasks, NEW label, pc[t] \in Body, UNCHANGED <<page, strayed, moved>>,
             Leave(t, label)
      PROVE  Away'
  BY <1>1, <1>2 DEF Leave
<1>3. ASSUME NEW t \in Tasks, pc[t] \in Body, UNCHANGED <<page, strayed, moved>>,
             AfterCommand(t)
      PROVE  Away'
  <2>1. CASE LeaveBody(t)
    BY <1>2, <1>3, <2>1 DEF LeaveBody
  <2>2. CASE UNCHANGED owner /\ (GoTo(t, "nap") \/ GoTo(t, "ready"))
    BY <1>1, <1>3, <2>2 DEF Body
  <2>. QED
    BY <1>3, <2>1, <2>2 DEF AfterCommand
<1>4. ASSUME NEW t \in Tasks, StartCycle(t) \/ Rests(t) PROVE Away'
  <2>1. pc[t] \notin Body \cup {"back"}
    BY <1>4 DEF StartCycle, MayAsk, Rests, EndCycle, Stop, Body, Typing
  <2>2. UNCHANGED <<owner, moved, page, strayed>> /\ \A u \in Tasks \ {t} : pc'[u] = pc[u]
    BY <1>4, <1>a DEF StartCycle, MayAsk, Rests, EndCycle, Stop
  <2>. QED
    BY <2>1, <2>2 DEF Away
<1>5. ASSUME NEW t \in Tasks, Enter(t) PROVE Away'
  BY <1>5, <1>a DEF Enter, Away
<1>6. ASSUME NEW t \in Tasks, NavigateOut(t) PROVE Away'
  <2>1. pc[t] \in Inside /\ pc[t] \notin Body \cup {"back"}
    BY <1>6 DEF NavigateOut, Inside, Body, Typing
  <2>2. pc'[t] = "ready" /\ owner' = t
    BY <1>6, <1>a, <1>b, <2>1 DEF NavigateOut
  <2>3. CASE strayed'
    BY <2>3 DEF Away
  <2>4. CASE moved' = [moved EXCEPT ![t] = TRUE]
    BY <2>2, <2>4, <1>a DEF Away, Body
  <2>. QED
    BY <1>6, <2>3, <2>4 DEF NavigateOut
<1>7. ASSUME NEW t \in Tasks, NavigateBack(t) \/ RecoverPage(t) PROVE Away'
  BY <1>7 DEF NavigateBack, RecoverPage, Reaches, Away
<1>8. ASSUME NEW t \in Tasks, Snapshot(t) PROVE Away'
  <2>1. CASE GoTo(t, "clear") /\ UNCHANGED owner
    BY <1>8, <1>1, <2>1 DEF Snapshot, Body, Typing
  <2>. QED
    BY <1>8, <1>3, <2>1 DEF Snapshot, Body
<1>9. ASSUME NEW t \in Tasks, TypeText(t) \/ CheckMessage(t) \/ Submit(t) PROVE Away'
  BY <1>9, <1>1 DEF TypeText, CheckMessage, Submit, Body, Typing
<1>10. ASSUME NEW t \in Tasks, Told(t) PROVE Away'
  BY <1>10, <1>2 DEF Told, LeaveBody, Body
<1>11. ASSUME NEW t \in Tasks, Abort(t) PROVE Away'
  BY <1>11, <1>2, <1>3 DEF Abort, LeaveByException, Body
<1>12. ASSUME NEW t \in Tasks, Accept(t) \/ Timeout(t) PROVE Away'
  BY <1>12, <1>3 DEF Accept, Timeout, Body
<1>13. ASSUME NEW t \in Tasks, Nap(t) PROVE Away'
  <2>1. CASE GoTo(t, "ready") /\ UNCHANGED owner
    BY <1>13, <1>1, <2>1 DEF Nap, Body
  <2>. QED
    BY <1>13, <1>2, <2>1 DEF Nap, LeaveBody, Body
<1>14. CASE CancelAll
  <2>1. CASE strayed'
    BY <2>1 DEF Away
  <2>2. CASE UNCHANGED <<page, strayed>> /\ ~strayed
    <3>1. CASE page = Main
      BY <2>2, <3>1 DEF Away
    <3>2. CASE page # Main
      <4>1. PICK t \in Tasks : owner = t /\ moved[t] /\ pc[t] \in Body \cup {"back"}
        BY <2>2, <3>2 DEF Away
      <4>2. pc[t] # "back"
        BY <1>14, <2>2, <4>1 DEF CancelAll
      <4>3. pc'[t] = "back" /\ UNCHANGED <<owner, moved>>
        BY <1>14, <4>1, <4>2 DEF CancelAll, Ended, Body, Typing
      <4>. QED
        BY <4>1, <4>3 DEF Away
    <3>. QED
      BY <3>1, <3>2
  <2>3. strayed' \/ (UNCHANGED <<page, strayed>> /\ ~strayed)
    BY <1>14 DEF CancelAll
  <2>. QED
    BY <2>1, <2>2, <2>3
<1>15. CASE Aside /\ UNCHANGED <<page, strayed, moved>>
  BY <1>15 DEF Aside, Away
<1>16. ASSUME NEW c \in pending, Answer(c) PROVE Away'
  BY <1>15, <1>16 DEF Answer, Aside
<1>17. CASE TogglePause \/ RequestQuit \/ UNCHANGED vars
  BY <1>15, <1>17 DEF TogglePause, RequestQuit, vars, Aside
<1>. QED
  BY <1>4, <1>5, <1>6, <1>7, <1>8, <1>9, <1>10, <1>11, <1>12, <1>13, <1>14, <1>16, <1>17
     DEF Next, Work, Rests, Terminated

-----------------------------------------------------------------------------
(* The theorems *)

LEMMA InitIInv == Init => IInv
<1> SUFFICES ASSUME Init PROVE IInv
  OBVIOUS
<1>1. TypeOK
  <2>1. Main \in Channels /\ MaxCmds \in Nat /\ RecoverFails \in Nat
    BY CommandsAssumption
  <2>2. 0 \in 0 .. MaxCmds /\ 0 \in 0 .. RecoverFails
    BY <2>1
  <2>3. "idle" \in Inside \cup Outside
    BY DEF Outside
  <2>4. /\ pc \in [Tasks -> Inside \cup Outside]
        /\ job \in [Tasks -> JobKinds \cup {None}]
        /\ moved \in [Tasks -> BOOLEAN]
        /\ left \in [Tasks -> 0 .. MaxCmds]
        /\ heard \in [Tasks -> Reply \cup {None}]
    BY <2>2, <2>3 DEF Init
  <2>5. queue \in Seq(Tasks) /\ box \in Text
    BY DEF Init, Text
  <2>6. /\ owner \in Tasks \cup {None}
        /\ cancelled \subseteq Tasks
        /\ page \in Channels \cup {Elsewhere}
        /\ sent \in [by : Tasks, text : Text] \cup {None}
        /\ pending \subseteq [by : Tasks, ch : Channels, stale : BOOLEAN]
    BY <2>1 DEF Init
  <2>7. /\ streak \in 0 .. RecoverFails
        /\ strayed \in BOOLEAN /\ session \in BOOLEAN /\ paused \in BOOLEAN
        /\ quit \in BOOLEAN /\ reboot \in BOOLEAN
    BY <2>2 DEF Init
  <2>. QED
    BY <2>4, <2>5, <2>6, <2>7 DEF TypeOK
<1>2. OneInside
  BY CommandsAssumption DEF Init, OneInside, Inside, Body, Typing
<1>3. Boxes /\ Counts /\ Fresh /\ Away
  BY DEF Init, Boxes, Counts, Fresh, Away
<1>4. TextsAreWhole /\ RepliesNotCrossed
  BY DEF Init, TextsAreWhole, RepliesNotCrossed
<1>. QED
  BY <1>1, <1>2, <1>3, <1>4 DEF IInv

LEMMA StepIInv == IInv /\ [Next]_vars => IInv'
BY TypeStep, LockStep, BoxesStep, CountsStep, FreshStep, AwayStep, TextsStep, RepliesStep DEF IInv

LEMMA Invariance == Safety => []IInv
BY InitIInv, StepIInv, PTL DEF Safety

\* Every variable keeps its type; the input box holds one author's text only,
\* whatever is left behind by failed calls.
THEOREM TypeCorrect == Safety => []TypeOK
<1>1. IInv => TypeOK
  BY DEF IInv
<1>. QED
  BY <1>1, Invariance, PTL

\* command_lock: one loop at a time in channel_context, sending, polling and
\* recovery; each waiter is in the queue exactly once (client.py:44-46).
THEOREM OneLoopInside == Safety => []OneInside
<1>1. IInv => OneInside
  BY DEF IInv
<1>. QED
  BY <1>1, Invariance, PTL

\* Discord only receives whole texts of one loop (client.py:97-98,141-164).
THEOREM WholeTextsSent == Safety => []TextsAreWhole
<1>1. IInv => TextsAreWhole
  BY DEF IInv
<1>. QED
  BY <1>1, Invariance, PTL

\* A polling loop only sees its own answer or one that its loop gave up on
\* (client.py:44-45,223-250).
THEOREM RepliesStayApart == Safety => []RepliesNotCrossed
<1>1. IInv => RepliesNotCrossed
  BY DEF IInv
<1>. QED
  BY <1>1, Invariance, PTL

\* channel_context brings the page home (client.py:70-75): free lock and no
\* failed navigation mean that the page shows the main channel.
THEOREM PageComesHome == Safety => []HomeAgain
<1>1. IInv => HomeAgain
  BY CommandsAssumption DEF IInv, Away, HomeAgain
<1>. QED
  BY <1>1, Invariance, PTL

\* The abstract promise: an initial state maps to an initial state, and a step
\* to a step or to a stutter.
LEMMA PromiseInit == Init => Promise!Init
BY DEF Init, Promise!Init

LEMMA PromiseStep == IInv /\ [Next]_vars => [Promise!Next]_<<owner, queue, sent>>
<1> SUFFICES ASSUME IInv, [Next]_vars PROVE [Promise!Next]_<<owner, queue, sent>>
  OBVIOUS
<1> USE DEF lockVars, callVars
<1>a. TypeOK /\ OneInside /\ Boxes
  BY DEF IInv
<1>1. ASSUME NEW t \in Tasks, StartCycle(t) PROVE Promise!Next
  <2>1. owner # t /\ ~Promise!Waiting(t)
    BY <1>1, <1>a DEF StartCycle, MayAsk, OneInside, Promise!Waiting, Inside, Body, Typing
  <2>2. Promise!Arrive(t)
    BY <1>1, <2>1 DEF StartCycle, MayAsk, Promise!Arrive
  <2>. QED
    BY <2>2 DEF Promise!Next
<1>2. ASSUME NEW t \in Tasks, Enter(t) PROVE Promise!Next
  <2>1. queue # <<>>
    BY <1>2, <1>a DEF Enter, OneInside
  <2>2. Promise!Admit(t)
    BY <1>2, <2>1 DEF Enter, Promise!Admit
  <2>. QED
    BY <2>2 DEF Promise!Next
<1>3. ASSUME NEW t \in Tasks, Submit(t)
      PROVE  Promise!Next \/ UNCHANGED <<owner, queue, sent>>
  <2>1. owner = t
    BY <1>3, <1>a DEF Submit, OneInside, Inside, Body, Typing
  <2>2. CASE box = <<>>
    BY <1>3, <2>2 DEF Submit
  <2>3. CASE box # <<>>
    <3>1. box \in Promise!WholeTexts(t)
      BY <1>3, <1>a, <2>3 DEF Submit, Boxes, WholeTexts, Promise!WholeTexts
    <3>2. sent' = [by |-> t, text |-> box] /\ UNCHANGED <<owner, queue>>
      BY <1>3, <2>3 DEF Submit
    <3>3. Promise!Say(t)
      BY <2>1, <3>1, <3>2 DEF Promise!Say
    <3>. QED
      BY <3>3 DEF Promise!Next
  <2>. QED
    BY <2>2, <2>3
<1>4. ASSUME NEW t \in Tasks, Leaves(t) PROVE Promise!Next
  <2>1. owner = t
    BY <1>4, <1>a DEF Leaves, OneInside
  <2>2. Promise!Depart(t)
    BY <1>4, <2>1 DEF Leaves, Promise!Depart
  <2>. QED
    BY <2>2 DEF Promise!Next
<1>5. ASSUME NEW t \in Tasks, Inner(t)
      PROVE  Promise!Next \/ UNCHANGED <<owner, queue, sent>>
  BY <1>4, <1>5, InnerShape DEF Continues
<1>6. CASE CancelAll
  <2>1. Promise!Close
    BY <1>6 DEF CancelAll, Promise!Close
  <2>. QED
    BY <2>1 DEF Promise!Next
<1>7. CASE \/ \E t \in Tasks : Rests(t)
           \/ \E c \in pending : Answer(c)
           \/ TogglePause \/ RequestQuit \/ UNCHANGED vars
  BY <1>7 DEF Rests, EndCycle, Stop, Answer, TogglePause, RequestQuit, vars
<1>. QED
  BY <1>1, <1>2, <1>3, <1>5, <1>6, <1>7 DEF Next, Work, Rests, Inner, Terminated

\* client.py keeps the promise of Session.tla: one loop at a time, in the order
\* of asking, whole texts of the loop that has the page.
THEOREM CommandsImplementsSession == Safety => ImplementsSession
<1>1. IInv /\ [Next]_vars => [Promise!Next]_Promise!sessionVars
  BY PromiseStep DEF Promise!sessionVars
<1>. QED
  BY PromiseInit, <1>1, Invariance, PTL DEF Safety, ImplementsSession, Promise!SessionSpec
============================================================================
