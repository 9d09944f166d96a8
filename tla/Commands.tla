------------------------------ MODULE Commands ------------------------------
(***************************************************************************)
(* bot/discord/client.py: the one Discord page, the command lock that      *)
(* serialises its users, channel_context, the sending of slash commands    *)
(* and plain messages, the capture of replies, and recover_page; with the  *)
(* flags of bot/core/state.py (paused, quit, reboot) and the shutdown of   *)
(* main.py:622-633 that cancels the loops.                                 *)
(*                                                                         *)
(* The loops of bot/scheduler are the callers. What a loop decides between *)
(* two calls is not modelled here: it may call any of its operations (Jobs)*)
(* next. Every `await` at which another loop can run is a step boundary.   *)
(* A section under state.lock holds no await anywhere in the code, so it   *)
(* never suspends and is part of the step around it.                       *)
(*                                                                         *)
(* The page is reduced to what the code relies on: the channel it shows    *)
(* (or Elsewhere, a page without an input box: login page, browser error), *)
(* the content of the input box, and which answers appeared on it since a  *)
(* caller read it last. Timers are nondeterministic choices.               *)
(***************************************************************************)
EXTENDS Naturals, Sequences, FiniteSets

CONSTANTS
  Tasks,       \* the scheduler's loops
  Channels,    \* Discord channels
  Main,        \* state.channel_id
  Elsewhere,   \* the page shows no channel
  None,
  Target,      \* Target[t]: the channel t's calls run in (Main: no channel_context switch)
  Jobs,        \* Jobs[t]: the client operations t calls
  Naps,        \* the loops that send several commands under one lock and sleep
               \* between them (stock.py:199,290, news.py:196-197)
  MaxCmds,     \* bound: commands sent under one channel_context
  MaxStale,    \* bound: unanswered commands nobody waits for any more
  RecoverFails \* RECOVER_PAGE_FAILS_BEFORE_BROWSER_RESTART

(***************************************************************************)
(* query: a capture whose exceptions the loop catches; bare: one whose     *)
(* exceptions end the loop (gambling.py:147,286,301,311, hourly.py:88);    *)
(* tell: send_message; reload: recover_page.                               *)
(***************************************************************************)
JobKinds == {"query", "bare", "tell", "reload"}

ASSUME CommandsAssumption ==
  /\ None \notin Tasks
  /\ Main \in Channels
  /\ Elsewhere \notin Channels
  /\ Target \in [Tasks -> Channels]
  /\ Jobs \in [Tasks -> SUBSET JobKinds]
  /\ Naps \subseteq Tasks
  /\ MaxCmds \in Nat \ {0}
  /\ MaxStale \in Nat
  /\ RecoverFails \in Nat \ {0}
  /\ \A t \in Tasks : "bare" \in Jobs[t] => Target[t] = Main

VARIABLES
  owner,    \* the task inside `async with command_lock`
  queue,    \* the tasks waiting for command_lock, in the order of their acquire()
  pc,       \* where each task is
  job,      \* the operation each task runs under the lock, or None
  moved,    \* channel_context's `switched`, once the way out is over
  left,     \* commands the task may still send under the lock
  cancelled,\* tasks main.py has cancelled
  page,     \* the channel the page shows, or Elsewhere
  box,      \* the input box: whose texts, whole or in part, it holds
  sent,     \* the text last sent under the present lock: [by, text], or None
  pending,  \* commands Discord has not answered yet
  heard,    \* the last answer that appeared after the task's before_text
  strayed,  \* the last navigation failed (history variable)
  streak,   \* state.recover_fail_streak
  session,  \* data/storage_state.json exists
  paused, quit, reboot

vars == <<owner, queue, pc, job, moved, left, cancelled, page, box, sent,
          pending, heard, strayed, streak, session, paused, quit, reboot>>

lockVars   == <<owner, queue>>
callVars   == <<job, left, sent>>
localVars  == <<job, moved, left>>
pageVars   == <<page, strayed>>
replyVars  == <<pending, heard>>
flagVars   == <<streak, session, paused, quit, reboot>>

-----------------------------------------------------------------------------
(* Control *)

Typing  == {"clear", "check", "enter"}
Body    == Typing \cup {"ready", "poll", "sent", "nap"}
Inside  == Body \cup {"goto", "back", "reload"}
Outside == {"idle", "between", "wait", "stopped", "dead"}

Switches(t, j) == Target[t] # Main /\ j # "reload"
Ended == {"stopped", "dead"}

\* Where a task is once it has left the lock: in the middle of its cycle.
AfterLock(t) == IF t \in cancelled THEN "stopped" ELSE "between"

GoTo(t, label) == pc' = [pc EXCEPT ![t] = label]

\* `async with command_lock` is left.
Release(t, label) ==
  /\ owner' = None
  /\ GoTo(t, label)
  /\ job' = [job EXCEPT ![t] = None]
  /\ left' = [left EXCEPT ![t] = 0]
  /\ sent' = None

\* Variant: no navigation back.
LeaveWithoutReturning(t, label) == Release(t, label)

\* The body under the lock is over: channel_context navigates back first.
Leave(t, label) ==
  \/ moved[t] /\ GoTo(t, "back") /\ UNCHANGED <<owner, callVars>>
  \/ ~moved[t] /\ Release(t, label)

LeaveBody(t) == Leave(t, AfterLock(t))

\* The same after an exception: only a loop that catches it goes on.
LeaveByException(t) == Leave(t, IF job[t] = "bare" THEN "dead" ELSE AfterLock(t))

-----------------------------------------------------------------------------
(* A loop asks for the lock *)

\* wait_while_paused and `quit` are looked at on the top of a loop only: what a
\* cycle still has to send (the goal's mention, /balance after a sleep or a reload,
\* a second try) is sent after a pause and after quit as well.
MayAsk(t) == pc[t] = "between" \/ (pc[t] = "idle" /\ ~paused /\ ~quit)

\* Variant: a newcomer is served before those who wait.
StartCycleFirst(t) ==
  /\ MayAsk(t)
  /\ queue' = <<t>> \o queue
  /\ GoTo(t, "wait")
  /\ UNCHANGED <<owner, localVars, cancelled, pageVars, box, sent, replyVars, flagVars>>

\* A loop asks for command_lock, whose queue it joins.
StartCycle(t) ==
  /\ MayAsk(t)
  /\ queue' = Append(queue, t)
  /\ GoTo(t, "wait")
  /\ UNCHANGED <<owner, localVars, cancelled, pageVars, box, sent, replyVars, flagVars>>

\* The cycle is over: back to the top of the loop.
EndCycle(t) ==
  /\ pc[t] = "between"
  /\ GoTo(t, "idle")
  /\ UNCHANGED <<lockVars, localVars, cancelled, pageVars, box, sent, replyVars, flagVars>>

\* Variant: the lock is not taken (a wrapper called with acquire_lock=False).
EnterWithoutLock(t) ==
  /\ pc[t] = "wait"
  /\ owner' = t
  /\ queue' = SelectSeq(queue, LAMBDA u : u # t)
  /\ \E j \in Jobs[t] \ {"reload"} :
       /\ job' = [job EXCEPT ![t] = j]
       /\ left' = [left EXCEPT ![t] = 1]
  /\ GoTo(t, "ready")
  /\ UNCHANGED <<moved, cancelled, pageVars, box, sent, replyVars, flagVars>>

\* asyncio.Lock serves its waiters in order. Which operation the loop waited to
\* run is chosen here: nothing reads it earlier.
Enter(t) ==
  /\ pc[t] = "wait"
  /\ owner = None
  /\ Head(queue) = t
  /\ owner' = t
  /\ queue' = Tail(queue)
  /\ \E j \in Jobs[t], n \in 1 .. MaxCmds :
       /\ t \notin Naps \/ j # "query" => n = 1
       /\ job' = [job EXCEPT ![t] = j]
       /\ left' = [left EXCEPT ![t] = n]
       /\ GoTo(t, IF j = "reload" THEN "reload"
                  ELSE IF Switches(t, j) THEN "goto" ELSE "ready")
  /\ UNCHANGED <<moved, cancelled, pageVars, box, sent, replyVars, flagVars>>

-----------------------------------------------------------------------------
(* Navigation *)

\* A new document: an empty input box. A failed navigation leaves the page
\* where it was, on the channel it was sent to, or without an input box.
Reaches(ch) ==
  /\ page' = ch
  /\ box' = <<>>
Misses(ch) ==
  \/ UNCHANGED <<page, box>>
  \/ \E p \in {ch, Elsewhere} : Reaches(p)

\* channel_context, the way out; on failure the body runs all the same.
NavigateOut(t) ==
  /\ pc[t] = "goto"
  /\ \/ /\ Reaches(Target[t])
        /\ moved' = [moved EXCEPT ![t] = TRUE]
        /\ UNCHANGED strayed
     \/ /\ Misses(Target[t])
        /\ moved' = [moved EXCEPT ![t] = FALSE]
        /\ strayed' = TRUE
  /\ GoTo(t, "ready")
  /\ UNCHANGED <<lockVars, job, left, cancelled, sent, replyVars, flagVars>>

\* channel_context's finally.
NavigateBack(t) ==
  /\ pc[t] = "back"
  /\ \/ Reaches(Main) /\ strayed' = FALSE
     \/ Misses(Main) /\ strayed' = TRUE
  /\ Release(t, AfterLock(t))
  /\ moved' = [moved EXCEPT ![t] = FALSE]
  /\ UNCHANGED <<queue, cancelled, replyVars, flagVars>>

\* recover_page under the lock: reloaded; session expired (its file is deleted if
\* it can be); failed once more.
RecoverPage(t) ==
  /\ pc[t] = "reload"
  /\ \/ /\ Reaches(Main)
        /\ strayed' = FALSE
        /\ streak' = 0
        /\ UNCHANGED <<session, quit, reboot>>
     \/ /\ Reaches(Elsewhere)
        /\ strayed' = TRUE
        /\ session' \in {FALSE, session}
        /\ quit' = TRUE
        /\ reboot' = TRUE
        /\ UNCHANGED streak
     \/ /\ Misses(Main)
        /\ strayed' = TRUE
        /\ streak' = IF streak < RecoverFails THEN streak + 1 ELSE streak
        /\ quit' = (quit \/ streak + 1 >= RecoverFails)
        /\ reboot' = (reboot \/ streak + 1 >= RecoverFails)
        /\ UNCHANGED session
  /\ Release(t, AfterLock(t))
  /\ UNCHANGED <<queue, moved, cancelled, replyVars, paused>>

-----------------------------------------------------------------------------
(* Sending *)

Listening == {"clear", "enter", "poll"}

\* The command is over, answered or not; stock and news go on with the next.
AfterCommand(t) ==
  /\ heard' = [heard EXCEPT ![t] = None]
  /\ \/ left[t] = 1 /\ LeaveBody(t)
     \/ /\ left[t] > 1 \/ t \in Naps
        /\ left' = [left EXCEPT ![t] = left[t] - 1]
        /\ \/ GoTo(t, "nap")
           \/ left[t] > 1 /\ GoTo(t, "ready")
        /\ UNCHANGED <<owner, job, sent>>

\* before_text; when it cannot be read the command is not sent.
Snapshot(t) ==
  /\ pc[t] = "ready"
  /\ \/ GoTo(t, "clear") /\ UNCHANGED <<owner, callVars, heard>>
     \/ job[t] # "tell" /\ AfterCommand(t)
  /\ UNCHANGED <<queue, moved, cancelled, pageVars, box, pending, flagVars>>

\* Variant: the input box is not cleared first.
TypeTextAfterLeftover(t) ==
  /\ pc[t] = "clear"
  /\ page # Elsewhere
  /\ box' = Append(box, t)
  /\ GoTo(t, IF job[t] = "tell" THEN "check" ELSE "enter")
  /\ UNCHANGED <<lockVars, localVars, cancelled, pageVars, sent, replyVars, flagVars>>

\* Ctrl+A, Backspace, and the characters one by one; a message at once.
TypeText(t) ==
  /\ pc[t] = "clear"
  /\ page # Elsewhere
  /\ box' = <<t>>
  /\ GoTo(t, IF job[t] = "tell" THEN "check" ELSE "enter")
  /\ UNCHANGED <<lockVars, localVars, cancelled, pageVars, sent, replyVars, flagVars>>

\* Escape may have cleared the box: the message is inserted again unless it is
\* read back, or has no ASCII signature to look for.
CheckMessage(t) ==
  /\ pc[t] = "check"
  /\ \E cleared, readable, ascii \in BOOLEAN :
       box' = (IF cleared THEN <<>> ELSE box)
              \o (IF ascii /\ (cleared \/ ~readable) THEN <<t>> ELSE <<>>)
  /\ GoTo(t, "enter")
  /\ UNCHANGED <<lockVars, localVars, cancelled, pageVars, sent, replyVars, flagVars>>

\* Enter: a command is then polled for its reply; on an empty box it sends nothing.
Submit(t) ==
  /\ pc[t] = "enter"
  /\ sent' = IF box = <<>> THEN sent ELSE [by |-> t, text |-> box]
  /\ box' = <<>>
  /\ IF job[t] = "tell"
     THEN GoTo(t, "sent") /\ UNCHANGED pending
     ELSE /\ GoTo(t, "poll")
          /\ pending' = pending \cup {[by |-> t, ch |-> page, stale |-> FALSE]}
  /\ UNCHANGED <<lockVars, localVars, cancelled, pageVars, heard, flagVars>>

\* A message is not polled for a reply.
Told(t) ==
  /\ pc[t] = "sent"
  /\ LeaveBody(t)
  /\ UNCHANGED <<queue, moved, cancelled, pageVars, box, replyVars, flagVars>>

\* A Playwright call failed: what was typed stays in the box. On a page
\* without an input box every click ends here. news.py:193 catches the
\* exception and goes on with the next symbol.
Abort(t) ==
  /\ pc[t] \in Typing
  /\ \/ LeaveByException(t) /\ heard' = [heard EXCEPT ![t] = None]
     \/ t \in Naps /\ AfterCommand(t)
  /\ UNCHANGED <<queue, moved, cancelled, pageVars, box, pending, flagVars>>

-----------------------------------------------------------------------------
(* Replies *)

\* Discord answers (external): the page shows it if it is on that channel, to
\* the loop whose before_text is older.
Answer(c) ==
  /\ pending' = pending \ {c}
  /\ heard' = [t \in Tasks |->
                 IF pc[t] \in Listening /\ job[t] # "tell" /\ page = c.ch
                 THEN [by |-> c.by, stale |-> c.stale] ELSE heard[t]]
  /\ UNCHANGED <<lockVars, pc, localVars, cancelled, pageVars, box, sent, flagVars>>

Stale == {c \in pending : c.stale}

\* Nobody waits for t's command any more: Discord answers it late, or never.
Abandon(t) ==
  LET live == {c \in pending : c.by = t /\ ~c.stale}
      late == {[by |-> c.by, ch |-> c.ch, stale |-> TRUE] : c \in live}
  IN  \/ pending' = pending \ live
      \/ /\ Cardinality(Stale) < MaxStale
         /\ pending' = (pending \ live) \cup late

\* The polling ends: a stable new reply, or one seen before the deadline.
Accept(t) ==
  /\ pc[t] = "poll"
  /\ heard[t] # None
  /\ Abandon(t)
  /\ AfterCommand(t)
  /\ UNCHANGED <<queue, moved, cancelled, pageVars, box, flagVars>>

Timeout(t) ==
  /\ pc[t] = "poll"
  /\ heard[t] = None
  /\ Abandon(t)
  /\ AfterCommand(t)
  /\ UNCHANGED <<queue, moved, cancelled, pageVars, box, flagVars>>

\* interruptible_sleep under the lock: it stands still while paused.
Nap(t) ==
  /\ pc[t] = "nap"
  /\ ~paused \/ quit
  /\ \/ left[t] > 0 /\ GoTo(t, "ready") /\ UNCHANGED <<owner, callVars>>
     \/ (left[t] = 0 \/ quit) /\ LeaveBody(t)
  /\ UNCHANGED <<queue, moved, cancelled, pageVars, box, replyVars, flagVars>>

-----------------------------------------------------------------------------
(* Pause, quit and shutdown *)

\* terminal.py:80, main.py:475. The keys are gone once the UI has seen quit.
TogglePause ==
  /\ ~quit
  /\ paused' = ~paused
  /\ UNCHANGED <<lockVars, pc, localVars, cancelled, pageVars, box, sent,
                 replyVars, streak, session, quit, reboot>>

\* terminal.py:70; the reboot key sets state.reboot as well, which nothing
\* here reads.
RequestQuit ==
  /\ ~quit
  /\ quit' = TRUE
  /\ UNCHANGED <<lockVars, pc, localVars, cancelled, pageVars, box, sent,
                 replyVars, streak, session, paused, reboot>>

\* A loop sees quit at its top.
Stop(t) ==
  /\ pc[t] = "idle"
  /\ quit
  /\ GoTo(t, "stopped")
  /\ UNCHANGED <<lockVars, localVars, cancelled, pageVars, box, sent, replyVars, flagVars>>

\* Variant: a cancelled loop leaves the lock behind.
CancelAllKeepingLock ==
  /\ quit
  /\ cancelled = {}
  /\ cancelled' = {t \in Tasks : pc[t] \notin Ended}
  /\ pc' = [t \in Tasks |-> IF pc[t] \in Ended THEN pc[t] ELSE "stopped"]
  /\ queue' = <<>>
  /\ UNCHANGED <<owner, localVars, pageVars, box, sent, replyVars, flagVars>>

\* main.py:630-632, 0.5 s after quit, in one sweep without an await: every loop
\* gets CancelledError where it is. Only channel_context's finally still runs.
CancelAll ==
  LET goesBack(t) == owner = t /\ moved[t] /\ pc[t] \in Body
  IN  /\ quit
      /\ cancelled = {}
      /\ \E t \in Tasks : pc[t] \notin Ended
      /\ cancelled' = {t \in Tasks : pc[t] \notin Ended}
      /\ pc' = [t \in Tasks |-> IF pc[t] \in Ended THEN pc[t]
                               ELSE IF goesBack(t) THEN "back" ELSE "stopped"]
      /\ IF \E t \in Tasks : goesBack(t)
         THEN UNCHANGED <<owner, sent>>
         ELSE owner' = None /\ sent' = None
      /\ queue' = <<>>
      /\ IF \E t \in Tasks : pc[t] \in {"goto", "back", "reload"}
         THEN \E t \in Tasks :
                /\ pc[t] \in {"goto", "back", "reload"}
                /\ Misses(IF pc[t] = "goto" THEN Target[t] ELSE Main)
                /\ strayed' = TRUE
         ELSE UNCHANGED <<pageVars, box>>
      /\ UNCHANGED <<localVars, replyVars, flagVars>>

Terminated ==
  /\ \A t \in Tasks : pc[t] \in Ended
  /\ UNCHANGED vars

-----------------------------------------------------------------------------
Init ==
  /\ owner = None
  /\ queue = <<>>
  /\ pc = [t \in Tasks |-> "idle"]
  /\ job = [t \in Tasks |-> None]
  /\ moved = [t \in Tasks |-> FALSE]
  /\ left = [t \in Tasks |-> 0]
  /\ cancelled = {}
  /\ page = Main
  /\ box = <<>>
  /\ sent = None
  /\ pending = {}
  /\ heard = [t \in Tasks |-> None]
  /\ strayed = FALSE
  /\ streak = 0
  /\ session = TRUE
  /\ paused = FALSE
  /\ quit = FALSE
  /\ reboot = FALSE

\* What a loop does by itself once it has asked for the page.
Work(t) ==
  \/ Enter(t) \/ NavigateOut(t) \/ NavigateBack(t) \/ RecoverPage(t)
  \/ Snapshot(t) \/ TypeText(t) \/ CheckMessage(t)
  \/ Submit(t) \/ Told(t) \/ Abort(t)
  \/ Accept(t) \/ Timeout(t) \/ Nap(t) \/ EndCycle(t) \/ Stop(t)

Next ==
  \/ \E t \in Tasks : StartCycle(t) \/ Work(t)
  \/ \E c \in pending : Answer(c)
  \/ TogglePause \/ RequestQuit \/ CancelAll \/ Terminated

\* main.py:622 awaits the UI first, which polls quit every 0.5 s: a user in the
\* configuration menu is assumed to leave it.
Fairness == WF_vars(CancelAll) /\ \A t \in Tasks : WF_vars(Work(t))

Safety == Init /\ [][Next]_vars
Spec == Safety /\ Fairness

-----------------------------------------------------------------------------
(* Properties *)

WholeTexts(t) == {<<t>>, <<t>> \o <<t>>}
Text == {<<>>} \cup {<<t>> : t \in Tasks} \cup {<<t>> \o <<t>> : t \in Tasks}
Reply == [by : Tasks, stale : BOOLEAN]

\* The shape of the state; a box holds at most one author's text.
TypeOK ==
  /\ owner \in Tasks \cup {None}
  /\ queue \in Seq(Tasks)
  /\ pc \in [Tasks -> Inside \cup Outside]
  /\ job \in [Tasks -> JobKinds \cup {None}]
  /\ moved \in [Tasks -> BOOLEAN]
  /\ left \in [Tasks -> 0 .. MaxCmds]
  /\ cancelled \subseteq Tasks
  /\ page \in Channels \cup {Elsewhere}
  /\ box \in Text
  /\ sent \in [by : Tasks, text : Text] \cup {None}
  /\ pending \subseteq [by : Tasks, ch : Channels, stale : BOOLEAN]
  /\ heard \in [Tasks -> Reply \cup {None}]
  /\ streak \in 0 .. RecoverFails
  /\ strayed \in BOOLEAN /\ session \in BOOLEAN /\ paused \in BOOLEAN
  /\ quit \in BOOLEAN /\ reboot \in BOOLEAN

\* command_lock (client.py:44-46): the loop between the acquire and the release
\* of command_lock, in whatever step of channel_context, sending, polling or
\* recovery, is the lock's owner and the only one; the others wait, each once.
OneInside ==
  /\ \A t \in Tasks : pc[t] \in Inside <=> owner = t
  /\ \A t \in Tasks : pc[t] = "wait" <=> \E i \in 1 .. Len(queue) : queue[i] = t
  /\ \A i, j \in 1 .. Len(queue) : queue[i] = queue[j] => i = j

\* client.py:44 "avoid ... overwriting each other's messages": what Discord gets
\* is the whole text of one loop, though failures leave half-typed commands in
\* the input box (client.py:97-98,141-142 clear it before typing).
TextsAreWhole == sent # None => sent.text \in WholeTexts(sent.by)

\* client.py:45 "or misreading each other's replies": a loop that polls sees
\* another loop's answer only when that loop had given up waiting for it.
RepliesNotCrossed ==
  \A t \in Tasks : heard[t] # None => heard[t].by = t \/ heard[t].stale

\* channel_context (client.py:70-75): unless a navigation failed, the page is on
\* the main channel whenever nobody holds the lock, exceptions and shutdown
\* in the middle of a cycle included.
HomeAgain == owner = None /\ ~strayed => page = Main

\* Nobody waits forever for the page: FIFO lock, bounded polling. While paused
\* the holder may stand still in interruptible_sleep with the lock.
Served == \A t \in Tasks : []<>(pc[t] = "wait" => paused)

\* main.py:622-633: once quit is set every loop ends and the lock is free,
\* whatever the loop was doing and even while paused.
ShutdownCompletes ==
  []<>(quit => owner = None /\ \A t \in Tasks : pc[t] \in Ended)

\* The detailed protocol implements the abstract promise.
Promise == INSTANCE Session WITH holder <- owner, line <- queue, said <- sent
ImplementsSession == Promise!SessionSpec

\* What client.py:44-45 says of command_lock: no loop misreads an answer that
\* was meant for another one.
OwnReply == \A t \in Tasks : heard[t] # None => heard[t].by = t
============================================================================
