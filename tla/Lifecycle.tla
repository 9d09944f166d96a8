------------------------------ MODULE Lifecycle ------------------------------
(***************************************************************************)
(* The life of the program: run.bat that starts it and starts it again,    *)
(* main() from the folders to the exit code, the login, the navigation     *)
(* failures counted in the database across restarts, the keys of ui_loop,  *)
(* the dashboard's restart, the expired session found by recover_page, the *)
(* updater, and /daily with its mark in the database, which has to survive *)
(* all of this.                                                            *)
(*                                                                         *)
(* The other loops are left out: that they end when they are cancelled is  *)
(* shown in Commands. The database, data/storage_state.json and the git    *)
(* checkout outlive the process, everything else is set again by Boot.     *)
(* Commits are numbered along one line of history; a local commit puts the *)
(* checkout ahead of the remote.                                           *)
(***************************************************************************)
EXTENDS Naturals, FiniteSets

CONSTANTS
  NavLimit,    \* main.py:404: navigation failures in a row that stop the restarts
  RecoverFails,\* RECOVER_PAGE_FAILS_BEFORE_BROWSER_RESTART
  Days,        \* bound: the last day
  MaxCommit,   \* bound: the last commit
  MaxClaims    \* bound: /daily commands sent in one day

ASSUME LifecycleAssumption ==
  /\ NavLimit \in Nat \ {0}
  /\ RecoverFails \in Nat \ {0}
  /\ Days \in Nat \ {0}
  /\ MaxCommit \in Nat \ {0}
  /\ MaxClaims \in Nat \ {0}

Reboot == 42   \* REBOOT_EXIT_CODE

VARIABLES
  phase,     \* where run.bat and main() are
  code,      \* the exit code run.bat reads (0 while the program runs)
  sentinel,  \* data/.reboot exists
  session,   \* data/storage_state.json exists
  legacy,    \* ./storage_state.json, its place before data/, exists
  ids,       \* the configuration has guild_id and channel_id
  navFails,  \* meta consecutive_nav_failures
  mark,      \* meta last_daily_fired_ts, as a day; 0: never
  streak,    \* state.recover_fail_streak
  quit, reboot, paused,
  ui,        \* what the terminal shows: the live view, the menu, a view that waits for Enter
  daily,     \* where daily_loop is
  wake,      \* the first day on which its sleep is over; the day of the command once it is sent
  updater,   \* where updater_loop is
  head,      \* the commit checked out
  running,   \* the commit the process was started from
  remote,    \* origin/<branch>
  day,
  autoFails, \* restarts in a row after a failed navigation, none by the user (history)
  wanted,    \* who asked this process for a restart, the updater or others (history)
  ahead,     \* the checkout was ahead when the updater compared last (history)
  lost,      \* the restart of an orderly end could not be handed to run.bat (history)
  claims,    \* claims[d]: /daily commands sent on day d (history)
  unmarked   \* unmarked[d]: those after which the program or the loop ended without a mark (history)

disk   == <<session, legacy, ids, navFails, mark>>
flags  == <<streak, quit, reboot, paused, ui>>
memory == <<flags, daily, wake, updater, unmarked>>
gitV   == <<head, running, remote>>
asked  == <<wanted, ahead, lost>>
histV  == <<autoFails, asked, claims>>
vars   == <<phase, code, sentinel, disk, memory, gitV, day, histV>>

Phases  == {"off", "boot", "login", "navigate", "relogin", "greet",
           "run", "closing", "browser", "leaving", "exited"}
Alive   == Phases \ {"off", "exited"}
Askers  == {"updater", "other"}
NoClaim == [d \in 1 .. Days |-> 0]

Init ==
  /\ phase = "off" /\ code = 0
  /\ sentinel \in BOOLEAN      \* one that an earlier run left behind
  /\ session \in BOOLEAN
  /\ legacy \in BOOLEAN
  /\ ids \in BOOLEAN
  /\ navFails \in 0 .. NavLimit
  /\ mark = 0
  /\ streak = 0 /\ quit = FALSE /\ reboot = FALSE /\ paused = FALSE /\ ui = "view"
  /\ daily = "gone" /\ wake = 1
  /\ updater = "gone"
  /\ head = 1 /\ running = 1 /\ remote = 1
  /\ day = 1
  /\ autoFails = 0 /\ wanted = {} /\ ahead = FALSE /\ lost = FALSE
  /\ claims = NoClaim /\ unmarked = NoClaim

\* /daily was sent and the loop ends before the mark is written.
ForgetDaily ==
  /\ daily' = "gone"
  /\ wake' = 1
  /\ unmarked' = IF daily = "sent" THEN [unmarked EXCEPT ![wake] = @ + 1] ELSE unmarked

\* The process ends with this code; its loops and its memory end with it.
Exit(c) ==
  /\ phase' = "exited"
  /\ code' = c
  /\ ForgetDaily
  /\ updater' = "gone"
  /\ streak' = 0 /\ quit' = FALSE /\ reboot' = FALSE /\ paused' = FALSE /\ ui' = "view"

\* main() goes on to its next part.
Advance(p) == phase' = p /\ UNCHANGED <<code, memory>>

\* A process starts from what is checked out.
Start ==
  /\ phase' = "boot"
  /\ code' = 0
  /\ sentinel' = FALSE
  /\ running' = head
  /\ wanted' = {} /\ ahead' = FALSE /\ lost' = FALSE
  /\ UNCHANGED <<disk, memory, head, remote, day, claims>>

\* The user starts run.bat.
StartLauncher == phase = "off" /\ Start /\ autoFails' = 0

Restarts == sentinel \/ code = Reboot

\* run.bat reads the sentinel and the exit code, and starts the program again or stops.
Relaunch     == phase = "exited" /\ Restarts /\ Start /\ UNCHANGED autoFails
StopLauncher ==
  /\ phase = "exited"
  /\ ~Restarts
  /\ phase' = "off"
  /\ UNCHANGED <<code, sentinel, disk, memory, gitV, day, histV>>

-----------------------------------------------------------------------------
(* main(): start *)

\* The folders: an old session is moved to its new place, or removed next to a new one; either may fail.
BootstrapLayout ==
  \/ legacy /\ session' = TRUE /\ legacy' = FALSE
  \/ UNCHANGED <<session, legacy>>

\* The wizard asks for missing ids; the user may pass over them.
FirstRunWizard == ids' \in {ids, TRUE}

Boot ==
  /\ phase = "boot"
  /\ sentinel' = FALSE
  /\ BootstrapLayout
  /\ FirstRunWizard
  /\ Advance(IF session' THEN "navigate" ELSE "login")
  /\ UNCHANGED <<navFails, mark, gitV, day, histV>>

\* Five minutes to log in by hand; then the browser is closed and the exception ends main().
Login ==
  /\ phase = "login"
  /\ \/ session' = TRUE /\ Advance("navigate")
     \/ Exit(1) /\ UNCHANGED session
  /\ UNCHANGED <<sentinel, legacy, ids, navFails, mark, gitV, day, histV>>

\* Without ids main() returns None, which is exit code 0.
Unconfigured ==
  /\ phase = "navigate"
  /\ ~ids
  /\ Exit(0)
  /\ UNCHANGED <<sentinel, disk, gitV, day, histV>>

NavigateOk ==
  /\ phase = "navigate"
  /\ ids
  /\ Advance("greet")
  /\ navFails' = 0
  /\ autoFails' = 0
  /\ UNCHANGED <<sentinel, session, legacy, ids, mark, gitV, day, asked, claims>>

\* Variant: the failures are not kept in the database.
NavigateFailsForgotten ==
  /\ phase = "navigate"
  /\ ids
  /\ Advance("relogin")
  /\ session' = FALSE
  /\ UNCHANGED <<sentinel, legacy, ids, navFails, mark, gitV, day, histV>>

(***************************************************************************)
(* A RuntimeError of navigate_to_channel: counted in the database; at the  *)
(* limit the program ends, otherwise the session is removed for a login.   *)
(* Above the limit the number kept does not matter.                        *)
(***************************************************************************)
NavigateFails ==
  /\ phase = "navigate"
  /\ ids
  /\ navFails' = IF navFails < NavLimit THEN navFails + 1 ELSE navFails
  /\ \/ navFails' = NavLimit /\ Exit(1) /\ UNCHANGED session
     \/ navFails' < NavLimit /\ Advance("relogin") /\ session' = FALSE
  /\ UNCHANGED <<sentinel, legacy, ids, mark, gitV, day, histV>>

\* The login after a failed navigation; no sentinel is written on this way out.
Relogin ==
  /\ phase = "relogin"
  /\ \/ /\ session' = TRUE
        /\ Exit(Reboot)
        /\ wanted' = wanted \cup {"other"}
        /\ autoFails' = IF autoFails < NavLimit THEN autoFails + 1 ELSE autoFails
     \/ Exit(1) /\ UNCHANGED <<session, wanted, autoFails>>
  /\ UNCHANGED <<sentinel, legacy, ids, navFails, mark, gitV, day, ahead, lost, claims>>

\* create_task for every loop.
StartLoops == daily' = "top" /\ updater' = "idle"

\* The first balance is known or not; the dashboard and the loops start.
Greet ==
  /\ phase = "greet"
  /\ phase' = "run"
  /\ StartLoops
  /\ UNCHANGED <<code, sentinel, disk, flags, wake, unmarked, gitV, day, histV>>

-----------------------------------------------------------------------------
(* Requests: keys, dashboard, recover_page *)

\* The event loop stands still while a view waits in input().
LoopsGoOn == phase \in {"run", "closing"} /\ ui # "blocked"
AtView    == phase = "run" /\ ui = "view"

AskRestart(who) ==
  /\ quit' = TRUE
  /\ reboot' = TRUE
  /\ wanted' = wanted \cup {who}

PressQuit ==
  /\ AtView
  /\ ~quit
  /\ quit' = TRUE
  /\ ui' = "gone"
  /\ UNCHANGED <<phase, code, sentinel, disk, streak, reboot, paused, daily, wake, updater, unmarked,
                 gitV, day, histV>>

PressRestart ==
  /\ AtView
  /\ ~quit
  /\ AskRestart("other")
  /\ ui' = "gone"
  /\ UNCHANGED <<phase, code, sentinel, disk, streak, paused, daily, wake, updater, unmarked,
                 gitV, day, autoFails, ahead, lost, claims>>

\* Key P, or the dashboard, which acts from its own thread at any time.
TogglePause ==
  /\ phase \in {"run", "closing"}
  /\ paused' = ~paused
  /\ UNCHANGED <<phase, code, sentinel, disk, streak, quit, reboot, ui, daily, wake, updater, unmarked,
                 gitV, day, histV>>

DashboardRestart ==
  /\ phase \in {"run", "closing"}
  /\ AskRestart("other")
  /\ UNCHANGED <<phase, code, sentinel, disk, streak, paused, ui, daily, wake, updater, unmarked,
                 gitV, day, autoFails, ahead, lost, claims>>

ShowInstead(view) ==
  /\ phase = "run"
  /\ ui' = view
  /\ UNCHANGED <<phase, code, sentinel, disk, streak, quit, reboot, paused, daily, wake, updater, unmarked,
                 gitV, day, histV>>

\* Key C opens the menu, S, T and X a view that waits for Enter; both come back to the live view.
OpenMenu  == ui = "view" /\ ~quit /\ ShowInstead("menu")
OpenView  == ui = "view" /\ ~quit /\ ShowInstead("blocked")
CloseMenu == ui \in {"menu", "blocked"} /\ ShowInstead("view")

\* The save at the end of the menu raises: main() ends at `await ui_task`, without its shutdown.
MenuRaises ==
  /\ phase = "run"
  /\ ui = "menu"
  /\ Exit(1)
  /\ UNCHANGED <<sentinel, disk, gitV, day, histV>>

\* gambling_loop reloads the page: done; the session has expired; or it failed once more.
RecoverPage ==
  /\ LoopsGoOn
  /\ \/ streak' = 0 /\ UNCHANGED <<session, quit, reboot, wanted>>
     \/ /\ session' \in {FALSE, session}
        /\ AskRestart("other")
        /\ UNCHANGED streak
     \/ /\ streak' = IF streak < RecoverFails THEN streak + 1 ELSE streak
        /\ \/ streak' = RecoverFails /\ AskRestart("other")
           \/ streak' < RecoverFails /\ UNCHANGED <<quit, reboot, wanted>>
        /\ UNCHANGED session
  /\ UNCHANGED <<phase, code, sentinel, legacy, ids, navFails, mark, paused, ui, daily, wake, updater,
                 unmarked, gitV, day, autoFails, ahead, lost, claims>>

-----------------------------------------------------------------------------
(* main(): shutdown *)

\* Variant: a paused program does not look at quit.
SeeQuitUnpaused == ui = "view" /\ quit /\ ~paused /\ ShowInstead("gone")

\* ui_loop looks at quit every half second.
SeeQuit == ui = "view" /\ quit /\ ShowInstead("gone")

BeginShutdown ==
  /\ phase = "run"
  /\ ui = "gone"
  /\ phase' = "closing"
  /\ quit' = TRUE
  /\ UNCHANGED <<code, sentinel, disk, streak, reboot, paused, ui, daily, wake, updater, unmarked,
                 gitV, day, histV>>

\* After half a second the loops that still run are cancelled, and the dashboard is stopped.
CancelWorkers ==
  /\ phase = "closing"
  /\ phase' = "browser"
  /\ ForgetDaily
  /\ updater' = "gone"
  /\ UNCHANGED <<code, sentinel, disk, flags, gitV, day, histV>>

\* browser.close() stands outside of any try.
CloseBrowser ==
  /\ phase = "browser"
  /\ Advance("leaving") \/ Exit(1)
  /\ UNCHANGED <<sentinel, disk, gitV, day, histV>>

\* Variant: the exit code alone.
LeaveByCodeOnly ==
  /\ phase = "leaving"
  /\ \E c \in IF reboot THEN {0, Reboot} ELSE {0} : Exit(c)
  /\ UNCHANGED <<sentinel, disk, gitV, day, histV>>

(***************************************************************************)
(* The sentinel (its writing may fail) and the exit code (which the        *)
(* console may lose after Rich Live, run.bat:72-74).                       *)
(***************************************************************************)
Leave ==
  /\ phase = "leaving"
  /\ \/ ~reboot /\ Exit(0) /\ UNCHANGED <<sentinel, lost>>
     \/ /\ reboot
        /\ sentinel' \in BOOLEAN
        /\ \E c \in {0, Reboot} : Exit(c)
        /\ lost' = (~sentinel' /\ code' = 0)
  /\ UNCHANGED <<disk, gitV, day, autoFails, wanted, ahead, claims>>

\* The process is killed, by hand or with the machine, or an exception nobody catches ends main().
Kill ==
  /\ phase \in Alive
  /\ Exit(1)
  /\ UNCHANGED <<sentinel, disk, gitV, day, histV>>

-----------------------------------------------------------------------------
(* daily_loop *)

\* daily_loop sleeps until the day d.
SleepUntil(d) ==
  /\ LoopsGoOn
  /\ daily = "top" /\ ~paused /\ ~quit
  /\ daily' = "asleep"
  /\ wake' = d
  /\ UNCHANGED <<phase, code, sentinel, disk, flags, updater, unmarked, gitV, day, histV>>

\* Variant: a mark of today counts as one of yesterday.
DailyDecideLate == SleepUntil(IF mark <= day THEN day ELSE day + 1)

\* Variant: a day too late.
DailyDecideSkipping == SleepUntil(IF mark < day THEN day ELSE day + 2)

\* Marked before today's midnight: due in some seconds; otherwise after the next midnight.
DailyDecide == SleepUntil(IF mark < day THEN day ELSE day + 1)

\* The sleep is over and the program not paused: the command is sent.
DailySend ==
  /\ LoopsGoOn
  /\ daily = "asleep" /\ day >= wake /\ ~paused /\ ~quit
  /\ claims[day] < MaxClaims
  /\ daily' = "sent"
  /\ wake' = day
  /\ claims' = [claims EXCEPT ![day] = @ + 1]
  /\ UNCHANGED <<phase, code, sentinel, disk, flags, updater, unmarked, gitV, day, autoFails, asked>>

\* A reply, an exception or a timeout: the mark gets the time of now. If the database fails the
\* loop ends.
DailyMark ==
  /\ LoopsGoOn
  /\ daily = "sent"
  /\ \/ mark' = day /\ daily' = "top" /\ wake' = 1 /\ UNCHANGED unmarked
     \/ ForgetDaily /\ UNCHANGED mark
  /\ UNCHANGED <<phase, code, sentinel, session, legacy, ids, navFails, flags, updater, gitV, day, histV>>

DailyQuit ==
  /\ LoopsGoOn
  /\ quit
  /\ daily \in {"top", "asleep"}
  /\ ForgetDaily
  /\ UNCHANGED <<phase, code, sentinel, disk, flags, updater, gitV, day, histV>>

-----------------------------------------------------------------------------
(* updater_loop and core/updater.py *)

UpdaterGoes(from, to) ==
  /\ updater = from
  /\ updater' = to
  /\ UNCHANGED <<phase, code, sentinel, disk, daily, wake, unmarked, running, remote, day,
                 autoFails, lost, claims>>

\* A check is due and auto_check is on.
UpdaterAsk ==
  /\ LoopsGoOn
  /\ ~paused /\ ~quit
  /\ UpdaterGoes("idle", "asking")
  /\ UNCHANGED <<flags, head, wanted, ahead>>

\* check_for_updates: the two commits are not the same.
HasUpdate == head # remote

\* Variant: the commits are not compared.
UpdaterHearAlways ==
  /\ LoopsGoOn
  /\ UpdaterGoes("asking", "pulling")
  /\ ahead' = (head > remote)
  /\ UNCHANGED <<flags, head, wanted>>

\* rev-parse and ls-remote: no answer, or two commits; if they differ auto_update pulls.
UpdaterHear ==
  /\ LoopsGoOn
  /\ \/ UpdaterGoes("asking", "idle")
     \/ HasUpdate /\ UpdaterGoes("asking", "pulling")
  /\ ahead' = (head > remote)
  /\ UNCHANGED <<flags, head, wanted>>

(***************************************************************************)
(* git pull --ff-only, in a thread: it fails, or the checkout is at least  *)
(* as new as the remote, which includes "Already up to date".              *)
(***************************************************************************)
UpdaterPull ==
  /\ phase \in {"run", "closing"}
  /\ \/ UpdaterGoes("pulling", "idle") /\ UNCHANGED head
     \/ UpdaterGoes("pulling", "leaving") /\ head' = IF head < remote THEN remote ELSE head
  /\ UNCHANGED <<flags, wanted, ahead>>

\* Three seconds later, or as soon as quit is set: whatever it was set for, this asks for a restart.
UpdaterLeave ==
  /\ LoopsGoOn
  /\ ~paused \/ quit
  /\ UpdaterGoes("leaving", "gone")
  /\ AskRestart("updater")
  /\ UNCHANGED <<streak, paused, ui, head, ahead>>

-----------------------------------------------------------------------------
(* What happens outside of the program *)

\* A day ends. A command sent just before it is marked on the next day.
Midnight ==
  /\ day < Days
  /\ day' = day + 1
  /\ UNCHANGED <<phase, code, sentinel, disk, memory, gitV, histV>>

Push ==
  /\ remote < MaxCommit
  /\ remote' = remote + 1
  /\ UNCHANGED <<phase, code, sentinel, disk, memory, head, running, day, histV>>

\* A commit made in the bot's folder, on top of what is checked out there.
LocalCommit ==
  /\ head < MaxCommit
  /\ head' = head + 1
  /\ UNCHANGED <<phase, code, sentinel, disk, memory, running, remote, day, histV>>

-----------------------------------------------------------------------------

Starting == Boot \/ Login \/ Unconfigured \/ NavigateOk \/ NavigateFails \/ Relogin \/ Greet
Keys     == PressQuit \/ PressRestart \/ OpenMenu \/ OpenView \/ CloseMenu \/ MenuRaises
Stopping == SeeQuit \/ BeginShutdown \/ CancelWorkers \/ CloseBrowser \/ Leave
Daily    == DailyDecide \/ DailySend \/ DailyMark \/ DailyQuit
Updater  == UpdaterAsk \/ UpdaterHear \/ UpdaterPull \/ UpdaterLeave
Launcher == Relaunch \/ StopLauncher
Outside  == StartLauncher \/ Kill \/ Midnight \/ Push \/ LocalCommit

Next ==
  \/ Starting \/ Keys \/ TogglePause \/ DashboardRestart \/ RecoverPage \/ Stopping
  \/ Daily \/ Updater \/ Launcher \/ Outside

(***************************************************************************)
(* The shutdown goes on by itself, and the user comes back from the menu   *)
(* and presses Enter in a view; nothing else is promised.                  *)
(***************************************************************************)
Fairness == WF_vars(Stopping) /\ WF_vars(CloseMenu) /\ WF_vars(Launcher)

Safety == Init /\ [][Next]_vars
Spec == Safety /\ Fairness

-----------------------------------------------------------------------------
(* Properties *)

\* The values each variable may take.
TypeOK ==
  /\ phase \in Phases
  /\ code \in {0, 1, Reboot}
  /\ {sentinel, session, legacy, ids, quit, reboot, paused, ahead, lost} \subseteq BOOLEAN
  /\ navFails \in 0 .. NavLimit
  /\ streak \in 0 .. RecoverFails
  /\ ui \in {"view", "menu", "blocked", "gone"}
  /\ daily \in {"top", "asleep", "sent", "gone"}
  /\ {day, wake} \subseteq 1 .. Days + 1 /\ mark \in 0 .. Days
  /\ updater \in {"idle", "asking", "pulling", "leaving", "gone"}
  /\ {head, running, remote} \subseteq 1 .. MaxCommit
  /\ wanted \subseteq Askers
  /\ claims \in [1 .. Days -> 0 .. MaxClaims] /\ unmarked \in [1 .. Days -> Nat]

(***************************************************************************)
(* A bot that cannot reach its channel asks for a login and starts again   *)
(* fewer than NavLimit times in a row, although every failure is one of    *)
(* another process and the login succeeds each time (main.py:383-418).     *)
(***************************************************************************)
NoEndlessRestarts == autoFails < NavLimit

(***************************************************************************)
(* Whoever asked for a restart before the program ended in good order gets *)
(* it unless the sentinel and the exit code were both lost, and the        *)
(* program is started again only when somebody asked (run.bat:71-92,       *)
(* main.py:622-689).                                                       *)
(***************************************************************************)
RestartsAsAsked ==
  [][/\ Relaunch => wanted # {}
     /\ (phase = "leaving" /\ Leave /\ wanted # {}) => (lost' \/ Restarts')]_vars

(***************************************************************************)
(* However often the program is ended, restarted or paused, /daily is sent *)
(* at most once a day, plus once for every time the program or the loop    *)
(* ended between the command and its mark (daily.py:63-112).               *)
(***************************************************************************)
DailyOnce == \A d \in 1 .. Days : claims[d] <= 1 + unmarked[d]

(***************************************************************************)
(* A restart that only the updater asked for brings other code than the    *)
(* program runs, unless the checkout was ahead of the remote: then the pull*)
(* has nothing to do and the restarts repeat (core/updater.py:68-85).      *)
(***************************************************************************)
UpdateBringsCode ==
  [][(Relaunch /\ wanted = {"updater"}) => (running' # running \/ ahead)]_vars

\* Once quit is set, by whoever, the process ends, although a menu or a view may be open and a
\* browser may fail to close.
QuitEnds == (phase = "run" /\ quit) ~> (phase \in {"exited", "off", "boot"})
==============================================================================
