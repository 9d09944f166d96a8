-------------------------- MODULE Lifecycle_proofs --------------------------
(***************************************************************************)
(* Proofs about Lifecycle for every limit of failures, number of days, of  *)
(* commits and of claims.                                                  *)
(***************************************************************************)
EXTENDS Lifecycle, TLAPS

-----------------------------------------------------------------------------
(* The invariant *)

Early == {"boot", "login", "navigate", "relogin", "greet"}
Later == {"run", "closing", "browser", "leaving"}

Switches == /\ sentinel \in BOOLEAN /\ session \in BOOLEAN /\ legacy \in BOOLEAN /\ ids \in BOOLEAN
            /\ quit \in BOOLEAN /\ reboot \in BOOLEAN /\ paused \in BOOLEAN
            /\ ahead \in BOOLEAN /\ lost \in BOOLEAN
Places   == /\ phase \in Phases /\ code \in {0, 1, Reboot}
            /\ ui \in {"view", "menu", "blocked", "gone"}
            /\ updater \in {"idle", "asking", "pulling", "leaving", "gone"}
Fails    == navFails \in 0 .. NavLimit /\ streak \in 0 .. RecoverFails /\ autoFails \in Nat
Dates    == /\ daily \in {"top", "asleep", "sent", "gone"}
            /\ day \in 1 .. Days /\ wake \in 1 .. Days + 1 /\ mark \in 0 .. Days
            /\ claims \in [1 .. Days -> 0 .. MaxClaims] /\ unmarked \in [1 .. Days -> Nat]
Commits  == /\ head \in 1 .. MaxCommit /\ running \in 1 .. MaxCommit /\ remote \in 1 .. MaxCommit
            /\ wanted \subseteq Askers

\* TypeOK, and that the day and the restarts in a row are those that have been.
Typed == Switches /\ Places /\ Fails /\ Dates /\ Commits

\* A restart after a failed navigation is one failure that the database knows of.
Budget ==
  /\ autoFails < NavLimit /\ autoFails <= navFails
  /\ phase = "relogin" => autoFails < navFails /\ navFails < NavLimit

\* A day later than the mark has no claim but those that lost theirs, and the one under way.
Claimed ==
  /\ mark <= day
  /\ daily # "gone" => phase \in {"run", "closing"}
  /\ daily = "asleep" => mark < wake
  /\ daily = "sent" => wake <= day
  /\ \A d \in 1 .. Days :
       /\ claims[d] <= 1 + unmarked[d]
       /\ mark < d /\ ~(daily = "sent" /\ wake = d) => claims[d] <= unmarked[d]

\* The flag, and after the end the sentinel and the exit code, stand for a wish.
Asked ==
  /\ phase \in Early => wanted = {}
  /\ reboot => wanted # {} /\ phase \in Later
  /\ phase \in Later /\ wanted # {} => reboot
  /\ phase \in Alive => ~sentinel
  /\ phase = "exited" /\ Restarts => wanted # {}

\* Who has pulled, or is about to, has something that the program does not run.
Pulled ==
  /\ running <= head
  /\ updater # "gone" => phase \in {"run", "closing"} /\ "updater" \notin wanted
  /\ updater = "pulling" => ahead \/ head < remote \/ running < head
  /\ updater = "leaving" \/ "updater" \in wanted => ahead \/ running < head

IInv == Typed /\ Budget /\ Claimed /\ Asked /\ Pulled

LEMMA Constants ==
  NavLimit \in Nat \ {0} /\ RecoverFails \in Nat \ {0} /\ Days \in Nat \ {0}
  /\ MaxCommit \in Nat \ {0} /\ MaxClaims \in Nat \ {0}
BY LifecycleAssumption

-----------------------------------------------------------------------------
(* Types *)

LEMMA TypedOK == ASSUME Typed PROVE TypeOK
<1>1. day \in 1 .. Days + 1
  BY Constants DEF Typed, Dates
<1>. QED
  BY <1>1 DEF Typed, Switches, Places, Fails, Dates, Commits, TypeOK

LEMMA ForgetTyped ==
  ASSUME Typed, ForgetDaily
  PROVE  /\ daily' \in {"top", "asleep", "sent", "gone"} /\ wake' \in 1 .. Days + 1
         /\ unmarked' \in [1 .. Days -> Nat]
<1>1. unmarked \in [1 .. Days -> Nat] /\ wake' = 1 /\ daily' = "gone" /\ 1 \in 1 .. Days + 1
  BY Constants DEF Typed, Dates, ForgetDaily
<1>2. \A d \in 1 .. Days : unmarked[d] + 1 \in Nat
  BY <1>1
<1>3. [unmarked EXCEPT ![wake] = unmarked[wake] + 1] \in [1 .. Days -> Nat]
  BY <1>1, <1>2
<1>. QED
  BY <1>1, <1>3 DEF ForgetDaily

LEMMA ExitTyped ==
  ASSUME Typed, NEW c \in {0, 1, Reboot}, Exit(c)
  PROVE  /\ phase' = "exited" /\ code' = c /\ ui' = "view" /\ updater' = "gone"
         /\ quit' = FALSE /\ reboot' = FALSE /\ paused' = FALSE
         /\ streak' = 0 /\ 0 \in 0 .. RecoverFails
         /\ daily' \in {"top", "asleep", "sent", "gone"} /\ wake' \in 1 .. Days + 1
         /\ unmarked' \in [1 .. Days -> Nat]
<1>1. 0 \in 0 .. RecoverFails
  BY Constants
<1>. QED
  BY <1>1, ForgetTyped DEF Exit

LEMMA StartingTyped ==
  ASSUME Typed, Starting
  PROVE  Typed'
<1>. USE Constants DEF Typed, Phases, Askers, disk, flags, memory, gitV, asked, histV
<1>1. CASE Boot
  <2>1. Switches'
    BY <1>1 DEF Boot, BootstrapLayout, FirstRunWizard, Advance, Switches
  <2>2. Places'
    BY <1>1 DEF Boot, BootstrapLayout, FirstRunWizard, Advance, Places
  <2>3. Fails'
    BY <1>1 DEF Boot, BootstrapLayout, FirstRunWizard, Advance, Fails
  <2>4. Dates'
    BY <1>1 DEF Boot, BootstrapLayout, FirstRunWizard, Advance, Dates
  <2>5. Commits'
    BY <1>1 DEF Boot, BootstrapLayout, FirstRunWizard, Advance, Commits
  <2>. QED
    BY <2>1, <2>2, <2>3, <2>4, <2>5
<1>2. CASE Login
  <2>1. Switches'
    BY <1>2, ExitTyped DEF Login, Advance, Switches
  <2>2. Places'
    BY <1>2, ExitTyped DEF Login, Advance, Places
  <2>3. Fails'
    BY <1>2, ExitTyped DEF Login, Advance, Fails
  <2>4. Dates'
    BY <1>2, ExitTyped DEF Login, Advance, Dates
  <2>5. Commits'
    BY <1>2, ExitTyped DEF Login, Advance, Commits
  <2>. QED
    BY <2>1, <2>2, <2>3, <2>4, <2>5
<1>3. CASE Unconfigured
  <2>1. Switches'
    BY <1>3, ExitTyped DEF Unconfigured, Switches
  <2>2. Places'
    BY <1>3, ExitTyped DEF Unconfigured, Places
  <2>3. Fails'
    BY <1>3, ExitTyped DEF Unconfigured, Fails
  <2>4. Dates'
    BY <1>3, ExitTyped DEF Unconfigured, Dates
  <2>5. Commits'
    BY <1>3, ExitTyped DEF Unconfigured, Commits
  <2>. QED
    BY <2>1, <2>2, <2>3, <2>4, <2>5
<1>4. CASE NavigateOk
  <2>1. Switches'
    BY <1>4 DEF NavigateOk, Advance, Switches
  <2>2. Places'
    BY <1>4 DEF NavigateOk, Advance, Places
  <2>3. Fails'
    BY <1>4 DEF NavigateOk, Advance, Fails
  <2>4. Dates'
    BY <1>4 DEF NavigateOk, Advance, Dates
  <2>5. Commits'
    BY <1>4 DEF NavigateOk, Advance, Commits
  <2>. QED
    BY <2>1, <2>2, <2>3, <2>4, <2>5
<1>5. CASE NavigateFails
  <2>1. Switches'
    BY <1>5, ExitTyped DEF NavigateFails, Advance, Switches
  <2>2. Places'
    BY <1>5, ExitTyped DEF NavigateFails, Advance, Places
  <2>3. Fails'
    <3>1. navFails' \in 0 .. NavLimit
      BY <1>5 DEF NavigateFails, Fails
    <3>2. streak' = streak \/ (streak' = 0 /\ 0 \in 0 .. RecoverFails)
      BY <1>5, ExitTyped DEF NavigateFails, Advance
    <3>3. autoFails' = autoFails
      BY <1>5 DEF NavigateFails
    <3>. QED
      BY <3>1, <3>2, <3>3 DEF Fails
  <2>4. Dates'
    BY <1>5, ExitTyped DEF NavigateFails, Advance, Dates
  <2>5. Commits'
    BY <1>5, ExitTyped DEF NavigateFails, Advance, Commits
  <2>. QED
    BY <2>1, <2>2, <2>3, <2>4, <2>5
<1>6. CASE Relogin
  <2>1. Switches'
    BY <1>6, ExitTyped DEF Relogin, Switches
  <2>2. Places'
    BY <1>6, ExitTyped DEF Relogin, Places
  <2>3. Fails'
    <3>1. autoFails' \in Nat /\ navFails' = navFails
      BY <1>6 DEF Relogin, Fails
    <3>2. streak' = 0 /\ 0 \in 0 .. RecoverFails
      BY <1>6, ExitTyped DEF Relogin
    <3>. QED
      BY <3>1, <3>2 DEF Fails
  <2>4. Dates'
    BY <1>6, ExitTyped DEF Relogin, Dates
  <2>5. Commits'
    BY <1>6, ExitTyped DEF Relogin, Commits
  <2>. QED
    BY <2>1, <2>2, <2>3, <2>4, <2>5
<1>7. CASE Greet
  <2>1. Switches'
    BY <1>7 DEF Greet, StartLoops, Switches
  <2>2. Places'
    BY <1>7 DEF Greet, StartLoops, Places
  <2>3. Fails'
    BY <1>7 DEF Greet, StartLoops, Fails
  <2>4. Dates'
    BY <1>7 DEF Greet, StartLoops, Dates
  <2>5. Commits'
    BY <1>7 DEF Greet, StartLoops, Commits
  <2>. QED
    BY <2>1, <2>2, <2>3, <2>4, <2>5
<1>. QED
  BY <1>1, <1>2, <1>3, <1>4, <1>5, <1>6, <1>7 DEF Starting

LEMMA AskingTyped ==
  ASSUME Typed, Keys \/ TogglePause \/ DashboardRestart \/ RecoverPage
  PROVE  Typed'
<1>. USE Constants DEF Typed, Phases, Askers, disk, flags, memory, gitV, asked, histV
<1>1. CASE PressQuit \/ PressRestart
  <2>1. Switches'
    BY <1>1 DEF PressQuit, PressRestart, AskRestart, Switches
  <2>2. Places'
    BY <1>1 DEF PressQuit, PressRestart, AskRestart, Places
  <2>3. Fails'
    BY <1>1 DEF PressQuit, PressRestart, AskRestart, Fails
  <2>4. Dates'
    BY <1>1 DEF PressQuit, PressRestart, AskRestart, Dates
  <2>5. Commits'
    BY <1>1 DEF PressQuit, PressRestart, AskRestart, Commits
  <2>. QED
    BY <2>1, <2>2, <2>3, <2>4, <2>5
<1>2. CASE OpenMenu \/ OpenView \/ CloseMenu
  <2>1. Switches'
    BY <1>2 DEF OpenMenu, OpenView, CloseMenu, ShowInstead, Switches
  <2>2. Places'
    BY <1>2 DEF OpenMenu, OpenView, CloseMenu, ShowInstead, Places
  <2>3. Fails'
    BY <1>2 DEF OpenMenu, OpenView, CloseMenu, ShowInstead, Fails
  <2>4. Dates'
    BY <1>2 DEF OpenMenu, OpenView, CloseMenu, ShowInstead, Dates
  <2>5. Commits'
    BY <1>2 DEF OpenMenu, OpenView, CloseMenu, ShowInstead, Commits
  <2>. QED
    BY <2>1, <2>2, <2>3, <2>4, <2>5
<1>3. CASE MenuRaises
  <2>1. Switches'
    BY <1>3, ExitTyped DEF MenuRaises, Switches
  <2>2. Places'
    BY <1>3, ExitTyped DEF MenuRaises, Places
  <2>3. Fails'
    BY <1>3, ExitTyped DEF MenuRaises, Fails
  <2>4. Dates'
    BY <1>3, ExitTyped DEF MenuRaises, Dates
  <2>5. Commits'
    BY <1>3, ExitTyped DEF MenuRaises, Commits
  <2>. QED
    BY <2>1, <2>2, <2>3, <2>4, <2>5
<1>4. CASE TogglePause \/ DashboardRestart
  <2>1. Switches'
    BY <1>4 DEF TogglePause, DashboardRestart, AskRestart, Switches
  <2>2. Places'
    BY <1>4 DEF TogglePause, DashboardRestart, AskRestart, Places
  <2>3. Fails'
    BY <1>4 DEF TogglePause, DashboardRestart, AskRestart, Fails
  <2>4. Dates'
    BY <1>4 DEF TogglePause, DashboardRestart, AskRestart, Dates
  <2>5. Commits'
    BY <1>4 DEF TogglePause, DashboardRestart, AskRestart, Commits
  <2>. QED
    BY <2>1, <2>2, <2>3, <2>4, <2>5
<1>5. CASE RecoverPage
  <2>1. Switches'
    BY <1>5 DEF RecoverPage, AskRestart, Switches
  <2>2. Places'
    BY <1>5 DEF RecoverPage, AskRestart, Places
  <2>3. Fails'
    <3>1. navFails' = navFails /\ autoFails' = autoFails
          /\ streak' \in {0, streak, IF streak < RecoverFails THEN streak + 1 ELSE streak}
      BY <1>5 DEF RecoverPage
    <3>. QED
      BY <3>1 DEF Fails
  <2>4. Dates'
    BY <1>5 DEF RecoverPage, AskRestart, Dates
  <2>5. Commits'
    BY <1>5 DEF RecoverPage, AskRestart, Commits
  <2>. QED
    BY <2>1, <2>2, <2>3, <2>4, <2>5
<1>. QED
  BY <1>1, <1>2, <1>3, <1>4, <1>5 DEF Keys

LEMMA EndingTyped ==
  ASSUME Typed, Stopping \/ Launcher \/ Outside
  PROVE  Typed'
<1>. USE Constants DEF Typed, Phases, Askers, disk, flags, memory, gitV, asked, histV
<1>1. CASE SeeQuit \/ BeginShutdown
  <2>1. Switches'
    BY <1>1 DEF SeeQuit, ShowInstead, BeginShutdown, Switches
  <2>2. Places'
    BY <1>1 DEF SeeQuit, ShowInstead, BeginShutdown, Places
  <2>3. Fails'
    BY <1>1 DEF SeeQuit, ShowInstead, BeginShutdown, Fails
  <2>4. Dates'
    BY <1>1 DEF SeeQuit, ShowInstead, BeginShutdown, Dates
  <2>5. Commits'
    BY <1>1 DEF SeeQuit, ShowInstead, BeginShutdown, Commits
  <2>. QED
    BY <2>1, <2>2, <2>3, <2>4, <2>5
<1>2. CASE CancelWorkers
  <2>1. Switches'
    BY <1>2, ForgetTyped DEF CancelWorkers, Switches
  <2>2. Places'
    BY <1>2, ForgetTyped DEF CancelWorkers, Places
  <2>3. Fails'
    BY <1>2, ForgetTyped DEF CancelWorkers, Fails
  <2>4. Dates'
    BY <1>2, ForgetTyped DEF CancelWorkers, Dates
  <2>5. Commits'
    BY <1>2, ForgetTyped DEF CancelWorkers, Commits
  <2>. QED
    BY <2>1, <2>2, <2>3, <2>4, <2>5
<1>3. CASE CloseBrowser
  <2>1. Switches'
    BY <1>3, ExitTyped DEF CloseBrowser, Advance, Switches
  <2>2. Places'
    BY <1>3, ExitTyped DEF CloseBrowser, Advance, Places
  <2>3. Fails'
    BY <1>3, ExitTyped DEF CloseBrowser, Advance, Fails
  <2>4. Dates'
    BY <1>3, ExitTyped DEF CloseBrowser, Advance, Dates
  <2>5. Commits'
    BY <1>3, ExitTyped DEF CloseBrowser, Advance, Commits
  <2>. QED
    BY <2>1, <2>2, <2>3, <2>4, <2>5
<1>4. CASE Leave
  <2>1. Switches'
    BY <1>4, ExitTyped DEF Leave, Switches
  <2>2. Places'
    BY <1>4, ExitTyped DEF Leave, Places
  <2>3. Fails'
    BY <1>4, ExitTyped DEF Leave, Fails
  <2>4. Dates'
    BY <1>4, ExitTyped DEF Leave, Dates
  <2>5. Commits'
    BY <1>4, ExitTyped DEF Leave, Commits
  <2>. QED
    BY <2>1, <2>2, <2>3, <2>4, <2>5
<1>5. CASE Relaunch \/ StopLauncher \/ StartLauncher
  <2>1. Switches'
    BY <1>5 DEF Relaunch, StopLauncher, StartLauncher, Start, Switches
  <2>2. Places'
    BY <1>5 DEF Relaunch, StopLauncher, StartLauncher, Start, Places
  <2>3. Fails'
    BY <1>5 DEF Relaunch, StopLauncher, StartLauncher, Start, Fails
  <2>4. Dates'
    BY <1>5 DEF Relaunch, StopLauncher, StartLauncher, Start, Dates
  <2>5. Commits'
    BY <1>5 DEF Relaunch, StopLauncher, StartLauncher, Start, Commits
  <2>. QED
    BY <2>1, <2>2, <2>3, <2>4, <2>5
<1>6. CASE Kill
  <2>1. Switches'
    BY <1>6, ExitTyped DEF Kill, Switches
  <2>2. Places'
    BY <1>6, ExitTyped DEF Kill, Places
  <2>3. Fails'
    BY <1>6, ExitTyped DEF Kill, Fails
  <2>4. Dates'
    BY <1>6, ExitTyped DEF Kill, Dates
  <2>5. Commits'
    BY <1>6, ExitTyped DEF Kill, Commits
  <2>. QED
    BY <2>1, <2>2, <2>3, <2>4, <2>5
<1>7. CASE Midnight \/ Push \/ LocalCommit
  <2>1. Switches'
    BY <1>7 DEF Midnight, Push, LocalCommit, Switches
  <2>2. Places'
    BY <1>7 DEF Midnight, Push, LocalCommit, Places
  <2>3. Fails'
    BY <1>7 DEF Midnight, Push, LocalCommit, Fails
  <2>4. Dates'
    <3>1. /\ UNCHANGED <<daily, wake, mark, claims, unmarked>>
          /\ day' = day \/ (day < Days /\ day' = day + 1)
      BY <1>7 DEF Midnight, Push, LocalCommit
    <3>. QED
      BY <3>1 DEF Dates
  <2>5. Commits'
    <3>1. running' = running /\ wanted' = wanted
          /\ (head' = head \/ (head < MaxCommit /\ head' = head + 1))
          /\ (remote' = remote \/ (remote < MaxCommit /\ remote' = remote + 1))
      BY <1>7 DEF Midnight, Push, LocalCommit
    <3>. QED
      BY <3>1 DEF Commits
  <2>. QED
    BY <2>1, <2>2, <2>3, <2>4, <2>5
<1>. QED
  BY <1>1, <1>2, <1>3, <1>4, <1>5, <1>6, <1>7 DEF Stopping, Launcher, Outside

LEMMA LoopsTyped ==
  ASSUME Typed, Daily \/ Updater
  PROVE  Typed'
<1>. USE Constants DEF Typed, Phases, Askers, disk, flags, memory, gitV, asked, histV
<1>1. CASE DailyDecide
  <2>1. Switches'
    BY <1>1 DEF DailyDecide, SleepUntil, Switches
  <2>2. Places'
    BY <1>1 DEF DailyDecide, SleepUntil, Places
  <2>3. Fails'
    BY <1>1 DEF DailyDecide, SleepUntil, Fails
  <2>4. Dates'
    BY <1>1 DEF DailyDecide, SleepUntil, Dates
  <2>5. Commits'
    BY <1>1 DEF DailyDecide, SleepUntil, Commits
  <2>. QED
    BY <2>1, <2>2, <2>3, <2>4, <2>5
<1>2. CASE DailySend
  <2>1. Switches'
    BY <1>2 DEF DailySend, Switches
  <2>2. Places'
    BY <1>2 DEF DailySend, Places
  <2>3. Fails'
    BY <1>2 DEF DailySend, Fails
  <2>4. Dates'
    <3>1. /\ UNCHANGED <<day, mark, unmarked>> /\ daily' = "sent" /\ wake' = day
          /\ claims[day] < MaxClaims /\ claims' = [claims EXCEPT ![day] = claims[day] + 1]
      BY <1>2 DEF DailySend
    <3>2. claims[day] + 1 \in 0 .. MaxClaims
      BY <3>1 DEF Dates
    <3>3. claims' \in [1 .. Days -> 0 .. MaxClaims] /\ day \in 1 .. Days + 1
      BY <3>1, <3>2 DEF Dates
    <3>. QED
      BY <3>1, <3>3 DEF Dates
  <2>5. Commits'
    BY <1>2 DEF DailySend, Commits
  <2>. QED
    BY <2>1, <2>2, <2>3, <2>4, <2>5
<1>3. CASE DailyMark
  <2>1. Switches'
    BY <1>3, ForgetTyped DEF DailyMark, Switches
  <2>2. Places'
    BY <1>3, ForgetTyped DEF DailyMark, Places
  <2>3. Fails'
    BY <1>3, ForgetTyped DEF DailyMark, Fails
  <2>4. Dates'
    <3>1. day' = day /\ claims' = claims /\ mark' \in {mark, day}
      BY <1>3 DEF DailyMark
    <3>2. /\ daily' \in {"top", "asleep", "sent", "gone"} /\ wake' \in 1 .. Days + 1
          /\ unmarked' \in [1 .. Days -> Nat]
      BY <1>3, ForgetTyped DEF DailyMark, Dates
    <3>. QED
      BY <3>1, <3>2 DEF Dates
  <2>5. Commits'
    BY <1>3, ForgetTyped DEF DailyMark, Commits
  <2>. QED
    BY <2>1, <2>2, <2>3, <2>4, <2>5
<1>4. CASE DailyQuit
  <2>1. Switches'
    BY <1>4, ForgetTyped DEF DailyQuit, Switches
  <2>2. Places'
    BY <1>4, ForgetTyped DEF DailyQuit, Places
  <2>3. Fails'
    BY <1>4, ForgetTyped DEF DailyQuit, Fails
  <2>4. Dates'
    BY <1>4, ForgetTyped DEF DailyQuit, Dates
  <2>5. Commits'
    BY <1>4, ForgetTyped DEF DailyQuit, Commits
  <2>. QED
    BY <2>1, <2>2, <2>3, <2>4, <2>5
<1>5. CASE UpdaterAsk \/ UpdaterHear
  <2>1. Switches'
    <3> DEFINE newer == head > remote
    <3>1. newer \in BOOLEAN
      OBVIOUS
    <3>2. CASE UpdaterHear
      <4>1. ahead' = newer
        BY <3>2 DEF UpdaterHear
      <4>. HIDE DEF newer
      <4>. QED
        BY <3>1, <3>2, <4>1 DEF UpdaterHear, UpdaterGoes, Switches
    <3>3. CASE UpdaterAsk
      BY <3>3 DEF UpdaterAsk, UpdaterGoes, Switches
    <3>. QED
      BY <1>5, <3>2, <3>3
  <2>2. Places'
    BY <1>5 DEF UpdaterAsk, UpdaterHear, UpdaterGoes, Places
  <2>3. Fails'
    BY <1>5 DEF UpdaterAsk, UpdaterHear, UpdaterGoes, Fails
  <2>4. Dates'
    BY <1>5 DEF UpdaterAsk, UpdaterHear, UpdaterGoes, Dates
  <2>5. Commits'
    BY <1>5 DEF UpdaterAsk, UpdaterHear, UpdaterGoes, Commits
  <2>. QED
    BY <2>1, <2>2, <2>3, <2>4, <2>5
<1>6. CASE UpdaterPull \/ UpdaterLeave
  <2>1. Switches'
    <3>1. UNCHANGED <<sentinel, session, legacy, ids, paused, ahead, lost>>
      BY <1>6 DEF UpdaterPull, UpdaterLeave, UpdaterGoes
    <3>2. (quit' = quit /\ reboot' = reboot) \/ (quit' = TRUE /\ reboot' = TRUE)
      BY <1>6 DEF UpdaterPull, UpdaterLeave, AskRestart
    <3>. QED
      BY <3>1, <3>2 DEF Switches
  <2>2. Places'
    BY <1>6 DEF UpdaterPull, UpdaterLeave, UpdaterGoes, AskRestart, Places
  <2>3. Fails'
    BY <1>6 DEF UpdaterPull, UpdaterLeave, UpdaterGoes, AskRestart, Fails
  <2>4. Dates'
    BY <1>6 DEF UpdaterPull, UpdaterLeave, UpdaterGoes, AskRestart, Dates
  <2>5. Commits'
    BY <1>6 DEF UpdaterPull, UpdaterLeave, UpdaterGoes, AskRestart, Commits
  <2>. QED
    BY <2>1, <2>2, <2>3, <2>4, <2>5
<1>. QED
  BY <1>1, <1>2, <1>3, <1>4, <1>5, <1>6 DEF Daily, Updater

LEMMA NextTyped == ASSUME Typed, Next PROVE Typed'
BY StartingTyped, AskingTyped, EndingTyped, LoopsTyped DEF Next

-----------------------------------------------------------------------------
(* Restarts after failed navigations *)

\* What every step but four leaves alone.
LEMMA NavigationKept ==
  ASSUME Next, ~NavigateOk, ~NavigateFails, ~Relogin, ~StartLauncher
  PROVE  UNCHANGED <<navFails, autoFails>> /\ (phase' = phase \/ phase' # "relogin")
<1>. USE DEF disk, flags, memory, gitV, asked, histV, Exit
<1>1. CASE Starting
  BY <1>1 DEF Starting, Boot, Login, Unconfigured, Greet, Advance
<1>2. CASE Keys
  BY <1>2 DEF Keys, PressQuit, PressRestart, OpenMenu, OpenView, CloseMenu, MenuRaises,
              ShowInstead
<1>3. CASE TogglePause \/ DashboardRestart \/ RecoverPage
  BY <1>3 DEF TogglePause, DashboardRestart, RecoverPage
<1>4. CASE Stopping
  BY <1>4 DEF Stopping, SeeQuit, ShowInstead, BeginShutdown, CancelWorkers, CloseBrowser, Leave,
              Advance
<1>5. CASE Daily
  BY <1>5 DEF Daily, DailyDecide, SleepUntil, DailySend, DailyMark, DailyQuit
<1>6. CASE Updater
  BY <1>6 DEF Updater, UpdaterAsk, UpdaterHear, UpdaterPull, UpdaterLeave, UpdaterGoes
<1>7. CASE Launcher
  BY <1>7 DEF Launcher, Relaunch, StopLauncher, Start
<1>8. CASE Kill \/ Midnight \/ Push \/ LocalCommit
  BY <1>8 DEF Kill, Midnight, Push, LocalCommit
<1>. QED
  BY <1>1, <1>2, <1>3, <1>4, <1>5, <1>6, <1>7, <1>8 DEF Next, Outside

LEMMA BudgetStep == ASSUME Typed, Budget, Next PROVE Budget'
<1>. USE Constants
<1>0. navFails \in 0 .. NavLimit /\ autoFails \in Nat
  BY DEF Typed, Fails
<1>1. CASE NavigateOk
  BY <1>0, <1>1 DEF NavigateOk, Advance, Budget
<1>2. CASE NavigateFails
  <2>1. autoFails' = autoFails /\ navFails' >= navFails
        /\ navFails' = (IF navFails < NavLimit THEN navFails + 1 ELSE navFails)
    BY <1>0, <1>2 DEF NavigateFails, histV
  <2>2. phase' = "relogin" => navFails' < NavLimit
    BY <1>2 DEF NavigateFails, Exit, Advance
  <2>. QED
    BY <1>0, <2>1, <2>2 DEF Budget
<1>3. CASE Relogin
  <2>1. navFails' = navFails /\ phase' = "exited" /\ phase = "relogin"
        /\ autoFails' \in {autoFails, autoFails + 1}
    BY <1>0, <1>3 DEF Relogin, Exit
  <2>. QED
    BY <1>0, <2>1 DEF Budget
<1>4. CASE StartLauncher
  BY <1>0, <1>4 DEF StartLauncher, Start, disk, Budget
<1>. QED
  BY <1>1, <1>2, <1>3, <1>4, NavigationKept DEF Budget

-----------------------------------------------------------------------------
(* Claims *)

LEMMA ForgetClaimed ==
  ASSUME Typed, Claimed, ForgetDaily, UNCHANGED <<day, mark, claims>>
  PROVE  Claimed'
<1>1. /\ unmarked \in [1 .. Days -> Nat] /\ claims \in [1 .. Days -> 0 .. MaxClaims]
      /\ daily' = "gone" /\ mark \in 0 .. Days
  BY DEF Typed, Dates, ForgetDaily
<1>2. CASE daily = "sent"
  <2>1. \A d \in 1 .. Days :
          unmarked'[d] = IF d = wake THEN unmarked[d] + 1 ELSE unmarked[d]
    BY <1>1, <1>2 DEF ForgetDaily
  <2>2. ASSUME NEW d \in 1 .. Days
        PROVE  /\ claims'[d] <= 1 + unmarked'[d]
               /\ mark < d => claims'[d] <= unmarked'[d]
    <3>1. claims[d] \in Nat /\ unmarked[d] \in Nat /\ claims' = claims
      BY <1>1, Constants
    <3>2. claims[d] <= 1 + unmarked[d] /\ (mark < d /\ d # wake => claims[d] <= unmarked[d])
      BY DEF Claimed
    <3>. QED
      BY <2>1, <3>1, <3>2
  <2>. QED
    BY <1>1, <2>2 DEF Claimed
<1>3. CASE daily # "sent"
  BY <1>1, <1>3 DEF ForgetDaily, Claimed
<1>. QED
  BY <1>2, <1>3

\* What every step but those of the loop, its start and midnight leaves alone.
LEMMA ClaimsKept ==
  ASSUME Typed, Next, ~Daily, ~Greet, ~Midnight
  PROVE  /\ UNCHANGED <<day, mark, claims>>
         /\ \/ ForgetDaily
            \/ /\ UNCHANGED <<daily, wake, unmarked>>
               /\ phase' = phase \/ phase \notin {"run", "closing"}
                  \/ (phase = "run" /\ phase' = "closing")
<1>. USE DEF disk, flags, memory, gitV, asked, histV, Exit, Advance
<1>1. CASE Starting
  BY <1>1 DEF Starting, Boot, Login, Unconfigured, NavigateOk, NavigateFails, Relogin
<1>2. CASE Keys
  BY <1>2 DEF Keys, PressQuit, PressRestart, OpenMenu, OpenView, CloseMenu, MenuRaises,
              ShowInstead
<1>3. CASE TogglePause \/ DashboardRestart \/ RecoverPage
  BY <1>3 DEF TogglePause, DashboardRestart, RecoverPage
<1>4. CASE Stopping
  BY <1>4 DEF Stopping, SeeQuit, ShowInstead, BeginShutdown, CancelWorkers, CloseBrowser, Leave
<1>5. CASE Updater
  BY <1>5 DEF Updater, UpdaterAsk, UpdaterHear, UpdaterPull, UpdaterLeave, UpdaterGoes
<1>6. CASE Launcher
  BY <1>6 DEF Launcher, Relaunch, StopLauncher, Start
<1>7. CASE StartLauncher \/ Kill \/ Push \/ LocalCommit
  BY <1>7 DEF StartLauncher, Start, Kill, Push, LocalCommit
<1>. QED
  BY <1>1, <1>2, <1>3, <1>4, <1>5, <1>6, <1>7 DEF Next, Outside

LEMMA ClaimedStep == ASSUME Typed, Claimed, Next PROVE Claimed'
<1>0. /\ unmarked \in [1 .. Days -> Nat] /\ claims \in [1 .. Days -> 0 .. MaxClaims]
      /\ day \in 1 .. Days /\ mark \in 0 .. Days /\ wake \in 1 .. Days + 1
      /\ Days \in Nat /\ MaxClaims \in Nat
  BY Constants DEF Typed, Dates
<1>1. CASE DailyDecide
  <2>1. /\ UNCHANGED <<day, mark, claims, unmarked, phase>> /\ daily = "top" /\ daily' = "asleep"
        /\ wake' = (IF mark < day THEN day ELSE day + 1) /\ phase \in {"run", "closing"}
    BY <1>1 DEF DailyDecide, SleepUntil, LoopsGoOn, disk, histV
  <2>2. mark < wake'
    BY <1>0, <2>1 DEF Claimed
  <2>. QED
    BY <1>0, <2>1, <2>2 DEF Claimed
<1>2. CASE DailySend
  <2>1. /\ UNCHANGED <<day, mark, unmarked, phase>> /\ daily = "asleep" /\ daily' = "sent"
        /\ wake' = day /\ wake <= day /\ phase \in {"run", "closing"}
        /\ claims' = [claims EXCEPT ![day] = claims[day] + 1]
    BY <1>0, <1>2 DEF DailySend, LoopsGoOn, disk
  <2>2. claims[day] <= unmarked[day]
    BY <1>0, <2>1 DEF Claimed
  <2>3. \A d \in 1 .. Days : claims'[d] = IF d = day THEN claims[d] + 1 ELSE claims[d]
    BY <1>0, <2>1
  <2>4. ASSUME NEW d \in 1 .. Days
        PROVE  /\ claims'[d] <= 1 + unmarked[d]
               /\ mark < d /\ d # day => claims'[d] <= unmarked[d]
    <3>1. claims[d] \in Nat /\ unmarked[d] \in Nat
      BY <1>0
    <3>2. claims[d] <= 1 + unmarked[d] /\ (mark < d => claims[d] <= unmarked[d])
      BY <2>1 DEF Claimed
    <3>. QED
      BY <2>2, <2>3, <3>1, <3>2
  <2>. QED
    BY <1>0, <2>1, <2>4 DEF Claimed
<1>3. CASE DailyMark
  <2>1. CASE ForgetDaily /\ mark' = mark
    BY <1>3, <2>1, ForgetClaimed DEF DailyMark, histV
  <2>2. CASE mark' = day /\ daily' = "top" /\ UNCHANGED unmarked
    <3>1. UNCHANGED <<day, claims, phase>> /\ daily = "sent" /\ phase \in {"run", "closing"}
      BY <1>3 DEF DailyMark, LoopsGoOn, histV
    <3>2. wake <= day /\ mark <= day
      BY <3>1 DEF Claimed
    <3>3. \A d \in 1 .. Days : day < d => mark < d /\ d # wake
      BY <1>0, <3>2
    <3>4. \A d \in 1 .. Days : claims[d] <= 1 + unmarked[d]
                              /\ (day < d => claims[d] <= unmarked[d])
      BY <3>3 DEF Claimed
    <3>. QED
      BY <1>0, <2>2, <3>1, <3>4 DEF Claimed
  <2>. QED
    BY <1>3, <2>1, <2>2 DEF DailyMark
<1>4. CASE DailyQuit
  BY <1>4, ForgetClaimed DEF DailyQuit, disk, histV
<1>5. CASE Greet
  BY <1>0, <1>5 DEF Greet, StartLoops, disk, histV, Claimed
<1>6. CASE Midnight
  BY <1>0, <1>6 DEF Midnight, disk, memory, histV, Claimed
<1>7. CASE ForgetDaily /\ UNCHANGED <<day, mark, claims>>
  BY <1>7, ForgetClaimed
<1>8. CASE /\ UNCHANGED <<day, mark, claims, daily, wake, unmarked>>
           /\ phase' = phase \/ phase \notin {"run", "closing"}
              \/ (phase = "run" /\ phase' = "closing")
  BY <1>8 DEF Claimed
<1>. QED
  BY <1>1, <1>2, <1>3, <1>4, <1>5, <1>6, <1>7, <1>8, ClaimsKept DEF Daily

-----------------------------------------------------------------------------
(* Restarts that are asked for *)

LEMMA AskedStep == ASSUME Typed, Asked, Next PROVE Asked'
<1>. USE DEF disk, flags, memory, gitV, asked, histV, Early, Later, Alive, Phases
<1>1. CASE Starting
  <2>1. CASE Boot \/ NavigateOk \/ Greet
    BY <1>1, <2>1 DEF Boot, NavigateOk, Greet, Advance, Asked
  <2>2. CASE Login \/ Unconfigured
    BY <2>2 DEF Login, Unconfigured, Advance, Exit, Asked, Restarts, Reboot
  <2>3. CASE NavigateFails
    BY <2>3 DEF NavigateFails, Advance, Exit, Asked, Restarts, Reboot
  <2>4. CASE Relogin
    BY <2>4 DEF Relogin, Exit, Asked, Restarts, Reboot
  <2>. QED
    BY <1>1, <2>1, <2>2, <2>3, <2>4 DEF Starting
<1>2. CASE Keys
  <2>1. CASE PressQuit \/ OpenMenu \/ OpenView \/ CloseMenu
    BY <2>1 DEF PressQuit, OpenMenu, OpenView, CloseMenu, ShowInstead, Asked, Restarts
  <2>2. CASE PressRestart
    BY <2>2 DEF PressRestart, AtView, AskRestart, Asked
  <2>3. CASE MenuRaises
    BY <2>3 DEF MenuRaises, Exit, Asked, Restarts, Reboot
  <2>. QED
    BY <1>2, <2>1, <2>2, <2>3 DEF Keys
<1>3. CASE TogglePause \/ DashboardRestart
  BY <1>3 DEF TogglePause, DashboardRestart, AskRestart, Asked
<1>4. CASE RecoverPage
  <2>1. /\ phase \in {"run", "closing"} /\ phase' = phase /\ sentinel' = sentinel /\ code' = code
        /\ \/ reboot' = reboot /\ wanted' = wanted
           \/ reboot' = TRUE /\ wanted' = wanted \cup {"other"}
    BY <1>4 DEF RecoverPage, LoopsGoOn, AskRestart
  <2>. QED
    BY <2>1 DEF Asked
<1>5. CASE Stopping
  <2>1. CASE SeeQuit \/ BeginShutdown \/ CancelWorkers
    BY <2>1 DEF SeeQuit, ShowInstead, BeginShutdown, CancelWorkers, Asked
  <2>2. CASE CloseBrowser
    BY <2>2 DEF CloseBrowser, Advance, Exit, Asked, Restarts, Reboot
  <2>3. CASE Leave
    BY <2>3 DEF Leave, Exit, Asked, Restarts, Reboot
  <2>. QED
    BY <1>5, <2>1, <2>2, <2>3 DEF Stopping
<1>6. CASE Daily
  BY <1>6 DEF Daily, DailyDecide, SleepUntil, DailySend, DailyMark, DailyQuit, Asked, Restarts
<1>7. CASE Updater
  <2>1. CASE UpdaterAsk \/ UpdaterHear \/ UpdaterPull
    BY <2>1 DEF UpdaterAsk, UpdaterHear, UpdaterPull, UpdaterGoes, Asked, Restarts
  <2>2. CASE UpdaterLeave
    BY <2>2 DEF UpdaterLeave, LoopsGoOn, UpdaterGoes, AskRestart, Asked
  <2>. QED
    BY <1>7, <2>1, <2>2 DEF Updater
<1>8. CASE Launcher \/ StartLauncher
  BY <1>8 DEF Launcher, StartLauncher, Relaunch, StopLauncher, Start, Asked
<1>9. CASE Kill
  BY <1>9 DEF Kill, Exit, Asked, Restarts, Reboot
<1>10. CASE Midnight \/ Push \/ LocalCommit
  BY <1>10 DEF Midnight, Push, LocalCommit, Asked, Restarts
<1>. QED
  BY <1>1, <1>2, <1>3, <1>4, <1>5, <1>6, <1>7, <1>8, <1>9, <1>10 DEF Next, Outside

\* A program that ends in good order hands a restart over, or knows that it could not.
LEMMA LeaveHandsOver ==
  ASSUME Asked, phase = "leaving", Leave, wanted # {}
  PROVE  lost' \/ Restarts'
<1>1. reboot
  BY DEF Asked, Later
<1>2. sentinel' \in BOOLEAN /\ code' \in {0, Reboot} /\ lost' = (~sentinel' /\ code' = 0)
  BY <1>1 DEF Leave, Exit
<1>. QED
  BY <1>2 DEF Restarts

-----------------------------------------------------------------------------
(* Updates *)

\* What every step outside of the updater leaves alone, unless the program ends or starts.
LEMMA GitKept ==
  ASSUME Next, ~Updater, ~Greet, ~Relaunch, ~StartLauncher, ~Push, ~LocalCommit
  PROVE  /\ UNCHANGED gitV /\ ahead' = ahead
         /\ wanted' = wanted \/ wanted' = wanted \cup {"other"}
         /\ \/ updater' = "gone"
            \/ updater' = updater /\ (phase' = phase \/ (phase = "run" /\ phase' = "closing")
                                      \/ phase \notin {"run", "closing"})
<1>. USE DEF disk, flags, memory, gitV, asked, histV, Exit, Advance
<1>1. CASE Starting
  BY <1>1 DEF Starting, Boot, Login, Unconfigured, NavigateOk, NavigateFails, Relogin
<1>2. CASE Keys
  BY <1>2 DEF Keys, PressQuit, PressRestart, OpenMenu, OpenView, CloseMenu, MenuRaises,
              ShowInstead, AskRestart
<1>3. CASE TogglePause \/ DashboardRestart \/ RecoverPage
  BY <1>3 DEF TogglePause, DashboardRestart, RecoverPage, AskRestart
<1>4. CASE Stopping
  BY <1>4 DEF Stopping, SeeQuit, ShowInstead, BeginShutdown, CancelWorkers, CloseBrowser, Leave
<1>5. CASE Daily
  BY <1>5 DEF Daily, DailyDecide, SleepUntil, DailySend, DailyMark, DailyQuit
<1>6. CASE StopLauncher \/ Kill \/ Midnight
  BY <1>6 DEF StopLauncher, Kill, Midnight
<1>. QED
  BY <1>1, <1>2, <1>3, <1>4, <1>5, <1>6 DEF Next, Launcher, Outside

LEMMA PulledStep == ASSUME Typed, Asked, Pulled, Next PROVE Pulled'
<1>0. head \in Nat /\ running \in Nat /\ remote \in Nat
  BY Constants DEF Typed, Commits
<1>1. CASE Updater
  <2>1. CASE UpdaterAsk
    BY <2>1 DEF UpdaterAsk, UpdaterGoes, LoopsGoOn, flags, Pulled
  <2>2. CASE UpdaterHear
    <3>1. /\ UNCHANGED <<head, running, remote, wanted, phase>>
          /\ phase \in {"run", "closing"} /\ updater = "asking"
          /\ updater' = "idle" \/ (updater' = "pulling" /\ head # remote)
          /\ ahead' <=> head > remote
      BY <2>2 DEF UpdaterHear, UpdaterGoes, LoopsGoOn, HasUpdate
    <3>. QED
      BY <1>0, <3>1 DEF Pulled
  <2>3. CASE UpdaterPull
    <3>1. /\ UNCHANGED <<running, remote, wanted, phase, ahead>>
          /\ phase \in {"run", "closing"} /\ updater = "pulling"
          /\ \/ updater' = "idle" /\ head' = head
             \/ updater' = "leaving" /\ head' = IF head < remote THEN remote ELSE head
      BY <2>3 DEF UpdaterPull, UpdaterGoes
    <3>. QED
      BY <1>0, <3>1 DEF Pulled
  <2>4. CASE UpdaterLeave
    <3>1. /\ UNCHANGED <<head, running, remote, ahead>> /\ updater = "leaving" /\ updater' = "gone"
      BY <2>4 DEF UpdaterLeave, UpdaterGoes
    <3>. QED
      BY <1>0, <3>1 DEF Pulled
  <2>. QED
    BY <1>1, <2>1, <2>2, <2>3, <2>4 DEF Updater
<1>2. CASE Greet
  <2>1. /\ UNCHANGED <<head, running, remote, ahead, wanted>> /\ wanted = {}
        /\ phase' = "run" /\ updater' = "idle"
    BY <1>2 DEF Greet, StartLoops, gitV, histV, asked, Asked, Early
  <2>. QED
    BY <2>1 DEF Pulled
<1>3. CASE Relaunch \/ StartLauncher
  <2>1. /\ running' = head /\ head' = head /\ wanted' = {} /\ updater' = updater
        /\ phase \in {"off", "exited"}
    BY <1>3 DEF Relaunch, StartLauncher, Start, memory
  <2>. QED
    BY <1>0, <2>1 DEF Pulled
<1>4. CASE Push \/ LocalCommit
  <2>1. /\ UNCHANGED <<phase, running, updater, wanted, ahead>>
        /\ \/ head' = head /\ remote' = remote + 1
           \/ head' = head + 1 /\ remote' = remote
    BY <1>4 DEF Push, LocalCommit, memory, histV, asked
  <2>. QED
    BY <1>0, <2>1 DEF Pulled
<1>5. CASE ~Updater /\ ~Greet /\ ~Relaunch /\ ~StartLauncher /\ ~Push /\ ~LocalCommit
  BY <1>5, GitKept DEF gitV, Pulled
<1>. QED
  BY <1>1, <1>2, <1>3, <1>4, <1>5

-----------------------------------------------------------------------------
(* The theorems *)

LEMMA InitInv == ASSUME Init PROVE IInv
<1>. USE Constants
<1>1. Typed
  <2>1. Switches /\ Places
    BY DEF Init, Switches, Places, Phases
  <2>2. Fails /\ Commits
    BY DEF Init, Fails, Commits
  <2>3. Dates
    BY DEF Init, NoClaim, Dates
  <2>. QED
    BY <2>1, <2>2, <2>3 DEF Typed
<1>2. Budget
  BY DEF Init, Budget
<1>3. Claimed
  BY DEF Init, NoClaim, Claimed
<1>4. Asked /\ Pulled
  BY DEF Init, Asked, Pulled, Early, Later, Alive, Phases
<1>. QED
  BY <1>1, <1>2, <1>3, <1>4 DEF IInv

LEMMA SameInv == ASSUME IInv, UNCHANGED vars PROVE IInv'
<1>. USE DEF vars, disk, flags, memory, gitV, asked, histV
<1>1. Typed'
  BY DEF IInv, Typed, Switches, Places, Fails, Dates, Commits
<1>2. Budget' /\ Claimed'
  BY DEF IInv, Budget, Claimed
<1>3. Asked' /\ Pulled'
  BY DEF IInv, Asked, Pulled, Restarts
<1>. QED
  BY <1>1, <1>2, <1>3 DEF IInv

\* The invariant is inductive: what the database knows of failures, what the mark says of
\* the claims, and what stands for a wish to restart (main.py:383-432, daily.py:63-112).
THEOREM InductiveInvariant == Safety => []IInv
<1>1. Init => IInv
  BY InitInv
<1>2. IInv /\ [Next]_vars => IInv'
  BY NextTyped, BudgetStep, ClaimedStep, AskedStep, PulledStep, SameInv DEF IInv
<1>. QED
  BY <1>1, <1>2, PTL DEF Safety

\* Flags, counters, days and commits keep their types through starts, ends and kills.
THEOREM TypeCorrect == Safety => []TypeOK
<1>1. IInv => TypeOK
  BY TypedOK DEF IInv
<1>. QED
  BY <1>1, InductiveInvariant, PTL

\* main.py:383-418: however often the navigation fails and the login succeeds, the program
\* starts itself again fewer than NavLimit times in a row.
THEOREM RestartsEnd == Safety => []NoEndlessRestarts
<1>1. IInv => NoEndlessRestarts
  BY DEF IInv, Budget, NoEndlessRestarts
<1>. QED
  BY <1>1, InductiveInvariant, PTL

\* daily.py:63-112: whatever ends the program and whenever it starts, a second /daily of a
\* day has an end of the program or of the loop, between command and mark, to blame.
THEOREM ClaimedOnce == Safety => []DailyOnce
<1>1. IInv => DailyOnce
  BY DEF IInv, Claimed, DailyOnce
<1>. QED
  BY <1>1, InductiveInvariant, PTL

\* run.bat:71-92, main.py:622-689: the program starts again only if somebody asked, and if
\* somebody asked before an orderly end, unless sentinel and exit code are both lost.
THEOREM RestartsHandedOver == Safety => RestartsAsAsked
<1>1. IInv /\ [Next]_vars =>
        [/\ Relaunch => wanted # {}
         /\ (phase = "leaving" /\ Leave /\ wanted # {}) => (lost' \/ Restarts')]_vars
  BY LeaveHandsOver DEF IInv, Asked, Relaunch
<1>. QED
  BY <1>1, InductiveInvariant, PTL DEF Safety, RestartsAsAsked

\* core/updater.py:68-85: a restart that the updater alone asked for runs other code than
\* before, unless the checkout was ahead of the remote.
THEOREM UpdatesRun == Safety => UpdateBringsCode
<1>1. ASSUME IInv, Relaunch, wanted = {"updater"} PROVE running' # running \/ ahead
  <2>1. running' = head /\ head \in Nat /\ running \in Nat
    BY <1>1, Constants DEF IInv, Typed, Commits, Relaunch, Start
  <2>. QED
    BY <1>1, <2>1 DEF IInv, Pulled
<1>2. IInv /\ [Next]_vars =>
        [(Relaunch /\ wanted = {"updater"}) => (running' # running \/ ahead)]_vars
  BY <1>1
<1>. QED
  BY <1>2, InductiveInvariant, PTL DEF Safety, UpdateBringsCode

=============================================================================
