# Verification of discord-auto-bot in TLA+

The program is a Discord bot that drives one browser page (Playwright) from ten
asyncio tasks: it claims, gambles, transfers, watches a cat, stocks and news,
reports by e-mail, and is configured from a terminal menu and a web dashboard.
Line numbers below are those of the repository.

This directory holds TLA+ models of the program, TLC configurations that check
them on small instances, and TLAPS proofs that hold for every value of the
constants. `PROJECT.json` maps each definition to the lines it models and lists
the runs, the mutants, the hazards, the findings and the theorems.

## Inventory

| Part | State | Operations | Talks to |
|---|---|---|---|
| Page and lock (`bot/discord/client.py`) | the page's channel, its input box, `command_lock` | `channel_context`, `_send_slash_command`, `_send_message`, `send_and_capture_balance`, `play_slot`, `recover_page`, button clicks | every loop; Discord |
| Shared state (`bot/core/state.py`) | balance, flags, counters, `paused`, `quit`, loop health, log queues | `interruptible_sleep`, `wait_while_paused`, `mark_loop_*` | every loop, UI, dashboard |
| Gambling (`bot/scheduler/gambling.py`) | `fail_count`, streak, cool-down, history | one round: decide, `/slot`, process; `/balance`; reload | page, state, digest, database |
| Goal and stop loss (`bot/notifications/digest.py`) | `goal_reached`, `loss_triggered`, `dead_notified` | `maybe_notify_goal`, `maybe_handle_stop_loss`, `notify_dead` | page, mail, configuration |
| Claims, transfers (`hourly.py`, `daily.py`, `transfer.py`) | next times, `last_daily_fired_ts` | a command, then the goal check | page, state, database |
| Neko, stock, news, debug (`bot/scheduler/`) | deadline, snapshot, notified signals, pending queue, health | poll, parse, store, notify, pause after failures | page (own channels), database |
| Updater (`scheduler/updater.py`, `core/updater.py`) | commits, `update_available` | check, pull, reboot | git, `main.py` |
| Configuration (`core/config.py`, holder in `main.py`) | the live object, its rows in the database | `save_config`, `load_config`, `merge_partial`, `validate` | menu, dashboard thread, goal handling |
| Database (`core/db.py`) | tables, one write lock | short transactions in threads | all |
| UI and menu (`bot/ui/`) | the pressed key, the object under edit | keys, sub-menus, views | state, configuration |
| Dashboard (`bot/web/`) | - | pages, snapshots, actions, `POST /api/config` | its own threads, main loop |
| Start and stop (`main.py`, `run.bat`) | navigation failures, reboot flag | start, login, graceful shutdown, restart | all |
| Strategies, parsers, statistics (`bot/slot/`, `bot/stock/`) | - | pure functions | loops |

What is hard, by part, and what makes it right:

- **Page.** Typing, waiting and reading are dozens of awaits; every one may
  fail or be cancelled. Right: one loop at a time between acquire and release,
  texts sent whole, replies not mixed up, the page back on the main channel
  whenever the lock is free, every waiter served, shutdown ends.
- **Gambling.** A bet is decided long before it is sent; balances come from four
  loops; limits move under it. Right: no bet below the threshold it was decided
  against, none after a stop but the one under way, goals handled once, cool-downs
  kept, a dead bot told about as soon as enough reads have failed, and not before.
- **Configuration.** Three kinds of writers, one of them a thread, over object
  identity and a save of ten transactions. Right: disk and memory agree at
  rest, what was confirmed is stored, what failed has no effect.
- **Start and stop.** Counters that survive restarts, a login, a shutdown that
  cancels. Right: no endless restarts, no lost restart, nothing claimed twice.
- **Other loops.** Failure streaks, queues, transitions seen through polls that
  may fail. Right: a loop that is paused after failures comes back, an event is
  announced once, entries are not lost silently.

## Modules

| Module | What it is |
|---|---|
| `Session` | abstract specification: one session at a time on the page, first come first served, every message one author's whole text |
| `Commands` | the page protocol of `client.py`, the life of a loop around it, pause, quit and cancellation; refines `Session` |
| `Commands_proofs`, `Gambling_proofs`, `ConfigStore_proofs`, `Lifecycle_proofs`, `Rounds_proofs` | TLAPS proofs about these modules |
| `Stocks_proofs`, `Loops_proofs` | the same for the loops: the lemmas about the stock loop and about the page, and the theorems with the other loops |
| `FoldTheorems` | proved: what `FoldLeft` and `FoldSet` do with one more element, and induction over sequences, for any operator |
| `Gambling` | `gambling_loop`, goal and stop-loss handling, claims, transfers, menu edits of the limits |
| `Strategies`, `SlotStatistics` | pure: hourly filter, rolling expectation, trailing stop, backtest; the statistics of the spins and the Kelly test |
| `Rounds` | composes them: the history in memory and in the database, the statistics and their snapshots, clears, resets, crashes |
| `ConfigStore` | the live configuration, its editors, its saves and restarts |
| `Lifecycle` | `run.bat`, `main()`, login, shutdown, the keys, the updater, `/daily` and its mark |
| `LoopHealth` | the page's lock as a token and the health of the loops (`mark_loop_*`, the pause after failures) |
| `StockAnalysis` | pure: averages, the buy and sell signals with their scores, the alarms |
| `Stocks`, `News`, `Neko`, `DebugChannel` | one loop each |
| `StockPage` | what the stock and news queries read off a page where old answers stay |
| `Loops` | composes the five modules above and states their properties |
| `MC...` | instances for TLC |

### Commands

A task (`Tasks`) is a loop that uses the page. `pc` is where it stands:
paused or idle, waiting for the lock, switching channels, typing, polling,
napping between two commands, navigating back, between two operations of a cycle, gone. A cycle begins where the loop
is neither paused nor told to quit (`StartCycle`); what it sends later in the same cycle, such as the mention of a goal
or the second try of a claim, does not ask again, until `EndCycle`. `queue` is the FIFO of
`asyncio.Lock`, `owner` the loop inside, `left` the commands it may still send. The
page is the channel it shows (`Elsewhere` when it has no input box: a login page,
a browser error) and the texts in the input box; a text is its author. `Jobs`
gives the operations a loop calls (`query`, whose exceptions it catches; `bare`, whose
exceptions end it; `tell`, a plain message; `reload`, `recover_page`), which is
what tells `gambling_loop` (exceptions end it, reloads the page), `stock_loop`
(own channel, two commands in one session with a sleep in between) and
`hourly_loop` (catches) apart; `Target` gives their channels, `Naps` who sleeps inside.

Each await where another task may run is a boundary between actions: `StartCycle`
(the loop joins the queue), `Enter` (it is served), `NavigateOut`, `Snapshot` (the text
before the command), `TypeText` (click, select all, delete, insert), `CheckMessage`
(the read-back of `_send_message` and its second insert), `Submit`, `Accept` and
`Timeout` (the poll of the reply ends), `Abort` (a call of Playwright fails), `Nap`,
`NavigateBack`, `RecoverPage`. `Answer` is Discord's game bot
(external): its replies come at any time, or not at all, also to loops that gave
up. `RequestQuit`, `Stop` and `CancelAll` are the shutdown of `main()`.

### Gambling

`real` is the balance the game keeps and `balance` what the bot believes;
they differ after missed replies, transfers and a `/slot` read before its prize.
`Decide` is one pass from the top of the loop to its next await (`AskUnknown`,
`StopLoss`, `AskLow`, `PlaceBet`); `SlotSend` and `SlotReply` are the command and
its processing, `SlotStored` the goal check after the database write and the
mail, `Query` and `Reload` the branches of failure. The goal handling is
`GoalCheck` (inside the caller's step, as there is no await before it), `Mention`,
`GoalAct`, `GoalSaved`; the stop loss `StopLoss`, `LossAct`, `LossSaved`. The claims are
two steps each. A round that a strategy skips changes nothing here and is a
stuttering step; the rolling multiplier is a choice from `Halves`. E-mail is taken
as enabled. The configuration is one object here; that the dashboard may replace
it under the handling's feet is the subject of `ConfigStore`.

Amounts are counted in small units. The bounds are `MaxBalance` (prizes and
claims that would exceed it do not happen) and the sets the menu chooses from.

### ConfigStore

`heap` holds the configuration objects, `holder` is `config_holder[0]`, `obj` the
object each writer works on: identity matters, for the menu and the handlings
edit in place the object they captured, while a request of the dashboard edits a
copy and installs it later. A section holds the number of the edit that wrote it
last. `save_config` is `BeginSave`/`Resume` (a section is dumped and waits for the
database's lock, `queue`) and `Write`; `Finish` is its return. `GiveUp` is the
five-second timeout of the request while the save goes on, `WriteFails` an
exception of the database (in the menu it ends the program), `Restart` an end of
the program at any step, followed by `load_config`. Validation that fails is a
stuttering step. The copy a request makes, and its validation, are one step,
though the thread could be interrupted in between.
Bounds: `MaxEdits`, `MaxRestarts`.

### Rounds, with Strategies and SlotStatistics

One round is `Decide` (cool-down, trailing stop, hourly filter, multiplier, bet), `Process`
(`_process_slot_result`: the statistics and the list), `AppendHistory` (row and trim; or the row alone,
for each statement commits by itself; or neither) and `Save` (a snapshot every `SaveEvery` spins).
What a spin changes is `Change`: the prize less the bet or the loss the embed names, or, when no
result could be read from it, the difference of two balances, which other commands may have made
any number (`gambling.py:343`). So a loss may exceed the bet; the screen's table by hour counts
nothing paid then, the hourly filter's less than nothing. The bet has the multiplier first, then the
cap `MaxBet`, then the least bet. The menu's clears run in several steps between them, the dashboard's reset in one; both share
the variable `menu`, so that they do not overlap each other. `Exit` saves, `Crash`
does not, and both load what the database holds. The strategies are functions of the
list: `Replay` is the backtest as a fold, `ComputeDrawdown` and `HourlyBreakdown` what the
screen shows. Ratios are whole per cents (1.96 counts as 2 in the confidence test).
`Gambling` and `Rounds` see the same loop from two sides: amounts and failures there,
history and strategies here.

### Lifecycle

`phase` follows the launcher and `main()`: folders, wizard, login, navigation, running,
closing, leaving with an exit code and the sentinel `data/.reboot`. The database, the login file
and the checkout outlive the process. `Keys`, `DashboardRestart`, `RecoverPage` (expired
session, reload failures) and the updater set `quit` and `reboot`; `ui` is the view, the
menu or a view that blocks the event loop. `/daily` is decided, sent and marked in three
steps, with days that pass. Commits are numbers; `Push` and `LocalCommit` move
the remote and the checkout. History variables count who asked for a restart
(`wanted`), restarts after failed navigations (`autoFails`) and claims without a mark (`unmarked`).

### Loops

`Stocks` is `_poll_once` step by step: list, portfolio, the clear and the row-by-row
write of the holdings, short positions, tracked symbols, the check of the prices, the
rows one by one, signals and alarms, and the snapshot after the page was given
back. Answers are what the parsers give, from small sets. A wish for a poll
may come at any time. `RaisePoll` is an exception in any step, also between two rows, `RestartStocks` an end of the program.
`News` asks for each symbol of the snapshot as it was before the wait for the lock, stores,
and tells afterwards: told is what was handed to `notify_stock_news`, of which the owner may see less. Stock and news meet at the lock and the snapshot.
`Neko` reads the cat's state from a page of `View` messages: the answer to
`/check`, late or never, old ones included; then claim, click, notification, second look.
`DebugChannel` is the handler, the bounded queue and the sending loop.

`StockPage` opens up what `Stocks` and `News` take as given: messages pile up and scroll out,
`_stock_reply_detected` and the 200 characters decide that something was answered,
`_slice_after_anchor` cuts out what is new, the last button of a name is pressed, and
the parsers collect every symbol in what is left. A symbol's position in the game may end at any time.

Each behaviour is of one of the `Setups` (stock, stock and news, the page, cat, debug), as
these share nothing but the lock, whose fairness is the subject of `Commands`.
Simplifications: all sections are enabled; time is in chunks of the loops' sleeps; the cat's
deadline is left out (a check may come at any time); a streak of failures is counted up
to the pause only; mails and messages that fail are only logged by the code and so are not steps.

## Runs

| Run | Shows | Instance |
|---|---|---|
| `commands` | `TypeOK`, `OneInside`, `TextsAreWhole`, `RepliesNotCrossed`, `HomeAgain`, `Served`, `ShutdownCompletes`, `ImplementsSession` | three loops, one of each kind of exception handling; two channels; two commands in a session; one answer still on its way; reload after two failures |
| `gambling` | `TypeOK`, `FloorKept`, `PauseBinds`, `GoalOnce`, `AlarmTimely`, `CoolsDown`, `GoalEnds` | a gambler and one claiming loop; balances 0..4, bets 1..2, multipliers 1 and 2; raising and lowering plans; a warning after three failures, as many as reload the page |
| `rounds` | `TypeOK`, `MirrorAgrees`, `TrailingExact`, `LittleLost`, `StatsAgree`, `ReplaysAgree` | a list of three rounds, trimmed at five rows; five rounds, a high prize or a loss beyond the bet; a cap that binds; two failed writes or trims, clears, ends or new hours |
| `config_store` | `TypeOK`, `SharedSavesAgree`, `DashboardEditsStored`, `FailureLeavesMemory`, `SavesEnd` | a handling, the menu, two requests; two sections, two edits, one restart |
| `lifecycle` | `TypeOK`, `NoEndlessRestarts`, `DailyOnce`, `RestartsAsAsked`, `UpdateBringsCode`, `QuitEnds` | the code's limit of three failed navigations, two days, two commits |
| `loops` | `TypeOK`, `PricesBelievable`, `HoldingsAgree`, `NewsOnce`, `CatTold`, `ReadingsCurrent`, `ForceStartsPoll`, `QueueDrains` | two symbols, three polls, averages over two and three rows; one poll beside two news cycles; one failure; two queries and one trade on a page of four messages; six events around the cat; four log records |
| `late_reply` | violation of `OwnReply` | that of `commands` |
| `gambling_limits`, `dead_alarm` | violations of `LimitsValid`, `AlarmTimely` | that of `gambling`, with the lowering plan only; with a warning after four failures |
| `lost_setting` | violation of `AckedStays` | that of `config_store` |
| `trailing_blind`, `undone_reset` | violations of `TrailingSees`, `ResetStays` | that of `rounds` with four rounds; with a list of two in the first |

Why these bounds are enough to be worth running. Three loops are the least
where one holds the lock, one is first in the queue and one comes later, and
where a late answer, its reader and a bystander differ. Two loops that handle
goals are the least where the handling of one overlaps with the other's check
(there are four callers, in three loops, and the code treats them alike). A balance of four
units has room for a threshold, a goal, a raised goal, a bet that exceeds the
excess and one that does not. Two edits and two requests suffice for a pair of
writers to lose either's edit. A list of three rounds has room for a cool-down with two rounds before the baseline and one after it
while none has left the list (a trigger needs two rounds behind the baseline, so a list of two would be full
by then), and list and table wrap within five rounds, on either side of a cool-down, a clear or a crash.
Three failed navigations are
the code's own limit. Three polls with a history of three rows reach every signal and alarm, a price
that is refused, one that has nothing to be compared with and the pause after failures. Two queries of
the page suffice for the first's answer, a trade and the second's; four messages hold an old
answer between two that look like the end of the page. Every property of a passing run is violated when one
definition is replaced by a faulty variant that stands beside it ("Variant:" in the
comments; `PROJECT.json` pairs them).

Fairness. The bot's own steps are weakly fair: the event loop runs every task that
can go on, awaits on the page have timeouts, mails and database writes return.
Nothing is assumed of the user, except that the menu is left again and Enter pressed in a view
(`Commands`, `Lifecycle`: the shutdown waits for it); `Served` promises nothing to a loop that waits
while the bot is paused. `Mention` is strongly fair, because `asyncio.Lock` serves its waiters in
order and in `Gambling`, which leaves the queue out, that is how one says it.
`Lifecycle` lets the shutdown and `run.bat` go on, `Loops` the debug loop, which `QueueDrains`
needs. Replies, transfers, claims, edits, navigations and logins are not fair.

## Findings

Each is shown by a violating run and told with its quotes in `PROJECT.json`.

- `late_reply`: the lock does not keep a late reply from being taken by the next loop.
- `gambling_limits`: `lower_threshold` writes limits that the bot's own validation refuses, after
  which no setting can be saved from the dashboard.
- `dead_alarm`: with `dead_threshold` above 3 the warning of a dead bot is never sent.
- `lost_setting`: a setting confirmed by the dashboard is undone when the menu or a goal
  handling saves the object it captured before.
- `trailing_blind`: after a cool-down with a full list the trailing stop looks at an empty end of the list
  and never stops again.
- `undone_reset`: the menu's clearing of everything empties the table of the statistics before the object in
  memory; the snapshot of a twentieth spin in between writes the old statistics back, and a crash
  brings them back to life.

## Observations

What the models do because the code does, without a run of its own:

- After a failed switch of channel the body of `channel_context` runs wherever the navigation
  broke off, though `client.py:66` logs a fallback to the main channel.
- A reload that fails, or another loop's failed switch of channel, may leave the page without an input box.
  `gambling_loop`, the only loop that reloads it, ends with the exception of its next command (`gambling.py:286`).
  A loop with a channel of its own may still bring the page back; gambling stays dead.
- A `/balance` that fails while the bot waits below its threshold is not counted (`gambling.py:195`): a bot that is
  deaf there never warns and never reloads.
- A transfer takes money that `state.balance` does not know of (`transfer.py:66`), and a bet that waits for the lock is
  not checked again, neither against it nor against a threshold that was raised meanwhile. `FloorKept` is about
  the balance and the threshold the bet was decided on.
- When the read-back of an inserted message fails, the message is inserted again and sent with its text
  twice (`client.py:160`): `TextsAreWhole` promises one author, not one copy.
- The two tables by hour judge a round that lost more than its bet differently: `analysis.py:367` counts
  nothing as paid, `strategies.py:60` a negative amount.
- A save of the configuration that is killed between two sections leaves a mixture, which the next start loads.
- Of a batch of new items the log shows ten (`news.py:223`), and a mail goes out only where mail is on (`digest.py:283`).
- A change of the page of 200 characters counts as the answer to `/portfolio`: a long message
  of somebody else empties the holdings, since an answer without symbols reads as "all sold"
  (`stock.py:209`). If the new answer looks like the end of the old page, the cut
  is empty, the whole page is read, and stocks sold long ago are back (`client.py:806`):
  `ReadingsCurrent` exempts this case. `/stock` is read from the whole page and
  keeps the oldest entry of each symbol.
- A failed `/portfolio` empties the snapshot's holdings while the table keeps its rows; the sell
  signals vanish and are mailed again later.
- A wrong price that comes first after a start is kept: the factor of ten then refuses the right ones.
- `sell_signal` never gives "buy_more", its trend alone never reaches the default threshold, and a
  symbol can have both signals, though `analysis.py:149` says that they exclude each other.
- `analysis.py:8` describes the falling trend as price above both averages; the code tests below.
- `parse_dispatch_status` takes the first match on the page: an old "dispatching" hides the return
  of the cat until it has scrolled out.
- `db.py:560` reads `rowcount` of a connection; the exception is swallowed at `main.py:318`,
  the migration is never marked as done, and undated news are deleted, and told again, at every start.
- Debug entries that do not fit into one message are announced for the next round but have left
  the queue (`debug.py:119`).
- Q during the three seconds before the updater's restart becomes a restart; with a
  local commit ahead of the remote and automatic updates the program restarts at each check.
- A page that fails in `page.goto` itself is not counted as a failed navigation. A relogin leaves
  with exit code 42 and no sentinel. A menu that raises loses a restart that was asked for.
- A rolling multiplier of 0 does not skip the round: the least bet is applied after it (`gambling.py:90`, `98`).

## Proofs

`Commands_proofs` proves, for all sets of tasks and channels and all bounds that
satisfy `CommandsAssumption` (where `Safety` is `Spec` without its fairness):

- `TypeCorrect`, `OneLoopInside`, `WholeTextsSent`, `RepliesStayApart`, `PageComesHome`:
  `Safety => []TypeOK` and so on for each safety invariant of the run `commands`;
- `CommandsImplementsSession`: the safety part of the refinement of `Session`.

The invariant `IInv` adds to the properties what makes them inductive: `Boxes`
(what may be in the input box at each place, and whose it is), `Counts` (how many
commands a session has left), `Fresh` (a command that is unanswered is given up, or
its sender polls for it, or the shutdown has begun), `Away` (a page that is away from the main
channel has an owner who will bring it back, unless a navigation failed). They are needed
because, for instance, "the text sent is whole" says nothing about the box of a
loop that has typed but not sent. The proof has one lemma per group of
actions and the refinement is a step-by-step simulation with
the mapping of `Session`'s variables in `Commands`.

`Gambling_proofs` proves for every set of claiming loops, every configuration that satisfies
`GamblingAssumption` and all bounds: `TypeCorrect`, `FloorHolds`, `PauseHolds`, `GoalHandledOnce`,
`CoolDownHolds`, and `AlarmHolds` (`AlarmTimely`) under the hypothesis `DeadAfter <= RecoverAfter`. The hypothesis
is needed: the run `dead_alarm` violates `AlarmTimely` above it. `misses` counts every read that failed
in a row, whatever asked for it, while the code counts fewer; the reads below the threshold, which it never counts, are
those `tries` leaves out, since after them the alarm need not come (see the observations). `IInv` is the type invariant with
`Places` (what a loop knows at each of its awaits: a balance that was right when the bet was
decided, who is at which step of a handling), `Late` (bets since the stop), `Once` (handlings under
way and the flag `goal_reached`) and `Cool` (streak and cool-down at each place of a round); the
theorem about the alarm has an invariant of its own on top, `Alarm`, as it alone needs the hypothesis: until the
warning is out the page has not been reloaded, and `fail_count` is short of `tries` by at most the one `Uncounted`
read of a realignment.
None of the properties is inductive: `FloorKept` judges a bet when it is sent,
by what the loop stored several awaits earlier.

`ConfigStore_proofs` proves, for all writers, all lists of sections and all numbers of edits and
restarts that satisfy `ConfigStoreAssumption`: `TypeCorrect`, `SavesAgree`
(`SharedSavesAgree`), `EditsStored` (`DashboardEditsStored`) and `RefusedStaysOut`
(`FailureLeavesMemory`). The invariant has three layers.

- Who has what: `Lines` (a row that waits belongs to a save under way, one row per save),
  `Alone` (a request's copy is nobody else's), `Counted` (no number is used before it is given) and
  `Mine` (a request's number is in its copy only).
- `Kept`: each edit of a request that is live has been on the disk, and one still in a copy has been
  there, waits in the queue, or is in what the save has still to write. `Gone`: no object that is live, or may become
  live, has an edit that was refused.
- `Shared`: as long as no request overlapped and no write failed, either all writers work on the
  live object or one request works alone; and for every section of that object somebody has still
  to write it, or the last row of that section in the queue has its value, or there is none and the
  disk has it. That is why two saves of one object may interleave row by row, and why it
  matters that the lock serves its waiters in order.

`Lifecycle_proofs` proves, for all limits and bounds that satisfy `LifecycleAssumption`:
`TypeCorrect`, `RestartsEnd` (`NoEndlessRestarts`), `ClaimedOnce` (`DailyOnce`), and the action
properties `RestartsHandedOver` (`RestartsAsAsked`) and `UpdatesRun` (`UpdateBringsCode`).
The invariant has `Budget` (restarts in a row are at most the failures in the database, fewer while the
program logs in again), `Claimed` (a day after the mark has no claim but lost ones and the one under
way; a loop that sleeps wakes after the mark), `Asked` (the flag while the program runs, and the
sentinel or the code after it, stand for a wish) and `Pulled` (from the comparison to the
restart the checkout is, or will be, newer than what runs). `DailyOnce` alone is not inductive: it
does not say that a loop that is about to send has no claim of that day behind it.

`Rounds_proofs` proves, for every limit `MaxLen` of the list, every `Slack` of the table and all
strategies and results: `TypeCorrect`, `MirrorHolds` (`MirrorAgrees`), `TrailingHolds`
(`TrailingExact`), `SnapshotsSuffice` (`LittleLost`), `StatsHold` (`StatsAgree`) and `ReplaysHold`
(`ReplaysAgree`). The invariant has seven parts: that list and table are sequences, and
`MirrorInv` says what list and table are while a round is in one of them only, and while the menu
has dropped the rows and not yet the list; the core is `BothAppend`, that two
sequences which agree up to the limit still do after the same round, cut or not.
`TrailingInv` adds that the baseline lies within the list as long as nothing before it was lost;
the same lemma gives the case of a full list whose stop has never triggered.
`Books` and `SaveInv` follow the spins: the snapshot holds a prefix of what was played, and the
spins behind it are as many as have passed since the last multiple of `SaveEvery`; the arithmetic
is `NextRemainder` (one more spin is one more remainder, or the next snapshot). `Typed` needs that
every bet is at least the least one, hence `BetsAreBets`, about what `CalculateBet` returns for every
multiplier, while of the change it needs no more than that it is a number (`ChangeIs`). `Figured` says that the statistics are those of the spins they counted, and the snapshot's
those of its own; one more spin moves each count, sum and class by what `UpdateSlotAnalysis` adds
(`FiguresUpdated`), also when the list of high ratios is cut (`CutOnce`). That the variance is never negative
is kept spin by spin: the square of a sum is at most the number of its terms times the sum of their squares
(`Cauchy`).

`ReplaysAgree` speaks of whole folds over the list, so its proof is by induction over the list. The
induction theorems of the library take an operator as a parameter, which the provers cannot instantiate;
`FoldTheorems` therefore proves the recursion of the two folds from their definitions (well-founded
recursion over the naturals, with sets in the place of predicates) and `SequenceInduction`, for a constant
`Op` and `Base`, and `Rounds_proofs` instantiates it for each fold: sums, drawdowns, the backtest, the hour
tables, the high ratios. Each induction compares the accumulators of two folds: those of the backtest
without a strategy and of the screen (`PlainReplay`), the screen's and the sums and falls of the list
(`NetIs`, `FallsIs`), one hour's row in either table (`TablesDiffer`: they are apart by the sum of what that hour lost beyond the bets,
which `BeyondGrows` follows round by round); `ReplayCounts` is the
count of rounds played, skipped and still to be skipped, whatever the strategies decide.

`Loops_proofs` proves, for all symbols, answers, items and bounds that satisfy the assumptions of
the five modules: `TypeCorrect`, `PricesStayBelievable` (`PricesBelievable`), `HoldingsStay`
(`HoldingsAgree`), `ReadingsStayCurrent` (`ReadingsCurrent`), `NewsToldOnce` (`NewsOnce`), `CatAlwaysTold`
(`CatTold`) and the action property `ForcedPolls` (`ForceStartsPoll`). `IInv` is a conjunction of
parts, and a step of one loop is a step of its own part:

- Stocks (`Stocks_proofs`). `HoldingsInv`: while a portfolio is written the table is the part
  that is not `due` any more, and afterwards the whole, unless `torn`. `PricesInv`: each symbol that is not `loose` is measured by
  the last row it has in the table (`Measured`), by the poll's price once it is written and by the
  snapshot's before; the check against the snapshot (`PollChecked`) is then a check against
  that row, however many rows of other symbols lie between (`TableGrown`). The property alone says
  nothing of the snapshot, so it cannot be inductive. What TLC takes as answers is
  here any set of positive prices; tables of earlier runs are assumed believable, as they were written
  by the same code (`StocksAssumption`).
- The page (also in `Stocks_proofs`). While a command runs there is a mark on the page (`Mark`): everything
  behind it was written since the command, and what stands at it looks like the end of what was read
  before. The mark moves up with the page and may scroll out. The last place that looks like that end is
  never before the mark, so the cut leaves only new messages (`CutIsBehind`). With the first place instead (`CutFirst`) it does not.
- News. Each stored item was told, is in the batch, or is in `missed`; times told, plus the batch, are at most
  times removed, plus the table: a sum that each of the steps keeps.
- The cat. `ReasonsInv`: notifications sent, plus one that is due, plus one if a dispatch that was seen, or
  still stands on the page, has ended, are at most the reasons. `NoFalseTells` alone forgets that an old
  "dispatching" on the page may bring about one more. `OwedInv`: at each place, where a return that
  is owed is remembered: `last_status`, the notification under way, or the status about to be kept.
- The debug channel. `FlushEnds`: the entry that fills a message exists, so a flush is well defined and the queue stays within its limit.

Only model-checked: liveness (`Served`, `ShutdownCompletes`, `GoalEnds`, `SavesEnd`, `QuitEnds`,
`QueueDrains`), which is beyond the prover. Of the pure functions of `StockAnalysis` (averages,
signals, scores) the theorems need the results' types only, and what they compute is left to the run `loops`.
Every safety property and action property of a passing run is a theorem.

## Not modelled

Regular expressions over Discord texts, drawing, HTML, input validation, exports, e-mail,
the daily digest and encryption: no state that interleaves. The fields and ranges of the
configuration. The dashboard's snapshots and its authentication. One-off migrations of
old databases. The confirm button of a transfer and the second try of `/hourly`.

## Plan

1. `Gambling` composed with `Rounds`: one loop with balances, limits and strategies.
2. Abstract specifications: a bankroll that only a bet, a prize, a claim or a
   transfer changes, for `Gambling`; a register per section, for `ConfigStore`.
   Both with their refinements, by TLC and by proof.
3. What the two findings on limits and settings leave: theorems that say under which hypotheses
   `LimitsValid` and `AckedStays` do hold.
4. The fields of the configuration with `merge_partial` and `validate`.
