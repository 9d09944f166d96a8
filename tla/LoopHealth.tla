----------------------------- MODULE LoopHealth -----------------------------
(***************************************************************************)
(* What the loops of bot/scheduler share besides the configuration: the    *)
(* lock of the page (Commands has its details) and the health of each loop *)
(* that bot/core/state.py keeps: after PauseAt failures in a row a loop is *)
(* "auto_paused" and cools down before it tries again.                     *)
(***************************************************************************)
EXTENDS Naturals

CONSTANT PauseAt    \* LOOP_AUTO_PAUSE_THRESHOLD

ASSUME LoopHealthAssumption == PauseAt \in Nat \ {0}

VARIABLES
  lock,     \* command_lock: "free", or the loop inside channel_context
  health    \* state.loop_health: status and fail_streak of each loop

LoopNames == {"stock", "news", "neko", "debug"}
Statuses  == {"idle", "running", "ok", "failed", "auto_paused"}

Healthy == [status |-> "idle", streak |-> 0]

LoopHealthInit == lock = "free" /\ health = [l \in LoopNames |-> Healthy]

MarkRunning(l) == health' = [health EXCEPT ![l].status = "running"]
MarkOk(l)      == health' = [health EXCEPT ![l] = [status |-> "ok", streak |-> 0]]

\* The streak is only compared with PauseAt, so that it is counted no further.
MarkFailed(l) ==
  LET streak == IF health[l].streak < PauseAt THEN health[l].streak + 1 ELSE PauseAt
  IN health' = [health EXCEPT ![l] =
       [status |-> IF streak >= PauseAt THEN "auto_paused" ELSE "failed", streak |-> streak]]

IsAutoPaused(l) == health[l].status = "auto_paused"

Acquire(l) == lock = "free" /\ lock' = l
Release(l) == lock = l /\ lock' = "free"
=============================================================================
