---------------------------- MODULE DebugChannel ----------------------------
(***************************************************************************)
(* debug_loop of bot/scheduler/debug.py and the handler that feeds it      *)
(* (UILogHandler.emit, main.py:100): warnings and errors wait in           *)
(* state.debug_pending until the loop sends them to a channel. Whatever    *)
(* the loop itself logs must not enter the queue, or a channel that fails  *)
(* would feed it for ever.                                                 *)
(***************************************************************************)
EXTENDS LoopHealth, Sequences, FiniteSets

CONSTANTS
  PendingMax,   \* maxlen of state.debug_pending
  MaxPerFlush,  \* DebugConfig.max_per_flush
  MinLevel      \* DebugConfig.min_level

ASSUME DebugAssumption == PendingMax \in Nat \ {0} /\ MaxPerFlush \in Nat \ {0} /\ MinLevel \in Nat

VARIABLES
  debugPc,
  pending,      \* state.debug_pending: the levels of its entries
  debugOn,      \* DebugConfig.enabled, with a channel
  logs          \* records of other tasks, and visits of the menu, still to come (bound)

debugVars == <<debugPc, pending, debugOn, logs>>

Levels == {30, 40}

DebugInit == debugPc = "start" /\ pending = <<>> /\ debugOn \in BOOLEAN

-----------------------------------------------------------------------------
(* UILogHandler.emit: WARNING and above, except in the task "debug". A full *)
(* queue drops its oldest entry.                                            *)

\* Variant: the records of the loop itself are queued too.
EmitAlways(queue, level, task) ==
  LET longer == Append(queue, level)
  IN IF Len(longer) > PendingMax THEN Tail(longer) ELSE longer

\* Variant: the queue has no limit.
EmitUnbounded(queue, level, task) == IF task = "debug" THEN queue ELSE Append(queue, level)

Emit(queue, level, task) ==
  LET longer == Append(queue, level)
  IN IF task = "debug" THEN queue
     ELSE IF Len(longer) > PendingMax THEN Tail(longer) ELSE longer

OtherTaskLogs ==
  /\ logs > 0 /\ logs' = logs - 1
  /\ \E level \in Levels : pending' = Emit(pending, level, "other")
  /\ UNCHANGED <<debugPc, debugOn>>

MenuSwitch ==
  /\ logs > 0 /\ logs' = logs - 1
  /\ debugOn' = ~debugOn
  /\ UNCHANGED <<debugPc, pending>>

\* The debug page of the menu: a test entry, or an empty queue.
MenuDebug ==
  /\ logs > 0 /\ logs' = logs - 1
  /\ \/ debugOn /\ pending' = Emit(pending, 30, "menu")
     \/ pending' = <<>>
  /\ UNCHANGED <<debugPc, debugOn>>

-----------------------------------------------------------------------------
(* debug_loop *)

\* What came in during the start is thrown away.
DebugStarts ==
  /\ debugPc = "start" /\ debugPc' = "top" /\ pending' = <<>>
  /\ UNCHANGED <<debugOn, logs, health>>

\* Switched off, the loop only empties the queue.
Disabled ==
  /\ debugPc = "top" /\ ~debugOn /\ pending' = <<>>
  /\ UNCHANGED <<debugPc, debugOn, logs, health>>

StartCoolDown ==
  /\ debugPc = "top" /\ debugOn /\ IsAutoPaused("debug") /\ debugPc' = "cooling"
  /\ pending' = Emit(pending, 30, "debug")
  /\ UNCHANGED <<debugOn, logs, health>>

EndCoolDown ==
  /\ debugPc = "cooling" /\ debugPc' = "drain"
  /\ health' = [health EXCEPT !["debug"] = Healthy]
  /\ UNCHANGED <<pending, debugOn, logs>>

\* _drain_pending: MaxPerFlush entries to send; those below MinLevel are dropped on the way.
Drains(n) ==
  LET high == {i \in 1 .. n : pending[i] >= MinLevel}
  IN \/ Cardinality(high) < MaxPerFlush /\ n = Len(pending)
     \/ Cardinality(high) = MaxPerFlush /\ n \in high

DrainPending ==
  /\ \/ debugPc = "drain"
     \/ debugPc = "top" /\ debugOn /\ ~IsAutoPaused("debug")
  /\ LET n == CHOOSE n \in 0 .. Len(pending) : Drains(n)
     IN /\ pending' = SubSeq(pending, n + 1, Len(pending))
        /\ IF \E i \in 1 .. n : pending[i] >= MinLevel
           THEN debugPc' = "send" /\ MarkRunning("debug")
           ELSE debugPc' = "top" /\ MarkOk("debug")
  /\ UNCHANGED <<debugOn, logs>>

\* A message that does not go out is logged, counted, and not tried again.
SendDebug ==
  /\ debugPc = "send" /\ debugPc' = "top"
  /\ \/ MarkOk("debug") /\ UNCHANGED pending
     \/ MarkFailed("debug") /\ pending' = Emit(pending, 40, "debug")
  /\ UNCHANGED <<debugOn, logs>>

DebugStep == \/ DebugStarts \/ Disabled \/ StartCoolDown \/ EndCoolDown \/ DrainPending \/ SendDebug

DebugNext == DebugStep \/ ((OtherTaskLogs \/ MenuSwitch \/ MenuDebug) /\ UNCHANGED health)
=============================================================================
