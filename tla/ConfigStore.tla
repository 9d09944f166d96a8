---------------------------- MODULE ConfigStore ----------------------------
(***************************************************************************)
(* The configuration: one live object in config_holder (main.py), changed  *)
(* in three ways, and its copy in the database, one row per section.       *)
(*  - A goal or stop-loss handling (digest.py) holds the object it started *)
(*    with over its mention and its mail, edits it in place and saves it.  *)
(*  - The menu (ui/menu.py) edits the object it was opened with, for as    *)
(*    long as the user likes, and saves it at the end.                     *)
(*  - A request of the dashboard runs in a thread of its own: it edits a   *)
(*    copy, has the event loop save the copy, and puts it in the holder    *)
(*    when the save is done, or gives up after five seconds.               *)
(* save_config writes section by section, each write waiting for the       *)
(* database's lock, so that two saves interleave. The program may end at   *)
(* any time and start again from the database.                             *)
(*                                                                         *)
(* A section holds the number of the edit that wrote it, so that one sees  *)
(* which edit survives. The copy a request makes is one step here.         *)
(***************************************************************************)
EXTENDS Naturals, Sequences, SequencesExt

CONSTANTS
  Handlers,     \* running maybe_notify_goal, maybe_handle_stop_loss
  Menu,         \* run_config_menu
  Requests,     \* POST /api/config, one thread each
  Order,        \* the sections in the order save_config writes them
  Limits,       \* those a handling edits
  MaxEdits,     \* bound: edits
  MaxRestarts   \* bound: ends of the program

Writers  == Handlers \cup {Menu} \cup Requests
Sections == ToSet(Order)

ASSUME ConfigStoreAssumption ==
  /\ Menu \notin Handlers \cup Requests
  /\ Handlers \cap Requests = {}
  /\ Order \in Seq(Sections) /\ Order # <<>>
  /\ Limits \subseteq Sections /\ Limits # {}
  /\ MaxEdits \in Nat /\ MaxRestarts \in Nat

VARIABLES
  heap,      \* the configuration objects: their sections
  holder,    \* config_holder[0]
  disk,      \* the rows of the table config
  queue,     \* the writes that wait for Database._lock, or hold it (the first)
  pc,
  obj,       \* the object each writer works on
  todo,      \* what its save has still to write
  edits,     \* the number of the last edit
  restarts,
  stored,    \* the edits the disk has seen (history variable)
  acked,     \* the last edit of each section confirmed to the dashboard (history)
  refused,   \* the edits of this run's requests that were told of a failure (history)
  posted,    \* the edits of requests (history)
  clash,     \* a request overlapped with another writer, or gave up (history)
  failed     \* a write has failed (history)

vars == <<heap, holder, disk, queue, pc, obj, todo, edits, restarts,
          stored, acked, refused, posted, clash, failed>>

historyVars == <<acked, refused, posted>>

Waits(w) == \E i \in DOMAIN queue : queue[i].by = w

Busy == {w \in Writers : pc[w] # "idle"}

\* One section of object o as save_config hands it to the database.
Row(w, o, s) == [by |-> w, section |-> s, val |-> heap'[o][s]]

-----------------------------------------------------------------------------
(* The event loop: handlings and the menu *)

\* config_provider(), at the start of a handling or of the menu.
Capture(w) ==
  /\ w \in Handlers \cup {Menu}
  /\ pc[w] = "idle"
  /\ pc' = [pc EXCEPT ![w] = "open"]
  /\ obj' = [obj EXCEPT ![w] = holder]
  /\ clash' = (clash \/ Busy \cap Requests # {})
  /\ UNCHANGED <<heap, holder, disk, queue, todo, edits, restarts, stored, historyVars, failed>>

\* save_config begins: the first section waits for the lock.
BeginSave(w) ==
  /\ pc' = [pc EXCEPT ![w] = "saving"]
  /\ queue' = Append(queue, Row(w, obj[w], Head(Order)))
  /\ todo' = [todo EXCEPT ![w] = Tail(Order)]

EditInPlace(w, s) ==
  /\ edits < MaxEdits
  /\ edits' = edits + 1
  /\ heap' = [heap EXCEPT ![obj[w]][s] = edits + 1]

\* The mention and the mail are over: the limits are moved and saved.
Handle(h) ==
  /\ pc[h] = "open"
  /\ \E s \in Limits : EditInPlace(h, s)
  /\ BeginSave(h)
  /\ UNCHANGED <<holder, disk, obj, restarts, stored, historyVars, clash, failed>>

\* A setting of one of the sub-menus.
MenuEdit ==
  /\ pc[Menu] = "open"
  /\ \E s \in Sections : EditInPlace(Menu, s)
  /\ UNCHANGED <<holder, disk, queue, pc, obj, todo, restarts, stored, historyVars, clash, failed>>

\* "Save and return": valid or not.
MenuClose ==
  /\ pc[Menu] = "open"
  /\ UNCHANGED heap
  /\ BeginSave(Menu)
  /\ UNCHANGED <<holder, disk, obj, edits, restarts, stored, historyVars, clash, failed>>

-----------------------------------------------------------------------------
(* Saves *)

\* Variant: the lock is kept after a write.
WriteKeepingLock ==
  /\ queue # <<>>
  /\ disk' = [disk EXCEPT ![Head(queue).section] = Head(queue).val]
  /\ stored' = stored \cup {Head(queue).val}
  /\ UNCHANGED <<heap, holder, queue, pc, obj, todo, edits, restarts, historyVars, clash, failed>>

\* Variant: the last to ask for the lock is served first.
WriteLast ==
  /\ queue # <<>>
  /\ disk' = [disk EXCEPT ![Last(queue).section] = Last(queue).val]
  /\ stored' = stored \cup {Last(queue).val}
  /\ queue' = Front(queue)
  /\ UNCHANGED <<heap, holder, pc, obj, todo, edits, restarts, historyVars, clash, failed>>

\* The first in the queue writes its row.
Write ==
  /\ queue # <<>>
  /\ disk' = [disk EXCEPT ![Head(queue).section] = Head(queue).val]
  /\ stored' = stored \cup {Head(queue).val}
  /\ queue' = Tail(queue)
  /\ UNCHANGED <<heap, holder, pc, obj, todo, edits, restarts, historyVars, clash, failed>>

\* A save whose row is written goes on with the next section.
Resume(w) ==
  /\ pc[w] \in {"saving", "orphan"} /\ ~Waits(w)
  /\ todo[w] # <<>>
  /\ UNCHANGED heap
  /\ queue' = Append(queue, Row(w, obj[w], Head(todo[w])))
  /\ todo' = [todo EXCEPT ![w] = Tail(@)]
  /\ UNCHANGED <<holder, disk, pc, obj, edits, restarts, stored, historyVars, clash, failed>>

\* save_config returns: on_config_save_async puts the object in the holder, a
\* request's future has its result, and nobody waits for an orphan's.
Finish(w) ==
  /\ pc[w] \in {"saving", "orphan"} /\ ~Waits(w)
  /\ todo[w] = <<>>
  /\ holder' = IF w \in Requests THEN holder ELSE obj[w]
  /\ pc' = [pc EXCEPT ![w] = IF w \in Requests /\ @ = "saving" THEN "done" ELSE "idle"]
  /\ UNCHANGED <<heap, disk, queue, obj, todo, edits, restarts, stored, historyVars, clash, failed>>

-----------------------------------------------------------------------------
(* The program ends, and starts again with load_config *)

\* Variant: those who work on the configuration keep their objects.
RestartedOnOldObjects ==
  /\ heap' = <<disk>>
  /\ holder' = 1
  /\ queue' = <<>>
  /\ pc' = [w \in Writers |-> "idle"]
  /\ todo' = [w \in Writers |-> <<>>]
  /\ restarts' = restarts + 1
  /\ refused' = {} /\ clash' = FALSE /\ failed' = FALSE
  /\ UNCHANGED <<disk, obj, edits, stored, acked, posted>>

Restarted ==
  /\ heap' = <<disk>>
  /\ holder' = 1
  /\ queue' = <<>>
  /\ pc' = [w \in Writers |-> "idle"]
  /\ obj' = [w \in Writers |-> 1]
  /\ todo' = [w \in Writers |-> <<>>]
  /\ restarts' = restarts + 1
  /\ refused' = {} /\ clash' = FALSE /\ failed' = FALSE
  /\ UNCHANGED <<disk, edits, stored, acked, posted>>

Restart ==
  /\ restarts < MaxRestarts
  /\ Restarted

\* The edit of a request: the last one its copy has, for nobody else has the copy.
Own(r) == Max({heap[obj[r]][s] : s \in Sections})

\* The first write raises (the database is locked, the disk is full). The menu's
\* exception ends the program; a request is told.
WriteFails ==
  /\ queue # <<>>
  /\ LET w == Head(queue).by IN
       IF w = Menu
       THEN restarts < MaxRestarts /\ Restarted
       ELSE /\ queue' = Tail(queue)
            /\ pc' = [pc EXCEPT ![w] = "idle"]
            /\ todo' = [todo EXCEPT ![w] = <<>>]
            /\ failed' = TRUE
            /\ refused' = IF w \in Requests THEN refused \cup {Own(w)} ELSE refused
            /\ UNCHANGED <<heap, holder, disk, obj, edits, restarts, stored, acked, posted, clash>>

-----------------------------------------------------------------------------
(* Requests of the dashboard *)

\* Variant: the live object is edited instead of a copy.
PostInPlace(r) ==
  /\ pc[r] = "idle"
  /\ edits < MaxEdits
  /\ \E s \in Sections :
       /\ heap' = [heap EXCEPT ![holder][s] = edits + 1]
       /\ edits' = edits + 1
  /\ posted' = posted \cup {edits + 1}
  /\ obj' = [obj EXCEPT ![r] = holder]
  /\ todo' = [todo EXCEPT ![r] = Order]
  /\ pc' = [pc EXCEPT ![r] = "saving"]
  /\ clash' = (clash \/ Busy # {})
  /\ UNCHANGED <<holder, disk, queue, restarts, stored, acked, refused, failed>>

\* The live configuration is copied, the copy edited and found valid, and its
\* save scheduled in the event loop.
Post(r) ==
  /\ pc[r] = "idle"
  /\ edits < MaxEdits
  /\ \E s \in Sections : heap' = Append(heap, [heap[holder] EXCEPT ![s] = edits + 1])
  /\ edits' = edits + 1
  /\ posted' = posted \cup {edits + 1}
  /\ obj' = [obj EXCEPT ![r] = Len(heap')]
  /\ todo' = [todo EXCEPT ![r] = Order]
  /\ pc' = [pc EXCEPT ![r] = "saving"]
  /\ clash' = (clash \/ Busy # {})
  /\ UNCHANGED <<holder, disk, queue, restarts, stored, acked, refused, failed>>

\* Variant: the result is not waited for.
InstallEarly(r) ==
  /\ pc[r] \in {"saving", "done"}
  /\ holder' = obj[r]
  /\ acked' = [s \in Sections |-> IF heap[obj[r]][s] = Own(r) THEN Own(r) ELSE acked[s]]
  /\ pc' = [pc EXCEPT ![r] = IF @ = "done" THEN "idle" ELSE "orphan"]
  /\ UNCHANGED <<heap, disk, queue, obj, todo, edits, restarts, stored, refused, posted, clash, failed>>

\* The result is there in time: the copy goes live and the dashboard is told.
Install(r) ==
  /\ pc[r] = "done"
  /\ holder' = obj[r]
  /\ acked' = [s \in Sections |-> IF heap[obj[r]][s] = Own(r) THEN Own(r) ELSE acked[s]]
  /\ pc' = [pc EXCEPT ![r] = "idle"]
  /\ UNCHANGED <<heap, disk, queue, obj, todo, edits, restarts, stored, refused, posted, clash, failed>>

\* Five seconds are over: the dashboard is told of a failure; the save goes on.
GiveUp(r) ==
  /\ pc[r] = "saving"
  /\ pc' = [pc EXCEPT ![r] = "orphan"]
  /\ refused' = refused \cup {Own(r)}
  /\ clash' = TRUE
  /\ UNCHANGED <<heap, holder, disk, queue, obj, todo, edits, restarts, stored, acked, posted, failed>>

-----------------------------------------------------------------------------
Init ==
  /\ heap = <<[s \in Sections |-> 0]>>
  /\ holder = 1
  /\ disk = [s \in Sections |-> 0]
  /\ queue = <<>>
  /\ pc = [w \in Writers |-> "idle"]
  /\ obj = [w \in Writers |-> 1]
  /\ todo = [w \in Writers |-> <<>>]
  /\ edits = 0 /\ restarts = 0
  /\ stored = {0}
  /\ acked = [s \in Sections |-> 0]
  /\ refused = {} /\ posted = {}
  /\ clash = FALSE /\ failed = FALSE

Next ==
  \/ \E w \in Writers : Capture(w) \/ Resume(w) \/ Finish(w)
  \/ \E h \in Handlers : Handle(h)
  \/ MenuEdit \/ MenuClose
  \/ Write \/ WriteFails \/ Restart
  \/ \E r \in Requests : Post(r) \/ Install(r) \/ GiveUp(r)

\* The event loop and the threads go on; the user need not.
Fairness ==
  /\ WF_vars(Write)
  /\ \A w \in Writers : WF_vars(Resume(w)) /\ WF_vars(Finish(w))
  /\ \A r \in Requests : WF_vars(Install(r))

Safety == Init /\ [][Next]_vars
Spec == Safety /\ Fairness

-----------------------------------------------------------------------------
(* Properties *)

\* The shape of the state.
TypeOK ==
  /\ heap \in Seq([Sections -> 0 .. MaxEdits])
  /\ holder \in DOMAIN heap
  /\ disk \in [Sections -> 0 .. MaxEdits]
  /\ queue \in Seq([by : Writers, section : Sections, val : 0 .. MaxEdits])
  /\ pc \in [Writers -> {"idle", "open", "saving", "orphan", "done"}]
  /\ obj \in [Writers -> DOMAIN heap]
  /\ todo \in [Writers -> Seq(Sections)]
  /\ edits \in 0 .. MaxEdits /\ restarts \in 0 .. MaxRestarts
  /\ stored \cup refused \cup posted \subseteq 0 .. MaxEdits
  /\ acked \in [Sections -> 0 .. MaxEdits]
  /\ clash \in BOOLEAN /\ failed \in BOOLEAN

\* config.py:522, db.py:191: handlings and the menu edit one object in place and
\* save it while others edit it or save it as well; still, once nobody works on the
\* configuration, disk and memory agree, as long as no request overlapped with
\* somebody else and no write failed.
SharedSavesAgree == Busy = {} /\ ~clash /\ ~failed => disk = heap[holder]

\* main.py:521-524: what the dashboard changed is seen by the loops, and
\* confirmed, only after it has been on the disk, whoever else saves meanwhile.
DashboardEditsStored ==
  \A s \in Sections : ({heap[holder][s]} \cap posted) \cup {acked[s]} \subseteq stored

\* main.py:511: a request that failed, or gave up, changes nothing of the running
\* configuration, although its save may go on.
FailureLeavesMemory == \A s \in Sections : heap[holder][s] \notin refused

\* A save ends, and so does a request, however the others save, fail or end.
SavesEnd ==
  \A w \in Handlers \cup Requests : pc[w] \in {"saving", "orphan", "done"} ~> pc[w] = "idle"

\* main.py:458: with the reference they share, the loops always get the latest
\* configuration: what the dashboard was told is live, or a later edit is.
AckedStays == Busy = {} => \A s \in Sections : heap[holder][s] >= acked[s]
============================================================================
